-------------------------- MODULE MCFirebirdRewriter --------------------------
(* Queries of up to five characters for FirebirdRewriter. *)
EXTENDS FirebirdRewriter

(* A name character, the colon and a separator: enough for a name used    *)
(* twice (":a :a") and for colons that start no name ("::", ": ").         *)
MCAlphabet == {"a", ":", " "}

MCMaxLen == 5
====
