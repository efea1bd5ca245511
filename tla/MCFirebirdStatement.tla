------------------------- MODULE MCFirebirdStatement -------------------------
(* Small instances of FirebirdStatement for TLC. *)
EXTENDS FirebirdStatement

(* A query with at most one input parameter and one output column, result *)
(* sets and use vectors of up to two rows: two rows are what a partial    *)
(* fetch, a failure after a row and the sum over a vector need.            *)
MCMaxParams == 1
MCMaxRows == 2
MCMaxExec == 2

(* Every failure but the metadata calls' (which the engine raises only for *)
(* a position past the field count).                                       *)
MCFaults == {"prepare", "execute", "openCursor", "fetchNext", "convert"}

(* The bulk count question needs no failure. *)
MCNoFaults == {}

====
