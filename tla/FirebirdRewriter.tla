--------------------------- MODULE FirebirdRewriter ---------------------------
(***************************************************************************)
(* The named-parameter rewriter of prepare(): rewriteParameters            *)
(* (statement.cpp 97-165) turns every :name outside a quoted literal into  *)
(* the engine's positional marker ? and fills names_, the map from a name  *)
(* to its position; get_parameter_name (563-574) answers the name of a     *)
(* position from that map.                                                 *)
(*                                                                         *)
(* A query is a sequence of one-character strings over Alphabet; the      *)
(* characters that matter are ' (quote), : (colon) and the name           *)
(* characters.  The query is typed one character at a time, so that every *)
(* query up to MaxLen characters is rewritten.                             *)
(***************************************************************************)
EXTENDS Integers, Sequences, SequencesExt, TLC

CONSTANTS
    Alphabet,     \* the characters a query is made of
    MaxLen        \* the longest query checked

(* std::isalnum(c) || c == '_' over the letters and digits of ASCII. *)
NameChars == {"a", "b", "c", "x", "y", "z", "0", "1", "_"}

IsNameChar(c) == c \in NameChars

(***************************************************************************)
(* The scanner's state: the automaton state, the name being read, the      *)
(* position counter, the text written so far, names_ (a function from     *)
(* names to positions) and phs, the name each ? was written for (the      *)
(* name the query's author gave that parameter).                          *)
(***************************************************************************)
RewriteInit ==
    [st |-> "normal", name |-> <<>>, pos |-> 0, out |-> <<>>,
     names |-> <<>>, phs |-> <<>>]

(* names_.insert(std::pair(name, position++)): std::map::insert keeps the *)
(* position of a name that is already in the map.                         *)
Register(s) ==
    [s EXCEPT !.names = IF s.name \in DOMAIN s.names THEN @
                        ELSE (s.name :> s.pos) @@ @,
              !.pos = @ + 1,
              !.phs = Append(@, s.name),
              !.name = <<>>]

(* One turn of the loop over the query's characters (statement.cpp 110-158). *)
RewriteStep(s, c) ==
    IF s.st = "normal" THEN
        IF c = "'" THEN [s EXCEPT !.out = Append(@, c), !.st = "quotes"]
        ELSE IF c = ":" THEN [s EXCEPT !.st = "name"]
        ELSE [s EXCEPT !.out = Append(@, c)]
    ELSE IF s.st = "quotes" THEN
        [s EXCEPT !.out = Append(@, c),
                  !.st = IF c = "'" THEN "normal" ELSE "quotes"]
    ELSE IF IsNameChar(c) THEN [s EXCEPT !.name = Append(@, c)]
    ELSE [Register(s) EXCEPT !.out = @ \o <<"?", c>>, !.st = "normal"]

(* A name that ends the query is registered too (statement.cpp 158-164). *)
RewriteEnd(s) ==
    IF s.st = "name" THEN [Register(s) EXCEPT !.out = Append(@, "?")] ELSE s

RewriteParameters(src) == RewriteEnd(FoldLeft(RewriteStep, RewriteInit, src))

(* get_parameter_name(index): the name whose position is index, or "". *)
GetParameterName(names, index) ==
    IF \E n \in DOMAIN names : names[n] = index
    THEN CHOOSE n \in DOMAIN names : names[n] = index
    ELSE <<>>

-----------------------------------------------------------------------------
VARIABLE query

Init == query = <<>>

(* The application's query grows by one character. *)
Type(c) ==
    /\ Len(query) < MaxLen
    /\ query' = Append(query, c)

Next == \E c \in Alphabet : Type(c)

Spec == Init /\ [][Next]_query

Rewritten == RewriteParameters(query)

TypeOK == query \in Seq(Alphabet)

(* Every parameter the query names can be found by its position: the name *)
(* get_parameter_name answers for position i is the name written at the   *)
(* i-th placeholder (spec 4.3: the map is consumed for bind-by-name       *)
(* lookups and for reporting a parameter's name given its position).      *)
(* An empty name (a colon not followed by a name) is left aside.           *)
ParameterNamesByPosition ==
    \A i \in 1..Len(Rewritten.phs) :
        Rewritten.phs[i] # <<>> => GetParameterName(Rewritten.names, i - 1) = Rewritten.phs[i]

====
