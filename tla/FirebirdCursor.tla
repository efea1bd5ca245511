---------------------------- MODULE FirebirdCursor ----------------------------
(***************************************************************************)
(* What a statement's cursor promises the front end, without the engine's *)
(* calls, the into elements or the failures: a result set is opened by an *)
(* execute, a fetch takes some of the rows it still holds and reports     *)
(* exactly those through get_number_of_rows(), the end of the row set is  *)
(* reported only when no row is left, and no fetch happens on a result    *)
(* set that is closed or already at its end.                              *)
(*                                                                         *)
(* FirebirdStatement implements this specification under the mapping that *)
(* takes rows to cursor, fetched to rowsFetched, exhausted to endOfRowSet *)
(* and executions to execs (FirebirdStatement!CursorRefinement).          *)
(***************************************************************************)
EXTENDS Integers, TLAPS

CONSTANT MaxRows   \* the most rows a result set holds

VARIABLES
    rows,        \* the rows the open result set still holds, or NoRows
    fetched,     \* the rows the last fetch delivered
    exhausted,   \* the end of the row set has been reported
    executions   \* the execute() calls so far

NoRows == -1

vars == <<rows, fetched, exhausted, executions>>

Init ==
    /\ rows = NoRows
    /\ fetched = 0
    /\ exhausted = FALSE
    /\ executions = 0

(* A fetch of k of the from rows that remain; the end may be reported   *)
(* only when none is left.                                                *)
Deliver(from, k) ==
    /\ rows' = from - k
    /\ fetched' = k
    /\ exhausted' \in BOOLEAN
    /\ exhausted' => rows' = 0

(* execute() opens a result set of r rows, and may fetch from it at once. *)
Open ==
    /\ executions' = executions + 1
    /\ \E r \in 0..MaxRows :
          \/ rows' = r /\ exhausted' = FALSE /\ UNCHANGED fetched
          \/ \E k \in 0..r : Deliver(r, k)

(* fetch() on an open result set that has not reported its end. *)
Take ==
    /\ rows # NoRows /\ ~exhausted
    /\ \E k \in 0..rows : Deliver(rows, k)
    /\ UNCHANGED executions

(* The result set is closed, by a prepare or by an execute that opens no  *)
(* new one; the end flag is either reset or kept, the count is kept.     *)
Close ==
    /\ rows' = NoRows
    /\ exhausted' \in {exhausted, FALSE}
    /\ executions' \in {executions, executions + 1}
    /\ UNCHANGED fetched

(* An execute refused before it touches the cursor (checkSize, or a use  *)
(* element that does not convert).                                        *)
Refuse ==
    /\ executions' = executions + 1
    /\ UNCHANGED <<rows, fetched, exhausted>>

Next == Open \/ Take \/ Close \/ Refuse

Spec == Init /\ [][Next]_vars

TypeOK ==
    /\ rows \in {NoRows} \cup 0..MaxRows
    /\ fetched \in 0..MaxRows
    /\ exhausted \in BOOLEAN
    /\ executions \in Nat

\* The end of the row set is reported only when the open result set has no
\* row left or after it was closed: no row is lost by a fetch that returns
\* at once because the end was already reported.
EndMeansEmpty == exhausted => rows \in {0, NoRows}

\* Every behaviour of the cursor keeps EndMeansEmpty: a fetch reports the
\* end only with no row left, an execute that opens a result set clears the
\* flag or fetches, and a close leaves no result set at all.
THEOREM EndIsEmpty == Spec => []EndMeansEmpty
<1>1. Init => EndMeansEmpty
  BY DEF Init, EndMeansEmpty
<1>2. EndMeansEmpty /\ [Next]_vars => EndMeansEmpty'
  <2> SUFFICES ASSUME EndMeansEmpty, [Next]_vars PROVE EndMeansEmpty'
    OBVIOUS
  <2>1. ASSUME NEW from, NEW k, Deliver(from, k) PROVE EndMeansEmpty'
    BY <2>1 DEF Deliver, EndMeansEmpty
  <2>2. CASE Open
    BY <2>1, <2>2 DEF Open, EndMeansEmpty
  <2>3. CASE Take
    BY <2>1, <2>3 DEF Take
  <2>4. CASE Close
    BY <2>4 DEF Close, EndMeansEmpty, NoRows
  <2>5. CASE Refuse \/ UNCHANGED vars
    BY <2>5 DEF Refuse, vars, EndMeansEmpty
  <2>. QED
    BY <2>2, <2>3, <2>4, <2>5 DEF Next
<1>. QED
  BY <1>1, <1>2, PTL DEF Spec
=============================================================================
