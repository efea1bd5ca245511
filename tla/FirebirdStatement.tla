-------------------------- MODULE FirebirdStatement --------------------------
(***************************************************************************)
(* One statement of the Firebird backend and its exchange of rows:          *)
(* binding (params_helper.h), prepare's resets, execute (scalar and vector  *)
(* use elements, statements with and without a cursor), fetch, the row     *)
(* exchange into the into elements and get_affected_rows (statement.cpp).  *)
(*                                                                         *)
(* The handles themselves are FirebirdSession's business: here a prepared   *)
(* statement is stmtp = TRUE and a cursor is the number of rows it still   *)
(* holds (NoCursor when cursor_ is null).  Values are left out: a use or   *)
(* into element is a slot record, and a conversion of a value that throws  *)
(* (setTextParam, to_isc, from_isc, tmEncode ...) is the fault "convert".  *)
(*                                                                         *)
(* What the SOCI front end does (it is not in this repository) is taken   *)
(* from spec.md: it binds the use elements of one statement in order, by   *)
(* position or by name, all scalar or all vector; it executes a prepared   *)
(* statement only; it fetches one row into scalar into elements and up to  *)
(* the vector size into vector ones.                                       *)
(***************************************************************************)
EXTENDS Integers, Sequences, FiniteSets

CONSTANTS
    MaxParams,      \* bound on the number of input parameters of a query
    MaxRows,        \* bound on the rows of a result set and of a use vector
    MaxExec,        \* bound on the number of execute() calls
    Faults          \* the native calls and conversions that may throw

StmtFaultKinds == {"prepare", "metadata", "execute", "openCursor", "fetchNext", "convert"}

ASSUME StatementAssumption ==
    /\ MaxParams \in Nat /\ MaxRows \in Nat /\ MaxExec \in Nat
    /\ Faults \subseteq StmtFaultKinds

Fails(k) == k \in Faults

NoCursor == -1

(* The statement types the engine reports, by what execute() does with     *)
(* them: a cursor (FLAG_HAS_CURSOR), no cursor and no output (DML), and no *)
(* cursor with one output row (an executable procedure returning values).  *)
Kinds == {"select", "dml", "proc"}

OutCount(k) == IF k = "dml" THEN 0 ELSE 1

HasCursor(k) == k = "select"

(* The records a single engine execute may affect. *)
Affects == 0..1

Slot == [vec : BOOLEAN, byName : BOOLEAN, buf : BOOLEAN]

VARIABLES
    stmtp,            \* stmtp_ is set: the statement is prepared
    kind,             \* the prepared statement's type
    inCount,          \* in_meta_->getCount()
    named,            \* names_ maps the parameters' names (":name" query)
    boundByName,      \* boundByName_
    boundByPos,       \* boundByPos_
    useType,          \* useType_: "standard" or "vector"
    intoType,         \* intoType_
    uses,             \* uses_: the registered use slots
    intos,            \* intos_: the registered into slots
    cursor,           \* rows left in cursor_, or NoCursor
    endOfRowSet,      \* endOfRowSet_
    rowsFetched,      \* rowsFetched_ (get_number_of_rows())
    rowsAffectedBulk, \* rowsAffectedBulk_
    engineAffected,   \* what stmtp_->getAffectedRecords() returns
    execs,            \* execute() calls so far (bounded by MaxExec)
    phase,            \* the front end's phase: "bind" after prepare, "run" after execute
    lastExec,         \* how the last execute() ended: "none", "ok", "failed", "partial"
    affected,         \* records the last execute() really changed
    misuse            \* a slot was exchanged although prepare_field never set its buffer

bindVars  == <<boundByName, boundByPos, useType, intoType, uses, intos>>
rowVars   == <<cursor, endOfRowSet, rowsFetched, rowsAffectedBulk, engineAffected>>
ghostVars == <<lastExec, affected, misuse>>
vars == <<stmtp, kind, inCount, named, phase, execs, bindVars, rowVars, ghostVars>>

Init ==
    /\ stmtp = FALSE /\ kind = "dml" /\ inCount = 0 /\ named = FALSE
    /\ boundByName = FALSE /\ boundByPos = FALSE
    /\ useType = "standard" /\ intoType = "standard"
    /\ uses = <<>> /\ intos = <<>>
    /\ cursor = NoCursor /\ endOfRowSet = FALSE /\ rowsFetched = 0
    /\ rowsAffectedBulk = -1 /\ engineAffected = 0
    /\ execs = 0 /\ phase = "bind" /\ lastExec = "none" /\ affected = 0
    /\ misuse = FALSE


-----------------------------------------------------------------------------
(***************************************************************************)
(* prepare() (statement.cpp 264-312).  names_ is cleared and refilled by   *)
(* rewriteQuery (97-262), whose throwaway prepare may throw and leaves the *)
(* statement as it was.  Then clean_up() when stmtp_ is set (it resets     *)
(* rowsAffectedBulk_ and closes the cursor), the real prepare with its     *)
(* metadata, and last the reset of the into and use lists and types.      *)
(* boundByName_ and boundByPos_ are left as they were.                     *)
(***************************************************************************)
Prepare(k, n, nm) ==
    /\ named' = nm
    /\ \/ /\ Fails("prepare")                       \* the throwaway prepare
          /\ UNCHANGED <<stmtp, kind, inCount, phase, bindVars, rowVars>>
       \/ /\ rowsAffectedBulk' = IF stmtp THEN -1 ELSE rowsAffectedBulk
          /\ cursor' = NoCursor
          /\ \/ /\ Fails("prepare")                 \* the real prepare
                /\ stmtp' = FALSE
                /\ UNCHANGED <<kind, inCount, phase, bindVars>>
             \/ /\ stmtp' = TRUE /\ kind' = k /\ inCount' = n
                /\ phase' = "bind"
                /\ useType' = "standard" /\ intoType' = "standard"
                /\ uses' = <<>> /\ intos' = <<>>
                /\ UNCHANGED <<boundByName, boundByPos>>
          /\ UNCHANGED <<endOfRowSet, rowsFetched, engineAffected>>
    /\ lastExec' = IF stmtp' /\ phase' = "bind" THEN "none" ELSE lastExec
    /\ UNCHANGED <<execs, affected, misuse>>

(***************************************************************************)
(* prepare_field (params_helper.h 23-50): the type is set and the slot is  *)
(* registered first; the metadata calls for its position come after, and   *)
(* the engine refuses a position past the field count.  The slot keeps no  *)
(* buffer then (buf_ stays null).                                          *)
(***************************************************************************)
FieldOk(pos, count) == pos < count /\ ~Fails("metadata")

(* The front end binds the elements of a statement after its prepare and  *)
(* before its first execute, all scalar or all vector.                     *)
CanBind(slots, vec) ==
    /\ stmtp /\ phase = "bind"
    /\ \A i \in DOMAIN slots : slots[i].vec = vec

(* The use slot bound at position pos, and whether its metadata was read. *)
UseSlot(vec, byName, pos) ==
    [vec |-> vec, byName |-> byName, buf |-> FieldOk(pos, inCount)]

(* bind_by_pos (params_helper.h 52-66): the front end's position counter   *)
(* is the number of use elements it has bound.                             *)
BindByPos(vec) ==
    /\ CanBind(uses, vec) /\ Len(uses) <= MaxParams
    /\ ~boundByName
    /\ useType' = IF vec THEN "vector" ELSE "standard"
    /\ uses' = Append(uses, UseSlot(vec, FALSE, Len(uses)))
    /\ boundByPos' = (boundByPos \/ FieldOk(Len(uses), inCount))
    /\ UNCHANGED <<stmtp, kind, inCount, named, phase, execs, boundByName,
                   intoType, intos, rowVars, ghostVars>>

(* A mutant of BindByName: the check of boundByPos_ is dropped. *)
BindByNameUnchecked(vec, pos) ==
    /\ CanBind(uses, vec) /\ Len(uses) <= MaxParams
    /\ named /\ pos \in 0..(inCount - 1)
    /\ useType' = IF vec THEN "vector" ELSE "standard"
    /\ uses' = Append(uses, UseSlot(vec, TRUE, pos))
    /\ boundByName' = (boundByName \/ FieldOk(pos, inCount))
    /\ UNCHANGED <<stmtp, kind, inCount, named, phase, execs, boundByPos,
                   intoType, intos, rowVars, ghostVars>>

(* bind_by_name (params_helper.h 68-84): findParamByName resolves the name *)
(* through names_ to pos (a name it does not hold is refused before        *)
(* anything changes); any name is refused once boundByPos_ is set.         *)
BindByName(vec, pos) ==
    /\ CanBind(uses, vec) /\ Len(uses) <= MaxParams
    /\ ~boundByPos
    /\ named /\ pos \in 0..(inCount - 1)
    /\ useType' = IF vec THEN "vector" ELSE "standard"
    /\ uses' = Append(uses, UseSlot(vec, TRUE, pos))
    /\ boundByName' = (boundByName \/ FieldOk(pos, inCount))
    /\ UNCHANGED <<stmtp, kind, inCount, named, phase, execs, boundByPos,
                   intoType, intos, rowVars, ghostVars>>

(* define_by_pos (params_helper.h 86-93). *)
DefineInto(vec) ==
    /\ CanBind(intos, vec) /\ Len(intos) <= 1
    /\ intoType' = IF vec THEN "vector" ELSE "standard"
    /\ intos' = Append(intos, [vec |-> vec, byName |-> FALSE,
                               buf |-> FieldOk(Len(intos), OutCount(kind))])
    /\ UNCHANGED <<stmtp, kind, inCount, named, phase, execs, boundByName,
                   boundByPos, useType, uses, rowVars, ghostVars>>

-----------------------------------------------------------------------------
(***************************************************************************)
(* The fetch loop (statement.cpp 442-485) on a cursor holding r rows,      *)
(* asked for n: each fetchNext that returns a row counts it in             *)
(* rowsFetched_ and then exchanges it into the into elements (488-542);    *)
(* RESULT_NO_DATA sets endOfRowSet_ and ends the loop.  Either call may    *)
(* throw: fetchNext (the row stays in the cursor) or the into conversion   *)
(* (the row has been taken and counted).  An outcome says how the loop     *)
(* ended, the rows it took from the cursor, the rows it counted and the    *)
(* new endOfRowSet_.                                                       *)
(***************************************************************************)
MinOf(a, b) == IF a <= b THEN a ELSE b

FetchEnd(r, n) ==
    IF r >= n THEN [res |-> "success", taken |-> n, counted |-> n, eor |-> FALSE]
              ELSE [res |-> "no_data", taken |-> r, counted |-> r, eor |-> TRUE]

(* A mutant of FetchNextFaults: the catch marks the end of the row set. *)
FetchNextFaultsMarkEnd(r, n) ==
    IF Fails("fetchNext")
    THEN {[res |-> "error", taken |-> i, counted |-> i, eor |-> TRUE] :
            i \in 0..MinOf(r, n - 1)}
    ELSE {}

FetchNextFaults(r, n) ==
    IF Fails("fetchNext")
    THEN {[res |-> "error", taken |-> i, counted |-> i, eor |-> FALSE] :
            i \in 0..MinOf(r, n - 1)}
    ELSE {}

(* A mutant of FetchResults: ++rowsFetched_ after exchangeData. *)
FetchResultsLateCount(r, n) ==
    {FetchEnd(r, n)} \cup FetchNextFaults(r, n)
    \cup (IF Fails("convert")
          THEN {[res |-> "error", taken |-> i + 1, counted |-> i, eor |-> FALSE] :
                  i \in 0..(MinOf(r, n) - 1)}
          ELSE {})

(* A mutant of FetchResults: RESULT_NO_DATA does not set endOfRowSet_. *)
FetchResultsNoEnd(r, n) ==
    {[FetchEnd(r, n) EXCEPT !.eor = FALSE]} \cup FetchNextFaults(r, n)
    \cup (IF Fails("convert")
          THEN {[res |-> "error", taken |-> i + 1, counted |-> i + 1, eor |-> FALSE] :
                  i \in 0..(MinOf(r, n) - 1)}
          ELSE {})

FetchResults(r, n) ==
    {FetchEnd(r, n)} \cup FetchNextFaults(r, n)
    \cup (IF Fails("convert")
          THEN {[res |-> "error", taken |-> i + 1, counted |-> i + 1, eor |-> FALSE] :
                  i \in 0..(MinOf(r, n) - 1)}
          ELSE {})

(* An into element without a buffer is exchanged when a row is. *)
IntoMisuse == \E i \in DOMAIN intos : ~intos[i].buf
UseMisuse  == \E i \in DOMAIN uses : ~uses[i].buf

(* The state a fetch loop with outcome o leaves, from a cursor of r rows. *)
AfterFetch(r, o, m) ==
    /\ cursor' = r - o.taken
    /\ rowsFetched' = o.counted
    /\ endOfRowSet' = o.eor
    /\ misuse' = (m \/ (o.counted > 0 /\ IntoMisuse))

(* The fetch sizes of the front end: one row into scalar into elements,   *)
(* up to the vector size into vector ones.                                 *)
FetchSizes == IF intoType = "vector" THEN 1..MaxRows ELSE {1}

(* A mutant of FetchWith: the early return tests the cursor only. *)
FetchWithNoEndCheck(n, Outcomes) ==
    /\ stmtp /\ phase = "run" /\ n \in FetchSizes
    /\ cursor # NoCursor
    /\ \E o \in Outcomes : AfterFetch(cursor, o, misuse)
    /\ UNCHANGED <<stmtp, kind, inCount, named, phase, execs, bindVars,
                   rowsAffectedBulk, engineAffected, lastExec, affected>>

(* fetch(n) past its early return: endOfRowSet_ unset and a cursor open. *)
FetchWith(n, Outcomes) ==
    /\ stmtp /\ phase = "run" /\ n \in FetchSizes
    /\ ~endOfRowSet /\ cursor # NoCursor
    /\ \E o \in Outcomes : AfterFetch(cursor, o, misuse)
    /\ UNCHANGED <<stmtp, kind, inCount, named, phase, execs, bindVars,
                   rowsAffectedBulk, engineAffected, lastExec, affected>>

FetchRows(n) ==
    FetchWith(n, {o \in FetchResults(cursor, n) : o.res # "error"})

FetchFails(n) ==
    FetchWith(n, {o \in FetchResults(cursor, n) : o.res = "error"})

-----------------------------------------------------------------------------
(***************************************************************************)
(* execute(number) (statement.cpp 317-440).                                *)
(***************************************************************************)
ExecBegin(number) ==
    /\ stmtp /\ execs < MaxExec
    /\ number \in {0} \cup FetchSizes
    /\ execs' = execs + 1
    /\ phase' = "run"

(* A mutant of SizesMatch: the checkSize of the use elements is dropped. *)
SizesMatchIntosOnly == Len(intos) = OutCount(kind)

(* checkSize on the into and on the use elements (statement.cpp 317-344). *)
SizesMatch == Len(intos) = OutCount(kind) /\ Len(uses) = inCount

(* Scalar use elements are converted into the input message first. *)
StandardUses == inCount > 0 /\ useType = "standard"

(* The use slots 1..c have been exchanged. *)
UsesTouched(c) == \E i \in 1..c : ~uses[i].buf

UsesExchanged == misuse \/ (StandardUses /\ UseMisuse)

(* checkSize throws soci_error before anything is touched. *)
ExecBadSizes(number) ==
    /\ ExecBegin(number)
    /\ ~SizesMatch
    /\ lastExec' = "failed"
    /\ UNCHANGED <<stmtp, kind, inCount, named, bindVars, rowVars, affected, misuse>>

(* A scalar use element fails to convert: the old cursor is not closed yet. *)
ExecUseFails(number) ==
    /\ ExecBegin(number)
    /\ SizesMatch /\ StandardUses /\ Fails("convert")
    /\ \E c \in DOMAIN uses : misuse' = (misuse \/ UsesTouched(c))
    /\ lastExec' = "failed"
    /\ UNCHANGED <<stmtp, kind, inCount, named, bindVars, rowVars, affected>>

(* The records the first k rows of a vector execute affected. *)
RowSum(ra, k) == LET S[i \in 0..k] == IF i = 0 THEN 0 ELSE S[i - 1] + ra[i]
                 IN  S[k]

(* What get_affected_rows() adds up over k rows of the vector loop: it     *)
(* answers rowsAffectedBulk_ whenever that is set, as it is from the       *)
(* previous vector execute on (statement.cpp 544-561).                     *)
BulkCount(ra, k) ==
    IF rowsAffectedBulk >= 0 THEN k * rowsAffectedBulk ELSE RowSum(ra, k)

(***************************************************************************)
(* The vector loop (statement.cpp 360-391): per row, exchangeData(row) of  *)
(* every use element (vector-use-type.cpp 35-100), the engine execute and  *)
(* rowsAffectedBulkTemp += get_affected_rows().  The engine's failure at   *)
(* row k stores the count so far; a conversion's (a soci_error) leaves     *)
(* rowsAffectedBulk_ as it was.  ra gives the records each row affects.    *)
(***************************************************************************)
ExecVector(number) ==
    /\ ExecBegin(number)
    /\ SizesMatch /\ useType = "vector"
    /\ cursor' = NoCursor
    /\ \E size \in 1..MaxRows, ra \in [1..MaxRows -> Affects] :
        \/ /\ rowsAffectedBulk' = BulkCount(ra, size)
           /\ engineAffected' = ra[size]
           /\ affected' = RowSum(ra, size)
           /\ endOfRowSet' = FALSE
           /\ misuse' = (misuse \/ UseMisuse)
           /\ lastExec' = "ok"
        \/ \E k \in 1..size :
           /\ engineAffected' = IF k > 1 THEN ra[k - 1] ELSE engineAffected
           /\ affected' = RowSum(ra, k - 1)
           /\ lastExec' = IF k > 1 THEN "partial" ELSE "failed"
           /\ UNCHANGED endOfRowSet
           /\ \/ /\ Fails("execute")
                 /\ rowsAffectedBulk' = BulkCount(ra, k - 1)
                 /\ misuse' = (misuse \/ UseMisuse)
              \/ /\ Fails("convert")
                 /\ UNCHANGED rowsAffectedBulk
                 /\ \E c \in DOMAIN uses :
                       misuse' = (misuse \/ (k > 1 /\ UseMisuse) \/ UsesTouched(c))
    /\ UNCHANGED <<stmtp, kind, inCount, named, bindVars, rowsFetched>>

(***************************************************************************)
(* A statement without a cursor (statement.cpp 393-405): one engine       *)
(* execute.  A procedure with output exchanges its row into the into      *)
(* elements and returns before endOfRowSet_ is reset.                     *)
(***************************************************************************)
ExecNoCursor(number) ==
    /\ ExecBegin(number)
    /\ SizesMatch /\ useType = "standard" /\ ~HasCursor(kind)
    /\ cursor' = NoCursor
    /\ \/ /\ Fails("execute")
          /\ misuse' = UsesExchanged
          /\ lastExec' = "failed"
          /\ UNCHANGED <<endOfRowSet, engineAffected, affected>>
       \/ \E a \in Affects :
          /\ engineAffected' = a /\ affected' = a
          /\ \/ /\ kind = "dml"
                /\ endOfRowSet' = FALSE
                /\ misuse' = UsesExchanged
                /\ lastExec' = "ok"
             \/ /\ kind = "proc"
                /\ misuse' = (UsesExchanged \/ IntoMisuse)
                /\ lastExec' \in {"ok"} \cup (IF Fails("convert") THEN {"failed"} ELSE {})
                /\ UNCHANGED endOfRowSet
    /\ UNCHANGED <<stmtp, kind, inCount, named, bindVars, rowsFetched, rowsAffectedBulk>>

(***************************************************************************)
(* A statement with a cursor (statement.cpp 406-439): openCursor on a     *)
(* result set of r rows, endOfRowSet_ reset, and fetch(number) when       *)
(* number > 0.                                                            *)
(***************************************************************************)
ExecCursor(number) ==
    /\ ExecBegin(number)
    /\ SizesMatch /\ useType = "standard" /\ HasCursor(kind)
    /\ \E r \in 0..MaxRows :
        \/ /\ Fails("openCursor")
           /\ cursor' = NoCursor
           /\ misuse' = UsesExchanged
           /\ lastExec' = "failed"
           /\ UNCHANGED <<endOfRowSet, rowsFetched>>
        \/ /\ number = 0
           /\ cursor' = r /\ endOfRowSet' = FALSE
           /\ misuse' = UsesExchanged
           /\ lastExec' = "ok"
           /\ UNCHANGED rowsFetched
        \/ /\ number > 0
           /\ \E o \in FetchResults(r, number) :
                 /\ AfterFetch(r, o, UsesExchanged)
                 /\ lastExec' = IF o.res = "error" THEN "failed" ELSE "ok"
    /\ UNCHANGED <<stmtp, kind, inCount, named, bindVars, rowsAffectedBulk,
                   engineAffected, affected>>

Execute(number) ==
    \/ ExecBadSizes(number)
    \/ ExecUseFails(number)
    \/ ExecVector(number)
    \/ ExecNoCursor(number)
    \/ ExecCursor(number)

(* get_affected_rows() (statement.cpp 544-561). *)
GetAffectedRows ==
    IF rowsAffectedBulk >= 0 THEN rowsAffectedBulk ELSE engineAffected

-----------------------------------------------------------------------------
Next ==
    \/ \E k \in Kinds, n \in 0..MaxParams, nm \in BOOLEAN :
          (nm => n > 0) /\ Prepare(k, n, nm)
    \/ \E vec \in BOOLEAN :
          \/ BindByPos(vec)
          \/ \E pos \in 0..MaxParams : BindByName(vec, pos)
          \/ DefineInto(vec)
    \/ \E number \in 0..MaxRows : Execute(number)
    \/ \E n \in 1..MaxRows : FetchRows(n) \/ FetchFails(n)

Spec == Init /\ [][Next]_vars

(* The application fetches until fetch() answers no data, and the engine  *)
(* does not fail every fetch.                                              *)
FairSpec == Spec /\ WF_vars(\E n \in 1..MaxRows : FetchRows(n))

-----------------------------------------------------------------------------
TypeOK ==
    /\ stmtp \in BOOLEAN /\ kind \in Kinds /\ inCount \in 0..MaxParams
    /\ named \in BOOLEAN /\ phase \in {"bind", "run"} /\ execs \in 0..MaxExec
    /\ boundByName \in BOOLEAN /\ boundByPos \in BOOLEAN
    /\ useType \in {"standard", "vector"} /\ intoType \in {"standard", "vector"}
    /\ uses \in Seq(Slot) /\ intos \in Seq(Slot)
    /\ cursor \in {NoCursor} \cup 0..MaxRows
    /\ endOfRowSet \in BOOLEAN /\ rowsFetched \in 0..MaxRows
    /\ rowsAffectedBulk \in Int /\ engineAffected \in Affects
    /\ lastExec \in {"none", "ok", "failed", "partial"}
    /\ affected \in Nat /\ misuse \in BOOLEAN

(* The use elements that bound successfully are all bound by position or  *)
(* all by name: bind_by_name refuses once boundByPos_ is set and          *)
(* bind_by_pos once boundByName_ is, across any sequence of binds, failed  *)
(* binds and re-prepares (params_helper.h 52-84).                          *)
BindExclusive ==
    \A i, j \in DOMAIN uses :
        (uses[i].buf /\ uses[j].buf) => uses[i].byName = uses[j].byName

(* No execute or fetch converts a value through a use or into element     *)
(* whose prepare_field failed before it set buf_: checkSize in execute     *)
(* must turn away every statement that still holds such a slot.           *)
NoExchangeWithoutBuffer == ~misuse

(* Every row a fetch takes from the cursor is counted in rowsFetched_,     *)
(* which the front end reads through get_number_of_rows(), also when the  *)
(* conversion of the row into the into elements throws.                    *)
FetchCountsTakenRows ==
    [][(execs' = execs /\ cursor' \in 0..(cursor - 1)) =>
          rowsFetched' = cursor - cursor']_vars

(* An application that keeps fetching from an open cursor reaches the end *)
(* of its row set: fetch sets endOfRowSet_ when the engine answers        *)
(* RESULT_NO_DATA, or the cursor is closed by a later execute or prepare.  *)
CursorDrained ==
    (cursor # NoCursor /\ ~endOfRowSet) ~> (endOfRowSet \/ cursor = NoCursor)

(* After a DML execute that ran, get_affected_rows() answers the records  *)
(* it affected (spec: the count accumulated by the last bulk execute, or  *)
(* the engine's count of the last execute).                                *)
AffectedRowsAccurate ==
    (kind = "dml" /\ lastExec \in {"ok", "partial"}) => GetAffectedRows = affected

(* A prepare resets the binding-mode flags with the slot lists (spec 4.4, *)
(* step 4): a re-prepared statement that has no use element bound yet has *)
(* neither flag set.                                                       *)
FlagsResetOnPrepare ==
    (stmtp /\ phase = "bind" /\ uses = <<>>) => ~boundByName /\ ~boundByPos


(* endOfRowSet_ is set only when the open cursor has no row left, or      *)
(* after the cursor was closed: fetch() sets it on RESULT_NO_DATA alone,  *)
(* and a re-execute clears it when it opens a new result set, so the      *)
(* early return of fetch() on endOfRowSet_ never leaves rows unread.      *)
EndOfRowSetEmpty == endOfRowSet => cursor \in {0, NoCursor}


(* The cursor seen through the mapping rows <- cursor_'s remaining rows,  *)
(* fetched <- rowsFetched_, exhausted <- endOfRowSet_, executions <- the  *)
(* execute() calls.                                                       *)
Cursor == INSTANCE FirebirdCursor
            WITH rows <- cursor, fetched <- rowsFetched, exhausted <- endOfRowSet,
                 executions <- execs

(* The statement keeps the promises of its cursor (FirebirdCursor): only  *)
(* execute() opens a result set; fetch() takes no more rows than remain, *)
(* counts exactly those, reports the end only when none is left, and     *)
(* never runs on a closed cursor or one already at its end (the early    *)
(* return of statement.cpp 446-449); prepare and execute close it        *)
(* without touching the count.                                            *)
CursorRefinement == Cursor!Spec

====
