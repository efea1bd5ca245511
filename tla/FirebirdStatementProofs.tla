--------------------- MODULE FirebirdStatementProofs ---------------------
(***************************************************************************)
(* Machine-checked proofs about the binding and the fetch counter of      *)
(* FirebirdStatement, for any bounds and any set of failing native calls *)
(* and conversions.                                                        *)
(***************************************************************************)
EXTENDS FirebirdStatement, TLAPS

(***************************************************************************)
(* The inductive strengthening of BindExclusive.  Each bound slot is      *)
(* backed by the flag of its kind (a successful bind_by_pos sets          *)
(* boundByPos_, a successful bind_by_name boundByName_), and the two flags *)
(* are never both set, because each bind refuses once the other flag is.  *)
(* The flags are never cleared, so a slot bound before a re-prepare stays *)
(* backed; prepare empties uses_.                                          *)
(***************************************************************************)
Backed(slot) == IF slot.byName THEN boundByName ELSE boundByPos

BindInv ==
    /\ uses \in Seq(Slot)
    /\ boundByName \in BOOLEAN /\ boundByPos \in BOOLEAN
    /\ ~(boundByName /\ boundByPos)
    /\ \A i \in DOMAIN uses : uses[i].buf => Backed(uses[i])

\* The actions other than prepare and the binds of use elements leave the
\* use slots and the binding flags alone.
LEMMA OthersKeepBinding ==
    ASSUME NEW vec \in BOOLEAN, NEW number \in Nat, NEW n \in Nat,
           \/ DefineInto(vec)
           \/ Execute(number)
           \/ FetchRows(n) \/ FetchFails(n)
    PROVE  UNCHANGED <<uses, boundByName, boundByPos>>
<1>1. CASE DefineInto(vec)
  BY <1>1 DEF DefineInto
<1>2. CASE Execute(number)
  BY <1>2 DEF Execute, ExecBadSizes, ExecUseFails, ExecVector, ExecNoCursor,
              ExecCursor, bindVars
<1>3. CASE FetchRows(n) \/ FetchFails(n)
  BY <1>3 DEF FetchRows, FetchFails, FetchWith, bindVars
<1>. QED
  BY <1>1, <1>2, <1>3

\* Appending a slot backed by the flags after the step keeps every slot
\* backed, when the flags only grow.
LEMMA AppendBacked ==
    ASSUME BindInv, NEW s \in Slot,
           uses' = Append(uses, s),
           boundByName => boundByName', boundByPos => boundByPos',
           boundByName' \in BOOLEAN, boundByPos' \in BOOLEAN,
           s.buf => (IF s.byName THEN boundByName' ELSE boundByPos')
    PROVE  /\ uses' \in Seq(Slot)
           /\ \A i \in DOMAIN uses' : uses'[i].buf => Backed(uses[i])'
<1>1. uses' \in Seq(Slot)
  BY DEF BindInv
<1>2. ASSUME NEW i \in DOMAIN uses', uses'[i].buf
      PROVE  Backed(uses[i])'
  <2>1. CASE i \in DOMAIN uses
    <3>1. uses'[i] = uses[i]
      BY <2>1 DEF BindInv
    <3>2. Backed(uses[i])
      BY <1>2, <2>1, <3>1 DEF BindInv
    <3>. QED
      BY <3>1, <3>2 DEF Backed
  <2>2. CASE i = Len(uses) + 1
    <3>1. uses'[i] = s
      BY <2>2 DEF BindInv
    <3>. QED
      BY <1>2, <3>1 DEF Backed
  <2>. QED
    BY <2>1, <2>2 DEF BindInv
<1>. QED
  BY <1>1, <1>2

\* Every step keeps BindInv.
LEMMA BindInvStep ==
    ASSUME BindInv, [Next]_vars
    PROVE  BindInv'
<1>. USE DEF BindInv
<1>1. CASE UNCHANGED vars
  BY <1>1 DEF vars, bindVars, Backed
<1>2. ASSUME NEW k \in Kinds, NEW n \in 0..MaxParams, NEW nm \in BOOLEAN,
             Prepare(k, n, nm)
      PROVE  BindInv'
  <2>1. /\ UNCHANGED <<boundByName, boundByPos>>
        /\ uses' = uses \/ uses' = <<>>
    BY <1>2 DEF Prepare, bindVars
  <2>2. CASE uses' = uses
    BY <2>1, <2>2 DEF Backed
  <2>3. CASE uses' = <<>>
    <3>1. <<>> \in Seq(Slot) /\ DOMAIN <<>> = {}
      OBVIOUS
    <3>. QED
      BY <2>1, <2>3, <3>1
  <2>. QED
    BY <2>1, <2>2, <2>3
<1>3. ASSUME NEW vec \in BOOLEAN, BindByPos(vec)
      PROVE  BindInv'
  <2>1. /\ ~boundByName /\ boundByName' = boundByName
        /\ boundByPos' = (boundByPos \/ FieldOk(Len(uses), inCount))
        /\ uses' = Append(uses, UseSlot(vec, FALSE, Len(uses)))
    BY <1>3 DEF BindByPos
  <2>2. UseSlot(vec, FALSE, Len(uses)) \in Slot
    BY DEF UseSlot, Slot, FieldOk
  <2>3. UseSlot(vec, FALSE, Len(uses)).buf => boundByPos'
    BY <2>1 DEF UseSlot
  <2>4. /\ uses' \in Seq(Slot)
        /\ \A i \in DOMAIN uses' : uses'[i].buf => Backed(uses[i])'
    BY <2>1, <2>2, <2>3, AppendBacked DEF UseSlot
  <2>. QED
    BY <2>1, <2>4
<1>4. ASSUME NEW vec \in BOOLEAN, NEW pos \in 0..MaxParams, BindByName(vec, pos)
      PROVE  BindInv'
  <2>1. /\ ~boundByPos /\ boundByPos' = boundByPos
        /\ boundByName' = (boundByName \/ FieldOk(pos, inCount))
        /\ uses' = Append(uses, UseSlot(vec, TRUE, pos))
    BY <1>4 DEF BindByName
  <2>2. UseSlot(vec, TRUE, pos) \in Slot
    BY DEF UseSlot, Slot, FieldOk
  <2>3. UseSlot(vec, TRUE, pos).buf => boundByName'
    BY <2>1 DEF UseSlot
  <2>4. /\ uses' \in Seq(Slot)
        /\ \A i \in DOMAIN uses' : uses'[i].buf => Backed(uses[i])'
    BY <2>1, <2>2, <2>3, AppendBacked DEF UseSlot
  <2>. QED
    BY <2>1, <2>4
<1>5. ASSUME UNCHANGED <<uses, boundByName, boundByPos>>
      PROVE  BindInv'
  BY <1>5 DEF Backed
<1>6. ASSUME NEW vec \in BOOLEAN, DefineInto(vec)
      PROVE  BindInv'
  BY <1>6, <1>5, OthersKeepBinding
<1>7. ASSUME NEW number \in 0..MaxRows, Execute(number)
      PROVE  BindInv'
  BY <1>7, <1>5, OthersKeepBinding
<1>8. ASSUME NEW n \in 1..MaxRows, FetchRows(n) \/ FetchFails(n)
      PROVE  BindInv'
  BY <1>8, <1>5, OthersKeepBinding
<1>. QED
  BY <1>1, <1>2, <1>3, <1>4, <1>6, <1>7, <1>8 DEF Next

(* The use elements that bound successfully are all bound by position or  *)
(* all by name, in every reachable state, for any bounds and any failing  *)
(* calls: the refusals of bind_by_pos and bind_by_name (params_helper.h   *)
(* 52-84) keep binding exclusive across failed binds and re-prepares.     *)
THEOREM BindingExclusive == Spec => []BindExclusive
<1>1. Init => BindInv
  <2>1. <<>> \in Seq(Slot) /\ DOMAIN <<>> = {}
    OBVIOUS
  <2>. QED
    BY <2>1 DEF Init, BindInv
<1>2. BindInv /\ [Next]_vars => BindInv'
  BY BindInvStep
<1>3. BindInv => BindExclusive
  <2>. SUFFICES ASSUME BindInv, NEW i \in DOMAIN uses, NEW j \in DOMAIN uses,
                      uses[i].buf, uses[j].buf
               PROVE  uses[i].byName = uses[j].byName
    BY DEF BindExclusive
  <2>1. uses[i] \in Slot /\ uses[j] \in Slot
    BY DEF BindInv
  <2>2. Backed(uses[i]) /\ Backed(uses[j])
    BY DEF BindInv
  <2>3. ~(boundByName /\ boundByPos)
    BY DEF BindInv
  <2>. QED
    BY <2>1, <2>2, <2>3 DEF Backed, Slot
<1>. QED
  BY <1>1, <1>2, <1>3, PTL DEF Spec
-----------------------------------------------------------------------------
\* Every outcome of the fetch loop counts exactly the rows it takes.
LEMMA FetchResultsCounted ==
    ASSUME NEW r \in Int, NEW n \in Int, NEW o \in FetchResults(r, n)
    PROVE  o.taken \in Int /\ o.counted = o.taken
<1>1. CASE o = FetchEnd(r, n)
  BY <1>1 DEF FetchEnd
<1>2. CASE o \in FetchNextFaults(r, n)
  BY <1>2 DEF FetchNextFaults, MinOf
<1>3. CASE Fails("convert") /\ o \in {[res |-> "error", taken |-> i + 1, counted |-> i + 1, eor |-> FALSE] :
                                      i \in 0..(MinOf(r, n) - 1)}
  BY <1>3 DEF MinOf
<1>. QED
  BY <1>1, <1>2, <1>3 DEF FetchResults

\* The number of open-cursor rows and of executes stay integers.
CounterInv == cursor \in Int /\ execs \in Int

LEMMA CounterInvStep ==
    ASSUME CounterInv, [Next]_vars
    PROVE  CounterInv'
<1>. USE DEF CounterInv
<1>1. CASE UNCHANGED vars
  BY <1>1 DEF vars, rowVars
<1>2. ASSUME NEW k \in Kinds, NEW n \in 0..MaxParams, NEW nm \in BOOLEAN, Prepare(k, n, nm)
      PROVE  CounterInv'
  BY <1>2 DEF Prepare, rowVars, NoCursor
<1>3. ASSUME NEW vec \in BOOLEAN,
             \/ BindByPos(vec)
             \/ \E pos \in 0..MaxParams : BindByName(vec, pos)
             \/ DefineInto(vec)
      PROVE  CounterInv'
  BY <1>3 DEF BindByPos, BindByName, DefineInto, rowVars
<1>4. ASSUME NEW number \in 0..MaxRows, Execute(number)
      PROVE  CounterInv'
  <2>1. execs' \in Int
    BY <1>4 DEF Execute, ExecBadSizes, ExecUseFails, ExecVector, ExecNoCursor,
                ExecCursor, ExecBegin
  <2>2. CASE ExecBadSizes(number) \/ ExecUseFails(number)
    <3>1. cursor' = cursor
      BY <2>2, Zenon DEF ExecBadSizes, ExecUseFails, rowVars
    <3>. QED
      BY <2>1, <3>1
  <2>3. CASE ExecVector(number) \/ ExecNoCursor(number)
    <3>1. cursor' = NoCursor
      BY <2>3, Zenon DEF ExecVector, ExecNoCursor
    <3>. QED
      BY <2>1, <3>1 DEF NoCursor
  <2>4. CASE ExecCursor(number)
    <3>1. PICK r \in 0..MaxRows :
             \/ cursor' = NoCursor \/ cursor' = r
             \/ \E o \in FetchResults(r, number) : cursor' = r - o.taken
      BY <2>4, Zenon DEF ExecCursor, AfterFetch
    <3>2. CASE \E o \in FetchResults(r, number) : cursor' = r - o.taken
      <4>1. PICK o \in FetchResults(r, number) : cursor' = r - o.taken
        BY <3>2
      <4>2. o.taken \in Int
        BY FetchResultsCounted, StatementAssumption
      <4>. QED
        BY <2>1, <4>1, <4>2, StatementAssumption
    <3>3. CASE cursor' = NoCursor \/ cursor' = r
      BY <2>1, <3>3, StatementAssumption DEF NoCursor
    <3>. QED
      BY <3>1, <3>2, <3>3
  <2>. QED
    BY <1>4, <2>2, <2>3, <2>4 DEF Execute
<1>5. ASSUME NEW n \in 1..MaxRows, FetchRows(n) \/ FetchFails(n)
      PROVE  CounterInv'
  <2>1. PICK o \in FetchResults(cursor, n) : cursor' = cursor - o.taken /\ execs' = execs
    BY <1>5 DEF FetchRows, FetchFails, FetchWith, AfterFetch
  <2>2. o.taken \in Int
    BY <2>1, FetchResultsCounted
  <2>. QED
    BY <2>1, <2>2
<1>. QED
  BY <1>1, <1>2, <1>3, <1>4, <1>5 DEF Next

(* Every row a fetch takes from the cursor is counted in rowsFetched_     *)
(* (get_number_of_rows()), for any bounds and any failing calls, also    *)
(* when the conversion of the row throws: fetch increments the counter    *)
(* before exchangeData (statement.cpp 465-466).                           *)
THEOREM FetchCounted == Spec => FetchCountsTakenRows
<1>1. Init => CounterInv
  BY DEF Init, CounterInv, NoCursor
<1>2. CounterInv /\ [Next]_vars => CounterInv'
  BY CounterInvStep
<1>3. CounterInv /\ [Next]_vars =>
        [(execs' = execs /\ cursor' \in 0..(cursor - 1)) =>
            rowsFetched' = cursor - cursor']_vars
  <2>. SUFFICES ASSUME CounterInv, [Next]_vars,
                      execs' = execs, cursor' \in 0..(cursor - 1)
               PROVE  rowsFetched' = cursor - cursor'
    OBVIOUS
  <2>1. CASE \E n \in 1..MaxRows : FetchRows(n) \/ FetchFails(n)
    <3>1. PICK n \in 1..MaxRows :
                \E o \in FetchResults(cursor, n) :
                   cursor' = cursor - o.taken /\ rowsFetched' = o.counted
      BY <2>1 DEF FetchRows, FetchFails, FetchWith, AfterFetch
    <3>2. PICK o \in FetchResults(cursor, n) :
                cursor' = cursor - o.taken /\ rowsFetched' = o.counted
      BY <3>1
    <3>3. o.taken \in Int /\ o.counted = o.taken
      BY FetchResultsCounted, StatementAssumption DEF CounterInv
    <3>. QED
      BY <3>2, <3>3 DEF CounterInv
  <2>2. CASE \E number \in 0..MaxRows : Execute(number)
    <3>1. PICK number \in 0..MaxRows : Execute(number)
      BY <2>2
    <3>2. execs' = execs + 1
      BY <3>1 DEF Execute, ExecBadSizes, ExecUseFails, ExecVector, ExecNoCursor,
                  ExecCursor, ExecBegin
    <3>. QED
      BY <3>2 DEF CounterInv
  <2>3. CASE \E k \in Kinds, n \in 0..MaxParams, nm \in BOOLEAN :
                (nm => n > 0) /\ Prepare(k, n, nm)
    <3>1. cursor' = NoCursor \/ cursor' = cursor
      BY <2>3 DEF Prepare, rowVars
    <3>. QED
      BY <3>1 DEF NoCursor, CounterInv
  <2>4. CASE \E vec \in BOOLEAN :
                \/ BindByPos(vec)
                \/ \E pos \in 0..MaxParams : BindByName(vec, pos)
                \/ DefineInto(vec)
    <3>1. cursor' = cursor
      BY <2>4 DEF BindByPos, BindByName, DefineInto, rowVars
    <3>. QED
      BY <3>1 DEF CounterInv
  <2>5. CASE UNCHANGED vars
    BY <2>5 DEF vars, rowVars, CounterInv
  <2>. QED
    BY <2>1, <2>2, <2>3, <2>4, <2>5 DEF Next
<1>. QED
  BY <1>1, <1>2, <1>3, PTL DEF Spec, FetchCountsTakenRows
-----------------------------------------------------------------------------
(***************************************************************************)
(* The inductive strengthening of NoExchangeWithoutBuffer, when the        *)
(* metadata calls fail only for a position past the field count (the     *)
(* engine's own check).  A slot without a buffer is then a use slot at   *)
(* or past in_meta_'s count, or an into slot past out_meta_'s, so        *)
(* a statement holding one fails checkSize; a cursor is open only after   *)
(* an execute that passed checkSize, and the into list is frozen from     *)
(* then on until the next prepare.                                        *)
(***************************************************************************)
ExchangeInv ==
    /\ uses \in Seq(Slot) /\ intos \in Seq(Slot)
    /\ inCount \in Nat /\ kind \in Kinds
    /\ NoExchangeWithoutBuffer
    /\ \A i \in DOMAIN uses : ~uses[i].buf => i > inCount
    /\ \A i \in DOMAIN intos : ~intos[i].buf => i > OutCount(kind)
    /\ cursor # NoCursor => phase = "run" /\ Len(intos) = OutCount(kind)

(* A statement that passes checkSize holds no slot without a buffer, so   *)
(* no exchange of its use or into elements touches one.                   *)
LEMMA SizesMatchClean ==
    ASSUME ExchangeInv, SizesMatch
    PROVE  /\ ~UseMisuse
           /\ ~IntoMisuse
           /\ \A c \in DOMAIN uses : ~UsesTouched(c)
<1>1. /\ DOMAIN uses = 1..inCount
      /\ DOMAIN intos = 1..OutCount(kind)
  BY DEF ExchangeInv, SizesMatch
<1>2. \A i \in DOMAIN uses : uses[i].buf
  BY <1>1 DEF ExchangeInv
<1>3. \A i \in DOMAIN intos : intos[i].buf
  BY <1>1 DEF ExchangeInv, OutCount
<1>4. \A c \in DOMAIN uses : 1..c \subseteq DOMAIN uses
  BY <1>1 DEF ExchangeInv
<1>. QED
  BY <1>2, <1>3, <1>4 DEF UseMisuse, IntoMisuse, UsesTouched

(* With an open cursor the into elements all have their buffers. *)
LEMMA CursorIntosClean ==
    ASSUME ExchangeInv, cursor # NoCursor
    PROVE  ~IntoMisuse
<1>1. DOMAIN intos = 1..OutCount(kind)
  BY DEF ExchangeInv
<1>. QED
  BY <1>1 DEF ExchangeInv, IntoMisuse, OutCount

(* Appending a slot that has its buffer, or that lies past the count c,  *)
(* keeps every slot without a buffer past c.                             *)
LEMMA AppendPastCount ==
    ASSUME NEW S \in Seq(Slot), NEW c \in Nat, NEW x \in Slot,
           \A i \in DOMAIN S : ~S[i].buf => i > c,
           ~x.buf => Len(S) + 1 > c
    PROVE  /\ Append(S, x) \in Seq(Slot)
           /\ \A i \in DOMAIN Append(S, x) : ~Append(S, x)[i].buf => i > c
<1>1. Append(S, x) \in Seq(Slot)
  OBVIOUS
<1>2. ASSUME NEW i \in DOMAIN Append(S, x), ~Append(S, x)[i].buf
      PROVE  i > c
  <2>1. CASE i \in DOMAIN S
    <3>1. Append(S, x)[i] = S[i]
      BY <2>1
    <3>. QED
      BY <1>2, <2>1, <3>1
  <2>2. CASE i = Len(S) + 1
    <3>1. Append(S, x)[i] = x
      BY <2>2
    <3>. QED
      BY <1>2, <2>2, <3>1
  <2>. QED
    BY <2>1, <2>2
<1>. QED
  BY <1>1, <1>2

(* Every step keeps ExchangeInv when the metadata calls fail only past the *)
(* field count.                                                            *)
LEMMA ExchangeInvStep ==
    ASSUME "metadata" \notin Faults
    PROVE  ExchangeInv /\ [Next]_vars => ExchangeInv'
<1> SUFFICES ASSUME ExchangeInv, [Next]_vars PROVE ExchangeInv'
  OBVIOUS
<1>1. ASSUME NEW k \in Kinds, NEW n \in 0..MaxParams, NEW nm \in BOOLEAN,
             Prepare(k, n, nm)
      PROVE  ExchangeInv'
  <2>1. UNCHANGED misuse
    BY <1>1 DEF Prepare
  <2>2. CASE UNCHANGED <<kind, inCount, phase, bindVars, rowVars>>
    BY <2>1, <2>2 DEF ExchangeInv, bindVars, rowVars, NoExchangeWithoutBuffer
  <2>3. CASE cursor' = NoCursor /\ UNCHANGED <<kind, inCount, bindVars>>
    BY <2>1, <2>3 DEF ExchangeInv, bindVars, NoExchangeWithoutBuffer
  <2>4. CASE cursor' = NoCursor /\ kind' = k /\ inCount' = n
             /\ uses' = <<>> /\ intos' = <<>>
    <3>1. <<>> \in Seq(Slot) /\ DOMAIN <<>> = {}
      OBVIOUS
    <3>. QED
      BY <2>1, <2>4, <3>1, StatementAssumption DEF ExchangeInv, NoExchangeWithoutBuffer
  <2>. QED
    BY <1>1, <2>2, <2>3, <2>4 DEF Prepare
<1>2. ASSUME NEW vec \in BOOLEAN, BindByPos(vec) PROVE ExchangeInv'
  <2>1. /\ uses' = Append(uses, UseSlot(vec, FALSE, Len(uses)))
        /\ UNCHANGED <<kind, inCount, phase, intos, cursor, misuse>>
    BY <1>2 DEF BindByPos, rowVars, ghostVars
  <2>2. UseSlot(vec, FALSE, Len(uses)) \in Slot
    BY Zenon DEF UseSlot, Slot, FieldOk
  <2>3. ~UseSlot(vec, FALSE, Len(uses)).buf => Len(uses) + 1 > inCount
    <3>1. ~UseSlot(vec, FALSE, Len(uses)).buf => ~(Len(uses) < inCount)
      BY Zenon DEF UseSlot, FieldOk, Fails
    <3>2. ~(Len(uses) < inCount) => Len(uses) + 1 > inCount
      BY DEF ExchangeInv
    <3>. QED
      BY <3>1, <3>2, Zenon
  <2>4. /\ uses' \in Seq(Slot)
        /\ \A i \in DOMAIN uses' : ~uses'[i].buf => i > inCount'
    BY <2>1, <2>2, <2>3, AppendPastCount DEF ExchangeInv
  <2>. QED
    BY <2>1, <2>4 DEF ExchangeInv, NoExchangeWithoutBuffer
<1>3. ASSUME NEW vec \in BOOLEAN, NEW pos \in 0..MaxParams, BindByName(vec, pos)
      PROVE  ExchangeInv'
  <2>1. /\ uses' = Append(uses, UseSlot(vec, TRUE, pos))
        /\ pos \in 0..(inCount - 1)
        /\ UNCHANGED <<kind, inCount, phase, intos, cursor, misuse>>
    BY <1>3 DEF BindByName, rowVars, ghostVars
  <2>2. UseSlot(vec, TRUE, pos) \in Slot /\ UseSlot(vec, TRUE, pos).buf
    <3>1. pos < inCount
      BY <2>1 DEF ExchangeInv
    <3>. QED
      BY <3>1, Zenon DEF UseSlot, Slot, FieldOk, Fails
  <2>3. /\ uses' \in Seq(Slot)
        /\ \A i \in DOMAIN uses' : ~uses'[i].buf => i > inCount'
    BY <2>1, <2>2, AppendPastCount DEF ExchangeInv
  <2>. QED
    BY <2>1, <2>3 DEF ExchangeInv, NoExchangeWithoutBuffer
<1>4. ASSUME NEW vec \in BOOLEAN, DefineInto(vec) PROVE ExchangeInv'
  <2>. DEFINE new == [vec |-> vec, byName |-> FALSE,
                      buf |-> FieldOk(Len(intos), OutCount(kind))]
  <2>1. /\ intos' = Append(intos, new)
        /\ phase = "bind"
        /\ UNCHANGED <<kind, inCount, phase, uses, cursor, misuse>>
    BY <1>4 DEF DefineInto, CanBind, rowVars, ghostVars
  <2>2. new \in Slot /\ (~new.buf => Len(intos) + 1 > OutCount(kind))
    <3>1. new \in Slot
      BY Zenon DEF Slot, FieldOk
    <3>2. ~new.buf => ~(Len(intos) < OutCount(kind))
      BY Zenon DEF FieldOk, Fails
    <3>3. ~(Len(intos) < OutCount(kind)) => Len(intos) + 1 > OutCount(kind)
      BY DEF ExchangeInv, OutCount
    <3>. QED
      BY <3>1, <3>2, <3>3, Zenon
  <2>3. cursor = NoCursor
    BY <2>1 DEF ExchangeInv
  <2>4. OutCount(kind) \in Nat
    BY DEF OutCount
  <2>5. /\ intos' \in Seq(Slot)
        /\ \A i \in DOMAIN intos' : ~intos'[i].buf => i > OutCount(kind')
    BY <2>1, <2>2, <2>4, AppendPastCount DEF ExchangeInv
  <2>. QED
    BY <2>1, <2>3, <2>5 DEF ExchangeInv, NoExchangeWithoutBuffer
<1>5. ASSUME NEW number \in 0..MaxRows, Execute(number) PROVE ExchangeInv'
  <2>1. /\ UNCHANGED <<kind, inCount, uses, intos>>
        /\ phase' = "run"
    BY <1>5 DEF Execute, ExecBadSizes, ExecUseFails, ExecVector, ExecNoCursor,
                ExecCursor, ExecBegin, bindVars
  <2>2. CASE ExecBadSizes(number)
    <3>1. UNCHANGED <<cursor, misuse>>
      BY <2>2 DEF ExecBadSizes, rowVars
    <3>. QED
      BY <2>1, <3>1 DEF ExchangeInv, NoExchangeWithoutBuffer
  <2>3. CASE ~ExecBadSizes(number)
    <3>1. SizesMatch
      BY <1>5, <2>3 DEF Execute, ExecUseFails, ExecVector, ExecNoCursor, ExecCursor
    <3>2. /\ ~UseMisuse /\ ~IntoMisuse
          /\ \A c \in DOMAIN uses : ~UsesTouched(c)
          /\ ~misuse /\ ~UsesExchanged
      BY <3>1, SizesMatchClean DEF ExchangeInv, NoExchangeWithoutBuffer, UsesExchanged
    <3>3. ~misuse'
      BY <1>5, <2>3, <3>2, Zenon DEF Execute, ExecUseFails, ExecVector,
                                     ExecNoCursor, ExecCursor, AfterFetch
    <3>4. cursor' # NoCursor => Len(intos) = OutCount(kind)
      BY <3>1 DEF SizesMatch
    <3>. QED
      BY <2>1, <3>3, <3>4 DEF ExchangeInv, NoExchangeWithoutBuffer
  <2>. QED
    BY <2>2, <2>3
<1>6. ASSUME NEW n \in 1..MaxRows, FetchRows(n) \/ FetchFails(n)
      PROVE  ExchangeInv'
  <2>1. /\ cursor # NoCursor
        /\ UNCHANGED <<kind, inCount, phase, uses, intos>>
        /\ \E o \in FetchResults(cursor, n) :
              misuse' = (misuse \/ (o.counted > 0 /\ IntoMisuse))
    BY <1>6 DEF FetchRows, FetchFails, FetchWith, AfterFetch, bindVars
  <2>2. ~IntoMisuse /\ ~misuse
    BY <2>1, CursorIntosClean DEF ExchangeInv, NoExchangeWithoutBuffer
  <2>3. ~misuse'
    BY <2>1, <2>2
  <2>. QED
    BY <2>1, <2>3 DEF ExchangeInv, NoExchangeWithoutBuffer
<1>7. CASE UNCHANGED vars
  BY <1>7 DEF vars, bindVars, rowVars, ghostVars, ExchangeInv, NoExchangeWithoutBuffer
<1>. QED
  BY <1>1, <1>2, <1>3, <1>4, <1>5, <1>6, <1>7 DEF Next

(* No execute or fetch ever exchanges a value through a use or into slot  *)
(* whose buffer prepare_field never set, for any bounds and any failing  *)
(* native calls and conversions, as long as the metadata calls fail only *)
(* for a position past the field count: checkSize (statement.cpp 317-344) *)
(* turns away every statement that still holds such a slot.              *)
THEOREM ExchangeSafe ==
    ASSUME "metadata" \notin Faults
    PROVE  Spec => []NoExchangeWithoutBuffer
<1>1. Init => ExchangeInv
  <2>1. <<>> \in Seq(Slot) /\ DOMAIN <<>> = {}
    OBVIOUS
  <2>. QED
    BY <2>1 DEF Init, ExchangeInv, NoExchangeWithoutBuffer, Kinds, NoCursor
<1>2. ExchangeInv /\ [Next]_vars => ExchangeInv'
  BY ExchangeInvStep
<1>3. ExchangeInv => NoExchangeWithoutBuffer
  BY DEF ExchangeInv
<1>. QED
  BY <1>1, <1>2, <1>3, PTL DEF Spec
-----------------------------------------------------------------------------
(***************************************************************************)
(* The statement implements FirebirdCursor under the refinement mapping   *)
(* of FirebirdStatement!Cursor.                                            *)
(***************************************************************************)

(* Every outcome of the fetch loop on r rows takes at most r of them,     *)
(* counts what it takes, and reports the end only when it took them all. *)
LEMMA FetchResultsBounded ==
    ASSUME NEW r \in 0..MaxRows, NEW n \in Nat \ {0}, NEW o \in FetchResults(r, n)
    PROVE  /\ o.taken \in 0..r
           /\ o.counted = o.taken
           /\ o.eor \in BOOLEAN
           /\ o.eor => o.taken = r
<1>1. CASE r >= n /\ o = [res |-> "success", taken |-> n, counted |-> n, eor |-> FALSE]
  <2>1. o.taken \in 0..r /\ o.counted = o.taken
    BY <1>1
  <2>. QED
    BY <1>1, <2>1, Zenon
<1>2. CASE r < n /\ o = [res |-> "no_data", taken |-> r, counted |-> r, eor |-> TRUE]
  <2>1. r \in 0..r
    OBVIOUS
  <2>. QED
    BY <1>2, <2>1, Zenon
<1>3. CASE \E i \in 0..MinOf(r, n - 1) :
             o = [res |-> "error", taken |-> i, counted |-> i, eor |-> FALSE]
  <2>1. PICK i \in 0..MinOf(r, n - 1) :
             o = [res |-> "error", taken |-> i, counted |-> i, eor |-> FALSE]
    BY <1>3
  <2>2. i \in 0..r
    BY StatementAssumption DEF MinOf
  <2>. QED
    BY <2>1, <2>2, Zenon
<1>4. CASE \E i \in 0..(MinOf(r, n) - 1) :
             o = [res |-> "error", taken |-> i + 1, counted |-> i + 1, eor |-> FALSE]
  <2>1. PICK i \in 0..(MinOf(r, n) - 1) :
             o = [res |-> "error", taken |-> i + 1, counted |-> i + 1, eor |-> FALSE]
    BY <1>4
  <2>2. i + 1 \in 0..r
    BY StatementAssumption DEF MinOf
  <2>. QED
    BY <2>1, <2>2, Zenon
<1>5. r >= n \/ r < n
  BY StatementAssumption
<1>. QED
  BY <1>1, <1>2, <1>3, <1>4, <1>5, Zenon DEF FetchResults, FetchEnd, FetchNextFaults

(* The cursor holds at most MaxRows rows, the end flag is a Boolean and   *)
(* the executes are counted by a natural number.                          *)
RowInv ==
    /\ cursor \in {NoCursor} \cup 0..MaxRows
    /\ endOfRowSet \in BOOLEAN
    /\ execs \in Nat

(* Every step keeps RowInv and is a step of FirebirdCursor or leaves its  *)
(* variables alone.                                                       *)
(* A fetch that takes t of the c rows that remain leaves c - t of them,  *)
(* none when it takes them all.                                           *)
LEMMA TakeArith ==
    ASSUME NEW m \in Nat, NEW c \in 0..m, NEW t \in 0..c, NEW c2, c2 = c - t
    PROVE  c2 \in 0..m /\ (t = c => c2 = 0)
  OBVIOUS

(* The initial values of the cursor's variables satisfy RowInv.           *)
LEMMA RowInvInit ==
    ASSUME cursor = NoCursor, endOfRowSet = FALSE, execs = 0
    PROVE  RowInv
  BY DEF RowInv, NoCursor

LEMMA CursorStep ==
    ASSUME RowInv, [Next]_vars
    PROVE  /\ RowInv'
           /\ [Cursor!Next]_Cursor!vars
<1>. USE DEF RowInv, NoCursor, Cursor!NoRows
<1>1. CASE UNCHANGED vars
  BY <1>1 DEF vars, rowVars, Cursor!vars
<1>2. ASSUME NEW k \in Kinds, NEW n \in 0..MaxParams, NEW nm \in BOOLEAN,
             Prepare(k, n, nm)
      PROVE  RowInv' /\ [Cursor!Next]_Cursor!vars
  <2>1. UNCHANGED <<execs, endOfRowSet, rowsFetched>>
    BY <1>2 DEF Prepare, rowVars
  <2>2. cursor' = cursor \/ cursor' = NoCursor
    BY <1>2 DEF Prepare, rowVars
  <2>3. CASE cursor' = cursor
    BY <2>1, <2>3 DEF Cursor!vars
  <2>4. CASE cursor' = NoCursor
    <3>1. Cursor!Close
      BY <2>1, <2>4, Zenon DEF Cursor!Close
    <3>. QED
      BY <2>1, <2>4, <3>1 DEF Cursor!Next
  <2>. QED
    BY <2>2, <2>3, <2>4
<1>3. ASSUME NEW vec \in BOOLEAN,
             \/ BindByPos(vec)
             \/ \E pos \in 0..MaxParams : BindByName(vec, pos)
             \/ DefineInto(vec)
      PROVE  RowInv' /\ [Cursor!Next]_Cursor!vars
  <2>1. UNCHANGED <<execs, rowVars>>
    BY <1>3 DEF BindByPos, BindByName, DefineInto
  <2>. QED
    BY <2>1 DEF rowVars, Cursor!vars
<1>4. ASSUME NEW number \in 0..MaxRows, Execute(number)
      PROVE  RowInv' /\ [Cursor!Next]_Cursor!vars
  <2>1. execs' = execs + 1 /\ execs' \in Nat
    BY <1>4 DEF Execute, ExecBadSizes, ExecUseFails, ExecVector, ExecNoCursor,
                ExecCursor, ExecBegin
  <2>2. CASE ExecBadSizes(number) \/ ExecUseFails(number)
    <3>1. UNCHANGED rowVars
      BY <2>2, Zenon DEF ExecBadSizes, ExecUseFails
    <3>2. Cursor!Refuse
      BY <2>1, <3>1, Zenon DEF rowVars, Cursor!Refuse
    <3>. QED
      BY <2>1, <3>1, <3>2 DEF rowVars, Cursor!Next
  <2>3. CASE ExecVector(number) \/ ExecNoCursor(number)
    <3>1. /\ cursor' = NoCursor
          /\ UNCHANGED rowsFetched
          /\ endOfRowSet' \in {endOfRowSet, FALSE}
      BY <2>3, Zenon DEF ExecVector, ExecNoCursor
    <3>2. Cursor!Close
      BY <2>1, <3>1, Zenon DEF Cursor!Close
    <3>3. RowInv'
      BY <2>1, <3>1
    <3>. QED
      BY <3>2, <3>3 DEF Cursor!Next
  <2>4. CASE ExecCursor(number)
    <3>1. PICK r \in 0..MaxRows :
             \/ /\ cursor' = NoCursor
                /\ UNCHANGED <<endOfRowSet, rowsFetched>>
             \/ /\ cursor' = r /\ endOfRowSet' = FALSE
                /\ UNCHANGED rowsFetched
             \/ /\ number > 0
                /\ \E o \in FetchResults(r, number) :
                      /\ cursor' = r - o.taken
                      /\ rowsFetched' = o.counted
                      /\ endOfRowSet' = o.eor
      BY <2>4, Zenon DEF ExecCursor, AfterFetch
    <3>2. CASE cursor' = NoCursor /\ UNCHANGED <<endOfRowSet, rowsFetched>>
      <4>1. Cursor!Close
        BY <2>1, <3>2, Zenon DEF Cursor!Close
      <4>2. RowInv'
        BY <2>1, <3>2
      <4>. QED
        BY <4>1, <4>2 DEF Cursor!Next
    <3>3. CASE cursor' = r /\ endOfRowSet' = FALSE /\ UNCHANGED rowsFetched
      <4>1. Cursor!Open
        BY <2>1, <3>3, Zenon DEF Cursor!Open
      <4>2. RowInv'
        BY <2>1, <3>3
      <4>. QED
        BY <4>1, <4>2 DEF Cursor!Next
    <3>4. CASE number > 0 /\ \E o \in FetchResults(r, number) :
                                /\ cursor' = r - o.taken
                                /\ rowsFetched' = o.counted
                                /\ endOfRowSet' = o.eor
      <4>1. PICK o \in FetchResults(r, number) :
                  /\ cursor' = r - o.taken
                  /\ rowsFetched' = o.counted
                  /\ endOfRowSet' = o.eor
        BY <3>4
      <4>2. /\ o.taken \in 0..r /\ o.counted = o.taken
            /\ o.eor \in BOOLEAN /\ (o.eor => o.taken = r)
        BY <3>4, FetchResultsBounded
      <4>3. /\ cursor' \in 0..MaxRows
            /\ (endOfRowSet' => cursor' = 0)
        <5>1. cursor' \in 0..MaxRows /\ (o.taken = r => cursor' = 0)
          BY <4>1, <4>2, StatementAssumption
        <5>. QED
          BY <4>1, <4>2, <5>1, Zenon
      <4>4. Cursor!Deliver(r, o.taken)
        BY <4>1, <4>2, <4>3, Zenon DEF Cursor!Deliver
      <4>5. Cursor!Open
        BY <2>1, <4>2, <4>4, Zenon DEF Cursor!Open
      <4>6. RowInv'
        BY <2>1, <4>1, <4>2, <4>3
      <4>. QED
        BY <4>5, <4>6 DEF Cursor!Next
    <3>. QED
      BY <3>1, <3>2, <3>3, <3>4
  <2>. QED
    BY <1>4, <2>2, <2>3, <2>4 DEF Execute
<1>5. ASSUME NEW n \in 1..MaxRows, FetchRows(n) \/ FetchFails(n)
      PROVE  RowInv' /\ [Cursor!Next]_Cursor!vars
  <2>1. /\ cursor # NoCursor /\ ~endOfRowSet
        /\ UNCHANGED execs
        /\ \E o \in FetchResults(cursor, n) :
              /\ cursor' = cursor - o.taken
              /\ rowsFetched' = o.counted
              /\ endOfRowSet' = o.eor
    BY <1>5 DEF FetchRows, FetchFails, FetchWith, AfterFetch
  <2>2. PICK o \in FetchResults(cursor, n) :
              /\ cursor' = cursor - o.taken
              /\ rowsFetched' = o.counted
              /\ endOfRowSet' = o.eor
    BY <2>1
  <2>3. /\ o.taken \in 0..cursor /\ o.counted = o.taken
        /\ o.eor \in BOOLEAN /\ (o.eor => o.taken = cursor)
    BY <2>1, FetchResultsBounded
  <2>4. /\ cursor' \in 0..MaxRows
        /\ (endOfRowSet' => cursor' = 0)
    <3>1. cursor \in 0..MaxRows
      BY <2>1
    <3>2. cursor' = cursor - o.taken /\ o.taken \in 0..cursor
      BY <2>2, <2>3, Zenon
    <3>3. \A tk \in 0..cursor :
             cursor' = cursor - tk => cursor' \in 0..MaxRows /\ (tk = cursor => cursor' = 0)
      BY <3>1, StatementAssumption, TakeArith
    <3>4. cursor' \in 0..MaxRows /\ (o.taken = cursor => cursor' = 0)
      BY <3>2, <3>3, Zenon
    <3>. QED
      BY <2>2, <2>3, <3>4, Zenon
  <2>5. Cursor!Deliver(cursor, o.taken)
    BY <2>2, <2>3, <2>4, Zenon DEF Cursor!Deliver
  <2>6. Cursor!Take
    BY <2>1, <2>3, <2>5, Zenon DEF Cursor!Take
  <2>7. RowInv'
    BY <2>1, <2>2, <2>3, <2>4
  <2>. QED
    BY <2>6, <2>7 DEF Cursor!Next
<1>. QED
  BY <1>1, <1>2, <1>3, <1>4, <1>5 DEF Next

(* The statement's cursor keeps every promise of FirebirdCursor, for any  *)
(* bounds and any failing native calls and conversions: execute() is the *)
(* only step that opens a result set, fetch() runs only on an open one   *)
(* that has not reported its end, takes at most the rows that remain,    *)
(* counts exactly those and reports the end only when none is left.      *)
THEOREM CursorRefined == Spec => CursorRefinement
<1>1. Init => RowInv /\ Cursor!Init
  <2>1. Init => RowInv
    <3>1. Init => cursor = NoCursor /\ endOfRowSet = FALSE /\ execs = 0
      BY Zenon DEF Init
    <3>. QED
      BY <3>1, RowInvInit, Zenon
  <2>2. Init => Cursor!Init
    BY Zenon DEF Init, NoCursor, Cursor!Init, Cursor!NoRows
  <2>. QED
    BY <2>1, <2>2
<1>2. RowInv /\ [Next]_vars => RowInv' /\ [Cursor!Next]_Cursor!vars
  BY CursorStep
<1>. QED
  BY <1>1, <1>2, PTL DEF Spec, CursorRefinement, Cursor!Spec

(* endOfRowSet_ is set only when the open cursor has no row left or the  *)
(* cursor was closed, for any bounds and any failing calls: it holds of  *)
(* FirebirdCursor (EndIsEmpty), and the statement implements that        *)
(* specification (CursorRefined).                                        *)
THEOREM EndOfRowSetKept == Spec => []EndOfRowSetEmpty
<1>1. Spec => Cursor!Spec
  BY CursorRefined DEF CursorRefinement
<1>2. Cursor!Spec => []Cursor!EndMeansEmpty
  BY Cursor!EndIsEmpty
<1>3. Cursor!EndMeansEmpty <=> EndOfRowSetEmpty
  BY DEF Cursor!EndMeansEmpty, EndOfRowSetEmpty, NoCursor, Cursor!NoRows
<1>. QED
  BY <1>1, <1>2, <1>3, PTL
====
