----------------------- MODULE FirebirdSessionProofs -----------------------
(***************************************************************************)
(* Machine-checked proofs about the handle life cycle of FirebirdSession,  *)
(* for every set of statements, BLOBs and failing native calls.           *)
(***************************************************************************)
EXTENDS FirebirdSession, TLAPS

CleanUpRecords ==
    [ok : BOOLEAN, stmtp : HandleStates, meta : HandleStates, misuse : SUBSET Fields]

\* The outcomes of stmtp_->free() on any statement handle are well formed.
LEMMA FreeResultsType ==
    ASSUME NEW h \in HandleStates
    PROVE  FreeResults(h) \subseteq [ok : BOOLEAN, h : HandleStates]
<1>1. {[ok |-> TRUE, h |-> "null"], [ok |-> FALSE, h |-> "dangling"]}
        \subseteq [ok : BOOLEAN, h : HandleStates]
  BY DEF HandleStates
<1>. QED
  BY <1>1 DEF FreeResults

\* Every outcome of the statement's clean_up() is a well-formed record.
LEMMA CleanUpResultsType ==
    ASSUME TypeOK, NEW s \in Stmts
    PROVE  CleanUpResults(s) \subseteq CleanUpRecords
<1>1. FreeResults(stmtp[s]) \subseteq [ok : BOOLEAN, h : HandleStates]
  BY FreeResultsType DEF TypeOK
<1>2. /\ Released(meta[s]) \in HandleStates
      /\ Touched(stmtp[s], "stmtp") \cup Touched(meta[s], "meta") \subseteq Fields
  BY DEF TypeOK, Released, Touched, HandleStates, Fields
<1>3. \A r \in FreeResults(stmtp[s]) :
        [ok |-> r.ok, stmtp |-> r.h, meta |-> Released(meta[s]),
         misuse |-> Touched(stmtp[s], "stmtp") \cup Touched(meta[s], "meta")]
        \in CleanUpRecords
  BY <1>1, <1>2 DEF CleanUpRecords
<1>4. [ok |-> FALSE, stmtp |-> stmtp[s], meta |-> meta[s], misuse |-> {}]
        \in CleanUpRecords
  BY DEF TypeOK, CleanUpRecords
<1>. QED
  BY <1>3, <1>4 DEF CleanUpResults

\* So is every outcome of the clean_up() that prepare() runs.
LEMMA PrepareCleanUpResultsType ==
    ASSUME TypeOK, NEW s \in Stmts
    PROVE  PrepareCleanUpResults(s) \subseteq CleanUpRecords
<1>1. [ok |-> TRUE, stmtp |-> "null", meta |-> meta[s], misuse |-> {}]
        \in CleanUpRecords
  BY DEF TypeOK, CleanUpRecords, HandleStates
<1>. QED
  BY <1>1, CleanUpResultsType DEF PrepareCleanUpResults

\* The outcomes of the BLOB's cleanUp() and of the close in save().
LEMMA BlobResultsType ==
    ASSUME NEW h \in BlobStates
    PROVE  /\ BlobCleanUpResults(h) \subseteq [ok : BOOLEAN, h : BlobStates]
           /\ SaveCloseResults(h) \subseteq [ok : BOOLEAN, h : BlobStates]
           /\ SegmentResults(h) \subseteq BOOLEAN
<1>1. {[ok |-> TRUE, h |-> "null"], [ok |-> FALSE, h |-> "null"],
       [ok |-> TRUE, h |-> "dangling"], [ok |-> FALSE, h |-> h]}
        \subseteq [ok : BOOLEAN, h : BlobStates]
  BY DEF BlobStates
<1>. QED
  BY <1>1 DEF BlobCleanUpResults, SaveCloseResults, SegmentResults

\* The end of a transaction keeps every cursor and BLOB handle well typed.
LEMMA TxnEndType ==
    ASSUME TypeOK, TxnEnd
    PROVE  /\ trhp' \in {"null", "live"}
           /\ cursor' \in [Stmts -> CursorStates]
           /\ bhp' \in [Blobs -> BlobStates]
<1>1. /\ \A c \in CursorStates : Invalidate(c) \in CursorStates
      /\ \A h \in BlobStates : Invalidate(h) \in BlobStates
  BY DEF Invalidate, CursorStates, BlobStates
<1>2. bhp' \in [Blobs -> BlobStates]
  BY <1>1 DEF TxnEnd, TypeOK
<1>3. cursor' \in [Stmts -> CursorStates]
  <2>1. CASE cursor' = [s \in Stmts |->
                          IF s \in statements THEN "null" ELSE Invalidate(cursor[s])]
    BY <2>1, <1>1 DEF TypeOK, CursorStates
  <2>2. CASE \E done \in SUBSET Stmts :
                cursor' = [s \in Stmts |->
                             IF s \in done THEN "null" ELSE Invalidate(cursor[s])]
    BY <2>2, <1>1 DEF TypeOK, CursorStates
  <2>. QED
    <3>1. \A f \in statements : \A done \in SUBSET (statements \ {f}) :
             done \cup {f} \in SUBSET Stmts
      BY DEF TypeOK
    <3>. QED
      BY <2>1, <2>2, <3>1 DEF TxnEnd
<1>. QED
  BY <1>2, <1>3 DEF TxnEnd

\* Every step of the session, its statements and its BLOBs keeps the
\* handle fields well typed, whatever the native calls do.
LEMMA TypeOKStep == TypeOK /\ [Next]_vars => TypeOK'
<1> SUFFICES ASSUME TypeOK, [Next]_vars PROVE TypeOK'
  OBVIOUS
<1>. USE DEF TypeOK, HandleStates, CursorStates, BlobStates, Fields, Running,
             sessVars, stmtVars, blobVars, errVars
<1>1. CASE Begin \/ StartTransaction
  BY <1>1 DEF Begin, StartTransaction
<1>2. CASE Commit \/ Rollback
  <2>1. TxnEnd /\ UNCHANGED <<dbhp, statements, stmtp, meta, blobs, from_db,
                              loaded, misuse, terminated>>
    BY <1>2 DEF Commit, Rollback
  <2>2. TxnEnd => /\ trhp' \in {"null", "live"}
                  /\ cursor' \in [Stmts -> CursorStates]
                  /\ bhp' \in [Blobs -> BlobStates]
    BY TxnEndType
  <2>. QED
    BY <2>1, <2>2
<1>3. CASE SessionCleanUp
  BY <1>3, TxnEndType DEF SessionCleanUp
<1>4. ASSUME NEW s \in Stmts, AllocStatement(s) PROVE TypeOK'
  BY <1>4 DEF AllocStatement
<1>5. ASSUME NEW s \in Stmts, Prepare(s) PROVE TypeOK'
  <2>1. PrepareCleanUpResults(s) \subseteq CleanUpRecords
    BY PrepareCleanUpResultsType
  <2>2. \/ UNCHANGED <<stmtp, meta, misuse>>
        \/ \E r \in PrepareCleanUpResults(s) :
              /\ misuse' = misuse \cup r.misuse
              /\ stmtp' \in {[stmtp EXCEPT ![s] = r.stmtp], [stmtp EXCEPT ![s] = "live"]}
              /\ meta' \in {[meta EXCEPT ![s] = r.meta], [meta EXCEPT ![s] = "live"]}
    BY <1>5 DEF Prepare, stmtVars
  <2>3. /\ stmtp' \in [Stmts -> HandleStates]
        /\ meta' \in [Stmts -> HandleStates]
        /\ misuse' \subseteq Fields
    <3>1. CASE UNCHANGED <<stmtp, meta, misuse>>
      BY <3>1
    <3>2. CASE \E r \in PrepareCleanUpResults(s) :
              /\ misuse' = misuse \cup r.misuse
              /\ stmtp' \in {[stmtp EXCEPT ![s] = r.stmtp], [stmtp EXCEPT ![s] = "live"]}
              /\ meta' \in {[meta EXCEPT ![s] = r.meta], [meta EXCEPT ![s] = "live"]}
      <4>1. PICK r \in PrepareCleanUpResults(s) :
              /\ misuse' = misuse \cup r.misuse
              /\ stmtp' \in {[stmtp EXCEPT ![s] = r.stmtp], [stmtp EXCEPT ![s] = "live"]}
              /\ meta' \in {[meta EXCEPT ![s] = r.meta], [meta EXCEPT ![s] = "live"]}
        BY <3>2
      <4>2. r \in CleanUpRecords
        BY <4>1, <2>1
      <4>3. r.stmtp \in HandleStates /\ r.meta \in HandleStates /\ r.misuse \subseteq Fields
        BY <4>2 DEF CleanUpRecords
      <4>4. stmtp' \in [Stmts -> HandleStates]
        BY <4>1, <4>3
      <4>5. meta' \in [Stmts -> HandleStates]
        BY <4>1, <4>3
      <4>6. misuse' \subseteq Fields
        BY <4>1, <4>3, Zenon
      <4>. QED
        BY <4>4, <4>5, <4>6
    <3>. QED
      BY <2>2, <3>1, <3>2
  <2>4. trhp' \in {"null", "live"}
    BY <1>5 DEF Prepare, CurrentTxnOk, CurrentTxnFails
  <2>5. cursor' \in [Stmts -> CursorStates]
    BY <1>5 DEF Prepare
  <2>6. UNCHANGED <<dbhp, statements, blobs, bhp, from_db, loaded, terminated>>
    BY <1>5 DEF Prepare
  <2>. QED
    BY <2>3, <2>4, <2>5, <2>6
<1>6. ASSUME NEW s \in Stmts, Execute(s) PROVE TypeOK'
  BY <1>6 DEF Execute, CurrentTxnOk, CurrentTxnFails
<1>7. ASSUME NEW s \in Stmts, CleanUp(s) PROVE TypeOK'
  <2>1. CleanUpResults(s) \subseteq CleanUpRecords
    BY CleanUpResultsType
  <2>2. PICK r \in CleanUpResults(s) :
          /\ stmtp'  = [stmtp EXCEPT ![s] = r.stmtp]
          /\ meta'   = [meta EXCEPT ![s] = r.meta]
          /\ misuse' = misuse \cup r.misuse
          /\ statements' = IF r.ok THEN statements \ {s} ELSE statements
    BY <1>7, Zenon DEF CleanUp
  <2>3. r.stmtp \in HandleStates /\ r.meta \in HandleStates /\ r.misuse \subseteq Fields
    <3>1. r \in CleanUpRecords
      BY <2>1, <2>2, Zenon
    <3>. QED
      BY <3>1 DEF CleanUpRecords
  <2>4. /\ stmtp' \in [Stmts -> HandleStates]
        /\ meta' \in [Stmts -> HandleStates]
        /\ misuse' \subseteq Fields
        /\ statements' \subseteq Stmts
    BY <2>2, <2>3, Zenon
  <2>5. /\ cursor' = [cursor EXCEPT ![s] = "null"]
        /\ UNCHANGED <<dbhp, trhp, blobs, bhp, from_db, loaded, terminated>>
    BY <1>7 DEF CleanUp
  <2>. QED
    BY <2>4, <2>5
<1>8. ASSUME NEW b \in Blobs, AllocBlob(b) PROVE TypeOK'
  BY <1>8 DEF AllocBlob
<1>9. ASSUME NEW b \in Blobs, AssignBlob(b) PROVE TypeOK'
  BY <1>9, BlobResultsType DEF AssignBlob, Touched
<1>10. ASSUME NEW b \in Blobs, GetLen(b) PROVE TypeOK'
  BY <1>10 DEF GetLen, OpenBlobOk, OpenBlobFails, CurrentTxnOk, CurrentTxnFails
<1>11. ASSUME NEW b \in Blobs, AccessBlob(b) PROVE TypeOK'
  <2>1. SegmentResults("open") \subseteq BOOLEAN
    BY BlobResultsType
  <2>2. SegmentResults(bhp[b]) \subseteq BOOLEAN
    BY BlobResultsType
  <2>. QED
    BY <1>11, <2>1, <2>2 DEF AccessBlob, OpenBlobOk, OpenBlobFails,
                             CurrentTxnOk, CurrentTxnFails, Touched
<1>12. ASSUME NEW b \in Blobs, SaveBlob(b) PROVE TypeOK'
  <2>1. /\ SaveCloseResults(bhp[b]) \subseteq [ok : BOOLEAN, h : BlobStates]
        /\ BlobCleanUpResults("open") \subseteq [ok : BOOLEAN, h : BlobStates]
    BY BlobResultsType
  <2>2. bhp' \in [Blobs -> BlobStates]
    BY <1>12, <2>1 DEF SaveBlob
  <2>3. from_db' \in [Blobs -> BOOLEAN] /\ loaded' \in [Blobs -> BOOLEAN]
    BY <1>12, <2>1 DEF SaveBlob
  <2>4. trhp' \in {"null", "live"}
    BY <1>12 DEF SaveBlob, CurrentTxnOk, CurrentTxnFails
  <2>5. misuse' \subseteq Fields
    BY <1>12 DEF SaveBlob, Touched
  <2>. QED
    BY <1>12, <2>2, <2>3, <2>4, <2>5 DEF SaveBlob
<1>13. ASSUME NEW b \in Blobs, DestroyBlob(b) PROVE TypeOK'
  BY <1>13, BlobResultsType DEF DestroyBlob, Touched
<1>14. CASE Finished \/ UNCHANGED vars
  BY <1>14 DEF Finished, vars, sessVars, stmtVars, blobVars, errVars
<1>. QED
  BY <1>1, <1>2, <1>3, <1>4, <1>5, <1>6, <1>7, <1>8, <1>9, <1>10,
     <1>11, <1>12, <1>13, <1>14 DEF Next

\* Every reachable state is well typed: the handle fields take only the
\* values the abstraction allows, whatever the native calls do.
THEOREM TypeCorrect == Spec => []TypeOK
<1>1. Init => TypeOK
  BY DEF Init, TypeOK, HandleStates, CursorStates, BlobStates
<1>. QED
  BY <1>1, TypeOKStep, PTL DEF Spec
-----------------------------------------------------------------------------
(* Cursors are closed before their transaction ends, as long as closing a  *)
(* live cursor never fails.                                                *)

\* The inductive strengthening of CursorsClosedBeforeTxnEnd: besides the
\* type invariant, a statement that left statements_ holds no cursor, so
\* the end of a transaction cannot leave one behind.
CursorPart ==
    /\ CursorsClosedBeforeTxnEnd
    /\ \A s \in Stmts \ statements : cursor[s] = "null"

\* With no stale cursor and no failing close(), close_cursor() never throws.
LEMMA CloseCursorNeverFails ==
    ASSUME "closeCursor" \notin Faults, CursorsClosedBeforeTxnEnd,
           NEW s \in Stmts
    PROVE  ~CloseCursorFails(cursor[s])
BY DEF CloseCursorFails, Fails, CursorsClosedBeforeTxnEnd

\* Then closeCursorsAndBlobs() closes every registered cursor, and since an
\* unregistered statement has none, no cursor is left at the end of the
\* transaction.
LEMMA TxnEndClosesAll ==
    ASSUME "closeCursor" \notin Faults, TypeOK, CursorPart, TxnEnd
    PROVE  cursor' = [s \in Stmts |-> "null"]
<1>1. \A s \in statements : ~CloseCursorFails(cursor[s])
  BY CloseCursorNeverFails DEF CursorPart, TypeOK
<1>2. cursor' = [s \in Stmts |->
                   IF s \in statements THEN "null" ELSE Invalidate(cursor[s])]
  BY <1>1 DEF TxnEnd
<1>. QED
  BY <1>2 DEF CursorPart, Invalidate

\* Every step keeps CursorPart when close() does not fail on a live cursor.
LEMMA CursorPartStep ==
    ASSUME "closeCursor" \notin Faults
    PROVE  TypeOK /\ CursorPart /\ [Next]_vars => CursorPart'
<1> SUFFICES ASSUME TypeOK, CursorPart, [Next]_vars PROVE CursorPart'
  OBVIOUS
<1>. USE DEF CursorPart, CursorsClosedBeforeTxnEnd, TypeOK
<1>1. CASE Commit \/ Rollback
  <2>1. TxnEnd /\ statements' = statements
    BY <1>1 DEF Commit, Rollback
  <2>. QED
    BY <2>1, TxnEndClosesAll
<1>2. CASE SessionCleanUp
  <2>1. statements' = statements /\ (TxnEnd \/ cursor' = cursor)
    BY <1>2 DEF SessionCleanUp
  <2>. QED
    BY <2>1, TxnEndClosesAll
<1>3. ASSUME NEW s \in Stmts, AllocStatement(s) PROVE CursorPart'
  BY <1>3 DEF AllocStatement
<1>4. ASSUME NEW s \in Stmts, Prepare(s) PROVE CursorPart'
  <2>1. /\ statements' = statements
        /\ cursor' \in {cursor, [cursor EXCEPT ![s] = "null"]}
    BY <1>4 DEF Prepare, stmtVars
  <2>. QED
    BY <2>1
<1>5. ASSUME NEW s \in Stmts, Execute(s) PROVE CursorPart'
  BY <1>5 DEF Execute
<1>6. ASSUME NEW s \in Stmts, CleanUp(s) PROVE CursorPart'
  BY <1>6 DEF CleanUp
<1>8. ASSUME NEW b \in Blobs,
             AllocBlob(b) \/ AssignBlob(b) \/ GetLen(b) \/ AccessBlob(b)
             \/ SaveBlob(b) \/ DestroyBlob(b)
      PROVE  UNCHANGED <<statements, cursor>>
  BY <1>8 DEF AllocBlob, AssignBlob, GetLen, AccessBlob, SaveBlob, DestroyBlob,
              sessVars, stmtVars
<1>9. Begin \/ StartTransaction \/ Finished \/ UNCHANGED vars
        => UNCHANGED <<statements, cursor>>
  BY DEF Begin, StartTransaction, Finished, vars, sessVars, stmtVars
<1>. QED
  BY <1>1, <1>2, <1>3, <1>4, <1>5, <1>6, <1>8, <1>9 DEF Next

\* No reachable state has a statement holding a cursor its transaction
\* ended under, provided close() succeeds on every live cursor: commit()
\* and rollback() close the registered statements' cursors first
\* (closeCursorsAndBlobs), and a statement leaves the registry only through
\* clean_up(), which nulls its cursor.
THEOREM CursorsClosed ==
    ASSUME "closeCursor" \notin Faults
    PROVE  Spec => []CursorsClosedBeforeTxnEnd
<1>1. Init => TypeOK /\ CursorPart
  BY DEF Init, TypeOK, CursorPart, CursorsClosedBeforeTxnEnd,
         HandleStates, CursorStates, BlobStates
<1>2. TypeOK /\ CursorPart /\ [Next]_vars => (TypeOK /\ CursorPart)'
  BY TypeOKStep, CursorPartStep
<1>3. TypeOK /\ CursorPart => CursorsClosedBeforeTxnEnd
  BY DEF CursorPart
<1>. QED
  BY <1>1, <1>2, <1>3, PTL DEF Spec

-----------------------------------------------------------------------------
(***************************************************************************)
(* NoUseAfterRelease.  The failures it is proved under are those the      *)
(* release-and-reset paths are meant to absorb; a failing free(), a       *)
(* failing prepare or metadata call and a failing createBlob each leave a *)
(* released object behind (the free and createblob runs show the first    *)
(* and the last).                                                          *)
(***************************************************************************)
ReleaseFaults == Faults \cap {"free", "prepare", "createBlob"} = {}

(***************************************************************************)
(* The inductive strengthening of NoUseAfterRelease.  No stmtp_ or bhp_   *)
(* points to a released object; the metadata of a registered statement    *)
(* does not either (clean_up() releases in_meta_ and out_meta_ without     *)
(* resetting them, but the backend then leaves statements_ for good, and a *)
(* new backend starts null).  An open BLOB belongs to the live            *)
(* transaction: the end of a transaction invalidates every open BLOB, so  *)
(* save() closing an open handle always finds a transaction for its       *)
(* createBlob and never stops with bhp_ dangling.                          *)
(***************************************************************************)
ReleaseInv ==
    /\ NoUseAfterRelease
    /\ \A s \in Stmts : stmtp[s] # "dangling"
    /\ \A s \in statements : meta[s] # "dangling"
    /\ \A b \in Blobs : bhp[b] # "dangling"
    /\ \A b \in Blobs : bhp[b] = "open" => trhp = "live"

\* With no failing free(), clean_up() on a registered statement whose
\* handles are not released touches nothing released, never leaves stmtp_
\* dangling, and changes nothing when it throws.
LEMMA CleanUpSafe ==
    ASSUME ReleaseFaults, TypeOK, NEW s \in Stmts,
           stmtp[s] # "dangling", meta[s] # "dangling",
           NEW r \in CleanUpResults(s)
    PROVE  /\ r.misuse = {}
           /\ r.stmtp # "dangling"
           /\ ~r.ok => r.stmtp = stmtp[s] /\ r.meta = meta[s]
<1>1. ~Fails("free")
  BY DEF ReleaseFaults, Fails
<1>2. FreeResults(stmtp[s]) = {[ok |-> TRUE, h |-> "null"]}
  BY <1>1 DEF FreeResults
<1>3. Touched(stmtp[s], "stmtp") \cup Touched(meta[s], "meta") = {}
  BY DEF Touched
<1>. QED
  BY <1>2, <1>3 DEF CleanUpResults

\* The same for the clean_up() that prepare() runs.
LEMMA PrepareCleanUpSafe ==
    ASSUME ReleaseFaults, TypeOK, NEW s \in Stmts,
           stmtp[s] # "dangling", meta[s] # "dangling",
           NEW r \in PrepareCleanUpResults(s)
    PROVE  /\ r.misuse = {}
           /\ r.stmtp # "dangling"
           /\ ~r.ok => r.stmtp = stmtp[s] /\ r.meta = meta[s]
<1>1. CASE stmtp[s] = "null"
  BY <1>1 DEF PrepareCleanUpResults
<1>2. CASE stmtp[s] # "null"
  BY <1>2, CleanUpSafe DEF PrepareCleanUpResults
<1>. QED
  BY <1>1, <1>2

\* The BLOB's cleanUp() always leaves bhp_ null.
LEMMA BlobCleanUpNulls ==
    ASSUME NEW h, NEW r \in BlobCleanUpResults(h)
    PROVE  r.h = "null"
  BY DEF BlobCleanUpResults

\* The close that save() starts with leaves bhp_ dangling only when it
\* closed an open BLOB, and as it was when it throws.
LEMMA SaveCloseSafe ==
    ASSUME NEW h, h # "dangling", NEW r \in SaveCloseResults(h)
    PROVE  /\ r.ok => r.h \in {"null", "dangling"}
           /\ r.h = "dangling" => h = "open"
           /\ ~r.ok => r.h = h
  BY DEF SaveCloseResults

\* The end of a transaction leaves no BLOB open and releases none.
LEMMA TxnEndBlobs ==
    ASSUME TxnEnd, \A b \in Blobs : bhp[b] # "dangling"
    PROVE  \A b \in Blobs : bhp'[b] \notin {"open", "dangling"}
  BY DEF TxnEnd, Invalidate

\* Every step keeps ReleaseInv when free(), prepare and createBlob do not
\* fail.
LEMMA ReleaseInvStep ==
    ASSUME ReleaseFaults
    PROVE  TypeOK /\ ReleaseInv /\ [Next]_vars => ReleaseInv'
<1> SUFFICES ASSUME TypeOK, ReleaseInv, [Next]_vars PROVE ReleaseInv'
  OBVIOUS
<1>. USE DEF ReleaseInv, NoUseAfterRelease
<1>1. CASE Begin \/ StartTransaction
  BY <1>1 DEF Begin, StartTransaction, stmtVars, blobVars, errVars
<1>2. CASE Commit \/ Rollback \/ SessionCleanUp
  <2>1. /\ UNCHANGED <<statements, stmtp, meta, misuse>>
        /\ TxnEnd \/ UNCHANGED <<trhp, bhp>>
    BY <1>2 DEF Commit, Rollback, SessionCleanUp, errVars
  <2>. QED
    BY <2>1, TxnEndBlobs
<1>3. ASSUME NEW s \in Stmts, AllocStatement(s) PROVE ReleaseInv'
  BY <1>3 DEF AllocStatement, blobVars, errVars, TypeOK
<1>4. ASSUME NEW s \in Stmts, Prepare(s) PROVE ReleaseInv'
  <2>1. /\ s \in statements
        /\ UNCHANGED <<statements, bhp>>
        /\ trhp = "live" => trhp' = "live"
    BY <1>4 DEF Prepare, blobVars, CurrentTxnOk, CurrentTxnFails
  <2>2. ~Fails("prepare")
    BY DEF ReleaseFaults, Fails
  <2>3. CASE UNCHANGED <<stmtp, meta, misuse>>
    BY <2>1, <2>3
  <2>4. CASE ~UNCHANGED <<stmtp, meta, misuse>>
    <3>1. PICK r \in PrepareCleanUpResults(s) :
             /\ misuse' = misuse \cup r.misuse
             /\ \/ ~r.ok /\ stmtp' = [stmtp EXCEPT ![s] = r.stmtp]
                         /\ meta'  = [meta EXCEPT ![s] = r.meta]
                \/ r.ok  /\ stmtp' = [stmtp EXCEPT ![s] = "live"]
                         /\ meta'  = [meta EXCEPT ![s] = "live"]
      BY <1>4, <2>2, <2>4 DEF Prepare, stmtVars
    <3>2. /\ r.misuse = {}
          /\ r.stmtp # "dangling"
          /\ ~r.ok => r.stmtp = stmtp[s] /\ r.meta = meta[s]
      BY <2>1, PrepareCleanUpSafe
    <3>. QED
      BY <2>1, <3>1, <3>2 DEF TypeOK
  <2>. QED
    BY <2>3, <2>4
<1>5. ASSUME NEW s \in Stmts, Execute(s) PROVE ReleaseInv'
  BY <1>5 DEF Execute, blobVars, errVars, CurrentTxnOk, CurrentTxnFails
<1>6. ASSUME NEW s \in Stmts, CleanUp(s) PROVE ReleaseInv'
  <2>1. PICK r \in CleanUpResults(s) :
           /\ stmtp'  = [stmtp EXCEPT ![s] = r.stmtp]
           /\ meta'   = [meta EXCEPT ![s] = r.meta]
           /\ misuse' = misuse \cup r.misuse
           /\ statements' = IF r.ok THEN statements \ {s} ELSE statements
    BY <1>6, Zenon DEF CleanUp
  <2>2. /\ s \in statements
        /\ UNCHANGED <<trhp, bhp>>
    BY <1>6 DEF CleanUp, blobVars
  <2>3. /\ r.misuse = {}
        /\ r.stmtp # "dangling"
        /\ ~r.ok => r.stmtp = stmtp[s] /\ r.meta = meta[s]
    BY <2>2, CleanUpSafe
  <2>. QED
    BY <2>1, <2>2, <2>3 DEF TypeOK
<1>7. ASSUME NEW b \in Blobs, AllocBlob(b) PROVE ReleaseInv'
  BY <1>7 DEF AllocBlob, sessVars, stmtVars, errVars, TypeOK
<1>8. ASSUME NEW b \in Blobs, AssignBlob(b) \/ DestroyBlob(b) PROVE ReleaseInv'
  <2>1. PICK r \in BlobCleanUpResults(bhp[b]) : bhp' = [bhp EXCEPT ![b] = r.h]
    BY <1>8 DEF AssignBlob, DestroyBlob
  <2>2. r.h = "null"
    BY BlobCleanUpNulls
  <2>3. /\ UNCHANGED <<trhp, statements, stmtp, meta>>
        /\ misuse' = misuse \cup Touched(bhp[b], "bhp")
    BY <1>8 DEF AssignBlob, DestroyBlob, sessVars, stmtVars
  <2>. QED
    BY <2>1, <2>2, <2>3 DEF Touched, TypeOK
<1>9. ASSUME NEW b \in Blobs, GetLen(b) \/ AccessBlob(b) PROVE ReleaseInv'
  <2>1. /\ UNCHANGED <<statements, stmtp, meta>>
        /\ misuse' = misuse \cup Touched(bhp[b], "bhp") \/ misuse' = misuse
        /\ trhp = "live" => trhp' = "live"
        /\ \/ bhp' = bhp
           \/ bhp' = [bhp EXCEPT ![b] = "open"] /\ trhp' = "live"
    BY <1>9 DEF GetLen, AccessBlob, OpenBlobOk, OpenBlobFails, CurrentTxnOk,
                CurrentTxnFails, stmtVars, errVars
  <2>. QED
    BY <2>1 DEF Touched, TypeOK
<1>10. ASSUME NEW b \in Blobs, SaveBlob(b) PROVE ReleaseInv'
  <2>1. /\ UNCHANGED <<statements, stmtp, meta>>
        /\ misuse' = misuse \cup Touched(bhp[b], "bhp")
    BY <1>10 DEF SaveBlob, stmtVars
  <2>2. misuse' = {}
    BY <2>1 DEF Touched
  <2>3. ~Fails("createBlob")
    BY DEF ReleaseFaults, Fails
  <2>4. PICK r \in SaveCloseResults(bhp[b]) :
          \/ /\ ~r.ok
             /\ UNCHANGED <<trhp, bhp>>
          \/ /\ r.ok /\ trhp = "null"
             /\ UNCHANGED trhp
             /\ bhp' = [bhp EXCEPT ![b] = r.h]
          \/ /\ r.ok /\ trhp' = "live"
             /\ bhp' = [bhp EXCEPT ![b] = "open"]
          \/ /\ r.ok /\ trhp' = "live"
             /\ \E c \in BlobCleanUpResults("open") : bhp' = [bhp EXCEPT ![b] = c.h]
    BY <1>10, <2>3 DEF SaveBlob, CurrentTxnOk, CurrentTxnFails
  <2>5. /\ r.ok => r.h \in {"null", "dangling"}
        /\ r.h = "dangling" => bhp[b] = "open"
    BY SaveCloseSafe
  <2>6. \A c \in BlobCleanUpResults("open") : c.h = "null"
    BY BlobCleanUpNulls
  <2>7. trhp = "live" => trhp' = "live"
    BY <1>10 DEF SaveBlob, CurrentTxnOk, CurrentTxnFails
  <2>. QED
    BY <2>1, <2>2, <2>4, <2>5, <2>6, <2>7 DEF TypeOK
<1>11. CASE Finished \/ UNCHANGED vars
  BY <1>11 DEF Finished, vars, sessVars, stmtVars, blobVars, errVars
<1>. QED
  BY <1>1, <1>2, <1>3, <1>4, <1>5, <1>6, <1>7, <1>8, <1>9, <1>10, <1>11 DEF Next

(* No method is ever called on a released statement, metadata or BLOB     *)
(* object, for any sets of statements and BLOBs, whatever the transaction *)
(* starts, cursor closes and BLOB calls do, as long as free(), prepare and *)
(* createBlob do not throw: close_cursor() always nulls cursor_, the      *)
(* BLOB's cleanUp() always nulls bhp_, and a backend whose metadata       *)
(* clean_up() released leaves statements_ for good.                      *)
THEOREM NoReleasedUse ==
    ASSUME ReleaseFaults
    PROVE  Spec => []NoUseAfterRelease
<1>1. Init => TypeOK /\ ReleaseInv
  <2>1. Init => TypeOK
    BY DEF Init, TypeOK, HandleStates, CursorStates, BlobStates
  <2>2. Init => ReleaseInv
    BY DEF Init, ReleaseInv, NoUseAfterRelease
  <2>. QED
    BY <2>1, <2>2
<1>2. TypeOK /\ ReleaseInv /\ [Next]_vars => (TypeOK /\ ReleaseInv)'
  BY TypeOKStep, ReleaseInvStep
<1>3. ReleaseInv => NoUseAfterRelease
  BY DEF ReleaseInv
<1>. QED
  BY <1>1, <1>2, <1>3, PTL DEF Spec
-----------------------------------------------------------------------------
(***************************************************************************)
(* The session implements FirebirdTransaction.  The mapping needs, beyond  *)
(* CursorPart, that a cursor is set only while trhp_ is: execute() opens   *)
(* one only after current_transaction() succeeded, and the end of a        *)
(* transaction nulls them all.                                             *)
(***************************************************************************)

\* A statement holds a cursor only while the session has a transaction.
TxnPart == \A s \in Stmts : cursor[s] # "null" => trhp = "live"

\* What prepare() does to the handles the mapping reads.
LEMMA PrepareTxn ==
    ASSUME NEW s \in Stmts, Prepare(s)
    PROVE  /\ trhp' \in {trhp, "live"}
           /\ UNCHANGED <<dbhp, statements>>
           /\ s \in statements /\ dbhp = "live"
           /\ cursor' \in {cursor, [cursor EXCEPT ![s] = "null"]}
BY DEF Prepare, CurrentTxnOk, CurrentTxnFails, stmtVars, Running

\* What execute() does to them: the cursor it opens lives in trhp_.
LEMMA ExecuteTxn ==
    ASSUME NEW s \in Stmts, Execute(s)
    PROVE  /\ trhp' \in {trhp, "live"}
           /\ UNCHANGED <<dbhp, statements>>
           /\ s \in statements /\ dbhp = "live"
           /\ \/ cursor' = [cursor EXCEPT ![s] = "null"]
              \/ cursor' = [cursor EXCEPT ![s] = "open"] /\ trhp' = "live"
BY DEF Execute, CurrentTxnOk, CurrentTxnFails, Running

\* What clean_up() does to them: the cursor is nulled, and the statement
\* leaves statements_ when clean_up() succeeds.
LEMMA CleanUpTxn ==
    ASSUME NEW s \in Stmts, CleanUp(s)
    PROVE  /\ UNCHANGED <<dbhp, trhp>>
           /\ s \in statements /\ dbhp = "live"
           /\ cursor' = [cursor EXCEPT ![s] = "null"]
           /\ statements' \in {statements, statements \ {s}}
<1>1. PICK r \in CleanUpResults(s) :
             statements' = IF r.ok THEN statements \ {s} ELSE statements
  BY Zenon DEF CleanUp
<1>2. statements' \in {statements, statements \ {s}}
  BY <1>1
<1>. QED
  BY <1>2 DEF CleanUp, Running

\* The BLOB operations change no statement and at most start a transaction.
LEMMA BlobTxn ==
    ASSUME NEW b \in Blobs,
           AllocBlob(b) \/ AssignBlob(b) \/ GetLen(b) \/ AccessBlob(b)
           \/ SaveBlob(b) \/ DestroyBlob(b)
    PROVE  /\ trhp' \in {trhp, "live"}
           /\ UNCHANGED <<dbhp, statements, cursor>>
           /\ dbhp = "live"
<1>1. CASE AllocBlob(b) \/ AssignBlob(b) \/ DestroyBlob(b)
  BY <1>1 DEF AllocBlob, AssignBlob, DestroyBlob, sessVars, stmtVars, Running
<1>2. CASE GetLen(b)
  BY <1>2 DEF GetLen, OpenBlobOk, OpenBlobFails, CurrentTxnOk,
              CurrentTxnFails, stmtVars, Running
<1>3. CASE AccessBlob(b)
  BY <1>3 DEF AccessBlob, OpenBlobOk, OpenBlobFails, CurrentTxnOk,
              CurrentTxnFails, stmtVars, Running
<1>4. CASE SaveBlob(b)
  <2>1. PICK r \in SaveCloseResults(bhp[b]) :
           \/ UNCHANGED trhp
           \/ CurrentTxnFails \/ CurrentTxnOk
    BY <1>4, Zenon DEF SaveBlob
  <2>2. trhp' \in {trhp, "live"}
    BY <2>1 DEF CurrentTxnOk, CurrentTxnFails
  <2>. QED
    BY <1>4, <2>2 DEF SaveBlob, stmtVars, Running
<1>. QED
  BY <1>1, <1>2, <1>3, <1>4

\* A step that only nulls cursors and at most starts a transaction keeps
\* TxnPart.
LEMMA TxnPartKept ==
    ASSUME TxnPart, trhp' \in {trhp, "live"},
           \A t \in Stmts : cursor'[t] # "null" => cursor[t] # "null"
    PROVE  TxnPart'
BY DEF TxnPart

\* Every step keeps TxnPart when close() does not fail on a live cursor.
LEMMA TxnPartStep ==
    ASSUME "closeCursor" \notin Faults
    PROVE  TypeOK /\ CursorPart /\ TxnPart /\ [Next]_vars => TxnPart'
<1> SUFFICES ASSUME TypeOK, CursorPart, TxnPart, [Next]_vars PROVE TxnPart'
  OBVIOUS
<1>1. CASE Commit \/ Rollback
  <2>1. TxnEnd
    BY <1>1 DEF Commit, Rollback
  <2>. QED
    BY <2>1, TxnEndClosesAll DEF TxnPart
<1>2. CASE SessionCleanUp
  <2>1. TxnEnd \/ UNCHANGED <<trhp, cursor>>
    BY <1>2 DEF SessionCleanUp
  <2>. QED
    BY <2>1, TxnEndClosesAll DEF TxnPart
<1>3. ASSUME NEW s \in Stmts, AllocStatement(s) PROVE TxnPart'
  BY <1>3 DEF AllocStatement, TxnPart
<1>4. ASSUME NEW s \in Stmts, Prepare(s) PROVE TxnPart'
  BY <1>4, PrepareTxn, TxnPartKept DEF TypeOK
<1>5. ASSUME NEW s \in Stmts, Execute(s) PROVE TxnPart'
  BY <1>5, ExecuteTxn DEF TypeOK, TxnPart
<1>6. ASSUME NEW s \in Stmts, CleanUp(s) PROVE TxnPart'
  BY <1>6, CleanUpTxn, TxnPartKept DEF TypeOK
<1>7. ASSUME NEW b \in Blobs,
             AllocBlob(b) \/ AssignBlob(b) \/ GetLen(b) \/ AccessBlob(b)
             \/ SaveBlob(b) \/ DestroyBlob(b)
      PROVE  TxnPart'
  BY <1>7, BlobTxn, TxnPartKept
<1>8. CASE Begin \/ StartTransaction \/ Finished \/ UNCHANGED vars
  BY <1>8 DEF Begin, StartTransaction, Finished, vars, sessVars, stmtVars,
              TxnPart
<1>. QED
  BY <1>1, <1>2, <1>3, <1>4, <1>5, <1>6, <1>7, <1>8 DEF Next

\* A step that at most starts a transaction and leaves the statements, their
\* cursors and the attachment alone is Begin or a stutter.
LEMMA TxnBeginOrStutter ==
    ASSUME TypeOK, dbhp = "live", trhp' \in {trhp, "live"},
           UNCHANGED <<dbhp, statements, cursor>>
    PROVE  [Txn!Next]_Txn!vars
<1>1. CASE trhp' = trhp
  BY <1>1 DEF Txn!vars
<1>2. CASE trhp' = "live" /\ trhp # "live"
  <2>1. trhp = "null"
    BY <1>2 DEF TypeOK
  <2>2. Txn!Begin
    BY <1>2, <2>1 DEF Txn!Begin
  <2>. QED
    BY <2>2 DEF Txn!Next
<1>. QED
  BY <1>1, <1>2

\* Nulling a registered statement's cursor, with at most a transaction
\* started, is CloseCursor.
LEMMA TxnCloseCursor ==
    ASSUME TypeOK, NEW s \in statements, dbhp = "live",
           trhp' \in {trhp, "live"},
           cursor' = [cursor EXCEPT ![s] = "null"],
           UNCHANGED <<dbhp, statements>>
    PROVE  [Txn!Next]_Txn!vars
<1>1. s \in Stmts /\ cursor \in [Stmts -> CursorStates]
  BY DEF TypeOK
<1>2. {t \in Stmts : cursor'[t] # "null"} = {t \in Stmts : cursor[t] # "null"} \ {s}
  BY <1>1
<1>3. (IF trhp' = "live" THEN "active" ELSE "none")
        \in {IF trhp = "live" THEN "active" ELSE "none", "active"}
  OBVIOUS
<1>4. Txn!CloseCursor(s)
  BY <1>2, <1>3 DEF Txn!CloseCursor
<1>. QED
  BY <1>1, <1>4 DEF Txn!Next

\* The end of a transaction that nulls every cursor is End.
LEMMA TxnEndIsEnd ==
    ASSUME dbhp = "live", trhp = "live", trhp' = "null",
           cursor' = [t \in Stmts |-> "null"],
           UNCHANGED <<dbhp, statements>>
    PROVE  Txn!End
<1>1. {t \in Stmts : cursor'[t] # "null"} = {}
  OBVIOUS
<1>. QED
  BY <1>1 DEF Txn!End

\* Every step of the session is a step of FirebirdTransaction or a stutter.
LEMMA TxnStep ==
    ASSUME "closeCursor" \notin Faults, TypeOK, CursorPart, TxnPart,
           [Next]_vars
    PROVE  [Txn!Next]_Txn!vars
<1>1. CASE Commit \/ Rollback
  <2>1. TxnEnd /\ Running /\ UNCHANGED <<dbhp, statements>>
    BY <1>1 DEF Commit, Rollback
  <2>2. cursor' = [t \in Stmts |-> "null"] /\ trhp = "live" /\ trhp' = "null"
    BY <2>1, TxnEndClosesAll DEF TxnEnd
  <2>3. Txn!End
    BY <2>1, <2>2, TxnEndIsEnd DEF Running
  <2>. QED
    BY <2>3 DEF Txn!Next
<1>2. CASE SessionCleanUp
  <2>1. /\ dbhp = "live" /\ dbhp' = "null" /\ UNCHANGED statements
        /\ IF trhp = "live" THEN TxnEnd ELSE UNCHANGED <<trhp, cursor>>
    BY <1>2 DEF SessionCleanUp, Running
  <2>2. cursor' = [t \in Stmts |-> "null"] /\ trhp' = "null"
    <3>1. CASE trhp = "live"
      BY <2>1, <3>1, TxnEndClosesAll DEF TxnEnd
    <3>2. CASE trhp # "live"
      <4>1. \A t \in Stmts : cursor[t] = "null"
        BY <3>2 DEF TxnPart
      <4>. QED
        BY <2>1, <3>2, <4>1 DEF TypeOK
    <3>. QED
      BY <3>1, <3>2
  <2>3. {t \in Stmts : cursor'[t] # "null"} = {}
    BY <2>2
  <2>4. Txn!Close
    BY <2>1, <2>2, <2>3 DEF Txn!Close
  <2>. QED
    BY <2>4 DEF Txn!Next
<1>3. ASSUME NEW s \in Stmts, AllocStatement(s) PROVE [Txn!Next]_Txn!vars
  <2>1. /\ dbhp = "live" /\ s \notin statements /\ UNCHANGED <<dbhp, trhp>>
        /\ statements' = statements \cup {s}
        /\ cursor' = [cursor EXCEPT ![s] = "null"]
    BY <1>3 DEF AllocStatement, Running
  <2>2. cursor[s] = "null"
    BY <2>1 DEF CursorPart
  <2>3. {t \in Stmts : cursor'[t] # "null"} = {t \in Stmts : cursor[t] # "null"}
    BY <2>1, <2>2 DEF TypeOK
  <2>4. Txn!Register(s)
    BY <2>1, <2>3 DEF Txn!Register
  <2>. QED
    BY <2>4 DEF Txn!Next
<1>4. ASSUME NEW s \in Stmts, Prepare(s) PROVE [Txn!Next]_Txn!vars
  <2>1. CASE cursor' = cursor
    BY <1>4, <2>1, PrepareTxn, TxnBeginOrStutter
  <2>2. CASE cursor' = [cursor EXCEPT ![s] = "null"]
    BY <1>4, <2>2, PrepareTxn, TxnCloseCursor
  <2>. QED
    BY <1>4, <2>1, <2>2, PrepareTxn
<1>5. ASSUME NEW s \in Stmts, Execute(s) PROVE [Txn!Next]_Txn!vars
  <2>1. CASE cursor' = [cursor EXCEPT ![s] = "null"]
    BY <1>5, <2>1, ExecuteTxn, TxnCloseCursor
  <2>2. CASE cursor' = [cursor EXCEPT ![s] = "open"] /\ trhp' = "live"
    <3>1. s \in statements /\ dbhp = "live" /\ UNCHANGED <<dbhp, statements>>
      BY <1>5, ExecuteTxn
    <3>2. {t \in Stmts : cursor'[t] # "null"}
            = {t \in Stmts : cursor[t] # "null"} \cup {s}
      BY <2>2 DEF TypeOK
    <3>3. Txn!OpenCursor(s)
      BY <2>2, <3>1, <3>2 DEF Txn!OpenCursor
    <3>. QED
      BY <3>3 DEF Txn!Next
  <2>. QED
    BY <1>5, <2>1, <2>2, ExecuteTxn
<1>6. ASSUME NEW s \in Stmts, CleanUp(s) PROVE [Txn!Next]_Txn!vars
  <2>1. CASE statements' = statements
    BY <1>6, <2>1, CleanUpTxn, TxnCloseCursor
  <2>2. CASE statements' = statements \ {s}
    <3>1. /\ s \in statements /\ dbhp = "live" /\ UNCHANGED <<dbhp, trhp>>
          /\ cursor' = [cursor EXCEPT ![s] = "null"]
      BY <1>6, CleanUpTxn
    <3>2. {t \in Stmts : cursor'[t] # "null"}
            = {t \in Stmts : cursor[t] # "null"} \ {s}
      BY <3>1 DEF TypeOK
    <3>3. Txn!Unregister(s)
      BY <2>2, <3>1, <3>2 DEF Txn!Unregister
    <3>. QED
      BY <3>3 DEF Txn!Next
  <2>. QED
    BY <1>6, <2>1, <2>2, CleanUpTxn
<1>7. ASSUME NEW b \in Blobs,
             AllocBlob(b) \/ AssignBlob(b) \/ GetLen(b) \/ AccessBlob(b)
             \/ SaveBlob(b) \/ DestroyBlob(b)
      PROVE  [Txn!Next]_Txn!vars
  BY <1>7, BlobTxn, TxnBeginOrStutter
<1>8. CASE Begin \/ StartTransaction
  <2>1. Running /\ trhp = "null" /\ trhp' = "live"
        /\ UNCHANGED <<dbhp, statements, cursor>>
    BY <1>8 DEF Begin, StartTransaction, stmtVars
  <2>. QED
    BY <2>1, TxnBeginOrStutter DEF Running
<1>9. CASE Finished \/ UNCHANGED vars
  <2>1. UNCHANGED <<dbhp, trhp, statements, cursor>>
    BY <1>9 DEF Finished, vars, sessVars, stmtVars
  <2>. QED
    BY <2>1 DEF Txn!vars
<1>. QED
  BY <1>1, <1>2, <1>3, <1>4, <1>5, <1>6, <1>7, <1>8, <1>9 DEF Next

(* For any sets of statements and BLOBs and any failing calls other than a *)
(* failing close() of a live cursor, the session implements               *)
(* FirebirdTransaction: a cursor is opened only for a registered statement *)
(* inside the current transaction, commit(), rollback() and cleanUp()     *)
(* leave no cursor set when the transaction ends, and a statement leaves  *)
(* statements_ only with its cursor nulled.                               *)
THEOREM TxnRefined ==
    ASSUME "closeCursor" \notin Faults
    PROVE  Spec => TxnRefinement
<1>1. Init => TypeOK /\ CursorPart /\ TxnPart
  BY DEF Init, TypeOK, CursorPart, CursorsClosedBeforeTxnEnd, TxnPart,
         HandleStates, CursorStates, BlobStates
<1>2. Init => Txn!Init
  <2>1. Init => {t \in Stmts : cursor[t] # "null"} = {}
    BY DEF Init
  <2>. QED
    BY <2>1 DEF Init, Txn!Init
<1>3. TypeOK /\ CursorPart /\ TxnPart /\ [Next]_vars
        => (TypeOK /\ CursorPart /\ TxnPart)'
  BY TypeOKStep, CursorPartStep, TxnPartStep
<1>4. TypeOK /\ CursorPart /\ TxnPart /\ [Next]_vars => [Txn!Next]_Txn!vars
  BY TxnStep
<1>. QED
  BY <1>1, <1>2, <1>3, <1>4, PTL DEF Spec, TxnRefinement, Txn!Spec
=============================================================================
