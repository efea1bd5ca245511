-------------------------- MODULE FirebirdSession --------------------------
(***************************************************************************)
(* The life cycle of the engine handles owned by one Firebird session      *)
(* backend (session.cpp), its statement backends (statement.cpp) and its   *)
(* BLOB backends (blob.cpp).                                                *)
(*                                                                         *)
(* A handle field (trhp_, stmtp_, in_meta_/out_meta_, cursor_, bhp_) is    *)
(* abstracted to what the pointer refers to:                               *)
(*   "null"     the field is nullptr;                                      *)
(*   "live"     a valid engine object (statement, metadata);               *)
(*   "open"     a valid cursor or BLOB of the current transaction;         *)
(*   "stale"    a cursor or BLOB the engine invalidated when its           *)
(*              transaction ended: close() on it throws (the comment of    *)
(*              struct Statements in soci-firebird.h says so);             *)
(*   "dangling" the field still points to an object already released.     *)
(* Every native call that the code guards with a catch may throw; the     *)
(* constant Faults names the calls allowed to throw in a run.  Queries,    *)
(* names, buffers and values are data and are abstracted away: only the    *)
(* control of every handler and its effect on the handles is kept.         *)
(***************************************************************************)

CONSTANTS
    Stmts,   \* identities of statement backends (model values)
    Blobs,   \* identities of BLOB backends (model values)
    Faults   \* the native calls that may throw FbException in a run

\* The native calls whose failure changes what the handles look like.
FaultKinds == {"startTransaction", "closeCursor", "free", "prepare",
               "openBlob", "getSegment", "createBlob", "putSegment",
               "closeBlob"}

ASSUME FaultsAssumption == Faults \subseteq FaultKinds

Fails(k) == k \in Faults

VARIABLES
    dbhp,        \* session: the attachment dbhp_ ("live" until cleanUp)
    trhp,        \* session: the transaction handle trhp_
    statements,  \* session: the registry statements_ of live statement backends
    stmtp,       \* statement: stmtp_
    meta,        \* statement: in_meta_ and out_meta_ (always handled together)
    cursor,      \* statement: cursor_
    blobs,       \* the live BLOB backends
    bhp,         \* BLOB: bhp_
    from_db,     \* BLOB: from_db_
    loaded,      \* BLOB: loaded_
    misuse,      \* the fields on which a method was called after release
    terminated   \* an exception escaped a destructor: std::terminate

sessVars == <<dbhp, trhp, statements>>
stmtVars == <<stmtp, meta, cursor>>
blobVars == <<blobs, bhp, from_db, loaded>>
errVars  == <<misuse, terminated>>
vars == <<sessVars, stmtVars, blobVars, errVars>>

HandleStates == {"null", "live", "dangling"}
CursorStates == {"null", "open", "stale"}
BlobStates   == {"null", "open", "stale", "dangling"}
Fields       == {"stmtp", "meta", "bhp"}

Init ==
    /\ dbhp = "live"   \* the constructor throws unless attachDatabase succeeds
    /\ trhp = "null"
    /\ statements = {}
    /\ stmtp  = [s \in Stmts |-> "null"]
    /\ meta   = [s \in Stmts |-> "null"]
    /\ cursor = [s \in Stmts |-> "null"]
    /\ blobs = {}
    /\ bhp     = [b \in Blobs |-> "null"]
    /\ from_db = [b \in Blobs |-> FALSE]
    /\ loaded  = [b \in Blobs |-> FALSE]
    /\ misuse = {}
    /\ terminated = FALSE

\* The session still exists and the process is running.
Running == dbhp = "live" /\ ~terminated

\* A method called through a pointer to a released object.
Touched(h, field) == IF h = "dangling" THEN {field} ELSE {}

\* Releasing through a pointer that the code does not reset afterwards.
Released(h) == IF h = "null" THEN "null" ELSE "dangling"

\* The engine invalidates the cursors and BLOBs of a transaction that ends.
Invalidate(h) == IF h = "open" THEN "stale" ELSE h

-----------------------------------------------------------------------------
(* Session: transaction handling.                                          *)

\* current_transaction() calls begin(), which starts a transaction if none.
CurrentTxnOk ==
    \/ trhp = "live" /\ UNCHANGED trhp
    \/ trhp = "null" /\ trhp' = "live"

CurrentTxnFails ==
    /\ trhp = "null" /\ Fails("startTransaction")
    /\ UNCHANGED trhp

\* begin(): a failing startTransaction leaves trhp_ null (a stutter step).
Begin ==
    /\ Running /\ trhp = "null"
    /\ trhp' = "live"
    /\ UNCHANGED <<dbhp, statements, stmtVars, blobVars, errVars>>

\* start_transaction(tp): the same control, with a parameter block built first.
StartTransaction ==
    /\ Running /\ trhp = "null"
    /\ trhp' = "live"
    /\ UNCHANGED <<dbhp, statements, stmtVars, blobVars, errVars>>

\* close_cursor(): cursor_ is null on every exit; it throws when close()
\* fails, which it always does on a cursor whose transaction has ended.
CloseCursorOk(c)    == c \in {"null", "open"}
CloseCursorFails(c) == c = "stale" \/ (c = "open" /\ Fails("closeCursor"))

\* Variant: commit()/rollback() without closeCursorsAndBlobs().
TxnEndWithoutClosing ==
    /\ trhp = "live"
    /\ cursor' = [s \in Stmts |-> Invalidate(cursor[s])]
    /\ trhp' = "null"
    /\ bhp' = [b \in Blobs |-> Invalidate(bhp[b])]

(***************************************************************************)
(* The body of commit() and rollback() when trhp_ is set:                  *)
(* statements_.closeCursorsAndBlobs() closes the cursor of every           *)
(* registered statement in the set's (pointer) order and stops at the      *)
(* first close_cursor() that throws; the Finalizer then releases trhp_ and *)
(* nulls it whether the commit/rollback call succeeded or threw.  The      *)
(* engine invalidates every cursor and BLOB still open in the transaction. *)
(* BLOBs are not closed by closeCursorsAndBlobs().                         *)
(***************************************************************************)
TxnEnd ==
    /\ trhp = "live"
    /\ \/ /\ \A s \in statements : CloseCursorOk(cursor[s])
          /\ cursor' = [s \in Stmts |->
                          IF s \in statements THEN "null" ELSE Invalidate(cursor[s])]
       \/ \E f \in statements : \E done \in SUBSET (statements \ {f}) :
          /\ CloseCursorFails(cursor[f])
          /\ \A s \in done : CloseCursorOk(cursor[s])
          /\ cursor' = [s \in Stmts |->
                          IF s \in done \cup {f} THEN "null" ELSE Invalidate(cursor[s])]
    /\ trhp' = "null"
    /\ bhp' = [b \in Blobs |-> Invalidate(bhp[b])]

Commit ==
    /\ Running /\ TxnEnd
    /\ UNCHANGED <<dbhp, statements, stmtp, meta, blobs, from_db, loaded, errVars>>

Rollback ==
    /\ Running /\ TxnEnd
    /\ UNCHANGED <<dbhp, statements, stmtp, meta, blobs, from_db, loaded, errVars>>

\* cleanUp(), run by the destructor: commit() then detach(); its Finalizer
\* releases dbhp_ even when either throws, and the destructor swallows the
\* error.  Nothing of this session can be used afterwards.
SessionCleanUp ==
    /\ Running
    /\ dbhp' = "null"
    /\ IF trhp = "live" THEN TxnEnd ELSE UNCHANGED <<trhp, cursor, bhp>>
    /\ UNCHANGED <<statements, stmtp, meta, blobs, from_db, loaded, errVars>>

-----------------------------------------------------------------------------
(* Statements.                                                             *)

\* The constructor registers the new backend in the session's statements_.
AllocStatement(s) ==
    /\ Running /\ s \notin statements
    /\ statements' = statements \cup {s}
    /\ stmtp'  = [stmtp  EXCEPT ![s] = "null"]
    /\ meta'   = [meta   EXCEPT ![s] = "null"]
    /\ cursor' = [cursor EXCEPT ![s] = "null"]
    /\ UNCHANGED <<dbhp, trhp, blobVars, errVars>>

\* stmtp_->free(): its outcomes [ok |-> no exception, h |-> stmtp_ after].
\* When it throws, the Finalizer releases the statement through a copy of the
\* pointer (the lambda's parameter), so stmtp_ keeps the released address.
FreeResults(h) ==
    IF h = "null" THEN {[ok |-> TRUE, h |-> "null"]}
    ELSE {[ok |-> TRUE, h |-> "null"]} \cup
         (IF h = "dangling" \/ Fails("free")
          THEN {[ok |-> FALSE, h |-> "dangling"]} ELSE {})

(***************************************************************************)
(* clean_up(): close_cursor() first (a throw leaves everything else), then *)
(* stmtp_->free() under the Finalizer, which releases stmtp_, in_meta_ and *)
(* out_meta_ through the lambda without resetting the fields.  The records *)
(* are its possible outcomes.                                              *)
(***************************************************************************)
CleanUpResults(s) ==
    (IF CloseCursorFails(cursor[s])
     THEN {[ok |-> FALSE, stmtp |-> stmtp[s], meta |-> meta[s], misuse |-> {}]}
     ELSE {})
    \cup
    (IF CloseCursorOk(cursor[s])
     THEN {[ok |-> r.ok, stmtp |-> r.h, meta |-> Released(meta[s]),
            misuse |-> Touched(stmtp[s], "stmtp") \cup Touched(meta[s], "meta")]
           : r \in FreeResults(stmtp[s])}
     ELSE {})

\* The front end calls clean_up() and deletes the backend when it returns;
\* when it throws, the statement's destructor calls clean_up() again later.
\* The backend's destructor erases it from statements_.
CleanUp(s) ==
    /\ Running /\ s \in statements
    /\ \E r \in CleanUpResults(s) :
          /\ stmtp'  = [stmtp EXCEPT ![s] = r.stmtp]
          /\ meta'   = [meta EXCEPT ![s] = r.meta]
          /\ misuse' = misuse \cup r.misuse
          /\ statements' = IF r.ok THEN statements \ {s} ELSE statements
    /\ cursor' = [cursor EXCEPT ![s] = "null"]
    /\ UNCHANGED <<dbhp, trhp, blobVars, terminated>>

\* prepare() calls clean_up() only when stmtp_ is set.
PrepareCleanUpResults(s) ==
    IF stmtp[s] = "null"
    THEN {[ok |-> TRUE, stmtp |-> "null", meta |-> meta[s], misuse |-> {}]}
    ELSE CleanUpResults(s)

(***************************************************************************)
(* prepare(): rewriteQuery() does a throwaway prepare in the current       *)
(* transaction; then clean_up() if stmtp_ is set; then the real prepare    *)
(* and the two metadata objects.  A failure of the real prepare leaves     *)
(* stmtp_ null, a failure of a metadata call leaves the new stmtp_ and the *)
(* metadata fields as clean_up() left them.                                *)
(***************************************************************************)
Prepare(s) ==
    /\ Running /\ s \in statements
    /\ \/ /\ CurrentTxnFails
          /\ UNCHANGED <<stmtVars, misuse>>
       \/ /\ CurrentTxnOk
          /\ Fails("prepare")                  \* the throwaway prepare throws
          /\ UNCHANGED <<stmtVars, misuse>>
       \/ /\ CurrentTxnOk
          /\ \E r \in PrepareCleanUpResults(s) :
                /\ misuse' = misuse \cup r.misuse
                /\ \/ ~r.ok /\ stmtp' = [stmtp EXCEPT ![s] = r.stmtp]
                            /\ meta'  = [meta EXCEPT ![s] = r.meta]
                   \/ r.ok  /\ Fails("prepare")
                            /\ stmtp' = [stmtp EXCEPT ![s] = r.stmtp]
                            /\ meta'  = [meta EXCEPT ![s] = r.meta]
                   \/ r.ok  /\ Fails("prepare")
                            /\ stmtp' = [stmtp EXCEPT ![s] = "live"]
                            /\ meta'  = [meta EXCEPT ![s] = r.meta]
                   \/ r.ok  /\ stmtp' = [stmtp EXCEPT ![s] = "live"]
                            /\ meta'  = [meta EXCEPT ![s] = "live"]
          /\ cursor' = IF stmtp[s] = "null" THEN cursor
                       ELSE [cursor EXCEPT ![s] = "null"]
    /\ UNCHANGED <<dbhp, statements, blobVars, terminated>>

(***************************************************************************)
(* execute(): the front end executes only a statement whose prepare()      *)
(* succeeded.  close_cursor() first; then, in the current transaction,     *)
(* either the statement is executed without a cursor (vector use elements, *)
(* or a statement without FLAG_HAS_CURSOR) or a cursor is opened.  The     *)
(* use-element exchange and the size checks before it change no handle.   *)
(***************************************************************************)
Execute(s) ==
    /\ Running /\ s \in statements
    /\ stmtp[s] = "live" /\ meta[s] = "live"
    /\ \/ /\ CloseCursorFails(cursor[s])
          /\ cursor' = [cursor EXCEPT ![s] = "null"]
          /\ UNCHANGED trhp
       \/ /\ CloseCursorOk(cursor[s])
          /\ CurrentTxnFails
          /\ cursor' = [cursor EXCEPT ![s] = "null"]
       \/ /\ CloseCursorOk(cursor[s])
          /\ CurrentTxnOk
          /\ \E c \in {"null", "open"} : cursor' = [cursor EXCEPT ![s] = c]
    /\ UNCHANGED <<dbhp, statements, stmtp, meta, blobVars, errVars>>

-----------------------------------------------------------------------------
(* BLOBs.                                                                  *)

\* A BLOB backend is made for a soci::blob; its handle is not open.
AllocBlob(b) ==
    /\ Running /\ b \notin blobs
    /\ blobs'   = blobs \cup {b}
    /\ bhp'     = [bhp EXCEPT ![b] = "null"]
    /\ from_db' = [from_db EXCEPT ![b] = FALSE]
    /\ loaded'  = [loaded EXCEPT ![b] = FALSE]
    /\ UNCHANGED <<sessVars, stmtVars, errVars>>

\* Variant: the catch of cleanUp() releases bhp_ but does not reset it.
BlobCleanUpResultsKeepPointer(h) ==
    (IF h \in {"null", "open", "dangling"} THEN {[ok |-> TRUE, h |-> "null"]} ELSE {})
    \cup
    (IF h \in {"stale", "dangling"} \/ (h = "open" /\ Fails("closeBlob"))
     THEN {[ok |-> FALSE, h |-> "dangling"]} ELSE {})

\* cleanUp(): resets from_db_ and loaded_, closes bhp_ if set and returns
\* [ok |-> no exception, h |-> bhp_ after]; a failed close() is followed by
\* release() and bhp_ = nullptr before the rethrow.
BlobCleanUpResults(h) ==
    (IF h \in {"null", "open", "dangling"} THEN {[ok |-> TRUE, h |-> "null"]} ELSE {})
    \cup
    (IF h \in {"stale", "dangling"} \/ (h = "open" /\ Fails("closeBlob"))
     THEN {[ok |-> FALSE, h |-> "null"]} ELSE {})

\* assign(bid), called when a BLOB column is fetched into it: cleanUp(),
\* then the new id marks it as coming from the database.
AssignBlob(b) ==
    /\ Running /\ b \in blobs
    /\ \E r \in BlobCleanUpResults(bhp[b]) :
          /\ bhp'     = [bhp EXCEPT ![b] = r.h]
          /\ from_db' = [from_db EXCEPT ![b] = r.ok]
    /\ loaded' = [loaded EXCEPT ![b] = FALSE]
    /\ misuse' = misuse \cup Touched(bhp[b], "bhp")
    /\ UNCHANGED <<sessVars, stmtVars, blobs, terminated>>

\* open() when bhp_ is null: openBlob in the current transaction, then
\* getInfo (a throw from getInfo leaves the opened handle set).
OpenBlobOk(b) ==
    /\ CurrentTxnOk
    /\ bhp' = [bhp EXCEPT ![b] = "open"]

OpenBlobFails ==
    \/ CurrentTxnFails
    \/ CurrentTxnOk /\ Fails("openBlob")

\* get_len(): opens a BLOB from the database that is not open yet.
GetLen(b) ==
    /\ Running /\ b \in blobs
    /\ from_db[b] /\ bhp[b] = "null"
    /\ \/ OpenBlobOk(b)
       \/ OpenBlobFails /\ UNCHANGED bhp
    /\ UNCHANGED <<dbhp, statements, stmtVars, blobs, from_db, loaded, errVars>>

\* The results of the getSegment loop of load() on a handle.
SegmentResults(h) ==
    (IF h \in {"open", "dangling"} THEN {TRUE} ELSE {})
    \cup
    (IF h \in {"stale", "dangling"} \/ (h = "open" /\ Fails("getSegment"))
     THEN {FALSE} ELSE {})

(***************************************************************************)
(* read(), write(), append() and trim() first load() a BLOB from the       *)
(* database that is not loaded yet: open() if bhp_ is null, then read      *)
(* every segment; loaded_ is set only when the loop ends without a throw.  *)
(* The handle is left open.  What they do to the buffer is data.           *)
(***************************************************************************)
AccessBlob(b) ==
    /\ Running /\ b \in blobs
    /\ from_db[b] /\ ~loaded[b]
    /\ \/ /\ bhp[b] = "null"
          /\ \/ OpenBlobFails /\ UNCHANGED <<bhp, loaded>>
             \/ OpenBlobOk(b)
                /\ \E ok \in SegmentResults("open") :
                      loaded' = [loaded EXCEPT ![b] = ok]
       \/ /\ bhp[b] # "null"
          /\ \E ok \in SegmentResults(bhp[b]) : loaded' = [loaded EXCEPT ![b] = ok]
          /\ UNCHANGED <<trhp, bhp>>
    /\ misuse' = misuse \cup Touched(bhp[b], "bhp")
    /\ UNCHANGED <<dbhp, statements, stmtVars, blobs, from_db, terminated>>

\* The first step of save(): bhp_->close() if set.  On success the engine
\* releases the object but bhp_ is not reset before createBlob assigns it.
SaveCloseResults(h) ==
    (IF h = "null" THEN {[ok |-> TRUE, h |-> "null"]} ELSE {})
    \cup
    (IF h \in {"open", "dangling"} THEN {[ok |-> TRUE, h |-> "dangling"]} ELSE {})
    \cup
    (IF h \in {"stale", "dangling"} \/ (h = "open" /\ Fails("closeBlob"))
     THEN {[ok |-> FALSE, h |-> h]} ELSE {})

(***************************************************************************)
(* save(): close the old handle, createBlob in the current transaction,    *)
(* putSegment the content, then cleanUp(), which closes the new BLOB, and  *)
(* mark the BLOB as coming from the database.                              *)
(***************************************************************************)
SaveBlob(b) ==
    /\ Running /\ b \in blobs
    /\ misuse' = misuse \cup Touched(bhp[b], "bhp")
    /\ \E r \in SaveCloseResults(bhp[b]) :
          \/ /\ ~r.ok
             /\ UNCHANGED <<trhp, bhp, from_db, loaded>>
          \/ /\ r.ok
             /\ \/ CurrentTxnFails
                \/ CurrentTxnOk /\ Fails("createBlob")
             /\ bhp' = [bhp EXCEPT ![b] = r.h]
             /\ UNCHANGED <<from_db, loaded>>
          \/ /\ r.ok /\ CurrentTxnOk /\ Fails("putSegment")
             /\ bhp' = [bhp EXCEPT ![b] = "open"]
             /\ UNCHANGED <<from_db, loaded>>
          \/ /\ r.ok /\ CurrentTxnOk
             /\ \E c \in BlobCleanUpResults("open") :
                   /\ bhp'     = [bhp EXCEPT ![b] = c.h]
                   /\ from_db' = [from_db EXCEPT ![b] = c.ok]
             /\ loaded' = [loaded EXCEPT ![b] = FALSE]
    /\ UNCHANGED <<dbhp, statements, stmtVars, blobs, terminated>>

\* The destructor calls cleanUp(); an exception leaving a destructor
\* (implicitly noexcept) terminates the program.
DestroyBlob(b) ==
    /\ Running /\ b \in blobs
    /\ blobs'  = blobs \ {b}
    /\ misuse' = misuse \cup Touched(bhp[b], "bhp")
    /\ \E r \in BlobCleanUpResults(bhp[b]) :
          /\ bhp' = [bhp EXCEPT ![b] = r.h]
          /\ terminated' = ~r.ok
    /\ UNCHANGED <<sessVars, stmtVars, from_db, loaded>>

-----------------------------------------------------------------------------

\* Once the session is gone or the program terminated nothing happens.
Finished ==
    /\ ~Running
    /\ UNCHANGED vars

Next ==
    \/ Begin \/ StartTransaction \/ Commit \/ Rollback \/ SessionCleanUp
    \/ \E s \in Stmts :
          AllocStatement(s) \/ Prepare(s) \/ Execute(s) \/ CleanUp(s)
    \/ \E b \in Blobs :
          \/ AllocBlob(b) \/ AssignBlob(b) \/ GetLen(b) \/ AccessBlob(b)
          \/ SaveBlob(b) \/ DestroyBlob(b)
    \/ Finished

Spec == Init /\ [][Next]_vars

-----------------------------------------------------------------------------
(* Properties.                                                             *)

TypeOK ==
    /\ dbhp \in {"null", "live"}
    /\ trhp \in {"null", "live"}
    /\ statements \subseteq Stmts
    /\ stmtp  \in [Stmts -> HandleStates]
    /\ meta   \in [Stmts -> HandleStates]
    /\ cursor \in [Stmts -> CursorStates]
    /\ blobs \subseteq Blobs
    /\ bhp     \in [Blobs -> BlobStates]
    /\ from_db \in [Blobs -> BOOLEAN]
    /\ loaded  \in [Blobs -> BOOLEAN]
    /\ misuse \subseteq Fields
    /\ terminated \in BOOLEAN

\* No method is ever called on a statement, metadata or BLOB object after
\* it was released: every release path resets the pointer, or the object is
\* never used again (spec section 7: a failed close leaves no dangling handle
\* for a later teardown attempt).
NoUseAfterRelease == misuse = {}

\* No statement keeps a cursor that its transaction ended under: commit()
\* and rollback() close every registered statement's cursor before the
\* transaction ends (the ordering invariant of spec section 4.7).
CursorsClosedBeforeTxnEnd == \A s \in Stmts : cursor[s] # "stale"

\* Destroying a BLOB never terminates the program: the destructor's
\* cleanUp() does not throw.
BlobDestructorSafe == ~terminated

-----------------------------------------------------------------------------
(* Refinement.                                                             *)

\* The transaction of FirebirdTransaction is trhp_, a statement holds a
\* cursor while cursor_ is set (open, or stale after its transaction), the
\* registry is statements_ and the session lives until cleanUp() releases
\* dbhp_.
Txn == INSTANCE FirebirdTransaction
         WITH txn        <- IF trhp = "live" THEN "active" ELSE "none",
              held       <- {s \in Stmts : cursor[s] # "null"},
              registered <- statements,
              alive      <- dbhp = "live"

\* The session keeps the transaction contract of FirebirdTransaction:
\* execute() opens a cursor only in the current transaction, commit(),
\* rollback() and cleanUp() leave no cursor of any statement set when the
\* transaction ends, and a statement leaves statements_ only through a
\* clean_up() that nulled its cursor.
TxnRefinement == Txn!Spec
=============================================================================
