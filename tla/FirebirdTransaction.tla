-------------------------- MODULE FirebirdTransaction --------------------------
(***************************************************************************)
(* What a session promises about its transaction and the cursors of its   *)
(* statements, without the engine handles, the BLOBs or the failures: a   *)
(* cursor is opened only for a registered statement and only inside the   *)
(* current transaction (starting one if there is none), the end of a      *)
(* transaction leaves no cursor behind, a statement leaves the registry   *)
(* without a cursor, and once the session is cleaned up nothing happens.  *)
(*                                                                         *)
(* FirebirdSession implements this specification under the mapping of    *)
(* FirebirdSession!TxnRefinement.                                          *)
(***************************************************************************)
CONSTANT Stmts     \* the statement backends

VARIABLES
    txn,         \* "active" while the session has a transaction, else "none"
    held,        \* the statements that hold a cursor
    registered,  \* the statements registered with the session
    alive        \* the session has not been cleaned up

vars == <<txn, held, registered, alive>>

Init ==
    /\ txn = "none"
    /\ held = {}
    /\ registered = {}
    /\ alive = TRUE

\* begin() or start_transaction(), or current_transaction() called by an
\* operation that starts the transaction it needs.
Begin ==
    /\ alive /\ txn = "none"
    /\ txn' = "active"
    /\ UNCHANGED <<held, registered, alive>>

\* A statement backend is created and registered.
Register(s) ==
    /\ alive /\ s \notin registered
    /\ registered' = registered \cup {s}
    /\ UNCHANGED <<txn, held, alive>>

\* execute() opens a cursor in the current transaction.
OpenCursor(s) ==
    /\ alive /\ s \in registered
    /\ txn' = "active"
    /\ held' = held \cup {s}
    /\ UNCHANGED <<registered, alive>>

\* prepare(), execute() or a clean_up() that fails closes the statement's
\* cursor; the operation may have started the transaction first.
CloseCursor(s) ==
    /\ alive /\ s \in registered
    /\ held' = held \ {s}
    /\ txn' \in {txn, "active"}
    /\ UNCHANGED <<registered, alive>>

\* A clean_up() that succeeds: the statement leaves without its cursor.
Unregister(s) ==
    /\ alive /\ s \in registered
    /\ registered' = registered \ {s}
    /\ held' = held \ {s}
    /\ UNCHANGED <<txn, alive>>

\* commit() or rollback(): the transaction ends and no cursor is left.
End ==
    /\ alive /\ txn = "active"
    /\ txn' = "none"
    /\ held' = {}
    /\ UNCHANGED <<registered, alive>>

\* The session's cleanUp(): the transaction, if any, ends as in End.
Close ==
    /\ alive
    /\ alive' = FALSE
    /\ txn' = "none"
    /\ held' = {}
    /\ UNCHANGED registered

Next ==
    \/ Begin \/ End \/ Close
    \/ \E s \in Stmts :
          Register(s) \/ OpenCursor(s) \/ CloseCursor(s) \/ Unregister(s)

Spec == Init /\ [][Next]_vars

TypeOK ==
    /\ txn \in {"none", "active"}
    /\ held \subseteq registered
    /\ registered \subseteq Stmts
    /\ alive \in BOOLEAN
=============================================================================
