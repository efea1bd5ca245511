# Verification of the SOCI Firebird backend

This directory holds TLA+ models of the Firebird backend of SOCI
(`src/src/backends/firebird/`, `src/include/soci/firebird/soci-firebird.h`,
`src/include/private/firebird/`). It contains TLC configurations that check
the models on small instances, and TLAPS proofs for every instance.

## The system

The backend wraps the Firebird OO API. Three kinds of object own engine handles:

* **The session** (`session.cpp`) owns the attachment `dbhp_` and at most one
  transaction `trhp_`.
  * `begin()` / `start_transaction()` start the transaction when none is
    running. `current_transaction()` is what every statement and BLOB calls,
    and it starts one implicitly.
  * `commit()` / `rollback()` first run `statements_.closeCursorsAndBlobs()`
    and then end the transaction. A scope guard (`Finalizer`) releases and
    nulls `trhp_` even when something throws.
  * The destructor runs `cleanUp()`, which commits, detaches, and releases
    `dbhp_` in its own Finalizer.
* **Statements** (`statement.cpp`) register themselves in the session's
  `statements_` (a `std::set` of pointers, `soci-firebird.h`). Each owns the
  prepared statement `stmtp_`, two metadata objects and an open cursor
  `cursor_`.
  * `prepare()` does a throwaway prepare to learn the statement type
    (`rewriteQuery`), then `clean_up()` when `stmtp_` is set, then the real
    prepare and the metadata calls.
  * `execute()` closes the old cursor and either executes or opens a new
    cursor.
  * `clean_up()` closes the cursor, frees `stmtp_` and releases the metadata
    in a Finalizer.
* **BLOBs** (`blob.cpp`) own `bhp_` together with the flags `from_db_` and
  `loaded_`.
  * `assign()` marks a fetched BLOB as coming from the database.
  * `get_len()` opens it. `read/write/append/trim` `load()` it segment by
    segment.
  * `save()` closes the old handle, creates a new BLOB, writes it and closes
    it. `cleanUp()` (also run by the destructor) closes `bhp_`.

The engine invalidates every cursor and BLOB of a transaction when the
transaction ends. Calling `close()` on an invalidated handle fails. That is
why the comment on `struct Statements` requires every cursor to be closed
before the transaction.

Everything is single-threaded and synchronous. The hard behaviours are
partial failures: a native call throws `FbException` halfway through a
handler, and the catch blocks and Finalizers must leave every handle either
null or valid.

## Inventory

| Component | Source | State | Operations | Status |
|---|---|---|---|---|
| session and transactions | session.cpp 202-505 | dbhp_, trhp_ | constructor, begin, start_transaction, commit, rollback, current_transaction, cleanUp | modelled (FirebirdSession); its contract is FirebirdTransaction |
| statement registry | soci-firebird.h 430-448 | statements_ | add, erase, closeCursorsAndBlobs | modelled (FirebirdSession) |
| statement life cycle | statement.cpp 20-95, 264-312, 330-440 | stmtp_, in/out_meta_, cursor_ | constructor, destructor, close_cursor, clean_up, prepare, execute | handles in FirebirdSession, counters and flags in FirebirdStatement |
| BLOB backend | blob.cpp 16-257, soci-firebird.h 350-356 | bhp_, from_db_, loaded_ | constructor, destructor, assign, get_len, open, load, read/write/append/trim, save, cleanUp | handles modelled; buffer content not |
| binding | params_helper.h, standard-use-type.cpp, vector-use-type.cpp | uses_, intos_, boundByName_/boundByPos_, useType_/intoType_ | bind_by_pos, bind_by_name, define_by_pos, prepare_field | modelled (FirebirdStatement) |
| rows | statement.cpp 330-561 | cursor_, rowsFetched_, endOfRowSet_, rowsAffectedBulk_ | execute, fetch, exchangeData, get_affected_rows | modelled without values (FirebirdStatement); the cursor's contract is FirebirdCursor |
| scalar codec | common.h 40-200, common.cpp 72-188 | none (pure) | str2dec, to_isc, parse_decimal, format_decimal, setTextParam, getTextParam | integral types modelled (FirebirdCodec) |
| parameter rewriter | statement.cpp 97-165, 563-574 | names_ | rewriteParameters, get_parameter_name | modelled (FirebirdRewriter); rewriteQuery's text choices not |
| connection string | session.cpp 24-178 | none (pure) | explodeISCConnectString and its helpers | not modelled |
| date/time, describe_column | common.cpp, statement.cpp 583-662 | none | tmEncode/tmDecode, describe_column | not modelled: engine calls and a table lookup |

## Plan

Done: the handle life cycle (FirebirdSession, with proofs), the integral
decimal codec (FirebirdCodec), binding and the exchange of rows
(FirebirdStatement), the named-parameter rewriter (FirebirdRewriter).
Next, in order of what they would add:

1. The BLOB content: the buffer, the `load()` loop over segments and its
   retry, `write/append/trim` offsets, and save's segmenting.
2. The connection-string parser, as a character state machine over short
   strings, against the grammar of spec section 4.8.
3. A proof of the statement's type invariant, which needs the sum of
   `RowSum` to be an integer for every length: induction over data.

## FirebirdSession.tla

Each handle field is abstracted to what it points to:

* `"null"`;
* `"live"` (a valid statement or metadata object);
* `"open"` (a valid cursor or BLOB of the current transaction);
* `"stale"` (invalidated by the end of its transaction);
* `"dangling"` (still points to a released object).

`in_meta_` and `out_meta_` are always handled together, so they are one
variable `meta`. Queries, buffers and values are data and are left out.

The constant `Faults` is the set of native calls that may throw in a run.
Every handler's possible outcomes are sets of records, for example
`FreeResults`, `CleanUpResults`, `BlobCleanUpResults` and
`SaveCloseResults`. The action picks one outcome with `\E`.

Two variables record the hazards themselves:

* `misuse` holds the fields on which a method was called through a dangling
  pointer;
* `terminated` records an exception that escaped a destructor.

| Action | Code |
|---|---|
| `Begin`, `StartTransaction` | begin, start_transaction (a failing start is a stutter) |
| `Commit`, `Rollback` | commit, rollback; both run `TxnEnd`: closeCursorsAndBlobs, stopping at the first throwing close_cursor, then the Finalizer nulls trhp_ and the engine invalidates the rest |
| `SessionCleanUp` | cleanUp from the destructor (commit, detach, release) |
| `AllocStatement`, `CleanUp` | the statement constructor (registration), and clean_up followed by the destructor's erase |
| `Prepare` | prepare, including the throwaway prepare and the conditional clean_up |
| `Execute` | the handle effects of execute |
| `AllocBlob`, `AssignBlob`, `GetLen`, `AccessBlob`, `SaveBlob`, `DestroyBlob` | the BLOB constructor, assign, get_len, load via read/write/append/trim, save, and the destructor |

`Finished` stutters once the session is gone or the program has terminated.

### Runs

All runs use `MCFirebirdSession.tla`:

* two statements, which are symmetric model values;
* one BLOB;
* a set of failing calls chosen per run.

Two statements are enough to have one cursor closed and one left when a
close fails. One BLOB is enough for every BLOB sequence, because BLOBs do not
interact with each other.

| Run | Faults | Checks | Result |
|---|---|---|---|
| release | startTransaction, closeCursor, openBlob, getSegment, putSegment, closeBlob | `NoUseAfterRelease` | passes: every other failure path resets its pointers |
| cursororder | everything except closeCursor | `CursorsClosedBeforeTxnEnd`, `TxnRefinement` (refinement of FirebirdTransaction) | passes (16 480 states) |
| closecursor | closeCursor | `CursorsClosedBeforeTxnEnd` | violated: one throwing close_cursor leaves the other statement's cursor open when the transaction ends |
| free | free | `NoUseAfterRelease` | violated: the Finalizer's lambda nulls only its own copy of the pointer |
| createblob | createBlob | `NoUseAfterRelease` | violated: save() does not reset bhp_ after closing it |
| blobdtor | none | `BlobDestructorSafe` | violated: get_len then commit then the BLOB's destructor terminates the program |

The release run leaves out exactly the three faults (`free`, `prepare`,
`createBlob`) that break `NoUseAfterRelease`. The violation runs show
`free` and `createBlob`. No run shows `prepare`; a one-off TLC check with
that fault alone finds the violation in five steps. The `prepare`
fault reaches the same defect as `free`: a successful clean_up leaves the
metadata dangling, and a failing re-prepare keeps them. So the passing run
shows that these are the only paths.

The findings are listed in `PROJECT.json` ("findings") with the lines where
they bite. The mutants there show that each passing property fails when its
code is changed the way a plausible bug would change it:

* cleanUp's catch keeps the BLOB pointer;
* commit ends the transaction without closing cursors. This breaks both
  `CursorsClosedBeforeTxnEnd` and `TxnRefinement`.

No fairness is assumed. The code is sequential, and every property is a
safety property.

## FirebirdTransaction.tla

This is the abstract specification of what the session promises about its
transaction and the statements' cursors. It has no engine handles, BLOBs
or failures. Its variables are:

* `txn`: "active" or "none";
* `held`: the statements that hold a cursor;
* `registered`: the statements in the registry;
* `alive`: the session has not been cleaned up.

Its actions are:

* `Begin` (begin, start_transaction, or current_transaction inside an
  operation);
* `Register` (the statement constructor);
* `OpenCursor` (execute). It needs a registered statement and leaves the
  transaction active.
* `CloseCursor` (close_cursor from prepare, execute or a failed clean_up).
  It may start the transaction first.
* `Unregister` (clean_up succeeds and the destructor erases the backend).
  The statement leaves without its cursor.
* `End` (commit, rollback). It leaves no cursor.
* `Close` (cleanUp).

`FirebirdSession!TxnRefinement` maps the session onto it:

* `txn` is "active" exactly when `trhp_` is live;
* `held` is the set of statements whose `cursor_` is set. This counts a
  stale cursor too, so a transaction end that only invalidates cursors
  (the mutant) is not an `End`.
* `registered` is `statements_`;
* `alive` is `dbhp_` being live.

A BLOB operation maps to `Begin` or to a stutter. The cursororder run checks
the refinement and `TxnRefined` proves it. Both assume that close() does not
fail on a live cursor. The closecursor run shows why this is needed: one
failing close leaves the other statements' cursors set past the end of the
transaction, which no step of FirebirdTransaction allows.

## FirebirdCodec.tla

The text codec of the integral column types (`SQL_SHORT`, `SQL_LONG`,
`SQL_INT64`), with the integer width kept: every store into an `IntType`
is taken modulo 2^w into the signed range (`Wrap`).

* `Str2Dec` is `str2dec` (common.h 40-81): the sign, the digits, one
  period, the scale counted after it, and the overflow test `res < out`
  (or `res > out` for a negative number) on the wrapped value. It is a
  fold (`FoldLeft`) of `ScanChar` over the characters.
* `ToIsc` is `to_isc`'s rescaling (multiply, or truncating divide, in
  `long long`, then the store into the column's width).
* `ParseDecimal` is `parse_decimal`: the unsigned parse first, its bytes
  read back as signed, then the signed parse.
* `FormatDecimal` is `format_decimal` (the zeros after the minus sign, then
  the period).
* `SetTextParam` and `GetTextParam` are what `setTextParam` and
  `getTextParam` do for an integral column.

The state machine types a string one character at a time (`Type`) into a
column of scale `sqlscale`, and `Exchange` sends it (`x_stdstring` through
standard-use-type.cpp 60-65). Every string of up to `MaxLen` characters is
therefore converted. The reference definitions `IsDecimal` and
`ExactScaled` say what the text means as a number, independently of the
code.

TLC integers are 32-bit, so the runs use `SQL_SHORT` (w = 16). The 32- and
64-bit paths are the same definitions with another `Width`.

| Run | Alphabet, MaxLen, Scales | Checks | Result |
|---|---|---|---|
| roundtrip | `- . x 0 1 3 4 9`, 5, {0,-1,-2} | `AcceptsOnlyDecimals`, `RoundTrip` | passes (112 347 states): only decimal strings are accepted, and what is stored reads back as text that stores the same value |
| wrap | `0 4`, 5, {0,-1,-2} | `NoSilentWrap` | violated: "400" into NUMERIC(4,2) stores -25536 (-255.36); `to_isc` multiplies in `long long` and stores without a range check |

The mutants: a second period accepted by `str2dec`, and `format_decimal`
losing the sign.

## FirebirdStatement.tla

One statement's binding and rows. The handles themselves are
FirebirdSession's: here `stmtp` says the statement is prepared and `cursor`
is the number of rows the open cursor still holds (`NoCursor` when
`cursor_` is null). Values are left out. A use or into element is a slot
record `[vec, byName, buf]`, where `buf` says whether `prepare_field` got
as far as setting `buf_`. Every conversion that may throw (`setTextParam`,
`to_isc`, `tmEncode`, an unsupported indicator) is the fault `"convert"`.

| Action | Code |
|---|---|
| `Prepare(k, n, nm)` | prepare: names_ refilled, the throwaway prepare, clean_up's reset of rowsAffectedBulk_ and the cursor, the real prepare, the reset of uses_/intos_ and their types (not of the binding flags) |
| `BindByPos`, `BindByName`, `DefineInto` | bind_by_pos_internal, bind_by_name_internal, define_by_pos, each with prepare_field (slot registered before the metadata calls) |
| `ExecBadSizes`, `ExecUseFails`, `ExecVector`, `ExecNoCursor`, `ExecCursor` | the paths of execute: checkSize, a failing scalar use conversion (before close_cursor), the vector loop with its affected-row sum, the no-cursor path (DML, or a procedure's one row), openCursor and the fetch it delegates to |
| `FetchRows`, `FetchFails` | fetch past its early return: the loop of fetchNext, `++rowsFetched_`, exchangeData, and RESULT_NO_DATA setting endOfRowSet_ |

What the SOCI front end does is not in this repository and is taken from
spec.md (marked `spec_modelled` in the map): it binds after prepare and
before the first execute (`phase`), all use elements alike; it fetches one
row into scalar into elements and up to the vector size into vector ones
(`FetchSizes`). `lastExec`, `affected` and `misuse` are history variables
that only the properties read.

Runs use `MCFirebirdStatement.tla`: one parameter at most, result sets and
use vectors of up to two rows, two executes. Two rows are what a partial
fetch, a failure after a row and a sum over a vector need. Two executes are
what a stale count from the previous execute needs.

| Run | Faults | Checks | Result |
|---|---|---|---|
| exchange | prepare, execute, openCursor, fetchNext, convert | `BindExclusive`, `NoExchangeWithoutBuffer`, `EndOfRowSetEmpty`, `FetchCountsTakenRows` (action), `CursorDrained` (liveness), `CursorRefinement` (refinement of FirebirdCursor) | passes (50 652 states) |
| bulkcount | none | `AffectedRowsAccurate` | violated: the second vector execute adds the first one's stored total per row |
| rebind | none | `FlagsResetOnPrepare` | violated: prepare keeps boundByPos_/boundByName_ |

The exchange run leaves out the metadata fault: the engine raises it only
for a position past the field count, which the slot position already
models.

Fairness. `CursorDrained` is checked under `FairSpec`, which adds weak
fairness of a fetch that does not throw. This is the application's
`while (st.fetch())` loop together with an engine that does not fail every
fetchNext. Nothing else is assumed: prepare and execute are the
application's choice.

Mutants: `bind_by_name` without the `boundByPos_` check; `checkSize`
without the check of the use elements; `++rowsFetched_` moved after
exchangeData; RESULT_NO_DATA not setting endOfRowSet_; fetch() without its
`endOfRowSet_` early return, which breaks `CursorRefinement`; a catch in
fetch() that marks the end of the row set, which breaks `EndOfRowSetEmpty`.
With the metadata fault added, TLC finds `NoExchangeWithoutBuffer` violated:
prepare_field registers the slot before the metadata calls that throw
(the hazard at params_helper.h:30).

## FirebirdCursor.tla

This is the abstract specification of what a statement's cursor promises
the front end. It has no engine calls, into elements or failures. Its
variables are:

* `rows`: the rows the open result set still holds, or `NoRows`;
* `fetched`: what `get_number_of_rows()` reports;
* `exhausted`: the end of the row set has been reported;
* `executions`: the number of execute() calls.

Its actions are:

* `Open`: execute opens a result set of at most `MaxRows` rows, and may
  fetch from it at once (statement.cpp:406-439).
* `Take`: fetch runs on an open set that has not reported its end
  (statement.cpp:445). It takes `k` of the remaining rows, reports exactly
  `k`, and may report the end only when no row is left.
* `Close`: a prepare, or an execute that opens no new set, closes the set
  (close_cursor).
* `Refuse`: an execute refused by checkSize or by a use conversion.

`FirebirdStatement!CursorRefinement` maps the variables as follows:

* `rows` to `cursor`;
* `fetched` to `rowsFetched`;
* `exhausted` to `endOfRowSet`;
* `executions` to `execs`.

The exchange run checks the mapping as a PROPERTY, and `CursorRefined`
proves it. The execute count is part of the mapping so that only an execute
may re-open a set: without it, `Open` could stand for a fetch after the end
of the row set.

`EndMeansEmpty` is the invariant of the abstract cursor: once the end is
reported, no row is left, or the set is closed. `EndIsEmpty` proves it
for FirebirdCursor. Through the mapping it becomes the statement's
`EndOfRowSetEmpty`: fetch's early return on `endOfRowSet_` never leaves
rows unread. The exchange run checks it, and `EndOfRowSetKept` proves it.

## FirebirdRewriter.tla

`rewriteParameters` as a fold of `RewriteStep` over the query's characters,
with `RewriteEnd` for a name that ends the query. `names` is `names_`, with
the `std::map::insert` rule (a name already present keeps its position).
`phs` is a history field: the name written at each `?`.
`GetParameterName` is `get_parameter_name`. The query is typed one
character at a time, so every query up to five characters over
`a : space` is rewritten.

| Run | Checks | Result |
|---|---|---|
| repeatname | `ParameterNamesByPosition` | violated: a name used twice (TLC: ":a::a") gives a second `?` that no name maps to |

The run does not check for deadlock: a typed query is simply finished.

## Proofs (FirebirdSessionProofs.tla)

These hold for every set of statements, BLOBs and failing calls.

* `TypeCorrect`: `Spec => []TypeOK`. It rests on:
  * one step lemma (`TypeOKStep`) with a case per action;
  * lemmas saying that the outcome sets of free, clean_up, cleanUp, save's
    close and the segment loop are well typed;
  * `TxnEndType` for the end of a transaction.
* `CursorsClosed`: under `"closeCursor" \notin Faults`,
  `Spec => []CursorsClosedBeforeTxnEnd`.
  * The invariant alone is not inductive: an unregistered statement could
    hold an open cursor that a commit would invalidate.
  * The strengthening `TypeOK /\ CursorPart` adds that a statement outside
    `statements_` has a null cursor. It is a lemma of the proof, not a
    property of its own: `TxnRefinement` already implies it, since the
    abstract `Unregister` removes the statement from `held`.
  * With no stale cursor and no failing close, close_cursor never throws
    (`CloseCursorNeverFails`). So a transaction end nulls every cursor
    (`TxnEndClosesAll`).
  * `CursorPartStep` shows that each action keeps the strengthening.
  * The theorem follows by PTL.
* `NoReleasedUse`: under `ReleaseFaults` (free, prepare and createBlob do
  not fail), `Spec => []NoUseAfterRelease`.
  * The hypothesis is exactly the fault set of the release run. The free and
    createblob runs show that those two faults break the property. No run
    shows the `prepare` fault: the runs are at their limit. TLC checked
    the session instance with `Faults = {"prepare"}` by hand and found the
    violation in five steps: a prepare, a re-prepare whose metadata step
    fails after the statement handle is released, then clean_up.
  * `NoUseAfterRelease` alone is not inductive. It says nothing of the
    handles that no operation is using at the moment but a later one will.
  * The strengthening `ReleaseInv` (checked by TLC on the release instance)
    adds these facts:
    * no statement's `stmtp_` is dangling;
    * a registered statement's metadata are not dangling. Metadata left
      dangling by a clean_up belong only to statements outside
      `statements_`, which prepare must re-fill before any use.
    * no BLOB handle is dangling;
    * an open BLOB belongs to a live transaction.
  * `CleanUpSafe` and `PrepareCleanUpSafe` show that clean_up without a
    failing free never leaves a dangling pointer and never misuses one.
    `BlobCleanUpNulls` and `SaveCloseSafe` do the same for BLOBs.
    `TxnEndBlobs` shows that a transaction end leaves no open BLOB behind.
  * `ReleaseInvStep` has one case per action.
* `TxnRefined`: under `"closeCursor" \notin Faults`,
  `Spec => TxnRefinement`.
  * The invariant is `TypeOK /\ CursorPart /\ TxnPart`. `TxnPart` says that
    a statement holds a cursor only while `trhp_` is live. TLC checked it
    on the cursororder instance before the proof. It is needed when
    cleanUp() runs without a transaction: then it commits nothing and
    touches no cursor, and `Close` still needs every cursor null.
  * `PrepareTxn`, `ExecuteTxn`, `CleanUpTxn` and `BlobTxn` state what each
    operation does to the handles the mapping reads. At most it starts a
    transaction, and it nulls or opens one cursor.
  * `TxnBeginOrStutter`, `TxnCloseCursor` and `TxnEndIsEnd` show which
    abstract step such a change is.
  * `TxnPartStep` shows that each action keeps `TxnPart`. `TxnStep` maps
    each action to a step of FirebirdTransaction or a stutter:
    * commit and rollback are `End`, through `TxnEndClosesAll`;
    * a successful clean_up is `Unregister`;
    * an execute that opens a cursor is `OpenCursor`.
  * The theorem follows by PTL from the initial-state step and the two step
    lemmas.

## Proofs (FirebirdStatementProofs.tla)

These hold for every `MaxParams`, `MaxRows`, `MaxExec` and set of failing
calls allowed by `StatementAssumption`.

* `BindingExclusive`: `Spec => []BindExclusive`.
  * `BindExclusive` alone is not inductive. A bind step appends a slot
    whose kind depends on the flags `boundByPos_` and `boundByName_`, not
    on the slots already there.
  * The strengthening `BindInv` ties the slots to the flags:
    * at most one flag is set;
    * every slot bound with a buffer is backed by the flag of its kind.
  * prepare does not clear the flags. It either keeps the slots or
    empties them, so `BindInv` survives it.
  * `BindInvStep` has one case per action. It rests on:
    * `AppendBacked`: appending a backed slot keeps every slot backed;
    * `OthersKeepBinding`: the actions that leave the bindings alone keep
      the invariant.
* `FetchCounted`: `Spec => FetchCountsTakenRows`. This is an action
  property.
  * `FetchResultsCounted` shows that every outcome of the fetch loop
    counts exactly the rows it takes. This covers the fault outcomes of
    fetchNext and of row conversion.
  * With the invariant `CounterInv` (the cursor and the execute count are
    integers), every step either changes `execs`, does not move the cursor
    down, or is a fetch whose outcome satisfies the lemma.
  * The theorem follows by PTL.
* `ExchangeSafe`: under `"metadata" \notin Faults`,
  `Spec => []NoExchangeWithoutBuffer`.
  * The hypothesis is that of the exchange run. A metadata failure leaves a
    registered slot without a buffer (see the exchange run).
  * The strengthening `ExchangeInv` says that a slot without a buffer lies
    past the field count (`inCount` for uses, the output count for intos).
    It also says that an open cursor implies a run phase with as many into
    elements as output fields.
  * checkSize then rejects every execute or fetch that would reach such a
    slot (`SizesMatchClean`, `CursorIntosClean`). `AppendPastCount` covers
    the bind steps.
  * `ExchangeInvStep` has one case per action.
* `CursorRefined`: `Spec => CursorRefinement`, for every bound and every
  set of faults.
  * The initial state maps to `Cursor!Init`.
  * `CursorStep` shows that every step maps to a step of FirebirdCursor or
    to a stutter, under the invariant `RowInv`. `RowInv` says the cursor
    holds `NoCursor` or `0..MaxRows` rows.
  * A bind is a stutter. A refused execute is `Refuse`. The vector and
    no-cursor executes are `Close`. An execute that opens a cursor is
    `Open`, with or without the fetch it runs. A fetch is `Take`.
  * `TakeArith` is the arithmetic of a fetch. It stands alone so that the
    prover sees only integers.
  * `FetchResultsBounded` bounds every outcome of the fetch loop: it takes
    at most the remaining rows, counts exactly those, and sets the end flag
    only when none is left. This includes the outcomes where fetchNext or
    a conversion throws.
  * The theorem follows by PTL.
* `EndOfRowSetKept`: `Spec => []EndOfRowSetEmpty`. It has no hypothesis
  on the faults. The proof does not go through the statement's actions
  again: `CursorRefined` gives `Cursor!Spec`, `Cursor!EndIsEmpty` gives
  `[]Cursor!EndMeansEmpty` for it, and under the mapping that formula is
  `EndOfRowSetEmpty`.

FirebirdCursor holds the one theorem `EndIsEmpty`, proved by induction over
its four actions.

`NoUseAfterRelease` and `NoExchangeWithoutBuffer` are proved under the
fault sets of their runs. With a fault that those theorems exclude, TLC
finds the property violated, so nothing stronger holds. The free and
createblob runs show this for two of the faults. The `prepare` fault was
checked only in the one-off check described above. The same holds for
`CursorsClosedBeforeTxnEnd`, with the closecursor run. `TxnRefinement`
needs the same hypothesis in its proof. No run checks it with the
closeCursor fault.

Only TLC checks these:

* `AcceptsOnlyDecimals` and `RoundTrip` of the codec are checked by TLC
  alone. The codec scans digit strings with `FoldLeft`, which the community
  modules define by a RECURSIVE operator. A module reaching it loses the
  SMT backend, and what the fold computes for every string needs induction
  over data, which the provers cannot do here.
* the statement's `TypeOK`. TLC finds it holds on the exchange instance
  (50 652 states), though no run lists it, because a type invariant has no
  plausible mutant of the code. Its `affected` and `rowsAffectedBulk` are
  values of `RowSum`, a recursive function over the rows of a vector
  execute. Proving them integers for every length needs induction over
  data. The proofs use the smaller invariants they need (`RowInv`,
  `CounterInv`, `ExchangeInv`).
* `CursorDrained`, a liveness property under the weak fairness of
  `FairSpec`. Liveness and ENABLED are beyond TLAPS.
* the violations. A counterexample is the result there, not a theorem.

Recursive definitions (`RowSum` in the statement module, the fold of the
rewriter) are only evaluated by TLC over bounded inputs. The provers cannot
instantiate the library's induction theorems, so what these compute for
every input is not proved.

## Not modelled

* Date/time encoding only calls the engine's encoders.
* `describe_column` is a table from metadata types to SOCI types.
* Error message formatting (`formatStatus`) is out of scope.
* The codec's `double`/`float`, TEXT/VARYING and timestamp branches: their
  conversions are engine or C library calls, and TLC has no reals.
* The BLOB buffer content and the connection-string parser are planned (see
  Plan).
* Null indicators are not modelled in FirebirdStatement: a null value only
  skips an exchange. The standard into type (`standard-into-type.cpp`) is
  not in the repository.
* The SOCI core (the front end that calls the backend) is not in the
  repository. What the models need of it is taken from spec.md.
* The metadata calls inside `prepare()` are not separated from the prepare
  itself. A throw there leaves `stmtp_` set with null metadata; this is
  listed as a hazard.
