# TLA+ models of the PXF bridge (magf/pxf)

This directory holds TLA+ models of the C side of PXF. That code is a PostgreSQL/Greenplum
foreign-data wrapper (`src/fdw`) and an external-table protocol (`src/external-table`). Both
stream rows to and from the PXF Java service over HTTP. The models are checked with TLC.
`PROJECT.json` maps every model definition to the source lines it translates. It also lists
the runs, the mutants, the findings and the hazards.

## The system

| Part | Source | State and operations |
|------|--------|----------------------|
| FDW read session | `src/fdw/pxf_bridge.c` `PxfBridgeImportStart`, `PxfBridgeRead`, `FillBuffer`, `PxfBridgeImportCleanup`; `src/fdw/pxf_fdw.c` `pxfBegin/Iterate/ReScan/EndForeignScan`, `InitCopyState` | A `PxfFdwScanState` owns a churl download handle, a header set and a pointer to its cancellation record. |
| Cancellation registrar | `pxf_bridge.c` `PxfBridgeAbortCallback`, `PxfBridgeCancel`, `PxfBridgeCancelCleanup` | A `PxfFdwCancelState` lives in `CurTransactionContext`. It aliases the session's handle and headers, and is registered as a resource-release callback of `CurTransactionResourceOwner`. On release of that owner it unregisters itself. During an abort it also sends `/cancel` (1 s timeout, errors swallowed, `InterruptHoldoffCount` restored). Then it frees itself. |
| FDW write session | `pxf_bridge.c` `PxfBridgeExportStart`, `PxfBridgeWrite`, `PxfBridgeCleanup`; `pxf_fdw.c` `pxfBeginForeignInsert/Modify`, `InitForeignModify`, `InitCopyStateForModify`, `pxfExecForeignInsert`, `pxfEndForeignInsert/Modify`, `FinishForeignModify` | A `PxfFdwModifyState` in `ri_FdwState` owns one upload. Each row is formatted into `fe_msgbuf`, written, and the buffer is reset. |
| Buffered fill loop | `pxf_bridge.c` `FillBuffer`; `pxfbridge.c` `fill_buffer` | Repeated `churl_read` into the caller's buffer until it holds enough bytes or a read returns 0. |
| External-table bridge | `src/external-table/src/pxfbridge.c` `gpbridge_*` | The same session and cancel protocol without TLS. Adds `context->completed`. Its callers (`pxfprotocol.c`) are not in this repository. |
| URI builder | `BuildUriForRead/Write/Cancel`; ext `build_uri_for_*` | Formatting of `{protocol}://{host}:{port}/pxf/{kind}`. The scheme is `https` exactly when `IsProtocolHttps`. The cancel URI is built from the record's own copy of the protocol. |
| TLS option set | `churl_make_ssl_options`, `free_churl_ssl_options` | Deep copies of configuration strings. The open uses a transient set. The cancellation record holds a second copy in transaction memory, used by `/cancel` and freed with the record. |
| Configuration helpers | `src/external-table/src/pxfutils.c` | `normalize_key_name`, `concat`, `getenv_*`, `get_pxf_port` (`strtol` cast to `int`). |
| Planner callbacks | `pxf_fdw.c` `pxfGetForeignRelSize/Paths/Plan`, `pxfExplainForeignScan`, `pxf_fdw_handler` | `pxfGetForeignPlan` stores the WHERE clause text and the retrieved attributes in `ForeignScan->fdw_private`, which belongs to the plan and is read and freed by the executor callbacks. The rest fill planner structures that die with the planner. |
| Error contexts | `pxf_fdw.c` `PxfBeginScanErrorCallback`, `PxfCopyFromErrorCallback` | These only rewrite error message text. |

The hard part is how three lifecycles interact:

- **The scan's executor state.** It lives in portal memory.
- **The cancellation record.** It lives in transaction memory and is reached through resource-owner release callbacks.
- **PostgreSQL's transaction machinery.**
  - Savepoints. `RELEASE` releases the subtransaction owner with `isCommit = true` and moves open cursors to the parent.
  - `ROLLBACK TO`.
  - `COMMIT`. `PreCommit_Portals` runs `ExecutorEnd` for READY portals and drops failed ones without it.
  - `ROLLBACK`. `AtAbort_Portals` releases portal executor memory before `ResourceOwnerRelease`.

Whether an abort runs `ExecutorEnd` on READY portals (or the external-table protocol's last call) differs between builds. The models leave it open as the variable `endAtAbort`.

## Modules

### `PxfFdwScan` (with `MC_PxfFdwScan`): the read session and cancellation registrar

**State.**

- `handle`, `connected`, `hfreed`: the churl handle, whether its local port is non-zero, and whether the executor memory holding it was released.
- `rec`, `owner`: the cancellation record and the level of the resource owner it is registered against. Subtransaction depth stands for owner identity, which is sound because a level's records are released when the level ends.
- `remote`, `cancels`: the service's transfer and the `/cancel` requests sent for it.
- `scan`: the `PxfFdwScanState`, with its `pxfcstate` pointer as `scan.rec`.
- `xact`, `depth`, `holdoff`: the backend's transaction state, savepoint depth and `InterruptHoldoffCount`.
- `endpoint`: per open, the scheme the read URI used, the record's copy of the protocol, the record's TLS set (`none`, `live` or `freed`), and the last `/cancel` request sent (scheme and TLS state).
- `fault`: a history of accesses to released memory. After such an access the model continues with the stale values intact, which is one outcome the undefined behaviour allows.

**Actions.** One per FDW callback: `pxfBeginForeignScan`, `pxfReScanForeignScan`, `pxfIterateForeignScan`, `pxfEndForeignScan`. Each includes the bridge calls it makes.

- `PxfBridgeCancelCleanup` takes the records one release or close reaches. It models the unregister, the `/cancel` only while an abort is in progress (port 0 skips it), and which requests succeed or fail. It also models the holdoff restore in `PG_CATCH` (a failed request reaches it with the count 0, as `errfinish` leaves it before the longjmp) and the free.
- Environment actions model PostgreSQL's transaction machinery in its real order: `Savepoint`, `CommitSubTransaction`, `AbortSubTransaction`, `Commit`, `PreCommitPortals`, `CommitRelease`, `Rollback`, `AtAbortPortals`, `AbortRelease`. The network has `ConnectionDrops`, and `ExecutorError` is an error raised while the portal runs.

**Constants.**

- `Opens`: transport opens. Each is a model value and never reused, which bounds the behaviour.
- `MaxDepth`.
- `CursorInSubxact`: may a scan start inside a savepoint?
- `ReScanAllowed`.
- `Protocols`: the values of the `pxf_protocol` option a scan may use.

### `PxfFdwModify` (with `MC_PxfFdwModify`): the write session

**State.**

- `stmt`, `phase`: the statement kind (INSERT, COPY FROM, EXPLAIN) and its phase.
- `fdwState`: `ri_FdwState`.
- `upload`: per open: unused, open, closed, or abandoned by an ERROR. The write path registers no cleanup.
- `buf`: the COPY buffer.
- `received`: what each remote object holds. A whole row is `Line(r)`; a row cut short is `Partial(r)`.
- `inserted`: the rows the executor was told were inserted through each upload.
- `onMaster`: the coordinator of an ALL SEGMENTS table, where `InitForeignModify` returns NULL.

`ShortWrites` decides whether `churl_write` may accept fewer bytes than it was asked to write.

### `CancelRegistrar`: what the cancellation registrar promises

This is the abstract specification. Each record is `unused`, `armed` or `released`, and `sent` counts the `/cancel` requests for it.

- `Register(r)` arms an unused record.
- `Release(R, C)` releases a set of armed records at once, because one resource-owner release can reach several. It sends one `/cancel` for each record in `C`, a subset of `R`.

Nothing else may change the two variables. So a record is registered once and released once, and a `/cancel` goes out only as part of its release.

Both bridges are shown to implement this specification. `PxfFdwScan` and `PxfExtBridge` each define:

- `RegOf`, which maps a freed record to `released`;
- `Registrar == INSTANCE CancelRegistrar WITH Records <- Opens, reg <- RegOf, sent <- cancels`;
- `RegistrarRefined == Registrar!Spec`, which is checked as a `PROPERTY`.

### `PxfFillBuffer` (with `MC_PxfFillBuffer`): the buffered fill loop

The transport is the sequence of chunk sizes the network delivers. `churl_read(size)` returns `min(size, head chunk)` and keeps the rest of that chunk. A `0` chunk is a read that returns 0 bytes while the stream is still open (a stall). `dropped` says whether the transfer ended with an error.

- **The two loops.**
  - `FillBuffer` (`pxf_bridge.c`, minlen/maxlen) is a `RECURSIVE` operator that keeps the code's loop: `while (ptr < minend) churl_read(maxend - ptr)`.
  - `fill_buffer` (`pxfbridge.c`) is the same loop with `minend = maxend`.
- **The actions.**
  - `PxfBridgeRead` and `gpbridge_read` are the two read calls.
  - On a 0 result, each runs the connectivity check. `gpbridge_read` also sets `context->completed`.
  - The variable `bridge` says which read path the session uses.
- **The reference.** `RefFill` states the contract without the loop: the smallest prefix of the chunks before the first 0 that reaches minlen, capped at maxlen.

### `PxfExtBridge` (with `MC_PxfExtBridge`): the external-table bridge

**State.** The state is the same as `PxfFdwScan`'s: the handle, the record, the remote transfer and `/cancel` requests, holdoff, `fault` and `endAtAbort`. It adds two contexts:

- `rctx`, the readable table's `gphadoop_context`: its status, current handle, `cancel` pointer and `completed` flag;
- `wctx`, the writable table's context.

`written` counts the writes each upload received.

**Actions.** There is one action per bridge function: `gpbridge_import_start`, `gpbridge_read`, `gpbridge_cleanup`, `gpbridge_export_start` and `gpbridge_write`. The cancel path is modelled in `gpbridge_abort_callback`, `gpbridge_cancel` and `gpbridge_cancel_cleanup`.

The protocol layer that calls them (`pxfprotocol.c`) is not in this repository. Its first, every and last calls are therefore environment actions: `ImportFirstCall`, `ImportLastCall`, `ExportFirstCall` and `ExportLastCall`. So are the transaction's steps: `Commit`, `PreCommitPortals`, `CommitRelease`, `Rollback`, `AbortLastCall`, `AtAbortPortals` and `AbortRelease`.

Only top-level transactions are explored. The savepoint paths of the same registration code are explored in `PxfFdwScan`.

### `PxfFdwPlan` (with `MC_PxfFdwPlan`): the plan's private list

**State.**

- `role`: `Gp_role`, either the dispatcher (QD) or a segment (QE).
- `plan`: the ForeignScan plan, one-shot or cached, and whether it has run.
- `priv`: `ForeignScan->fdw_private`, which is NIL, valid or freed but still pointed to.
- `node`, `fdwState`: the ForeignScanState and its `fdw_state`.
- `fault`: reads and frees of the freed list.

**Actions.**

- `PlanQuery`: planning runs `pxfGetForeignPlan`, which builds the list. On a segment, this is the receipt of the dispatched copy. Segments only get one-shot plans.
- `pxfBeginForeignScan`: returns at once under EXPLAIN without ANALYZE. Otherwise it reads the list, then returns on the dispatcher. On a segment it builds the scan state.
- `pxfEndForeignScan`: frees the list whenever the pointer is not NIL. It never resets the pointer.
- `DropPlan`: the plan is released, a one-shot plan with its portal or a cached plan on DEALLOCATE.

The scan itself is modelled in `PxfFdwScan`; this module only tracks the plan-owned list across executions.

## Runs

| Run | Bounds | Checks | Result |
|-----|--------|--------|--------|
| `scan_base` | 2 opens, 1 savepoint level, scans opened at the top level, no rescans, symmetric opens | `TypeOK`, `NoOrphanRegistration`, `InterruptsRestored`, `CancelMatchesTransfer`, `RegistrarRefined` | pass, 14k states |
| `scan_full` | 3 opens, 2 savepoint levels, scans in savepoints, rescans | `NoOrphanRegistration`, `InterruptsRestored` | pass, 2.2M states, about 70 s |
| `scan_memsafe` | 2 opens, top-level scans | `MemorySafe` | violation: the abort callback reads a freed handle |
| `scan_subxact` | scans in one savepoint | `ScanRefValid` | violation: `RELEASE` frees a record the scan still points to |
| `scan_rescan` | no savepoints, rescans | `AtMostOneTransport` | violation: rescan opens a second transport |
| `scan_remote` | 2 opens, top-level scans | `RemoteStopped` | violation: a failed cursor reaches COMMIT still streaming, with no `/cancel` |
| `modify_healthy` | 3 opens, 4 rows, whole writes | `StreamFaithful`, `UploadsReleased` | pass, 2.7k states |
| `modify_short` | 2 opens, 3 rows, short writes | `StreamFaithful` | violation: a short write is accepted |
| `fill_healthy` | streams of up to 3 chunks of 1..3 bytes, buffers of 1..4 bytes, both bridges | `FillMatchesReference`, `EofOnlyAtEnd` | pass, 7k states |
| `fill_stall` | as healthy, with 0-byte reads before the end | `EofOnlyAtEnd` | violation: a stall is reported as end of data |
| `ext_base` | 3 opens, 2 writes per upload, both `endAtAbort` values, symmetric opens | `TypeOK`, `NoOrphanRegistration`, `InterruptsRestored`, `RegistrarRefined` | pass, 25k states |
| `plan_reuse` | both roles, one-shot and cached plans, EXPLAIN or not | `PlanPrivateLive` | violation: a cached plan's second execution on the dispatcher reads the freed `fdw_private` |

`RegistrarRefined` is not checked in `scan_full`. It fails there through the same `RELEASE` double free that `scan_subxact` shows: the abort callback then releases a record a second time. A rescan inside a savepoint reaches the same path, because the new record is registered against the savepoint's owner. For that reason `scan_base` opens scans only at the top level and does not rescan; savepoints still follow the scan.

Why these bounds are enough:

- **Scans.** Two opens are enough for a scan that is started, closed and started again in a later transaction, and for a rescan. Three opens with two levels let a record registered in an inner savepoint coexist with one in the outer savepoint and one at the top level.
- **Protocols.** `scan_base` lets each open choose `http` or `https`, so a transaction can mix them. So do the violation runs. `scan_full` uses `https` only, where the record carries a TLS copy, to keep its state space within reach.
- **Writes.** Four rows let a statement write several rows through one upload, fail, and start again on a fresh upload.
- **Fill loop.** Buffers of up to 4 bytes with chunks of up to 3 bytes cover:
  - a chunk larger than the space left;
  - several chunks needed to reach minlen;
  - minlen = maxlen;
  - a stream that ends inside a call.
- **External-table bridge.** Three opens give a download and an upload in one transaction and a download in the next. The opens are model values under symmetry, which is sound because every property checked is a safety property.
- **Plans.** The plan model has no counter. Its state space is finite, and a cached plan can be executed and explained any number of times.

Every passing property has a mutant in `PROJECT.json`: a plausible bug in a mapped definition that TLC catches under the run's own configuration.

- The record keeps the transient TLS set that the open already freed.
- The callback acts only on abort, or only on commit (its cleanup put inside the `if (isCommit)` block).
- The record is freed without being unregistered.
- `PG_CATCH` keeps the holdoff count the failed request left behind (0, set by `errfinish`) instead of the saved one.
- The COPY buffer is not reset.
- `FinishForeignModify` does not clean up.
- The fill loop runs until maxlen instead of minlen.
- Each read asks for one byte less than the space left.

## What the failures show

The findings in `PROJECT.json` are:

1. The cancellation record aliases the transport handle and headers in executor memory, which PostgreSQL releases before it runs the resource-release callbacks (`pxf_bridge.c:125`).
2. A `RELEASE SAVEPOINT` makes the callback free a record that a cursor opened in the savepoint still references. Closing the cursor then frees it again (`pxf_bridge.c:118`, `:189`). On builds that run `ExecutorEnd` at abort (`endAtAbort`), an abort makes that close also send `/cancel` from the freed record. This is why `CancelMatchesTransfer` is checked only where scans start at the top level.
3. `pxfReScanForeignScan` leaks the previous transport and registration (`pxf_fdw.c:544`).
4. A failed cursor portal that survives `ROLLBACK TO` is dropped at COMMIT without a `/cancel` and without closing its transfer (`pxf_bridge.c:164`).
5. `pxfExecForeignInsert` rejects only `-1` from `PxfBridgeWrite`, where the spec treats any short write as fatal (`pxf_fdw.c:721`).
6. The fill loop stops on the first 0-byte read. The read call then reports end of data unless the connectivity check sees an error (`pxf_bridge.c:429`).
   - If `churl_read` can return 0 while the transfer is still open, COPY ends the scan early. Whether it can depends on churl, not on this repository.
   - The spec lists such a stall among the zero-byte cases, but leaves the EOF/error decision to a check that does not cover it.
7. `pxfEndForeignScan` frees `ForeignScan->fdw_private` (`pxf_fdw.c:565`). That list belongs to the plan, not to the execution, and the pointer is not reset.
   - On the dispatcher, a cached plan runs again without re-planning. Examples are a prepared statement, a PL/pgSQL query, and EXPLAIN EXECUTE followed by EXECUTE.
   - The next `pxfBeginForeignScan` reads the freed list (lines 418-419, before its dispatcher return). The next `pxfEndForeignScan` frees it again.
   - Segments get a fresh copy of the plan with every dispatch and are not affected.

The external-table cancel has the same ordering as finding 1 (`pxfbridge.c:69`): it reads a handle freed with portal memory, on builds that release that memory at abort without the protocol's last call. `PxfExtBridge` models the freed memory and states `MemorySafe`. No run checks it separately, because its trace is step for step the FDW one.

## Fairness

PostgreSQL drives every callback from one backend process. The interleavings that matter are between the backend's own callbacks, PostgreSQL's transaction machinery and the remote service. They are not between threads.

No property assumes fairness, and no liveness property is checked. The end-of-transaction obligation, that no record stays registered once the transaction is over, is the safety property `NoOrphanRegistration`: it is checked in the idle state that follows every COMMIT and ROLLBACK. Whether PostgreSQL then reaches that idle state is a property of PostgreSQL's own transaction machinery, not of this code, and a liveness property stated over it would hold for any callback that reaches idle. The property a user would care about, that the remote transfer eventually stops, does not hold: `/cancel` is best-effort with a short timeout and its failure is dismissed, and nothing can be assumed of the network.

## Not modelled

- **Planner structures, EXPLAIN output and error-context text.** `pxfGetForeignRelSize/Paths` build `baserel->fdw_private`, which dies with the planner. `pxfExplainForeignScan` does nothing. `pxf_fdw_handler` and `pxfIsForeignRelUpdatable` return constants. Only the plan-owned `fdw_private` outlives a call, and `PxfFdwPlan` models it.
- **Which columns are fetched.** `pxfGetForeignRelSize` fetches the target list and the local conditions. `pxfGetForeignPlan` rechecks every scan clause locally, remote conditions included. Whether a column used only by a remote condition arrives as a value depends on the header assembler and the PXF service, and neither is in this repository.
- **`GetNamespaceName`** (`pxfutils.c:181`). It returns a pointer into a syscache tuple after `ReleaseSysCache`. A cache invalidation before the caller copies the name would leave the caller holding a dangling pointer. Its callers are not in this repository, so there is no use to model.
- **The churl library and the PXF service.** They are not in this repository. They appear only as the outcomes the code distinguishes: connected or refused, data, end or error, and whole, short or failed writes. For the fill loop, they appear as a sequence of chunk sizes.
- **The external-table protocol layer (`pxfprotocol.c`).** It is not in this repository. Its first, every and last calls are environment actions of `PxfExtBridge`.
- **The transient TLS sets.** `PxfBridgeImportStart` and `PxfBridgeExportStart` make a transient set and free it inside the same call, so it is not tracked. The record's own copy is modelled.
- **URI text** (`BuildUriForWrite`, `build_uri_for_*`, and the host, port and path of the others). This is formatting of protocol, authority and a fixed path. Only the scheme of the read and cancel URIs is modelled, because TLS depends on it. Host and port are copied into the record the same way the protocol is.
  - `build_uri_for_write` appends without `resetStringInfo`. That matters only if the protocol layer reuses a context, and the protocol layer is not in this repository.
- **`get_pxf_port`.** Its hazard is the `(int)` cast of `strtol`'s 64-bit result: an out-of-range `PXF_PORT` wraps to another port instead of failing to connect. TLC's integers are 32-bit, so this cannot be checked at the real widths. It is listed as a hazard.
- **`normalize_key_name`, `concat`, `getenv_*`, `get_authority`.** These are string formatting with no state.
  - Their only control is `get_pxf_port`'s ERROR when `PXF_PORT` has no leading digits. That ERROR is raised by `build_uri_for_read` before `gpbridge_import_start` allocates anything.
  - The same environment is read when a `/cancel` is built, so the cancel never meets a value the read accepted differently.
  - `strtol` itself is libc, not code of this repository.
