---------------------------- MODULE PxfExtBridge ----------------------------
(***************************************************************************)
(* The bridge of the PXF external-table protocol                           *)
(* (src/external-table/src/pxfbridge.c): a readable external table's      *)
(* gphadoop_context owns a churl download and a pxfbridge_cancel record    *)
(* registered as a resource-release callback of CurTransactionResourceOwner;*)
(* a writable table's context owns a churl upload.  The protocol entry     *)
(* points that call gpbridge_* (first call: *_start, every call: read or   *)
(* write, last call: gpbridge_cleanup) are not in this repository; they   *)
(* are the environment here, with PostgreSQL's commit and abort order as  *)
(* in PxfFdwScan.  Only top-level transactions are explored.               *)
(***************************************************************************)
EXTENDS Naturals, FiniteSets

CONSTANTS
    Opens,      \* identifiers of transport opens, never reused
    MaxWrites,  \* writes of one upload explored
    NULL

ASSUME NULL \notin Opens /\ MaxWrites \in Nat

VARIABLES
    xact,       \* transaction state of the segment's backend
    holdoff,    \* InterruptHoldoffCount
    handle,     \* [Opens -> "unused" | "download" | "upload" | "closed"]
    connected,  \* [Opens -> BOOLEAN]: churl_get_local_port(handle) # 0
    hfreed,     \* [Opens -> BOOLEAN]: executor memory holding the handle released
    rec,        \* [Opens -> "unused" | "armed" | "freed"]: the pxfbridge_cancel of a download
    remote,     \* [Opens -> state of the remote transfer]
    cancels,    \* [Opens -> /cancel requests sent]
    written,    \* [Opens -> writes the remote accepted]
    rctx,       \* the readable table's context
    wctx,       \* the writable table's context
    fault,      \* accesses to released memory (history)
    endAtAbort  \* does the build end READY portals (and call the last call) at abort?

vars == <<xact, holdoff, handle, connected, hfreed, rec, remote, cancels, written,
          rctx, wctx, fault, endAtAbort>>

NoCtx == [status |-> "none", cur |-> NULL, cancel |-> NULL, completed |-> FALSE]

-----------------------------------------------------------------------------
(* The cancellation record (pxfbridge.c 46-112).                           *)

\* Mutant: the cleanup call sits inside the `if (isCommit)` block.
gpbridge_abort_callbackCommitOnly(i, isCommit) == rec[i] = "armed" /\ isCommit

\* gpbridge_abort_callback: in RESOURCE_RELEASE_AFTER_LOCKS, a record of the
\* owner being released (all are top-level here) is cleaned up; on commit
\* the leak is only logged first.
gpbridge_abort_callback(i, isCommit) == rec[i] = "armed"

Fired(isCommit) == {i \in Opens : gpbridge_abort_callback(i, isCommit)}

\* An ERROR raised inside the PG_TRY: errfinish sets InterruptHoldoffCount
\* to 0 before the longjmp, so the PG_CATCH sees 0 when a request failed.
ErrorHoldoff(failed) == IF failed = {} THEN holdoff ELSE 0

\* Mutants: the PG_CATCH keeps the count left behind by the failed request;
\* the record is left registered (not freed).
HoldoffKept(saved, leftover) == leftover
UnregisterSkipped(rc, R) == rc

\* gpbridge_cancel: no request when the local port is 0; a failed request
\* is dismissed and InterruptHoldoffCount restored to the saved value.
gpbridge_cancel(r) == connected[r]
RestoreHoldoff(saved, leftover) == saved

\* UnregisterResourceReleaseCallback, then pfree(cancel).
UnregisterAndFree(rc, R) == [i \in Opens |-> IF i \in R THEN "freed" ELSE rc[i]]

\* gpbridge_cancel_cleanup of the records R during an abort or not; the
\* caller then closes the transports C and resumes interrupts `resume` times.
gpbridge_cancel_cleanup(R, abort, C, resume) ==
    LET sent == IF abort THEN {r \in R : gpbridge_cancel(r)} ELSE {}
        read == IF abort THEN R ELSE {}
    IN \E ok \in SUBSET sent :
        /\ rec' = UnregisterAndFree(rec, R)
        /\ cancels' = [i \in Opens |-> IF i \in sent THEN cancels[i] + 1 ELSE cancels[i]]
        /\ remote' = [i \in Opens |->
                        IF i \in ok /\ remote[i] = "streaming" THEN "cancelled"
                        ELSE IF i \in C /\ remote[i] \in {"streaming", "finished"} THEN "closed"
                        ELSE remote[i]]
        /\ fault' = fault
                    \cup (IF \E r \in R : rec[r] = "freed" THEN {"double_free"} ELSE {})
                    \cup (IF \E r \in read : hfreed[r] THEN {"use_after_free"} ELSE {})
        /\ holdoff' = RestoreHoldoff(holdoff, ErrorHoldoff(sent \ ok)) - resume

-----------------------------------------------------------------------------
(* The session (pxfbridge.c 114-224).                                      *)

\* Portal (executor) memory, which holds the contexts, the churl handles and
\* the headers, is released.
ExecutorMemoryFreed == [i \in Opens |-> hfreed[i] \/ handle[i] # "unused"]

Fresh == {i \in Opens : handle[i] = "unused"}

\* gpbridge_import_start: build the read URI and headers, open the download,
\* allocate the record in CurTransactionContext, register it, then probe;
\* "ok" streams, "http_error" finished with an error, "refused" port 0.
gpbridge_import_start(i, o) ==
    /\ handle' = [handle EXCEPT ![i] = "download"]
    /\ connected' = [connected EXCEPT ![i] = (o # "refused")]
    /\ rec' = [rec EXCEPT ![i] = "armed"]
    /\ remote' = [remote EXCEPT ![i] = IF o = "ok" THEN "streaming"
                                       ELSE IF o = "http_error" THEN "finished" ELSE "none"]
    /\ rctx' = [NoCtx EXCEPT !.status = IF o = "ok" THEN "ready" ELSE "failed",
                             !.cur = i, !.cancel = i]
    /\ xact' = IF o = "ok" THEN xact ELSE "error"

\* gpbridge_read: fill_buffer, and on 0 bytes set context->completed before
\* churl_read_check_connectivity, which raises for a failed transfer.
gpbridge_read ==
    /\ xact = "inprogress"
    /\ rctx.status = "ready" /\ ~rctx.completed
    /\ LET i == rctx.cur IN
       \/ /\ remote[i] = "streaming"
          /\ remote' \in {remote, [remote EXCEPT ![i] = "finished"]}
          /\ UNCHANGED <<xact, rctx>>
       \/ /\ remote[i] = "finished"
          /\ rctx' = [rctx EXCEPT !.completed = TRUE]
          /\ UNCHANGED <<xact, remote>>
       \/ /\ remote[i] \notin {"streaming", "finished"}
          /\ rctx' = [rctx EXCEPT !.completed = TRUE, !.status = "failed"]
          /\ xact' = "error"
          /\ UNCHANGED remote
    /\ UNCHANGED <<holdoff, handle, connected, hfreed, rec, cancels, written, wctx,
                   fault, endAtAbort>>

\* gpbridge_cleanup(context): cancel cleanup of context->cancel (NULL for
\* an upload), which is then nulled, churl_cleanup, churl_headers_cleanup.
\* The caller forgets the context.
gpbridge_cleanup(c, abort) ==
    /\ gpbridge_cancel_cleanup(IF c.cancel = NULL THEN {} ELSE {c.cancel}, abort, {c.cur}, 0)
    /\ handle' = [handle EXCEPT ![c.cur] = "closed"]

\* gpbridge_export_start: build the write URI, headers, open the upload.
gpbridge_export_start(i) ==
    /\ handle' = [handle EXCEPT ![i] = "upload"]
    /\ wctx' = [NoCtx EXCEPT !.status = "ready", !.cur = i]

\* gpbridge_write of datalen > 0 bytes: churl_write pushes them and the count
\* is returned unchecked (a short count is not told apart here: the caller's
\* handling of it is outside this repository), or churl_write itself raises
\* ERROR for a failed upload.
gpbridge_write ==
    /\ xact = "inprogress"
    /\ wctx.status = "ready"
    /\ written[wctx.cur] < MaxWrites
    /\ \/ /\ written' = [written EXCEPT ![wctx.cur] = @ + 1]
          /\ UNCHANGED <<xact, wctx>>
       \/ /\ xact' = "error"
          /\ wctx' = [wctx EXCEPT !.status = "failed"]
          /\ UNCHANGED written
    /\ UNCHANGED <<holdoff, handle, connected, hfreed, rec, remote, cancels,
                   rctx, fault, endAtAbort>>

-----------------------------------------------------------------------------
(* The protocol's calls and the transaction machinery around them.         *)

\* The first call of a scan of the readable table: gpbridge_import_start.
ImportFirstCall ==
    /\ xact = "inprogress" /\ rctx.status = "none"
    /\ \E i \in Fresh, o \in {"ok", "http_error", "refused"} : gpbridge_import_start(i, o)
    /\ UNCHANGED <<holdoff, hfreed, cancels, written, wctx, fault, endAtAbort>>

\* The network drops a transfer that is still streaming.
ConnectionDrops ==
    /\ \E i \in Opens : remote[i] = "streaming" /\ remote' = [remote EXCEPT ![i] = "dropped"]
    /\ UNCHANGED <<xact, holdoff, handle, connected, hfreed, rec, cancels, written,
                   rctx, wctx, fault, endAtAbort>>

\* The last call of a scan that ended or was closed early (LIMIT).
ImportLastCall ==
    /\ xact = "inprogress" /\ rctx.status = "ready"
    /\ gpbridge_cleanup(rctx, FALSE)
    /\ rctx' = NoCtx
    /\ UNCHANGED <<xact, connected, hfreed, written, wctx, endAtAbort>>

\* The first call of an INSERT into the writable table.
ExportFirstCall ==
    /\ xact = "inprogress" /\ wctx.status = "none"
    /\ \E i \in Fresh : gpbridge_export_start(i)
    /\ UNCHANGED <<xact, holdoff, connected, hfreed, rec, remote, cancels, written,
                   rctx, fault, endAtAbort>>

\* The last call of the INSERT.
ExportLastCall ==
    /\ xact = "inprogress" /\ wctx.status = "ready"
    /\ gpbridge_cleanup(wctx, FALSE)
    /\ wctx' = NoCtx
    /\ UNCHANGED <<xact, connected, hfreed, written, rctx, endAtAbort>>

BeginTransaction ==
    /\ xact = "idle"
    /\ xact' = "inprogress"
    /\ UNCHANGED <<holdoff, handle, connected, hfreed, rec, remote, cancels, written,
                   rctx, wctx, fault, endAtAbort>>

\* An ERROR raised elsewhere in the statement or the cursor's query.
ExecutorError ==
    /\ xact = "inprogress"
    /\ xact' = "error"
    /\ UNCHANGED <<holdoff, handle, connected, hfreed, rec, remote, cancels, written,
                   rctx, wctx, fault, endAtAbort>>

\* COMMIT with no INSERT running; a cursor over the readable table may be open.
Commit ==
    /\ xact = "inprogress" /\ wctx.status = "none"
    /\ xact' = "committing"
    /\ UNCHANGED <<holdoff, handle, connected, hfreed, rec, remote, cancels, written,
                   rctx, wctx, fault, endAtAbort>>

\* ROLLBACK or error recovery: AbortTransaction starts with HOLD_INTERRUPTS.
Rollback ==
    /\ xact \in {"inprogress", "error"}
    /\ xact' = "aborting"
    /\ holdoff' = holdoff + 1
    /\ UNCHANGED <<handle, connected, hfreed, rec, remote, cancels, written,
                   rctx, wctx, fault, endAtAbort>>

\* PreCommit_Portals: the open cursor's scan ends with its last call.
PreCommitPortals ==
    /\ xact = "committing"
    /\ xact' = "commit_release"
    /\ \/ /\ rctx.status = "ready"
          /\ gpbridge_cleanup(rctx, FALSE)
       \/ /\ rctx.status = "none"
          /\ UNCHANGED <<holdoff, handle, rec, remote, cancels, fault>>
    /\ rctx' = NoCtx
    /\ hfreed' = ExecutorMemoryFreed
    /\ UNCHANGED <<connected, written, wctx, endAtAbort>>

\* Top-level ResourceOwnerRelease with isCommit, then end of transaction.
CommitRelease ==
    /\ xact = "commit_release"
    /\ xact' = "idle"
    /\ gpbridge_cancel_cleanup(Fired(TRUE), FALSE, {}, 0)
    /\ UNCHANGED <<handle, connected, hfreed, written, rctx, wctx, endAtAbort>>

\* On builds that close open external-table files at abort, the last call
\* of a live context runs while the abort is in progress.
AbortLastCall ==
    /\ xact = "aborting" /\ endAtAbort
    /\ \/ /\ rctx.status # "none"
          /\ gpbridge_cleanup(rctx, TRUE)
          /\ rctx' = NoCtx
          /\ UNCHANGED wctx
       \/ /\ wctx.status # "none"
          /\ gpbridge_cleanup(wctx, TRUE)
          /\ wctx' = NoCtx
          /\ UNCHANGED rctx
    /\ UNCHANGED <<xact, connected, hfreed, written, endAtAbort>>

\* AtAbort_Portals: portal memory is released (with any context left).
AtAbortPortals ==
    /\ xact = "aborting"
    /\ endAtAbort => rctx.status = "none" /\ wctx.status = "none"
    /\ xact' = "abort_release"
    /\ hfreed' = ExecutorMemoryFreed
    /\ rctx' = NoCtx /\ wctx' = NoCtx
    /\ UNCHANGED <<holdoff, handle, connected, rec, remote, cancels, written, fault, endAtAbort>>

\* Top-level ResourceOwnerRelease of an abort, then RESUME_INTERRUPTS.
AbortRelease ==
    /\ xact = "abort_release"
    /\ xact' = "idle"
    /\ gpbridge_cancel_cleanup(Fired(FALSE), TRUE, {}, 1)
    /\ UNCHANGED <<handle, connected, hfreed, written, rctx, wctx, endAtAbort>>

-----------------------------------------------------------------------------

Init ==
    /\ xact = "idle"
    /\ holdoff = 0
    /\ handle = [i \in Opens |-> "unused"]
    /\ connected = [i \in Opens |-> FALSE]
    /\ hfreed = [i \in Opens |-> FALSE]
    /\ rec = [i \in Opens |-> "unused"]
    /\ remote = [i \in Opens |-> "none"]
    /\ cancels = [i \in Opens |-> 0]
    /\ written = [i \in Opens |-> 0]
    /\ rctx = NoCtx
    /\ wctx = NoCtx
    /\ fault = {}
    /\ endAtAbort \in BOOLEAN

Next ==
    \/ ImportFirstCall
    \/ gpbridge_read
    \/ ImportLastCall
    \/ ExportFirstCall
    \/ gpbridge_write
    \/ ExportLastCall
    \/ ConnectionDrops
    \/ BeginTransaction
    \/ ExecutorError
    \/ Commit
    \/ Rollback
    \/ PreCommitPortals
    \/ CommitRelease
    \/ AbortLastCall
    \/ AtAbortPortals
    \/ AbortRelease

Spec == Init /\ [][Next]_vars

-----------------------------------------------------------------------------
(* Properties.                                                             *)

TypeOK ==
    /\ xact \in {"idle", "inprogress", "error", "committing", "commit_release",
                 "aborting", "abort_release"}
    /\ holdoff \in Nat
    /\ handle \in [Opens -> {"unused", "download", "upload", "closed"}]
    /\ connected \in [Opens -> BOOLEAN]
    /\ hfreed \in [Opens -> BOOLEAN]
    /\ rec \in [Opens -> {"unused", "armed", "freed"}]
    /\ remote \in [Opens -> {"none", "streaming", "finished", "dropped", "cancelled", "closed"}]
    /\ cancels \in [Opens -> Nat]
    /\ written \in [Opens -> 0..MaxWrites]
    /\ {rctx, wctx} \subseteq [status : {"none", "ready", "failed"}, cur : Opens \cup {NULL},
                                cancel : Opens \cup {NULL}, completed : BOOLEAN]
    /\ fault \subseteq {"double_free", "use_after_free"}
    /\ endAtAbort \in BOOLEAN

\* A pxfbridge_cancel registered by gpbridge_import_start never outlives its
\* transaction: whether the scan's last call ran or not, by the time the
\* transaction is over gpbridge_abort_callback has unregistered it, on
\* commit as well as on abort.
NoOrphanRegistration ==
    xact = "idle" => \A i \in Opens : rec[i] # "armed"

\* Outside an abort InterruptHoldoffCount is 0: a /cancel that fails inside
\* gpbridge_cancel does not leave interrupts held off.
InterruptsRestored ==
    xact \in {"idle", "inprogress", "committing", "commit_release"} => holdoff = 0

\* No cleanup path touches released memory: gpbridge_cancel reads the churl
\* handle through the record only while the handle is allocated.
MemorySafe == fault = {}

\* The external-table registrar implements the same abstract registrar as
\* the FDW's: gpbridge_import_start registers each record once; the last
\* call and gpbridge_abort_callback together release it once, with at most
\* one /cancel, sent only while releasing it.
RegOf == [i \in Opens |-> IF rec[i] = "freed" THEN "released" ELSE rec[i]]
Registrar == INSTANCE CancelRegistrar WITH Records <- Opens, reg <- RegOf, sent <- cancels
RegistrarRefined == Registrar!Spec



=============================================================================
