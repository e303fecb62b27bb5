----------------------------- MODULE PxfFdwScan -----------------------------
(***************************************************************************)
(* The read side of the PXF foreign-data wrapper (src/fdw): one backend    *)
(* process running a foreign scan whose bridge session owns a streaming    *)
(* download (the churl transport handle) and a cancellation record that is *)
(* registered as a resource-release callback of the (sub)transaction that  *)
(* opened it.                                                              *)
(*                                                                         *)
(* The environment is PostgreSQL's transaction machinery as it drives this *)
(* code: savepoints (subtransactions), RELEASE / ROLLBACK TO, COMMIT and   *)
(* ROLLBACK unwinding, portal cleanup before resource-owner release, and   *)
(* errors raised by the executor while the scan's portal runs.  The remote *)
(* PXF service is one stream per opened transport.                         *)
(*                                                                         *)
(* Every transport open is identified by an element of Opens; the handle   *)
(* and the cancellation record created by the same PxfBridgeImportStart    *)
(* share that identifier.  Identifiers are never reused.                   *)
(***************************************************************************)
EXTENDS Naturals, FiniteSets

CONSTANTS
    Opens,            \* identifiers of transport opens (bounds the number of opens)
    MaxDepth,         \* deepest savepoint nesting explored
    CursorInSubxact,  \* may a scan's executor start inside a savepoint (cursor, PL/pgSQL block)?
    ReScanAllowed,    \* may the executor rescan the foreign scan (inner side of a join, FETCH ABSOLUTE)?
    Protocols,        \* values of the pxf_protocol option explored
    NULL              \* a null pointer

ASSUME MaxDepth \in Nat /\ CursorInSubxact \in BOOLEAN /\ ReScanAllowed \in BOOLEAN
ASSUME NULL \notin Opens

VARIABLES
    xact,       \* transaction block state of the backend
    depth,      \* current subtransaction nesting; resource owner of level d is d
    holdoff,    \* InterruptHoldoffCount
    handle,     \* [Opens -> state of the churl download handle]
    connected,  \* [Opens -> BOOLEAN]: churl_get_local_port(handle) # 0
    hfreed,     \* [Opens -> BOOLEAN]: executor memory holding the handle and headers released
    rec,        \* [Opens -> state of the PxfFdwCancelState record]
    owner,      \* [Opens -> resource owner (level) the record was registered against]
    remote,     \* [Opens -> state of the remote PXF transfer]
    cancels,    \* [Opens -> number of /cancel requests issued for this transfer]
    scan,       \* the PxfFdwScanState of the (single) foreign scan node
    fault,      \* accesses to released memory that have happened (history)
    endpoint,   \* [Opens -> the read URI's scheme, the record's protocol and TLS copies, the last /cancel sent]
    endAtAbort  \* does this PostgreSQL build run ExecutorEnd for READY portals at abort?

vars == <<xact, depth, holdoff, handle, connected, hfreed, rec, owner, remote,
          cancels, scan, fault, endpoint, endAtAbort>>

XactStates == {"idle", "inprogress", "error", "committing", "commit_release",
               "aborting", "abort_release"}
Levels == 0..MaxDepth
NoScan == [status |-> "none", level |-> 0, cur |-> NULL, rec |-> NULL, eof |-> FALSE]

\* Remote transfer states in which the PXF service is still producing data.
Producing == {"streaming"}

-----------------------------------------------------------------------------
(* Helpers of the cancellation protocol (src/fdw/pxf_bridge.c).            *)

\* Mutant: the callback only acts on abort (the commit branch returns
\* after logging the leak instead of cleaning up).
PxfBridgeAbortCallbackAbortOnly(i, owners, isCommit) ==
    rec[i] = "armed" /\ owner[i] \in owners /\ ~isCommit

\* PxfBridgeAbortCallback: in phase RESOURCE_RELEASE_AFTER_LOCKS, a record
\* acts only when the owner being released is the one it registered with;
\* on commit it only logs the leak, and in both cases it cleans up.
PxfBridgeAbortCallback(i, owners, isCommit) ==
    rec[i] = "armed" /\ owner[i] \in owners

\* The records a release of the owners in `owners` cleans up.
Fired(owners, isCommit) == {i \in Opens : PxfBridgeAbortCallback(i, owners, isCommit)}

\* PxfBridgeCancel: a /cancel request is issued only when the transport's
\* local port is not 0.
PxfBridgeCancel(r) == connected[r]

\* PxfBridgeCancelCleanup calls PxfBridgeCancel only while an abort is in
\* progress; these are the records whose handle it then reads.
PortReads(R, abort) == IF abort THEN R ELSE {}
CancelsIssued(R, abort) == {r \in PortReads(R, abort) : PxfBridgeCancel(r)}

\* An ERROR raised inside the PG_TRY: errfinish sets InterruptHoldoffCount
\* to 0 before the longjmp, so the PG_CATCH sees 0 when a request failed.
ErrorHoldoff(failed) == IF failed = {} THEN holdoff ELSE 0

\* Mutant: the PG_CATCH keeps the count the failed call left behind instead
\* of the saved value.
HoldoffNotRestored(saved, leftover) == leftover

\* The PG_CATCH of PxfBridgeCancel puts InterruptHoldoffCount back to the
\* value saved before the attempt, whatever the failed call left behind.
RestoreHoldoff(saved, leftover) == saved

\* Mutant: the record is freed without UnregisterResourceReleaseCallback
\* (the stale registration stays armed).
UnregisterMissing(rc, R) == rc

\* UnregisterResourceReleaseCallback followed by pfree(pxfcstate).
UnregisterAndFree(rc, R) == [i \in Opens |-> IF i \in R THEN "freed" ELSE rc[i]]

\* A successful /cancel stops the remote transfer it names.
CancelledRemote(rm, ok) ==
    [i \in Opens |-> IF i \in ok /\ rm[i] \in Producing THEN "cancelled" ELSE rm[i]]

\* churl_cleanup closes the connections of the transports C; the service
\* stops sending.
ClosedRemote(rm, C) ==
    [i \in Opens |-> IF i \in C /\ rm[i] \in {"streaming", "finished"} THEN "closed" ELSE rm[i]]

\* IsProtocolHttps: a non-NULL protocol equal to "https" (strcmp, case
\* sensitive).
IsProtocolHttps(p) == p = "https"

\* The scheme BuildUriForRead and BuildUriForCancel write in front of
\* host:port/pxf/{read,cancel}; host, port and path are not told apart.
UriScheme(p) == IF IsProtocolHttps(p) THEN "https" ELSE "http"

\* churl_make_ssl_options: a fresh palloc'd deep copy of the TLS options;
\* free_churl_ssl_options releases one (a second free is a double free).
churl_make_ssl_options == "live"

\* BuildUriForRead (from the session's options) and BuildUriForCancel (from
\* the record's protocol copy).
BuildUriForRead(p) == UriScheme(p)
BuildUriForCancel(r) == UriScheme(endpoint[r].proto)
free_churl_ssl_options(t) == IF t = "live" THEN "freed" ELSE t

\* Mutant: the record keeps the transient TLS set, which
\* PxfBridgeImportStart frees right after churl_init_download.
RecordCopiesTransient(p) ==
    [proto |-> p, ssl |-> IF IsProtocolHttps(p) THEN "freed" ELSE "none"]

\* The copies PxfBridgeImportStart makes for the record in
\* CurTransactionContext: pstrdup of the protocol (and host), and, when the
\* protocol is https, a second churl_make_ssl_options.
RecordCopies(p) ==
    [proto |-> p, ssl |-> IF IsProtocolHttps(p) THEN churl_make_ssl_options ELSE "none"]

\* The request PxfBridgeCancel sends: the URI BuildUriForCancel builds from
\* the record's protocol copy, with the record's TLS options.
CancelRequest(r) == [scheme |-> BuildUriForCancel(r), ssl |-> endpoint[r].ssl]

\* PxfBridgeCancelCleanup after its cancel attempt: the record's TLS copy is
\* released with the record; `sent` remember the request they sent.
ReleaseCopies(R, sent) ==
    [i \in Opens |->
        IF i \in R
        THEN [endpoint[i] EXCEPT !.ssl = free_churl_ssl_options(@),
                                 !.cancel = IF i \in sent THEN CancelRequest(i) ELSE @]
        ELSE endpoint[i]]

\* Accesses to released memory made by cleaning up the records R.
Faults(R, abort, hf) ==
    (IF \E r \in R : rec[r] = "freed" \/ endpoint[r].ssl = "freed" THEN {"double_free"} ELSE {})
    \cup (IF \E r \in PortReads(R, abort) : hf[r] THEN {"use_after_free"} ELSE {})

\* PxfBridgeCancelCleanup applied to the records R (in one release or one
\* close), given the memory state hf the handles are read from; `closing` are
\* the transports the caller then closes and `resume` the
\* RESUME_INTERRUPTS the caller performs after it.  `ok` are the /cancel
\* requests that succeeded; a failed one is swallowed.
PxfBridgeCancelCleanup(R, abort, hf, closing, resume) ==
    LET sent == CancelsIssued(R, abort) IN
    \E ok \in SUBSET sent :
        /\ rec' = UnregisterAndFree(rec, R)
        /\ cancels' = [i \in Opens |-> IF i \in sent THEN cancels[i] + 1 ELSE cancels[i]]
        /\ remote' = ClosedRemote(CancelledRemote(remote, ok), closing)
        /\ fault' = fault \cup Faults(R, abort, hf)
        /\ endpoint' = ReleaseCopies(R, sent)
        /\ holdoff' = RestoreHoldoff(holdoff, ErrorHoldoff(sent \ ok)) - resume


\* Freeing the executor (portal) memory releases every handle and header set
\* the scan allocated: all opens made so far whose memory is still live.
ExecutorMemoryFreed == [i \in Opens |-> hfreed[i] \/ handle[i] # "unused"]

-----------------------------------------------------------------------------
(* Bridge session operations (src/fdw/pxf_bridge.c, src/fdw/pxf_fdw.c).    *)

\* The outcome of opening the download and the connectivity probe:
\*   "ok"         connected, the service streams rows;
\*   "http_error" connected, the service answered with an error and finished;
\*   "refused"    never connected (local port 0).
ImportOutcomes == {"ok", "http_error", "refused"}

\* PxfBridgeImportStart: open the download (handle i) over the scheme of
\* protocol p (a transient TLS set, freed after the open, when https),
\* allocate the cancel record i in CurTransactionContext with its own
\* copies, register it against CurTransactionResourceOwner, store both in
\* the scan state, then probe.  A failed probe raises ERROR with the record
\* already registered.  `s` is the scan state the fields are stored into.
PxfBridgeImportStart(s, i, o, p) ==
    /\ endpoint' = [endpoint EXCEPT ![i] = [read |-> BuildUriForRead(p), proto |-> RecordCopies(p).proto,
                                              ssl |-> RecordCopies(p).ssl, cancel |-> NULL]]
    /\ handle' = [handle EXCEPT ![i] = "open"]
    /\ connected' = [connected EXCEPT ![i] = (o # "refused")]
    /\ rec' = [rec EXCEPT ![i] = "armed"]
    /\ owner' = [owner EXCEPT ![i] = depth]
    /\ remote' = [remote EXCEPT ![i] = CASE o = "ok" -> "streaming"
                                         [] o = "http_error" -> "finished"
                                         [] o = "refused" -> "none"]
    /\ scan' = [s EXCEPT !.cur = i, !.rec = i, !.eof = FALSE,
                            !.status = IF o = "ok" THEN "ready" ELSE "failed"]
    /\ xact' = IF o = "ok" THEN xact ELSE "error"

\* InitCopyState: the bridge import start, then BeginCopyFrom on top of it
\* (the COPY state itself is not modelled).
InitCopyState(s, i, o, p) == PxfBridgeImportStart(s, i, o, p)

\* Opens not used yet.
Fresh == {i \in Opens : handle[i] = "unused"}

\* PxfBridgeImportCleanup (with the executor memory released afterwards by
\* ExecutorEnd): clean up the record the scan points at and null the pointer,
\* then close the transport.
PxfBridgeImportCleanup(abort) ==
    LET R == IF scan.rec = NULL THEN {} ELSE {scan.rec}
        cur == scan.cur
    IN /\ PxfBridgeCancelCleanup(R, abort, hfreed, {cur}, 0)
       /\ handle' = [handle EXCEPT ![cur] = "closed"]
       /\ hfreed' = ExecutorMemoryFreed
       /\ scan' = NoScan

\* PxfBridgeRead: FillBuffer drains the transport; a 0-byte result is
\* followed by churl_read_check_connectivity, which raises ERROR when the
\* transfer ended abnormally.  The result for transfer i: "data" (n > 0,
\* after which the service may have sent its last byte), "eof" (n = 0 and
\* the check passes) or "error" (n = 0 and the check raises).
PxfBridgeRead(i) ==
    CASE remote[i] = "streaming" -> {"data"}
      [] remote[i] = "finished"  -> {"eof"}
      [] OTHER                   -> {"error"}

-----------------------------------------------------------------------------
(* Foreign scan callbacks (src/fdw/pxf_fdw.c).                             *)

\* pxfBeginForeignScan: build the scan state and InitCopyState.  On a
\* failed open the ERROR leaves node->fdw_state unset; the portal is failed.
pxfBeginForeignScan ==
    /\ xact = "inprogress"
    /\ scan.status = "none"
    /\ depth = 0 \/ CursorInSubxact
    /\ \E i \in Fresh, o \in ImportOutcomes, p \in Protocols :
          InitCopyState([NoScan EXCEPT !.level = depth, !.status = "ready"], i, o, p)
    /\ UNCHANGED <<depth, holdoff, hfreed, cancels, fault, endAtAbort>>

\* pxfReScanForeignScan: EndCopyFrom, then InitCopyState again on the same
\* scan state.  The previous handle and cancel record are not cleaned up:
\* the new ones overwrite the pointers to them.
pxfReScanForeignScan ==
    /\ ReScanAllowed
    /\ xact = "inprogress"
    /\ scan.status = "ready"
    /\ \E i \in Fresh, o \in ImportOutcomes, p \in Protocols : InitCopyState(scan, i, o, p)
    /\ UNCHANGED <<depth, holdoff, hfreed, cancels, fault, endAtAbort>>

\* pxfIterateForeignScan: NextCopyFrom pulls bytes through PxfBridgeRead.
\* After a data read the service may have sent its last byte.
pxfIterateForeignScan ==
    /\ xact = "inprogress"
    /\ scan.status = "ready"
    /\ ~scan.eof
    /\ \E n \in PxfBridgeRead(scan.cur) :
          \/ /\ n = "data"
             /\ remote' \in {remote, [remote EXCEPT ![scan.cur] = "finished"]}
             /\ UNCHANGED <<xact, scan>>
          \/ /\ n = "eof"
             /\ scan' = [scan EXCEPT !.eof = TRUE]
             /\ UNCHANGED <<xact, remote>>
          \/ /\ n = "error"
             /\ scan' = [scan EXCEPT !.status = "failed"]
             /\ xact' = "error"
             /\ UNCHANGED remote
    /\ UNCHANGED <<depth, holdoff, handle, connected, hfreed, rec, owner,
                   cancels, fault, endpoint, endAtAbort>>

\* pxfEndForeignScan outside an abort (statement end, CLOSE of a cursor).
pxfEndForeignScan ==
    /\ xact = "inprogress"
    /\ scan.status = "ready"
    /\ PxfBridgeImportCleanup(FALSE)
    /\ UNCHANGED <<xact, depth, connected, owner, endAtAbort>>

-----------------------------------------------------------------------------
(* Environment: the PXF service and the network.                           *)

\* The connection of a transfer still producing data breaks.
ConnectionDrops ==
    /\ \E i \in Opens :
          /\ remote[i] = "streaming"
          /\ remote' = [remote EXCEPT ![i] = "dropped"]
    /\ UNCHANGED <<xact, depth, holdoff, handle, connected, hfreed, rec, owner,
                   cancels, scan, fault, endpoint, endAtAbort>>

-----------------------------------------------------------------------------
(* Environment: PostgreSQL transactions, portals and resource owners.      *)

BeginTransaction ==
    /\ xact = "idle"
    /\ xact' = "inprogress"
    /\ UNCHANGED <<depth, holdoff, handle, connected, hfreed, rec, owner,
                   remote, cancels, scan, fault, endpoint, endAtAbort>>

Savepoint ==
    /\ xact = "inprogress"
    /\ depth < MaxDepth
    /\ depth' = depth + 1
    /\ UNCHANGED <<xact, holdoff, handle, connected, hfreed, rec, owner,
                   remote, cancels, scan, fault, endpoint, endAtAbort>>

\* Any ERROR raised while the backend runs a statement (a bad row in COPY
\* parsing, a query cancel, an error in another plan node).  If it is raised
\* while the scan's portal runs, that portal is marked failed.
ExecutorError ==
    /\ xact = "inprogress"
    /\ xact' = "error"
    /\ \/ scan.status = "ready" /\ scan' = [scan EXCEPT !.status = "failed"]
       \/ UNCHANGED scan
    /\ UNCHANGED <<depth, holdoff, handle, connected, hfreed, rec, owner,
                   remote, cancels, fault, endpoint, endAtAbort>>

\* CommitSubTransaction (RELEASE SAVEPOINT, or COMMIT unwinding): the
\* subtransaction's owner is released with isCommit; a portal created in it
\* moves to the parent.
CommitSubTransaction ==
    /\ xact \in {"inprogress", "committing"}
    /\ depth > 0
    /\ PxfBridgeCancelCleanup(Fired({depth}, TRUE), FALSE, hfreed, {}, 0)
    /\ depth' = depth - 1
    /\ scan' = IF scan.status # "none" /\ scan.level = depth
               THEN [scan EXCEPT !.level = depth - 1] ELSE scan
    /\ UNCHANGED <<xact, handle, connected, hfreed, owner, endAtAbort>>

\* AbortSubTransaction + CleanupSubTransaction (ROLLBACK TO SAVEPOINT, the
\* error recovery of a subtransaction, or ROLLBACK unwinding).  A portal
\* created in the subtransaction is failed and its executor memory released
\* (AtSubAbort_Portals) before the owner's release callbacks run.
AbortSubTransaction ==
    /\ xact \in {"inprogress", "error", "aborting"}
    /\ depth > 0
    /\ LET dropped == scan.status # "none" /\ scan.level = depth
           hf == IF dropped THEN ExecutorMemoryFreed ELSE hfreed
       IN /\ PxfBridgeCancelCleanup(Fired({depth}, FALSE), TRUE, hf, {}, 0)
          /\ hfreed' = hf
          /\ scan' = IF dropped THEN NoScan ELSE scan
    /\ depth' = depth - 1
    /\ xact' = IF xact = "error" THEN "inprogress" ELSE xact
    /\ UNCHANGED <<handle, connected, owner, endAtAbort>>

Commit ==
    /\ xact = "inprogress"
    /\ xact' = "committing"
    /\ UNCHANGED <<depth, holdoff, handle, connected, hfreed, rec, owner,
                   remote, cancels, scan, fault, endpoint, endAtAbort>>

\* ROLLBACK, or the error recovery of the top-level transaction
\* (AbortTransaction starts with HOLD_INTERRUPTS).
Rollback ==
    /\ \/ xact = "inprogress"
       \/ xact = "error" /\ depth = 0
    /\ xact' = "aborting"
    /\ holdoff' = holdoff + 1
    /\ UNCHANGED <<depth, handle, connected, hfreed, rec, owner,
                   remote, cancels, scan, fault, endpoint, endAtAbort>>

\* PreCommit_Portals: a READY portal is shut down (ExecutorEnd ->
\* pxfEndForeignScan); a failed one is dropped without it.
PreCommitPortals ==
    /\ xact = "committing"
    /\ depth = 0
    /\ xact' = "commit_release"
    /\ \/ /\ scan.status = "ready"
          /\ PxfBridgeImportCleanup(FALSE)
          /\ UNCHANGED holdoff
       \/ /\ scan.status # "ready"
          /\ hfreed' = ExecutorMemoryFreed
          /\ scan' = NoScan
          /\ UNCHANGED <<holdoff, handle, rec, remote, cancels, fault, endpoint>>
    /\ UNCHANGED <<depth, connected, owner, endAtAbort>>

\* Top-level ResourceOwnerRelease with isCommit, then end of transaction.
CommitRelease ==
    /\ xact = "commit_release"
    /\ xact' = "idle"
    /\ PxfBridgeCancelCleanup(Fired({0}, TRUE), FALSE, hfreed, {}, 0)
    /\ UNCHANGED <<depth, handle, connected, hfreed, owner, scan, endAtAbort>>

\* AtAbort_Portals: on builds that shut down READY portals at abort, the
\* scan's ExecutorEnd runs pxfEndForeignScan while the abort is in
\* progress; otherwise (or for a failed portal) the executor memory is
\* released without it.
AtAbortPortals ==
    /\ xact = "aborting"
    /\ depth = 0
    /\ xact' = "abort_release"
    /\ \/ /\ scan.status = "ready" /\ endAtAbort
          /\ PxfBridgeImportCleanup(TRUE)
       \/ /\ ~(scan.status = "ready" /\ endAtAbort)
          /\ hfreed' = ExecutorMemoryFreed
          /\ scan' = NoScan
          /\ UNCHANGED <<holdoff, handle, rec, remote, cancels, fault, endpoint>>
    /\ UNCHANGED <<depth, connected, owner, endAtAbort>>

\* Top-level ResourceOwnerRelease of an abort, then RESUME_INTERRUPTS.
AbortRelease ==
    /\ xact = "abort_release"
    /\ xact' = "idle"
    /\ PxfBridgeCancelCleanup(Fired({0}, FALSE), TRUE, hfreed, {}, 1)
    /\ UNCHANGED <<depth, handle, connected, hfreed, owner, scan, endAtAbort>>

-----------------------------------------------------------------------------

Init ==
    /\ xact = "idle"
    /\ depth = 0
    /\ holdoff = 0
    /\ handle = [i \in Opens |-> "unused"]
    /\ connected = [i \in Opens |-> FALSE]
    /\ hfreed = [i \in Opens |-> FALSE]
    /\ rec = [i \in Opens |-> "unused"]
    /\ owner = [i \in Opens |-> 0]
    /\ remote = [i \in Opens |-> "none"]
    /\ cancels = [i \in Opens |-> 0]
    /\ scan = NoScan
    /\ fault = {}
    /\ endpoint = [i \in Opens |-> [read |-> NULL, proto |-> NULL, ssl |-> "none", cancel |-> NULL]]
    /\ endAtAbort \in BOOLEAN

Next ==
    \/ pxfBeginForeignScan
    \/ pxfReScanForeignScan
    \/ pxfIterateForeignScan
    \/ pxfEndForeignScan
    \/ ConnectionDrops
    \/ BeginTransaction
    \/ Savepoint
    \/ ExecutorError
    \/ CommitSubTransaction
    \/ AbortSubTransaction
    \/ Commit
    \/ Rollback
    \/ PreCommitPortals
    \/ CommitRelease
    \/ AtAbortPortals
    \/ AbortRelease

Spec == Init /\ [][Next]_vars

-----------------------------------------------------------------------------
(* Properties.                                                             *)

TypeOK ==
    /\ xact \in XactStates
    /\ depth \in Levels
    /\ holdoff \in Nat
    /\ handle \in [Opens -> {"unused", "open", "closed"}]
    /\ connected \in [Opens -> BOOLEAN]
    /\ hfreed \in [Opens -> BOOLEAN]
    /\ rec \in [Opens -> {"unused", "armed", "freed"}]
    /\ owner \in [Opens -> Levels]
    /\ remote \in [Opens -> {"none", "streaming", "finished", "dropped",
                              "cancelled", "closed"}]
    /\ cancels \in [Opens -> Nat]
    /\ scan \in [status : {"none", "ready", "failed"}, level : Levels,
                  cur : Opens \cup {NULL}, rec : Opens \cup {NULL}, eof : BOOLEAN]
    /\ fault \subseteq {"double_free", "use_after_free"}
    /\ endpoint \in [Opens -> [read : {"http", "https", NULL}, proto : Protocols \cup {NULL},
                               ssl : {"none", "live", "freed"},
                               cancel : [scheme : {"http", "https"}, ssl : {"none", "live", "freed"}] \cup {NULL}]]
    /\ endAtAbort \in BOOLEAN

\* A cancellation record registered by PxfBridgeImportStart never outlives
\* the (sub)transaction whose resource owner it was registered against:
\* once that owner is released (by RELEASE, ROLLBACK TO, COMMIT or ROLLBACK,
\* in any order and with or without the scan's own close),
\* PxfBridgeAbortCallback has unregistered it (no permanent registration
\* leak, spec 4.3a).
NoOrphanRegistration ==
    \A i \in Opens : rec[i] = "armed" => xact # "idle" /\ owner[i] <= depth

\* Outside an abort the backend's InterruptHoldoffCount is 0: a /cancel
\* request that fails inside PxfBridgeCancel does not leave interrupts held
\* off for the rest of the session (spec 4.3c, 9).
InterruptsRestored ==
    xact \in {"idle", "inprogress", "committing", "commit_release"} => holdoff = 0

\* No cleanup path touches memory that was already released: the
\* cancellation record is freed once, and the handle it watches is still
\* allocated whenever the callback reads it.
MemorySafe == fault = {}

\* Every /cancel PxfBridgeCancel sent for a transfer went over the scheme
\* the transfer was read over and, over https, carried TLS options the
\* record still owned: PxfBridgeCancel uses the record's own pstrdup'd
\* protocol and its own copy of the TLS options, not the transient TLS set
\* that PxfBridgeImportStart frees after the open (spec 3, 4.2 step 5, 8).
CancelMatchesTransfer ==
    \A i \in Opens : endpoint[i].cancel # NULL =>
        /\ endpoint[i].cancel.scheme = endpoint[i].read
        /\ endpoint[i].cancel.scheme = "https" => endpoint[i].cancel.ssl = "live"

\* The scan state's pointer to its cancellation record is either NULL or
\* points to a live record: a record disarmed by the callback is detectable
\* by the session's close path (spec 3, 4.2 close_read).
ScanRefValid ==
    scan.status # "none" /\ scan.rec # NULL => rec[scan.rec] = "armed"

\* At most one transport handle is open per scan session (spec 3).
AtMostOneTransport ==
    scan.status # "none" =>
        Cardinality({i \in Opens : handle[i] = "open" /\ ~hfreed[i]}) <= 1

\* Between transactions no remote transfer is still producing data unless
\* a /cancel was sent for it (spec 4.3: the service must be told to stop).
RemoteStopped ==
    xact = "idle" => \A i \in Opens : remote[i] \in Producing => cancels[i] > 0

\* The registrar implements its abstract specification (CancelRegistrar):
\* PxfBridgeImportStart registers each record once, and the session's close
\* and the resource-release callbacks together release it once, sending at
\* most one /cancel and only while releasing it (spec 3, 4.3).
RegOf == [i \in Opens |-> IF rec[i] = "freed" THEN "released" ELSE rec[i]]
Registrar == INSTANCE CancelRegistrar WITH Records <- Opens, reg <- RegOf, sent <- cancels
RegistrarRefined == Registrar!Spec


=============================================================================
