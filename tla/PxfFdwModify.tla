---------------------------- MODULE PxfFdwModify ----------------------------
(***************************************************************************)
(* The write side of the PXF foreign-data wrapper (src/fdw): one backend   *)
(* process running INSERT (ModifyTable: Begin/EndForeignModify) or COPY    *)
(* FROM (Begin/EndForeignInsert) into a foreign table.  The bridge session *)
(* (PxfFdwModifyState, stored in resultRelInfo->ri_FdwState) owns one      *)
(* streaming upload; every row is formatted into the COPY buffer           *)
(* (cstate->fe_msgbuf), pushed with PxfBridgeWrite and the buffer reset.   *)
(*                                                                         *)
(* Rows are the numbers 1..MaxRows in the order the executor produces     *)
(* them; the remote object of upload i is the sequence of what it         *)
(* received, where a row written short appears as Partial(r).  Uploads    *)
(* are identified by elements of Opens, never reused.                      *)
(***************************************************************************)
EXTENDS Naturals, Sequences, FiniteSets

CONSTANTS
    Opens,          \* identifiers of upload opens (bounds the number of opens)
    MaxRows,        \* rows the executor produces in the whole behaviour
    ShortWrites,    \* may churl_write accept fewer bytes than asked (unhealthy connection)?
    NULL            \* a null pointer

ASSUME MaxRows \in Nat /\ ShortWrites \in BOOLEAN /\ NULL \notin Opens

VARIABLES
    stmt,       \* the statement the executor runs: "none", "insert", "copy", "explain"
    phase,      \* "begin" (before the Begin callback), "run", or "none"
    fdwState,   \* resultRelInfo->ri_FdwState: NULL or the modify state of upload i
    upload,     \* [Opens -> state of the churl upload handle]
    buf,        \* cstate->fe_msgbuf of the live modify state: rows not yet reset
    received,   \* [Opens -> Seq(what the remote object holds)]
    inserted,   \* [Opens -> Seq(rows the executor was told were inserted through i)]
    row,        \* rows produced so far
    onMaster    \* Gp_role == GP_ROLE_DISPATCH for an ALL SEGMENTS table

vars == <<stmt, phase, fdwState, upload, buf, received, inserted, row, onMaster>>

Rows == 1..MaxRows
\* A row as the remote object holds it: whole, or cut short by a write.
Line(r) == [row |-> r, whole |-> TRUE]
Partial(r) == [row |-> r, whole |-> FALSE]

-----------------------------------------------------------------------------
(* Bridge and modify-state operations (src/fdw/pxf_bridge.c, pxf_fdw.c).   *)

\* PxfBridgeExportStart: build the URI and headers and open upload i
\* (the resulting upload states).
PxfBridgeExportStart(up, i) == [up EXCEPT ![i] = "open"]

\* InitCopyStateForModify: the export start, then BeginCopyTo with a fresh,
\* empty fe_msgbuf (the buffer is the second component).
InitCopyStateForModify(up, i) == <<PxfBridgeExportStart(up, i), <<>>>>

\* InitForeignModify: on the master of an ALL SEGMENTS table no state is
\* created and NULL is returned; otherwise the new modify state, whose
\* upload is i.
InitForeignModify(i) == IF onMaster THEN NULL ELSE i

Fresh == {i \in Opens : upload[i] = "unused"}

\* PxfBridgeWrite with datalen > 0: what churl_write accepts of the buffer,
\* "full" or "short" ((int) n with 0 < n < datalen), or "failed" (-1).
WriteOutcomes == IF ShortWrites THEN {"full", "short", "failed"} ELSE {"full", "failed"}

\* What the remote object of an upload receives for a write of b.
Delivered(b, w) == IF w = "full" THEN b ELSE <<Partial(b[1].row)>>

\* Mutant: the buffer is not reset after a write.
ResetKept(b) == b

\* `cstate->fe_msgbuf->len = 0` after the row is written.
ResetBuffer(b) == <<>>

\* PxfBridgeCleanup: churl_cleanup and churl_headers_cleanup of the upload.
PxfBridgeCleanup(i) == upload' = [upload EXCEPT ![i] = "closed"]

\* Mutant: the state's transport is not released at the end.
FinishForeignModifyNoCleanup(st) == UNCHANGED upload

\* FinishForeignModify: nothing for a NULL state; otherwise EndCopyFrom and
\* PxfBridgeCleanup.  ri_FdwState is left pointing at the state.
FinishForeignModify(st) ==
    IF st = NULL THEN UNCHANGED upload ELSE PxfBridgeCleanup(st)

-----------------------------------------------------------------------------
(* Executor callbacks (src/fdw/pxf_fdw.c).                                 *)

\* The executor starts a statement on the foreign table.
StartStatement ==
    /\ stmt = "none"
    /\ \E k \in {"insert", "copy", "explain"} : stmt' = k
    /\ phase' = "begin"
    /\ fdwState' = NULL
    /\ UNCHANGED <<upload, buf, received, inserted, row, onMaster>>

\* pxfBeginForeignInsert (COPY FROM): nothing; the upload is opened lazily.
pxfBeginForeignInsert ==
    /\ stmt = "copy" /\ phase = "begin"
    /\ phase' = "run"
    /\ UNCHANGED <<stmt, fdwState, upload, buf, received, inserted, row, onMaster>>

\* pxfBeginForeignModify: returns at once under EXPLAIN; otherwise creates
\* the modify state if ri_FdwState is not set yet.
pxfBeginForeignModify ==
    /\ stmt \in {"insert", "explain"} /\ phase = "begin"
    /\ phase' = "run"
    /\ \/ /\ stmt = "explain" \/ fdwState # NULL
          /\ UNCHANGED <<fdwState, upload, buf>>
       \/ /\ stmt # "explain" /\ fdwState = NULL
          /\ \E i \in Fresh :
               LET st == InitForeignModify(i)
                   init == InitCopyStateForModify(upload, i)
               IN /\ fdwState' = st
                  /\ upload' = IF st = NULL THEN upload ELSE init[1]
                  /\ buf' = IF st = NULL THEN buf ELSE init[2]
    /\ UNCHANGED <<stmt, received, inserted, row, onMaster>>

\* pxfExecForeignInsert: create the state on the first call if needed (and
\* return at once if there is none), format row r into fe_msgbuf
\* (CopyOneRowTo, CopySendEndOfRow), write the buffer, raise ERROR only when
\* -1 is returned, then reset the buffer.  An ERROR aborts the statement and
\* abandons the upload (no cleanup runs for the write path).
pxfExecForeignInsert ==
    /\ stmt \in {"insert", "copy"} /\ phase = "run"
    /\ row < MaxRows
    /\ row' = row + 1
    /\ \E i \in IF fdwState = NULL THEN Fresh ELSE {fdwState} :
         LET new  == fdwState = NULL
             st   == IF new THEN InitForeignModify(i) ELSE fdwState
             init == InitCopyStateForModify(upload, i)
             up   == IF new /\ st # NULL THEN init[1] ELSE upload
             b    == Append(IF new THEN init[2] ELSE buf, Line(row + 1))
         IN \/ /\ st = NULL
               /\ UNCHANGED <<fdwState, upload, buf, received, inserted, stmt, phase>>
            \/ /\ st # NULL
               /\ \E w \in WriteOutcomes :
                    \/ /\ w = "failed"
                       /\ received' = [received EXCEPT ![st] = @ \o <<Partial(row + 1)>>]
                       /\ upload' = [up EXCEPT ![st] = "abandoned"]
                       /\ stmt' = "none" /\ phase' = "none" /\ fdwState' = NULL
                       /\ UNCHANGED <<buf, inserted>>
                    \/ /\ w # "failed"
                       /\ received' = [received EXCEPT ![st] = @ \o Delivered(b, w)]
                       /\ inserted' = [inserted EXCEPT ![st] = Append(@, Line(row + 1))]
                       /\ upload' = up
                       /\ buf' = ResetBuffer(b)
                       /\ fdwState' = st
                       /\ UNCHANGED <<stmt, phase>>
    /\ UNCHANGED onMaster

\* pxfEndForeignModify (INSERT, EXPLAIN): FinishForeignModify(ri_FdwState).
pxfEndForeignModify ==
    /\ stmt \in {"insert", "explain"} /\ phase = "run"
    /\ FinishForeignModify(fdwState)
    /\ stmt' = "none" /\ phase' = "none"
    /\ UNCHANGED <<fdwState, buf, received, inserted, row, onMaster>>

\* pxfEndForeignInsert (COPY FROM): FinishForeignModify(ri_FdwState).
pxfEndForeignInsert ==
    /\ stmt = "copy" /\ phase = "run"
    /\ FinishForeignModify(fdwState)
    /\ stmt' = "none" /\ phase' = "none"
    /\ UNCHANGED <<fdwState, buf, received, inserted, row, onMaster>>

\* An ERROR raised elsewhere in the statement (a bad input row, a query
\* cancel): the statement aborts and its upload, if any, is abandoned.
StatementError ==
    /\ stmt # "none"
    /\ upload' = IF fdwState = NULL THEN upload
                  ELSE [upload EXCEPT ![fdwState] = "abandoned"]
    /\ stmt' = "none" /\ phase' = "none" /\ fdwState' = NULL
    /\ UNCHANGED <<buf, received, inserted, row, onMaster>>

-----------------------------------------------------------------------------

Init ==
    /\ stmt = "none"
    /\ phase = "none"
    /\ fdwState = NULL
    /\ upload = [i \in Opens |-> "unused"]
    /\ buf = <<>>
    /\ received = [i \in Opens |-> <<>>]
    /\ inserted = [i \in Opens |-> <<>>]
    /\ row = 0
    /\ onMaster \in BOOLEAN

Next ==
    \/ StartStatement
    \/ pxfBeginForeignInsert
    \/ pxfBeginForeignModify
    \/ pxfExecForeignInsert
    \/ pxfEndForeignModify
    \/ pxfEndForeignInsert
    \/ StatementError

Spec == Init /\ [][Next]_vars

-----------------------------------------------------------------------------
(* Properties.                                                             *)

\* Every remote object holds exactly the rows pxfExecForeignInsert reported
\* as inserted through it, once each and in order, as long as no write
\* failed: rows reach the service neither lost, cut short, nor twice
\* (spec 4.5: a write returning fewer bytes than requested is fatal).
StreamFaithful ==
    \A i \in Opens : upload[i] # "abandoned" => received[i] = inserted[i]

\* Between statements no upload of the backend is still open unless its
\* statement failed: every upload a statement opened is released by its
\* End callback (spec 3: one transport handle per session, released once).
UploadsReleased ==
    stmt = "none" => \A i \in Opens : upload[i] # "open"

=============================================================================
