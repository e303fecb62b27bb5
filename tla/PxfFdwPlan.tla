----------------------------- MODULE PxfFdwPlan -----------------------------
(***************************************************************************)
(* The plan-time state of a PXF foreign scan (src/fdw/pxf_fdw.c) and how   *)
(* the executor callbacks use it: pxfGetForeignPlan stores the WHERE       *)
(* clause text and the retrieved attributes in ForeignScan->fdw_private;   *)
(* pxfBeginForeignScan reads them; pxfEndForeignScan pfree()s the list.    *)
(*                                                                         *)
(* A plan belongs to the plan cache, not to one execution: a prepared      *)
(* statement, a PL/pgSQL query or EXPLAIN EXECUTE runs the same plan tree  *)
(* again without re-planning.  A segment (QE) receives a fresh copy of the *)
(* plan with every dispatch; the dispatcher (QD) runs the cached tree      *)
(* itself, where pxfBeginForeignScan reads fdw_private and then returns.   *)
(***************************************************************************)
EXTENDS Naturals

CONSTANTS
    Roles,      \* the backend roles explored: "dispatch" (QD), "execute" (QE)
    NULL

VARIABLES
    role,       \* Gp_role of the backend
    plan,       \* the ForeignScan plan: kind "none" | "oneshot" | "cached", and whether it ran
    priv,       \* ForeignScan->fdw_private: "nil", "valid" or "freed" (dangling)
    node,       \* the ForeignScanState: "idle", "explain" (EXPLAIN only) or "running"
    fdwState,   \* node->fdw_state: NULL or the scan state
    fault       \* accesses to released memory (history)

vars == <<role, plan, priv, node, fdwState, fault>>

NoPlan == [kind |-> "none", ran |-> FALSE]

\* The plans a backend can execute: the dispatcher plans the query once or
\* caches the plan; a segment only executes the copy dispatched to it.
PlanKinds == IF role = "dispatch" THEN {"oneshot", "cached"} ELSE {"oneshot"}

-----------------------------------------------------------------------------

\* pxfGetForeignPlan: fdw_private = list_make2(makeString(where clauses),
\* retrieved_attrs) is stored in the new ForeignScan node.
pxfGetForeignPlan == priv' = "valid"

\* The planner (pxfGetForeignRelSize, pxfGetForeignPaths, pxfGetForeignPlan)
\* or, on a segment, the receipt of the dispatched plan.
PlanQuery ==
    /\ plan.kind = "none" /\ node = "idle"
    /\ \E k \in PlanKinds : plan' = [kind |-> k, ran |-> FALSE]
    /\ pxfGetForeignPlan
    /\ UNCHANGED <<role, node, fdwState, fault>>

\* pxfBeginForeignScan: returns at once under EXPLAIN (no ANALYZE); else
\* reads fdw_private (list_nth twice), returns on the dispatcher, and on a
\* segment builds the scan state (InitCopyState, modelled in PxfFdwScan).
pxfBeginForeignScan ==
    /\ node = "idle"
    /\ plan.kind # "none" /\ (plan.kind = "cached" \/ ~plan.ran)
    /\ plan' = [plan EXCEPT !.ran = TRUE]
    /\ \E explainOnly \in BOOLEAN :
         /\ node' = IF explainOnly THEN "explain" ELSE "running"
         /\ fault' = IF ~explainOnly /\ priv = "freed" THEN fault \cup {"read_freed"} ELSE fault
         /\ fdwState' = IF explainOnly \/ role = "dispatch" THEN NULL ELSE "scan"
    /\ UNCHANGED <<role, priv>>

\* pxfEndForeignScan: pfree(foreignScan->fdw_private) whenever the pointer
\* is not NIL (it is never reset), then EndCopyFrom and
\* PxfBridgeImportCleanup of the scan state if there is one.
pxfEndForeignScan ==
    /\ node # "idle"
    /\ priv' = IF priv = "nil" THEN "nil" ELSE "freed"
    /\ fault' = IF priv = "freed" THEN fault \cup {"double_free"} ELSE fault
    /\ fdwState' = NULL
    /\ node' = "idle"
    /\ UNCHANGED <<role, plan>>

\* The plan is released: a one-shot plan with its portal, a cached plan on
\* DEALLOCATE or invalidation.  Its memory, fdw_private included, goes.
DropPlan ==
    /\ plan.kind # "none" /\ node = "idle"
    /\ plan' = NoPlan
    /\ priv' = "nil"
    /\ UNCHANGED <<role, node, fdwState, fault>>

Init ==
    /\ role \in Roles
    /\ plan = NoPlan
    /\ priv = "nil"
    /\ node = "idle"
    /\ fdwState = NULL
    /\ fault = {}

Next == PlanQuery \/ pxfBeginForeignScan \/ pxfEndForeignScan \/ DropPlan

Spec == Init /\ [][Next]_vars

-----------------------------------------------------------------------------

\* pxfBeginForeignScan reads, and pxfEndForeignScan frees, the plan's
\* fdw_private only while it is allocated, however often a cached plan is
\* executed or explained.
PlanPrivateLive == fault = {}

=============================================================================
