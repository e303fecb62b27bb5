--------------------------- MODULE CancelRegistrar ---------------------------
(***************************************************************************)
(* What the cancellation registrar of a read session promises (spec 3,     *)
(* 4.3): each Cancellation Record is registered once, when its session     *)
(* opens, and released once, either by the session's close or by the      *)
(* transaction scope it is registered against; the remote service gets at *)
(* most one /cancel for it, and only as part of that release.  A release  *)
(* may cover several records at once (one resource-owner release).         *)
(***************************************************************************)
EXTENDS Naturals

CONSTANT Records

VARIABLES
    reg,    \* [Records -> "unused" | "armed" | "released"]
    sent    \* [Records -> number of /cancel requests sent for the record]

vars == <<reg, sent>>

Init ==
    /\ reg = [r \in Records |-> "unused"]
    /\ sent = [r \in Records |-> 0]

Register(r) ==
    /\ reg[r] = "unused"
    /\ reg' = [reg EXCEPT ![r] = "armed"]
    /\ UNCHANGED sent

\* The records R are released together; those in C get their one /cancel.
Release(R, C) ==
    /\ R # {}
    /\ \A r \in R : reg[r] = "armed"
    /\ C \subseteq R
    /\ reg' = [r \in Records |-> IF r \in R THEN "released" ELSE reg[r]]
    /\ sent' = [r \in Records |-> IF r \in C THEN sent[r] + 1 ELSE sent[r]]

Next ==
    \/ \E r \in Records : Register(r)
    \/ \E R \in SUBSET Records : \E C \in SUBSET R : Release(R, C)

Spec == Init /\ [][Next]_vars

=============================================================================
