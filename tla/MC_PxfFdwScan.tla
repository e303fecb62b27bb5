--------------------------- MODULE MC_PxfFdwScan ---------------------------
(* Model-checking instance of PxfFdwScan: transport opens are model values *)
(* (interchangeable, hence a symmetry set).                                *)
EXTENDS PxfFdwScan, TLC

CONSTANTS o1, o2, o3

\* Two opens: one scan per transaction over two transactions, or a scan
\* and one rescan.
TwoOpens == {o1, o2}
\* Three opens: enough for a scan rescanned twice, or a scan and a rescan
\* followed by a second scan.
ThreeOpens == {o1, o2, o3}

OpensSymmetry == Permutations(Opens)
=============================================================================
