--------------------------- MODULE MC_PxfExtBridge ---------------------------
EXTENDS PxfExtBridge, TLC

CONSTANTS o1, o2, o3

\* Three transport opens: a download and an upload in one transaction and
\* a download in the next.
ThreeOpens == {o1, o2, o3}

\* The opens are interchangeable model values; every property is safety.
OpensSymmetry == Permutations(ThreeOpens)

=============================================================================
