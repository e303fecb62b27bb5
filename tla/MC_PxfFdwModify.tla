--------------------------- MODULE MC_PxfFdwModify ---------------------------
(* Model values and symmetry for checking PxfFdwModify with TLC.           *)
EXTENDS PxfFdwModify, TLC

CONSTANTS u1, u2, u3

TwoUploads == {u1, u2}
ThreeUploads == {u1, u2, u3}

UploadsSymmetry == Permutations(Opens)
=============================================================================
