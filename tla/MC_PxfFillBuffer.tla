-------------------------- MODULE MC_PxfFillBuffer --------------------------
(* Checks PxfFillBuffer with TLC; the bounds are given in the .cfg files.  *)
EXTENDS PxfFillBuffer
=============================================================================
