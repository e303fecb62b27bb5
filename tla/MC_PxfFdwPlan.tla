---------------------------- MODULE MC_PxfFdwPlan ----------------------------
EXTENDS PxfFdwPlan

=============================================================================
