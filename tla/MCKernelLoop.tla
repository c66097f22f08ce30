---------------------------- MODULE MCKernelLoop -----------------------------
(* drive_goal over an inference that answers anything, or panics, at every  *)
(* poll.  AwakeTicks = 1 lets a tick fall between any two clock reads.      *)
EXTENDS KernelLoop

CONSTANTS t1

=============================================================================
