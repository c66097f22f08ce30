----------------------------- MODULE MCBootFlow ------------------------------
(* Every set of the kernel's six features.                                   *)
EXTENDS BootFlow

CONSTANT t1

MCFeatures ==
    SUBSET {"net-smoke", "mesh-smoke", "mesh-goal", "tiny-heap", "panic-test", "fail-script"}

=============================================================================
