------------------------------ MODULE MCNetSmoke -----------------------------
(* Two slots with every population; two pages, so that a second driver       *)
(* finds what a failed one has leaked gone.  Two receive buffers for three   *)
(* packets: one is used again.  A PING of two bytes, cut anywhere.           *)
EXTENDS NetSmoke

=============================================================================
