---------------------------- MODULE MCStepVerdict ----------------------------
(* Every reply of up to MaxTokens tokens, in every step of a goal.           *)
EXTENDS StepVerdict

=============================================================================
