--------------------------- MODULE MCScriptedGoal ----------------------------
(* Every transcript of at most MaxLen entries, SCRIPT_SUCCESS, SCRIPT_STALL *)
(* and SCRIPT_HANG of goal.rs among them, under every budget up to 3.       *)
EXTENDS ScriptedGoal

CONSTANTS t1, MaxLen

MCScripts == UNION {[1..n -> TurnResults] : n \in 0..MaxLen}

=============================================================================
