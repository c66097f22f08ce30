---------------------------- MODULE GoalLifecycle ----------------------------
(***************************************************************************)
(* What one goal promises to whoever reads the colony's event log: the     *)
(* stream of its GoalStateChanged events.  A goal opens at step 1, climbs  *)
(* one step at a time within its budget, and concludes exactly once; after *)
(* the conclusion the stream is silent.  Nothing is said of how steps are  *)
(* decided (scripts, a gateway, a watchdog): GoalDriver, KernelLoop and    *)
(* the modules above them are shown to implement this contract.            *)
(*                                                                         *)
(* The events of one goal differ only in state, step and detail; the goal  *)
(* id, objective, max_steps and yolo fields are constant and left out; the  *)
(* empty detail is written "none".                                         *)
(***************************************************************************)
EXTENDS Naturals, Sequences

CONSTANTS
    Budgets,    \* the step budgets a goal may be given
    Reasons     \* what a blocked goal may say of itself

VARIABLES
    stream,     \* the GoalStateChanged events so far
    budget      \* the goal's max_steps

vars == <<stream, budget>>

Event(st, n, d) == [state |-> st, step |-> n, detail |-> d]

Latest == stream[Len(stream)]

\* The goal is still being worked on.
Open == Latest.state = "acting"

-----------------------------------------------------------------------------

Init ==
    /\ budget \in Budgets
    /\ stream = << Event("acting", 1, "none") >>

\* The in-flight step ended and another one fits in the budget.
NextStep ==
    /\ Open
    /\ Len(stream) < budget
    /\ stream' = Append(stream, Event("acting", Len(stream) + 1, "none"))
    /\ UNCHANGED budget

\* The in-flight step is the last one: the conclusion carries its number.
Conclude(st, d) ==
    /\ Open
    /\ stream' = Append(stream, Event(st, Len(stream), d))
    /\ UNCHANGED budget

Succeed == Conclude("done", "none")
ExhaustBudget == Len(stream) = budget /\ Conclude("done", "step budget reached")
Park == \E r \in Reasons : Conclude("blocked", r)
Stall == Conclude("failed", "stalled")

Next == NextStep \/ Succeed \/ ExhaustBudget \/ Park \/ Stall

Spec == Init /\ [][Next]_vars

\* A goal is never left hanging: "Never silently stall".
FairSpec == Spec /\ WF_vars(Next)

=============================================================================
