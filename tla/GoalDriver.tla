----------------------------- MODULE GoalDriver ------------------------------
(***************************************************************************)
(* The goal driver of agent-core/src/goal.rs: GoalDriver::start, advance   *)
(* and the state that poll shows the inference.  The driver does no I/O;   *)
(* every transition is emitted as a GoalStateChanged event, and `uart` is  *)
(* the sequence of those the kernel has printed.                           *)
(*                                                                         *)
(* As a specification of its own (Spec) the environment is any caller of   *)
(* the public interface: it may report any turn result at any time, also   *)
(* to a goal that has already concluded.                                   *)
(***************************************************************************)
EXTENDS Naturals, Sequences

CONSTANTS
    MaxStepsArgs,   \* the max_steps arguments a caller of start may pass
    MaxStepsCeil,   \* MAX_STEPS_CEIL
    Texts,          \* steers and reasons the turn engine may report
    NoText          \* Option::None

ASSUME BudgetAssumption ==
    /\ MaxStepsArgs \subseteq Nat
    /\ MaxStepsCeil \in Nat \ {0}

ASSUME TextAssumption == NoText \notin Texts

VARIABLES
    state,      \* GoalState
    step,       \* the in-flight step, 1-indexed
    maxSteps,   \* max_steps after the clamp
    steer,      \* what the next directive carries from the last verdict
    uart        \* the GoalStateChanged events emitted so far

driverVars == <<state, step, maxSteps, steer, uart>>

GoalStates == {"acting", "done", "blocked", "failed"}

-----------------------------------------------------------------------------
(* Turn results: what an inference reports of the in-flight turn.          *)

TurnKinds == {"pending", "stalled", "done", "blocked", "continue"}

Pending == [kind |-> "pending", text |-> NoText]
Stalled == [kind |-> "stalled", text |-> NoText]
DoneVerdict == [kind |-> "done", text |-> NoText]
BlockedVerdict(reason) == [kind |-> "blocked", text |-> reason]
ContinueVerdict(s) == [kind |-> "continue", text |-> s]

TurnResults ==
    {Pending, Stalled, DoneVerdict}
        \union {BlockedVerdict(r) : r \in Texts}
        \union {ContinueVerdict(s) : s \in Texts \union {NoText}}

-----------------------------------------------------------------------------
(* The driver.                                                             *)

\* Mutant of Clamp: `min` instead of `clamp`.
ClampUpperOnly(n) == IF n > MaxStepsCeil THEN MaxStepsCeil ELSE n

\* u32::clamp(1, MAX_STEPS_CEIL)
Clamp(n) == IF n < 1 THEN 1 ELSE IF n > MaxStepsCeil THEN MaxStepsCeil ELSE n

Event(st, n, d) == [state |-> st, step |-> n, detail |-> d]

Start ==
    /\ maxSteps \in {Clamp(n) : n \in MaxStepsArgs}
    /\ state = "acting"
    /\ step = 1
    /\ steer = NoText
    /\ uart = << Event("acting", 1, "none") >>

\* Mutant of Acting: a goal that concluded is advanced again.
ActingAlways == state \in GoalStates

Acting == state = "acting"

\* self.state = st and the emit that follows it.
Finish(st, detail) ==
    /\ state' = st
    /\ steer' = NoText
    /\ uart' = Append(uart, Event(st, step, detail))
    /\ UNCHANGED <<step, maxSteps>>

\* Mutants: a verdict without a steer leaves the old one; `>` for `>=`.
NextSteerKept(s) == IF s = NoText THEN steer ELSE s
BudgetSpentLate == step > maxSteps

\* What Verdict::Continue emits, what it leaves for the next directive, and
\* whether the in-flight step was the last.
Opened == Event(state, step + 1, "none")
NextSteer(s) == s
BudgetSpent == step >= maxSteps

\* Verdict::Continue within the budget.
NextStep(s) ==
    /\ step' = step + 1
    /\ steer' = NextSteer(s)
    /\ uart' = Append(uart, Opened)
    /\ UNCHANGED <<state, maxSteps>>

\* Verdict::Continue: exhausting the budget is completion, not failure.
Continue(s) ==
    \/ BudgetSpent /\ Finish("done", "step budget reached")
    \/ ~BudgetSpent /\ NextStep(s)

\* A goal that left Acting ignores the call; a pending turn changes nothing.
Advance(result) ==
    \/ /\ ~Acting \/ result.kind = "pending"
       /\ UNCHANGED driverVars
    \/ /\ Acting
       /\ \/ result.kind = "stalled" /\ Finish("failed", "stalled")
          \/ result.kind = "done" /\ Finish("done", "none")
          \/ result.kind = "blocked" /\ Finish("blocked", result.text)
          \/ result.kind = "continue" /\ Continue(result.text)

DriverNext == \E result \in TurnResults : Advance(result)

DriverSpec == Start /\ [][DriverNext]_driverVars

-----------------------------------------------------------------------------
(* Properties.                                                             *)

Details == Texts \union {"none", "stalled", "step budget reached"}

\* The fields of GoalDriver and the emitted GoalStateChanged events have
\* their types, and the budget survived the clamp of GoalDriver::start.
DriverTypeOK ==
    /\ state \in GoalStates
    /\ maxSteps \in 1..MaxStepsCeil
    /\ step \in 1..maxSteps
    /\ steer \in Texts \union {NoText}
    /\ uart \in Seq([state : GoalStates, step : Nat, detail : Details])
    /\ uart # << >>

\* The driver's own state can be rebuilt from the log alone: the last event
\* carries the current state and step, the event that opened step i is the
\* i-th, and one event more concludes the goal, also when it is advanced again
\* after that.  (emit_state is called after the fields are assigned; a reader
\* of the log sees no step skipped, repeated or late, and no second conclusion.)
LogTracksDriver ==
    /\ uart[Len(uart)].state = state
    /\ uart[Len(uart)].step = step
    /\ Len(uart) = IF state = "acting" THEN step ELSE step + 1
    /\ \A i \in 1..step : uart[i] = Event("acting", i, "none")

\* The abstract goal lifecycle, read off the event log.
Lifecycle == INSTANCE GoalLifecycle WITH
                 stream <- uart,
                 budget <- maxSteps,
                 Budgets <- 1..MaxStepsCeil,
                 Reasons <- Texts

\* Every run of the driver, whatever its callers report, produces an event
\* stream that the goal lifecycle allows.
ImplementsLifecycle == Lifecycle!Spec

=============================================================================
