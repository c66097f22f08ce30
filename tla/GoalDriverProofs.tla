-------------------------- MODULE GoalDriverProofs ---------------------------
(***************************************************************************)
(* The goal driver, for every budget, ceiling and set of texts: its types, *)
(* the agreement of its fields with the log it emitted, and that the log   *)
(* is one the goal lifecycle allows.  The lemmas on Advance are also what  *)
(* KernelLoopProofs rests on.                                              *)
(***************************************************************************)
EXTENDS GoalDriver, TLAPS

Events == [state : GoalStates, step : Nat, detail : Details]

DriverInv == DriverTypeOK /\ LogTracksDriver

-----------------------------------------------------------------------------

\* max_steps.clamp(1, MAX_STEPS_CEIL) of any argument is a usable budget.
LEMMA ClampRange ==
    ASSUME NEW n \in MaxStepsArgs
    PROVE  Clamp(n) \in 1..MaxStepsCeil
BY BudgetAssumption DEF Clamp

\* GoalDriver::start leaves the driver in agreement with the event it emitted.
LEMMA StartDriverInv == Start => DriverInv
<1> SUFFICES ASSUME Start PROVE DriverInv
    OBVIOUS
<1> DEFINE e == Event("acting", 1, "none")
<1>1. maxSteps \in 1..MaxStepsCeil
    BY ClampRange DEF Start
<1>2. e \in Events
    BY DEF Event, Events, GoalStates, Details
<1>3. uart = <<e>> /\ uart \in Seq(Events) /\ Len(uart) = 1 /\ uart[1] = e
    BY <1>2 DEF Start
<1>4. step \in 1..maxSteps
    BY <1>1, BudgetAssumption DEF Start
<1>5. DriverTypeOK
    BY <1>1, <1>3, <1>4 DEF Start, DriverTypeOK, GoalStates, Events
<1>6. LogTracksDriver
    BY <1>3 DEF Start, LogTracksDriver, Event, Acting
<1> QED
    BY <1>5, <1>6 DEF DriverInv

\* Every event of the invariant's log is one of Events, and there are as many
\* as LogTracksDriver says.
LEMMA LogFacts ==
    ASSUME DriverInv
    PROVE  /\ uart \in Seq(Events)
           /\ step \in Nat \ {0}
           /\ maxSteps \in Nat \ {0}
           /\ step <= maxSteps
           /\ Len(uart) \in Nat \ {0}
           /\ Acting => Len(uart) = step
BY BudgetAssumption DEF DriverInv, DriverTypeOK, LogTracksDriver, Events, Acting

\* What appending one event does to the log.
LEMMA AppendLog ==
    ASSUME NEW s \in Seq(Events), NEW e \in Events
    PROVE  /\ Append(s, e) \in Seq(Events)
           /\ Len(Append(s, e)) = Len(s) + 1
           /\ Append(s, e)[Len(s) + 1] = e
           /\ \A i \in 1..Len(s) : Append(s, e)[i] = s[i]
           /\ Append(s, e) # <<>>
OBVIOUS

\* The conclusion of a goal in progress: one event more, of the same step.
LEMMA FinishDriverInv ==
    ASSUME DriverInv, Acting,
           NEW st \in GoalStates \ {"acting"}, NEW d \in Details,
           Finish(st, d)
    PROVE  DriverInv'
<1> DEFINE e == Event(st, step, d)
<1>1. /\ uart \in Seq(Events)
      /\ step \in Nat \ {0}
      /\ Len(uart) = step
    BY LogFacts
<1>2. e \in Events
    BY <1>1 DEF Event, Events
<1>3. /\ uart' \in Seq(Events) /\ uart' # <<>>
      /\ Len(uart') = step + 1
      /\ uart'[step + 1] = e
      /\ \A i \in 1..step : uart'[i] = uart[i]
    BY <1>1, <1>2, AppendLog DEF Finish
<1>4. DriverTypeOK'
    BY <1>3 DEF Finish, Events, DriverInv, DriverTypeOK
<1>5. state' = st /\ step' = step /\ ~Acting'
    BY DEF Finish, Acting
<1>6. LogTracksDriver'
    BY <1>1, <1>3, <1>5 DEF DriverInv, LogTracksDriver, Event
<1> QED
    BY <1>4, <1>6 DEF DriverInv

\* A Continue within the budget: one event more, of the next step.
LEMMA NextStepDriverInv ==
    ASSUME DriverInv, Acting, step < maxSteps,
           NEW s \in Texts \union {NoText},
           NextStep(s)
    PROVE  DriverInv'
<1> DEFINE e == Event(state, step + 1, "none")
<1>1. /\ uart \in Seq(Events)
      /\ step \in Nat \ {0}
      /\ Len(uart) = step
      /\ maxSteps \in Nat
    BY LogFacts
<1>2. e \in Events
    <2>1. state \in GoalStates
        BY DEF DriverInv, DriverTypeOK
    <2>2. "none" \in Details
        BY DEF Details
    <2>3. step + 1 \in Nat
        BY <1>1
    <2> QED
        BY <2>1, <2>2, <2>3 DEF Event, Events
<1>3. /\ uart' \in Seq(Events) /\ uart' # <<>>
      /\ Len(uart') = step + 1
      /\ uart'[step + 1] = e
      /\ \A i \in 1..step : uart'[i] = uart[i]
    BY <1>1, <1>2, AppendLog DEF NextStep, Opened, NextSteer
<1>4. step' \in 1..maxSteps'
    BY <1>1 DEF NextStep, Opened, NextSteer
<1>5. DriverTypeOK'
    BY <1>3, <1>4, <1>1 DEF NextStep, Opened, NextSteer, Events, DriverInv, DriverTypeOK
<1>6. state' = state /\ step' = step + 1 /\ state = "acting" /\ Acting'
    BY DEF NextStep, Opened, NextSteer, Acting
<1>7. LogTracksDriver'
    BY <1>1, <1>3, <1>6 DEF DriverInv, LogTracksDriver, Event
<1> QED
    BY <1>5, <1>7 DEF DriverInv

\* What a verdict's text can be, and the details of a conclusion.
LEMMA TurnResultTexts ==
    ASSUME NEW result \in TurnResults
    PROVE  /\ result.kind = "blocked" => result.text \in Texts
           /\ result.kind = "continue" => result.text \in Texts \union {NoText}
           /\ result.kind \in TurnKinds
BY DEF TurnResults, TurnKinds, Pending, Stalled, DoneVerdict, BlockedVerdict, ContinueVerdict

\* The alternatives of GoalDriver::advance.
LEMMA AdvanceCases ==
    ASSUME NEW result \in TurnResults, Advance(result), DriverInv
    PROVE  \/ UNCHANGED driverVars
           \/ /\ Acting
              /\ \/ Finish("failed", "stalled")
                 \/ Finish("done", "none")
                 \/ result.text \in Texts /\ Finish("blocked", result.text)
                 \/ step = maxSteps /\ Finish("done", "step budget reached")
                 \/ /\ step < maxSteps
                    /\ result.text \in Texts \union {NoText}
                    /\ NextStep(result.text)
<1>1. CASE ~Acting \/ result.kind = "pending"
    BY <1>1 DEF Advance
<1>2. CASE Acting /\ result.kind = "continue"
    <2>1. step \in Nat /\ maxSteps \in Nat /\ step <= maxSteps
        BY LogFacts
    <2>2. result.text \in Texts \union {NoText}
        BY <1>2, TurnResultTexts
    <2>3. Continue(result.text)
        BY <1>2 DEF Advance
    <2>4. IF BudgetSpent THEN step = maxSteps ELSE step < maxSteps
        BY <2>1 DEF BudgetSpent
    <2> QED
        BY <1>2, <2>2, <2>3, <2>4 DEF Continue
<1>3. CASE Acting /\ result.kind = "blocked"
    BY <1>3, TurnResultTexts DEF Advance
<1>4. CASE Acting /\ result.kind \in {"stalled", "done"}
    BY <1>4 DEF Advance
<1> QED
    BY <1>1, <1>2, <1>3, <1>4, TurnResultTexts DEF TurnKinds

\* GoalDriver::advance keeps the driver and its log in agreement, whatever
\* result it is given and whatever state the goal is in.
LEMMA AdvanceDriverInv ==
    ASSUME DriverInv, NEW result \in TurnResults, Advance(result)
    PROVE  DriverInv'
<1>1. CASE UNCHANGED driverVars
    BY <1>1 DEF driverVars, DriverInv, DriverTypeOK, LogTracksDriver, Acting
<1> DEFINE Concluding == GoalStates \ {"acting"}
<1>2. /\ {"failed", "done", "blocked"} \subseteq Concluding
      /\ {"none", "stalled", "step budget reached"} \subseteq Details
      /\ Texts \subseteq Details
    BY DEF GoalStates, Details
<1>3. CASE Acting /\ Finish("failed", "stalled")
    BY <1>2, <1>3, FinishDriverInv
<1>4. CASE Acting /\ Finish("done", "none")
    BY <1>2, <1>4, FinishDriverInv
<1>5. CASE Acting /\ result.text \in Texts /\ Finish("blocked", result.text)
    BY <1>2, <1>5, FinishDriverInv
<1>6. CASE Acting /\ Finish("done", "step budget reached")
    BY <1>2, <1>6, FinishDriverInv
<1>7. CASE /\ Acting /\ step < maxSteps
           /\ result.text \in Texts \union {NoText}
           /\ NextStep(result.text)
    BY <1>7, NextStepDriverInv
<1> QED
    BY <1>1, <1>3, <1>4, <1>5, <1>6, <1>7, AdvanceCases

-----------------------------------------------------------------------------
(* The driver on its own.                                                  *)

\* The fields of the driver and of the events it emits have their types, and
\* they agree, in every reachable state and for every caller (goal.rs:85-163).
THEOREM DriverInvariant == DriverSpec => [](DriverTypeOK /\ LogTracksDriver)
<1>1. Start => DriverInv
    BY StartDriverInv
<1>2. DriverInv /\ [DriverNext]_driverVars => DriverInv'
    <2> SUFFICES ASSUME DriverInv, [DriverNext]_driverVars
                 PROVE  DriverInv'
        OBVIOUS
    <2>1. CASE UNCHANGED driverVars
        BY <2>1 DEF driverVars, DriverInv, DriverTypeOK, LogTracksDriver, Acting
    <2>2. CASE DriverNext
        BY <2>2, AdvanceDriverInv DEF DriverNext
    <2> QED
        BY <2>1, <2>2
<1> QED
    BY <1>1, <1>2, PTL DEF DriverSpec, DriverInv

-----------------------------------------------------------------------------
(* The driver implements the goal lifecycle.                               *)

\* The first event of the log is the first of the lifecycle.
LEMMA StartOpensLifecycle == Start => Lifecycle!Init
<1> SUFFICES ASSUME Start PROVE Lifecycle!Init
    OBVIOUS
<1>1. maxSteps \in 1..MaxStepsCeil
    BY ClampRange DEF Start
<1> QED
    BY <1>1 DEF Start, Lifecycle!Init, Event, Lifecycle!Event

\* Every advance is a step of the lifecycle, or changes neither log nor budget.
LEMMA AdvanceLifecycle ==
    ASSUME DriverInv, NEW result \in TurnResults, Advance(result)
    PROVE  [Lifecycle!Next]_Lifecycle!vars
<1> USE DEF Lifecycle!vars
<1>1. CASE UNCHANGED driverVars
    BY <1>1 DEF driverVars
<1>2. Acting => /\ Len(uart) = step /\ Lifecycle!Open
                /\ step \in Nat /\ maxSteps \in Nat
    BY LogFacts DEF DriverInv, LogTracksDriver, Lifecycle!Open, Lifecycle!Latest, Acting
<1> USE DEF Lifecycle!Next, Lifecycle!Conclude, Finish, Event, Lifecycle!Event
<1>3. CASE Acting /\ Finish("failed", "stalled")
    BY <1>2, <1>3 DEF Lifecycle!Stall
<1>4. CASE Acting /\ Finish("done", "none")
    BY <1>2, <1>4 DEF Lifecycle!Succeed
<1>5. CASE Acting /\ result.text \in Texts /\ Finish("blocked", result.text)
    BY <1>2, <1>5 DEF Lifecycle!Park
<1>6. CASE Acting /\ step = maxSteps /\ Finish("done", "step budget reached")
    BY <1>2, <1>6 DEF Lifecycle!ExhaustBudget
<1>7. CASE Acting /\ step < maxSteps /\ NextStep(result.text)
    BY <1>2, <1>7 DEF Lifecycle!NextStep, NextStep, Opened, Acting
<1> QED
    BY <1>1, <1>3, <1>4, <1>5, <1>6, <1>7, AdvanceCases

\* Whatever results its callers report, the driver's event stream is one the
\* goal lifecycle allows: one step at a time, within the budget, concluded
\* once (goal.rs:128-163).
THEOREM DriverImplementsLifecycle == DriverSpec => ImplementsLifecycle
<1>1. Start => Lifecycle!Init
    BY StartOpensLifecycle
<1>2. DriverInv /\ [DriverNext]_driverVars => [Lifecycle!Next]_Lifecycle!vars
    <2> SUFFICES ASSUME DriverInv, [DriverNext]_driverVars
                 PROVE  [Lifecycle!Next]_Lifecycle!vars
        OBVIOUS
    <2>1. CASE UNCHANGED driverVars
        BY <2>1 DEF driverVars, Lifecycle!vars
    <2>2. CASE DriverNext
        BY <2>2, AdvanceLifecycle DEF DriverNext
    <2> QED
        BY <2>1, <2>2
<1>3. DriverSpec => []DriverInv
    BY DriverInvariant DEF DriverInv
<1> QED
    BY <1>1, <1>2, <1>3, PTL DEF DriverSpec, ImplementsLifecycle, Lifecycle!Spec

=============================================================================
