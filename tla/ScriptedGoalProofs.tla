------------------------- MODULE ScriptedGoalProofs --------------------------
(***************************************************************************)
(* The default build, for every transcript, budget and speed of the clock: *)
(* what a run prints is a function of the transcript alone.  The driver's  *)
(* and the loop's own invariants come from KernelLoopProofs: the scripted  *)
(* inference is one of those that drive_goal is open to.                   *)
(***************************************************************************)
EXTENDS ScriptedGoal, KernelLoopProofs, SequenceTheorems

ScriptedTypeOK ==
    /\ script \in Seq(TurnResults)
    /\ at \in Nat \ {0}
    /\ polls \in Nat

\* The steps behind the in-flight one were continued by their own entries.
StepsContinued ==
    \A i \in 1..step-1 : i <= Len(script) /\ script[i].kind = "continue"

\* Every poll but those of a pending turn opened a step or ended the goal.
PollsCounted ==
    /\ Acting => polls = step - 1 \/ Entry.kind = "pending"
    /\ state = "done" => polls = step

\* The transcript and the driver go on together.
ReplayInv ==
    /\ IInv
    /\ ScriptedTypeOK
    /\ StepsContinued
    /\ SteerOfPreviousEntry
    /\ PollsCounted

\* The log's last event is the one the transcript has for that step.
ConcludedByEntry ==
    ~Acting =>
        /\ step = maxSteps \/ step > Len(script) \/ script[step].kind # "continue"
        /\ uart[step + 1] = ConclusionOf(script, step)

\* A step that is not opened by this iteration's poll is quiet because its
\* entry is Pending: what the watchdog's verdict needs in order to be the
\* transcript's.
QuietIsPending ==
    /\ pc = "clock" /\ Acting => Entry.kind = "pending" \/ NewStep
    /\ pc = "check" => Entry.kind = "pending" \/ mtime <= stepStarted + awake

\* Nothing panics in this build, so it halts only after the goal's end.
EndsConcluded == pc = "halted" => ~Acting

LogInv == ReplayInv /\ ConcludedByEntry /\ QuietIsPending /\ EndsConcluded

-----------------------------------------------------------------------------
(* The scripted build is a KernelLoop.                                     *)

\* ScriptedInference::next and the loop around it are steps that drive_goal
\* may take over some inference.
LEMMA ScriptedStepIsNext == [ScriptedNextState]_allVars => [Next]_vars
<1> SUFFICES ASSUME [ScriptedNextState]_allVars PROVE [Next]_vars
    OBVIOUS
<1>1. ScriptedPoll => \E result \in TurnResults : Poll(result)
    BY DEF ScriptedPoll
<1>2. UNCHANGED allVars => UNCHANGED vars
    BY DEF allVars
<1> QED
    BY <1>1, <1>2 DEF ScriptedNextState, ScriptedStep, Next, LoopStep

\* What is proved of drive_goal over any inference holds of the default build:
\* its types, the stall deadline, the watchdog and the exit code (goal.rs:196-233,
\* agent.rs:121-163).
THEOREM ScriptedImplementsLoop == ScriptedSpec => Spec
<1>1. ScriptedInit => Init
    BY DEF ScriptedInit
<1> QED
    BY <1>1, ScriptedStepIsNext, PTL DEF ScriptedSpec, Spec

-----------------------------------------------------------------------------
(* ReplayInv is inductive.                                                 *)

\* An exhausted transcript reads as a stall, so there always is an entry.
LEMMA EntryType ==
    ASSUME ScriptedTypeOK
    PROVE  Entry \in TurnResults /\ Entry.kind \in TurnKinds
<1>1. Stalled \in TurnResults
    BY DEF TurnResults
<1>2. at <= Len(script) => script[at] \in TurnResults
    BY DEF ScriptedTypeOK
<1> QED
    BY <1>1, <1>2, TurnResultTexts DEF Entry

\* A poll replays the entry at hand: which one decides what the driver does,
\* and all but Pending are consumed.
LEMMA PollReplaysEntry ==
    ASSUME ReplayInv, ScriptedPoll
    PROVE  /\ Acting
           /\ at' = IF Entry.kind = "pending" THEN at ELSE at + 1
           /\ polls' = polls + 1
           /\ script' = script
           /\ \/ Entry.kind = "pending" /\ UNCHANGED driverVars
              \/ Entry.kind = "stalled" /\ Finish("failed", "stalled")
              \/ Entry.kind = "done" /\ Finish("done", "none")
              \/ Entry.kind = "blocked" /\ Finish("blocked", Entry.text)
              \/ /\ Entry.kind = "continue" /\ step = maxSteps
                 /\ Finish("done", "step budget reached")
              \/ /\ Entry.kind = "continue" /\ step < maxSteps
                 /\ NextStep(Entry.text)
<1>1. Acting
    BY DEF ReplayInv, IInv, ControlInv, ScriptedPoll, Poll
<1>2. Entry.kind \in TurnKinds
    BY EntryType DEF ReplayInv
<1>3. /\ Advance(Entry)
      /\ at' = IF Entry.kind = "pending" THEN at ELSE at + 1
      /\ polls' = polls + 1
      /\ script' = script
    BY DEF ScriptedPoll, ScriptedNext, Consumed, Poll, PollReturns
<1>4. step \in Nat /\ maxSteps \in Nat /\ step <= maxSteps
    BY LogFacts DEF ReplayInv, IInv
<1>5. IF BudgetSpent THEN step = maxSteps ELSE step < maxSteps
    BY <1>4 DEF BudgetSpent
<1>6. /\ Entry.kind = "pending" => UNCHANGED driverVars
      /\ Entry.kind = "stalled" => Finish("failed", "stalled")
      /\ Entry.kind = "done" => Finish("done", "none")
      /\ Entry.kind = "blocked" => Finish("blocked", Entry.text)
      /\ Entry.kind = "continue" => Continue(Entry.text)
    BY <1>1, <1>3 DEF Advance
<1>7. Continue(Entry.text) =>
        \/ step = maxSteps /\ Finish("done", "step budget reached")
        \/ step < maxSteps /\ NextStep(Entry.text)
    BY <1>5 DEF Continue
<1> QED
    BY <1>1, <1>2, <1>3, <1>6, <1>7 DEF TurnKinds

\* The first entry is the first step's.
LEMMA ScriptedInitReplay == ScriptedInit => ReplayInv
<1> SUFFICES ASSUME ScriptedInit PROVE ReplayInv
    OBVIOUS
<1>1. IInv
    BY InitIInv DEF ScriptedInit
<1>2. state = "acting" /\ step = 1 /\ steer = NoText
    BY DEF ScriptedInit, Init, Start
<1>3. ScriptedTypeOK
    BY ScriptAssumption DEF ScriptedInit, ScriptedTypeOK
<1> QED
    BY <1>1, <1>2, <1>3 DEF ScriptedInit, ReplayInv, StepsContinued,
       SteerOfPreviousEntry, PollsCounted, Acting

\* A poll takes the driver and the transcript one entry further, or leaves
\* both where they are.
LEMMA PollReplay ==
    ASSUME ReplayInv, ScriptedPoll
    PROVE  ReplayInv'
<1>1. IInv'
    BY PollIInv DEF ReplayInv, ScriptedPoll
<1>2. /\ at \in Nat \ {0} /\ polls \in Nat /\ script \in Seq(TurnResults)
      /\ step \in Nat \ {0}
    BY LogFacts DEF ReplayInv, IInv, ScriptedTypeOK
<1>3. ScriptedTypeOK'
    <2>1. at' \in {at, at + 1} /\ polls' = polls + 1 /\ script' = script
        BY PollReplaysEntry
    <2> QED
        BY <1>2, <2>1 DEF ScriptedTypeOK
<1>4. Acting /\ at = step
    BY PollReplaysEntry DEF ReplayInv, SteerOfPreviousEntry
<1>5. CASE Entry.kind = "pending" /\ UNCHANGED driverVars
    <2>1. /\ at' = at /\ script' = script
          /\ state' = state /\ step' = step /\ steer' = steer
        BY <1>5, PollReplaysEntry DEF driverVars
    <2>2. StepsContinued' /\ SteerOfPreviousEntry'
        BY <2>1 DEF ReplayInv, StepsContinued, SteerOfPreviousEntry, Acting
    <2>3. Entry' = Entry
        BY <2>1 DEF Entry
    <2>4. PollsCounted'
        BY <1>4, <1>5, <2>1, <2>3 DEF PollsCounted, Acting
    <2> QED
        BY <1>1, <1>3, <2>2, <2>4 DEF ReplayInv
<1>6. CASE /\ Entry.kind # "pending"
           /\ \E d : \E st \in {"failed", "done", "blocked"} : Finish(st, d)
    <2>1. /\ script' = script /\ step' = step /\ ~Acting'
          /\ polls' = polls + 1
        BY <1>6, PollReplaysEntry DEF Finish, Acting
    <2>2. polls = step - 1
        BY <1>4, <1>6 DEF ReplayInv, PollsCounted
    <2>3. StepsContinued'
        BY <2>1 DEF ReplayInv, StepsContinued
    <2>4. SteerOfPreviousEntry' /\ PollsCounted'
        BY <1>2, <2>1, <2>2 DEF SteerOfPreviousEntry, PollsCounted
    <2> QED
        BY <1>1, <1>3, <2>3, <2>4 DEF ReplayInv
<1>7. CASE Entry.kind = "continue" /\ NextStep(Entry.text)
    <2>1. /\ script' = script /\ step' = step + 1 /\ at' = at + 1
          /\ polls' = polls + 1
          /\ steer' = Entry.text
          /\ state' = state
        BY <1>7, PollReplaysEntry DEF NextStep, NextSteer
    <2>2. at <= Len(script) /\ Entry = script[at]
        BY <1>7 DEF Entry, Stalled
    <2>3. polls = step - 1
        BY <1>4, <1>7 DEF ReplayInv, PollsCounted
    <2>4. StepsContinued'
        <3> SUFFICES ASSUME NEW i \in 1..step'-1
                     PROVE  i <= Len(script) /\ script[i].kind = "continue"
            BY <2>1 DEF StepsContinued
        <3>1. CASE i = step
            BY <3>1, <1>4, <1>7, <2>2
        <3>2. CASE i # step
            <4>1. i \in 1..step-1
                BY <3>2, <1>2, <2>1
            <4> QED
                BY <4>1 DEF ReplayInv, StepsContinued
        <3> QED
            BY <3>1, <3>2
    <2>5. SteerOfPreviousEntry'
        BY <1>2, <1>4, <2>1, <2>2 DEF SteerOfPreviousEntry
    <2>6. PollsCounted'
        BY <1>2, <1>4, <2>1, <2>3 DEF PollsCounted, Acting
    <2> QED
        BY <1>1, <1>3, <2>4, <2>5, <2>6 DEF ReplayInv
<1> QED
    BY <1>5, <1>6, <1>7, PollReplaysEntry

\* The loop's other steps leave the transcript alone; the watchdog ends the
\* goal, and none of them ends it as Done.
LEMMA LoopReplay ==
    ASSUME ReplayInv, [Next]_vars, UNCHANGED scriptVars,
           UNCHANGED driverVars \/ Watchdog
    PROVE  ReplayInv'
<1>1. IInv'
    BY NextIInv DEF ReplayInv
<1>2. UNCHANGED <<script, at, polls>>
    BY DEF scriptVars
<1>3. ScriptedTypeOK'
    BY <1>2 DEF ReplayInv, ScriptedTypeOK
<1>4. CASE UNCHANGED driverVars
    <2>1. UNCHANGED <<state, step, steer>>
        BY <1>4 DEF driverVars
    <2> QED
        BY <1>1, <1>2, <1>3, <2>1 DEF ReplayInv, StepsContinued,
           SteerOfPreviousEntry, PollsCounted, Acting, Entry
<1>5. CASE Watchdog
    <2>1. Finish("failed", "stalled")
        BY <1>5, StalledFails DEF Watchdog, ReplayInv, IInv, ControlInv
    <2>2. step' = step /\ state' = "failed" /\ ~Acting'
        BY <2>1 DEF Finish, Acting
    <2> QED
        BY <1>1, <1>2, <1>3, <2>2 DEF ReplayInv, StepsContinued,
           SteerOfPreviousEntry, PollsCounted
<1> QED
    BY <1>4, <1>5

\* The steps of the default build: a poll, or one that leaves the transcript
\* alone, and the driver too unless it is the watchdog's.
LEMMA ScriptedStepCases ==
    ASSUME [ScriptedNextState]_allVars
    PROVE  \/ ScriptedPoll
           \/ UNCHANGED scriptVars /\ Watchdog
           \/ /\ UNCHANGED scriptVars /\ UNCHANGED driverVars
              /\ \/ StartClock \/ Clock \/ ArmWakeup \/ Wake \/ Exit \/ Tick
                 \/ UNCHANGED vars
BY DEF ScriptedNextState, ScriptedStep, allVars, vars, StartClock, Clock, ArmWakeup,
       Wake, Exit, WriteExit, Tick

LEMMA ReplayInductive == ScriptedSpec => []ReplayInv
<1>1. ReplayInv /\ [ScriptedNextState]_allVars => ReplayInv'
    BY PollReplay, LoopReplay, ScriptedStepCases, ScriptedStepIsNext
<1> QED
    BY <1>1, ScriptedInitReplay, PTL DEF ScriptedSpec

-----------------------------------------------------------------------------
(* What needs no assumption on the clock.                                  *)

\* The directive of a step carries the steer of the entry that opened it, on
\* every poll of that step, for every transcript (goal.rs:165-167, 196-233).
THEOREM SteerOfPreviousEntryHolds == ScriptedSpec => []SteerOfPreviousEntry
<1>1. ReplayInv => SteerOfPreviousEntry
    BY DEF ReplayInv
<1> QED
    BY <1>1, ReplayInductive, PTL

\* A goal that ends Done has been polled once for every transition it printed,
\* for every transcript and clock (agent.rs:147-149).
THEOREM DeterministicPollsHolds == ScriptedSpec => []DeterministicPolls
<1>1. ReplayInv => DeterministicPolls
    <2> SUFFICES ASSUME ReplayInv, exit = 0 PROVE polls = Len(uart) - 1
        BY DEF DeterministicPolls
    <2>1. state = "done" /\ ~Acting
        BY DEF ReplayInv, IInv, ControlInv, Acting
    <2>2. Len(uart) = step + 1 /\ step \in Nat
        BY <2>1, LogFacts DEF ReplayInv, IInv, DriverInv, LogTracksDriver
    <2> QED
        BY <2>1, <2>2 DEF ReplayInv, PollsCounted
<1> QED
    BY <1>1, ReplayInductive, PTL
-----------------------------------------------------------------------------
(* The log, when a step times out later than one iteration of the loop can *)
(* take: otherwise the watchdog may fail a step whose entry it has not     *)
(* seen.                                                                   *)

\* The driver's conclusion of the in-flight step is appended to its events.
LEMMA FinishAppends ==
    ASSUME DriverInv, Acting, NEW st, NEW d, Finish(st, d)
    PROVE  uart'[step + 1] = Event(st, step, d) /\ step' = step /\ maxSteps' = maxSteps
<1>1. uart \in Seq(Events) /\ Len(uart) = step /\ step \in Nat
    BY LogFacts
<1>2. Append(uart, Event(st, step, d))[Len(uart) + 1] = Event(st, step, d)
    BY <1>1
<1> QED
    BY <1>1, <1>2 DEF Finish

\* What an entry concludes a step with.
LEMMA EntryConclusion ==
    ASSUME NEW s \in Seq(TurnResults), NEW k \in Nat
    PROVE  /\ k > Len(s) => ConclusionOf(s, k) = Event("failed", k, "stalled")
           /\ k <= Len(s) =>
                /\ s[k].kind \in {"stalled", "pending"} =>
                     ConclusionOf(s, k) = Event("failed", k, "stalled")
                /\ s[k].kind = "done" => ConclusionOf(s, k) = Event("done", k, "none")
                /\ s[k].kind = "blocked" =>
                     ConclusionOf(s, k) = Event("blocked", k, s[k].text)
                /\ s[k].kind = "continue" =>
                     ConclusionOf(s, k) = Event("done", k, "step budget reached")
<1>1. Len(s) \in Nat /\ ~(k > Len(s) /\ k <= Len(s))
    OBVIOUS
<1>2. CASE k > Len(s)
    BY <1>1, <1>2 DEF ConclusionOf
<1>3. CASE k <= Len(s)
    <2> DEFINE kind == s[k].kind
    <2>1. ~(k > Len(s))
        BY <1>1, <1>3
    <2>2. CASE kind \in {"stalled", "pending"}
        BY <2>1, <2>2, <1>3 DEF ConclusionOf
    <2>3. CASE kind = "done"
        BY <2>1, <2>3, <1>3 DEF ConclusionOf
    <2>4. CASE kind = "blocked"
        BY <2>1, <2>4, <1>3 DEF ConclusionOf
    <2>5. CASE kind = "continue"
        BY <2>1, <2>5, <1>3 DEF ConclusionOf
    <2> QED
        BY <2>1, <2>2, <2>3, <2>4, <2>5
<1> QED
    BY <1>1, <1>2, <1>3

\* The conclusion of a poll is the transcript's.
LEMMA PollConcludes ==
    ASSUME LogInv, ScriptedPoll
    PROVE  ConcludedByEntry'
<1>1. /\ Acting /\ at = step /\ DriverInv
      /\ script \in Seq(TurnResults) /\ Len(script) \in Nat
      /\ step \in Nat
    <2>1. Acting /\ DriverInv /\ script \in Seq(TurnResults)
        BY PollReplaysEntry DEF LogInv, ReplayInv, IInv, ScriptedTypeOK
    <2> QED
        BY <2>1, LogFacts DEF LogInv, ReplayInv, SteerOfPreviousEntry
<1>2. script' = script
    BY PollReplaysEntry DEF LogInv
<1>3. ASSUME NEW st, NEW d, Finish(st, d),
             Event(st, step, d) = ConclusionOf(script, step),
             step = maxSteps \/ step > Len(script) \/ script[step].kind # "continue"
      PROVE  ConcludedByEntry'
    BY <1>1, <1>2, <1>3, FinishAppends DEF ConcludedByEntry
<1>4. CASE Acting'
    BY <1>4 DEF ConcludedByEntry
<1>5. CASE Entry.kind = "stalled" /\ Finish("failed", "stalled")
    <2>1. step > Len(script) \/ script[step].kind = "stalled"
        BY <1>1, <1>5 DEF Entry
    <2>2. ConclusionOf(script, step) = Event("failed", step, "stalled")
        <3>1. CASE step > Len(script)
            BY <1>1, <3>1, EntryConclusion
        <3>2. CASE step <= Len(script) /\ script[step].kind = "stalled"
            BY <1>1, <3>2, EntryConclusion
        <3> QED
            BY <1>1, <2>1, <3>1, <3>2
    <2> QED
        BY <1>3, <1>5, <2>1, <2>2
<1>6. CASE Entry.kind \in {"done", "blocked", "continue"}
    <2>1. step <= Len(script) /\ Entry = script[step]
        BY <1>1, <1>6 DEF Entry, Stalled
    <2>2. CASE Entry.kind = "done" /\ Finish("done", "none")
        <3>1. ConclusionOf(script, step) = Event("done", step, "none")
            BY <1>1, <2>1, <2>2, EntryConclusion
        <3> QED
            BY <1>3, <2>1, <2>2, <3>1
    <2>3. CASE Entry.kind = "blocked" /\ Finish("blocked", Entry.text)
        <3>1. ConclusionOf(script, step) = Event("blocked", step, Entry.text)
            BY <1>1, <2>1, <2>3, EntryConclusion
        <3> QED
            BY <1>3, <2>1, <2>3, <3>1
    <2>4. CASE /\ Entry.kind = "continue" /\ step = maxSteps
               /\ Finish("done", "step budget reached")
        <3>1. ConclusionOf(script, step) = Event("done", step, "step budget reached")
            BY <1>1, <2>1, <2>4, EntryConclusion
        <3> QED
            BY <1>3, <2>4, <3>1
    <2>5. CASE Entry.kind = "continue" /\ NextStep(Entry.text)
        BY <1>1, <1>4, <2>5 DEF NextStep, Acting
    <2> QED
        BY <1>6, <2>2, <2>3, <2>4, <2>5, PollReplaysEntry DEF LogInv
<1>7. CASE UNCHANGED driverVars
    BY <1>1, <1>4, <1>7 DEF driverVars, Acting
<1> QED
    BY <1>5, <1>6, <1>7, PollReplaysEntry DEF LogInv

\* A poll that neither opens a step nor ends the goal met a Pending entry.
LEMMA PollQuiet ==
    ASSUME LogInv, ScriptedPoll
    PROVE  QuietIsPending' /\ EndsConcluded'
<1>1. pc = "poll" /\ pc' = "clock" /\ lastStep' = lastStep
    BY DEF ScriptedPoll, Poll, PollReturns
<1>2. lastStep = step /\ step \in Nat
    BY <1>1, LogFacts DEF LogInv, ReplayInv, IInv, TimingInv, ClockOfStep
<1>3. CASE Entry.kind = "pending"
    <2>1. at' = at /\ script' = script
        BY <1>3, PollReplaysEntry DEF LogInv
    <2> QED
        BY <1>1, <1>3, <2>1 DEF QuietIsPending, EndsConcluded, Entry
<1>4. CASE \E s : NextStep(s)
    <2>1. step' = step + 1
        BY <1>4 DEF NextStep
    <2> QED
        BY <1>1, <1>2, <2>1 DEF QuietIsPending, EndsConcluded, NewStep
<1>5. CASE \E d : \E st \in {"failed", "done", "blocked"} : Finish(st, d)
    BY <1>1, <1>5 DEF QuietIsPending, EndsConcluded, Finish, Acting
<1> QED
    BY <1>3, <1>4, <1>5, PollReplaysEntry DEF LogInv

\* The watchdog only fails a step whose entry is Pending.
LEMMA WatchdogConcludes ==
    ASSUME AwakeTicks <= StepTimeout, LogInv, Watchdog, UNCHANGED scriptVars
    PROVE  ConcludedByEntry'
<1>1. pc = "check" /\ mtime - stepStarted > StepTimeout
    BY DEF Watchdog, TimedOut
<1>2. /\ mtime \in Nat /\ stepStarted \in Nat /\ awake \in Nat /\ awake <= AwakeTicks
      /\ AwakeTicks \in Nat /\ StepTimeout \in Nat
    BY TimeAssumption DEF LogInv, ReplayInv, IInv, LoopTypeOK
<1>3. ~(mtime <= stepStarted + awake)
    BY <1>1, <1>2
<1>4. Entry.kind = "pending"
    BY <1>1, <1>3 DEF LogInv, QuietIsPending
<1>5. Acting /\ DriverInv /\ at = step /\ script \in Seq(TurnResults) /\ step \in Nat
    BY <1>1, LogFacts DEF LogInv, ReplayInv, IInv, ControlInv, SteerOfPreviousEntry,
       ScriptedTypeOK
<1>6. step <= Len(script) /\ script[step].kind = "pending"
    BY <1>4, <1>5 DEF Entry, Stalled
<1>7. ConclusionOf(script, step) = Event("failed", step, "stalled")
    BY <1>5, <1>6, EntryConclusion
<1>8. Finish("failed", "stalled")
    BY <1>5, StalledFails DEF Watchdog
<1>9. script' = script
    BY DEF scriptVars
<1> QED
    BY <1>5, <1>6, <1>7, <1>8, <1>9, FinishAppends DEF ConcludedByEntry

\* The loop's other steps conclude nothing; after the clock read a step is at
\* most as old as this iteration, or its entry is Pending.
LEMMA LoopQuiet ==
    ASSUME LogInv, UNCHANGED scriptVars, UNCHANGED driverVars,
           \/ StartClock \/ Clock \/ ArmWakeup \/ Wake \/ Exit \/ Tick
           \/ UNCHANGED vars
    PROVE  ConcludedByEntry' /\ QuietIsPending' /\ EndsConcluded'
<1>1. /\ state' = state /\ step' = step /\ maxSteps' = maxSteps /\ uart' = uart
      /\ script' = script /\ at' = at
    BY DEF scriptVars, driverVars
<1>2. Entry' = Entry /\ (Acting' <=> Acting)
    BY <1>1 DEF Entry, Acting
<1>3. ConcludedByEntry'
    BY <1>1, <1>2 DEF LogInv, ConcludedByEntry
<1>4. /\ mtime \in Nat /\ stepStarted \in Nat /\ awake \in Nat
    BY DEF LogInv, ReplayInv, IInv, LoopTypeOK
<1>5. CASE Clock
    <2>1. pc = "clock" /\ pc' = (IF Acting THEN "check" ELSE "end")
        BY <1>5 DEF Clock
    <2>2. CASE Acting /\ NewStep
        <3>1. mtime' = mtime /\ awake' = awake /\ stepStarted' = mtime
            BY <1>5, <2>2 DEF Clock, ClockStart
        <3> QED
            BY <1>3, <1>4, <2>1, <2>2, <3>1 DEF QuietIsPending, EndsConcluded
    <2>3. CASE Acting /\ ~NewStep
        BY <1>2, <1>3, <1>5, <2>1, <2>3 DEF LogInv, Clock, QuietIsPending, EndsConcluded
    <2>4. CASE ~Acting
        BY <1>2, <1>3, <2>1, <2>4 DEF QuietIsPending, EndsConcluded
    <2> QED
        BY <1>3, <2>2, <2>3, <2>4
<1>6. CASE Tick
    <2>1. pc' = pc /\ lastStep' = lastStep /\ stepStarted' = stepStarted
        BY <1>6 DEF Tick
    <2>2. pc = "check" => mtime' = mtime + 1 /\ awake' = awake + 1
        BY <1>6 DEF Tick, Asleep
    <2>3. NewStep' <=> NewStep
        BY <1>1, <2>1 DEF NewStep
    <2> QED
        BY <1>2, <1>3, <1>4, <2>1, <2>2, <2>3 DEF LogInv, QuietIsPending, EndsConcluded
<1>7. CASE UNCHANGED vars
    BY <1>2, <1>3, <1>7 DEF vars, loopVars, driverVars, LogInv, QuietIsPending,
       EndsConcluded, NewStep
<1>8. CASE StartClock \/ ArmWakeup \/ Wake
    BY <1>3, <1>8 DEF StartClock, ArmWakeup, Wake, QuietIsPending, EndsConcluded
<1>9. CASE Exit
    BY <1>2, <1>3, <1>9 DEF Exit, WriteExit, QuietIsPending, EndsConcluded, LogInv,
       ReplayInv, IInv, ControlInv
<1> QED
    BY <1>5, <1>6, <1>7, <1>8, <1>9

LEMMA LogInductive ==
    ASSUME AwakeTicks <= StepTimeout
    PROVE  ScriptedSpec => []LogInv
<1>1. ScriptedInit => LogInv
    BY ScriptedInitReplay DEF ScriptedInit, Init, Start, LogInv, ConcludedByEntry,
       QuietIsPending, EndsConcluded, Acting
<1>2. LogInv /\ [ScriptedNextState]_allVars => LogInv'
    <2> SUFFICES ASSUME LogInv, [ScriptedNextState]_allVars PROVE LogInv'
        OBVIOUS
    <2>1. ReplayInv'
        BY PollReplay, LoopReplay, ScriptedStepCases, ScriptedStepIsNext DEF LogInv
    <2>2. CASE ScriptedPoll
        BY <2>1, <2>2, PollConcludes, PollQuiet DEF LogInv
    <2>3. CASE UNCHANGED scriptVars /\ Watchdog
        <3>1. pc' = "end"
            BY <2>3 DEF Watchdog
        <3> QED
            BY <2>1, <2>3, <3>1, WatchdogConcludes DEF LogInv, QuietIsPending, EndsConcluded
    <2> QED
        BY <2>1, <2>2, <2>3, LoopQuiet, ScriptedStepCases DEF LogInv
<1> QED
    BY <1>1, <1>2, PTL DEF ScriptedSpec

-----------------------------------------------------------------------------
(* The step a transcript ends at.                                          *)

\* LastStepOf is defined: the first entry that is no Continue, or the budget.
LEMMA LastStepExists ==
    ASSUME NEW s \in Seq(TurnResults), NEW budget \in Nat \ {0}
    PROVE  LET k == LastStepOf(s, budget)
           IN  /\ k \in 1..budget
               /\ \A i \in 1..k-1 : i <= Len(s) /\ s[i].kind = "continue"
               /\ k = budget \/ k > Len(s) \/ s[k].kind # "continue"
<1> DEFINE Ends == {k \in 1..budget : k = budget \/ k > Len(s) \/ s[k].kind # "continue"}
<1>1. budget \in Ends /\ Ends \in SUBSET Nat /\ Len(s) \in Nat
    OBVIOUS
<1>2. PICK k \in Ends : \A n \in Ends : k <= n
    BY <1>1, LeastNumber
<1>3. ASSUME NEW i \in 1..k-1 PROVE i <= Len(s) /\ s[i].kind = "continue"
    <2>1. i \in 1..budget /\ i # budget /\ ~(k <= i)
        BY <1>1, <1>2
    <2>2. i \notin Ends
        BY <1>2, <2>1
    <2> QED
        BY <1>1, <2>1, <2>2
<1>4. \E n \in 1..budget :
        /\ \A i \in 1..n-1 : i <= Len(s) /\ s[i].kind = "continue"
        /\ n = budget \/ n > Len(s) \/ s[n].kind # "continue"
    BY <1>2, <1>3
<1> QED
    BY <1>4 DEF LastStepOf

\* The in-flight step is not past it, and the one that concludes is it.
LEMMA StepReachesLast ==
    ASSUME LogInv
    PROVE  /\ LastStepOf(script, maxSteps) \in Nat
           /\ step <= LastStepOf(script, maxSteps)
           /\ ~Acting => step = LastStepOf(script, maxSteps)
<1> DEFINE k == LastStepOf(script, maxSteps)
<1>1. /\ script \in Seq(TurnResults) /\ Len(script) \in Nat
      /\ maxSteps \in Nat \ {0} /\ step \in Nat \ {0} /\ step <= maxSteps
    BY LogFacts DEF LogInv, ReplayInv, IInv, ScriptedTypeOK
<1>2. /\ k \in 1..maxSteps
      /\ \A i \in 1..k-1 : i <= Len(script) /\ script[i].kind = "continue"
      /\ k = maxSteps \/ k > Len(script) \/ script[k].kind # "continue"
    BY <1>1, LastStepExists
<1>3. step <= k
    <2> SUFFICES ASSUME k < step PROVE FALSE
        BY <1>1, <1>2
    <2>1. k \in 1..step-1 /\ k # maxSteps
        BY <1>1, <1>2
    <2> QED
        BY <1>1, <1>2, <2>1 DEF LogInv, ReplayInv, StepsContinued
<1>4. ~Acting => ~(step < k)
    <2> SUFFICES ASSUME ~Acting, step < k PROVE FALSE
        OBVIOUS
    <2>1. step \in 1..k-1 /\ step # maxSteps
        BY <1>1, <1>2
    <2> QED
        BY <1>1, <1>2, <2>1 DEF LogInv, ConcludedByEntry
<1> QED
    BY <1>1, <1>2, <1>3, <1>4

\* "Byte-identical UART event log across runs" (PRD:108): the printed events
\* are a prefix of those the transcript stands for, and all of them once the
\* kernel has halted.  AwakeTicks is the longest iteration of the loop.
THEOREM DeterministicLogHolds ==
    ASSUME AwakeTicks <= StepTimeout
    PROVE  ScriptedSpec => []DeterministicLog
<1>1. LogInv => DeterministicLog
    <2> SUFFICES ASSUME LogInv PROVE DeterministicLog
        OBVIOUS
    <2> DEFINE k == LastStepOf(script, maxSteps)
               log == LogOf(script, maxSteps)
               E == Events \union {log[i] : i \in 1..k+1}
    <2>1. /\ k \in Nat /\ step <= k /\ step \in Nat
          /\ ~Acting => step = k
          /\ uart \in Seq(Events)
          /\ Len(uart) = IF Acting THEN step ELSE step + 1
          /\ \A i \in 1..step : uart[i] = Event("acting", i, "none")
        BY StepReachesLast, LogFacts
           DEF LogInv, ReplayInv, IInv, DriverInv, LogTracksDriver, Acting
    <2>2. log = [i \in 1..k+1 |-> IF i <= k THEN Event("acting", i, "none")
                                  ELSE ConclusionOf(script, k)]
        BY DEF LogOf
    <2> HIDE DEF k, log
    <2>3. log \in Seq(E) /\ Len(log) = k + 1
        BY <2>1, <2>2
    <2>4. \A i \in 1..Len(uart) : uart[i] = log[i]
        <3> SUFFICES ASSUME NEW i \in 1..Len(uart) PROVE uart[i] = log[i]
            OBVIOUS
        <3>1. CASE i \in 1..step
            BY <2>1, <2>2, <3>1
        <3>2. CASE i = step + 1 /\ ~Acting
            BY <2>1, <2>2, <3>2 DEF LogInv, ConcludedByEntry
        <3> QED
            BY <2>1, <3>1, <3>2
    <2>5. Len(uart) \in Nat /\ Len(uart) <= Len(log)
        BY <2>1, <2>3
    <2>6. uart \in Seq(E)
        BY <2>1
    <2>7. /\ SubSeq(log, 1, Len(uart)) \in Seq(E)
          /\ Len(SubSeq(log, 1, Len(uart))) = Len(uart)
          /\ \A i \in 1..Len(uart) : SubSeq(log, 1, Len(uart))[i] = log[i]
        BY <2>3, <2>5
    <2>8. uart = SubSeq(log, 1, Len(uart))
        BY <2>4, <2>6, <2>7, SeqEqual
    <2>9. pc = "halted" => uart = log
        <3> SUFFICES ASSUME pc = "halted" PROVE uart = log
            OBVIOUS
        <3>1. Len(uart) = Len(log)
            BY <2>1, <2>3 DEF LogInv, EndsConcluded
        <3> QED
            BY <2>3, <2>4, <2>6, <3>1, SeqEqual
    <2> QED
        BY <2>5, <2>8, <2>9 DEF DeterministicLog, log
<1> QED
    BY <1>1, LogInductive, PTL

=============================================================================
