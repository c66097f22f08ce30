-------------------------- MODULE KernelLoopProofs ---------------------------
(***************************************************************************)
(* drive_goal, for every timeout, quantum, awake time and budget, over an  *)
(* inference that may answer anything: the invariants and the action       *)
(* property of KernelLoop, and that its log is one the goal lifecycle      *)
(* allows.  Liveness (Terminates) is left to TLC.                          *)
(***************************************************************************)
EXTENDS KernelLoop, GoalDriverProofs, WellFoundedInduction

\* Where the loop is says whether the goal is in progress, and the exit code
\* says how it ended.
ControlInv ==
    /\ pc \in {"start", "poll", "check", "wfi"} => Acting
    /\ pc = "end" => ~Acting
    /\ exit # Running <=> pc = "halted"
    /\ exit = 0 => state = "done"
    /\ exit = 2 => state \in {"failed", "blocked"}

\* The stall clock belongs to the in-flight step: it was started after the
\* step's event, within one iteration of the loop.
ClockOfStep ==
    /\ lastStep = step
    /\ openedAt <= stepStarted
    /\ stepStarted <= openedAt + AwakeTicks

\* How the clocks relate while the loop runs.  What StallDeadline needs and
\* does not say: whether the stall clock is the in-flight step's (it is not
\* between the poll that opened the step and the clock read after it), and
\* how far the armed timer can be from that clock.
TimingInv ==
    /\ stepStarted <= mtime
    /\ openedAt <= mtime
    /\ pc = "start" => mtime <= openedAt + awake
    /\ pc = "clock" /\ Acting =>
         \/ ClockOfStep /\ mtime <= stepStarted + StepTimeout + IdleQuantum + awake
         \/ step # lastStep /\ mtime <= openedAt + awake
    /\ pc \in {"poll", "check"} =>
         ClockOfStep /\ mtime <= stepStarted + StepTimeout + IdleQuantum + awake
    /\ pc = "wfi" =>
         /\ ClockOfStep
         /\ mtimecmp <= stepStarted + StepTimeout + IdleQuantum
         /\ mtime <= mtimecmp + awake

LoopTypeOK ==
    /\ pc \in Labels
    /\ mtime \in Nat /\ mtimecmp \in Nat /\ stepStarted \in Nat
    /\ lastStep \in Nat
    /\ exit \in ExitCodes
    /\ awake \in 0..AwakeTicks
    /\ openedAt \in Nat

IInv ==
    /\ DriverInv
    /\ LoopTypeOK
    /\ ControlInv
    /\ TimingInv

-----------------------------------------------------------------------------
(* IInv is inductive: one lemma per action of drive_goal.                  *)

\* A step that leaves the driver alone keeps it in agreement with its log.
LEMMA DriverUnchanged ==
    ASSUME DriverInv, UNCHANGED driverVars
    PROVE  DriverInv' /\ (Acting' <=> Acting)
BY DEF driverVars, DriverInv, DriverTypeOK, LogTracksDriver, Acting

\* GoalDriver::start, then nothing of the loop yet.
LEMMA InitIInv == Init => IInv
<1> SUFFICES ASSUME Init PROVE IInv
    OBVIOUS
<1>1. DriverInv
    BY StartDriverInv DEF Init
<1>2. LoopTypeOK
    BY TimeAssumption DEF Init, LoopTypeOK, Labels, ExitCodes, Running
<1>3. ControlInv
    BY DEF Init, Start, Acting, ControlInv, Running
<1>4. TimingInv
    BY DEF Init, TimingInv
<1> QED
    BY <1>1, <1>2, <1>3, <1>4 DEF IInv

\* The first reads of step and clock.
LEMMA StartClockIInv == IInv /\ StartClock => IInv'
<1> SUFFICES ASSUME IInv, StartClock PROVE IInv'
    OBVIOUS
<1> USE DEF StartClock
<1>1. DriverInv' /\ (Acting' <=> Acting)
    BY DriverUnchanged DEF IInv
<1>2. step \in Nat /\ step' = step
    BY LogFacts DEF IInv, driverVars
<1>3. LoopTypeOK'
    BY <1>2 DEF IInv, LoopTypeOK, Labels
<1>4. ControlInv'
    BY <1>1 DEF IInv, ControlInv, driverVars
<1>5. TimingInv'
    BY <1>2, TimeAssumption DEF IInv, TimingInv, LoopTypeOK, ClockOfStep
<1> QED
    BY <1>1, <1>3, <1>4, <1>5 DEF IInv

\* What a poll does to the driver: nothing, a conclusion, or a new step
\* announced by a new event.
LEMMA AdvanceOutcome ==
    ASSUME DriverInv, NEW result \in TurnResults, Advance(result)
    PROVE  \/ UNCHANGED driverVars
           \/ uart' # uart /\ ~Acting'
           \/ uart' # uart /\ step' = step + 1
<1>1. uart \in Seq(Events)
    BY LogFacts
<1>2. \A e : Append(uart, e) # uart
    <2>1. \A e : Len(Append(uart, e)) = Len(uart) + 1 /\ Len(uart) \in Nat
        BY <1>1
    <2> QED
        BY <2>1
<1>3. \A st \in {"failed", "done", "blocked"}, d \in Details :
          Finish(st, d) => uart' # uart /\ ~Acting'
    BY <1>2 DEF Finish, Acting
<1>4. \A s : NextStep(s) => uart' # uart /\ step' = step + 1
    BY <1>2 DEF NextStep, Opened, NextSteer
<1>5. {"none", "stalled", "step budget reached"} \union Texts \subseteq Details
    BY DEF Details
<1> QED
    BY <1>3, <1>4, <1>5, AdvanceCases

\* A poll: the event of a new step, if there is one, is as old as the poll.
LEMMA PollIInv ==
    ASSUME IInv, NEW result \in TurnResults, Poll(result)
    PROVE  IInv'
<1> USE DEF Poll, PollReturns
<1>1. DriverInv'
    BY AdvanceDriverInv DEF IInv
<1>2. step \in Nat
    BY LogFacts DEF IInv
<1>3. LoopTypeOK'
    <2>1. openedAt' \in Nat
        BY DEF IInv, LoopTypeOK
    <2> QED
        BY <2>1 DEF IInv, LoopTypeOK, Labels
<1>4. ControlInv'
    BY DEF IInv, ControlInv, Running
<1>5. TimingInv'
    <2>1. CASE UNCHANGED driverVars
        <3>1. openedAt' = openedAt /\ step' = step
            BY <2>1 DEF driverVars
        <3> QED
            BY <3>1 DEF IInv, TimingInv, ClockOfStep
    <2>2. CASE uart' # uart /\ ~Acting'
        BY <2>2 DEF IInv, TimingInv, LoopTypeOK
    <2>3. CASE uart' # uart /\ step' = step + 1
        <3>1. openedAt' = mtime /\ step' # lastStep'
            BY <2>3, <1>2 DEF IInv, TimingInv, ClockOfStep
        <3> QED
            BY <3>1, TimeAssumption DEF IInv, TimingInv, LoopTypeOK
    <2> QED
        BY <2>1, <2>2, <2>3, AdvanceOutcome DEF IInv
<1> QED
    BY <1>1, <1>3, <1>4, <1>5 DEF IInv

\* A panic, in a poll or in close_clean, leaves the log as it is.
LEMMA PanicIInv == IInv /\ Panic => IInv'
<1> SUFFICES ASSUME IInv, Panic PROVE IInv'
    OBVIOUS
<1> USE DEF Panic
<1>1. DriverInv' /\ (Acting' <=> Acting)
    BY DriverUnchanged DEF IInv
<1>2. LoopTypeOK'
    BY DEF IInv, LoopTypeOK, Labels, ExitCodes, Running
<1>3. ControlInv'
    BY <1>1 DEF IInv, ControlInv, Running, driverVars
<1>4. TimingInv'
    BY DEF IInv, TimingInv
<1> QED
    BY <1>1, <1>2, <1>3, <1>4 DEF IInv

\* The stall clock is restarted by a new step, and only by one.
LEMMA ClockIInv == IInv /\ Clock => IInv'
<1> SUFFICES ASSUME IInv, Clock PROVE IInv'
    OBVIOUS
<1> USE DEF Clock, NewStep, ClockStart
<1>1. DriverInv' /\ (Acting' <=> Acting)
    BY DriverUnchanged DEF IInv
<1>2. step \in Nat /\ step' = step
    BY LogFacts DEF IInv, driverVars
<1>3. LoopTypeOK'
    BY <1>2, TimeAssumption DEF IInv, LoopTypeOK, Labels
<1>4. ControlInv'
    BY <1>1 DEF IInv, ControlInv, driverVars
<1>5. TimingInv'
    <2>1. CASE ~Acting
        BY <2>1 DEF IInv, TimingInv, LoopTypeOK
    <2>2. CASE Acting /\ step = lastStep
        BY <2>2, <1>2 DEF IInv, TimingInv, ClockOfStep
    <2>3. CASE Acting /\ step # lastStep
        BY <2>3, <1>2, TimeAssumption DEF IInv, TimingInv, LoopTypeOK, ClockOfStep
    <2> QED
        BY <2>1, <2>2, <2>3
<1> QED
    BY <1>1, <1>3, <1>4, <1>5 DEF IInv

\* advance(Stalled) on a goal in progress fails it.
LEMMA StalledFails ==
    ASSUME Acting, Advance(Stalled)
    PROVE  Finish("failed", "stalled")
BY DEF Advance, Stalled

\* The watchdog concludes the goal.
LEMMA WatchdogIInv == IInv /\ Watchdog => IInv'
<1> SUFFICES ASSUME IInv, Watchdog PROVE IInv'
    OBVIOUS
<1> USE DEF Watchdog
<1>1. DriverInv'
    BY AdvanceDriverInv DEF IInv, TurnResults
<1>2. Finish("failed", "stalled")
    BY StalledFails DEF IInv, ControlInv
<1>3. LoopTypeOK'
    BY TimeAssumption DEF IInv, LoopTypeOK, Labels
<1>4. ControlInv'
    BY <1>2 DEF IInv, ControlInv, Finish, Acting, Running
<1>5. TimingInv'
    BY DEF IInv, TimingInv, LoopTypeOK
<1> QED
    BY <1>1, <1>3, <1>4, <1>5 DEF IInv

\* Going to sleep: the step has not timed out, and the timer is one quantum
\* away.
LEMMA ArmWakeupIInv == IInv /\ ArmWakeup => IInv'
<1> SUFFICES ASSUME IInv, ArmWakeup PROVE IInv'
    OBVIOUS
<1> USE DEF ArmWakeup
<1>1. DriverInv' /\ (Acting' <=> Acting)
    BY DriverUnchanged DEF IInv
<1>2. step' = step
    BY DEF driverVars
<1>3. LoopTypeOK'
    BY TimeAssumption DEF IInv, LoopTypeOK, Labels
<1>4. ControlInv'
    BY <1>1 DEF IInv, ControlInv, driverVars
<1>5. TimingInv'
    BY <1>2, TimeAssumption DEF IInv, TimingInv, LoopTypeOK, ClockOfStep, TimedOut
<1> QED
    BY <1>1, <1>3, <1>4, <1>5 DEF IInv

\* wfi returns.
LEMMA WakeIInv == IInv /\ Wake => IInv'
<1> SUFFICES ASSUME IInv, Wake PROVE IInv'
    OBVIOUS
<1> USE DEF Wake, TimerPending
<1>1. DriverInv' /\ (Acting' <=> Acting)
    BY DriverUnchanged DEF IInv
<1>2. step' = step
    BY DEF driverVars
<1>3. LoopTypeOK'
    BY DEF IInv, LoopTypeOK, Labels
<1>4. ControlInv'
    BY <1>1 DEF IInv, ControlInv, driverVars
<1>5. TimingInv'
    BY <1>2, TimeAssumption DEF IInv, TimingInv, LoopTypeOK, ClockOfStep
<1> QED
    BY <1>1, <1>3, <1>4, <1>5 DEF IInv

\* The exit code is chosen by the goal's state.
LEMMA ExitIInv == IInv /\ Exit => IInv'
<1> SUFFICES ASSUME IInv, Exit PROVE IInv'
    OBVIOUS
<1> USE DEF Exit, WriteExit, ExitCode
<1>1. DriverInv' /\ (Acting' <=> Acting)
    BY DriverUnchanged DEF IInv
<1>2. LoopTypeOK'
    BY DEF IInv, LoopTypeOK, Labels, ExitCodes
<1>3. state \in GoalStates /\ state # "acting"
    BY DEF IInv, DriverInv, DriverTypeOK, ControlInv, Acting
<1>4. ControlInv'
    BY <1>3 DEF ControlInv, driverVars, GoalStates, Running, Acting
<1>5. TimingInv'
    BY DEF IInv, TimingInv
<1> QED
    BY <1>1, <1>2, <1>4, <1>5 DEF IInv

\* Time passes: freely until the timer is due, then on the awake allowance.
LEMMA TickIInv == IInv /\ Tick => IInv'
<1> SUFFICES ASSUME IInv, Tick PROVE IInv'
    OBVIOUS
<1> USE DEF Tick
<1>1. DriverInv' /\ (Acting' <=> Acting)
    BY DriverUnchanged DEF IInv
<1>2. step' = step
    BY DEF driverVars
<1>3. LoopTypeOK'
    BY TimeAssumption DEF IInv, LoopTypeOK
<1>4. ControlInv'
    BY <1>1 DEF IInv, ControlInv, driverVars
<1>5. TimingInv'
    BY <1>1, <1>2, TimeAssumption
       DEF IInv, TimingInv, LoopTypeOK, ClockOfStep, Asleep
<1> QED
    BY <1>1, <1>3, <1>4, <1>5 DEF IInv

\* Every step of the loop, and every tick, keeps IInv.
LEMMA NextIInv == IInv /\ [Next]_vars => IInv'
<1> SUFFICES ASSUME IInv, [Next]_vars PROVE IInv'
    OBVIOUS
<1>1. CASE UNCHANGED vars
    BY <1>1 DEF vars, driverVars, loopVars, IInv, DriverInv, DriverTypeOK,
        LogTracksDriver, Acting, LoopTypeOK, ControlInv, TimingInv, ClockOfStep
<1>2. CASE \E result \in TurnResults : Poll(result)
    BY <1>2, PollIInv
<1>3. CASE PollPanics \/ ClosePanics
    BY <1>3, PanicIInv DEF PollPanics, ClosePanics
<1> QED
    BY <1>1, <1>2, <1>3, StartClockIInv, ClockIInv, WatchdogIInv, ArmWakeupIInv,
       WakeIInv, ExitIInv, TickIInv DEF Next, LoopStep

\* The inductive invariant holds throughout.
LEMMA Inductive == Spec => []IInv
BY InitIInv, NextIInv, PTL DEF Spec

-----------------------------------------------------------------------------
(* The properties.                                                         *)

\* The loop's, the driver's and the clocks' values have their types in every
\* reachable state (agent.rs:121-163).
THEOREM TypeCorrect == Spec => []TypeOK
<1>1. IInv => TypeOK
    BY DEF IInv, DriverInv, LoopTypeOK, TypeOK
<1> QED
    BY <1>1, Inductive, PTL

\* No step stays in flight longer than StallBound, for every timeout, quantum
\* and awake time (agent.rs:136-145): between a step's event and the start of
\* its clock, AwakeTicks; from there to the check that fails it, the timeout,
\* one quantum of sleep and AwakeTicks more.
THEOREM StallDeadlineHolds == Spec => []StallDeadline
<1>1. IInv => StallDeadline
    <2> SUFFICES ASSUME IInv, Acting, pc # "halted"
                 PROVE  mtime - openedAt <= StallBound
        BY DEF StallDeadline
    <2>1. pc \in {"start", "poll", "clock", "check", "wfi"}
        BY DEF IInv, LoopTypeOK, Labels, ControlInv
    <2>2. /\ mtime \in Nat /\ openedAt \in Nat /\ stepStarted \in Nat /\ mtimecmp \in Nat
          /\ awake \in Nat /\ awake <= AwakeTicks
          /\ StepTimeout \in Nat /\ IdleQuantum \in Nat /\ AwakeTicks \in Nat
        BY TimeAssumption DEF IInv, LoopTypeOK
    <2>3. \/ mtime <= openedAt + awake
          \/ /\ stepStarted <= openedAt + AwakeTicks
             /\ mtime <= stepStarted + StepTimeout + IdleQuantum + awake
        BY <2>1, <2>2 DEF IInv, TimingInv, ClockOfStep
    <2> QED
        BY <2>2, <2>3 DEF StallBound
<1> QED
    BY <1>1, Inductive, PTL

\* The loop ends a goal itself only as Failed, and only after its last step
\* has been in flight longer than the timeout (agent.rs:131-145).
THEOREM WatchdogNeverEarlyHolds == Spec => WatchdogNeverEarly
<1> DEFINE NotEarly == pc = "check" /\ state' # state =>
                         state' = "failed" /\ mtime - openedAt > StepTimeout
<1>1. IInv /\ [Next]_vars => [NotEarly]_vars
    <2> SUFFICES ASSUME IInv, Next, pc = "check", state' # state
                 PROVE  state' = "failed" /\ mtime - openedAt > StepTimeout
        OBVIOUS
    <2>1. Watchdog
        BY DEF Next, LoopStep, StartClock, Poll, PollReturns, PollPanics, Clock, ArmWakeup,
               Wake, Exit, WriteExit, Panic, ClosePanics, Tick, driverVars
    <2>2. Finish("failed", "stalled")
        BY <2>1, StalledFails DEF Watchdog, IInv, ControlInv
    <2>3. mtime - stepStarted > StepTimeout /\ openedAt <= stepStarted
        BY <2>1 DEF Watchdog, TimedOut, IInv, TimingInv, ClockOfStep
    <2>4. mtime \in Nat /\ stepStarted \in Nat /\ openedAt \in Nat /\ StepTimeout \in Nat
        BY TimeAssumption DEF IInv, LoopTypeOK
    <2>5. mtime - openedAt > StepTimeout
        BY <2>3, <2>4
    <2> QED
        BY <2>2, <2>5 DEF Finish
<1> QED
    BY <1>1, Inductive, PTL DEF Spec, WatchdogNeverEarly

\* The exit code agrees with the last event of the log (main.rs:66-78).
THEOREM ExitAgreesWithLogHolds == Spec => []ExitAgreesWithLog
<1>1. IInv => ExitAgreesWithLog
    BY DEF IInv, DriverInv, LogTracksDriver, ControlInv, ExitAgreesWithLog, Acting
<1> QED
    BY <1>1, Inductive, PTL

\* The kernel's log is one the goal lifecycle allows, whatever the inference
\* answers and wherever it panics (agent.rs:121-163, goal.rs:128-163).
THEOREM LoopImplementsLifecycle == Spec => ImplementsLifecycle
<1>1. Init => Lifecycle!Init
    BY StartOpensLifecycle DEF Init
<1>2. IInv /\ [Next]_vars => [Lifecycle!Next]_Lifecycle!vars
    <2> SUFFICES ASSUME IInv, [Next]_vars
                 PROVE  [Lifecycle!Next]_Lifecycle!vars
        OBVIOUS
    <2>1. CASE UNCHANGED driverVars
        BY <2>1 DEF driverVars, Lifecycle!vars
    <2>2. CASE \E result \in TurnResults : Poll(result)
        BY <2>2, AdvanceLifecycle DEF Poll, PollReturns, IInv
    <2>3. CASE Watchdog
        BY <2>3, AdvanceLifecycle DEF Watchdog, IInv, TurnResults
    <2> QED
        BY <2>1, <2>2, <2>3 DEF Next, LoopStep, StartClock, PollPanics, Panic, Clock,
           ArmWakeup, Wake, Exit, WriteExit, ClosePanics, Tick, vars
<1> QED
    BY <1>1, <1>2, Inductive, PTL DEF Spec, ImplementsLifecycle, Lifecycle!Spec

-----------------------------------------------------------------------------
(* For the two inferences: a set of numbers has a least element, and a     *)
(* bounded one a greatest, by the library's theorem on well-founded        *)
(* relations.                                                              *)

Less == {p \in Nat \X Nat : p[1] < p[2]}

\* A non-empty set of numbers has a least element.
LEMMA LeastNumber ==
    ASSUME NEW T \in SUBSET Nat, T # {}
    PROVE  \E m \in T : \A n \in T : m <= n
<1>1. IsWellFoundedOn(Less, Nat)
    BY NatLessThanWellFounded DEF OpToRel, Less
<1>2. PICK m \in T : \A n \in T : <<n, m>> \notin Less
    BY <1>1, WFMin
<1>3. ASSUME NEW n \in T PROVE m <= n
    <2>1. <<n, m>> \in Nat \X Nat /\ <<n, m>> \notin Less
        BY <1>2
    <2>2. ~(n < m)
        BY <2>1 DEF Less
    <2> QED
        BY <2>2
<1> QED
    BY <1>3

\* A non-empty set of numbers up to n has a greatest element.
LEMMA GreatestNumber ==
    ASSUME NEW n \in Nat, NEW T \in SUBSET (1..n), T # {}
    PROVE  \E m \in T : \A k \in T : k <= m
<1> DEFINE D == {n - k : k \in T}
<1>1. D \in SUBSET Nat /\ D # {}
    <2>1. \A k \in T : n - k \in Nat
        OBVIOUS
    <2> QED
        BY <2>1
<1>2. PICK d \in D : \A e \in D : d <= e
    BY <1>1, LeastNumber
<1>3. PICK m \in T : d = n - m
    BY <1>2
<1>4. ASSUME NEW k \in T PROVE k <= m
    <2>1. n - k \in D
        OBVIOUS
    <2>2. n - m <= n - k /\ k \in Nat /\ m \in Nat
        BY <1>2, <1>3, <2>1
    <2> QED
        BY <2>2
<1> QED
    BY <1>4

=============================================================================
