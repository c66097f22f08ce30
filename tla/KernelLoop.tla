----------------------------- MODULE KernelLoop ------------------------------
(***************************************************************************)
(* drive_goal of kernel/src/agent.rs: the cooperative loop that polls an   *)
(* inference, idles in wfi until an armed timer wakes it, and fails a step *)
(* that stays quiet past the step timeout.  One action per stretch of code *)
(* between two reads of the clock; mtime advances on its own in between.   *)
(*                                                                         *)
(* The inference is left open: a poll may return any turn result, or       *)
(* panic.  ScriptedGoal and MeshGoal close it with the two inferences of   *)
(* the repository.                                                         *)
(*                                                                         *)
(* Time is in ticks of an arbitrary granularity.  mtime is 64 bits wide on *)
(* a 10 MHz timebase and never wraps, so wrapping_sub is plain subtraction *)
(* (TimingInv of KernelLoopProofs has stepStarted =< mtime).               *)
(***************************************************************************)
EXTENDS GoalDriver

CONSTANTS
    StepTimeout,    \* step_timeout_ticks()
    IdleQuantum,    \* IDLE_QUANTUM_TICKS
    AwakeTicks      \* the longest the hart is awake in one iteration of the
                    \* loop: an assumption on the machine and on poll

ASSUME TimeAssumption ==
    /\ StepTimeout \in Nat
    /\ IdleQuantum \in Nat \ {0}
    /\ AwakeTicks \in Nat

VARIABLES
    pc,             \* where the loop is
    mtime,          \* CLINT mtime
    mtimecmp,       \* CLINT mtimecmp0
    stepStarted,    \* step_started
    lastStep,       \* last_step
    exit,           \* how QEMU ended: the code written to the finisher
    awake,          \* history: ticks spent awake in this iteration, or since the end
    openedAt        \* history: mtime at which the latest event was emitted

loopVars == <<pc, mtime, mtimecmp, stepStarted, lastStep, exit, awake, openedAt>>

vars == <<driverVars, loopVars>>

Labels == {"start", "poll", "clock", "check", "wfi", "end", "halted"}

Running == 99       \* no exit code yet
ExitCodes == {0, 1, 2, Running}

-----------------------------------------------------------------------------

\* GoalDriver::start has just emitted the first event.  mtimecmp is only read
\* in wfi, and the loop arms it before every wfi: its reset value is immaterial.
Init ==
    /\ Start
    /\ pc = "start"
    /\ mtime = 0
    /\ mtimecmp = 0
    /\ stepStarted = 0
    /\ lastStep = 0
    /\ exit = Running
    /\ awake = 0
    /\ openedAt = 0

\* let mut last_step = driver.step(); let mut step_started = time::mtime();
StartClock ==
    /\ pc = "start"
    /\ pc' = "poll"
    /\ lastStep' = step
    /\ stepStarted' = mtime
    /\ UNCHANGED <<driverVars, mtime, mtimecmp, exit, awake, openedAt>>

\* driver.poll(inf, emit), the inference having answered `result`.
PollReturns(result) ==
    /\ pc' = "clock"
    /\ Advance(result)
    /\ openedAt' = IF uart' = uart THEN openedAt ELSE mtime
    /\ UNCHANGED <<mtime, mtimecmp, stepStarted, lastStep, exit, awake>>

Poll(result) == pc = "poll" /\ PollReturns(result)

\* The panic handler: report and exit_fail(1).  No event is emitted.
Panic ==
    /\ pc' = "halted"
    /\ exit' = 1
    /\ UNCHANGED <<driverVars, mtime, mtimecmp, stepStarted, lastStep, awake, openedAt>>

\* Inference::next panics (a network error under mesh-goal, or out of memory).
PollPanics == pc = "poll" /\ Panic

\* Mutants: every poll restarts the clock; the clock is never restarted.
NewStepAlways == TRUE
ClockStartKept == stepStarted

\* driver.step() != last_step, and the time the new step's clock starts at.
NewStep == step # lastStep
ClockStart == mtime

\* A new in-flight step restarts the stall clock; a goal that left Acting
\* leaves the loop.
Clock ==
    /\ pc = "clock"
    /\ pc' = IF Acting THEN "check" ELSE "end"
    /\ IF NewStep
         THEN lastStep' = step /\ stepStarted' = ClockStart
         ELSE UNCHANGED <<lastStep, stepStarted>>
    /\ awake' = IF Acting THEN awake ELSE 0
    /\ UNCHANGED <<driverVars, mtime, mtimecmp, exit, openedAt>>

\* now.wrapping_sub(step_started) > step_timeout
TimedOut == mtime - stepStarted > StepTimeout

\* The watchdog, not the LLM, fails a quiet step.
Watchdog ==
    /\ pc = "check"
    /\ TimedOut
    /\ pc' = "end"
    /\ Advance(Stalled)
    /\ openedAt' = mtime
    /\ awake' = 0
    /\ UNCHANGED <<mtime, mtimecmp, stepStarted, lastStep, exit>>

\* time::arm_wakeup(now + IDLE_QUANTUM_TICKS), then into wfi.
ArmWakeup ==
    /\ pc = "check"
    /\ ~TimedOut
    /\ pc' = "wfi"
    /\ mtimecmp' = mtime + IdleQuantum
    /\ awake' = 0
    /\ UNCHANGED <<driverVars, mtime, stepStarted, lastStep, exit, openedAt>>

\* Mutant: time::init never set mie.MTIE, so wfi has no wake condition.
TimerNever == FALSE

\* mip.MTIP, with mie.MTIE set.
TimerPending == mtime >= mtimecmp

\* MTIP pends while mtime >= mtimecmp, so wfi cannot miss it, whenever it is
\* entered.
Wake ==
    /\ pc = "wfi"
    /\ TimerPending
    /\ pc' = "poll"
    /\ UNCHANGED <<driverVars, mtime, mtimecmp, stepStarted, lastStep, exit, awake, openedAt>>

\* Mutant: every goal that left the loop passes.
ExitCodePass == 0

ExitCode == IF state = "done" THEN 0 ELSE 2

\* drive_goal's result becomes QEMU's exit code in normal_flow.
WriteExit ==
    /\ pc' = "halted"
    /\ exit' = ExitCode
    /\ UNCHANGED <<driverVars, mtime, mtimecmp, stepStarted, lastStep, awake, openedAt>>

Exit == pc = "end" /\ WriteExit

\* close_clean, between drive_goal and the exit, panics.
ClosePanics == pc = "end" /\ Panic

\* Asleep until mtimecmp, time passes freely; awake, the hart gets through an
\* iteration, and from the end of the loop to the exit, within AwakeTicks.
Asleep == pc = "wfi" /\ mtime < mtimecmp

Tick ==
    /\ pc # "halted"
    /\ IF Asleep
         THEN UNCHANGED awake
         ELSE awake < AwakeTicks /\ awake' = awake + 1
    /\ mtime' = mtime + 1
    /\ UNCHANGED <<driverVars, pc, mtimecmp, stepStarted, lastStep, exit, openedAt>>

LoopStep ==
    \/ StartClock
    \/ \E result \in TurnResults : Poll(result)
    \/ PollPanics
    \/ Clock
    \/ Watchdog
    \/ ArmWakeup
    \/ Wake
    \/ Exit
    \/ ClosePanics

Next == LoopStep \/ Tick

Spec == Init /\ [][Next]_vars

\* The hart executes and the CLINT counts.
FairSpec == Spec /\ WF_vars(LoopStep) /\ WF_vars(Tick)

-----------------------------------------------------------------------------
(* Properties.                                                             *)

\* The state of drive_goal, the CLINT and the exit device have their types,
\* on top of the driver's own.
TypeOK ==
    /\ DriverTypeOK
    /\ pc \in Labels
    /\ mtime \in Nat /\ mtimecmp \in Nat /\ stepStarted \in Nat
    /\ lastStep \in Nat
    /\ exit \in ExitCodes
    /\ awake \in 0..AwakeTicks
    /\ openedAt \in Nat

\* How long a step can be open before the loop fails it: the timeout, the
\* quantum it may be asleep when the timeout passes, and the awake time of
\* the iterations that start and end it.
StallBound == StepTimeout + IdleQuantum + 2 * AwakeTicks

\* "Never silently stall": while a poll returns, no step stays in flight
\* longer than StallBound after the event that announced it, whatever the
\* inference answers (agent.rs:136-145).
StallDeadline ==
    Acting /\ pc # "halted" => mtime - openedAt <= StallBound

\* The watchdog never fails a step early: when the loop itself (not the
\* inference) ends a goal, its last step was announced more than StepTimeout
\* ago.  A clock not restarted on a new step breaks this (agent.rs:131-134).
WatchdogNeverEarly ==
    [][pc = "check" /\ state' # state =>
           /\ state' = "failed"
           /\ mtime - openedAt > StepTimeout]_vars

\* The exit code QEMU reports agrees with the last event of the log: 0 only
\* after Done, 2 only after Failed or Blocked, and never anything while the
\* goal is open except a panic's 1 (main.rs:66-78, agent.rs:147-163).
ExitAgreesWithLog ==
    /\ exit = 0 => uart[Len(uart)].state = "done"
    /\ exit = 2 => uart[Len(uart)].state \in {"failed", "blocked"}
    /\ exit # Running <=> pc = "halted"
    /\ pc \in {"check", "wfi", "poll", "start"} => uart[Len(uart)].state = "acting"

\* A goal run always ends: with the goal's own exit code, or a panic's.
\* wfi always wakes, and a quiet inference is failed (agent.rs:128-145).
Terminates == <>(pc = "halted")

=============================================================================
