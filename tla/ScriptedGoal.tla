---------------------------- MODULE ScriptedGoal -----------------------------
(***************************************************************************)
(* The kernel's default build: drive_goal over ScriptedInference of        *)
(* agent-core/src/goal.rs, the deterministic "LLM" that replays a          *)
(* transcript.  An exhausted transcript reads as a stall; a Pending entry  *)
(* is never consumed, so only the watchdog gets past it.                   *)
(*                                                                         *)
(* What this composition promises (PRD:108): the same transcript prints the *)
(* same log on every run, however the clock interleaves with the loop.     *)
(***************************************************************************)
EXTENDS KernelLoop

CONSTANT Scripts    \* the transcripts ScriptedInference::new may be given

VARIABLES
    script,     \* steps
    at,         \* the next transcript entry, 1-indexed here
    polls       \* drive_goal's poll counter, printed on the success path

scriptVars == <<script, at, polls>>

allVars == <<vars, scriptVars>>

ASSUME ScriptAssumption == \A s \in Scripts : s \in Seq(TurnResults)

-----------------------------------------------------------------------------

\* The entries of a ScriptStep transcript are the turn results they produce:
\* Continue, ContinueWith(s), Done, Blocked(r), Stall, Pending.
Entry == IF at <= Len(script) THEN script[at] ELSE Stalled

\* Mutant: a Pending entry is consumed like any other.
ConsumedAlways(result) == TRUE

\* ScriptStep::Pending => return Turn::Pending, with pos left where it is.
Consumed(result) == result.kind # "pending"

\* ScriptedInference::next
ScriptedNext(result) ==
    /\ result = Entry
    /\ at' = IF Consumed(result) THEN at + 1 ELSE at

ScriptedInit ==
    /\ Init
    /\ script \in Scripts
    /\ at = 1
    /\ polls = 0

\* polls += 1; driver.poll(inf, emit)
ScriptedPoll ==
    \E result \in TurnResults :
        /\ ScriptedNext(result)
        /\ Poll(result)
        /\ polls' = polls + 1
        /\ UNCHANGED script

\* The loop's other steps.  Nothing in this build panics: the inference does
\* no I/O, and there is no connection to close.
ScriptedStep ==
    \/ ScriptedPoll
    \/ /\ StartClock \/ Clock \/ Watchdog \/ ArmWakeup \/ Wake \/ Exit
       /\ UNCHANGED scriptVars

ScriptedNextState ==
    \/ ScriptedStep
    \/ Tick /\ UNCHANGED scriptVars

ScriptedSpec ==
    /\ ScriptedInit
    /\ [][ScriptedNextState]_allVars
    /\ WF_allVars(ScriptedStep)
    /\ WF_allVars(Tick /\ UNCHANGED scriptVars)

-----------------------------------------------------------------------------
(* The log a transcript stands for, without driver, loop or clock.         *)

\* The step that ends the goal: the first whose entry is not a Continue, or
\* the last that the budget allows.
LastStepOf(s, budget) ==
    CHOOSE k \in 1..budget :
        /\ \A i \in 1..k-1 : i <= Len(s) /\ s[i].kind = "continue"
        /\ k = budget \/ k > Len(s) \/ s[k].kind # "continue"

ConclusionOf(s, k) ==
    CASE k > Len(s) -> Event("failed", k, "stalled")
      [] k <= Len(s) /\ s[k].kind \in {"stalled", "pending"} -> Event("failed", k, "stalled")
      [] k <= Len(s) /\ s[k].kind = "done" -> Event("done", k, "none")
      [] k <= Len(s) /\ s[k].kind = "blocked" -> Event("blocked", k, s[k].text)
      [] k <= Len(s) /\ s[k].kind = "continue" -> Event("done", k, "step budget reached")

LogOf(s, budget) ==
    LET k == LastStepOf(s, budget)
    IN  [i \in 1..k+1 |-> IF i <= k THEN Event("acting", i, "none") ELSE ConclusionOf(s, k)]

-----------------------------------------------------------------------------
(* Properties.                                                             *)

\* "byte-identical UART event log across runs" (PRD:108): the events a run
\* printed are a prefix of the log its transcript stands for, and all of it
\* once the kernel halted, at every interleaving of the loop with the clock.
DeterministicLog ==
    LET log == LogOf(script, maxSteps)
    IN  /\ Len(uart) <= Len(log)
        /\ uart = SubSeq(log, 1, Len(uart))
        /\ pc = "halted" => uart = log

\* "Poll count is deterministic on the success path (every poll transitions)"
\* (agent.rs:148-149): the number printed with Done is the number of
\* transitions in the log.
DeterministicPolls == exit = 0 => polls = Len(uart) - 1

\* The directive of a step carries the steer of the transcript entry that
\* opened it, on every poll of that step, and no other: goal.rs:165-167.
SteerOfPreviousEntry ==
    Acting => /\ at = step
              /\ steer = IF step = 1 THEN NoText ELSE script[step - 1].text

\* With no panic in the way every goal concludes in the log: the lifecycle
\* with its fairness.
ImplementsFairLifecycle == Lifecycle!FairSpec

=============================================================================
