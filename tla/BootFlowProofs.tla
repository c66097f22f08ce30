--------------------------- MODULE BootFlowProofs ----------------------------
(***************************************************************************)
(* The builds of the kernel, for any set of feature sets, any peer and any *)
(* budget: a tiny heap ends in a panic, and exit 0 means the narrative.    *)
(* What a phase has left behind is said by the phase after it; the goal is *)
(* the driver's, with the invariant of GoalDriverProofs.                   *)
(***************************************************************************)
EXTENDS BootFlow, GoalDriverProofs, SequenceTheorems

-----------------------------------------------------------------------------
(* What each phase finds.                                                  *)

\* The phases before the first frame.
Gated == {"heap", "timer", "nic", "netSmoke", "meshSmoke", "alloc"}

Words == {"proto", "fold"}

\* The frames printed after k events of the fold.
Frames(k) == [i \in 1..3 + k |-> IF i <= 3 THEN "proto" ELSE "fold"]

\* The frames are those of the phases that have run.
PrintedByPhase ==
    /\ pc \in Gated \union {"proto"} => printed = << >>
    /\ pc = "gates" => printed = Frames(0)
    /\ pc = "fold" => \E k \in 0..4 : printed = Frames(k)
    /\ pc \in {"establish", "goal"} => printed = Frames(4)

\* A tiny heap stops the build before the fold; only a smoke gate has another
\* end that is not the goal's.
PhasesOfBuild ==
    /\ Has("tiny-heap") => pc \notin {"fold", "establish", "goal"}
    /\ pc \in {"netSmoke", "meshSmoke"} => Smoke
    /\ pc # "halted" => exit = Running

\* The script has a turn for every step up to this one.
LastTurn == IF Has("fail-script") THEN 2 ELSE 3

\* The goal before its turn, and in one: the driver with a log of its own,
\* within the script, and done only at the script's end.
GoalByScript ==
    /\ DriverInv
    /\ maxSteps \in {Clamp(n) : n \in MaxStepsArgs}
    /\ pc \notin {"goal", "halted"} => Acting /\ step = 1
    /\ Acting /\ ~Has("mesh-goal") => step <= LastTurn

\* The budget the kernel passes has room for the script (agent.rs:123, goal.rs:96).
RoomForScript == \A n \in MaxStepsArgs : Clamp(n) >= 3

ScriptsEnd == RoomForScript /\ features = {} /\ state = "done" => step = 3

BootInv ==
    /\ PrintedByPhase
    /\ PhasesOfBuild
    /\ GoalByScript
    /\ ScriptsEnd
    /\ OomIsVisible
    /\ RoomForScript => ExitZeroIsTheNarrative

-----------------------------------------------------------------------------

\* The steps that only panic.
LEMMA PanicSteps ==
    SmokeGateFails \/ OutOfMemory \/ NegativeGate \/ EstablishFails \/ GoalPanics => Panic
BY DEF SmokeGateFails, OutOfMemory, NegativeGate, EstablishFails, GoalPanics, NetPhaseFails

\* The narrative, frame by frame.
LEMMA FramesAre ==
    /\ Frames(0) = << "proto", "proto", "proto" >>
    /\ Frames(4) = << "proto", "proto", "proto", "fold", "fold", "fold", "fold" >>
    /\ \A k \in Nat : Frames(k) \in Seq(Words) /\ Len(Frames(k)) = 3 + k
    /\ \A k \in Nat : Append(Frames(k), "fold") = Frames(k + 1)
<1>1. ASSUME NEW k \in Nat
      PROVE  /\ Frames(k) \in Seq(Words) /\ Len(Frames(k)) = 3 + k
             /\ DOMAIN Frames(k) = 1..3 + k
             /\ \A i \in 1..3 + k : Frames(k)[i] = IF i <= 3 THEN "proto" ELSE "fold"
    <2> DEFINE n == 3 + k
    <2>1. n \in Nat /\ n = 3 + k
        OBVIOUS
    <2> HIDE DEF n
    <2>2. PICK f \in [1..n -> Words] :
            f = Frames(k) /\ \A i \in 1..n : f[i] = IF i <= 3 THEN "proto" ELSE "fold"
        <3>1. Frames(k) = [i \in 1..n |-> IF i <= 3 THEN "proto" ELSE "fold"]
            BY <2>1 DEF Frames
        <3>2. [i \in 1..n |-> IF i <= 3 THEN "proto" ELSE "fold"] \in [1..n -> Words]
            BY DEF Words
        <3>3. \A i \in 1..n : Frames(k)[i] = IF i <= 3 THEN "proto" ELSE "fold"
            BY <3>1
        <3> QED
            BY <3>1, <3>2, <3>3
    <2>3. f \in Seq(Words) /\ Len(f) = n /\ DOMAIN f = 1..n
        BY <2>1
    <2> QED
        BY <2>1, <2>2, <2>3
<1>2. ASSUME NEW k \in Nat PROVE Append(Frames(k), "fold") = Frames(k + 1)
    <2> DEFINE longer == Append(Frames(k), "fold")
               next == Frames(k + 1)
    <2>1. /\ longer \in Seq(Words) /\ Len(longer) = 4 + k
          /\ \A i \in 1..3 + k : longer[i] = Frames(k)[i]
          /\ longer[4 + k] = "fold"
        <3>1. PICK s \in Seq(Words) : s = Frames(k) /\ Len(s) = 3 + k
            BY <1>1
        <3>2. "fold" \in Words /\ (3 + k) + 1 = 4 + k
            BY DEF Words
        <3>3. /\ Append(s, "fold") \in Seq(Words) /\ Len(Append(s, "fold")) = 4 + k
              /\ \A i \in 1..3 + k : Append(s, "fold")[i] = s[i]
              /\ Append(s, "fold")[4 + k] = "fold"
            BY <3>1, <3>2, AppendProperties
        <3> QED
            BY <3>1, <3>3
    <2>2. /\ next \in Seq(Words) /\ Len(next) = 4 + k
          /\ \A i \in 1..4 + k : next[i] = IF i <= 3 THEN "proto" ELSE "fold"
        <3>1. k + 1 \in Nat /\ 3 + (k + 1) = 4 + k
            OBVIOUS
        <3> QED
            BY <1>1, <3>1
    <2> HIDE DEF longer, next
    <2>3. \A i \in 1..4 + k : longer[i] = next[i]
        <3> SUFFICES ASSUME NEW i \in 1..4 + k PROVE longer[i] = next[i]
            OBVIOUS
        <3>1. CASE i \in 1..3 + k
            BY <1>1, <2>1, <2>2, <3>1
        <3>2. CASE i = 4 + k
            BY <2>1, <2>2, <3>2
        <3> QED
            BY <3>1, <3>2
    <2>4. longer = next
        BY <2>1, <2>2, <2>3
    <2> QED
        BY <2>4 DEF longer, next
<1>3. Frames(0) = << "proto", "proto", "proto" >>
    BY DEF Frames
<1>4. Frames(4) = << "proto", "proto", "proto", "fold", "fold", "fold", "fold" >>
    BY DEF Frames
<1> QED
    BY <1>1, <1>2, <1>3, <1>4

\* A step that leaves the driver alone, before the goal.
LEMMA QuietStep ==
    ASSUME BootInv, UNCHANGED <<driverVars, features, exit>>,
           pc \notin {"goal", "halted"}, pc' # "halted"
    PROVE  /\ GoalByScript' /\ ScriptsEnd'
           /\ OomIsVisible' /\ ExitZeroIsTheNarrative'
           /\ exit' = Running
<1>1. exit' = Running
    BY DEF BootInv, PhasesOfBuild
<1>2. DriverInv'
    BY DEF BootInv, GoalByScript, driverVars, DriverInv, DriverTypeOK, LogTracksDriver, Acting
<1>3. GoalByScript'
    BY <1>2 DEF BootInv, GoalByScript, driverVars, Acting, Has, LastTurn
<1>4. ScriptsEnd'
    BY DEF BootInv, ScriptsEnd, driverVars
<1> QED
    BY <1>1, <1>3, <1>4 DEF OomIsVisible, ExitZeroIsTheNarrative, Running

\* A phase that prints nothing.
LEMMA PhaseStep ==
    ASSUME BootInv, HeapInit \/ TimeInit \/ NetInit \/ AllocSmoke \/ NormalGate \/ Establish
    PROVE  BootInv'
<1>1. /\ UNCHANGED <<driverVars, features, exit, printed>>
      /\ pc \notin {"goal", "halted"} /\ pc' # "halted"
    BY DEF HeapInit, TimeInit, NetInit, AllocSmoke, NormalGate, Establish, NetPhase, Goes, bootVars
<1>2. PrintedByPhase'
    <2>1. PrintedByPhase
        BY DEF BootInv
    <2>2. CASE pc' \in Gated \union {"proto"}
        <3>1. pc \in Gated
            BY <2>2 DEF HeapInit, TimeInit, NetInit, AllocSmoke, NormalGate, Establish, NetPhase,
                        Goes, Gated
        <3> QED
            BY <1>1, <2>1, <2>2, <3>1 DEF PrintedByPhase, Gated
    <2>3. CASE pc' = "fold"
        <3>1. pc = "gates"
            BY <2>3 DEF HeapInit, TimeInit, NetInit, AllocSmoke, NormalGate, Establish, NetPhase,
                        Goes
        <3>2. printed' = Frames(0) /\ 0 \in 0..4
            BY <1>1, <2>1, <3>1 DEF PrintedByPhase
        <3> QED
            BY <2>3, <3>2 DEF PrintedByPhase, Gated
    <2>4. CASE pc' = "goal"
        <3>1. pc = "establish"
            BY <2>4 DEF HeapInit, TimeInit, NetInit, AllocSmoke, NormalGate, Establish, NetPhase,
                        Goes
        <3> QED
            BY <1>1, <2>1, <2>4, <3>1 DEF PrintedByPhase, Gated
    <2> QED
        BY <2>2, <2>3, <2>4
        DEF HeapInit, TimeInit, NetInit, AllocSmoke, NormalGate, Establish, NetPhase, Goes, Gated
<1>3. PhasesOfBuild'
    BY <1>1
    DEF HeapInit, TimeInit, NetInit, AllocSmoke, NormalGate, Establish, NetPhase, Goes, bootVars,
        BootInv, PhasesOfBuild, Has, Smoke, AllocatesMuch
<1> QED
    BY <1>1, <1>2, <1>3, QuietStep DEF BootInv

\* The phases that print frames.
LEMMA PrintStep ==
    ASSUME BootInv, ProtoRun \/ FoldDemo
    PROVE  BootInv'
<1>1. CASE ProtoRun
    <2>1. /\ UNCHANGED <<driverVars, features, exit>>
          /\ pc = "proto" /\ pc' = "gates"
          /\ printed' = printed \o << "proto", "proto", "proto" >>
        BY <1>1 DEF ProtoRun, Goes
    <2>2. printed = << >>
        BY <2>1 DEF BootInv, PrintedByPhase
    <2>3. printed' = Frames(0)
        BY <2>1, <2>2, FramesAre
    <2>4. PrintedByPhase'
        BY <2>1, <2>3 DEF PrintedByPhase, Gated
    <2>5. PhasesOfBuild'
        BY <2>1 DEF BootInv, PhasesOfBuild, Has
    <2> QED
        BY <2>1, <2>4, <2>5, QuietStep DEF BootInv
<1>2. CASE FoldDemo
    <2>1. /\ UNCHANGED <<driverVars, features, exit, pc>>
          /\ pc = "fold" /\ Len(printed) < 7
          /\ printed' = Append(printed, "fold")
        BY <1>2 DEF FoldDemo
    <2>2. PICK k \in 0..4 : printed = Frames(k)
        BY <2>1 DEF BootInv, PrintedByPhase
    <2>3. k \in 0..3 /\ k \in Nat
        <3>1. k \in Nat
            OBVIOUS
        <3>2. Len(printed) = 3 + k
            BY <2>2, <3>1, FramesAre
        <3> QED
            BY <2>1, <3>1, <3>2
    <2>4. printed' = Frames(k + 1) /\ k + 1 \in 0..4
        <3>1. Append(Frames(k), "fold") = Frames(k + 1)
            BY <2>3, FramesAre
        <3>2. k + 1 \in 0..4
            BY <2>3
        <3> QED
            BY <2>1, <2>2, <3>1, <3>2
    <2>5. PrintedByPhase'
        BY <2>1, <2>4 DEF PrintedByPhase, Gated
    <2>6. PhasesOfBuild'
        BY <2>1 DEF BootInv, PhasesOfBuild, Has, Smoke
    <2> QED
        BY <2>1, <2>5, <2>6, QuietStep DEF BootInv
<1> QED
    BY <1>1, <1>2

\* A panic, wherever it comes from.
LEMMA PanicStep ==
    ASSUME BootInv, Panic
    PROVE  BootInv'
<1>1. /\ pc' = "halted" /\ exit' = 1
      /\ UNCHANGED <<driverVars, features>>
    BY DEF Panic, ExitWith
<1>2. DriverInv'
    BY <1>1 DEF BootInv, GoalByScript, driverVars, DriverInv, DriverTypeOK, LogTracksDriver, Acting
<1>3. GoalByScript'
    BY <1>1, <1>2 DEF BootInv, GoalByScript, driverVars, Acting, Has, LastTurn
<1>4. ScriptsEnd'
    BY <1>1 DEF BootInv, ScriptsEnd, driverVars
<1>5. PrintedByPhase' /\ PhasesOfBuild'
    BY <1>1 DEF PrintedByPhase, PhasesOfBuild, Gated
<1> QED
    BY <1>1, <1>3, <1>4, <1>5 DEF BootInv, OomIsVisible, ExitZeroIsTheNarrative

\* The fold's assertions: all seven frames are out.
LEMMA AssertsStep ==
    ASSUME BootInv, FoldAsserts
    PROVE  BootInv'
<1>1. pc = "fold" /\ Len(printed) = 7
    BY DEF FoldAsserts
<1>2. CASE Panic
    BY <1>2, PanicStep
<1>3. CASE ~Panic
    <2>1. /\ UNCHANGED <<driverVars, features, exit, printed>>
          /\ pc' \in {"establish", "goal"}
        BY <1>3 DEF FoldAsserts, Goes, bootVars
    <2>2. PICK k \in 0..4 : printed = Frames(k)
        BY <1>1 DEF BootInv, PrintedByPhase
    <2>3. k = 4
        <3>1. k \in Nat
            OBVIOUS
        <3>2. Len(printed) = 3 + k
            BY <2>2, <3>1, FramesAre
        <3>3. 3 + k = 7
            BY <1>1, <3>2
        <3> QED
            BY <3>1, <3>3
    <2>4. PrintedByPhase'
        BY <2>1, <2>2, <2>3 DEF PrintedByPhase, Gated
    <2>5. PhasesOfBuild'
        BY <1>1, <2>1 DEF BootInv, PhasesOfBuild, Has
    <2> QED
        BY <1>1, <2>1, <2>4, <2>5, QuietStep DEF BootInv
<1> QED
    BY <1>2, <1>3

\* A smoke gate that passes; it is not the narrative's exit 0.
LEMMA GateStep ==
    ASSUME BootInv, SmokeGate
    PROVE  BootInv'
<1>1. /\ pc' = "halted" /\ exit' = 0 /\ pc \in {"netSmoke", "meshSmoke"}
      /\ UNCHANGED <<driverVars, features>>
      /\ ~Has("tiny-heap")
    BY DEF SmokeGate, SmokePasses, NetPhase, ExitWith, AllocatesMuch
<1>2. DriverInv'
    BY <1>1 DEF BootInv, GoalByScript, driverVars, DriverInv, DriverTypeOK, LogTracksDriver, Acting
<1>3. GoalByScript'
    BY <1>1, <1>2 DEF BootInv, GoalByScript, driverVars, Acting, Has, LastTurn
<1>4. ScriptsEnd'
    BY <1>1 DEF BootInv, ScriptsEnd, driverVars
<1>5. PrintedByPhase' /\ PhasesOfBuild'
    BY <1>1 DEF PrintedByPhase, PhasesOfBuild, Gated
<1>6. Smoke' /\ ~Has("tiny-heap")'
    BY <1>1 DEF BootInv, PhasesOfBuild, Smoke, Has
<1> QED
    BY <1>3, <1>4, <1>5, <1>6 DEF BootInv, OomIsVisible, ExitZeroIsTheNarrative

-----------------------------------------------------------------------------
(* The goal.                                                               *)

\* What a turn can be: of the script, the turn of the step in flight.
LEMMA TurnsAre ==
    ASSUME BootInv, GoalStep, NEW r \in Turns
    PROVE  /\ r \in TurnResults
           /\ ~Has("mesh-goal") /\ step < LastTurn => \E s \in Texts \union {NoText} : r = ContinueVerdict(s)
           /\ ~Has("mesh-goal") /\ step >= LastTurn => r \in {Pending, DoneVerdict}
           /\ features = {} /\ step >= 3 => r = DoneVerdict
<1> USE FeatureAssumption
<1>1. step \in Nat \ {0} /\ Acting
    BY LogFacts DEF BootInv, GoalByScript, GoalStep
<1>2. /\ {Pending, DoneVerdict} \subseteq TurnResults
      /\ \A s \in Texts \union {NoText} : ContinueVerdict(s) \in TurnResults
    BY DEF TurnResults
<1>3. CASE ~Has("mesh-goal")
    <2>1. r = Script[step] /\ step <= LastTurn
        BY <1>1, <1>3 DEF Turns, BootInv, GoalByScript
    <2>2. CASE Has("fail-script")
        <3>1. Script = << ContinueVerdict(NoText), Pending >> /\ LastTurn = 2 /\ features # {}
            BY <2>2 DEF Script, LastTurn, Has
        <3>2. step = 1 \/ step = 2
            BY <1>1, <2>1, <3>1
        <3> QED
            BY <1>2, <2>1, <3>1, <3>2
    <2>3. CASE ~Has("fail-script")
        <3>1. /\ Script = << ContinueVerdict(NoText), ContinueVerdict(WrapUp), DoneVerdict >>
              /\ LastTurn = 3
            BY <2>3 DEF Script, LastTurn
        <3>2. step = 1 \/ step = 2 \/ step = 3
            BY <1>1, <2>1, <3>1
        <3> QED
            BY <1>2, <2>1, <3>1, <3>2
    <2> QED
        BY <2>2, <2>3
<1>4. CASE Has("mesh-goal")
    <2>1. features # {}
        BY <1>4 DEF Has
    <2>2. r \in TurnResults
        BY <1>2, <1>4 DEF Turns
    <2> QED
        BY <1>4, <2>1, <2>2
<1> QED
    BY <1>3, <1>4

\* The driver's steps under the script.
LEMMA GoalStepInv ==
    ASSUME BootInv, GoalStep
    PROVE  BootInv'
<1>1. /\ pc = "goal" /\ Acting
      /\ UNCHANGED <<printed, features, pc, exit>>
    BY DEF GoalStep, bootVars
<1>2. PICK r \in Turns : Advance(IF r = Pending THEN Stalled ELSE r)
    BY DEF GoalStep
<1>3. PICK result : result = IF r = Pending THEN Stalled ELSE r
    OBVIOUS
<1>4. /\ r \in TurnResults
      /\ ~Has("mesh-goal") /\ step < LastTurn => \E s \in Texts \union {NoText} : r = ContinueVerdict(s)
      /\ ~Has("mesh-goal") /\ step >= LastTurn => r \in {Pending, DoneVerdict}
      /\ features = {} /\ step >= 3 => r = DoneVerdict
    BY TurnsAre
<1>5. result \in TurnResults /\ Advance(result)
    BY <1>2, <1>3, <1>4 DEF TurnResults
<1>6. DriverInv
    BY DEF BootInv, GoalByScript
<1>7. DriverInv'
    BY <1>5, <1>6, AdvanceDriverInv
<1>8. step \in Nat \ {0} /\ maxSteps \in Nat \ {0} /\ step <= maxSteps
    BY <1>6, LogFacts
<1>9. maxSteps' = maxSteps
    BY <1>5, <1>6, AdvanceCases DEF driverVars, Finish, NextStep
<1>10. result.kind # "pending"
    BY <1>3, <1>4 DEF TurnResults, Pending, Stalled, DoneVerdict, BlockedVerdict, ContinueVerdict
<1>11. Acting' /\ ~Has("mesh-goal")' => step' <= LastTurn'
    <2> SUFFICES ASSUME Acting', ~Has("mesh-goal") PROVE step' <= LastTurn
        BY <1>1 DEF Has, LastTurn
    <2>1. LastTurn \in {2, 3}
        BY DEF LastTurn
    <2>2. result.kind = "continue" /\ NextStep(result.text)
        BY <1>1, <1>5, <1>10 DEF Advance, Acting, Finish, Continue
    <2>3. step < LastTurn
        <3> SUFFICES ASSUME step >= LastTurn PROVE FALSE
            BY <1>8, <2>1
        <3>1. r \in {Pending, DoneVerdict}
            BY <1>4
        <3> QED
            BY <1>3, <2>2, <3>1 DEF Pending, Stalled, DoneVerdict
    <2> QED
        BY <1>8, <2>1, <2>2, <2>3 DEF NextStep
<1>12. ScriptsEnd'
    <2> SUFFICES ASSUME RoomForScript, features = {}, state' = "done" PROVE step' = 3
        BY <1>1 DEF ScriptsEnd
    <2>1. LastTurn = 3 /\ ~Has("mesh-goal")
        BY DEF LastTurn, Has
    <2>2. maxSteps >= 3
        BY DEF BootInv, GoalByScript, RoomForScript
    <2>3. step <= 3
        BY <1>1, <2>1 DEF BootInv, GoalByScript
    <2>4. CASE step < 3
        <3>1. PICK s \in Texts \union {NoText} : r = ContinueVerdict(s)
            BY <1>4, <2>1, <2>4
        <3>2. result.kind = "continue"
            BY <1>3, <3>1 DEF ContinueVerdict, Pending
        <3>3. ~BudgetSpent
            BY <1>8, <2>2, <2>4 DEF BudgetSpent
        <3> QED
            BY <1>1, <1>5, <3>2, <3>3 DEF Advance, Continue, NextStep, Acting
    <2>5. CASE step = 3
        <3>1. result.kind = "done"
            BY <1>3, <1>4, <2>5 DEF DoneVerdict, Pending
        <3> QED
            BY <1>1, <1>5, <2>5, <3>1 DEF Advance, Finish
    <2> QED
        BY <1>8, <2>3, <2>4, <2>5
<1>13. GoalByScript'
    BY <1>1, <1>7, <1>9, <1>11 DEF BootInv, GoalByScript
<1>14. PrintedByPhase' /\ PhasesOfBuild'
    BY <1>1 DEF BootInv, PrintedByPhase, PhasesOfBuild, Has, Smoke
<1>15. exit = Running
    BY <1>1 DEF BootInv, PhasesOfBuild
<1> QED
    BY <1>1, <1>12, <1>13, <1>14, <1>15 DEF BootInv, OomIsVisible, ExitZeroIsTheNarrative, Running

\* The goal's end: what has been printed is the narrative.
LEMMA GoalEndsInv ==
    ASSUME BootInv, GoalEnds
    PROVE  BootInv'
<1>1. CASE Panic
    BY <1>1, PanicStep
<1>2. CASE ExitWith(GoalExit)
    <2>1. /\ pc = "goal" /\ ~Acting /\ pc' = "halted"
          /\ UNCHANGED <<driverVars, printed, features>>
          /\ exit' = IF state = "done" THEN 0 ELSE 2
        BY <1>2 DEF GoalEnds, ExitWith, GoalExit, bootVars
    <2>2. DriverInv'
        BY <2>1 DEF BootInv, GoalByScript, driverVars, DriverInv, DriverTypeOK, LogTracksDriver, Acting
    <2>3. GoalByScript'
        BY <2>1, <2>2 DEF BootInv, GoalByScript, driverVars, Acting, Has, LastTurn
    <2>4. ScriptsEnd'
        BY <2>1 DEF BootInv, ScriptsEnd, driverVars
    <2>5. PrintedByPhase' /\ PhasesOfBuild'
        BY <2>1 DEF PrintedByPhase, PhasesOfBuild, Gated
    <2>6. OomIsVisible'
        BY <2>1 DEF BootInv, PhasesOfBuild, OomIsVisible, Has
    <2>7. RoomForScript => ExitZeroIsTheNarrative'
        <3> SUFFICES ASSUME RoomForScript, state = "done"
                     PROVE  ExitZeroIsTheNarrative'
            BY <2>1 DEF ExitZeroIsTheNarrative
        <3>1. printed' = Frames(4)
            BY <2>1 DEF BootInv, PrintedByPhase
        <3>2. uart'[Len(uart')].state = "done" /\ Len(uart') = step' + 1
            BY <2>1, <2>2 DEF DriverInv, LogTracksDriver, driverVars, Acting
        <3>3. features' = {} => step' = 3
            BY <2>1, <2>4 DEF ScriptsEnd, RoomForScript, driverVars
        <3>4. Len(printed' \o uart') = 7 + Len(uart')
            <4>1. uart' \in Seq(Events)
                BY <2>2 DEF DriverInv, DriverTypeOK, Events
            <4>2. printed' \in Seq(Words) /\ Len(printed') = 7
                <5>1. 4 \in Nat /\ 3 + 4 = 7
                    OBVIOUS
                <5> QED
                    BY <3>1, <5>1, FramesAre
            <4> DEFINE Entries == Words \union Events
            <4>3. printed' \in Seq(Entries) /\ uart' \in Seq(Entries)
                <5>1. Words \subseteq Entries /\ Events \subseteq Entries
                    OBVIOUS
                <5> HIDE DEF Entries
                <5> QED
                    BY <4>1, <4>2, <5>1
            <4> HIDE DEF Entries
            <4>4. PICK frames \in Seq(Entries), log \in Seq(Entries) : frames = printed' /\ log = uart'
                BY <4>3
            <4>5. Len(frames \o log) = Len(frames) + Len(log)
                BY ConcatProperties
            <4> QED
                BY <4>2, <4>4, <4>5
        <3>5. features' = {} => Len(printed' \o uart') = 11 /\ step' = 3
            BY <3>2, <3>3, <3>4
        <3> QED
            BY <3>1, <3>2, <3>5, FramesAre DEF ExitZeroIsTheNarrative
    <2> QED
        BY <2>3, <2>4, <2>5, <2>6, <2>7 DEF BootInv, RoomForScript
<1> QED
    BY <1>1, <1>2 DEF GoalEnds

\* What the phases leave behind, throughout every build.
LEMMA BootInvariant == Spec => []BootInv
<1>1. Init => BootInv
    <2> SUFFICES ASSUME Init PROVE BootInv
        OBVIOUS
    <2>1. DriverInv
        BY StartDriverInv DEF Init
    <2>2. GoalByScript
        BY <2>1 DEF Init, Start, GoalByScript, Acting, LastTurn
    <2> QED
        BY <2>2 DEF Init, Start, BootInv, PrintedByPhase, PhasesOfBuild, ScriptsEnd, OomIsVisible,
                    ExitZeroIsTheNarrative, Running
<1>2. BootInv /\ [Next]_allVars => BootInv'
    <2> SUFFICES ASSUME BootInv, [Next]_allVars PROVE BootInv'
        OBVIOUS
    <2>1. CASE UNCHANGED allVars
        <3>1. UNCHANGED <<pc, exit, printed, features, state, step, maxSteps, steer, uart>>
            BY <2>1 DEF allVars, driverVars, bootVars
        <3> QED
            BY <3>1 DEF BootInv, PrintedByPhase, PhasesOfBuild, GoalByScript, ScriptsEnd,
                        OomIsVisible, ExitZeroIsTheNarrative, Has, Smoke, LastTurn, RoomForScript,
                        DriverInv, DriverTypeOK, LogTracksDriver, Acting
    <2>2. CASE Next
        BY <2>2, PanicSteps, PanicStep, PhaseStep, PrintStep, AssertsStep, GateStep, GoalStepInv,
           GoalEndsInv DEF Next
    <2> QED
        BY <2>1, <2>2
<1> QED
    BY <1>1, <1>2, PTL DEF Spec

\* No build with the tiny heap, whatever else it is built for and whatever
\* answers, ends with any other code than the panic handler's: the smoke gates
\* and the goal are out of its reach (heap.rs:3-5, main.rs:37-71).
THEOREM OomIsVisibleHolds == Spec => []OomIsVisible
<1>1. BootInv => OomIsVisible
    BY DEF BootInv
<1> QED
    BY <1>1, BootInvariant, PTL

\* Exit 0 of a build without a smoke gate means that every frame of the
\* narrative is out, for any feature set, peer, budget and steer, if the budget
\* the kernel passes leaves room for the script's three steps: it passes 8, of
\* at most 100 (main.rs:37-71, agent.rs:123, goal.rs:34).
THEOREM ExitZeroIsTheNarrativeHolds ==
    ASSUME RoomForScript
    PROVE  Spec => []ExitZeroIsTheNarrative
<1>1. BootInv => ExitZeroIsTheNarrative
    BY DEF BootInv
<1> QED
    BY <1>1, BootInvariant, PTL

=============================================================================
