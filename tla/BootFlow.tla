------------------------------ MODULE BootFlow -------------------------------
(***************************************************************************)
(* kernel/src/main.rs from the banner to the exit device, for every set of *)
(* build features: the smoke gates, the negative gates, fold_demo over the *)
(* SystemState of SystemStateFold, and the goal run with the GoalDriver of *)
(* GoalDriver.  Each phase is one step here; what happens inside the long  *)
(* ones is the subject of KernelLoop, MeshGoal, MeshSession and NetSmoke.  *)
(*                                                                         *)
(* The peer is the mode mockd runs in, or "other": anything, or nothing.   *)
(***************************************************************************)
EXTENDS GoalDriver

CONSTANTS
    Features,       \* the feature sets to build with
    WrapUp          \* the steer of SCRIPT_SUCCESS

VARIABLES
    features,       \* of this build
    nicPresent,     \* QEMU has a virtio-net device
    peer,           \* what answers at the gateway's address
    pc,             \* the next phase
    heapReady,      \* heap::init has run
    timerOn,        \* time::init has run: mie.MTIE is set
    printed,        \* the JSON frames printed before the goal's
    exit,           \* the code QEMU ends with, or Running
    sessions, tools, plugins, approvals, pluginsInOrder, strays

ASSUME FeatureAssumption == WrapUp \in Texts

Running == 99

foldVars == <<sessions, tools, plugins, approvals, pluginsInOrder, strays>>
bootVars == <<heapReady, timerOn, printed>>
allVars == <<driverVars, foldVars, bootVars, features, nicPresent, peer, pc, exit>>

Has(f) == f \in features
Smoke == Has("net-smoke") \/ Has("mesh-smoke")

State == INSTANCE SystemStateFold WITH
             Sessions <- {1}, Plugins <- {"cerebro"}, Actions <- {7},
             Tools <- {"cerebro.recall", "cerebro.store"},
             None <- NoText, MaxStrays <- 0, MaxHistory <- 1, MaxSpawned <- 0

-----------------------------------------------------------------------------
(* Ends, and what a phase may need.                                        *)

\* The exit device, and the panic handler in front of it.
ExitWith(code) ==
    /\ pc' = "halted"
    /\ exit' = code
    /\ UNCHANGED <<driverVars, foldVars, bootVars, features, nicPresent, peer>>

Panic == ExitWith(1)

\* An allocation fails before heap::init, and may fail in a heap of 1 KiB; one
\* of 4 KiB or more cannot succeed there.
Allocates == heapReady
RunsOut == ~heapReady \/ Has("tiny-heap")
AllocatesMuch == heapReady /\ ~Has("tiny-heap")

\* wfi comes back only if the timer can wake it.
Sleeps == timerOn

Goes(label) == pc' = label /\ UNCHANGED <<features, nicPresent, peer, exit>>

-----------------------------------------------------------------------------
(* main.                                                                   *)

HeapInit ==
    /\ pc = "heap"
    /\ heapReady' = TRUE
    /\ Goes("timer")
    /\ UNCHANGED <<driverVars, foldVars, timerOn, printed>>

\* Mutant: mie.MTIE stays clear.
MtieClear == FALSE

\* time::init sets mie.MTIE.
MtieSet == TRUE

TimeInit ==
    /\ pc = "timer"
    /\ timerOn' = MtieSet
    /\ Goes("nic")
    /\ UNCHANGED <<driverVars, foldVars, heapReady, printed>>

\* net::init; then the smoke gates, which diverge, or normal_flow.
NetInit ==
    /\ pc = "nic"
    /\ nicPresent => Allocates
    /\ Goes(IF Has("net-smoke") THEN "netSmoke"
            ELSE IF Has("mesh-smoke") THEN "meshSmoke" ELSE "alloc")
    /\ UNCHANGED <<driverVars, foldVars, bootVars>>

\* A gate over the network: it needs the NIC and room for its buffers, and
\* passes if the right peer answers; any other may still satisfy it.
NetPhase(label) ==
    /\ pc = label
    /\ nicPresent /\ AllocatesMuch /\ Sleeps

NetPhaseFails(label, peers) ==
    /\ pc = label
    /\ ~nicPresent \/ RunsOut \/ peer \notin peers
    /\ Panic

SmokePasses == NetPhase("netSmoke") \/ NetPhase("meshSmoke")

SmokeGate == SmokePasses /\ ExitWith(0)

SmokeGateFails ==
    \/ NetPhaseFails("netSmoke", {"echo"})
    \/ NetPhaseFails("meshSmoke", {"ws", "llm", "silent"})

\* The alloc smoke, then proto::run: three frames that survive a round trip.
AllocSmoke ==
    /\ pc = "alloc"
    /\ Allocates
    /\ Goes("proto")
    /\ UNCHANGED <<driverVars, foldVars, bootVars>>

ProtoRun ==
    /\ pc = "proto"
    /\ Allocates
    /\ printed' = printed \o << "proto", "proto", "proto" >>
    /\ Goes("gates")
    /\ UNCHANGED <<driverVars, foldVars, heapReady, timerOn>>

\* Out of memory in any phase that allocates is a panic.
OutOfMemory ==
    /\ pc \in {"alloc", "proto", "fold", "goal"} \union (IF nicPresent THEN {"nic"} ELSE {})
    /\ RunsOut
    /\ Panic

\* The 4 KiB allocation of tiny-heap, then the intentional panic.
NegativeGate ==
    /\ pc = "gates"
    /\ \/ Has("tiny-heap") /\ ~AllocatesMuch
       \/ Has("panic-test")
    /\ Panic

NormalGate ==
    /\ pc = "gates"
    /\ Has("tiny-heap") => AllocatesMuch
    /\ ~Has("panic-test")
    /\ Goes("fold")
    /\ UNCHANGED <<driverVars, foldVars, bootVars>>

-----------------------------------------------------------------------------
(* agent::run.                                                             *)

\* The script of fold_demo: each event is printed and applied.
FoldDemo ==
    /\ pc = "fold"
    /\ Allocates
    /\ Len(printed) < 7
    /\ CASE Len(printed) = 3 -> State!UserPrompt(1)
         [] Len(printed) = 4 -> State!PluginUp("cerebro", {"cerebro.recall", "cerebro.store"})
         [] Len(printed) = 5 -> State!ApprovalPending(1, 7)
         [] Len(printed) = 6 -> State!UserApproval(7)
    /\ printed' = Append(printed, "fold")
    /\ UNCHANGED <<driverVars, heapReady, timerOn, features, nicPresent, peer, pc, exit>>

\* The assertions of fold_demo.
ColonyHolds ==
    /\ sessions[1] = [State!Root EXCEPT !.history = 1]
    /\ \A t \in {"cerebro.recall", "cerebro.store"} : tools[t] # NoText
    /\ approvals[7] = NoText

FoldAsserts ==
    /\ pc = "fold"
    /\ Len(printed) = 7
    /\ \/ /\ ColonyHolds
          /\ Goes(IF Has("mesh-goal") THEN "establish" ELSE "goal")
          /\ UNCHANGED <<driverVars, foldVars, bootVars>>
       \/ ~ColonyHolds /\ Panic

Establish ==
    /\ NetPhase("establish")
    /\ Goes("goal")
    /\ UNCHANGED <<driverVars, foldVars, bootVars>>

EstablishFails == NetPhaseFails("establish", {"ws", "llm", "silent"})

\* SCRIPT_SUCCESS, SCRIPT_HANG, and the mock's turns.
Script ==
    IF Has("fail-script") THEN << ContinueVerdict(NoText), Pending >>
    ELSE << ContinueVerdict(NoText), ContinueVerdict(WrapUp), DoneVerdict >>

Turns ==
    IF ~Has("mesh-goal") THEN {Script[step]}
    ELSE CASE peer = "llm" -> {IF step < 3 THEN ContinueVerdict(NoText) ELSE DoneVerdict}
           [] peer \in {"ws", "silent"} -> {Pending}
           [] OTHER -> TurnResults

\* A step of the goal: its turn completes, or it stays pending until the
\* watchdog reports it stalled.  Between two polls the loop sleeps.
GoalStep ==
    /\ pc = "goal"
    /\ Acting
    /\ Allocates
    /\ \E r \in Turns :
          /\ Advance(IF r = Pending THEN Stalled ELSE r)
          /\ state' = "acting" \/ r = Pending => Sleeps
    /\ UNCHANGED <<foldVars, bootVars, features, nicPresent, peer, pc, exit>>

\* The mesh panics in a poll.
GoalPanics ==
    /\ pc = "goal"
    /\ Has("mesh-goal") /\ peer \notin {"ws", "llm", "silent"}
    /\ Panic

\* Mutant of GoalExit: a blocked goal counts as done.
GoalExitConcluded == IF state \in {"done", "blocked", "failed"} THEN 0 ELSE 2

GoalExit == IF state = "done" THEN 0 ELSE 2

\* The goal has concluded; under mesh-goal close_clean comes first, and may
\* panic.
GoalEnds ==
    /\ pc = "goal"
    /\ ~Acting
    /\ \/ /\ Has("mesh-goal") => Sleeps
          /\ ExitWith(GoalExit)
       \/ /\ Has("mesh-goal") /\ peer \notin {"ws", "llm", "silent"}
          /\ Panic

-----------------------------------------------------------------------------

Init ==
    /\ Start
    /\ State!Init
    /\ features \in Features
    /\ nicPresent \in BOOLEAN
    /\ peer \in {"echo", "ws", "llm", "silent", "other"}
    /\ pc = "heap"
    /\ heapReady = FALSE
    /\ timerOn = FALSE
    /\ printed = << >>
    /\ exit = Running

Next ==
    \/ HeapInit \/ TimeInit \/ NetInit \/ SmokeGate \/ SmokeGateFails
    \/ AllocSmoke \/ ProtoRun \/ OutOfMemory \/ NegativeGate \/ NormalGate
    \/ FoldDemo \/ FoldAsserts \/ Establish \/ EstablishFails
    \/ GoalStep \/ GoalPanics \/ GoalEnds

Spec == Init /\ [][Next]_allVars /\ WF_allVars(Next)

-----------------------------------------------------------------------------
(* Properties.                                                             *)

\* The gates of the repository: features, mock, and the exit code each is
\* checked for (PLAN.md:72,85,116, scripts/run-mesh-qemu.sh:10-13).
Gates ==
    { <<{}, "other", 0>>, <<{"panic-test"}, "other", 1>>, <<{"tiny-heap"}, "other", 1>>,
      <<{"fail-script"}, "other", 2>>, <<{"net-smoke"}, "echo", 0>>,
      <<{"mesh-smoke"}, "ws", 0>>, <<{"mesh-goal"}, "llm", 0>>, <<{"mesh-goal"}, "silent", 2>> }

\* Each gate ends with its code: no phase it needs has been left out, none
\* that diverges comes before it, and every assertion on the way holds.
GatesPass ==
    \A g \in Gates :
        features = g[1] /\ peer = g[2] /\ nicPresent ~> exit = g[3]

\* Every build ends, with or without a NIC, whatever answers: "never a silent
\* hang" (heap.rs:5), and a wfi that nothing wakes is one (time.rs:14-18).
EveryBuildEnds == <>(pc = "halted")

\* "OOM is always visible" (heap.rs:3-5): no build with the tiny heap gets to
\* any other exit code than the panic handler's, whatever else it is built for.
OomIsVisible == Has("tiny-heap") /\ pc = "halted" => exit = 1

\* Exit 0 of a build without a smoke gate means that the whole narrative has
\* been printed, three wire frames, the four of the fold and the goal's, which
\* end with Done (main.rs:37-71); in the default build they are eleven, and
\* the goal's are its three steps and its Done (cross_repo.rs:24-60).
ExitZeroIsTheNarrative ==
    exit = 0 /\ ~Smoke =>
        /\ printed = << "proto", "proto", "proto", "fold", "fold", "fold", "fold" >>
        /\ uart[Len(uart)].state = "done"
        /\ features = {} => Len(printed \o uart) = 11 /\ step = 3

=============================================================================
