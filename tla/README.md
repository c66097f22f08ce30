# A TLA+ development of ApexOS-RV

ApexOS-RV is a bare-metal RISC-V kernel that runs one agent of the ApexOS
colony: it folds the colony's events into a state, drives one *goal* step by
step, and prints every transition as a JSON event on the UART.  The verdict of a
step comes from an *inference*: a compiled-in transcript in the default build,
a colony gateway over a WebSocket in the `mesh-goal` build.  A watchdog fails a
step that stays quiet.  QEMU's exit code is the outcome.

This directory models the parts of that program whose correctness depends on
order and time, checks them with TLC on small instances, and proves the main
results with TLAPS for every value of the constants.  Paths below are relative
to `src/`.

## 1. The system

### 1.1 Components

| component | where | state | operations |
|---|---|---|---|
| goal driver | `agent-core/src/goal.rs` | `state`, `step`, `max_steps`, `steer`; everything it does is emitted | `start`, `poll`, `advance` |
| scripted inference | `goal.rs` | transcript, position | `next` |
| verdict parsing | `goal.rs` | none | `parse_goal_step`, `step_directive` |
| state fold | `agent-core/src/state.rs` | sessions, tools, plugins, pending approvals | `apply`, `register_child`, `subtree` |
| gateway frames | `agent-core/src/gateway.rs` | none | serialisation of control frames |
| cooperative loop | `kernel/src/agent.rs` | `last_step`, `step_started`, `polls` | `drive_goal`, `run`, `fold_demo` |
| clock | `kernel/src/time.rs` | CLINT `mtime`, `mtimecmp`, `mie.MTIE` | `init`, `mtime`, `arm_wakeup` |
| mesh session | `kernel/src/net/mesh.rs` | `rx_raw`, `msg_partial`, the socket | `establish`, `send_text`, `try_next_text`, `close_clean` |
| mesh inference | `kernel/src/net/mesh.rs` | `in_flight`, `reply` | `next` |
| NIC bring-up | `kernel/src/net/{mod,smol}.rs` | DMA bump arena, the token pair | `init`, `dma_alloc`, `dma_dealloc`, the smoltcp `Device` |
| boot and gates | `kernel/src/{main,qemu,proto,heap,uart}.rs` | none after boot | the feature-selected boot sequence, panic handler, exit device |
| event protocol | `vendor/apexos-protocol` | none | types and their wire form |
| net-smoke gate | `kernel/src/net/smoke.rs` | `buf`, `echoed`, `sent` | `run` |
| gateway mock | `xtest/src/bin/mockd.rs` | turn counter | modes `llm`, `silent`, `ws`, `echo` |
| harness | `xtest/tests`, `scripts/` | none | run QEMU, compare output and exit code |

### 1.2 How they interact

`main` boots, then calls `agent::run`, which calls `drive_goal`.  The loop calls
`driver.poll(inf, emit)`; `poll` builds the step's context from the driver, asks
the inference for a turn result, and hands the result to `advance`, which emits
at most one event.  All of it is one hart without interrupts: `wfi` is only the
idle instruction, and the timer only makes it return.  What runs concurrently is
outside the hart: `mtime` advances between any two instructions, the gateway
answers when it likes, and the network may deliver late or lose the connection.

`mesh.rs` puts two more waits *inside* one call of `poll`: a prompt and a pong
are sent by `blocking_send_raw`, which idles up to ten seconds and then panics.
After the loop, `close_clean` sends once more before the exit code is written.

Below that, `try_next_text` sees neither messages nor frames: `pump` moves whatever
bytes the socket has into `rx_raw`, the WebSocket codec takes what is complete, and
`msg_partial` keeps the fragments of a message across calls.  Below the socket,
smoltcp uses the NIC through pairs of tokens that share it by raw pointer, while the
device fills the buffers it was given back.

Which of all this runs is decided by six build features; `main` runs the phases in a
fixed order, and a gate that ends before the last phase diverges.

### 1.3 What is hard, and what correctness means

* **The stall clock.**  It belongs to the step in flight, is read before and after
  code of unknown duration, and is restarted only when the loop notices a new step
  number.  A restart too few fails the next step early; a restart too many never
  fails any.  Correct: no step is in flight longer than a bound, and none is
  failed before its timeout.
* **One conclusion.**  A verdict can arrive as the watchdog's deadline passes; a
  concluded goal can be advanced again.  Correct: the event stream opens at step
  1, climbs by one within its budget, concludes once, and is then silent.
* **The exit code** is all the gates look at.  Correct: it agrees with the last
  event, also when a panic cuts the run short.
* **Determinism.**  Two runs of a transcript must print the same bytes although
  the clock interleaves differently.
* **Turns and steps.**  Prompts are sent from inside `poll`, which is repeated;
  answers carry nothing that says which prompt they are for.  Correct: one prompt per step, in
  order, and a step decided by the answer to its own prompt, by the last verdict
  line of it.
* **Bytes.**  The upgrade response and what follows it may share a segment or be cut
  anywhere; pings come between fragments.  Correct: every message arrives whole, once
  and in order, and no peer can hold a wait past its deadlines.
* **Text.**  A verdict is a line of prose written by a model.  Correct: what was said
  last decides, and a steer cannot garble the prompt it is pasted into.
* **Memory shared with a device.**  Correct: no DMA page is handed out twice; a receive
  buffer goes back after its last reader, and not before.
* **Idle.**  `wfi` must always return, under every set of features.  Correct: every
  run ends, and out-of-memory is never silent.
* **The fold.**  `register_child` overwrites, `subtree` keeps no visited set, two
  maps describe the same plugins.  Correct: the walk ends and is exact, the maps
  agree, no session forgets.

The list with a line for each, and the properties that would notice, is
`hazards` in `PROJECT.json`.

## 2. The modules

```
GoalLifecycle                     the abstract contract: the stream of one goal
   ^ implemented by
GoalDriver                        start / advance              -- goal.rs
   ^ EXTENDS (the driver's part of each step is Advance)
   |--- KernelLoop                drive_goal, CLINT, exit      -- agent.rs, time.rs
   |       ^ EXTENDS: conjoins the transcript    ^ EXTENDS: splits poll and exit;
   |    ScriptedGoal                          MeshGoal   shown to implement KernelLoop
   |      (default build)                       (mesh-goal build: inference, gateway)
   |--- BootFlow                  main, every set of features  -- main.rs, heap.rs
           INSTANCE SystemStateFold (fold_demo)

MessageChannel                    the abstract contract: a FIFO of whole messages
   ^ implemented by               (what MeshGoal is written on)
MeshSession                       establish, try_next_text, close_clean -- mesh.rs

StepVerdict                       parse_goal_step, step_directive       -- goal.rs

NicBringUp                        probe, DMA arena             -- net/mod.rs
SmolDevice                        the token pair               -- net/smol.rs
   ^ both EXTENDed by
NetSmoke                          the net-smoke gate           -- net/smoke.rs

SystemStateFold                   the fold, register_child, subtree     -- state.rs
```

`KernelLoop` is deliberately open: at every poll the inference may answer any
turn result or panic.  Whatever is shown of it is shown of every inference, and
`MeshGoal` is shown to be an instance (`ImplementsLoop`), so the results on the
stall deadline, the exit code and the lifecycle carry over to the mesh build.

The theorems about a module `M` are in `MProofs`; `GoalDriver`, `KernelLoop`, `ScriptedGoal`,
`MeshGoal`, `MeshSession`, `BootFlow` and `NetSmoke` have one, the last for `NicBringUp` and
`SmolDevice` too.  `AgentCoreProofs` has those about `SystemStateFold` and `StepVerdict`, the
parts of `agent-core` beside the driver.

The operators named "Mutant of X" in a module's comments stand beside the
definition they vary.  No specification uses them: each is a plausible slip in
the code of X, kept as a test of the properties (`mutants` in `PROJECT.json`).

### 2.1 GoalLifecycle, GoalDriver

`stream` is the sequence of `GoalStateChanged` events of one goal.  The events of
one goal differ only in `state`, `step` and `detail`; the constant fields are left
out.  The empty detail is written `"none"`.

`GoalDriver` has the driver's fields as variables, and `uart`, the events emitted so
far.  `Advance(result)` is `GoalDriver::advance`, early return included. `DriverSpec`
lets any caller report any result at any time, also to a goal that has concluded: it is
the specification the driver's theorems are about, and the run `driver` checks it: a
goal that has concluded is advanced again there, which `drive_goal` never does.  `Texts` are the steers and reasons that turns may carry, `NoText` is `None`.

### 2.2 KernelLoop

One action per stretch of `drive_goal` between two reads of the clock:

| action | code |
|---|---|
| `StartClock` | the first `driver.step()` and `time::mtime()` |
| `Poll(result)` | `driver.poll`, the inference having answered `result` |
| `PollPanics` | the inference panics: the panic handler writes exit code 1 |
| `Clock` | the step number is compared, the clock restarted, the loop condition tested |
| `Watchdog`, `ArmWakeup` | the two branches of the timeout test |
| `Wake` | `wfi` returns: `mtime >= mtimecmp` |
| `Exit`, `ClosePanics` | the exit code; or the panic of the code that runs before it |
| `Tick` | one tick of `mtime`, between any two of these |

`awake` and `openedAt` are history variables: the ticks spent awake in the current
iteration (or since the end of the loop), and when the latest event was emitted.
`AwakeTicks` is an assumption about the machine: in one iteration the hart is awake
at most that long.
Asleep, time is free.  Nothing in the code makes `AwakeTicks` small (a drain loop
could be kept busy), but every bound the code can have is a function of it;
`StallBound == StepTimeout + IdleQuantum + 2 * AwakeTicks` is that function.
`mtime` needs no bound of its own: `StallDeadline` bounds it.

Left out: a `wfi` that returns early (the architecture allows it).  The loop
would poll and check once more, with the same clock reads in between.

### 2.3 ScriptedGoal

Adds the transcript, its position and the poll counter; each `Poll` must use the
transcript's entry.  `Pending` is not consumed, an exhausted transcript reads as a
stall.  `LogOf(script, budget)` is the reference: the log a transcript stands for,
defined without driver, loop or clock.  This build does no I/O in a poll and closes
no connection, so the two panic actions are not in it (out-of-memory is a panic
`KernelLoop` has).

### 2.4 MeshGoal

| action | code |
|---|---|
| `BeginPrompt`, `PromptSent` | `next` with no turn in flight: `send_text`, then Pending |
| `ReceiveText`, `ReceiveComplete`, `ReceiveOther` | the arms of the drain loop |
| `ReceivePing`, `PongSent` | a ping met by `try_next_text`, answered by a blocking send |
| `ReceiveClose` | `panic!("mesh: peer closed mid-session")`, and the panics for what cannot be decoded |
| `NothingDecodable` | the drain ends: Pending |
| `SendTimesOut` | a send's deadline passes: panic |
| `BeginClose`, `CloseSent`, `CloseAwaited` | `close_clean`, then the exit |
| `GatewayReceive`, `GatewaySend`, `GatewayPush`, `ConnChanges` | the other end, and the network |

The wire is one TCP connection: a FIFO of frames each way.  It may stall (the
transmit buffer is full and the peer does not read; a directive carries a steer of
any length) and go on; after a reset there is no sending, what the kernel received
stays readable, and what was on its way to the gateway is lost.  A frame is a whole
WebSocket message: that this is what the bytes amount to is shown by `MeshSession`.  A
delta is a line, or several without a verdict: prose, a `GOAL_STEP` line with a known
status, or one with an unknown status; how text becomes such lines is shown by
`StepVerdict`.

Every frame carries the turn it answers, 0 if none.  The kernel never looks at it
(the code has no such field); the properties do.  The gateway sends the events of a
turn to the clients of its session only (`vendor/apexos-protocol/src/lib.rs:319-321`), so the
frames nobody asked for are pings, closes and events of other kinds, never parts of
another session's turn.

The variable `mode` is chosen at the start, from the constant `Modes`.  In the modes
`llm` and `silent` the gateway is `mockd`.  In the mode `live` it is whatever could be
there: it answers any reply, late, or without completion; pushes events, pings and
closes nobody asked for; and the connection may stall, recover or be reset at any point.

The fixed `GatewayTicks` in the mock modes says that the mock answers within that
many ticks of a prompt: without it the gate would race the watchdog, and no gate
could pass.

A blocking send that finds the connection stalled idles: it may succeed late, or panic
at its deadline.  So a poll may be longer than `AwakeTicks` by `SendTimeout + 1` for
each of its sends: one prompt, or one pong for every ping it drains.  That is
`SendAllowance`, and `MeshGoal` implements `KernelLoop` with
`AwakeTicks + SendAllowance` for `AwakeTicks`: the stall deadline of the mesh build
grows by twice that, and it is not a constant of the code but of the peer.

The two seconds that `close_clean` waits for the peer's close, and its last polls, take no
time in this model: nothing reads the clock after them.  `MeshSession` has their time.

### 2.5 SystemStateFold

The variables are the four maps; a history is its length, a tool is its name, an absent
context is the record `Absent`.  Events that `apply` matches without touching the state
are stuttering steps.  The environment is any order of events and registrations, of a
session below itself or below its own descendant too.  Two history variables say how far
the callers kept an order in which the maps can agree: `strays` counts the registrations
of a child that was already live or below a parent that was not, and `pluginsInOrder` says
that no plugin was announced twice without going down, and no tool name by two.
`RegistryExact` is claimed while `pluginsInOrder`, `CascadeExact` while `strays = 0`; both
orders are conditions of the model, the code and its comments state none.  `SpawnAcyclic`,
`ToolOwnerLive` and `HistoryKept` are claimed always.

A session registered as its own parent lists itself, and `subtree` of it, or of anything
above it, never ends.  No caller in the repository registers one, and `SpawnAcyclic` says
that this is the only way to get there: every other sequence of registrations leaves the
lists without a cycle.  `HistoryKept` says which call takes something from a live session:
`register_child` of that very session, and it takes nothing from any other.

`CascadeExact` says what a cancel relies on without a second definition of the tree:
the list that `subtree` returns starts at the root, names nobody twice, puts every
parent before its children, and has with a session all that name it as their parent.

### 2.6 MeshSession, MessageChannel

The layer below `MeshGoal`.  A frame is what one `ws.read` hands over: a fragment of a
text message, a control frame, or the HTTP response of the upgrade.  On the wire it is
two bytes, so a segment can end inside it, and any number of frames can be in one.

| action | code |
|---|---|
| `SendBlocked`, `UpgradeSent`, `PongSent`, `CloseSent` | `blocking_send_raw`, while it idles, and its return in the three places |
| `Accept`, `Rejected` | `client_accept` over what has arrived |
| `Wait` | `idle_tick` in `establish`, with its shared deadline |
| `CallTryNextText`, `Read`, `ReturnNone` | `try_next_text` enters, pumps, finds no complete frame |
| `ReadPart`, `ReadText`, `ReadPing`, `ReadOther`, `ReadClose` | the arms of its match |
| `BeginClose`, `DropFrame`, `AwaitClose`, `Closed` | `close_clean` |
| `GatewayUpgrade`, `GatewayText`, `GatewayControl`, `GatewayClose`, `Deliver` | the other end, and a byte of a segment |

`opening` says whom the kernel meets: a gateway that opens with its session frame, one
that opens with something else, or the mock in mode `ws` with the mesh-smoke gate
around the session.  What arrives is looked at by a pump only, so `Deliver` happens
just before one: the bytes that have arrived by then are an arbitrary prefix.

Time passes where the code waits: in `idle_tick`, at most `SlowestIdle` between two looks at
the clock, and in `close_clean`, where a frame that is dropped without an idle may take as
long as one, and the ten polls at the end take `SlowestTail` at most.
The two-byte frame loses nothing: `rx_raw` is only compared with "a whole frame".

### 2.7 StepVerdict

`parse_goal_step` on the tokens of a reply as it streams, and `step_directive`.  The
characters that the code tells apart are kept (line break, blank, the marker, the three
status words, other text), the rest is `x`.  `Scan` is the reference: one forward pass,
one token at a time, in which a verdict line overrides the ones before it.  The code
searches backwards over trimmed lines (`Breaks`, `Line`, `Trim`, the greatest break whose line
is a verdict line); `LastLineDecides` says the two agree at every point of every reply.

### 2.8 BootFlow

`main`, one action per phase: heap, timer, network, the smoke gates, `proto`, the
negative gates, `fold_demo`, `establish`, the goal, the exit.  `features` is any subset
of the six; `peer` is what answers at the gateway's address, `nicPresent` the device QEMU
has.  A phase states what it needs: an initialised heap, a heap of more than a KiB, a
timer that can end a `wfi`.  `fold_demo` applies its four events to an instance of
`SystemStateFold` and asserts what the code asserts; the goal advances the driver of
`GoalDriver`.

### 2.9 NicBringUp, SmolDevice, NetSmoke

`NicBringUp` is `net::init`: the loop over the slots, and the bump arena under a driver
that may ask for any sizes, fail after any allocations, and give back anything.
`allocs` and `freed` are histories; `next` is `DMA_NEXT`.

`SmolDevice` is the token pair of `smol.rs`.  `ring`, `used` and `token` say where each
receive buffer is; `packet` what it holds; `borrows` who holds a `&mut Nic`.
`RxConsume`, `RxRead`, `RxReturn` and `RxRecycled` are the parts of `VRxToken::consume`:
before and inside the closure, the borrow of the NIC after it, and the end of
`recycle_rx_buffer`, whose error the code ignores (`lost` has the buffers dropped so); a
`TxConsume`, which borrows the NIC too, may come inside.

`NetSmoke` runs the two and the loop of `smoke.rs` on top: the time, `iface.poll` (any
order of the token steps until nothing is left), the socket, the idle.  The peer is the
mock, which echoes in pieces of any size, or anything else; its packets arrive at any moment
of a round.  `polled` is a history: how much of the stream the last poll has found.  What
arrives in the idle before the timeout is seen is not looked at, since the loop reads the
clock before it polls: `EchoIsAccepted` counts what the last poll could find.

## 3. The runs

| run | instance | what it shows |
|---|---|---|
| `driver` | every budget from 0 to 7, ceiling 6, 2 texts | the log tracks the driver, also when a concluded goal is advanced again |
| `loop` | timeout 3, quantum 2, awake 1, budgets 0, 2, 5, ceiling 3 | stall deadline, watchdog never early, exit code, refinement, termination |
| `scripted` | every transcript of at most 3 entries, awake 2 | the log and the poll count are functions of the transcript; steers reach the right step; `GoalLifecycle` with its fairness |
| `no_timeout_floor` | the same with timeout 0 | **violation**: the log is no longer a function of the transcript |
| `mesh_live` | 2 steps, 4 replies, 1 unasked frame, faults | one turn per step; the verdict is of the own turn; the last verdict line decides, with its steer or reason; the build is a `KernelLoop`; it ends |
| `mesh_mocks` | the two mock gates, budget 8 | the gate's log and exit code at every interleaving |
| `mesh_close` | as `mesh_live` | **violation**: a goal that is Done exits 1 |
| `fold` | 4 sessions, 2 plugins, 2 tools, 1 stray registration | no cycle of spawn lists but a session below itself, no tool of a dead plugin, no history lost but by registering its session anew; in order, the maps are inverse and the cascade exact |
| `session` | 2 messages of up to 2 fragments, 1 control frame, timeout 2 | messages whole, once, in order, and all of them; every wait bounded and over, also under frames that keep coming; the mesh-smoke gate fails only for its peer |
| `verdict` | every reply of up to 6 tokens, in every step | backward search equals forward reading; a steer is one clean line; an echoed prompt concludes nothing |
| `boot` | 64 sets of features, NIC or none, 5 peers | each gate ends with its code; every build ends; out-of-memory always exits 1; exit 0 is the whole narrative |
| `net_smoke` | 2 slots, 2 pages, 2 buffers, 3 packets, PING of 2 bytes, timeout 2 | arena exclusive, first NIC found, packets stable, one user of the NIC at a time, the echo accepted however it is cut, an end in time |

The live gateway of `mesh_live` has no fairness at all.

### 3.1 Why these bounds

* Time: with `AwakeTicks` 1 a tick can fall between any two chosen actions of an
  iteration, with 2 (`scripted`) at any two places of it.  The timeout exceeds the
  quantum in `loop`, so a step survives several sleeps, and is 1 in `mesh_live`,
  where a blocking send outlasts it (`SendTimeout` 2).  In `scripted` the timeout
  equals `AwakeTicks`: the log is a function of the transcript as long as an iteration
  is not longer than the timeout, and the run is at that limit; `no_timeout_floor` is
  past it.
* `driver` is exhaustive for its budgets: every sequence of results up to a conclusion,
  then every result again.
* Budgets: 0 and a value above the ceiling exercise both ends of the clamp; 2 and 3
  steps let a step inherit something (clock, steer, reply, `in_flight`) from the one
  before it, and let that one have had a predecessor.
* `Replies`: none, a change of mind, an unknown status after a verdict, a verdict
  followed by prose: the replies on which the parsing rules differ.
* `MaxUnasked` 1 puts one ping, close or event at every point of the exchange.
* `MaxHistory` 1, `MaxSpawned` 2: a message that can be lost, siblings.  Four sessions
  give a tree of depth three, or a node with two children and a grandchild, and one
  more to be registered again below its own descendant: that takes one stray
  registration, which is `MaxStrays`, and so does a session below itself.  The invariants that hold under any number of
  them are proved.  The sessions, plugins and tools are interchangeable, and the
  properties of `fold` are an action property and invariants: symmetry is sound.
* `session`: two messages of two fragments show a fragment that could get into the next
  message; one control frame can be anywhere in between; a timeout of two idles lets a
  deadline pass with the peer half way; two waits that must share a deadline take
  longer than one, and the bound of `WaitsBounded` is exact enough to notice; the frames
  that are left when `close_clean` begins outlast `CloseWait`.
* `verdict`: six tokens are a verdict line with a reason of two words, or two short
  verdict lines, with a blank or a break at any place.  Every state of the reference
  scan occurs within six.
* `boot`: exhaustive; the only bound is the default budget of 8.
* `net_smoke`: two slots tell `break` from `continue`, two pages in single allocations are
  exhausted by a driver that fails and one that follows, two buffers let one be filled
  while the other is read, three packets are an echo in
  two pieces with a packet that carries nothing before, between or after them; a timeout
  of two leaves two rounds after the PING is queued, so the pieces can be read apart.

### 3.2 Fairness, deadlock

`KernelLoop` and `ScriptedGoal` assume weak fairness of the hart's steps together (it
executes instructions) and of the tick (the CLINT counts).  `MeshGoal` assumes it of the
two together, which is less: a connection that changes its mind for ever disables the
send and the tick by turns, and time must still pass.  Nothing is assumed of one branch
over another, of the live gateway, or of the network; the mock gates also assume that
the mock answers. `BootFlow` assumes weak fairness of its next phase, `NetSmoke` of the
kernel, and neither of the peer.  `MeshSession` assumes weak fairness of the kernel's
steps and strong fairness of `Deliver`: delivery is possible at a pump only, again and
again, and TCP delivers what it was given unless the connection is lost, in which case
the send, the wait or the close runs into its deadline.  The gateway has none: it may
fall silent at any point.  `CHECK_DEADLOCK FALSE` stands in the runs of the kernel,
which does stop: it writes its exit code and QEMU ends.

### 3.3 What the violations say

* `no_timeout_floor`: `step_timeout_ticks` takes `APEXRV_STEP_TIMEOUT_SECS=0` as it
  is.  Then `now - step_started > 0` holds after any tick between two clock reads,
  and the watchdog fails a step whose transcript continues.  `PRD.md:108` promises
  the same log for the same transcript; the upstream setting has a floor.
* `mesh_close`: the comment of `close_clean` says it never fails the gate; its send
  panics when the connection is gone, after the goal is Done and before exit 0 is
  written.

## 4. The proofs

Eight modules hold theorems.  All hold for every value of the constants that satisfies
the named `ASSUME`s of the modules (`BudgetAssumption`, `TimeAssumption`,
`FoldAssumption`, `ReplyAssumption`, `SessionAssumption`, ...): naturals where the code
has unsigned integers, a ceiling and a quantum above zero, `None` distinct from the
values, deltas and messages that are sequences of what they are made of.  Where a theorem needs more, the
hypothesis stands in its statement: `AwakeTicks <= StepTimeout` for
`DeterministicLogHolds`, finitely many sessions for `CascadeExactHolds`.  The first cannot be
dropped: `no_timeout_floor` is the run without it, and it fails.

**GoalDriverProofs.**  `DriverInvariant`: type correctness and `LogTracksDriver`
(the driver's fields can be read off its log) are inductive together: the type
bound `step <= maxSteps` needs the budget test of `Continue`, and the length of the
log needs `Acting`.  `DriverImplementsLifecycle` follows: in a state where the log
tracks the driver, the step a turn result causes is the abstract step of the same
name, or a stutter.

**KernelLoopProofs.**  Neither `StallDeadline` nor `ExitAgreesWithLog` is inductive.
`IInv` adds
* `ControlInv`: where the loop is says whether the goal is in progress, and the exit
  code says how it ended;
* `TimingInv`: what the clocks have to do with each other at each point of the loop.
  Between the poll that opens a step and the clock read that follows, the stall
  clock still belongs to the previous step, so the deadline cannot be argued from it:
  there the invariant counts from the event instead.  In `wfi` the armed timer is at
  most a quantum past the deadline.

`TypeCorrect`, `StallDeadlineHolds`, `ExitAgreesWithLogHolds` follow from `IInv`;
`WatchdogNeverEarlyHolds` is an action property, from `IInv` and the guard;
`LoopImplementsLifecycle` uses the driver's step lemma for the two actions that
advance it.  There is one lemma per action.

**AgentCoreProofs, the fold.**  `TypeCorrect`, `SpawnAcyclicHolds`, `ToolOwnerLiveHolds`,
`RegistryExactHolds` and `HistoryKeptHolds`, for any sets and any number of strays.  In
`SpawnAcyclicHolds` a set of sessions must always have one that spawned none of the others.
A registration clears the child's list, so a set with the new child has the child as that
one; any other set keeps the one it had, whose list grew by the child at most.  That a
session lists itself exactly when it is its own parent is carried along: only a registration
changes either, and of one session only.  `ToolOwnerLive` is inductive with the
types; `RegistryExact` is inductive together with both, because callers in order
announce no plugin that is up and no tool that a live one advertises.
`HistoryKept` is an action property: a prompt and a registration change the lists and the
parent of one session each, and only a registration of a live child, which `strays` counts,
takes anything.

`CascadeExactHolds` is about the recursive function inside `Subtree`.  In order, the sessions
are a forest (`ForestInv`, inductive because a fresh child is nobody's parent):
lists of children and parent links are each other's inverse, and following parents leaves every
set of sessions.  The function is shown to exist (`IterationsExist`) and to unfold
(`SubtreeIterates`); what its i-th value is (`QueueOf`) is shown of each by the next:
entries are distinct, put there by a parent among the first i, and the first i have put all their children there.
A child appended by the i-th entry is new, since its only parent is that entry; and it
is not the root, since then every entry would have its parent in the queue.  Distinct entries
are as many as the sessions at most, so after that many iterations all have been looked at.
Hence the theorem's hypothesis that `Sessions` is finite, as a map's keys are.

**AgentCoreProofs, the verdicts.**  For replies of any length.  `LastLineDecides` compares a search
from the end with a pass from the start and is not inductive: it says nothing of a line that is
only half there.  `VerdictInv` adds
* `LineShape`: what the mode of the scan says of the line behind the last break.  It is blank so
  far, or has its first ink elsewhere than in a marker; or there is a marker and behind it blanks,
  or a status word, or a word and blanks, or a word and a text that begins and ends in ink, with the
  gathered status, text and gap being those slices of the line;
* `ScanOK`: the gathered text has no break in it and no blanks around it.

`ShapeNext` is that one token keeps the shape.  `ShapeSays` is the other half, and the only place
where trimming and splitting are looked into: the code reads in a line of that shape
what the scan has gathered, and a line that has no marker is passed over.  What is left is about lines:
a token changes the last one only (`LineSame`, `LineGrows`, `LineStarts`), so the greatest marked break
moves to the last line when that becomes a verdict line, and stays otherwise (`ParseLast`, `ParseUnmarked`,
`ParseNewLine`).  `SteerIsOneLineHolds` follows from `ScanOK`, since by `LastLineDecides` the steer is the
scan's text.  `EchoNeverConcludesHolds` needs no scan: the last line of a directive is `Convention`,
whatever steer stands before it, and `Convention` is a line with a text.

**ScriptedGoalProofs.**  `ScriptedImplementsLoop`: the default build is an instance of the
loop, so it has the theorems above.  `ReplayInv` relates
the loop to the transcript: the steps behind the in-flight one were continued by their own
entries, the steer is the previous entry's, and every poll but those of a pending turn opened a step or
ended the goal.  `SteerOfPreviousEntryHolds` and `DeterministicPollsHolds` need no more.
`DeterministicLogHolds` needs the watchdog too (`QuietIsPending`): it may only reach a
step whose entry is `Pending`, because any other entry is polled within `AwakeTicks` of
the clock's start, and that is the timeout at most.

**MeshGoalProofs.**  The mesh build over a gateway that may send anything.
* `MeshImplementsLoop`, the safety part of `ImplementsLoop`: every step of the mesh build is
  one of `KernelLoop`, or a stutter, so the stall deadline, the exit code and the lifecycle
  hold of it.  `AllowanceInv` bounds the ticks that the sends of one iteration take: a
  send in progress by its deadline, the finished ones by the pings consumed, and those
  by what the peer may still push.  That needs a count of the pings on the wire.
* `OneTurnPerStepHolds`, an invariant inductive with the types, the driver's, and the
  points of the loop at which a turn may be in flight (`TurnsInv`).
* `LastVerdictDecidesHolds`, an action property in two parts: what `ParseGoalStep` computes is
  what the reply says (`ParsedAsSaid`: the last line that is not prose, with its text, or
  the default), and a step of the driver does what that verdict asks for (`DriverObeys`: the
  state, the event with its detail, the steer).
* `VerdictOfOwnTurnHolds` (`OwnTurnInv`): once the gateway has the prompt, the lines read so
  far, the frames on the wire (with pings and events between them) and the rest in the
  gateway's outbox are one answer to the in-flight step; before that there is no frame of
  any turn.

**MeshSessionProofs.**  `SessionInv` is inductive.  Its heart is `InFlight`: while the session
is up, `rxRaw`, `sock` and `wire`, one after another, are the bytes of a sequence of whole
frames, cut anywhere; and the texts among those frames, control frames anywhere between,
are the parts from the one `msgPartial` waits for to the last one sent.  So a complete
message in `msgPartial` is the next one sent, and `SessionImplementsChannel` follows: a
return hands over the first message of the abstract channel, and no other step of the kernel
touches it.  `WaitsBoundedHolds` needs a bound on the clock at each point of `establish`:
one wait for the request, one shared deadline for the handshake and the first message, and
one for every pong (`EstablishedWithin`), with the pings among the queued frames counted;
and of `close_clean`, up to the exit (`ClosedWithin`).
`SmokeFailsOnlyForPeerHolds` is inductive with the handshake's part of `InFlight`: the
mock's upgrade is the first frame, and it sends text only.

**NetSmokeProofs.**  First the parts.  `NicTypeCorrect`, `ArenaExclusiveHolds`,
`FirstNicFoundHolds`: `ArenaExclusive` says nothing of the mark that the next allocation
starts at, which is what makes it inductive (`BelowMark`); `FirstNicFound` speaks of the end
of the probe and is proved from what holds during it (`NothingBehind`).  `TokensSafeHolds`:
that a packet does not change under its reader needs that a buffer is in one place only
(`OneOwner`), a fact about the ring, the queue of filled buffers (without repetition) and the
token together.  That the two tokens never borrow the NIC at once needs to know who holds it
at each point of the closure (`Borrowed`): the transmit token while a packet is sent, the
receive token while its buffer is recycled, and by then the transmit token is gone.

Then the build.  Its steps are steps of the parts, or leave their variables alone
(`SmokeImplementsParts`), so all of this holds in it (`PartsHold`).  `EchoIsAcceptedHolds`
needs `SmokeInv`: packets are read in the order of arrival and each once
(`PacketsInOrder`), what they carry is PING cut anywhere, and what `buf` and the socket have
is what the packets read so far carried (`EchoStream`).  So a round has all that had arrived
when its poll ended, and one that goes on idling lacked part of the echo then (`Rounds`); before the
PING is queued there is nothing to echo (`PingFirst`).  `SmokeBounded` is the safety part of
`SmokeEnds`.

**BootFlowProofs.**  `BootInv` says of each phase what has been printed before it, which
phases a build with the tiny heap cannot reach, and that the goal has the driver's invariant
(`DriverInv` of `GoalDriverProofs`) and stays within its script.  `OomIsVisibleHolds` has no
hypotheses.  `ExitZeroIsTheNarrativeHolds` assumes `RoomForScript`: every budget, clamped, is
3 or more.  The kernel passes 8; with a budget of 2 the default goal would be done at step 2,
and its `Done` would be another line than the one the tests expect.

**Induction.**  The library's induction theorems take an operator as a parameter, which
the provers cannot instantiate.  Where a proof needs one it goes through sets: a nonempty
set of naturals has a least member (`LeastNumber`, in `KernelLoopProofs` and `AgentCoreProofs`, from the library's `WFMin`),
and the least counterexample is refuted from the one before it.

Only model-checked is everything under fairness (`Terminates`, `GateOutcome`,
`ImplementsFairLifecycle`, `Resolves`, `EveryMessageReturned`, `GatesPass`, `EveryBuildEnds`,
`SmokeEnds`), which this prover has no rules for.  The invariants and the action properties
of the passing runs are all proved, and so are the safety parts of the refinements and of `SmokeEnds`.

## 5. What is not modelled

* The libraries: the WebSocket codec (it hands over complete frames and says when it
  cannot), smoltcp (TCP delivers in order; a token is used at most once), virtio-drivers
  (it calls the arena and fills the buffers it was given).  They are in the models as
  the code in `src/` uses them, and marked external.
* `uart.rs`, a polled byte output without state of its own.
* `override_secs * TICKS_PER_SEC` overflows 64 bits for overrides above 1.8e12 seconds: the
  timeout is a parameter here.
* Heap sizes.  Out of memory is a panic: `KernelLoop` has it in polls; a panic of
  the serialiser between a state change and the printing of its event is not there.
* A flood.  `AwakeTicks` assumes that a drain loop empties, and `NetSmoke` that `iface.poll`
  returns: `MaxPackets` bounds what it finds, so a peer that fills the ring as fast as it is
  emptied, and the heap that `rx_raw` and `reply` would need, are out of these models.  The
  flood of `close_clean` is in `MeshSession`.
* A child registered before its parent is listed by nobody, and a cancel misses it: that is
  what the code does, nothing promises otherwise, and `CascadeExact` is claimed of the other
  orders.
* Serialisation and the wording of messages; the control frames that `gateway.rs` can
  build and no build sends.
* Who may approve: `pending_approvals` is keyed by the action alone, and nothing in the
  repository says which session's approval counts.
* `run` of `goal.rs`, the host's poll loop without clock: `DriverSpec` covers every
  sequence of polls it makes.
* The harness scripts.  Their expectations are `GateOutcome`, `GatesPass` and
  `ExitZeroIsTheNarrative`.

## 6. Plan

*Done:* all modules of section 2, with the proofs of section 4: every invariant and action
property that a passing run checks is a theorem.  What could follow is in section 5.

## 7. Running

In this directory, `tlc -config MCKernelLoop.cfg MCKernelLoop` and so on for the
runs in `PROJECT.json`; each ends within three minutes.  `tlapm KernelLoopProofs.tla`
(and the other seven) checks the proofs; the long ones, `MeshGoalProofs`,
`MeshSessionProofs` and `AgentCoreProofs`, take a few minutes.
