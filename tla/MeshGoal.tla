------------------------------ MODULE MeshGoal -------------------------------
(***************************************************************************)
(* The mesh-goal build: drive_goal over MeshInference of                   *)
(* kernel/src/net/mesh.rs, from an established session to the exit, and    *)
(* the gateway at the other end of the wire.                               *)
(*                                                                         *)
(* The wire is one TCP connection: a FIFO of frames each way.  It may      *)
(* stall, the transmit buffer being full and the peer not reading, and go  *)
(* on; after a reset nothing can be sent, and what the kernel received     *)
(* stays readable.  A frame is a whole WebSocket message.  An agent_text   *)
(* delta stands for whole lines: one that reports no verdict, or one       *)
(* GOAL_STEP line.                                                         *)
(*                                                                         *)
(* The gateway is external.  In the modes "llm" and "silent" it is the     *)
(* mock of xtest/src/bin/mockd.rs; in the mode "live" it answers anything  *)
(* at any time, or never, and may push events no turn asked for.  The      *)
(* events of a turn reach only clients of its session: the kernel relies   *)
(* on it, for it reads agent_text and turn_complete without looking at the *)
(* session they name.                                                      *)
(***************************************************************************)
EXTENDS KernelLoop

CONSTANTS
    Modes,          \* the gateways to check: "llm", "silent", "live"
    Replies,        \* live: the delta sequences a turn may stream
    Faults,         \* live: whether the connection may close or reset
    MaxUnasked,     \* bound: frames a live gateway pushes unasked
    GatewayTicks,   \* mocks: the longest they take over a prompt
    SendTimeout     \* blocking_send_raw's own deadline

ASSUME MeshAssumption ==
    /\ Modes \subseteq {"llm", "silent", "live"}
    /\ Faults \in BOOLEAN
    /\ MaxUnasked \in Nat /\ GatewayTicks \in Nat /\ SendTimeout \in Nat

VARIABLES
    inFlight,       \* MeshInference.in_flight
    reply,          \* MeshInference.reply, the frames it was built from
    sendStarted,    \* mtime at which the blocking send in progress began
    blocked,        \* history: ticks of awake spent in blocked sends
    conn,           \* "up", "stalled" or "reset"
    toGateway,      \* prompts on their way
    toKernel,       \* frames received and not yet consumed
    mode,           \* gateway: which one it is
    turn,           \* gateway: prompts it has received
    outbox,         \* gateway: frames of the current turn still to be sent
    unasked,        \* gateway: frames pushed unasked
    gwTicks         \* mocks: ticks spent over the current prompt

inferenceVars == <<inFlight, reply, sendStarted, blocked>>
gatewayVars == <<mode, turn, outbox, unasked, gwTicks>>
wireVars == <<conn, toGateway, toKernel>>

meshVars == <<vars, inferenceVars, gatewayVars, wireVars>>

-----------------------------------------------------------------------------
(* Frames and replies.                                                     *)

\* A delta is prose, an unknown GOAL_STEP status, or a verdict.
Prose == [kind |-> "prose", text |-> NoText]
Garbled == [kind |-> "garbled", text |-> NoText]

Deltas ==
    {Prose, Garbled, DoneVerdict}
        \union {BlockedVerdict(r) : r \in Texts}
        \union {ContinueVerdict(s) : s \in Texts \union {NoText}}

ASSUME ReplyAssumption == Replies \subseteq Seq(Deltas)

\* Every frame names the turn it belongs to: the prompt it answers, or 0 for
\* what no prompt of this session asked for.
AgentText(t, delta) == [type |-> "agent_text", turn |-> t, delta |-> delta]
TurnComplete(t) == [type |-> "turn_complete", turn |-> t, delta |-> Prose]
OtherFrame(type) == [type |-> type, turn |-> 0, delta |-> Prose]

\* Mutant: the first verdict line wins.
DecidingFirst(lines) == CHOOSE i \in lines : \A j \in lines : i <= j

\* The parser goes through the reply's lines in order, and keeps the last.
Deciding(lines) == CHOOSE i \in lines : \A j \in lines : j <= i

\* parse_goal_step(&reply).unwrap_or(Continue(None)): an unknown status counts
\* as no verdict at all.
ParseGoalStep(deltas) ==
    LET lines == {i \in 1..Len(deltas) : deltas[i].delta.kind # "prose"}
        last == deltas[Deciding(lines)].delta
    IN  IF lines = {} \/ last.kind = "garbled" THEN ContinueVerdict(NoText) ELSE last

-----------------------------------------------------------------------------
(* The gateway.                                                            *)

Stream(n, deltas) == [i \in 1..Len(deltas) |-> AgentText(n, deltas[i])]

\* What the gateway answers to its n-th prompt.
Answers(n) ==
    CASE mode = "llm" ->
            {Stream(n, <<Prose, IF n < 3 THEN ContinueVerdict(NoText) ELSE DoneVerdict>>)
                \o << TurnComplete(n) >>}
      [] mode = "silent" -> {Stream(n, <<Prose>>)}
      [] mode = "live" ->
            {Stream(n, r) \o << TurnComplete(n) >> : r \in Replies}
                \union {Stream(n, r) : r \in Replies}

GatewayIdle == toGateway = << >> /\ outbox = << >>

GatewayReceive ==
    /\ toGateway # << >>
    /\ outbox = << >>
    /\ conn = "up"
    /\ toGateway' = Tail(toGateway)
    /\ turn' = turn + 1
    /\ outbox' \in Answers(turn + 1)
    /\ UNCHANGED <<vars, inferenceVars, conn, toKernel, mode, unasked, gwTicks>>

GatewaySend ==
    /\ outbox # << >>
    /\ conn # "reset"
    /\ toKernel' = Append(toKernel, Head(outbox))
    /\ outbox' = Tail(outbox)
    /\ gwTicks' = IF Len(outbox) = 1 THEN 0 ELSE gwTicks
    /\ UNCHANGED <<vars, inferenceVars, conn, toGateway, mode, turn, unasked>>

\* Frames no prompt of this session asked for: events and control frames,
\* pings, and a close, which stands for every frame that ends in a panic.
UnaskedFrames ==
    {OtherFrame("other"), OtherFrame("ping")}
        \union (IF Faults THEN {OtherFrame("close")} ELSE {})

GatewayPush ==
    /\ mode = "live"
    /\ conn # "reset"
    /\ unasked < MaxUnasked
    /\ \E f \in UnaskedFrames : toKernel' = Append(toKernel, f)
    /\ unasked' = unasked + 1
    /\ UNCHANGED <<vars, inferenceVars, conn, toGateway, mode, turn, outbox, gwTicks>>

\* The connection stalls, goes on, or is dropped.
ConnChanges ==
    /\ mode = "live" /\ Faults
    /\ pc # "halted"
    /\ conn # "reset"
    /\ conn' \in {"up", "stalled", "reset"} \ {conn}
    /\ UNCHANGED <<vars, inferenceVars, gatewayVars, toGateway, toKernel>>

GatewayStep == GatewayReceive \/ GatewaySend

-----------------------------------------------------------------------------
(* MeshInference::next.                                                    *)

\* Everything of the loop but pc stays.
Goto(label) ==
    /\ pc' = label
    /\ UNCHANGED <<driverVars, mtime, mtimecmp, stepStarted, lastStep, exit, awake, openedAt>>

\* blocking_send_raw, entered at label: its deadline starts now.
BeginSend(label) ==
    /\ Goto(label)
    /\ sendStarted' = mtime
    /\ UNCHANGED <<inFlight, reply, blocked, wireVars, gatewayVars>>

\* No turn in flight: send_text of this step's directive.
BeginPrompt == pc = "poll" /\ ~inFlight /\ BeginSend("prompt")

\* Mutant: the turn is not noted as in flight.
NotNoted == FALSE

\* self.in_flight = true
Noted == TRUE

\* The socket took the frame: the turn is in flight, and this poll is Pending.
PromptSent ==
    /\ pc = "prompt"
    /\ conn = "up"
    /\ toGateway' = Append(toGateway, step)
    /\ inFlight' = Noted
    /\ reply' = << >>
    /\ PollReturns(Pending)
    /\ UNCHANGED <<sendStarted, blocked, conn, toKernel, gatewayVars>>

\* The next message of the drain loop, `while let Some(text) = try_next_text()`.
Draining == pc = "poll" /\ inFlight

Receives(type) ==
    /\ Draining
    /\ toKernel # << >>
    /\ Head(toKernel).type = type
    /\ toKernel' = Tail(toKernel)
    /\ UNCHANGED <<conn, toGateway, gatewayVars>>

\* Mutant: only the latest delta is kept.
Replaced == << Head(toKernel) >>

\* self.reply.push_str(text)
Extended == Append(reply, Head(toKernel))

\* A delta joins the reply; the session it names is not looked at.
ReceiveText ==
    /\ Receives("agent_text")
    /\ reply' = Extended
    /\ UNCHANGED <<vars, inFlight, sendStarted, blocked>>

\* A completion ends the turn; the session it names is not looked at.
ReceiveComplete ==
    /\ Receives("turn_complete")
    /\ inFlight' = FALSE
    /\ PollReturns(ParseGoalStep(reply))
    /\ UNCHANGED <<reply, sendStarted, blocked>>

\* Other events and control frames change nothing.
ReceiveOther ==
    /\ Receives("other")
    /\ UNCHANGED <<vars, inferenceVars>>

\* A ping is answered from inside try_next_text, by a blocking send.
ReceivePing ==
    /\ Receives("ping")
    /\ Goto("pong")
    /\ sendStarted' = mtime
    /\ UNCHANGED <<inFlight, reply, blocked>>

PongSent ==
    /\ pc = "pong"
    /\ conn = "up"
    /\ Goto("poll")
    /\ UNCHANGED <<inferenceVars, wireVars, gatewayVars>>

\* panic!("mesh: peer closed mid-session"), and the same panic for a frame that
\* cannot be decoded and for a text that is not UTF-8.
ReceiveClose ==
    /\ Receives("close")
    /\ Panic
    /\ UNCHANGED inferenceVars

\* try_next_text() = None: the turn is still in flight.
NothingDecodable ==
    /\ Draining
    /\ toKernel = << >>
    /\ PollReturns(Pending)
    /\ UNCHANGED <<inferenceVars, wireVars, gatewayVars>>

\* Mutant: a blocking send waits for ever.
SendExpiredNever == FALSE

SendExpired == mtime - sendStarted > SendTimeout

\* can_send is false, after a reset for good: idle_tick until the deadline
\* panics.
SendBlocked == pc \in {"prompt", "pong", "close"} /\ conn # "up"

SendTimesOut ==
    /\ SendBlocked
    /\ SendExpired
    /\ Panic
    /\ UNCHANGED <<inferenceVars, wireVars, gatewayVars>>

-----------------------------------------------------------------------------
(* close_clean, between drive_goal and the exit.                           *)

BeginClose == pc = "end" /\ BeginSend("close")

CloseSent ==
    /\ pc = "close"
    /\ conn = "up"
    /\ Goto("closed")
    /\ UNCHANGED <<inferenceVars, wireVars, gatewayVars>>

\* The peer's close, or two seconds: whatever arrives is drained and dropped.
CloseAwaited ==
    /\ pc = "closed"
    /\ WriteExit
    /\ UNCHANGED <<inferenceVars, wireVars, gatewayVars>>

-----------------------------------------------------------------------------

MeshInit ==
    /\ Init
    /\ inFlight = FALSE
    /\ reply = << >>
    /\ sendStarted = 0
    /\ blocked = 0
    /\ conn = "up"
    /\ toGateway = << >>
    /\ toKernel = << >>
    /\ mode \in Modes
    /\ turn = 0
    /\ outbox = << >>
    /\ unasked = 0
    /\ gwTicks = 0

\* A blocked send idles until its deadline; a mock answers within
\* GatewayTicks; all else is the loop's own Tick.
MeshTick ==
    /\ pc # "halted"
    /\ \/ Asleep /\ UNCHANGED <<awake, blocked>>
       \/ /\ SendBlocked /\ ~SendExpired
          /\ awake' = awake + 1
          /\ blocked' = blocked + 1
       \/ /\ ~Asleep /\ ~SendBlocked
          /\ awake - blocked < AwakeTicks
          /\ awake' = awake + 1
          /\ UNCHANGED blocked
    /\ IF mode = "live" \/ GatewayIdle THEN UNCHANGED gwTicks
         ELSE gwTicks < GatewayTicks /\ gwTicks' = gwTicks + 1
    /\ mtime' = mtime + 1
    /\ UNCHANGED <<driverVars, pc, mtimecmp, stepStarted, lastStep, exit, openedAt>>
    /\ UNCHANGED <<inFlight, reply, sendStarted, wireVars, mode, turn, outbox, unasked>>

\* The loop's own steps, as they are.
LoopAround ==
    /\ StartClock \/ Clock \/ Watchdog \/ ArmWakeup \/ Wake
    /\ blocked' = IF pc' \in {"wfi", "end"} THEN 0 ELSE blocked
    /\ UNCHANGED <<inFlight, reply, sendStarted, wireVars, gatewayVars>>

KernelStep ==
    \/ LoopAround
    \/ BeginPrompt \/ PromptSent
    \/ ReceiveText \/ ReceiveComplete \/ ReceiveOther
    \/ ReceivePing \/ PongSent \/ ReceiveClose
    \/ NothingDecodable
    \/ SendTimesOut
    \/ BeginClose \/ CloseSent \/ CloseAwaited

MeshNext ==
    \/ KernelStep
    \/ MeshTick
    \/ GatewayStep \/ GatewayPush \/ ConnChanges

\* The hart executes and the CLINT counts; of the gateway and the network
\* nothing is assumed.  One condition for both: a connection that keeps
\* changing its mind disables the send and the tick by turns.
MeshSpec ==
    /\ MeshInit
    /\ [][MeshNext]_meshVars
    /\ WF_meshVars(KernelStep \/ MeshTick)

\* The mocks do answer.
MockSpec == MeshSpec /\ WF_meshVars(GatewayStep)

-----------------------------------------------------------------------------
(* Properties.                                                             *)

\* "Each goal step is one gateway turn" (mesh.rs:343): while the goal is in
\* progress the prompts sent so far, received by the gateway or on their way,
\* are exactly those of the steps begun, in order, and none is sent twice.
OneTurnPerStep ==
    Acting /\ pc # "halted" =>
        /\ turn + Len(toGateway) = IF inFlight THEN step ELSE step - 1
        /\ \A i \in 1..Len(toGateway) : toGateway[i] = turn + i

\* A turn is completed by the completion of its own prompt, out of its own
\* deltas, all of them, in the order the gateway streamed them: nothing read in
\* an earlier turn, or left on the wire by it, reaches the verdict of a later
\* one (mesh.rs:379-402).
VerdictOfOwnTurn ==
    [][inFlight /\ ~inFlight' =>
            /\ Head(toKernel).turn = step
            /\ \A i \in 1..Len(reply) : reply[i].turn = step
            /\ \E answer \in Answers(step) : answer = Append(reply, Head(toKernel))]_meshVars

\* What a reply says, by the convention the model is told: without a GOAL_STEP
\* line, or with an unknown status in the last, go on without a steer; otherwise
\* what the last one says.
Says(deltas, verdict) ==
    \/ /\ \A i \in 1..Len(deltas) : deltas[i].delta.kind = "prose"
       /\ verdict = ContinueVerdict(NoText)
    \/ \E i \in 1..Len(deltas) :
         /\ \A j \in i+1..Len(deltas) : deltas[j].delta.kind = "prose"
         /\ \/ /\ deltas[i].delta.kind = "garbled"
               /\ verdict = ContinueVerdict(NoText)
            \/ /\ deltas[i].delta.kind \in {"done", "blocked", "continue"}
               /\ verdict = deltas[i].delta

\* What the goal makes of a verdict: it ends as told, with the reason it was
\* given; it opens the next step with the steer it was given; or it ends
\* because this was the last step.
Obeys(verdict) ==
    \/ /\ verdict.kind = "done"
       /\ state' = "done" /\ uart' = Append(uart, Event("done", step, "none"))
    \/ /\ verdict.kind = "blocked"
       /\ state' = "blocked" /\ uart' = Append(uart, Event("blocked", step, verdict.text))
    \/ /\ verdict.kind = "continue" /\ step < maxSteps
       /\ state' = "acting" /\ uart' = Append(uart, Event("acting", step + 1, "none"))
       /\ steer' = verdict.text
    \/ /\ verdict.kind = "continue" /\ step = maxSteps
       /\ state' = "done"
       /\ uart' = Append(uart, Event("done", step, "step budget reached"))

\* When a turn completes, the goal makes exactly the step that the last
\* GOAL_STEP line of the reply asks for, whatever the lines before it said and
\* however much prose follows: done, blocked with that reason, or the next step
\* with that steer; and it goes on without a steer when there is no such line,
\* or the last has an unknown status (mesh.rs:393-394, goal.rs:129-167,291-317).
LastVerdictDecides ==
    [][inFlight /\ ~inFlight' =>
        \E verdict \in TurnResults : Says(reply, verdict) /\ Obeys(verdict)]_meshVars

\* A poll sends its prompt, or the pongs of the pings it drains: each send may
\* take SendTimeout, and one tick more before the deadline is noticed.
SendsPerPoll == IF MaxUnasked = 0 THEN 1 ELSE MaxUnasked
SendAllowance == SendsPerPoll * (SendTimeout + 1)

\* MeshInference is one of the inferences KernelLoop is open to: a blocking
\* send is a poll, or the end, that takes longer.  So what is proved of every
\* KernelLoop holds of this build with that allowance: the stall deadline,
\* the watchdog, the exit code, the goal lifecycle (mesh.rs:207-230).
Loop == INSTANCE KernelLoop WITH
            AwakeTicks <- AwakeTicks + SendAllowance,
            pc <- IF pc \in {"prompt", "pong"} THEN "poll"
                  ELSE IF pc \in {"close", "closed"} THEN "end" ELSE pc

ImplementsLoop == Loop!Spec

\* "Mocked 3-step goal ends Done, exit 0; silent-mock variant -> Failed/exit
\* 2" (PRD:172): the two mesh gates of the repository.
GateLog ==
    IF mode = "llm"
      THEN << Event("acting", 1, "none"), Event("acting", 2, "none"),
              Event("acting", 3, "none"), Event("done", 3, "none") >>
      ELSE << Event("acting", 1, "none"), Event("failed", 1, "stalled") >>

\* The mock gates pass: the kernel exits with the code the gate expects after
\* printing exactly the log of that gate, at every interleaving (PRD:172).
GateOutcome ==
    <>(pc = "halted" /\ uart = GateLog /\ exit = (IF mode = "llm" THEN 0 ELSE 2))

\* "Initiate a clean close; best-effort completion, never fails the gate."
\* (mesh.rs:299): a goal that ended Done exits 0.
CloseNeverFailsGate ==
    pc = "halted" /\ state = "done" => exit = 0

=============================================================================
