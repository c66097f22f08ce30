--------------------------- MODULE MeshGoalProofs ----------------------------
(***************************************************************************)
(* The mesh-goal build, for every gateway that answers in whole lines,     *)
(* every fault of the wire and every bound: one turn per step, each        *)
(* decided by its own reply's last verdict, and a poll that takes as long  *)
(* as its sends may.                                                       *)
(***************************************************************************)
EXTENDS MeshGoal, KernelLoopProofs, SequenceTheorems

FrameTypes == {"agent_text", "turn_complete", "other", "ping", "close"}

Frames == [type : FrameTypes, turn : Nat, delta : Deltas]

MeshLabels == Labels \union {"prompt", "pong", "close", "closed"}

MeshTypeOK ==
    /\ inFlight \in BOOLEAN
    /\ reply \in Seq(Frames)
    /\ sendStarted \in Nat /\ blocked \in Nat
    /\ conn \in {"up", "stalled", "reset"}
    /\ toGateway \in Seq(Nat) /\ toKernel \in Seq(Frames)
    /\ mode \in Modes /\ turn \in Nat /\ outbox \in Seq(Frames)
    /\ unasked \in 0..MaxUnasked
    /\ gwTicks \in Nat
    /\ mtime \in Nat /\ awake \in Nat /\ pc \in MeshLabels

\* Where the kernel is says whether the goal, and the turn, is in progress.
MeshControl ==
    /\ pc \in {"start", "poll", "prompt", "pong", "check", "wfi"} => Acting
    /\ pc = "prompt" => ~inFlight
    /\ pc = "pong" => inFlight

TurnsInv ==
    /\ DriverInv
    /\ MeshTypeOK
    /\ MeshControl
    /\ OneTurnPerStep

-----------------------------------------------------------------------------
(* What VerdictOfOwnTurn needs: where the frames of a turn are.            *)

TurnFrame(f) == f.type \in {"agent_text", "turn_complete"}

\* n[i] frames of the answer are in the reply or among the first i on the wire;
\* the wire has them in the answer's order, and the outbox has the rest.
Streams(answer, n) ==
    /\ n[0] = Len(reply)
    /\ \A i, j \in 0..Len(toKernel) : i <= j => n[i] <= n[j]
    /\ \A i \in 1..Len(toKernel) :
          IF TurnFrame(toKernel[i])
            THEN n[i] = n[i-1] + 1 /\ toKernel[i] = answer[n[i]]
            ELSE n[i] = n[i-1]
    /\ \A i \in 1..Len(reply) : reply[i] = answer[i]
    /\ n[Len(toKernel)] + Len(outbox) = Len(answer)
    /\ \A i \in 1..Len(outbox) : outbox[i] = answer[n[Len(toKernel)] + i]

\* The gateway has received the prompt of the turn in flight.
TurnAnswered == inFlight /\ toGateway = << >>

OwnTurnInv ==
    Acting /\ pc # "halted" =>
        /\ TurnAnswered =>
             \E answer \in Answers(step) :
                 \E n \in [0..Len(toKernel) -> Nat] : Streams(answer, n)
        /\ ~TurnAnswered =>
             /\ outbox = << >>
             /\ \A i \in 1..Len(toKernel) : ~TurnFrame(toKernel[i])
             /\ IF inFlight THEN reply = << >> /\ Len(toGateway) = 1
                            ELSE toGateway = << >>

-----------------------------------------------------------------------------
(* What ImplementsLoop needs: how long the sends of an iteration can take. *)

\* p[i] bounds the pings consumed so far and among the first i on the wire.
Pings(p) ==
    /\ \A i, j \in 0..Len(toKernel) : i <= j => p[i] <= p[j]
    /\ \A i \in 1..Len(toKernel) : toKernel[i].type = "ping" => p[i-1] < p[i]
    /\ p[Len(toKernel)] <= unasked

SendsTake(n) == n * (SendTimeout + 1)

\* The send in progress began after `before` ticks of sending.
InSend(before) ==
    /\ sendStarted <= mtime
    /\ blocked <= before + (mtime - sendStarted)
    /\ blocked <= before + (SendTimeout + 1)

\* The sends of an iteration: one prompt, or the pongs of consumed pings.
SentWithin(pongs) ==
    /\ pc \in {"start", "wfi", "end"} => blocked = 0
    /\ pc = "poll" => blocked <= (IF inFlight THEN SendsTake(pongs) ELSE 0)
    /\ pc = "pong" => pongs > 0 /\ InSend(SendsTake(pongs - 1))
    /\ pc \in {"prompt", "close"} => InSend(0)
    /\ pc \in {"clock", "check", "closed"} =>
         blocked <= SendsTake(pongs) \/ blocked <= SendTimeout + 1

AllowanceInv ==
    /\ \A i \in 1..Len(outbox) : TurnFrame(outbox[i])
    /\ awake <= AwakeTicks + blocked
    /\ \E p \in [0..Len(toKernel) -> Nat] : Pings(p) /\ SentWithin(p[0])

-----------------------------------------------------------------------------
(* Replies and verdicts.                                                   *)

\* Frames and deltas have their types.
LEMMA DeltaTypes ==
    /\ Prose \in Deltas
    /\ \A d \in Deltas :
         /\ d.kind \in {"prose", "garbled", "done", "blocked", "continue"}
         /\ d.kind \in {"done", "blocked", "continue"} => d \in TurnResults
         /\ d.kind = "done" => d = DoneVerdict
    /\ ContinueVerdict(NoText) \in TurnResults /\ Pending \in TurnResults
    /\ \A t \in Nat, d \in Deltas : AgentText(t, d) \in Frames
    /\ \A t \in Nat : TurnComplete(t) \in Frames
    /\ \A type \in FrameTypes : OtherFrame(type) \in Frames
<1>1. Prose \in Deltas
    BY DEF Deltas
<1>2. ASSUME NEW d \in Deltas
      PROVE  /\ d.kind \in {"prose", "garbled", "done", "blocked", "continue"}
             /\ d.kind \in {"done", "blocked", "continue"} => d \in TurnResults
             /\ d.kind = "done" => d = DoneVerdict
    BY DEF Deltas, Prose, Garbled, DoneVerdict, BlockedVerdict, ContinueVerdict, TurnResults
<1>3. ContinueVerdict(NoText) \in TurnResults /\ Pending \in TurnResults
    BY DEF TurnResults
<1>4. ASSUME NEW t \in Nat, NEW d \in Deltas PROVE AgentText(t, d) \in Frames
    BY DEF AgentText, Frames, FrameTypes
<1>5. ASSUME NEW t \in Nat PROVE TurnComplete(t) \in Frames
    BY <1>1 DEF TurnComplete, Frames, FrameTypes
<1>6. ASSUME NEW type \in FrameTypes PROVE OtherFrame(type) \in Frames
    BY <1>1 DEF OtherFrame, Frames
<1> QED
    BY <1>1, <1>2, <1>3, <1>4, <1>5, <1>6

\* The last line of a reply that reports a status decides; a reply without
\* one, or with an unknown status last, asks to go on.
LEMMA LastLineDecides ==
    ASSUME NEW q \in Seq(Frames), NEW i \in 1..Len(q), q[i].delta.kind # "prose",
           \A j \in i+1..Len(q) : q[j].delta.kind = "prose"
    PROVE  ParseGoalStep(q) = IF q[i].delta.kind = "garbled" THEN ContinueVerdict(NoText)
                              ELSE q[i].delta
<1> DEFINE lines == {k \in 1..Len(q) : q[k].delta.kind # "prose"}
<1>1. i \in lines /\ Len(q) \in Nat
    OBVIOUS
<1>2. \A k \in lines : k <= i
    <2> SUFFICES ASSUME NEW k \in lines, ~(k <= i) PROVE FALSE
        OBVIOUS
    <2>1. k \in i+1..Len(q)
        BY <1>1
    <2> QED
        BY <2>1
<1>3. \A m \in lines : (\A j \in lines : j <= m) => m = i
    <2> SUFFICES ASSUME NEW m \in lines, i <= m PROVE m = i
        BY <1>1
    <2> QED
        BY <1>2
<1>4. Deciding(lines) = i
    <2>1. Deciding(lines) \in lines /\ \A j \in lines : j <= Deciding(lines)
        BY <1>1, <1>2 DEF Deciding
    <2> QED
        BY <1>3, <2>1
<1> QED
    BY <1>1, <1>4 DEF ParseGoalStep

\* A reply always parses to a verdict, never to Pending or Stalled.
LEMMA ParsedVerdict ==
    ASSUME NEW q \in Seq(Frames)
    PROVE  /\ ParseGoalStep(q) \in TurnResults
           /\ ParseGoalStep(q).kind \in {"done", "blocked", "continue"}
<1> DEFINE lines == {k \in 1..Len(q) : q[k].delta.kind # "prose"}
<1>1. ContinueVerdict(NoText).kind = "continue"
    BY DEF ContinueVerdict
<1>2. CASE lines = {}
    BY <1>1, <1>2, DeltaTypes DEF ParseGoalStep
<1>3. CASE lines # {}
    <2>1. PICK i \in lines : \A k \in lines : k <= i
        <3>1. Len(q) \in Nat /\ lines \in SUBSET (1..Len(q))
            OBVIOUS
        <3> HIDE DEF lines
        <3> QED
            BY <1>3, <3>1, GreatestNumber
    <2>2. \A j \in i+1..Len(q) : q[j].delta.kind = "prose"
        <3> SUFFICES ASSUME NEW j \in i+1..Len(q), q[j].delta.kind # "prose" PROVE FALSE
            OBVIOUS
        <3>1. j \in lines /\ ~(j <= i)
            OBVIOUS
        <3> QED
            BY <2>1, <3>1
    <2>3. q[i].delta \in Deltas
        <3>1. q[i] \in Frames
            BY <2>1
        <3> QED
            BY <3>1 DEF Frames
    <2>4. ParseGoalStep(q) = IF q[i].delta.kind = "garbled" THEN ContinueVerdict(NoText)
                             ELSE q[i].delta
        BY <2>2, LastLineDecides
    <2> QED
        BY <1>1, <2>1, <2>3, <2>4, DeltaTypes
<1> QED
    BY <1>2, <1>3

\* The gateway answers a prompt with the lines of one reply, all of that
\* prompt's turn, and then its completion, if any.
LEMMA AnswerShape ==
    ASSUME mode \in Modes, NEW n \in Nat, NEW answer \in Answers(n)
    PROVE  /\ answer \in Seq(Frames)
           /\ \A i \in 1..Len(answer) :
                /\ TurnFrame(answer[i]) /\ answer[i].turn = n
                /\ answer[i].type = "turn_complete" => i = Len(answer)
<1> DEFINE llm == << Prose, IF n < 3 THEN ContinueVerdict(NoText) ELSE DoneVerdict >>
<1>1. llm \in Seq(Deltas) /\ << Prose >> \in Seq(Deltas)
    <2>1. ContinueVerdict(NoText) \in Deltas /\ DoneVerdict \in Deltas /\ Prose \in Deltas
        BY DEF Deltas
    <2> QED
        BY <2>1
<1>2. PICK r \in Seq(Deltas) :
        answer = Stream(n, r) \/ answer = Stream(n, r) \o << TurnComplete(n) >>
    <2> HIDE DEF llm
    <2>1. CASE mode = "llm"
        <3>1. answer = Stream(n, llm) \o << TurnComplete(n) >>
            BY <2>1 DEF Answers, llm
        <3> QED
            BY <1>1, <3>1
    <2>2. CASE mode = "silent"
        <3>1. answer = Stream(n, << Prose >>)
            BY <2>2 DEF Answers
        <3> QED
            BY <1>1, <3>1
    <2>3. CASE mode = "live"
        <3>1. \E r \in Replies :
                answer = Stream(n, r) \/ answer = Stream(n, r) \o << TurnComplete(n) >>
            BY <2>3 DEF Answers
        <3> QED
            BY <3>1, ReplyAssumption
    <2> QED
        BY <2>1, <2>2, <2>3, MeshAssumption
<1> DEFINE s == Stream(n, r)
<1>3. /\ s \in Seq(Frames) /\ Len(s) = Len(r) /\ Len(s) \in Nat
      /\ \A i \in 1..Len(s) : s[i].type = "agent_text" /\ s[i].turn = n
    <2>1. s = [i \in 1..Len(r) |-> AgentText(n, r[i])] /\ Len(r) \in Nat
        BY DEF Stream
    <2>2. \A i \in 1..Len(r) : AgentText(n, r[i]) \in Frames
        <3>1. \A i \in 1..Len(r) : r[i] \in Deltas
            OBVIOUS
        <3> QED
            BY <3>1, DeltaTypes
    <2> HIDE DEF s
    <2>3. s \in Seq(Frames) /\ Len(s) = Len(r)
        BY <2>1, <2>2
    <2> QED
        BY <2>1, <2>3 DEF AgentText
<1> HIDE DEF s
<1>4. /\ TurnComplete(n) \in Frames /\ TurnComplete(n).type = "turn_complete"
      /\ TurnComplete(n).turn = n
    BY DeltaTypes DEF TurnComplete
<1>5. CASE answer = s
    BY <1>3, <1>5 DEF TurnFrame
<1>6. CASE answer = s \o << TurnComplete(n) >>
    <2>1. /\ answer \in Seq(Frames) /\ Len(answer) = Len(s) + 1
          /\ answer[Len(s) + 1] = TurnComplete(n)
          /\ \A i \in 1..Len(s) : answer[i] = s[i]
        BY <1>3, <1>4, <1>6
    <2>2. \A i \in 1..Len(answer) : i \in 1..Len(s) \/ i = Len(s) + 1
        BY <1>3, <2>1
    <2> QED
        BY <1>3, <1>4, <2>1, <2>2 DEF TurnFrame
<1> QED
    BY <1>2, <1>5, <1>6 DEF s

-----------------------------------------------------------------------------
(* TurnsInv is inductive.                                                  *)

\* One frame leaves the wire, or joins it.
LEMMA TailFrames ==
    ASSUME NEW q \in Seq(Frames), q # << >>
    PROVE  /\ Tail(q) \in Seq(Frames) /\ Head(q) \in Frames
           /\ Head(q) = q[1] /\ Len(q) \in Nat \ {0}
           /\ Len(Tail(q)) = Len(q) - 1
           /\ \A i \in 1..Len(q) - 1 : Tail(q)[i] = q[i + 1]
OBVIOUS

LEMMA AppendFrame ==
    ASSUME NEW q \in Seq(Frames), NEW f \in Frames
    PROVE  /\ Append(q, f) \in Seq(Frames) /\ Len(q) \in Nat
           /\ Len(Append(q, f)) = Len(q) + 1
           /\ Append(q, f)[Len(q) + 1] = f
           /\ \A i \in 1..Len(q) : Append(q, f)[i] = q[i]
OBVIOUS

\* Only the verdict of a completed turn and the watchdog move the driver.
LEMMA MeshDriver ==
    ASSUME [MeshNext]_meshVars
    PROVE  \/ UNCHANGED driverVars
           \/ ReceiveComplete
           \/ LoopAround /\ Watchdog
<1>1. Advance(Pending) => UNCHANGED driverVars
    BY DEF Advance, Pending
<1>2. UNCHANGED meshVars => UNCHANGED driverVars
    BY DEF meshVars, vars
<1>3. MeshTick \/ GatewayStep \/ GatewayPush \/ ConnChanges => UNCHANGED driverVars
    BY DEF MeshTick, GatewayStep, GatewayReceive, GatewaySend, GatewayPush, ConnChanges, vars
<1>4. ASSUME KernelStep
      PROVE  UNCHANGED driverVars \/ ReceiveComplete \/ (LoopAround /\ Watchdog)
    <2>1. LoopAround => UNCHANGED driverVars \/ Watchdog
        BY DEF LoopAround, StartClock, Clock, ArmWakeup, Wake
    <2>2. BeginPrompt \/ PromptSent \/ NothingDecodable => UNCHANGED driverVars
        BY <1>1 DEF BeginPrompt, BeginSend, Goto, PromptSent, NothingDecodable, PollReturns
    <2>3. ReceiveText \/ ReceiveOther \/ ReceivePing \/ PongSent \/ ReceiveClose
            => UNCHANGED driverVars
        BY DEF ReceiveText, ReceiveOther, ReceivePing, PongSent, ReceiveClose, Goto, Panic, vars
    <2>4. SendTimesOut \/ BeginClose \/ CloseSent \/ CloseAwaited => UNCHANGED driverVars
        BY DEF SendTimesOut, Panic, BeginClose, BeginSend, CloseSent, CloseAwaited,
               WriteExit, Goto
    <2> QED
        BY <1>4, <2>1, <2>2, <2>3, <2>4 DEF KernelStep
<1> QED
    BY <1>2, <1>3, <1>4 DEF MeshNext

\* What the completion of a turn does to the goal: the next step, or its end.
LEMMA TurnConcludes ==
    ASSUME TurnsInv, ReceiveComplete
    PROVE  /\ Acting /\ inFlight /\ ~inFlight' /\ pc = "poll" /\ pc' = "clock"
           /\ ParseGoalStep(reply) \in TurnResults
           /\ Advance(ParseGoalStep(reply))
           /\ \/ \E s : NextStep(s)
              \/ \E d : \E st \in {"done", "blocked"} : Finish(st, d)
<1>1. /\ inFlight /\ ~inFlight' /\ pc = "poll" /\ pc' = "clock"
      /\ Advance(ParseGoalStep(reply))
    BY DEF ReceiveComplete, Receives, Draining, PollReturns
<1>2. Acting
    BY <1>1 DEF TurnsInv, MeshControl
<1>3. /\ ParseGoalStep(reply) \in TurnResults
      /\ ParseGoalStep(reply).kind \in {"done", "blocked", "continue"}
    BY ParsedVerdict DEF TurnsInv, MeshTypeOK
<1>4. \/ \E s : NextStep(s)
      \/ \E d : \E st \in {"done", "blocked"} : Finish(st, d)
    BY <1>1, <1>2, <1>3 DEF Advance, Continue
<1> QED
    BY <1>1, <1>2, <1>3, <1>4

LEMMA MeshDriverInv ==
    ASSUME TurnsInv, [MeshNext]_meshVars
    PROVE  DriverInv'
<1>1. CASE UNCHANGED driverVars
    BY <1>1, DriverUnchanged DEF TurnsInv
<1>2. CASE ReceiveComplete
    BY <1>2, TurnConcludes, AdvanceDriverInv DEF TurnsInv
<1>3. CASE Watchdog
    <2>1. Stalled \in TurnResults
        BY DEF TurnResults
    <2> QED
        BY <1>3, <2>1, AdvanceDriverInv DEF TurnsInv, Watchdog
<1> QED
    BY <1>1, <1>2, <1>3, MeshDriver

\* What the gateway pushes unasked is not of a turn.
LEMMA PushedFrame ==
    ASSUME NEW f \in UnaskedFrames
    PROVE  f \in Frames /\ ~TurnFrame(f)
<1>1. {"other", "ping", "close"} \subseteq FrameTypes
    BY DEF FrameTypes
<1>2. f \in {OtherFrame("other"), OtherFrame("ping"), OtherFrame("close")}
    BY DEF UnaskedFrames
<1> QED
    BY <1>1, <1>2, DeltaTypes DEF OtherFrame, TurnFrame

\* The inference, the wire and the gateway keep their types.
LEMMA WireTypes ==
    ASSUME TurnsInv, [MeshNext]_meshVars
    PROVE  /\ inFlight' \in BOOLEAN /\ reply' \in Seq(Frames)
           /\ toGateway' \in Seq(Nat) /\ toKernel' \in Seq(Frames)
           /\ turn' \in Nat /\ outbox' \in Seq(Frames)
           /\ unasked' \in 0..MaxUnasked
<1>1. /\ inFlight \in BOOLEAN /\ reply \in Seq(Frames)
      /\ toGateway \in Seq(Nat) /\ toKernel \in Seq(Frames)
      /\ turn \in Nat /\ outbox \in Seq(Frames)
      /\ unasked \in 0..MaxUnasked
      /\ mode \in Modes /\ step \in Nat
    BY LogFacts DEF TurnsInv, MeshTypeOK
<1>2. CASE UNCHANGED <<inFlight, reply, wireVars, gatewayVars>>
    BY <1>1, <1>2 DEF wireVars, gatewayVars
<1>3. CASE GatewayReceive
    <2>1. outbox' \in Seq(Frames)
        BY <1>1, <1>3, AnswerShape DEF GatewayReceive
    <2>2. toGateway' \in Seq(Nat) /\ turn' \in Nat
        BY <1>1, <1>3 DEF GatewayReceive
    <2> QED
        BY <1>1, <1>3, <2>1, <2>2 DEF GatewayReceive, inferenceVars
<1>4. CASE GatewaySend
    <2>1. outbox' \in Seq(Frames) /\ toKernel' \in Seq(Frames)
        BY <1>1, <1>4, TailFrames, AppendFrame DEF GatewaySend
    <2> QED
        BY <1>1, <1>4, <2>1 DEF GatewaySend, inferenceVars
<1>5. CASE GatewayPush
    <2>1. toKernel' \in Seq(Frames)
        BY <1>1, <1>5, PushedFrame, AppendFrame DEF GatewayPush
    <2>2. unasked' \in 0..MaxUnasked
        BY <1>1, <1>5, MeshAssumption DEF GatewayPush
    <2> QED
        BY <1>1, <1>5, <2>1, <2>2 DEF GatewayPush, inferenceVars
<1>6. CASE PromptSent
    <2>1. toGateway' \in Seq(Nat) /\ reply' \in Seq(Frames) /\ inFlight' \in BOOLEAN
        BY <1>1, <1>6 DEF PromptSent, Noted
    <2> QED
        BY <1>1, <1>6, <2>1 DEF PromptSent, gatewayVars
<1>7. CASE ReceiveText \/ ReceiveComplete \/ ReceiveOther \/ ReceivePing \/ ReceiveClose
    <2>1. /\ toKernel # << >> /\ toKernel' = Tail(toKernel)
          /\ UNCHANGED <<toGateway, gatewayVars>>
        BY <1>7 DEF ReceiveText, ReceiveComplete, ReceiveOther, ReceivePing, ReceiveClose,
                    Receives
    <2>2. toKernel' \in Seq(Frames) /\ Head(toKernel) \in Frames
        BY <1>1, <2>1, TailFrames
    <2>3. reply' \in Seq(Frames)
        <3>1. reply' \in {reply, Append(reply, Head(toKernel))}
            BY <1>7 DEF ReceiveText, ReceiveComplete, ReceiveOther, ReceivePing,
                        ReceiveClose, Extended, inferenceVars
        <3>2. Append(reply, Head(toKernel)) \in Seq(Frames)
            BY <1>1, <2>2, AppendFrame
        <3> QED
            BY <1>1, <3>1, <3>2
    <2>4. inFlight' \in BOOLEAN
        BY <1>1, <1>7 DEF ReceiveText, ReceiveComplete, ReceiveOther, ReceivePing,
                          ReceiveClose, inferenceVars
    <2> QED
        BY <1>1, <2>1, <2>2, <2>3, <2>4 DEF gatewayVars
<1>8. ASSUME \/ LoopAround \/ BeginPrompt \/ PongSent \/ NothingDecodable \/ SendTimesOut
             \/ BeginClose \/ CloseSent \/ CloseAwaited
      PROVE  UNCHANGED <<inFlight, reply, wireVars, gatewayVars>>
    BY <1>8 DEF LoopAround, BeginPrompt, BeginSend, PongSent, NothingDecodable,
           SendTimesOut, BeginClose, CloseSent, CloseAwaited, inferenceVars
<1>9. ASSUME ConnChanges \/ MeshTick \/ UNCHANGED meshVars
      PROVE  UNCHANGED <<inFlight, reply, toGateway, toKernel, turn, outbox, unasked>>
    BY <1>9 DEF ConnChanges, MeshTick, meshVars, inferenceVars, wireVars, gatewayVars
<1>10. CASE ConnChanges \/ MeshTick \/ UNCHANGED meshVars
    BY <1>1, <1>9, <1>10
<1> QED
    BY <1>2, <1>3, <1>4, <1>5, <1>6, <1>7, <1>8, <1>10 DEF MeshNext, KernelStep, GatewayStep

\* So do the clocks and the places.
LEMMA ClockTypes ==
    ASSUME TurnsInv, [MeshNext]_meshVars
    PROVE  /\ sendStarted' \in Nat /\ blocked' \in Nat /\ gwTicks' \in Nat
           /\ conn' \in {"up", "stalled", "reset"} /\ mode' \in Modes
           /\ mtime' \in Nat /\ awake' \in Nat /\ pc' \in MeshLabels
<1>1. /\ sendStarted \in Nat /\ blocked \in Nat /\ gwTicks \in Nat
      /\ conn \in {"up", "stalled", "reset"} /\ mode \in Modes
      /\ mtime \in Nat /\ awake \in Nat /\ pc \in MeshLabels
    BY DEF TurnsInv, MeshTypeOK
<1>2. /\ {"start", "poll", "clock", "check", "wfi", "end", "halted"} \subseteq MeshLabels
      /\ {"prompt", "pong", "close", "closed"} \subseteq MeshLabels
    BY DEF MeshLabels, Labels
<1>3. CASE MeshTick
    BY <1>1, <1>3 DEF MeshTick, wireVars
<1>4. CASE LoopAround
    <2>1. /\ blocked' \in {0, blocked} /\ sendStarted' = sendStarted
          /\ UNCHANGED <<gwTicks, conn, mode>>
        BY <1>4 DEF LoopAround, wireVars, gatewayVars
    <2>2. mtime' = mtime /\ awake' \in {0, awake}
          /\ pc' \in {"poll", "check", "end", "wfi"}
        BY <1>4 DEF LoopAround, StartClock, Clock, Watchdog, ArmWakeup, Wake
    <2> QED
        BY <1>1, <1>2, <2>1, <2>2
<1>5. CASE BeginPrompt \/ BeginClose
    BY <1>1, <1>2, <1>5 DEF BeginPrompt, BeginClose, BeginSend, Goto, wireVars, gatewayVars
<1>6. CASE PromptSent \/ NothingDecodable \/ ReceiveComplete
    BY <1>1, <1>2, <1>6 DEF PromptSent, NothingDecodable, ReceiveComplete, Receives,
       PollReturns, inferenceVars, wireVars, gatewayVars
<1>7. CASE ReceiveText \/ ReceiveOther
    BY <1>1, <1>7 DEF ReceiveText, ReceiveOther, Receives, vars, loopVars,
       inferenceVars, wireVars, gatewayVars
<1>8. CASE ReceivePing \/ ReceiveClose
    BY <1>1, <1>2, <1>8 DEF ReceivePing, ReceiveClose, Receives, Goto, Panic,
       inferenceVars, wireVars, gatewayVars
<1>9. CASE PongSent \/ CloseSent
    BY <1>1, <1>2, <1>9 DEF PongSent, CloseSent, Goto, inferenceVars, wireVars, gatewayVars
<1>10. CASE SendTimesOut \/ CloseAwaited
    BY <1>1, <1>2, <1>10 DEF SendTimesOut, CloseAwaited, Panic, WriteExit,
       inferenceVars, wireVars, gatewayVars
<1>11. CASE GatewayReceive \/ GatewaySend \/ GatewayPush
    BY <1>1, <1>11 DEF GatewayReceive, GatewaySend, GatewayPush, vars, loopVars, inferenceVars
<1>12. CASE ConnChanges
    BY <1>1, <1>12 DEF ConnChanges, vars, loopVars, inferenceVars, gatewayVars
<1>13. CASE UNCHANGED meshVars
    BY <1>1, <1>13 DEF meshVars, vars, loopVars, inferenceVars, gatewayVars, wireVars
<1> QED
    BY <1>3, <1>4, <1>5, <1>6, <1>7, <1>8, <1>9, <1>10, <1>11, <1>12, <1>13
       DEF MeshNext, KernelStep, GatewayStep

\* The steps that neither send a prompt, nor receive it, nor end a turn or the
\* goal.
LEMMA QuietMeshSteps ==
    ASSUME TurnsInv, [MeshNext]_meshVars
    PROVE  \/ PromptSent \/ GatewayReceive \/ ReceiveComplete
           \/ LoopAround /\ Watchdog
           \/ /\ UNCHANGED <<driverVars, inFlight, toGateway, turn>>
              /\ pc = "halted" => pc' = "halted"
              /\ pc' \in {"start", "poll", "prompt", "pong", "check", "wfi"} => Acting
              /\ pc' = "prompt" => ~inFlight
              /\ pc' = "pong" => inFlight
<1>1. /\ pc \in {"start", "poll", "prompt", "pong", "check", "wfi"} => Acting
      /\ pc = "prompt" => ~inFlight
      /\ pc = "pong" => inFlight
    BY DEF TurnsInv, MeshControl
<1>2. CASE \/ MeshTick \/ GatewaySend \/ GatewayPush \/ ConnChanges
           \/ ReceiveText \/ ReceiveOther \/ UNCHANGED meshVars
    <2>1. UNCHANGED <<driverVars, inFlight, toGateway, turn, pc>>
        BY <1>2 DEF MeshTick, GatewaySend, GatewayPush, ConnChanges, ReceiveText,
           ReceiveOther, Receives, meshVars, vars, loopVars, inferenceVars, wireVars, gatewayVars
    <2> QED
        BY <1>1, <2>1
<1>3. CASE LoopAround /\ (StartClock \/ Clock \/ ArmWakeup \/ Wake)
    BY <1>1, <1>3 DEF StartClock, Clock, ArmWakeup, Wake, LoopAround, wireVars, gatewayVars
<1>4. CASE BeginPrompt \/ BeginClose
    BY <1>1, <1>4 DEF BeginPrompt, BeginClose, BeginSend, Goto, wireVars, gatewayVars
<1>5. CASE NothingDecodable
    <2>1. UNCHANGED driverVars
        BY <1>5 DEF NothingDecodable, PollReturns, Advance, Pending
    <2> QED
        BY <1>5, <2>1 DEF NothingDecodable, Draining, PollReturns, inferenceVars, wireVars,
           gatewayVars
<1>6. CASE ReceivePing \/ ReceiveClose
    BY <1>1, <1>6 DEF ReceivePing, ReceiveClose, Receives, Draining, Goto, Panic,
       inferenceVars, gatewayVars
<1>7. CASE PongSent \/ CloseSent
    BY <1>1, <1>7 DEF PongSent, CloseSent, Goto, inferenceVars, wireVars, gatewayVars
<1>8. CASE SendTimesOut \/ CloseAwaited
    BY <1>8 DEF SendTimesOut, CloseAwaited, Panic, WriteExit, inferenceVars, wireVars, gatewayVars
<1> QED
    BY <1>2, <1>3, <1>4, <1>5, <1>6, <1>7, <1>8
       DEF MeshNext, KernelStep, GatewayStep, LoopAround

\* A prompt sent is the next one in order.
LEMMA PromptKeepsTurns ==
    ASSUME TurnsInv, PromptSent
    PROVE  MeshControl' /\ OneTurnPerStep'
<1>1. /\ toGateway \in Seq(Nat) /\ Len(toGateway) \in Nat /\ turn \in Nat
      /\ step \in Nat
    BY LogFacts DEF TurnsInv, MeshTypeOK
<1>2. Acting /\ ~inFlight /\ pc = "prompt"
    BY DEF PromptSent, TurnsInv, MeshControl
<1>3. /\ turn + Len(toGateway) = step - 1
      /\ \A i \in 1..Len(toGateway) : toGateway[i] = turn + i
    BY <1>2 DEF TurnsInv, OneTurnPerStep
<1>4. UNCHANGED driverVars /\ pc' = "clock" /\ inFlight'
    BY DEF PromptSent, PollReturns, Advance, Pending, Noted
<1>5. toGateway' = Append(toGateway, step) /\ turn' = turn /\ step' = step
    BY <1>4 DEF PromptSent, gatewayVars, driverVars
<1>6. /\ Len(toGateway') = Len(toGateway) + 1
      /\ toGateway'[Len(toGateway) + 1] = step
      /\ \A i \in 1..Len(toGateway) : toGateway'[i] = toGateway[i]
    BY <1>1, <1>5
<1>7. \A i \in 1..Len(toGateway') : toGateway'[i] = turn' + i
    <2> SUFFICES ASSUME NEW i \in 1..Len(toGateway') PROVE toGateway'[i] = turn' + i
        OBVIOUS
    <2>1. i \in 1..Len(toGateway) \/ i = Len(toGateway) + 1
        BY <1>1, <1>6
    <2> QED
        BY <1>1, <1>3, <1>5, <1>6, <2>1
<1>8. turn' + Len(toGateway') = step'
    BY <1>1, <1>3, <1>5, <1>6
<1>9. Acting'
    BY <1>2, <1>4 DEF Acting, driverVars
<1> QED
    BY <1>4, <1>7, <1>8, <1>9 DEF MeshControl, OneTurnPerStep

\* A prompt received was the next one in order.
LEMMA ReceivedKeepsTurns ==
    ASSUME TurnsInv, GatewayReceive
    PROVE  MeshControl' /\ OneTurnPerStep'
<1>1. /\ toGateway \in Seq(Nat) /\ toGateway # << >> /\ turn \in Nat
      /\ toGateway' = Tail(toGateway) /\ turn' = turn + 1
    BY DEF TurnsInv, MeshTypeOK, GatewayReceive
<1>2. /\ Len(toGateway) \in Nat \ {0} /\ Len(toGateway') = Len(toGateway) - 1
      /\ \A i \in 1..Len(toGateway) - 1 : toGateway'[i] = toGateway[i + 1]
    BY <1>1
<1>3. UNCHANGED <<state, step, pc, inFlight>>
    BY DEF GatewayReceive, vars, driverVars, loopVars, inferenceVars
<1>4. MeshControl'
    BY <1>3 DEF TurnsInv, MeshControl, Acting
<1>5. ASSUME Acting', pc' # "halted"
      PROVE  /\ turn' + Len(toGateway') = IF inFlight' THEN step' ELSE step' - 1
             /\ \A i \in 1..Len(toGateway') : toGateway'[i] = turn' + i
    <2>1. /\ turn + Len(toGateway) = IF inFlight THEN step ELSE step - 1
          /\ \A i \in 1..Len(toGateway) : toGateway[i] = turn + i
        BY <1>3, <1>5 DEF TurnsInv, OneTurnPerStep, Acting
    <2>2. turn' + Len(toGateway') = turn + Len(toGateway)
        BY <1>1, <1>2
    <2>3. ASSUME NEW i \in 1..Len(toGateway') PROVE toGateway'[i] = turn' + i
        <3>1. i \in 1..Len(toGateway) - 1 /\ i + 1 \in 1..Len(toGateway) /\ i \in Nat
            BY <1>2
        <3>2. toGateway'[i] = turn + (i + 1)
            BY <1>2, <2>1, <3>1
        <3> QED
            BY <1>1, <3>1, <3>2
    <2> QED
        BY <1>3, <2>1, <2>2, <2>3
<1> QED
    BY <1>4, <1>5 DEF OneTurnPerStep

\* The verdict of a turn opens the next step, or ends the goal.
LEMMA CompleteKeepsTurns ==
    ASSUME TurnsInv, ReceiveComplete
    PROVE  MeshControl' /\ OneTurnPerStep'
<1>1. /\ Acting /\ inFlight /\ ~inFlight' /\ pc = "poll" /\ pc' = "clock"
      /\ \/ \E s : NextStep(s)
         \/ \E d : \E st \in {"done", "blocked"} : Finish(st, d)
    BY TurnConcludes
<1>2. /\ turn + Len(toGateway) = step
      /\ \A i \in 1..Len(toGateway) : toGateway[i] = turn + i
    BY <1>1 DEF TurnsInv, OneTurnPerStep
<1>3. UNCHANGED <<toGateway, turn>> /\ step \in Nat
    BY LogFacts DEF TurnsInv, ReceiveComplete, Receives, gatewayVars
<1>4. MeshControl'
    BY <1>1 DEF MeshControl
<1>5. Acting' => step' = step + 1
    BY <1>1 DEF Finish, NextStep, Acting
<1> QED
    BY <1>1, <1>2, <1>3, <1>4, <1>5 DEF OneTurnPerStep

LEMMA TurnsNext == TurnsInv /\ [MeshNext]_meshVars => TurnsInv'
<1> SUFFICES ASSUME TurnsInv, [MeshNext]_meshVars PROVE TurnsInv'
    OBVIOUS
<1>1. DriverInv'
    BY MeshDriverInv
<1>2. MeshTypeOK'
    BY WireTypes, ClockTypes DEF MeshTypeOK
<1>3. CASE LoopAround /\ Watchdog
    <2>1. Finish("failed", "stalled")
        BY <1>3, StalledFails DEF Watchdog, TurnsInv, MeshControl
    <2>2. ~Acting' /\ pc' = "end"
        BY <1>3, <2>1 DEF Finish, Acting, Watchdog
    <2>3. MeshControl' /\ OneTurnPerStep'
        BY <2>2 DEF MeshControl, OneTurnPerStep
    <2> QED
        BY <1>1, <1>2, <2>3 DEF TurnsInv
<1>4. CASE /\ UNCHANGED <<driverVars, inFlight, toGateway, turn>>
           /\ pc = "halted" => pc' = "halted"
           /\ pc' \in {"start", "poll", "prompt", "pong", "check", "wfi"} => Acting
           /\ pc' = "prompt" => ~inFlight
           /\ pc' = "pong" => inFlight
    <2>1. UNCHANGED <<state, step, inFlight, toGateway, turn>> /\ (Acting' <=> Acting)
        BY <1>4 DEF driverVars, Acting
    <2>2. MeshControl'
        BY <1>4, <2>1 DEF MeshControl
    <2>3. OneTurnPerStep'
        BY <1>4, <2>1 DEF TurnsInv, OneTurnPerStep
    <2> QED
        BY <1>1, <1>2, <2>2, <2>3 DEF TurnsInv
<1>5. CASE PromptSent
    BY <1>1, <1>2, <1>5, PromptKeepsTurns DEF TurnsInv
<1>6. CASE GatewayReceive
    BY <1>1, <1>2, <1>6, ReceivedKeepsTurns DEF TurnsInv
<1>7. CASE ReceiveComplete
    BY <1>1, <1>2, <1>7, CompleteKeepsTurns DEF TurnsInv
<1> QED
    BY <1>3, <1>4, <1>5, <1>6, <1>7, QuietMeshSteps

LEMMA TurnsInit == MeshInit => TurnsInv
<1> SUFFICES ASSUME MeshInit PROVE TurnsInv
    OBVIOUS
<1>1. DriverInv
    BY StartDriverInv DEF MeshInit, Init
<1>2. /\ Acting /\ step = 1 /\ pc = "start" /\ mtime = 0 /\ awake = 0
      /\ ~inFlight /\ toGateway = << >> /\ turn = 0
    BY DEF MeshInit, Init, Start, Acting
<1>3. << >> \in Seq(Nat) /\ << >> \in Seq(Frames) /\ Len(<< >>) = 0
    OBVIOUS
<1>4. "start" \in MeshLabels /\ 0 \in 0..MaxUnasked
    BY MeshAssumption DEF MeshLabels, Labels
<1>5. MeshTypeOK
    <2>1. inFlight \in BOOLEAN /\ sendStarted \in Nat /\ blocked \in Nat
        BY DEF MeshInit
    <2>2. reply \in Seq(Frames) /\ toKernel \in Seq(Frames) /\ outbox \in Seq(Frames)
        BY <1>3 DEF MeshInit
    <2>3. conn \in {"up", "stalled", "reset"} /\ mode \in Modes
        BY DEF MeshInit
    <2>4. turn \in Nat /\ unasked \in 0..MaxUnasked /\ gwTicks \in Nat
        BY <1>4 DEF MeshInit
    <2> QED
        BY <1>2, <1>3, <1>4, <2>1, <2>2, <2>3, <2>4 DEF MeshTypeOK
<1>6. MeshControl
    BY <1>2 DEF MeshControl
<1>7. OneTurnPerStep
    BY <1>2, <1>3 DEF OneTurnPerStep
<1> QED
    BY <1>1, <1>5, <1>6, <1>7 DEF TurnsInv

LEMMA TurnsInductive == MeshSpec => []TurnsInv
BY TurnsInit, TurnsNext, PTL DEF MeshSpec

-----------------------------------------------------------------------------
(* One turn per step, and the verdict of its last line.                    *)

\* However the wire stalls or is reset, and whatever the gateway answers, every
\* step sends its prompt once: those received and those on their way are the
\* steps begun, in order (mesh.rs:343-381).
THEOREM OneTurnPerStepHolds == MeshSpec => []OneTurnPerStep
<1>1. TurnsInv => OneTurnPerStep
    BY DEF TurnsInv
<1> QED
    BY <1>1, TurnsInductive, PTL

\* What parse_goal_step returns, or its default, is what the reply says.
LEMMA ParsedAsSaid ==
    ASSUME NEW q \in Seq(Frames)
    PROVE  Says(q, ParseGoalStep(q))
<1> DEFINE lines == {k \in 1..Len(q) : q[k].delta.kind # "prose"}
<1>1. CASE lines = {}
    BY <1>1 DEF ParseGoalStep, Says
<1>2. CASE lines # {}
    <2>1. PICK i \in lines : \A k \in lines : k <= i
        <3>1. Len(q) \in Nat /\ lines \in SUBSET (1..Len(q))
            OBVIOUS
        <3> HIDE DEF lines
        <3> QED
            BY <1>2, <3>1, GreatestNumber
    <2>2. \A j \in i+1..Len(q) : q[j].delta.kind = "prose"
        <3> SUFFICES ASSUME NEW j \in i+1..Len(q), q[j].delta.kind # "prose" PROVE FALSE
            OBVIOUS
        <3>1. j \in lines /\ ~(j <= i)
            OBVIOUS
        <3> QED
            BY <2>1, <3>1
    <2>3. q[i].delta.kind \in {"garbled", "done", "blocked", "continue"}
        <3>1. q[i] \in Frames /\ q[i].delta.kind # "prose"
            BY <2>1
        <3> QED
            BY <3>1, DeltaTypes DEF Frames
    <2>4. ParseGoalStep(q) = IF q[i].delta.kind = "garbled" THEN ContinueVerdict(NoText)
                             ELSE q[i].delta
        BY <2>2, LastLineDecides
    <2> QED
        BY <2>2, <2>3, <2>4 DEF Says
<1> QED
    BY <1>1, <1>2

\* The driver obeys any verdict: it is acting, and its step is within the
\* budget.
LEMMA DriverObeys ==
    ASSUME DriverInv, Acting, NEW v \in TurnResults, Advance(v),
           v.kind \in {"done", "blocked", "continue"}
    PROVE  Obeys(v)
<1>1. step \in Nat /\ maxSteps \in Nat /\ step <= maxSteps
    BY BudgetAssumption DEF DriverInv, DriverTypeOK
<1>2. \/ v.kind = "done" /\ Finish("done", "none")
      \/ v.kind = "blocked" /\ Finish("blocked", v.text)
      \/ v.kind = "continue" /\ Continue(v.text)
    BY DEF Advance
<1>3. CASE v.kind \in {"done", "blocked"}
    BY <1>2, <1>3 DEF Finish, Obeys
<1>4. CASE v.kind = "continue" /\ step < maxSteps
    <2>1. ~BudgetSpent
        BY <1>1, <1>4 DEF BudgetSpent
    <2>2. NextStep(v.text)
        <3>1. Continue(v.text)
            BY <1>2, <1>4
        <3> QED
            BY <2>1, <3>1, Zenon DEF Continue
    <2> QED
        BY <1>4, <2>2 DEF NextStep, NextSteer, Opened, Acting, Obeys
<1>5. CASE v.kind = "continue" /\ step = maxSteps
    <2>1. BudgetSpent
        BY <1>1, <1>5 DEF BudgetSpent
    <2>2. Finish("done", "step budget reached")
        <3>1. Continue(v.text)
            BY <1>2, <1>5
        <3> QED
            BY <2>1, <3>1, Zenon DEF Continue
    <2> QED
        BY <1>5, <2>2 DEF Finish, Obeys
<1> QED
    BY <1>1, <1>2, <1>3, <1>4, <1>5

\* Whatever the gateway streams, a completed turn moves the goal as the last
\* GOAL_STEP line of its reply says: to done, to blocked with that line's
\* reason, to the next step with its steer, or to done for lack of budget; and
\* to the next step without a steer when no line, or an unknown status, comes
\* last (goal.rs:129-167,291-317, mesh.rs:393-394).
THEOREM LastVerdictDecidesHolds == MeshSpec => LastVerdictDecides
<1> DEFINE Decides ==
        inFlight /\ ~inFlight' =>
            \E verdict \in TurnResults : Says(reply, verdict) /\ Obeys(verdict)
<1>1. TurnsInv /\ [MeshNext]_meshVars => [Decides]_meshVars
    <2> SUFFICES ASSUME TurnsInv, [MeshNext]_meshVars, inFlight, ~inFlight' PROVE Decides
        OBVIOUS
    <2>1. ReceiveComplete
        <3>1. ~PromptSent /\ ~GatewayReceive /\ ~(LoopAround /\ Watchdog)
            BY DEF PromptSent, Noted, GatewayReceive, inferenceVars, LoopAround
        <3> QED
            BY <3>1, QuietMeshSteps
    <2>2. reply \in Seq(Frames) /\ DriverInv
        BY DEF TurnsInv, MeshTypeOK
    <2>3. /\ Acting /\ Advance(ParseGoalStep(reply))
          /\ ParseGoalStep(reply) \in TurnResults
          /\ ParseGoalStep(reply).kind \in {"done", "blocked", "continue"}
        BY <2>1, <2>2, TurnConcludes, ParsedVerdict
    <2>4. Obeys(ParseGoalStep(reply))
        BY <2>2, <2>3, DriverObeys
    <2>5. Says(reply, ParseGoalStep(reply))
        BY <2>2, ParsedAsSaid
    <2> QED
        BY <2>3, <2>4, <2>5
<1> QED
    BY <1>1, TurnsInductive, PTL DEF MeshSpec, LastVerdictDecides

-----------------------------------------------------------------------------
(* AllowanceInv is inductive.                                              *)

\* The arithmetic of sends.
LEMMA SendFacts ==
    /\ SendTimeout \in Nat /\ MaxUnasked \in Nat /\ AwakeTicks \in Nat
    /\ \A n \in Nat : SendsTake(n) \in Nat
    /\ \A m, n \in Nat : m <= n => SendsTake(m) <= SendsTake(n)
    /\ \A n \in Nat \ {0} : SendsTake(n) = SendsTake(n - 1) + (SendTimeout + 1)
    /\ SendAllowance \in Nat
    /\ SendTimeout + 1 <= SendAllowance
    /\ \A n \in 0..MaxUnasked : SendsTake(n) <= SendAllowance
<1>1. SendTimeout \in Nat /\ MaxUnasked \in Nat /\ AwakeTicks \in Nat
    BY MeshAssumption, TimeAssumption
<1> DEFINE k == SendTimeout + 1
<1>2. k \in Nat /\ k >= 1
    BY <1>1
<1> HIDE DEF k
<1>3. \A n \in Nat : n * k \in Nat
    BY <1>2
<1>4. ASSUME NEW m \in Nat, NEW n \in Nat, m <= n PROVE m * k <= n * k
    <2>1. n - m \in Nat /\ n = m + (n - m)
        BY <1>4
    <2>2. (n - m) * k \in Nat
        BY <1>3, <2>1
    <2>3. n * k = m * k + (n - m) * k
        BY <1>2, <2>1
    <2> QED
        BY <1>3, <2>2, <2>3
<1>5. \A n \in Nat \ {0} : n * k = (n - 1) * k + k
    BY <1>2
<1>6. SendsPerPoll \in Nat /\ SendsPerPoll >= 1 /\ SendsPerPoll >= MaxUnasked
    BY <1>1 DEF SendsPerPoll
<1>7. SendAllowance = SendsPerPoll * k /\ \A n : SendsTake(n) = n * k
    BY DEF SendAllowance, SendsTake, k
<1>8. 1 * k = k
    BY <1>2
<1>9. k <= SendsPerPoll * k
    BY <1>4, <1>6, <1>8
<1>10. \A n \in 0..MaxUnasked : n * k <= SendsPerPoll * k
    BY <1>1, <1>4, <1>6
<1> QED
    BY <1>1, <1>3, <1>4, <1>5, <1>6, <1>7, <1>9, <1>10 DEF k

\* The next frame is consumed: what bounded the frames behind it still does.
LEMMA PingsTail ==
    ASSUME toKernel \in Seq(Frames), toKernel # << >>,
           NEW p \in [0..Len(toKernel) -> Nat], Pings(p),
           toKernel' = Tail(toKernel), unasked' = unasked
    PROVE  \E q \in [0..Len(toKernel') -> Nat] :
              /\ Pings(q)' /\ p[0] <= q[0]
              /\ Head(toKernel).type = "ping" => p[0] < q[0]
<1>1. /\ Head(toKernel) = toKernel[1] /\ Len(toKernel) \in Nat \ {0}
      /\ Len(toKernel') = Len(toKernel) - 1
      /\ \A i \in 1..Len(toKernel) - 1 : toKernel'[i] = toKernel[i + 1]
    BY TailFrames
<1>2. \A i \in 0..Len(toKernel') : i + 1 \in 1..Len(toKernel) /\ i + 1 \in 0..Len(toKernel)
    BY <1>1
<1>3. PICK q \in [0..Len(toKernel') -> Nat] : \A i \in 0..Len(toKernel') : q[i] = p[i + 1]
    <2>1. [i \in 0..Len(toKernel') |-> p[i + 1]] \in [0..Len(toKernel') -> Nat]
        BY <1>2
    <2> QED
        BY <2>1
<1>4. /\ \A i, j \in 0..Len(toKernel) : i <= j => p[i] <= p[j]
      /\ \A i \in 1..Len(toKernel) : toKernel[i].type = "ping" => p[i-1] < p[i]
      /\ p[Len(toKernel)] <= unasked
    BY DEF Pings
<1>5. \A i, j \in 0..Len(toKernel') : i <= j => q[i] <= q[j]
    BY <1>1, <1>2, <1>3, <1>4
<1>6. ASSUME NEW i \in 1..Len(toKernel'), toKernel'[i].type = "ping" PROVE q[i-1] < q[i]
    <2>1. /\ i \in 1..Len(toKernel) - 1 /\ i \in 0..Len(toKernel')
          /\ i - 1 \in 0..Len(toKernel') /\ i + 1 \in 1..Len(toKernel)
          /\ (i - 1) + 1 = i /\ (i + 1) - 1 = i
        BY <1>1
    <2>2. toKernel[i + 1].type = "ping"
        BY <1>1, <1>6, <2>1
    <2>3. p[(i + 1) - 1] < p[i + 1]
        BY <1>4, <2>1, <2>2
    <2> QED
        BY <1>3, <2>1, <2>3
<1>7. q[Len(toKernel')] <= unasked'
    BY <1>1, <1>2, <1>3, <1>4
<1>8. Pings(q)'
    BY <1>5, <1>6, <1>7 DEF Pings
<1>9. q[0] = p[1] /\ p[0] <= p[1] /\ (Head(toKernel).type = "ping" => p[0] < p[1])
    BY <1>1, <1>3, <1>4
<1> QED
    BY <1>3, <1>8, <1>9

\* A frame joins the wire: a ping was pushed unasked, one more than before.
LEMMA PingsAppend ==
    ASSUME toKernel \in Seq(Frames), NEW f \in Frames,
           NEW p \in [0..Len(toKernel) -> Nat], Pings(p),
           toKernel' = Append(toKernel, f),
           unasked \in Nat,
           \/ unasked' = unasked + 1
           \/ unasked' = unasked /\ f.type # "ping"
    PROVE  \E q \in [0..Len(toKernel') -> Nat] : Pings(q)' /\ q[0] = p[0]
<1> DEFINE n == Len(toKernel)
<1>1. /\ n \in Nat /\ Len(toKernel') = n + 1
      /\ toKernel'[n + 1] = f
      /\ \A i \in 1..n : toKernel'[i] = toKernel[i]
    BY AppendFrame
<1> DEFINE top == IF unasked' = unasked THEN p[n] ELSE p[n] + 1
<1>2. p[n] \in Nat /\ top \in Nat /\ p[n] <= top
    BY <1>1
<1>3. \A i \in 0..n + 1 : i \in 0..n \/ i = n + 1
    BY <1>1
<1>4. PICK q \in [0..n + 1 -> Nat] :
        q[n + 1] = top /\ \A i \in 0..n : q[i] = p[i] /\ p[i] \in Nat
    <2> DEFINE r == [i \in 0..n + 1 |-> IF i = n + 1 THEN top ELSE p[i]]
    <2> HIDE DEF top
    <2>1. \A i \in 0..n : p[i] \in Nat /\ i # n + 1 /\ i \in 0..n + 1
        BY <1>1
    <2> HIDE DEF n
    <2>2. /\ r \in [0..n + 1 -> Nat] /\ r[n + 1] = top
          /\ \A i \in 0..n : r[i] = p[i] /\ p[i] \in Nat
        BY <1>1, <1>2, <1>3, <2>1
    <2> QED
        BY <2>2
<1>5. /\ \A i, j \in 0..n : i <= j => p[i] <= p[j]
      /\ \A i \in 1..n : toKernel[i].type = "ping" => p[i-1] < p[i]
      /\ p[n] <= unasked
    BY DEF Pings
<1>6. top <= unasked' /\ (f.type = "ping" => p[n] < top)
    BY <1>2, <1>5
<1> HIDE DEF n, top
<1>7. ASSUME NEW i \in 0..n + 1, NEW j \in 0..n + 1, i <= j PROVE q[i] <= q[j]
    <2>1. CASE j \in 0..n
        <3>1. i \in 0..n
            BY <1>1, <1>7, <2>1
        <3>2. p[i] <= p[j]
            BY <1>5, <1>7, <2>1, <3>1
        <3> QED
            BY <1>4, <2>1, <3>1, <3>2
    <2>2. CASE i \in 0..n /\ j = n + 1
        <3>1. p[i] <= p[n]
            BY <1>1, <1>5, <2>2
        <3> QED
            BY <1>2, <1>4, <2>2, <3>1
    <2>3. CASE i = n + 1 /\ j = n + 1
        BY <1>2, <1>4, <2>3
    <2> QED
        BY <1>1, <1>3, <1>7, <2>1, <2>2, <2>3
<1>8. ASSUME NEW i \in 1..n + 1, toKernel'[i].type = "ping" PROVE q[i-1] < q[i]
    <2>1. CASE i = n + 1
        BY <1>1, <1>4, <1>6, <1>8, <2>1
    <2>2. CASE i \in 1..n
        BY <1>1, <1>4, <1>5, <1>8, <2>2
    <2> QED
        BY <1>1, <2>1, <2>2
<1>9. Len(toKernel') = n + 1
    BY <1>1
<1>10. Pings(q)'
    BY <1>4, <1>6, <1>7, <1>8, <1>9 DEF Pings
<1> QED
    BY <1>1, <1>4, <1>9, <1>10

\* The steps of the kernel and the clock, as AllowanceInv sees them: awake and
\* blocked.
LEMMA AwakeNext ==
    ASSUME TurnsInv, AllowanceInv, [MeshNext]_meshVars
    PROVE  awake' <= AwakeTicks + blocked'
<1>1. /\ awake \in Nat /\ blocked \in Nat /\ AwakeTicks \in Nat
      /\ awake <= AwakeTicks + blocked
    BY SendFacts DEF TurnsInv, MeshTypeOK, AllowanceInv
<1>2. CASE MeshTick
    BY <1>1, <1>2 DEF MeshTick
<1>3. CASE LoopAround
    <2>1. /\ awake' = awake \/ awake' = 0
          /\ pc' \in {"wfi", "end"} => awake' = 0
        BY <1>3 DEF LoopAround, StartClock, Clock, Watchdog, ArmWakeup, Wake
    <2>2. blocked' = IF pc' \in {"wfi", "end"} THEN 0 ELSE blocked
        BY <1>3 DEF LoopAround
    <2> QED
        BY <1>1, <2>1, <2>2
<1>4. CASE UNCHANGED <<awake, blocked>>
    BY <1>1, <1>4
<1>5. ASSUME \/ BeginPrompt \/ BeginClose \/ PongSent \/ CloseSent \/ PromptSent
             \/ NothingDecodable \/ ReceiveComplete
      PROVE  UNCHANGED <<awake, blocked>>
    BY <1>5 DEF BeginPrompt, BeginClose, BeginSend, PongSent, CloseSent, PromptSent,
       NothingDecodable, ReceiveComplete, PollReturns, Goto, inferenceVars
<1>6. ASSUME \/ ReceiveText \/ ReceiveOther \/ ReceivePing \/ ReceiveClose
             \/ SendTimesOut \/ CloseAwaited
      PROVE  UNCHANGED <<awake, blocked>>
    BY <1>6 DEF ReceiveText, ReceiveOther, ReceivePing, ReceiveClose, SendTimesOut, CloseAwaited,
       Goto, Panic, WriteExit, vars, loopVars, inferenceVars
<1>7. ASSUME \/ GatewayReceive \/ GatewaySend \/ GatewayPush \/ ConnChanges
             \/ UNCHANGED meshVars
      PROVE  UNCHANGED <<awake, blocked>>
    BY <1>7 DEF GatewayReceive, GatewaySend, GatewayPush, ConnChanges, meshVars, vars, loopVars,
       inferenceVars
<1> QED
    BY <1>2, <1>3, <1>4, <1>5, <1>6, <1>7 DEF MeshNext, KernelStep, GatewayStep

\* The gateway owes no ping.
LEMMA OutboxNext ==
    ASSUME TurnsInv, AllowanceInv, [MeshNext]_meshVars
    PROVE  \A i \in 1..Len(outbox') : TurnFrame(outbox'[i])
<1>1. /\ \A i \in 1..Len(outbox) : TurnFrame(outbox[i])
      /\ outbox \in Seq(Frames) /\ mode \in Modes /\ turn \in Nat
    BY DEF AllowanceInv, TurnsInv, MeshTypeOK
<1>2. CASE GatewayReceive
    <2>1. outbox' \in Answers(turn + 1) /\ turn + 1 \in Nat
        BY <1>1, <1>2 DEF GatewayReceive
    <2> QED
        BY <1>1, <2>1, AnswerShape
<1>3. CASE GatewaySend
    <2>1. outbox # << >> /\ outbox' = Tail(outbox)
        BY <1>3 DEF GatewaySend
    <2>2. /\ Len(outbox) \in Nat \ {0} /\ Len(outbox') = Len(outbox) - 1
          /\ \A i \in 1..Len(outbox) - 1 : outbox'[i] = outbox[i + 1]
        BY <1>1, <2>1, TailFrames
    <2>3. \A i \in 1..Len(outbox') : i \in 1..Len(outbox) - 1 /\ i + 1 \in 1..Len(outbox)
        BY <2>2
    <2> QED
        BY <1>1, <2>2, <2>3
<1>4. CASE outbox' = outbox
    BY <1>1, <1>4
<1>5. ASSUME \/ LoopAround \/ BeginPrompt \/ PromptSent \/ ReceiveText \/ ReceiveComplete
             \/ ReceiveOther \/ ReceivePing \/ PongSent \/ ReceiveClose
             \/ NothingDecodable \/ SendTimesOut \/ BeginClose \/ CloseSent \/ CloseAwaited
      PROVE  outbox' = outbox
    BY <1>5 DEF LoopAround, BeginPrompt, BeginSend, PromptSent, ReceiveText, ReceiveComplete,
       ReceiveOther, ReceivePing, Receives, PongSent, ReceiveClose, NothingDecodable,
       SendTimesOut, BeginClose, CloseSent, CloseAwaited, gatewayVars
<1>6. MeshTick \/ GatewayPush \/ ConnChanges \/ UNCHANGED meshVars => outbox' = outbox
    BY DEF MeshTick, GatewayPush, ConnChanges, gatewayVars, meshVars
<1> QED
    BY <1>2, <1>3, <1>4, <1>5, <1>6 DEF MeshNext, KernelStep, GatewayStep

\* A frame leaves the wire only at a Receive, and joins it unasked or as the
\* next frame of a turn.
LEMMA PingsNext ==
    ASSUME TurnsInv, AllowanceInv, [MeshNext]_meshVars,
           NEW p \in [0..Len(toKernel) -> Nat], Pings(p)
    PROVE  \E q \in [0..Len(toKernel') -> Nat] :
              /\ Pings(q)' /\ p[0] <= q[0]
              /\ Draining \/ q[0] = p[0]
              /\ ReceivePing => p[0] < q[0]
<1>1. /\ toKernel \in Seq(Frames) /\ outbox \in Seq(Frames) /\ unasked \in Nat
      /\ Len(toKernel) \in Nat /\ p[0] \in Nat
      /\ \A i \in 1..Len(outbox) : TurnFrame(outbox[i])
    BY DEF TurnsInv, MeshTypeOK, AllowanceInv
<1>2. CASE /\ Draining /\ toKernel # << >> /\ toKernel' = Tail(toKernel)
           /\ unasked' = unasked
           /\ ReceivePing => Head(toKernel).type = "ping"
    BY <1>1, <1>2, PingsTail
<1>3. CASE GatewaySend
    <2>1. /\ outbox # << >> /\ toKernel' = Append(toKernel, Head(outbox))
          /\ unasked' = unasked
        BY <1>3 DEF GatewaySend
    <2>2. Head(outbox) \in Frames /\ Head(outbox).type # "ping"
        BY <1>1, <2>1, TailFrames DEF TurnFrame
    <2>3. ~ReceivePing
        BY <1>1, <2>1, <2>2, AppendFrame, TailFrames DEF ReceivePing, Receives
    <2>4. \E q \in [0..Len(toKernel') -> Nat] : Pings(q)' /\ q[0] = p[0]
        BY <1>1, <2>1, <2>2, PingsAppend
    <2> QED
        BY <1>1, <2>3, <2>4
<1>4. CASE GatewayPush
    <2>1. PICK f \in UnaskedFrames : toKernel' = Append(toKernel, f)
        BY <1>4 DEF GatewayPush
    <2>2. unasked' = unasked + 1 /\ pc' = pc
        BY <1>4 DEF GatewayPush, vars, loopVars
    <2>3. f \in Frames
        BY PushedFrame
    <2>4. ~ReceivePing
        BY <2>2 DEF ReceivePing, Receives, Draining, Goto
    <2>5. \E q \in [0..Len(toKernel') -> Nat] : Pings(q)' /\ q[0] = p[0]
        BY <1>1, <2>1, <2>2, <2>3, PingsAppend
    <2> QED
        BY <1>1, <2>4, <2>5
<1>5. CASE UNCHANGED <<toKernel, unasked>> /\ ~ReceivePing
    <2>1. Pings(p)'
        BY <1>5 DEF Pings
    <2> QED
        BY <1>1, <1>5, <2>1
<1>6. ASSUME ReceiveText \/ ReceiveComplete \/ ReceiveOther \/ ReceivePing \/ ReceiveClose
      PROVE  /\ Draining /\ toKernel # << >> /\ toKernel' = Tail(toKernel)
             /\ unasked' = unasked
             /\ ReceivePing => Head(toKernel).type = "ping"
    BY <1>6 DEF ReceiveText, ReceiveComplete, ReceiveOther, ReceivePing, ReceiveClose, Receives,
       gatewayVars
<1>7. ASSUME \/ LoopAround \/ BeginPrompt \/ PromptSent \/ PongSent
             \/ NothingDecodable \/ SendTimesOut \/ BeginClose \/ CloseSent \/ CloseAwaited
      PROVE  UNCHANGED <<toKernel, unasked>>
    BY <1>7 DEF LoopAround, BeginPrompt, BeginSend, PromptSent, PongSent, NothingDecodable,
       SendTimesOut, BeginClose, CloseSent, CloseAwaited, gatewayVars, wireVars
<1>8. MeshTick \/ GatewayReceive \/ ConnChanges \/ UNCHANGED meshVars
        => UNCHANGED <<toKernel, unasked>>
    BY DEF MeshTick, GatewayReceive, ConnChanges, gatewayVars, wireVars, meshVars
<1> QED
    BY <1>2, <1>3, <1>4, <1>5, <1>6, <1>7, <1>8 DEF MeshNext, KernelStep, GatewayStep

\* The step of a kernel whose pongs are counted by a, and then by b.
LEMMA SentNext ==
    ASSUME TurnsInv, [MeshNext]_meshVars,
           NEW a \in Nat, NEW b \in Nat, SentWithin(a),
           a <= b, Draining \/ b = a, ReceivePing => a < b
    PROVE  SentWithin(b)'
<1> DEFINE A == SendsTake(a)
<1> DEFINE B == SendsTake(b)
<1>1. /\ A \in Nat /\ B \in Nat /\ A <= B
      /\ a > 0 => A = SendsTake(a - 1) + (SendTimeout + 1) /\ SendsTake(a - 1) \in Nat
      /\ a < b => SendsTake(b - 1) \in Nat /\ A <= SendsTake(b - 1)
      /\ SendTimeout \in Nat
    BY SendFacts
<1>2. /\ mtime \in Nat /\ blocked \in Nat /\ sendStarted \in Nat
      /\ pc = "prompt" => ~inFlight
      /\ pc = "pong" => inFlight
    BY DEF TurnsInv, MeshTypeOK, MeshControl
<1>3. /\ pc \in {"start", "wfi", "end"} => blocked = 0
      /\ pc = "poll" => blocked <= (IF inFlight THEN A ELSE 0)
      /\ pc = "pong" =>
           /\ a > 0 /\ sendStarted <= mtime
           /\ blocked <= SendsTake(a - 1) + (mtime - sendStarted)
           /\ blocked <= A
      /\ pc \in {"prompt", "close"} =>
           /\ sendStarted <= mtime
           /\ blocked <= mtime - sendStarted
           /\ blocked <= SendTimeout + 1
      /\ pc \in {"clock", "check", "closed"} => blocked <= A \/ blocked <= SendTimeout + 1
    BY <1>1, <1>2 DEF SentWithin, InSend
<1> HIDE DEF A, B
<1>4. SUFFICES
      /\ pc' \in {"start", "wfi", "end"} => blocked' = 0
      /\ pc' = "poll" => blocked' <= (IF inFlight' THEN B ELSE 0)
      /\ pc' = "pong" =>
           /\ b > 0 /\ sendStarted' <= mtime'
           /\ blocked' <= SendsTake(b - 1) + (mtime' - sendStarted')
           /\ blocked' <= SendsTake(b - 1) + (SendTimeout + 1)
      /\ pc' \in {"prompt", "close"} =>
           /\ sendStarted' <= mtime'
           /\ blocked' <= mtime' - sendStarted'
           /\ blocked' <= SendTimeout + 1
      /\ pc' \in {"clock", "check", "closed"} => blocked' <= B \/ blocked' <= SendTimeout + 1
    <2>1. blocked' \in Nat /\ mtime' \in Nat /\ sendStarted' \in Nat
        BY ClockTypes
    <2>2. \A n : SendsTake(n)' = SendsTake(n)
        BY DEF SendsTake
    <2>3. SendTimeout \in Nat /\ B \in Nat /\ (b > 0 => SendsTake(b - 1) \in Nat)
        BY SendFacts DEF B
    <2>4. pc' \in {"prompt", "close"} => InSend(0)'
        <3>1. InSend(0)' <=> /\ sendStarted' <= mtime'
                             /\ blocked' <= 0 + (mtime' - sendStarted')
                             /\ blocked' <= 0 + (SendTimeout + 1)
            BY DEF InSend
        <3>2. /\ 0 + (mtime' - sendStarted') = mtime' - sendStarted'
              /\ 0 + (SendTimeout + 1) = SendTimeout + 1
            BY <2>1, <2>3
        <3> QED
            BY <1>4, <3>1, <3>2
    <2>5. pc' = "pong" => b > 0 /\ InSend(SendsTake(b - 1))'
        BY <1>4, <2>1, <2>2, <2>3 DEF InSend
    <2> QED
        BY <1>4, <2>2, <2>4, <2>5 DEF SentWithin, B
<1>5. pc # "poll" => a = b
    BY DEF Draining
<1>6. CASE MeshTick
    <2>1. /\ pc' = pc /\ inFlight' = inFlight /\ mtime' = mtime + 1
          /\ sendStarted' = sendStarted
        BY <1>6 DEF MeshTick
    <2>2. \/ blocked' = blocked
          \/ /\ blocked' = blocked + 1 /\ pc \in {"prompt", "pong", "close"}
             /\ mtime - sendStarted <= SendTimeout
        BY <1>1, <1>2, <1>6 DEF MeshTick, SendBlocked, SendExpired
    <2>3. CASE blocked' = blocked
        BY <1>1, <1>2, <1>3, <1>5, <2>1, <2>3 DEF A, B
    <2>4. CASE /\ blocked' = blocked + 1 /\ pc \in {"prompt", "pong", "close"}
               /\ mtime - sendStarted <= SendTimeout
        BY <1>1, <1>2, <1>3, <1>5, <2>1, <2>4 DEF A, B
    <2> QED
        BY <2>2, <2>3, <2>4
<1>7. CASE LoopAround
    <2>1. /\ inFlight' = inFlight /\ pc \in {"start", "clock", "check", "wfi"}
          /\ blocked' = IF pc' \in {"wfi", "end"} THEN 0 ELSE blocked
          /\ \/ pc \in {"start", "wfi"} /\ pc' = "poll"
             \/ pc = "clock" /\ pc' = "check"
             \/ pc' \in {"wfi", "end"}
        BY <1>7 DEF LoopAround, StartClock, Clock, Watchdog, ArmWakeup, Wake
    <2> QED
        BY <1>1, <1>2, <1>3, <1>5, <2>1
<1>8. CASE BeginPrompt \/ BeginClose
    <2>1. /\ pc' \in {"prompt", "close"} /\ sendStarted' = mtime /\ mtime' = mtime
          /\ blocked' = blocked
          /\ pc = "end" \/ (pc = "poll" /\ ~inFlight)
        BY <1>8 DEF BeginPrompt, BeginClose, BeginSend, Goto
    <2> QED
        BY <1>1, <1>2, <1>3, <2>1
<1>9. CASE PromptSent
    <2>1. pc = "prompt" /\ pc' = "clock" /\ blocked' = blocked
        BY <1>9 DEF PromptSent, PollReturns
    <2> QED
        BY <1>1, <1>2, <1>3, <2>1
<1>10. CASE NothingDecodable \/ ReceiveComplete
    <2>1. pc = "poll" /\ inFlight /\ pc' = "clock" /\ blocked' = blocked
        BY <1>10 DEF NothingDecodable, ReceiveComplete, Receives, Draining, PollReturns,
           inferenceVars
    <2> QED
        BY <1>1, <1>2, <1>3, <2>1
<1>11. CASE ReceiveText \/ ReceiveOther
    <2>1. pc = "poll" /\ inFlight /\ pc' = pc /\ inFlight' = inFlight /\ blocked' = blocked
        BY <1>11 DEF ReceiveText, ReceiveOther, Receives, Draining, vars, loopVars, inferenceVars
    <2> QED
        BY <1>1, <1>2, <1>3, <2>1
<1>12. CASE ReceivePing
    <2>1. /\ pc = "poll" /\ inFlight /\ pc' = "pong" /\ blocked' = blocked
          /\ sendStarted' = mtime /\ mtime' = mtime
        BY <1>12 DEF ReceivePing, Receives, Draining, Goto
    <2> QED
        BY <1>1, <1>2, <1>3, <1>12, <2>1
<1>13. CASE PongSent
    <2>1. pc = "pong" /\ pc' = "poll" /\ blocked' = blocked /\ inFlight' = inFlight
        BY <1>13 DEF PongSent, Goto, inferenceVars
    <2> QED
        BY <1>1, <1>2, <1>3, <1>5, <2>1
<1>14. CASE CloseSent
    <2>1. pc = "close" /\ pc' = "closed" /\ blocked' = blocked
        BY <1>14 DEF CloseSent, Goto, inferenceVars
    <2> QED
        BY <1>1, <1>2, <1>3, <2>1
<1>15. CASE ReceiveClose \/ SendTimesOut \/ CloseAwaited
    <2>1. pc' = "halted"
        BY <1>15 DEF ReceiveClose, SendTimesOut, CloseAwaited, Panic, WriteExit
    <2> QED
        BY <2>1
<1>16. CASE GatewayReceive \/ GatewaySend \/ GatewayPush \/ ConnChanges \/ UNCHANGED meshVars
    <2>1. UNCHANGED <<pc, mtime, inFlight, sendStarted, blocked>>
        BY <1>16 DEF GatewayReceive, GatewaySend, GatewayPush, ConnChanges, meshVars, vars,
           loopVars, inferenceVars
    <2> QED
        BY <1>1, <1>2, <1>3, <1>5, <2>1 DEF A, B
<1> QED
    BY <1>6, <1>7, <1>8, <1>9, <1>10, <1>11, <1>12, <1>13, <1>14, <1>15, <1>16
       DEF MeshNext, KernelStep, GatewayStep

LEMMA AllowanceNext == TurnsInv /\ AllowanceInv /\ [MeshNext]_meshVars => AllowanceInv'
<1> SUFFICES ASSUME TurnsInv, AllowanceInv, [MeshNext]_meshVars PROVE AllowanceInv'
    OBVIOUS
<1>1. awake' <= AwakeTicks + blocked' /\ \A i \in 1..Len(outbox') : TurnFrame(outbox'[i])
    BY AwakeNext, OutboxNext
<1>2. PICK p \in [0..Len(toKernel) -> Nat] : Pings(p) /\ SentWithin(p[0])
    BY DEF AllowanceInv
<1>3. PICK q \in [0..Len(toKernel') -> Nat] :
              /\ Pings(q)' /\ p[0] <= q[0]
              /\ Draining \/ q[0] = p[0]
              /\ ReceivePing => p[0] < q[0]
    BY <1>2, PingsNext
<1>4. p[0] \in Nat /\ q[0] \in Nat
    <2>1. Len(toKernel) \in Nat /\ Len(toKernel') \in Nat
        BY WireTypes DEF TurnsInv, MeshTypeOK
    <2> QED
        BY <2>1
<1>5. SentWithin(q[0])'
    BY <1>2, <1>3, <1>4, SentNext
<1> QED
    BY <1>1, <1>3, <1>5 DEF AllowanceInv, TurnFrame

LEMMA AllowanceInit == MeshInit => AllowanceInv
<1> SUFFICES ASSUME MeshInit PROVE AllowanceInv
    OBVIOUS
<1>1. /\ outbox = << >> /\ toKernel = << >> /\ unasked = 0
      /\ awake = 0 /\ blocked = 0 /\ pc = "start"
    BY DEF MeshInit, Init
<1>2. Len(<< >>) = 0
    OBVIOUS
<1> DEFINE p == [i \in 0..0 |-> 0]
<1>3. p \in [0..Len(toKernel) -> Nat] /\ Pings(p)
    BY <1>1, <1>2 DEF Pings
<1>4. SentWithin(p[0])
    BY <1>1 DEF SentWithin
<1>5. awake <= AwakeTicks + blocked
    BY <1>1, SendFacts
<1> QED
    BY <1>1, <1>2, <1>3, <1>4, <1>5 DEF AllowanceInv

\* So a poll, or the end, is blocked in its sends for no longer than allowed.
LEMMA BlockedWithinAllowance ==
    ASSUME TurnsInv, AllowanceInv, pc # "halted"
    PROVE  /\ blocked <= SendAllowance
           /\ SendBlocked /\ ~SendExpired => blocked + 1 <= SendAllowance
<1>1. PICK p \in [0..Len(toKernel) -> Nat] : Pings(p) /\ SentWithin(p[0])
    BY DEF AllowanceInv
<1>2. /\ Len(toKernel) \in Nat /\ unasked \in 0..MaxUnasked /\ mtime \in Nat
      /\ blocked \in Nat /\ sendStarted \in Nat
      /\ pc \in MeshLabels
    BY DEF TurnsInv, MeshTypeOK
<1>3. p[0] \in 0..MaxUnasked
    <2>1. p[0] \in Nat /\ p[Len(toKernel)] \in Nat /\ p[0] <= p[Len(toKernel)]
        BY <1>1, <1>2 DEF Pings
    <2>2. p[Len(toKernel)] <= unasked
        BY <1>1 DEF Pings
    <2> QED
        BY <1>2, <2>1, <2>2, SendFacts
<1> DEFINE a == p[0]
<1> HIDE DEF a
<1> DEFINE A == SendsTake(a)
<1>4. /\ a \in Nat /\ A \in Nat /\ A <= SendAllowance
      /\ a > 0 => A = SendsTake(a - 1) + (SendTimeout + 1) /\ SendsTake(a - 1) \in Nat
      /\ SendTimeout \in Nat /\ SendAllowance \in Nat /\ SendTimeout + 1 <= SendAllowance
    <2>1. a \in 0..MaxUnasked /\ MaxUnasked \in Nat
        BY <1>3, SendFacts DEF a
    <2>2. a \in Nat /\ (a > 0 => a \in Nat \ {0} /\ a - 1 \in Nat)
        BY <2>1
    <2> QED
        BY <2>1, <2>2, SendFacts
<1>5. /\ pc \in {"start", "wfi", "end"} => blocked = 0
      /\ pc = "poll" => blocked <= (IF inFlight THEN A ELSE 0)
      /\ pc = "pong" =>
           /\ a > 0 /\ sendStarted <= mtime
           /\ blocked <= SendsTake(a - 1) + (mtime - sendStarted)
           /\ blocked <= SendsTake(a - 1) + (SendTimeout + 1)
      /\ pc \in {"prompt", "close"} =>
           /\ sendStarted <= mtime
           /\ blocked <= mtime - sendStarted
           /\ blocked <= SendTimeout + 1
      /\ pc \in {"clock", "check", "closed"} => blocked <= A \/ blocked <= SendTimeout + 1
    BY <1>1, <1>2 DEF SentWithin, InSend, a
<1>6. SendBlocked /\ ~SendExpired =>
        pc \in {"prompt", "pong", "close"} /\ mtime - sendStarted <= SendTimeout
    BY <1>2, <1>4 DEF SendBlocked, SendExpired
<1> HIDE DEF A
<1> QED
    BY <1>2, <1>4, <1>5, <1>6 DEF MeshLabels, Labels

-----------------------------------------------------------------------------
(* The mesh goal implements the loop.                                      *)

\* Where the loop is: a send is part of the poll, or of the end.
LoopPc ==
    IF pc \in {"prompt", "pong"} THEN "poll"
    ELSE IF pc \in {"close", "closed"} THEN "end" ELSE pc

\* The instance has the loop's own driver, and clocks.
LEMMA LoopOperators ==
    /\ Loop!driverVars = driverVars /\ Loop!driverVars' = driverVars'
    /\ Loop!vars = <<driverVars, <<LoopPc, mtime, mtimecmp, stepStarted, lastStep, exit, awake, openedAt>>>>
    /\ Loop!TurnResults = TurnResults /\ Loop!Pending = Pending
    /\ \A result : Loop!Advance(result) <=> Advance(result)
    /\ Loop!Acting <=> Acting
    /\ Loop!Start <=> Start
BY DEF Loop!driverVars, driverVars, Loop!vars, Loop!loopVars, LoopPc,
       Loop!TurnResults, TurnResults, Loop!Pending, Pending, Loop!Stalled, Stalled,
       Loop!DoneVerdict, DoneVerdict, Loop!BlockedVerdict, BlockedVerdict,
       Loop!ContinueVerdict, ContinueVerdict, Loop!Acting, Acting,
       Loop!Advance, Advance, Loop!Finish, Finish, Loop!Continue, Continue,
       Loop!NextStep, NextStep, Loop!BudgetSpent, BudgetSpent, Loop!NextSteer, NextSteer,
       Loop!Opened, Opened, Loop!Event, Event, Loop!Start, Start, Loop!Clamp, Clamp

\* Between two steps of the loop the kernel is at the same place of it.
LEMMA LoopStutters ==
    ASSUME UNCHANGED <<driverVars, mtime, mtimecmp, stepStarted, lastStep, exit, awake, openedAt>>,
           LoopPc' = LoopPc
    PROVE  UNCHANGED Loop!vars
BY LoopOperators DEF Loop!vars, Loop!loopVars, Loop!driverVars, driverVars, LoopPc

\* A poll of the mesh inference that returns is a poll of the loop.
LEMMA LoopPolls ==
    ASSUME NEW result \in TurnResults, PollReturns(result), pc \in {"poll", "prompt", "pong"}
    PROVE  Loop!Next
<1>1. LoopPc = "poll" /\ LoopPc' = "clock"
    BY DEF LoopPc, PollReturns
<1>2. Loop!Poll(result)
    BY <1>1, LoopOperators DEF Loop!Poll, Loop!PollReturns, PollReturns, LoopPc
<1> QED
    BY <1>2, LoopOperators DEF Loop!Next, Loop!LoopStep

\* A panic of a poll, or of the close, is a panic of the loop.
LEMMA LoopPanics ==
    ASSUME Panic, pc \in {"poll", "prompt", "pong", "end", "close", "closed"}
    PROVE  Loop!Next
<1>1. LoopPc' = "halted" /\ LoopPc \in {"poll", "end"}
    BY DEF LoopPc, Panic
<1>2. Loop!Panic
    BY <1>1, LoopOperators DEF Loop!Panic, Panic, LoopPc
<1> QED
    BY <1>1, <1>2 DEF Loop!Next, Loop!LoopStep, Loop!PollPanics, Loop!ClosePanics, LoopPc

\* The steps between two polls are the loop's own.
LEMMA LoopOwnSteps ==
    ASSUME LoopAround
    PROVE  Loop!Next
<1>1. CASE StartClock
    <2>1. Loop!StartClock
        BY <1>1, LoopOperators DEF Loop!StartClock, StartClock
    <2> QED
        BY <2>1 DEF Loop!Next, Loop!LoopStep
<1>2. CASE Clock
    <2>1. Loop!Clock
        BY <1>2, LoopOperators DEF Loop!Clock, Clock, Loop!NewStep, NewStep, Loop!ClockStart,
           ClockStart
    <2> QED
        BY <2>1 DEF Loop!Next, Loop!LoopStep
<1>3. CASE Watchdog
    <2>1. Loop!Stalled = Stalled
        BY DEF Loop!Stalled, Stalled
    <2>2. Loop!Watchdog
        BY <1>3, <2>1, LoopOperators DEF Loop!Watchdog, Watchdog, Loop!TimedOut, TimedOut
    <2> QED
        BY <2>2 DEF Loop!Next, Loop!LoopStep
<1>4. CASE ArmWakeup
    <2>1. Loop!ArmWakeup
        BY <1>4, LoopOperators DEF Loop!ArmWakeup, ArmWakeup, Loop!TimedOut, TimedOut
    <2> QED
        BY <2>1 DEF Loop!Next, Loop!LoopStep
<1>5. CASE Wake
    <2>1. Loop!Wake
        BY <1>5, LoopOperators DEF Loop!Wake, Wake, Loop!TimerPending, TimerPending
    <2> QED
        BY <2>1 DEF Loop!Next, Loop!LoopStep
<1> QED
    BY <1>1, <1>2, <1>3, <1>4, <1>5 DEF LoopAround

\* Time passes as the loop allows: a tick of a blocked send is one of the
\* allowance, any other one of the hart's own.
LEMMA LoopTicks ==
    ASSUME TurnsInv, AllowanceInv, MeshTick
    PROVE  Loop!Next
<1>1. /\ pc # "halted" /\ mtime' = mtime + 1 /\ pc' = pc
      /\ UNCHANGED <<driverVars, mtimecmp, stepStarted, lastStep, exit, openedAt>>
    BY DEF MeshTick
<1>2. LoopPc' = LoopPc /\ LoopPc # "halted" /\ (LoopPc = "wfi" <=> pc = "wfi")
    BY <1>1 DEF LoopPc
<1>3. /\ awake \in Nat /\ blocked \in Nat /\ AwakeTicks \in Nat /\ SendAllowance \in Nat
      /\ awake <= AwakeTicks + blocked
      /\ blocked <= SendAllowance
      /\ SendBlocked /\ ~SendExpired => blocked + 1 <= SendAllowance
    BY <1>1, BlockedWithinAllowance, SendFacts DEF TurnsInv, MeshTypeOK, AllowanceInv
<1>4. IF Asleep THEN awake' = awake
                ELSE awake < AwakeTicks + SendAllowance /\ awake' = awake + 1
    <2>1. CASE Asleep /\ awake' = awake
        BY <2>1
    <2>2. CASE SendBlocked /\ ~SendExpired /\ awake' = awake + 1
        <3>1. ~Asleep
            BY <2>2 DEF SendBlocked, Asleep
        <3> QED
            BY <1>3, <2>2, <3>1
    <2>3. CASE ~Asleep /\ awake - blocked < AwakeTicks /\ awake' = awake + 1
        BY <1>3, <2>3
    <2> QED
        BY <2>1, <2>2, <2>3 DEF MeshTick
<1>5. Loop!Asleep <=> Asleep
    BY <1>2 DEF Loop!Asleep, Asleep, LoopPc
<1>6. Loop!Tick
    BY <1>1, <1>2, <1>4, <1>5, LoopOperators DEF Loop!Tick, LoopPc
<1> QED
    BY <1>6 DEF Loop!Next

LEMMA MeshStepsLoop ==
    ASSUME TurnsInv, AllowanceInv, [MeshNext]_meshVars
    PROVE  [Loop!Next]_(Loop!vars)
<1>1. CASE LoopAround
    BY <1>1, LoopOwnSteps
<1>2. CASE MeshTick
    BY <1>2, LoopTicks
<1>3. CASE PromptSent \/ NothingDecodable
    <2>1. Pending \in TurnResults
        BY DEF TurnResults
    <2> QED
        BY <1>3, <2>1, LoopPolls DEF PromptSent, NothingDecodable, Draining
<1>4. CASE ReceiveComplete
    <2>1. PollReturns(ParseGoalStep(reply)) /\ pc = "poll"
        BY <1>4 DEF ReceiveComplete, Receives, Draining
    <2> QED
        BY <1>4, <2>1, TurnConcludes, LoopPolls
<1>5. CASE ReceiveClose \/ SendTimesOut
    BY <1>5, LoopPanics DEF ReceiveClose, Receives, Draining, SendTimesOut, SendBlocked
<1>6. CASE CloseAwaited
    <2>1. LoopPc = "end" /\ LoopPc' = "halted"
        BY <1>6 DEF CloseAwaited, WriteExit, LoopPc
    <2>2. Loop!Exit
        BY <1>6, <2>1, LoopOperators DEF Loop!Exit, Loop!WriteExit, CloseAwaited, WriteExit,
           Loop!ExitCode, ExitCode, LoopPc
    <2> QED
        BY <2>2 DEF Loop!Next, Loop!LoopStep
<1>7. CASE BeginPrompt \/ ReceivePing \/ PongSent \/ BeginClose \/ CloseSent
    <2>1. LoopPc' = LoopPc
        BY <1>7 DEF BeginPrompt, ReceivePing, Receives, Draining, PongSent, BeginClose, BeginSend,
           CloseSent, Goto, LoopPc
    <2>2. UNCHANGED <<driverVars, mtime, mtimecmp, stepStarted, lastStep, exit, awake, openedAt>>
        BY <1>7 DEF BeginPrompt, ReceivePing, PongSent, BeginClose, BeginSend, CloseSent, Goto
    <2> QED
        BY <2>1, <2>2, LoopStutters
<1>8. ASSUME \/ ReceiveText \/ ReceiveOther \/ GatewayReceive \/ GatewaySend \/ GatewayPush
             \/ ConnChanges \/ UNCHANGED meshVars
      PROVE  UNCHANGED Loop!vars
    <2>1. UNCHANGED vars
        BY <1>8 DEF ReceiveText, ReceiveOther, GatewayReceive, GatewaySend, GatewayPush,
           ConnChanges, meshVars
    <2>2. LoopPc' = LoopPc
        BY <2>1 DEF LoopPc, vars, loopVars
    <2> QED
        BY <2>1, <2>2, LoopStutters DEF vars, loopVars
<1> QED
    BY <1>1, <1>2, <1>3, <1>4, <1>5, <1>6, <1>7, <1>8 DEF MeshNext, KernelStep, GatewayStep

LEMMA AllowanceInductive == MeshSpec => []AllowanceInv
<1>1. MeshInit => AllowanceInv
    BY AllowanceInit
<1>2. TurnsInv /\ AllowanceInv /\ [MeshNext]_meshVars => AllowanceInv'
    BY AllowanceNext
<1> QED
    BY <1>1, <1>2, TurnsInductive, PTL DEF MeshSpec

\* Every behaviour of the mesh build is one of the loop whose iterations take
\* SendAllowance more: the blocking sends of a poll, and of the close, are
\* bounded by their deadlines and by the pings there are to answer
\* (mesh.rs:207-230, mesh.rs:343-402).
THEOREM MeshImplementsLoop == MeshSpec => ImplementsLoop
<1>1. MeshInit => Loop!Init
    <2> SUFFICES ASSUME MeshInit PROVE Loop!Init
        OBVIOUS
    <2>1. Init
        BY DEF MeshInit
    <2> QED
        BY <2>1, LoopOperators DEF Init, Loop!Init, Running, Loop!Running
<1>2. TurnsInv /\ AllowanceInv /\ [MeshNext]_meshVars => [Loop!Next]_(Loop!vars)
    BY MeshStepsLoop
<1> QED
    BY <1>1, <1>2, TurnsInductive, AllowanceInductive, PTL
       DEF MeshSpec, ImplementsLoop, Loop!Spec

-----------------------------------------------------------------------------
(* OwnTurnInv is inductive, when no other session's turns are pushed.      *)

\* The next frame is consumed, into the reply if it is of a turn.
LEMMA StreamsTail ==
    ASSUME toKernel \in Seq(Frames), toKernel # << >>, reply \in Seq(Frames),
           NEW answer \in Seq(Frames),
           NEW n \in [0..Len(toKernel) -> Nat], Streams(answer, n),
           toKernel' = Tail(toKernel), outbox' = outbox,
           reply' = IF TurnFrame(Head(toKernel)) THEN Append(reply, Head(toKernel)) ELSE reply
    PROVE  \E m \in [0..Len(toKernel') -> Nat] : Streams(answer, m)'
<1> DEFINE L == Len(toKernel)
<1>1. /\ Head(toKernel) = toKernel[1] /\ Head(toKernel) \in Frames /\ L \in Nat \ {0}
      /\ Len(toKernel') = L - 1
      /\ \A i \in 1..L - 1 : toKernel'[i] = toKernel[i + 1]
    BY TailFrames
<1>2. \A i \in 0..L - 1 : i + 1 \in 1..L /\ i + 1 \in 0..L
    BY <1>1
<1>3. PICK m \in [0..L - 1 -> Nat] : \A i \in 0..L - 1 : m[i] = n[i + 1]
    <2>1. [i \in 0..L - 1 |-> n[i + 1]] \in [0..L - 1 -> Nat]
        BY <1>2
    <2> QED
        BY <2>1
<1>4. /\ n[0] = Len(reply)
      /\ \A i, j \in 0..L : i <= j => n[i] <= n[j]
      /\ \A i \in 1..L :
            IF TurnFrame(toKernel[i])
              THEN n[i] = n[i-1] + 1 /\ toKernel[i] = answer[n[i]]
              ELSE n[i] = n[i-1]
      /\ \A i \in 1..Len(reply) : reply[i] = answer[i]
      /\ n[L] + Len(outbox) = Len(answer)
      /\ \A i \in 1..Len(outbox) : outbox[i] = answer[n[L] + i]
    BY DEF Streams
<1> HIDE DEF L
<1>5. m[0] = n[1] /\ m[L - 1] = n[L] /\ n[0] \in Nat
    <2>1. /\ 0 \in 0..L - 1 /\ L - 1 \in 0..L - 1 /\ 0 \in 0..L
          /\ 0 + 1 = 1 /\ (L - 1) + 1 = L
        BY <1>1
    <2>2. m[0] = n[0 + 1] /\ m[L - 1] = n[(L - 1) + 1]
        BY <1>3, <2>1
    <2>3. n[0] \in Nat
        BY <2>1 DEF L
    <2> QED
        BY <2>1, <2>2, <2>3
<1>6. m[0] = Len(reply') /\ \A i \in 1..Len(reply') : reply'[i] = answer[i]
    <2>1. CASE TurnFrame(Head(toKernel))
        <3>1. n[1] = Len(reply) + 1 /\ toKernel[1] = answer[n[1]]
            BY <1>1, <1>4, <2>1
        <3>2. /\ Len(reply') = Len(reply) + 1 /\ Len(reply) \in Nat
              /\ reply'[Len(reply) + 1] = toKernel[1]
              /\ \A i \in 1..Len(reply) : reply'[i] = reply[i]
            BY <1>1, <2>1, AppendFrame
        <3>3. \A i \in 1..Len(reply') : i \in 1..Len(reply) \/ i = Len(reply) + 1
            BY <3>2
        <3> QED
            BY <1>4, <1>5, <3>1, <3>2, <3>3
    <2>2. CASE ~TurnFrame(Head(toKernel))
        <3>1. n[1] = n[0]
            BY <1>1, <1>4, <2>2
        <3> QED
            BY <1>4, <1>5, <2>2, <3>1
    <2> QED
        BY <2>1, <2>2
<1>7. \A i, j \in 0..L - 1 : i <= j => m[i] <= m[j]
    BY <1>1, <1>2, <1>3, <1>4
<1>8. ASSUME NEW i \in 1..L - 1
      PROVE  IF TurnFrame(toKernel'[i])
               THEN m[i] = m[i-1] + 1 /\ toKernel'[i] = answer[m[i]]
               ELSE m[i] = m[i-1]
    <2>1. /\ i \in 0..L - 1 /\ i - 1 \in 0..L - 1 /\ i + 1 \in 1..L
          /\ (i - 1) + 1 = i /\ (i + 1) - 1 = i
        BY <1>1
    <2>2. toKernel'[i] = toKernel[i + 1] /\ m[i] = n[i + 1] /\ m[i - 1] = n[(i + 1) - 1]
        BY <1>1, <1>3, <2>1
    <2> QED
        BY <1>4, <2>1, <2>2
<1>9. /\ m[L - 1] + Len(outbox') = Len(answer)
      /\ \A i \in 1..Len(outbox') : outbox'[i] = answer[m[L - 1] + i]
    BY <1>4, <1>5
<1>10. Len(toKernel') = L - 1
    BY <1>1
<1>11. Streams(answer, m)'
    BY <1>6, <1>7, <1>8, <1>9, <1>10 DEF Streams, TurnFrame
<1> QED
    BY <1>3, <1>10, <1>11

\* A frame joins the wire: the next of the answer, or one of no turn.
LEMMA StreamsAppend ==
    ASSUME toKernel \in Seq(Frames), outbox \in Seq(Frames), NEW f \in Frames,
           NEW answer \in Seq(Frames),
           NEW n \in [0..Len(toKernel) -> Nat], Streams(answer, n),
           toKernel' = Append(toKernel, f), reply' = reply,
           IF TurnFrame(f) THEN outbox # << >> /\ f = Head(outbox) /\ outbox' = Tail(outbox)
                           ELSE outbox' = outbox
    PROVE  \E m \in [0..Len(toKernel') -> Nat] : Streams(answer, m)'
<1> DEFINE L == Len(toKernel)
<1>1. /\ L \in Nat /\ Len(toKernel') = L + 1
      /\ toKernel'[L + 1] = f
      /\ \A i \in 1..L : toKernel'[i] = toKernel[i]
    BY AppendFrame
<1>2. /\ n[0] = Len(reply)
      /\ \A i, j \in 0..L : i <= j => n[i] <= n[j]
      /\ \A i \in 1..L :
            IF TurnFrame(toKernel[i])
              THEN n[i] = n[i-1] + 1 /\ toKernel[i] = answer[n[i]]
              ELSE n[i] = n[i-1]
      /\ \A i \in 1..Len(reply) : reply[i] = answer[i]
      /\ n[L] + Len(outbox) = Len(answer)
      /\ \A i \in 1..Len(outbox) : outbox[i] = answer[n[L] + i]
    BY DEF Streams
<1>0. PICK last \in Nat : last = n[L]
    <2>1. Len(toKernel) \in 0..Len(toKernel)
        BY <1>1
    <2>2. n[Len(toKernel)] \in Nat
        BY <2>1
    <2> QED
        BY <2>2
<1> DEFINE top == IF TurnFrame(f) THEN last + 1 ELSE last
<1>3. top \in Nat /\ last <= top
    OBVIOUS
<1> HIDE DEF top
<1>4. \A i \in 0..L + 1 : i \in 0..L \/ i = L + 1
    BY <1>1
<1>5. PICK m \in [0..L + 1 -> Nat] :
        m[L + 1] = top /\ \A i \in 0..L : m[i] = n[i] /\ n[i] \in Nat
    <2> DEFINE r == [i \in 0..L + 1 |-> IF i = L + 1 THEN top ELSE n[i]]
    <2>1. \A i \in 0..L : n[i] \in Nat /\ i # L + 1 /\ i \in 0..L + 1
        BY <1>1
    <2>2. /\ r \in [0..L + 1 -> Nat] /\ r[L + 1] = top
          /\ \A i \in 0..L : r[i] = n[i] /\ n[i] \in Nat
        BY <1>1, <1>3, <1>4, <2>1
    <2> QED
        BY <2>2
<1>6. IF TurnFrame(f) THEN f = answer[top] /\ top = last + 1 ELSE top = last
    <2>1. CASE TurnFrame(f)
        <3>1. f = outbox[1] /\ 1 \in 1..Len(outbox)
            BY <2>1, TailFrames
        <3> QED
            BY <1>0, <1>2, <2>1, <3>1 DEF top
    <2> QED
        BY <2>1 DEF top
<1>7. /\ top + Len(outbox') = Len(answer)
      /\ \A i \in 1..Len(outbox') : outbox'[i] = answer[top + i]
    <2>1. CASE TurnFrame(f)
        <3>1. /\ Len(outbox) \in Nat \ {0} /\ Len(outbox') = Len(outbox) - 1
              /\ \A i \in 1..Len(outbox) - 1 : outbox'[i] = outbox[i + 1]
            BY <2>1, TailFrames
        <3>2. top + Len(outbox') = Len(answer)
            <4>1. last + Len(outbox) = Len(answer) /\ top = last + 1
                BY <1>0, <1>2, <1>6, <2>1
            <4>2. \A k \in Nat : (last + 1) + (k - 1) = last + k
                OBVIOUS
            <4>3. (last + 1) + (Len(outbox) - 1) = last + Len(outbox)
                BY <3>1, <4>2
            <4> QED
                BY <3>1, <4>1, <4>3
        <3>3. ASSUME NEW i \in 1..Len(outbox') PROVE outbox'[i] = answer[top + i]
            <4>1. i \in 1..Len(outbox) - 1 /\ i + 1 \in 1..Len(outbox)
                BY <3>1
            <4>2. last + (i + 1) = top + i
                BY <1>6, <2>1
            <4> QED
                BY <1>0, <1>2, <3>1, <4>1, <4>2
        <3> QED
            BY <3>2, <3>3
    <2>2. CASE ~TurnFrame(f)
        BY <1>0, <1>2, <1>6, <2>2
    <2> QED
        BY <2>1, <2>2
<1> HIDE DEF L
<1>8. ASSUME NEW i \in 0..L + 1, NEW j \in 0..L + 1, i <= j PROVE m[i] <= m[j]
    <2>1. CASE j \in 0..L
        <3>1. i \in 0..L
            BY <1>1, <1>8, <2>1
        <3>2. n[i] <= n[j]
            BY <1>2, <1>8, <2>1, <3>1
        <3> QED
            BY <1>5, <2>1, <3>1, <3>2
    <2>2. CASE i \in 0..L /\ j = L + 1
        <3>1. n[i] <= n[L]
            BY <1>1, <1>2, <2>2
        <3> QED
            BY <1>0, <1>3, <1>5, <2>2, <3>1
    <2>3. CASE i = L + 1 /\ j = L + 1
        BY <1>3, <1>5, <2>3
    <2> QED
        BY <1>1, <1>4, <1>8, <2>1, <2>2, <2>3
<1>9. ASSUME NEW i \in 1..L + 1
      PROVE  IF TurnFrame(toKernel'[i])
               THEN m[i] = m[i-1] + 1 /\ toKernel'[i] = answer[m[i]]
               ELSE m[i] = m[i-1]
    <2>1. CASE i = L + 1
        <3>1. i - 1 = L /\ L \in 0..L
            BY <1>1, <2>1
        <3> QED
            BY <1>0, <1>1, <1>5, <1>6, <2>1, <3>1
    <2>2. CASE i \in 1..L
        <3>1. i \in 0..L /\ i - 1 \in 0..L
            BY <1>1, <2>2
        <3> QED
            BY <1>1, <1>2, <1>5, <2>2, <3>1
    <2> QED
        BY <1>1, <2>1, <2>2
<1>10. m[0] = Len(reply')
    BY <1>1, <1>2, <1>5
<1>11. Streams(answer, m)'
    BY <1>1, <1>2, <1>5, <1>7, <1>8, <1>9, <1>10 DEF Streams, TurnFrame
<1> QED
    BY <1>1, <1>5, <1>11

\* A completion is the last frame of its turn's answer, and the reply has all
\* the others.
LEMMA TurnEnds ==
    ASSUME TurnsInv, OwnTurnInv, ReceiveComplete
    PROVE  /\ Head(toKernel).turn = step
           /\ \A i \in 1..Len(reply) : reply[i].turn = step
           /\ \E answer \in Answers(step) : answer = Append(reply, Head(toKernel))
           /\ outbox = << >> /\ toGateway = << >>
           /\ \A i \in 2..Len(toKernel) : ~TurnFrame(toKernel[i])
<1>1. /\ toKernel \in Seq(Frames) /\ outbox \in Seq(Frames) /\ reply \in Seq(Frames)
      /\ mode \in Modes /\ step \in Nat
    BY LogFacts DEF TurnsInv, MeshTypeOK
<1>2. /\ Acting /\ inFlight /\ pc # "halted" /\ toKernel # << >>
      /\ Head(toKernel).type = "turn_complete"
    BY TurnConcludes DEF ReceiveComplete, Receives
<1> DEFINE L == Len(toKernel)
<1> DEFINE R == Len(reply)
<1>3. /\ Head(toKernel) = toKernel[1] /\ Head(toKernel) \in Frames
      /\ L \in Nat \ {0} /\ 1 \in 1..L /\ R \in Nat /\ Len(outbox) \in Nat
    BY <1>1, <1>2, TailFrames
<1>4. TurnFrame(toKernel[1])
    BY <1>2, <1>3 DEF TurnFrame
<1>5. TurnAnswered
    BY <1>2, <1>3, <1>4 DEF OwnTurnInv
<1>6. PICK answer \in Answers(step) :
        \E n \in [0..Len(toKernel) -> Nat] : Streams(answer, n)
    BY <1>2, <1>5 DEF OwnTurnInv
<1>7. PICK n \in [0..L -> Nat] : Streams(answer, n)
    BY <1>6
<1>8. /\ answer \in Seq(Frames)
      /\ \A i \in 1..Len(answer) :
           /\ answer[i].turn = step
           /\ answer[i].type = "turn_complete" => i = Len(answer)
    BY <1>1, AnswerShape
<1>9. /\ n[0] = R
      /\ \A i, j \in 0..L : i <= j => n[i] <= n[j]
      /\ \A i \in 1..L :
            IF TurnFrame(toKernel[i])
              THEN n[i] = n[i-1] + 1 /\ toKernel[i] = answer[n[i]]
              ELSE n[i] = n[i-1]
      /\ \A i \in 1..R : reply[i] = answer[i]
      /\ n[L] + Len(outbox) = Len(answer)
    BY <1>7 DEF Streams
<1>10. n[1] = R + 1 /\ toKernel[1] = answer[R + 1]
    BY <1>3, <1>4, <1>9
<1>11. /\ \A i \in 0..L : n[i] \in Nat
       /\ n[L] \in Nat /\ n[1] <= n[L] /\ Len(answer) \in Nat
    BY <1>3, <1>7, <1>8, <1>9
<1> HIDE DEF L, R
<1>12. PICK last \in Nat : last = n[L]
    BY <1>11
<1>13. R + 1 <= last /\ last + Len(outbox) = Len(answer)
    BY <1>9, <1>10, <1>11, <1>12
<1>14. R + 1 = Len(answer)
    <2>1. R + 1 \in 1..Len(answer)
        BY <1>3, <1>11, <1>13
    <2>2. answer[R + 1].type = "turn_complete"
        BY <1>2, <1>3, <1>10
    <2> QED
        BY <1>8, <2>1, <2>2
<1>15. Len(outbox) = 0 /\ last = R + 1
    BY <1>3, <1>13, <1>14
<1>16. ASSUME NEW i \in 2..L, TurnFrame(toKernel[i]) PROVE FALSE
    <2>1. i \in 1..L /\ i \in 0..L /\ i - 1 \in 0..L /\ 1 \in 0..L /\ L \in 0..L /\ 1 <= i - 1 /\ i <= L
        BY <1>3
    <2>2. n[i] = n[i - 1] + 1
        BY <1>9, <1>16, <2>1
    <2>3. n[1] <= n[i - 1] /\ n[i] <= n[L]
        BY <1>9, <2>1
    <2>4. n[i] \in Nat /\ n[i - 1] \in Nat
        BY <1>11, <2>1
    <2> QED
        BY <1>3, <1>10, <1>12, <1>15, <2>2, <2>3, <2>4
<1>17. /\ \A i \in 1..R : i \in 1..Len(answer)
       /\ R + 1 \in 1..Len(answer)
    BY <1>3, <1>14
<1>18. answer = Append(reply, Head(toKernel))
    <2> DEFINE whole == Append(reply, Head(toKernel))
    <2>1. /\ whole \in Seq(Frames) /\ Len(whole) = R + 1
          /\ whole[R + 1] = Head(toKernel)
          /\ \A i \in 1..R : whole[i] = reply[i]
        BY <1>1, <1>3, AppendFrame DEF R
    <2> HIDE DEF whole
    <2>2. \A i \in 1..Len(answer) : i \in 1..R \/ i = R + 1
        BY <1>3, <1>14
    <2>3. \A i \in 1..Len(answer) : answer[i] = whole[i]
        BY <1>3, <1>9, <1>10, <2>1, <2>2
    <2>4. answer = whole
        BY <1>8, <1>14, <2>1, <2>3, SeqEqual
    <2> QED
        BY <2>4 DEF whole
<1>19. outbox = << >>
    BY <1>1, <1>15
<1>20. Head(toKernel).turn = step /\ \A i \in 1..R : reply[i].turn = step
    BY <1>3, <1>8, <1>9, <1>10, <1>17
<1> QED
    BY <1>5, <1>16, <1>18, <1>19, <1>20 DEF TurnAnswered, L, R

\* The answers to a prompt depend on the gateway's mode alone.
LEMMA SameAnswers ==
    ASSUME mode' = mode, NEW n PROVE Answers(n)' = Answers(n)
BY DEF Answers, Stream, AgentText, TurnComplete, Prose, ContinueVerdict, DoneVerdict

\* A frame other than a turn's joins or leaves the wire, or the gateway sends
\* the next of the turn's, or the kernel reads it.
LEMMA WireKeepsOwnTurn ==
    ASSUME TurnsInv, OwnTurnInv, Acting, pc # "halted",
           UNCHANGED <<step, mode, inFlight, toGateway>>,
           \/ /\ toKernel # << >> /\ toKernel' = Tail(toKernel) /\ outbox' = outbox
              /\ inFlight
              /\ reply' = IF TurnFrame(Head(toKernel)) THEN Append(reply, Head(toKernel))
                                                       ELSE reply
           \/ /\ reply' = reply
              /\ \E f \in Frames :
                   /\ toKernel' = Append(toKernel, f)
                   /\ IF TurnFrame(f)
                        THEN outbox # << >> /\ f = Head(outbox) /\ outbox' = Tail(outbox)
                        ELSE outbox' = outbox
           \/ UNCHANGED <<toKernel, outbox, reply>>
    PROVE  OwnTurnInv'
<1>1. /\ toKernel \in Seq(Frames) /\ outbox \in Seq(Frames) /\ reply \in Seq(Frames)
      /\ mode \in Modes /\ step \in Nat
    BY LogFacts DEF TurnsInv, MeshTypeOK
<1>2. /\ TurnAnswered => \E answer \in Answers(step) :
                           \E n \in [0..Len(toKernel) -> Nat] : Streams(answer, n)
      /\ ~TurnAnswered =>
             /\ outbox = << >>
             /\ \A i \in 1..Len(toKernel) : ~TurnFrame(toKernel[i])
             /\ IF inFlight THEN reply = << >> /\ Len(toGateway) = 1
                            ELSE toGateway = << >>
    BY DEF OwnTurnInv
<1>3. TurnAnswered' <=> TurnAnswered
    BY DEF TurnAnswered
<1>4. Answers(step)' = Answers(step)
    BY SameAnswers
<1>5. CASE TurnAnswered
    <2>1. PICK answer \in Answers(step), n \in [0..Len(toKernel) -> Nat] : Streams(answer, n)
        BY <1>2, <1>5
    <2>2. answer \in Seq(Frames)
        BY <1>1, AnswerShape
    <2>3. \E m \in [0..Len(toKernel') -> Nat] : Streams(answer, m)'
        <3>1. CASE UNCHANGED <<toKernel, outbox, reply>>
            <4>1. Streams(answer, n)'
                BY <2>1, <3>1 DEF Streams
            <4> QED
                BY <3>1, <4>1
        <3>2. CASE /\ toKernel # << >> /\ toKernel' = Tail(toKernel) /\ outbox' = outbox
                   /\ reply' = IF TurnFrame(Head(toKernel)) THEN Append(reply, Head(toKernel))
                                                            ELSE reply
            BY <1>1, <2>1, <2>2, <3>2, StreamsTail
        <3>3. CASE /\ reply' = reply
                   /\ \E f \in Frames :
                        /\ toKernel' = Append(toKernel, f)
                        /\ IF TurnFrame(f)
                             THEN outbox # << >> /\ f = Head(outbox) /\ outbox' = Tail(outbox)
                             ELSE outbox' = outbox
            BY <1>1, <2>1, <2>2, <3>3, StreamsAppend
        <3> QED
            BY <3>1, <3>2, <3>3
    <2> QED
        BY <1>3, <1>4, <1>5, <2>1, <2>3 DEF OwnTurnInv
<1>6. CASE ~TurnAnswered
    <2>1. outbox' = << >> /\ reply' = reply
          /\ \A i \in 1..Len(toKernel') : ~TurnFrame(toKernel'[i])
        <3>1. CASE UNCHANGED <<toKernel, outbox, reply>>
            BY <1>2, <1>6, <3>1
        <3>2. CASE /\ toKernel # << >> /\ toKernel' = Tail(toKernel) /\ outbox' = outbox
                   /\ reply' = IF TurnFrame(Head(toKernel)) THEN Append(reply, Head(toKernel))
                                                            ELSE reply
            <4>1. /\ Head(toKernel) = toKernel[1] /\ Len(toKernel) \in Nat \ {0}
                  /\ Len(toKernel') = Len(toKernel) - 1
                  /\ \A i \in 1..Len(toKernel) - 1 : toKernel'[i] = toKernel[i + 1]
                BY <1>1, <3>2, TailFrames
            <4>2. ~TurnFrame(Head(toKernel))
                BY <1>2, <1>6, <4>1
            <4>3. \A i \in 1..Len(toKernel') : i \in 1..Len(toKernel) - 1 /\ i + 1 \in 1..Len(toKernel)
                BY <4>1
            <4> QED
                BY <1>2, <1>6, <3>2, <4>1, <4>2, <4>3
        <3>3. CASE /\ reply' = reply
                   /\ \E f \in Frames :
                        /\ toKernel' = Append(toKernel, f)
                        /\ IF TurnFrame(f)
                             THEN outbox # << >> /\ f = Head(outbox) /\ outbox' = Tail(outbox)
                             ELSE outbox' = outbox
            <4>1. PICK f \in Frames : toKernel' = Append(toKernel, f) /\ ~TurnFrame(f) /\ outbox' = outbox
                BY <1>2, <1>6, <3>3
            <4>2. /\ Len(toKernel) \in Nat /\ Len(toKernel') = Len(toKernel) + 1
                  /\ toKernel'[Len(toKernel) + 1] = f
                  /\ \A i \in 1..Len(toKernel) : toKernel'[i] = toKernel[i]
                BY <1>1, <4>1, AppendFrame
            <4>3. \A i \in 1..Len(toKernel') : i \in 1..Len(toKernel) \/ i = Len(toKernel) + 1
                BY <4>2
            <4> QED
                BY <1>2, <1>6, <3>3, <4>1, <4>2, <4>3
        <3> QED
            BY <3>1, <3>2, <3>3
    <2> QED
        BY <1>2, <1>3, <1>6, <2>1 DEF OwnTurnInv, TurnFrame
<1> QED
    BY <1>5, <1>6

\* The gateway receives the prompt of the turn in flight: all of the answer is
\* still to be sent.
LEMMA ReceivedKeepsOwnTurn ==
    ASSUME TurnsInv, OwnTurnInv, GatewayReceive
    PROVE  OwnTurnInv'
<1> SUFFICES ASSUME Acting', pc' # "halted"
             PROVE  TurnAnswered' /\ \E answer \in Answers(step)' :
                      \E n \in [0..Len(toKernel') -> Nat] : Streams(answer, n)'
    BY DEF OwnTurnInv
<1>1. /\ toGateway # << >> /\ toGateway' = Tail(toGateway) /\ turn' = turn + 1
      /\ outbox' \in Answers(turn + 1) /\ mode' = mode
      /\ UNCHANGED <<driverVars, pc, inFlight, reply, toKernel>>
    BY DEF GatewayReceive, vars, loopVars, inferenceVars
<1>2. /\ Acting /\ pc # "halted" /\ step' = step
    BY <1>1 DEF Acting, driverVars
<1>3. /\ toGateway \in Seq(Nat) /\ toKernel \in Seq(Frames) /\ Len(toKernel) \in Nat
      /\ turn \in Nat /\ step \in Nat /\ mode \in Modes
    BY LogFacts DEF TurnsInv, MeshTypeOK
<1>4. /\ inFlight /\ reply = << >> /\ Len(toGateway) = 1
      /\ \A i \in 1..Len(toKernel) : ~TurnFrame(toKernel[i])
    BY <1>1, <1>2 DEF OwnTurnInv, TurnAnswered
<1>5. toGateway' = << >> /\ TurnAnswered'
    BY <1>1, <1>3, <1>4 DEF TurnAnswered
<1>6. turn + 1 = step
    BY <1>2, <1>3, <1>4 DEF TurnsInv, OneTurnPerStep
<1>7. outbox' \in Answers(step)'
    BY <1>1, <1>2, <1>6, SameAnswers
<1>8. outbox' \in Seq(Frames)
    BY <1>1, <1>3, <1>6, AnswerShape
<1>9. PICK n \in [0..Len(toKernel') -> Nat] : \A i \in 0..Len(toKernel') : n[i] = 0
    <2>1. [i \in 0..Len(toKernel') |-> 0] \in [0..Len(toKernel') -> Nat]
        OBVIOUS
    <2> QED
        BY <2>1
<1>10. PICK answer \in Answers(step)' : answer = outbox'
    BY <1>7
<1>11. Streams(answer, n)'
    <2>1. /\ toKernel' = toKernel /\ reply' = << >> /\ Len(<< >>) = 0
          /\ Len(outbox') \in Nat
        BY <1>1, <1>4, <1>8
    <2>2. n[0] = 0 /\ n[Len(toKernel')] = 0 /\ \A i \in 1..Len(toKernel') : n[i] = 0 /\ n[i - 1] = 0
        BY <1>3, <1>9, <2>1
    <2> QED
        BY <1>4, <1>9, <1>10, <2>1, <2>2 DEF Streams, TurnFrame
<1> QED
    BY <1>5, <1>10, <1>11

LEMMA OwnTurnNext ==
    ASSUME TurnsInv, OwnTurnInv, AllowanceInv, [MeshNext]_meshVars
    PROVE  OwnTurnInv'
<1>1. /\ toGateway \in Seq(Nat) /\ toKernel \in Seq(Frames) /\ outbox \in Seq(Frames)
      /\ Len(toKernel) \in Nat
    BY DEF TurnsInv, MeshTypeOK
<1>2. CASE GatewayReceive
    BY <1>2, ReceivedKeepsOwnTurn
<1>3. CASE ReceiveComplete
    <2>1. /\ ~inFlight' /\ toKernel # << >> /\ toKernel' = Tail(toKernel)
          /\ UNCHANGED <<toGateway, outbox>>
        BY <1>3 DEF ReceiveComplete, Receives, gatewayVars
    <2>2. /\ outbox = << >> /\ toGateway = << >>
          /\ \A i \in 2..Len(toKernel) : ~TurnFrame(toKernel[i])
        BY <1>3, TurnEnds
    <2>3. \A i \in 1..Len(toKernel') : ~TurnFrame(toKernel'[i])
        <3>1. /\ Len(toKernel) \in Nat \ {0} /\ Len(toKernel') = Len(toKernel) - 1
              /\ \A i \in 1..Len(toKernel) - 1 : toKernel'[i] = toKernel[i + 1]
            BY <1>1, <2>1, TailFrames
        <3>2. \A i \in 1..Len(toKernel') : i \in 1..Len(toKernel) - 1 /\ i + 1 \in 2..Len(toKernel)
            BY <3>1
        <3> QED
            BY <2>2, <3>1, <3>2
    <2> QED
        BY <2>1, <2>2, <2>3 DEF OwnTurnInv, TurnAnswered, TurnFrame
<1>4. CASE PromptSent
    <2>1. /\ ~inFlight /\ inFlight' /\ Acting /\ pc # "halted"
          /\ toGateway' = Append(toGateway, step) /\ reply' = << >>
          /\ UNCHANGED <<toKernel, outbox>>
        BY <1>4 DEF PromptSent, Noted, TurnsInv, MeshControl, gatewayVars
    <2>2. /\ toGateway = << >> /\ outbox = << >>
          /\ \A i \in 1..Len(toKernel) : ~TurnFrame(toKernel[i])
        BY <2>1 DEF OwnTurnInv, TurnAnswered
    <2>3. Len(toGateway') = 1 /\ toGateway' # << >>
        BY <2>1, <2>2
    <2> QED
        BY <2>1, <2>2, <2>3 DEF OwnTurnInv, TurnAnswered, TurnFrame
<1>5. CASE LoopAround /\ Watchdog
    <2>1. Finish("failed", "stalled")
        BY <1>5, StalledFails DEF Watchdog, TurnsInv, MeshControl
    <2> QED
        BY <2>1 DEF Finish, Acting, OwnTurnInv
<1>6. CASE /\ UNCHANGED <<driverVars, inFlight, toGateway, turn>>
           /\ pc = "halted" => pc' = "halted"
    <2> SUFFICES ASSUME Acting', pc' # "halted" PROVE OwnTurnInv'
        BY DEF OwnTurnInv
    <2>1. Acting /\ pc # "halted" /\ UNCHANGED <<step, inFlight, toGateway>>
        BY <1>6 DEF Acting, driverVars
    <2>2. CASE ReceiveText \/ ReceiveOther \/ ReceivePing
        <3>1. /\ toKernel # << >> /\ toKernel' = Tail(toKernel) /\ outbox' = outbox
              /\ mode' = mode /\ inFlight
            BY <2>2 DEF ReceiveText, ReceiveOther, ReceivePing, Receives, Draining, gatewayVars
        <3>2. reply' = IF TurnFrame(Head(toKernel)) THEN Append(reply, Head(toKernel)) ELSE reply
            BY <2>2 DEF ReceiveText, ReceiveOther, ReceivePing, Receives, TurnFrame, Extended,
               inferenceVars
        <3> QED
            BY <2>1, <3>1, <3>2, WireKeepsOwnTurn
    <2>3. CASE GatewaySend
        <3>1. /\ outbox # << >> /\ toKernel' = Append(toKernel, Head(outbox))
              /\ outbox' = Tail(outbox) /\ mode' = mode /\ reply' = reply
            BY <2>3 DEF GatewaySend, inferenceVars
        <3>2. Head(outbox) \in Frames /\ TurnFrame(Head(outbox))
            BY <1>1, <3>1, TailFrames DEF AllowanceInv
        <3> QED
            BY <2>1, <3>1, <3>2, WireKeepsOwnTurn
    <2>4. CASE GatewayPush
        <3>1. PICK f \in UnaskedFrames : toKernel' = Append(toKernel, f)
            BY <2>4 DEF GatewayPush
        <3>2. outbox' = outbox /\ mode' = mode /\ reply' = reply
            BY <2>4 DEF GatewayPush, inferenceVars
        <3>3. f \in Frames /\ ~TurnFrame(f)
            BY PushedFrame
        <3> QED
            BY <2>1, <3>1, <3>2, <3>3, WireKeepsOwnTurn
    <2>5. CASE UNCHANGED <<toKernel, outbox, reply, mode>>
        BY <2>1, <2>5, WireKeepsOwnTurn
    <2>6. ASSUME \/ LoopAround \/ BeginPrompt \/ PongSent \/ NothingDecodable \/ SendTimesOut
                 \/ BeginClose \/ CloseSent \/ CloseAwaited
          PROVE  UNCHANGED <<toKernel, outbox, reply, mode>>
        BY <2>6 DEF LoopAround, BeginPrompt, BeginSend, PongSent, NothingDecodable, SendTimesOut,
           BeginClose, CloseSent, CloseAwaited, inferenceVars, wireVars, gatewayVars
    <2>7. ASSUME ConnChanges \/ MeshTick \/ UNCHANGED meshVars
          PROVE  UNCHANGED <<toKernel, outbox, reply, mode>>
        BY <2>7 DEF ConnChanges, MeshTick, inferenceVars, wireVars, gatewayVars, meshVars
    <2>8. ~ReceiveClose
        BY DEF ReceiveClose, Panic
    <2> QED
        BY <1>2, <1>3, <1>4, <2>2, <2>3, <2>4, <2>5, <2>6, <2>7, <2>8
           DEF MeshNext, KernelStep, GatewayStep
<1> QED
    BY <1>2, <1>3, <1>4, <1>5, <1>6, QuietMeshSteps

\* Every verdict the goal acts on is parsed from the answer to its own step's
\* prompt, all of it and in order, of a gateway that sends a client no turn but
\* its session's (mesh.rs:379-402).
THEOREM VerdictOfOwnTurnHolds == MeshSpec => VerdictOfOwnTurn
<1> DEFINE OwnVerdict ==
        inFlight /\ ~inFlight' =>
            /\ Head(toKernel).turn = step
            /\ \A i \in 1..Len(reply) : reply[i].turn = step
            /\ \E answer \in Answers(step) : answer = Append(reply, Head(toKernel))
<1>1. MeshInit => OwnTurnInv
    <2> SUFFICES ASSUME MeshInit PROVE OwnTurnInv
        OBVIOUS
    <2>1. Len(<< >>) = 0
        OBVIOUS
    <2> QED
        BY <2>1 DEF MeshInit, OwnTurnInv, TurnAnswered
<1>2. TurnsInv /\ AllowanceInv /\ OwnTurnInv /\ [MeshNext]_meshVars => OwnTurnInv'
    BY OwnTurnNext
<1>3. TurnsInv /\ OwnTurnInv /\ [MeshNext]_meshVars => [OwnVerdict]_meshVars
    <2> SUFFICES ASSUME TurnsInv, OwnTurnInv, [MeshNext]_meshVars, inFlight, ~inFlight'
                 PROVE  OwnVerdict
        OBVIOUS
    <2>1. ReceiveComplete
        <3>1. ~PromptSent /\ ~GatewayReceive /\ ~(LoopAround /\ Watchdog)
            BY DEF PromptSent, Noted, GatewayReceive, inferenceVars, LoopAround
        <3> QED
            BY <3>1, QuietMeshSteps
    <2> QED
        BY <2>1, TurnEnds
<1> QED
    BY <1>1, <1>2, <1>3, TurnsInductive, AllowanceInductive, PTL DEF MeshSpec, VerdictOfOwnTurn

=============================================================================
