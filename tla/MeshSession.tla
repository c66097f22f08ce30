---------------------------- MODULE MeshSession ------------------------------
(***************************************************************************)
(* The WebSocket session of kernel/src/net/mesh.rs, below MeshInference:   *)
(* Mesh::establish, try_next_text, next_text and close_clean, with the     *)
(* mesh-smoke gate around them.                                            *)
(*                                                                         *)
(* A frame is as much as one ws.read hands over: a fragment of a text      *)
(* message, a control frame, or (before the upgrade) the HTTP response.    *)
(* It is two bytes on the wire, so that a segment can end inside it.       *)
(*                                                                         *)
(* Time passes where a loop waits: an idle lasts the millisecond it armed, *)
(* plus what the hart then spends until the next look at the clock.  It    *)
(* passes in every frame close_clean drops too, and in its last polls.     *)
(*                                                                         *)
(* The gateway opens with its session frame, or with any other; or it is    *)
(* the mock of the mesh-smoke gate, in mode ws.                            *)
(***************************************************************************)
EXTENDS Naturals, Sequences

CONSTANTS
    Timeout,        \* ESTABLISH_TIMEOUT, also blocking_send_raw's
    CloseWait,      \* close_clean's two seconds
    SlowestIdle,    \* the longest time between two clock reads of a waiting loop
    SlowestTail,    \* the longest the ten polls at the end of close_clean take
    MaxMessages,    \* bound: text messages the gateway sends
    MaxParts,       \* bound: fragments per message
    MaxControls     \* bound: pings and ignored frames it sends

ASSUME SessionAssumption ==
    /\ {Timeout, CloseWait, SlowestTail, MaxControls} \subseteq Nat
    /\ {SlowestIdle, MaxMessages, MaxParts} \subseteq Nat \ {0}

VARIABLES
    pc,
    session,        \* establish has returned: session_id is set
    exit,           \* the code QEMU ends with, or Running
    mtime,
    deadline,       \* of the handshake and the first message, or of the close
    sendDeadline,   \* of the blocking send in progress
    began,          \* history: when establish, or close_clean, was entered
    rxRaw,          \* Mesh.rx_raw
    msgPartial,     \* Mesh.msg_partial
    received,       \* history: the texts try_next_text returned
    wire, sock,     \* bytes under way, bytes in the socket's receive buffer
    peer,           \* gateway: "listening", "upgraded" or "closed"
    opening,        \* gateway: what its first message is, or that it is the mock
    sent, current,  \* gateway: messages completed, fragments of the next one
    controls        \* gateway: control frames sent

clockVars == <<mtime, deadline, sendDeadline, began>>
inputVars == <<rxRaw, msgPartial, received>>
gatewayVars == <<wire, peer, opening, sent, current, controls>>
vars == <<pc, session, exit, clockVars, inputVars, sock, gatewayVars>>

Running == 99       \* no exit code yet

-----------------------------------------------------------------------------
(* Frames and bytes.                                                       *)

Part(n, k, fin) == [op |-> "text", msg |-> n, part |-> k, fin |-> fin]
Control(op) == [op |-> op, msg |-> 0, part |-> 0, fin |-> TRUE]

Bytes(frame) == << [of |-> frame, half |-> 1], [of |-> frame, half |-> 2] >>

\* Err(HttpHeaderIncomplete), Err(ReadFrameIncomplete) unless:
Complete(rx) == Len(rx) >= 2
Frame(rx) == Head(rx).of

\* Mutant of Rest: rx_raw.clear().
RestCleared(rx) == << >>

\* rx_raw.drain(..consumed)
Rest(rx) == SubSeq(rx, 3, Len(rx))

\* pump: every byte the socket received joins rx_raw.
Pumped == rxRaw \o sock

\* The peer is mockd in mode ws, and the kernel the mesh-smoke gate.
Mock == opening = "mock"

\* The message is the session frame of the gateway, whole.
IsSessionInit(msg) == opening # "other" /\ sent # << >> /\ msg = sent[1]

-----------------------------------------------------------------------------
(* Waiting and sending.                                                    *)

\* The panic handler.
Panic ==
    /\ pc' = "halted"
    /\ exit' = 1
    /\ UNCHANGED <<session, clockVars, inputVars, sock, gatewayVars>>

\* Mutant of Sleep: wfi has no wake condition.
SleepForEver(label) == FALSE /\ pc' = label /\ UNCHANGED vars

\* arm_wakeup and wfi, then on from label.
Sleep(label) ==
    /\ \E idle \in 1..SlowestIdle : mtime' = mtime + idle
    /\ pc' = label
    /\ UNCHANGED <<session, exit, deadline, sendDeadline, began, inputVars,
                   sock, gatewayVars>>

IdleTick(limit, label) ==
    \/ mtime > limit /\ Panic
    \/ mtime <= limit /\ Sleep(label)

Sending == pc \in {"upgrade", "pong", "closeSend"}

\* blocking_send_raw, while the socket does not take the bytes: not connected
\* yet, or stalled or lost.  The mock reads what it is sent.
SendBlocked ==
    /\ Sending
    /\ Mock => pc = "upgrade"
    /\ IdleTick(sendDeadline, pc)

-----------------------------------------------------------------------------
(* Mesh::establish.                                                        *)

\* The upgrade request is out; the handshake's deadline starts.
UpgradeSent ==
    /\ pc = "upgrade"
    /\ pc' = "accept"
    /\ deadline' = mtime + Timeout
    /\ UNCHANGED <<session, exit, mtime, sendDeadline, began, inputVars, sock, gatewayVars>>

\* Mutant of MessageDeadline: the wait for the first message has its own.
MessageDeadlineAnew == mtime + Timeout

\* The wait for the first message shares the handshake's deadline.
MessageDeadline == deadline

\* client_accept over what has arrived; bytes after the response are kept.
Accept ==
    /\ pc = "accept"
    /\ IF Complete(Pumped)
         THEN /\ Frame(Pumped).op = "switching"
              /\ pc' = "read"
              /\ rxRaw' = Rest(Pumped)
              /\ deadline' = MessageDeadline
         ELSE /\ pc' = "acceptIdle"
              /\ rxRaw' = Pumped
              /\ UNCHANGED deadline
    /\ sock' = << >>
    /\ UNCHANGED <<session, exit, mtime, sendDeadline, began, msgPartial, received,
                   gatewayVars>>

\* panic!("mesh: handshake rejected")
Rejected ==
    /\ pc = "accept"
    /\ Complete(Pumped) /\ Frame(Pumped).op # "switching"
    /\ Panic

Wait ==
    \/ pc = "acceptIdle" /\ IdleTick(deadline, "accept")
    \/ pc = "readIdle" /\ IdleTick(deadline, "read")

-----------------------------------------------------------------------------
(* Mesh::try_next_text, called by next_text until establish has its frame, *)
(* then by the owner of the session.                                       *)

CallTryNextText ==
    /\ ~Mock
    /\ pc = "open"
    /\ pc' = "read"
    /\ UNCHANGED <<session, exit, clockVars, inputVars, sock, gatewayVars>>

Read ==
    /\ pc = "read"
    /\ pc' = "decode"
    /\ rxRaw' = Pumped
    /\ sock' = << >>
    /\ UNCHANGED <<session, exit, clockVars, msgPartial, received, gatewayVars>>

\* Nothing more can be decoded: None.
ReturnNone ==
    /\ pc = "decode"
    /\ ~Complete(rxRaw)
    /\ pc' = IF session THEN "open" ELSE "readIdle"
    /\ UNCHANGED <<session, exit, clockVars, inputVars, sock, gatewayVars>>

\* ws.read returned a frame of one of the types.
Reads(ops) ==
    /\ pc = "decode"
    /\ Complete(rxRaw)
    /\ Frame(rxRaw).op \in ops
    /\ rxRaw' = Rest(rxRaw)
    /\ UNCHANGED <<mtime, deadline, began, sock, gatewayVars>>

\* Mutant of Accumulated: fragments are not accumulated.
AccumulatedLast(frame) == << frame >>

\* msg_partial.extend_from_slice
Accumulated(frame) == Append(msgPartial, frame)

ReadPart ==
    /\ Reads({"text"})
    /\ ~Frame(rxRaw).fin
    /\ msgPartial' = Accumulated(Frame(rxRaw))
    /\ UNCHANGED <<pc, session, exit, sendDeadline, received>>

\* The message is complete, and core::mem::take leaves nothing behind.
\* establish expects the session frame first and panics on any other.
ReadText ==
    LET msg == Accumulated(Frame(rxRaw))
    IN  /\ Reads({"text"})
        /\ Frame(rxRaw).fin
        /\ msgPartial' = << >>
        /\ received' = Append(received, msg)
        /\ \/ /\ session \/ IsSessionInit(msg)
              /\ session' = TRUE
              /\ pc' = "open"
              /\ UNCHANGED exit
           \/ /\ ~session /\ ~IsSessionInit(msg)
              /\ pc' = "halted"
              /\ exit' = 1
              /\ UNCHANGED session
        /\ UNCHANGED sendDeadline

\* A ping is answered before the next frame is read, by a blocking send.
ReadPing ==
    /\ Reads({"ping"})
    /\ pc' = "pong"
    /\ sendDeadline' = mtime + Timeout
    /\ UNCHANGED <<session, exit, msgPartial, received>>

PongSent ==
    /\ pc = "pong"
    /\ pc' = "decode"
    /\ UNCHANGED <<session, exit, clockVars, inputVars, sock, gatewayVars>>

\* Binary and Pong are ignored.
ReadOther ==
    /\ Reads({"ignored"})
    /\ UNCHANGED <<pc, session, exit, sendDeadline, msgPartial, received>>

\* panic!("mesh: peer closed mid-session"), and the same panic for a frame that
\* cannot be decoded and for a text that is not UTF-8.
ReadClose ==
    /\ Reads({"close"})
    /\ pc' = "halted"
    /\ exit' = 1
    /\ UNCHANGED <<session, sendDeadline, msgPartial, received>>

-----------------------------------------------------------------------------
(* Mesh::close_clean, then exit_pass of the smoke gate.                    *)

BeginClose ==
    /\ pc = "open"
    /\ pc' = "closeSend"
    /\ sendDeadline' = mtime + Timeout
    /\ began' = mtime
    /\ UNCHANGED <<session, exit, mtime, deadline, inputVars, sock, gatewayVars>>

CloseSent ==
    /\ pc = "closeSend"
    /\ pc' = "closing"
    /\ deadline' = mtime + CloseWait
    /\ UNCHANGED <<session, exit, mtime, sendDeadline, began, inputVars, sock, gatewayVars>>

CloseExpired == mtime >= deadline

\* Whatever arrives is dropped, up to the peer's close: without an idle, but
\* it may take as long as one.
DropFrame ==
    /\ pc = "closing" /\ ~CloseExpired
    /\ Complete(Pumped) /\ Frame(Pumped).op # "close"
    /\ rxRaw' = Rest(Pumped)
    /\ sock' = << >>
    /\ \E work \in 0..SlowestIdle : mtime' = mtime + work
    /\ UNCHANGED <<pc, session, exit, deadline, sendDeadline, began, msgPartial, received,
                   gatewayVars>>

\* (What has arrived meanwhile is pumped at the next look.)
AwaitClose ==
    /\ pc = "closing" /\ ~CloseExpired
    /\ ~Complete(Pumped)
    /\ Sleep("closing")

\* The polls that let the close go out (nothing that arrives in them is looked
\* at), then exit_pass.
Closed ==
    /\ pc = "closing"
    /\ \/ CloseExpired
       \/ Complete(Pumped) /\ Frame(Pumped).op = "close"
    /\ \E tail \in 0..SlowestTail : mtime' = mtime + tail
    /\ pc' = "halted"
    /\ exit' = 0
    /\ UNCHANGED <<session, deadline, sendDeadline, began, inputVars, sock, gatewayVars>>

-----------------------------------------------------------------------------
(* The gateway and the network.  The network cuts what was sent anywhere,  *)
(* so a gateway that sends a frame when the last has arrived is as general *)
(* as one that runs ahead; and what arrives is only looked at by a pump,   *)
(* so it may as well arrive just before one.                               *)

Puts(frame) ==
    /\ wire = << >>
    /\ wire' = Bytes(frame)
    /\ UNCHANGED <<pc, session, exit, clockVars, inputVars, sock, opening>>

\* The request arrives: the upgrade is accepted, or refused.
GatewayUpgrade ==
    /\ peer = "listening"
    /\ pc # "upgrade"
    /\ \E op \in {"switching"} \union (IF Mock THEN {} ELSE {"refusal"}) :
          Puts(Control(op))
    /\ peer' = "upgraded"
    /\ UNCHANGED <<sent, current, controls>>

\* The next fragment of the next message; the mock sends one message, whole.
GatewayText(fin) ==
    LET frame == Part(Len(sent) + 1, Len(current) + 1, fin)
        msg == Append(current, frame)
    IN  /\ peer = "upgraded"
        /\ Len(sent) < (IF Mock THEN 1 ELSE MaxMessages)
        /\ ~fin => ~Mock /\ Len(msg) < MaxParts
        /\ Puts(frame)
        /\ sent' = IF fin THEN Append(sent, msg) ELSE sent
        /\ current' = IF fin THEN << >> ELSE msg
        /\ UNCHANGED <<peer, controls>>

\* A ping, or a frame the kernel ignores, also between two fragments.
GatewayControl ==
    /\ ~Mock
    /\ peer = "upgraded"
    /\ controls < MaxControls
    /\ \E op \in {"ping", "ignored"} : Puts(Control(op))
    /\ controls' = controls + 1
    /\ UNCHANGED <<peer, sent, current>>

\* A close of its own accord, or (the mock) the answer to the kernel's.
GatewayClose ==
    /\ peer = "upgraded"
    /\ Mock => pc = "closing"
    /\ Puts(Control("close"))
    /\ peer' = "closed"
    /\ UNCHANGED <<sent, current, controls>>

Deliver ==
    /\ wire # << >>
    /\ pc \in {"accept", "read", "closing"}
    /\ sock' = Append(sock, Head(wire))
    /\ wire' = Tail(wire)
    /\ UNCHANGED <<pc, session, exit, clockVars, inputVars, peer, opening,
                   sent, current, controls>>

-----------------------------------------------------------------------------

Init ==
    /\ pc = "upgrade"
    /\ session = FALSE
    /\ exit = Running
    /\ mtime = 0 /\ deadline = 0 /\ sendDeadline = Timeout /\ began = 0
    /\ rxRaw = << >> /\ msgPartial = << >> /\ received = << >>
    /\ wire = << >> /\ sock = << >>
    /\ peer = "listening"
    /\ opening \in {"mock", "session_init", "other"}
    /\ sent = << >> /\ current = << >>
    /\ controls = 0

KernelStep ==
    \/ SendBlocked \/ UpgradeSent \/ Accept \/ Rejected \/ Wait
    \/ CallTryNextText \/ Read \/ ReturnNone
    \/ ReadPart \/ ReadText \/ ReadPing \/ PongSent \/ ReadOther \/ ReadClose
    \/ BeginClose \/ CloseSent \/ DropFrame \/ AwaitClose \/ Closed

GatewayStep ==
    \/ GatewayUpgrade
    \/ \E fin \in BOOLEAN : GatewayText(fin)
    \/ GatewayControl \/ GatewayClose

Next ==
    /\ pc # "halted"
    /\ KernelStep \/ GatewayStep \/ Deliver

\* The hart executes; what is on the wire arrives while the kernel looks.
Spec == Init /\ [][Next]_vars /\ WF_vars(KernelStep) /\ SF_vars(Deliver)

-----------------------------------------------------------------------------
(* Properties.                                                             *)

Frames == [op : {"text"}, msg : 1..MaxMessages, part : 1..MaxParts, fin : BOOLEAN]

\* However the bytes of the handshake, the fragments and the control frames
\* are cut into segments, try_next_text returns the gateway's messages whole,
\* once and in order (mesh.rs:174-185, 246-287).
Channel == INSTANCE MessageChannel WITH Messages <- UNION {[1..k -> Frames] : k \in 1..MaxParts}

ImplementsChannel == Channel!ChannelSpec

\* While the owner of the session keeps calling, every message that was sent
\* is returned, also what shared a segment with the upgrade response: or the
\* kernel has panicked, or is closing (mesh.rs:174-185, 246-287).
EveryMessageReturned ==
    \A n \in 1..MaxMessages :
        Len(sent) >= n ~> \/ Len(received) >= n
                          \/ pc \in {"closeSend", "closing", "halted"}

\* establish returns or panics, whatever the gateway sends or holds back, and
\* so does close_clean (mesh.rs:207-213, 308).
Resolves == <>(pc \in {"open", "halted"}) /\ [](pc = "closeSend" => <>(pc = "halted"))

\* One deadline for the connection and the upgrade request, one for the
\* handshake and the first message together, and one for every pong.
EstablishBound ==
    ~session => mtime <= (2 + MaxControls) * (Timeout + SlowestIdle)

\* The close frame, the two seconds after it, and the last polls.
CloseBound ==
    /\ pc \in {"closeSend", "closing"} =>
          mtime - began <= Timeout + CloseWait + 2 * SlowestIdle
    /\ exit = 0 => mtime - began <= Timeout + CloseWait + 2 * SlowestIdle + SlowestTail

\* However the peer trickles pings and fragments, and however fast it sends what
\* close_clean then drops, it cannot hold establish or close_clean longer than
\* their deadlines allow (mesh.rs:170-188, 300-328).
WaitsBounded == EstablishBound /\ CloseBound

\* The mesh-smoke gate against the mock fails only for what did not arrive: the
\* kernel exits 1 only while the session frame has not been sent, for want of a
\* connection or of an answer, or has not all been read (mesh.rs:333-339, mockd.rs:89-108).
SmokeFailsOnlyForPeer ==
    Mock /\ exit = 1 => sent = << >> \/ wire # << >> \/ sock # << >>

=============================================================================
