------------------------------- MODULE NetSmoke ------------------------------
(***************************************************************************)
(* The net-smoke build: net::init of NicBringUp, then the gate of          *)
(* kernel/src/net/smoke.rs over the token pair of SmolDevice, and its      *)
(* peer: one PING out, the echo in any pieces, ten seconds.                *)
(*                                                                         *)
(* The bytes of PING are numbered; the peer "echo" is the mock, "other" may *)
(* send anything else.  A packet carries a piece of the stream, or nothing *)
(* of it (an ARP request, an acknowledgement); one that finds no buffer is *)
(* sent again, in whatever pieces.  iface.poll is smoltcp's: it receives   *)
(* until the device has nothing, and transmits what is queued.             *)
(***************************************************************************)
EXTENDS NicBringUp, SmolDevice, SequencesExt

CONSTANTS
    PingLen,        \* PING.len()
    Timeout,        \* TIMEOUT_TICKS
    SlowestIdle     \* the longest time between two rounds of the loop

ASSUME SmokeAssumption ==
    PingLen \in Nat \ {0} /\ Timeout \in Nat /\ SlowestIdle \in Nat \ {0}

VARIABLES
    peer,           \* "echo" or "other"
    pc,             \* "init", or where a round of the loop is
    mtime,          \* since start
    queued,         \* `sent`: PING is in the socket's transmit buffer
    pinged,         \* PING is on the wire
    payload,        \* what each packet carries
    buf,            \* buf[..echoed]
    sock,           \* received by the socket, not yet read
    answered,       \* bytes the peer has sent
    polled,         \* history: those that the last poll has found
    exit            \* the code QEMU ends with, or Running

streamVars == <<queued, pinged, payload, buf, sock, answered, polled>>
vars == <<nicVars, tokenVars, peer, pc, mtime, streamVars, exit>>

Running == 99

Ping == [i \in 1..PingLen |-> i]
Wrong == 0

-----------------------------------------------------------------------------
(* net::init, and the NIC it hands over.                                   *)

BringUp ==
    /\ pc = "init"
    /\ NicNext
    /\ UNCHANGED <<tokenVars, peer, pc, mtime, streamVars, exit>>

\* SmolNic::new, and the socket's connect.
Start ==
    /\ pc = "init" /\ status = "up"
    /\ pc' = "top"
    /\ UNCHANGED <<nicVars, tokenVars, peer, mtime, streamVars, exit>>

Panic ==
    /\ exit' = 1
    /\ UNCHANGED <<nicVars, tokenVars, peer, pc, mtime, streamVars>>

\* The arena is exhausted, or "net-smoke requires the NIC".
NoNic == pc = "init" /\ status \in {"panicked", "none"} /\ Panic

-----------------------------------------------------------------------------
(* A round: the time, iface.poll, the socket.                              *)

\* Mutant: no timeout.
LateNever == FALSE

Late == mtime > Timeout

TimesOut == pc = "top" /\ Late /\ Panic

BeginPoll ==
    /\ pc = "top" /\ ~Late
    /\ pc' = "poll"
    /\ UNCHANGED <<nicVars, tokenVars, peer, mtime, streamVars, exit>>

\* A step of smoltcp over the tokens: what it reads of a packet is the
\* socket's, and what it sends of its own accord is the PING.
PollStep ==
    /\ pc = "poll"
    /\ \/ Receive \/ RxConsume \/ RxRead \/ RxReturn \/ RxRecycled \/ TxConsume \/ TxSent
       \/ Transmit /\ queued /\ ~pinged
    /\ sock' = IF received' = received THEN sock ELSE sock \o payload[Last(received')]
    /\ pinged' = (pinged \/ (closure = "sending" /\ closure' = "none"))
    /\ UNCHANGED <<nicVars, peer, pc, mtime, queued, payload, buf, answered, polled, exit>>

PollEnds ==
    /\ pc = "poll"
    /\ used = << >> /\ token = {} /\ ~transmits
    /\ queued => pinged
    /\ pc' = "socket"
    /\ polled' = answered
    /\ UNCHANGED <<nicVars, tokenVars, peer, mtime, queued, pinged, payload, buf, sock>>
    /\ UNCHANGED <<answered, exit>>

\* Mutant: every piece is read to the start of the buffer.
ReadAtStart == IF sock = << >> THEN buf ELSE sock

\* recv_slice(&mut buf[echoed..])
Read == buf \o sock

\* The round has not read enough, or nothing; wfi for a millisecond.
Idle ==
    /\ pc = "socket"
    /\ queued' \in {queued, TRUE}
    /\ IF queued' THEN Len(Read) < PingLen /\ buf' = Read /\ sock' = << >>
         ELSE UNCHANGED <<buf, sock>>
    /\ pc' = "top"
    /\ \E idle \in 1..SlowestIdle : mtime' = mtime + idle
    /\ UNCHANGED <<nicVars, tokenVars, peer, pinged, payload, answered, polled, exit>>

\* The round that has read enough: the bytes are compared.
Compare ==
    /\ pc = "socket"
    /\ queued' = TRUE
    /\ Len(Read) >= PingLen
    /\ buf' = Read
    /\ sock' = << >>
    /\ exit' = IF SubSeq(Read, 1, PingLen) = Ping THEN 0 ELSE 1
    /\ UNCHANGED <<nicVars, tokenVars, peer, pc, mtime, pinged, payload, answered, polled>>

-----------------------------------------------------------------------------
(* The peer.  Its packets arrive at any time, also while the loop idles.   *)

\* The mock writes back what it has read, in pieces of any size; another peer
\* may send as much of anything, also unasked.
PeerSends(n) ==
    /\ pc # "init"
    /\ PacketArrives
    /\ answered + n <= PingLen
    /\ n > 0 /\ peer = "echo" => pinged
    /\ \E piece \in {SubSeq(Ping, answered + 1, answered + n)}
                      \union (IF peer = "echo" THEN {} ELSE {[i \in 1..n |-> Wrong]}) :
          payload' = Append(payload, piece)
    /\ answered' = answered + n
    /\ UNCHANGED <<nicVars, peer, pc, mtime, queued, pinged, buf, sock, polled, exit>>

Init ==
    /\ NicInit
    /\ DeviceInit
    /\ peer \in {"echo", "other"}
    /\ pc = "init"
    /\ mtime = 0
    /\ queued = FALSE /\ pinged = FALSE
    /\ payload = << >> /\ buf = << >> /\ sock = << >>
    /\ answered = 0 /\ polled = 0
    /\ exit = Running

KernelStep ==
    \/ BringUp \/ Start \/ NoNic
    \/ TimesOut \/ BeginPoll \/ PollStep \/ PollEnds \/ Idle \/ Compare

Next ==
    /\ exit = Running
    /\ KernelStep \/ \E n \in 0..PingLen : PeerSends(n)

Spec == Init /\ [][Next]_vars /\ WF_vars(exit = Running /\ KernelStep)

-----------------------------------------------------------------------------
(* Properties.                                                             *)

\* However the echo is cut into packets and delayed, and whatever else comes
\* in between, the gate fails against the mock only for want of a NIC or of
\* pages, or if some of the echo had not arrived when the last poll before the
\* timeout ended: what arrives in the idle after it is not looked at, because
\* the clock is read first (smoke.rs:24, 52-71).
EchoIsAccepted ==
    peer = "echo" /\ exit = 1 => status # "up" \/ polled < PingLen

\* "Diverges" (smoke.rs:2), with a verdict: within the timeout and one idle,
\* whatever the peer does (smoke.rs:53-55).
SmokeEnds == <>(exit # Running) /\ [](mtime <= Timeout + SlowestIdle)

=============================================================================
