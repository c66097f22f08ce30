-------------------------- MODULE MeshSessionProofs --------------------------
(***************************************************************************)
(* The WebSocket session, for every timeout, every cut of the byte stream  *)
(* and every number of messages, fragments and control frames: it          *)
(* implements the message channel, its waits are bounded, and the smoke    *)
(* gate fails only for what did not arrive.                                *)
(***************************************************************************)
EXTENDS MeshSession, SequenceTheorems, TLAPS

Controls == {"switching", "refusal", "ping", "ignored", "close"}

WireFrames == Frames \union {Control(op) : op \in Controls}

WireBytes == [of : WireFrames, half : 1..2]

SessionLabels ==
    {"upgrade", "accept", "acceptIdle", "read", "readIdle", "decode", "pong",
     "open", "closeSend", "closing", "halted"}

SessionTypeOK ==
    /\ pc \in SessionLabels
    /\ session \in BOOLEAN
    /\ {mtime, deadline, sendDeadline, began} \subseteq Nat
    /\ rxRaw \in Seq(WireBytes) /\ sock \in Seq(WireBytes) /\ wire \in Seq(WireBytes)
    /\ msgPartial \in Seq(Frames) /\ current \in Seq(Frames)
    /\ received \in Seq(Seq(Frames)) /\ sent \in Seq(Seq(Frames))
    /\ controls \in 0..MaxControls

-----------------------------------------------------------------------------
(* What the gateway has sent: messages numbered from 1, each of parts      *)
(* numbered from 1, the last of which ends it.                             *)

Streamed ==
    /\ \A n \in 1..Len(sent) : \A k \in 1..Len(sent[n]) :
          sent[n][k] = Part(n, k, k = Len(sent[n]))
    /\ \A k \in 1..Len(current) : current[k] = Part(Len(sent) + 1, k, FALSE)
    /\ Len(current) < MaxParts
    /\ Len(current) > 0 => Len(sent) < MaxMessages

\* What try_next_text has returned: a prefix of it.
Returned ==
    /\ Len(received) <= Len(sent)
    /\ \A n \in 1..Len(received) : received[n] = sent[n]

-----------------------------------------------------------------------------
(* What is between: frames queued on the wire, in the socket and in rxRaw, *)
(* however they are cut into segments.                                     *)

Live == pc \notin {"closing", "halted"}

Pending == rxRaw \o sock \o wire

Queued(fs) ==
    /\ Len(Pending) = 2 * Len(fs)
    /\ \A i \in 1..Len(fs) : Pending[2 * i - 1].of = fs[i] /\ Pending[2 * i].of = fs[i]

\* The part f has been sent.
PartSent(f) ==
    \/ f.msg \in 1..Len(sent) /\ f.part \in 1..Len(sent[f.msg]) /\ f = sent[f.msg][f.part]
    \/ f.msg = Len(sent) + 1 /\ f.part \in 1..Len(current) /\ f = current[f.part]

\* The part after f.
After(f) == IF f.fin THEN <<f.msg + 1, 1>> ELSE <<f.msg, f.part + 1>>

\* Part c[i] is the next after the first i queued frames: those of the texts
\* are the parts from the one msgPartial waits for to the last one sent.
Ordered(fs, c) ==
    /\ c[0] = <<Len(received) + 1, Len(msgPartial) + 1>>
    /\ c[Len(fs)] = <<Len(sent) + 1, Len(current) + 1>>
    /\ \A i \in 1..Len(fs) :
          IF fs[i].op = "text"
            THEN c[i - 1] = <<fs[i].msg, fs[i].part>> /\ c[i] = After(fs[i]) /\ PartSent(fs[i])
            ELSE c[i] = c[i - 1]

InOrder(fs) ==
    /\ \A k \in 1..Len(msgPartial) :
          /\ msgPartial[k].msg = Len(received) + 1 /\ msgPartial[k].part = k
          /\ PartSent(msgPartial[k])
    /\ \E c \in [0..Len(fs) -> Nat \X Nat] : Ordered(fs, c)

\* The upgrade response comes first; the mock upgrades, sends no ping, and
\* closes only when the kernel does.
Handshake(fs) ==
    /\ peer = "listening" => fs = << >> /\ sent = << >> /\ current = << >>
    /\ pc = "upgrade" => peer = "listening"
    /\ pc \in {"accept", "acceptIdle"} /\ peer # "listening" =>
          fs # << >> /\ fs[1].op \in {"switching", "refusal"}
    /\ ~session => received = << >>
    /\ pc \in {"upgrade", "accept", "acceptIdle", "readIdle"} => ~session
    /\ pc \in {"acceptIdle", "readIdle"} => Len(rxRaw) < 2
    /\ Mock => /\ \A i \in 1..Len(fs) : fs[i].op \in {"switching", "text"}
               /\ current = << >>

-----------------------------------------------------------------------------
(* How long the waits take.                                                *)

Limit(pongs) == (2 + pongs) * (Timeout + SlowestIdle)

\* p[i] bounds the pings consumed so far and among the first i queued frames.
PingsQueued(fs, p) ==
    /\ \A i, j \in 0..Len(fs) : i <= j => p[i] <= p[j]
    /\ \A i \in 1..Len(fs) : fs[i].op = "ping" => p[i - 1] < p[i]
    /\ p[Len(fs)] <= controls

\* Until there is a session: one wait for the upgrade request to be taken, one
\* for the handshake and the first message, and one for every pong.
EstablishedWithin(pongs) ==
    ~session =>
        /\ mtime <= Limit(pongs)
        /\ pc = "upgrade" => sendDeadline = Timeout /\ mtime <= Timeout + SlowestIdle
        /\ pc \in {"accept", "acceptIdle", "read", "readIdle", "decode", "pong"} =>
              deadline + SlowestIdle <= Limit(0)
        /\ pc = "pong" => sendDeadline + SlowestIdle <= Limit(pongs)

InTime(fs) == \E p \in [0..Len(fs) -> Nat] : PingsQueued(fs, p) /\ EstablishedWithin(p[0])

ClosedWithin ==
    /\ pc = "closeSend" => sendDeadline = began + Timeout /\ mtime <= sendDeadline + SlowestIdle
    /\ pc = "closing" => /\ deadline <= began + Timeout + SlowestIdle + CloseWait
                         /\ mtime <= deadline + SlowestIdle
    /\ exit = 0 => /\ pc = "halted"
                   /\ mtime <= began + Timeout + CloseWait + 2 * SlowestIdle + SlowestTail

InFlight ==
    \E fs \in Seq(WireFrames) : Queued(fs) /\ InOrder(fs) /\ Handshake(fs) /\ InTime(fs)

SessionInv ==
    /\ SessionTypeOK
    /\ Streamed
    /\ Returned
    /\ EstablishBound
    /\ ClosedWithin
    /\ SmokeFailsOnlyForPeer
    /\ exit = 1 => pc = "halted"
    /\ pc \in {"open", "closeSend", "closing"} => session
    /\ Live => InFlight

-----------------------------------------------------------------------------
(* Bytes and frames.                                                       *)

\* Frames and bytes have their types, and a frame is two bytes.
LEMMA FrameTypes ==
    /\ \A n \in 1..MaxMessages, k \in 1..MaxParts, fin \in BOOLEAN : Part(n, k, fin) \in Frames
    /\ \A op \in Controls : Control(op) \in WireFrames /\ Control(op).op = op
    /\ Frames \subseteq WireFrames
    /\ \A f \in Frames : f.op = "text" /\ f.fin \in BOOLEAN /\ f.msg \in Nat /\ f.part \in Nat
    /\ \A f \in WireFrames : f.op = "text" => f \in Frames
    /\ \A f \in WireFrames :
         /\ Bytes(f) \in Seq(WireBytes) /\ Len(Bytes(f)) = 2
         /\ Bytes(f)[1].of = f /\ Bytes(f)[2].of = f
<1>1. \A n \in 1..MaxMessages, k \in 1..MaxParts, fin \in BOOLEAN : Part(n, k, fin) \in Frames
    BY DEF Part, Frames
<1>2. \A op \in Controls : Control(op) \in WireFrames /\ Control(op).op = op
    BY DEF Control, WireFrames
<1>3. \A f \in Frames : f.op = "text" /\ f.fin \in BOOLEAN /\ f.msg \in Nat /\ f.part \in Nat
    BY SessionAssumption DEF Frames
<1>4. \A f \in WireFrames : f.op = "text" => f \in Frames
    BY DEF WireFrames, Control, Controls
<1>5. ASSUME NEW f \in WireFrames
      PROVE  /\ Bytes(f) \in Seq(WireBytes) /\ Len(Bytes(f)) = 2
             /\ Bytes(f)[1].of = f /\ Bytes(f)[2].of = f
    <2> DEFINE a == [of |-> f, half |-> 1]
    <2> DEFINE b == [of |-> f, half |-> 2]
    <2>1. a \in WireBytes /\ b \in WireBytes /\ a.of = f /\ b.of = f
        BY DEF WireBytes
    <2>2. Bytes(f) = << a, b >>
        BY DEF Bytes
    <2> HIDE DEF a, b
    <2> QED
        BY <2>1, <2>2
<1> QED
    BY <1>1, <1>2, <1>3, <1>4, <1>5 DEF WireFrames

\* rx_raw.drain(..consumed) in front of what has not been pumped yet.
LEMMA RestOfBytes ==
    ASSUME NEW a \in Seq(WireBytes), NEW b \in Seq(WireBytes), Complete(a)
    PROVE  /\ Rest(a) \in Seq(WireBytes)
           /\ Frame(a) = (a \o b)[1].of
           /\ Len(a \o b) \in Nat /\ Len(a \o b) >= 2
           /\ Len(Rest(a) \o b) = Len(a \o b) - 2
           /\ \A i \in 1..Len(a \o b) - 2 : (Rest(a) \o b)[i] = (a \o b)[i + 2]
<1>1. Len(a) \in Nat /\ Len(a) >= 2 /\ Len(b) \in Nat
    BY DEF Complete
<1>2. PICK r \in Seq(WireBytes) :
         /\ r = Rest(a) /\ Len(r) = Len(a) - 2
         /\ \A i \in 1..Len(a) - 2 : r[i] = a[i + 2]
    <2>1. PICK k \in Nat : k = Len(a) /\ k >= 2
        BY <1>1
    <2>2. \A i \in 3..k : a[i] \in WireBytes
        BY <2>1, ElementOfSeq
    <2> DEFINE t == SubSeq(a, 3, k)
    <2>3. /\ t \in Seq(WireBytes)
          /\ Len(t) = IF 3 <= k THEN k - 3 + 1 ELSE 0
          /\ \A i \in 1..k - 3 + 1 : t[i] = a[3 + i - 1]
        BY <2>2, SubSeqProperties
    <2> HIDE DEF t
    <2>4. Len(t) = k - 2
        BY <2>1, <2>3
    <2>5. \A i \in 1..k - 2 : i \in 1..k - 3 + 1 /\ 3 + i - 1 = i + 2
        OBVIOUS
    <2>6. \A i \in 1..k - 2 : t[i] = a[i + 2]
        BY <2>3, <2>5
    <2>7. t = Rest(a)
        BY <2>1 DEF Rest, t
    <2> QED
        BY <2>1, <2>3, <2>4, <2>6, <2>7
<1>3. /\ Len(a \o b) = Len(a) + Len(b)
      /\ \A i \in 1..Len(a) + Len(b) : (a \o b)[i] = IF i <= Len(a) THEN a[i] ELSE b[i - Len(a)]
    BY ConcatProperties
<1>4. /\ Len(Rest(a) \o b) = (Len(a) - 2) + Len(b)
      /\ \A i \in 1..(Len(a) - 2) + Len(b) :
            (Rest(a) \o b)[i] = IF i <= Len(a) - 2 THEN Rest(a)[i] ELSE b[i - (Len(a) - 2)]
    <2>1. /\ Len(r \o b) = Len(r) + Len(b)
          /\ \A i \in 1..Len(r) + Len(b) : (r \o b)[i] = IF i <= Len(r) THEN r[i] ELSE b[i - Len(r)]
        BY ConcatProperties
    <2> QED
        BY <1>2, <2>1
<1>5. Frame(a) = (a \o b)[1].of
    <2>1. Head(a) = a[1]
        BY <1>1
    <2>2. (a \o b)[1] = a[1]
        BY <1>1, <1>3
    <2> QED
        BY <2>1, <2>2 DEF Frame
<1>6. ASSUME NEW i \in 1..Len(a \o b) - 2 PROVE (Rest(a) \o b)[i] = (a \o b)[i + 2]
    <2>1. /\ i \in 1..(Len(a) - 2) + Len(b) /\ i + 2 \in 1..Len(a) + Len(b)
          /\ (i + 2) - Len(a) = i - (Len(a) - 2)
          /\ i <= Len(a) - 2 <=> i + 2 <= Len(a)
        BY <1>1, <1>3
    <2>2. (Rest(a) \o b)[i] = IF i <= Len(a) - 2 THEN Rest(a)[i] ELSE b[i - (Len(a) - 2)]
        BY <1>4, <2>1
    <2>3. (a \o b)[i + 2] = IF i + 2 <= Len(a) THEN a[i + 2] ELSE b[(i + 2) - Len(a)]
        BY <1>3, <2>1
    <2>4. i <= Len(a) - 2 => Rest(a)[i] = a[i + 2]
        BY <1>2
    <2> QED
        BY <2>1, <2>2, <2>3, <2>4
<1>7. Len(Rest(a) \o b) = Len(a \o b) - 2 /\ Len(a \o b) \in Nat /\ Len(a \o b) >= 2
    BY <1>1, <1>3, <1>4
<1> QED
    BY <1>2, <1>5, <1>6, <1>7

\* A frame is consumed from the front of the queue.
LEMMA QueueTail ==
    ASSUME NEW fs \in Seq(WireFrames), Queued(fs),
           NEW a \in Seq(WireBytes), NEW b \in Seq(WireBytes),
           Pending = a \o b, Complete(a), Pending' = Rest(a) \o b
    PROVE  /\ fs # << >> /\ Frame(a) = fs[1] /\ fs[1] \in WireFrames
           /\ Tail(fs) \in Seq(WireFrames) /\ Queued(Tail(fs))'
           /\ Len(fs) \in Nat \ {0} /\ Len(Tail(fs)) = Len(fs) - 1
           /\ \A i \in 1..Len(fs) - 1 : Tail(fs)[i] = fs[i + 1]
<1>1. /\ Frame(a) = Pending[1].of
      /\ Len(Pending) \in Nat /\ Len(Pending) >= 2
      /\ Len(Pending') = Len(Pending) - 2
      /\ \A i \in 1..Len(Pending) - 2 : Pending'[i] = Pending[i + 2]
    BY RestOfBytes
<1>2. /\ Len(Pending) = 2 * Len(fs) /\ Len(fs) \in Nat
      /\ \A i \in 1..Len(fs) : Pending[2 * i - 1].of = fs[i] /\ Pending[2 * i].of = fs[i]
    BY DEF Queued
<1>3. Len(fs) \in Nat \ {0} /\ fs # << >>
    BY <1>1, <1>2
<1>4. /\ Tail(fs) \in Seq(WireFrames) /\ Len(Tail(fs)) = Len(fs) - 1
      /\ \A i \in 1..Len(fs) - 1 : Tail(fs)[i] = fs[i + 1]
    BY <1>3
<1>5. Frame(a) = fs[1] /\ fs[1] \in WireFrames
    <2>1. 1 \in 1..Len(fs) /\ 2 * 1 - 1 = 1
        BY <1>3
    <2>2. Pending[2 * 1 - 1].of = fs[1]
        BY <1>2, <2>1
    <2> QED
        BY <1>1, <2>1, <2>2
<1>6. ASSUME NEW i \in 1..Len(fs) - 1
      PROVE  Pending'[2 * i - 1].of = Tail(fs)[i] /\ Pending'[2 * i].of = Tail(fs)[i]
    <2>1. /\ i + 1 \in 1..Len(fs)
          /\ 2 * i - 1 \in 1..Len(Pending) - 2 /\ 2 * i \in 1..Len(Pending) - 2
          /\ (2 * i - 1) + 2 = 2 * (i + 1) - 1 /\ (2 * i) + 2 = 2 * (i + 1)
        BY <1>2, <1>3
    <2>2. Pending[2 * (i + 1) - 1].of = fs[i + 1] /\ Pending[2 * (i + 1)].of = fs[i + 1]
        BY <1>2, <2>1
    <2>3. Pending'[2 * i - 1] = Pending[(2 * i - 1) + 2] /\ Pending'[2 * i] = Pending[(2 * i) + 2]
        BY <1>1, <2>1
    <2> QED
        BY <1>4, <2>1, <2>2, <2>3
<1>7. Len(Pending') = 2 * (Len(fs) - 1)
    BY <1>1, <1>2
<1>8. Queued(Tail(fs))'
    BY <1>4, <1>6, <1>7 DEF Queued
<1> QED
    BY <1>3, <1>4, <1>5, <1>8

\* A frame joins the queue at its end.
LEMMA QueueAppend ==
    ASSUME NEW fs \in Seq(WireFrames), Queued(fs), NEW f \in WireFrames,
           Pending \in Seq(WireBytes), Pending' = Pending \o Bytes(f)
    PROVE  /\ Append(fs, f) \in Seq(WireFrames) /\ Queued(Append(fs, f))'
           /\ Len(fs) \in Nat /\ Len(Append(fs, f)) = Len(fs) + 1
           /\ Append(fs, f)[Len(fs) + 1] = f
           /\ \A i \in 1..Len(fs) : Append(fs, f)[i] = fs[i]
<1>1. /\ Append(fs, f) \in Seq(WireFrames)
      /\ Len(fs) \in Nat /\ Len(Append(fs, f)) = Len(fs) + 1
      /\ Append(fs, f)[Len(fs) + 1] = f
      /\ \A i \in 1..Len(fs) : Append(fs, f)[i] = fs[i]
    BY AppendProperties, LenProperties
<1>2. /\ Len(Pending) = 2 * Len(fs)
      /\ \A i \in 1..Len(fs) : Pending[2 * i - 1].of = fs[i] /\ Pending[2 * i].of = fs[i]
    BY DEF Queued
<1>3. /\ Len(Pending') = Len(Pending) + 2 /\ Len(Pending) \in Nat
      /\ \A i \in 1..Len(Pending) + 2 :
            Pending'[i] = IF i <= Len(Pending) THEN Pending[i] ELSE Bytes(f)[i - Len(Pending)]
    <2>1. PICK w \in Seq(WireBytes) : w = Bytes(f) /\ Len(w) = 2
        BY FrameTypes
    <2>2. PICK q \in Seq(WireBytes) : q = Pending
        OBVIOUS
    <2>3. /\ Len(q \o w) = Len(q) + Len(w)
          /\ \A i \in 1..Len(q) + Len(w) : (q \o w)[i] = IF i <= Len(q) THEN q[i] ELSE w[i - Len(q)]
        BY ConcatProperties
    <2>4. Len(q) \in Nat
        BY LenProperties
    <2> QED
        BY <2>1, <2>2, <2>3, <2>4
<1>4. ASSUME NEW i \in 1..Len(fs)
      PROVE  Pending'[2 * i - 1].of = fs[i] /\ Pending'[2 * i].of = fs[i]
    <2>1. /\ 2 * i - 1 \in 1..Len(Pending) + 2 /\ 2 * i \in 1..Len(Pending) + 2
          /\ 2 * i - 1 <= Len(Pending) /\ 2 * i <= Len(Pending)
        BY <1>1, <1>2
    <2> QED
        BY <1>2, <1>3, <2>1
<1>5. LET i == Len(fs) + 1 IN Pending'[2 * i - 1].of = f /\ Pending'[2 * i].of = f
    <2>1. /\ 2 * (Len(fs) + 1) - 1 = Len(Pending) + 1
          /\ 2 * (Len(fs) + 1) = Len(Pending) + 2
          /\ (Len(Pending) + 1) - Len(Pending) = 1 /\ (Len(Pending) + 2) - Len(Pending) = 2
        BY <1>1, <1>2
    <2>2. Pending'[Len(Pending) + 1] = Bytes(f)[1] /\ Pending'[Len(Pending) + 2] = Bytes(f)[2]
        BY <1>3, <2>1
    <2> QED
        BY <2>1, <2>2, FrameTypes
<1>6. \A i \in 1..Len(fs) + 1 : i \in 1..Len(fs) \/ i = Len(fs) + 1
    BY <1>1
<1>7. Len(Pending') = 2 * (Len(fs) + 1)
    BY <1>1, <1>2, <1>3
<1>8. Queued(Append(fs, f))'
    BY <1>1, <1>4, <1>5, <1>6, <1>7 DEF Queued
<1> QED
    BY <1>1, <1>8

-----------------------------------------------------------------------------
(* What a step does to the queue.                                          *)

\* The bytes of two segments, one after the other.
Joined(a, b) == a \o b

\* Segments may be joined in any order: a byte moves from the wire to the socket.
LEMMA Regrouped ==
    /\ \A a, b \in Seq(WireBytes) : Joined(a, b) \in Seq(WireBytes)
    /\ \A a, b, c \in Seq(WireBytes) : Joined(Joined(a, b), c) = Joined(a, Joined(b, c))
    /\ \A r, s, h, t \in Seq(WireBytes) :
          Joined(Joined(r, Joined(s, h)), t) = Joined(Joined(r, s), Joined(h, t))
<1> DEFINE Q == Seq(WireBytes)
<1>1. \A a, b \in Q : Joined(a, b) \in Q
    BY ConcatProperties DEF Joined
<1>2. \A a, b, c \in Q : Joined(Joined(a, b), c) = Joined(a, Joined(b, c))
    BY ConcatAssociative DEF Joined
<1> HIDE DEF Q
<1>3. ASSUME NEW r \in Q, NEW s \in Q, NEW h \in Q, NEW t \in Q
      PROVE  Joined(Joined(r, Joined(s, h)), t) = Joined(Joined(r, s), Joined(h, t))
    <2>1. Joined(s, h) \in Q /\ Joined(h, t) \in Q
        BY <1>1
    <2>2. Joined(Joined(r, Joined(s, h)), t) = Joined(r, Joined(Joined(s, h), t))
        BY <1>2, <2>1
    <2>3. Joined(Joined(s, h), t) = Joined(s, Joined(h, t))
        BY <1>2
    <2>4. Joined(Joined(r, s), Joined(h, t)) = Joined(r, Joined(s, Joined(h, t)))
        BY <1>2, <2>1
    <2> QED
        BY <2>2, <2>3, <2>4
<1> QED
    BY <1>1, <1>2, <1>3 DEF Q

\* The queue is read from rxRaw, or after a pump.
LEMMA PendingFacts ==
    ASSUME SessionTypeOK
    PROVE  /\ Pending \in Seq(WireBytes) /\ Pumped \in Seq(WireBytes)
           /\ sock \o wire \in Seq(WireBytes)
           /\ Pending = Pumped \o wire /\ Pending = rxRaw \o (sock \o wire)
           /\ Len(Pending) = Len(rxRaw) + Len(sock) + Len(wire)
           /\ Len(rxRaw) \in Nat /\ Len(sock) \in Nat /\ Len(wire) \in Nat
<1>1. rxRaw \in Seq(WireBytes) /\ sock \in Seq(WireBytes) /\ wire \in Seq(WireBytes)
    BY DEF SessionTypeOK
<1>2. Pumped \in Seq(WireBytes) /\ Len(Pumped) = Len(rxRaw) + Len(sock)
    BY <1>1, ConcatProperties DEF Pumped
<1>3. Pending = Pumped \o wire
    BY DEF Pending, Pumped
<1>4. Pending = rxRaw \o (sock \o wire)
    <2>1. Joined(Joined(rxRaw, sock), wire) = Joined(rxRaw, Joined(sock, wire))
        BY <1>1, Regrouped
    <2> QED
        BY <2>1 DEF Pending, Joined
<1>5. sock \o wire \in Seq(WireBytes)
    BY <1>1, ConcatProperties
<1>6. Pending \in Seq(WireBytes) /\ Len(Pending) = Len(Pumped) + Len(wire)
    BY <1>1, <1>2, <1>3, ConcatProperties
<1> QED
    BY <1>1, <1>2, <1>3, <1>4, <1>5, <1>6, LenProperties

\* A byte that arrives, and a pump, keep the queue.
LEMMA PumpKeepsQueue ==
    ASSUME SessionTypeOK,
           \/ wire # << >> /\ rxRaw' = rxRaw /\ sock' = Append(sock, Head(wire)) /\ wire' = Tail(wire)
           \/ rxRaw' = Pumped /\ sock' = << >> /\ wire' = wire
           \/ UNCHANGED <<rxRaw, sock, wire>>
    PROVE  Pending' = Pending
<1>1. rxRaw \in Seq(WireBytes) /\ sock \in Seq(WireBytes) /\ wire \in Seq(WireBytes)
    BY DEF SessionTypeOK
<1>2. CASE wire # << >> /\ rxRaw' = rxRaw /\ sock' = Append(sock, Head(wire)) /\ wire' = Tail(wire)
    <2>1. Head(wire) \in WireBytes /\ Tail(wire) \in Seq(WireBytes)
        BY <1>1, <1>2, HeadTailProperties
    <2>2. PICK h \in Seq(WireBytes) : h = << Head(wire) >>
        <3>1. \A x \in WireBytes : << x >> \in Seq(WireBytes)
            OBVIOUS
        <3> QED
            BY <2>1, <3>1, Zenon
    <2>3. PICK t \in Seq(WireBytes) : t = Tail(wire)
        BY <2>1
    <2>4. sock' = sock \o h
        BY <1>1, <1>2, <2>1, <2>2, AppendIsConcat
    <2>5. wire = h \o t
        <3>1. Len(wire) \in Nat \ {0} /\ wire[1] = Head(wire)
            BY <1>1, <1>2
        <3>2. 1 \in 1..Len(wire) /\ Len(wire) \in 1..Len(wire) /\ 1 + 1 = 2
            BY <3>1
        <3>3. SubSeq(wire, 1, Len(wire)) = << wire[1] >> \o SubSeq(wire, 1 + 1, Len(wire))
            BY <1>1, <3>2, SubSeqRecursiveFirst
        <3>4. SubSeq(wire, 1, Len(wire)) = wire
            BY <1>1, SubSeqFull
        <3>5. Tail(wire) = SubSeq(wire, 2, Len(wire))
            BY <1>1, <1>2, TailIsSubSeq
        <3>6. SubSeq(wire, 1 + 1, Len(wire)) = Tail(wire)
            BY <3>2, <3>5
        <3> QED
            BY <2>2, <2>3, <3>1, <3>3, <3>4, <3>6, Zenon
    <2>6. rxRaw' = rxRaw /\ wire' = t
        BY <1>2, <2>3
    <2>7. Pending' = Joined(Joined(rxRaw, Joined(sock, h)), t)
        BY <2>4, <2>6 DEF Pending, Joined
    <2>8. Pending = Joined(Joined(rxRaw, sock), Joined(h, t))
        BY <2>5 DEF Pending, Joined
    <2>9. h \in Seq(WireBytes) /\ t \in Seq(WireBytes)
        OBVIOUS
    <2>10. Joined(Joined(rxRaw, Joined(sock, h)), t) = Joined(Joined(rxRaw, sock), Joined(h, t))
        BY <1>1, <2>9, Regrouped
    <2> QED
        BY <2>7, <2>8, <2>10, Zenon
<1>3. CASE rxRaw' = Pumped /\ sock' = << >> /\ wire' = wire
    <2>1. Pumped \in Seq(WireBytes)
        BY PendingFacts
    <2>2. Pumped \o << >> = Pumped
        BY <2>1, ConcatEmptySeq
    <2> QED
        BY <1>3, <2>2 DEF Pending, Pumped
<1>4. CASE UNCHANGED <<rxRaw, sock, wire>>
    BY <1>4 DEF Pending
<1> QED
    BY <1>2, <1>3, <1>4

\* The steps that neither put a frame on the wire nor consume one.
Quiet ==
    \/ SendBlocked \/ UpgradeSent \/ (Accept /\ ~Complete(Pumped)) \/ Rejected \/ Wait
    \/ CallTryNextText \/ Read \/ ReturnNone \/ PongSent
    \/ BeginClose \/ CloseSent \/ AwaitClose \/ Closed \/ Deliver

LEMMA QuietSteps ==
    ASSUME SessionTypeOK, Quiet
    PROVE  /\ UNCHANGED <<msgPartial, received, peer, opening, sent, current, controls>>
           /\ Pending' = Pending
           /\ session' = session
           /\ rxRaw' \in {rxRaw, Pumped} /\ sock' \in {sock, << >>, Append(sock, Head(wire))}
           /\ wire' \in {wire, Tail(wire)}
<1>1. CASE SendBlocked \/ Wait
    <2>1. UNCHANGED <<msgPartial, received, peer, opening, sent, current, controls, session,
                      rxRaw, sock, wire>>
        BY <1>1 DEF SendBlocked, Wait, IdleTick, Sleep, Panic, inputVars, gatewayVars
    <2> QED
        BY <2>1, PumpKeepsQueue
<1>2. CASE UpgradeSent \/ Rejected \/ CallTryNextText \/ ReturnNone \/ PongSent \/ BeginClose
           \/ CloseSent \/ AwaitClose \/ Closed
    <2>1. UNCHANGED <<msgPartial, received, peer, opening, sent, current, controls, session,
                      rxRaw, sock, wire>>
        BY <1>2 DEF UpgradeSent, Rejected, CallTryNextText, ReturnNone, PongSent, BeginClose,
           CloseSent, AwaitClose, Closed, Sleep, Panic, inputVars, gatewayVars
    <2> QED
        BY <2>1, PumpKeepsQueue
<1>3. CASE (Accept /\ ~Complete(Pumped)) \/ Read
    <2>1. /\ UNCHANGED <<msgPartial, received, peer, opening, sent, current, controls, session, wire>>
          /\ rxRaw' = Pumped /\ sock' = << >>
        BY <1>3 DEF Accept, Read, gatewayVars
    <2> QED
        BY <2>1, PumpKeepsQueue
<1>4. CASE Deliver
    <2>1. /\ UNCHANGED <<msgPartial, received, peer, opening, sent, current, controls, session, rxRaw>>
          /\ wire # << >> /\ sock' = Append(sock, Head(wire)) /\ wire' = Tail(wire)
        BY <1>4 DEF Deliver, inputVars
    <2> QED
        BY <2>1, PumpKeepsQueue
<1> QED
    BY <1>1, <1>2, <1>3, <1>4 DEF Quiet

\* The steps that consume a frame.
Consumes ==
    \/ Accept /\ Complete(Pumped)
    \/ ReadPart \/ ReadText \/ ReadPing \/ ReadOther \/ ReadClose

\* The frame they consume.
Consumed == IF pc = "accept" THEN Frame(Pumped) ELSE Frame(rxRaw)

LEMMA ConsumingSteps ==
    ASSUME SessionTypeOK, Consumes, NEW fs \in Seq(WireFrames), Queued(fs)
    PROVE  /\ UNCHANGED <<peer, opening, sent, current, controls>>
           /\ UNCHANGED <<mtime, began, wire>>
           /\ rxRaw' \in Seq(WireBytes) /\ sock' \in Seq(WireBytes)
           /\ fs # << >> /\ Consumed = fs[1] /\ fs[1] \in WireFrames
           /\ Tail(fs) \in Seq(WireFrames) /\ Queued(Tail(fs))'
           /\ Len(fs) \in Nat \ {0} /\ Len(Tail(fs)) = Len(fs) - 1
           /\ \A i \in 1..Len(fs) - 1 : Tail(fs)[i] = fs[i + 1]
<1>1. UNCHANGED <<peer, opening, sent, current, controls, mtime, began, wire>>
    BY DEF Consumes, Accept, ReadPart, ReadText, ReadPing, ReadOther, ReadClose, Reads, gatewayVars
<1>2. CASE Accept /\ Complete(Pumped)
    <2>1. pc = "accept" /\ rxRaw' = Rest(Pumped) /\ sock' = << >> /\ Consumed = Frame(Pumped)
        BY <1>2 DEF Accept, Consumed
    <2>2. /\ Pumped \in Seq(WireBytes) /\ wire \in Seq(WireBytes) /\ Pending = Pumped \o wire
        BY PendingFacts DEF SessionTypeOK
    <2>3. Rest(Pumped) \in Seq(WireBytes) /\ << >> \in Seq(WireBytes)
        BY <1>2, <2>2, RestOfBytes
    <2>4. Pending' = Rest(Pumped) \o wire
        <3>1. Rest(Pumped) \o << >> = Rest(Pumped)
            BY <2>3, ConcatEmptySeq
        <3> QED
            BY <1>1, <2>1, <3>1 DEF Pending
    <2> QED
        BY <1>1, <1>2, <2>1, <2>2, <2>3, <2>4, QueueTail
<1>3. CASE ReadPart \/ ReadText \/ ReadPing \/ ReadOther \/ ReadClose
    <2>1. /\ pc # "accept" /\ Complete(rxRaw) /\ rxRaw' = Rest(rxRaw) /\ sock' = sock
          /\ Consumed = Frame(rxRaw)
        BY <1>3 DEF ReadPart, ReadText, ReadPing, ReadOther, ReadClose, Reads, Consumed
    <2>2. /\ rxRaw \in Seq(WireBytes) /\ sock \in Seq(WireBytes) /\ wire \in Seq(WireBytes)
          /\ sock \o wire \in Seq(WireBytes) /\ Pending = rxRaw \o (sock \o wire)
        BY PendingFacts DEF SessionTypeOK
    <2>3. Rest(rxRaw) \in Seq(WireBytes)
        BY <2>1, <2>2, RestOfBytes
    <2>4. Pending' = Rest(rxRaw) \o (sock \o wire)
        <3>1. PICK r \in Seq(WireBytes) : r = Rest(rxRaw)
            BY <2>3
        <3>2. Joined(Joined(r, sock), wire) = Joined(r, Joined(sock, wire))
            BY <2>2, Regrouped
        <3>3. Pending' = Joined(Joined(r, sock), wire)
            BY <1>1, <2>1, <3>1 DEF Pending, Joined
        <3> QED
            BY <3>1, <3>2, <3>3 DEF Joined
    <2> QED
        BY <1>1, <2>1, <2>2, <2>3, <2>4, QueueTail
<1> QED
    BY <1>2, <1>3 DEF Consumes

-----------------------------------------------------------------------------
(* Types.                                                                  *)

\* The clock only moves on, and the labels are the code's.
LEMMA ClockTypes ==
    ASSUME SessionTypeOK, Next
    PROVE  /\ pc' \in SessionLabels /\ session' \in BOOLEAN
           /\ {mtime, deadline, sendDeadline, began}' \subseteq Nat
<1>1. /\ Timeout \in Nat /\ CloseWait \in Nat
      /\ \A i \in 1..SlowestIdle : i \in Nat
      /\ \A i \in 0..SlowestIdle : i \in Nat
      /\ \A i \in 0..SlowestTail : i \in Nat
    BY SessionAssumption
<1>2. /\ pc \in SessionLabels /\ session \in BOOLEAN
      /\ mtime \in Nat /\ deadline \in Nat /\ sendDeadline \in Nat /\ began \in Nat
    BY DEF SessionTypeOK
<1>3. SUFFICES /\ pc' \in SessionLabels /\ session' \in BOOLEAN
               /\ mtime' \in Nat /\ deadline' \in Nat /\ sendDeadline' \in Nat /\ began' \in Nat
    OBVIOUS
<1>4. CASE SendBlocked \/ Wait \/ AwaitClose \/ Rejected
    BY <1>1, <1>2, <1>4 DEF SendBlocked, Sending, Wait, AwaitClose, Rejected, IdleTick, Sleep,
       Panic, clockVars, SessionLabels
<1>5. CASE UpgradeSent \/ Accept \/ CallTryNextText \/ Read \/ ReturnNone \/ PongSent
           \/ BeginClose \/ CloseSent
    BY <1>1, <1>2, <1>5 DEF UpgradeSent, Accept, MessageDeadline, CallTryNextText, Read,
       ReturnNone, PongSent, BeginClose, CloseSent, clockVars, SessionLabels
<1>6. CASE ReadPart \/ ReadText \/ ReadPing \/ ReadOther \/ ReadClose
    <2>1. mtime' = mtime /\ deadline' = deadline /\ began' = began
        BY <1>6 DEF ReadPart, ReadText, ReadPing, ReadOther, ReadClose, Reads
    <2>2. sendDeadline' = sendDeadline \/ sendDeadline' = mtime + Timeout
        BY <1>6 DEF ReadPart, ReadText, ReadPing, ReadOther, ReadClose
    <2>3. pc' \in {pc, "open", "halted", "pong"} /\ session' \in {session, TRUE}
        BY <1>6 DEF ReadPart, ReadText, ReadPing, ReadOther, ReadClose
    <2>4. pc' \in SessionLabels
        BY <1>2, <2>3 DEF SessionLabels
    <2>5. session' \in BOOLEAN
        BY <1>2, <2>3, Zenon
    <2>6. mtime + Timeout \in Nat
        BY <1>1, <1>2
    <2> QED
        BY <1>2, <2>1, <2>2, <2>4, <2>5, <2>6
<1>7. CASE GatewayStep \/ Deliver
    BY <1>2, <1>7 DEF GatewayStep, GatewayUpgrade, GatewayText, GatewayControl, GatewayClose, Puts,
       Deliver, clockVars
<1>8. CASE DropFrame \/ Closed
    <2>1. /\ pc' \in SessionLabels /\ session' = session
          /\ deadline' = deadline /\ sendDeadline' = sendDeadline /\ began' = began
        BY <1>2, <1>8 DEF DropFrame, Closed, SessionLabels
    <2>2. \E i \in Nat : mtime' = mtime + i
        BY <1>1, <1>8 DEF DropFrame, Closed
    <2> QED
        BY <1>2, <2>1, <2>2
<1> QED
    BY <1>4, <1>5, <1>6, <1>7, <1>8 DEF Next, KernelStep

\* The frame a text step takes from rxRaw is one of a message.
LEMMA TextFrame ==
    ASSUME SessionTypeOK, ReadPart \/ ReadText
    PROVE  Frame(rxRaw) \in Frames
<1>1. rxRaw \in Seq(WireBytes) /\ Len(rxRaw) >= 2 /\ Frame(rxRaw).op = "text"
    BY DEF ReadPart, ReadText, Reads, Complete, SessionTypeOK
<1>2. Head(rxRaw) \in WireBytes
    BY <1>1
<1>3. Frame(rxRaw) \in WireFrames
    BY <1>2 DEF Frame, WireBytes
<1> QED
    BY <1>1, <1>3, FrameTypes

\* What is under way is made of the bytes of frames.
LEMMA ByteTypes ==
    ASSUME SessionTypeOK, Streamed, Next
    PROVE  rxRaw' \in Seq(WireBytes) /\ sock' \in Seq(WireBytes) /\ wire' \in Seq(WireBytes)
<1>1. /\ rxRaw \in Seq(WireBytes) /\ sock \in Seq(WireBytes) /\ wire \in Seq(WireBytes)
      /\ Pumped \in Seq(WireBytes) /\ << >> \in Seq(WireBytes)
    BY PendingFacts DEF SessionTypeOK
<1>2. CASE Deliver
    <2>1. Head(wire) \in WireBytes /\ Tail(wire) \in Seq(WireBytes)
        BY <1>1, <1>2, HeadTailProperties DEF Deliver
    <2>2. Append(sock, Head(wire)) \in Seq(WireBytes)
        BY <1>1, <2>1, AppendProperties
    <2> QED
        BY <1>1, <1>2, <2>1, <2>2 DEF Deliver, inputVars
<1>3. CASE KernelStep
    <2>1. Complete(rxRaw) => Rest(rxRaw) \in Seq(WireBytes)
        BY <1>1, RestOfBytes
    <2>2. Complete(Pumped) => Rest(Pumped) \in Seq(WireBytes)
        BY <1>1, RestOfBytes
    <2>3. wire' = wire /\ sock' \in {sock, << >>}
        BY <1>3 DEF KernelStep, SendBlocked, UpgradeSent, Accept, Rejected, Wait, CallTryNextText,
           Read, ReturnNone, ReadPart, ReadText, ReadPing, PongSent, ReadOther, ReadClose, Reads,
           BeginClose, CloseSent, DropFrame, AwaitClose, Closed, IdleTick, Sleep, Panic, gatewayVars
    <2>4. \/ rxRaw' \in {rxRaw, Pumped}
          \/ Complete(rxRaw) /\ rxRaw' = Rest(rxRaw)
          \/ Complete(Pumped) /\ rxRaw' = Rest(Pumped)
        BY <1>3 DEF KernelStep, SendBlocked, UpgradeSent, Accept, Rejected, Wait, CallTryNextText,
           Read, ReturnNone, ReadPart, ReadText, ReadPing, PongSent, ReadOther, ReadClose, Reads,
           BeginClose, CloseSent, DropFrame, AwaitClose, Closed, IdleTick, Sleep, Panic, inputVars
    <2> QED
        BY <1>1, <2>1, <2>2, <2>3, <2>4
<1>4. CASE GatewayStep
    <2>1. rxRaw' = rxRaw /\ sock' = sock
        BY <1>4 DEF GatewayStep, GatewayUpgrade, GatewayText, GatewayControl, GatewayClose, Puts,
           inputVars
    <2>2. \E f \in WireFrames : wire' = Bytes(f)
        <3>1. CASE GatewayUpgrade \/ GatewayControl \/ GatewayClose
            <4>1. PICK op \in Controls : wire' = Bytes(Control(op))
                BY <3>1 DEF GatewayUpgrade, GatewayControl, GatewayClose, Puts, Controls
            <4> QED
                BY <4>1, FrameTypes
        <3>2. ASSUME NEW fin \in BOOLEAN, GatewayText(fin) PROVE \E f \in WireFrames : wire' = Bytes(f)
            <4>1. wire' = Bytes(Part(Len(sent) + 1, Len(current) + 1, fin))
                BY <3>2 DEF GatewayText, Puts
            <4>2. Len(sent) + 1 \in 1..MaxMessages /\ Len(current) + 1 \in 1..MaxParts
                <5>1. Len(sent) \in Nat /\ Len(current) \in Nat
                    BY LenProperties DEF SessionTypeOK
                <5>2. Len(current) < MaxParts /\ MaxParts \in Nat /\ MaxMessages \in Nat \ {0}
                    BY SessionAssumption DEF Streamed
                <5>3. Len(sent) < MaxMessages
                    BY <3>2, <5>1, <5>2 DEF GatewayText
                <5> QED
                    BY <5>1, <5>2, <5>3
            <4> QED
                BY <4>1, <4>2, FrameTypes
        <3> QED
            BY <1>4, <3>1, <3>2 DEF GatewayStep
    <2> QED
        BY <1>1, <2>1, <2>2, FrameTypes
<1> QED
    BY <1>2, <1>3, <1>4 DEF Next

\* The steps of the gateway that complete no text fragment keep its messages,
\* and every other step does.
LEMMA TypesNext ==
    ASSUME SessionTypeOK, Streamed, Next
    PROVE  SessionTypeOK'
<1>1. msgPartial \in Seq(Frames) /\ received \in Seq(Seq(Frames))
    BY DEF SessionTypeOK
<1>2. current \in Seq(Frames) /\ sent \in Seq(Seq(Frames)) /\ controls \in 0..MaxControls
    BY DEF SessionTypeOK
<1>3. msgPartial' \in Seq(Frames) /\ received' \in Seq(Seq(Frames))
    <2>1. CASE ReadPart \/ ReadText
        <3>1. Accumulated(Frame(rxRaw)) \in Seq(Frames)
            BY <1>1, <2>1, TextFrame, AppendProperties DEF Accumulated
        <3>2. Append(received, Accumulated(Frame(rxRaw))) \in Seq(Seq(Frames))
            BY <1>1, <3>1, AppendProperties
        <3>3. << >> \in Seq(Frames)
            OBVIOUS
        <3> QED
            BY <1>1, <2>1, <3>1, <3>2, <3>3 DEF ReadPart, ReadText
    <2>2. CASE ~(ReadPart \/ ReadText)
        <3>1. msgPartial' = msgPartial /\ received' = received
            BY <2>2 DEF Next, KernelStep, SendBlocked, UpgradeSent, Accept, Rejected, Wait,
               CallTryNextText, Read, ReturnNone, ReadPing, PongSent, ReadOther, ReadClose, Reads,
               BeginClose, CloseSent, DropFrame, AwaitClose, Closed, IdleTick, Sleep, Panic,
               inputVars, GatewayStep, GatewayUpgrade, GatewayText, GatewayControl, GatewayClose,
               Puts, Deliver
        <3> QED
            BY <1>1, <3>1
    <2> QED
        BY <2>1, <2>2
<1>4. current' \in Seq(Frames) /\ sent' \in Seq(Seq(Frames)) /\ controls' \in 0..MaxControls
    <2>1. ASSUME NEW fin \in BOOLEAN, GatewayText(fin)
          PROVE  current' \in Seq(Frames) /\ sent' \in Seq(Seq(Frames)) /\ controls' = controls
        <3> DEFINE frame == Part(Len(sent) + 1, Len(current) + 1, fin)
        <3>1. Len(sent) + 1 \in 1..MaxMessages /\ Len(current) + 1 \in 1..MaxParts
            <4>1. Len(sent) \in Nat /\ Len(current) \in Nat
                BY LenProperties DEF SessionTypeOK
            <4>2. Len(current) < MaxParts /\ MaxParts \in Nat /\ MaxMessages \in Nat \ {0}
                BY SessionAssumption DEF Streamed
            <4>3. Len(sent) < MaxMessages
                BY <2>1, <4>1, <4>2 DEF GatewayText
            <4> QED
                BY <4>1, <4>2, <4>3
        <3>2. frame \in Frames
            BY <3>1, FrameTypes
        <3>3. /\ sent' = IF fin THEN Append(sent, Append(current, frame)) ELSE sent
              /\ current' = IF fin THEN << >> ELSE Append(current, frame)
              /\ controls' = controls
            BY <2>1 DEF GatewayText
        <3> HIDE DEF frame
        <3>4. Append(current, frame) \in Seq(Frames)
            BY <1>2, <3>2, AppendProperties
        <3>5. Append(sent, Append(current, frame)) \in Seq(Seq(Frames)) /\ << >> \in Seq(Frames)
            BY <1>2, <3>4, AppendProperties
        <3> QED
            BY <1>2, <3>3, <3>4, <3>5
    <2>2. CASE GatewayControl
        BY <1>2, <2>2, SessionAssumption DEF GatewayControl
    <2>3. CASE KernelStep \/ GatewayUpgrade \/ GatewayClose \/ Deliver
        <3>1. current' = current /\ sent' = sent /\ controls' = controls
            BY <2>3 DEF KernelStep, SendBlocked, UpgradeSent, Accept, Rejected, Wait,
               CallTryNextText, Read, ReturnNone, ReadPart, ReadText, ReadPing, PongSent, ReadOther,
               ReadClose, Reads, BeginClose, CloseSent, DropFrame, AwaitClose, Closed, IdleTick,
               Sleep, Panic, gatewayVars, GatewayUpgrade, GatewayClose, Deliver
        <3> QED
            BY <1>2, <3>1
    <2> QED
        BY <1>2, <2>1, <2>2, <2>3 DEF Next, GatewayStep
<1> QED
    BY <1>3, <1>4, ClockTypes, ByteTypes DEF SessionTypeOK

-----------------------------------------------------------------------------
(* What the gateway sends.                                                 *)

\* A fragment of the gateway continues its message, or ends it.
LEMMA GatewayTextSteps ==
    ASSUME SessionTypeOK, Streamed, NEW fin \in BOOLEAN, GatewayText(fin)
    PROVE  /\ Len(sent) \in Nat /\ Len(current) \in Nat
           /\ Part(Len(sent) + 1, Len(current) + 1, fin) \in Frames
           /\ wire = << >> /\ wire' = Bytes(Part(Len(sent) + 1, Len(current) + 1, fin))
           /\ ~fin => /\ sent' = sent /\ Len(current') = Len(current) + 1
                      /\ Len(current') < MaxParts
                      /\ current'[Len(current) + 1] = Part(Len(sent) + 1, Len(current) + 1, fin)
                      /\ \A k \in 1..Len(current) : current'[k] = current[k]
           /\ fin => /\ current' = << >> /\ Len(sent') = Len(sent) + 1
                     /\ \A n \in 1..Len(sent) : sent'[n] = sent[n]
                     /\ Len(sent'[Len(sent) + 1]) = Len(current) + 1
                     /\ sent'[Len(sent) + 1][Len(current) + 1]
                           = Part(Len(sent) + 1, Len(current) + 1, fin)
                     /\ \A k \in 1..Len(current) : sent'[Len(sent) + 1][k] = current[k]
           /\ Len(sent) < MaxMessages
<1> DEFINE frame == Part(Len(sent) + 1, Len(current) + 1, fin)
<1> DEFINE msg == Append(current, frame)
<1>1. Len(sent) \in Nat /\ Len(current) \in Nat /\ current \in Seq(Frames) /\ sent \in Seq(Seq(Frames))
    BY LenProperties DEF SessionTypeOK
<1>2. Len(current) < MaxParts /\ MaxParts \in Nat /\ MaxMessages \in Nat \ {0}
    BY SessionAssumption DEF Streamed
<1>3. Len(sent) < MaxMessages
    BY <1>1, <1>2 DEF GatewayText
<1>4. frame \in Frames
    <2>1. Len(sent) + 1 \in 1..MaxMessages /\ Len(current) + 1 \in 1..MaxParts
        BY <1>1, <1>2, <1>3
    <2> QED
        BY <2>1, FrameTypes
<1>5. /\ wire = << >> /\ wire' = Bytes(frame)
      /\ sent' = IF fin THEN Append(sent, msg) ELSE sent
      /\ current' = IF fin THEN << >> ELSE msg
      /\ ~fin => Len(msg) < MaxParts
    BY DEF GatewayText, Puts
<1> HIDE DEF frame
<1>6. /\ msg \in Seq(Frames) /\ Len(msg) = Len(current) + 1
      /\ msg[Len(current) + 1] = frame /\ \A k \in 1..Len(current) : msg[k] = current[k]
    BY <1>1, <1>4, AppendProperties
<1> HIDE DEF msg
<1>7. /\ Len(Append(sent, msg)) = Len(sent) + 1 /\ Append(sent, msg)[Len(sent) + 1] = msg
      /\ \A n \in 1..Len(sent) : Append(sent, msg)[n] = sent[n]
    BY <1>1, <1>6, AppendProperties
<1>8. CASE fin
    BY <1>1, <1>3, <1>4, <1>5, <1>6, <1>7, <1>8 DEF frame
<1>9. CASE ~fin
    BY <1>1, <1>3, <1>4, <1>5, <1>6, <1>9 DEF frame
<1> QED
    BY <1>8, <1>9

\* Only a text fragment changes what has been sent.
LEMMA SentUnchanged ==
    ASSUME Next, \A fin \in BOOLEAN : ~GatewayText(fin)
    PROVE  sent' = sent /\ current' = current
BY DEF Next, GatewayStep, KernelStep, SendBlocked, UpgradeSent, Accept, Rejected, Wait,
   CallTryNextText, Read, ReturnNone, ReadPart, ReadText, ReadPing, PongSent, ReadOther,
   ReadClose, Reads, BeginClose, CloseSent, DropFrame, AwaitClose, Closed, IdleTick,
   Sleep, Panic, gatewayVars, GatewayUpgrade, GatewayControl, GatewayClose, Deliver

\* Every message is numbered, and so is every part of it.
LEMMA StreamedNext ==
    ASSUME SessionTypeOK, Streamed, Next
    PROVE  Streamed'
<1>1. CASE \A fin \in BOOLEAN : ~GatewayText(fin)
    <2>1. sent' = sent /\ current' = current
        BY <1>1, SentUnchanged
    <2> QED
        BY <2>1 DEF Streamed
<1>2. ASSUME NEW fin \in BOOLEAN, GatewayText(fin) PROVE Streamed'
    <2>1. PICK n \in Nat : n = Len(sent)
        BY <1>2, GatewayTextSteps
    <2>2. PICK k \in Nat : k = Len(current)
        BY <1>2, GatewayTextSteps
    <2>3. /\ \A m \in 1..n : \A i \in 1..Len(sent[m]) : sent[m][i] = Part(m, i, i = Len(sent[m]))
          /\ \A i \in 1..k : current[i] = Part(n + 1, i, FALSE)
        BY <2>1, <2>2 DEF Streamed
    <2>4. MaxParts \in Nat /\ 0 < MaxParts
        BY SessionAssumption
    <2>5. CASE fin
        <3>1. /\ current' = << >> /\ Len(sent') = n + 1
              /\ \A m \in 1..n : sent'[m] = sent[m]
              /\ Len(sent'[n + 1]) = k + 1
              /\ sent'[n + 1][k + 1] = Part(n + 1, k + 1, fin)
              /\ \A i \in 1..k : sent'[n + 1][i] = current[i]
            BY <1>2, <2>1, <2>2, <2>5, GatewayTextSteps
        <3>2. ASSUME NEW i \in 1..Len(sent'[n + 1])
              PROVE  sent'[n + 1][i] = Part(n + 1, i, i = Len(sent'[n + 1]))
            <4>1. i \in 1..k + 1
                BY <3>1
            <4>2. CASE i = k + 1
                BY <2>5, <3>1, <4>2
            <4>3. CASE i \in 1..k
                <5>1. (i = Len(sent'[n + 1])) = FALSE
                    BY <3>1, <4>3
                <5> QED
                    BY <2>3, <3>1, <4>3, <5>1
            <4> QED
                BY <4>1, <4>2, <4>3
        <3>3. ASSUME NEW m \in 1..Len(sent'), NEW i \in 1..Len(sent'[m])
              PROVE  sent'[m][i] = Part(m, i, i = Len(sent'[m]))
            <4>1. m \in 1..n \/ m = n + 1
                BY <3>1
            <4> QED
                BY <2>3, <3>1, <3>2, <4>1
        <3>4. Len(current') = 0
            BY <3>1
        <3>5. \A i \in 1..Len(current') : FALSE
            BY <3>4
        <3> QED
            BY <2>4, <3>3, <3>4, <3>5 DEF Streamed
    <2>6. CASE ~fin
        <3>1. /\ sent' = sent /\ Len(current') = k + 1 /\ Len(current') < MaxParts
              /\ current'[k + 1] = Part(n + 1, k + 1, FALSE)
              /\ \A i \in 1..k : current'[i] = current[i]
              /\ n < MaxMessages
            <4>1. fin = FALSE
                BY <2>6
            <4> QED
                BY <1>2, <2>1, <2>2, <4>1, GatewayTextSteps
        <3>2. \A i \in 1..Len(current') : i \in 1..k \/ i = k + 1
            BY <3>1
        <3>3. \A i \in 1..Len(current') : current'[i] = Part(Len(sent') + 1, i, FALSE)
            BY <2>1, <2>3, <3>1, <3>2
        <3>4. Len(sent') < MaxMessages
            BY <2>1, <3>1
        <3> QED
            BY <3>1, <3>3, <3>4 DEF Streamed
    <2> QED
        BY <2>5, <2>6
<1> QED
    BY <1>1, <1>2

\* What has been sent stays sent.
LEMMA PartSentKept ==
    ASSUME SessionTypeOK, Streamed, Next, NEW f, PartSent(f)
    PROVE  PartSent(f)'
<1>1. CASE \A fin \in BOOLEAN : ~GatewayText(fin)
    BY <1>1, SentUnchanged DEF PartSent
<1>2. ASSUME NEW fin \in BOOLEAN, GatewayText(fin) PROVE PartSent(f)'
    <2>1. PICK n \in Nat : n = Len(sent)
        BY <1>2, GatewayTextSteps
    <2>2. PICK k \in Nat : k = Len(current)
        BY <1>2, GatewayTextSteps
    <2>3. \/ f.msg \in 1..n /\ f.part \in 1..Len(sent[f.msg]) /\ f = sent[f.msg][f.part]
          \/ f.msg = n + 1 /\ f.part \in 1..k /\ f = current[f.part]
        BY <2>1, <2>2 DEF PartSent
    <2>4. CASE fin
        <3>1. /\ Len(sent') = n + 1
              /\ \A m \in 1..n : sent'[m] = sent[m]
              /\ Len(sent'[n + 1]) = k + 1
              /\ \A i \in 1..k : sent'[n + 1][i] = current[i]
            BY <1>2, <2>1, <2>2, <2>4, GatewayTextSteps
        <3>2. /\ f.msg \in 1..n => f.msg \in 1..Len(sent')
              /\ n + 1 \in 1..Len(sent')
              /\ f.part \in 1..k => f.part \in 1..Len(sent'[n + 1])
            BY <3>1
        <3> QED
            BY <2>3, <3>1, <3>2 DEF PartSent
    <2>5. CASE ~fin
        <3>1. /\ sent' = sent /\ Len(current') = k + 1
              /\ \A i \in 1..k : current'[i] = current[i]
            BY <1>2, <2>1, <2>2, <2>5, GatewayTextSteps
        <3>2. f.part \in 1..k => f.part \in 1..Len(current')
            BY <3>1
        <3> QED
            BY <2>1, <2>3, <3>1, <3>2 DEF PartSent
    <2> QED
        BY <2>4, <2>5
<1> QED
    BY <1>1, <1>2

-----------------------------------------------------------------------------
(* The order of the parts.                                                 *)

\* A frame that joins the queue continues the order: it is no text, or it is
\* the part the gateway sends next.
LEMMA OrderAfterPut ==
    ASSUME SessionTypeOK, Streamed, Next, UNCHANGED <<received, msgPartial>>,
           NEW fs \in Seq(WireFrames), InOrder(fs),
           NEW f \in WireFrames, NEW gs \in Seq(WireFrames),
           Len(gs) = Len(fs) + 1, gs[Len(fs) + 1] = f, \A i \in 1..Len(fs) : gs[i] = fs[i],
           \/ f.op # "text" /\ sent' = sent /\ current' = current
           \/ \E fin \in BOOLEAN :
                 GatewayText(fin) /\ f = Part(Len(sent) + 1, Len(current) + 1, fin)
    PROVE  InOrder(gs)'
<1>1. PICK l \in Nat : l = Len(fs)
    BY LenProperties
<1>2. PICK c \in [0..l -> Nat \X Nat] : Ordered(fs, c)
    BY <1>1 DEF InOrder
<1>3. PICK n \in Nat : n = Len(sent)
    BY LenProperties DEF SessionTypeOK
<1>4. PICK k \in Nat : k = Len(current)
    BY LenProperties DEF SessionTypeOK
<1>5. /\ c[0] = <<Len(received) + 1, Len(msgPartial) + 1>>
      /\ c[l] = <<n + 1, k + 1>>
      /\ \A i \in 1..l :
            IF fs[i].op = "text"
              THEN c[i - 1] = <<fs[i].msg, fs[i].part>> /\ c[i] = After(fs[i]) /\ PartSent(fs[i])
              ELSE c[i] = c[i - 1]
    BY <1>1, <1>2, <1>3, <1>4 DEF Ordered
<1>6. PICK v \in Nat \X Nat :
         /\ v = <<Len(sent') + 1, Len(current') + 1>>
         /\ IF f.op = "text"
              THEN <<n + 1, k + 1>> = <<f.msg, f.part>> /\ v = After(f) /\ PartSent(f)'
              ELSE v = <<n + 1, k + 1>>
    <2>1. ASSUME f.op # "text" /\ sent' = sent /\ current' = current
          PROVE  \E v \in Nat \X Nat :
                    /\ v = <<Len(sent') + 1, Len(current') + 1>>
                    /\ f.op # "text" /\ v = <<n + 1, k + 1>>
        <3>1. <<n + 1, k + 1>> \in Nat \X Nat
            OBVIOUS
        <3> QED
            BY <1>3, <1>4, <2>1, <3>1
    <2>2. ASSUME NEW fin \in BOOLEAN, GatewayText(fin), f = Part(Len(sent) + 1, Len(current) + 1, fin)
          PROVE  \E v \in Nat \X Nat :
                    /\ v = <<Len(sent') + 1, Len(current') + 1>>
                    /\ f.op = "text" /\ <<n + 1, k + 1>> = <<f.msg, f.part>> /\ v = After(f)
                    /\ PartSent(f)'
        <3>1. f.op = "text" /\ f.msg = n + 1 /\ f.part = k + 1 /\ f.fin = fin
            BY <1>3, <1>4, <2>2 DEF Part
        <3>2. CASE fin
            <4>1. /\ current' = << >> /\ Len(sent') = n + 1
                  /\ Len(sent'[n + 1]) = k + 1 /\ sent'[n + 1][k + 1] = f
                BY <1>3, <1>4, <2>2, <3>2, GatewayTextSteps
            <4>2. After(f) = <<n + 2, 1>>
                BY <3>1, <3>2 DEF After
            <4>3. n + 1 \in 1..Len(sent') /\ k + 1 \in 1..Len(sent'[n + 1])
                BY <4>1
            <4>4. PartSent(f)'
                BY <3>1, <4>1, <4>3 DEF PartSent
            <4>5. <<Len(sent') + 1, Len(current') + 1>> = <<n + 2, 1>>
                BY <4>1
            <4>6. <<n + 2, 1>> \in Nat \X Nat
                OBVIOUS
            <4> QED
                BY <3>1, <4>2, <4>4, <4>5, <4>6
        <3>3. CASE ~fin
            <4>1. /\ sent' = sent /\ Len(current') = k + 1 /\ current'[k + 1] = f
                BY <1>3, <1>4, <2>2, <3>3, GatewayTextSteps
            <4>2. After(f) = <<n + 1, k + 2>>
                BY <3>1, <3>3 DEF After
            <4>3. k + 1 \in 1..Len(current')
                BY <4>1
            <4>4. PartSent(f)'
                BY <1>3, <3>1, <4>1, <4>3 DEF PartSent
            <4>5. <<Len(sent') + 1, Len(current') + 1>> = <<n + 1, k + 2>>
                BY <1>3, <4>1
            <4>6. <<n + 1, k + 2>> \in Nat \X Nat
                OBVIOUS
            <4> QED
                BY <3>1, <4>2, <4>4, <4>5, <4>6
        <3> QED
            BY <3>2, <3>3
    <2> QED
        BY <2>1, <2>2
<1>7. PICK d \in [0..(l + 1) -> Nat \X Nat] : d[l + 1] = v /\ \A i \in 0..l : d[i] = c[i]
    <2> DEFINE d == [i \in 0..(l + 1) |-> IF i = l + 1 THEN v ELSE c[i]]
    <2>1. \A i \in 0..(l + 1) : i = l + 1 \/ i \in 0..l
        OBVIOUS
    <2>2. l + 1 \in 0..(l + 1) /\ \A i \in 0..l : i \in 0..(l + 1) /\ i # l + 1
        OBVIOUS
    <2>3. d \in [0..(l + 1) -> Nat \X Nat]
        BY <1>2, <1>6, <2>1
    <2>4. d[l + 1] = v /\ \A i \in 0..l : d[i] = c[i]
        BY <2>2
    <2> QED
        BY <2>3, <2>4
<1>8. Len(gs) = l + 1 /\ gs[l + 1] = f /\ \A i \in 1..l : gs[i] = fs[i]
    BY <1>1
<1>9. d[0] = c[0] /\ d[l] = <<n + 1, k + 1>>
    BY <1>5, <1>7
<1>10. ASSUME NEW i \in 1..(l + 1)
       PROVE  IF gs[i].op = "text"
                THEN d[i - 1] = <<gs[i].msg, gs[i].part>> /\ d[i] = After(gs[i]) /\ PartSent(gs[i])'
                ELSE d[i] = d[i - 1]
    <2>1. CASE i = l + 1
        <3>1. i - 1 = l
            BY <2>1
        <3> QED
            BY <1>6, <1>7, <1>8, <1>9, <2>1, <3>1
    <2>2. CASE i \in 1..l
        <3>1. i \in 0..l /\ i - 1 \in 0..l
            BY <2>2
        <3>2. d[i] = c[i] /\ d[i - 1] = c[i - 1] /\ gs[i] = fs[i]
            BY <1>7, <1>8, <2>2, <3>1
        <3>3. PartSent(gs[i]) => PartSent(gs[i])'
            BY PartSentKept
        <3> QED
            BY <1>5, <2>2, <3>2, <3>3
    <2>3. i = l + 1 \/ i \in 1..l
        OBVIOUS
    <2> QED
        BY <2>1, <2>2, <2>3
<1>11. Ordered(gs, d)'
    BY <1>5, <1>6, <1>7, <1>8, <1>9, <1>10 DEF Ordered
<1>12. \A i \in 1..Len(msgPartial) : PartSent(msgPartial[i]) => PartSent(msgPartial[i])'
    BY PartSentKept
<1> QED
    BY <1>7, <1>8, <1>11, <1>12 DEF InOrder

\* The first text in the queue is the part msgPartial waits for.
LEMMA NextPart ==
    ASSUME SessionTypeOK, NEW fs \in Seq(WireFrames), Len(fs) > 0, InOrder(fs), fs[1].op = "text"
    PROVE  /\ fs[1].msg = Len(received) + 1 /\ fs[1].part = Len(msgPartial) + 1
           /\ PartSent(fs[1])
<1>1. PICK c \in [0..Len(fs) -> Nat \X Nat] : Ordered(fs, c)
    BY DEF InOrder
<1>2. 1 \in 1..Len(fs) /\ 1 - 1 = 0
    BY LenProperties
<1>3. c[0] = <<Len(received) + 1, Len(msgPartial) + 1>>
    BY <1>1 DEF Ordered
<1>4. c[1 - 1] = <<fs[1].msg, fs[1].part>> /\ PartSent(fs[1])
    BY <1>1, <1>2 DEF Ordered
<1> QED
    BY <1>2, <1>3, <1>4

\* When that part ends its message, msgPartial and it are the message sent.
LEMMA WholeMessage ==
    ASSUME SessionTypeOK, Streamed, NEW fs \in Seq(WireFrames), Len(fs) > 0, InOrder(fs),
           fs[1] \in Frames, fs[1].fin
    PROVE  /\ Len(received) + 1 \in 1..Len(sent)
           /\ Append(msgPartial, fs[1]) = sent[Len(received) + 1]
<1> DEFINE f == fs[1]
<1>1. PICK r \in Nat : r = Len(received)
    BY LenProperties DEF SessionTypeOK
<1>2. PICK p \in Nat : p = Len(msgPartial)
    BY LenProperties DEF SessionTypeOK
<1>3. PICK n \in Nat : n = Len(sent)
    BY LenProperties DEF SessionTypeOK
<1>4. f.op = "text" /\ f.fin
    BY FrameTypes
<1>5. f.msg = r + 1 /\ f.part = p + 1 /\ PartSent(f)
    BY <1>1, <1>2, <1>4, NextPart
<1>6. /\ r + 1 \in 1..n /\ p + 1 \in 1..Len(sent[r + 1]) /\ f = sent[r + 1][p + 1]
    <2>1. CASE f.msg = n + 1 /\ f.part \in 1..Len(current) /\ f = current[f.part]
        <3>1. f = Part(n + 1, f.part, FALSE)
            BY <1>3, <2>1 DEF Streamed
        <3>2. Part(n + 1, f.part, FALSE).fin = FALSE
            BY DEF Part
        <3> QED
            BY <1>4, <3>1, <3>2
    <2> QED
        BY <1>3, <1>5, <2>1 DEF PartSent
<1>7. sent[r + 1] \in Seq(Frames)
    BY <1>3, <1>6 DEF SessionTypeOK
<1>8. PICK l \in Nat : l = Len(sent[r + 1])
    BY <1>7, LenProperties
<1>9. l = p + 1
    <2>1. f = Part(r + 1, p + 1, p + 1 = l)
        BY <1>3, <1>6, <1>8 DEF Streamed
    <2>2. Part(r + 1, p + 1, p + 1 = l).fin = (p + 1 = l)
        BY DEF Part
    <2> QED
        BY <1>4, <2>1, <2>2
<1>10. ASSUME NEW k \in 1..p PROVE msgPartial[k] = sent[r + 1][k]
    <2>1. msgPartial[k].msg = r + 1 /\ msgPartial[k].part = k /\ PartSent(msgPartial[k])
        BY <1>1, <1>2 DEF InOrder
    <2>2. r + 1 # n + 1
        BY <1>6
    <2> QED
        BY <1>3, <2>1, <2>2 DEF PartSent
<1> HIDE DEF f
<1>11. msgPartial \in Seq(Frames) /\ f \in Frames
    BY DEF SessionTypeOK, f
<1>12. /\ Append(msgPartial, f) \in Seq(Frames) /\ Len(Append(msgPartial, f)) = p + 1
       /\ Append(msgPartial, f)[p + 1] = f
       /\ \A k \in 1..p : Append(msgPartial, f)[k] = msgPartial[k]
    BY <1>2, <1>11, AppendProperties
<1>13. \A k \in 1..p + 1 : k \in 1..p \/ k = p + 1
    OBVIOUS
<1>14. \A k \in 1..Len(Append(msgPartial, f)) : Append(msgPartial, f)[k] = sent[r + 1][k]
    BY <1>6, <1>10, <1>12, <1>13
<1>15. Append(msgPartial, f) = sent[r + 1]
    <2>1. PICK a \in Seq(Frames) : a = Append(msgPartial, f)
        BY <1>12
    <2>2. PICK b \in Seq(Frames) : b = sent[r + 1]
        BY <1>7
    <2>3. Len(a) = Len(b) /\ \A k \in 1..Len(a) : a[k] = b[k]
        BY <1>8, <1>9, <1>12, <1>14, <2>1, <2>2
    <2>4. a = b
        BY <2>3, SeqEqual
    <2> QED
        BY <2>1, <2>2, <2>4
<1> QED
    BY <1>1, <1>3, <1>6, <1>15 DEF f

\* What is left of the queue continues after the frame that was consumed.
LEMMA OrderAfterTake ==
    ASSUME SessionTypeOK, Streamed, UNCHANGED <<sent, current>>,
           NEW fs \in Seq(WireFrames), Len(fs) \in Nat \ {0}, fs[1] \in WireFrames, InOrder(fs),
           NEW gs \in Seq(WireFrames), Len(gs) = Len(fs) - 1,
           \A i \in 1..Len(fs) - 1 : gs[i] = fs[i + 1],
           \/ fs[1].op # "text" /\ UNCHANGED <<received, msgPartial>>
           \/ /\ fs[1].op = "text" /\ ~fs[1].fin
              /\ received' = received /\ msgPartial' = Append(msgPartial, fs[1])
           \/ /\ fs[1].op = "text" /\ fs[1].fin
              /\ received' = Append(received, Append(msgPartial, fs[1])) /\ msgPartial' = << >>
    PROVE  InOrder(gs)'
<1>1. PICK l \in Nat : l = Len(gs) /\ l + 1 = Len(fs)
    BY LenProperties
<1>2. PICK c \in [0..(l + 1) -> Nat \X Nat] : Ordered(fs, c)
    BY <1>1 DEF InOrder
<1>3. PICK d \in [0..l -> Nat \X Nat] : \A i \in 0..l : d[i] = c[i + 1]
    <2> DEFINE d == [i \in 0..l |-> c[i + 1]]
    <2>1. \A i \in 0..l : i + 1 \in 0..(l + 1)
        OBVIOUS
    <2>2. d \in [0..l -> Nat \X Nat]
        BY <1>2, <2>1
    <2> QED
        BY <2>2
<1>4. PICK r \in Nat : r = Len(received)
    BY LenProperties DEF SessionTypeOK
<1>5. PICK p \in Nat : p = Len(msgPartial)
    BY LenProperties DEF SessionTypeOK
<1>6. /\ c[0] = <<r + 1, p + 1>>
      /\ c[l + 1] = <<Len(sent') + 1, Len(current') + 1>>
      /\ \A i \in 1..(l + 1) :
            IF fs[i].op = "text"
              THEN c[i - 1] = <<fs[i].msg, fs[i].part>> /\ c[i] = After(fs[i]) /\ PartSent(fs[i])
              ELSE c[i] = c[i - 1]
    BY <1>1, <1>2, <1>4, <1>5 DEF Ordered
<1>7. \A f : PartSent(f)' <=> PartSent(f)
    BY DEF PartSent
<1>8. \A i \in 1..l :
         IF gs[i].op = "text"
           THEN d[i - 1] = <<gs[i].msg, gs[i].part>> /\ d[i] = After(gs[i]) /\ PartSent(gs[i])'
           ELSE d[i] = d[i - 1]
    <2> SUFFICES ASSUME NEW i \in 1..l
                 PROVE  IF gs[i].op = "text"
                          THEN /\ d[i - 1] = <<gs[i].msg, gs[i].part>> /\ d[i] = After(gs[i])
                               /\ PartSent(gs[i])'
                          ELSE d[i] = d[i - 1]
        OBVIOUS
    <2>1. i \in 0..l /\ i - 1 \in 0..l /\ (i - 1) + 1 = i /\ i + 1 \in 1..(l + 1) /\ (i + 1) - 1 = i
        OBVIOUS
    <2>2. PICK j \in 1..(l + 1) : j = i + 1 /\ j - 1 = i /\ (i - 1) + 1 = i
        BY <2>1
    <2>3. d[i] = c[j] /\ gs[i] = fs[j]
        BY <1>1, <1>3, <2>1, <2>2
    <2>4. d[i - 1] = c[j - 1]
        <3>1. d[i - 1] = c[(i - 1) + 1]
            BY <1>3, <2>1
        <3> QED
            BY <2>2, <3>1
    <2>5. IF fs[j].op = "text"
            THEN c[j - 1] = <<fs[j].msg, fs[j].part>> /\ c[j] = After(fs[j]) /\ PartSent(fs[j])
            ELSE c[j] = c[j - 1]
        BY <1>6
    <2>6. PartSent(gs[i])' <=> PartSent(gs[i])
        BY <1>7
    <2> QED
        BY <2>3, <2>4, <2>5, <2>6
<1>9. d[l] = <<Len(sent') + 1, Len(current') + 1>>
    <2>1. l \in 0..l
        OBVIOUS
    <2>2. d[l] = c[l + 1]
        BY <1>3, <2>1
    <2> QED
        BY <1>6, <2>2
<1>10. d[0] = c[1]
    <2>1. 0 \in 0..l /\ 0 + 1 = 1
        OBVIOUS
    <2> QED
        BY <1>3, <2>1
<1>11. IF fs[1].op = "text"
         THEN c[0] = <<fs[1].msg, fs[1].part>> /\ c[1] = After(fs[1]) /\ PartSent(fs[1])
         ELSE c[1] = c[0]
    <2>1. 1 \in 1..(l + 1) /\ 1 - 1 = 0
        OBVIOUS
    <2> QED
        BY <1>6, <2>1
<1>12. SUFFICES
         /\ d[0] = <<Len(received') + 1, Len(msgPartial') + 1>>
         /\ \A k \in 1..Len(msgPartial') :
               /\ msgPartial'[k].msg = Len(received') + 1 /\ msgPartial'[k].part = k
               /\ PartSent(msgPartial'[k])
    <2>1. ASSUME d[0] = <<Len(received') + 1, Len(msgPartial') + 1>>
          PROVE  Ordered(gs, d)'
        BY <1>1, <1>8, <1>9, <2>1 DEF Ordered
    <2>2. ASSUME \A k \in 1..Len(msgPartial') :
                    /\ msgPartial'[k].msg = Len(received') + 1 /\ msgPartial'[k].part = k
                    /\ PartSent(msgPartial'[k]),
                 Ordered(gs, d)'
          PROVE  InOrder(gs)'
        BY <1>1, <1>3, <1>7, <2>2 DEF InOrder
    <2> QED
        BY <2>1, <2>2
<1>13. \A k \in 1..p : msgPartial[k].msg = r + 1 /\ msgPartial[k].part = k /\ PartSent(msgPartial[k])
    BY <1>4, <1>5 DEF InOrder
<1>14. CASE fs[1].op # "text" /\ UNCHANGED <<received, msgPartial>>
    BY <1>4, <1>5, <1>6, <1>10, <1>11, <1>13, <1>14
<1>15. ASSUME fs[1].op = "text"
       PROVE  /\ fs[1] \in Frames /\ fs[1].msg = r + 1 /\ fs[1].part = p + 1
              /\ PartSent(fs[1]) /\ d[0] = After(fs[1])
    <2>1. Len(fs) > 0
        BY <1>1
    <2>2. fs[1].msg = r + 1 /\ fs[1].part = p + 1 /\ PartSent(fs[1])
        BY <1>4, <1>5, <1>15, <2>1, NextPart
    <2>3. fs[1] \in Frames
        BY <1>15, FrameTypes
    <2> QED
        BY <1>10, <1>11, <1>15, <2>2, <2>3
<1>16. CASE /\ fs[1].op = "text" /\ ~fs[1].fin
            /\ received' = received /\ msgPartial' = Append(msgPartial, fs[1])
    <2>1. d[0] = <<r + 1, (p + 1) + 1>>
        BY <1>15, <1>16 DEF After
    <2>2. /\ Len(msgPartial') = p + 1 /\ msgPartial'[p + 1] = fs[1]
          /\ \A k \in 1..p : msgPartial'[k] = msgPartial[k]
        <3>1. msgPartial \in Seq(Frames)
            BY DEF SessionTypeOK
        <3> QED
            BY <1>5, <1>15, <1>16, <3>1, AppendProperties
    <2>3. \A k \in 1..(p + 1) : k \in 1..p \/ k = p + 1
        OBVIOUS
    <2> QED
        BY <1>4, <1>13, <1>15, <1>16, <2>1, <2>2, <2>3
<1>17. CASE /\ fs[1].op = "text" /\ fs[1].fin
            /\ received' = Append(received, Append(msgPartial, fs[1])) /\ msgPartial' = << >>
    <2>1. d[0] = <<(r + 1) + 1, 1>>
        BY <1>15, <1>17 DEF After
    <2>2. Len(received') = r + 1
        <3>1. received \in Seq(Seq(Frames)) /\ msgPartial \in Seq(Frames)
            BY DEF SessionTypeOK
        <3>2. Append(msgPartial, fs[1]) \in Seq(Frames)
            BY <1>15, <1>17, <3>1, AppendProperties
        <3> QED
            BY <1>4, <1>17, <3>1, <3>2, AppendProperties
    <2>3. Len(msgPartial') = 0
        BY <1>17
    <2> QED
        BY <2>1, <2>2, <2>3
<1> QED
    BY <1>14, <1>16, <1>17

-----------------------------------------------------------------------------
(* The clock.                                                              *)

\* The arithmetic of waits.
LEMMA LimitFacts ==
    /\ Timeout \in Nat /\ SlowestIdle \in Nat /\ CloseWait \in Nat /\ MaxControls \in Nat
    /\ \A a \in Nat : Limit(a) \in Nat
    /\ Limit(0) = (Timeout + SlowestIdle) + (Timeout + SlowestIdle)
    /\ \A a, b \in Nat : a <= b => Limit(a) <= Limit(b)
    /\ \A a, b \in Nat : a < b => Limit(a) + (Timeout + SlowestIdle) <= Limit(b)
<1>1. Timeout \in Nat /\ SlowestIdle \in Nat /\ CloseWait \in Nat /\ MaxControls \in Nat
    BY SessionAssumption
<1> DEFINE k == Timeout + SlowestIdle
<1>2. k \in Nat
    BY <1>1
<1>3. \A a : Limit(a) = (2 + a) * k
    BY DEF Limit
<1> HIDE DEF k
<1>4. \A a \in Nat : (2 + a) * k \in Nat
    BY <1>2
<1>5. (2 + 0) * k = k + k
    BY <1>2
<1>6. \A n \in Nat : n * k \in Nat
    BY <1>2
<1>7. ASSUME NEW a \in Nat, NEW b \in Nat, a <= b PROVE (2 + a) * k <= (2 + b) * k
    <2>1. b - a \in Nat /\ 2 + b = (2 + a) + (b - a)
        BY <1>7
    <2>2. (b - a) * k \in Nat
        BY <1>6, <2>1
    <2>3. (2 + b) * k = (2 + a) * k + (b - a) * k
        BY <1>2, <2>1
    <2> QED
        BY <1>4, <2>2, <2>3
<1>8. ASSUME NEW a \in Nat, NEW b \in Nat, a < b PROVE (2 + a) * k + k <= (2 + b) * k
    <2>1. a + 1 \in Nat /\ a + 1 <= b
        BY <1>8
    <2>2. (2 + (a + 1)) * k <= (2 + b) * k
        BY <1>7, <2>1
    <2>3. (2 + (a + 1)) * k = (2 + a) * k + k
        BY <1>2
    <2> QED
        BY <2>2, <2>3
<1> QED
    BY <1>1, <1>3, <1>4, <1>5, <1>7, <1>8 DEF k

\* The wait for the session does not outlast what its deadlines allow.
LEMMA EstablishedNext ==
    ASSUME SessionTypeOK, Next, NEW a \in Nat, NEW b \in Nat, a <= b, ReadPing => a < b,
           EstablishedWithin(a),
           pc \in {"open", "closeSend", "closing"} => session
    PROVE  EstablishedWithin(b)'
<1>1. /\ Timeout \in Nat /\ SlowestIdle \in Nat
      /\ Limit(a) \in Nat /\ Limit(b) \in Nat /\ Limit(0) \in Nat
      /\ Limit(0) <= Limit(a) /\ Limit(a) <= Limit(b)
      /\ Limit(0) = (Timeout + SlowestIdle) + (Timeout + SlowestIdle)
      /\ ReadPing => Limit(a) + (Timeout + SlowestIdle) <= Limit(b)
    BY LimitFacts
<1>2. SUFFICES ASSUME ~session'
               PROVE  /\ mtime' <= Limit(b)
                      /\ pc' = "upgrade" =>
                            sendDeadline' = Timeout /\ mtime' <= Timeout + SlowestIdle
                      /\ pc' \in {"accept", "acceptIdle", "read", "readIdle", "decode", "pong"} =>
                            deadline' + SlowestIdle <= Limit(0)
                      /\ pc' = "pong" => sendDeadline' + SlowestIdle <= Limit(b)
    BY DEF EstablishedWithin, Limit
<1>3. ~session
    BY <1>2 DEF Next, KernelStep, SendBlocked, UpgradeSent, Accept, Rejected, Wait,
       CallTryNextText, Read, ReturnNone, ReadPart, ReadText, ReadPing, PongSent, ReadOther,
       ReadClose, BeginClose, CloseSent, DropFrame, AwaitClose, Closed, IdleTick, Sleep, Panic,
       GatewayStep, GatewayUpgrade, GatewayText, GatewayControl, GatewayClose, Puts, Deliver
<1>4. /\ mtime \in Nat /\ deadline \in Nat /\ sendDeadline \in Nat
      /\ mtime <= Limit(a)
      /\ pc = "upgrade" => sendDeadline = Timeout /\ mtime <= Timeout + SlowestIdle
      /\ pc \in {"accept", "acceptIdle", "read", "readIdle", "decode", "pong"} =>
            deadline + SlowestIdle <= Limit(0)
      /\ pc = "pong" => sendDeadline + SlowestIdle <= Limit(a)
      /\ pc \notin {"open", "closeSend", "closing"}
    BY <1>3 DEF SessionTypeOK, EstablishedWithin
<1>5. ASSUME NEW limit \in Nat, NEW label, IdleTick(limit, label)
      PROVE  /\ deadline' = deadline /\ sendDeadline' = sendDeadline
             /\ \/ pc' = "halted" /\ mtime' = mtime
                \/ pc' = label /\ mtime' \in Nat /\ mtime' <= limit + SlowestIdle
    <2>1. CASE mtime > limit /\ Panic
        BY <2>1 DEF Panic, clockVars
    <2>2. CASE mtime <= limit /\ Sleep(label)
        BY <1>1, <1>4, <2>2 DEF Sleep
    <2> QED
        BY <1>5, <2>1, <2>2 DEF IdleTick
<1>6. CASE SendBlocked
    <2>1. pc \in {"upgrade", "pong"} /\ IdleTick(sendDeadline, pc)
        BY <1>4, <1>6 DEF SendBlocked, Sending
    <2>2. /\ deadline' = deadline /\ sendDeadline' = sendDeadline
          /\ \/ pc' = "halted" /\ mtime' = mtime
             \/ pc' = pc /\ mtime' \in Nat /\ mtime' <= sendDeadline + SlowestIdle
        BY <1>4, <1>5, <2>1
    <2> QED
        BY <1>1, <1>4, <2>1, <2>2
<1>7. CASE Wait
    <2>1. PICK label \in {"accept", "read"} :
             pc \in {"acceptIdle", "readIdle"} /\ IdleTick(deadline, label)
        BY <1>7 DEF Wait
    <2>2. /\ deadline' = deadline /\ sendDeadline' = sendDeadline
          /\ \/ pc' = "halted" /\ mtime' = mtime
             \/ pc' = label /\ mtime' \in Nat /\ mtime' <= deadline + SlowestIdle
        BY <1>4, <1>5, <2>1
    <2> QED
        BY <1>1, <1>4, <2>1, <2>2
<1>8. CASE UpgradeSent
    <2>1. pc = "upgrade" /\ pc' = "accept" /\ deadline' = mtime + Timeout /\ mtime' = mtime
        BY <1>8 DEF UpgradeSent
    <2> QED
        BY <1>1, <1>4, <2>1
<1>9. CASE ReadPing
    <2>1. /\ pc = "decode" /\ pc' = "pong" /\ sendDeadline' = mtime + Timeout
          /\ mtime' = mtime /\ deadline' = deadline
        BY <1>9 DEF ReadPing, Reads
    <2> QED
        BY <1>1, <1>4, <1>9, <2>1
<1>10. ASSUME mtime' = mtime, deadline' = deadline, sendDeadline' = sendDeadline,
              \/ pc' = pc \/ pc' \in {"open", "halted"}
              \/ /\ pc \in {"accept", "acceptIdle", "read", "readIdle", "decode", "pong"}
                 /\ pc' \in {"acceptIdle", "read", "readIdle", "decode"}
       PROVE  /\ mtime' <= Limit(b)
              /\ pc' = "upgrade" =>
                    sendDeadline' = Timeout /\ mtime' <= Timeout + SlowestIdle
              /\ pc' \in {"accept", "acceptIdle", "read", "readIdle", "decode", "pong"} =>
                    deadline' + SlowestIdle <= Limit(0)
              /\ pc' = "pong" => sendDeadline' + SlowestIdle <= Limit(b)
    BY <1>1, <1>4, <1>10
<1>11. CASE \/ Accept \/ Rejected \/ Read \/ ReturnNone \/ ReadPart \/ ReadText \/ PongSent
            \/ ReadOther \/ ReadClose
    <2>1. mtime' = mtime /\ deadline' = deadline /\ sendDeadline' = sendDeadline
        BY <1>11 DEF Accept, MessageDeadline, Rejected, Panic, Read, ReturnNone, ReadPart, ReadText,
           PongSent, ReadOther, ReadClose, Reads, clockVars
    <2>2. \/ pc' = pc \/ pc' \in {"open", "halted"}
          \/ /\ pc \in {"accept", "acceptIdle", "read", "readIdle", "decode", "pong"}
             /\ pc' \in {"acceptIdle", "read", "readIdle", "decode"}
        BY <1>11 DEF Accept, Rejected, Panic, Read, ReturnNone, ReadPart, ReadText,
           PongSent, ReadOther, ReadClose, Reads
    <2> QED
        BY <1>10, <2>1, <2>2
<1>12. CASE GatewayStep \/ Deliver
    <2>1. mtime' = mtime /\ deadline' = deadline /\ sendDeadline' = sendDeadline /\ pc' = pc
        BY <1>12 DEF GatewayStep, GatewayUpgrade, GatewayText, GatewayControl, GatewayClose, Puts,
           Deliver, clockVars
    <2> QED
        BY <1>10, <2>1
<1>13. CASE CallTryNextText \/ BeginClose \/ CloseSent \/ DropFrame \/ AwaitClose \/ Closed
    BY <1>4, <1>13 DEF CallTryNextText, BeginClose, CloseSent, DropFrame, AwaitClose, Closed
<1> QED
    BY <1>6, <1>7, <1>8, <1>9, <1>11, <1>12, <1>13 DEF Next, KernelStep

\* Nor does the close.
LEMMA ClosedNext ==
    ASSUME SessionTypeOK, Next, ClosedWithin
    PROVE  ClosedWithin'
<1>1. /\ mtime \in Nat /\ deadline \in Nat /\ sendDeadline \in Nat /\ began \in Nat
      /\ Timeout \in Nat /\ SlowestIdle \in Nat /\ CloseWait \in Nat /\ SlowestTail \in Nat
    BY LimitFacts, SessionAssumption DEF SessionTypeOK
<1>2. /\ pc = "closeSend" => sendDeadline = began + Timeout /\ mtime <= sendDeadline + SlowestIdle
      /\ pc = "closing" => /\ deadline <= began + Timeout + SlowestIdle + CloseWait
                           /\ mtime <= deadline + SlowestIdle
    BY DEF ClosedWithin
<1>3. ~Closed => exit' # 0
    <2>1. exit # 0
        BY DEF Next, ClosedWithin
    <2>2. ~Closed => exit' \in {exit, 1}
        BY DEF Next, KernelStep, SendBlocked, UpgradeSent, Accept, Rejected, Wait,
           CallTryNextText, Read, ReturnNone, ReadPart, ReadText, ReadPing, PongSent, ReadOther,
           ReadClose, BeginClose, CloseSent, DropFrame, AwaitClose, IdleTick, Sleep, Panic,
           GatewayStep, GatewayUpgrade, GatewayText, GatewayControl, GatewayClose, Puts, Deliver
    <2> QED
        BY <2>1, <2>2
<1>4. CASE Closed
    <2>1. /\ pc = "closing" /\ pc' = "halted" /\ began' = began
          /\ \E tail \in 0..SlowestTail : mtime' = mtime + tail
        BY <1>4 DEF Closed
    <2> QED
        BY <1>1, <1>2, <2>1 DEF ClosedWithin
<1>5. CASE SendBlocked
    <2>1. \/ pc' = "halted"
          \/ /\ pc' = pc /\ mtime <= sendDeadline
             /\ \E idle \in 1..SlowestIdle : mtime' = mtime + idle
             /\ deadline' = deadline /\ sendDeadline' = sendDeadline /\ began' = began
        BY <1>5 DEF SendBlocked, IdleTick, Sleep, Panic
    <2>2. pc \in {"upgrade", "pong", "closeSend"} /\ exit' # 0
        BY <1>3, <1>5 DEF SendBlocked, Sending, Closed
    <2> QED
        BY <1>1, <1>2, <2>1, <2>2 DEF ClosedWithin
<1>6. CASE DropFrame \/ AwaitClose
    <2>1. /\ pc = "closing" /\ pc' = "closing" /\ mtime < deadline /\ exit' # 0
          /\ \E work \in 0..SlowestIdle : mtime' = mtime + work
          /\ deadline' = deadline /\ began' = began
        <3>1. /\ pc = "closing" /\ pc' = "closing" /\ mtime < deadline
              /\ deadline' = deadline /\ began' = began
            BY <1>1, <1>6 DEF DropFrame, AwaitClose, CloseExpired, Sleep
        <3>2. exit' # 0
            BY <1>3, <3>1 DEF Closed
        <3>3. CASE DropFrame
            BY <3>1, <3>2, <3>3 DEF DropFrame
        <3>4. CASE AwaitClose
            <4>1. PICK idle \in 1..SlowestIdle : mtime' = mtime + idle
                BY <3>4 DEF AwaitClose, Sleep
            <4>2. idle \in 0..SlowestIdle
                BY <1>1
            <4> QED
                BY <3>1, <3>2, <4>1, <4>2
        <3> QED
            BY <1>6, <3>3, <3>4
    <2> QED
        BY <1>1, <1>2, <2>1 DEF ClosedWithin
<1>7. CASE BeginClose
    <2>1. pc' = "closeSend" /\ sendDeadline' = mtime + Timeout /\ began' = mtime /\ mtime' = mtime
        BY <1>7 DEF BeginClose
    <2> QED
        BY <1>1, <1>3, <2>1 DEF ClosedWithin, Closed
<1>8. CASE CloseSent
    <2>1. /\ pc = "closeSend" /\ pc' = "closing" /\ deadline' = mtime + CloseWait
          /\ mtime' = mtime /\ began' = began
        BY <1>8 DEF CloseSent
    <2> QED
        BY <1>1, <1>2, <1>3, <2>1 DEF ClosedWithin, Closed
<1>9. CASE Wait
    <2>1. pc' \in {"halted", "accept", "read"} /\ pc # "closing"
        BY <1>9 DEF Wait, IdleTick, Sleep, Panic
    <2> QED
        BY <1>3, <2>1 DEF ClosedWithin, Closed
<1>10. CASE \/ UpgradeSent \/ Accept \/ Rejected \/ CallTryNextText \/ Read \/ ReturnNone
            \/ ReadPart \/ ReadText \/ ReadPing \/ PongSent \/ ReadOther \/ ReadClose
    <2>1. pc' \notin {"closeSend", "closing"} /\ pc # "closing"
        BY <1>10 DEF UpgradeSent, Accept, Rejected, Panic, CallTryNextText, Read, ReturnNone,
           ReadPart, ReadText, ReadPing, PongSent, ReadOther, ReadClose, Reads
    <2> QED
        BY <1>3, <2>1 DEF ClosedWithin, Closed
<1>11. CASE GatewayStep \/ Deliver
    <2>1. UNCHANGED <<pc, mtime, deadline, sendDeadline, began, exit>>
        BY <1>11 DEF GatewayStep, GatewayUpgrade, GatewayText, GatewayControl,
           GatewayClose, Puts, Deliver, clockVars
    <2> QED
        BY <2>1 DEF ClosedWithin
<1> QED
    BY <1>4, <1>5, <1>6, <1>7, <1>8, <1>9, <1>10, <1>11 DEF Next, KernelStep

-----------------------------------------------------------------------------
(* The pings.                                                              *)

\* A ping that joins the queue is one more control frame.
LEMMA PingsAfterPut ==
    ASSUME SessionTypeOK, NEW fs \in Seq(WireFrames), NEW p \in [0..Len(fs) -> Nat],
           PingsQueued(fs, p),
           NEW f \in WireFrames, NEW gs \in Seq(WireFrames),
           Len(gs) = Len(fs) + 1, gs[Len(fs) + 1] = f, \A i \in 1..Len(fs) : gs[i] = fs[i],
           \/ f.op # "ping" /\ controls' = controls
           \/ controls' = controls + 1
    PROVE  \E q \in [0..Len(gs) -> Nat] : q[0] = p[0] /\ PingsQueued(gs, q)'
<1>1. PICK l \in Nat : l = Len(fs)
    BY LenProperties
<1>2. PICK n \in Nat : n = controls'
    BY DEF SessionTypeOK
<1>3. p \in [0..l -> Nat] /\ controls \in Nat
    BY <1>1 DEF SessionTypeOK
<1>4. /\ \A i, j \in 0..l : i <= j => p[i] <= p[j]
      /\ \A i \in 1..l : fs[i].op = "ping" => p[i - 1] < p[i]
      /\ p[l] <= controls
    BY <1>1 DEF PingsQueued
<1>5. PICK q \in [0..(l + 1) -> Nat] : q[l + 1] = n /\ \A i \in 0..l : q[i] = p[i]
    <2> DEFINE q == [i \in 0..(l + 1) |-> IF i = l + 1 THEN n ELSE p[i]]
    <2>1. \A i \in 0..(l + 1) : i = l + 1 \/ i \in 0..l
        OBVIOUS
    <2>2. l + 1 \in 0..(l + 1) /\ \A i \in 0..l : i \in 0..(l + 1) /\ i # l + 1
        OBVIOUS
    <2>3. q \in [0..(l + 1) -> Nat]
        BY <1>3, <2>1
    <2>4. q[l + 1] = n /\ \A i \in 0..l : q[i] = p[i]
        BY <2>2
    <2> QED
        BY <2>3, <2>4
<1>6. p[l] <= n /\ (f.op = "ping" => p[l] < n)
    <2>1. p[l] \in Nat
        BY <1>3
    <2> QED
        BY <1>2, <1>3, <1>4, <2>1
<1>7. ASSUME NEW i \in 0..(l + 1), NEW j \in 0..(l + 1), i <= j PROVE q[i] <= q[j]
    <2>1. CASE j \in 0..l
        <3>1. i \in 0..l
            BY <1>7, <2>1
        <3> QED
            BY <1>4, <1>5, <1>7, <2>1, <3>1
    <2>2. CASE j = l + 1 /\ i \in 0..l
        <3>1. q[i] = p[i] /\ p[i] <= p[l] /\ p[i] \in Nat /\ p[l] \in Nat
            BY <1>3, <1>4, <1>5, <2>2
        <3> QED
            BY <1>5, <1>6, <2>2, <3>1
    <2>3. CASE j = l + 1 /\ i = l + 1
        BY <1>5, <2>3
    <2> QED
        BY <2>1, <2>2, <2>3
<1>8. ASSUME NEW i \in 1..(l + 1), gs[i].op = "ping" PROVE q[i - 1] < q[i]
    <2>1. CASE i \in 1..l
        <3>1. i \in 0..l /\ i - 1 \in 0..l
            BY <2>1
        <3>2. q[i] = p[i] /\ q[i - 1] = p[i - 1] /\ gs[i] = fs[i]
            BY <1>1, <1>5, <2>1, <3>1
        <3> QED
            BY <1>4, <1>8, <2>1, <3>2
    <2>2. CASE i = l + 1
        <3>1. i - 1 = l /\ gs[i] = f
            BY <1>1, <2>2
        <3>2. q[l] = p[l]
            BY <1>5
        <3> QED
            BY <1>5, <1>6, <1>8, <2>2, <3>1, <3>2
    <2>3. i \in 1..l \/ i = l + 1
        OBVIOUS
    <2> QED
        BY <2>1, <2>2, <2>3
<1>9. Len(gs) = l + 1
    BY <1>1
<1>10. q[Len(gs)] <= controls'
    BY <1>2, <1>5, <1>9
<1>11. PingsQueued(gs, q)'
    BY <1>7, <1>8, <1>9, <1>10 DEF PingsQueued
<1>12. q[0] = p[0]
    BY <1>5
<1> QED
    BY <1>5, <1>9, <1>11, <1>12

\* A frame that is consumed leaves the bound to the next, which is greater
\* for a ping.
LEMMA PingsAfterTake ==
    ASSUME SessionTypeOK, NEW fs \in Seq(WireFrames), NEW p \in [0..Len(fs) -> Nat],
           PingsQueued(fs, p), Len(fs) \in Nat \ {0},
           NEW gs \in Seq(WireFrames), Len(gs) = Len(fs) - 1,
           \A i \in 1..Len(fs) - 1 : gs[i] = fs[i + 1],
           controls' = controls
    PROVE  \E q \in [0..Len(gs) -> Nat] :
              /\ p[0] <= q[0] /\ (fs[1].op = "ping" => p[0] < q[0])
              /\ PingsQueued(gs, q)'
<1>1. PICK l \in Nat : l = Len(gs) /\ l + 1 = Len(fs)
    BY LenProperties
<1>2. p \in [0..(l + 1) -> Nat]
    BY <1>1
<1>3. /\ \A i, j \in 0..(l + 1) : i <= j => p[i] <= p[j]
      /\ \A i \in 1..(l + 1) : fs[i].op = "ping" => p[i - 1] < p[i]
      /\ p[l + 1] <= controls
    BY <1>1 DEF PingsQueued
<1>4. PICK q \in [0..l -> Nat] : \A i \in 0..l : q[i] = p[i + 1]
    <2> DEFINE q == [i \in 0..l |-> p[i + 1]]
    <2>1. \A i \in 0..l : i + 1 \in 0..(l + 1)
        OBVIOUS
    <2>2. q \in [0..l -> Nat]
        BY <1>2, <2>1
    <2> QED
        BY <2>2
<1>5. ASSUME NEW i \in 0..l, NEW j \in 0..l, i <= j PROVE q[i] <= q[j]
    <2>1. i + 1 \in 0..(l + 1) /\ j + 1 \in 0..(l + 1) /\ i + 1 <= j + 1
        BY <1>5
    <2> QED
        BY <1>3, <1>4, <2>1
<1>6. ASSUME NEW i \in 1..l, gs[i].op = "ping" PROVE q[i - 1] < q[i]
    <2>1. /\ i \in 0..l /\ i - 1 \in 0..l /\ (i - 1) + 1 = i
          /\ i + 1 \in 1..(l + 1) /\ (i + 1) - 1 = i
        OBVIOUS
    <2>2. q[i] = p[i + 1] /\ q[i - 1] = p[(i - 1) + 1]
        BY <1>4, <2>1
    <2>3. gs[i] = fs[i + 1]
        BY <1>1
    <2> QED
        BY <1>3, <1>6, <2>1, <2>2, <2>3
<1>7. q[l] <= controls'
    BY <1>3, <1>4
<1>8. PingsQueued(gs, q)'
    BY <1>1, <1>5, <1>6, <1>7 DEF PingsQueued
<1>9. p[0] <= q[0] /\ (fs[1].op = "ping" => p[0] < q[0])
    <2>1. /\ 0 \in 0..l /\ 0 + 1 = 1 /\ 1 \in 1..(l + 1) /\ 1 - 1 = 0
          /\ 0 \in 0..(l + 1) /\ 1 \in 0..(l + 1)
        OBVIOUS
    <2>2. q[0] = p[1]
        BY <1>4, <2>1
    <2> QED
        BY <1>3, <2>1, <2>2
<1> QED
    BY <1>1, <1>4, <1>8, <1>9

-----------------------------------------------------------------------------
(* What is in flight.                                                      *)

\* A step that neither sends nor consumes a frame keeps the queue.
LEMMA InFlightQuiet ==
    ASSUME SessionTypeOK, Next, Quiet, Live, InFlight, Live',
           pc \in {"open", "closeSend", "closing"} => session
    PROVE  InFlight'
<1>1. PICK fs \in Seq(WireFrames) : Queued(fs) /\ InOrder(fs) /\ Handshake(fs) /\ InTime(fs)
    BY DEF InFlight
<1>2. /\ msgPartial' = msgPartial /\ received' = received /\ peer' = peer /\ opening' = opening
      /\ sent' = sent /\ current' = current /\ controls' = controls
      /\ Pending' = Pending /\ session' = session
    BY QuietSteps
<1>3. Queued(fs)'
    BY <1>1, <1>2 DEF Queued
<1>4. InOrder(fs)'
    <2>1. \A f : PartSent(f)' <=> PartSent(f)
        BY <1>2 DEF PartSent
    <2>2. \A c : Ordered(fs, c) => Ordered(fs, c)'
        BY <1>2, <2>1 DEF Ordered
    <2> QED
        BY <1>1, <1>2, <2>1, <2>2 DEF InOrder
<1>5. InTime(fs)'
    <2>1. PICK p \in [0..Len(fs) -> Nat] : PingsQueued(fs, p) /\ EstablishedWithin(p[0])
        BY <1>1 DEF InTime
    <2>2. p[0] \in Nat
        BY <2>1, LenProperties
    <2>4. ~ReadPing
        <3>1. ReadPing => pc = "decode" /\ pc' = "pong"
            BY DEF ReadPing, Reads
        <3>2. Quiet => pc # "decode" \/ pc' # "pong"
            BY DEF Quiet, SendBlocked, Sending, UpgradeSent, Accept, Rejected, Wait, IdleTick, Sleep,
               Panic, CallTryNextText, Read, ReturnNone, PongSent, BeginClose, CloseSent,
               AwaitClose, Closed, Deliver
        <3> QED
            BY <3>1, <3>2
    <2>5. p[0] <= p[0]
        BY <2>2
    <2>6. EstablishedWithin(p[0])'
        BY <2>1, <2>2, <2>4, <2>5, EstablishedNext
    <2>7. PingsQueued(fs, p)'
        BY <1>2, <2>1 DEF PingsQueued
    <2> QED
        BY <2>1, <2>6, <2>7 DEF InTime
<1>6. Handshake(fs)'
    <2>1. /\ peer = "listening" => fs = << >> /\ sent = << >> /\ current = << >>
          /\ pc = "upgrade" => peer = "listening"
          /\ pc \in {"accept", "acceptIdle"} /\ peer # "listening" =>
                fs # << >> /\ fs[1].op \in {"switching", "refusal"}
          /\ ~session => received = << >>
          /\ pc \in {"upgrade", "accept", "acceptIdle", "readIdle"} => ~session
          /\ pc \in {"acceptIdle", "readIdle"} => Len(rxRaw) < 2
          /\ Mock => /\ \A i \in 1..Len(fs) : fs[i].op \in {"switching", "text"}
                     /\ current = << >>
        BY <1>1 DEF Handshake
    <2>2. pc' = "upgrade" => pc = "upgrade"
        BY DEF Quiet, SendBlocked, UpgradeSent, Accept, Rejected, Wait, IdleTick, Sleep,
           Panic, CallTryNextText, Read, ReturnNone, PongSent, BeginClose, CloseSent,
           AwaitClose, Closed, Deliver
    <2>3. pc' \in {"accept", "acceptIdle"} => pc \in {"upgrade", "accept", "acceptIdle"}
        BY DEF Quiet, SendBlocked, Sending, UpgradeSent, Accept, Rejected, Wait, IdleTick, Sleep,
           Panic, CallTryNextText, Read, ReturnNone, PongSent, BeginClose, CloseSent,
           AwaitClose, Closed, Deliver
    <2>4. pc' = "readIdle" => pc = "decode" /\ ~session
        BY DEF Quiet, SendBlocked, Sending, UpgradeSent, Accept, Rejected, Wait, IdleTick, Sleep,
           Panic, CallTryNextText, Read, ReturnNone, PongSent, BeginClose, CloseSent,
           AwaitClose, Closed, Deliver
    <2>5. pc' \in {"acceptIdle", "readIdle"} => Len(rxRaw') < 2
        <3>1. CASE Accept /\ ~Complete(Pumped)
            <4>1. rxRaw' = Pumped /\ Len(Pumped) \in Nat
                BY <3>1, PendingFacts, LenProperties DEF Accept
            <4> QED
                BY <3>1, <4>1 DEF Complete
        <3>2. CASE ReturnNone
            <4>1. rxRaw' = rxRaw /\ Len(rxRaw) \in Nat /\ ~Complete(rxRaw)
                BY <3>2, PendingFacts DEF ReturnNone, inputVars
            <4> QED
                BY <4>1 DEF Complete
        <3>3. CASE \/ SendBlocked \/ UpgradeSent \/ Rejected \/ Wait \/ CallTryNextText \/ Read
                   \/ PongSent \/ BeginClose \/ CloseSent \/ AwaitClose \/ Closed \/ Deliver
            BY <3>3 DEF SendBlocked, Sending, UpgradeSent, Rejected, Wait, IdleTick, Sleep,
               Panic, CallTryNextText, Read, PongSent, BeginClose, CloseSent,
               AwaitClose, Closed, Deliver
        <3> QED
            BY <3>1, <3>2, <3>3 DEF Quiet
    <2>6. Mock' = Mock
        BY <1>2 DEF Mock
    <2>7. pc' \in {"accept", "acceptIdle"} /\ peer # "listening" => pc \in {"accept", "acceptIdle"}
        BY <2>1, <2>3
    <2>8. pc' \in {"upgrade", "accept", "acceptIdle", "readIdle"} => ~session
        BY <2>1, <2>2, <2>3, <2>4
    <2> QED
        BY <1>2, <2>1, <2>2, <2>5, <2>6, <2>7, <2>8 DEF Handshake
<1> QED
    BY <1>1, <1>3, <1>4, <1>5, <1>6 DEF InFlight

\* The frame a step consumes, and what becomes of it.
LEMMA ConsumedFrame ==
    ASSUME SessionTypeOK, Consumes
    PROVE  /\ \/ Consumed.op # "text" /\ UNCHANGED <<received, msgPartial>>
              \/ /\ Consumed.op = "text" /\ ~Consumed.fin
                 /\ received' = received /\ msgPartial' = Append(msgPartial, Consumed)
              \/ /\ Consumed.op = "text" /\ Consumed.fin /\ ReadText
                 /\ received' = Append(received, Append(msgPartial, Consumed)) /\ msgPartial' = << >>
           /\ ReadPing => Consumed.op = "ping"
           /\ ReadClose => Consumed.op = "close"
           /\ ReadText => Consumed = Frame(rxRaw) /\ Consumed.fin
           /\ pc' \in {"read", "decode", "open", "halted", "pong"}
<1>1. CASE Accept /\ Complete(Pumped)
    <2>1. /\ Consumed.op = "switching" /\ UNCHANGED <<received, msgPartial>>
          /\ pc' = "read" /\ pc = "accept"
        BY <1>1 DEF Accept, Consumed
    <2>2. ~ReadPing /\ ~ReadClose /\ ~ReadText
        BY <2>1 DEF ReadPing, ReadClose, ReadText, Reads
    <2> QED
        BY <2>1, <2>2
<1>2. CASE ReadPart
    <2>1. /\ pc = "decode" /\ pc' = "decode" /\ Consumed = Frame(rxRaw)
          /\ Consumed.op = "text" /\ ~Consumed.fin
          /\ received' = received /\ msgPartial' = Append(msgPartial, Consumed)
        BY <1>2 DEF ReadPart, Reads, Consumed, Accumulated
    <2>2. ~ReadPing /\ ~ReadClose /\ ~ReadText
        BY <2>1 DEF ReadPing, ReadClose, ReadText, Reads
    <2> QED
        BY <2>1, <2>2
<1>3. CASE ReadText
    <2>1. /\ pc = "decode" /\ pc' \in {"open", "halted"} /\ Consumed = Frame(rxRaw)
          /\ Consumed.op = "text" /\ Consumed.fin /\ msgPartial' = << >>
          /\ received' = Append(received, Append(msgPartial, Consumed))
        BY <1>3 DEF ReadText, Reads, Consumed, Accumulated
    <2>2. ~ReadPing /\ ~ReadClose
        BY <2>1 DEF ReadPing, ReadClose, Reads, Consumed
    <2> QED
        BY <1>3, <2>1, <2>2
<1>4. CASE ReadPing \/ ReadOther \/ ReadClose
    <2>1. /\ pc = "decode" /\ pc' \in {"pong", "decode", "halted"} /\ Consumed = Frame(rxRaw)
          /\ Consumed.op \in {"ping", "ignored", "close"} /\ UNCHANGED <<received, msgPartial>>
        BY <1>4 DEF ReadPing, ReadOther, ReadClose, Reads, Consumed
    <2>2. /\ ReadPing => Consumed.op = "ping"
          /\ ReadClose => Consumed.op = "close"
          /\ ~ReadText
        BY <2>1 DEF ReadPing, ReadClose, ReadText, Reads, Consumed
    <2> QED
        BY <2>1, <2>2
<1> QED
    BY <1>1, <1>2, <1>3, <1>4 DEF Consumes

\* A step that consumes a frame leaves the rest of the queue.
LEMMA InFlightTake ==
    ASSUME SessionTypeOK, Streamed, Next, Consumes, InFlight, Live',
           pc \in {"open", "closeSend", "closing"} => session
    PROVE  InFlight'
<1>1. PICK fs \in Seq(WireFrames) : Queued(fs) /\ InOrder(fs) /\ Handshake(fs) /\ InTime(fs)
    BY DEF InFlight
<1>2. PICK gs \in Seq(WireFrames) :
         /\ gs = Tail(fs) /\ Queued(gs)' /\ Len(gs) = Len(fs) - 1 /\ Len(fs) \in Nat \ {0}
         /\ \A i \in 1..Len(fs) - 1 : gs[i] = fs[i + 1]
    BY <1>1, ConsumingSteps
<1>3. /\ UNCHANGED <<peer, opening, sent, current, controls>>
      /\ fs # << >> /\ Consumed = fs[1] /\ fs[1] \in WireFrames
    BY <1>1, ConsumingSteps
<1>4. \/ fs[1].op # "text" /\ UNCHANGED <<received, msgPartial>>
      \/ /\ fs[1].op = "text" /\ ~fs[1].fin
         /\ received' = received /\ msgPartial' = Append(msgPartial, fs[1])
      \/ /\ fs[1].op = "text" /\ fs[1].fin
         /\ received' = Append(received, Append(msgPartial, fs[1])) /\ msgPartial' = << >>
    BY <1>3, ConsumedFrame
<1>5. InOrder(gs)'
    BY <1>1, <1>2, <1>3, <1>4, OrderAfterTake
<1>6. InTime(gs)'
    <2>1. PICK p \in [0..Len(fs) -> Nat] : PingsQueued(fs, p) /\ EstablishedWithin(p[0])
        BY <1>1 DEF InTime
    <2>2. PICK q \in [0..Len(gs) -> Nat] :
             /\ p[0] <= q[0] /\ (fs[1].op = "ping" => p[0] < q[0])
             /\ PingsQueued(gs, q)'
        BY <1>2, <1>3, <2>1, PingsAfterTake
    <2>3. p[0] \in Nat /\ q[0] \in Nat
        BY <1>2, <2>1, <2>2
    <2>4. ReadPing => p[0] < q[0]
        BY <1>3, <2>2, ConsumedFrame
    <2>5. EstablishedWithin(q[0])'
        BY <2>1, <2>2, <2>3, <2>4, EstablishedNext
    <2> QED
        BY <2>2, <2>5 DEF InTime
<1>7. Handshake(gs)'
    <2>1. /\ peer = "listening" => fs = << >>
          /\ ~session => received = << >>
          /\ Mock => /\ \A i \in 1..Len(fs) : fs[i].op \in {"switching", "text"}
                     /\ current = << >>
        BY <1>1 DEF Handshake
    <2>2. peer' # "listening"
        BY <1>3, <2>1
    <2>3. pc' \in {"read", "decode", "open", "pong"}
        BY ConsumedFrame DEF Live
    <2>4. ~session' => received' = << >>
        <3>1. CASE ReadText
            BY <2>3, <3>1 DEF ReadText
        <3>2. CASE ~ReadText
            <4>1. session' = session /\ received' = received
                BY <3>2 DEF Consumes, Accept, ReadPart, ReadPing, ReadOther, ReadClose
            <4> QED
                BY <2>1, <4>1
        <3> QED
            BY <3>1, <3>2
    <2>5. Mock' => /\ \A i \in 1..Len(gs) : gs[i].op \in {"switching", "text"}
                   /\ current' = << >>
        <3>1. \A i \in 1..Len(gs) : i + 1 \in 1..Len(fs) /\ gs[i] = fs[i + 1]
            BY <1>2
        <3> QED
            BY <1>3, <2>1, <3>1 DEF Mock
    <2> QED
        BY <2>2, <2>3, <2>4, <2>5 DEF Handshake
<1> QED
    BY <1>2, <1>5, <1>6, <1>7 DEF InFlight

\* The frame the gateway puts on the wire.
LEMMA PuttingSteps ==
    ASSUME SessionTypeOK, Streamed, GatewayStep
    PROVE  /\ UNCHANGED <<pc, session, exit, clockVars, inputVars, sock, opening>>
           /\ \E f \in WireFrames :
                 /\ Pending' = Pending \o Bytes(f)
                 /\ \/ /\ f.op \in {"switching", "refusal"} /\ (Mock => f.op = "switching")
                       /\ pc # "upgrade" /\ peer = "listening" /\ peer' = "upgraded"
                       /\ UNCHANGED <<sent, current, controls>>
                    \/ /\ f.op \in {"ping", "ignored"} /\ ~Mock /\ controls' = controls + 1
                       /\ peer = "upgraded" /\ peer' = "upgraded" /\ UNCHANGED <<sent, current>>
                    \/ /\ f.op = "close" /\ (Mock => pc = "closing")
                       /\ peer = "upgraded" /\ peer' = "closed"
                       /\ UNCHANGED <<sent, current, controls>>
                    \/ /\ f.op = "text" /\ (Mock => current' = << >>)
                       /\ peer = "upgraded" /\ peer' = "upgraded" /\ controls' = controls
                       /\ \E fin \in BOOLEAN :
                             /\ GatewayText(fin)
                             /\ f = Part(Len(sent) + 1, Len(current) + 1, fin)
<1>1. UNCHANGED <<pc, session, exit, clockVars, inputVars, sock, opening>>
    BY DEF GatewayStep, GatewayUpgrade, GatewayText, GatewayControl, GatewayClose, Puts
<1>2. ASSUME NEW f \in WireFrames, wire = << >>, wire' = Bytes(f)
      PROVE  Pending' = Pending \o Bytes(f)
    <2>1. rxRaw' = rxRaw /\ sock' = sock
        BY <1>1 DEF inputVars
    <2>2. rxRaw \o sock \in Seq(WireBytes)
        BY PendingFacts DEF Pumped
    <2>3. (rxRaw \o sock) \o << >> = rxRaw \o sock
        BY <2>2, ConcatEmptySeq
    <2> QED
        BY <1>2, <2>1, <2>3 DEF Pending
<1>3. \A op \in Controls : Control(op) \in WireFrames /\ Control(op).op = op
    BY FrameTypes
<1>4. CASE GatewayUpgrade
    <2>1. PICK op \in {"switching", "refusal"} : (Mock => op = "switching") /\ Puts(Control(op))
        BY <1>4 DEF GatewayUpgrade
    <2>2. Control(op) \in WireFrames /\ Control(op).op = op
        BY <1>3, <2>1 DEF Controls
    <2>3. Pending' = Pending \o Bytes(Control(op))
        BY <1>2, <2>1, <2>2 DEF Puts
    <2>4. /\ pc # "upgrade" /\ peer = "listening" /\ peer' = "upgraded"
          /\ UNCHANGED <<sent, current, controls>>
        BY <1>4 DEF GatewayUpgrade
    <2> QED
        BY <1>1, <2>1, <2>2, <2>3, <2>4
<1>5. CASE GatewayControl
    <2>1. PICK op \in {"ping", "ignored"} : Puts(Control(op))
        BY <1>5 DEF GatewayControl
    <2>2. Control(op) \in WireFrames /\ Control(op).op = op
        BY <1>3, <2>1 DEF Controls
    <2>3. Pending' = Pending \o Bytes(Control(op))
        BY <1>2, <2>1, <2>2 DEF Puts
    <2>4. /\ ~Mock /\ controls' = controls + 1
          /\ peer = "upgraded" /\ peer' = "upgraded" /\ UNCHANGED <<sent, current>>
        BY <1>5 DEF GatewayControl
    <2> QED
        BY <1>1, <2>1, <2>2, <2>3, <2>4
<1>6. CASE GatewayClose
    <2>1. Control("close") \in WireFrames /\ Control("close").op = "close"
        BY <1>3 DEF Controls
    <2>2. Pending' = Pending \o Bytes(Control("close"))
        BY <1>2, <1>6, <2>1 DEF GatewayClose, Puts
    <2>3. /\ Mock => pc = "closing"
          /\ peer = "upgraded" /\ peer' = "closed" /\ UNCHANGED <<sent, current, controls>>
        BY <1>6 DEF GatewayClose
    <2> QED
        BY <1>1, <2>1, <2>2, <2>3
<1>7. ASSUME NEW fin \in BOOLEAN, GatewayText(fin)
      PROVE  \E f \in WireFrames :
                /\ Pending' = Pending \o Bytes(f)
                /\ f.op = "text" /\ (Mock => current' = << >>)
                /\ peer = "upgraded" /\ peer' = "upgraded" /\ controls' = controls
                /\ GatewayText(fin) /\ f = Part(Len(sent) + 1, Len(current) + 1, fin)
    <2> DEFINE f == Part(Len(sent) + 1, Len(current) + 1, fin)
    <2>1. f \in WireFrames /\ wire = << >> /\ wire' = Bytes(f) /\ f.op = "text"
        BY <1>7, GatewayTextSteps, FrameTypes
    <2>2. /\ Mock => current' = << >>
          /\ peer = "upgraded" /\ peer' = "upgraded" /\ controls' = controls
        BY <1>7 DEF GatewayText
    <2> HIDE DEF f
    <2>3. Pending' = Pending \o Bytes(f)
        BY <1>2, <2>1
    <2> QED
        BY <1>7, <2>1, <2>2, <2>3 DEF f
<1> QED
    BY <1>1, <1>4, <1>5, <1>6, <1>7 DEF GatewayStep

\* A frame of the gateway joins the queue.
LEMMA InFlightPut ==
    ASSUME SessionTypeOK, Streamed, Next, GatewayStep, Live, InFlight,
           pc \in {"open", "closeSend", "closing"} => session
    PROVE  InFlight'
<1>1. PICK fs \in Seq(WireFrames) : Queued(fs) /\ InOrder(fs) /\ Handshake(fs) /\ InTime(fs)
    BY DEF InFlight
<1>2. UNCHANGED <<pc, session, exit, clockVars, inputVars, sock, opening>>
    BY PuttingSteps
<1>3. PICK f \in WireFrames :
         /\ Pending' = Pending \o Bytes(f)
         /\ \/ /\ f.op \in {"switching", "refusal"} /\ (Mock => f.op = "switching")
               /\ pc # "upgrade" /\ peer = "listening" /\ peer' = "upgraded"
               /\ UNCHANGED <<sent, current, controls>>
            \/ /\ f.op \in {"ping", "ignored"} /\ ~Mock /\ controls' = controls + 1
               /\ peer = "upgraded" /\ peer' = "upgraded" /\ UNCHANGED <<sent, current>>
            \/ /\ f.op = "close" /\ (Mock => pc = "closing")
               /\ peer = "upgraded" /\ peer' = "closed"
               /\ UNCHANGED <<sent, current, controls>>
            \/ /\ f.op = "text" /\ (Mock => current' = << >>)
               /\ peer = "upgraded" /\ peer' = "upgraded" /\ controls' = controls
               /\ \E fin \in BOOLEAN :
                     /\ GatewayText(fin)
                     /\ f = Part(Len(sent) + 1, Len(current) + 1, fin)
    BY PuttingSteps
<1>4. PICK gs \in Seq(WireFrames) :
         /\ gs = Append(fs, f) /\ Queued(gs)' /\ Len(fs) \in Nat /\ Len(gs) = Len(fs) + 1
         /\ gs[Len(fs) + 1] = f /\ \A i \in 1..Len(fs) : gs[i] = fs[i]
    <2>1. Pending \in Seq(WireBytes)
        BY PendingFacts
    <2> QED
        BY <1>1, <1>3, <2>1, QueueAppend
<1>5. InOrder(gs)'
    <2>1. received' = received /\ msgPartial' = msgPartial
        BY <1>2 DEF inputVars
    <2>2. \/ f.op # "text" /\ sent' = sent /\ current' = current
          \/ \E fin \in BOOLEAN :
                GatewayText(fin) /\ f = Part(Len(sent) + 1, Len(current) + 1, fin)
        BY <1>3
    <2> QED
        BY <1>1, <1>4, <2>1, <2>2, OrderAfterPut
<1>6. InTime(gs)'
    <2>1. PICK p \in [0..Len(fs) -> Nat] : PingsQueued(fs, p) /\ EstablishedWithin(p[0])
        BY <1>1 DEF InTime
    <2>2. \/ f.op # "ping" /\ controls' = controls
          \/ controls' = controls + 1
        BY <1>3
    <2>3. PICK q \in [0..Len(gs) -> Nat] : q[0] = p[0] /\ PingsQueued(gs, q)'
        BY <1>4, <2>1, <2>2, PingsAfterPut
    <2>4. p[0] \in Nat /\ p[0] <= p[0]
        BY <1>4, <2>1
    <2>5. ~ReadPing
        <3>1. ReadPing => pc = "decode" /\ pc' = "pong"
            BY DEF ReadPing, Reads
        <3> QED
            BY <1>2, <3>1
    <2>6. EstablishedWithin(p[0])'
        BY <2>1, <2>4, <2>5, EstablishedNext
    <2> QED
        BY <2>3, <2>6 DEF InTime
<1>7. Handshake(gs)'
    <2>1. /\ peer = "listening" => fs = << >>
          /\ pc = "upgrade" => peer = "listening"
          /\ pc \in {"accept", "acceptIdle"} /\ peer # "listening" =>
                fs # << >> /\ fs[1].op \in {"switching", "refusal"}
          /\ ~session => received = << >>
          /\ pc \in {"upgrade", "accept", "acceptIdle", "readIdle"} => ~session
          /\ pc \in {"acceptIdle", "readIdle"} => Len(rxRaw) < 2
          /\ Mock => /\ \A i \in 1..Len(fs) : fs[i].op \in {"switching", "text"}
                     /\ current = << >>
        BY <1>1 DEF Handshake
    <2>2. peer' # "listening" /\ pc # "upgrade"
        BY <1>3, <2>1
    <2>3. pc \in {"accept", "acceptIdle"} => gs # << >> /\ gs[1].op \in {"switching", "refusal"}
        <3> HAVE pc \in {"accept", "acceptIdle"}
        <3>1. CASE peer = "listening"
            <4>1. Len(fs) = 0
                BY <2>1, <3>1
            <4>2. gs[1] = f /\ Len(gs) = 1
                BY <1>4, <4>1
            <4>3. gs # << >>
                BY <4>2
            <4> QED
                BY <1>3, <3>1, <4>2, <4>3
        <3>2. CASE peer # "listening"
            <4>1. fs # << >> /\ fs[1].op \in {"switching", "refusal"}
                BY <2>1, <3>2
            <4>2. 1 \in 1..Len(fs)
                BY <1>4, <4>1
            <4>3. gs[1] = fs[1] /\ Len(gs) > 0
                BY <1>4, <4>2
            <4>4. gs # << >>
                BY <4>3
            <4> QED
                BY <4>1, <4>3, <4>4
        <3> QED
            BY <3>1, <3>2
    <2>4. Mock => /\ \A i \in 1..Len(gs) : gs[i].op \in {"switching", "text"}
                  /\ current' = << >>
        <3> HAVE Mock
        <3>1. f.op \in {"switching", "text"} /\ current' = << >>
            BY <1>3, <2>1 DEF Live
        <3>2. \A i \in 1..Len(gs) : i \in 1..Len(fs) \/ i = Len(fs) + 1
            BY <1>4
        <3> QED
            BY <1>4, <2>1, <3>1, <3>2
    <2>5. Mock' = Mock
        BY <1>2 DEF Mock
    <2>6. UNCHANGED <<pc, session, received, rxRaw>>
        BY <1>2 DEF inputVars
    <2> QED
        BY <2>1, <2>2, <2>3, <2>4, <2>5, <2>6 DEF Handshake
<1> QED
    BY <1>4, <1>5, <1>6, <1>7 DEF InFlight

-----------------------------------------------------------------------------
(* What the kernel has received, and why it exits.                         *)

\* try_next_text returns the next message the gateway sent, whole.
LEMMA ReturnedNext ==
    ASSUME SessionTypeOK, Streamed, Next, Returned, Live => InFlight
    PROVE  /\ Returned'
           /\ ReadText => /\ Len(received) + 1 \in 1..Len(sent)
                          /\ Accumulated(Frame(rxRaw)) = sent[Len(received) + 1]
<1>1. PICK r \in Nat : r = Len(received)
    BY LenProperties DEF SessionTypeOK
<1>2. PICK n \in Nat : n = Len(sent)
    BY LenProperties DEF SessionTypeOK
<1>3. r <= n /\ \A m \in 1..r : received[m] = sent[m]
    BY <1>1, <1>2 DEF Returned
<1>4. ASSUME ReadText
      PROVE  r + 1 \in 1..n /\ Accumulated(Frame(rxRaw)) = sent[r + 1] /\ sent' = sent
    <2>1. Consumes /\ Live
        BY <1>4 DEF Consumes, ReadText, Reads, Live
    <2>2. PICK fs \in Seq(WireFrames) : Queued(fs) /\ InOrder(fs)
        BY <2>1 DEF InFlight
    <2>3. fs[1] = Frame(rxRaw) /\ fs[1].fin /\ Len(fs) > 0 /\ sent' = sent
        BY <1>4, <2>1, <2>2, ConsumingSteps, ConsumedFrame
    <2>4. Frame(rxRaw) \in Frames
        BY <1>4, TextFrame
    <2> QED
        BY <1>1, <1>2, <2>2, <2>3, <2>4, WholeMessage DEF Accumulated
<1>5. CASE ReadText
    <2>1. received' = Append(received, sent[r + 1]) /\ sent' = sent /\ r + 1 \in 1..n
        BY <1>4, <1>5 DEF ReadText
    <2>2. received \in Seq(Seq(Frames)) /\ sent[r + 1] \in Seq(Frames)
        BY <1>2, <2>1 DEF SessionTypeOK
    <2>3. /\ Len(received') = r + 1 /\ received'[r + 1] = sent[r + 1]
          /\ \A m \in 1..r : received'[m] = received[m]
        BY <1>1, <2>1, <2>2, AppendProperties
    <2>4. \A m \in 1..r + 1 : m \in 1..r \/ m = r + 1
        OBVIOUS
    <2>5. r + 1 <= n
        BY <2>1
    <2>6. Returned'
        BY <1>2, <1>3, <2>1, <2>3, <2>4, <2>5 DEF Returned
    <2> QED
        BY <1>1, <1>2, <1>4, <1>5, <2>6
<1>6. CASE ~ReadText
    <2>1. received' = received
        BY <1>6 DEF Next, KernelStep, SendBlocked, UpgradeSent, Accept, Rejected, Wait,
           CallTryNextText, Read, ReturnNone, ReadPart, ReadPing, PongSent, ReadOther, ReadClose,
           Reads, BeginClose, CloseSent, DropFrame, AwaitClose, Closed, IdleTick, Sleep, Panic,
           inputVars, GatewayStep, GatewayUpgrade, GatewayText, GatewayControl, GatewayClose,
           Puts, Deliver
    <2>2. Len(sent') \in Nat /\ n <= Len(sent') /\ \A m \in 1..n : sent'[m] = sent[m]
        <3>1. CASE \A fin \in BOOLEAN : ~GatewayText(fin)
            BY <1>2, <3>1, SentUnchanged
        <3>2. ASSUME NEW fin \in BOOLEAN, GatewayText(fin)
              PROVE  Len(sent') \in Nat /\ n <= Len(sent') /\ \A m \in 1..n : sent'[m] = sent[m]
            <4>1. CASE fin
                <5>1. Len(sent') = n + 1
                    BY <1>2, <3>2, <4>1, GatewayTextSteps
                <5>2. \A m \in 1..n : sent'[m] = sent[m]
                    BY <1>2, <3>2, <4>1, GatewayTextSteps
                <5> QED
                    BY <5>1, <5>2
            <4>2. CASE ~fin
                BY <1>2, <3>2, <4>2, GatewayTextSteps
            <4> QED
                BY <4>1, <4>2
        <3> QED
            BY <3>1, <3>2
    <2>3. Returned'
        <3>1. \A m \in 1..r : m \in 1..n
            BY <1>3
        <3>2. r <= Len(sent')
            BY <1>3, <2>2
        <3> QED
            BY <1>1, <1>3, <2>1, <2>2, <3>1, <3>2 DEF Returned
    <2> QED
        BY <1>6, <2>3
<1> QED
    BY <1>5, <1>6

\* The smoke gate fails only for what has not arrived.
LEMMA SmokeNext ==
    ASSUME SessionTypeOK, Streamed, Next, Returned, Live => InFlight,
           exit = 1 => pc = "halted", SmokeFailsOnlyForPeer
    PROVE  SmokeFailsOnlyForPeer'
<1>1. SUFFICES ASSUME Mock', exit' = 1
               PROVE  sent' = << >> \/ wire' # << >> \/ sock' # << >>
    BY DEF SmokeFailsOnlyForPeer, Mock
<1>2. exit # 1 /\ opening' = opening /\ Mock
    BY <1>1 DEF Next, KernelStep, SendBlocked, UpgradeSent, Accept, Rejected, Wait,
       CallTryNextText, Read, ReturnNone, ReadPart, ReadText, ReadPing, PongSent, ReadOther,
       ReadClose, Reads, BeginClose, CloseSent, DropFrame, AwaitClose, Closed, IdleTick, Sleep,
       Panic, gatewayVars, GatewayStep, GatewayUpgrade, GatewayText, GatewayControl, GatewayClose,
       Puts, Deliver, Mock
<1>3. \/ SendBlocked /\ Panic
      \/ Rejected
      \/ Wait /\ Panic
      \/ ReadText /\ ~session /\ ~IsSessionInit(Accumulated(Frame(rxRaw)))
      \/ ReadClose
    BY <1>1, <1>2 DEF Next, KernelStep, SendBlocked, UpgradeSent, Accept, Rejected, Wait,
       CallTryNextText, Read, ReturnNone, ReadPart, ReadText, ReadPing, PongSent, ReadOther,
       ReadClose, BeginClose, CloseSent, DropFrame, AwaitClose, Closed, IdleTick, Sleep,
       Panic, GatewayStep, GatewayUpgrade, GatewayText, GatewayControl, GatewayClose,
       Puts, Deliver
<1>4. Live
    BY <1>3 DEF Live, SendBlocked, Sending, Rejected, Wait, ReadText, ReadClose, Reads
<1>5. PICK fs \in Seq(WireFrames) : Queued(fs) /\ InOrder(fs) /\ Handshake(fs)
    BY <1>4 DEF InFlight
<1>6. /\ peer = "listening" => fs = << >> /\ sent = << >>
      /\ pc = "upgrade" => peer = "listening"
      /\ pc \in {"accept", "acceptIdle"} /\ peer # "listening" =>
            fs # << >> /\ fs[1].op \in {"switching", "refusal"}
      /\ ~session => received = << >>
      /\ pc \in {"upgrade", "accept", "acceptIdle", "readIdle"} => ~session
      /\ pc \in {"acceptIdle", "readIdle"} => Len(rxRaw) < 2
      /\ \A i \in 1..Len(fs) : fs[i].op \in {"switching", "text"}
    BY <1>2, <1>5 DEF Handshake
<1>7. CASE SendBlocked /\ Panic
    <2>1. pc = "upgrade"
        BY <1>2, <1>7 DEF SendBlocked
    <2> QED
        BY <1>6, <1>7, <2>1 DEF Panic, gatewayVars
<1>8. CASE Rejected
    <2>1. pc = "accept" /\ Complete(Pumped) /\ Frame(Pumped).op # "switching"
        BY <1>8 DEF Rejected
    <2>2. /\ Pumped \in Seq(WireBytes) /\ wire \in Seq(WireBytes) /\ Pending = Pumped \o wire
        BY PendingFacts DEF SessionTypeOK
    <2>3. Frame(Pumped) = Pending[1].of /\ Len(Pending) >= 2
        BY <2>1, <2>2, RestOfBytes
    <2>4. Len(Pending) = 2 * Len(fs) /\ Len(fs) \in Nat
        BY <1>5, LenProperties DEF Queued
    <2>5. 1 \in 1..Len(fs) /\ 2 * 1 - 1 = 1
        BY <2>3, <2>4
    <2>6. Pending[2 * 1 - 1].of = fs[1]
        BY <1>5, <2>5 DEF Queued
    <2>7. fs[1].op = "text"
        BY <1>6, <2>1, <2>3, <2>5, <2>6
    <2>8. peer = "listening"
        BY <1>6, <2>1, <2>7
    <2> QED
        BY <1>6, <1>8, <2>8 DEF Rejected, Panic, gatewayVars
<1>9. CASE Wait /\ Panic
    <2>1. pc \in {"acceptIdle", "readIdle"} /\ ~session /\ Len(rxRaw) < 2 /\ received = << >>
        BY <1>6, <1>9 DEF Wait
    <2>2. sent' = sent /\ wire' = wire /\ sock' = sock
        BY <1>9 DEF Panic, gatewayVars
    <2>3. SUFFICES ASSUME sent # << >> PROVE wire # << >> \/ sock # << >>
        BY <2>2
    <2>4. Len(fs) \in Nat \ {0}
        <3>1. CASE pc = "acceptIdle"
            <4>1. fs # << >>
                BY <1>6, <2>3, <3>1
            <4> QED
                BY <4>1
        <3>2. CASE Len(fs) = 0
            <4>1. PICK c : Ordered(fs, c)
                BY <1>5 DEF InOrder
            <4>2. Len(received) + 1 = Len(sent) + 1
                BY <3>2, <4>1 DEF Ordered
            <4>3. Len(received) = 0 /\ Len(sent) \in Nat
                BY <2>1, LenProperties DEF SessionTypeOK
            <4>4. Len(sent) = 0 /\ sent \in Seq(Seq(Frames))
                BY <4>2, <4>3 DEF SessionTypeOK
            <4>5. sent = << >>
                BY <4>4, EmptySeq
            <4> QED
                BY <2>3, <4>5
        <3> QED
            BY <3>2, LenProperties
    <2>5. Len(Pending) = 2 * Len(fs)
        BY <1>5 DEF Queued
    <2>6. /\ Len(Pending) = Len(rxRaw) + Len(sock) + Len(wire)
          /\ Len(rxRaw) \in Nat /\ Len(sock) \in Nat /\ Len(wire) \in Nat
        BY PendingFacts
    <2>7. Len(sock) # 0 \/ Len(wire) # 0
        BY <2>1, <2>4, <2>5, <2>6
    <2> QED
        BY <2>7
<1>10. CASE ReadText /\ ~session /\ ~IsSessionInit(Accumulated(Frame(rxRaw)))
    <2>1. /\ Len(received) + 1 \in 1..Len(sent)
          /\ Accumulated(Frame(rxRaw)) = sent[Len(received) + 1]
        BY <1>10, ReturnedNext
    <2>2. Len(received) = 0
        BY <1>6, <1>10
    <2>3. Len(received) + 1 = 1 /\ sent # << >>
        BY <2>1, <2>2
    <2>4. IsSessionInit(Accumulated(Frame(rxRaw)))
        BY <1>2, <2>1, <2>3 DEF IsSessionInit, Mock
    <2> QED
        BY <1>10, <2>4
<1>11. CASE ReadClose
    <2>1. Consumes /\ Consumed.op = "close"
        BY <1>11, ConsumedFrame DEF Consumes
    <2>2. Consumed = fs[1] /\ Len(fs) \in Nat \ {0}
        BY <1>5, <2>1, ConsumingSteps
    <2>3. fs[1].op \in {"switching", "text"}
        BY <1>6, <2>2
    <2> QED
        BY <2>1, <2>2, <2>3
<1> QED
    BY <1>3, <1>7, <1>8, <1>9, <1>10, <1>11

-----------------------------------------------------------------------------
(* SessionInv is inductive.                                                *)

LEMMA SessionInvInit == Init => SessionInv
<1> SUFFICES ASSUME Init PROVE SessionInv
    OBVIOUS
<1>1. /\ Timeout \in Nat /\ SlowestIdle \in Nat /\ MaxControls \in Nat
      /\ MaxParts \in Nat /\ 0 < MaxParts
      /\ Limit(0) \in Nat /\ Limit(MaxControls) \in Nat
    BY LimitFacts, SessionAssumption
<1>2. SessionTypeOK
    <2>1. /\ << >> \in Seq(WireBytes) /\ << >> \in Seq(Frames) /\ << >> \in Seq(Seq(Frames))
        OBVIOUS
    <2>2. pc \in SessionLabels /\ session \in BOOLEAN
        BY DEF Init, SessionLabels
    <2>3. {mtime, deadline, sendDeadline, began} \subseteq Nat /\ controls \in 0..MaxControls
        BY <1>1 DEF Init
    <2> QED
        BY <2>1, <2>2, <2>3 DEF Init, SessionTypeOK
<1>3. Streamed /\ Returned
    <2>1. Len(sent) = 0 /\ Len(current) = 0 /\ Len(received) = 0
        BY DEF Init
    <2> QED
        BY <1>1, <2>1 DEF Streamed, Returned
<1>4. EstablishBound
    BY <1>1 DEF Init, EstablishBound, Limit
<1>5. ClosedWithin /\ SmokeFailsOnlyForPeer /\ (exit = 1 => pc = "halted")
      /\ (pc \in {"open", "closeSend", "closing"} => session)
    BY DEF Init, ClosedWithin, SmokeFailsOnlyForPeer, Running
<1>6. InFlight
    <2> DEFINE fs == << >>
    <2>1. fs \in Seq(WireFrames) /\ Len(fs) = 0 /\ \A i \in 1..Len(fs) : FALSE
        OBVIOUS
    <2>2. Queued(fs)
        <3>1. Pending = << >>
            BY DEF Init, Pending
        <3>2. Len(Pending) = 2 * Len(fs)
            BY <2>1, <3>1
        <3> QED
            BY <2>1, <3>2 DEF Queued
    <2>3. InOrder(fs)
        <3>1. PICK c \in [0..0 -> Nat \X Nat] : c[0] = <<1, 1>>
            <4>1. [i \in 0..0 |-> <<1, 1>>] \in [0..0 -> Nat \X Nat]
                OBVIOUS
            <4>2. [i \in 0..0 |-> <<1, 1>>][0] = <<1, 1>>
                OBVIOUS
            <4> QED
                BY <4>1, <4>2
        <3>2. Len(received) + 1 = 1 /\ Len(msgPartial) + 1 = 1 /\ Len(sent) + 1 = 1
              /\ Len(current) + 1 = 1 /\ Len(msgPartial) = 0
            BY DEF Init
        <3>3. Ordered(fs, c)
            BY <2>1, <3>1, <3>2 DEF Ordered
        <3>4. \A k \in 1..Len(msgPartial) : FALSE
            BY <3>2
        <3> QED
            BY <2>1, <3>1, <3>3, <3>4 DEF InOrder
    <2>4. Handshake(fs)
        BY <2>1 DEF Init, Handshake
    <2>5. InTime(fs)
        <3>1. PICK p \in [0..0 -> Nat] : p[0] = 0
            <4>1. [i \in 0..0 |-> 0] \in [0..0 -> Nat] /\ [i \in 0..0 |-> 0][0] = 0
                OBVIOUS
            <4> QED
                BY <4>1
        <3>2. PingsQueued(fs, p)
            <4>1. \A i \in 0..0 : i = 0
                OBVIOUS
            <4> QED
                BY <2>1, <3>1, <4>1 DEF PingsQueued, Init
        <3>3. EstablishedWithin(p[0])
            BY <1>1, <3>1 DEF EstablishedWithin, Init
        <3> QED
            BY <2>1, <3>1, <3>2, <3>3 DEF InTime
    <2> QED
        BY <2>1, <2>2, <2>3, <2>4, <2>5 DEF InFlight
<1> QED
    BY <1>2, <1>3, <1>4, <1>5, <1>6 DEF SessionInv

\* Every step is quiet, takes a frame, puts one, or drops one of those that
\* nobody reads any more.
LEMMA SessionSteps ==
    ASSUME Next
    PROVE  /\ Quiet \/ Consumes \/ GatewayStep \/ DropFrame
           /\ Consumes => Live
           /\ DropFrame => pc' = "closing"
           /\ GatewayStep => pc' = pc
           /\ Live' => Live
<1>1. Quiet \/ Consumes \/ GatewayStep \/ DropFrame
    BY DEF Next, KernelStep, Quiet, Consumes, Accept
<1>2. Consumes => Live
    BY DEF Consumes, Live, Accept, ReadPart, ReadText, ReadPing, ReadOther, ReadClose, Reads
<1>3. DropFrame => pc' = "closing"
    BY DEF DropFrame
<1>4. GatewayStep => pc' = pc
    BY DEF GatewayStep, GatewayUpgrade, GatewayText, GatewayControl, GatewayClose, Puts
<1>5. Live' => Live
    <2>1. pc # "halted"
        BY DEF Next
    <2>2. pc = "closing" => pc' \in {"closing", "halted"}
        BY <1>4 DEF Next, KernelStep, SendBlocked, Sending, UpgradeSent, Accept, Rejected, Wait,
           CallTryNextText, Read, ReturnNone, ReadPart, ReadText, ReadPing, PongSent, ReadOther,
           ReadClose, Reads, BeginClose, CloseSent, DropFrame, AwaitClose, Closed, IdleTick,
           Sleep, Panic, Deliver
    <2> QED
        BY <2>1, <2>2 DEF Live
<1> QED
    BY <1>1, <1>2, <1>3, <1>4, <1>5

LEMMA SessionInvNext == SessionInv /\ [Next]_vars => SessionInv'
<1> SUFFICES ASSUME SessionInv, [Next]_vars PROVE SessionInv'
    OBVIOUS
<1>1. CASE UNCHANGED vars
    <2>1. UNCHANGED <<pc, session, exit, mtime, deadline, sendDeadline, began, rxRaw, msgPartial,
                      received, sock, wire, peer, opening, sent, current, controls>>
        BY <1>1 DEF vars, clockVars, inputVars, gatewayVars
    <2>2. InFlight => InFlight'
        <3>1. \A f : PartSent(f)' <=> PartSent(f)
            BY <2>1 DEF PartSent
        <3>2. \A fs, c : Ordered(fs, c) => Ordered(fs, c)'
            BY <2>1, <3>1 DEF Ordered
        <3>3. \A fs : InOrder(fs) => InOrder(fs)'
            BY <2>1, <3>1, <3>2 DEF InOrder
        <3>4. \A fs : Queued(fs) => Queued(fs)'
            BY <2>1 DEF Queued, Pending
        <3>5. \A fs : Handshake(fs) => Handshake(fs)'
            BY <2>1 DEF Handshake, Mock
        <3>6. \A fs, p : PingsQueued(fs, p) => PingsQueued(fs, p)'
            BY <2>1 DEF PingsQueued
        <3>7. \A n : EstablishedWithin(n) => EstablishedWithin(n)'
            BY <2>1 DEF EstablishedWithin
        <3>8. \A fs : InTime(fs) => InTime(fs)'
            BY <3>6, <3>7 DEF InTime
        <3> QED
            BY <3>3, <3>4, <3>5, <3>8 DEF InFlight
    <2> QED
        BY <2>1, <2>2 DEF SessionInv, SessionTypeOK, Streamed, Returned, EstablishBound,
           ClosedWithin, SmokeFailsOnlyForPeer, Mock, Live
<1>2. CASE Next
    <2>1. /\ SessionTypeOK /\ Streamed /\ Returned /\ EstablishBound /\ ClosedWithin
          /\ SmokeFailsOnlyForPeer
          /\ exit = 1 => pc = "halted"
          /\ pc \in {"open", "closeSend", "closing"} => session
          /\ Live => InFlight
        BY DEF SessionInv
    <2>2. SessionTypeOK' /\ Streamed' /\ Returned' /\ ClosedWithin' /\ SmokeFailsOnlyForPeer'
        BY <1>2, <2>1, TypesNext, StreamedNext, ReturnedNext, ClosedNext, SmokeNext
    <2>3. (exit = 1 => pc = "halted")'
        <3>1. exit # 1 \/ pc = "halted"
            BY <2>1
        <3> QED
            BY <1>2, <3>1 DEF Next, KernelStep, SendBlocked, UpgradeSent, Accept, Rejected, Wait,
               CallTryNextText, Read, ReturnNone, ReadPart, ReadText, ReadPing, PongSent, ReadOther,
               ReadClose, BeginClose, CloseSent, DropFrame, AwaitClose, Closed, IdleTick, Sleep,
               Panic, GatewayStep, GatewayUpgrade, GatewayText, GatewayControl, GatewayClose,
               Puts, Deliver
    <2>4. (pc \in {"open", "closeSend", "closing"} => session)'
        BY <1>2, <2>1 DEF Next, KernelStep, SendBlocked, UpgradeSent, Accept, Rejected, Wait,
           CallTryNextText, Read, ReturnNone, ReadPart, ReadText, ReadPing, PongSent, ReadOther,
           ReadClose, Reads, BeginClose, CloseSent, DropFrame, AwaitClose, Closed, IdleTick, Sleep,
           Panic, GatewayStep, GatewayUpgrade, GatewayText, GatewayControl, GatewayClose,
           Puts, Deliver
    <2>5. Live' => InFlight'
        BY <1>2, <2>1, SessionSteps, InFlightQuiet, InFlightTake, InFlightPut DEF Live
    <2>6. EstablishBound'
        <3>1. SUFFICES ASSUME ~session' PROVE mtime' <= Limit(MaxControls)
            BY DEF EstablishBound, Limit
        <3>2. CASE Live'
            <4>1. InFlight'
                BY <2>5, <3>2
            <4>0. PICK fs \in Seq(WireFrames) : InTime(fs)'
                BY <4>1 DEF InFlight
            <4>2. PICK p \in [0..Len(fs) -> Nat] : PingsQueued(fs, p)' /\ EstablishedWithin(p[0])'
                BY <4>0 DEF InTime
            <4>3. PICK l \in Nat : l = Len(fs)
                BY LenProperties
            <4>4. 0 \in 0..l /\ l \in 0..l /\ 0 <= l
                BY <4>3
            <4>5. p[0] <= p[l] /\ p[l] <= controls' /\ p[0] \in Nat /\ p[l] \in Nat
                BY <4>2, <4>3, <4>4 DEF PingsQueued
            <4>6. controls' \in 0..MaxControls /\ MaxControls \in Nat /\ mtime' \in Nat
                BY <2>2, LimitFacts DEF SessionTypeOK
            <4>7. p[0] <= MaxControls
                BY <4>5, <4>6
            <4>8. Limit(p[0]) <= Limit(MaxControls) /\ Limit(p[0]) \in Nat /\ Limit(MaxControls) \in Nat
                BY <4>5, <4>6, <4>7, LimitFacts
            <4>9. mtime' <= Limit(p[0])
                BY <3>1, <4>2 DEF EstablishedWithin, Limit
            <4> QED
                BY <4>6, <4>8, <4>9
        <3>3. CASE ~Live'
            <4>1. pc' = "halted"
                BY <2>4, <3>1, <3>3 DEF Live
            <4>2. pc # "halted"
                BY <1>2 DEF Next
            <4>3. ~Closed
                BY <2>1, <3>1 DEF Closed
            <4>4. mtime' = mtime /\ (~session' => ~session)
                BY <1>2, <4>1, <4>2, <4>3 DEF Next, KernelStep, SendBlocked, Sending, UpgradeSent,
                   Accept, Rejected, Wait, CallTryNextText, Read, ReturnNone, ReadPart, ReadText,
                   ReadPing, PongSent, ReadOther, ReadClose, Reads, BeginClose, CloseSent,
                   DropFrame, AwaitClose, IdleTick, Sleep, Panic, GatewayStep, GatewayUpgrade,
                   GatewayText, GatewayControl, GatewayClose, Puts, Deliver, clockVars
            <4> QED
                BY <2>1, <3>1, <4>4 DEF EstablishBound, Limit
        <3> QED
            BY <3>2, <3>3
    <2> QED
        BY <2>2, <2>3, <2>4, <2>5, <2>6 DEF SessionInv
<1> QED
    BY <1>1, <1>2

\* So it holds of every reachable state.
LEMMA SessionInvHolds == Spec => []SessionInv
BY SessionInvInit, SessionInvNext, PTL DEF Spec

-----------------------------------------------------------------------------

\* However the peer trickles pings and fragments, and however fast it sends what
\* close_clean then drops, it cannot hold establish or close_clean longer than
\* their deadlines allow: neither a fragment nor a dropped frame resets one, and
\* a ping costs at most one blocking send (mesh.rs:170-188, 300-328).
THEOREM WaitsBoundedHolds == Spec => []WaitsBounded
<1>1. SessionInv => WaitsBounded
    <2> SUFFICES ASSUME SessionInv PROVE EstablishBound /\ CloseBound
        BY DEF WaitsBounded
    <2>1. /\ mtime \in Nat /\ deadline \in Nat /\ sendDeadline \in Nat /\ began \in Nat
          /\ Timeout \in Nat /\ SlowestIdle \in Nat /\ CloseWait \in Nat /\ SlowestTail \in Nat
        BY LimitFacts, SessionAssumption DEF SessionInv, SessionTypeOK
    <2>2. EstablishBound /\ ClosedWithin
        BY DEF SessionInv
    <2> QED
        BY <2>1, <2>2 DEF ClosedWithin, CloseBound
<1> QED
    BY <1>1, SessionInvHolds, PTL

\* The mesh-smoke gate against the mock fails only for what did not arrive:
\* every panic of the kernel is then for want of a frame, never because of one
\* (mesh.rs:333-339, mockd.rs:89-108).
THEOREM SmokeFailsOnlyForPeerHolds == Spec => []SmokeFailsOnlyForPeer
<1>1. SessionInv => SmokeFailsOnlyForPeer
    BY DEF SessionInv
<1> QED
    BY <1>1, SessionInvHolds, PTL

-----------------------------------------------------------------------------
(* The session implements the channel.                                     *)

\* A sequence is a function on an initial segment of the numbers.
LEMMA WholeMessages ==
    ASSUME NEW m \in Seq(Frames), Len(m) \in 1..MaxParts
    PROVE  m \in UNION {[1..k -> Frames] : k \in 1..MaxParts}
<1>1. m \in [1..Len(m) -> Frames]
    BY LenProperties
<1> QED
    BY <1>1

\* The last fragment of a message is the gateway's Send.
LEMMA SendStep ==
    ASSUME SessionTypeOK, Streamed, GatewayText(TRUE)
    PROVE  Channel!ChannelNext
<1> DEFINE frame == Part(Len(sent) + 1, Len(current) + 1, TRUE)
<1> DEFINE msg == Append(current, frame)
<1>1. sent' = Append(sent, msg) /\ received' = received
    BY DEF GatewayText, Puts, inputVars
<1>2. frame \in Frames /\ Len(current) \in Nat
    BY GatewayTextSteps
<1> HIDE DEF frame
<1>3. msg \in Seq(Frames) /\ Len(msg) = Len(current) + 1
    BY <1>2, AppendProperties DEF SessionTypeOK
<1> HIDE DEF msg
<1>4. Len(msg) \in 1..MaxParts
    BY <1>2, <1>3, SessionAssumption DEF Streamed
<1>5. msg \in UNION {[1..k -> Frames] : k \in 1..MaxParts}
    BY <1>3, <1>4, WholeMessages
<1>6. Channel!Send(msg)
    BY <1>1 DEF Channel!Send
<1> QED
    BY <1>5, <1>6 DEF Channel!ChannelNext

\* However the bytes of the handshake, the fragments and the control frames
\* are cut into segments, try_next_text returns the gateway's messages whole,
\* once and in order: the end of a message on the gateway's side is a Send of
\* the channel, a text try_next_text returns is a Receive, and every other step
\* is none of the channel's (mesh.rs:174-185, 246-287).
THEOREM SessionImplementsChannel == Spec => ImplementsChannel
<1>1. Init => Channel!ChannelInit
    BY DEF Init, Channel!ChannelInit
<1>2. SessionInv /\ [Next]_vars => [Channel!ChannelNext]_(Channel!channelVars)
    <2> SUFFICES ASSUME SessionInv, [Next]_vars
                 PROVE  Channel!ChannelNext \/ UNCHANGED <<sent, received>>
        BY DEF Channel!channelVars
    <2>1. SessionTypeOK /\ Streamed /\ Returned /\ (Live => InFlight)
        BY DEF SessionInv
    <2>2. CASE UNCHANGED vars
        BY <2>2 DEF vars, inputVars, gatewayVars
    <2>3. CASE Next /\ ReadText
        <3>1. /\ Len(received) + 1 \in 1..Len(sent)
              /\ Accumulated(Frame(rxRaw)) = sent[Len(received) + 1]
            BY <2>1, <2>3, ReturnedNext
        <3>2. received' = Append(received, sent[Len(received) + 1]) /\ sent' = sent
            BY <2>3, <3>1 DEF ReadText, Reads, gatewayVars
        <3>3. Len(received) < Len(sent)
            <4>1. Len(received) \in Nat /\ Len(sent) \in Nat
                BY <2>1, LenProperties DEF SessionTypeOK
            <4> QED
                BY <3>1, <4>1
        <3> QED
            BY <3>2, <3>3 DEF Channel!ChannelNext, Channel!Receive
    <2>4. CASE Next /\ GatewayText(TRUE)
        BY <2>1, <2>4, SendStep
    <2>5. CASE Next /\ ~ReadText /\ ~GatewayText(TRUE)
        <3>1. sent' = sent
            <4>1. GatewayText(FALSE) => sent' = sent
                BY DEF GatewayText
            <4> QED
                BY <2>5, <4>1, SentUnchanged
        <3>2. received' = received
            BY <2>5 DEF Next, KernelStep, SendBlocked, UpgradeSent, Accept, Rejected, Wait,
               CallTryNextText, Read, ReturnNone, ReadPart, ReadPing, PongSent, ReadOther,
               ReadClose, Reads, BeginClose, CloseSent, DropFrame, AwaitClose, Closed, IdleTick,
               Sleep, Panic, inputVars, GatewayStep, GatewayUpgrade, GatewayText, GatewayControl,
               GatewayClose, Puts, Deliver
        <3> QED
            BY <3>1, <3>2
    <2> QED
        BY <2>2, <2>3, <2>4, <2>5
<1> QED
    BY <1>1, <1>2, SessionInvHolds, PTL DEF Spec, ImplementsChannel, Channel!ChannelSpec

=============================================================================
