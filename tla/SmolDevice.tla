----------------------------- MODULE SmolDevice ------------------------------
(***************************************************************************)
(* kernel/src/net/smol.rs: the token pair that lends the NIC to smoltcp.   *)
(* Receive buffers circulate between the device and the tokens; a packet   *)
(* is its number, in the order of arrival.                                 *)
(*                                                                         *)
(* The device and smoltcp are libraries: smoltcp consumes a receive token  *)
(* as soon as it has it, and answers, if at all, from inside the closure   *)
(* that reads the packet, with the transmit token of the pair.             *)
(***************************************************************************)
EXTENDS Naturals, Sequences, FiniteSets

CONSTANTS
    Buffers,        \* the receive buffers of the NIC
    MaxPackets      \* bound: packets that arrive

ASSUME DeviceAssumption == MaxPackets \in Nat

VARIABLES
    ring,           \* buffers the device may write to
    used,           \* buffers it has filled, in order
    packet,         \* what each buffer holds
    token,          \* the buffer of the receive token, as a set
    borrows,        \* the places that hold a &mut Nic
    closure,        \* "reading", "read" (rx), "answering" (tx inside rx),
                    \* "recycling" (rx again), "sending"
    transmits,      \* a transmit token is out
    lost,           \* history: buffers that could not be recycled
    sent,           \* history: packets that arrived
    received        \* history: packets the closure has read

tokenVars ==
    <<ring, used, packet, token, borrows, closure, transmits, lost, sent, received>>
deviceVars == <<ring, used, packet, lost, sent>>

-----------------------------------------------------------------------------
(* The device: a packet without a buffer is dropped on the wire.           *)

PacketArrives ==
    /\ Len(sent) < MaxPackets
    /\ \E b \in ring :
          /\ packet' = [packet EXCEPT ![b] = Len(sent) + 1]
          /\ used' = Append(used, b)
          /\ ring' = ring \ {b}
    /\ sent' = Append(sent, Len(sent) + 1)
    /\ UNCHANGED <<token, borrows, closure, transmits, lost, received>>

-----------------------------------------------------------------------------
(* Device for SmolNic.                                                     *)

\* receive: with can_recv, the buffer moves into the token.
Receive ==
    /\ closure = "none" /\ token = {} /\ ~transmits
    /\ used # << >>
    /\ token' = {Head(used)}
    /\ used' = Tail(used)
    /\ transmits' = TRUE
    /\ UNCHANGED <<ring, packet, borrows, closure, lost, sent, received>>

\* transmit
Transmit ==
    /\ closure = "none" /\ token = {} /\ ~transmits
    /\ transmits' = TRUE
    /\ UNCHANGED <<deviceVars, token, borrows, closure, received>>

-----------------------------------------------------------------------------
(* The tokens.                                                             *)

\* Mutant of BeforeClosure: the NIC is borrowed for the recycling before f runs,
\* which may send.
BeforeClosureBorrows == borrows' = borrows \union {"rx"} /\ UNCHANGED ring

\* What VRxToken::consume does before it calls f.
BeforeClosure == UNCHANGED <<ring, borrows>>

RxConsume ==
    /\ closure = "none" /\ token # {}
    /\ closure' = "reading"
    /\ BeforeClosure
    /\ UNCHANGED <<used, packet, token, transmits, lost, sent, received>>

\* f reads the packet; an answer may quote it.
RxRead ==
    /\ closure = "reading"
    /\ closure' = "read"
    /\ \E b \in token : received' = Append(received, packet[b])
    /\ UNCHANGED <<deviceVars, token, borrows, transmits>>

\* f has returned, its transmit token is gone: the NIC is borrowed for
\* recycle_rx_buffer.
RxReturn ==
    /\ closure = "read"
    /\ closure' = "recycling"
    /\ borrows' = borrows \union {"rx"}
    /\ transmits' = FALSE
    /\ UNCHANGED <<deviceVars, token, received>>

\* recycle_rx_buffer gives the buffer to the device, or fails, which VRxToken
\* ignores: the buffer is dropped.
RxRecycled ==
    /\ closure = "recycling"
    /\ closure' = "none"
    /\ borrows' = borrows \ {"rx"}
    /\ token' = {}
    /\ \/ ring' = ring \union token /\ UNCHANGED lost
       \/ lost' = lost \union token /\ UNCHANGED ring
    /\ UNCHANGED <<used, packet, transmits, sent, received>>

\* VTxToken::consume borrows the NIC until send has returned.
TxConsume ==
    /\ transmits
    /\ \/ closure = "read" /\ closure' = "answering"
       \/ closure = "none" /\ token = {} /\ closure' = "sending"
    /\ borrows' = borrows \union {"tx"}
    /\ UNCHANGED <<deviceVars, token, transmits, received>>

TxSent ==
    /\ \/ closure = "answering" /\ closure' = "read"
       \/ closure = "sending" /\ closure' = "none"
    /\ borrows' = borrows \ {"tx"}
    /\ transmits' = FALSE
    /\ UNCHANGED <<deviceVars, token, received>>

-----------------------------------------------------------------------------

DeviceInit ==
    /\ ring = Buffers
    /\ used = << >>
    /\ packet = [b \in Buffers |-> 0]
    /\ token = {} /\ transmits = FALSE
    /\ borrows = {}
    /\ closure = "none"
    /\ lost = {}
    /\ sent = << >> /\ received = << >>

DeviceNext ==
    \/ PacketArrives
    \/ Receive \/ Transmit
    \/ RxConsume \/ RxRead \/ RxReturn \/ RxRecycled
    \/ TxConsume \/ TxSent

DeviceSpec == DeviceInit /\ [][DeviceNext]_tokenVars

-----------------------------------------------------------------------------
(* Properties.                                                             *)

\* The packet does not change under the closure that reads it, or under the
\* answer that quotes it.
PacketStable ==
    closure \in {"read", "answering"} =>
        \A b \in token : packet[b] = received[Len(received)]

\* The raw pointers of a pair are never two live &mut Nic: the transmit token is
\* consumed inside the receive token's closure, and the receive token borrows
\* the NIC for the recycling only when that has returned.
OneBorrow == Cardinality(borrows) <= 1

\* No buffer leaks but by a recycling that failed: each is the device's, filled,
\* or in the one token, so the ring is never dry while smoltcp keeps up.
BuffersAccounted ==
    Buffers = ring \union token \union {used[i] : i \in 1..Len(used)} \union lost

\* What the SAFETY comments of the token pair claim (smol.rs:2-4, 71-77): a
\* buffer goes back to the device after its last reader and not before, none
\* leaks, and the NIC has one user at a time.
TokensSafe == PacketStable /\ OneBorrow /\ BuffersAccounted

=============================================================================
