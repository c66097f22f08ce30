--------------------------- MODULE MessageChannel ----------------------------
(***************************************************************************)
(* What a WebSocket session promises the code above it: every text message *)
(* the peer sent arrives whole, once, and in the order it was sent.        *)
(* MeshGoal is written on top of this channel; MeshSession implements it.  *)
(***************************************************************************)
EXTENDS Naturals, Sequences

CONSTANT Messages

VARIABLES
    sent,       \* messages the peer has completed
    received    \* messages handed to the caller

channelVars == <<sent, received>>

ChannelInit == sent = << >> /\ received = << >>

Send(m) ==
    /\ sent' = Append(sent, m)
    /\ UNCHANGED received

Receive ==
    /\ Len(received) < Len(sent)
    /\ received' = Append(received, sent[Len(received) + 1])
    /\ UNCHANGED sent

ChannelNext == Receive \/ \E m \in Messages : Send(m)

ChannelSpec == ChannelInit /\ [][ChannelNext]_channelVars

=============================================================================
