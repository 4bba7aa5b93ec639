---------------------------- MODULE ChannelWires ----------------------------
(***************************************************************************)
(* The channels between one client and the server, as the protocols of a   *)
(* connection see them: a FIFO in each direction and, at each end, whether *)
(* the channel is open there.  The two ends notice a failure one after the *)
(* other.  A failed channel is not replaced here, and no queue is full     *)
(* (the limits are in ServerQueue).                                        *)
(***************************************************************************)
EXTENDS Integers, Sequences, FiniteSets

CONSTANTS
    Channels,       \* channel numbers
    NoCh,           \* a channel number not set (0 in the code)
    Pair,           \* the Hot Pair of a dial, [up, down], or NoPair
    NoPair,
    PairKnown,      \* whether the far end still has the pair: a set of answers
    MaxUp,          \* bound: payloads towards the server
    MaxDown,        \* bound: payloads towards the client
    MaxFail         \* bound: channels that fail

ASSUME WiresAssumption ==
    /\ NoCh \notin Channels
    /\ Pair = NoPair \/ Pair \in [up : Channels, down : Channels]
    /\ PairKnown \subseteq BOOLEAN /\ PairKnown # {}
    /\ {MaxUp, MaxDown, MaxFail} \subseteq Nat

VARIABLES
    up, down,       \* frames on the way, per channel
    cliUp, srvUp    \* the channel is open at this end

wires == <<up, down, cliUp, srvUp>>

WiresInit ==
    /\ up = [ch \in Channels |-> <<>>] /\ down = [ch \in Channels |-> <<>>]
    /\ cliUp = [ch \in Channels |-> TRUE] /\ srvUp = [ch \in Channels |-> TRUE]

\* The queues after the frames of the sequence s are put on the channels of S.
Put(wire, S, s) ==
    [ch \in Channels |-> IF ch \in S THEN wire[ch] \o s ELSE wire[ch]]

OpenAt(side) == {ch \in Channels : side[ch]}

\* The channels that have failed, at one end or at both.
Failed == {ch \in Channels : ~cliUp[ch] \/ ~srvUp[ch]}

\* An open channel may fail at this end when it has failed at the other, or
\* when the bound allows one more to fail.
MayFail(ch) == ch \in Failed \/ Cardinality(Failed) < MaxFail

=============================================================================
