------------------------------ MODULE BuildPair ------------------------------
(***************************************************************************)
(* What BuildPair (pair_warmer.go) promises the rest of the warmer: a call *)
(* either fails or returns, for the key of this very call, a pair of two   *)
(* different channels.  PrebindRound implements it; PairWarmer calls it.   *)
(***************************************************************************)
EXTENDS Integers, Sequences, FiniteSets

CONSTANTS
    Channels,       \* channel numbers of the client
    NoCh,           \* a channel number not set (0 in the code)
    Keys,           \* keys of calls (UUIDs), and of the pairs they find
    NoKey

ASSUME BuildPairAssumption ==
    NoCh \notin Channels /\ NoKey \notin Keys /\ IsFiniteSet(Channels)

VARIABLES
    key,            \* the call in progress
    made            \* the pair the last call returned

NoPair == [key |-> NoKey, up |-> NoCh, down |-> NoCh]
Pairs == {p \in [key : Keys, up : Channels, down : Channels] : p.up # p.down}

BuildInit == key = NoKey /\ made = NoPair

Begin(k) == key = NoKey /\ key' = k /\ made' = NoPair

Fail == key # NoKey /\ key' = NoKey /\ made' = NoPair

Make(p) == p \in Pairs /\ p.key = key /\ key' = NoKey /\ made' = p

\* The caller has no more use for the pair.
Drop == key = NoKey /\ key' = NoKey /\ made' = NoPair

BuildNext == Fail \/ Drop \/ (\E k \in Keys : Begin(k)) \/ (\E p \in Pairs : Make(p))

BuildSpec == BuildInit /\ [][BuildNext]_<<key, made>>

=============================================================================
