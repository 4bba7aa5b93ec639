-------------------------- MODULE MCClientChannels --------------------------
(***************************************************************************)
(* The pre-binding rounds and the write queues of the client's channels,   *)
(* side by side: they share no state, so a behaviour is one of one of      *)
(* them, chosen at the start, while the other stands still.                *)
(***************************************************************************)
EXTENDS PrebindRound, ClientQueue, TLC

CONSTANTS c1, c2, k1, k2

VARIABLE part       \* the component that runs

vars == <<roundVars, queueVars, part>>

MCChannels == {c1, c2}
MCKeys == {k1, k2}

\* Nothing tells the channels or the keys apart, nor the senders, which are named
\* like the channels.
Symmetry == Permutations(MCChannels) \cup Permutations(MCKeys)

Init == RoundInit /\ QueueInit /\ part \in {"round", "queue"}

RoundStep == part = "round" /\ RoundNext /\ UNCHANGED <<queueVars, part>>
QueueStep == part = "queue" /\ QueueNext /\ UNCHANGED <<roundVars, part>>

Next == RoundStep \/ QueueStep

Spec == Init /\ [][Next]_vars

=============================================================================
