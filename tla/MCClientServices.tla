-------------------------- MODULE MCClientServices --------------------------
(***************************************************************************)
(* A UDP association, the listeners of a client, the dial loops and the    *)
(* codec, side by side: they share no state, so a behaviour is one of one  *)
(* of them, chosen at the start, while the others stand still.             *)
(***************************************************************************)
EXTENDS UDPAssociation, ReverseListeners, DialLoop, Codec, TLC

CONSTANTS c1, c2, n1, n2, n3, s1, s2

VARIABLE part       \* the component that runs

vars == <<udpVars, listenVars, dialVars, codecVars, part>>

MCChannels == {c1, c2}
MCNodes == {n1, n2, n3}
MCSpecs == <<s1, s2>>
MCPairKnown == {TRUE}

\* Nothing tells the channels apart.
Symmetry == Permutations(MCChannels)

\* The first assignment of nodes matters only to the dial loops, the message only to
\* the codec.
Init ==
    /\ UdpInit /\ ListenInit /\ DialInit /\ CodecInit
    /\ part \in {"udp", "listen", "dial", "codec"}
    /\ part # "dial" => \A ch \in DialChannels : loop[ch].ip = n1
    /\ part # "codec" => msg = [id |-> <<>>, meta |-> <<>>, payload |-> <<>>]

UdpStep == part = "udp" /\ UdpNext /\ UNCHANGED <<listenVars, dialVars, codecVars, part>>
ListenStep == part = "listen" /\ ListenNext /\ UNCHANGED <<udpVars, dialVars, codecVars, part>>
DialStep == part = "dial" /\ DialNext /\ UNCHANGED <<udpVars, listenVars, codecVars, part>>
CodecStep == part = "codec" /\ CodecNext /\ UNCHANGED <<udpVars, listenVars, dialVars, part>>

Next == UdpStep \/ ListenStep \/ DialStep \/ CodecStep

Spec == Init /\ [][Next]_vars

=============================================================================
