----------------------------- MODULE ByteStream -----------------------------
(***************************************************************************)
(* What a connection promises to the reader at its far end: the payloads   *)
(* one end has produced arrive in the order they were produced, none       *)
(* twice, and none skipped unless the stream is broken.  A stream may end  *)
(* early, so nothing is said about how much of it arrives.                 *)
(***************************************************************************)
EXTENDS Integers, Sequences

CONSTANT Streams

VARIABLES
    produced,       \* per stream, how many payloads were produced; the i-th is i
    delivered,      \* per stream, the payloads that arrived, in order of arrival
    broken          \* the streams of which payloads may be lost

Newest(d) == IF d = <<>> THEN 0 ELSE d[Len(d)]

Init ==
    /\ produced = [s \in Streams |-> 0] /\ delivered = [s \in Streams |-> <<>>]
    /\ broken = {}

Produce(s) ==
    /\ produced' = [produced EXCEPT ![s] = @ + 1]
    /\ UNCHANGED <<delivered, broken>>

Deliver(s) ==
    /\ \E n \in Newest(delivered[s]) + 1 .. produced[s] :
          /\ s \in broken \/ n = Newest(delivered[s]) + 1
          /\ delivered' = [delivered EXCEPT ![s] = Append(@, n)]
    /\ UNCHANGED <<produced, broken>>

Break ==
    /\ broken \subseteq broken' /\ broken' \subseteq Streams
    /\ UNCHANGED <<produced, delivered>>

Next == Break \/ \E s \in Streams : Produce(s) \/ Deliver(s)

Spec == Init /\ [][Next]_<<produced, delivered, broken>>

=============================================================================
