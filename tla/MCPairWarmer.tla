---------------------------- MODULE MCPairWarmer ----------------------------
(* PairWarmer on a small instance.                                         *)
EXTENDS PairWarmer

Symmetry == Permutations(Keys) \cup Permutations(Conns)

\* The notifications and the table follow the list and never act on it; what a key
\* was used for before, and a candidate that is dealt with, are never looked at.
Candidate == IF run.at \in {"decide", "promote", "replace", "discard"} THEN made.key ELSE NoKey

ListView ==
    <<key, Candidate, channelVars, pairs, primary, run, kicks, down, dialVars,
      [k \in Keys |-> IF Fresh(k) /\ k \notin {Candidate, run.head} THEN <<>>
                      ELSE <<state[k], ends[k], refs[k]>>]>>

=============================================================================
