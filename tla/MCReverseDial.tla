--------------------------- MODULE MCReverseDial ----------------------------
\* Instances of ReverseDial for TLC.
EXTENDS ReverseDial, TLC

CONSTANTS a, b

NoHotPair == NoPair
HotPair == [up |-> a, down |-> b]
Either == {TRUE, FALSE}
Symmetry == Permutations({a, b})

\* Once the server has dropped the connection it stays dropped, and what is
\* still on its way up changes nothing: handleReverseMessage looks the state up
\* first.  States that differ only there have the same future.
Live == <<serverVars, clientVars, down, cliUp, srvUp, IF rv.reg THEN up ELSE <<>> >>

=============================================================================
