--------------------------- MODULE MCServerQueue ---------------------------
(* Small instances of ServerQueue for TLC. *)
EXTENDS ServerQueue, TLC

Symmetry == Permutations(Channels) \cup Permutations(Producers)
=============================================================================
