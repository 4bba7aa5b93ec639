--------------------------- MODULE MCServerChannels ---------------------------
(***************************************************************************)
(* Small instances of ServerChannels for TLC.                              *)
(***************************************************************************)
EXTENDS ServerChannels, TLC

Symmetry == Permutations(Sockets) \cup Permutations(Clients)
=============================================================================
