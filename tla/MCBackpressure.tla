--------------------------- MODULE MCBackpressure ---------------------------
(* Small instances of Backpressure for TLC. *)
EXTENDS Backpressure, TLC
=============================================================================
