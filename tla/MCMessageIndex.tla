--------------------------- MODULE MCMessageIndex ---------------------------
(* Instances of MessageIndex for TLC. *)
EXTENDS MessageIndex

TwoDocs == 1..2
=============================================================================
