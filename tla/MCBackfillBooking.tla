------------------------- MODULE MCBackfillBooking -------------------------
(* Instances of BackfillBooking for TLC. *)
EXTENDS BackfillBooking, FiniteSets

ThreeEmails == 1..3

\* Two legs of one transfer, and between them an email of which the model makes a further
\* leg, a regular transaction, or nothing.
LegsAndMore == <<{"withdrawal"}, {"withdrawal", "regular", "none"}, {"deposit"}>>

\* Three legs, always read alike.
OnlyLegs == <<{"withdrawal"}, {"withdrawal"}, {"deposit"}>>
=============================================================================
