---------------------------- MODULE MCImapSession ----------------------------
(* Instances of ImapSession for TLC. *)
EXTENDS ImapSession

BothOrders == {"after", "before"}
SecondDated == {2}
BothAnswers == {"accepted", "rejected"}
=============================================================================
