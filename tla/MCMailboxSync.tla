--------------------------- MODULE MCMailboxSync ---------------------------
(* Instances of MailboxSync for TLC: messages, None and Torn are model     *)
(* values of the cfg files.                                                *)
EXTENDS MailboxSync
=============================================================================
