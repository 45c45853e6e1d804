-------------------------- MODULE MCAccountManager --------------------------
(* Instances of AccountManager for TLC. *)
EXTENDS AccountManager

CONSTANTS inbox, sent, archive
=============================================================================
