---------------------------- MODULE MCMagicLinks ----------------------------
(* Small instances of MagicLinks for TLC. *)
EXTENDS MagicLinks, TLC
==============================================================================
