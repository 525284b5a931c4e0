---------------------------- MODULE MCWebSession ----------------------------
(* A visitor with two accounts in the wallet extension, and one tab. *)
EXTENDS WebSession
=============================================================================
