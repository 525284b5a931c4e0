------------------------------ MODULE MCLegacyPage ------------------------------
(* Two transactions, a poll of one question; copies of the round of which  *)
(* one offers every kind of handler: with the wallet or without, and each  *)
(* set of what is reloaded.                                                *)
EXTENDS LegacyPage
Copies == {"nogroup", "ordering"}
=============================================================================
