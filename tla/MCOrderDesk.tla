----------------------------- MODULE MCOrderDesk -----------------------------
(* Two orders, one of them of an earlier version, two prices, three requests. *)
EXTENDS OrderDesk
=============================================================================
