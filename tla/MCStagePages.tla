----------------------------- MODULE MCStagePages -----------------------------
(* The member and one other, on any of the pages. *)
EXTENDS StagePages
=============================================================================
