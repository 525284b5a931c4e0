--------------------------- MODULE MCMerchantPortal ---------------------------
(* Two changes and two midnights, and two requests that apply them at once. *)
EXTENDS MerchantPortal, TLC
Symmetry == Permutations(Readers)
=============================================================================
