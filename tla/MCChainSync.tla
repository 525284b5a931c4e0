------------------------------ MODULE MCChainSync ------------------------------
(* Two wallets, three blocks, two blocks a batch, a registration posted twice. *)
EXTENDS ChainSync, TLC
Symmetry == Permutations(Wallets) \cup Permutations(Syncers)
=============================================================================
