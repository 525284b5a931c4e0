-------------------------------- MODULE Sums --------------------------------
(***************************************************************************)
(* Totals over balances, pools and stakes.  The sum of a function into Nat *)
(* is the number of its units: the pairs <<x, i>> with 1 <= i <= f[x].     *)
(* Nothing here is recursive, so proofs can reason about every sum with    *)
(* the library's theorems on finite sets.                                  *)
(***************************************************************************)
EXTENDS Integers, FiniteSets

Units(f) == UNION { {x} \X (1 .. f[x]) : x \in DOMAIN f }

Sum(f) == Cardinality(Units(f))

=============================================================================
