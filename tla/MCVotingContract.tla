-------------------------- MODULE MCVotingContract --------------------------
(***************************************************************************)
(* Small instances of VotingContract, and mutations of its definitions.    *)
(***************************************************************************)
EXTENDS VotingContract, TLC

CONSTANTS m1, m2, s1, s2

Symmetry == Permutations(Members)

Quote(p, m, a, e, s) ==
  [proposal |-> p, member |-> m, amount |-> a, expiry |-> e, signer |-> s]

\* Amounts whose 3% fee rounds down to 1 and is exactly 3; one quote of a retired signer.
OrderQuotes ==
  { Quote(0, m1, 40, MaxTime, s1), Quote(0, m1, 100, MaxTime, s1),
    Quote(0, m2, 40, MaxTime, s1), Quote(0, m2, 100, 3, s2),
    Quote(1, m1, 40, MaxTime, s1) }

=============================================================================
