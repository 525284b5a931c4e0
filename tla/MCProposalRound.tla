-------------------------- MODULE MCProposalRound ---------------------------
(***************************************************************************)
(* Small instances of ProposalRound.                                       *)
(***************************************************************************)
EXTENDS ProposalRound, TLC

CONSTANTS m1, m2, c1, c2, c3, a, b

\* One client per member; two clients of one member; and a third of the other.
OwnClients == (c1 :> m1) @@ (c2 :> m2)
TwoTabs    == (c1 :> m1) @@ (c2 :> m1)
ThreeTabs  == (c1 :> m1) @@ (c2 :> m2) @@ (c3 :> m1)

OneVoteTicket == [create |-> 0, proposal |-> 0, vote |-> 1]
OneOfEach     == [create |-> 1, proposal |-> 1, vote |-> 1]

\* bound: at most two handlers at a time, whoever they belong to
TwoInFlight == Cardinality({c \in Clients : pc[c] # "idle"}) <= 2

Symmetry == Permutations(Merchants)
TabSymmetry == Permutations(Merchants) \cup Permutations({c1, c3})

=============================================================================
