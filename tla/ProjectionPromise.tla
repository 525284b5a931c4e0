--------------------------- MODULE ProjectionPromise ---------------------------
(***************************************************************************)
(* What the database promises of the contract's events, whoever            *)
(* synchronises, how often, and whatever fails: it is a consumer that takes *)
(* them from the chain once each, in their order, and never takes one back; *)
(* and a registered transaction is reported as confirmed in the very        *)
(* transaction that takes its event, for good.  ChainSync implements this   *)
(* module.                                                                 *)
(***************************************************************************)
EXTENDS Naturals, Sequences

CONSTANTS
    Empty,              \* the tables before any event
    Replay(_, _, _)     \* the tables after some blocks of a chain, from given ones

VARIABLES
    chain,      \* the blocks, each with an event
    taken,      \* how many of them the tables have taken in
    db,         \* the tables
    mined,      \* the block of the registered transaction, 0 before it is mined
    confirmed   \* it is reported as confirmed

\* The contract may have been called before.
Init == mined \in 0 .. Len(chain) /\ taken = 0 /\ db = Empty /\ confirmed = FALSE

\* The contract is called.
Happen ==
    /\ Len(chain') = Len(chain) + 1 /\ chain' = Append(chain, chain'[Len(chain) + 1])
    /\ mined' \in {mined} \cup (IF mined = 0 THEN {Len(chain) + 1} ELSE {})
    /\ UNCHANGED <<taken, db, confirmed>>

\* The next events are taken, up to some block.
Take(upto) ==
    /\ db' = Replay(chain, db, (taken + 1) .. upto) /\ taken' = upto
    /\ confirmed' \in {confirmed} \cup (IF mined \in (taken + 1) .. upto THEN {TRUE} ELSE {})
    /\ UNCHANGED <<chain, mined>>

Next == Happen \/ \E upto \in (taken + 1) .. Len(chain) : Take(upto)

Spec == Init /\ [][Next]_<<chain, taken, db, mined, confirmed>>
=============================================================================
