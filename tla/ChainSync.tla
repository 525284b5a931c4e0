------------------------------- MODULE ChainSync -------------------------------
(***************************************************************************)
(* The projection of the contract's events into the database: the indexer, *)
(* the synchronisation at start-up and the one an administrator asks for,  *)
(* which may overlap, fail and be repeated, and the transactions that      *)
(* clients register to be told when their event has arrived.               *)
(*                                                                         *)
(* Named bounds: one round and one registered transaction; a block has one *)
(* event and is never replaced by another (the indexer waits for no        *)
(* confirmations).  What members do to the same rows without the contract  *)
(* is in ProposalRound and OrderDesk.                                      *)
(***************************************************************************)
EXTENDS Naturals, FiniteSets, Sequences

CONSTANTS
    Wallets,    \* wallets that call the contract
    Syncers,    \* who synchronises: a server that starts, an administrator
    Batch,      \* blocks one synchronisation reads
    MaxBlocks,  \* bound: blocks
    MaxPosts    \* bound: times the registration is posted

ASSUME ChainConstants ==
    Wallets # {} /\ Batch \in Nat \ {0} /\ MaxPosts \in Nat /\ MaxBlocks \in Nat \ {0, 1}

VARIABLES
    chain,    \* blocks, each with the event it carries
    applied,  \* events of table applied_chain_events
    db,       \* what the events made of the other tables
    cursor,   \* last_synced_block, which is also last_seen_block
    syncs,    \* the synchronisations in flight
    hash,     \* the block of the transaction that is registered, 0 before it is mined
    pending   \* its row: action and status; posts of it; due: to be confirmed

vars == <<chain, applied, db, cursor, syncs, hash, pending>>

\* The action a client registers for each event that is matched.
actionByEvent ==
    [ProposalCreated |-> "create_proposal", OptionAdded |-> "add_option", Voted |-> "vote",
     OrderPlaced |-> "place_order", OrderCancelled |-> "cancel_order",
     ProposalSettled |-> "settle_proposal", SubscriptionPaid |-> "subscribe"]
Names == DOMAIN actionByEvent \cup {"VoteFinalized", "RewardAllocated"}

Empty == [created |-> FALSE, option |-> FALSE, winner |-> FALSE, settled |-> FALSE,
          options |-> [w \in Wallets |-> 0],
          votes |-> [w \in Wallets |-> 0], order |-> [w \in Wallets |-> "none"],
          rewards |-> [w \in Wallets |-> 0], subscribed |-> {}]
-----------------------------------------------------------------------------
(* The effect of an event.  Every event of a round makes the round, and a  *)
(* vote makes the option, when they are not there yet.                     *)

ensureProposalForChain(d) == [d EXCEPT !.created = TRUE]
ensureOptionForChain(d)   == [ensureProposalForChain(d) EXCEPT !.option = TRUE]

applyOptionAddedEvent(d, w) == [ensureOptionForChain(d) EXCEPT !.options[w] = @ + 1]

applyVoteEvent(d, w) == [ensureOptionForChain(d) EXCEPT !.votes[w] = @ + 1]

applyVoteFinalizedEvent(d) == [ensureOptionForChain(d) EXCEPT !.winner = TRUE]

applyOrderPlacedEvent(d, w) == [ensureProposalForChain(d) EXCEPT !.order[w] = "paid_onchain"]

applyOrderCancelledEvent(d, w) ==
    [ensureProposalForChain(d) EXCEPT !.order[w] =
        IF @ = "none" THEN "none" ELSE "cancelled_onchain"]

applyRewardAllocatedEvent(d, w) == [d EXCEPT !.rewards[w] = @ + 1]

applySubscriptionPaidEvent(d, w) == [d EXCEPT !.subscribed = @ \cup {w}]

applyChainEvent(d, e) ==
    CASE e.name = "ProposalCreated"  -> ensureProposalForChain(d)
      [] e.name = "OptionAdded"      -> applyOptionAddedEvent(d, e.by)
      [] e.name = "Voted"            -> applyVoteEvent(d, e.by)
      [] e.name = "VoteFinalized"    -> applyVoteFinalizedEvent(d)
      [] e.name = "ProposalSettled"  -> [d EXCEPT !.settled = TRUE]
      [] e.name = "OrderPlaced"      -> applyOrderPlacedEvent(d, e.by)
      [] e.name = "OrderCancelled"   -> applyOrderCancelledEvent(d, e.by)
      [] e.name = "RewardAllocated"  -> applyRewardAllocatedEvent(d, e.by)
      [] e.name = "SubscriptionPaid" -> applySubscriptionPaidEvent(d, e.by)

\* The unique indexes: a member has one option in a round, and one vote.  The contract
\* takes more of both, and no batch with such an event can ever be stored.
NoIndex(d)  == TRUE
Storable(d) == \A w \in Wallets : d.options[w] <= 1 /\ d.votes[w] <= 1

\* The events of the given blocks of chain c, in the order of the blocks.
Replay(c, d, blocks) ==
    LET after[b \in 0 .. Len(c)] ==
          IF b = 0 THEN d
          ELSE IF b \in blocks THEN applyChainEvent(after[b - 1], c[b])
          ELSE after[b - 1]
    IN  after[Len(c)]
-----------------------------------------------------------------------------
(* The contract and its callers. *)

Holding(w) ==
    \E b \in DOMAIN chain :
        /\ chain[b] = [name |-> "OrderPlaced", by |-> w]
        /\ \A c \in b .. Len(chain) : chain[c] # [name |-> "OrderCancelled", by |-> w]

\* The events whose effect does not depend on the wallet have one caller.
Callers(n) ==
    IF n \in {"ProposalCreated", "VoteFinalized", "ProposalSettled"}
    THEN {"anyone"} ELSE Wallets

Emitted(names) == \E b \in DOMAIN chain : chain[b].name \in names

\* A round is finalised and settled once, a member has one order at a time; options
\* come before votes, and the contract takes any number of either.
ContractTakes(e) ==
    /\ e.name = "ProposalCreated" <=> chain = <<>>
    /\ e.name \in {"VoteFinalized", "ProposalSettled"} => ~Emitted({e.name})
    /\ e.name = "OptionAdded" => ~Emitted({"Voted", "VoteFinalized"})
    /\ e.name \in {"Voted", "VoteFinalized"} => Emitted({"OptionAdded"})
    /\ e.name = "OrderPlaced" => ~Holding(e.by)
    /\ e.name = "OrderCancelled" => Holding(e.by)

Emit(e) ==
    /\ Len(chain) < MaxBlocks /\ ContractTakes(e)
    /\ chain' = Append(chain, e)
    /\ hash' \in {hash} \cup (IF hash = 0 THEN {Len(chain) + 1} ELSE {})
    /\ UNCHANGED <<applied, db, cursor, syncs, pending>>
-----------------------------------------------------------------------------
(* A synchronisation. *)

Idle == [at |-> "idle", from |-> 0, upto |-> 0]

OffByOne(c)  == c + 2
FromBlock(c) == c + 1

ReadStatus(s) ==
    /\ syncs[s].at = "idle"
    /\ syncs' = [syncs EXCEPT ![s] = [at |-> "read", from |-> FromBlock(cursor), upto |-> 0]]
    /\ UNCHANGED <<chain, applied, db, cursor, hash, pending>>

LastOfBatch(from, latest) ==
    IF latest < from + Batch THEN latest ELSE from + Batch - 1

\* The node may be behind others.
SyncRange(s) ==
    /\ syncs[s].at = "read"
    /\ \E latest \in 0 .. Len(chain) :
          syncs' = [syncs EXCEPT ![s].at = "fetched",
                                 ![s].upto = LastOfBatch(syncs[s].from, latest)]
    /\ UNCHANGED <<chain, applied, db, cursor, hash, pending>>

\* The node fails: the error is stored, with the cursor read before.
SyncRangeFails(s) ==
    /\ syncs[s].at = "read" /\ cursor' = syncs[s].from - 1
    /\ syncs' = [syncs EXCEPT ![s] = Idle]
    /\ UNCHANGED <<chain, applied, db, hash, pending>>

Fetched(s)    == syncs[s].from .. syncs[s].upto
Everything(s) == Fetched(s)
NotApplied(s) == Fetched(s) \ applied

matchPendingTransaction(blocks) ==
    LET e == chain[hash]
    IN  IF hash \in blocks /\ e.name \in DOMAIN actionByEvent
           /\ pending.action = actionByEvent[e.name]
        THEN [pending EXCEPT !.status = "confirmed"]
        ELSE pending

\* One transaction: the events not yet applied, the transactions they confirm and
\* the cursor, whatever another synchronisation has stored meanwhile.
StoreChainEvents(s) ==
    LET fresh == NotApplied(s)
        after == Replay(chain, db, fresh)
    IN  /\ syncs[s].at = "fetched" /\ Storable(after)
        /\ db' = after /\ applied' = applied \cup fresh
        /\ pending' = matchPendingTransaction(fresh)
        /\ cursor' = syncs[s].upto
        /\ syncs' = [syncs EXCEPT ![s] = Idle]
        /\ UNCHANGED <<chain, hash>>

\* The transaction is rolled back, or the server stops.
StoreFails(s) ==
    /\ syncs[s].at # "idle"
    /\ syncs' = [syncs EXCEPT ![s] = Idle]
    /\ UNCHANGED <<chain, applied, db, cursor, hash, pending>>
-----------------------------------------------------------------------------
(* Registration: by the page that sent the transaction, which may post it   *)
(* again, and by hand, with any action.  The row is kept, not its action.   *)

Overwritten(status) == "pending"
Upserted(status) == IF status = "none" THEN "pending" ELSE status

ActionOfHash ==
    IF hash # 0 /\ chain[hash].name \in DOMAIN actionByEvent
    THEN actionByEvent[chain[hash].name] ELSE "none"

RegisterPendingTransaction(action) ==
    /\ pending.posts < MaxPosts
    /\ hash # 0
    /\ pending' = [action |-> action, status |-> Upserted(pending.status),
                   posts |-> pending.posts + 1,
                   due |-> IF hash \in applied THEN pending.due ELSE action = ActionOfHash]
    /\ UNCHANGED <<chain, applied, db, cursor, syncs, hash>>

\* Before the server is first started a round was opened, with an option in it.
Opened(w) == <<[name |-> "ProposalCreated", by |-> "anyone"],
               [name |-> "OptionAdded", by |-> w]>>

Init ==
    /\ \E w \in Wallets : chain = Opened(w)
    /\ applied = {} /\ db = Empty /\ cursor = 0
    /\ syncs = [s \in Syncers |-> Idle] /\ hash = 0
    /\ pending = [action |-> "none", status |-> "none", posts |-> 0, due |-> FALSE]

Next ==
    \/ \E n \in Names : \E w \in Callers(n) : Emit([name |-> n, by |-> w])
    \/ \E s \in Syncers : \/ ReadStatus(s) \/ SyncRange(s) \/ SyncRangeFails(s)
                          \/ StoreChainEvents(s) \/ StoreFails(s)
    \/ \E a \in {ActionOfHash, "settle_proposal"} \ {"none"} : RegisterPendingTransaction(a)

Spec == Init /\ [][Next]_vars
-----------------------------------------------------------------------------
TypeOK ==
    /\ Len(chain) <= MaxBlocks /\ hash \in 0 .. Len(chain)
    /\ applied \subseteq DOMAIN chain /\ cursor \in 0 .. Len(chain)
    /\ \A w \in Wallets : {db.options[w], db.votes[w]} \subseteq 0 .. 1
    /\ \A s \in Syncers : syncs[s].at = "fetched" => syncs[s].upto <= Len(chain)
    /\ pending.status \in {"none", "pending", "confirmed"}

\* The tables are what the first events of the contract make of them, each applied
\* once and in order, whatever was read twice, stored late or rolled back.
ProjectionIsReplay ==
    LET n == Cardinality(applied)
    IN  applied = 1 .. n /\ db = Replay(chain, Empty, 1 .. n)

\* No event at or below the cursor is left out, so none is ever skipped, although
\* two synchronisations store the cursor without comparing it.
CursorNeverSkips == 1 .. cursor \subseteq applied

\* A transaction is shown as confirmed exactly when its event was applied after it
\* was registered with the right action, however often it is posted again.
StatusTellsProjection ==
    pending.status = "confirmed" <=> (pending.due /\ hash \in applied)

\* The database keeps ProjectionPromise, although synchronisations overlap, write what
\* they read long before, store late, and fail at any step.
Promise == INSTANCE ProjectionPromise WITH
    taken <- Cardinality(applied), mined <- hash, confirmed <- (pending.status = "confirmed")
KeepsPromise == Promise!Spec
=============================================================================
