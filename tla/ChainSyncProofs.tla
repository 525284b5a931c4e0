---------------------------- MODULE ChainSyncProofs ----------------------------
(***************************************************************************)
(* Proofs about ChainSync: its types, that no event is skipped, that a     *)
(* registered transaction tells what the projection did with its event,    *)
(* that the tables are the replay of the first events of the chain, and    *)
(* that all this implements ProjectionPromise.                             *)
(***************************************************************************)
EXTENDS ChainSync, FiniteSetTheorems, WellFoundedInduction, TLAPS

(***************************************************************************)
(* Induction over the natural numbers, with a set in place of a predicate: *)
(* a set that holds 0 and the successors of its elements holds them all.   *)
(***************************************************************************)
LEMMA SetInduction ==
  ASSUME NEW T, 0 \in T, \A n \in Nat : n \in T => n + 1 \in T
  PROVE  \A n \in Nat : n \in T
  <1> DEFINE R == {ss \in Nat \X Nat : ss[1] < ss[2]}
             Out == {n \in Nat : n \notin T}
  <1>1. IsWellFoundedOn(R, Nat)
    BY NatLessThanWellFounded DEF OpToRel
  <1>2. \A x, y \in Nat : x < y => <<x, y>> \in R
    OBVIOUS
  <1> HIDE DEF R
  <1>3. ASSUME Out # {} PROVE FALSE
    <2>1. PICK x \in Out : \A y \in Out : ~(<<y, x>> \in R)
      BY <1>1, <1>3, WFMin
    <2>2. x \in Nat /\ x # 0
      OBVIOUS
    <2>3. x - 1 \in Nat /\ x - 1 < x
      BY <2>2
    <2>4. x - 1 \in T
      BY <1>2, <2>1, <2>2, <2>3
    <2>5. (x - 1) + 1 \in T
      BY <2>3, <2>4
    <2> QED
      BY <2>2, <2>5
  <1> QED
    BY <1>3

(***************************************************************************)
(* A run of the projection over the blocks of chain c that are in B: what  *)
(* the tables are after each block.                                        *)
(***************************************************************************)
IsRun(g, c, d, B) ==
    /\ g = [b \in 0 .. Len(c) |-> g[b]]
    /\ g[0] = d
    /\ \A b \in 1 .. Len(c) :
          g[b] = IF b \in B THEN applyChainEvent(g[b - 1], c[b]) ELSE g[b - 1]

(***************************************************************************)
(* There is a run, whatever the chain, the tables and the blocks are.      *)
(***************************************************************************)
LEMMA RunExists ==
  ASSUME NEW c, Len(c) \in Nat, NEW d, NEW B
  PROVE  \E g : IsRun(g, c, d, B)
  <1> DEFINE Step(x, b) == IF b \in B THEN applyChainEvent(x, c[b]) ELSE x
             Upto(g, n) == /\ g = [b \in 0 .. n |-> g[b]]
                           /\ g[0] = d
                           /\ \A b \in 1 .. n : g[b] = Step(g[b - 1], b)
             T == {n \in Nat : \E g : Upto(g, n)}
  <1>1. 0 \in T
    <2> DEFINE g == [b \in 0 .. 0 |-> d]
    <2>1. Upto(g, 0)
      OBVIOUS
    <2> QED
      BY <2>1
  <1>2. ASSUME NEW n \in Nat, n \in T PROVE n + 1 \in T
    <2>1. PICK g : Upto(g, n)
      BY <1>2
    <2> DEFINE h == [b \in 0 .. n + 1 |-> IF b = n + 1 THEN Step(g[n], n + 1) ELSE g[b]]
    <2> HIDE DEF Step
    <2>2. h[0] = d /\ h = [b \in 0 .. n + 1 |-> h[b]]
      BY <2>1
    <2>3. \A b \in 1 .. n + 1 : h[b] = Step(h[b - 1], b)
      <3> TAKE b \in 1 .. n + 1
      <3>1. CASE b = n + 1
        <4>1. h[b] = Step(g[n], n + 1) /\ h[b - 1] = g[n]
          BY <3>1
        <4> QED
          BY <4>1, <3>1
      <3>2. CASE b # n + 1
        <4>1. b \in 1 .. n /\ b - 1 \in 0 .. n /\ b - 1 # n + 1
          BY <3>2
        <4>2. h[b] = g[b] /\ h[b - 1] = g[b - 1]
          BY <4>1
        <4> QED
          BY <4>1, <4>2, <2>1
      <3> QED
        BY <3>1, <3>2
    <2>4. Upto(h, n + 1)
      BY <2>2, <2>3
    <2> HIDE DEF Upto, h
    <2> QED
      BY <2>4
  <1> HIDE DEF Upto
  <1>3. \A n \in Nat : n \in T
    <2> HIDE DEF T
    <2> QED
      BY <1>1, <1>2, SetInduction
  <1>4. PICK g : Upto(g, Len(c))
    BY <1>3
  <1>5. IsRun(g, c, d, B)
    BY <1>4 DEF IsRun, Upto
  <1> QED
    BY <1>5

(***************************************************************************)
(* Replay is the last state of a run.                                      *)
(***************************************************************************)
LEMMA ReplayIsRun ==
  ASSUME NEW c, Len(c) \in Nat, NEW d, NEW B
  PROVE  \E g : IsRun(g, c, d, B) /\ Replay(c, d, B) = g[Len(c)]
  <1> DEFINE F(g) == [b \in 0 .. Len(c) |->
                        IF b = 0 THEN d
                        ELSE IF b \in B THEN applyChainEvent(g[b - 1], c[b])
                        ELSE g[b - 1]]
             after == CHOOSE g : g = F(g)
  <1>1. Replay(c, d, B) = after[Len(c)]
    BY DEF Replay
  <1>2. PICK g : IsRun(g, c, d, B)
    BY RunExists
  <1>3. \A b \in 0 .. Len(c) : g[b] = F(g)[b]
    <2> TAKE b \in 0 .. Len(c)
    <2>1. F(g)[b] = IF b = 0 THEN d
                    ELSE IF b \in B THEN applyChainEvent(g[b - 1], c[b])
                    ELSE g[b - 1]
      OBVIOUS
    <2> HIDE DEF F
    <2>2. CASE b = 0
      BY <1>2, <2>1, <2>2 DEF IsRun
    <2>3. CASE b # 0
      <3>1. b \in 1 .. Len(c)
        BY <2>3
      <3> QED
        BY <1>2, <2>1, <2>3, <3>1 DEF IsRun
    <2> QED
      BY <2>2, <2>3
  <1>4. g = F(g)
    BY <1>2, <1>3 DEF IsRun
  <1>5. after = F(after)
    <2> HIDE DEF F
    <2> QED
      BY <1>4
  <1> HIDE DEF after
  <1>6. IsRun(after, c, d, B)
    BY <1>5 DEF IsRun
  <1> QED
    BY <1>1, <1>6

(***************************************************************************)
(* Events are applied in the order of the blocks: to replay the first n    *)
(* and then those up to m is to replay the first m.                        *)
(***************************************************************************)
LEMMA ReplaySplit ==
  ASSUME NEW c, Len(c) \in Nat, NEW d,
         NEW n \in 0 .. Len(c), NEW m \in n .. Len(c)
  PROVE  Replay(c, Replay(c, d, 1 .. n), (n + 1) .. m) = Replay(c, d, 1 .. m)
  <1>1. PICK g : IsRun(g, c, d, 1 .. n) /\ Replay(c, d, 1 .. n) = g[Len(c)]
    BY ReplayIsRun
  <1>2. PICK h : /\ IsRun(h, c, g[Len(c)], (n + 1) .. m)
                 /\ Replay(c, g[Len(c)], (n + 1) .. m) = h[Len(c)]
    BY ReplayIsRun
  <1>3. PICK k : IsRun(k, c, d, 1 .. m) /\ Replay(c, d, 1 .. m) = k[Len(c)]
    BY ReplayIsRun
  <1> DEFINE Same(b) == /\ b <= n => k[b] = g[b] /\ h[b] = g[Len(c)]
                        /\ b >= n => g[b] = g[n]
             T == {b \in Nat : b <= Len(c) => Same(b)}
             Joined == {b \in Nat : n <= b /\ b <= Len(c) => h[b] = k[b]}
  <1>4. 0 \in T
    <2>1. k[0] = d /\ g[0] = d /\ h[0] = g[Len(c)]
      BY <1>1, <1>2, <1>3 DEF IsRun
    <2>2. Same(0)
      BY <2>1
    <2> QED
      BY <2>2
  <1>5. ASSUME NEW b \in Nat, b \in T PROVE b + 1 \in T
    <2> SUFFICES ASSUME b + 1 <= Len(c) PROVE Same(b + 1)
      OBVIOUS
    <2>1. Same(b)
      BY <1>5
    <2> DEFINE a == b + 1
    <2>2. a \in 1 .. Len(c) /\ a - 1 = b
      OBVIOUS
    <2> HIDE DEF a
    <2>3. /\ g[a] = IF a \in 1 .. n THEN applyChainEvent(g[b], c[a]) ELSE g[b]
          /\ h[a] = IF a \in (n + 1) .. m THEN applyChainEvent(h[b], c[a]) ELSE h[b]
          /\ k[a] = IF a \in 1 .. m THEN applyChainEvent(k[b], c[a]) ELSE k[b]
      BY <1>1, <1>2, <1>3, <2>2 DEF IsRun
    <2>4. a <= n => k[a] = g[a] /\ h[a] = g[Len(c)]
      BY <2>1, <2>2, <2>3 DEF a
    <2>5. a >= n => g[a] = g[n]
      BY <2>1, <2>2, <2>3 DEF a
    <2> QED
      BY <2>4, <2>5 DEF a
  <1>6. \A b \in Nat : b \in T
    <2> HIDE DEF T
    <2> QED
      BY <1>4, <1>5, SetInduction
  <1>7. Same(n) /\ Same(Len(c))
    BY <1>6
  <1>8. h[n] = k[n]
    BY <1>7
  <1>9. ASSUME NEW b \in Nat, b \in Joined PROVE b + 1 \in Joined
    <2> SUFFICES ASSUME n <= b + 1, b + 1 <= Len(c) PROVE h[b + 1] = k[b + 1]
      OBVIOUS
    <2>1. CASE n = b + 1
      BY <1>8, <2>1
    <2>2. CASE n # b + 1
      <3>1. h[b] = k[b] /\ b + 1 \in 1 .. Len(c) /\ (b + 1) - 1 = b /\ n < b + 1
        BY <1>9, <2>2
      <3>2. /\ h[b + 1] = IF b + 1 \in (n + 1) .. m THEN applyChainEvent(h[b], c[b + 1]) ELSE h[b]
            /\ k[b + 1] = IF b + 1 \in 1 .. m THEN applyChainEvent(k[b], c[b + 1]) ELSE k[b]
        BY <1>2, <1>3, <3>1 DEF IsRun
      <3>3. b + 1 \in (n + 1) .. m <=> b + 1 \in 1 .. m
        BY <3>1
      <3> QED
        BY <3>1, <3>2, <3>3
    <2> QED
      BY <2>1, <2>2
  <1>10. 0 \in Joined
    BY <1>8
  <1>11. \A b \in Nat : b \in Joined
    <2> HIDE DEF Joined
    <2> QED
      BY <1>9, <1>10, SetInduction
  <1>12. h[Len(c)] = k[Len(c)]
    BY <1>11
  <1> QED
    BY <1>1, <1>2, <1>3, <1>12

(***************************************************************************)
(* To replay no block is to do nothing.                                    *)
(***************************************************************************)
LEMMA ReplayNothing ==
  ASSUME NEW c, Len(c) \in Nat, NEW d
  PROVE  Replay(c, d, {}) = d
  <1>1. PICK g : IsRun(g, c, d, {}) /\ Replay(c, d, {}) = g[Len(c)]
    BY ReplayIsRun
  <1> DEFINE T == {b \in Nat : b <= Len(c) => g[b] = d}
  <1>2. 0 \in T
    BY <1>1 DEF IsRun
  <1>3. ASSUME NEW b \in Nat, b \in T PROVE b + 1 \in T
    <2> SUFFICES ASSUME b + 1 <= Len(c) PROVE g[b + 1] = d
      OBVIOUS
    <2>1. g[b] = d /\ b + 1 \in 1 .. Len(c) /\ (b + 1) - 1 = b
      BY <1>3
    <2> QED
      BY <1>1, <2>1 DEF IsRun
  <1>4. \A b \in Nat : b \in T
    <2> HIDE DEF T
    <2> QED
      BY <1>2, <1>3, SetInduction
  <1> QED
    BY <1>1, <1>4

(***************************************************************************)
(* A new block changes nothing of the replay of the blocks before it.      *)
(***************************************************************************)
LEMMA ReplayAppend ==
  ASSUME NEW S, NEW c \in Seq(S), NEW e \in S, NEW d, NEW n \in 0 .. Len(c)
  PROVE  Replay(Append(c, e), d, 1 .. n) = Replay(c, d, 1 .. n)
  <1> DEFINE a == Append(c, e)
  <1>1. Len(c) \in Nat /\ Len(a) = Len(c) + 1 /\ \A b \in 1 .. Len(c) : a[b] = c[b]
    OBVIOUS
  <1> HIDE DEF a
  <1>2. PICK g : IsRun(g, c, d, 1 .. n) /\ Replay(c, d, 1 .. n) = g[Len(c)]
    BY <1>1, ReplayIsRun
  <1>3. PICK h : IsRun(h, a, d, 1 .. n) /\ Replay(a, d, 1 .. n) = h[Len(a)]
    BY <1>1, ReplayIsRun
  <1> DEFINE T == {b \in Nat : b <= Len(c) => h[b] = g[b]}
  <1>4. 0 \in T
    BY <1>2, <1>3 DEF IsRun
  <1>5. ASSUME NEW b \in Nat, b \in T PROVE b + 1 \in T
    <2> SUFFICES ASSUME b + 1 <= Len(c) PROVE h[b + 1] = g[b + 1]
      OBVIOUS
    <2>1. h[b] = g[b] /\ b + 1 \in 1 .. Len(c) /\ b + 1 \in 1 .. Len(a) /\ (b + 1) - 1 = b
      BY <1>1, <1>5
    <2>2. a[b + 1] = c[b + 1]
      BY <1>1, <2>1
    <2>3. /\ g[b + 1] = IF b + 1 \in 1 .. n THEN applyChainEvent(g[b], c[b + 1]) ELSE g[b]
          /\ h[b + 1] = IF b + 1 \in 1 .. n THEN applyChainEvent(h[b], a[b + 1]) ELSE h[b]
      BY <1>2, <1>3, <2>1 DEF IsRun
    <2> QED
      BY <2>1, <2>2, <2>3
  <1>6. \A b \in Nat : b \in T
    <2> HIDE DEF T
    <2> QED
      BY <1>4, <1>5, SetInduction
  <1>7. h[Len(c)] = g[Len(c)]
    BY <1>1, <1>6
  <1>8. h[Len(a)] = h[Len(c)]
    <2>1. Len(a) \in 1 .. Len(a) /\ Len(a) - 1 = Len(c) /\ Len(a) \notin 1 .. n
      BY <1>1
    <2> QED
      BY <1>3, <2>1 DEF IsRun
  <1> QED
    BY <1>2, <1>3, <1>7, <1>8 DEF a

(***************************************************************************)
(* What the tables of the projection hold, and what the contract emits.    *)
(***************************************************************************)
Tables ==
    [created : BOOLEAN, option : BOOLEAN, winner : BOOLEAN, settled : BOOLEAN,
     options : [Wallets -> Nat], votes : [Wallets -> Nat],
     order : [Wallets -> {"none", "paid_onchain", "cancelled_onchain"}],
     rewards : [Wallets -> Nat], subscribed : SUBSET Wallets]

Events == {e \in [name : Names, by : Wallets \cup {"anyone"}] : e.by \in Callers(e.name)}

(***************************************************************************)
(* An event leaves the tables well typed.                                  *)
(***************************************************************************)
LEMMA EventKeepsTables ==
  ASSUME NEW d \in Tables, NEW e \in Events
  PROVE  applyChainEvent(d, e) \in Tables
  <1> DEFINE w == e.by
  <1>1. ensureProposalForChain(d) \in Tables
    BY DEF Tables, ensureProposalForChain
  <1>2. \A t \in Tables : [t EXCEPT !.option = TRUE] \in Tables
    BY DEF Tables
  <1>3. ensureOptionForChain(d) \in Tables
    BY <1>1, <1>2 DEF ensureOptionForChain
  <1>4. e.name \in Names
    BY DEF Events
  <1>5. e.name \notin {"ProposalCreated", "VoteFinalized", "ProposalSettled"}
        => w \in Wallets
    BY DEF Events, Callers
  <1>6. \A t \in Tables : w \in Wallets => [t EXCEPT !.votes[w] = @ + 1] \in Tables
    <2> SUFFICES ASSUME NEW t \in Tables, w \in Wallets
                 PROVE  [t EXCEPT !.votes[w] = @ + 1] \in Tables
      OBVIOUS
    <2>1. [t.votes EXCEPT ![w] = @ + 1] \in [Wallets -> Nat]
      BY DEF Tables
    <2> QED
      BY <2>1 DEF Tables
  <1>13. \A t \in Tables : w \in Wallets => [t EXCEPT !.options[w] = @ + 1] \in Tables
    <2> SUFFICES ASSUME NEW t \in Tables, w \in Wallets
                 PROVE  [t EXCEPT !.options[w] = @ + 1] \in Tables
      OBVIOUS
    <2>1. [t.options EXCEPT ![w] = @ + 1] \in [Wallets -> Nat]
      BY DEF Tables
    <2> QED
      BY <2>1 DEF Tables
  <1>7. \A t \in Tables : w \in Wallets => [t EXCEPT !.order[w] = "paid_onchain"] \in Tables
    BY DEF Tables
  <1>8. \A t \in Tables : w \in Wallets =>
           [t EXCEPT !.order[w] = IF @ = "none" THEN "none" ELSE "cancelled_onchain"] \in Tables
    BY DEF Tables
  <1>9. \A t \in Tables : w \in Wallets => [t EXCEPT !.rewards[w] = @ + 1] \in Tables
    <2> SUFFICES ASSUME NEW t \in Tables, w \in Wallets
                 PROVE  [t EXCEPT !.rewards[w] = @ + 1] \in Tables
      OBVIOUS
    <2>1. [t.rewards EXCEPT ![w] = @ + 1] \in [Wallets -> Nat]
      BY DEF Tables
    <2> QED
      BY <2>1 DEF Tables
  <1>10. \A t \in Tables : w \in Wallets => [t EXCEPT !.subscribed = @ \cup {w}] \in Tables
    BY DEF Tables
  <1>11. \A t \in Tables : /\ [t EXCEPT !.settled = TRUE] \in Tables
                           /\ [t EXCEPT !.winner = TRUE] \in Tables
    BY DEF Tables
  <1>12. Names = {"ProposalCreated", "OptionAdded", "Voted", "OrderPlaced", "OrderCancelled",
                  "ProposalSettled", "SubscriptionPaid", "VoteFinalized", "RewardAllocated"}
    BY DEF Names, actionByEvent
  <1> HIDE DEF w
  <1>a. CASE e.name = "ProposalCreated"
    BY <1>a, <1>1 DEF applyChainEvent
  <1>b. CASE e.name = "OptionAdded"
    BY <1>b, <1>3, <1>5, <1>13 DEF applyChainEvent, applyOptionAddedEvent, w
  <1>c. CASE e.name = "Voted"
    BY <1>c, <1>3, <1>5, <1>6 DEF applyChainEvent, applyVoteEvent, w
  <1>d. CASE e.name = "VoteFinalized"
    BY <1>d, <1>3, <1>11 DEF applyChainEvent, applyVoteFinalizedEvent
  <1>e. CASE e.name = "ProposalSettled"
    BY <1>e, <1>11 DEF applyChainEvent
  <1>f. CASE e.name = "OrderPlaced"
    BY <1>f, <1>1, <1>5, <1>7 DEF applyChainEvent, applyOrderPlacedEvent, w
  <1>g. CASE e.name = "OrderCancelled"
    BY <1>g, <1>1, <1>5, <1>8 DEF applyChainEvent, applyOrderCancelledEvent, w
  <1>h. CASE e.name = "RewardAllocated"
    BY <1>h, <1>5, <1>9 DEF applyChainEvent, applyRewardAllocatedEvent, w
  <1>i. CASE e.name = "SubscriptionPaid"
    BY <1>i, <1>5, <1>10 DEF applyChainEvent, applySubscriptionPaidEvent, w
  <1> QED
    BY <1>4, <1>12, <1>a, <1>b, <1>c, <1>d, <1>e, <1>f, <1>g, <1>h, <1>i

(***************************************************************************)
(* So does a replay.                                                       *)
(***************************************************************************)
LEMMA ReplayKeepsTables ==
  ASSUME NEW c \in Seq(Events), NEW d \in Tables, NEW B
  PROVE  Replay(c, d, B) \in Tables
  <1>1. Len(c) \in Nat /\ \A b \in 1 .. Len(c) : c[b] \in Events
    OBVIOUS
  <1>2. PICK g : IsRun(g, c, d, B) /\ Replay(c, d, B) = g[Len(c)]
    BY <1>1, ReplayIsRun
  <1> DEFINE T == {b \in Nat : b <= Len(c) => g[b] \in Tables}
  <1>3. 0 \in T
    BY <1>2 DEF IsRun
  <1>4. ASSUME NEW b \in Nat, b \in T PROVE b + 1 \in T
    <2> SUFFICES ASSUME b + 1 <= Len(c) PROVE g[b + 1] \in Tables
      OBVIOUS
    <2>1. g[b] \in Tables /\ b + 1 \in 1 .. Len(c) /\ (b + 1) - 1 = b
      BY <1>1, <1>4
    <2>2. applyChainEvent(g[b], c[b + 1]) \in Tables
      BY <1>1, <2>1, EventKeepsTables
    <2>3. g[b + 1] = IF b + 1 \in B THEN applyChainEvent(g[b], c[b + 1]) ELSE g[b]
      BY <1>2, <2>1 DEF IsRun
    <2> QED
      BY <2>1, <2>2, <2>3
  <1>5. \A b \in Nat : b \in T
    <2> HIDE DEF T
    <2> QED
      BY <1>3, <1>4, SetInduction
  <1> QED
    BY <1>1, <1>2, <1>5

(***************************************************************************)
(* The inductive invariant: the first n blocks are applied, the tables are *)
(* their replay, and neither the cursor nor a synchronisation in flight    *)
(* starts behind the block after them.                                     *)
(***************************************************************************)
ChainInv ==
    /\ chain \in Seq(Events) /\ Len(chain) <= MaxBlocks
    /\ hash \in 0 .. Len(chain)

Reads == {"read", "fetched"}
SyncerInv(s, n) ==
    /\ syncs[s].from \in Nat /\ syncs[s].upto \in Nat
    /\ syncs[s].at \in Reads => syncs[s].from \in 1 .. n + 1
    /\ syncs[s].at = "fetched" => syncs[s].upto \in 0 .. Len(chain)

Progressed(n) ==
    /\ applied = 1 .. n
    /\ db = Replay(chain, Empty, 1 .. n)
    /\ cursor \in 0 .. n
    /\ \A s \in Syncers : SyncerInv(s, n)

SyncsInv ==
    /\ syncs \in [Syncers -> [at : {"idle"} \cup Reads, from : Nat, upto : Nat]]
    /\ \A w \in Wallets : {db.options[w], db.votes[w]} \subseteq 0 .. 1
    /\ \E n \in 0 .. Len(chain) : Progressed(n)

(***************************************************************************)
(* The row of the registered transaction: as long as its event is not      *)
(* applied it is due exactly when it was posted last with the action of    *)
(* the event; from then on it is confirmed exactly when it was due.        *)
(***************************************************************************)
ActionNames == {"none", "create_proposal", "add_option", "vote", "place_order",
                "cancel_order", "settle_proposal", "subscribe"}

PendingInv ==
    /\ pending \in [action : ActionNames, status : {"none", "pending", "confirmed"},
                    posts : Nat, due : BOOLEAN]
    /\ pending.status = "none" => pending.action = "none" /\ ~pending.due
    /\ hash = 0 => pending.status = "none"
    /\ hash \notin applied =>
          /\ pending.status # "confirmed"
          /\ pending.due <=> /\ pending.status = "pending"
                             /\ pending.action = ActionOfHash
                             /\ ActionOfHash # "none"
    /\ hash \in applied => (pending.status = "confirmed" <=> pending.due)

SyncInv == ChainInv /\ SyncsInv /\ PendingInv

(***************************************************************************)
(* The action a client may register is one of the seven, or none.          *)
(***************************************************************************)
LEMMA ActionsAreKnown ==
  /\ \A x \in DOMAIN actionByEvent : actionByEvent[x] \in ActionNames \ {"none"}
  /\ ActionOfHash \in ActionNames
  BY DEF actionByEvent, ActionOfHash, ActionNames

(***************************************************************************)
(* The tables hold what they should, whatever was applied.                 *)
(***************************************************************************)
LEMMA TablesTyped ==
  ASSUME SyncInv
  PROVE  db \in Tables
  <1>1. PICK n \in 0 .. Len(chain) : Progressed(n)
    BY DEF SyncInv, SyncsInv
  <1>2. Empty \in Tables
    BY DEF Empty, Tables
  <1> QED
    BY <1>1, <1>2, ReplayKeepsTables DEF SyncInv, ChainInv, Progressed

(***************************************************************************)
(* The initial states.                                                     *)
(***************************************************************************)
LEMMA InitEstablishes ==
  ASSUME Init PROVE SyncInv
  <1>0. PICK w \in Wallets : chain = Opened(w)
    BY DEF Init
  <1>a. chain \in Seq(Events) /\ Len(chain) = 2
    <2>1. /\ [name |-> "ProposalCreated", by |-> "anyone"] \in Events
          /\ [name |-> "OptionAdded", by |-> w] \in Events
      BY DEF Events, Callers, Names, actionByEvent
    <2> QED
      BY <1>0, <2>1 DEF Opened
  <1> USE DEF Init
  <1>1. ChainInv
    BY <1>a, ChainConstants DEF ChainInv
  <1>2. SyncsInv
    <2>1. 0 \in 0 .. Len(chain) /\ 1 .. 0 = {}
      BY <1>a
    <2>2. db = Replay(chain, Empty, 1 .. 0)
      BY <1>a, <2>1, ReplayNothing
    <2>3. \A s \in Syncers : syncs[s] = Idle
      OBVIOUS
    <2>4. Progressed(0)
      BY <2>1, <2>2, <2>3 DEF Progressed, SyncerInv, Idle, Reads
    <2>5. syncs \in [Syncers -> [at : {"idle"} \cup Reads, from : Nat, upto : Nat]]
      BY DEF Idle, Reads
    <2>6. \A v \in Wallets : {db.options[v], db.votes[v]} \subseteq 0 .. 1
      BY DEF Empty
    <2> HIDE DEF Progressed
    <2> QED
      BY <2>1, <2>4, <2>5, <2>6 DEF SyncsInv
  <1>3. PendingInv
    BY DEF PendingInv, ActionNames
  <1> QED
    BY <1>1, <1>2, <1>3 DEF SyncInv

(***************************************************************************)
(* A new block.                                                            *)
(***************************************************************************)
LEMMA EmitKeeps ==
  ASSUME SyncInv, NEW x \in Names, NEW w \in Callers(x), Emit([name |-> x, by |-> w])
  PROVE  SyncInv'
  <1> DEFINE e == [name |-> x, by |-> w]
  <1>1. e \in Events
    BY DEF Events, Callers
  <1> HIDE DEF e
  <1>2. /\ chain' = Append(chain, e) /\ Len(chain) < MaxBlocks
        /\ hash' \in {hash} \cup (IF hash = 0 THEN {Len(chain) + 1} ELSE {})
        /\ UNCHANGED <<applied, db, cursor, syncs, pending>>
    BY DEF Emit, e
  <1>3. /\ chain \in Seq(Events) /\ Len(chain) \in Nat /\ hash \in 0 .. Len(chain)
    BY DEF SyncInv, ChainInv
  <1>4. /\ chain' \in Seq(Events) /\ Len(chain') = Len(chain) + 1
        /\ \A b \in 1 .. Len(chain) : chain'[b] = chain[b]
    BY <1>1, <1>2, <1>3
  <1>5. ChainInv'
    BY <1>2, <1>3, <1>4, ChainConstants DEF ChainInv
  <1>6. SyncsInv'
    <2>1. PICK n \in 0 .. Len(chain) : Progressed(n)
      BY DEF SyncInv, SyncsInv
    <2>2. Replay(chain', Empty, 1 .. n) = Replay(chain, Empty, 1 .. n)
      BY <1>1, <1>2, <1>3, ReplayAppend
    <2>3. \A s \in Syncers : SyncerInv(s, n)'
      BY <1>2, <1>3, <1>4, <2>1 DEF Progressed, SyncerInv
    <2>4. Progressed(n)'
      BY <1>2, <2>1, <2>2, <2>3 DEF Progressed
    <2>5. n \in 0 .. Len(chain')
      BY <1>3, <1>4
    <2> QED
      BY <1>2, <2>4, <2>5 DEF SyncInv, SyncsInv
  <1>7. PendingInv'
    <2>1. CASE hash' = hash
      <3>1. ActionOfHash' = ActionOfHash
        BY <1>3, <1>4, <2>1 DEF ActionOfHash
      <3> QED
        BY <1>2, <2>1, <3>1 DEF SyncInv, PendingInv
    <2>2. CASE hash' # hash
      <3>1. hash = 0 /\ hash' = Len(chain) + 1
        BY <1>2, <2>2
      <3>2. PICK n \in 0 .. Len(chain) : Progressed(n)
        BY DEF SyncInv, SyncsInv
      <3>3. hash' \notin applied /\ hash' # 0
        BY <1>3, <3>1, <3>2 DEF Progressed
      <3>4. pending.status = "none" /\ ~pending.due
        BY <3>1 DEF SyncInv, PendingInv
      <3> QED
        BY <1>2, <3>3, <3>4 DEF SyncInv, PendingInv
    <2> QED
      BY <2>1, <2>2
  <1> QED
    BY <1>5, <1>6, <1>7 DEF SyncInv

(***************************************************************************)
(* The steps of a synchronisation that store no event.                     *)
(***************************************************************************)
LEMMA SyncKeeps ==
  ASSUME SyncInv, NEW s \in Syncers,
         ReadStatus(s) \/ SyncRange(s) \/ SyncRangeFails(s) \/ StoreFails(s)
  PROVE  SyncInv'
  <1>1. chain' = chain /\ applied' = applied /\ db' = db /\ hash' = hash /\ pending' = pending
    BY DEF ReadStatus, SyncRange, SyncRangeFails, StoreFails
  <1>2. ChainInv' /\ PendingInv'
    BY <1>1 DEF SyncInv, ChainInv, PendingInv, ActionOfHash
  <1>3. PICK n \in 0 .. Len(chain) : Progressed(n)
    BY DEF SyncInv, SyncsInv
  <1>4. /\ n \in Nat /\ Len(chain) \in Nat /\ n <= Len(chain)
        /\ cursor \in 0 .. n /\ SyncerInv(s, n)
        /\ syncs \in [Syncers -> [at : {"idle"} \cup Reads, from : Nat, upto : Nat]]
        /\ Batch \in Nat
    BY <1>3, ChainConstants DEF SyncInv, SyncsInv, ChainInv, Progressed
  <1> DEFINE Kept == /\ cursor' \in 0 .. n
                     /\ syncs' \in [Syncers -> [at : {"idle"} \cup Reads, from : Nat, upto : Nat]]
                     /\ \A r \in Syncers : r # s => syncs'[r] = syncs[r]
                     /\ SyncerInv(s, n)'
  <1>5. SUFFICES Kept
    <2>1. \A r \in Syncers : SyncerInv(r, n)'
      BY <1>1, <1>3, <1>5 DEF SyncerInv, Progressed
    <2>2. Progressed(n)'
      BY <1>1, <1>3, <1>5, <2>1 DEF Progressed
    <2>3. SyncsInv'
      BY <1>1, <1>5, <2>2 DEF SyncInv, SyncsInv
    <2> QED
      BY <1>2, <2>3 DEF SyncInv
  <1>6. CASE ReadStatus(s)
    <2>1. /\ cursor' = cursor
          /\ syncs' = [syncs EXCEPT ![s] = [at |-> "read", from |-> cursor + 1, upto |-> 0]]
      BY <1>6 DEF ReadStatus, FromBlock
    <2>2. [at |-> "read", from |-> cursor + 1, upto |-> 0]
             \in [at : {"idle"} \cup Reads, from : Nat, upto : Nat]
      BY <1>4 DEF Reads
    <2> QED
      BY <1>1, <1>4, <2>1, <2>2 DEF SyncerInv
  <1>7. CASE SyncRange(s)
    <2>1. PICK latest \in 0 .. Len(chain) :
             syncs' = [syncs EXCEPT ![s].at = "fetched",
                                    ![s].upto = LastOfBatch(syncs[s].from, latest)]
      BY <1>7 DEF SyncRange
    <2> DEFINE u == LastOfBatch(syncs[s].from, latest)
    <2>2. cursor' = cursor /\ syncs[s].at = "read"
      BY <1>7 DEF SyncRange
    <2>3. syncs[s].from \in 1 .. n + 1
      BY <1>4, <2>2 DEF SyncerInv, Reads
    <2>4. u \in 0 .. Len(chain)
      BY <1>4, <2>3 DEF LastOfBatch
    <2> HIDE DEF u
    <2> DEFINE q == [syncs EXCEPT ![s].at = "fetched"]
    <2>5. /\ q \in [Syncers -> [at : {"idle"} \cup Reads, from : Nat, upto : Nat]]
          /\ \A r \in Syncers : r # s => q[r] = syncs[r]
          /\ q[s].at = "fetched" /\ q[s].from = syncs[s].from
      BY <1>4 DEF Reads
    <2>6. syncs' = [q EXCEPT ![s].upto = u]
      BY <2>1 DEF u
    <2> HIDE DEF q
    <2>7. /\ syncs' \in [Syncers -> [at : {"idle"} \cup Reads, from : Nat, upto : Nat]]
          /\ \A r \in Syncers : r # s => syncs'[r] = syncs[r]
          /\ syncs'[s].at = "fetched" /\ syncs'[s].from = syncs[s].from /\ syncs'[s].upto = u
      <3>1. u \in Nat
        BY <1>4, <2>4
      <3> QED
        BY <2>5, <2>6, <3>1
    <2> QED
      BY <1>1, <1>4, <2>2, <2>3, <2>4, <2>7 DEF SyncerInv
  <1>8. ASSUME syncs' = [syncs EXCEPT ![s] = Idle], cursor' \in 0 .. n PROVE Kept
    <2>1. Idle \in [at : {"idle"} \cup Reads, from : Nat, upto : Nat]
      BY DEF Idle
    <2>2. SyncerInv(s, n)'
      BY <1>1, <1>4, <1>8 DEF SyncerInv, Idle, Reads
    <2> QED
      BY <1>4, <1>8, <2>1, <2>2
  <1>9. CASE SyncRangeFails(s)
    <2>1. syncs[s].at = "read" /\ cursor' = syncs[s].from - 1 /\ syncs' = [syncs EXCEPT ![s] = Idle]
      BY <1>9 DEF SyncRangeFails
    <2>2. syncs[s].from \in 1 .. n + 1
      BY <1>4, <2>1 DEF SyncerInv, Reads
    <2>3. cursor' \in 0 .. n
      BY <1>4, <2>1, <2>2
    <2> QED
      BY <1>8, <2>1, <2>3
  <1>10. CASE StoreFails(s)
    BY <1>4, <1>8, <1>10 DEF StoreFails
  <1> QED
    BY <1>6, <1>7, <1>9, <1>10

(***************************************************************************)
(* A batch is stored.                                                      *)
(***************************************************************************)
LEMMA StoreKeeps ==
  ASSUME SyncInv, NEW s \in Syncers, StoreChainEvents(s)
  PROVE  SyncInv'
  <1>1. PICK n \in 0 .. Len(chain) : Progressed(n)
    BY DEF SyncInv, SyncsInv
  <1> DEFINE from == syncs[s].from
             upto == syncs[s].upto
             fresh == NotApplied(s)
  <1>2. /\ syncs[s].at = "fetched" /\ Storable(Replay(chain, db, fresh))
        /\ db' = Replay(chain, db, fresh) /\ applied' = applied \cup fresh
        /\ pending' = matchPendingTransaction(fresh)
        /\ cursor' = upto
        /\ syncs' = [syncs EXCEPT ![s] = Idle]
        /\ chain' = chain /\ hash' = hash
    BY DEF StoreChainEvents
  <1>3. /\ Len(chain) \in Nat /\ n \in Nat /\ n <= Len(chain) /\ chain \in Seq(Events)
        /\ syncs \in [Syncers -> [at : {"idle"} \cup Reads, from : Nat, upto : Nat]]
        /\ applied = 1 .. n
    BY <1>1 DEF SyncInv, SyncsInv, ChainInv, Progressed
  <1>4. from \in 1 .. n + 1 /\ upto \in 0 .. Len(chain)
    BY <1>1, <1>2 DEF Progressed, SyncerInv, Reads
  <1>5. PICK m \in n .. Len(chain) : m = IF upto > n THEN upto ELSE n
    BY <1>3, <1>4
  <1>a. upto \in 0 .. m
    BY <1>3, <1>4, <1>5
  <1>6. fresh = (n + 1) .. m
    BY <1>3, <1>4, <1>5 DEF NotApplied, Fetched
  <1> HIDE DEF fresh, from, upto
  <1>7. applied' = 1 .. m
    BY <1>2, <1>3, <1>5, <1>6
  <1>8. db' = Replay(chain', Empty, 1 .. m)
    <2>1. Replay(chain, Replay(chain, Empty, 1 .. n), (n + 1) .. m) = Replay(chain, Empty, 1 .. m)
      BY <1>3, <1>5, ReplaySplit
    <2> QED
      BY <1>1, <1>2, <1>6, <2>1 DEF Progressed
  <1>9. ChainInv'
    BY <1>2 DEF SyncInv, ChainInv
  <1>10. SyncsInv'
    <2>1. Idle \in [at : {"idle"} \cup Reads, from : Nat, upto : Nat]
      BY DEF Idle
    <2>2. syncs' \in [Syncers -> [at : {"idle"} \cup Reads, from : Nat, upto : Nat]]
      BY <1>2, <1>3, <2>1
    <2>3. \A r \in Syncers : SyncerInv(r, m)'
      <3> TAKE r \in Syncers
      <3>1. CASE r = s
        <4>1. syncs'[r] = Idle
          BY <1>2, <1>3, <3>1
        <4> QED
          BY <4>1 DEF SyncerInv, Idle, Reads
      <3>2. CASE r # s
        <4>1. syncs'[r] = syncs[r] /\ SyncerInv(r, n)
          BY <1>1, <1>2, <1>3, <3>2 DEF Progressed
        <4>2. \A x \in 1 .. n + 1 : x \in 1 .. m + 1
          BY <1>3, <1>5
        <4> QED
          BY <1>2, <4>1, <4>2 DEF SyncerInv
      <3> QED
        BY <3>1, <3>2
    <2>4. Progressed(m)'
      <3>1. (cursor \in 0 .. m)'
        BY <1>2, <1>a
      <3> QED
        BY <1>7, <1>8, <2>3, <3>1 DEF Progressed
    <2>5. db' \in Tables
      BY <1>2, <1>3, TablesTyped, ReplayKeepsTables
    <2>6. \A w \in Wallets : {db'.options[w], db'.votes[w]} \subseteq 0 .. 1
      BY <1>2, <2>5 DEF Storable, Tables
    <2>7. m \in 0 .. Len(chain')
      BY <1>2, <1>3, <1>5
    <2> QED
      BY <2>2, <2>4, <2>6, <2>7 DEF SyncsInv
  <1>11. PendingInv'
    <2>1. ActionOfHash' = ActionOfHash
      BY <1>2 DEF ActionOfHash
    <2>2. applied' = applied \cup fresh /\ hash' = hash
      BY <1>2
    <2>3. CASE hash \notin fresh
      <3>1. pending' = pending
        BY <1>2, <2>3 DEF matchPendingTransaction
      <3>2. hash' \in applied' <=> hash \in applied
        BY <2>2, <2>3
      <3> QED
        BY <2>1, <2>2, <3>1, <3>2 DEF SyncInv, PendingInv
    <2>4. CASE hash \in fresh
      <3>1. hash \notin applied /\ hash # 0
        BY <1>3, <1>5, <1>6, <2>4
      <3> DEFINE name == chain[hash].name
                 matches == name \in DOMAIN actionByEvent /\ pending.action = actionByEvent[name]
      <3>2. pending' = IF matches THEN [pending EXCEPT !.status = "confirmed"] ELSE pending
        BY <1>2, <2>4 DEF matchPendingTransaction
      <3>3. matches => pending.action = ActionOfHash /\ ActionOfHash # "none"
        BY <3>1, ActionsAreKnown DEF ActionOfHash
      <3>4. ~matches => ~(pending.action = ActionOfHash /\ ActionOfHash # "none")
        BY <3>1 DEF ActionOfHash
      <3> HIDE DEF matches
      <3>5. matches <=> pending.due
        BY <3>1, <3>3, <3>4 DEF SyncInv, PendingInv
      <3>6. /\ pending' \in [action : ActionNames, status : {"none", "pending", "confirmed"},
                             posts : Nat, due : BOOLEAN]
            /\ pending'.action = pending.action /\ pending'.due = pending.due
            /\ pending'.status = IF matches THEN "confirmed" ELSE pending.status
        BY <3>2 DEF SyncInv, PendingInv
      <3>7. hash' \in applied' /\ hash' # 0
        BY <2>2, <2>4, <3>1
      <3> QED
        BY <3>1, <3>5, <3>6, <3>7 DEF SyncInv, PendingInv
    <2> QED
      BY <2>3, <2>4
  <1> QED
    BY <1>9, <1>10, <1>11 DEF SyncInv

(***************************************************************************)
(* The transaction is registered, for the first time or again.             *)
(***************************************************************************)
LEMMA RegisterKeeps ==
  ASSUME SyncInv, NEW a \in {ActionOfHash, "settle_proposal"} \ {"none"},
         RegisterPendingTransaction(a)
  PROVE  SyncInv'
  <1> DEFINE d == IF hash \in applied THEN pending.due ELSE a = ActionOfHash
  <1>1. /\ hash # 0
        /\ pending' = [action |-> a, status |-> Upserted(pending.status),
                       posts |-> pending.posts + 1, due |-> d]
        /\ UNCHANGED <<chain, applied, db, cursor, syncs, hash>>
    BY DEF RegisterPendingTransaction
  <1>2. ChainInv' /\ SyncsInv'
    BY <1>1 DEF SyncInv, ChainInv, SyncsInv, Progressed, SyncerInv
  <1>3. a \in ActionNames /\ a # "none" /\ ActionOfHash' = ActionOfHash
    BY <1>1, ActionsAreKnown DEF ActionNames, ActionOfHash
  <1> HIDE DEF d
  <1>4. d \in BOOLEAN /\ Upserted(pending.status) \in {"none", "pending", "confirmed"}
    BY DEF d, SyncInv, PendingInv, Upserted
  <1>5. /\ pending'.action = a /\ pending'.due = d
        /\ pending'.status = Upserted(pending.status)
        /\ pending' \in [action : ActionNames, status : {"none", "pending", "confirmed"},
                         posts : Nat, due : BOOLEAN]
    BY <1>1, <1>3, <1>4 DEF SyncInv, PendingInv
  <1>6. PendingInv'
    <2>1. CASE hash \in applied
      BY <1>1, <1>3, <1>5, <2>1 DEF SyncInv, PendingInv, Upserted, d
    <2>2. CASE hash \notin applied
      BY <1>1, <1>3, <1>5, <2>2 DEF SyncInv, PendingInv, Upserted, d
    <2> QED
      BY <2>1, <2>2
  <1> QED
    BY <1>2, <1>6 DEF SyncInv

(***************************************************************************)
(* Every reachable state satisfies the invariant.                          *)
(***************************************************************************)
LEMMA SyncInvariant == Spec => []SyncInv
  <1>1. Init => SyncInv
    BY InitEstablishes
  <1>2. SyncInv /\ [Next]_vars => SyncInv'
    <2> SUFFICES ASSUME SyncInv, [Next]_vars PROVE SyncInv'
      OBVIOUS
    <2>1. CASE \E x \in Names : \E w \in Callers(x) : Emit([name |-> x, by |-> w])
      BY <2>1, EmitKeeps
    <2>2. ASSUME NEW s \in Syncers,
                 \/ ReadStatus(s) \/ SyncRange(s) \/ SyncRangeFails(s)
                 \/ StoreChainEvents(s) \/ StoreFails(s)
          PROVE  SyncInv'
      BY <2>2, SyncKeeps, StoreKeeps
    <2>3. CASE \E a \in {ActionOfHash, "settle_proposal"} \ {"none"} : RegisterPendingTransaction(a)
      BY <2>3, RegisterKeeps
    <2>4. CASE UNCHANGED vars
      BY <2>4 DEF vars, SyncInv, ChainInv, SyncsInv, Progressed, SyncerInv, PendingInv, ActionOfHash
    <2> QED
      BY <2>1, <2>2, <2>3, <2>4 DEF Next
  <1> QED
    BY <1>1, <1>2, PTL DEF Spec

(***************************************************************************)
(* Blocks, tables, cursor, synchronisations and the registered row are     *)
(* well typed: no vote is counted twice, no synchronisation reads past the *)
(* chain.                                                                  *)
(***************************************************************************)
THEOREM SyncTypeCorrect == Spec => []TypeOK
  <1>1. SyncInv => TypeOK
    <2> SUFFICES ASSUME SyncInv PROVE TypeOK
      OBVIOUS
    <2>1. PICK n \in 0 .. Len(chain) : Progressed(n)
      BY DEF SyncInv, SyncsInv
    <2>2. Len(chain) \in Nat /\ DOMAIN chain = 1 .. Len(chain)
      BY DEF SyncInv, ChainInv
    <2>3. applied \subseteq DOMAIN chain /\ cursor \in 0 .. Len(chain)
      BY <2>1, <2>2 DEF Progressed
    <2>4. \A s \in Syncers : syncs[s].at = "fetched" => syncs[s].upto <= Len(chain)
      BY <2>1, <2>2 DEF Progressed, SyncerInv
    <2> QED
      BY <2>3, <2>4 DEF TypeOK, SyncInv, ChainInv, SyncsInv, PendingInv
  <1> QED
    BY <1>1, SyncInvariant, PTL

(***************************************************************************)
(* No event at or below the cursor is left out, for any number of blocks,  *)
(* of synchronisations in flight and of blocks to a batch, although the    *)
(* cursor may go back.                                                     *)
(***************************************************************************)
THEOREM CursorStaysBehind == Spec => []CursorNeverSkips
  <1>1. SyncInv => CursorNeverSkips
    BY DEF SyncInv, SyncsInv, Progressed, CursorNeverSkips
  <1> QED
    BY <1>1, SyncInvariant, PTL

(***************************************************************************)
(* The tables are what the first events of the chain make of them, each    *)
(* applied once and in order.                                              *)
(***************************************************************************)
THEOREM TablesAreReplayed == Spec => []ProjectionIsReplay
  <1>1. SyncInv => ProjectionIsReplay
    <2> SUFFICES ASSUME SyncInv PROVE ProjectionIsReplay
      OBVIOUS
    <2>1. PICK n \in 0 .. Len(chain) : Progressed(n)
      BY DEF SyncInv, SyncsInv
    <2>2. n \in Nat /\ applied = 1 .. n
      BY <2>1 DEF Progressed, SyncInv, ChainInv
    <2>3. Cardinality(1 .. n) = n
      BY <2>2, FS_Interval
    <2> QED
      BY <2>1, <2>2, <2>3 DEF ProjectionIsReplay, Progressed
  <1> QED
    BY <1>1, SyncInvariant, PTL

(***************************************************************************)
(* A registered transaction is shown as confirmed exactly when its event   *)
(* was applied after it was registered with the right action, however      *)
(* often and with whatever action it is posted again.                      *)
(***************************************************************************)
THEOREM StatusAlwaysTells == Spec => []StatusTellsProjection
  <1>1. SyncInv => StatusTellsProjection
    BY DEF SyncInv, PendingInv, StatusTellsProjection
  <1> QED
    BY <1>1, SyncInvariant, PTL

-----------------------------------------------------------------------------
(***************************************************************************)
(* What ProjectionPromise sees of a state: the chain, how much of it is    *)
(* applied, the tables, the registered transaction's block and whether it  *)
(* is shown as confirmed.                                                  *)
(***************************************************************************)
Taken == Cardinality(applied)
Told  == pending.status = "confirmed"
Seen  == <<chain, Taken, db, hash, Told>>

\* A step that changes nothing of what is seen.
LEMMA UnseenStep ==
  ASSUME chain' = chain, applied' = applied, db' = db, hash' = hash,
         Told' <=> Told
  PROVE  UNCHANGED Seen
  BY DEF Seen, Taken

\* The initial state is an initial state of ProjectionPromise.
LEMMA SeenInit == Init => Promise!Init
  <1> SUFFICES ASSUME Init PROVE Promise!Init
    OBVIOUS
  <1>1. Cardinality(applied) = 0
    BY FS_EmptySet DEF Init
  <1>2. (pending.status = "confirmed") = FALSE
    BY DEF Init
  <1>3. 0 \in 0 .. Len(chain)
    BY InitEstablishes DEF SyncInv, ChainInv
  <1> QED
    BY <1>1, <1>2, <1>3 DEF Init, Promise!Init

\* An event happens.
LEMMA SeenEmit ==
  ASSUME SyncInv, NEW x \in Names, NEW w \in Callers(x), Emit([name |-> x, by |-> w])
  PROVE  Promise!Happen
  <1> DEFINE e == [name |-> x, by |-> w]
  <1>1. /\ chain' = Append(chain, e)
        /\ hash' \in {hash} \cup (IF hash = 0 THEN {Len(chain) + 1} ELSE {})
        /\ UNCHANGED <<applied, db, pending>>
    BY DEF Emit
  <1>2. e \in Events /\ chain \in Seq(Events)
    BY DEF Events, Callers, SyncInv, ChainInv
  <1> HIDE DEF e
  <1>3. Len(chain') = Len(chain) + 1 /\ chain'[Len(chain) + 1] = e
    BY <1>1, <1>2
  <1> QED
    BY <1>1, <1>3 DEF Promise!Happen

\* A batch is taken, or it was taken before.
LEMMA SeenStore ==
  ASSUME SyncInv, NEW s \in Syncers, StoreChainEvents(s)
  PROVE  [Promise!Next]_Seen
  <1>1. PICK n \in 0 .. Len(chain) : Progressed(n)
    BY DEF SyncInv, SyncsInv
  <1> DEFINE from == syncs[s].from
             upto == syncs[s].upto
             fresh == NotApplied(s)
  <1>2. /\ syncs[s].at = "fetched"
        /\ db' = Replay(chain, db, fresh) /\ applied' = applied \cup fresh
        /\ pending' = matchPendingTransaction(fresh)
        /\ chain' = chain /\ hash' = hash
    BY DEF StoreChainEvents
  <1>3. Len(chain) \in Nat /\ n \in Nat /\ n <= Len(chain) /\ applied = 1 .. n
    BY <1>1 DEF SyncInv, ChainInv, Progressed
  <1>4. from \in 1 .. n + 1 /\ upto \in 0 .. Len(chain)
    BY <1>1, <1>2 DEF Progressed, SyncerInv, Reads
  <1>5. fresh = (n + 1) .. upto
    BY <1>3, <1>4 DEF NotApplied, Fetched
  <1>6. Taken = n
    BY <1>3, FS_Interval DEF Taken
  <1>7. Told' = Told \/ (hash \in fresh /\ Told' = TRUE)
    <2>1. /\ hash \notin fresh => pending' = pending
          /\ pending'.status \in {pending.status, "confirmed"}
      BY <1>2 DEF matchPendingTransaction, SyncInv, PendingInv
    <2> QED
      BY <2>1 DEF Told
  <1> HIDE DEF fresh, from, upto
  <1>8. CASE upto <= n
    <2>1. fresh = {}
      BY <1>3, <1>4, <1>5, <1>8
    <2>2. db' = db /\ applied' = applied
      BY <1>2, <1>3, <2>1, ReplayNothing
    <2>3. Told' = Told
      BY <1>7, <2>1
    <2> QED
      BY <1>2, <2>2, <2>3, UnseenStep
  <1>9. CASE upto > n
    <2>1. upto \in (n + 1) .. Len(chain) /\ applied' = 1 .. upto
      BY <1>2, <1>3, <1>4, <1>5, <1>9
    <2>2. Taken' = upto
      BY <1>4, <2>1, FS_Interval DEF Taken
    <2>3. Told' \in {Told} \cup (IF hash \in (n + 1) .. upto THEN {TRUE} ELSE {})
      BY <1>5, <1>7, Zenon
    <2>4. Promise!Take(upto)
      BY <1>2, <1>5, <1>6, <2>2, <2>3 DEF Promise!Take, Taken, Told
    <2> QED
      BY <1>6, <2>1, <2>4 DEF Promise!Next, Taken
  <1> QED
    BY <1>3, <1>4, <1>8, <1>9

\* A registration confirms nothing and takes nothing back.
LEMMA SeenRegister ==
  ASSUME SyncInv, NEW a, RegisterPendingTransaction(a)
  PROVE  UNCHANGED Seen
  <1>1. pending'.status = Upserted(pending.status)
        /\ UNCHANGED <<chain, applied, db, hash>>
    BY DEF RegisterPendingTransaction
  <1>2. Told' <=> Told
    BY <1>1 DEF Told, Upserted
  <1> QED
    BY <1>1, <1>2, UnseenStep

\* Every step is a step of ProjectionPromise or leaves it where it is.
LEMMA SeenStep ==
  ASSUME SyncInv, [Next]_vars PROVE [Promise!Next]_Seen
  <1>1. CASE \E x \in Names : \E w \in Callers(x) : Emit([name |-> x, by |-> w])
    BY <1>1, SeenEmit DEF Promise!Next
  <1>2. CASE \E s \in Syncers : StoreChainEvents(s)
    BY <1>2, SeenStore
  <1>3. CASE \/ \E s \in Syncers :
                   ReadStatus(s) \/ SyncRange(s) \/ SyncRangeFails(s) \/ StoreFails(s)
             \/ UNCHANGED vars
    <2>1. UNCHANGED <<chain, applied, db, hash, pending>>
      BY <1>3 DEF ReadStatus, SyncRange, SyncRangeFails, StoreFails, vars
    <2> QED
      BY <2>1, UnseenStep DEF Told
  <1>4. CASE \E a \in {ActionOfHash, "settle_proposal"} \ {"none"} : RegisterPendingTransaction(a)
    BY <1>4, SeenRegister
  <1> QED
    BY <1>1, <1>2, <1>3, <1>4 DEF Next

(***************************************************************************)
(* Whoever synchronises (StoreChainEvents, postgres.go:2488), the tables   *)
(* take in the events of the contract once each, in order and for good,    *)
(* and a transaction is confirmed with its event: ChainSync implements     *)
(* ProjectionPromise.                                                      *)
(***************************************************************************)
THEOREM ProjectionKeepsPromise == Spec => KeepsPromise
  <1>1. Init => Promise!Init
    BY SeenInit
  <1>2. SyncInv /\ [Next]_vars => [Promise!Next]_Seen
    BY SeenStep
  <1> QED
    BY <1>1, <1>2, SyncInvariant, PTL DEF Spec, KeepsPromise, Promise!Spec, Seen, Taken, Told

=============================================================================
