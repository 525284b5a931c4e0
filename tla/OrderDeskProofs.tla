-------------------------- MODULE OrderDeskProofs --------------------------
(***************************************************************************)
(* Proofs about OrderDesk, for any number of orders, payments, payouts and *)
(* requests, with changes of status that are written late and in any order *)
(* and events that set orders back: the dates of an order have no gap, it  *)
(* is paid what it says, and the module implements OrderPromise.           *)
(***************************************************************************)
EXTENDS OrderDesk, SequenceTheorems, TLAPS

Statuses == Steps \cup {"paid_onchain", "cancelled_onchain"}
Pages    == {"board", "workspace"}
Places   == {"idle", "sign", "wallet", "finalize", "prompt", "ask", "checked", "refresh"}

OrderRow == [by : {"page", "event", "old"}, mine : BOOLEAN, status : Statuses,
             amount : Nat, pay : Nat, stamps : SUBSET Nat]
Job      == [at : Places, order : Nat, to : {""} \cup Pages \cup Moves,
             amount : Nat, pay : Nat, id : Nat]
Write    == [id : Nat, order : Nat, to : Moves]
Offering == [order : Nat, to : Pages \cup Moves]

(***************************************************************************)
(* Where an order stands, which is never beyond its furthest step, and the *)
(* steps up to that one all have a time.                                   *)
(***************************************************************************)
Standing(row) == StageOf(normalizeOrderStatus(row.status))
Rows  == {row \in OrderRow : \E k \in 1 .. 5 : row.stamps = 2 .. k /\ Standing(row) <= k}
Stage(o) == Reached(orders[o])
Now(o)   == Standing(orders[o])

(***************************************************************************)
(* The invariant, in parts.  The tables first.                             *)
(***************************************************************************)
DeskTypes ==
  /\ orders \in Seq(Rows) /\ Len(orders) <= MaxOrders
  /\ sent \in [Ids -> 0 .. MaxSends]
  /\ payments \in Seq(Nat)
  /\ price \in Nat /\ clicks \in Nat
  /\ writes \subseteq Write
  /\ job \in [Roles -> Job]
  /\ shown \in [Roles -> SUBSET Offering]

(***************************************************************************)
(* What a page offers was possible when it was refreshed, so an order it   *)
(* offers to move has been at least at the stage before, whatever set it   *)
(* back since.                                                             *)
(***************************************************************************)
OfferHolds(r, f) ==
  \/ f.order = 0 /\ f.to \in Pages
  \/ f.order \in Ids /\ f.to \in Moves /\ RoleOf(f.to) = r /\ Stage(f.order) >= StageOf(f.to) - 1

(***************************************************************************)
(* A request of a role is about an order it may move, and a payout is      *)
(* reported only after it was sent.                                        *)
(***************************************************************************)
JobHolds(r) ==
  LET j == job[r] IN
  /\ j.at \in {"prompt", "ask"} =>
       j.order \in Ids /\ j.to \in Moves /\ RoleOf(j.to) = r /\ clicks > 0
  /\ j.at = "prompt" => Stage(j.order) >= 4
  /\ j.at = "ask" /\ r = "admin" => sent[j.order] > 0

(***************************************************************************)
(* A change the server has checked was possible then, and its order has    *)
(* lost no step since.                                                     *)
(***************************************************************************)
WriteHolds(w) ==
  /\ w.order \in Ids /\ w.id \in 1 .. clicks
  /\ Stage(w.order) >= StageOf(w.to) - 1
  /\ w.to = "platform_paid" => sent[w.order] > 0

(***************************************************************************)
(* A payment the member's page has in hand belongs to no order yet but the *)
(* one its event may have stored.                                          *)
(***************************************************************************)
PaymentHolds ==
  LET j == job["member"] IN
  /\ j.at \in {"sign", "wallet"} => j.pay = 0
  /\ j.at = "finalize" /\ j.pay # 0 =>
       /\ j.pay \in 1 .. Len(payments) /\ payments[j.pay] = j.amount
       /\ \A o \in Ids : orders[o].pay = j.pay => orders[o].by = "event"
  /\ \A o \in Ids :
       /\ orders[o].pay \in 0 .. Len(payments)
       /\ orders[o].pay # 0 => orders[o].mine /\ orders[o].by \in {"page", "event"}

DeskInv ==
  /\ DeskTypes
  /\ \A r \in Roles : \A f \in shown[r] : OfferHolds(r, f)
  /\ \A r \in Roles : JobHolds(r)
  /\ \A w \in writes : WriteHolds(w)
  /\ PaymentHolds /\ OrdersMatchPayments

-----------------------------------------------------------------------------
(***************************************************************************)
(* The statuses and their places.                                          *)
(***************************************************************************)
LEMMA StageNumbers ==
  /\ StageOf("payment_received") = 1
  /\ StageOf("merchant_accepted") = 2
  /\ StageOf("merchant_completed") = 3
  /\ StageOf("ready_for_payout") = 4
  /\ StageOf("platform_paid") = 5
  /\ StageOf("cancelled_onchain") = 0
  BY DEF StageOf

\* Statuses have a place, and each move belongs to one role.
LEMMA StageFacts ==
  /\ \A s \in Statuses : StageOf(normalizeOrderStatus(s)) \in 0 .. 5
  /\ \A s \in Moves : StageOf(s) \in 2 .. 5
  /\ \A s \in Moves : RoleOf(s) \in Roles
  /\ \A s \in Moves : RoleOf(s) = "admin" <=> s = "platform_paid"
  /\ \A s \in Moves : StageOf(s) = 5 <=> s = "platform_paid"
  /\ \A s \in Moves : s \in Statuses /\ normalizeOrderStatus(s) = s
  /\ \A s \in Statuses : StageOf(formatOrderStatus(s)) = StageOf(normalizeOrderStatus(s))
  /\ StageOf(normalizeOrderStatus("payment_received")) = 1
  /\ StageOf(normalizeOrderStatus("paid_onchain")) = 1
  /\ StageOf(normalizeOrderStatus("cancelled_onchain")) = 0
  /\ {"payment_received", "paid_onchain", "cancelled_onchain"} \subseteq Statuses
  <1>1. /\ \A s \in Statuses : StageOf(normalizeOrderStatus(s)) \in 0 .. 5
        /\ \A s \in Statuses : StageOf(formatOrderStatus(s)) = StageOf(normalizeOrderStatus(s))
        /\ {"payment_received", "paid_onchain", "cancelled_onchain"} \subseteq Statuses
    BY DEF Statuses, Steps, Moves, StageOf, normalizeOrderStatus, formatOrderStatus
  <1>2. /\ \A s \in Moves : StageOf(s) \in 2 .. 5
        /\ \A s \in Moves : StageOf(s) = 5 <=> s = "platform_paid"
    BY DEF Moves, StageOf
  <1>3. /\ \A s \in Moves : RoleOf(s) \in Roles
        /\ \A s \in Moves : RoleOf(s) = "admin" <=> s = "platform_paid"
    BY DEF Moves, RoleOf, Roles
  <1>4. \A s \in Moves : s \in Statuses /\ normalizeOrderStatus(s) = s
    BY DEF Moves, Statuses, Steps, normalizeOrderStatus
  <1>5. /\ StageOf(normalizeOrderStatus("payment_received")) = 1
        /\ StageOf(normalizeOrderStatus("paid_onchain")) = 1
        /\ StageOf(normalizeOrderStatus("cancelled_onchain")) = 0
    BY DEF StageOf, normalizeOrderStatus
  <1> QED
    BY <1>1, <1>2, <1>3, <1>4, <1>5

\* The furthest of the steps up to k is k.
LEMMA ReachedOf ==
  ASSUME NEW row, NEW k \in 1 .. 5, row.stamps = 2 .. k
  PROVE  Reached(row) = k
  <1> DEFINE S == {1} \cup row.stamps
  <1>1. /\ k \in S /\ \A y \in S : y \in Nat /\ k >= y
    OBVIOUS
  <1>2. \A x \in S : (\A y \in S : x >= y) => x = k
    BY <1>1
  <1> HIDE DEF S
  <1>3. (CHOOSE x \in S : \A y \in S : x >= y) = k
    BY <1>1, <1>2
  <1> QED
    BY <1>3 DEF Reached, Max, S

\* What the rows of the table are.
LEMMA RowFacts ==
  ASSUME NEW row \in Rows
  PROVE  /\ row \in OrderRow /\ row.status \in Statuses /\ row.pay \in Nat
         /\ Reached(row) \in 1 .. 5 /\ row.stamps = 2 .. Reached(row)
         /\ Standing(row) \in 0 .. 5 /\ Standing(row) <= Reached(row)
  <1>1. row \in OrderRow
    BY DEF Rows
  <1>2. PICK k \in 1 .. 5 : row.stamps = 2 .. k /\ Standing(row) <= k
    BY DEF Rows
  <1>3. Reached(row) = k
    BY <1>2, ReachedOf
  <1>4. row.status \in Statuses /\ row.pay \in Nat
    BY <1>1 DEF OrderRow
  <1>5. Standing(row) \in 0 .. 5
    BY <1>4, StageFacts DEF Standing
  <1> QED
    BY <1>1, <1>2, <1>3, <1>4, <1>5

\* A row set back to a status it has been at keeps everything else.
LEMMA RowSetBack ==
  ASSUME NEW row \in Rows, NEW s \in {"paid_onchain", "cancelled_onchain"},
         NEW new, new = [row EXCEPT !.status = s]
  PROVE  /\ new \in Rows /\ new.by = row.by /\ new.mine = row.mine
         /\ new.amount = row.amount /\ new.pay = row.pay /\ new.stamps = row.stamps
         /\ Reached(new) = Reached(row)
         /\ Standing(new) \in {0, 1}
  <1>1. row \in OrderRow /\ s \in Statuses
    BY StageFacts DEF Rows
  <1>2. /\ new \in OrderRow /\ new.status = s /\ new.by = row.by /\ new.mine = row.mine
        /\ new.amount = row.amount /\ new.pay = row.pay /\ new.stamps = row.stamps
    BY <1>1 DEF OrderRow
  <1>3. Standing(new) \in {0, 1}
    BY <1>2, StageFacts DEF Standing
  <1>4. PICK k \in 1 .. 5 : row.stamps = 2 .. k
    BY DEF Rows
  <1>5. Standing(new) <= k
    BY <1>3
  <1>6. new \in Rows
    BY <1>2, <1>4, <1>5 DEF Rows
  <1> QED
    BY <1>2, <1>3, <1>6 DEF Reached

Stamped(row, to, st) == [row EXCEPT !.status = to, !.stamps = st]

\* A row written a move it was ready for: the furthest step is the later of the two.
LEMMA RowWritten ==
  ASSUME NEW row \in Rows, NEW to \in Moves, Reached(row) >= StageOf(to) - 1,
         NEW st, st = row.stamps \cup {StageOf(to)},
         NEW new, new = Stamped(row, to, st)
  PROVE  /\ new \in Rows /\ new.by = row.by /\ new.mine = row.mine
         /\ new.amount = row.amount /\ new.pay = row.pay
         /\ Standing(new) = StageOf(to)
         /\ Reached(new) = IF StageOf(to) > Reached(row) THEN StageOf(to) ELSE Reached(row)
  <1>1. PICK k : k = Reached(row)
    OBVIOUS
  <1>2. PICK t : t = StageOf(to)
    OBVIOUS
  <1>3. row \in OrderRow /\ k \in 1 .. 5 /\ row.stamps = 2 .. k /\ t \in 2 .. 5 /\ k >= t - 1
    BY <1>1, <1>2, RowFacts, StageFacts
  <1>4. PICK m \in 1 .. 5 : m = IF t > k THEN t ELSE k
    BY <1>3
  <1>5. st = 2 .. m
    BY <1>2, <1>3, <1>4
  <1>6. to \in Statuses /\ st \in SUBSET Nat
    BY <1>4, <1>5, StageFacts
  <1>8. /\ new \in OrderRow /\ new.status = to /\ new.by = row.by /\ new.mine = row.mine
        /\ new.amount = row.amount /\ new.pay = row.pay /\ new.stamps = st
    BY <1>3, <1>6 DEF OrderRow, Stamped
  <1>9. Standing(new) = t /\ t <= m
    BY <1>2, <1>3, <1>4, <1>8, StageFacts DEF Standing
  <1>10. new \in Rows
    BY <1>5, <1>8, <1>9 DEF Rows
  <1>11. Reached(new) = m
    BY <1>5, <1>8, ReachedOf
  <1> QED
    BY <1>1, <1>2, <1>4, <1>8, <1>9, <1>10, <1>11

\* A new row is paid and has been nowhere else.
LEMMA RowNew ==
  ASSUME NEW who \in {"page", "event"}, NEW s \in {"payment_received", "paid_onchain"},
         NEW n \in Nat, NEW p \in Nat,
         NEW mine \in BOOLEAN, NEW new, new = Row(who, mine, s, n, p)
  PROVE  /\ new \in Rows /\ new.by = who /\ new.mine = mine
         /\ new.amount = n /\ new.pay = p
         /\ Reached(new) = 1 /\ Standing(new) = 1
  <1>1. /\ new \in OrderRow /\ new.status = s /\ new.by = who /\ new.mine = mine
        /\ new.amount = n /\ new.pay = p /\ new.stamps = {}
    <2>1. s \in Statuses /\ {} \in SUBSET Nat
          /\ who \in {"page", "event", "old"}
      BY StageFacts
    <2>2. new = [by |-> who, mine |-> mine, status |-> s, amount |-> n,
                 pay |-> p, stamps |-> {}]
      BY DEF Row
    <2>3. new \in OrderRow
      BY <2>1, <2>2 DEF OrderRow
    <2> QED
      BY <2>2, <2>3
  <1>2. Standing(new) = 1
    BY <1>1, StageFacts DEF Standing
  <1>3. new.stamps = 2 .. 1
    <2>1. 2 .. 1 = {}
      OBVIOUS
    <2> QED
      BY <1>1, <2>1
  <1>4. new \in Rows
    <2>1. 1 \in 1 .. 5 /\ Standing(new) <= 1
      BY <1>2
    <2> QED
      BY <1>1, <1>3, <2>1, Zenon DEF Rows
  <1>5. Reached(new) = 1
    BY <1>3, ReachedOf
  <1> QED
    BY <1>1, <1>2, <1>4, <1>5

\* What the invariant says of the tables, order by order.
LEMMA DeskFacts ==
  ASSUME DeskInv
  PROVE  /\ orders \in Seq(Rows) /\ Len(orders) \in Nat /\ Len(orders) <= MaxOrders
         /\ DOMAIN orders = Ids /\ \A o \in Ids : o \in Nat
         /\ \A o \in Ids : /\ orders[o] \in Rows
                           /\ orders[o].pay \in Nat
                           /\ Stage(o) \in 1 .. 5 /\ Now(o) \in 0 .. 5 /\ Now(o) <= Stage(o)
         /\ sent \in [Ids -> 0 .. MaxSends]
         /\ \A o \in Ids : sent[o] \in Nat
         /\ payments \in Seq(Nat) /\ Len(payments) \in Nat
         /\ price \in Nat /\ clicks \in Nat
         /\ \A w \in writes : w \in Write /\ w.to \in Moves /\ WriteHolds(w)
         /\ job \in [Roles -> Job]
         /\ \A r \in Roles : job[r] \in Job /\ JobHolds(r)
         /\ shown \in [Roles -> SUBSET Offering]
         /\ \A r \in Roles : \A f \in shown[r] : f \in Offering /\ OfferHolds(r, f)
  <1>1. /\ orders \in Seq(Rows) /\ Len(orders) \in Nat /\ Len(orders) <= MaxOrders
        /\ DOMAIN orders = Ids /\ \A o \in Ids : o \in Nat
    BY DEF DeskInv, DeskTypes, Ids
  <1>2. \A o \in Ids : orders[o] \in Rows
    BY <1>1
  <1>3. \A o \in Ids : /\ orders[o].pay \in Nat
                       /\ Stage(o) \in 1 .. 5 /\ Now(o) \in 0 .. 5 /\ Now(o) <= Stage(o)
    BY <1>2, RowFacts DEF Stage, Now
  <1>4. sent \in [Ids -> 0 .. MaxSends] /\ MaxSends \in Nat
    BY OrderConstants DEF DeskInv, DeskTypes
  <1>5. \A o \in Ids : sent[o] \in Nat
    BY <1>4
  <1>6. /\ payments \in Seq(Nat) /\ Len(payments) \in Nat /\ price \in Nat /\ clicks \in Nat
        /\ job \in [Roles -> Job] /\ shown \in [Roles -> SUBSET Offering]
    BY DEF DeskInv, DeskTypes
  <1>7. \A w \in writes : w \in Write /\ w.to \in Moves /\ WriteHolds(w)
    BY DEF DeskInv, DeskTypes, Write
  <1> QED
    BY <1>1, <1>2, <1>3, <1>4, <1>5, <1>6, <1>7 DEF DeskInv

-----------------------------------------------------------------------------
(***************************************************************************)
(* Orders of an earlier version get a status and the steps that led to it. *)
(***************************************************************************)
LEMMA Backfilled ==
  ASSUME NEW s \in LegacyStatus \cup Steps, NEW mine \in BOOLEAN,
         NEW new, new = backfillLegacyOrders(Row("old", mine, s, 0, 0))
  PROVE  /\ new \in Rows /\ new.pay = 0
         /\ Reached(new) = Standing(new)
         /\ Standing(new) = 5 <=> new.status = "platform_paid"
  <1>1. PICK t : t = normalizeOrderStatus(s)
    OBVIOUS
  <1>2. /\ t \in Steps /\ t \in Statuses /\ normalizeOrderStatus(t) = t /\ StageOf(t) \in 1 .. 5
        /\ StageOf(t) = 5 <=> t = "platform_paid"
    BY <1>1 DEF LegacyStatus, normalizeOrderStatus, Steps, Moves, Statuses, StageOf
  <1>3. PICK k \in 1 .. 5 : k = StageOf(t)
    BY <1>2
  <1> DEFINE st == {} \cup 2 .. k
  <1>4. new = [by |-> "old", mine |-> mine, status |-> t, amount |-> 0, pay |-> 0,
               stamps |-> st]
    BY <1>1, <1>3 DEF backfillLegacyOrders, Row, timeline
  <1>5. st = 2 .. k /\ st \in SUBSET Nat
    OBVIOUS
  <1> HIDE DEF st
  <1>6. new \in OrderRow /\ new.status = t /\ new.pay = 0 /\ new.stamps = 2 .. k
    BY <1>2, <1>4, <1>5 DEF OrderRow
  <1>7. Standing(new) = k /\ k <= k
    BY <1>2, <1>3, <1>6 DEF Standing
  <1>8. new \in Rows
    BY <1>6, <1>7 DEF Rows
  <1>9. Reached(new) = k
    BY <1>6, ReachedOf
  <1> QED
    BY <1>2, <1>3, <1>6, <1>7, <1>8, <1>9

\* At the start there is at most the order of an earlier version.
LEMMA InitOrders ==
  ASSUME Init
  PROVE  /\ orders \in Seq(Rows) /\ Len(orders) \in 0 .. 1
         /\ \A o \in Ids : /\ orders[o].pay = 0 /\ Stage(o) = Now(o)
                           /\ Now(o) = 5 <=> orders[o].status = "platform_paid"
  <1>1. CASE orders = <<>>
    BY <1>1 DEF Ids
  <1>2. ASSUME NEW s \in LegacyStatus \cup Steps, NEW mine \in BOOLEAN,
               orders = <<backfillLegacyOrders(Row("old", mine, s, 0, 0))>>
        PROVE  /\ orders \in Seq(Rows) /\ Len(orders) \in 0 .. 1
               /\ \A o \in Ids : /\ orders[o].pay = 0 /\ Stage(o) = Now(o)
                                 /\ Now(o) = 5 <=> orders[o].status = "platform_paid"
    <2>1. PICK new : new = backfillLegacyOrders(Row("old", mine, s, 0, 0))
      OBVIOUS
    <2>2. /\ new \in Rows /\ new.pay = 0 /\ Reached(new) = Standing(new)
          /\ Standing(new) = 5 <=> new.status = "platform_paid"
      BY <2>1, Backfilled
    <2>3. Len(orders) = 1 /\ orders[1] = new /\ orders \in Seq(Rows)
      BY <1>2, <2>1, <2>2
    <2>4. \A o \in Ids : o = 1
      BY <2>3 DEF Ids
    <2> QED
      BY <2>2, <2>3, <2>4 DEF Stage, Now
  <1> QED
    BY <1>1, <1>2 DEF Init

\* The invariant holds at the start.
LEMMA DeskInit == Init => DeskInv
  <1> SUFFICES ASSUME Init
               PROVE  DeskInv
    OBVIOUS
  <1>0. /\ orders \in Seq(Rows) /\ Len(orders) \in 0 .. 1
        /\ \A o \in Ids : orders[o].pay = 0
    BY InitOrders
  <1>1. DeskTypes
    <2>0. PICK n, m, k : n = Len(orders) /\ m = MaxOrders /\ k = MaxSends
      OBVIOUS
    <2>5. m \in Nat \ {0} /\ k \in Nat \ {0} /\ n \in 0 .. 1
      BY <1>0, <2>0, OrderConstants, Zenon
    <2>6. n <= m /\ 1 \in 0 .. k /\ 0 \in 0 .. k
      BY <2>5
    <2>1. Len(orders) <= MaxOrders /\ 1 \in 0 .. MaxSends /\ 0 \in 0 .. MaxSends
      BY <2>0, <2>6
    <2>2. sent \in [Ids -> 0 .. MaxSends]
      BY <2>1 DEF Init
    <2>3. price \in Nat /\ clicks \in Nat /\ payments \in Seq(Nat) /\ writes \subseteq Write
      BY OrderConstants DEF Init
    <2>4. job \in [Roles -> Job] /\ shown \in [Roles -> SUBSET Offering]
      BY DEF Init, Idle, Job, Places
    <2> QED
      BY <1>0, <2>1, <2>2, <2>3, <2>4 DEF DeskTypes
  <1>2. /\ \A r \in Roles : shown[r] = {} /\ job[r].at = "idle"
        /\ writes = {}
    BY DEF Init, Idle
  <1>3. \A r \in Roles : JobHolds(r)
    BY <1>2 DEF JobHolds
  <1>4. PaymentHolds /\ OrdersMatchPayments
    <2>1. Len(payments) \in Nat /\ job["member"].at = "idle"
      BY <1>2 DEF Init, Roles
    <2>2. \A o \in Ids : orders[o].pay \in 0 .. Len(payments)
      BY <1>0, <2>1
    <2> QED
      BY <1>0, <2>1, <2>2 DEF PaymentHolds, OrdersMatchPayments
  <1> QED
    BY <1>1, <1>2, <1>3, <1>4 DEF DeskInv

-----------------------------------------------------------------------------
(***************************************************************************)
(* What a step does to the tables.  Kept: every order keeps who it is of,  *)
(* what it says and the steps it has been through.  Added: a new one.      *)
(***************************************************************************)
Tables == <<orders, sent, payments>>

SameOrder(o) == /\ orders'[o].by = orders[o].by /\ orders'[o].mine = orders[o].mine
                /\ orders'[o].amount = orders[o].amount /\ orders'[o].pay = orders[o].pay

Kept ==
  /\ orders' \in Seq(Rows) /\ Len(orders') = Len(orders) /\ Ids' = Ids
  /\ payments' = payments
  /\ \A o \in Ids : SameOrder(o) /\ Stage(o)' >= Stage(o)

Added(new) ==
  /\ orders' \in Seq(Rows) /\ Len(orders') = Len(orders) + 1 /\ Len(orders') <= MaxOrders
  /\ Ids' = Ids \cup {Len(orders) + 1} /\ Len(orders) + 1 \notin Ids
  /\ \A o \in Ids : orders'[o] = orders[o]
  /\ orders'[Len(orders) + 1] = new
  /\ sent' = Append(sent, 0) /\ sent' \in [Ids' -> 0 .. MaxSends]
  /\ \A o \in Ids : sent'[o] = sent[o]
  /\ sent'[Len(orders) + 1] = 0
  /\ payments' = payments

\* To append an order and its count of payouts is to add it.
LEMMA AppendEffect ==
  ASSUME DeskInv, NEW new \in Rows, Len(orders) < MaxOrders,
         orders' = Append(orders, new), sent' = Append(sent, 0), payments' = payments
  PROVE  Added(new)
  <1>3. /\ orders' \in Seq(Rows) /\ Len(orders') = Len(orders) + 1
        /\ \A o \in 1 .. Len(orders) : orders'[o] = orders[o]
        /\ orders'[Len(orders) + 1] = new
    BY DeskFacts, AppendProperties
  <1>4. /\ Len(orders') <= MaxOrders
        /\ Ids' = Ids \cup {Len(orders) + 1} /\ Len(orders) + 1 \notin Ids
    BY <1>3, DeskFacts, OrderConstants DEF Ids
  <1>5. sent \in Seq(0 .. MaxSends) /\ Len(sent) = Len(orders) /\ 0 \in 0 .. MaxSends
    <2>1. sent \in [1 .. Len(orders) -> 0 .. MaxSends] /\ Len(orders) \in Nat
      BY DeskFacts DEF Ids
    <2>2. sent \in Seq(0 .. MaxSends)
      BY <2>1, SeqDef, Zenon
    <2>3. Len(sent) \in Nat /\ DOMAIN sent = 1 .. Len(sent)
      BY <2>2, LenProperties
    <2>4. 1 .. Len(sent) = 1 .. Len(orders)
      BY <2>1, <2>3
    <2>5. Len(sent) = Len(orders)
      BY <2>1, <2>3, <2>4
    <2> QED
      BY <2>2, <2>5, OrderConstants
  <1>6. /\ sent' \in Seq(0 .. MaxSends) /\ Len(sent') = Len(sent) + 1
        /\ \A o \in 1 .. Len(sent) : sent'[o] = sent[o]
        /\ sent'[Len(sent) + 1] = 0
    <2> DEFINE S == 0 .. MaxSends
    <2>1. sent \in Seq(S) /\ 0 \in S /\ sent' = Append(sent, 0)
      BY <1>5
    <2> HIDE DEF S
    <2>2. /\ Append(sent, 0) \in Seq(S) /\ Len(Append(sent, 0)) = Len(sent) + 1
          /\ \A o \in 1 .. Len(sent) : Append(sent, 0)[o] = sent[o]
          /\ Append(sent, 0)[Len(sent) + 1] = 0
      BY <2>1, AppendProperties
    <2> QED
      BY <2>1, <2>2 DEF S
  <1>7. sent' \in [Ids' -> 0 .. MaxSends]
    BY <1>3, <1>5, <1>6, LenProperties DEF Ids
  <1> QED
    BY <1>3, <1>4, <1>5, <1>6, <1>7 DEF Ids, Added

\* SaveOrder adds the order of the page, with the payment it has in hand.
LEMMA SaveEffect ==
  ASSUME DeskInv, SaveOrder
  PROVE  \E new : /\ Added(new) /\ new.by = "page" /\ new.mine = TRUE
                  /\ new.amount = job["member"].amount /\ new.pay = job["member"].pay
                  /\ Reached(new) = 1 /\ Standing(new) = 1
  <1>1. PICK n, p : n = job["member"].amount /\ p = job["member"].pay
    OBVIOUS
  <1>2. n \in Nat /\ p \in Nat
    BY <1>1, DeskFacts DEF Roles, Job
  <1>3. PICK mine \in BOOLEAN : mine = TRUE
    OBVIOUS
  <1>4. PICK new : new = Row("page", mine, "payment_received", n, p)
    OBVIOUS
  <1>5. /\ new \in Rows /\ new.by = "page" /\ new.mine = mine /\ new.amount = n /\ new.pay = p
        /\ Reached(new) = 1 /\ Standing(new) = 1
    BY <1>2, <1>4, RowNew
  <1>6. /\ orders' = Append(orders, new) /\ sent' = Append(sent, 0)
        /\ Len(orders) < MaxOrders /\ payments' = payments
    BY <1>1, <1>3, <1>4 DEF SaveOrder, SavedAmount
  <1>7. Added(new)
    BY <1>5, <1>6, AppendEffect
  <1> QED
    BY <1>1, <1>3, <1>5, <1>7

\* To replace one order by one that has lost nothing is to keep them.
LEMMA ReplaceEffect ==
  ASSUME DeskInv, NEW o \in Ids, NEW new \in Rows, orders' = [orders EXCEPT ![o] = new],
         new.by = orders[o].by, new.mine = orders[o].mine,
         new.amount = orders[o].amount, new.pay = orders[o].pay,
         Reached(new) >= Stage(o), payments' = payments
  PROVE  /\ Kept /\ orders'[o] = new
         /\ \A p \in Ids \ {o} : orders'[p] = orders[p]
  <1>1. o \in 1 .. Len(orders) /\ orders \in Seq(Rows)
    BY DeskFacts DEF Ids
  <1>2. /\ orders' \in Seq(Rows) /\ Len(orders') = Len(orders)
        /\ \A p \in 1 .. Len(orders) : orders'[p] = IF p = o THEN new ELSE orders[p]
    BY <1>1, ExceptSeq
  <1>3. Ids' = Ids /\ orders'[o] = new /\ \A p \in Ids \ {o} : orders'[p] = orders[p]
    BY <1>1, <1>2 DEF Ids
  <1>4. \A p \in Ids : SameOrder(p)
    BY <1>3 DEF SameOrder
  <1>5. \A p \in Ids : Stage(p)' >= Stage(p)
    <2>1. Stage(o)' = Reached(new) /\ \A p \in Ids \ {o} : Stage(p)' = Stage(p)
      BY <1>3 DEF Stage
    <2>2. \A p \in Ids : Stage(p) \in 1 .. 5
      BY DeskFacts
    <2> QED
      BY <2>1, <2>2
  <1> QED
    BY <1>2, <1>3, <1>4, <1>5 DEF Kept

(***************************************************************************)
(* A change of status is written: the order stands where it says, and its  *)
(* furthest step is the later of the two.                                  *)
(***************************************************************************)
LEMMA WrittenEffect ==
  ASSUME DeskInv, NEW w \in writes, StatusWritten(w),
         NEW o, o = w.order, NEW to, to = w.to
  PROVE  /\ o \in Ids /\ to \in Moves /\ StageOf(to) \in 2 .. 5
         /\ StageOf(to) <= Stage(o) + 1
         /\ Kept /\ \A p \in Ids \ {o} : orders'[p] = orders[p]
         /\ Now(o)' = StageOf(to)
         /\ Stage(o)' = IF StageOf(to) > Stage(o) THEN StageOf(to) ELSE Stage(o)
         /\ sent' = sent /\ payments' = payments /\ writes' = writes \ {w}
  <1>1. o \in Ids /\ to \in Moves /\ Stage(o) >= StageOf(to) - 1
    BY DeskFacts DEF WriteHolds
  <1>2. StageOf(to) \in 2 .. 5 /\ Stage(o) \in 1 .. 5 /\ orders[o] \in Rows
        /\ orders \in Seq(Rows) /\ DOMAIN orders = Ids
    BY <1>1, StageFacts, DeskFacts
  <1>3. /\ orders' = [orders EXCEPT ![o].status = to, ![o].stamps = @ \cup {StageOf(to)}]
        /\ sent' = sent /\ payments' = payments /\ writes' = writes \ {w}
    BY DEF StatusWritten
  <1>4. PICK new : new = [orders[o] EXCEPT !.status = to, !.stamps = @ \cup {StageOf(to)}]
    OBVIOUS
  <1>5. orders' = [orders EXCEPT ![o] = new]
    BY <1>1, <1>2, <1>3, <1>4
  <1>6. Reached(orders[o]) >= StageOf(to) - 1
    BY <1>1 DEF Stage
  <1>7. /\ new \in Rows /\ new.by = orders[o].by /\ new.mine = orders[o].mine
        /\ new.amount = orders[o].amount /\ new.pay = orders[o].pay
        /\ Standing(new) = StageOf(to)
        /\ Reached(new) = IF StageOf(to) > Stage(o) THEN StageOf(to) ELSE Stage(o)
    <2>1. PICK row : row = orders[o]
      OBVIOUS
    <2>0. PICK st : st = row.stamps \cup {StageOf(to)}
      OBVIOUS
    <2>2. /\ row \in Rows /\ Reached(row) >= StageOf(to) - 1 /\ Reached(row) = Stage(o)
          /\ new = Stamped(row, to, st)
      BY <2>0, <1>2, <1>4, <1>6, <2>1 DEF Stage, Stamped
    <2>3. /\ new \in Rows /\ new.by = row.by /\ new.mine = row.mine
          /\ new.amount = row.amount /\ new.pay = row.pay
          /\ Standing(new) = StageOf(to)
          /\ Reached(new) = IF StageOf(to) > Reached(row) THEN StageOf(to) ELSE Reached(row)
      BY <1>1, <2>0, <2>2, RowWritten
    <2> QED
      BY <2>1, <2>2, <2>3
  <1>8. Reached(new) >= Stage(o)
    BY <1>2, <1>7
  <1>9. Kept /\ orders'[o] = new /\ \A p \in Ids \ {o} : orders'[p] = orders[p]
    BY <1>1, <1>3, <1>5, <1>7, <1>8, ReplaceEffect
  <1>10. /\ Now(o)' = StageOf(to)
         /\ Stage(o)' = IF StageOf(to) > Stage(o) THEN StageOf(to) ELSE Stage(o)
    BY <1>7, <1>9 DEF Now, Stage
  <1>11. StageOf(to) <= Stage(o) + 1
    BY <1>1, <1>2
  <1> QED
    BY <1>1, <1>2, <1>3, <1>9, <1>10, <1>11

(***************************************************************************)
(* Orders are set back: nothing of them changes but where they stand.      *)
(***************************************************************************)
BackTo(O, s) ==
  orders' = [o \in Ids |-> IF o \in O THEN [orders[o] EXCEPT !.status = s] ELSE orders[o]]

SetBackTo == /\ Kept /\ sent' = sent
             /\ \A o \in Ids : Stage(o)' = Stage(o) /\ Now(o)' \in {Now(o), 0, 1}

LEMMA BackEffect ==
  ASSUME DeskInv, NEW O, NEW s \in {"paid_onchain", "cancelled_onchain"}, BackTo(O, s),
         sent' = sent, payments' = payments
  PROVE  SetBackTo
  <1>1. /\ orders \in Seq(Rows) /\ Ids = 1 .. Len(orders) /\ Len(orders) \in Nat
        /\ \A o \in Ids : orders[o] \in Rows
    BY DeskFacts DEF Ids
  <1>2. \A o \in Ids : orders'[o] = IF o \in O THEN [orders[o] EXCEPT !.status = s]
                                    ELSE orders[o]
    BY DEF BackTo
  <1>3. ASSUME NEW o \in Ids
        PROVE  /\ orders'[o] \in Rows /\ SameOrder(o)
               /\ Stage(o)' = Stage(o) /\ Now(o)' \in {Now(o), 0, 1}
    <2>1. CASE o \notin O
      BY <1>1, <1>2, <2>1 DEF SameOrder, Stage, Now
    <2>2. CASE o \in O
      <3>1. PICK new : new = [orders[o] EXCEPT !.status = s]
        OBVIOUS
      <3>2. /\ new \in Rows /\ new.by = orders[o].by /\ new.mine = orders[o].mine
            /\ new.amount = orders[o].amount /\ new.pay = orders[o].pay
            /\ Reached(new) = Reached(orders[o]) /\ Standing(new) \in {0, 1}
        BY <1>1, <3>1, RowSetBack
      <3>3. orders'[o] = new
        BY <1>2, <2>2, <3>1
      <3> QED
        BY <3>2, <3>3 DEF SameOrder, Stage, Now
    <2> QED
      BY <2>1, <2>2
  <1>4. orders' \in [Ids -> Rows]
    <2>1. DOMAIN orders' = Ids /\ orders' = [o \in Ids |-> orders'[o]]
      BY DEF BackTo
    <2> QED
      BY <1>3, <2>1
  <1>5. orders' \in Seq(Rows)
    BY <1>1, <1>4, SeqDef, Zenon
  <1>6. Len(orders') = Len(orders)
    <2>1. Len(orders') \in Nat /\ DOMAIN orders' = 1 .. Len(orders')
      BY <1>5, LenProperties
    <2> QED
      BY <1>1, <1>4, <2>1
  <1>7. Ids' = Ids
    BY <1>6 DEF Ids
  <1>8. \A o \in Ids : Stage(o)' >= Stage(o)
    <2>1. \A o \in Ids : Stage(o) \in 1 .. 5
      BY DeskFacts
    <2> QED
      BY <1>3, <2>1
  <1> QED
    BY <1>3, <1>5, <1>6, <1>7, <1>8 DEF Kept, SetBackTo

\* The member cancels in the contract.
LEMMA CancelEffect ==
  ASSUME DeskInv, OrderCancelled
  PROVE  SetBackTo
  <1>1. /\ orders' = [o \in Ids |-> [orders[o] EXCEPT
             !.status = IF orders[o].mine THEN "cancelled_onchain" ELSE @]]
        /\ sent' = sent /\ payments' = payments
    BY DEF OrderCancelled
  <1> DEFINE O == {o \in Ids : orders[o].mine}
  <1>2. \A o \in Ids \ O : [orders[o] EXCEPT !.status = IF orders[o].mine
                              THEN "cancelled_onchain" ELSE @] = orders[o]
    <2>1. \A o \in Ids : orders[o] \in OrderRow
      BY DeskFacts DEF Rows
    <2>2. ASSUME NEW row \in OrderRow PROVE [row EXCEPT !.status = @] = row
      BY DEF OrderRow
    <2>3. ASSUME NEW o \in Ids \ O
          PROVE  [orders[o] EXCEPT !.status = IF orders[o].mine
                    THEN "cancelled_onchain" ELSE @] = orders[o]
      <3>1. PICK row : row = orders[o]
        OBVIOUS
      <3>2. row \in OrderRow /\ ~row.mine
        BY <2>1, <2>3, <3>1
      <3>3. [row EXCEPT !.status = IF row.mine THEN "cancelled_onchain" ELSE @] = row
        BY <2>2, <3>2
      <3> QED
        BY <3>1, <3>3
    <2> QED
      BY <2>3
  <1>3. \A o \in O : [orders[o] EXCEPT !.status = IF orders[o].mine
                        THEN "cancelled_onchain" ELSE @]
                     = [orders[o] EXCEPT !.status = "cancelled_onchain"]
    OBVIOUS
  <1>4. BackTo(O, "cancelled_onchain")
    BY <1>1, <1>2, <1>3, Zenon DEF BackTo
  <1> QED
    BY <1>1, <1>4, BackEffect

(***************************************************************************)
(* A payment is projected: the oldest order of its amount is set back, or  *)
(* where there is none an order is added, and no order had the payment.    *)
(***************************************************************************)
LEMMA EventEffect ==
  ASSUME DeskInv, NEW p \in 1 .. Len(payments), OrderPlaced(p)
  PROVE  \/ SetBackTo
         \/ /\ \A o \in Ids : orders[o].pay # p
            /\ \E new : /\ Added(new) /\ new.by = "event" /\ new.mine = TRUE
                        /\ new.amount = payments[p] /\ new.pay = p
                        /\ Reached(new) = 1 /\ Standing(new) = 1
  <1>0. payments' = payments /\ p \in Nat /\ payments[p] \in Nat /\ p # 0
    BY DeskFacts DEF OrderPlaced
  <1>1. ASSUME NEW m \in SameHash(p), sent' = sent,
               orders' = [orders EXCEPT ![m].status = "paid_onchain"]
        PROVE  SetBackTo
    <2>1. m \in Ids
      BY DEF SameHash
    <2>2. BackTo({m}, "paid_onchain")
      BY <1>1, <2>1, DeskFacts DEF BackTo
    <2> QED
      BY <1>0, <1>1, <2>2, BackEffect
  <1>2. ASSUME SameHash(p) = {}, Len(orders) < MaxOrders, sent' = Append(sent, 0),
               orders' = Append(orders, Row("event", TRUE, "paid_onchain", payments[p], p))
        PROVE  /\ \A o \in Ids : orders[o].pay # p
               /\ \E new : /\ Added(new) /\ new.by = "event" /\ new.mine = TRUE
                           /\ new.amount = payments[p] /\ new.pay = p
                           /\ Reached(new) = 1 /\ Standing(new) = 1
    <2>1. \A o \in Ids : orders[o].pay # p
      BY <1>0, <1>2 DEF DeskInv, PaymentHolds, OrdersMatchPayments, SameHash
    <2>2. PICK mine \in BOOLEAN : mine = TRUE
      OBVIOUS
    <2>3. PICK n \in Nat : n = payments[p]
      BY <1>0
    <2>4. PICK new : new = Row("event", mine, "paid_onchain", n, p)
      OBVIOUS
    <2>5. /\ new \in Rows /\ new.by = "event" /\ new.mine = mine /\ new.amount = n
          /\ new.pay = p /\ Reached(new) = 1 /\ Standing(new) = 1
      BY <1>0, <2>4, RowNew
    <2>6. orders' = Append(orders, new)
      BY <1>2, <2>2, <2>3, <2>4
    <2>7. Added(new)
      BY <1>0, <1>2, <2>5, <2>6, AppendEffect
    <2> QED
      BY <2>1, <2>2, <2>3, <2>5, <2>7
  <1> QED
    BY <1>1, <1>2 DEF OrderPlaced

(***************************************************************************)
(* ReleasePaid sends the amount of an order the member has confirmed.      *)
(***************************************************************************)
LEMMA ReleaseEffect ==
  ASSUME DeskInv, ReleasePaid, NEW o, o = job["admin"].order
  PROVE  /\ o \in Ids /\ Stage(o) >= 4 /\ sent[o] < MaxSends
         /\ sent' = [sent EXCEPT ![o] = sent[o] + 1]
         /\ sent' \in [Ids -> 0 .. MaxSends]
         /\ sent'[o] > 0 /\ \A p \in Ids : sent'[p] >= sent[p]
         /\ orders' = orders /\ payments' = payments /\ Ids' = Ids
  <1>1. job["admin"].at = "prompt" /\ JobHolds("admin")
    BY DeskFacts DEF ReleasePaid, At, Roles
  <1>2. o \in Ids /\ Stage(o) >= 4
    BY <1>1 DEF JobHolds
  <1>3. /\ sent[o] < MaxSends /\ sent' = [sent EXCEPT ![o] = sent[o] + 1]
        /\ orders' = orders /\ payments' = payments
    BY DEF ReleasePaid
  <1>4. sent \in [Ids -> 0 .. MaxSends] /\ MaxSends \in Nat
    BY DeskFacts, OrderConstants
  <1>5. sent' \in [Ids -> 0 .. MaxSends]
    BY <1>2, <1>3, <1>4
  <1>6. sent'[o] = sent[o] + 1 /\ \A p \in Ids \ {o} : sent'[p] = sent[p]
    BY <1>2, <1>3, <1>4
  <1>7. \A p \in Ids : sent[p] \in Nat
    BY <1>4
  <1>8. sent'[o] > 0 /\ \A p \in Ids : sent'[p] >= sent[p]
    BY <1>2, <1>6, <1>7
  <1> QED
    BY <1>2, <1>3, <1>5, <1>8 DEF Ids

(***************************************************************************)
(* WalletPays adds a payment no order knows.                               *)
(***************************************************************************)
LEMMA PayEffect ==
  ASSUME DeskInv, WalletPays
  PROVE  /\ payments' \in Seq(Nat) /\ Len(payments') = Len(payments) + 1
         /\ \A k \in 1 .. Len(payments) : payments'[k] = payments[k]
         /\ payments'[Len(payments) + 1] = job["member"].amount
         /\ job'["member"] = [job["member"] EXCEPT !.at = "finalize",
                                                   !.pay = Len(payments) + 1]
         /\ orders' = orders /\ sent' = sent /\ Ids' = Ids
  <1>1. /\ payments' = Append(payments, job["member"].amount)
        /\ job' = [job EXCEPT !["member"].at = "finalize",
                              !["member"].pay = Len(payments) + 1]
        /\ orders' = orders /\ sent' = sent
    BY DEF WalletPays
  <1>2. /\ payments \in Seq(Nat) /\ job \in [Roles -> Job] /\ "member" \in Roles
        /\ job["member"].amount \in Nat
    BY DeskFacts DEF Roles, Job
  <1>3. job'["member"] = [job["member"] EXCEPT !.at = "finalize", !.pay = Len(payments) + 1]
    BY <1>1, <1>2
  <1> QED
    BY <1>1, <1>2, <1>3, AppendProperties DEF Ids

-----------------------------------------------------------------------------
\* Only six actions write the tables.
LEMMA DeskCases ==
  ASSUME [Next]_vars
  PROVE  \/ SaveOrder
         \/ \E w \in writes : StatusWritten(w)
         \/ \E p \in 1 .. Len(payments) : OrderPlaced(p)
         \/ OrderCancelled
         \/ ReleasePaid
         \/ WalletPays
         \/ UNCHANGED Tables
  <1>1. ASSUME \/ \E page \in {"board", "workspace"} : handleOrder(page)
               \/ SignOrder \/ workspaceSkipsPayment \/ OrderRefused
               \/ \E r \in Roles : Refreshed(r) \/ WalletDeclines(r) \/ RequestLost(r)
                                   \/ StatusRead(r)
               \/ handleAccept \/ handleComplete \/ handleConfirm \/ handleReleasePayout
               \/ handleBindPlatformTreasury
               \/ RoundCloses \/ \E p \in Prices : MenuChanges(p)
               \/ UNCHANGED vars
        PROVE  UNCHANGED Tables
    BY <1>1 DEF handleOrder, SignOrder, workspaceSkipsPayment, OrderRefused, Refreshed,
                WalletDeclines, RequestLost, StatusRead, handleAccept, handleComplete,
                handleConfirm, handleReleasePayout, Pressed, handleBindPlatformTreasury,
                RoundCloses, MenuChanges, vars, Tables
  <1> QED
    BY <1>1 DEF Next, Ordering, Changing

(***************************************************************************)
(* The tables only grow: no order loses a step it has been through, no     *)
(* payout is taken back, and what an order says of itself stays.           *)
(***************************************************************************)
TablesGrow ==
  /\ orders' \in Seq(Rows) /\ Len(orders') <= MaxOrders
  /\ sent' \in [Ids' -> 0 .. MaxSends]
  /\ payments' \in Seq(Nat)
  /\ Ids \subseteq Ids'
  /\ \A o \in Ids : SameOrder(o) /\ Stage(o)' >= Stage(o) /\ sent'[o] >= sent[o]

\* To add an order is to grow.
LEMMA AddedGrows ==
  ASSUME DeskInv, NEW new, Added(new)
  PROVE  TablesGrow
  <1>1. /\ orders' \in Seq(Rows) /\ Len(orders') <= MaxOrders
        /\ sent' \in [Ids' -> 0 .. MaxSends] /\ payments' = payments /\ Ids \subseteq Ids'
        /\ \A o \in Ids : orders'[o] = orders[o] /\ sent'[o] = sent[o]
    BY Zenon DEF Added
  <1>2. \A o \in Ids : SameOrder(o) /\ Stage(o)' = Stage(o)
    BY <1>1 DEF SameOrder, Stage
  <1>3. \A o \in Ids : Stage(o) \in 1 .. 5 /\ sent[o] \in Nat
    BY DeskFacts
  <1>4. \A o \in Ids : Stage(o)' >= Stage(o) /\ sent'[o] >= sent[o]
    BY <1>1, <1>2, <1>3
  <1> QED
    BY <1>1, <1>2, <1>4, DeskFacts DEF TablesGrow

\* To keep the orders and their payouts is to grow.
LEMMA KeptGrows ==
  ASSUME DeskInv, Kept, sent' = sent
  PROVE  TablesGrow
  <1>1. /\ orders' \in Seq(Rows) /\ Len(orders') = Len(orders) /\ Ids' = Ids
        /\ payments' = payments
        /\ \A o \in Ids : SameOrder(o) /\ Stage(o)' >= Stage(o)
    BY DEF Kept
  <1>2. \A o \in Ids : sent[o] \in Nat
    BY DeskFacts
  <1>3. \A o \in Ids : sent'[o] >= sent[o]
    BY <1>2
  <1> QED
    BY <1>1, <1>3, DeskFacts DEF TablesGrow

\* Every step lets the tables grow.
LEMMA TablesStep ==
  ASSUME DeskInv, [Next]_vars
  PROVE  TablesGrow
  <1>1. ASSUME orders' = orders, payments' \in Seq(Nat), sent' \in [Ids -> 0 .. MaxSends],
               \A o \in Ids : sent'[o] >= sent[o]
        PROVE  TablesGrow
    <2>1. Ids' = Ids /\ \A o \in Ids : SameOrder(o) /\ Stage(o)' = Stage(o)
      BY <1>1 DEF Stage, Ids, SameOrder
    <2>2. \A o \in Ids : Stage(o) \in 1 .. 5
      BY DeskFacts
    <2>3. \A o \in Ids : Stage(o)' >= Stage(o)
      BY <2>1, <2>2
    <2> QED
      BY <1>1, <2>1, <2>3, DeskFacts DEF TablesGrow
  <1>2. CASE SaveOrder
    BY <1>2, SaveEffect, AddedGrows
  <1>3. ASSUME NEW w \in writes, StatusWritten(w) PROVE TablesGrow
    BY <1>3, WrittenEffect, KeptGrows
  <1>4. ASSUME NEW p \in 1 .. Len(payments), OrderPlaced(p) PROVE TablesGrow
    BY <1>4, EventEffect, AddedGrows, KeptGrows DEF SetBackTo
  <1>5. CASE OrderCancelled
    BY <1>5, CancelEffect, KeptGrows DEF SetBackTo
  <1>6. CASE ReleasePaid
    BY <1>1, <1>6, ReleaseEffect, DeskFacts
  <1>7. ASSUME sent' = sent
        PROVE  sent' \in [Ids -> 0 .. MaxSends] /\ \A o \in Ids : sent'[o] >= sent[o]
    <2>1. \A o \in Ids : sent[o] \in Nat
      BY DeskFacts
    <2> QED
      BY <1>7, <2>1, DeskFacts
  <1>8. CASE WalletPays
    BY <1>1, <1>7, <1>8, PayEffect
  <1>9. CASE UNCHANGED Tables
    BY <1>1, <1>7, <1>9, DeskFacts DEF Tables
  <1> QED
    BY <1>2, <1>3, <1>4, <1>5, <1>6, <1>8, <1>9, DeskCases

\* What a grown table says of the orders it had.
LEMMA GrownFacts ==
  ASSUME DeskInv, TablesGrow
  PROVE  /\ \A o \in Ids' : Stage(o)' \in 1 .. 5 /\ Now(o)' \in 0 .. 5 /\ sent'[o] \in Nat
         /\ \A o \in Ids : /\ o \in Ids' /\ Stage(o) \in 1 .. 5 /\ Stage(o)' \in 1 .. 5
                           /\ Stage(o)' >= Stage(o)
                           /\ sent[o] \in Nat /\ sent'[o] \in Nat /\ sent'[o] >= sent[o]
  <1>1. /\ Ids \subseteq Ids' /\ orders' \in Seq(Rows)
        /\ sent' \in [Ids' -> 0 .. MaxSends]
        /\ \A o \in Ids : Stage(o)' >= Stage(o) /\ sent'[o] >= sent[o]
    BY DEF TablesGrow
  <1>2. \A o \in Ids' : orders'[o] \in Rows
    BY <1>1, ElementOfSeq DEF Ids
  <1>3. \A o \in Ids' : Stage(o)' \in 1 .. 5 /\ Now(o)' \in 0 .. 5
    BY <1>2, RowFacts DEF Stage, Now
  <1>4. \A o \in Ids' : sent'[o] \in Nat
    <2>1. MaxSends \in Nat
      BY OrderConstants
    <2> QED
      BY <1>1, <2>1
  <1> QED
    BY <1>1, <1>3, <1>4, DeskFacts

\* Pages have started as many requests as before, or one more.
LEMMA ClicksStep ==
  ASSUME DeskInv, [Next]_vars
  PROVE  clicks' \in Nat /\ clicks' >= clicks
  <1>1. clicks \in Nat
    BY DeskFacts
  <1>2. clicks' = clicks \/ clicks' = clicks + 1
    BY DEF handleOrder, SignOrder, WalletPays, workspaceSkipsPayment, SaveOrder,
           OrderRefused, Refreshed, ReleasePaid, WalletDeclines, RequestLost, StatusRead,
           StatusWritten, OrderPlaced, OrderCancelled, handleAccept, handleComplete,
           handleConfirm, handleReleasePayout, Pressed, Click, handleBindPlatformTreasury,
           RoundCloses, MenuChanges, desk, vars, Next, Ordering, Changing
  <1> QED
    BY <1>1, <1>2

-----------------------------------------------------------------------------
(***************************************************************************)
(* What a step does to the requests the pages wait for.  A page that is    *)
(* not about to move an order is not of interest.                          *)
(***************************************************************************)
Quiet == {"idle", "sign", "wallet", "finalize", "checked", "refresh"}

JobMoves(r) ==
  \/ job'[r] = job[r]
  \/ job'[r].at \in Quiet
  \/ /\ \E f \in shown[r] :
           /\ job'[r].order = f.order /\ job'[r].to = f.to /\ f.to \in Moves
           /\ \/ job'[r].at = "ask" /\ f.to # "platform_paid"
              \/ job'[r].at = "prompt" /\ f.to = "platform_paid"
     /\ UNCHANGED Tables /\ clicks' = clicks + 1
  \/ /\ r = "admin" /\ ReleasePaid
     /\ job'[r].at = "ask" /\ job'[r].order = job[r].order /\ job'[r].to = job[r].to

\* A request of one role leaves the other roles' requests alone.
LEMMA JobUpdate ==
  ASSUME DeskInv, NEW x \in Roles, NEW v \in Job, job' = [job EXCEPT ![x] = v]
  PROVE  /\ job' \in [Roles -> Job] /\ job'[x] = v
         /\ \A y \in Roles \ {x} : job'[y] = job[y]
  BY DeskFacts

NewJob(at, order, to) == [Idle EXCEPT !.at = at, !.order = order, !.to = to]

\* Idle and new requests are well typed.
LEMMA IdleJob ==
  /\ Idle \in Job /\ Idle.at = "idle"
  /\ \A at \in Places, order \in Nat, to \in Pages \cup Moves :
       /\ NewJob(at, order, to) \in Job
       /\ NewJob(at, order, to).at = at
       /\ NewJob(at, order, to).order = order
       /\ NewJob(at, order, to).to = to
  <1>1. Idle \in Job /\ Idle.at = "idle"
    BY DEF Idle, Job, Places
  <1>2. ASSUME NEW at \in Places, NEW order \in Nat, NEW to \in Pages \cup Moves
        PROVE  /\ NewJob(at, order, to) \in Job
               /\ NewJob(at, order, to).at = at
               /\ NewJob(at, order, to).order = order
               /\ NewJob(at, order, to).to = to
    BY DEF Idle, Job, NewJob
  <1> QED
    BY <1>1, <1>2

\* A request that moves on keeps its order, its aim, its amount and its payment.
LEMMA GotoEffect ==
  ASSUME DeskInv, NEW x \in Roles, NEW at \in Places, Goto(x, at)
  PROVE  /\ job' \in [Roles -> Job]
         /\ job'[x].at = at /\ job'[x].order = job[x].order /\ job'[x].to = job[x].to
         /\ job'[x].amount = job[x].amount /\ job'[x].pay = job[x].pay
         /\ \A y \in Roles \ {x} : job'[y] = job[y]
  <1> DEFINE v == [job[x] EXCEPT !.at = at]
  <1>1. job[x] \in Job /\ job \in [Roles -> Job]
    BY DeskFacts
  <1>2. job' = [job EXCEPT ![x] = v]
    BY DEF Goto
  <1>3. v \in Job
    BY <1>1 DEF Job
  <1>4. /\ v.at = at /\ v.order = job[x].order /\ v.to = job[x].to
        /\ v.amount = job[x].amount /\ v.pay = job[x].pay
    BY <1>1 DEF Job
  <1> HIDE DEF v
  <1>5. job' \in [Roles -> Job] /\ job'[x] = v /\ \A y \in Roles \ {x} : job'[y] = job[y]
    BY <1>2, <1>3, JobUpdate
  <1> QED
    BY <1>4, <1>5

\* A request that ends leaves the role idle.
LEMMA EndsEffect ==
  ASSUME DeskInv, NEW x \in Roles, Ends(x)
  PROVE  /\ job' \in [Roles -> Job] /\ job'[x] = Idle
         /\ \A y \in Roles \ {x} : job'[y] = job[y]
  <1>1. job' = [job EXCEPT ![x] = Idle] /\ Idle \in Job
    BY IdleJob DEF Ends
  <1> QED
    BY <1>1, JobUpdate

\* A pressed control starts a request that was on offer.
LEMMA PressedEffect ==
  ASSUME DeskInv, NEW to \in Moves, NEW first \in {"ask", "prompt"}, Pressed(to, first),
         first = "prompt" <=> to = "platform_paid"
  PROVE  job' \in [Roles -> Job] /\ \A r \in Roles : JobMoves(r)
  <1> DEFINE x == RoleOf(to)
  <1>1. x \in Roles
    BY StageFacts
  <1>2. PICK f \in shown[x] :
          /\ f.to = to /\ UNCHANGED Tables /\ clicks' = clicks + 1
          /\ job' = [job EXCEPT ![x] =
                       [Idle EXCEPT !.at = first, !.order = f.order, !.to = to]]
    <2>1. \E f \in shown[x] :
            /\ f.to = to /\ At(x, "idle") /\ Click
            /\ job' = [job EXCEPT ![x] =
                         [Idle EXCEPT !.at = first, !.order = f.order, !.to = to]]
            /\ UNCHANGED <<chain, orders, writes, payments, sent, shown>>
      BY Zenon DEF Pressed
    <2> QED
      BY <2>1, Zenon DEF Tables, Click
  <1> DEFINE v == NewJob(first, f.order, to)
  <1>3. f \in Offering
    BY <1>1, DeskFacts
  <1>4. v \in Job /\ v.at = first /\ v.order = f.order /\ v.to = to
    <2>1. f.order \in Nat /\ first \in Places /\ to \in Pages \cup Moves
      BY <1>3 DEF Offering, Places
    <2> QED
      BY <2>1, IdleJob
  <1>5. job' = [job EXCEPT ![x] = v]
    BY <1>2 DEF NewJob
  <1> HIDE DEF x, v
  <1>6. job' \in [Roles -> Job] /\ job'[x] = v /\ \A y \in Roles \ {x} : job'[y] = job[y]
    BY <1>1, <1>4, <1>5, JobUpdate
  <1>7. \A y \in Roles \ {x} : JobMoves(y)
    BY <1>6 DEF JobMoves
  <1>8. JobMoves(x)
    <2>1. /\ job'[x].order = f.order /\ job'[x].to = f.to /\ f.to \in Moves
          /\ \/ job'[x].at = "ask" /\ f.to # "platform_paid"
             \/ job'[x].at = "prompt" /\ f.to = "platform_paid"
      BY <1>2, <1>4, <1>6
    <2> QED
      BY <1>2, <2>1 DEF JobMoves
  <1> QED
    BY <1>6, <1>7, <1>8

(***************************************************************************)
(* What a step does to the payment the member's page has in hand.          *)
(***************************************************************************)
PurseMoves ==
  \/ job'["member"] = job["member"]
  \/ job'["member"].at \notin {"sign", "wallet", "finalize"}
  \/ job'["member"].at \in {"sign", "wallet"} /\ job'["member"].pay = 0
  \/ WalletPays
  \/ /\ job'["member"].at = "finalize" /\ job["member"].at = "wallet"
     /\ job'["member"].pay = job["member"].pay
     /\ job'["member"].amount = job["member"].amount

JobsMove == job' \in [Roles -> Job] /\ (\A r \in Roles : JobMoves(r)) /\ PurseMoves

\* Where no request moves, all move as they may.
LEMMA SameJobs == ASSUME DeskInv, UNCHANGED job PROVE JobsMove
  BY DeskFacts DEF JobsMove, JobMoves, PurseMoves

\* A request that ends moves as it may.
LEMMA EndsMoves == ASSUME DeskInv, NEW x \in Roles, Ends(x) PROVE JobsMove
  <1>1. /\ job' \in [Roles -> Job] /\ job'[x] = Idle /\ Idle.at = "idle"
        /\ \A y \in Roles \ {x} : job'[y] = job[y]
    BY EndsEffect, IdleJob
  <1>2. JobMoves(x) /\ \A y \in Roles \ {x} : JobMoves(y)
    BY <1>1 DEF JobMoves, Quiet
  <1>3. PurseMoves
    BY <1>1 DEF PurseMoves, Roles
  <1> QED
    BY <1>1, <1>2, <1>3 DEF JobsMove

\* A request that is answered moves as it may: the page goes on to its lists.
LEMMA DoneMoves == ASSUME DeskInv, NEW x \in Roles, Done(x) PROVE JobsMove
  <1> DEFINE v == [Idle EXCEPT !.at = "refresh"]
  <1>1. v \in Job /\ v.at = "refresh"
    BY DEF Idle, Job, Places
  <1>2. job' = [job EXCEPT ![x] = v]
    BY DEF Done
  <1> HIDE DEF v
  <1>3. job' \in [Roles -> Job] /\ job'[x] = v /\ \A y \in Roles \ {x} : job'[y] = job[y]
    BY <1>1, <1>2, JobUpdate
  <1>4. JobMoves(x) /\ \A y \in Roles \ {x} : JobMoves(y)
    BY <1>1, <1>3 DEF JobMoves, Quiet
  <1>5. PurseMoves
    BY <1>1, <1>3 DEF PurseMoves, Roles
  <1> QED
    BY <1>3, <1>4, <1>5 DEF JobsMove

\* A pressed control starts a request as it may.
LEMMA PressedMoves ==
  ASSUME DeskInv, NEW to \in Moves, NEW first \in {"ask", "prompt"}, Pressed(to, first),
         first = "prompt" <=> to = "platform_paid"
  PROVE  JobsMove
  <1>1. job' \in [Roles -> Job] /\ \A r \in Roles : JobMoves(r)
    BY PressedEffect
  <1>2. PurseMoves
    <2> DEFINE x == RoleOf(to)
    <2>1. PICK v \in Job : v.at = first /\ job' = [job EXCEPT ![x] = v]
      <3>1. PICK f \in shown[x] :
              job' = [job EXCEPT ![x] =
                        [Idle EXCEPT !.at = first, !.order = f.order, !.to = to]]
        BY Zenon DEF Pressed
      <3>2. x \in Roles
        BY StageFacts
      <3>3. f \in Offering
        BY <3>2, DeskFacts
      <3>4. f.order \in Nat /\ first \in Places /\ to \in Pages \cup Moves
        BY <3>3 DEF Offering, Places
      <3>5. NewJob(first, f.order, to) \in Job /\ NewJob(first, f.order, to).at = first
        BY <3>4, IdleJob
      <3> QED
        BY <3>1, <3>5 DEF NewJob
    <2>2. job'["member"] = job["member"] \/ job'["member"] = v
      BY <2>1, DeskFacts DEF Roles
    <2> QED
      BY <2>1, <2>2 DEF PurseMoves
  <1> QED
    BY <1>1, <1>2 DEF JobsMove

(***************************************************************************)
(* The steps of the member's page.                                         *)
(***************************************************************************)
LEMMA MemberMoves ==
  ASSUME DeskInv, NEW v \in Job, v.at \in Quiet, job' = [job EXCEPT !["member"] = v],
         PurseMoves
  PROVE  JobsMove
  <1>1. /\ job' \in [Roles -> Job] /\ job'["member"] = v
        /\ \A y \in Roles \ {"member"} : job'[y] = job[y]
    BY JobUpdate DEF Roles
  <1>2. JobMoves("member") /\ \A y \in Roles \ {"member"} : JobMoves(y)
    BY <1>1 DEF JobMoves
  <1> QED
    BY <1>1, <1>2 DEF JobsMove

\* The steps of placing an order move the member's request as they may.
LEMMA OrderingMoves ==
  ASSUME DeskInv, Ordering
  PROVE  JobsMove
  <1> DEFINE j == job["member"]
  <1>1. j \in Job /\ "member" \in Roles /\ job \in [Roles -> Job]
    BY DeskFacts DEF Roles
  <1>3. ASSUME NEW page \in Pages, handleOrder(page) PROVE JobsMove
    <2> DEFINE v == [Idle EXCEPT !.at = "sign", !.to = page]
    <2>1. v \in Job /\ v.at = "sign" /\ v.pay = 0
      BY DEF Idle, Job, Places
    <2>2. job' = [job EXCEPT !["member"] = v]
      BY <1>3 DEF handleOrder
    <2> HIDE DEF v
    <2>3. job'["member"] = v
      BY <1>1, <2>2
    <2> QED
      BY <2>1, <2>2, <2>3, MemberMoves DEF PurseMoves, Quiet
  <1>4. CASE SignOrder
    <2> DEFINE v == [j EXCEPT !.at = "wallet", !.amount = price]
    <2>1. price \in Nat
      BY DEF DeskInv, DeskTypes
    <2>2. v \in Job /\ v.at = "wallet" /\ v.pay = j.pay
      BY <1>1, <2>1 DEF Job, Places
    <2>3. j.pay = 0
      BY <1>4 DEF DeskInv, PaymentHolds, SignOrder, At
    <2>4. job' = [job EXCEPT !["member"] = v]
      BY <1>1, <1>4 DEF SignOrder
    <2> HIDE DEF v
    <2>5. job'["member"] = v
      BY <1>1, <2>4
    <2> QED
      BY <2>2, <2>3, <2>4, <2>5, MemberMoves DEF PurseMoves, Quiet
  <1>5. CASE WalletPays
    <2> DEFINE v == [j EXCEPT !.at = "finalize", !.pay = Len(payments) + 1]
    <2>1. Len(payments) + 1 \in Nat
      BY DeskFacts
    <2>2. v \in Job /\ v.at = "finalize"
      BY <1>1, <2>1 DEF Job, Places
    <2>3. job' = [job EXCEPT !["member"] = v]
      BY <1>1, <1>5 DEF WalletPays
    <2> HIDE DEF v
    <2> QED
      BY <1>5, <2>2, <2>3, MemberMoves DEF PurseMoves, Quiet
  <1>6. CASE workspaceSkipsPayment
    <2>1. /\ job' \in [Roles -> Job] /\ j.at = "wallet"
          /\ job'["member"].at = "finalize"
          /\ job'["member"].pay = j.pay /\ job'["member"].amount = j.amount
          /\ \A y \in Roles \ {"member"} : job'[y] = job[y]
      BY <1>1, <1>6, GotoEffect DEF Places, workspaceSkipsPayment, At
    <2>2. JobMoves("member") /\ \A y \in Roles \ {"member"} : JobMoves(y)
      BY <2>1 DEF JobMoves, Quiet
    <2>3. PurseMoves
      BY <2>1 DEF PurseMoves
    <2> QED
      BY <2>1, <2>2, <2>3 DEF JobsMove
  <1>9. CASE SaveOrder
    BY <1>1, <1>9, DoneMoves DEF SaveOrder
  <1>10. CASE OrderRefused
    BY <1>1, <1>10, EndsMoves DEF OrderRefused
  <1> QED
    BY <1>3, <1>4, <1>5, <1>6, <1>9, <1>10 DEF Ordering, Pages

(***************************************************************************)
(* The requests every page makes, and the lists it asks for again.         *)
(***************************************************************************)
LEMMA ChangingMoves ==
  ASSUME DeskInv, NEW r \in Roles, Changing(r)
  PROVE  JobsMove
  <1>1. CASE Refreshed(r)
    BY <1>1, EndsMoves, SameJobs DEF Refreshed
  <1>2. CASE WalletDeclines(r)
    BY <1>2, EndsMoves DEF WalletDeclines
  <1>3. CASE RequestLost(r)
    BY <1>3, EndsMoves DEF RequestLost
  <1>4. ASSUME job' = [job EXCEPT ![r].at = "checked", ![r].id = clicks]
        PROVE  JobsMove
    <2> DEFINE v == [job[r] EXCEPT !.at = "checked", !.id = clicks]
    <2>1. job[r] \in Job /\ clicks \in Nat /\ job \in [Roles -> Job]
      BY DeskFacts
    <2>2. v \in Job /\ v.at = "checked"
      BY <2>1 DEF Job, Places
    <2>3. job' = [job EXCEPT ![r] = v]
      BY <1>4, <2>1
    <2> HIDE DEF v
    <2>4. job' \in [Roles -> Job] /\ job'[r] = v /\ \A y \in Roles \ {r} : job'[y] = job[y]
      BY <2>2, <2>3, JobUpdate
    <2>5. JobMoves(r) /\ \A y \in Roles \ {r} : JobMoves(y)
      BY <2>2, <2>4 DEF JobMoves, Quiet
    <2>6. PurseMoves
      BY <2>2, <2>4 DEF PurseMoves, Roles
    <2> QED
      BY <2>4, <2>5, <2>6 DEF JobsMove
  <1>5. CASE StatusRead(r)
    BY <1>4, <1>5, EndsMoves DEF StatusRead
  <1> QED
    BY <1>1, <1>2, <1>3, <1>5 DEF Changing

\* Every step moves the requests as they may.
LEMMA JobStep ==
  ASSUME DeskInv, [Next]_vars
  PROVE  JobsMove
  <1>1. CASE handleAccept
    BY <1>1, PressedMoves DEF handleAccept, Moves
  <1>2. CASE handleComplete
    BY <1>2, PressedMoves DEF handleComplete, Moves
  <1>3. CASE handleConfirm
    BY <1>3, PressedMoves DEF handleConfirm, Moves
  <1>4. CASE handleReleasePayout
    BY <1>4, PressedMoves DEF handleReleasePayout, Moves
  <1>5. CASE ReleasePaid
    <2>1. /\ job' \in [Roles -> Job] /\ "admin" \in Roles
          /\ job'["admin"].at = "ask" /\ job'["admin"].order = job["admin"].order
          /\ job'["admin"].to = job["admin"].to
          /\ \A y \in Roles \ {"admin"} : job'[y] = job[y]
      BY <1>5, GotoEffect DEF ReleasePaid, Places, Roles
    <2>2. JobMoves("admin") /\ \A y \in Roles \ {"admin"} : JobMoves(y)
      BY <1>5, <2>1 DEF JobMoves
    <2>3. PurseMoves
      BY <2>1 DEF PurseMoves, Roles
    <2> QED
      BY <2>1, <2>2, <2>3 DEF JobsMove
  <1>6. CASE handleBindPlatformTreasury \/ RoundCloses
             \/ (\E p \in Prices : MenuChanges(p)) \/ UNCHANGED vars
             \/ (\E p \in 1 .. Len(payments) : OrderPlaced(p)) \/ OrderCancelled
    BY <1>6, SameJobs DEF handleBindPlatformTreasury, RoundCloses, MenuChanges, vars,
                          OrderPlaced, OrderCancelled
  <1>7. CASE Ordering
    BY <1>7, OrderingMoves
  <1>8. CASE \E r \in Roles : Changing(r)
    BY <1>8, ChangingMoves
  <1>9. ASSUME NEW w \in writes, StatusWritten(w) PROVE JobsMove
    <2>1. RoleOf(w.to) \in Roles
      BY DeskFacts, StageFacts
    <2> QED
      BY <1>9, <2>1, DoneMoves, SameJobs DEF StatusWritten
  <1> QED
    BY <1>1, <1>2, <1>3, <1>4, <1>5, <1>6, <1>7, <1>8, <1>9 DEF Next

(***************************************************************************)
(* The lists of a page: those it had, or those it asks for now.            *)
(***************************************************************************)
LEMMA OffersHold ==
  ASSUME DeskInv, NEW r \in Roles, NEW f \in Offers(r)
  PROVE  f \in Offering /\ OfferHolds(r, f)
  <1>1. \A o \in Ids : o \in Nat
    BY DEF Ids
  <1>2. ASSUME NEW o \in Ids, NEW to \in Moves, RoleOf(to) = r, f = Offer(o, to),
               Now(o) = StageOf(to) - 1
        PROVE  f \in Offering /\ OfferHolds(r, f)
    <2>1. f \in Offering /\ f.order = o /\ f.to = to
      BY <1>1, <1>2 DEF Offer, Offering
    <2>2. Stage(o) >= StageOf(to) - 1
      <3>1. Stage(o) \in 1 .. 5 /\ Now(o) <= Stage(o) /\ StageOf(to) \in 2 .. 5
        BY DeskFacts, StageFacts
      <3> QED
        BY <1>2, <3>1
    <2> QED
      BY <1>2, <2>1, <2>2 DEF OfferHolds
  <1>3. ASSUME NEW page \in Pages, f = Offer(0, page)
        PROVE  f \in Offering /\ OfferHolds(r, f)
    BY <1>3 DEF Offer, Offering, OfferHolds
  <1>4. \A status : \A o \in With(status) : o \in Ids /\ Now(o) = StageOf(status)
    BY DEF With, Now, Standing
  <1>5. ASSUME f \in acceptButtons \cup completeButtons, r = "merchant"
        PROVE  f \in Offering /\ OfferHolds(r, f)
    <2>1. CASE f \in acceptButtons
      <3>1. PICK o \in With("payment_received") : f = Offer(o, "merchant_accepted")
        BY <2>1 DEF acceptButtons
      <3>2. o \in Ids /\ Now(o) = 1
        BY <1>4, StageNumbers
      <3> QED
        BY <1>2, <1>5, <3>1, <3>2, StageNumbers DEF Moves, RoleOf
    <2>2. CASE f \in completeButtons
      <3>1. PICK o \in With("merchant_accepted") : f = Offer(o, "merchant_completed")
        BY <2>2 DEF completeButtons
      <3>2. o \in Ids /\ Now(o) = 2
        BY <1>4, StageNumbers
      <3> QED
        BY <1>2, <1>5, <3>1, <3>2, StageNumbers DEF Moves, RoleOf
    <2> QED
      BY <1>5, <2>1, <2>2
  <1>6. ASSUME f \in submittedOrders, r = "member"
        PROVE  f \in Offering /\ OfferHolds(r, f)
    <2>1. PICK o \in With("merchant_completed") : f = Offer(o, "ready_for_payout")
      BY <1>6 DEF submittedOrders
    <2>2. o \in Ids /\ Now(o) = 3
      BY <1>4, StageNumbers
    <2> QED
      BY <1>2, <1>6, <2>1, <2>2, StageNumbers DEF Moves, RoleOf
  <1>7. ASSUME f \in readyPayoutOrders, r = "admin"
        PROVE  f \in Offering /\ OfferHolds(r, f)
    <2>1. PICK o \in With("ready_for_payout") : f = Offer(o, "platform_paid")
      BY <1>7 DEF readyPayoutOrders
    <2>2. o \in Ids /\ Now(o) = 4
      BY <1>4, StageNumbers
    <2> QED
      BY <1>2, <1>7, <2>1, <2>2, StageNumbers DEF Moves, RoleOf
  <1>8. CASE r = "member"
    <2>1. f \in boardPlaces \cup workspacePlaces \cup submittedOrders
      BY <1>8 DEF Offers, myOrderHistory
    <2>2. CASE f \in boardPlaces \cup workspacePlaces
      BY <1>3, <2>2 DEF boardPlaces, workspacePlaces, Pages
    <2> QED
      BY <1>6, <1>8, <2>1, <2>2
  <1>9. CASE r = "merchant"
    BY <1>5, <1>9 DEF Offers, merchantActions
  <1>10. CASE r = "admin"
    BY <1>7, <1>10 DEF Offers
  <1> QED
    BY <1>8, <1>9, <1>10 DEF Roles

\* A page changes what it offers only when it is refreshed.
LEMMA ShownCases ==
  ASSUME [Next]_vars
  PROVE  UNCHANGED shown \/ \E r \in Roles : Refreshed(r)
  BY DEF handleOrder, SignOrder, WalletPays, workspaceSkipsPayment, SaveOrder, OrderRefused, ReleasePaid, WalletDeclines,
         RequestLost, StatusRead, StatusWritten, handleAccept, handleComplete,
         handleConfirm, handleReleasePayout, Pressed, handleBindPlatformTreasury,
         RoundCloses, MenuChanges, OrderPlaced, OrderCancelled, vars, Next, Ordering, Changing

\* What a page offers was possible when it was read, and stays so.
LEMMA OfferStep ==
  ASSUME DeskInv, [Next]_vars
  PROVE  /\ shown' \in [Roles -> SUBSET Offering]
         /\ \A r \in Roles : \A f \in shown'[r] : OfferHolds(r, f)'
  <1>1. ASSUME NEW r \in Roles, NEW f \in Offering, OfferHolds(r, f)
        PROVE  OfferHolds(r, f)'
    <2>2. CASE f.order = 0 /\ f.to \in Pages
      BY <2>2 DEF OfferHolds
    <2>3. ASSUME f.order \in Ids, f.to \in Moves, RoleOf(f.to) = r,
                 Stage(f.order) >= StageOf(f.to) - 1
          PROVE  OfferHolds(r, f)'
      <3>0. PICK o : o = f.order
        OBVIOUS
      <3>1. /\ o \in Ids' /\ Stage(o)' >= Stage(o) /\ Stage(o) \in 1 .. 5 /\ Stage(o)' \in 1 .. 5
            /\ StageOf(f.to) \in 2 .. 5
        BY <2>3, <3>0, TablesStep, GrownFacts, StageFacts
      <3>2. Stage(o) >= StageOf(f.to) - 1
        BY <2>3, <3>0
      <3>3. Stage(o)' >= StageOf(f.to) - 1
        BY <3>1, <3>2
      <3> QED
        BY <2>3, <3>0, <3>1, <3>3 DEF OfferHolds
    <2> QED
      BY <1>1, <2>2, <2>3 DEF OfferHolds
  <1>2. CASE UNCHANGED shown
    BY <1>1, <1>2, DeskFacts
  <1>3. ASSUME NEW x \in Roles, Refreshed(x)
        PROVE  /\ shown' \in [Roles -> SUBSET Offering]
               /\ \A r \in Roles : \A f \in shown'[r] : OfferHolds(r, f)'
    <2>1. shown' = [shown EXCEPT ![x] = Offers(x)]
      BY <1>3 DEF Refreshed
    <2>2. \A f \in Offers(x) : f \in Offering /\ OfferHolds(x, f)
      BY OffersHold
    <2>3. shown' \in [Roles -> SUBSET Offering]
      BY <2>1, <2>2, DeskFacts
    <2>4. \A r \in Roles : \A f \in shown'[r] : f \in Offering /\ OfferHolds(r, f)
      BY <2>1, <2>2, DeskFacts
    <2> QED
      BY <1>1, <2>3, <2>4
  <1> QED
    BY <1>2, <1>3, ShownCases

(***************************************************************************)
(* Every step keeps what a request holds.                                  *)
(***************************************************************************)
LEMMA JobHoldsStep ==
  ASSUME DeskInv, [Next]_vars, NEW r \in Roles
  PROVE  JobHolds(r)'
  <1>1. JobMoves(r)
    BY JobStep DEF JobsMove
  <1>2. PICK o, to : o = job[r].order /\ to = job[r].to
    OBVIOUS
  <1>3. /\ job[r].at \in {"prompt", "ask"} =>
             o \in Ids /\ to \in Moves /\ RoleOf(to) = r /\ clicks > 0
        /\ job[r].at = "prompt" => Stage(o) >= 4
        /\ job[r].at = "ask" /\ r = "admin" => sent[o] > 0
    BY <1>2, DeskFacts DEF JobHolds
  <1>4. \A p \in Ids : /\ p \in Ids' /\ Stage(p)' >= Stage(p) /\ sent'[p] >= sent[p]
                       /\ Stage(p) \in 1 .. 5 /\ sent[p] \in Nat
                       /\ Stage(p)' \in 1 .. 5 /\ sent'[p] \in Nat
    BY TablesStep, GrownFacts
  <1>5. clicks \in Nat /\ clicks' \in Nat /\ clicks' >= clicks
    BY ClicksStep, DeskFacts
  <1>6. CASE job'[r] = job[r]
    <2>1. job'[r].order = o /\ job'[r].to = to /\ job'[r].at = job[r].at
      BY <1>2, <1>6
    <2>2. /\ job[r].at \in {"prompt", "ask"} =>
               o \in Ids' /\ to \in Moves /\ RoleOf(to) = r /\ clicks' > 0
          /\ job[r].at = "prompt" => Stage(o)' >= 4
          /\ job[r].at = "ask" /\ r = "admin" => sent'[o] > 0
      BY <1>3, <1>4, <1>5
    <2> QED
      BY <2>1, <2>2 DEF JobHolds, Stage
  <1>7. CASE job'[r].at \in Quiet
    BY <1>7 DEF JobHolds, Quiet
  <1>8. ASSUME NEW f \in shown[r], f.to \in Moves, UNCHANGED Tables, clicks' = clicks + 1,
               job'[r].order = f.order, job'[r].to = f.to,
               \/ job'[r].at = "ask" /\ f.to # "platform_paid"
               \/ job'[r].at = "prompt" /\ f.to = "platform_paid"
        PROVE  JobHolds(r)'
    <2>1. OfferHolds(r, f) /\ f.to \notin Pages
      BY <1>8, DeskFacts DEF Moves, Pages
    <2>2. PICK p, t : p = f.order /\ t = f.to
      OBVIOUS
    <2>3. p \in Ids /\ t \in Moves /\ RoleOf(t) = r /\ Stage(p) >= StageOf(t) - 1
      BY <2>1, <2>2 DEF OfferHolds
    <2>4. p \in Ids' /\ Stage(p)' = Stage(p) /\ clicks' > 0
      BY <1>5, <1>8, <2>3 DEF Tables, Ids, Stage
    <2>5. job'[r].at = "prompt" => Stage(p)' >= 4
      BY <1>8, <2>2, <2>3, <2>4, StageNumbers, DeskFacts
    <2>6. job'[r].at = "ask" => r # "admin"
      <3>1. t # "platform_paid" => RoleOf(t) # "admin"
        BY <2>3, StageFacts
      <3> QED
        BY <1>8, <2>2, <2>3, <3>1
    <2>7. job'[r].order = p /\ job'[r].to = t /\ job'[r].at \in {"ask", "prompt"}
      BY <1>8, <2>2
    <2> QED
      BY <2>3, <2>4, <2>5, <2>6, <2>7 DEF JobHolds, Stage
  <1>9. ASSUME r = "admin", ReleasePaid,
               job'[r].at = "ask", job'[r].order = job[r].order, job'[r].to = job[r].to
        PROVE  JobHolds(r)'
    <2>1. job[r].at = "prompt"
      BY <1>9 DEF ReleasePaid, At
    <2>2. sent'[o] > 0
      BY <1>2, <1>9, ReleaseEffect
    <2>3. o \in Ids' /\ to \in Moves /\ RoleOf(to) = r /\ clicks' > 0
      BY <1>3, <1>4, <1>5, <2>1
    <2> QED
      BY <1>2, <1>9, <2>2, <2>3 DEF JobHolds
  <1> QED
    BY <1>1, <1>6, <1>7, <1>8, <1>9 DEF JobMoves

(***************************************************************************)
(* A change is checked against the order as it stands, and later steps     *)
(* take nothing away that it was checked for.                              *)
(***************************************************************************)
Checked(r) ==
  [id |-> clicks, order |-> job[r].order, to |-> job[r].to]

\* What StatusRead adds was possible when it was read.
LEMMA CheckedHolds ==
  ASSUME DeskInv, NEW r \in Roles, At(r, "ask"), Permitted(r), NEW w, w = Checked(r)
  PROVE  /\ w \in Write /\ WriteHolds(w)
         /\ Now(w.order) \in 1 .. 4 /\ StageOf(w.to) = Now(w.order) + 1
         /\ Now(w.order) = 4 => sent[w.order] > 0
  <1>1. PICK o, to, n : o = job[r].order /\ to = job[r].to /\ n = clicks
    OBVIOUS
  <1>2. /\ o \in Ids /\ to \in Moves /\ RoleOf(to) = r
        /\ n \in Nat /\ n > 0
        /\ r = "admin" => sent[o] > 0
    BY <1>1, DeskFacts DEF JobHolds, At
  <1>3. w = [id |-> n, order |-> o, to |-> to]
    BY <1>1 DEF Checked
  <1>4. StageOf(to) = Now(o) + 1
    BY <1>1 DEF Permitted, isValidOrderTransition, Now, Standing
  <1>5. /\ Now(o) \in 0 .. 5 /\ Stage(o) \in 1 .. 5 /\ Now(o) <= Stage(o) /\ o \in Nat
        /\ StageOf(to) \in 2 .. 5
    BY <1>2, DeskFacts, StageFacts
  <1>6. Now(o) \in 1 .. 4 /\ Stage(o) >= StageOf(to) - 1 /\ n \in 1 .. clicks
    BY <1>1, <1>2, <1>4, <1>5
  <1>7. w \in Write /\ w.id = n /\ w.order = o /\ w.to = to
    BY <1>2, <1>3, <1>5 DEF Write
  <1>8. /\ to = "platform_paid" => sent[o] > 0
        /\ Now(o) = 4 => sent[o] > 0
    <2>1. Now(o) = 4 => StageOf(to) = 5
      BY <1>4
    <2>2. to = "platform_paid" => r = "admin"
      BY <1>2, StageFacts
    <2>3. StageOf(to) = 5 => to = "platform_paid"
      BY <1>2, StageFacts
    <2> QED
      BY <1>2, <2>1, <2>2, <2>3
  <1> QED
    BY <1>2, <1>4, <1>6, <1>7, <1>8 DEF WriteHolds

\* A step adds at most the one change it has checked.
LEMMA WriteCases ==
  ASSUME [Next]_vars
  PROVE  \/ writes' \subseteq writes
         \/ \E r \in Roles : /\ At(r, "ask") /\ Permitted(r)
                             /\ writes' = writes \cup {Checked(r)}
  <1>1. ASSUME NEW r \in Roles, StatusRead(r)
        PROVE  \/ writes' \subseteq writes
               \/ At(r, "ask") /\ Permitted(r) /\ writes' = writes \cup {Checked(r)}
    BY <1>1 DEF StatusRead, Checked
  <1>2. ASSUME NEW w \in writes, StatusWritten(w) PROVE writes' \subseteq writes
    BY <1>2 DEF StatusWritten
  <1>3. ASSUME ~\E r \in Roles : StatusRead(r), ~\E w \in writes : StatusWritten(w)
        PROVE  writes' = writes
    BY <1>3 DEF handleOrder, SignOrder, WalletPays, workspaceSkipsPayment, SaveOrder,
           OrderRefused, Refreshed, ReleasePaid, WalletDeclines, RequestLost,
           OrderPlaced, OrderCancelled, handleAccept, handleComplete,
           handleConfirm, handleReleasePayout, Pressed, handleBindPlatformTreasury,
           RoundCloses, MenuChanges, vars, Next, Ordering, Changing
  <1> QED
    BY <1>1, <1>2, <1>3

\* Every step keeps what the unwritten changes hold.
LEMMA WriteStep ==
  ASSUME DeskInv, [Next]_vars
  PROVE  /\ writes' \subseteq Write
         /\ \A w \in writes' : WriteHolds(w)'
  <1>1. ASSUME NEW w \in Write, WriteHolds(w)
        PROVE  WriteHolds(w)'
    <2>1. PICK o, to, n : o = w.order /\ to = w.to /\ n = w.id
      OBVIOUS
    <2>2. /\ o \in Ids /\ n \in 1 .. clicks /\ Stage(o) >= StageOf(to) - 1
          /\ to = "platform_paid" => sent[o] > 0
          /\ to \in Moves
      BY <1>1, <2>1 DEF WriteHolds, Write
    <2>3. /\ o \in Ids' /\ Stage(o) \in 1 .. 5 /\ Stage(o)' \in 1 .. 5 /\ Stage(o)' >= Stage(o)
          /\ sent[o] \in Nat /\ sent'[o] \in Nat /\ sent'[o] >= sent[o]
      BY <2>2, TablesStep, GrownFacts
    <2>4. StageOf(to) \in 2 .. 5 /\ clicks \in Nat /\ clicks' \in Nat /\ clicks' >= clicks
      BY <2>2, StageFacts, ClicksStep, DeskFacts
    <2>5. /\ n \in 1 .. clicks' /\ Stage(o)' >= StageOf(to) - 1
          /\ to = "platform_paid" => sent'[o] > 0
      BY <2>2, <2>3, <2>4
    <2> QED
      BY <2>1, <2>3, <2>5 DEF WriteHolds, Stage
  <1>2. ASSUME NEW r \in Roles, At(r, "ask"), Permitted(r), NEW w, w = Checked(r)
        PROVE  w \in Write /\ WriteHolds(w)
    BY <1>2, CheckedHolds
  <1>3. \A w \in writes' : w \in Write /\ WriteHolds(w)
    BY <1>2, WriteCases, DeskFacts
  <1> QED
    BY <1>1, <1>3

-----------------------------------------------------------------------------
(***************************************************************************)
(* Payments and orders.                                                    *)
(***************************************************************************)
EventOnly(p) == \A o \in Ids : orders[o].pay = p => orders[o].by = "event"
InHand(p, n) == p \in 1 .. Len(payments) /\ payments[p] = n /\ EventOnly(p)

PaysHold ==
  \A o \in Ids : /\ orders[o].pay \in 0 .. Len(payments)
                 /\ orders[o].pay # 0 => orders[o].mine /\ orders[o].by \in {"page", "event"}

\* What the invariant says of the payment in hand.
LEMMA PaidFacts ==
  ASSUME DeskInv
  PROVE  /\ job["member"] \in Job /\ job["member"].pay \in Nat /\ Len(payments) \in Nat
         /\ job["member"].at \in {"sign", "wallet"} => job["member"].pay = 0
         /\ job["member"].at = "finalize" /\ job["member"].pay # 0 =>
              InHand(job["member"].pay, job["member"].amount)
         /\ PaysHold
  <1>1. PaymentHolds /\ "member" \in Roles
    BY DEF DeskInv, Roles
  <1> QED
    BY <1>1, DeskFacts DEF PaymentHolds, Job, InHand, EventOnly, PaysHold

\* Where orders and payments keep, the page's request moves as it may.
LEMMA PaidKept ==
  ASSUME DeskInv, [Next]_vars, ~WalletPays, Ids' = Ids, payments' = payments,
         \A o \in Ids : SameOrder(o)
  PROVE  PaymentHolds' /\ OrdersMatchPayments'
  <1>1. OrdersMatchPayments'
    BY DEF DeskInv, OrdersMatchPayments, SameOrder
  <1>2. PaysHold'
    BY PaidFacts DEF PaysHold, SameOrder
  <1>3. \A p, n : InHand(p, n) => InHand(p, n)'
    BY DEF InHand, EventOnly, SameOrder
  <1>4. PurseMoves
    BY JobStep DEF JobsMove
  <1>5. CASE job'["member"] = job["member"]
    <2>1. PICK j : j = job["member"]
      OBVIOUS
    <2>2. /\ j.at \in {"sign", "wallet"} => j.pay = 0
          /\ j.at = "finalize" /\ j.pay # 0 => InHand(j.pay, j.amount)'
      BY <1>3, <2>1, PaidFacts
    <2>3. job'["member"] = j
      BY <1>5, <2>1
    <2> QED
      BY <1>1, <1>2, <2>2, <2>3 DEF PaymentHolds, PaysHold, InHand, EventOnly
  <1>6. CASE job'["member"].at \notin {"sign", "wallet", "finalize"}
    BY <1>1, <1>2, <1>6 DEF PaymentHolds, PaysHold
  <1>7. CASE job'["member"].at \in {"sign", "wallet"} /\ job'["member"].pay = 0
    BY <1>1, <1>2, <1>7 DEF PaymentHolds, PaysHold
  <1>8. CASE /\ job'["member"].at = "finalize" /\ job["member"].at = "wallet"
             /\ job'["member"].pay = job["member"].pay
    <2>1. job'["member"].pay = 0
      BY <1>8, PaidFacts
    <2> QED
      BY <1>1, <1>2, <1>8, <2>1 DEF PaymentHolds, PaysHold
  <1> QED
    BY <1>4, <1>5, <1>6, <1>7, <1>8 DEF PurseMoves

\* An order that is added keeps all orders with the payments they say, when it says
\* one that was made and no other order of its kind says the same.
LEMMA PaidAdded ==
  ASSUME DeskInv, NEW new, Added(new), new.mine = TRUE, new.by \in {"page", "event"},
         new.pay \in Nat,
         new.pay # 0 => /\ new.pay \in 1 .. Len(payments) /\ payments[new.pay] = new.amount
                        /\ \A o \in Ids : orders[o].pay = new.pay =>
                              {orders[o].by, new.by} = {"page", "event"}
  PROVE  PaysHold' /\ OrdersMatchPayments'
  <1>1. PICK n : n = Len(orders) + 1
    OBVIOUS
  <1>2. /\ Ids' = Ids \cup {n} /\ n \notin Ids /\ payments' = payments /\ Len(payments) \in Nat
        /\ \A o \in Ids : orders'[o] = orders[o]
        /\ orders'[n] = new
    BY <1>1, PaidFacts, Zenon DEF Added
  <1>3. new.pay \in 0 .. Len(payments)
    BY <1>2
  <1>4. PaysHold'
    <2>1. \A o \in Ids' : o \in Ids \/ o = n
      BY <1>2
    <2> QED
      BY <1>2, <1>3, <2>1, PaidFacts DEF PaysHold
  <1>5. OrdersMatchPayments'
    <2> SUFFICES ASSUME NEW o \in Ids', orders'[o].pay # 0
                 PROVE  /\ payments[orders'[o].pay] = orders'[o].amount
                        /\ \A p \in Ids' \ {o} : orders'[p].pay = orders'[o].pay =>
                             {orders'[o].by, orders'[p].by} = {"page", "event"}
      BY <1>2 DEF OrdersMatchPayments
    <2>1. CASE o \in Ids
      <3>1. /\ payments[orders[o].pay] = orders[o].amount
            /\ \A p \in Ids \ {o} : orders[p].pay = orders[o].pay =>
                 {orders[o].by, orders[p].by} = {"page", "event"}
        BY <1>2, <2>1 DEF DeskInv, OrdersMatchPayments
      <3>2. new.pay = orders[o].pay => {orders[o].by, new.by} = {"page", "event"}
        BY <1>2, <2>1
      <3>3. orders'[o] = orders[o]
        BY <1>2, <2>1
      <3>4. ASSUME NEW p \in Ids' \ {o}, orders'[p].pay = orders'[o].pay
            PROVE  {orders'[o].by, orders'[p].by} = {"page", "event"}
        <4>1. CASE p \in Ids
          <5>1. orders'[p] = orders[p] /\ p \in Ids \ {o}
            BY <1>2, <4>1
          <5> QED
            BY <3>1, <3>3, <3>4, <5>1
        <4>2. CASE p = n
          BY <1>2, <3>2, <3>3, <3>4, <4>2
        <4> QED
          BY <1>2, <4>1, <4>2
      <3> QED
        BY <1>2, <3>1, <3>3, <3>4
    <2>2. CASE o = n
      <3>1. \A p \in Ids : orders[p].pay = new.pay => {new.by, orders[p].by} = {"page", "event"}
        BY <1>2, <2>2
      <3>2. \A p \in Ids' \ {o} : p \in Ids
        BY <1>2, <2>2
      <3> QED
        BY <1>2, <2>2, <3>1, <3>2
    <2> QED
      BY <1>2, <2>1, <2>2
  <1> QED
    BY <1>4, <1>5

\* Every step keeps orders and payments together.
LEMMA PaidStep ==
  ASSUME DeskInv, [Next]_vars
  PROVE  PaymentHolds' /\ OrdersMatchPayments'
  <1>1. PICK j : j = job["member"]
    OBVIOUS
  <1>2. /\ j \in Job /\ j.pay \in Nat /\ Len(payments) \in Nat
        /\ j.at \in {"sign", "wallet"} => j.pay = 0
        /\ j.at = "finalize" /\ j.pay # 0 => InHand(j.pay, j.amount)
        /\ PaysHold
    BY <1>1, PaidFacts
  <1>3. CASE WalletPays
    <2>1. PICK n : n = Len(payments) + 1
      OBVIOUS
    <2>2. /\ Len(payments') = n /\ \A k \in 1 .. Len(payments) : payments'[k] = payments[k]
          /\ payments'[n] = j.amount /\ Ids' = Ids /\ orders' = orders
          /\ job'["member"] = [j EXCEPT !.at = "finalize", !.pay = n]
      BY <1>1, <1>3, <2>1, PayEffect
    <2>3. \A o \in Ids : orders[o].pay # n /\ orders[o].pay \in 0 .. n
      BY <1>2, <2>1 DEF PaysHold
    <2>4. job'["member"].at = "finalize" /\ job'["member"].pay = n
          /\ job'["member"].amount = j.amount
      BY <1>2, <2>2 DEF Job
    <2>5. PaymentHolds'
      <3>1. n \in 1 .. n
        BY <1>2, <2>1
      <3> QED
        BY <1>2, <2>2, <2>3, <2>4, <3>1 DEF PaymentHolds, PaysHold
    <2>6. OrdersMatchPayments'
      <3>1. \A o \in Ids : orders[o].pay # 0 => payments'[orders[o].pay] = payments[orders[o].pay]
        BY <1>2, <2>2 DEF PaysHold
      <3> QED
        BY <2>2, <3>1 DEF DeskInv, OrdersMatchPayments
    <2> QED
      BY <2>5, <2>6
  <1>4. CASE SaveOrder
    <2>1. PICK new : /\ Added(new) /\ new.by = "page" /\ new.mine = TRUE
                     /\ new.amount = j.amount /\ new.pay = j.pay
      BY <1>1, <1>4, SaveEffect
    <2>2. j.at = "finalize" /\ job'["member"].at = "refresh"
      <3>1. job' = [job EXCEPT !["member"] = [Idle EXCEPT !.at = "refresh"]]
        BY <1>4 DEF SaveOrder, Done
      <3>2. [Idle EXCEPT !.at = "refresh"].at = "refresh"
        BY DEF Idle
      <3>3. job'["member"] = [Idle EXCEPT !.at = "refresh"]
        BY <3>1, DeskFacts DEF Roles
      <3> QED
        BY <1>1, <1>4, <3>2, <3>3 DEF SaveOrder, At
    <2>3. new.pay # 0 => /\ new.pay \in 1 .. Len(payments) /\ payments[new.pay] = new.amount
                         /\ \A o \in Ids : orders[o].pay = new.pay =>
                              {orders[o].by, new.by} = {"page", "event"}
      BY <1>2, <2>1, <2>2 DEF InHand, EventOnly
    <2>4. PaysHold' /\ OrdersMatchPayments'
      BY <1>2, <2>1, <2>3, PaidAdded
    <2> QED
      BY <2>2, <2>4 DEF PaymentHolds, PaysHold
  <1>5. ASSUME Kept, ~WalletPays PROVE PaymentHolds' /\ OrdersMatchPayments'
    BY <1>5, PaidKept DEF Kept
  <1>6. ASSUME NEW p \in 1 .. Len(payments), OrderPlaced(p), ~WalletPays
        PROVE  PaymentHolds' /\ OrdersMatchPayments'
    <2>1. CASE SetBackTo
      BY <1>5, <1>6, <2>1 DEF SetBackTo
    <2>2. ASSUME \A o \in Ids : orders[o].pay # p, NEW new, Added(new), new.by = "event",
                 new.mine = TRUE, new.amount = payments[p], new.pay = p
          PROVE  PaymentHolds' /\ OrdersMatchPayments'
      <3>1. p \in Nat
        BY <1>2
      <3>2. PaysHold' /\ OrdersMatchPayments'
        BY <2>2, <3>1, PaidAdded
      <3>3. job'["member"] = j /\ payments' = payments
        BY <1>1, <1>6 DEF OrderPlaced
      <3>4. j.at = "finalize" /\ j.pay # 0 => InHand(j.pay, j.amount)'
        <4>1. PICK n : n = Len(orders) + 1
          OBVIOUS
        <4>2. /\ Ids' = Ids \cup {n} /\ orders'[n] = new
              /\ \A o \in Ids : orders'[o] = orders[o]
          BY <2>2, <4>1, Zenon DEF Added
        <4>3. \A q : EventOnly(q) => EventOnly(q)'
          BY <2>2, <4>2 DEF EventOnly
        <4> QED
          BY <1>2, <3>3, <4>3 DEF InHand
      <3> QED
        BY <1>2, <3>2, <3>3, <3>4 DEF PaymentHolds, PaysHold, InHand, EventOnly
    <2> QED
      BY <1>6, <2>1, <2>2, EventEffect
  <1>7. ASSUME NEW w \in writes, StatusWritten(w), ~WalletPays
        PROVE  PaymentHolds' /\ OrdersMatchPayments'
    BY <1>5, <1>7, WrittenEffect
  <1>8. CASE OrderCancelled /\ ~WalletPays
    BY <1>5, <1>8, CancelEffect DEF SetBackTo
  <1>9. ASSUME orders' = orders, payments' = payments, ~WalletPays
        PROVE  PaymentHolds' /\ OrdersMatchPayments'
    BY <1>9, PaidKept DEF SameOrder, Ids
  <1>10. CASE ReleasePaid /\ ~WalletPays
    BY <1>9, <1>10, ReleaseEffect
  <1>11. CASE UNCHANGED Tables /\ ~WalletPays
    BY <1>9, <1>11 DEF Tables
  <1> QED
    BY <1>3, <1>4, <1>6, <1>7, <1>8, <1>10, <1>11, DeskCases

\* The invariant is inductive.
LEMMA DeskStep == DeskInv /\ [Next]_vars => DeskInv'
  <1> SUFFICES ASSUME DeskInv, [Next]_vars
               PROVE  DeskInv'
    OBVIOUS
  <1>1. DeskTypes'
    <2>1. /\ orders' \in Seq(Rows) /\ Len(orders') <= MaxOrders
          /\ sent' \in [Ids' -> 0 .. MaxSends] /\ payments' \in Seq(Nat)
      BY TablesStep DEF TablesGrow
    <2>2. price' \in Nat
      <3>1. CASE \E p \in Prices : MenuChanges(p)
        BY <3>1, OrderConstants DEF MenuChanges
      <3>2. CASE UNCHANGED price
        BY <3>2 DEF DeskInv, DeskTypes
      <3> QED
        BY <3>1, <3>2
           DEF handleOrder, SignOrder, WalletPays, workspaceSkipsPayment, SaveOrder,
               OrderRefused, Refreshed, ReleasePaid, WalletDeclines, RequestLost, StatusRead,
               StatusWritten, OrderPlaced, OrderCancelled, handleAccept, handleComplete,
               handleConfirm, handleReleasePayout, Pressed, Click, desk,
               handleBindPlatformTreasury, RoundCloses, vars, Next, Ordering, Changing
    <2>3. clicks' \in Nat
      BY ClicksStep
    <2>4. job' \in [Roles -> Job] /\ shown' \in [Roles -> SUBSET Offering]
      BY JobStep, OfferStep DEF JobsMove
    <2> QED
      BY <2>1, <2>2, <2>3, <2>4, WriteStep DEF DeskTypes
  <1>2. \A r \in Roles : \A f \in shown'[r] : OfferHolds(r, f)'
    BY OfferStep
  <1>3. \A r \in Roles : JobHolds(r)'
    BY JobHoldsStep
  <1> QED
    BY <1>1, <1>2, <1>3, WriteStep, PaidStep DEF DeskInv

\* The invariant holds in every reachable state.
LEMMA DeskInvariant == Spec => []DeskInv
  BY DeskInit, DeskStep, PTL DEF Spec

-----------------------------------------------------------------------------
(***************************************************************************)
(* Every order has one of the statuses and a payment that was made, every  *)
(* change still to be written is about an order there is, and a page       *)
(* offers only what belongs to its role.                                   *)
(***************************************************************************)
THEOREM DeskTypeCorrect == Spec => []TypeOK
  <1>1. DeskInv => TypeOK
    <2> SUFFICES ASSUME DeskInv
                 PROVE  TypeOK
      OBVIOUS
    <2>1. \A o \in Ids : /\ orders[o].status \in Statuses
                         /\ orders[o].pay \in 0 .. Len(payments)
      <3>1. \A o \in Ids : orders[o].status \in Statuses
        BY DeskFacts, RowFacts
      <3> QED
        BY <3>1 DEF DeskInv, PaymentHolds
    <2>2. DOMAIN sent = Ids /\ Len(orders) <= MaxOrders
      BY DeskFacts
    <2>3. \A w \in writes : w.order \in Ids /\ w.id \in 1 .. clicks
      BY DeskFacts DEF WriteHolds
    <2>4. \A r \in Roles : \A offer \in shown[r] : offer.order = 0 \/ RoleOf(offer.to) = r
      BY DeskFacts DEF OfferHolds
    <2> QED
      BY <2>1, <2>2, <2>3, <2>4 DEF TypeOK, Statuses
  <1> QED
    BY <1>1, DeskInvariant, PTL

(***************************************************************************)
(* An order that came with a payment was paid exactly its amount, and a    *)
(* payment stands for one order a page saved and at most one its event     *)
(* stored, whatever the prices did in between, whichever requests were     *)
(* lost and whenever the payment was projected.                            *)
(***************************************************************************)
THEOREM OrdersAlwaysMatchPayments == Spec => []OrdersMatchPayments
  <1>1. DeskInv => OrdersMatchPayments
    BY DEF DeskInv
  <1> QED
    BY <1>1, DeskInvariant, PTL

(***************************************************************************)
(* The pages date the steps an order has been through without a gap, and   *)
(* all those of the status they show.                                      *)
(***************************************************************************)
THEOREM TimelineAlwaysFollows == Spec => []TimelineFollowsStatus
  <1>1. DeskInv => TimelineFollowsStatus
    <2> SUFFICES ASSUME DeskInv, NEW o \in Ids
                 PROVE  \E k \in 1 .. 5 :
                          /\ k >= StageOf(OrderDetailPanel(orders[o]).status)
                          /\ OrderDetailPanel(orders[o]).steps = 2 .. k
      BY DEF TimelineFollowsStatus
    <2>0. PICK row : row = orders[o]
      OBVIOUS
    <2>1. /\ row \in Rows /\ row.status \in Statuses
          /\ Reached(row) \in 1 .. 5 /\ row.stamps = 2 .. Reached(row)
          /\ Standing(row) \in 0 .. 5 /\ Standing(row) <= Reached(row)
      BY <2>0, DeskFacts, RowFacts
    <2>2. PICK s, k : s = Standing(row) /\ k = Reached(row)
      OBVIOUS
    <2>3. timeline(row) = 2 .. k \cup 2 .. s
      BY <2>1, <2>2 DEF timeline, Standing
    <2>4. timeline(row) = 2 .. k
      BY <2>1, <2>2, <2>3
    <2>5. /\ OrderDetailPanel(row).steps = timeline(row)
          /\ StageOf(OrderDetailPanel(row).status) = s
      BY <2>1, <2>2, StageFacts DEF OrderDetailPanel, Standing
    <2>6. k \in 1 .. 5 /\ k >= s
      BY <2>1, <2>2
    <2> QED
      BY <2>0, <2>4, <2>5, <2>6
  <1> QED
    BY <1>1, DeskInvariant, PTL

-----------------------------------------------------------------------------
(***************************************************************************)
(* The refinement: the orders and the unwritten changes, as the variables  *)
(* of OrderPromise see them.                                               *)
(***************************************************************************)
Far     == [o \in Ids |-> Reached(orders[o])]
Stands  == [o \in Ids |-> StageOf(normalizeOrderStatus(orders[o].status))]
Grants(o) == {StageOf(w.to) : w \in {v \in writes : v.order = o}}
Granted == [o \in Ids |-> Grants(o)]
Views   == <<Far, Stands, Granted, sent>>

\* A sequence with one more element is the old one with that element appended.
LEMMA AppendedIs ==
  ASSUME NEW n \in Nat, NEW S, NEW f \in [1 .. n -> S], NEW x \in S,
         NEW g \in [1 .. n + 1 -> S], g[n + 1] = x, \A i \in 1 .. n : g[i] = f[i]
  PROVE  g = Append(f, x) /\ Len(f) = n
  <1>1. f \in Seq(S)
    BY SeqDef, Zenon
  <1>2. Len(f) \in Nat /\ DOMAIN f = 1 .. Len(f)
    BY <1>1, LenProperties
  <1>3. Len(f) = n
    BY <1>2
  <1> DEFINE A == Append(f, x)
  <1>4. /\ A \in Seq(S) /\ Len(A) = n + 1 /\ A[n + 1] = x
        /\ \A i \in 1 .. n : A[i] = f[i]
    BY <1>1, <1>3, AppendProperties
  <1> HIDE DEF A
  <1>5. A \in [1 .. n + 1 -> S]
    BY <1>4, LenProperties
  <1>6. \A i \in 1 .. n + 1 : A[i] = g[i]
    <2>1. \A i \in 1 .. n + 1 : i \in 1 .. n \/ i = n + 1
      OBVIOUS
    <2> QED
      BY <1>4, <2>1
  <1>7. A = g
    BY <1>5, <1>6
  <1> QED
    BY <1>3, <1>7 DEF A

\* What OrderPromise sees of the orders.
LEMMA ViewFacts ==
  ASSUME DeskInv
  PROVE  /\ Far \in [Ids -> 1 .. 5] /\ \A o \in Ids : Far[o] = Stage(o)
         /\ Stands \in [Ids -> 0 .. 5] /\ \A o \in Ids : Stands[o] = Now(o)
         /\ Granted \in [Ids -> SUBSET (2 .. 5)] /\ \A o \in Ids : Granted[o] = Grants(o)
         /\ Len(Far) = Len(orders) /\ Promise!Orders = Ids
         /\ Len(orders) \in Nat /\ Ids = 1 .. Len(orders)
  <1>1. Far \in [Ids -> 1 .. 5] /\ \A o \in Ids : Far[o] = Stage(o)
    BY DeskFacts DEF Far, Stage
  <1>2. Stands \in [Ids -> 0 .. 5] /\ \A o \in Ids : Stands[o] = Now(o)
    <2>1. Stands = [o \in Ids |-> Now(o)]
      BY DEF Stands, Now, Standing
    <2> QED
      BY <2>1, DeskFacts
  <1>3. Granted \in [Ids -> SUBSET (2 .. 5)] /\ \A o \in Ids : Granted[o] = Grants(o)
    <2>1. \A o \in Ids : Grants(o) \in SUBSET (2 .. 5)
      BY DeskFacts, StageFacts DEF Grants
    <2> QED
      BY <2>1 DEF Granted
  <1>4. Len(orders) \in Nat /\ Ids = 1 .. Len(orders)
    BY DeskFacts DEF Ids
  <1>5. Far \in Seq(1 .. 5)
    BY <1>1, <1>4, SeqDef, Zenon
  <1>6. Len(Far) \in Nat /\ DOMAIN Far = 1 .. Len(Far)
    BY <1>5, LenProperties
  <1>7. Len(Far) = Len(orders)
    BY <1>1, <1>4, <1>6
  <1>8. Promise!Orders = 1 .. Len(Far)
    BY DEF Promise!Orders, Far
  <1> QED
    BY <1>1, <1>2, <1>3, <1>4, <1>7, <1>8

ViewTypes ==
  /\ Far \in [Ids -> 1 .. 5] /\ \A o \in Ids : Far[o] = Stage(o)
  /\ Stands \in [Ids -> 0 .. 5] /\ \A o \in Ids : Stands[o] = Now(o)
  /\ Granted \in [Ids -> SUBSET (2 .. 5)] /\ \A o \in Ids : Granted[o] = Grants(o)

\* The same after a step.
LEMMA ViewsTyped == DeskInv => ViewTypes
  BY ViewFacts DEF ViewTypes

\* The initial states are initial states of OrderPromise.
LEMMA PromiseInit == Init => Promise!Init
  <1> SUFFICES ASSUME Init
               PROVE  Promise!Init
    OBVIOUS
  <1>1. DeskInv
    BY DeskInit
  <1>2. PICK n : n = Len(orders)
    OBVIOUS
  <1>3. n \in 0 .. MaxOrders /\ Ids = 1 .. n
    <2>1. n \in Nat /\ n <= MaxOrders /\ Ids = 1 .. n
      BY <1>1, <1>2, DeskFacts DEF Ids
    <2>2. MaxOrders \in Nat
      BY OrderConstants
    <2> QED
      BY <2>1, <2>2
  <1>4. Far \in [1 .. n -> 1 .. 5] /\ sent \in [1 .. n -> 0 .. MaxSends]
    BY <1>1, <1>3, ViewFacts, DeskFacts
  <1>5. Stands = Far
    <2>1. \A o \in Ids : Stands[o] = Far[o]
      BY <1>1, InitOrders, ViewFacts
    <2> QED
      BY <1>1, <2>1, ViewFacts
  <1>6. Granted = [o \in 1 .. n |-> {}]
    <2>1. writes = {}
      BY DEF Init
    <2>2. \A o \in Ids : Grants(o) = {}
      BY <2>1 DEF Grants
    <2> QED
      BY <1>3, <2>2 DEF Granted
  <1>7. \A o \in 1 .. n : (Far[o] = 5) = (sent[o] > 0)
    <2> SUFFICES ASSUME NEW o \in Ids
                 PROVE  (Far[o] = 5) = (sent[o] > 0)
      BY <1>3
    <2>1. Far[o] = 5 <=> orders[o].status = "platform_paid"
      BY <1>1, InitOrders, ViewFacts
    <2>2. sent[o] = IF orders[o].status = "platform_paid" THEN 1 ELSE 0
      BY DEF Init
    <2> QED
      BY <2>1, <2>2
  <1> QED
    BY <1>3, <1>4, <1>5, <1>6, <1>7 DEF Promise!Init, Far, Stands, Granted, Grants

\* An order that is added is placed.
LEMMA PlaceStep ==
  ASSUME DeskInv, DeskInv', NEW new, Added(new), Reached(new) = 1, Standing(new) = 1,
         writes' = writes
  PROVE  Promise!Place
  <1>0. PICK n : n = Len(orders)
    OBVIOUS
  <1>1. /\ Ids' = Ids \cup {n + 1} /\ Len(orders') = n + 1 /\ n + 1 <= MaxOrders
        /\ \A o \in Ids : orders'[o] = orders[o]
        /\ orders'[n + 1] = new
        /\ sent' = Append(sent, 0) /\ n \in Nat /\ Ids = 1 .. n
    BY <1>0, ViewFacts, Zenon DEF Added
  <1>2. Ids' = 1 .. n + 1
    BY <1>1 DEF Ids
  <1>3. /\ Far' \in [Ids' -> 1 .. 5] /\ \A o \in Ids' : Far'[o] = Stage(o)'
        /\ Stands' \in [Ids' -> 0 .. 5] /\ \A o \in Ids' : Stands'[o] = Now(o)'
        /\ Granted' \in [Ids' -> SUBSET (2 .. 5)] /\ \A o \in Ids' : Granted'[o] = Grants(o)'
    <2>1. ViewTypes'
      BY ViewsTyped, PTL
    <2> QED
      BY <2>1 DEF ViewTypes
  <1>4. /\ Stage(n + 1)' = 1 /\ Now(n + 1)' = 1
        /\ \A o \in Ids : Stage(o)' = Stage(o) /\ Now(o)' = Now(o)
    BY <1>1 DEF Stage, Now
  <1>5. Grants(n + 1)' = {} /\ \A o \in Ids : Grants(o)' = Grants(o)
    <2>1. \A w \in writes : w.order # n + 1
      BY <1>1, DeskFacts DEF WriteHolds
    <2> QED
      BY <2>1 DEF Grants
  <1>6. Far' = Append(Far, 1) /\ Len(Far) = n
    <2>1. Far' \in [1 .. n + 1 -> 1 .. 5] /\ Far \in [1 .. n -> 1 .. 5] /\ 1 \in 1 .. 5
      BY <1>1, <1>2, <1>3, ViewFacts
    <2>2. Far'[n + 1] = 1 /\ \A o \in 1 .. n : Far'[o] = Far[o]
      BY <1>1, <1>2, <1>3, <1>4, ViewFacts
    <2> QED
      BY <1>1, <2>1, <2>2, AppendedIs
  <1>7. Stands' = Append(Stands, 1)
    <2>1. Stands' \in [1 .. n + 1 -> 0 .. 5] /\ Stands \in [1 .. n -> 0 .. 5] /\ 1 \in 0 .. 5
      BY <1>1, <1>2, <1>3, ViewFacts
    <2>2. Stands'[n + 1] = 1 /\ \A o \in 1 .. n : Stands'[o] = Stands[o]
      BY <1>1, <1>2, <1>3, <1>4, ViewFacts
    <2> QED
      BY <1>1, <2>1, <2>2, AppendedIs
  <1>8. Granted' = Append(Granted, {})
    <2>1. /\ Granted' \in [1 .. n + 1 -> SUBSET (2 .. 5)]
          /\ Granted \in [1 .. n -> SUBSET (2 .. 5)] /\ {} \in SUBSET (2 .. 5)
      BY <1>1, <1>2, <1>3, ViewFacts
    <2>2. Granted'[n + 1] = {} /\ \A o \in 1 .. n : Granted'[o] = Granted[o]
      BY <1>1, <1>2, <1>3, <1>5, ViewFacts
    <2> QED
      BY <1>1, <2>1, <2>2, AppendedIs
  <1>9. Len(Far) < MaxOrders
    BY <1>1, <1>6, OrderConstants
  <1> QED
    BY <1>1, <1>6, <1>7, <1>8, <1>9 DEF Promise!Place, Far, Stands, Granted, Grants

\* Only seven actions change what OrderPromise sees.
LEMMA ViewCases ==
  ASSUME [Next]_vars
  PROVE  \/ SaveOrder
         \/ \E w \in writes : StatusWritten(w)
         \/ \E p \in 1 .. Len(payments) : OrderPlaced(p)
         \/ OrderCancelled
         \/ ReleasePaid
         \/ \E r \in Roles : /\ At(r, "ask") /\ Permitted(r)
                             /\ writes' = writes \cup {Checked(r)}
                             /\ orders' = orders /\ sent' = sent
         \/ UNCHANGED <<orders, sent, writes>>
  <1>1. ASSUME NEW r \in Roles, StatusRead(r)
        PROVE  \/ UNCHANGED <<orders, sent, writes>>
               \/ /\ At(r, "ask") /\ Permitted(r) /\ writes' = writes \cup {Checked(r)}
                  /\ orders' = orders /\ sent' = sent
    BY <1>1 DEF StatusRead, Checked
  <1>2. ASSUME \/ \E page \in {"board", "workspace"} : handleOrder(page)
               \/ SignOrder \/ WalletPays \/ workspaceSkipsPayment \/ OrderRefused
               \/ \E r \in Roles : Refreshed(r) \/ WalletDeclines(r) \/ RequestLost(r)
               \/ handleAccept \/ handleComplete \/ handleConfirm \/ handleReleasePayout
               \/ handleBindPlatformTreasury
               \/ RoundCloses \/ \E p \in Prices : MenuChanges(p)
               \/ UNCHANGED vars
        PROVE  UNCHANGED <<orders, sent, writes>>
    BY <1>2 DEF handleOrder, SignOrder, WalletPays, workspaceSkipsPayment, OrderRefused,
                Refreshed, WalletDeclines, RequestLost, handleAccept, handleComplete,
                handleConfirm, handleReleasePayout, Pressed, handleBindPlatformTreasury,
                RoundCloses, MenuChanges, vars
  <1> QED
    BY <1>1, <1>2 DEF Next, Ordering, Changing

\* Where the unwritten changes are the same, so are those of each order.
LEMMA SameGrants == ASSUME Ids' = Ids, writes' = writes PROVE Granted' = Granted
  <1>1. \A o \in Ids : Grants(o)' = Grants(o)
    BY DEF Grants
  <1> QED
    BY <1>1 DEF Granted

\* A change that was checked is granted.
LEMMA GrantStep ==
  ASSUME DeskInv, NEW r \in Roles, At(r, "ask"), Permitted(r), NEW w, w = Checked(r),
         writes' = writes \cup {w}, orders' = orders, sent' = sent
  PROVE  \E o \in Promise!Orders : Promise!Grant(o)
  <1>1. PICK o, to : o = w.order /\ to = w.to
    OBVIOUS
  <1>2. /\ o \in Ids /\ Now(o) \in 1 .. 4 /\ StageOf(to) = Now(o) + 1
        /\ Now(o) = 4 => sent[o] > 0
    BY <1>1, CheckedHolds DEF WriteHolds
  <1>3. /\ Granted \in [Ids -> SUBSET (2 .. 5)]
        /\ \A p \in Ids : Granted[p] = Grants(p) /\ Stands[p] = Now(p)
        /\ Promise!Orders = Ids
    BY ViewFacts
  <1>4. Ids' = Ids /\ Far' = Far /\ Stands' = Stands
    BY DEF Far, Stands, Ids
  <1>5. /\ Grants(o)' = Grants(o) \cup {StageOf(to)}
        /\ \A p \in Ids \ {o} : Grants(p)' = Grants(p)
    BY <1>1 DEF Grants
  <1>6. Granted' = [Granted EXCEPT ![o] = @ \cup {Stands[o] + 1}]
    <2>1. Granted' = [p \in Ids |-> Grants(p)']
      BY <1>4 DEF Granted
    <2>2. Stands[o] + 1 = StageOf(to)
      BY <1>2, <1>3
    <2>3. \A p \in Ids : Granted'[p] = IF p = o THEN Granted[o] \cup {StageOf(to)} ELSE Granted[p]
      BY <1>3, <1>5, <2>1
    <2> QED
      BY <1>2, <1>3, <2>1, <2>2, <2>3
  <1>7. Stands[o] \in 1 .. 4 /\ (Stands[o] = 4 => sent[o] > 0)
    BY <1>2, <1>3
  <1>8. Promise!Grant(o)
    BY <1>4, <1>6, <1>7 DEF Promise!Grant, Far, Stands, Granted, Grants
  <1> QED
    BY <1>2, <1>3, <1>8

\* A change that is written takes effect.
LEMMA EffectStep ==
  ASSUME DeskInv, DeskInv', NEW w \in writes, StatusWritten(w)
  PROVE  \E o \in Promise!Orders : \E to \in 2 .. 5 : Promise!TakesEffect(o, to)
  <1>1. PICK o, to : o = w.order /\ to = w.to
    OBVIOUS
  <1>2. PICK t : t = StageOf(to)
    OBVIOUS
  <1>3. /\ o \in Ids /\ t \in 2 .. 5 /\ t <= Stage(o) + 1
        /\ \A p \in Ids \ {o} : orders'[p] = orders[p]
        /\ Now(o)' = t /\ Stage(o)' = IF t > Stage(o) THEN t ELSE Stage(o)
        /\ sent' = sent /\ writes' = writes \ {w} /\ Ids' = Ids
    BY <1>1, <1>2, WrittenEffect DEF Kept
  <1>4. /\ Far \in [Ids -> 1 .. 5] /\ \A p \in Ids : Far[p] = Stage(p)
        /\ Stands \in [Ids -> 0 .. 5] /\ \A p \in Ids : Stands[p] = Now(p)
        /\ Granted \in [Ids -> SUBSET (2 .. 5)] /\ \A p \in Ids : Granted[p] = Grants(p)
        /\ Promise!Orders = Ids
    BY ViewFacts
  <1>5. /\ Far' \in [Ids -> 1 .. 5] /\ \A p \in Ids : Far'[p] = Stage(p)'
        /\ Stands' \in [Ids -> 0 .. 5] /\ \A p \in Ids : Stands'[p] = Now(p)'
        /\ Granted' \in [Ids -> SUBSET (2 .. 5)] /\ \A p \in Ids : Granted'[p] = Grants(p)'
    <2>1. ViewTypes'
      BY ViewsTyped, PTL
    <2> QED
      BY <1>3, <2>1 DEF ViewTypes
  <1>6. \A p \in Ids \ {o} : Stage(p)' = Stage(p) /\ Now(p)' = Now(p)
    BY <1>3 DEF Stage, Now
  <1>7. Stands' = [Stands EXCEPT ![o] = t]
    <2>1. \A p \in Ids : Stands'[p] = IF p = o THEN t ELSE Stands[p]
      BY <1>3, <1>4, <1>5, <1>6
    <2> QED
      BY <1>3, <1>4, <1>5, <2>1
  <1>8. Far' = IF t > Far[o] THEN [Far EXCEPT ![o] = t] ELSE Far
    <2>1. CASE t > Far[o]
      <3>1. \A p \in Ids : Far'[p] = IF p = o THEN t ELSE Far[p]
        BY <1>3, <1>4, <1>5, <1>6, <2>1
      <3>2. Far' = [Far EXCEPT ![o] = t]
        BY <1>3, <1>4, <1>5, <3>1
      <3> QED
        BY <2>1, <3>2
    <2>2. CASE ~(t > Far[o])
      <3>1. \A p \in Ids : Far'[p] = Far[p]
        BY <1>3, <1>4, <1>5, <1>6, <2>2
      <3>2. Far' = Far
        BY <1>4, <1>5, <3>1
      <3> QED
        BY <2>2, <3>2
    <2> QED
      BY <2>1, <2>2
  <1>9. /\ t \in Grants(o)
        /\ Grants(o)' \in {Grants(o), Grants(o) \ {t}}
        /\ \A p \in Ids \ {o} : Grants(p)' = Grants(p)
    <2>1. t \in Grants(o)
      BY <1>1, <1>2 DEF Grants
    <2>2. \A p \in Ids \ {o} : Grants(p)' = Grants(p)
      BY <1>1, <1>3 DEF Grants
    <2>3. Grants(o)' \subseteq Grants(o) /\ Grants(o) \ {t} \subseteq Grants(o)'
      BY <1>1, <1>2, <1>3 DEF Grants
    <2> QED
      BY <2>1, <2>2, <2>3
  <1>10. Granted' \in {Granted, [Granted EXCEPT ![o] = @ \ {t}]}
    <2>1. \A p \in Ids \ {o} : Granted'[p] = Granted[p]
      BY <1>4, <1>5, <1>9
    <2>2. Granted'[o] = Granted[o] \/ Granted'[o] = Granted[o] \ {t}
      BY <1>3, <1>4, <1>5, <1>9
    <2>3. CASE Granted'[o] = Granted[o]
      <3>1. \A p \in Ids : Granted'[p] = Granted[p]
        BY <2>1, <2>3
      <3>2. Granted' = Granted
        BY <1>4, <1>5, <3>1
      <3> QED
        BY <3>2
    <2>4. CASE Granted'[o] = Granted[o] \ {t}
      <3>1. \A p \in Ids : Granted'[p] = IF p = o THEN Granted[o] \ {t} ELSE Granted[p]
        BY <2>1, <2>4
      <3>2. Granted' = [Granted EXCEPT ![o] = @ \ {t}]
        BY <1>3, <1>4, <1>5, <3>1
      <3> QED
        BY <3>2
    <2> QED
      BY <2>2, <2>3, <2>4
  <1>11. t \in Granted[o] /\ t <= Far[o] + 1
    BY <1>3, <1>4, <1>9
  <1>12. Promise!TakesEffect(o, t)
    BY <1>3, <1>7, <1>8, <1>10, <1>11
       DEF Promise!TakesEffect, Far, Stands, Granted, Grants
  <1> QED
    BY <1>3, <1>4, <1>12

\* Orders that are set back are set back.
LEMMA BackStep ==
  ASSUME DeskInv, DeskInv', SetBackTo, writes' = writes
  PROVE  Promise!SetBack
  <1>1. /\ Ids' = Ids /\ sent' = sent
        /\ \A o \in Ids : Stage(o)' = Stage(o) /\ Now(o)' \in {Now(o), 0, 1}
    BY DEF SetBackTo, Kept
  <1>2. /\ Far \in [Ids -> 1 .. 5] /\ \A p \in Ids : Far[p] = Stage(p)
        /\ \A p \in Ids : Stands[p] = Now(p)
        /\ Promise!Orders = Ids
    BY ViewFacts
  <1>3. /\ Far' \in [Ids -> 1 .. 5] /\ \A p \in Ids : Far'[p] = Stage(p)'
        /\ Stands' \in [Ids -> 0 .. 5] /\ \A p \in Ids : Stands'[p] = Now(p)'
    <2>1. ViewTypes'
      BY ViewsTyped, PTL
    <2> QED
      BY <1>1, <2>1 DEF ViewTypes
  <1>4. Far' = Far
    <2>1. \A p \in Ids : Far'[p] = Far[p]
      BY <1>1, <1>2, <1>3
    <2> QED
      BY <1>2, <1>3, <2>1
  <1>5. Granted' = Granted
    BY <1>1, SameGrants
  <1>6. \A p \in Ids : Stands'[p] \in {Stands[p], 0, 1}
    BY <1>1, <1>2, <1>3
  <1> QED
    BY <1>1, <1>2, <1>3, <1>4, <1>5, <1>6
       DEF Promise!SetBack, Far, Stands, Granted, Grants

\* Every step is a step of OrderPromise or leaves it where it is.
LEMMA PromiseStep ==
  ASSUME DeskInv, DeskInv', [Next]_vars
  PROVE  [Promise!Next]_Views
  <1>1. CASE SaveOrder
    <2>1. PICK new : Added(new) /\ Reached(new) = 1 /\ Standing(new) = 1
      BY <1>1, SaveEffect
    <2>2. writes' = writes
      BY <1>1 DEF SaveOrder
    <2> QED
      BY <2>1, <2>2, PlaceStep DEF Promise!Next
  <1>2. ASSUME NEW w \in writes, StatusWritten(w) PROVE Promise!Next
    BY <1>2, EffectStep DEF Promise!Next
  <1>3. ASSUME NEW p \in 1 .. Len(payments), OrderPlaced(p) PROVE Promise!Next
    <2>1. writes' = writes
      BY <1>3 DEF OrderPlaced
    <2>2. CASE SetBackTo
      BY <2>1, <2>2, BackStep DEF Promise!Next
    <2>3. ASSUME NEW new, Added(new), Reached(new) = 1, Standing(new) = 1
          PROVE  Promise!Next
      BY <2>1, <2>3, PlaceStep DEF Promise!Next
    <2> QED
      BY <1>3, <2>2, <2>3, EventEffect
  <1>4. CASE OrderCancelled
    <2>1. writes' = writes
      BY <1>4 DEF OrderCancelled
    <2> QED
      BY <1>4, <2>1, CancelEffect, BackStep DEF Promise!Next
  <1>5. CASE ReleasePaid
    <2>0. PICK o : o = job["admin"].order
      OBVIOUS
    <2>1. /\ o \in Ids /\ Stage(o) >= 4 /\ sent[o] < MaxSends
          /\ sent' = [sent EXCEPT ![o] = sent[o] + 1]
          /\ orders' = orders /\ Ids' = Ids /\ writes' = writes
      BY <1>5, <2>0, ReleaseEffect DEF ReleasePaid
    <2>2. Far' = Far /\ Stands' = Stands /\ Granted' = Granted
      BY <2>1, SameGrants DEF Far, Stands
    <2>3. Far[o] >= 4 /\ Promise!Orders = Ids
      BY <2>1, ViewFacts
    <2>4. Promise!Send(o)
      BY <2>1, <2>2, <2>3 DEF Promise!Send, Far, Stands, Granted, Grants
    <2> QED
      BY <2>1, <2>3, <2>4 DEF Promise!Next
  <1>6. ASSUME NEW r \in Roles, At(r, "ask"), Permitted(r), writes' = writes \cup {Checked(r)},
               orders' = orders, sent' = sent
        PROVE  Promise!Next
    BY <1>6, GrantStep DEF Promise!Next
  <1>7. CASE UNCHANGED <<orders, sent, writes>>
    <2>1. Ids' = Ids
      BY <1>7 DEF Ids
    <2>2. Far' = Far /\ Stands' = Stands /\ Granted' = Granted
      BY <1>7, <2>1, SameGrants DEF Far, Stands
    <2> QED
      BY <1>7, <2>2 DEF Views
  <1> QED
    BY <1>1, <1>2, <1>3, <1>4, <1>5, <1>6, <1>7, ViewCases

(***************************************************************************)
(* OrderDesk implements OrderPromise: a change of status is granted only   *)
(* to an order that stands right before it; however late it is written and *)
(* whatever set the order back since, its furthest step moves on one by    *)
(* one, and the merchant is sent the money after the member confirmed and  *)
(* before the order is marked paid - for any number of requests, lost      *)
(* answers, stale copies and events.                                       *)
(***************************************************************************)
THEOREM DeskKeepsPromise == Spec => KeepsPromise
  <1>1. Init => Promise!Init
    BY PromiseInit
  <1>2. DeskInv /\ DeskInv' /\ [Next]_vars => [Promise!Next]_Views
    BY PromiseStep
  <1> QED
    BY <1>1, <1>2, DeskInvariant, PTL
       DEF Spec, KeepsPromise, Promise!Spec, Views, Far, Stands, Granted, Grants

=============================================================================
