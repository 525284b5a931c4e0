------------------------------- MODULE OrderDesk -------------------------------
(***************************************************************************)
(* An order from the basket to the payout: the ordering stage of the board *)
(* and of the workspace, the order pages of the member, of the merchant    *)
(* and of the administrator, the wallet they pay with, and the handlers    *)
(* and statements of the backend behind them.  A page offers what the copy *)
(* of its last refresh allows; the server checks a change of status with   *)
(* one statement and writes it with another that tests nothing, whether or *)
(* not the page still waits; and the events of the order contract, which   *)
(* ChainSync applies once each and in order, write the status whatever it  *)
(* is.                                                                     *)
(*                                                                         *)
(* Named bounds: each role has one page open (two are, to the server, one  *)
(* that gives up and asks again); it leaves it, and its timers refresh it, *)
(* only between its requests; the member orders one of one item in one     *)
(* round; that round and the menu are watched while an order is under way. *)
(* That a member's round has a chain id is an operator's doing: no handler *)
(* links an imported round to a group.  A transaction counts from the hash *)
(* the wallet returns.                                                     *)
(***************************************************************************)
EXTENDS Naturals, Sequences, FiniteSetsExt

CONSTANTS
    Prices,     \* of the item, in wei
    MaxOrders,  \* bound: orders, and payments of the member
    MaxSends,   \* bound: payouts of one order
    MaxClicks   \* bound: requests that pages start

ASSUME OrderConstants ==
    /\ Prices \subseteq Nat \ {0} /\ Prices # {}
    /\ {MaxOrders, MaxSends, MaxClicks} \subseteq Nat \ {0}

VARIABLES
    open,      \* the round takes orders
    onChain,   \* it has a chain id, and the order contract is configured
    price,     \* of the item on the menu
    treasury,  \* the administrator has bound the wallet of the platform
    orders,    \* table orders
    writes,    \* changes of status the server has checked and not yet written
    placed,    \* how many of the payments the projection has come to
    live,      \* the last event projected left an order in the contract
    payments,  \* amounts the member's wallet sent
    sent,      \* of each order, how often the administrator's wallet paid
    job,       \* of each role, the request its page waits for
    shown,     \* of each role, what its page offers
    clicks

desk == <<open, onChain, price, treasury, clicks>>
chain == <<placed, live>>
vars == <<desk, chain, orders, writes, payments, sent, job, shown>>

Roles == {"member", "merchant", "admin"}
Ids   == 1 .. Len(orders)
Moves == {"merchant_accepted", "merchant_completed", "ready_for_payout", "platform_paid"}
Steps == Moves \cup {"payment_received"}
StageOf(status) ==
    CASE status = "payment_received"   -> 1
      [] status = "merchant_accepted"  -> 2
      [] status = "merchant_completed" -> 3
      [] status = "ready_for_payout"   -> 4
      [] status = "platform_paid"      -> 5
      [] OTHER                         -> 0  \* cancelled

\* Orders of earlier versions carry other names and no time of their steps.
LegacyStatus == {"paid_local", "paid_onchain", "merchant_confirmed"}
normalizeOrderStatus(s) ==
    CASE s \in {"paid_local", "paid_onchain"} -> "payment_received"
      [] s = "merchant_confirmed"             -> "ready_for_payout"
      [] OTHER                                -> s

\* The steps with a time: recorded, or filled in from the status.
OnlyRecorded(row) == row.stamps
timeline(row) == row.stamps \cup 2 .. StageOf(normalizeOrderStatus(row.status))

\* What the pages of an order show of it.
formatOrderStatus(s) == IF s \in {"paid_local", "paid_onchain"} THEN "payment_received" ELSE s
OrderDetailPanel(row) == [status |-> formatOrderStatus(row.status), steps |-> timeline(row)]

NoBackfill(row) == row
backfillLegacyOrders(row) ==
    [row EXCEPT !.status = normalizeOrderStatus(@), !.stamps = timeline(row)]

\* by: who stored it, a page, an event or an earlier version of the program.
Row(by, mine, status, amount, pay) ==
    [by |-> by, mine |-> mine, status |-> status, amount |-> amount, pay |-> pay,
     stamps |-> {}]

\* The furthest step with a time.  No time is ever taken away.
Reached(row) == Max({1} \cup row.stamps)
-----------------------------------------------------------------------------
(* What a page offers of the orders it reads. *)

Offer(o, to) == [order |-> o, to |-> to]
With(status) == {o \in Ids : normalizeOrderStatus(orders[o].status) = status}

\* The board takes no second order of the member; the workspace does.
boardPlaces     == {f \in {Offer(0, "board")} : open /\ \A o \in Ids : ~orders[o].mine}
workspacePlaces == {f \in {Offer(0, "workspace")} : open}

\* Buttons of the order lists and details.  The submitted stage of the workspace
\* offers to confirm the orders of others too.
acceptButtons   == {Offer(o, "merchant_accepted") : o \in With("payment_received")}
completeButtons == {Offer(o, "merchant_completed") : o \in With("merchant_accepted")}
merchantActions == acceptButtons \cup completeButtons
submittedOrders  == {Offer(o, "ready_for_payout") : o \in With("merchant_completed")}
myOrderHistory   == {f \in submittedOrders : orders[f.order].mine}
readyPayoutOrders == {Offer(o, "platform_paid") : o \in With("ready_for_payout")}

Offers(r) ==
    CASE r = "member"   -> boardPlaces \cup workspacePlaces
                           \cup submittedOrders \cup myOrderHistory
      [] r = "merchant" -> merchantActions
      [] r = "admin"    -> readyPayoutOrders

Idle == [at |-> "idle", order |-> 0, to |-> "", amount |-> 0, pay |-> 0, id |-> 0]
At(r, at) == job[r].at = at
Goto(r, at) == job' = [job EXCEPT ![r].at = at]
Ends(r)     == job' = [job EXCEPT ![r] = Idle]
Done(r)     == job' = [job EXCEPT ![r] = [Idle EXCEPT !.at = "refresh"]]
Click == clicks < MaxClicks /\ clicks' = clicks + 1
         /\ UNCHANGED <<open, onChain, price, treasury>>

\* The page asks for its lists again: after a request of its own, opened anew or by
\* its timer.
Refreshed(r) ==
    /\ shown' = [shown EXCEPT ![r] = Offers(r)]
    /\ \/ At(r, "refresh") /\ Ends(r)
       \/ At(r, "idle") /\ clicks < MaxClicks /\ UNCHANGED job
    /\ UNCHANGED <<desk, chain, orders, writes, payments, sent>>
-----------------------------------------------------------------------------
(* The member orders. *)

handleOrder(page) ==
    /\ At("member", "idle") /\ Offer(0, page) \in shown["member"] /\ Click
    /\ job' = [job EXCEPT !["member"] = [Idle EXCEPT !.at = "sign", !.to = page]]
    /\ UNCHANGED <<chain, orders, writes, payments, sent, shown>>

\* The server prices the order while the round takes orders.  An item that left the
\* menu refuses it just as a closed round does.
Quotable == open

SignOrder ==
    /\ At("member", "sign") /\ Quotable
    /\ job' = [job EXCEPT !["member"].at = "wallet", !["member"].amount = price]
    /\ UNCHANGED <<desk, chain, orders, writes, payments, sent, shown>>

\* The workspace pays only through the contract; the board falls back on the
\* wallet of the platform.  The page then reports the transaction (ChainSync) before
\* it saves the order: to lose the one request or the other comes to the same.
WalletPays ==
    /\ At("member", "wallet")
    /\ onChain \/ (job["member"].to = "board" /\ treasury)
    /\ payments' = Append(payments, job["member"].amount)
    /\ job' = [job EXCEPT !["member"].at = "finalize", !["member"].pay = Len(payments) + 1]
    /\ UNCHANGED <<desk, chain, orders, writes, sent, shown>>

workspaceSkipsPayment ==
    /\ At("member", "wallet") /\ ~onChain /\ job["member"].to = "workspace"
    /\ Goto("member", "finalize")
    /\ UNCHANGED <<desk, chain, orders, writes, payments, sent, shown>>

\* The balance is short, the prompt is declined, or there is nowhere to pay to.
WalletDeclines(r) ==
    /\ job[r].at \in {"wallet", "prompt"} /\ Ends(r)
    /\ UNCHANGED <<desk, chain, orders, writes, payments, sent, shown>>

\* The order is priced again, but saved at the signed amount.
NewQuote(j)    == price
SavedAmount(j) == j.amount

SaveOrder ==
    /\ At("member", "finalize") /\ Quotable /\ Len(orders) < MaxOrders
    /\ orders' = Append(orders, Row("page", TRUE, "payment_received",
                                 SavedAmount(job["member"]), job["member"].pay))
    /\ sent' = Append(sent, 0)
    /\ Done("member")
    /\ UNCHANGED <<desk, chain, writes, payments, shown>>

OrderRefused ==
    /\ job["member"].at \in {"sign", "finalize"} /\ ~Quotable /\ Ends("member")
    /\ UNCHANGED <<desk, chain, orders, writes, payments, sent, shown>>
-----------------------------------------------------------------------------
(* Changes of status. *)

RoleOf(to) ==
    CASE to = "ready_for_payout" -> "member" [] to = "platform_paid" -> "admin"
      [] OTHER -> "merchant"

Pressed(to, first) ==
    LET r == RoleOf(to)
    IN  \E offer \in shown[r] :
        /\ offer.to = to /\ At(r, "idle") /\ Click
        /\ job' = [job EXCEPT ![r] =
              [Idle EXCEPT !.at = first, !.order = offer.order, !.to = to]]
        /\ UNCHANGED <<chain, orders, writes, payments, sent, shown>>

handleAccept   == Pressed("merchant_accepted", "ask")
handleComplete == Pressed("merchant_completed", "ask")
handleConfirm  == Pressed("ready_for_payout", "ask")

\* The payout is sent before the platform is told.
handleReleasePayout == treasury /\ Pressed("platform_paid", "prompt")

\* The wallet connected must be the one bound, or the release fails.  The platform is
\* told once the wallet returns a hash: that the transaction reverts later is noticed
\* neither by the code nor here.
ReleasePaid ==
    LET o == job["admin"].order
    IN  /\ At("admin", "prompt") /\ sent[o] < MaxSends
        /\ sent' = [sent EXCEPT ![o] = @ + 1]
        /\ Goto("admin", "ask")
        /\ UNCHANGED <<desk, chain, orders, writes, payments, shown>>

handleBindPlatformTreasury ==
    /\ At("admin", "idle") /\ ~treasury /\ treasury' = TRUE
    /\ clicks < MaxClicks /\ clicks' = clicks + 1
    /\ UNCHANGED <<open, onChain, price, chain, orders, writes, payments, sent, job, shown>>

\* What the handler reads: the row, its owner and the transition.
AnyTransition(from, to) == TRUE
isValidOrderTransition(from, to) ==
    StageOf(to) = StageOf(normalizeOrderStatus(from)) + 1

Permitted(r) ==
    LET row == orders[job[r].order]
    IN  isValidOrderTransition(row.status, job[r].to) /\ (r = "member" => row.mine)

StatusRead(r) ==
    /\ At(r, "ask")
    /\ \/ /\ Permitted(r)
          /\ writes' = writes \cup {[id |-> clicks, order |-> job[r].order, to |-> job[r].to]}
          /\ job' = [job EXCEPT ![r].at = "checked", ![r].id = clicks]
       \/ ~Permitted(r) /\ Ends(r) /\ UNCHANGED writes
    /\ UNCHANGED <<desk, chain, orders, payments, sent, shown>>

\* The row is found by its id alone.  A page that still waits has its answer.
StatusWritten(w) ==
    LET r == RoleOf(w.to)
    IN  /\ orders' = [orders EXCEPT ![w.order].status = w.to,
                                   ![w.order].stamps = @ \cup {StageOf(w.to)}]
        /\ writes' = writes \ {w}
        /\ IF At(r, "checked") /\ job[r].id = w.id THEN Done(r) ELSE UNCHANGED job
        /\ UNCHANGED <<desk, chain, payments, sent, shown>>

\* A request, or the answer to one the server carries out, is lost: the page gives
\* up and may ask again.
RequestLost(r) ==
    /\ job[r].at \in {"sign", "finalize", "ask", "checked", "refresh"}
    /\ Ends(r)
    /\ UNCHANGED <<desk, chain, orders, writes, payments, sent, shown>>
-----------------------------------------------------------------------------
(* The events of the order contract. *)

\* The hash of an order is over the member, the item, its price and how many: orders
\* of the same amount here have the same, and the oldest row is taken for it.
SameHash(p) == {o \in Ids : orders[o].mine /\ orders[o].amount = payments[p]}

\* The payments up to the one before failed or were projected.
OrderPlaced(p) ==
    /\ onChain /\ p > placed /\ placed' = p /\ live' = TRUE
    /\ \/ \E o \in SameHash(p) :
             /\ \A q \in SameHash(p) : o <= q
             /\ orders' = [orders EXCEPT ![o].status = "paid_onchain"]
             /\ UNCHANGED sent
       \/ /\ SameHash(p) = {} /\ Len(orders) < MaxOrders
          /\ orders' = Append(orders, Row("event", TRUE, "paid_onchain", payments[p], p))
          /\ sent' = Append(sent, 0)
    /\ UNCHANGED <<desk, writes, payments, job, shown>>

\* The member cancels in the contract.  Every order of the member in the round is
\* written, whichever the contract had.
OrderCancelled ==
    /\ live /\ live' = FALSE
    /\ orders' = [o \in Ids |-> [orders[o] EXCEPT
          !.status = IF orders[o].mine THEN "cancelled_onchain" ELSE @]]
    /\ UNCHANGED <<desk, placed, writes, payments, sent, job, shown>>
-----------------------------------------------------------------------------
\* The round closes; the merchant's menu changes once it was reviewed.
OrderUnderWay == job["member"].at \in {"sign", "wallet", "finalize"}

RoundCloses ==
    /\ OrderUnderWay /\ open /\ open' = FALSE
    /\ UNCHANGED <<onChain, price, treasury, clicks>>
    /\ UNCHANGED <<chain, orders, writes, payments, sent, job, shown>>

MenuChanges(p) ==
    /\ OrderUnderWay /\ p # price /\ price' = p
    /\ UNCHANGED <<open, onChain, treasury, clicks>>
    /\ UNCHANGED <<chain, orders, writes, payments, sent, job, shown>>

Init ==
    /\ open = TRUE /\ onChain \in BOOLEAN /\ treasury \in BOOLEAN /\ price \in Prices
    /\ \/ orders = <<>>
       \/ \E s \in LegacyStatus \cup Steps, mine \in BOOLEAN :
             orders = <<backfillLegacyOrders(Row("old", mine, s, 0, 0))>>
    /\ sent = [o \in Ids |-> IF orders[o].status = "platform_paid" THEN 1 ELSE 0]
    /\ payments = <<>> /\ clicks = 0
    /\ writes = {} /\ placed = 0 /\ live = FALSE
    /\ job = [r \in Roles |-> Idle] /\ shown = [r \in Roles |-> {}]

Ordering ==
    \/ \E page \in {"board", "workspace"} : handleOrder(page)
    \/ SignOrder \/ WalletPays \/ workspaceSkipsPayment
    \/ SaveOrder \/ OrderRefused

Changing(r) ==
    \/ Refreshed(r) \/ WalletDeclines(r) \/ RequestLost(r)
    \/ StatusRead(r)

Next ==
    \/ Ordering \/ \E r \in Roles : Changing(r)
    \/ \E w \in writes : StatusWritten(w)
    \/ handleAccept \/ handleComplete \/ handleConfirm \/ handleReleasePayout
    \/ ReleasePaid \/ handleBindPlatformTreasury
    \/ \E p \in 1 .. Len(payments) : OrderPlaced(p)
    \/ OrderCancelled
    \/ RoundCloses \/ \E p \in Prices : MenuChanges(p)

Spec == Init /\ [][Next]_vars
-----------------------------------------------------------------------------
TypeOK ==
    /\ \A o \in Ids :
          /\ orders[o].status \in Steps \cup {"paid_onchain", "cancelled_onchain"}
          /\ orders[o].pay \in 0 .. Len(payments)
    /\ DOMAIN sent = Ids /\ Len(orders) <= MaxOrders
    /\ \A w \in writes : w.order \in Ids /\ w.id \in 1 .. clicks
    /\ \A r \in Roles : \A offer \in shown[r] :
          offer.order = 0 \/ RoleOf(offer.to) = r

\* An order goes through its stages as OrderPromise says, although copies are stale,
\* answers get lost, checked changes are written late and in any order, and events
\* set its status back: its furthest step moves on one by one, and its merchant is
\* sent the money after the member confirmed and before the order is marked paid.
Promise == INSTANCE OrderPromise WITH
    stage   <- [o \in Ids |-> Reached(orders[o])],
    status  <- [o \in Ids |-> StageOf(normalizeOrderStatus(orders[o].status))],
    granted <- [o \in Ids |-> {StageOf(w.to) : w \in {v \in writes : v.order = o}}],
    sent    <- sent
KeepsPromise == Promise!Spec

\* An order that came with a payment was paid exactly what it says, whatever the menu
\* became between the two, and a payment stands for one order a page saved and at
\* most one more, which its event stored when it was projected before the page's.
OrdersMatchPayments ==
    \A o \in Ids : orders[o].pay # 0 =>
        /\ payments[orders[o].pay] = orders[o].amount
        /\ \A p \in Ids \ {o} :
              orders[p].pay = orders[o].pay => {orders[o].by, orders[p].by} = {"page", "event"}

\* A page dates the steps an order has been through without a gap, and all of those
\* of the status it shows, however late statuses are written and set back.
TimelineFollowsStatus ==
    \A o \in Ids :
        LET panel == OrderDetailPanel(orders[o])
        IN  \E k \in 1 .. 5 : k >= StageOf(panel.status) /\ panel.steps = 2 .. k
=============================================================================
