# MealVote in TLA+

MealVote lets the members of a lunch group nominate merchants, vote on them with
tokens, and order from the winner. It is a Solidity contract
(`src/contract/VotingSystem-v3.sol`), a Go backend over PostgreSQL
(`src/backend`), and a Next.js client (`src/apps/web`). This directory holds
specifications of the parts that keep state, model-checked with TLC on small
instances, and theorems about them proved with TLAPS.

## Where to look

| module | models | kind |
|---|---|---|
| `Sums` | the total of a function into Nat, without recursion | helper |
| `MembershipToken` | the MEAL token | component |
| `VotingContract` | the contract, composed with the token | composition |
| `VotingContractProofs` | facts on sums; types, conservation and solvency of MEAL, native currency, votes, the winner, settlement | theorems |
| `ProposalRound` | the backend's ledger of one round, with its HTTP requests | component |
| `WebSession` | a tab of the web application: session, gates, wallet login, subscription | composition |
| `StagePages` | the board and the workspace up to the vote, over one round | composition |
| `OrderPromise` | what the platform promises about an order | abstract |
| `OrderDesk` | orders from the basket to the payout, with the pages of three roles | implements `OrderPromise` |
| `ProjectionPromise` | what the database promises of the contract's events | abstract |
| `ChainSync` | indexer, projection of events, pending transactions | implements `ProjectionPromise` |
| `LegacyPage` | a tab of the legacy client and its transaction tracker | component |
| `MerchantPortal` | menu changes and the closing of a shop | component |
| `ProposalRoundProofs`, `WebSessionProofs`, `StagePagesProofs`, `LegacyPageProofs`, `MerchantPortalProofs` | the safety properties of the module named | theorems |
| `OrderDeskProofs`, `ChainSyncProofs` | their invariants, and that they implement `OrderPromise` and `ProjectionPromise` | theorems |
| `MC*.tla`, `MC*.cfg` | instances for TLC | runs |

`PROJECT.json` lists components, runs, mutants, findings, hazards and theorems,
and maps each definition to the lines it stands for. A definition that
no other one uses (`OffByOne`, `AnyTransition`, `TimerOnly`, ...) is a mutation: it
is no part of a model, but put in place of the definition after it, it makes TLC
find a property violated, which shows that the property depends on that piece of
the code. `PROJECT.json` lists which.

## Inventory

### Voting contract and membership token (`contract/VotingSystem-v3.sol`)

State: proposals with three deadlines and three pools, the options staked in
each, the members' vote spend, one order slot per member and round, the used
order digests, claimable rewards, subscriptions, two treasuries, the token's
balances and allowances. Operations: the external functions. A transaction is
atomic; any address may call in any order at any block time. Interaction: the
contract pulls tokens with `transferFrom`, the backend signs the order quotes it
accepts, the backend's indexer reads its events.
Hard: the order of calls around each deadline; the same amount kept in several
counters; re-ordering after a cancellation; rounding in settlement.
Correct when: no MEAL appears or vanishes, the contract can always pay what it
owes in MEAL and in native currency, the counters of a vote agree, the winner
stands, a settled round is closed, settlement cannot be blocked.

### Proposal round ledger (`backend/service/proposal.go`, `backend/repository/postgres.go`)

State: the tables `members` (tokens, points, three kinds of tickets),
`proposals`, `proposal_options`, `votes`. Operations: create, nominate, vote and
re-vote, delete, settle, the admin's stage change, and the *read*, which is not
a read: `GetProposal` sets the winner when the vote is over and pays the rewards
when ordering is over. Hard: PostgreSQL runs at READ COMMITTED, the service
checks on one load what a later transaction writes, few rows are locked, and a
handler may die between two transactions.
Correct when: an option's tally is what the last votes say, tokens and tickets
are neither made nor lost, a winner is never known while votes are taken,
rewards are paid once.

### Order lifecycle (`backend/service/order.go`, `postgres.go` 1109-1462, the order pages)

State: orders and their items, with the statuses `payment_received`,
`merchant_accepted`, `merchant_completed`, `ready_for_payout`, `platform_paid`
and those of earlier versions; the wallets' payments. Operations: quote, sign,
pay, save, the merchant's, the member's and the administrator's status changes,
the payout. Interaction: pays to the treasury or to the contract, reads the winner
of a round and the menu. Hard: each status change reads the row, decides, and
writes in separate statements; the quote is computed again when the order is
saved; pages show what was so; the wallet and the database do not commit
together.
Correct when: a change of status is granted only from the stage before it, no
stage is skipped, no order is marked paid before the merchant was sent the money,
what is stored is what was paid.

### Chain indexer and projection (`backend/blockchain/indexer.go`, `postgres.go` 2488-2640 and 3500-3900)

State: sync cursor, stored events, applied-event table, pending transactions, and
the projected rows. Operations: a synchronisation at start-up and on request
(several may overlap), `StoreChainEvents`, one projection per event, registration
of a pending transaction. Hard: duplicated and late events, a failing event in a
batch, the cursor, an event before or after its registration.
Correct when: an event is projected exactly once and in order, the cursor never
skips a block, a transaction is shown as confirmed only when it was projected.

### Wallet login and membership (`backend/service/member.go`, `postgres.go` 560-790, 3029-3100, login, gate and subscription pages)

State: challenges, members, subscription expiry, and in the tab the token and the
wallet of `sessionStorage`, the copy in the navigation bar, what a gate has let
in. Operations: request a challenge, sign, verify it, register, link and unlink,
subscribe, cancel, log out, switch the account in the extension. Hard:
verification is five statements without a transaction; every page asks
`/members/me` by itself and redirects on the answer; `location.replace` ends what
is awaited and `router.replace` does not.
Correct when: a wallet has one member, what is shown behind a gate belongs to the
token held, redirects come to an end.

### Groups (`backend/handlers/handlers.go` 1300-1500, `postgres.go` 485-560 and 2700-2830)

State: groups, memberships, invite codes. Operations: create, join by code,
remove, leave, delete, and a background pruner. Hard: the owner leaves while
someone joins (`handlers.go:1457`), the pruner against activity (`postgres.go:485`).
Correct when: a group with members has an owner among them, an active group is
not pruned, no membership outlives its group.

### Merchant portal (`backend/handlers/portal_handlers.go`, `postgres.go` 1503-1946 and 2135-2233, portal pages)

State: merchants, menus, change requests with the midnight they take effect,
delist requests. Hard: changes are applied by whichever requests read a merchant
first, row by row; pages of the merchant and of administrators show old
requests.
Correct when: whoever is told what became of a request is told the truth, nothing is
on the menu before its day, whoever applied the due changes without an error has
applied all of them.

### Pages of a round and the legacy client (`apps/web/components`, `frontend/src/main.js`)

State: copies of what the server last answered, a busy flag, what is awaited.
Operations: polls, refreshes, clicks. Hard: answers in any order, a page that is
left while it waits, redirects by what a copy shows, trackers that overlap.
Correct when: a button sends one request, what is said to have succeeded is shown,
a page keeps up with the server, nobody is inside who has not paid.

### The rest

Rate limiter (`handlers/rate_limit.go`: fixed windows under one mutex),
leaderboard and usage log (aggregates and an append-only log), HTTP plumbing,
configuration and start-up (no state), the chain client (RPC wrapper), the landing
page and `order.js` of the legacy client, migrations and deployment scripts.

## Plan

Done: the modules of the table above, in its order. What is left:

1. Groups, tickets and invites, which share nothing with the modules above
   except member ids.
2. The direct writers of the menu (see Not modelled) beside `MerchantPortal`.

Modules to be proved about use no RECURSIVE operator; sums are cardinalities
(`Sums`), so that the library's theorems on finite sets apply.

## VotingContract and MembershipToken

Each external function is an action; a `require` that fails, and checked
arithmetic that would revert, disable it. `now` is `block.timestamp` and `Tick`
is a new block. The token's functions are the actions of `MembershipToken`,
conjoined into the contract's (`Pay` is `transferFrom(msg.sender,
address(this), amount)`). `_transfer` debits before it credits, and
`MoveTokens` does the same, because `from = to` is possible. `settleProposal`
on a round that is not finalised calls `finalizeVote`: `SettleProposal` is
enabled only if that call would succeed, and writes what both write.

A quote is a record with the signer who signed it: `_recover` returns that
signer, and the digest of a quote is the quote itself. `nativeBalance` is
`address(this).balance`: it grows by what `placeOrder` is paid. The receivers
of native currency are assumed to accept it (`call` returns true).

Left out: events, names and ids of merchants, `Option.active` (nothing ever
clears it), reentrancy through a receiver's code, the 256-bit width of amounts
(each is bounded by a token supply or a paid amount far below it).

| property | what it says |
|---|---|
| `TypeOK` | storage is well typed, in particular nothing below zero |
| `SupplyConserved` | balances add up to the minted supply |
| `TokenSolvent` | the contract holds the MEAL of treasury, rewards and open rounds |
| `VotesAccountedFor` | pool, per-voter and per-option counters agree |
| `WinnerStands` | the winner written is the winner of the tallies, for ever |
| `NativeSolvent` | the balance covers the treasury and all active orders of open rounds together; not that `cancelOrder` can be called, see Findings |
| `PoolWithinOrders` | the pool is never more than the active orders |
| `SettlementNotBlocked` | after ordering, a round with an option can be settled |
| `SettledIsFinal` | a settled round never changes |
| `CancelledOrderCanBeReplaced` | *violated*: see Findings |

### Runs

`contract_tokens` (one round, two members, every function that moves MEAL) and
`contract_orders` (two rounds, two members, five quotes, one by the signer that
was replaced). They are two runs because orders and tokens share no state but
the proposal, and their product is too large. Costs and shares are those of the
contract (10 MEAL, 60 %, 40 %, 3 %), so rounding is the real one; 40 and 100 are
amounts whose 3 % is and is not a whole number. `MaxTime = 4` gives one block in
each stage and one after; two members are enough for a member whose order
outlives another's cancellation, and two rounds for one round to spend what
belongs to another. `MaxExpiry`, `MaxSupply`, `MaxProposals` bound counters
that otherwise grow for ever. Deadlock checking is off: at the last tick,
with everything claimed, no call is left.

### Proofs

The theorems of `VotingContractProofs` hold for every finite set of members,
every number of rounds and options, all costs, and all shares in basis points up
to 100 %, from `TokenAssumption` and `ContractAssumption`.

MEAL: `TypeCorrect`, `SupplyIsConserved`, `ContractIsTokenSolvent`.
`TokenSolvent` is not inductive: settlement moves the *pools* of a round to
treasury and rewards, but pays the rewards out of the *stakes* of its options.
The inductive invariant is

    TokenInv == TypeOK /\ StakesPooled /\ UnusedEmpty /\ TokenSolvent

`StakesPooled`: a round's option pool is the sum of its options' stakes.
`UnusedEmpty`: a round not yet created has no option and empty pools, so that
creating one disturbs nothing. The argument for settlement (`SettleSolvent`) is
that a share is at most its stake (`BpsBound`), that shares grouped by proposer
add up to the shares of all options (`SumByOwner`, `SumOverOwners`), and hence
that what is distributed and the treasury's gain are together at most the two
pools (`Distribution`). The other actions either move tokens into one pool
(`PaySolvent`), out against one debt (`ClaimSolvent`), or do not touch these
variables (`QuietSolvent`).

The lemmas at the head of the module (`UnionOver` to `FirstMax`) derive all of this
from the library's theorems on cardinality: the sum of `f` counts the pairs
`<<x, i>>`, `1 <= i <= f[x]`, and an update, a partition or an append of `f` is a disjoint union or a bijection of such pairs.

Orders, votes and the winner: `PoolStaysWithinOrders`, `ContractIsNativeSolvent`,
`VotesAreAccountedFor`, `WinnerAlwaysStands`, `SettlementIsFinal` (an action
property) and `SettlementNeverRefused`. They share one inductive invariant:

    RoundInv == TypeOK /\ UnusedEmpty /\ Timed
                /\ PoolWithinOrders /\ NativeSolvent /\ VotesAccountedFor /\ WinnerStands

`Timed` says what the clock has already decided: ordering does not end before the
vote, a finalised round is past its vote and a settled one past its ordering.
Without it `WinnerStands` is not inductive: a vote after `finalizeVote` would
move the tallies under the winner. `NativeSolvent` and
`PoolWithinOrders` are sums over order slots; an order that replaces a cancelled
one is the case where the pool loses the amount twice, and both are stated as
bounds that survive it.

`SettlementNotBlocked` speaks of ENABLED, which stays with TLC. What stands
behind it is proved: `SettleSplit` shows that `SettleProposal(p)` is the conjunction of
`SettleRequires(p)`, a formula on the state alone, and `SettleWrites(p)`, which gives
each variable one value; and `SettlementNeverRefused` that the first holds of
every round with an option once ordering is over. Its two parts are that such a
round can still be finalised (`Timed`, as ordering does not end before the vote) and that
the contract can pay the merchant: the pool is at most the active
orders of the round (`PoolWithinOrders`), and these are one summand of what
`NativeSolvent` keeps in the balance.

## ProposalRound

One local round. A *client* is one HTTP request at a time, a tab; a member may have
any number of them (`MemberOf`). Its handler runs in
the steps at which the code reads or writes the database, and `pc`, `request`
and `read` are the handler's local state: where it is, its arguments, and what
it has read and not yet used. `Abort` ends a handler anywhere, as a killed
process or a transaction rolled back does: a step is one transaction, so what it
has committed stays and the rest never happens.

| code | steps |
|---|---|
| `requireProposalAccess` / `GetProposal` | `Receive`, `RefreshRead`, `RefreshSetWinner`, `LoadForSettlement`, `SettleLocally`, then `load` |
| `Create`, `CreateProposalWithCredit`, `SetProposalGroupID` | `ReceiveCreate`, `CreateProposal`, `SetProposalGroupID` |
| `AddOption`, `InsertProposalOption` | `AddOption` (checks), `InsertProposalOption` |
| `Vote`, `RecordVote` | `Vote` (checks), `VoteRead`, `VoteWrite` |
| `Delete`, `DeleteProposalByCreator` | `Delete` (checks), `DeleteRead`, `DeleteWrite` |
| `FinalizeSettlement`, `ApplySettlementRewards` | `FinalizeSettlement` (checks), `ApplySettlementRewards` |
| `AdvanceProposalStage` | `ReceiveAdvance` (reads), `AdvanceProposalStage` (writes) |

Every route begins with the same reads, so which route it is is chosen at
`load`, the first step where it matters; this changes no behaviour of the tables
and keeps the state space small.

A transaction that reads rows without a lock and writes them later is two steps,
because another transaction may commit in between. A conditional update
(`... WHERE token_balance >= ?`) and a unique index are decided at the writing
step, as the database does: `CannotPay`, `Insufficient` and the refused insertions.

Abstractions. The several SELECTs of `loadProposal` are one step. The first,
unused load of a request is merged with the second. Orders, the guard of a
deletion that asks for none, and the usage log are not here: an order exists only from the
ordering stage on and a deletion passes only while proposing; and what the log is
asked for, whether the creation was paid for, is `paidWith`. A vote that updates a row
deleted meanwhile changes no vote row (`VoteWrite`). The refund columns of options
are read by pages only. Rounds mapped to the chain are not settled here; they
belong to `ChainSync`. Each stage lasts one tick and there is one round; the
round's day ends at `DayEnd`.

| property | what it says | where |
|---|---|---|
| `TypeOK` | tables and local state are well typed | `round_clients` |
| `ValueConserved` | until rewards are paid or the round is deleted, what the members have, what was paid to open and to nominate, and the tally add up to what they started with | `round_clients` |
| `WinnerAfterVote` | the winner is an option and is not set while votes are taken | `round_clients` |
| `LastVoteCounts` | a tally is the weight of the members' last votes | *violated* in `round_revote` |
| `RewardsPaidOnce` | nobody gets more points than one settlement gives | *violated* in `round_two_readers` |

`ValueConserved` is an equation: it refuses a loss as well as a gain. It counts a
ticket as one token, and the tally itself, not the votes the tally should be made
of: two re-votes that race give the old vote back twice and take it off the tally
twice, which creates nothing, and is what `LastVoteCounts` refuses. It says
nothing of a deleted round, since a deletion pays back what it read: see Hazards
not covered.

### Runs

`round_clients`: two tabs of one member, who alone may open the round, and a tab of
another, who is an administrator and ends stages at any time; at most two handlers
are in flight (`TwoInFlight`), whosever they are. So every pair of handlers
overlaps, those of one member included: two votes, two nominations, two
deletions, a deletion and a nomination, two readers. Each member has one token and
one vote ticket: enough to pay once, to fail the second time, and to re-vote in
the other currency. The clock ends with the day, at 2, which is before the natural
end of ordering (3): the administrator's deadlines bring the later stages about,
and settlement. Merchants are interchangeable, and so are the two tabs of one member.
`round_revote` (two tabs of one member, two tokens, a vote of 2 beside a ticket
of 1) and `round_two_readers` (one tab each) ask the questions that the code
does not stand up to.

Deadlock checking is off: at the last tick every request may have been answered
and none need follow.

### Proofs

For any members, clients, costs and clock, with no assumption on how many
requests a member has in flight: `RoundTypeCorrect`, `WinnerComesAfterVote` and
`ValueStaysConserved`.

What makes them inductive is what a handler *holds*: between its read and its
write others may commit. `RoundInv` is `TablesHold` (rows are well formed, and
`WinnerAfterVote`), `ClientTables`, and for each client `Handled`: the winner it is
to write was an option when the vote was over, and still is, or the round it
read is gone. That rests on one fact about every step (`TablesGrow`: ids and clock grow, an
option stays while its round does, a vote that is over is not reopened).
`ValueInv` adds `VotesStand` (a vote that is there is for an option that is) and
`BallotHandled`, the same of the vote a handler has read and is to replace: giving
it back and taking it off its option then cancel out, whoever else does so
meanwhile (`ReplacedTally`, `PaidForWallet`). Each step moves
value between the sums of `ValueConserved`, which `SumUpdate` and `SumExtend` change
at one place.

## WebSession

One tab, the wallet extension, and the handlers of `service/member.go` behind it.
What the tab awaits is a *job* (`jobs`): a record of who awaits (`kind`: the
loader of the navigation bar, a gate, the checkpoint, a login card, an account
page), where it is (`at`), the token or the wallet it was sent with, and whether
its component is still mounted (`live`). `location.replace` empties the document:
its jobs become `gone`, and the server still carries their requests out.
`router.replace` unmounts components only: their jobs run on, and those of
their effects that the code does not guard still write `sessionStorage`.

| code | actions |
|---|---|
| `StartWalletAuth`, `VerifyWalletAuth` | `StartWalletAuth`, `VerifyChallenge`, `LookUpMember`, `CreateMember`, `BindWallet`: its five statements |
| `Login`, `/members/me` | `PasswordLogin`, `AnswerMe` |
| `handleSubscriptionPay` | `PayReadsExpiry`, `PayCharges` |
| `SessionGate`, `SubscriptionCheckpoint`, `AppNav` | jobs `gate`, `checkpoint`, `loader`: `GateDone`, `CheckpointDone`, `LoaderDone` |
| login cards and wallet buttons | `handleWalletLogin`, `NavWalletLogin`, `AccountsRead`, `Connected`, `Signed`, `Declined`, `LoggedIn` |

`PagesAreGated`: what a gate let in belongs to the member whose token the tab holds
now. `WalletsAreUnique`: no wallet is bound to two members. `RedirectsEnd`: once the
visitor stops, nothing is left at "verifying" and the gates stop sending each
other's visitors away.

`session_tab`: two accounts, three acts of the visitor, at most one job at a
time of a component that is gone, credits for two subscriptions. Three acts are a login, a
change of account or page during it, and one act on the result; two wallets are
what a mixed-up session needs.

Proved, for any wallets, clicks and credits: `PagesAlwaysGated`,
`WalletsStayUnique`, `SessionTypeCorrect`. The invariant `SessionInv` says of every
job what its token or wallet still means: a token names a row that exists and
never changes its owner (`MembersGrow`), and a live gate that is about to let in
was answered for the token the tab holds. `CountInv` bounds nonces: each,
and each request for one, was a click.

## StagePages

The governance board and the ordering workspace up to the vote. `round` is the
round of the server, `copy` what the open page shows; a job is a poll, a first
load or an action with the refresh that follows it. Opening a page replaces all
of the page's state; the jobs of the page left behind run on without it, and a
creation or a deletion of the workspace still redirects. The server accepts an
action on `round`, not on `copy` (`Accepts`), in one step: `ProposalRound` splits
it.

`OneAtATime` (the board sends one request at a time), `OwnActionShown` (when an
action of a page has succeeded, the copy that then arrives contains it),
`BoardCatchesUp` (the board shows the round as it is again and again) and
`ButtonsComeBack` (no request leaves the buttons disabled). `stage_pages`: one
other member, two clicks, one failing request, one background refresh beside
those of actions; a click, a redirect and an overtaking answer fit into that.

Proved, for any number of members, clicks, failures and polls: `BoardActsOnce`,
`OwnActionAlwaysShown` (an action property), `StageTypeCorrect`. `StageInv`: no copy
is ahead of the server's round; what an accepted action did stays in every round of
its number; while an action of the board is live it is the only one and the
buttons are disabled. Answers that overtake each other do not break it,
since they only make the copy older, never the round.

## OrderPromise and OrderDesk

`OrderPromise` has one number per order, where it stands (`status`, 0 when it is
cancelled), the furthest stage it has reached (`stage`), the changes granted and
still to take effect, and how often its money was sent. A change is granted only to
an order that stands right before it; it may take effect late, even twice, and an
order may be set back, but the furthest stage moves on one by one. Money is sent
only after the member has confirmed, and the last stage is granted only after
it was sent. That a status never goes back, or that money is sent once, is no part of
the promise, since the code does not keep it.

`OrderDesk` is the detailed system: the menu and the round that change while a
member orders, quote, signature, payment and `SaveOrder`; for each role a page that
offers what it last read; rows of earlier versions with the statuses and missing
times they had, as `backfillLegacyOrders` leaves them. A change of status is checked
on a read (`StatusRead`), which adds it to `writes`, the set of checked changes,
and written later by a statement that tests nothing (`StatusWritten`). A page
that loses its request or its answer (`RequestLost`) is idle again and may ask for
the same or another change, while the abandoned handler's write is still to
come: any number of them, of all roles, take effect in any order. The events of the
order contract write the same rows: `OrderPlaced` sets the oldest row of its order
hash back to `paid_onchain`, or stores a row of its own; `OrderCancelled` writes
every order of the member.

The refinement is

    Promise == INSTANCE OrderPromise WITH
        stage   <- [o \in Ids |-> Reached(orders[o])],
        status  <- [o \in Ids |-> StageOf(normalizeOrderStatus(orders[o].status))],
        granted <- [o \in Ids |-> {StageOf(w.to) : w \in {v \in writes : v.order = o}}],
        sent    <- sent
    KeepsPromise == Promise!Spec

`StatusRead` is `Grant`, `StatusWritten` is `TakesEffect`, the two events are
`SetBack` (or `Place`), `SaveOrder` is `Place`, `ReleasePaid` is `Send`; the other steps are
stutters. `Reached` is the last step with a recorded time, and no time is taken away.

`OrdersMatchPayments`: the amount stored with a payment is the amount paid, and
a payment stands for at most one order that a page saved and one that its event
stored. `TimelineFollowsStatus`: what an order's page dates has no gap and reaches
at least the status shown, also for old rows and for those set back.

`order_desk`: two prices (a change of the menu between quote and save), two orders of
which one may be old, two sends, three requests. It is enough for a status
written late over a newer one, for a confirmation granted twice, for an event that sets back a
row, takes another row of the same hash or stores its own, and for a payout sent
twice. One item and one round bound the run; registering the payment's transaction and
saving the order are one request; a payout counts as sent from its hash on: a
transaction that is reverted later is noticed neither by the page nor here.

Proved, for any prices, orders, sends and clicks: `DeskTypeCorrect`,
`OrdersAlwaysMatchPayments`, `TimelineAlwaysFollows`, and the refinement,
`DeskKeepsPromise == Spec => KeepsPromise`. Its initial states map to those of
`OrderPromise` (`SeenInit`), and under `DeskInv` each step maps to a step of it or
a stutter (`SeenStep`). `DeskInv` carries over what a read was based on: an order
is at least at the stage at which a page offers a change (`OfferHolds`) or a request
for it is under way (`JobHolds`), because the furthest stage never goes back; a
checked change is at most one step ahead of it, and one to paid out was sent
(`WriteHolds`); a payment in hand is stored with no order of a page yet (`PaymentHolds`).

## ChainSync

The contract's events are a sequence of blocks (`chain`), one event each. A
synchronisation reads the cursor, asks the node, which may lag, for a batch, and
stores it in one transaction; two may overlap, each may fail at any step.
`Replay` applies the projection `applyChainEvent` block by block; it is a function
over the blocks of the chain. The two unique indexes, one option and one
vote of a member in a round, are `Storable`: a batch they refuse is rolled back. The
contract takes a second option or vote of a member (`ContractTakes`), so such a
batch is refused every time, and the projection stops there for good: see Findings.
A round with an option is on the chain before the server is first
started (`Opened`).

`ProjectionIsReplay`: the tables are what the first *n* events make of them, each
applied once and in order. `CursorNeverSkips`: nothing at or below the cursor is
left out, although two synchronisations write it without comparing.
`StatusTellsProjection`: a registered transaction is confirmed exactly when its
event was applied after it was registered with the right action. It states with
`due` what the code does for a registration that comes after its event: it stays
pending. `chain_sync`: two wallets, two synchronisations, four blocks (two of them
there from the start) in batches of two, so that ranges overlap, one begins inside
another, and the last two are an option or a vote and the one too many; a registration
posted twice. Several confirmations, and blocks that are replaced, are not in the
code: the indexer reads the latest block.

`ProjectionPromise` is what all this amounts to for a reader of the tables: one
consumer, `Take(upto)`, that moves forward over the chain and never goes back, and a
confirmation given in the step that takes the event, for good. It has
neither cursor nor synchronisations nor applied-event table. The refinement is

    Promise == INSTANCE ProjectionPromise WITH
        taken <- Cardinality(applied), mined <- hash,
        confirmed <- (pending.status = "confirmed")
    KeepsPromise == Promise!Spec

`StoreChainEvents` is a `Take` if its batch reaches past what is applied, and a stutter
if another synchronisation was faster; all other steps but `Emit` are stutters.
Against a projection that skips, repeats or reorders an event it says what
`ProjectionIsReplay` says; beyond it, that no step takes an event or a
confirmation back.

Proved, for any wallets, batch size, number of blocks and of overlapping
synchronisations: `SyncTypeCorrect`, `CursorStaysBehind`, `TablesAreReplayed`,
`StatusAlwaysTells`, and the refinement,
`ProjectionKeepsPromise == Spec => KeepsPromise`. In `SyncInv` there is an *n* such that exactly the first *n*
blocks are applied, the tables are their replay, the cursor is at most *n*, and
no synchronisation in flight begins after block *n* + 1; hence a batch, however
late, extends what is applied without a gap, which is also what makes a stored batch
one `Take` (`SeenStore`). That a replay of a longer
chain continues that of a shorter one is an induction over blocks. It is
derived from the well-foundedness of the naturals (`SetInduction`), with the set of
blocks for which the statement holds in the place of a predicate.

## LegacyPage

A tab of `frontend/src/main.js`. `Offered` follows its render functions: what a
page has on it for the member, the round and the wallet of the copies. `Asks`
and the `on...` records say of each handler of a click whether it goes to the
wallet or to the server, and what it reloads. The tracker is modelled in full:
`registerAndTrackTransaction`, one poll per transaction
(`pollTransactionUntilSettled`), the wallet's receipt (`watchWalletReceipt`), the
timer (`startPendingTransactionPolling`), and the refreshes they share.

The routes of the transactions are for subscribers (`withSubscribed`): a member at the gate
who has paid in the wallet is refused the registration, the page says that the
payment failed, and neither poll nor timer has anything to ask for. The event of the
payment subscribes the wallet that paid, which need not be this member's (`pays`), and
a row is confirmed only under the right action (`fits`). She gets past the gate by
loading the page again.

`InsideHasPaid`, and `TrackerCatchesUp`: a confirmed transaction does not stay
shown as pending, although polls give up and requests fail. A reload that fails
empties the list (`main.js:505`); an empty list shows nothing as pending, and so counts
as caught up, with nothing left for the timer to follow until the next reload.
`legacy_page`: two transactions, so that one is pending while the other is
confirmed; a poll of one question instead of 18, which ends before or after the
confirmation either way; one round that offers every kind of handler.

Proved, for any transactions, rounds, polls, clicks and failures:
`LegacyTypeCorrect`, `InsideAlwaysPaid`, and `ConfirmedIsProjected` (a transaction
the tracker lists as confirmed was projected). `InsideHasPaid` is not inductive: the
page decides on its copy of the member, which any of the overlapping refreshes may
have written. `LegacyInv` adds that the copies of the member and of the transactions,
whoever wrote them last, are never better than what the server has (`CopiesInv`), and
that a page boots past its session only for who has paid (`GateInv`). Both survive
stale copies because in the model nobody stops being a subscriber (the tab is taken
to be closed before the subscription expires; `main.js` cannot cancel one) and no
confirmed row goes back; failures and the logout only make a copy worse.

## MerchantPortal

A change of the menu goes from the merchant's page (`CreateMenuChangeRequest`) to
the administrators' (`ReviewMenuChangeRequest`), may be withdrawn meanwhile
(`WithdrawMenuChangeRequest`), takes effect at the next midnight and is put on
the menu by whatever request reads a merchant then
(`ApplyScheduledMenuChangeRequests`): it lists what is due, and for each row
`FindsItem` reads the item and `AppliesChange` writes item and status; readers
interleave, and each may fail between two rows (`ApplyFails`). Most readers drop that
error and answer all the same, and `GetMerchantDetail` applies nothing: a reader that
is answered so is `"bare"`, one whose `Apply` returned without an error `"done"`. An
action that is neither of those the form offers is accepted (`"other"`), and is an
error at its row every time. Pages are abstracted to what they have
ever shown: a control may be used on any request that once was pending.

`AnswersStand`: what a page is told became of a change is what became of it.
`NothingEarly`: nothing is on the menu before its midnight. `AppliedIsComplete`: where
the due changes were applied without an error, every change that was due at the
beginning is applied, although others apply the same and fail half way; a
reader that dropped the error is promised nothing, and may be shown an old menu.
`DecisionsAreFinal`, an action property: what was withdrawn, rejected or applied stays
so, and an approved change is only ever applied, as approved and not before its day;
readers write the status without looking at it again. `portal`:
two changes of one item, two midnights, two readers, two rows of the item (`AutoMigrate` gives
the menu's table no unique key, and it is `AutoMigrate` that the program runs; the
index in `migrations/006_menu_items_unique.sql` is created by hand, if at all): enough for a create and a delete, or an older
and a newer price, applied by both readers in different orders.

Proved, for any numbers of changes, rows, days and readers: `PortalTypeCorrect`,
`AnswersAlwaysStand`, `NothingIsEarly`, `ApplyingIsComplete`, `DecisionsStayFinal`.
`PortalInv` adds to
the properties what a reader under way has in hand (`DueStays`): each change
still on its list is approved or already applied, and due, and each that was due when
it began is applied or still on its list. It holds because an approved
change that is due is left only by being applied.

## Fairness

| run | assumed | why the code justifies it |
|---|---|---|
| `session_tab` | `WF(Progress)`: requests are answered or fail, and the tab takes the answer | `fetch` resolves or rejects; what follows runs in the tab |
| `stage_pages` | weak fairness of the poll, of answers, and of the requests of actions | `setInterval` of the board; as above |
| `legacy_page` | weak fairness of boot, timer, refreshes and polls | `setInterval`, and the `await` loops of `main.js` |

Nothing is assumed of users, of prompts of the wallet, of deadlines, or of the
projection of events. The other modules state no fairness: that a round is settled,
a change reviewed or a synchronisation started is up to somebody who asks for it.

## Runs

Deadlock checking is off where everybody may stop: at the last tick, or when the
bounded clicks are used up, no step need follow. `portal` checks it.

| run | what it shows |
|---|---|
| `contract_tokens`, `contract_orders` | the contract's counters, solvency and stages |
| `contract_reorder` | *violation*, see Findings |
| `round_clients` | a round served to concurrent requests, of one member too, that may die |
| `round_revote`, `round_two_readers` | *violations*, see Findings |
| `session_tab` | sessions, gates and redirects of a tab |
| `stage_pages` | copies, polls and redirects of a round's pages |
| `order_desk` | `OrderDesk` implements `OrderPromise` |
| `chain_sync` | `ChainSync` implements `ProjectionPromise`: overlapping synchronisations project each event once |
| `legacy_page` | the legacy client's gate and tracker |
| `portal` | menu changes with concurrent readers |

## Findings

* `placeOrder` (`VotingSystem-v3.sol:303`) takes the amount of a cancelled order
  off the pool although `cancelOrder` (:327) already did: the next order of that
  member reverts, or, with other orders in the pool, leaves the pool too low, and
  settlement pays out too little. `contract_reorder`. A second consequence of the
  same lines: A and B order 40 each, A cancels, orders 100 (the pool is now 100, not
  140) and cancels; the pool is 0, and B's `cancelOrder` reverts at :327 although B's
  order is active and the window open. `NativeSolvent` holds there: the money is in the
  contract, and cannot be asked for.
* `RecordVote` (`postgres.go:1022`) reads the previous vote without a lock: two
  requests of one member that replace the same vote both give it back and both take
  it off its option, and the tally is no longer that of the last votes.
  `round_revote`.
* `applyLocalSettlementRewards` (`postgres.go:3439`): two reads of a round whose
  ordering is over both pay the rewards. `round_two_readers`.

The models have these behaviours too, on which no document promises otherwise, so
that no run states them:

* the contract takes a second option or vote of one member in a round, and the unique
  indexes of the database (`postgres.go:204-230`) take one: the batch with
  that event is rolled back (:3736-3748), at every synchronisation, and no later
  event of any round is projected (`ChainSync`);
* a member at the gate of the legacy client who has paid in the wallet is told that
  the payment failed (`handlers.go:157`, `main.js:3045`) and may pay again
  (`LegacyPage`).

### Hazards not covered

No property forbids these, since the code keeps nothing that would; most are
behaviours of the models:

* two deletions of one round both refund, and the stake of a nomination that arrives
  between the two statements of a deletion is deleted with it (`postgres.go:944`,
  `ProposalRound`);
* a handler that dies after `CreateProposal` leaves a round that is paid for and
  belongs to no group, which nobody can use (`handlers.go:713`, `ProposalRound`);
* a nomination is accepted after the nomination stage (`service/proposal.go:139`), a
  vote that was checked in time is written after the winner was read
  (`postgres.go:3376`);
* two payments of a subscription in flight extend it once (`WebSession`);
* a payment may have no order when the request that stores it fails, a payout
  may be sent twice, a status may be set back by a handler that comes late or by an
  event, and one payment may have two rows and be paid out for both (`OrderDesk`);
* a reader that listed the due changes earlier applies an older one over a newer,
  two readers insert a new item twice, and readers answer with a menu that due
  changes are missing from (`MerchantPortal`);
* the decision on a closing shop is written whatever has become of the request
  (`postgres.go:1918`);
* a registration that comes after its event stays pending (`ChainSync`).

## What is proved, checked, and neither

* Proved for all values of the constants that satisfy the modules' assumptions:
  every safety property that a passing run checks, except
  `SettlementNotBlocked`, with the refinements of `OrderDesk` and of `ChainSync` and
  the lemmas on sums. The runs check on their instances what the theorems state.
* Model-checked only: `SettlementNotBlocked` (all of it but ENABLED is
  `SettlementNeverRefused`), the liveness properties (`RedirectsEnd`,
  `BoardCatchesUp`, `ButtonsComeBack`, `TrackerCatchesUp`), and the three properties
  that are violated.
* Out of the prover's reach, and so left to TLC: liveness under fairness, and
  ENABLED.

### Not modelled

* Groups: creation, membership and the pruner. Their races are described in the
  inventory. Tickets, invites, the daily reward and the faucet: single statements.
* Of the portal: claiming a shop, its profile and its wallet, reviews; and the
  administrators' direct writes of the menu (`UpsertMenuItem` and the CSV import,
  `handlers.go:118-119`, `postgres.go:2040-2081`), which take effect at once, without
  a request and without a midnight: `NothingEarly` speaks of requested changes only.
* Rate limiter: every step is under one mutex; its refusals are failing requests.
* Leaderboard, usage log, metrics and group pages, `landing.js`: they display.
* `order.js`: the ordering page of the legacy client, which places one order through the contract; `OrderDesk`
  models the pages of the web application that do the same.
* HTTP plumbing, configuration, RPC wrapper, migrations and scripts: no state. What
  start-up repairs in old rows is in the initial states of `OrderDesk`.
* Projected events beside local changes of the same vote: `ChainSync` and
  `ProposalRound` would have to be composed, and their product is too large. Of
  orders, the two events are in `OrderDesk`.
