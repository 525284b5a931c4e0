--------------------------- MODULE VotingContract ---------------------------
(***************************************************************************)
(* contract/VotingSystem-v3.sol: proposals, staked options, weighted       *)
(* votes, native-currency orders, settlement and the two treasuries.  One  *)
(* action per external function.  A transaction is atomic; require() and   *)
(* checked arithmetic that would revert disable the action.                *)
(***************************************************************************)
EXTENDS MembershipToken, Sequences

CONSTANTS
  OPTION_TOKEN_COST, SUBSCRIPTION_TOKEN_COST, SUBSCRIPTION_DURATION,
  LOSER_REFUND_BPS, WINNER_REWARD_BPS, ORDER_FEE_BPS,
  VoteAmounts,   \* token amounts a voter may spend in one vote
  Approvals,     \* allowances a member may grant to the contract
  TransferAmounts,  \* plain token transfers
  WithdrawAmounts,  \* treasury withdrawals by the owner
  Signers, Wallets,
  Quotes,        \* order quotes the backend has signed
  MaxProposals,  \* bound: proposals ever created
  MaxTime,       \* bound: block.timestamp
  MaxExpiry      \* bound: subscriptions stop being bought here

ProposalIds == 0 .. MaxProposals - 1

ASSUME ContractAssumption ==
  /\ {OPTION_TOKEN_COST, SUBSCRIPTION_TOKEN_COST, SUBSCRIPTION_DURATION} \subseteq Nat
  /\ \A bps \in {LOSER_REFUND_BPS, WINNER_REWARD_BPS, ORDER_FEE_BPS} :
       bps \in Nat /\ bps <= 10000
  /\ VoteAmounts \subseteq Nat \ {0}
  /\ (Approvals \cup TransferAmounts \cup WithdrawAmounts) \subseteq Nat
  /\ Signers # {} /\ Wallets # {}
  /\ MaxProposals \in Nat /\ MaxTime \in Nat /\ MaxExpiry \in Nat
  /\ Quotes \subseteq [proposal : ProposalIds, member : Members, amount : Nat,
                       expiry : Nat, signer : Signers]

VARIABLES
  now,                \* block.timestamp
  proposalCount, proposals, options, memberVoteSpend, orders,
  usedOrderDigests, claimableRewards, subscriptionExpiry,
  treasuryTokenBalance, treasuryNativeBalance,
  nativeBalance,      \* address(this).balance
  signer, platformMainWallet

roundVars == <<proposalCount, proposals, options, memberVoteSpend>>
orderVars == <<orders, usedOrderDigests, nativeBalance, treasuryNativeBalance>>
rewardVars == <<claimableRewards, treasuryTokenBalance>>
adminVars == <<signer, platformMainWallet>>
vars == <<tokenVars, now, roundVars, orderVars, rewardVars, subscriptionExpiry, adminVars>>

-----------------------------------------------------------------------------
(* Records of the contract's storage.                                      *)

Proposal == [proposalDeadline : Nat, voteDeadline : Nat, orderDeadline : Nat,
             winnerOptionIndex : Nat, optionTokenPool : Nat, voteTokenPool : Nat,
             orderPool : Nat, exists : BOOLEAN, voteFinalized : BOOLEAN,
             settled : BOOLEAN]

Option == [proposer : Members, weightedVotes : Nat, tokenStake : Nat]

Order == [placed : BOOLEAN, cancelled : BOOLEAN, amount : Nat]

EmptyProposal ==
  [proposalDeadline |-> 0, voteDeadline |-> 0, orderDeadline |-> 0,
   winnerOptionIndex |-> 0, optionTokenPool |-> 0, voteTokenPool |-> 0,
   orderPool |-> 0, exists |-> FALSE, voteFinalized |-> FALSE, settled |-> FALSE]

EmptyOrder == [placed |-> FALSE, cancelled |-> FALSE, amount |-> 0]

Init ==
  /\ TokenInit
  /\ now = 0
  /\ proposalCount = 0
  /\ proposals = [p \in ProposalIds |-> EmptyProposal]
  /\ options = [p \in ProposalIds |-> <<>>]
  /\ memberVoteSpend = [p \in ProposalIds |-> [m \in Members |-> 0]]
  /\ orders = [p \in ProposalIds |-> [m \in Members |-> EmptyOrder]]
  /\ usedOrderDigests = {}
  /\ claimableRewards = [m \in Members |-> 0]
  /\ subscriptionExpiry = [m \in Members |-> 0]
  /\ treasuryTokenBalance = 0
  /\ treasuryNativeBalance = 0
  /\ nativeBalance = 0
  /\ signer \in Signers
  /\ platformMainWallet \in Wallets

-----------------------------------------------------------------------------
(* Token calls made directly by members and by the token owner.            *)

MintTo(a) ==
  /\ \E amount \in MintAmounts : Mint(a, amount)
  /\ UNCHANGED <<now, roundVars, orderVars, rewardVars, subscriptionExpiry, adminVars>>

ApproveContract(m) ==
  /\ \E amount \in Approvals : Approve(m, Contract, amount)
  /\ UNCHANGED <<now, roundVars, orderVars, rewardVars, subscriptionExpiry, adminVars>>

SendTokens(m, to) ==
  /\ \E amount \in TransferAmounts : Transfer(m, to, amount)
  /\ UNCHANGED <<now, roundVars, orderVars, rewardVars, subscriptionExpiry, adminVars>>

\* membershipToken.transferFrom(msg.sender, address(this), amount)
Pay(m, amount) == TransferFrom(Contract, m, Contract, amount)

-----------------------------------------------------------------------------
CreateProposal(pd, vd, od) ==
  /\ proposalCount < MaxProposals
  /\ now < pd /\ pd < vd /\ vd < od
  /\ proposals' = [proposals EXCEPT ![proposalCount] =
                     [EmptyProposal EXCEPT !.proposalDeadline = pd, !.voteDeadline = vd,
                                           !.orderDeadline = od, !.exists = TRUE]]
  /\ proposalCount' = proposalCount + 1
  /\ UNCHANGED <<tokenVars, now, options, memberVoteSpend, orderVars, rewardVars,
                 subscriptionExpiry, adminVars>>

SubscribeMonthly(m) ==
  LET base == IF subscriptionExpiry[m] < now THEN now ELSE subscriptionExpiry[m]
  IN  /\ base + SUBSCRIPTION_DURATION <= MaxExpiry
      /\ Pay(m, SUBSCRIPTION_TOKEN_COST)
      /\ subscriptionExpiry' = [subscriptionExpiry EXCEPT ![m] = base + SUBSCRIPTION_DURATION]
      /\ treasuryTokenBalance' = treasuryTokenBalance + SUBSCRIPTION_TOKEN_COST
      /\ UNCHANGED <<now, roundVars, orderVars, claimableRewards, adminVars>>

AddOption(m, p) ==
  /\ proposals[p].exists
  /\ now <= proposals[p].proposalDeadline
  /\ ~proposals[p].voteFinalized
  /\ Pay(m, OPTION_TOKEN_COST)
  /\ options' = [options EXCEPT ![p] =
                   Append(@, [proposer |-> m, weightedVotes |-> 0,
                              tokenStake |-> OPTION_TOKEN_COST])]
  /\ proposals' = [proposals EXCEPT ![p].optionTokenPool = @ + OPTION_TOKEN_COST]
  /\ UNCHANGED <<now, proposalCount, memberVoteSpend, orderVars, rewardVars,
                 subscriptionExpiry, adminVars>>

\* Mutant: votes accepted until ordering ends.
VotingOpenLate(p) == proposals[p].proposalDeadline < now /\ now <= proposals[p].orderDeadline

VotingOpen(p) == proposals[p].proposalDeadline < now /\ now <= proposals[p].voteDeadline

\* Mutant: the voter's spend is overwritten.
RecordSpendOnce(m, p, amount) ==
  memberVoteSpend' = [memberVoteSpend EXCEPT ![p][m] = amount]

RecordSpend(m, p, amount) ==
  memberVoteSpend' = [memberVoteSpend EXCEPT ![p][m] = @ + amount]

Vote(m, p, i, amount) ==
  /\ proposals[p].exists
  /\ VotingOpen(p)
  /\ i \in DOMAIN options[p]
  /\ Pay(m, amount)
  /\ RecordSpend(m, p, amount)
  /\ options' = [options EXCEPT ![p][i].weightedVotes = @ + amount]
  /\ proposals' = [proposals EXCEPT ![p].voteTokenPool = @ + amount]
  /\ UNCHANGED <<now, proposalCount, orderVars, rewardVars, subscriptionExpiry, adminVars>>

-----------------------------------------------------------------------------
\* _winnerIndex: the first option no other option outvotes (indices from 0 as in the source).
WinnerIndex(p) ==
  CHOOSE w \in 0 .. Len(options[p]) - 1 :
    LET leader == options[p][w + 1].weightedVotes
    IN  \A i \in DOMAIN options[p] :
          IF i < w + 1 THEN options[p][i].weightedVotes < leader
                       ELSE options[p][i].weightedVotes <= leader

\* Mutant: the vote can only be finalized while ordering is open.
CanFinalizeInWindow(p) ==
  /\ proposals[p].exists
  /\ now > proposals[p].voteDeadline /\ now <= proposals[p].orderDeadline
  /\ ~proposals[p].voteFinalized
  /\ Len(options[p]) > 0

CanFinalize(p) ==
  /\ proposals[p].exists
  /\ now > proposals[p].voteDeadline
  /\ ~proposals[p].voteFinalized
  /\ Len(options[p]) > 0

Finalized(p) ==
  [proposals[p] EXCEPT !.voteFinalized = TRUE, !.winnerOptionIndex = WinnerIndex(p)]

FinalizeVote(p) ==
  /\ CanFinalize(p)
  /\ proposals' = [proposals EXCEPT ![p] = Finalized(p)]
  /\ UNCHANGED <<tokenVars, now, proposalCount, options, memberVoteSpend, orderVars,
                 rewardVars, subscriptionExpiry, adminVars>>

-----------------------------------------------------------------------------
\* The pool after the lines that replace a cancelled order; checked subtraction.
PoolForReplacement(p, m) ==
  IF orders[p][m].cancelled
  THEN proposals[p].orderPool - orders[p][m].amount
  ELSE proposals[p].orderPool

OrderWindow(p) ==
  /\ proposals[p].exists /\ proposals[p].voteFinalized /\ ~proposals[p].settled
  /\ proposals[p].voteDeadline < now /\ now <= proposals[p].orderDeadline

\* Mutant: a second order replaces an active one.
CanReplaceAny(p, m) == TRUE

NoActiveOrder(p, m) == ~orders[p][m].placed \/ orders[p][m].cancelled

ValidQuote(q) ==
  /\ now <= q.expiry
  /\ q \notin usedOrderDigests
  /\ q.signer = signer

PlaceOrder(q) ==
  LET p == q.proposal  m == q.member
  IN  /\ OrderWindow(p)
      /\ ValidQuote(q)
      /\ NoActiveOrder(p, m)
      /\ PoolForReplacement(p, m) >= 0
      /\ usedOrderDigests' = usedOrderDigests \cup {q}
      /\ orders' = [orders EXCEPT ![p][m] =
                      [placed |-> TRUE, cancelled |-> FALSE, amount |-> q.amount]]
      /\ proposals' = [proposals EXCEPT ![p].orderPool = PoolForReplacement(p, m) + q.amount]
      /\ nativeBalance' = nativeBalance + q.amount
      /\ UNCHANGED <<tokenVars, now, proposalCount, options, memberVoteSpend,
                     treasuryNativeBalance, rewardVars, subscriptionExpiry, adminVars>>

\* Mutant: orders can be cancelled at any time.
CancelWindowAlways(p) == TRUE

CancelWindow(p) == now <= proposals[p].orderDeadline

\* Mutant: the refunded order stays active.
KeepOrder(m, p) == UNCHANGED orders

MarkCancelled(m, p) == orders' = [orders EXCEPT ![p][m].cancelled = TRUE]

CancelOrder(m, p) ==
  /\ proposals[p].exists
  /\ CancelWindow(p)
  /\ orders[p][m].placed /\ ~orders[p][m].cancelled
  /\ proposals[p].orderPool >= orders[p][m].amount
  /\ nativeBalance >= orders[p][m].amount
  /\ MarkCancelled(m, p)
  /\ proposals' = [proposals EXCEPT ![p].orderPool = @ - orders[p][m].amount]
  /\ nativeBalance' = nativeBalance - orders[p][m].amount
  /\ UNCHANGED <<tokenVars, now, proposalCount, options, memberVoteSpend, usedOrderDigests,
                 treasuryNativeBalance, rewardVars, subscriptionExpiry, adminVars>>

-----------------------------------------------------------------------------
Bps(amount, bps) == (amount * bps) \div 10000

\* What settlement returns of one option's stake, given the winner's 0-based index.
Share(p, i, winner) ==
  Bps(options[p][i].tokenStake,
      IF i = winner + 1 THEN WINNER_REWARD_BPS ELSE LOSER_REFUND_BPS)

SharesOf(p, m, winner) ==
  [i \in {j \in DOMAIN options[p] : options[p][j].proposer = m} |-> Share(p, i, winner)]

OptionDistributed(p, winner) == Sum([i \in DOMAIN options[p] |-> Share(p, i, winner)])

\* Mutant: the whole option pool is booked to the treasury.
TreasuryGainWhole(p, winner) == proposals[p].voteTokenPool + proposals[p].optionTokenPool

TreasuryGain(p, winner) ==
  proposals[p].voteTokenPool
    + (IF proposals[p].optionTokenPool > OptionDistributed(p, winner)
       THEN proposals[p].optionTokenPool - OptionDistributed(p, winner) ELSE 0)

SettleProposal(p) ==
  LET final == IF proposals[p].voteFinalized THEN proposals[p] ELSE Finalized(p)
      fee == Bps(final.orderPool, ORDER_FEE_BPS)
      payout == final.orderPool - fee
  IN  /\ proposals[p].exists
      /\ now > proposals[p].orderDeadline
      /\ ~proposals[p].settled
      /\ proposals[p].voteFinalized \/ CanFinalize(p)
      /\ nativeBalance >= payout
      /\ proposals' = [proposals EXCEPT ![p] = [final EXCEPT !.settled = TRUE]]
      /\ treasuryNativeBalance' = treasuryNativeBalance + fee
      /\ nativeBalance' = nativeBalance - payout
      /\ claimableRewards' =
           [m \in Members |-> claimableRewards[m] + Sum(SharesOf(p, m, final.winnerOptionIndex))]
      /\ treasuryTokenBalance' =
           treasuryTokenBalance + TreasuryGain(p, final.winnerOptionIndex)
      /\ UNCHANGED <<tokenVars, now, proposalCount, options, memberVoteSpend, orders,
                     usedOrderDigests, subscriptionExpiry, adminVars>>

ClaimReward(m) ==
  /\ claimableRewards[m] > 0
  /\ claimableRewards' = [claimableRewards EXCEPT ![m] = 0]
  /\ Transfer(Contract, m, claimableRewards[m])
  /\ UNCHANGED <<now, roundVars, orderVars, treasuryTokenBalance, subscriptionExpiry, adminVars>>

\* Mutant: the treasury's balance is not checked.
WithdrawAnyTokens(to, amount) ==
  /\ treasuryTokenBalance' = treasuryTokenBalance - amount
  /\ Transfer(Contract, to, amount)
  /\ UNCHANGED <<now, roundVars, orderVars, claimableRewards, subscriptionExpiry, adminVars>>

WithdrawTreasuryTokens(to, amount) ==
  /\ amount <= treasuryTokenBalance
  /\ treasuryTokenBalance' = treasuryTokenBalance - amount
  /\ Transfer(Contract, to, amount)
  /\ UNCHANGED <<now, roundVars, orderVars, claimableRewards, subscriptionExpiry, adminVars>>

WithdrawTreasuryNative(amount) ==
  /\ amount <= treasuryNativeBalance
  /\ amount <= nativeBalance
  /\ treasuryNativeBalance' = treasuryNativeBalance - amount
  /\ nativeBalance' = nativeBalance - amount
  /\ UNCHANGED <<tokenVars, now, roundVars, orders, usedOrderDigests, rewardVars,
                 subscriptionExpiry, adminVars>>

SetSigner(newSigner) ==
  /\ signer' = newSigner
  /\ UNCHANGED <<tokenVars, now, roundVars, orderVars, rewardVars, subscriptionExpiry,
                 platformMainWallet>>

SetPlatformMainWallet(newWallet) ==
  /\ platformMainWallet' = newWallet
  /\ UNCHANGED <<tokenVars, now, roundVars, orderVars, rewardVars, subscriptionExpiry, signer>>

Tick ==
  /\ now < MaxTime
  /\ now' = now + 1
  /\ UNCHANGED <<tokenVars, roundVars, orderVars, rewardVars, subscriptionExpiry, adminVars>>

Next ==
  \/ \E a \in Accounts : MintTo(a)
  \/ \E m \in Members : ApproveContract(m)
  \/ \E m \in Members, to \in Accounts : SendTokens(m, to)
  \/ \E pd, vd, od \in 1 .. MaxTime : CreateProposal(pd, vd, od)
  \/ \E m \in Members : SubscribeMonthly(m)
  \/ \E m \in Members, p \in ProposalIds : AddOption(m, p)
  \/ \E m \in Members, p \in ProposalIds, amount \in VoteAmounts :
       \E i \in DOMAIN options[p] : Vote(m, p, i, amount)
  \/ \E p \in ProposalIds : FinalizeVote(p)
  \/ \E q \in Quotes : PlaceOrder(q)
  \/ \E m \in Members, p \in ProposalIds : CancelOrder(m, p)
  \/ \E p \in ProposalIds : SettleProposal(p)
  \/ \E m \in Members : ClaimReward(m)
  \/ \E to \in Accounts, amount \in WithdrawAmounts : WithdrawTreasuryTokens(to, amount)
  \/ \E amount \in WithdrawAmounts : WithdrawTreasuryNative(amount)
  \/ \E k \in Signers : SetSigner(k)
  \/ \E w \in Wallets : SetPlatformMainWallet(w)
  \/ Tick

Spec == Init /\ [][Next]_vars

-----------------------------------------------------------------------------
TypeOK ==
  /\ TokenTypeOK
  /\ now \in Nat
  /\ proposalCount \in 0 .. MaxProposals
  /\ proposals \in [ProposalIds -> Proposal]
  /\ options \in [ProposalIds -> Seq(Option)]
  /\ memberVoteSpend \in [ProposalIds -> [Members -> Nat]]
  /\ orders \in [ProposalIds -> [Members -> Order]]
  /\ usedOrderDigests \subseteq Quotes
  /\ claimableRewards \in [Members -> Nat]
  /\ subscriptionExpiry \in [Members -> Nat]
  /\ treasuryTokenBalance \in Nat
  /\ treasuryNativeBalance \in Nat
  /\ nativeBalance \in Nat
  /\ signer \in Signers
  /\ platformMainWallet \in Wallets

\* MEAL staked and spent in a round that has not been settled.
OpenPool(p) ==
  IF proposals[p].settled THEN 0
  ELSE proposals[p].optionTokenPool + proposals[p].voteTokenPool

(***************************************************************************)
(* The contract always holds the MEAL it owes: treasury, claimable rewards *)
(* and the pools of every open round.  Settlement (:335), claimReward and  *)
(* withdrawTreasuryTokens move debts between these without a common check. *)
(***************************************************************************)
TokenSolvent ==
  balanceOf[Contract] >= treasuryTokenBalance + Sum(claimableRewards)
                           + Sum([p \in ProposalIds |-> OpenPool(p)])

ActiveAmount(p, m) ==
  IF orders[p][m].placed /\ ~orders[p][m].cancelled THEN orders[p][m].amount ELSE 0

ActiveOrders(p) == Sum([m \in Members |-> ActiveAmount(p, m)])

OpenOrders(p) == IF proposals[p].settled THEN 0 ELSE ActiveOrders(p)

(***************************************************************************)
(* The contract's balance always covers the amounts of all active orders   *)
(* of all open rounds and its treasury, whatever order placements,         *)
(* cancellations, replacements and settlements came in.  Whether           *)
(* cancelOrder can be called is not said: it underflows (:327) when a      *)
(* replacement of another member has taken too much off the pool (:304).   *)
(***************************************************************************)
NativeSolvent ==
  nativeBalance >= treasuryNativeBalance + Sum([p \in ProposalIds |-> OpenOrders(p)])

(***************************************************************************)
(* The counter settlement pays out from never exceeds what the round's     *)
(* members have in active orders (orderPool, :304, :314, :327).            *)
(***************************************************************************)
PoolWithinOrders == \A p \in ProposalIds : proposals[p].orderPool <= ActiveOrders(p)

(***************************************************************************)
(* The three counters vote() keeps of the same tokens agree: per option,   *)
(* per voter and per round (:246-248).                                     *)
(***************************************************************************)
VotesAccountedFor ==
  \A p \in ProposalIds :
    /\ proposals[p].voteTokenPool = Sum(memberVoteSpend[p])
    /\ proposals[p].voteTokenPool
         = Sum([i \in DOMAIN options[p] |-> options[p][i].weightedVotes])

(***************************************************************************)
(* The winner fixed by finalizeVote is still the first most-voted option   *)
(* at any later time: no vote or option arrives after it was fixed, though *)
(* vote() never looks at voteFinalized.                                    *)
(***************************************************************************)
WinnerStands ==
  \A p \in ProposalIds : proposals[p].voteFinalized =>
    /\ proposals[p].winnerOptionIndex < Len(options[p])
    /\ proposals[p].winnerOptionIndex = WinnerIndex(p)

(***************************************************************************)
(* A settled round is closed: its counters, options, votes and orders      *)
(* never change again, though cancelOrder does not look at settled.        *)
(***************************************************************************)
SettledIsFinal ==
  [][\A p \in ProposalIds : proposals[p].settled =>
       /\ proposals'[p] = proposals[p]
       /\ options'[p] = options[p]
       /\ memberVoteSpend'[p] = memberVoteSpend[p]
       /\ orders'[p] = orders[p]]_vars

(***************************************************************************)
(* Settlement of a round that has an option is never blocked once ordering *)
(* is over: the payout is always covered and no subtraction underflows.    *)
(***************************************************************************)
SettlementNotBlocked ==
  \A p \in ProposalIds :
    /\ proposals[p].exists /\ ~proposals[p].settled
    /\ now > proposals[p].orderDeadline
    /\ options[p] # <<>>
    => ENABLED SettleProposal(p)

(***************************************************************************)
(* What placeOrder states at :302: only an active order stands in the way  *)
(* of a new one, so a member who cancelled can order again in the window.  *)
(***************************************************************************)
CancelledOrderCanBeReplaced ==
  \A q \in Quotes :
    /\ OrderWindow(q.proposal) /\ ValidQuote(q)
    /\ orders[q.proposal][q.member].cancelled
    => ENABLED PlaceOrder(q)

=============================================================================
