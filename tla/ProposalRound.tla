--------------------------- MODULE ProposalRound ----------------------------
(***************************************************************************)
(* The backend's ledger of one local proposal round: what the HTTP         *)
(* handlers, backend/service/proposal.go and the transactions of           *)
(* backend/repository/postgres.go do to members, options, votes and the    *)
(* proposal row.                                                           *)
(*                                                                         *)
(* A client has one HTTP request in flight.  Its handler runs in steps: a  *)
(* statement or transaction that reads, and later a transaction that       *)
(* writes what was decided from the read.  PostgreSQL runs at READ         *)
(* COMMITTED and the code takes few row locks, so between two steps        *)
(* anything another client commits can intervene.  Abort is a killed       *)
(* process, a lost connection or a transaction the database rolls back.    *)
(***************************************************************************)
EXTENDS Sums, Sequences

CONSTANTS
  Members, Merchants,
  Clients,            \* requests that can be in flight at the same time
  MemberOf,           \* whose session a client uses
  Admins,             \* clients that may call the admin route
  Creators,           \* bound: the members who may open the round
  StartTokens, StartTickets,    \* what each member starts with; tickets by kind
  VoteAmounts,        \* token amounts a vote may carry
  maxOptions,         \* the round's option limit
  DayEnd,             \* midnight of the proposal date
  MaxTime,            \* bound: the clock
  optionTokenCost, proposalTokenCost,
  winnerTokenReward, loserPartialRefund, winnerProposerPoints, voterPoints

ASSUME RoundAssumption ==
  /\ IsFiniteSet(Members) /\ Creators \subseteq Members
  /\ MemberOf \in [Clients -> Members] /\ Admins \subseteq Clients
  /\ StartTokens \in Nat /\ StartTickets \in [{"create", "proposal", "vote"} -> Nat]
  /\ VoteAmounts \subseteq Nat \ {0}
  /\ maxOptions \in Nat /\ DayEnd \in Nat /\ MaxTime \in Nat
  /\ {optionTokenCost, proposalTokenCost} \subseteq Nat
  /\ {winnerTokenReward, loserPartialRefund, winnerProposerPoints, voterPoints} \subseteq Nat

VARIABLES
  now,
  account,    \* members: balances, points and tickets
  proposal,   \* the proposals row
  options,    \* proposal_options rows by id
  lastOptionId,   \* the id sequence of proposal_options
  votes,      \* votes rows by member
  pc, request, read   \* per client: next step, the request, what was read so far

tables == <<account, proposal, options, lastOptionId, votes>>
vars == <<now, tables, pc, request, read>>

-----------------------------------------------------------------------------
(* Rows. *)

Account == [tokens : Nat, points : Nat, createTickets : Nat,
            proposalTickets : Nat, voteTickets : Nat]

\* paidWith: "free" when a merchant was named at creation, so nothing was charged.
Proposal == [phase : {"live"}, grouped : BOOLEAN,
             createdBy : Members, paidWith : {"free", "token", "ticket"},
             proposalDeadline : Nat, voteDeadline : Nat, orderDeadline : Nat,
             winner : Nat, rewardsApplied : BOOLEAN]

NoProposal == [phase : {"none", "deleted"}]

OptionRow == [merchant : Merchants, proposer : Members, usedTicket : BOOLEAN,
              weightedVotes : Int, tokenStake : Nat]

VoteRow == [option : Nat, weight : Nat, ticket : BOOLEAN]

NoVote == [option |-> 0, weight |-> 0, ticket |-> FALSE]
HasVote(v) == v.option # 0

Live == proposal.phase = "live"
isCurrentProposalDay == now < DayEnd

\* deriveStatus for a round without a chain mapping.
Status ==
  IF ~isCurrentProposalDay \/ proposal.rewardsApplied THEN "settled"
  ELSE IF now < proposal.proposalDeadline THEN "proposing"
  ELSE IF now < proposal.voteDeadline THEN "voting"
  ELSE IF now < proposal.orderDeadline THEN "ordering"
  ELSE "awaiting_settlement"

\* ORDER BY weighted_votes DESC, id ASC: the first row, or 0 without options.
TopOption ==
  IF options = << >> THEN 0
  ELSE CHOOSE i \in DOMAIN options :
         \A j \in DOMAIN options \ {i} :
            \/ options[i].weightedVotes > options[j].weightedVotes
            \/ options[i].weightedVotes = options[j].weightedVotes /\ i < j

shouldAutoSettle(winner) ==
  /\ Live /\ ~proposal.rewardsApplied /\ isCurrentProposalDay
  /\ winner # 0 /\ now >= proposal.orderDeadline

Proposers == [i \in DOMAIN options |-> options[i].proposer]
Voters == {m \in Members : HasVote(votes[m])}

-----------------------------------------------------------------------------
(* Requests and their steps. *)

NoRequest == [kind |-> "none"]
NothingRead == [winner |-> 0, proposers |-> << >>, voters |-> {}, vote |-> NoVote,
                refund |-> 0, at |-> 0]

Requests ==
  [kind : {"none"}]
  \cup [kind : {"create"}, paidWith : {"free", "token", "ticket"}]
  \cup [kind : {"addOption"}, merchant : Merchants, ticket : BOOLEAN]
  \cup [kind : {"vote"}, option : Nat, amount : Nat, ticket : BOOLEAN]
  \cup [kind : {"advance"}, stage : {"voting", "ordering", "settled"}]

Steps == {"idle", "create", "link", "refresh", "setWinner", "settleLoad", "settle", "load",
          "insertOption", "voteRead", "voteWrite", "deleteRead", "deleteWrite",
          "applyRewards", "advance"}

Caller(c) == MemberOf[c]
Own(c) == account[Caller(c)]

\* mutation: the balance is charged whatever it is
NeverRefused(c, cost) == FALSE

\* The update that charges a member, conditional on the balance, affects no row.
CannotPay(c, cost) == Own(c).tokens < cost

At(c, step) == pc[c] = step /\ UNCHANGED now

\* The handler goes on, with what it has read.
Goto(c, step, seen) ==
  /\ pc' = [pc EXCEPT ![c] = step]
  /\ read' = [read EXCEPT ![c] = seen]
  /\ UNCHANGED request

Answer(c) ==
  /\ pc' = [pc EXCEPT ![c] = "idle"]
  /\ request' = [request EXCEPT ![c] = NoRequest]
  /\ read' = [read EXCEPT ![c] = NothingRead]

\* The GetProposal a handler ends with.
GetAndAnswer(c) ==
  /\ pc' = [pc EXCEPT ![c] = "refresh"]
  /\ request' = [request EXCEPT ![c] = NoRequest]
  /\ read' = [read EXCEPT ![c] = NothingRead]

Fail(c) == Answer(c) /\ UNCHANGED tables

\* A handler goes on to `step' with the arguments r of its request.
Begin(c, r, step, seen) ==
  /\ pc' = [pc EXCEPT ![c] = step]
  /\ request' = [request EXCEPT ![c] = r]
  /\ read' = [read EXCEPT ![c] = seen]
  /\ UNCHANGED tables

\* Every route on the round begins with GetProposal, whatever it is asked to do: the
\* route and its arguments matter from Load on, and are chosen there.
Receive(c) == At(c, "idle") /\ Begin(c, NoRequest, "refresh", NothingRead)

-----------------------------------------------------------------------------
(* Creation: the charge and the row in one transaction, the group link in  *)
(* a second.  With a merchant named nothing is charged and an AddOption by *)
(* the same handler follows; it is a request like any other.               *)

ReceiveCreate(c, paidWith) ==
  /\ At(c, "idle")
  /\ Caller(c) \in Creators
  /\ proposal.phase = "none" /\ isCurrentProposalDay    \* bound: one round, of this day
  /\ paidWith # "free" => Own(c).tokens >= optionTokenCost    \* the other cost, below
  /\ Begin(c, [kind |-> "create", paidWith |-> paidWith], "create", NothingRead)

\* bound: every stage lasts one tick.
NewProposal(c, paidWith) ==
  [phase |-> "live", grouped |-> FALSE, createdBy |-> Caller(c), paidWith |-> paidWith,
   proposalDeadline |-> now + 1, voteDeadline |-> now + 2, orderDeadline |-> now + 3,
   winner |-> 0, rewardsApplied |-> FALSE]

\* A ticket is used only if there is one; otherwise tokens are charged.
CreateProposal(c) ==
  /\ At(c, "create")
  /\ proposal.phase = "none"
  /\ LET wanted == request[c].paidWith
         useTicket == wanted = "ticket" /\ Own(c).createTickets > 0
         paidWith == IF wanted = "free" \/ useTicket THEN wanted ELSE "token"
     IN  IF paidWith = "token" /\ CannotPay(c, proposalTokenCost)
         THEN Fail(c)
         ELSE /\ account' = [account EXCEPT
                   ![Caller(c)].createTickets = IF useTicket THEN @ - 1 ELSE @,
                   ![Caller(c)].tokens = IF paidWith = "token" THEN @ - proposalTokenCost ELSE @]
              /\ proposal' = NewProposal(c, paidWith)
              /\ Goto(c, "link", NothingRead)
              /\ UNCHANGED <<options, lastOptionId, votes>>

SetProposalGroupID(c) ==
  /\ At(c, "link")
  /\ proposal' = [proposal EXCEPT !.grouped = TRUE]
  /\ IF request[c].paidWith = "free" THEN GetAndAnswer(c) ELSE Answer(c)
  /\ UNCHANGED <<account, options, lastOptionId, votes>>

-----------------------------------------------------------------------------
(* GetProposal: pick the winner of a finished vote, settle a finished      *)
(* round, then load it.  Every read of the round does this.                *)

AfterRefresh(winner) == IF shouldAutoSettle(winner) THEN "settleLoad" ELSE "load"

\* mutation: the deadline of the nominations is compared instead
NominationIsOver == now >= proposal.proposalDeadline

VoteIsOver == now >= proposal.voteDeadline


\* The first half of refreshProposalState's transaction: its reads.
RefreshRead(c) ==
  /\ At(c, "refresh")
  /\ UNCHANGED tables
  /\ IF ~Live THEN Answer(c)
     ELSE IF isCurrentProposalDay /\ proposal.winner = 0 /\ VoteIsOver /\ options # << >>
          THEN Goto(c, "setWinner", [read[c] EXCEPT !.winner = TopOption])
          ELSE Goto(c, AfterRefresh(proposal.winner), read[c])

\* Its update: the proposal row is not locked, so the winner read is written blindly.
RefreshSetWinner(c) ==
  /\ At(c, "setWinner")
  /\ proposal' = IF Live THEN [proposal EXCEPT !.winner = read[c].winner] ELSE proposal
  /\ Goto(c, AfterRefresh(read[c].winner), NothingRead)
  /\ UNCHANGED <<account, options, lastOptionId, votes>>

\* applyLocalSettlementRewards: the rewards are computed from this load ...
LoadForSettlement(c) ==
  /\ At(c, "settleLoad")
  /\ UNCHANGED tables
  /\ IF ~Live THEN Answer(c)
     ELSE IF shouldAutoSettle(proposal.winner)
          THEN Goto(c, "settle", [NothingRead EXCEPT !.winner = proposal.winner,
                                                     !.proposers = Proposers])
          ELSE Goto(c, "load", NothingRead)

OptionReward(seen, i) == IF i = seen.winner THEN winnerTokenReward ELSE loserPartialRefund

TokenReward(seen, m) ==
  Sum([i \in DOMAIN seen.proposers |->
         IF seen.proposers[i] = m THEN OptionReward(seen, i) ELSE 0])

PointReward(seen, voters, m) ==
  (IF seen.winner \in DOMAIN seen.proposers /\ seen.proposers[seen.winner] = m
   THEN winnerProposerPoints ELSE 0)
  + (IF m \in voters THEN voterPoints ELSE 0)

\* ... and added to the accounts by a transaction that does not look at the row again.
\* (The refund columns it sets on the options are read by nothing but pages.)
Reward(seen, voters) ==
  /\ account' = [m \in Members |->
       [account[m] EXCEPT !.tokens = @ + TokenReward(seen, m),
                          !.points = @ + PointReward(seen, voters, m)]]
  /\ proposal' = IF Live THEN [proposal EXCEPT !.rewardsApplied = TRUE] ELSE proposal
  /\ UNCHANGED <<options, lastOptionId, votes>>

SettleLocally(c) ==
  /\ At(c, "settle")
  /\ Reward(read[c], Voters)
  /\ Goto(c, "load", NothingRead)

-----------------------------------------------------------------------------
(* The service's checks, made on one load of the round and of the member.  *)

CanAddOption(c, merchant) ==
  /\ Cardinality(DOMAIN options) < maxOptions
  /\ Own(c).tokens >= optionTokenCost \/ Own(c).proposalTickets > 0
  /\ \A i \in DOMAIN options : options[i].merchant # merchant
  /\ Cardinality({i \in DOMAIN options : options[i].proposer = Caller(c)}) < 2

CanVote(c, option, amount, ticket) ==
  /\ Status = "voting"
  /\ IF ticket THEN Own(c).voteTickets > 0 ELSE Own(c).tokens >= amount
  /\ option \in DOMAIN options

CanDelete(c) ==
  /\ Status = "proposing"
  /\ proposal.createdBy = Caller(c)
  /\ \A i \in DOMAIN options : options[i].proposer = Caller(c)
  /\ Voters = {}

CanSettle ==
  /\ Status \in {"awaiting_settlement", "settled"}
  /\ ~proposal.rewardsApplied
  /\ proposal.winner # 0

\* requireProposalAccess and the check of the day.
Loaded(c) == At(c, "load") /\ Live /\ proposal.grouped /\ isCurrentProposalDay

AddOption(c, merchant, ticket) ==
  /\ Loaded(c) /\ CanAddOption(c, merchant)
  /\ Begin(c, [kind |-> "addOption", merchant |-> merchant, ticket |-> ticket],
           "insertOption", NothingRead)

Vote(c, option, amount, ticket) ==
  /\ Loaded(c) /\ CanVote(c, option, amount, ticket)
  /\ Begin(c, [kind |-> "vote", option |-> option, amount |-> amount, ticket |-> ticket],
           "voteRead", NothingRead)

Delete(c) ==
  /\ Loaded(c) /\ CanDelete(c)
  /\ Begin(c, NoRequest, "deleteRead", NothingRead)

\* The rewards and their takers are those of this load.
FinalizeSettlement(c) ==
  /\ Loaded(c) /\ CanSettle
  /\ Begin(c, NoRequest, "applyRewards",
           [NothingRead EXCEPT !.winner = proposal.winner, !.proposers = Proposers,
                               !.voters = Voters])

\* A read, or a request the checks refuse.
AnswerLoaded(c) == At(c, "load") /\ Fail(c)

-----------------------------------------------------------------------------
(* The writing transactions.                                               *)

\* The charge is conditional on the balance now; a second option of the same member
\* breaks the unique index and rolls the charge back.
InsertProposalOption(c) ==
  /\ At(c, "insertOption")
  /\ LET r == request[c]
         useTicket == r.ticket /\ Own(c).proposalTickets > 0
         cost == IF useTicket THEN 0 ELSE optionTokenCost
     IN  IF \/ CannotPay(c, cost)
            \/ \E i \in DOMAIN options : options[i].proposer = Caller(c)
         THEN Fail(c)
         ELSE /\ account' = [account EXCEPT
                   ![Caller(c)].proposalTickets = IF useTicket THEN @ - 1 ELSE @,
                   ![Caller(c)].tokens = @ - cost]
              /\ lastOptionId' = lastOptionId + 1
              /\ options' = [i \in DOMAIN options \cup {lastOptionId'} |->
                   IF i \in DOMAIN options THEN options[i]
                   ELSE [merchant |-> r.merchant, proposer |-> Caller(c),
                         usedTicket |-> useTicket, weightedVotes |-> 0, tokenStake |-> cost]]
              /\ GetAndAnswer(c)
              /\ UNCHANGED <<proposal, votes>>

\* RecordVote reads the member's previous vote without locking anything.
VoteRead(c) ==
  /\ At(c, "voteRead")
  /\ Goto(c, "voteWrite", [NothingRead EXCEPT !.vote = votes[Caller(c)]])
  /\ UNCHANGED tables

\* mutation: a ticket is not given back
RefundedTokensOnly(a, old) ==
  IF old.ticket THEN a ELSE [a EXCEPT !.tokens = @ + old.weight]

\* The previous vote is given back ...
Refunded(a, old) ==
  IF old.ticket THEN [a EXCEPT !.voteTickets = @ + 1] ELSE [a EXCEPT !.tokens = @ + old.weight]

AddWeight(rows, i, weight) ==
  IF i \in DOMAIN rows THEN [rows EXCEPT ![i].weightedVotes = @ + weight] ELSE rows

\* ... and taken off the option it was for, if the row is still there.
TakeOffOldWeight(rows, old) == AddWeight(rows, old.option, -old.weight)

\* The conditional updates of RecordVote affect no row.
Insufficient(a) == a.voteTickets < 0 \/ a.tokens < 0

VoteWrite(c) ==
  /\ At(c, "voteWrite")
  /\ LET r == request[c]
         m == Caller(c)
         old == read[c].vote
         weight == IF r.ticket THEN 1 ELSE r.amount
         mine == Refunded(account[m], old)
         paid == IF r.ticket THEN [mine EXCEPT !.voteTickets = @ - 1]
                             ELSE [mine EXCEPT !.tokens = @ - weight]
         row == [option |-> r.option, weight |-> weight, ticket |-> r.ticket]
     IN  IF \/ Insufficient(paid)
            \/ ~HasVote(old) /\ HasVote(votes[m])      \* the unique index
         THEN Fail(c)
         ELSE /\ account' = [account EXCEPT ![m] = paid]
              /\ options' = AddWeight(TakeOffOldWeight(options, old), r.option, weight)
              /\ votes' = IF HasVote(old) /\ ~HasVote(votes[m]) THEN votes
                          ELSE [votes EXCEPT ![m] = row]
              /\ GetAndAnswer(c)
              /\ UNCHANGED <<proposal, lastOptionId>>

\* DeleteProposalByCreator repeats the checks and adds up the refund ...
DeleteRefund ==
  Sum([i \in DOMAIN options |-> options[i].tokenStake])
  + (IF proposal.paidWith = "free" THEN 0 ELSE proposalTokenCost)

DeleteRead(c) ==
  /\ At(c, "deleteRead")
  /\ UNCHANGED tables
  /\ IF /\ Live /\ Voters = {}
        /\ \A i \in DOMAIN options : options[i].proposer = Caller(c)
     THEN Goto(c, "deleteWrite", [NothingRead EXCEPT !.refund = DeleteRefund])
     ELSE Answer(c)

\* ... then pays it and removes every row of the round, whatever has been added since.
DeleteWrite(c) ==
  /\ At(c, "deleteWrite")
  /\ account' = [account EXCEPT ![Caller(c)].tokens = @ + read[c].refund]
  /\ proposal' = [phase |-> "deleted"]
  /\ options' = << >>
  /\ votes' = [m \in Members |-> NoVote]
  /\ Answer(c)
  /\ UNCHANGED lastOptionId

\* FinalizeSettlement, with the options and the voters of its load.
ApplySettlementRewards(c) ==
  /\ At(c, "applyRewards")
  /\ Reward(read[c], read[c].voters)
  /\ GetAndAnswer(c)

-----------------------------------------------------------------------------
(* The admin route that ends a stage early: for "ordering" it reads the    *)
(* leading option first; the time is taken before the read.                *)

ReceiveAdvance(c, stage) ==
  /\ At(c, "idle")
  /\ c \in Admins
  /\ Begin(c, [kind |-> "advance", stage |-> stage], "advance",
           [NothingRead EXCEPT !.at = now,
                               !.winner = IF stage = "ordering" THEN TopOption ELSE 0])

AdvanceProposalStage(c) ==
  /\ At(c, "advance")
  /\ proposal' =
       CASE ~Live -> proposal
         [] Live /\ request[c].stage = "voting" ->
              [proposal EXCEPT !.proposalDeadline = read[c].at]
         [] Live /\ request[c].stage = "ordering" ->
              [proposal EXCEPT !.voteDeadline = read[c].at, !.winner = read[c].winner]
         [] Live /\ request[c].stage = "settled" ->
              [proposal EXCEPT !.orderDeadline = read[c].at]
  /\ GetAndAnswer(c)
  /\ UNCHANGED <<account, options, lastOptionId, votes>>

Abort(c) == pc[c] # "idle" /\ Fail(c) /\ UNCHANGED now

Tick == now < MaxTime /\ now' = now + 1 /\ UNCHANGED <<tables, pc, request, read>>

-----------------------------------------------------------------------------
StartAccount ==
  [tokens |-> StartTokens, points |-> 0, createTickets |-> StartTickets["create"],
   proposalTickets |-> StartTickets["proposal"], voteTickets |-> StartTickets["vote"]]

Init ==
  /\ now = 0
  /\ account = [m \in Members |-> StartAccount]
  /\ proposal = [phase |-> "none"]
  /\ options = << >> /\ lastOptionId = 0
  /\ votes = [m \in Members |-> NoVote]
  /\ pc = [c \in Clients |-> "idle"]
  /\ request = [c \in Clients |-> NoRequest]
  /\ read = [c \in Clients |-> NothingRead]

Arrive(c) ==
  \/ Receive(c)
  \/ \E paidWith \in {"free", "token", "ticket"} : ReceiveCreate(c, paidWith)
  \/ \E stage \in {"voting", "ordering", "settled"} : ReceiveAdvance(c, stage)

Dispatch(c) ==
  \/ AnswerLoaded(c)
  \/ \E merchant \in Merchants, ticket \in BOOLEAN : AddOption(c, merchant, ticket)
  \/ \E option \in DOMAIN options :
       \/ \E amount \in VoteAmounts : Vote(c, option, amount, FALSE)
       \/ Vote(c, option, 1, TRUE)      \* a ticket weighs 1 whatever the amount
  \/ Delete(c) \/ FinalizeSettlement(c)

Serve(c) ==
  \/ CreateProposal(c) \/ SetProposalGroupID(c)
  \/ RefreshRead(c) \/ RefreshSetWinner(c) \/ LoadForSettlement(c) \/ SettleLocally(c)
  \/ InsertProposalOption(c) \/ VoteRead(c) \/ VoteWrite(c)
  \/ DeleteRead(c) \/ DeleteWrite(c) \/ ApplySettlementRewards(c)
  \/ AdvanceProposalStage(c)

Next == Tick \/ \E c \in Clients : Arrive(c) \/ Dispatch(c) \/ Serve(c) \/ Abort(c)

Spec == Init /\ [][Next]_vars

-----------------------------------------------------------------------------
(* Every table and every handler's local state is well typed.              *)
TypeOK ==
  /\ now \in 0 .. MaxTime
  /\ account \in [Members -> Account]
  /\ proposal \in Proposal \cup NoProposal
  /\ lastOptionId \in Nat
  /\ DOMAIN options \subseteq 1 .. lastOptionId
  /\ \A i \in DOMAIN options : options[i] \in OptionRow
  /\ votes \in [Members -> VoteRow]
  /\ pc \in [Clients -> Steps]
  /\ \A c \in Clients : request[c] \in Requests
  /\ \A c \in Clients :
       /\ {read[c].winner, read[c].refund, read[c].at} \subseteq Nat
       /\ \A i \in DOMAIN read[c].proposers : read[c].proposers[i] \in Members
       /\ read[c].voters \subseteq Members /\ read[c].vote \in VoteRow

(* An option's weighted_votes is the weight of the members whose LAST vote *)
(* is for it: a vote may be replaced until the deadline, as the page says, *)
(* and RecordVote takes the replaced one off again.                        *)
LastVoteCounts ==
  \A i \in DOMAIN options :
    options[i].weightedVotes =
      Sum([m \in Members |-> IF votes[m].option = i THEN votes[m].weight ELSE 0])

Wallet(a) == a.tokens + a.createTickets + a.proposalTickets + a.voteTickets

PaidToOpen ==
  CASE Live /\ proposal.paidWith = "token"  -> proposalTokenCost
    [] Live /\ proposal.paidWith = "ticket" -> 1
    [] OTHER -> 0

PaidToNominate(o) == IF o.usedTicket THEN 1 ELSE o.tokenStake

Above(x) == IF x > 0 THEN x ELSE 0

\* The tally: the sum of the options' weighted votes, which may be negative.
Tallied ==
  Sum([i \in DOMAIN options |-> Above(options[i].weightedVotes)])
  - Sum([i \in DOMAIN options |-> Above(-options[i].weightedVotes)])

(* Until rewards are paid or the round is deleted, what the members have   *)
(* in tokens and tickets, what they paid to open the round and to nominate *)
(* and what the tally counts add up to what they started with, whichever   *)
(* handlers overlap, fail half way or are killed.  Two re-votes of one     *)
(* member that overlap give the old vote back twice and take it off the    *)
(* tally twice: nothing is created, but the tally is wrong, which is       *)
(* LastVoteCounts.  A deletion refunds what it read and is no part of it.  *)
ValueConserved ==
  proposal.phase = "none" \/ (Live /\ ~proposal.rewardsApplied) =>
    Sum([m \in Members |-> Wallet(account[m])])
    + PaidToOpen + Sum([i \in DOMAIN options |-> PaidToNominate(options[i])]) + Tallied
      = Sum([m \in Members |-> Wallet(StartAccount)])

(* A winner is an option of the round, and nobody is chosen while the      *)
(* round still takes votes, whoever reads it and whenever an admin moves   *)
(* its deadlines.                                                          *)
WinnerAfterVote ==
  Live /\ proposal.winner # 0 =>
    proposal.winner \in DOMAIN options /\ now >= proposal.voteDeadline

(* Rewards are applied once: nobody ever gets more than the points of one  *)
(* winning proposal and one vote.                                          *)
RewardsPaidOnce ==
  \A m \in Members : account[m].points <= winnerProposerPoints + voterPoints

=============================================================================
