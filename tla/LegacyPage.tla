------------------------------ MODULE LegacyPage -------------------------------
(***************************************************************************)
(* A tab of the legacy client of one member, frontend/src/main.js: its two *)
(* pages, the gate where a member pays for the subscription, what it       *)
(* offers on the round it shows, and the tracker that follows              *)
(* transactions: a timer, a poll for each registered transaction and the   *)
(* wallet's receipts, all reloading the same copies.                       *)
(*                                                                         *)
(* The round the server answers with is any (ProposalRound), and events    *)
(* are projected at any time (ChainSync).                                  *)
(*                                                                         *)
(* Named bounds: one handler of a click and one refresh in flight; a poll  *)
(* asks MaxPolls times (18), and the receipt arrives meanwhile; a          *)
(* subscription does not lapse meanwhile; an answer is as old as its       *)
(* arrival; nobody else registers these transactions.                      *)
(***************************************************************************)
EXTENDS Naturals, FiniteSets

CONSTANTS
    Txs,        \* transactions the wallet can send
    Rounds,     \* bound: copies of the round, "nogroup" among them
    MaxPolls    \* rounds of a poll

ASSUME LegacyConstants == "nogroup" \in Rounds /\ MaxPolls \in Nat \ {0}

VARIABLES
    page,       \* the page and how far it has booted
    token,      \* localStorage: there is a session token
    me,         \* copy of the member: "none", "in" or "subscribed"
    wallet,     \* an account is connected; the contracts are usable or not
    round,      \* copy of the round: "nogroup", "none" or its stage
    list,       \* copy of the transactions, each "absent", "pending" or "confirmed"
    job,        \* the handler of a click in flight
    refresh,    \* refreshPendingTransactions: "idle", "list" or "rest"
    poll,       \* pollTransactionUntilSettled: questions left, 0 when it has ended
    settled,    \* transactions whose poll has found them settled
    subscribed, \* on the server
    tx          \* the transactions: sent, their event applied, and their row; an event
                \* to come pays for this member, or not, and fits the row's action

copies == <<me, round, list>>
tracker == <<refresh, poll, settled>>
server == <<subscribed, tx>>
vars == <<page, token, wallet, job, copies, tracker, server>>

NoJob == [at |-> "none", pays |-> FALSE, fits |-> TRUE, reloads |-> {}, tx |-> "none"]
Shown(p) == page = [name |-> p, at |-> "shown"]
-----------------------------------------------------------------------------
(* Loading. *)

\* window.location.href: what is not in localStorage is gone.
Navigate(p) ==
    /\ page' = [name |-> p, at |-> "session"]
    /\ me' = "none" /\ wallet' = FALSE /\ round' = "nogroup"
    /\ list' = [t \in Txs |-> "absent"]
    /\ job' = NoJob /\ refresh' = "idle"
    /\ poll' = [t \in Txs |-> 0] /\ settled' = {}

Stay == UNCHANGED <<page, wallet>>

Member == IF subscribed THEN "subscribed" ELSE "in"
NoTransactions == [t \in Txs |-> "absent"]
Rows == [t \in Txs |-> tx[t].row]

\* The routes of the transactions refuse who has no subscription.
withSubscribed(ok) == ok /\ subscribed

\* A session that cannot be loaded, whatever the reason, is forgotten.
clearAuthState == token' = FALSE /\ me' = "none" /\ list' = NoTransactions

\* What cannot be listed, whatever the reason, is forgotten.
loadPendingTransactions(ok) ==
    list' = IF token /\ withSubscribed(ok) THEN Rows ELSE NoTransactions

\* Promise.all: what fails leaves what the others have set.
LoadAll(ok) ==
    IF ~token THEN list' = NoTransactions /\ UNCHANGED <<token, me>>
    ELSE /\ loadPendingTransactions(TRUE) \/ loadPendingTransactions(ok)
         /\ \/ me' = Member /\ UNCHANGED token
            \/ ~ok /\ me' = "none" /\ token' = FALSE

loadSession(ok) ==
    IF ~token THEN UNCHANGED <<token, me, list>>
    ELSE IF ok THEN me' = Member /\ UNCHANGED <<token, list>>
    ELSE clearAuthState

loadActiveGroup(ok) == IF token /\ ok THEN round' \in Rounds ELSE round' = "nogroup"
loadProposals == round' = round \/ (round # "nogroup" /\ round' \in Rounds \ {"nogroup"})

\* The application is for subscribed members; the others are sent to the login page.
SignedInOnly(m)   == m # "none"
SubscribedOnly(m) == m = "subscribed"

boot ==
    \/ /\ page.at = "session"
       /\ \E m \in IF token THEN {"none", Member} ELSE {"none"} :
             /\ token' = (m # "none")
             /\ IF page.name = "app" /\ ~SubscribedOnly(m)
                THEN Navigate("login")
                ELSE /\ page' = [page EXCEPT !.at = "rest"] /\ me' = m
                     /\ UNCHANGED <<wallet, round, list, job, tracker>>
       /\ UNCHANGED server
    \/ /\ page.at = "rest"
       /\ page' = [page EXCEPT !.at = "shown"]
       /\ \E ok \in BOOLEAN : loadPendingTransactions(ok) /\ loadActiveGroup(ok)
       /\ UNCHANGED <<token, me, wallet, job, tracker, server>>
-----------------------------------------------------------------------------
(* Signing in and out. *)

membershipLandingPath == IF subscribed THEN "app" ELSE "login"

onWalletAuthenticate ==
    /\ page.at = "shown" /\ me = "none"
    /\ token' = TRUE /\ Navigate(membershipLandingPath)
    /\ UNCHANGED server

logoutAndRedirect ==
    /\ page.at = "shown" /\ me # "none"
    /\ token' = FALSE /\ Navigate("login")
    /\ UNCHANGED server

\* The address bar and the links between the pages.
Visit(p) == page.at = "shown" /\ Navigate(p) /\ UNCHANGED <<token, server>>

connectWallet ==
    /\ page.at = "shown" /\ ~wallet
    /\ wallet' = TRUE
    /\ UNCHANGED <<page, token, job, copies, tracker, server>>
-----------------------------------------------------------------------------
(* What is offered.  The tabs lead to every page, whatever the stage.      *)

renderSubscriptionGate == IF wallet THEN {"subscribe"} ELSE {}
renderLoggedInGateway  == IF me = "in" THEN renderSubscriptionGate ELSE {}
renderTopNav           == {"claimFaucet"}
renderGroupPanel       == IF round = "nogroup" THEN {} ELSE {"switchGroup"}
renderGroupScreen ==
    {"createGroup", "joinGroup"} \cup
    (IF round = "nogroup" THEN {} ELSE {"switchGroup", "leaveGroup"})
renderMemberScreen == renderSubscriptionGate \cup {"claimTickets"} \cup renderGroupScreen

renderTransactionTracker == {"register"}
renderRecordsPage        == renderTransactionTracker

renderAdminControls ==
    IF round \in {"proposing", "voting", "ordering"} THEN {"advance"} ELSE {}
renderAddOptionForm == {"addOption"}
renderCreateProposalForm ==
    CASE round = "proposing" -> renderAddOptionForm
      [] round = "none" -> {"createProposal"}
      [] OTHER -> {}
renderProposalStagePage == renderAdminControls \cup renderCreateProposalForm
renderVotingStagePage ==
    renderAdminControls \cup (IF round = "voted" THEN {} ELSE {"vote"})
renderInlineMenu  == {"placeOrder"}
renderRewardClaim == {"claimReward"}
renderOrderPanel ==
    renderAdminControls \cup
    (CASE round = "ordering" -> renderInlineMenu \cup {"cancelOrder"}
       [] round = "settled" -> renderRewardClaim
       [] OTHER -> {})
renderEmptyStagePage == renderCreateProposalForm
renderStagePage == renderProposalStagePage \cup renderVotingStagePage \cup renderOrderPanel
renderStageStandalonePage ==
    CASE round = "nogroup" -> {}
      [] round = "none" -> renderEmptyStagePage
      [] OTHER -> renderStagePage
renderTabContent ==
    renderMemberScreen \cup renderRecordsPage \cup renderStageStandalonePage \cup renderGroupPanel

Offered ==
    IF me = "none" \/ page.at # "shown" THEN {}
    ELSE IF page.name = "login" THEN renderLoggedInGateway
    ELSE renderTopNav \cup renderTabContent
-----------------------------------------------------------------------------
(* The handlers: how each may begin, with a request or, the contracts      *)
(* being usable and the round known to them, in the wallet; and what it    *)
(* reloads once its request is answered.                                   *)

Asks(what)  == [begins |-> {"asked"}, reloads |-> what]
canUseDirectChainMode(handler) ==
    [handler EXCEPT !.begins = IF wallet THEN @ \cup {"wallet"} ELSE @]

onCreateProposal    == Asks({"round"})
onAddOption         == canUseDirectChainMode(Asks({"round"}))
onVoteInline        == canUseDirectChainMode(Asks({"session", "round"}))
onInlineOrderSubmit == canUseDirectChainMode(Asks({"round", "list"}))
onCancelOrder       == canUseDirectChainMode([begins |-> {}, reloads |-> {}])
onClaimReward       == Asks({})
onAdvanceStage      == Asks({"round"})
onCreateGroup       == Asks({"group"})
onJoinGroup         == Asks({"group"})
onSwitchGroup       == Asks({"group"})
onLeaveGroup        == Asks({"group"})
onClaimTickets      == Asks({"member"})
onClaimFaucet       == Asks({})
onRegisterTransaction == [begins |-> {"register"}, reloads |-> {}]
onPaySubscription   == canUseDirectChainMode(Asks({}))

bindUI(act) ==
    CASE act = "createProposal" -> onCreateProposal
      [] act = "addOption" -> onAddOption
      [] act = "vote" -> onVoteInline
      [] act = "placeOrder" -> onInlineOrderSubmit
      [] act = "cancelOrder" -> onCancelOrder
      [] act = "claimReward" -> onClaimReward
      [] act = "advance" -> onAdvanceStage
      [] act = "createGroup" -> onCreateGroup
      [] act = "joinGroup" -> onJoinGroup
      [] act = "switchGroup" -> onSwitchGroup
      [] act = "leaveGroup" -> onLeaveGroup
      [] act = "claimTickets" -> onClaimTickets
      [] act = "claimFaucet" -> onClaimFaucet
      [] act = "register" -> onRegisterTransaction
      [] act = "subscribe" -> onPaySubscription

\* The form of the tracker takes any transaction under any action.
Click(act) ==
    /\ act \in Offered /\ job = NoJob
    /\ \E at \in bindUI(act).begins :
       \E t \in IF at = "register" THEN {u \in Txs : tx[u].sent} ELSE {"none"} :
       \E fits \in IF at = "register" THEN BOOLEAN ELSE {TRUE} :
          job' = [at |-> at, pays |-> act = "subscribe", tx |-> t, fits |-> fits,
                  reloads |-> IF at = "asked" THEN bindUI(act).reloads ELSE {}]
    /\ UNCHANGED <<page, token, wallet, copies, tracker, server>>

\* The server has charged the subscription, perhaps more than once: a request that is
\* not answered in time is sent to the next address.
Charged ==
    /\ job.at = "asked" /\ job.pays /\ subscribed' = TRUE
    /\ UNCHANGED <<page, token, wallet, job, copies, tracker, tx>>

\* The answer: the handler reloads what it has changed.
Answered ==
    /\ job.at = "asked" /\ ~job.pays
    /\ \E ok \in BOOLEAN :
          /\ IF "session" \in job.reloads THEN loadSession(ok)
             ELSE IF "member" \in job.reloads
             THEN me' \in (IF ok THEN {Member} ELSE {me}) /\ UNCHANGED <<token, list>>
             ELSE IF "list" \in job.reloads
             THEN loadPendingTransactions(ok) /\ UNCHANGED <<token, me>>
             ELSE UNCHANGED <<token, me, list>>
          /\ CASE "group" \in job.reloads -> loadActiveGroup(ok)
               [] "round" \in job.reloads -> loadProposals
               [] OTHER -> UNCHANGED round
    /\ job' = NoJob /\ Stay /\ UNCHANGED <<tracker, server>>

\* A subscription that is charged leads to the application, whatever the session says.
onSubscribe ==
    /\ job.at = "asked" /\ job.pays /\ subscribed
    /\ token' \in {token, FALSE} /\ Navigate("app")
    /\ UNCHANGED server

\* Nothing answered at any address, a refusal, or a wallet that declines.
Fails ==
    /\ job # NoJob /\ job' = NoJob
    /\ UNCHANGED <<page, token, wallet, copies, tracker, server>>

\* The account in the wallet need not be the one this member has signed in with.
Sends(t) ==
    /\ job.at = "wallet" /\ ~tx[t].sent
    /\ \E own \in BOOLEAN :
          tx' = [tx EXCEPT ![t].sent = TRUE, ![t].pays = job.pays /\ own]
    /\ job' = [job EXCEPT !.at = "register", !.tx = t]
    /\ UNCHANGED <<page, token, wallet, copies, tracker, subscribed>>

\* An event that is applied confirms the row that is there under its action, and
\* credits the member of the account that paid.
Confirms(t) ==
    /\ tx[t].sent /\ ~tx[t].applied
    /\ tx' = [tx EXCEPT ![t].applied = TRUE, ![t].pays = FALSE, ![t].fits = FALSE,
                        ![t].row = IF @ = "pending" /\ tx[t].fits THEN "confirmed" ELSE @]
    /\ subscribed' = (subscribed \/ tx[t].pays)
    /\ UNCHANGED <<page, token, wallet, job, copies, tracker>>
-----------------------------------------------------------------------------
(* The tracker. *)

\* A row that is there gets the new action and keeps its status.  Without a
\* subscription the request is refused (Fails), after the wallet has paid as well.
RegisterTransaction ==
    /\ job.at = "register" /\ withSubscribed(TRUE)
    /\ tx' = [tx EXCEPT ![job.tx].row = IF @ = "absent" THEN "pending" ELSE @,
                        ![job.tx].fits = job.fits /\ ~tx[job.tx].applied]
    /\ job' = [job EXCEPT !.at = "track"]
    /\ UNCHANGED <<page, token, wallet, copies, tracker, subscribed>>

registerAndTrackTransaction ==
    /\ job.at = "track"
    /\ \E ok \in BOOLEAN : loadPendingTransactions(ok)
    /\ poll' = [poll EXCEPT ![job.tx] = MaxPolls]
    /\ job' = NoJob /\ UNCHANGED <<page, token, wallet, me, round, refresh, settled, server>>

AllPending  == \A t \in Txs : list[t] = "pending"
SomePending == \E t \in Txs : list[t] = "pending"

startPendingTransactionPolling ==
    /\ page.at = "shown" /\ refresh = "idle"
    /\ token /\ SomePending
    /\ refresh' = "list"
    /\ UNCHANGED <<page, token, wallet, job, copies, poll, settled, server>>

watchWalletReceipt(t) ==
    /\ poll[t] > 0 /\ refresh = "idle" /\ refresh' = "list"
    /\ UNCHANGED <<page, token, wallet, job, copies, poll, settled, server>>

SomeConfirmed == \E t \in Txs : list'[t] = "confirmed"

refreshPendingTransactions ==
    /\ refresh = "list"
    /\ \E ok \in BOOLEAN : loadPendingTransactions(ok)
    /\ refresh' = IF SomeConfirmed THEN "rest" ELSE "idle"
    /\ Stay /\ UNCHANGED <<token, me, round, job, poll, settled, server>>

refreshTheRest ==
    /\ refresh = "rest"
    /\ \E ok \in BOOLEAN :
          IF token /\ ok /\ page.name = "login" /\ Member = "subscribed"
          THEN Navigate("app") /\ UNCHANGED token
          ELSE /\ loadSession(ok) \/ loadSession(TRUE)
               /\ loadProposals /\ refresh' = "idle" /\ Stay /\ UNCHANGED <<job, poll, settled>>
    /\ UNCHANGED server

AndOneMore(t)    == poll[t] >= 0
QuestionsLeft(t) == poll[t] > 0

\* A question that fails ends the poll; so does the last one.
pollTransactionUntilSettled(t) ==
    /\ QuestionsLeft(t)
    /\ \E ok \in BOOLEAN :
          /\ settled' = IF withSubscribed(ok) /\ tx[t].row # "pending"
                        THEN settled \cup {t} ELSE settled
          /\ poll' = [poll EXCEPT ![t] = IF withSubscribed(ok) /\ tx[t].row = "pending"
                                         THEN @ - 1 ELSE 0]
    /\ UNCHANGED <<page, token, wallet, job, me, round, list, refresh, server>>

pollSettled(t) ==
    /\ t \in settled
    /\ \E ok \in BOOLEAN :
          IF token /\ ok /\ page.name = "login" /\ Member = "subscribed"
          THEN Navigate("app") /\ UNCHANGED token
          ELSE /\ LoadAll(ok) /\ loadProposals
               /\ settled' = settled \ {t}
               /\ Stay /\ UNCHANGED <<job, refresh, poll>>
    /\ UNCHANGED server
-----------------------------------------------------------------------------
Init ==
    /\ page \in [name : {"login", "app"}, at : {"session"}]
    /\ token \in BOOLEAN /\ me = "none" /\ wallet = FALSE /\ round = "nogroup"
    /\ list = NoTransactions /\ job = NoJob
    /\ refresh = "idle" /\ poll = [t \in Txs |-> 0] /\ settled = {}
    /\ subscribed \in BOOLEAN
    /\ tx = [t \in Txs |-> [sent |-> FALSE, pays |-> FALSE, applied |-> FALSE,
                             row |-> "absent", fits |-> FALSE]]

Handlers == Charged \/ Answered \/ onSubscribe \/ Fails \/ \E t \in Txs : Sends(t)
Tracker ==
    \/ RegisterTransaction \/ registerAndTrackTransaction
    \/ refreshPendingTransactions \/ refreshTheRest
    \/ \E t \in Txs : pollTransactionUntilSettled(t) \/ pollSettled(t)

Next ==
    \/ boot \/ onWalletAuthenticate \/ logoutAndRedirect \/ connectWallet
    \/ \E p \in {"login", "app"} : Visit(p)
    \/ \E act \in Offered : Click(act)
    \/ Handlers \/ Tracker \/ startPendingTransactionPolling
    \/ \E t \in Txs : Confirms(t) \/ watchWalletReceipt(t)

\* Requests are answered or given up, and the timer fires; nobody has to click, and
\* no event has to be projected.
Fairness ==
    /\ WF_vars(boot) /\ WF_vars(startPendingTransactionPolling)
    /\ WF_vars(refreshPendingTransactions) /\ WF_vars(refreshTheRest)
    /\ \A t \in Txs : WF_vars(pollTransactionUntilSettled(t)) /\ WF_vars(pollSettled(t))

Spec == Init /\ [][Next]_vars /\ Fairness
-----------------------------------------------------------------------------
TypeOK ==
    /\ me \in {"none", "in", "subscribed"} /\ round \in Rounds
    /\ poll \in [Txs -> 0 .. MaxPolls] /\ settled \subseteq Txs
    /\ refresh \in {"idle", "list", "rest"}
    /\ \A t \in Txs : tx[t].row = "confirmed" => tx[t].applied

\* Nobody is shown the application who has not paid for it, by a charge that was
\* answered or by an event that was projected.
InsideHasPaid == Shown("app") /\ me # "none" => subscribed

\* A transaction shown as pending that is confirmed does not stay so: whatever polls
\* have given up, the timer goes on.  A reload that fails empties the list
\* (main.js:505): nothing is shown then, and the timer has nothing left to follow.
Behind(t) == list[t] = "pending" /\ tx[t].row = "confirmed"
TrackerCatchesUp ==
    (token /\ \E t \in Txs : Behind(t)) ~> ~(token /\ \E t \in Txs : Behind(t))
=============================================================================
