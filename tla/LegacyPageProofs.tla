--------------------------- MODULE LegacyPageProofs ---------------------------
(***************************************************************************)
(* Proofs about LegacyPage: its types, that nobody is inside the           *)
(* application who has not paid, and that no transaction is shown as       *)
(* confirmed whose event was not projected.                                *)
(***************************************************************************)
EXTENDS LegacyPage, TLAPS

(***************************************************************************)
(* What the parts of the state range over.                                 *)
(***************************************************************************)
Pages  == [name : {"login", "app"}, at : {"session", "rest", "shown"}]
Marks  == {"absent", "pending", "confirmed"}
Places == {"none", "asked", "wallet", "register", "track"}
Parts  == {"session", "member", "group", "round", "list"}

Handlings == [at : Places, pays : BOOLEAN, fits : BOOLEAN, reloads : SUBSET Parts,
              tx : Txs \cup {"none"}]
TxRows    == [sent : BOOLEAN, pays : BOOLEAN, applied : BOOLEAN, row : Marks, fits : BOOLEAN]

(***************************************************************************)
(* A copy of the member, and of the transactions, is no better than what   *)
(* the server has: who has paid stays a member, and a confirmed row stays  *)
(* confirmed.                                                              *)
(***************************************************************************)
MemberOK(m) == m \in {"none", "in", "subscribed"} /\ (m = "subscribed" => subscribed)
ListOK(l) ==
    /\ l \in [Txs -> Marks]
    /\ \A t \in Txs : l[t] = "confirmed" => tx[t].row = "confirmed"

ServerInv ==
    /\ subscribed \in BOOLEAN /\ tx \in [Txs -> TxRows]
    /\ \A t \in Txs : tx[t].row = "confirmed" => tx[t].applied
CopiesInv == MemberOK(me) /\ ListOK(list) /\ round \in Rounds
JobInv    == job \in Handlings /\ (job.at \in {"register", "track"} => job.tx \in Txs)
TrackerInv ==
    /\ poll \in [Txs -> 0 .. MaxPolls] /\ settled \subseteq Txs
    /\ refresh \in {"idle", "list", "rest"}

(***************************************************************************)
(* The application goes on booting, and is shown, only for who has paid:   *)
(* a page that is left begins again with the session.                      *)
(***************************************************************************)
GateInv == page \in Pages /\ (page.name = "app" /\ page.at # "session" => subscribed)

(***************************************************************************)
(* The inductive invariant.                                                *)
(***************************************************************************)
LegacyInv == ServerInv /\ CopiesInv /\ JobInv /\ TrackerInv /\ GateInv

-----------------------------------------------------------------------------
(***************************************************************************)
(* What the server answers about the member and the transactions.          *)
(***************************************************************************)
LEMMA AnswersHold ==
  ASSUME ServerInv
  PROVE  /\ MemberOK(Member) /\ MemberOK("none")
         /\ Member = "subscribed" <=> subscribed
         /\ ListOK(Rows) /\ ListOK(NoTransactions)
  BY DEF ServerInv, MemberOK, ListOK, Member, Rows, NoTransactions, TxRows, Marks

(***************************************************************************)
(* The loaders leave copies that the server stands for.                    *)
(***************************************************************************)
LEMMA LoadersHold ==
  ASSUME ServerInv, CopiesInv, NEW ok \in BOOLEAN
  PROVE  /\ loadSession(ok) => MemberOK(me') /\ ListOK(list')
         /\ LoadAll(ok) => MemberOK(me') /\ ListOK(list')
         /\ loadPendingTransactions(ok) => ListOK(list')
         /\ loadActiveGroup(ok) => round' \in Rounds
         /\ loadProposals => round' \in Rounds
  <1>1. MemberOK(Member) /\ MemberOK("none") /\ ListOK(Rows) /\ ListOK(NoTransactions)
    BY AnswersHold
  <1>2. MemberOK(me) /\ ListOK(list) /\ round \in Rounds /\ "nogroup" \in Rounds
    BY LegacyConstants DEF CopiesInv
  <1>7. ASSUME NEW sure \in BOOLEAN PROVE loadPendingTransactions(sure) => ListOK(list')
    BY <1>1 DEF loadPendingTransactions
  <1>3. ASSUME loadSession(ok) PROVE MemberOK(me') /\ ListOK(list')
    BY <1>1, <1>2, <1>3, Zenon DEF loadSession, clearAuthState
  <1>4. ASSUME LoadAll(ok) PROVE MemberOK(me') /\ ListOK(list')
    <2>1. me' \in {me, Member, "none"}
      BY <1>4 DEF LoadAll
    <2>2. \/ list' = NoTransactions \/ loadPendingTransactions(TRUE)
          \/ loadPendingTransactions(ok)
      BY <1>4, Zenon DEF LoadAll
    <2>3. TRUE \in BOOLEAN
      OBVIOUS
    <2> QED
      BY <1>1, <1>2, <1>7, <2>1, <2>2, <2>3
  <1>5. loadPendingTransactions(ok) => ListOK(list')
    BY <1>7
  <1>6. (loadActiveGroup(ok) => round' \in Rounds) /\ (loadProposals => round' \in Rounds)
    BY <1>2 DEF loadActiveGroup, loadProposals
  <1> QED
    BY <1>3, <1>4, <1>5, <1>6

(***************************************************************************)
(* Copies the server stands for still are so while it does not change.     *)
(***************************************************************************)
LEMMA CopiesStay ==
  ASSUME ServerInv, MemberOK(me'), ListOK(list'), round' \in Rounds, UNCHANGED server
  PROVE  ServerInv' /\ CopiesInv'
  BY DEF ServerInv, CopiesInv, MemberOK, ListOK, server

(***************************************************************************)
(* A page that is left takes all it held with it.                          *)
(***************************************************************************)
LEMMA NavigateKeeps ==
  ASSUME ServerInv, NEW p \in {"login", "app"}, Navigate(p), UNCHANGED server
  PROVE  LegacyInv'
  <1>1. ServerInv' /\ CopiesInv'
    <2>1. MemberOK(me') /\ ListOK(list') /\ round' \in Rounds
      BY AnswersHold, LegacyConstants DEF Navigate, NoTransactions
    <2> QED
      BY <2>1, CopiesStay
  <1>2. JobInv'
    BY DEF Navigate, JobInv, NoJob, Handlings, Places
  <1>3. TrackerInv'
    BY LegacyConstants DEF Navigate, TrackerInv
  <1>4. GateInv'
    BY DEF Navigate, GateInv, Pages
  <1> QED
    BY <1>1, <1>2, <1>3, <1>4 DEF LegacyInv

(***************************************************************************)
(* A step that stays on the page and changes nothing of the server.        *)
(***************************************************************************)
LEMMA StayKeeps ==
  ASSUME LegacyInv, MemberOK(me'), ListOK(list'), round' \in Rounds,
         UNCHANGED <<page, server>>, JobInv', TrackerInv'
  PROVE  LegacyInv'
  <1>1. ServerInv' /\ CopiesInv'
    BY CopiesStay DEF LegacyInv
  <1>2. GateInv'
    BY DEF LegacyInv, GateInv, server
  <1> QED
    BY <1>1, <1>2 DEF LegacyInv

-----------------------------------------------------------------------------
(***************************************************************************)
(* A page loads: it goes on only for whom it is open to.                   *)
(***************************************************************************)
LEMMA BootKeeps ==
  ASSUME LegacyInv, boot PROVE LegacyInv'
  <1>1. /\ ServerInv /\ CopiesInv /\ JobInv /\ TrackerInv /\ GateInv /\ UNCHANGED server
        /\ page \in Pages
    BY DEF LegacyInv, boot, GateInv
  <1>2. CASE page.at = "session"
    <2>1. PICK m \in {"none", Member} :
             IF page.name = "app" /\ ~SubscribedOnly(m)
             THEN Navigate("login")
             ELSE /\ page' = [page EXCEPT !.at = "rest"] /\ me' = m
                  /\ UNCHANGED <<wallet, round, list, job, tracker>>
      BY <1>2 DEF boot
    <2>2. CASE page.name = "app" /\ ~SubscribedOnly(m)
      BY <1>1, <2>1, <2>2, NavigateKeeps
    <2>3. CASE ~(page.name = "app" /\ ~SubscribedOnly(m))
      <3>1. /\ page' = [page EXCEPT !.at = "rest"] /\ me' = m
            /\ UNCHANGED <<round, list, job, tracker>>
        BY <2>1, <2>3
      <3>2. MemberOK(m) /\ ListOK(list) /\ round \in Rounds
        BY <1>1, AnswersHold DEF CopiesInv
      <3>3. ServerInv' /\ CopiesInv'
        BY <1>1, <3>1, <3>2, CopiesStay
      <3>4. JobInv' /\ TrackerInv'
        BY <1>1, <3>1 DEF JobInv, TrackerInv, tracker
      <3>5. page.name = "app" => subscribed
        BY <2>3, <3>2 DEF SubscribedOnly, MemberOK
      <3>6. GateInv'
        BY <1>1, <3>1, <3>5 DEF GateInv, Pages, server
      <3> QED
        BY <3>3, <3>4, <3>6 DEF LegacyInv
    <2> QED
      BY <2>2, <2>3
  <1>3. CASE page.at = "rest"
    <2>1. /\ page' = [page EXCEPT !.at = "shown"] /\ UNCHANGED <<me, job, tracker>>
          /\ \E ok \in BOOLEAN : loadPendingTransactions(ok) /\ loadActiveGroup(ok)
      BY <1>1, <1>3 DEF boot
    <2>2. MemberOK(me') /\ ListOK(list') /\ round' \in Rounds
      BY <1>1, <2>1, LoadersHold DEF CopiesInv
    <2>3. ServerInv' /\ CopiesInv'
      BY <1>1, <2>2, CopiesStay
    <2>4. JobInv' /\ TrackerInv'
      BY <1>1, <2>1 DEF JobInv, TrackerInv, tracker
    <2>5. GateInv'
      BY <1>1, <1>3, <2>1 DEF GateInv, Pages, server
    <2> QED
      BY <2>3, <2>4, <2>5 DEF LegacyInv
  <1> QED
    BY <1>2, <1>3 DEF boot

(***************************************************************************)
(* Signing in and out, links, and the wallet's connection.                 *)
(***************************************************************************)
LEMMA VisitsKeep ==
  ASSUME LegacyInv,
         \/ onWalletAuthenticate \/ logoutAndRedirect \/ connectWallet
         \/ \E p \in {"login", "app"} : Visit(p)
  PROVE  LegacyInv'
  <1>1. ServerInv /\ membershipLandingPath \in {"login", "app"}
    BY DEF LegacyInv, membershipLandingPath
  <1>2. CASE onWalletAuthenticate \/ logoutAndRedirect \/ \E p \in {"login", "app"} : Visit(p)
    <2>1. PICK p \in {"login", "app"} : Navigate(p) /\ UNCHANGED server
      BY <1>1, <1>2 DEF onWalletAuthenticate, logoutAndRedirect, Visit
    <2> QED
      BY <1>1, <2>1, NavigateKeeps
  <1>3. CASE connectWallet
    BY <1>3 DEF connectWallet, copies, tracker, server, LegacyInv, ServerInv, CopiesInv,
         MemberOK, ListOK, JobInv, TrackerInv, GateInv
  <1> QED
    BY <1>2, <1>3

-----------------------------------------------------------------------------
(***************************************************************************)
(* The controls of the pages.                                              *)
(***************************************************************************)
Controls ==
    {"createProposal", "addOption", "vote", "placeOrder", "cancelOrder", "claimReward",
     "advance", "createGroup", "joinGroup", "switchGroup", "leaveGroup", "claimTickets",
     "claimFaucet", "register", "subscribe"}

\* Nothing else is offered.
LEMMA OfferedAreControls == Offered \subseteq Controls
  <1>1. renderStagePage \subseteq Controls
    BY DEF renderStagePage, renderProposalStagePage, renderVotingStagePage, renderOrderPanel,
         renderAdminControls, renderCreateProposalForm, renderAddOptionForm, renderInlineMenu,
         renderRewardClaim, Controls
  <1>2. renderEmptyStagePage \subseteq Controls
    BY DEF renderEmptyStagePage, renderCreateProposalForm, renderAddOptionForm, Controls
  <1>3. renderStageStandalonePage \subseteq Controls
    BY <1>1, <1>2 DEF renderStageStandalonePage
  <1>4. renderMemberScreen \subseteq Controls
    BY DEF renderMemberScreen, renderSubscriptionGate, renderGroupScreen, Controls
  <1>5. renderTabContent \subseteq Controls
    BY <1>3, <1>4 DEF renderTabContent, renderRecordsPage, renderTransactionTracker,
         renderGroupPanel, Controls
  <1>6. renderTopNav \subseteq Controls /\ renderLoggedInGateway \subseteq Controls
    BY DEF renderTopNav, renderLoggedInGateway, renderSubscriptionGate, Controls
  <1> QED
    BY <1>5, <1>6 DEF Offered

(***************************************************************************)
(* How a handler begins, and what it reloads.                              *)
(***************************************************************************)
HandlerRows == [begins : SUBSET {"asked", "wallet", "register"}, reloads : SUBSET Parts]

LEMMA WalletTyped ==
  ASSUME NEW h \in HandlerRows PROVE canUseDirectChainMode(h) \in HandlerRows
  BY DEF HandlerRows, canUseDirectChainMode

LEMMA HandlersTyped ==
  ASSUME NEW act \in Controls PROVE bindUI(act) \in HandlerRows
  <1>1. \A what \in SUBSET Parts : Asks(what) \in HandlerRows
    BY DEF Asks, HandlerRows
  <1>2. /\ {} \in SUBSET Parts /\ {"round"} \in SUBSET Parts /\ {"group"} \in SUBSET Parts
        /\ {"member"} \in SUBSET Parts
        /\ {"session", "round"} \in SUBSET Parts /\ {"round", "list"} \in SUBSET Parts
    BY DEF Parts
  <1>3. /\ [begins |-> {}, reloads |-> {}] \in HandlerRows
        /\ [begins |-> {"register"}, reloads |-> {}] \in HandlerRows
    BY DEF HandlerRows
  <1>4. {onCreateProposal, onAddOption, onVoteInline, onInlineOrderSubmit, onCancelOrder,
         onClaimReward, onAdvanceStage, onCreateGroup, onJoinGroup, onSwitchGroup,
         onLeaveGroup, onClaimTickets, onClaimFaucet, onRegisterTransaction,
         onPaySubscription} \subseteq HandlerRows
    BY <1>1, <1>2, <1>3, WalletTyped
       DEF onCreateProposal, onAddOption, onVoteInline, onInlineOrderSubmit, onCancelOrder,
           onClaimReward, onAdvanceStage, onCreateGroup, onJoinGroup, onSwitchGroup,
           onLeaveGroup, onClaimTickets, onClaimFaucet, onRegisterTransaction,
           onPaySubscription
  <1> QED
    BY <1>4 DEF bindUI, Controls

(***************************************************************************)
(* A click begins what its control's handler does; nothing else changes.   *)
(***************************************************************************)
LEMMA ClickKeeps ==
  ASSUME LegacyInv, NEW act \in Offered, Click(act) PROVE LegacyInv'
  <1>1. bindUI(act) \in HandlerRows
    BY OfferedAreControls, HandlersTyped
  <1>2. PICK at \in bindUI(act).begins :
          \E t \in IF at = "register" THEN {u \in Txs : tx[u].sent} ELSE {"none"} :
          \E fits \in IF at = "register" THEN BOOLEAN ELSE {TRUE} :
          job' = [at |-> at, pays |-> act = "subscribe", tx |-> t, fits |-> fits,
                  reloads |-> IF at = "asked" THEN bindUI(act).reloads ELSE {}]
    BY DEF Click
  <1>3. PICK t \in IF at = "register" THEN {u \in Txs : tx[u].sent} ELSE {"none"},
             fits \in IF at = "register" THEN BOOLEAN ELSE {TRUE} :
          job' = [at |-> at, pays |-> act = "subscribe", tx |-> t, fits |-> fits,
                  reloads |-> IF at = "asked" THEN bindUI(act).reloads ELSE {}]
    BY <1>2
  <1>4. JobInv'
    <2>1. /\ at \in {"asked", "wallet", "register"} /\ t \in Txs \cup {"none"}
          /\ at = "register" => t \in Txs
          /\ fits \in BOOLEAN
          /\ bindUI(act).reloads \in SUBSET Parts
      BY <1>1, <1>3 DEF HandlerRows
    <2> QED
      BY <1>3, <2>1 DEF JobInv, Handlings, Places
  <1> QED
    BY <1>4 DEF Click, copies, tracker, server, LegacyInv, ServerInv, CopiesInv,
         MemberOK, ListOK, TrackerInv, GateInv

-----------------------------------------------------------------------------
(***************************************************************************)
(* The server moves: a charge, a transaction that is sent, an event that   *)
(* is projected, a registration.  What copies show stays true.             *)
(***************************************************************************)
ServerMoves ==
    /\ subscribed' \in BOOLEAN /\ (subscribed => subscribed')
    /\ tx' \in [Txs -> TxRows]
    /\ \A t \in Txs : /\ tx'[t].row = "confirmed" => tx'[t].applied
                      /\ tx[t].row = "confirmed" => tx'[t].row = "confirmed"

LEMMA MovesKeep ==
  ASSUME LegacyInv, ServerMoves, UNCHANGED <<page, copies, tracker>>, JobInv'
  PROVE  LegacyInv'
  <1>1. ServerInv'
    BY DEF ServerMoves, ServerInv
  <1>2. CopiesInv'
    <2>1. MemberOK(me) /\ ListOK(list) /\ round \in Rounds
      BY DEF LegacyInv, CopiesInv
    <2>2. MemberOK(me)' /\ ListOK(list)' /\ round' \in Rounds
      BY <2>1 DEF ServerMoves, MemberOK, ListOK, copies
    <2> QED
      BY <2>2 DEF CopiesInv
  <1>3. TrackerInv' /\ GateInv'
    BY DEF LegacyInv, ServerMoves, TrackerInv, GateInv, tracker
  <1> QED
    BY <1>1, <1>2, <1>3 DEF LegacyInv

\* The server charges.
LEMMA ChargedKeeps ==
  ASSUME LegacyInv, Charged PROVE LegacyInv'
  <1>1. ServerMoves /\ UNCHANGED <<page, copies, tracker>> /\ job' = job
    BY DEF Charged, ServerMoves, LegacyInv, ServerInv
  <1> QED
    BY <1>1, MovesKeep DEF LegacyInv, JobInv

\* The wallet sends.
LEMMA SendsKeeps ==
  ASSUME LegacyInv, NEW t \in Txs, Sends(t) PROVE LegacyInv'
  <1>0. PICK own \in BOOLEAN :
          tx' = [tx EXCEPT ![t].sent = TRUE, ![t].pays = job.pays /\ own]
    BY DEF Sends
  <1>1. /\ job' = [job EXCEPT !.at = "register", !.tx = t]
        /\ subscribed' = subscribed /\ UNCHANGED <<page, copies, tracker>>
        /\ ServerInv /\ JobInv
    BY DEF Sends, LegacyInv
  <1>2. PICK paid \in BOOLEAN : tx' = [tx EXCEPT ![t].sent = TRUE, ![t].pays = paid]
    BY <1>0
  <1>3. ServerMoves
    <2>1. tx[t] \in TxRows /\ tx' = [tx EXCEPT ![t] = tx'[t]]
          /\ tx'[t] = [tx[t] EXCEPT !.sent = TRUE, !.pays = paid]
      BY <1>1, <1>2 DEF ServerInv
    <2>2. tx'[t] \in TxRows /\ tx'[t].row = tx[t].row /\ tx'[t].applied = tx[t].applied
      BY <2>1 DEF TxRows
    <2> QED
      BY <1>1, <2>1, <2>2 DEF ServerMoves, ServerInv
  <1>4. JobInv'
    BY <1>1 DEF JobInv, Handlings, Places
  <1> QED
    BY <1>1, <1>3, <1>4, MovesKeep

\* An event is projected.
LEMMA ConfirmsKeeps ==
  ASSUME LegacyInv, NEW t \in Txs, Confirms(t) PROVE LegacyInv'
  <1>1. /\ tx' = [tx EXCEPT ![t].applied = TRUE, ![t].pays = FALSE, ![t].fits = FALSE,
                            ![t].row = IF tx[t].row = "pending" /\ tx[t].fits
                                       THEN "confirmed" ELSE tx[t].row]
        /\ subscribed' = (subscribed \/ tx[t].pays)
        /\ UNCHANGED <<page, job, copies, tracker>>
        /\ ServerInv /\ JobInv
    BY DEF Confirms, LegacyInv
  <1>2. tx[t] \in TxRows /\ "confirmed" \in Marks
    BY <1>1 DEF ServerInv, Marks
  <1>3. subscribed' \in BOOLEAN /\ (subscribed => subscribed')
    BY <1>1, <1>2 DEF ServerInv, TxRows
  <1>4. /\ tx' \in [Txs -> TxRows] /\ tx'[t].applied
        /\ tx[t].row = "confirmed" => tx'[t].row = "confirmed"
        /\ \A u \in Txs \ {t} : tx'[u] = tx[u]
    BY <1>1, <1>2 DEF ServerInv, TxRows
  <1>5. ServerMoves
    BY <1>1, <1>3, <1>4 DEF ServerMoves, ServerInv
  <1> QED
    BY <1>1, <1>5, MovesKeep DEF JobInv

\* The row is inserted.
LEMMA RegisterKeeps ==
  ASSUME LegacyInv, RegisterTransaction PROVE LegacyInv'
  <1>1. /\ tx' = [tx EXCEPT ![job.tx].row =
                     IF tx[job.tx].row = "absent" THEN "pending" ELSE tx[job.tx].row,
                   ![job.tx].fits = job.fits /\ ~tx[job.tx].applied]
        /\ job.at = "register" /\ job' = [job EXCEPT !.at = "track"]
        /\ subscribed' = subscribed /\ UNCHANGED <<page, copies, tracker>>
        /\ ServerInv /\ JobInv
    BY DEF RegisterTransaction, LegacyInv
  <1>2. job.tx \in Txs /\ tx[job.tx] \in TxRows
    BY <1>1 DEF JobInv, ServerInv
  <1>3. ServerMoves
    BY <1>1, <1>2 DEF ServerMoves, ServerInv, TxRows, Marks
  <1>4. JobInv'
    BY <1>1, <1>2 DEF JobInv, Handlings, Places
  <1> QED
    BY <1>1, <1>3, <1>4, MovesKeep

-----------------------------------------------------------------------------
(***************************************************************************)
(* A click is answered, or fails.                                          *)
(***************************************************************************)
LEMMA NoJobTyped ==
  ASSUME job' = NoJob PROVE JobInv'
  BY DEF JobInv, NoJob, Handlings, Places

LEMMA AnsweredKeeps ==
  ASSUME LegacyInv, Answered \/ Fails PROVE LegacyInv'
  <1>1. /\ ServerInv /\ CopiesInv /\ TrackerInv
        /\ MemberOK(me) /\ ListOK(list) /\ round \in Rounds
    BY DEF LegacyInv, CopiesInv
  <1>2. /\ job' = NoJob /\ UNCHANGED <<page, tracker, server>>
    BY DEF Answered, Fails, Stay
  <1>3. JobInv' /\ TrackerInv'
    BY <1>1, <1>2, NoJobTyped DEF TrackerInv, tracker
  <1>4. MemberOK(me') /\ ListOK(list') /\ round' \in Rounds
    <2>1. CASE Answered
      <3>1. PICK ok \in BOOLEAN :
              /\ IF "session" \in job.reloads THEN loadSession(ok)
                 ELSE IF "member" \in job.reloads
                 THEN me' \in (IF ok THEN {Member} ELSE {me}) /\ UNCHANGED <<token, list>>
                 ELSE IF "list" \in job.reloads
                 THEN loadPendingTransactions(ok) /\ UNCHANGED <<token, me>>
                 ELSE UNCHANGED <<token, me, list>>
              /\ CASE "group" \in job.reloads -> loadActiveGroup(ok)
                   [] "round" \in job.reloads -> loadProposals
                   [] OTHER -> UNCHANGED round
        BY <2>1 DEF Answered
      <3>2. MemberOK(me') /\ ListOK(list')
        <4>1. MemberOK(Member)
          BY <1>1, AnswersHold
        <4> QED
          BY <1>1, <3>1, <4>1, LoadersHold
      <3>3. loadActiveGroup(ok) \/ loadProposals \/ round' = round
        BY <3>1
      <3> QED
        BY <1>1, <3>2, <3>3, LoadersHold
    <2>2. CASE Fails
      BY <1>1, <2>2 DEF Fails, copies
    <2> QED
      BY <2>1, <2>2
  <1> QED
    BY <1>2, <1>3, <1>4, StayKeeps

\* A subscription that is charged leads to the application.
LEMMA SubscribeKeeps ==
  ASSUME LegacyInv, onSubscribe PROVE LegacyInv'
  BY NavigateKeeps DEF LegacyInv, onSubscribe

-----------------------------------------------------------------------------
(***************************************************************************)
(* The tracker.                                                            *)
(***************************************************************************)
LEMMA TrackKeeps ==
  ASSUME LegacyInv, registerAndTrackTransaction PROVE LegacyInv'
  <1>1. /\ ServerInv /\ CopiesInv /\ TrackerInv /\ JobInv
        /\ MemberOK(me) /\ round \in Rounds
    BY DEF LegacyInv, CopiesInv
  <1>2. PICK ok \in BOOLEAN : loadPendingTransactions(ok)
    BY DEF registerAndTrackTransaction
  <1>3. /\ job.at = "track" /\ poll' = [poll EXCEPT ![job.tx] = MaxPolls] /\ job' = NoJob
        /\ UNCHANGED <<page, me, round, refresh, settled, server>>
    BY DEF registerAndTrackTransaction
  <1>4. TrackerInv'
    BY <1>1, <1>3, LegacyConstants DEF TrackerInv, JobInv
  <1>5. MemberOK(me') /\ ListOK(list') /\ round' \in Rounds
    BY <1>1, <1>2, <1>3, LoadersHold
  <1> QED
    BY <1>3, <1>4, <1>5, NoJobTyped, StayKeeps

\* The timer and the receipt begin a refresh.
LEMMA TimerKeeps ==
  ASSUME LegacyInv, startPendingTransactionPolling \/ \E t \in Txs : watchWalletReceipt(t)
  PROVE  LegacyInv'
  <1>1. refresh' = "list" /\ UNCHANGED <<page, job, me, round, list, poll, settled, server>>
    <2>1. CASE startPendingTransactionPolling
      BY <2>1 DEF startPendingTransactionPolling, copies
    <2>2. ASSUME NEW t \in Txs, watchWalletReceipt(t)
          PROVE  refresh' = "list" /\ UNCHANGED <<page, job, copies, poll, settled, server>>
      BY <2>2, Zenon DEF watchWalletReceipt
    <2> QED
      BY <2>1, <2>2 DEF copies
  <1>2. MemberOK(me') /\ ListOK(list') /\ round' \in Rounds
    BY <1>1 DEF LegacyInv, CopiesInv
  <1>3. TrackerInv' /\ JobInv'
    BY <1>1 DEF LegacyInv, TrackerInv, JobInv
  <1> QED
    BY <1>1, <1>2, <1>3, StayKeeps

\* A refresh reloads the list, and then the rest.
LEMMA RefreshKeeps ==
  ASSUME LegacyInv, refreshPendingTransactions PROVE LegacyInv'
  <1>1. /\ ServerInv /\ CopiesInv /\ TrackerInv /\ JobInv
        /\ MemberOK(me) /\ round \in Rounds
    BY DEF LegacyInv, CopiesInv
  <1>2. PICK ok \in BOOLEAN : loadPendingTransactions(ok)
    BY DEF refreshPendingTransactions
  <1>3. /\ refresh' \in {"rest", "idle"}
        /\ UNCHANGED <<page, me, round, job, poll, settled, server>>
    BY DEF refreshPendingTransactions, Stay
  <1>4. TrackerInv' /\ JobInv'
    BY <1>1, <1>3 DEF TrackerInv, JobInv
  <1>5. MemberOK(me') /\ ListOK(list') /\ round' \in Rounds
    BY <1>1, <1>2, <1>3, LoadersHold
  <1> QED
    BY <1>3, <1>4, <1>5, StayKeeps

LEMMA RefreshRestKeeps ==
  ASSUME LegacyInv, refreshTheRest PROVE LegacyInv'
  <1>1. ServerInv /\ CopiesInv /\ TrackerInv /\ JobInv /\ UNCHANGED server
    BY DEF LegacyInv, refreshTheRest
  <1>2. CASE Navigate("app")
    BY <1>1, <1>2, NavigateKeeps
  <1>3. CASE ~Navigate("app")
    <2>1. PICK ok \in BOOLEAN :
            /\ loadSession(ok) \/ loadSession(TRUE)
            /\ loadProposals /\ refresh' = "idle" /\ Stay /\ UNCHANGED <<job, poll, settled>>
      BY <1>3 DEF refreshTheRest
    <2>2. MemberOK(me') /\ ListOK(list') /\ round' \in Rounds
      BY <1>1, <2>1, LoadersHold
    <2>3. TrackerInv' /\ JobInv' /\ page' = page
      BY <1>1, <2>1 DEF TrackerInv, JobInv, Stay
    <2> QED
      BY <1>1, <2>2, <2>3, StayKeeps
  <1> QED
    BY <1>2, <1>3

\* A poll asks as often as it may, and reloads what it has found settled.
LEMMA PollKeeps ==
  ASSUME LegacyInv, NEW t \in Txs, pollTransactionUntilSettled(t) PROVE LegacyInv'
  <1>1. /\ ServerInv /\ CopiesInv /\ TrackerInv /\ JobInv
        /\ MemberOK(me) /\ ListOK(list) /\ round \in Rounds
    BY DEF LegacyInv, CopiesInv
  <1>2. PICK ok \in BOOLEAN :
          /\ settled' = IF withSubscribed(ok) /\ tx[t].row # "pending"
                        THEN settled \cup {t} ELSE settled
          /\ poll' = [poll EXCEPT ![t] = IF withSubscribed(ok) /\ tx[t].row = "pending"
                                         THEN poll[t] - 1 ELSE 0]
    BY DEF pollTransactionUntilSettled
  <1>3. /\ poll[t] > 0 /\ UNCHANGED <<page, job, me, round, list, refresh, server>>
    BY DEF pollTransactionUntilSettled, QuestionsLeft
  <1>4. TrackerInv' /\ JobInv'
    BY <1>1, <1>2, <1>3, LegacyConstants DEF TrackerInv, JobInv
  <1> QED
    BY <1>1, <1>3, <1>4, StayKeeps

LEMMA PollSettledKeeps ==
  ASSUME LegacyInv, NEW t \in Txs, pollSettled(t) PROVE LegacyInv'
  <1>1. ServerInv /\ CopiesInv /\ TrackerInv /\ JobInv /\ UNCHANGED server
    BY DEF LegacyInv, pollSettled
  <1>2. CASE Navigate("app")
    BY <1>1, <1>2, NavigateKeeps
  <1>3. CASE ~Navigate("app")
    <2>1. PICK ok \in BOOLEAN :
            /\ LoadAll(ok) /\ loadProposals /\ settled' = settled \ {t}
            /\ Stay /\ UNCHANGED <<job, refresh, poll>>
      BY <1>3 DEF pollSettled
    <2>2. MemberOK(me') /\ ListOK(list') /\ round' \in Rounds
      BY <1>1, <2>1, LoadersHold
    <2>3. TrackerInv' /\ JobInv' /\ page' = page
      BY <1>1, <2>1 DEF TrackerInv, JobInv, Stay
    <2> QED
      BY <1>1, <2>2, <2>3, StayKeeps
  <1> QED
    BY <1>2, <1>3

-----------------------------------------------------------------------------
(***************************************************************************)
(* LegacyInv holds in every reachable state.                               *)
(***************************************************************************)
LEMMA LegacyInvariant == Spec => []LegacyInv
  <1>1. Init => LegacyInv
    <2> SUFFICES ASSUME Init PROVE LegacyInv
      OBVIOUS
    <2>1. ServerInv
      BY DEF Init, ServerInv, TxRows, Marks
    <2>2. CopiesInv
      BY <2>1, AnswersHold, LegacyConstants DEF Init, CopiesInv
    <2>3. JobInv
      BY DEF Init, JobInv, NoJob, Handlings, Places
    <2>4. TrackerInv
      BY LegacyConstants DEF Init, TrackerInv
    <2>5. GateInv
      BY DEF Init, GateInv, Pages
    <2> QED
      BY <2>1, <2>2, <2>3, <2>4, <2>5 DEF LegacyInv
  <1>2. LegacyInv /\ [Next]_vars => LegacyInv'
    <2> SUFFICES ASSUME LegacyInv, [Next]_vars PROVE LegacyInv'
      OBVIOUS
    <2>1. CASE boot
      BY <2>1, BootKeeps
    <2>2. CASE \/ onWalletAuthenticate \/ logoutAndRedirect \/ connectWallet
               \/ \E p \in {"login", "app"} : Visit(p)
      BY <2>2, VisitsKeep
    <2>3. CASE \E act \in Offered : Click(act)
      BY <2>3, ClickKeeps
    <2>4. CASE Handlers
      BY <2>4, ChargedKeeps, AnsweredKeeps, SubscribeKeeps, SendsKeeps DEF Handlers
    <2>5. CASE Tracker
      BY <2>5, RegisterKeeps, TrackKeeps, RefreshKeeps, RefreshRestKeeps, PollKeeps,
         PollSettledKeeps DEF Tracker
    <2>6. CASE startPendingTransactionPolling \/ \E t \in Txs : watchWalletReceipt(t)
      BY <2>6, TimerKeeps
    <2>7. CASE \E t \in Txs : Confirms(t)
      BY <2>7, ConfirmsKeeps
    <2>8. CASE UNCHANGED vars
      BY <2>8 DEF vars, copies, tracker, server, LegacyInv, ServerInv, CopiesInv, JobInv,
           TrackerInv, GateInv, MemberOK, ListOK
    <2> QED
      BY <2>1, <2>2, <2>3, <2>4, <2>5, <2>6, <2>7, <2>8 DEF Next
  <1> QED
    BY <1>1, <1>2, PTL DEF Spec

(***************************************************************************)
(* Types, and that a row is confirmed only by an event that was projected. *)
(***************************************************************************)
THEOREM LegacyTypeCorrect == Spec => []TypeOK
  <1>1. LegacyInv => TypeOK
    BY DEF LegacyInv, ServerInv, CopiesInv, TrackerInv, MemberOK, TypeOK
  <1> QED
    BY <1>1, LegacyInvariant, PTL

(***************************************************************************)
(* The gate of the legacy client (boot, main.js:321): however sessions    *)
(* are dropped, reloaded and redirected, by a handler, the timer, a poll   *)
(* or a link, the application is shown only to who has paid.               *)
(***************************************************************************)
THEOREM InsideAlwaysPaid == Spec => []InsideHasPaid
  <1>1. LegacyInv => InsideHasPaid
    BY DEF LegacyInv, GateInv, InsideHasPaid, Shown
  <1> QED
    BY <1>1, LegacyInvariant, PTL

(***************************************************************************)
(* The tracker shows no transaction as confirmed whose event was not       *)
(* projected, whichever refresh, poll or handler brought the list.         *)
(***************************************************************************)
ShownConfirmed == \A t \in Txs : list[t] = "confirmed" => tx[t].applied

THEOREM ConfirmedIsProjected == Spec => []ShownConfirmed
  <1>1. LegacyInv => ShownConfirmed
    BY DEF LegacyInv, CopiesInv, ListOK, ServerInv, ShownConfirmed
  <1> QED
    BY <1>1, LegacyInvariant, PTL

=============================================================================
