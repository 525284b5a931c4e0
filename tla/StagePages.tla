------------------------------ MODULE StagePages ------------------------------
(***************************************************************************)
(* The pages on which a member creates a round, nominates, withdraws it    *)
(* and votes: the governance board (one page with a tab per stage, which   *)
(* polls the server) and the ordering workspace (a page per stage, a list  *)
(* and a detail, which asks the server when it is opened and after each    *)
(* action).  Both work on the copy of the round their last answered        *)
(* refresh brought; the round itself moves on by its deadlines and by what *)
(* other members do.  What the server does with a request in detail is     *)
(* module ProposalRound; the ordering stage is module OrderDesk.           *)
(*                                                                         *)
(* Bounds: one round at a time; MaxClicks acts of the member, MaxFails     *)
(* requests that fail, MaxPolls background refreshes at once.              *)
(***************************************************************************)
EXTENDS Naturals, FiniteSets

CONSTANTS Me, Others, MaxClicks, MaxFails, MaxPolls

ASSUME StageConstants ==
    Me \notin Others /\ {MaxClicks, MaxFails, MaxPolls} \subseteq Nat

VARIABLES
    round,    \* the round as the server has it
    route,    \* the page the member is on
    loading,  \* its first refresh has not been answered
    busy,     \* actionPending: an action of the page is under way
    copy,     \* the round as the page shows it
    jobs,     \* what pages await
    clicks, fails

vars == <<round, route, loading, busy, copy, jobs, clicks, fails>>

Members == Others \cup {Me}
Timed   == {"proposing", "voting"}
After   == [proposing |-> "voting", voting |-> "ordering"]

\* No round in the list: none was created, or it was deleted.
NoRound == [id |-> 0, stage |-> "none", creator |-> Me, options |-> {}, votes |-> {}]
\* The state of a page whose refresh never succeeded.
Nothing == [NoRound EXCEPT !.stage = "unread"]

NewRound(id, m, first) ==
    [id |-> id, stage |-> "proposing", creator |-> m, options |-> first, votes |-> {}]

Lists   == {"create", "proposals", "voting"}
Details == {"proposal", "vote"}
Routes  == {"governance", "ongoing"} \cup Lists \cup Details

\* What the stage of a workspace page lists; a detail shows it or "not found".
Shows(r) == IF r \in {"voting", "vote"} THEN copy.stage = "voting" ELSE copy.stage = "proposing"

\* The detail a page links to: a list to its own, the page of ongoing orders to
\* the one of the stage it has read.
detailHref == IF route \in {"voting", "ongoing"} /\ copy.stage = "voting" THEN "vote" ELSE "proposal"

Actions == {"create", "option", "delete", "vote"}
Job(kind, at) ==
    [kind |-> kind, at |-> at, live |-> TRUE, from |-> route, n |-> clicks, id |-> copy.id,
     got |-> Nothing]

Resume(j, k) == jobs' = (jobs \ {j}) \cup {k}
End(j)       == jobs' = jobs \ {j}
-----------------------------------------------------------------------------
(* Opening a page: a new component, with its own state and first refresh. *)

OpenPage(r, rest) ==
    /\ route' = r /\ loading' = TRUE /\ busy' = FALSE /\ copy' = Nothing
    /\ jobs' = {[j EXCEPT !.live = FALSE, !.got = Nothing] : j \in {k \in rest : k.kind \in Actions}}
               \cup {[Job("load", "refresh") EXCEPT !.from = r]}

Click == clicks < MaxClicks /\ clicks' = clicks + 1

\* Links: the detail of a listed round, the list of a detail, the stages.
Linked(r) ==
    r \in Details => /\ route \in Lists \cup {"ongoing"} /\ ~loading
                     /\ r = detailHref /\ Shows(r)

FollowLink(r) ==
    /\ r # route /\ Linked(r) /\ Click /\ OpenPage(r, jobs)
    /\ UNCHANGED <<round, fails>>

\* The board refreshes by itself: every 15 seconds, a second after the deadline
\* it has read, and when the tab becomes visible.
polls == {j \in jobs : j.kind = "poll"}
Refresh ==
    \E k \in (1 .. MaxPolls) \ {j.n : j \in polls} :
        jobs' = jobs \cup {[Job("poll", "refresh") EXCEPT !.n = k, !.id = 0]}

TimerOnly ==
    /\ route = "governance" /\ ~loading /\ copy.stage \in Timed /\ copy.stage # round.stage
    /\ Refresh
    /\ UNCHANGED <<round, route, loading, busy, copy, clicks, fails>>

Poll ==
    /\ route = "governance" /\ ~loading /\ Refresh
    /\ UNCHANGED <<round, route, loading, busy, copy, clicks, fails>>
-----------------------------------------------------------------------------
(* What a page offers, and what a click sends. *)

Mine == copy.creator = Me /\ copy.options \subseteq {Me}

\* The groups to choose from came with the copy.
boardCreates     == route = "governance" /\ ~busy /\ copy.stage # "unread"
workspaceCreates == route = "create" /\ ~busy /\ copy.stage # "unread"

boardWithdraws == route = "governance" /\ copy.stage = "proposing" /\ Mine /\ ~busy

canWithdrawProposal == Mine /\ copy.stage = "proposing" /\ copy.votes = {}
\* The button of a list stays live while an action is under way.
WithdrawOffered ==
    \/ boardWithdraws
    \/ /\ canWithdrawProposal
       /\ route \in {"create", "proposals"} \/ (route = "proposal" /\ ~busy)

boardNominates     == route = "governance" /\ copy.stage = "proposing" /\ ~busy
workspaceNominates == route = "proposal" /\ copy.stage = "proposing" /\ ~busy

\* The board takes one vote; the workspace takes them until the deadline.
BoardAlwaysVotes    == route = "governance" /\ copy.stage = "voting"
boardVotes     == route = "governance" /\ copy.stage = "voting" /\ ~busy /\ Me \notin copy.votes
workspaceVotes == route = "vote" /\ copy.stage = "voting" /\ ~busy

\* Until its first refresh has ended a page offers nothing.
PageOpen == ~loading

Send(kind) ==
    /\ PageOpen /\ Click
    /\ busy' = TRUE
    /\ jobs' = jobs \cup {Job(kind, "server")}
    /\ UNCHANGED <<round, route, loading, copy, fails>>

\* Where the workspace goes once an action has succeeded; it goes there even
\* when the member has opened another page meanwhile.
Redirects(j) ==
    (j.kind = "create" /\ j.from # "governance") \/ (j.kind = "delete" /\ j.from = "proposal")
LeadsNowhere(j) == IF ~Redirects(j) THEN route ELSE "create/id"
Leads(j) == IF ~Redirects(j) THEN route
            ELSE IF j.kind = "create" THEN "proposal" ELSE "proposals"

handleCreate    == (boardCreates \/ workspaceCreates) /\ Send("create")
handleDelete    == WithdrawOffered /\ Send("delete")
handleAddOption == (boardNominates \/ workspaceNominates) /\ Send("option")
handleVote      == (boardVotes \/ workspaceVotes) /\ Send("vote")
-----------------------------------------------------------------------------
(* The server. *)

\* A nomination is not tied to a stage; a vote is for an option.
Accepts(j) ==
    /\ j.id = round.id \/ j.kind = "create"
    /\ CASE j.kind = "create" -> round.stage \notin Timed
         [] j.kind = "option" -> round.stage # "none" /\ Me \notin round.options
         [] j.kind = "delete" -> /\ round.stage = "proposing" /\ round.creator = Me
                                 /\ round.options \subseteq {Me} /\ round.votes = {}
         [] j.kind = "vote"   -> round.stage = "voting" /\ round.options # {}

Changes(j) ==
    CASE j.kind = "create" -> \E first \in {{}, {Me}} : round' = NewRound(round.id + 1, Me, first)
      [] j.kind = "option" -> round' = [round EXCEPT !.options = @ \cup {Me}]
      [] j.kind = "delete" -> round' = [NoRound EXCEPT !.id = round.id]
      [] j.kind = "vote"   -> round' = [round EXCEPT !.votes = @ \cup {Me}]

\* Of the refresh that follows an action, the server reads after the action.
ExecutedAfterRead(j) ==
    /\ j.at = "server" /\ Accepts(j) /\ Changes(j)
    /\ Resume(j, [j EXCEPT !.at = "answered", !.got = round])
    /\ UNCHANGED <<route, loading, busy, copy, clicks, fails>>

Executed(j) ==
    /\ j.at = "server" /\ Accepts(j) /\ Changes(j)
    /\ IF j.live \/ Redirects(j) THEN Resume(j, [j EXCEPT !.at = "refresh"]) ELSE End(j)
    /\ UNCHANGED <<route, loading, busy, copy, clicks, fails>>

\* Refused: the copy the member acted on was old.
Refused(j) ==
    /\ j.at = "server" /\ ~Accepts(j)
    /\ Resume(j, [j EXCEPT !.at = "failed"])
    /\ UNCHANGED <<round, route, loading, busy, copy, clicks, fails>>

\* The lists a refresh asks for: the round as it is when the server answers.
Answered(j) ==
    /\ j.at = "refresh"
    /\ Resume(j, [j EXCEPT !.at = "answered", !.got = IF j.live THEN round ELSE Nothing])
    /\ UNCHANGED <<round, route, loading, busy, copy, clicks, fails>>

Lost(j) ==
    /\ j.at \in {"server", "refresh"} /\ fails < MaxFails /\ fails' = fails + 1
    /\ Resume(j, [j EXCEPT !.at = "failed"])
    /\ UNCHANGED <<round, route, loading, busy, copy, clicks>>

\* The deadlines pass, and other members act.
Deadline ==
    /\ round.stage \in Timed /\ round' = [round EXCEPT !.stage = After[@]]
    /\ UNCHANGED <<route, loading, busy, copy, jobs, clicks, fails>>

OtherNominates(m) ==
    /\ round.stage = "proposing" /\ m \notin round.options
    /\ round' = [round EXCEPT !.options = @ \cup {m}]
    /\ UNCHANGED <<route, loading, busy, copy, jobs, clicks, fails>>

OtherVotes(m) ==
    /\ round.stage = "voting" /\ round.options # {} /\ m \notin round.votes
    /\ round' = [round EXCEPT !.votes = @ \cup {m}]
    /\ UNCHANGED <<route, loading, busy, copy, jobs, clicks, fails>>
-----------------------------------------------------------------------------
(* The page takes an answer.  Polls do not touch the flags. *)

Refreshed(j) ==
    /\ j.at = "answered" /\ j.kind \in {"load", "poll"} /\ End(j)
    /\ copy' = j.got
    /\ loading' = (loading /\ j.kind # "load")
    /\ UNCHANGED <<round, route, busy, clicks, fails>>

RefreshFailed(j) ==
    /\ j.at = "failed" /\ j.kind \in {"load", "poll"} /\ End(j)
    /\ loading' = (loading /\ j.kind # "load")
    /\ UNCHANGED <<round, route, busy, copy, clicks, fails>>

ActionDone(j) ==
    /\ j.at = "answered" /\ j.kind \in Actions
    /\ IF Leads(j) # route THEN OpenPage(Leads(j), jobs \ {j})
       ELSE /\ End(j) /\ UNCHANGED <<route, loading>>
            /\ IF j.live THEN copy' = j.got /\ busy' = FALSE ELSE UNCHANGED <<copy, busy>>
    /\ UNCHANGED <<round, clicks, fails>>

\* finally: the flag is cleared whatever failed.
KeepsBusy(j)  == FALSE
ClearsBusy(j) == j.live

ActionFailed(j) ==
    /\ j.at = "failed" /\ j.kind \in Actions /\ End(j)
    /\ busy' = (busy /\ ~ClearsBusy(j))
    /\ UNCHANGED <<round, route, loading, copy, clicks, fails>>
-----------------------------------------------------------------------------
Init ==
    /\ \E m \in Members : round = NewRound(1, m, {m})
    /\ route = "governance" /\ loading = TRUE /\ busy = FALSE /\ copy = Nothing
    /\ jobs = {[kind |-> "load", at |-> "refresh", live |-> TRUE, from |-> route, n |-> 0,
                id |-> 0, got |-> Nothing]}
    /\ clicks = 0 /\ fails = 0

Member ==
    \/ \E r \in Routes : FollowLink(r)
    \/ handleCreate \/ handleDelete \/ handleAddOption \/ handleVote

World == Deadline \/ \E m \in Others : OtherNominates(m) \/ OtherVotes(m)

Answer == \E j \in jobs : Executed(j) \/ Refused(j) \/ Answered(j) \/ Lost(j)
Take   == \E j \in jobs : Refreshed(j) \/ RefreshFailed(j) \/ ActionDone(j) \/ ActionFailed(j)

Next == Member \/ World \/ Poll \/ Answer \/ Take

\* Requests end and are taken; the timer of the board fires.  Nothing is assumed
\* of the members.
ActionProgress == \E j \in jobs : j.kind \in Actions /\
    \/ Executed(j) \/ Refused(j) \/ Answered(j) \/ Lost(j)
    \/ ActionDone(j) \/ ActionFailed(j)

Spec == Init /\ [][Next]_vars /\ WF_vars(Poll) /\ WF_vars(Answer \/ Take) /\ WF_vars(ActionProgress)
-----------------------------------------------------------------------------
TypeOK ==
    /\ round.stage \in Timed \cup {"none", "ordering"}
    /\ {round.id, copy.id} \subseteq 0 .. MaxClicks + 1
    /\ route \in Routes /\ {loading, busy} \subseteq BOOLEAN
    /\ copy.options \cup copy.votes \subseteq Members
    /\ Cardinality(polls) <= MaxPolls /\ clicks <= MaxClicks /\ fails <= MaxFails

\* A button of the board never sends a second request while one of its own is
\* under way, however refreshes, failures and redirects interleave.
OneAtATime ==
    Cardinality({j \in jobs : j.live /\ j.kind \in Actions /\ j.from = "governance"}) <= 1

\* Once the page says that a vote or a nomination succeeded, it shows it.
OwnActionShown ==
    [][\A j \in jobs \ jobs' :
          j.live /\ j.at = "answered" /\ j.kind \in {"vote", "option"} /\ j.id = copy'.id
              /\ copy'.stage \in Timed
          => Me \in (IF j.kind = "vote" THEN copy'.votes ELSE copy'.options)]_vars

\* The board follows the round: whatever answers were lost or overtook each
\* other, it shows the round as it is again and again.
BoardCatchesUp == []<>(route = "governance" => ~loading /\ copy = round)

\* No action leaves the buttons of its page dead.
ButtonsComeBack == busy ~> ~busy
=============================================================================
