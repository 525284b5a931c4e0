--------------------------- MODULE StagePagesProofs ---------------------------
(***************************************************************************)
(* Proofs about StagePages: the board sends one action at a time, what the *)
(* member has voted or nominated is shown once the page says so, and the   *)
(* types of what the pages hold.                                           *)
(***************************************************************************)
EXTENDS StagePages, FiniteSetTheorems, TLAPS

(***************************************************************************)
(* A round, as the server or a page has it, and a job of a page.           *)
(***************************************************************************)
Stages == Timed \cup {"none", "ordering", "unread"}

RoundRow == [id : Nat, stage : Stages, creator : Members,
             options : SUBSET Members, votes : SUBSET Members]

Kinds  == Actions \cup {"load", "poll"}
Places == {"server", "refresh", "answered", "failed"}

JobRow == [kind : Kinds, at : Places, live : BOOLEAN, from : Routes, n : Nat, id : Nat,
           got : RoundRow]

(***************************************************************************)
(* Round r shows what action j did, if it is the round of j at all and has *)
(* not been withdrawn or closed.                                           *)
(***************************************************************************)
Tells(j, r) ==
    j.kind \in {"vote", "option"} /\ r.id = j.id /\ r.stage \in Timed
        => Me \in (IF j.kind = "vote" THEN r.votes ELSE r.options)

(***************************************************************************)
(* Rounds are numbered: no copy is ahead of the server.  What an action    *)
(* did stays, and what the page is told after it shows it.  Of pages left  *)
(* behind no action is live.                                               *)
(***************************************************************************)
JobOK(j) ==
    /\ j \in JobRow /\ j.id <= round.id /\ j.got.id <= round.id
    /\ j.at = "server" => j.kind \in Actions
    /\ j.at \in {"refresh", "answered"} => Tells(j, round)
    /\ j.at = "answered" /\ j.live => Tells(j, j.got)
    /\ j.live /\ j.kind \in Actions => j.from = route

JobsInv == \A j \in jobs : JobOK(j)

(***************************************************************************)
(* The actions of the board under way: while there is one, its buttons are *)
(* dead.                                                                   *)
(***************************************************************************)
OfBoard(js) == {j \in js : j.live /\ j.kind \in Actions /\ j.from = "governance"}

BoardInv ==
    /\ \A i, j \in OfBoard(jobs) : i = j
    /\ OfBoard(jobs) # {} => busy

(***************************************************************************)
(* Polls are numbered.                                                     *)
(***************************************************************************)
PollsInv ==
    /\ \A j \in polls : j.n \in 1 .. MaxPolls
    /\ \A i, j \in polls : i.n = j.n => i = j

PageInv ==
    /\ round \in RoundRow /\ round.stage # "unread"
    /\ copy \in RoundRow /\ copy.id <= round.id
    /\ route \in Routes /\ loading \in BOOLEAN /\ busy \in BOOLEAN
    /\ clicks \in 0 .. MaxClicks /\ fails \in 0 .. MaxFails

(***************************************************************************)
(* The inductive invariant.                                                *)
(***************************************************************************)
StageInv == PageInv /\ JobsInv /\ BoardInv /\ PollsInv

(***************************************************************************)
(* The rounds the member is about to create: each was a click.             *)
(***************************************************************************)
Creating(js) == {j \in js : j.kind = "create" /\ j.at = "server"}

CountInv ==
    /\ IsFiniteSet(jobs)
    /\ round.id + Cardinality(Creating(jobs)) <= clicks + 1

-----------------------------------------------------------------------------
(***************************************************************************)
(* A round only moves on: its number grows, and while it takes nominations *)
(* and votes under one number it keeps those it has.                       *)
(***************************************************************************)
RoundGrows ==
    /\ round' \in RoundRow /\ round'.stage # "unread" /\ round.id <= round'.id
    /\ round'.id = round.id /\ round'.stage \in Timed
          => /\ round.stage \in Timed
             /\ round.options \subseteq round'.options /\ round.votes \subseteq round'.votes

\* A round that stays the same has only moved on.
LEMMA RoundSame ==
  ASSUME PageInv, round' = round PROVE RoundGrows
  BY DEF PageInv, RoundGrows, RoundRow

(***************************************************************************)
(* The copies without a round.                                             *)
(***************************************************************************)
LEMMA EmptyTyped ==
  /\ NoRound \in RoundRow /\ NoRound.id = 0 /\ NoRound.stage = "none"
  /\ Nothing \in RoundRow /\ Nothing.id = 0 /\ Nothing.stage = "unread"
  BY DEF NoRound, Nothing, RoundRow, Stages, Members, Timed

(***************************************************************************)
(* The deadlines and the other members.                                    *)
(***************************************************************************)
LEMMA WorldGrows ==
  ASSUME PageInv, World PROVE RoundGrows
  <1>1. round \in RoundRow /\ round.id \in Nat
    BY DEF PageInv, RoundRow
  <1>2. CASE Deadline
    <2>1. After[round.stage] \in {"voting", "ordering"}
      BY <1>2 DEF Deadline, After, Timed
    <2>2. round' = [round EXCEPT !.stage = After[round.stage]] /\ round.stage \in Timed
      BY <1>2 DEF Deadline
    <2>3. After[round.stage] \in Stages
      BY <2>1 DEF Stages, Timed
    <2>4. /\ round' \in RoundRow /\ round'.stage = After[round.stage] /\ round'.id = round.id
          /\ round'.options = round.options /\ round'.votes = round.votes
      BY <1>1, <2>2, <2>3 DEF RoundRow
    <2> QED
      BY <1>1, <2>1, <2>2, <2>4 DEF RoundGrows
  <1>3. ASSUME NEW m \in Others, OtherNominates(m) PROVE RoundGrows
    <2>1. round' = [round EXCEPT !.options = round.options \cup {m}] /\ m \in Members
      BY <1>3 DEF OtherNominates, Members
    <2>2. /\ round' \in RoundRow /\ round'.stage = round.stage /\ round'.id = round.id
          /\ round'.options = round.options \cup {m} /\ round'.votes = round.votes
      BY <1>1, <2>1 DEF RoundRow
    <2> QED
      BY <1>1, <2>2 DEF RoundGrows, PageInv
  <1>4. ASSUME NEW m \in Others, OtherVotes(m) PROVE RoundGrows
    <2>1. round' = [round EXCEPT !.votes = round.votes \cup {m}] /\ m \in Members
      BY <1>4 DEF OtherVotes, Members
    <2>2. /\ round' \in RoundRow /\ round'.stage = round.stage /\ round'.id = round.id
          /\ round'.votes = round.votes \cup {m} /\ round'.options = round.options
      BY <1>1, <2>1 DEF RoundRow
    <2> QED
      BY <1>1, <2>2 DEF RoundGrows, PageInv
  <1> QED
    BY <1>2, <1>3, <1>4 DEF World

(***************************************************************************)
(* What the server does with a request of the member, which the round then *)
(* shows.                                                                  *)
(***************************************************************************)
LEMMA ChangesGrow ==
  ASSUME PageInv, NEW j \in JobRow, Accepts(j), Changes(j), j.kind \in Actions
  PROVE  /\ RoundGrows /\ Tells(j, round')
         /\ round'.id = IF j.kind = "create" THEN round.id + 1 ELSE round.id
  <1>1. round \in RoundRow /\ round.id \in Nat /\ round.stage # "unread" /\ Me \in Members
    BY DEF PageInv, RoundRow, Members
  <1>2. CASE j.kind = "create"
    <2>1. PICK first \in {{}, {Me}} : round' = NewRound(round.id + 1, Me, first)
      BY <1>2 DEF Changes
    <2>2. "proposing" \in Stages /\ first \in SUBSET Members /\ round.id + 1 \in Nat
      BY <1>1, <2>1 DEF Stages, Timed
    <2>3. round' \in RoundRow /\ round'.stage = "proposing" /\ round'.id = round.id + 1
      BY <1>1, <2>1, <2>2 DEF NewRound, RoundRow
    <2> QED
      BY <1>1, <1>2, <2>3 DEF RoundGrows, Tells
  <1>3. CASE j.kind = "option"
    <2>1. round' = [round EXCEPT !.options = round.options \cup {Me}]
      BY <1>3 DEF Changes
    <2>2. /\ round' \in RoundRow /\ round'.stage = round.stage /\ round'.id = round.id
          /\ round'.options = round.options \cup {Me} /\ round'.votes = round.votes
      BY <1>1, <2>1 DEF RoundRow
    <2> QED
      BY <1>1, <1>3, <2>2 DEF RoundGrows, Tells
  <1>4. CASE j.kind = "delete"
    <2>1. round' = [NoRound EXCEPT !.id = round.id]
      BY <1>4 DEF Changes
    <2>2. round' \in RoundRow /\ round'.stage = "none" /\ round'.id = round.id
      BY <1>1, <2>1, EmptyTyped DEF RoundRow
    <2> QED
      BY <1>1, <1>4, <2>2 DEF RoundGrows, Tells, Timed
  <1>5. CASE j.kind = "vote"
    <2>1. round' = [round EXCEPT !.votes = round.votes \cup {Me}]
      BY <1>5 DEF Changes
    <2>2. /\ round' \in RoundRow /\ round'.stage = round.stage /\ round'.id = round.id
          /\ round'.votes = round.votes \cup {Me} /\ round'.options = round.options
      BY <1>1, <2>1 DEF RoundRow
    <2> QED
      BY <1>1, <1>5, <2>2 DEF RoundGrows, Tells
  <1> QED
    BY <1>2, <1>3, <1>4, <1>5 DEF Actions

(***************************************************************************)
(* Meanwhile a job stays what it is.                                       *)
(***************************************************************************)
LEMMA TellsStays ==
  ASSUME RoundGrows, NEW j, Tells(j, round), j.id <= round.id, j.id \in Nat, round.id \in Nat,
         round'.id \in Nat
  PROVE  Tells(j, round')
  <1> SUFFICES ASSUME j.kind \in {"vote", "option"}, round'.id = j.id, round'.stage \in Timed
               PROVE  Me \in (IF j.kind = "vote" THEN round'.votes ELSE round'.options)
    BY DEF Tells
  <1>1. round'.id = round.id
    BY DEF RoundGrows
  <1>2. /\ round.stage \in Timed
        /\ round.options \subseteq round'.options /\ round.votes \subseteq round'.votes
    BY <1>1 DEF RoundGrows
  <1>3. Me \in (IF j.kind = "vote" THEN round.votes ELSE round.options)
    BY <1>1, <1>2 DEF Tells
  <1> QED
    BY <1>2, <1>3

\* A job that is not ended stays what it was while the round moves on.
LEMMA JobStays ==
  ASSUME PageInv, RoundGrows, NEW j, JobOK(j),
         route' = route \/ ~j.live \/ j.kind \notin Actions
  PROVE  JobOK(j)'
  <1>1. j \in JobRow /\ j.id \in Nat /\ j.got.id \in Nat /\ round.id \in Nat /\ round'.id \in Nat
    BY DEF JobOK, JobRow, RoundRow, PageInv, RoundGrows
  <1>2. j.id <= round'.id /\ j.got.id <= round'.id
    BY <1>1 DEF JobOK, RoundGrows
  <1>3. j.at \in {"refresh", "answered"} => Tells(j, round')
    BY <1>1, TellsStays DEF JobOK
  <1>4. j.at = "answered" /\ j.live => Tells(j, j.got)
    BY DEF JobOK
  <1>5. j.live /\ j.kind \in Actions => j.from = route'
    BY DEF JobOK
  <1>6. Tells(j, round)' <=> Tells(j, round')
    BY DEF Tells
  <1>7. Tells(j, j.got)' <=> Tells(j, j.got)
    BY DEF Tells
  <1> QED
    BY <1>1, <1>2, <1>3, <1>4, <1>5, <1>6, <1>7 DEF JobOK

-----------------------------------------------------------------------------
(***************************************************************************)
(* The kinds of steps.  A job goes on.                                     *)
(***************************************************************************)
LEMMA ResumeKeeps ==
  ASSUME StageInv, RoundGrows, PageInv', route' = route, busy' = busy,
         NEW j \in jobs, NEW k, Resume(j, k), JobOK(k)',
         k.kind = j.kind, k.live = j.live, k.from = j.from, k.n = j.n
  PROVE  StageInv'
  <1>1. jobs' = (jobs \ {j}) \cup {k}
    BY DEF Resume
  <1>2. JobsInv'
    <2>1. \A i \in jobs : JobOK(i)'
      BY JobStays DEF StageInv, JobsInv
    <2> QED
      BY <1>1, <2>1 DEF JobsInv
  <1>3. BoardInv'
    <2>1. \A i \in OfBoard(jobs') : (i \in OfBoard(jobs) /\ i # j) \/ (i = k /\ j \in OfBoard(jobs))
      BY <1>1 DEF OfBoard
    <2> QED
      BY <2>1 DEF BoardInv, StageInv
  <1>4. PollsInv'
    <2>1. \A i \in polls' : (i \in polls /\ i # j) \/ (i = k /\ j \in polls)
      BY <1>1 DEF polls
    <2> QED
      BY <2>1 DEF PollsInv, StageInv
  <1> QED
    BY <1>2, <1>3, <1>4 DEF StageInv

(***************************************************************************)
(* A job ends; with an action of its own the page is no longer busy.       *)
(***************************************************************************)
LEMMA EndKeeps ==
  ASSUME StageInv, RoundGrows, PageInv', route' = route, NEW j \in jobs, End(j),
         busy' = busy \/ (j.live /\ j.kind \in Actions)
  PROVE  StageInv'
  <1>1. jobs' = jobs \ {j}
    BY DEF End
  <1>2. JobsInv'
    <2>1. \A i \in jobs : JobOK(i)'
      BY JobStays DEF StageInv, JobsInv
    <2> QED
      BY <1>1, <2>1 DEF JobsInv
  <1>3. BoardInv'
    <2>1. OfBoard(jobs') \in SUBSET OfBoard(jobs) /\ j \notin OfBoard(jobs')
      BY <1>1 DEF OfBoard
    <2>2. CASE busy' = busy
      BY <2>1, <2>2 DEF BoardInv, StageInv
    <2>3. CASE j.live /\ j.kind \in Actions
      <3>1. ASSUME NEW i \in OfBoard(jobs') PROVE FALSE
        <4>1. i \in jobs /\ i.live /\ i.kind \in Actions /\ i.from = "governance"
          BY <2>1 DEF OfBoard
        <4>2. i.from = route /\ j.from = route
          BY <2>3, <4>1 DEF StageInv, JobsInv, JobOK
        <4>3. j \in OfBoard(jobs)
          BY <2>3, <4>1, <4>2 DEF OfBoard
        <4> QED
          BY <2>1, <4>3 DEF BoardInv, StageInv
      <3> QED
        BY <3>1 DEF BoardInv
    <2> QED
      BY <2>2, <2>3
  <1>4. PollsInv'
    <2>1. polls' \in SUBSET polls
      BY <1>1 DEF polls
    <2> QED
      BY <2>1 DEF PollsInv, StageInv
  <1> QED
    BY <1>2, <1>3, <1>4 DEF StageInv

(***************************************************************************)
(* A page is opened: of the actions sent before, none is live.             *)
(***************************************************************************)
LEMMA OpenKeeps ==
  ASSUME StageInv, round' = round, NEW r \in Routes, NEW rest \in SUBSET jobs,
         OpenPage(r, rest), clicks' \in 0 .. MaxClicks, fails' = fails
  PROVE  StageInv'
  <1>1. /\ route' = r /\ loading' = TRUE /\ busy' = FALSE /\ copy' = Nothing
        /\ jobs' = {[j EXCEPT !.live = FALSE, !.got = Nothing] : j \in {k \in rest : k.kind \in Actions}}
                   \cup {[Job("load", "refresh") EXCEPT !.from = r]}
    BY DEF OpenPage
  <1>2. PageInv /\ JobsInv /\ RoundGrows /\ round.id \in Nat
    BY RoundSame DEF StageInv, PageInv, RoundRow
  <1>3. ASSUME NEW j \in jobs, j.kind \in Actions, NEW k,
               k = [j EXCEPT !.live = FALSE, !.got = Nothing]
        PROVE  JobOK(k)' /\ k.kind = j.kind /\ k.kind \in Actions /\ k.live = FALSE
    <2>1. JobOK(j) /\ j \in JobRow
      BY <1>2 DEF JobsInv, JobOK
    <2>2. /\ k \in JobRow /\ k.kind = j.kind /\ k.at = j.at /\ k.live = FALSE
          /\ k.from = j.from /\ k.n = j.n /\ k.id = j.id /\ k.got = Nothing
      BY <1>3, <2>1, EmptyTyped DEF JobRow
    <2>3. JobOK(k)
      BY <1>2, <2>1, <2>2, EmptyTyped DEF JobOK, Tells
    <2>4. JobOK(k)'
      BY <1>2, <2>2, <2>3, JobStays
    <2> QED
      BY <1>3, <2>2, <2>4
  <1>4. PICK l : l = [Job("load", "refresh") EXCEPT !.from = r]
    OBVIOUS
  <1>5. /\ l \in JobRow /\ l.kind = "load" /\ l.at = "refresh" /\ l.id <= round.id
        /\ l.got = Nothing
    <2>1. /\ copy.id \in Nat /\ copy.id <= round.id /\ clicks \in Nat /\ route \in Routes
          /\ "load" \in Kinds /\ "refresh" \in Places
      BY <1>2, StageConstants DEF PageInv, RoundRow, Kinds, Places
    <2> QED
      BY <1>4, <2>1, EmptyTyped DEF Job, JobRow
  <1>6. JobOK(l)'
    <2>1. JobOK(l)
      BY <1>2, <1>5, EmptyTyped DEF JobOK, Tells, Actions
    <2> QED
      BY <1>2, <1>5, <2>1, JobStays DEF Actions
  <1>7. \A k \in jobs' : JobOK(k)' /\ ((k.kind \in Actions /\ ~k.live) \/ k.kind = "load")
    <2> SUFFICES ASSUME NEW k \in jobs'
                 PROVE  JobOK(k)' /\ ((k.kind \in Actions /\ ~k.live) \/ k.kind = "load")
      OBVIOUS
    <2>1. \/ \E j \in jobs : /\ j.kind \in Actions
                             /\ k = [j EXCEPT !.live = FALSE, !.got = Nothing]
          \/ k = l
      BY <1>1, <1>4
    <2> QED
      BY <1>3, <1>5, <1>6, <2>1
  <1>8. PageInv'
    <2>1. /\ copy' \in RoundRow /\ copy'.id <= round'.id
          /\ round' \in RoundRow /\ round'.stage # "unread"
      <3>0. 0 <= round.id
        BY <1>2
      <3>1. copy' = Nothing /\ round' = round /\ 0 <= round.id
        BY <1>1, <3>0, Zenon
      <3>2. round \in RoundRow /\ round.stage # "unread"
        BY <1>2 DEF PageInv
      <3>3. copy' \in RoundRow /\ copy'.id = 0
        BY <3>1, EmptyTyped
      <3> QED
        BY <3>1, <3>2, <3>3
    <2>2. loading' \in BOOLEAN /\ busy' \in BOOLEAN
      BY <1>1
    <2>3. route' \in Routes /\ fails' \in 0 .. MaxFails
      BY <1>1, <1>2 DEF PageInv
    <2> QED
      BY <2>1, <2>2, <2>3 DEF PageInv
  <1>9. JobsInv'
    BY <1>7 DEF JobsInv
  <1>10. OfBoard(jobs') = {} /\ polls' = {}
    BY <1>7 DEF OfBoard, polls, Actions
  <1> QED
    BY <1>8, <1>9, <1>10 DEF StageInv, BoardInv, PollsInv

(***************************************************************************)
(* A click sends an action: on the board only when none is under way.      *)
(***************************************************************************)
LEMMA SendKeeps ==
  ASSUME StageInv, NEW kind \in Actions, Send(kind), route = "governance" => ~busy
  PROVE  StageInv'
  <1>1. /\ busy' = TRUE /\ jobs' = jobs \cup {Job(kind, "server")} /\ clicks' = clicks + 1
        /\ clicks < MaxClicks /\ UNCHANGED <<round, route, loading, copy, fails>>
    BY DEF Send, Click
  <1>2. PageInv /\ JobsInv /\ RoundGrows /\ round.id \in Nat
    BY <1>1, RoundSame DEF StageInv, PageInv, RoundRow
  <1>3. clicks' \in 0 .. MaxClicks /\ clicks \in Nat
    BY <1>1, <1>2, StageConstants DEF PageInv
  <1>4. PICK k : k = Job(kind, "server")
    OBVIOUS
  <1>5. /\ k \in JobRow /\ k.kind = kind /\ k.at = "server" /\ k.id = copy.id
        /\ k.got = Nothing /\ k.from = route /\ k.live
    <2>1. /\ copy.id \in Nat /\ route \in Routes /\ kind \in Kinds /\ "server" \in Places
      BY <1>2 DEF PageInv, RoundRow, Kinds, Places
    <2> QED
      BY <1>3, <1>4, <2>1, EmptyTyped DEF Job, JobRow
  <1>6. JobOK(k)'
    <2>1. JobOK(k)
      BY <1>2, <1>5, EmptyTyped DEF JobOK, PageInv
    <2> QED
      BY <1>1, <1>2, <2>1, JobStays
  <1>7. JobsInv'
    <2>1. \A i \in jobs : JobOK(i)'
      BY <1>1, <1>2, JobStays DEF JobsInv
    <2> QED
      BY <1>1, <1>4, <1>6, <2>1 DEF JobsInv
  <1>8. PageInv'
    BY <1>1, <1>2, <1>3 DEF PageInv
  <1>9. BoardInv'
    <2>1. \A i \in OfBoard(jobs') : i \in OfBoard(jobs) \/ (i = k /\ route = "governance")
      BY <1>1, <1>4, <1>5 DEF OfBoard
    <2>2. OfBoard(jobs) # {} => busy /\ route = "governance"
      <3>1. \A i \in OfBoard(jobs) : i.from = route
        BY <1>2 DEF JobsInv, JobOK, OfBoard
      <3> QED
        BY <3>1 DEF StageInv, BoardInv, OfBoard
    <2> QED
      BY <1>1, <2>1, <2>2 DEF StageInv, BoardInv
  <1>10. polls' = polls
    BY <1>1, <1>4, <1>5 DEF polls, Actions
  <1> QED
    BY <1>7, <1>8, <1>9, <1>10 DEF StageInv, PollsInv

(***************************************************************************)
(* A poll takes a number that is free.                                     *)
(***************************************************************************)
LEMMA PollKeeps ==
  ASSUME StageInv, Poll PROVE StageInv'
  <1>1. UNCHANGED <<round, route, loading, busy, copy, clicks, fails>> /\ Refresh
    BY DEF Poll
  <1>2. PICK n \in (1 .. MaxPolls) \ {j.n : j \in polls} :
               jobs' = jobs \cup {[Job("poll", "refresh") EXCEPT !.n = n, !.id = 0]}
    BY <1>1 DEF Refresh
  <1>3. PICK k : k = [Job("poll", "refresh") EXCEPT !.n = n, !.id = 0]
    OBVIOUS
  <1>4. PageInv /\ JobsInv /\ RoundGrows /\ round.id \in Nat
    BY <1>1, RoundSame DEF StageInv, PageInv, RoundRow
  <1>5. /\ k \in JobRow /\ k.kind = "poll" /\ k.at = "refresh" /\ k.id = 0 /\ k.n = n
        /\ k.got = Nothing
    <2>1. /\ copy.id \in Nat /\ clicks \in Nat /\ route \in Routes /\ n \in Nat
          /\ "poll" \in Kinds /\ "refresh" \in Places
      BY <1>4, StageConstants DEF PageInv, RoundRow, Kinds, Places
    <2> QED
      BY <1>3, <2>1, EmptyTyped DEF Job, JobRow
  <1>6. JobOK(k)'
    <2>1. JobOK(k)
      BY <1>4, <1>5, EmptyTyped DEF JobOK, Tells, Actions
    <2> QED
      BY <1>1, <1>4, <2>1, JobStays
  <1>7. JobsInv'
    <2>1. \A i \in jobs : JobOK(i)'
      BY <1>1, <1>4, JobStays DEF JobsInv
    <2> QED
      BY <1>2, <1>3, <1>6, <2>1 DEF JobsInv
  <1>8. PageInv'
    BY <1>1, <1>4 DEF PageInv
  <1>9. OfBoard(jobs') = OfBoard(jobs)
    BY <1>2, <1>3, <1>5 DEF OfBoard, Actions
  <1>10. PollsInv'
    <2>1. polls' = polls \cup {k} /\ \A j \in polls : j.n # k.n
      BY <1>2, <1>3, <1>5 DEF polls
    <2> QED
      BY <1>5, <2>1 DEF StageInv, PollsInv
  <1> QED
    BY <1>1, <1>7, <1>8, <1>9, <1>10 DEF StageInv, BoardInv

(***************************************************************************)
(* The server answers, or a request is lost.                               *)
(***************************************************************************)
LEMMA AnswersKeep ==
  ASSUME StageInv, NEW j \in jobs, Executed(j) \/ Refused(j) \/ Answered(j) \/ Lost(j)
  PROVE  StageInv'
  <1>1. PageInv /\ JobOK(j) /\ j \in JobRow /\ round.id \in Nat
    BY DEF StageInv, JobsInv, JobOK, PageInv, RoundRow
  <1>2. UNCHANGED <<route, loading, busy, copy, clicks>>
    BY DEF Executed, Refused, Answered, Lost
  <1>3. ASSUME RoundGrows, fails' \in 0 .. MaxFails PROVE PageInv'
    <2>1. copy.id \in Nat /\ round'.id \in Nat
      BY <1>1, <1>3 DEF PageInv, RoundGrows, RoundRow
    <2>2. copy'.id <= round'.id
      BY <1>1, <1>2, <1>3, <2>1 DEF PageInv, RoundGrows
    <2> QED
      BY <1>1, <1>2, <1>3, <2>2 DEF PageInv, RoundGrows
  <1>4. ASSUME NEW at \in Places, NEW k, k = [j EXCEPT !.at = at]
        PROVE  /\ k \in JobRow /\ k.kind = j.kind /\ k.at = at /\ k.live = j.live
               /\ k.from = j.from /\ k.n = j.n /\ k.id = j.id /\ k.got = j.got
    BY <1>1, <1>4 DEF JobRow
  <1>5. CASE Executed(j)
    <2>1. /\ j.at = "server" /\ Accepts(j) /\ Changes(j) /\ fails' = fails
          /\ End(j) \/ Resume(j, [j EXCEPT !.at = "refresh"])
      BY <1>5 DEF Executed
    <2>2. CASE j.kind \in Actions
      <3>1. RoundGrows /\ Tells(j, round')
        BY <1>1, <2>1, <2>2, ChangesGrow
      <3>2. PageInv'
        BY <1>1, <1>3, <2>1, <3>1 DEF PageInv
      <3>3. CASE End(j)
        BY <1>2, <3>1, <3>2, <3>3, EndKeeps
      <3>4. CASE Resume(j, [j EXCEPT !.at = "refresh"])
        <4>1. PICK k : k = [j EXCEPT !.at = "refresh"]
          OBVIOUS
        <4>2. /\ k \in JobRow /\ k.kind = j.kind /\ k.at = "refresh" /\ k.live = j.live
              /\ k.from = j.from /\ k.n = j.n /\ k.id = j.id /\ k.got = j.got
          BY <1>4, <4>1 DEF Places
        <4>3. JobOK(j)'
          BY <1>1, <1>2, <3>1, JobStays
        <4>4. JobOK(k)'
          BY <3>1, <4>2, <4>3 DEF JobOK, Tells
        <4> QED
          BY <1>2, <3>1, <3>2, <3>4, <4>1, <4>2, <4>4, ResumeKeeps
      <3> QED
        BY <2>1, <3>3, <3>4
    <2>3. CASE j.kind \notin Actions
      BY <1>1, <2>1, <2>3 DEF JobOK
    <2> QED
      BY <2>2, <2>3
  <1>6. ASSUME round' = round, fails' \in 0 .. MaxFails, NEW k, Resume(j, k), k \in JobRow,
               k.kind = j.kind, k.live = j.live, k.from = j.from, k.n = j.n, k.id = j.id,
               \/ k.at = "failed" /\ k.got = j.got
               \/ /\ k.at = "answered" /\ j.at = "refresh"
                  /\ k.got = IF j.live THEN round ELSE Nothing
        PROVE  StageInv'
    <2>1. RoundGrows
      BY <1>1, <1>6, RoundSame
    <2>2. PageInv'
      BY <1>3, <1>6, <2>1
    <2>3. JobOK(k)
      <3>1. k.got.id <= round.id
        BY <1>1, <1>6, EmptyTyped DEF JobOK
      <3>2. k.at \in {"refresh", "answered"} => Tells(k, round)
        BY <1>1, <1>6 DEF JobOK, Tells
      <3>3. k.at = "answered" /\ k.live => Tells(k, k.got)
        BY <1>6, <3>2
      <3> QED
        BY <1>1, <1>6, <3>1, <3>2, <3>3 DEF JobOK
    <2>4. JobOK(k)'
      BY <1>1, <1>2, <2>1, <2>3, JobStays
    <2> QED
      BY <1>2, <1>6, <2>1, <2>2, <2>4, ResumeKeeps
  <1>7. CASE Refused(j) \/ Lost(j)
    <2>1. round' = round /\ fails' \in 0 .. MaxFails
      BY <1>1, <1>7, StageConstants DEF Refused, Lost, PageInv
    <2>2. PICK k : k = [j EXCEPT !.at = "failed"]
      OBVIOUS
    <2>3. Resume(j, k)
      BY <1>7, <2>2 DEF Refused, Lost
    <2>4. /\ k \in JobRow /\ k.kind = j.kind /\ k.at = "failed" /\ k.live = j.live
          /\ k.from = j.from /\ k.n = j.n /\ k.id = j.id /\ k.got = j.got
      BY <1>4, <2>2 DEF Places
    <2> QED
      BY <1>6, <2>1, <2>3, <2>4
  <1>8. CASE Answered(j)
    <2>1. round' = round /\ fails' \in 0 .. MaxFails /\ j.at = "refresh"
      BY <1>1, <1>8 DEF Answered, PageInv
    <2>2. PICK k : k = [j EXCEPT !.at = "answered", !.got = IF j.live THEN round ELSE Nothing]
      OBVIOUS
    <2>3. Resume(j, k)
      BY <1>8, <2>2 DEF Answered
    <2>4. PICK g : g = IF j.live THEN round ELSE Nothing
      OBVIOUS
    <2>5. g \in RoundRow
      BY <1>1, <2>4, EmptyTyped DEF PageInv
    <2>6. k = [j EXCEPT !.at = "answered", !.got = g]
      BY <2>2, <2>4
    <2>7. /\ k \in JobRow /\ k.kind = j.kind /\ k.at = "answered" /\ k.live = j.live
          /\ k.from = j.from /\ k.n = j.n /\ k.id = j.id /\ k.got = g
      BY <1>1, <2>5, <2>6 DEF JobRow, Places
    <2> QED
      BY <1>6, <2>1, <2>3, <2>4, <2>7
  <1> QED
    BY <1>5, <1>7, <1>8

(***************************************************************************)
(* A page takes an answer.                                                 *)
(***************************************************************************)
LEMMA TakesKeep ==
  ASSUME StageInv, NEW j \in jobs,
         Refreshed(j) \/ RefreshFailed(j) \/ ActionDone(j) \/ ActionFailed(j)
  PROVE  StageInv'
  <1>1. /\ PageInv /\ JobOK(j) /\ j \in JobRow /\ jobs \ {j} \in SUBSET jobs
        /\ j.got \in RoundRow /\ j.got.id <= round.id
    BY DEF StageInv, JobsInv, JobOK, JobRow
  <1>2. round' = round /\ clicks' = clicks /\ fails' = fails /\ RoundGrows
    BY <1>1, RoundSame DEF Refreshed, RefreshFailed, ActionDone, ActionFailed
  <1>3. ASSUME End(j), route' = route, loading' \in BOOLEAN, copy' \in {copy, j.got},
               \/ busy' = busy
               \/ busy' = FALSE /\ j.live /\ j.kind \in Actions
        PROVE  StageInv'
    <2>1. PageInv'
      <3>1. busy' \in BOOLEAN
        BY <1>1, <1>3 DEF PageInv
      <3>2. copy' \in RoundRow /\ copy'.id <= round'.id
        BY <1>1, <1>2, <1>3 DEF PageInv
      <3> QED
        BY <1>1, <1>2, <1>3, <3>1, <3>2 DEF PageInv
    <2> QED
      BY <1>2, <1>3, <2>1, EndKeeps
  <1>4. CASE Refreshed(j) \/ RefreshFailed(j)
    <2>1. loading' \in BOOLEAN
      <3>1. loading' = (loading /\ j.kind # "load")
        BY <1>4 DEF Refreshed, RefreshFailed
      <3> QED
        BY <3>1
    <2>2. End(j) /\ route' = route /\ busy' = busy /\ copy' \in {copy, j.got}
      BY <1>4 DEF Refreshed, RefreshFailed
    <2> QED
      BY <1>3, <2>1, <2>2
  <1>5. CASE ActionDone(j)
    <2>1. CASE Leads(j) # route
      <3>1. OpenPage(Leads(j), jobs \ {j})
        BY <1>5, <2>1 DEF ActionDone
      <3>2. Leads(j) \in Routes /\ clicks' \in 0 .. MaxClicks
        BY <1>1, <1>2 DEF Leads, PageInv, Routes, Lists, Details
      <3> QED
        BY <1>1, <1>2, <3>1, <3>2, OpenKeeps
    <2>2. CASE Leads(j) = route
      <3>1. /\ End(j) /\ route' = route /\ loading' = loading /\ j.kind \in Actions
            /\ IF j.live THEN copy' = j.got /\ busy' = FALSE ELSE UNCHANGED <<copy, busy>>
        BY <1>5, <2>2 DEF ActionDone
      <3>2. loading' \in BOOLEAN /\ copy' \in {copy, j.got}
        BY <1>1, <3>1 DEF PageInv
      <3> QED
        BY <1>3, <3>1, <3>2
    <2> QED
      BY <2>1, <2>2
  <1>6. CASE ActionFailed(j)
    <2>1. /\ End(j) /\ UNCHANGED <<route, loading, copy>> /\ j.kind \in Actions
          /\ busy' = (busy /\ ~j.live)
      BY <1>6 DEF ActionFailed, ClearsBusy
    <2>2. busy \in BOOLEAN /\ loading' \in BOOLEAN
      BY <1>1, <2>1 DEF PageInv
    <2>3. CASE j.live
      <3>1. busy' = FALSE
        BY <2>1, <2>3
      <3> QED
        BY <1>3, <2>1, <2>2, <2>3, <3>1
    <2>4. CASE ~j.live
      <3>1. busy' = busy
        BY <2>1, <2>2, <2>4
      <3> QED
        BY <1>3, <2>1, <2>2, <3>1
    <2> QED
      BY <2>3, <2>4
  <1> QED
    BY <1>4, <1>5, <1>6

(***************************************************************************)
(* Every step.                                                             *)
(***************************************************************************)
LEMMA StepStage ==
  ASSUME StageInv, [Next]_vars PROVE StageInv'
  <1>1. PageInv /\ JobsInv
    BY DEF StageInv
  <1>2. ASSUME NEW r \in Routes, FollowLink(r) PROVE StageInv'
    <2>1. /\ clicks < MaxClicks /\ clicks' = clicks + 1 /\ OpenPage(r, jobs)
          /\ UNCHANGED <<round, fails>>
      BY <1>2 DEF FollowLink, Click
    <2>2. clicks' \in 0 .. MaxClicks
      BY <1>1, <2>1, StageConstants DEF PageInv
    <2> QED
      BY <2>1, <2>2, OpenKeeps
  <1>3. CASE handleCreate \/ handleDelete \/ handleAddOption \/ handleVote
    <2>1. PICK kind \in Actions : Send(kind)
      BY <1>3 DEF handleCreate, handleDelete, handleAddOption, handleVote, Actions
    <2>2. route = "governance" => ~busy
      BY <1>3 DEF handleCreate, handleDelete, handleAddOption, handleVote,
                  boardCreates, workspaceCreates, WithdrawOffered, boardWithdraws,
                  boardNominates, workspaceNominates, boardVotes, workspaceVotes
    <2> QED
      BY <2>1, <2>2, SendKeeps
  <1>4. CASE World
    <2>1. RoundGrows
      BY <1>1, <1>4, WorldGrows
    <2>2. UNCHANGED <<route, loading, busy, copy, jobs, clicks, fails>>
      BY <1>4 DEF World, Deadline, OtherNominates, OtherVotes
    <2>3. copy.id <= round'.id
      BY <1>1, <2>1 DEF PageInv, RoundGrows, RoundRow
    <2>4. PageInv'
      BY <1>1, <2>1, <2>2, <2>3 DEF PageInv, RoundGrows
    <2>5. JobsInv'
      <3>1. \A j \in jobs : JobOK(j)'
        BY <1>1, <2>1, <2>2, JobStays DEF JobsInv
      <3> QED
        BY <2>2, <3>1 DEF JobsInv
    <2> QED
      BY <2>2, <2>4, <2>5 DEF StageInv, BoardInv, PollsInv, OfBoard, polls
  <1>5. CASE UNCHANGED vars
    BY <1>5 DEF vars, StageInv, PageInv, JobsInv, JobOK, Tells, BoardInv, PollsInv, OfBoard, polls
  <1> QED
    BY <1>2, <1>3, <1>4, <1>5, PollKeeps, AnswersKeep, TakesKeep DEF Next, Member, Answer, Take

(***************************************************************************)
(* It holds at first.                                                      *)
(***************************************************************************)
LEMMA StageStart ==
  ASSUME Init PROVE StageInv
  <1>1. PICK m \in Members : round = NewRound(1, m, {m})
    BY DEF Init
  <1>2. round \in RoundRow /\ round.id = 1 /\ round.stage = "proposing"
    BY <1>1 DEF NewRound, RoundRow, Stages, Timed
  <1>3. /\ route = "governance" /\ loading = TRUE /\ busy = FALSE /\ copy = Nothing
        /\ clicks = 0 /\ fails = 0
    BY DEF Init
  <1>4. PICK l : l = [kind |-> "load", at |-> "refresh", live |-> TRUE, from |-> route, n |-> 0,
                      id |-> 0, got |-> Nothing]
    OBVIOUS
  <1>5. jobs = {l}
    BY <1>4 DEF Init
  <1>6. route \in Routes /\ loading \in BOOLEAN /\ busy \in BOOLEAN
    BY <1>3 DEF Routes
  <1>7. /\ l \in JobRow /\ l.kind = "load" /\ l.at = "refresh" /\ l.id = 0 /\ l.got = Nothing
    BY <1>4, <1>6, EmptyTyped DEF JobRow, Kinds, Places
  <1>8. PageInv
    BY <1>2, <1>3, <1>6, EmptyTyped, StageConstants DEF PageInv
  <1>9. JobsInv
    BY <1>2, <1>5, <1>7, EmptyTyped DEF JobsInv, JobOK, Tells, Actions
  <1>10. OfBoard(jobs) = {} /\ polls = {}
    BY <1>5, <1>7 DEF OfBoard, polls, Actions
  <1> QED
    BY <1>8, <1>9, <1>10 DEF StageInv, BoardInv, PollsInv

(***************************************************************************)
(* The invariant holds throughout.                                         *)
(***************************************************************************)
LEMMA StageInvariant == Spec => []StageInv
  <1>1. Init => StageInv
    BY StageStart
  <1>2. StageInv /\ [Next]_vars => StageInv'
    BY StepStage
  <1> QED
    BY <1>1, <1>2, PTL DEF Spec

-----------------------------------------------------------------------------
(***************************************************************************)
(* Counting the rounds.  Requests that are not more create no more.        *)
(***************************************************************************)
LEMMA FewerCreate ==
  ASSUME NEW js, IsFiniteSet(js), NEW ks, IsFiniteSet(ks), Creating(ks) \subseteq Creating(js)
  PROVE  /\ Cardinality(Creating(js)) \in Nat /\ Cardinality(Creating(ks)) \in Nat
         /\ Cardinality(Creating(ks)) <= Cardinality(Creating(js))
  <1>1. Creating(js) \in SUBSET js /\ Creating(ks) \in SUBSET Creating(js)
    BY DEF Creating
  <1>2. IsFiniteSet(Creating(js))
    BY <1>1, FS_Subset
  <1>3. IsFiniteSet(Creating(ks)) /\ Cardinality(Creating(ks)) <= Cardinality(Creating(js))
    BY <1>1, <1>2, FS_Subset
  <1> QED
    BY <1>2, <1>3, FS_CardinalityType

\* Every round created, or about to be, is paid for with a click.
LEMMA StillCounts ==
  ASSUME PageInv, CountInv, IsFiniteSet(jobs'), NEW a \in {0, 1}, NEW b \in {0, 1},
         round'.id = round.id + a, clicks' = clicks + b,
         Cardinality(Creating(jobs')) \in Nat, Cardinality(Creating(jobs)) \in Nat,
         Cardinality(Creating(jobs')) + a <= Cardinality(Creating(jobs)) + b
  PROVE  CountInv'
  <1>1. round.id \in Nat /\ clicks \in Nat
    BY StageConstants DEF PageInv, RoundRow
  <1>2. PICK m : m = Cardinality(Creating(jobs))
    OBVIOUS
  <1>3. PICK n : n = Cardinality(Creating(jobs'))
    OBVIOUS
  <1>4. m \in Nat /\ n \in Nat /\ n + a <= m + b /\ round.id + m <= clicks + 1
    BY <1>2, <1>3 DEF CountInv
  <1>5. (round.id + a) + n <= (clicks + b) + 1
    BY <1>1, <1>4
  <1>6. round'.id + Cardinality(Creating(jobs')) <= clicks' + 1
    BY <1>3, <1>5
  <1> QED
    BY <1>6 DEF CountInv

(***************************************************************************)
(* Steps without a click that create no round.                             *)
(***************************************************************************)
LEMMA QuietCounts ==
  ASSUME PageInv, CountInv, IsFiniteSet(jobs'), Creating(jobs') \subseteq Creating(jobs),
         round'.id = round.id, clicks' \in {clicks, clicks + 1}
  PROVE  CountInv'
  <1>1. IsFiniteSet(jobs) /\ round.id \in Nat /\ clicks \in Nat
    BY StageConstants DEF CountInv, PageInv, RoundRow
  <1>2. /\ Cardinality(Creating(jobs)) \in Nat /\ Cardinality(Creating(jobs')) \in Nat
        /\ Cardinality(Creating(jobs')) <= Cardinality(Creating(jobs))
    BY <1>1, FewerCreate
  <1>3. PICK b \in {0, 1} : clicks' = clicks + b
    BY <1>1
  <1>4. Cardinality(Creating(jobs')) + 0 <= Cardinality(Creating(jobs)) + b
    BY <1>2
  <1> QED
    BY <1>1, <1>2, <1>3, <1>4, StillCounts

(***************************************************************************)
(* The copies left by a page that is opened create no more than the jobs.  *)
(***************************************************************************)
LEMMA OpenCounts ==
  ASSUME StageInv, CountInv, round' = round, clicks' \in {clicks, clicks + 1},
         NEW r, NEW rest \in SUBSET jobs, OpenPage(r, rest)
  PROVE  CountInv'
  <1> DEFINE acts == {k \in rest : k.kind \in Actions}
             late == {[j EXCEPT !.live = FALSE, !.got = Nothing] : j \in acts}
             f    == [j \in acts |-> [j EXCEPT !.live = FALSE, !.got = Nothing]]
             g    == [j \in Creating(acts) |-> f[j]]
  <1>1. PICK l : l = [Job("load", "refresh") EXCEPT !.from = r]
    OBVIOUS
  <1>2. jobs' = late \cup {l} /\ l.kind = "load"
    BY <1>1 DEF OpenPage, Job
  <1>3. acts \in SUBSET jobs /\ acts \subseteq JobRow /\ IsFiniteSet(jobs)
    BY DEF StageInv, JobsInv, JobOK, CountInv
  <1>4. IsFiniteSet(acts) /\ IsFiniteSet(Creating(acts)) /\ Creating(acts) \subseteq Creating(jobs)
    <2>1. Creating(acts) \in SUBSET acts
      BY DEF Creating
    <2>2. IsFiniteSet(acts) /\ IsFiniteSet(Creating(acts))
      BY <1>3, <2>1, FS_Subset
    <2> QED
      BY <1>3, <2>2 DEF Creating
  <1>5. f \in [acts -> late] /\ \A t \in late : \E s \in acts : f[s] = t
    OBVIOUS
  <1>6. \A j \in acts : f[j].kind = j.kind /\ f[j].at = j.at
    BY <1>3 DEF JobRow
  <1> HIDE DEF acts, late, f
  <1>7. IsFiniteSet(late)
    <2>1. f \in Surjection(acts, late)
      BY <1>5 DEF Surjection
    <2> QED
      BY <1>4, <2>1, FS_Surjection
  <1>8. g \in [Creating(acts) -> Creating(late)]
        /\ \A t \in Creating(late) : \E s \in Creating(acts) : g[s] = t
    <2>1. \A j \in Creating(acts) : j \in acts /\ f[j] \in Creating(late)
      BY <1>5, <1>6 DEF Creating
    <2>2. \A t \in Creating(late) : \E s \in Creating(acts) : f[s] = t
      BY <1>5, <1>6 DEF Creating
    <2> QED
      BY <2>1, <2>2
  <1> HIDE DEF g
  <1>9. /\ IsFiniteSet(Creating(late))
        /\ Cardinality(Creating(late)) <= Cardinality(Creating(acts))
    <2>1. g \in Surjection(Creating(acts), Creating(late))
      BY <1>8 DEF Surjection
    <2> QED
      BY <1>4, <2>1, FS_Surjection
  <1>10. IsFiniteSet(jobs') /\ Creating(jobs') = Creating(late)
    <2>1. IsFiniteSet(late \cup {l})
      BY <1>7, FS_AddElement
    <2> QED
      BY <1>2, <2>1 DEF Creating
  <1>11. /\ Cardinality(Creating(jobs)) \in Nat /\ Cardinality(Creating(acts)) \in Nat
         /\ Cardinality(Creating(acts)) <= Cardinality(Creating(jobs))
    BY <1>3, <1>4, FewerCreate
  <1>12. Cardinality(Creating(jobs')) \in Nat
    BY <1>9, <1>10, FS_CardinalityType
  <1>13. PageInv /\ round.id \in Nat /\ clicks \in Nat
    BY StageConstants DEF StageInv, PageInv, RoundRow
  <1>14. PICK b \in {0, 1} : clicks' = clicks + b
    BY <1>13
  <1>15. Cardinality(Creating(jobs')) + 0 <= Cardinality(Creating(jobs)) + b
    BY <1>9, <1>10, <1>11, <1>12
  <1>16. round'.id = round.id + 0
    BY <1>13
  <1> QED
    BY <1>10, <1>11, <1>12, <1>13, <1>14, <1>15, <1>16, StillCounts

(***************************************************************************)
(* A round is created by one request, which is then executed; every        *)
(* request was a click.                                                    *)
(***************************************************************************)
LEMMA ExecutedCounts ==
  ASSUME StageInv, CountInv, NEW j \in jobs, Executed(j) PROVE CountInv'
  <1>1. /\ PageInv /\ j \in JobRow /\ IsFiniteSet(jobs) /\ round.id \in Nat /\ clicks \in Nat
        /\ j.at = "server" /\ j.kind \in Actions /\ Accepts(j) /\ Changes(j)
        /\ clicks' = clicks
    BY StageConstants DEF StageInv, JobsInv, JobOK, CountInv, PageInv, RoundRow, Executed
  <1>2. round'.id = IF j.kind = "create" THEN round.id + 1 ELSE round.id
    BY <1>1, ChangesGrow
  <1>3. PICK k : k = [j EXCEPT !.at = "refresh"]
    OBVIOUS
  <1>4. k.at = "refresh"
    BY <1>1, <1>3 DEF JobRow
  <1>5. jobs' = jobs \ {j} \/ jobs' = (jobs \ {j}) \cup {k}
    BY <1>3 DEF Executed, Resume, End
  <1>6. IsFiniteSet(jobs')
    <2>1. IsFiniteSet(jobs \ {j})
      BY <1>1, FS_RemoveElement
    <2>2. IsFiniteSet((jobs \ {j}) \cup {k})
      BY <2>1, FS_AddElement
    <2> QED
      BY <1>5, <2>1, <2>2
  <1>7. Creating(jobs') = Creating(jobs) \ {j}
    BY <1>4, <1>5 DEF Creating
  <1>8. CASE j.kind # "create"
    BY <1>1, <1>2, <1>6, <1>7, <1>8, QuietCounts
  <1>9. CASE j.kind = "create"
    <2>1. j \in Creating(jobs)
      BY <1>1, <1>9 DEF Creating
    <2>2. IsFiniteSet(Creating(jobs)) /\ Cardinality(Creating(jobs)) \in Nat
      <3>1. Creating(jobs) \in SUBSET jobs
        BY DEF Creating
      <3> QED
        BY <1>1, <3>1, FS_Subset, FS_CardinalityType
    <2>3. Cardinality(Creating(jobs) \ {j}) = Cardinality(Creating(jobs)) - 1
      BY <2>1, <2>2, FS_RemoveElement
    <2>4. Cardinality(Creating(jobs')) \in Nat
      BY <1>1, <1>6, <1>7, FewerCreate
    <2>5. Cardinality(Creating(jobs')) + 1 <= Cardinality(Creating(jobs)) + 0
      BY <1>7, <2>2, <2>3, <2>4
    <2>6. round'.id = round.id + 1 /\ clicks' = clicks + 0
      BY <1>1, <1>2, <1>9
    <2> QED
      BY <1>1, <1>6, <2>2, <2>4, <2>5, <2>6, StillCounts
  <1> QED
    BY <1>8, <1>9

\* A click sends at most one creation.
LEMMA SendCounts ==
  ASSUME StageInv, CountInv, NEW kind, Send(kind) PROVE CountInv'
  <1>1. PICK k : k = Job(kind, "server")
    OBVIOUS
  <1>2. /\ PageInv /\ IsFiniteSet(jobs) /\ round.id \in Nat /\ clicks \in Nat
        /\ jobs' = jobs \cup {k} /\ round' = round /\ clicks' = clicks + 1
    BY <1>1, StageConstants DEF StageInv, CountInv, PageInv, RoundRow, Send, Click
  <1>3. IsFiniteSet(jobs') /\ IsFiniteSet(Creating(jobs)) /\ IsFiniteSet(Creating(jobs) \cup {k})
    <2>1. Creating(jobs) \in SUBSET jobs
      BY DEF Creating
    <2>2. IsFiniteSet(Creating(jobs))
      BY <1>2, <2>1, FS_Subset
    <2> QED
      BY <1>2, <2>2, FS_AddElement
  <1>4. Creating(jobs') \in SUBSET (Creating(jobs) \cup {k})
    BY <1>2 DEF Creating
  <1>5. /\ Cardinality(Creating(jobs)) \in Nat /\ Cardinality(Creating(jobs')) \in Nat
        /\ Cardinality(Creating(jobs')) <= Cardinality(Creating(jobs) \cup {k})
    BY <1>3, <1>4, FS_Subset, FS_CardinalityType
  <1>6. Cardinality(Creating(jobs) \cup {k})
          = IF k \in Creating(jobs) THEN Cardinality(Creating(jobs))
            ELSE Cardinality(Creating(jobs)) + 1
    BY <1>3, FS_AddElement
  <1>7. Cardinality(Creating(jobs')) + 0 <= Cardinality(Creating(jobs)) + 1
    BY <1>5, <1>6
  <1>8. round'.id = round.id + 0
    BY <1>2
  <1> QED
    BY <1>2, <1>3, <1>5, <1>7, <1>8, StillCounts

(***************************************************************************)
(* Every step counts.                                                      *)
(***************************************************************************)
LEMMA StepCounts ==
  ASSUME StageInv, CountInv, [Next]_vars PROVE CountInv'
  <1>1. PageInv /\ IsFiniteSet(jobs) /\ clicks \in Nat /\ round.id \in Nat
    BY StageConstants DEF StageInv, CountInv, PageInv, RoundRow
  <1>2. ASSUME NEW r \in Routes, FollowLink(r) PROVE CountInv'
    <2>1. clicks' = clicks + 1 /\ OpenPage(r, jobs) /\ round' = round /\ jobs \in SUBSET jobs
      BY <1>2 DEF FollowLink, Click
    <2> QED
      BY <2>1, OpenCounts
  <1>3. CASE handleCreate \/ handleDelete \/ handleAddOption \/ handleVote
    <2>1. \E kind \in Actions : Send(kind)
      BY <1>3 DEF handleCreate, handleDelete, handleAddOption, handleVote, Actions
    <2> QED
      BY <2>1, SendCounts
  <1>4. CASE World
    <2>1. round'.id = round.id /\ clicks' = clicks /\ jobs' = jobs
      BY <1>1, <1>4 DEF World, Deadline, OtherNominates, OtherVotes, PageInv, RoundRow
    <2> QED
      BY <1>1, <2>1, QuietCounts
  <1>5. ASSUME NEW j, NEW k, j \in jobs => k.kind # "create" \/ k.at # "server",
               jobs' \in {jobs \ {j}, (jobs \ {j}) \cup {k}, jobs \cup {k}}, j \in jobs \/ k.kind = "poll",
               round' = round, clicks' = clicks
        PROVE  CountInv'
    <2>1. Creating(jobs') \subseteq Creating(jobs)
      BY <1>5 DEF Creating
    <2>2. IsFiniteSet(jobs \ {j}) /\ IsFiniteSet(jobs \cup {k})
      BY <1>1, FS_RemoveElement, FS_AddElement
    <2>3. IsFiniteSet((jobs \ {j}) \cup {k})
      BY <2>2, FS_AddElement
    <2>4. IsFiniteSet(jobs')
      BY <1>5, <2>2, <2>3
    <2> QED
      BY <1>1, <1>5, <2>1, <2>4, QuietCounts
  <1>6. CASE Poll
    <2>1. round' = round /\ clicks' = clicks /\ Refresh
      BY <1>6 DEF Poll
    <2>2. PICK n : jobs' = jobs \cup {[Job("poll", "refresh") EXCEPT !.n = n, !.id = 0]}
      BY <2>1 DEF Refresh
    <2>3. PICK k : k = [Job("poll", "refresh") EXCEPT !.n = n, !.id = 0]
      OBVIOUS
    <2>4. k.kind = "poll"
      BY <2>3 DEF Job
    <2>5. jobs' = jobs \cup {k}
      BY <2>2, <2>3
    <2> QED
      BY <1>5, <2>1, <2>4, <2>5
  <1>7. ASSUME NEW j \in jobs, Refused(j) \/ Answered(j) \/ Lost(j) PROVE CountInv'
    <2>1. round' = round /\ clicks' = clicks /\ j \in JobRow
      BY <1>7 DEF Refused, Answered, Lost, StageInv, JobsInv, JobOK
    <2>2. PICK k : /\ Resume(j, k)
                   /\ \/ k = [j EXCEPT !.at = "failed"]
                      \/ k = [j EXCEPT !.at = "answered", !.got = IF j.live THEN round ELSE Nothing]
      BY <1>7 DEF Refused, Answered, Lost
    <2>3. k.at # "server"
      BY <2>1, <2>2 DEF JobRow
    <2>4. jobs' = (jobs \ {j}) \cup {k}
      BY <2>2 DEF Resume
    <2> QED
      BY <1>5, <2>1, <2>3, <2>4
  <1>8. ASSUME NEW j \in jobs, Refreshed(j) \/ RefreshFailed(j) \/ ActionDone(j) \/ ActionFailed(j)
        PROVE  CountInv'
    <2>1. round' = round /\ clicks' = clicks
      BY <1>8 DEF Refreshed, RefreshFailed, ActionDone, ActionFailed
    <2>2. CASE jobs' = jobs \ {j}
      <3>1. Creating(jobs') \subseteq Creating(jobs) /\ IsFiniteSet(jobs')
        BY <1>1, <2>2, FS_RemoveElement DEF Creating
      <3> QED
        BY <1>1, <2>1, <3>1, QuietCounts
    <2>3. CASE OpenPage(Leads(j), jobs \ {j})
      BY <2>1, <2>3, OpenCounts
    <2> QED
      BY <1>8, <2>2, <2>3 DEF Refreshed, RefreshFailed, ActionDone, ActionFailed, End
  <1>9. CASE UNCHANGED vars
    BY <1>1, <1>9, QuietCounts DEF vars
  <1> QED
    BY <1>2, <1>3, <1>4, <1>6, <1>7, <1>8, <1>9, ExecutedCounts DEF Next, Member, Answer, Take

\* Both invariants hold in every reachable state.
LEMMA CountInvariant == Spec => [](StageInv /\ CountInv)
  <1>1. Init => StageInv /\ CountInv
    <2>1. Init => CountInv
      <3> SUFFICES ASSUME Init PROVE CountInv
        OBVIOUS
      <3>1. round.id = 1 /\ clicks = 0
        BY DEF Init, NewRound
      <3>2. PICK l : jobs = {l} /\ l.kind = "load"
        <4>1. PICK l : l = [kind |-> "load", at |-> "refresh", live |-> TRUE, from |-> route,
                            n |-> 0, id |-> 0, got |-> Nothing]
          OBVIOUS
        <4>2. l.kind = "load"
          BY <4>1
        <4>3. jobs = {l}
          BY <4>1 DEF Init
        <4> QED
          BY <4>2, <4>3
      <3>3. IsFiniteSet(jobs) /\ Creating(jobs) = {} /\ Cardinality({}) = 0
        BY <3>2, FS_Singleton, FS_EmptySet DEF Creating
      <3> QED
        BY <3>1, <3>3 DEF CountInv
    <2> QED
      BY <2>1, StageStart
  <1>2. (StageInv /\ CountInv) /\ [Next]_vars => (StageInv /\ CountInv)'
    BY StepStage, StepCounts
  <1> QED
    BY <1>1, <1>2, PTL DEF Spec
-----------------------------------------------------------------------------
(***************************************************************************)
(* At any time at most one action of the board is under way, for any       *)
(* number of members, clicks, failures and polls, and however redirects    *)
(* and answers interleave.                                                 *)
(***************************************************************************)
THEOREM BoardActsOnce == Spec => []OneAtATime
  <1>1. StageInv => OneAtATime
    <2> SUFFICES ASSUME StageInv PROVE Cardinality(OfBoard(jobs)) <= 1
      BY DEF OneAtATime, OfBoard
    <2>1. CASE OfBoard(jobs) = {}
      BY <2>1, FS_EmptySet
    <2>2. CASE OfBoard(jobs) # {}
      <3>1. PICK j : OfBoard(jobs) = {j}
        BY <2>2 DEF StageInv, BoardInv
      <3> QED
        BY <3>1, FS_Singleton
    <2> QED
      BY <2>1, <2>2
  <1> QED
    BY <1>1, StageInvariant, PTL

(***************************************************************************)
(* When the page takes the answer of a vote or a nomination that was       *)
(* accepted, it shows it: what other members and the deadlines do to the   *)
(* round meanwhile does not hide it, nor does a round of another number.   *)
(***************************************************************************)
THEOREM OwnActionAlwaysShown == Spec => OwnActionShown
  <1> DEFINE Shown == \A j \in jobs \ jobs' :
          j.live /\ j.at = "answered" /\ j.kind \in {"vote", "option"} /\ j.id = copy'.id
              /\ copy'.stage \in Timed
          => Me \in (IF j.kind = "vote" THEN copy'.votes ELSE copy'.options)
  <1>1. StageInv /\ [Next]_vars => [Shown]_vars
    <2> SUFFICES ASSUME StageInv, Next, NEW j \in jobs \ jobs',
                        j.live, j.at = "answered", j.kind \in {"vote", "option"},
                        j.id = copy'.id, copy'.stage \in Timed
                 PROVE  Me \in (IF j.kind = "vote" THEN copy'.votes ELSE copy'.options)
      OBVIOUS
    <2>1. j.kind \in Actions /\ Tells(j, j.got) /\ ~Redirects(j)
      BY DEF StageInv, JobsInv, JobOK, Actions, Redirects
    <2>2. ASSUME NEW r, NEW rest, OpenPage(r, rest) PROVE FALSE
      BY <2>2, EmptyTyped DEF OpenPage, Timed
    <2>3. ASSUME NEW i \in jobs, End(i), i # j PROVE FALSE
      BY <2>3 DEF End
    <2>4. ASSUME NEW i \in jobs, NEW k, Resume(i, k), i.at # "answered" PROVE FALSE
      BY <2>4 DEF Resume
    <2>5. ASSUME NEW more, jobs' = jobs \cup more PROVE FALSE
      BY <2>5
    <2>6. CASE Member
      <3>1. ASSUME NEW r \in Routes, FollowLink(r) PROVE FALSE
        BY <2>2, <3>1 DEF FollowLink
      <3>2. ASSUME NEW kind, Send(kind) PROVE FALSE
        BY <2>5, <3>2 DEF Send
      <3> QED
        BY <2>6, <3>1, <3>2 DEF Member, handleCreate, handleDelete, handleAddOption, handleVote
    <2>7. CASE World \/ Poll
      BY <2>5, <2>7 DEF World, Deadline, OtherNominates, OtherVotes, Poll, Refresh
    <2>8. CASE Answer
      <3>1. PICK i \in jobs : Executed(i) \/ Refused(i) \/ Answered(i) \/ Lost(i)
        BY <2>8 DEF Answer
      <3>2. i.at \in {"server", "refresh"}
        BY <3>1 DEF Executed, Refused, Answered, Lost
      <3>3. End(i) \/ \E k : Resume(i, k)
        BY <3>1 DEF Executed, Refused, Answered, Lost
      <3> QED
        BY <2>3, <2>4, <3>2, <3>3
    <2>9. CASE Take
      <3>1. PICK i \in jobs : Refreshed(i) \/ RefreshFailed(i) \/ ActionDone(i) \/ ActionFailed(i)
        BY <2>9 DEF Take
      <3>2. CASE Refreshed(i) \/ RefreshFailed(i) \/ ActionFailed(i)
        <4>1. End(i) /\ i # j
          BY <2>1, <3>2 DEF Refreshed, RefreshFailed, ActionFailed, Actions
        <4> QED
          BY <2>3, <4>1
      <3>3. CASE ActionDone(i)
        <4>1. End(i) /\ (i.live => copy' = i.got)
          BY <2>2, <3>3 DEF ActionDone
        <4>2. i = j
          BY <2>3, <4>1
        <4>3. copy' = j.got
          BY <4>1, <4>2
        <4> QED
          BY <2>1, <4>3 DEF Tells
      <3> QED
        BY <3>1, <3>2, <3>3
    <2> QED
      BY <2>6, <2>7, <2>8, <2>9 DEF Next
  <1>2. OwnActionShown <=> [][Shown]_vars
    BY PTL DEF OwnActionShown
  <1> HIDE DEF Shown
  <1> QED
    BY <1>1, <1>2, StageInvariant, PTL DEF Spec

(***************************************************************************)
(* Types: rounds, copies and polls are within what the member's clicks and *)
(* the timers can have asked for.                                          *)
(***************************************************************************)
THEOREM StageTypeCorrect == Spec => []TypeOK
  <1>1. StageInv /\ CountInv => TypeOK
    <2> SUFFICES ASSUME StageInv, CountInv PROVE TypeOK
      OBVIOUS
    <2>1. PageInv /\ PollsInv
      BY DEF StageInv
    <2>2. round.stage \in Timed \cup {"none", "ordering"}
      BY <2>1 DEF PageInv, RoundRow, Stages
    <2>3. {round.id, copy.id} \subseteq 0 .. MaxClicks + 1
      <3>1. round.id \in Nat /\ copy.id \in Nat /\ copy.id <= round.id /\ clicks \in 0 .. MaxClicks
        BY <2>1 DEF PageInv, RoundRow
      <3>2. Cardinality(Creating(jobs)) \in Nat
        BY FewerCreate DEF CountInv
      <3>3. round.id <= MaxClicks + 1
        BY <3>1, <3>2, StageConstants DEF CountInv
      <3> QED
        BY <3>1, <3>3, StageConstants
    <2>4. Cardinality(polls) <= MaxPolls
      <3> DEFINE f == [j \in polls |-> j.n]
      <3>1. f \in [polls -> 1 .. MaxPolls] /\ \A i, j \in polls : f[i] = f[j] => i = j
        BY <2>1 DEF PollsInv
      <3> HIDE DEF f
      <3>2. f \in Injection(polls, 1 .. MaxPolls)
        BY <3>1 DEF Injection, IsInjective
      <3>3. IsFiniteSet(1 .. MaxPolls) /\ Cardinality(1 .. MaxPolls) = MaxPolls
        BY FS_Interval, StageConstants
      <3> QED
        BY <3>2, <3>3, FS_Injection
    <2>5. copy.options \cup copy.votes \subseteq Members /\ route \in Routes
      BY <2>1 DEF PageInv, RoundRow
    <2>6. {loading, busy} \subseteq BOOLEAN
      BY <2>1 DEF PageInv
    <2>7. clicks <= MaxClicks /\ fails <= MaxFails
      BY <2>1, StageConstants DEF PageInv
    <2> QED
      BY <2>2, <2>3, <2>4, <2>5, <2>6, <2>7 DEF TypeOK
  <1> QED
    BY <1>1, CountInvariant, PTL

=============================================================================
