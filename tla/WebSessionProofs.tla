--------------------------- MODULE WebSessionProofs ---------------------------
(***************************************************************************)
(* Proofs about WebSession: what a gate lets in, that no wallet belongs to *)
(* two members, and the types of everything the tab and the server hold.   *)
(***************************************************************************)
EXTENDS WebSession, FiniteSetTheorems, SequenceTheorems, TLAPS

(***************************************************************************)
(* A member's row, an answer of /members/me, and a job of the tab.         *)
(***************************************************************************)
Row == [identity : Wallets \cup {None}, wallet : Wallets \cup {None, Unlinked},
        admin : BOOLEAN, until : 0 .. Credits, credits : 0 .. Credits]

Answers == [id : Nat, admin : BOOLEAN, active : BOOLEAN]

Kinds == Logins \cup Asking \cup {"loader", "gate", "checkpoint", "gone"}

Places == {"accounts", "me", "connect", "challenge", "sign", "verify", "verified",
           "create", "bind", "password", "price", "charge", "paid", "cancel",
           "link", "unlink", "answered"}

JobRow == [kind : Kinds, at : Places, live : BOOLEAN, page : Pages, token : Nat,
           wallet : Wallets \cup {None}, nonce : Nat, named : BOOLEAN,
           base : Nat, got : Answers]

(***************************************************************************)
(* Where a job needs a wallet, and where a member.                         *)
(***************************************************************************)
WalletPlaces == {"challenge", "sign", "verify", "verified", "create", "bind", "link"}
TokenPlaces  == {"price", "charge", "cancel", "unlink", "bind"}

(***************************************************************************)
(* The gate of the page one is on asks for the member whose token the tab  *)
(* holds, if it still holds one; what it was told stays true.              *)
(***************************************************************************)
GateOK(j) ==
    /\ j.page = page /\ page \in Gated
    /\ j.token # 0 /\ token \in {0, j.token}
    /\ j.at \in {"me", "answered"}
    /\ j.got.id # 0 =>
          /\ j.got.id = j.token
          /\ j.got.admin = members[j.token].admin
          /\ j.got.active => members[j.token].credits < Credits

JobOK(j) ==
    /\ j \in JobRow
    /\ j.token \in 0 .. Len(members) /\ j.got.id \in 0 .. Len(members)
    /\ j.at \in WalletPlaces => j.wallet \in Wallets
    /\ j.at \in TokenPlaces => j.token # 0
    /\ j.at = "charge" => j.base + members[j.token].credits <= Credits
    /\ j.kind = "gate" /\ j.live => GateOK(j)

MembersInv ==
    /\ members \in Seq(Row)
    /\ \A m \in Ids : members[m].until + members[m].credits <= Credits

ServerInv == challenge \in [Wallets -> 0 .. nonces] /\ nonces \in Nat

TabInv ==
    /\ page \in Pages /\ token \in 0 .. Len(members) /\ nav \in 0 .. Len(members)
    /\ wallet \in Wallets \cup {None} /\ selected \in Wallets /\ ready \in BOOLEAN
    /\ clicks \in 0 .. MaxClicks

JobsInv == \A j \in jobs : JobOK(j)

(***************************************************************************)
(* The inductive invariant.                                                *)
(***************************************************************************)
SessionInv ==
    /\ MembersInv /\ ServerInv /\ TabInv /\ JobsInv
    /\ PagesAreGated /\ WalletsAreUnique

(***************************************************************************)
(* The requests for a challenge that are on their way: each was a click.   *)
(***************************************************************************)
ToAsk(js) == {j \in js : j.at \in {"connect", "challenge"}}

CountInv ==
    /\ IsFiniteSet(jobs)
    /\ nonces + Cardinality(ToAsk(jobs)) <= clicks

(***************************************************************************)
(* Members are added, stay who they are, and never regain credit.          *)
(***************************************************************************)
MembersGrow ==
    /\ Len(members) <= Len(members')
    /\ \A m \in Ids : /\ members'[m].admin = members[m].admin
                      /\ members'[m].credits <= members[m].credits

(***************************************************************************)
(* A row, whatever the table.                                              *)
(***************************************************************************)
LEMMA RowsTyped ==
  ASSUME MembersInv
  PROVE  /\ Len(members) \in Nat /\ Ids = 1 .. Len(members)
         /\ \A m \in Ids : members[m] \in Row
         /\ \A m \in Ids : /\ members[m].until \in 0 .. Credits
                           /\ members[m].credits \in 0 .. Credits
                           /\ members[m].admin \in BOOLEAN
                           /\ members[m].until > 0 => members[m].credits < Credits
  <1>1. Len(members) \in Nat /\ Ids = 1 .. Len(members) /\ \A m \in Ids : members[m] \in Row
    BY DEF MembersInv, Ids
  <1>2. \A m \in Ids : /\ members[m].until \in 0 .. Credits
                       /\ members[m].credits \in 0 .. Credits
                       /\ members[m].admin \in BOOLEAN
    BY <1>1 DEF Row
  <1>3. \A m \in Ids : members[m].until > 0 => members[m].credits < Credits
    BY <1>2, SessionConstants DEF MembersInv
  <1> QED
    BY <1>1, <1>2, <1>3

(***************************************************************************)
(* A change of one field of a job changes that field alone.                *)
(***************************************************************************)
SameBut(k, j, what) ==
    /\ k \in JobRow
    /\ k.kind = j.kind /\ k.live = j.live /\ k.page = j.page /\ k.nonce = j.nonce
    /\ what # "at" => k.at = j.at
    /\ what # "token" => k.token = j.token
    /\ what # "wallet" => k.wallet = j.wallet
    /\ what # "base" => k.base = j.base
    /\ what # "got" => k.got = j.got

\* A job with one field changed is the same job but for that field.
LEMMA OneField ==
  ASSUME NEW j \in JobRow
  PROVE  /\ \A x \in Places : SameBut([j EXCEPT !.at = x], j, "at") /\ [j EXCEPT !.at = x].at = x
         /\ \A x \in Nat : SameBut([j EXCEPT !.token = x], j, "token") /\ [j EXCEPT !.token = x].token = x
         /\ \A x \in Wallets : SameBut([j EXCEPT !.wallet = x], j, "wallet")
                               /\ [j EXCEPT !.wallet = x].wallet = x
         /\ \A x \in Nat : SameBut([j EXCEPT !.base = x], j, "base") /\ [j EXCEPT !.base = x].base = x
         /\ \A x \in Answers : SameBut([j EXCEPT !.got = x], j, "got") /\ [j EXCEPT !.got = x].got = x
         /\ \A x \in BOOLEAN : /\ [j EXCEPT !.named = x] \in JobRow
                               /\ \A f \in {"none"} : SameBut([j EXCEPT !.named = x], j, f)
  BY DEF JobRow, SameBut

(***************************************************************************)
(* A nonce and a page are data of a job too.                               *)
(***************************************************************************)
LEMMA OtherFields ==
  ASSUME NEW j \in JobRow
  PROVE  /\ \A x \in Nat : LET k == [j EXCEPT !.nonce = x]
                           IN  /\ k \in JobRow /\ k.kind = j.kind /\ k.live = j.live /\ k.at = j.at
                               /\ k.token = j.token /\ k.wallet = j.wallet
                               /\ k.page = j.page /\ k.base = j.base /\ k.got = j.got
         /\ \A x \in Pages : LET k == [j EXCEPT !.page = x]
                             IN  /\ k \in JobRow /\ k.kind = j.kind /\ k.live = j.live /\ k.at = j.at
                                 /\ k.token = j.token /\ k.wallet = j.wallet
                                 /\ k.page = x /\ k.base = j.base /\ k.got = j.got
  BY DEF JobRow

(***************************************************************************)
(* A new job.                                                              *)
(***************************************************************************)
NewRow(j, kind, at) ==
    j \in JobRow /\ j.kind = kind /\ j.at = at /\ j.token = 0 /\ j.got = Failed

\* A new job is at its place, with no token and no answer.
LEMMA NewJob ==
  ASSUME NEW kind \in Kinds, NEW at \in Places
  PROVE  NewRow(Job(kind, at), kind, at)
  <1>1. Landing \in Pages /\ Failed \in Answers
    BY DEF Pages, Failed, Answers
  <1> QED
    BY <1>1 DEF Job, JobRow, NewRow

(***************************************************************************)
(* On the page one is on, the jobs of the tab stay what they are.          *)
(***************************************************************************)
LEMMA JobStays ==
  ASSUME SessionInv, MembersInv', MembersGrow, page' = page, token' \in {token, 0},
         NEW j \in jobs
  PROVE  JobOK(j)'
  <1>1. JobOK(j)
    BY DEF SessionInv, JobsInv
  <1>2. /\ Len(members) \in Nat /\ Len(members') \in Nat /\ Len(members) <= Len(members')
        /\ \A m \in 1 .. Len(members) :
              /\ members[m].credits \in 0 .. Credits
              /\ members'[m].credits \in 0 .. Credits
              /\ members'[m].credits <= members[m].credits
              /\ members'[m].admin = members[m].admin
    <2>1. \A m \in Ids : members[m].credits \in 0 .. Credits
      BY RowsTyped DEF SessionInv
    <2>2. Len(members) \in Nat /\ Ids = 1 .. Len(members)
      BY RowsTyped DEF SessionInv
    <2>3. MembersInv' => /\ Len(members') \in Nat
                         /\ \A m \in 1 .. Len(members') : members'[m] \in Row
      BY DEF MembersInv
    <2>4. \A m \in 1 .. Len(members') : members'[m].credits \in 0 .. Credits
      BY <2>3 DEF Row
    <2> QED
      BY <2>1, <2>2, <2>3, <2>4 DEF MembersGrow
  <1>3. j.token \in 0 .. Len(members') /\ j.got.id \in 0 .. Len(members')
    BY <1>1, <1>2 DEF JobOK
  <1>4. j.at = "charge" => j.base + members'[j.token].credits <= Credits
    <2> SUFFICES ASSUME j.at = "charge" PROVE j.base + members'[j.token].credits <= Credits
      OBVIOUS
    <2>1. j.token \in 1 .. Len(members) /\ j.base + members[j.token].credits <= Credits
      BY <1>1, <1>2 DEF JobOK, TokenPlaces
    <2>2. j.base \in Nat
      BY <1>1 DEF JobOK, JobRow
    <2>3. /\ members[j.token].credits \in 0 .. Credits
          /\ members'[j.token].credits \in 0 .. Credits
          /\ members'[j.token].credits <= members[j.token].credits
      BY <1>2, <2>1
    <2> QED
      BY <2>1, <2>2, <2>3, SessionConstants
  <1>5. j.kind = "gate" /\ j.live => GateOK(j)'
    <2> SUFFICES ASSUME j.kind = "gate", j.live PROVE GateOK(j)'
      OBVIOUS
    <2>1. GateOK(j)
      BY <1>1 DEF JobOK
    <2>2. j.token \in 1 .. Len(members)
      BY <1>1, <1>2, <2>1 DEF JobOK, GateOK
    <2>3. members'[j.token].admin = members[j.token].admin
      BY <1>2, <2>2
    <2>4. members[j.token].credits < Credits => members'[j.token].credits < Credits
      BY <1>2, <2>2, SessionConstants
    <2> QED
      BY <2>1, <2>3, <2>4 DEF GateOK
  <1> QED
    BY <1>1, <1>3, <1>4, <1>5 DEF JobOK

(***************************************************************************)
(* So does what a gate has let in.                                         *)
(***************************************************************************)
LEMMA InsideStays ==
  ASSUME SessionInv, MembersInv', MembersGrow, page' = page, ready' = ready,
         token' \in {token, 0}
  PROVE  PagesAreGated'
  <1> SUFFICES ASSUME ready', token' # 0
               PROVE  /\ page' \in Gated
                      /\ members'[token'].admin <=> page' = "/admin/payouts"
                      /\ page' = "/member" => members'[token'].credits < Credits
    BY DEF PagesAreGated
  <1>1. token' = token /\ ready /\ token # 0
    OBVIOUS
  <1>2. /\ page \in Gated
        /\ members[token].admin <=> page = "/admin/payouts"
        /\ page = "/member" => members[token].credits < Credits
    BY <1>1 DEF SessionInv, PagesAreGated
  <1>3. Len(members) \in Nat /\ Ids = 1 .. Len(members)
    BY RowsTyped DEF SessionInv
  <1>4. token \in Ids
    BY <1>1, <1>3 DEF SessionInv, TabInv
  <1>5. MembersInv' => /\ Len(members') \in Nat
                       /\ \A m \in 1 .. Len(members') : members'[m] \in Row
    BY DEF MembersInv
  <1>6. token \in 1 .. Len(members')
    BY <1>3, <1>4, <1>5 DEF MembersGrow
  <1>7. members'[token].credits \in Nat
    BY <1>5, <1>6, SessionConstants DEF Row
  <1>8. members[token].credits \in Nat
    BY <1>4, RowsTyped, SessionConstants DEF SessionInv
  <1>9. /\ members'[token].admin = members[token].admin
        /\ members'[token].credits <= members[token].credits
    BY <1>4 DEF MembersGrow
  <1> QED
    BY <1>1, <1>2, <1>7, <1>8, <1>9, SessionConstants

(***************************************************************************)
(* A step on the page one is on, which starts or moves some jobs.          *)
(***************************************************************************)
LEMMA QuietStep ==
  ASSUME SessionInv, MembersInv', MembersGrow, ServerInv', WalletsAreUnique',
         page' = page, ready' = ready, token' \in {token, 0},
         nav' \in 0 .. Len(members'), wallet' \in Wallets \cup {None},
         selected' \in Wallets, clicks' \in 0 .. MaxClicks,
         \A k \in jobs' : k \in jobs \/ JobOK(k)'
  PROVE  SessionInv'
  <1>1. JobsInv'
    BY JobStays DEF JobsInv
  <1>2. PagesAreGated'
    BY InsideStays
  <1>3. token' \in 0 .. Len(members')
    <2>1. token \in 0 .. Len(members) /\ Len(members) \in Nat
      BY RowsTyped DEF SessionInv, TabInv
    <2>2. MembersInv' => Len(members') \in Nat
      BY DEF MembersInv
    <2> QED
      BY <2>1, <2>2 DEF MembersGrow
  <1>4. TabInv'
    BY <1>3 DEF SessionInv, TabInv
  <1> QED
    BY <1>1, <1>2, <1>4 DEF SessionInv

(***************************************************************************)
(* The same, of a step that leaves the tables alone.                       *)
(***************************************************************************)
LEMMA QuietTab ==
  ASSUME SessionInv, members' = members, ServerInv',
         page' = page, ready' = ready, token' \in {token, 0},
         nav' \in 0 .. Len(members), wallet' \in Wallets \cup {None},
         selected' \in Wallets, clicks' \in 0 .. MaxClicks,
         \A k \in jobs' : k \in jobs \/ JobOK(k)'
  PROVE  SessionInv'
  <1>1. MembersInv' /\ WalletsAreUnique'
    BY DEF SessionInv, MembersInv, WalletsAreUnique, Ids
  <1>2. MembersGrow
    <2>1. Len(members) \in Nat /\ \A m \in Ids : members[m].credits \in 0 .. Credits
      BY RowsTyped DEF SessionInv
    <2> QED
      BY <2>1, SessionConstants DEF MembersGrow
  <1> QED
    BY <1>1, <1>2, QuietStep

(***************************************************************************)
(* A job that is no longer live asks nothing of the page.                  *)
(***************************************************************************)
LEMMA JobLate ==
  ASSUME SessionInv, members' = members, NEW j \in jobs, NEW k \in JobRow,
         ~k.live, k.at = j.at, k.token = j.token, k.wallet = j.wallet,
         k.base = j.base, k.got = j.got
  PROVE  JobOK(k)'
  <1>1. JobOK(j)
    BY DEF SessionInv, JobsInv
  <1> QED
    BY <1>1 DEF JobOK

(***************************************************************************)
(* The jobs with which a page is mounted.                                  *)
(***************************************************************************)
LEMMA MountedJobs ==
  ASSUME SessionInv, members' = members, NEW p \in Pages, NEW tok \in 0 .. Len(members),
         NEW w, page' = Admitted(p, tok), token' = tok
  PROVE  /\ page' \in Pages
         /\ \A k \in Mount(page', tok, w) : JobOK(k)'
  <1> DEFINE q == Admitted(p, tok)
  <1>1. q \in Pages /\ (q \in Gated => tok # 0)
    BY DEF Admitted, Pages, Landing, Gated
  <1>2. Len(members) \in Nat
    BY RowsTyped DEF SessionInv
  <1>3. Failed.id = 0
    BY DEF Failed
  <1>4. "loader" \in Kinds /\ "gate" \in Kinds /\ "accounts" \in Places /\ "me" \in Places
    BY DEF Kinds, Places
  <1> HIDE DEF q
  <1>5. \A k \in Loader(tok, w) : JobOK(k)'
    <2>1. JobOK(Job("loader", "accounts"))'
      <3> DEFINE k == Job("loader", "accounts")
      <3>1. NewRow(k, "loader", "accounts")
        BY <1>4, NewJob
      <3> HIDE DEF k
      <3>2. JobOK(k)'
        BY <1>2, <1>3, <3>1 DEF NewRow, JobOK, WalletPlaces, TokenPlaces
      <3> QED
        BY <3>2 DEF k
    <2>2. JobOK([Job("loader", "me") EXCEPT !.token = tok])'
      <3> DEFINE j == Job("loader", "me")
                 k == [j EXCEPT !.token = tok]
      <3>1. NewRow(j, "loader", "me")
        BY <1>4, NewJob
      <3> HIDE DEF j
      <3>2. k \in JobRow /\ k.kind = "loader" /\ k.at = "me" /\ k.token = tok /\ k.got = Failed
        BY <1>2, <3>1, OneField DEF NewRow, SameBut
      <3> HIDE DEF k
      <3>3. JobOK(k)'
        BY <1>2, <1>3, <3>2 DEF JobOK, WalletPlaces, TokenPlaces
      <3> QED
        BY <3>3 DEF k, j
    <2> QED
      BY <2>1, <2>2 DEF Loader
  <1>6. \A k \in GateJob(q, tok) : JobOK(k)'
    <2> SUFFICES ASSUME q \in Gated
                 PROVE  JobOK([Job("gate", "me") EXCEPT !.page = q, !.token = tok])'
      BY DEF GateJob
    <2> DEFINE j == Job("gate", "me")
               i == [j EXCEPT !.page = q]
               k == [i EXCEPT !.token = tok]
    <2>1. NewRow(j, "gate", "me")
      BY <1>4, NewJob
    <2> HIDE DEF j
    <2>2. i \in JobRow /\ i.kind = "gate" /\ i.at = "me" /\ i.page = q /\ i.got = Failed
      BY <1>1, <2>1, OtherFields DEF NewRow
    <2>3. [j EXCEPT !.page = q, !.token = tok] = k
      BY <2>1 DEF JobRow
    <2> HIDE DEF i
    <2>4. /\ k \in JobRow /\ k.kind = "gate" /\ k.at = "me" /\ k.page = q
          /\ k.token = tok /\ k.got = Failed
      BY <1>2, <2>2, OneField DEF SameBut
    <2> HIDE DEF k
    <2>5. GateOK(k)'
      BY <1>1, <1>3, <2>4 DEF GateOK, q
    <2>6. JobOK(k)'
      BY <1>2, <1>3, <2>4, <2>5 DEF JobOK, WalletPlaces, TokenPlaces
    <2> QED
      BY <2>3, <2>6 DEF j
  <1> QED
    BY <1>1, <1>5, <1>6 DEF Mount, q

(***************************************************************************)
(* A page is opened: nobody is inside, and no gate but its own is live.    *)
(***************************************************************************)
LEMMA Arrives ==
  ASSUME SessionInv, UNCHANGED <<server, selected>>, NEW p \in Pages,
         NEW tok \in 0 .. Len(members), NEW w, NEW late,
         \A k \in late : JobOK(k)',
         Arrive(p, tok, w, late), token' = tok,
         wallet' \in Wallets \cup {None}, clicks' \in 0 .. MaxClicks
  PROVE  SessionInv'
  <1>1. /\ members' = members /\ challenge' = challenge /\ nonces' = nonces
        /\ selected' = selected
    BY DEF server
  <1>2. /\ page' = Admitted(p, tok) /\ nav' = 0 /\ ready' = FALSE
        /\ jobs' = late \cup Mount(Admitted(p, tok), tok, w)
    BY DEF Arrive
  <1>3. page' \in Pages /\ \A k \in Mount(page', tok, w) : JobOK(k)'
    BY <1>1, <1>2, MountedJobs
  <1>4. JobsInv'
    BY <1>2, <1>3 DEF JobsInv
  <1>5. MembersInv' /\ ServerInv' /\ WalletsAreUnique' /\ PagesAreGated'
    BY <1>1, <1>2 DEF SessionInv, MembersInv, ServerInv, WalletsAreUnique, Ids, PagesAreGated
  <1>6. TabInv'
    <2>1. Len(members) \in Nat
      BY RowsTyped DEF SessionInv
    <2>2. /\ token' \in 0 .. Len(members') /\ nav' \in 0 .. Len(members')
          /\ selected' \in Wallets
      BY <1>1, <1>2, <2>1 DEF SessionInv, TabInv
    <2>3. ready' \in BOOLEAN
      BY <1>2
    <2> QED
      BY <1>3, <2>2, <2>3 DEF TabInv
  <1> QED
    BY <1>4, <1>5, <1>6 DEF SessionInv

(***************************************************************************)
(* A full load of a page.                                                  *)
(***************************************************************************)
LEMMA Loads ==
  ASSUME SessionInv, UNCHANGED <<server, selected>>, NEW p \in Pages,
         NEW tok \in 0 .. Len(members), NEW w, LoadPage(p, tok, w), token' = tok,
         wallet' \in Wallets \cup {None}, clicks' \in 0 .. MaxClicks
  PROVE  SessionInv'
  <1> DEFINE late == {[j EXCEPT !.kind = "gone", !.live = FALSE] :
                         j \in {k \in jobs : k.at \in AtServer}}
  <1>1. \A k \in late : JobOK(k)'
    <2> SUFFICES ASSUME NEW j \in jobs
                 PROVE  JobOK([j EXCEPT !.kind = "gone", !.live = FALSE])'
      BY DEF late
    <2> DEFINE k == [j EXCEPT !.kind = "gone", !.live = FALSE]
    <2>1. j \in JobRow
      BY DEF SessionInv, JobsInv, JobOK
    <2>2. /\ k \in JobRow /\ ~k.live /\ k.at = j.at /\ k.token = j.token
          /\ k.wallet = j.wallet /\ k.base = j.base /\ k.got = j.got
      BY <2>1 DEF JobRow, Kinds
    <2> HIDE DEF k
    <2>3. members' = members
      BY DEF server
    <2>4. JobOK(k)'
      BY <2>2, <2>3, JobLate
    <2> QED
      BY <2>4 DEF k
  <1>2. Arrive(p, tok, w, late)
    BY DEF LoadPage
  <1> HIDE DEF late
  <1> QED
    BY <1>1, <1>2, Arrives

(***************************************************************************)
(* A navigation inside the application.                                    *)
(***************************************************************************)
LEMMA Goes ==
  ASSUME SessionInv, UNCHANGED <<server, token, wallet, selected>>, NEW p \in Pages,
         NEW rest \in SUBSET jobs, GoTo(p, rest), clicks' \in 0 .. MaxClicks
  PROVE  SessionInv'
  <1>1. CASE Admitted(p, token) = page
    <2>1. jobs' = rest /\ UNCHANGED <<page, nav, ready>>
      BY <1>1 DEF GoTo
    <2>2. members' = members /\ ServerInv'
      BY DEF SessionInv, ServerInv, server
    <2> QED
      BY <2>1, <2>2, QuietTab DEF SessionInv, TabInv
  <1>2. CASE Admitted(p, token) # page
    <2>1. Arrive(p, token, wallet, LateJobs(rest))
      BY <1>2 DEF GoTo
    <2>2. \A k \in LateJobs(rest) : JobOK(k)'
      <3> SUFFICES ASSUME NEW j \in jobs PROVE JobOK([j EXCEPT !.live = FALSE])'
        BY DEF LateJobs
      <3> DEFINE k == [j EXCEPT !.live = FALSE]
      <3>1. j \in JobRow
        BY DEF SessionInv, JobsInv, JobOK
      <3>2. /\ k \in JobRow /\ ~k.live /\ k.at = j.at /\ k.token = j.token
            /\ k.wallet = j.wallet /\ k.base = j.base /\ k.got = j.got
        BY <3>1 DEF JobRow
      <3> HIDE DEF k
      <3>3. members' = members
        BY DEF server
      <3>4. JobOK(k)'
        BY <3>2, <3>3, JobLate
      <3> QED
        BY <3>4 DEF k
    <2>3. token \in 0 .. Len(members) /\ wallet \in Wallets \cup {None}
      BY DEF SessionInv, TabInv
    <2> QED
      BY <2>1, <2>2, <2>3, Arrives
  <1> QED
    BY <1>1, <1>2

(***************************************************************************)
(* What the visitor does.                                                  *)
(***************************************************************************)
LEMMA NewJobOK ==
  ASSUME SessionInv, NEW kind \in Kinds \ {"gate"}, NEW at \in {"connect", "password"},
         members' = members
  PROVE  JobOK(Job(kind, at))' /\ \A b \in BOOLEAN : JobOK([Job(kind, at) EXCEPT !.named = b])'
  <1> DEFINE j == Job(kind, at)
  <1>1. at \in Places
    BY DEF Places
  <1>2. NewRow(j, kind, at)
    BY <1>1, NewJob
  <1> HIDE DEF j
  <1>3. Len(members') \in Nat /\ Failed.id = 0
    BY RowsTyped DEF SessionInv, Failed
  <1>4. JobOK(j)'
    BY <1>2, <1>3 DEF NewRow, JobOK, WalletPlaces, TokenPlaces
  <1>5. ASSUME NEW b \in BOOLEAN PROVE JobOK([j EXCEPT !.named = b])'
    <2> DEFINE k == [j EXCEPT !.named = b]
    <2>1. k \in JobRow /\ k.kind = kind /\ k.at = at /\ k.token = 0 /\ k.got = Failed
      BY <1>2 DEF NewRow, JobRow
    <2> HIDE DEF k
    <2>2. JobOK(k)'
      BY <1>3, <2>1 DEF JobOK, WalletPlaces, TokenPlaces
    <2> QED
      BY <2>2 DEF k
  <1> QED
    BY <1>4, <1>5 DEF j

(***************************************************************************)
(* The clicks stay within their bound.                                     *)
(***************************************************************************)
LEMMA ClicksTyped ==
  ASSUME SessionInv, Click PROVE clicks' \in 0 .. MaxClicks /\ clicks' = clicks + 1
  BY SessionConstants DEF SessionInv, TabInv, Click

(***************************************************************************)
(* What the server keeps stays when nothing is asked of it.                *)
(***************************************************************************)
LEMMA ServerSame ==
  ASSUME SessionInv, UNCHANGED server PROVE members' = members /\ ServerInv'
  BY DEF SessionInv, ServerInv, server

(***************************************************************************)
(* The login cards.                                                        *)
(***************************************************************************)
LEMMA StartsKeep ==
  ASSUME SessionInv,
         \/ \E k \in WalletLogins, named \in BOOLEAN : handleWalletLogin(k, named)
         \/ NavWalletLogin \/ handleAdminLogin
  PROVE  SessionInv'
  <1>1. ASSUME NEW kind \in WalletLogins, NEW named \in BOOLEAN, StartLogin(kind, named)
        PROVE  SessionInv'
    <2>1. /\ Click /\ UNCHANGED <<server, page, nav, ready, selected>>
          /\ token' = 0 /\ wallet' = None
          /\ jobs' = jobs \cup {[Job(kind, "connect") EXCEPT !.named = named]}
      BY <1>1 DEF StartLogin
    <2>2. members' = members /\ ServerInv'
      BY <2>1, ServerSame DEF server
    <2>3. kind \in Kinds \ {"gate"}
      BY DEF Kinds, Logins, WalletLogins
    <2>4. JobOK([Job(kind, "connect") EXCEPT !.named = named])'
      BY <2>2, <2>3, NewJobOK
    <2>5. clicks' \in 0 .. MaxClicks
      BY <2>1, ClicksTyped
    <2> QED
      BY <2>1, <2>2, <2>4, <2>5, QuietTab DEF SessionInv, TabInv
  <1>2. CASE \E k \in WalletLogins, named \in BOOLEAN : handleWalletLogin(k, named)
    BY <1>1, <1>2 DEF handleWalletLogin
  <1>3. CASE NavWalletLogin
    BY <1>1, <1>3 DEF NavWalletLogin, WalletLogins
  <1>4. CASE handleAdminLogin
    <2>1. /\ Click /\ UNCHANGED <<server, page, wallet, nav, ready, selected>>
          /\ token' = 0 /\ jobs' = jobs \cup {Job("admin", "password")}
      BY <1>4 DEF handleAdminLogin
    <2>2. members' = members /\ ServerInv'
      BY <2>1, ServerSame DEF server
    <2>3. "admin" \in Kinds \ {"gate"}
      BY DEF Kinds, Logins
    <2>4. JobOK(Job("admin", "password"))'
      BY <2>2, <2>3, NewJobOK
    <2>5. clicks' \in 0 .. MaxClicks
      BY <2>1, ClicksTyped
    <2> QED
      BY <2>1, <2>2, <2>4, <2>5, QuietTab DEF SessionInv, TabInv
  <1> QED
    BY <1>2, <1>3, <1>4

(***************************************************************************)
(* The buttons of the subscription and account pages.                      *)
(***************************************************************************)
LEMMA AsksKeep ==
  ASSUME SessionInv, Subscribe \/ Renew \/ Cancel \/ ChangeWallet \/ UnlinkWallet
  PROVE  SessionInv'
  <1>1. PICK kind \in Asking, at \in {"price", "cancel", "connect", "unlink"} : Ask(kind, at)
    BY DEF Subscribe, Renew, Cancel, ChangeWallet, UnlinkWallet, Asking
  <1>2. /\ Click /\ UNCHANGED <<server, page, token, wallet, nav, ready, selected>>
        /\ token # 0
        /\ jobs' = jobs \cup {[Job(kind, at) EXCEPT !.token = token]}
    BY <1>1 DEF Ask
  <1>3. members' = members /\ ServerInv'
    BY <1>2, ServerSame DEF server
  <1>a. PICK k : k = [Job(kind, at) EXCEPT !.token = token]
    OBVIOUS
  <1>4. JobOK(k)'
    <2> DEFINE j == Job(kind, at)
    <2>1. kind \in Kinds /\ at \in Places /\ kind # "gate"
      BY DEF Kinds, Places, Asking
    <2>2. NewRow(j, kind, at)
      BY <2>1, NewJob
    <2> HIDE DEF j
    <2>3. Len(members') \in Nat /\ Failed.id = 0 /\ token \in 0 .. Len(members')
      BY <1>3, RowsTyped DEF SessionInv, TabInv, Failed
    <2>4. k \in JobRow /\ k.kind = kind /\ k.at = at /\ k.token = token /\ k.got = Failed
      <3>1. k = [j EXCEPT !.token = token]
        BY <1>a DEF j
      <3> QED
        BY <2>2, <2>3, <3>1, OneField DEF NewRow, SameBut
    <2> QED
      BY <1>2, <2>1, <2>3, <2>4 DEF JobOK, WalletPlaces, TokenPlaces
  <1>5. clicks' \in 0 .. MaxClicks
    BY <1>2, ClicksTyped
  <1> QED
    BY <1>2, <1>3, <1>4, <1>5, <1>a, QuietTab DEF SessionInv, TabInv

(***************************************************************************)
(* Everything the visitor does.                                            *)
(***************************************************************************)
LEMMA VisitorKeeps ==
  ASSUME SessionInv, Visitor PROVE SessionInv'
  <1>1. ASSUME NEW p \in Pages, FollowLink(p) PROVE SessionInv'
    BY <1>1, ClicksTyped, Goes DEF FollowLink
  <1>2. ASSUME NEW p \in Pages, Visit(p) PROVE SessionInv'
    <2>1. /\ Click /\ LoadPage(p, token, wallet) /\ UNCHANGED <<server, token, wallet, selected>>
      BY <1>2 DEF Visit
    <2>2. token \in 0 .. Len(members) /\ wallet \in Wallets \cup {None}
      BY DEF SessionInv, TabInv
    <2> QED
      BY <2>1, <2>2, ClicksTyped, Loads
  <1>3. ASSUME NEW w \in Wallets, SwitchAccount(w) PROVE SessionInv'
    <2>1. Click /\ selected' = w /\ UNCHANGED <<server, tab>>
      BY <1>3 DEF SwitchAccount
    <2>2. members' = members /\ ServerInv'
      BY <2>1, ServerSame
    <2> QED
      BY <2>1, <2>2, ClicksTyped, QuietTab DEF SessionInv, TabInv, tab
  <1>4. CASE Logout
    <2>1. /\ Click /\ token' = 0 /\ wallet' = None /\ LoadPage(Landing, 0, None)
          /\ UNCHANGED <<server, selected>>
      BY <1>4 DEF Logout
    <2>2. 0 \in 0 .. Len(members) /\ Landing \in Pages
      BY RowsTyped DEF SessionInv, Pages
    <2> QED
      BY <2>1, <2>2, ClicksTyped, Loads
  <1> QED
    BY <1>1, <1>2, <1>3, <1>4, StartsKeep, AsksKeep DEF Visitor

(***************************************************************************)
(* The next job of a request that is answered.                             *)
(***************************************************************************)
LEMMA NextJobs ==
  ASSUME SessionInv, NEW j \in jobs, NEW k,
         Resume(j, k), JobOK(k)'
  PROVE  \A i \in jobs' : i \in jobs \/ JobOK(i)'
  BY DEF Resume

(***************************************************************************)
(* A job that ends leaves the others.                                      *)
(***************************************************************************)
LEMMA LastJobs ==
  ASSUME NEW j, End(j) PROVE \A i \in jobs' : i \in jobs \/ JobOK(i)'
  BY DEF End

(***************************************************************************)
(* A job of another kind than a gate has moved on.                         *)
(***************************************************************************)
LEMMA MovedOn ==
  ASSUME SessionInv, NEW j \in jobs, NEW at \in Places, j.at \notin {"me", "answered"},
         members' = members,
         at \in WalletPlaces => j.wallet \in Wallets,
         at \in TokenPlaces => j.token # 0, at # "charge"
  PROVE  JobOK([j EXCEPT !.at = at])'
  <1> DEFINE k == [j EXCEPT !.at = at]
  <1>1. JobOK(j) /\ j \in JobRow
    BY DEF SessionInv, JobsInv, JobOK
  <1>2. SameBut(k, j, "at") /\ k.at = at
    BY <1>1, OneField
  <1> HIDE DEF k
  <1>3. ~(k.kind = "gate" /\ k.live)
    BY <1>1, <1>2 DEF JobOK, GateOK, SameBut
  <1>4. JobOK(k)'
    BY <1>1, <1>2, <1>3 DEF JobOK, SameBut
  <1> QED
    BY <1>4 DEF k

(***************************************************************************)
(* The wallet extension answers.                                           *)
(***************************************************************************)
LEMMA ExtensionKeeps ==
  ASSUME SessionInv, NEW j \in jobs, Extension(j) PROVE SessionInv'
  <1>1. UNCHANGED server /\ UNCHANGED <<page, token, nav, ready, selected, clicks>>
    BY DEF Extension, AccountsRead, Connected, Signed, Declined
  <1>2. members' = members /\ ServerInv'
    BY <1>1, ServerSame
  <1>3. JobOK(j) /\ j \in JobRow
    BY DEF SessionInv, JobsInv, JobOK
  <1>4. /\ Len(members) \in Nat /\ token \in 0 .. Len(members) /\ selected \in Wallets
        /\ token \in Nat
    BY RowsTyped DEF SessionInv, TabInv
  <1>5. wallet' \in Wallets \cup {None}
    BY DEF Extension, AccountsRead, Connected, Signed, Declined, SessionInv, TabInv
  <1>6. \A k \in jobs' : k \in jobs \/ JobOK(k)'
    <2>1. ASSUME AccountsRead(j) PROVE \A k \in jobs' : k \in jobs \/ JobOK(k)'
      <3> DEFINE i == [j EXCEPT !.at = "me"]
      <3>a. PICK k : k = [i EXCEPT !.token = token]
        OBVIOUS
      <3>1. "me" \in Places
        BY DEF Places
      <3>2. SameBut(i, j, "at") /\ i.at = "me" /\ i \in JobRow
        BY <1>3, <3>1, OneField DEF SameBut
      <3>3. [j EXCEPT !.at = "me", !.token = token] = k
        BY <1>3, <3>a DEF JobRow
      <3> HIDE DEF i
      <3>4. SameBut(k, i, "token") /\ k.token = token
        BY <1>4, <3>2, <3>a, OneField
      <3>5. k.kind = j.kind /\ k.at = "me" /\ k.got = j.got /\ k \in JobRow
        BY <3>2, <3>4 DEF SameBut
      <3>6. j.at = "accounts"
        BY <2>1 DEF AccountsRead
      <3>7. ~(k.kind = "gate" /\ k.live)
        BY <1>3, <3>2, <3>4, <3>6 DEF JobOK, GateOK, SameBut
      <3>8. JobOK(k)'
        BY <1>2, <1>3, <1>4, <3>4, <3>5, <3>7 DEF JobOK, WalletPlaces, TokenPlaces
      <3>9. Resume(j, k) \/ End(j)
        BY <2>1, <3>3 DEF AccountsRead
      <3> QED
        BY <3>8, <3>9, NextJobs, LastJobs
    <2>2. ASSUME Connected(j) PROVE \A k \in jobs' : k \in jobs \/ JobOK(k)'
      <3>1. j.at = "connect"
        BY <2>2 DEF Connected
      <3>2. ~(j.kind = "gate" /\ j.live)
        BY <1>3, <3>1 DEF JobOK, GateOK
      <3>3. CASE j.kind = "change"
        <4> DEFINE i == [j EXCEPT !.at = "link"]
                   h == [i EXCEPT !.wallet = selected]
        <4>a. PICK k : k = [h EXCEPT !.token = token]
          OBVIOUS
        <4>1. "link" \in Places
          BY DEF Places
        <4>2. SameBut(i, j, "at") /\ i.at = "link" /\ i \in JobRow
          BY <1>3, <4>1, OneField DEF SameBut
        <4>3. [j EXCEPT !.at = "link", !.wallet = selected, !.token = token] = k
          BY <1>3, <4>a DEF JobRow
        <4> HIDE DEF i
        <4>4. SameBut(h, i, "wallet") /\ h.wallet = selected /\ h \in JobRow
          BY <1>4, <4>2, OneField DEF SameBut
        <4> HIDE DEF h
        <4>5. SameBut(k, h, "token") /\ k.token = token
          BY <1>4, <4>4, <4>a, OneField
        <4>6. /\ k \in JobRow /\ k.at = "link" /\ k.token = token /\ k.wallet = selected
              /\ k.kind = j.kind /\ k.got = j.got
          BY <4>2, <4>4, <4>5 DEF SameBut
        <4>7. JobOK(k)'
          BY <1>2, <1>3, <1>4, <3>3, <4>6 DEF JobOK, WalletPlaces, TokenPlaces
        <4>8. Resume(j, k)
          BY <2>2, <3>3, <4>3 DEF Connected
        <4> QED
          BY <4>7, <4>8, NextJobs
      <3>4. CASE j.kind # "change"
        <4> DEFINE i == [j EXCEPT !.at = "challenge"]
        <4>a. PICK k : k = [i EXCEPT !.wallet = selected]
          OBVIOUS
        <4>1. "challenge" \in Places
          BY DEF Places
        <4>2. SameBut(i, j, "at") /\ i.at = "challenge" /\ i \in JobRow
          BY <1>3, <4>1, OneField DEF SameBut
        <4>3. [j EXCEPT !.at = "challenge", !.wallet = selected] = k
          BY <1>3, <4>a DEF JobRow
        <4> HIDE DEF i
        <4>4. SameBut(k, i, "wallet") /\ k.wallet = selected /\ k \in JobRow
          BY <1>4, <4>2, <4>a, OneField DEF SameBut
        <4>5. /\ k.at = "challenge" /\ k.token = j.token
              /\ k.kind = j.kind /\ k.live = j.live /\ k.got = j.got
          BY <4>2, <4>4 DEF SameBut
        <4>6. JobOK(k)'
          BY <1>2, <1>3, <1>4, <3>2, <4>4, <4>5 DEF JobOK, WalletPlaces, TokenPlaces
        <4>7. Resume(j, k)
          BY <2>2, <3>4, <4>3 DEF Connected
        <4> QED
          BY <4>6, <4>7, NextJobs
      <3> QED
        BY <3>3, <3>4
    <2>3. ASSUME Signed(j) PROVE \A k \in jobs' : k \in jobs \/ JobOK(k)'
      <3>1. j.at = "sign" /\ Resume(j, [j EXCEPT !.at = "verify"])
        BY <2>3 DEF Signed
      <3>2. j.wallet \in Wallets
        BY <1>3, <3>1 DEF JobOK, WalletPlaces
      <3>3. JobOK([j EXCEPT !.at = "verify"])'
        BY <1>2, <3>1, <3>2, MovedOn DEF Places, TokenPlaces
      <3> QED
        BY <3>1, <3>3, NextJobs
    <2>4. ASSUME Declined(j) PROVE \A k \in jobs' : k \in jobs \/ JobOK(k)'
      BY <2>4, LastJobs DEF Declined
    <2> QED
      BY <2>1, <2>2, <2>3, <2>4 DEF Extension
  <1> QED
    BY <1>1, <1>2, <1>4, <1>5, <1>6, QuietTab DEF SessionInv, TabInv

(***************************************************************************)
(* What the server says of a member.                                       *)
(***************************************************************************)
LEMMA MeTyped ==
  ASSUME SessionInv, NEW m \in Ids
  PROVE  /\ Me(m) \in Answers /\ Me(m).id = m /\ m # 0
         /\ Me(m).admin = members[m].admin
         /\ Me(m).active => members[m].credits < Credits
  <1>1. /\ Ids = 1 .. Len(members) /\ Len(members) \in Nat
        /\ members[m].admin \in BOOLEAN
        /\ members[m].until > 0 => members[m].credits < Credits
    BY RowsTyped DEF SessionInv
  <1> DEFINE a == members[m].until > 0
  <1>2. a \in BOOLEAN /\ (a => members[m].credits < Credits)
    BY <1>1
  <1>3. Me(m) = [id |-> m, admin |-> members[m].admin, active |-> a]
    BY DEF Me
  <1> HIDE DEF a
  <1>4. m \in Nat /\ m # 0
    BY <1>1
  <1>5. Me(m).id = m /\ Me(m).admin = members[m].admin /\ Me(m).active = a
    BY <1>3
  <1>6. Me(m) \in Answers
    BY <1>1, <1>2, <1>3, <1>4 DEF Answers
  <1> QED
    BY <1>2, <1>4, <1>5, <1>6

(***************************************************************************)
(* A job that has its answer.                                              *)
(***************************************************************************)
LEMMA AnsweredJob ==
  ASSUME SessionInv, NEW j \in jobs, NEW g \in Answers,
         g.id \in 0 .. Len(members'),
         Len(members') \in Nat /\ Len(members) <= Len(members'),
         ~(j.kind = "gate" /\ j.live)
  PROVE  JobOK([j EXCEPT !.at = "answered", !.got = g])'
  <1> DEFINE i == [j EXCEPT !.at = "answered"]
             k == [i EXCEPT !.got = g]
  <1>1. JobOK(j) /\ j \in JobRow /\ "answered" \in Places
    BY DEF SessionInv, JobsInv, JobOK, Places
  <1>2. SameBut(i, j, "at") /\ i.at = "answered" /\ i \in JobRow
    BY <1>1, OneField DEF SameBut
  <1>3. [j EXCEPT !.at = "answered", !.got = g] = k
    BY <1>1 DEF JobRow
  <1> HIDE DEF i
  <1>4. SameBut(k, i, "got") /\ k.got = g
    BY <1>2, OneField
  <1> HIDE DEF k
  <1>5. /\ k \in JobRow /\ k.at = "answered" /\ k.token = j.token /\ k.kind = j.kind
        /\ k.live = j.live
    BY <1>2, <1>4 DEF SameBut
  <1>6. Len(members) \in Nat
    BY RowsTyped DEF SessionInv
  <1>7. k.token \in 0 .. Len(members')
    BY <1>1, <1>5, <1>6 DEF JobOK
  <1>8. JobOK(k)'
    BY <1>4, <1>5, <1>7 DEF JobOK, WalletPlaces, TokenPlaces
  <1> QED
    BY <1>3, <1>8

(***************************************************************************)
(* The same, of a live gate: it is told of the member it asked for, or     *)
(* nothing.                                                                *)
(***************************************************************************)
LEMMA AnsweredGate ==
  ASSUME SessionInv, members' = members, page' = page, token' = token,
         NEW j \in jobs, NEW g \in {Failed, Me(j.token)}, j.at = "me",
         g = Failed \/ j.token # 0
  PROVE  JobOK([j EXCEPT !.at = "answered", !.got = g])'
  <1>1. JobOK(j) /\ j \in JobRow
    BY DEF SessionInv, JobsInv, JobOK
  <1>2. Len(members) \in Nat /\ Ids = 1 .. Len(members) /\ Failed \in Answers /\ Failed.id = 0
    BY RowsTyped DEF SessionInv, Failed, Answers
  <1>3. /\ g \in Answers /\ g.id \in 0 .. Len(members)
        /\ g.id # 0 => /\ g.id = j.token /\ g.admin = members[j.token].admin
                       /\ g.active => members[j.token].credits < Credits
    <2>1. CASE g = Failed
      BY <1>2, <2>1
    <2>2. CASE g = Me(j.token) /\ j.token # 0
      <3>1. j.token \in Ids
        BY <1>1, <1>2, <2>2 DEF JobOK
      <3> QED
        BY <1>2, <2>2, <3>1, MeTyped
    <2> QED
      BY <2>1, <2>2
  <1>4. CASE ~(j.kind = "gate" /\ j.live)
    <2>1. Len(members') \in Nat /\ Len(members) <= Len(members') /\ g.id \in 0 .. Len(members')
      BY <1>2, <1>3
    <2> QED
      BY <1>3, <1>4, <2>1, AnsweredJob
  <1>5. CASE j.kind = "gate" /\ j.live
    <2>1. GateOK(j)
      BY <1>1, <1>5 DEF JobOK
    <2> DEFINE i == [j EXCEPT !.at = "answered"]
    <2>a. PICK k : k = [i EXCEPT !.got = g]
      OBVIOUS
    <2>2. "answered" \in Places
      BY DEF Places
    <2>3. SameBut(i, j, "at") /\ i.at = "answered" /\ i \in JobRow
      BY <1>1, <2>2, OneField DEF SameBut
    <2>4. [j EXCEPT !.at = "answered", !.got = g] = k
      BY <1>1, <2>a DEF JobRow
    <2> HIDE DEF i
    <2>5. SameBut(k, i, "got") /\ k.got = g
      BY <1>3, <2>3, <2>a, OneField
    <2>6. k \in JobRow /\ k.at = "answered" /\ k.token = j.token /\ k.page = j.page
      BY <2>3, <2>5 DEF SameBut
    <2>7. GateOK(k)'
      BY <1>3, <2>1, <2>5, <2>6 DEF GateOK
    <2>8. JobOK(k)'
      BY <1>1, <1>3, <2>5, <2>6, <2>7 DEF JobOK, WalletPlaces, TokenPlaces
    <2> QED
      BY <2>4, <2>8
  <1> QED
    BY <1>4, <1>5

(***************************************************************************)
(* Answers that change no row of members.                                  *)
(***************************************************************************)
LEMMA ReadsKeep ==
  ASSUME SessionInv, NEW j \in jobs,
         \/ RequestFails(j) \/ AnswerMe(j) \/ StartWalletAuth(j) \/ VerifyChallenge(j)
         \/ LookUpMember(j) \/ PasswordLogin(j) \/ PayReadsExpiry(j)
  PROVE  SessionInv'
  <1>1. members' = members /\ UNCHANGED <<page, token, wallet, nav, ready, selected, clicks>>
    BY DEF RequestFails, AnswerMe, StartWalletAuth, VerifyChallenge, LookUpMember,
           PasswordLogin, PayReadsExpiry, server
  <1>2. JobOK(j) /\ j \in JobRow
    BY DEF SessionInv, JobsInv, JobOK
  <1>3. Len(members) \in Nat /\ Ids = 1 .. Len(members)
    BY RowsTyped DEF SessionInv
  <1>4. challenge \in [Wallets -> 0 .. nonces] /\ nonces \in Nat
    BY DEF SessionInv, ServerInv
  <1>5. j.at \notin {"me", "answered"} => ~(j.kind = "gate" /\ j.live)
    BY <1>2 DEF JobOK, GateOK
  <1>a. Len(members') \in Nat /\ Len(members) <= Len(members')
    BY <1>1, <1>3
  <1>6. SUFFICES ServerInv' /\ \A k \in jobs' : k \in jobs \/ JobOK(k)'
    BY <1>1, <1>6, QuietTab DEF SessionInv, TabInv
  <1>7. CASE RequestFails(j)
    <2>1. ServerInv'
      BY <1>7, ServerSame DEF RequestFails
    <2>2. CASE j.at = "me"
      <3>1. JobOK([j EXCEPT !.at = "answered", !.got = Failed])'
        BY <1>1, <2>2, AnsweredGate
      <3> QED
        BY <1>7, <2>1, <2>2, <3>1, NextJobs DEF RequestFails
    <2>3. CASE j.at # "me"
      BY <1>7, <2>1, <2>3, LastJobs DEF RequestFails
    <2> QED
      BY <2>2, <2>3
  <1>8. CASE AnswerMe(j)
    <2>1. ServerInv'
      BY <1>8, ServerSame DEF AnswerMe
    <2>2. PICK g : g = Me(j.token)
      OBVIOUS
    <2>3. JobOK([j EXCEPT !.at = "answered", !.got = g])'
      BY <1>1, <1>8, <2>2, AnsweredGate DEF AnswerMe
    <2> QED
      BY <1>8, <2>1, <2>2, <2>3, NextJobs DEF AnswerMe
  <1>9. CASE StartWalletAuth(j)
    <2>1. /\ j.at = "challenge" /\ nonces' = nonces + 1
          /\ challenge' = [challenge EXCEPT ![j.wallet] = nonces + 1]
          /\ Resume(j, [j EXCEPT !.at = "sign", !.nonce = nonces + 1])
      BY <1>9 DEF StartWalletAuth
    <2>2. j.wallet \in Wallets
      BY <1>2, <2>1 DEF JobOK, WalletPlaces
    <2>3. ServerInv'
      <3>1. nonces' \in Nat /\ \A x \in 0 .. nonces : x \in 0 .. nonces'
        BY <1>4, <2>1
      <3>2. nonces + 1 \in 0 .. nonces'
        BY <1>4, <2>1
      <3> QED
        BY <1>4, <2>1, <3>1, <3>2 DEF ServerInv
    <2> DEFINE i == [j EXCEPT !.at = "sign"]
    <2>a. PICK k : k = [i EXCEPT !.nonce = nonces + 1]
      OBVIOUS
    <2>4. "sign" \in Places
      BY DEF Places
    <2>5. SameBut(i, j, "at") /\ i.at = "sign" /\ i \in JobRow
      BY <1>2, <2>4, OneField DEF SameBut
    <2>6. [j EXCEPT !.at = "sign", !.nonce = nonces + 1] = k
      BY <1>2, <2>a DEF JobRow
    <2> HIDE DEF i
    <2>b. nonces + 1 \in Nat
      BY <1>4
    <2>7. /\ k \in JobRow /\ k.kind = i.kind /\ k.live = i.live /\ k.at = i.at
          /\ k.token = i.token /\ k.wallet = i.wallet /\ k.got = i.got
      BY <2>5, <2>a, <2>b, OtherFields
    <2>8. /\ k.kind = j.kind /\ k.live = j.live /\ k.at = "sign" /\ k.token = j.token
          /\ k.wallet = j.wallet /\ k.got = j.got
      BY <2>5, <2>7 DEF SameBut
    <2>9. JobOK(k)'
      BY <1>1, <1>2, <1>5, <2>1, <2>2, <2>7, <2>8 DEF JobOK, WalletPlaces, TokenPlaces
    <2> QED
      BY <2>1, <2>3, <2>6, <2>9, NextJobs
  <1>10. CASE VerifyChallenge(j)
    <2>1. /\ j.at = "verify" /\ nonces' = nonces
          /\ \/ Resume(j, [j EXCEPT !.at = "verified"]) /\ UNCHANGED challenge
             \/ End(j) /\ UNCHANGED challenge
             \/ End(j) /\ challenge' = [challenge EXCEPT ![j.wallet] = 0]
      BY <1>10 DEF VerifyChallenge
    <2>2. ServerInv'
      BY <1>4, <2>1 DEF ServerInv
    <2>3. j.wallet \in Wallets
      BY <1>2, <2>1 DEF JobOK, WalletPlaces
    <2>4. JobOK([j EXCEPT !.at = "verified"])'
      BY <1>1, <2>1, <2>3, MovedOn DEF Places, TokenPlaces
    <2> QED
      BY <2>1, <2>2, <2>4, NextJobs, LastJobs
  <1>11. CASE LookUpMember(j)
    <2>1. /\ j.at = "verified" /\ nonces' = nonces
          /\ challenge' = [challenge EXCEPT ![j.wallet] = 0]
          /\ \/ \E m \in MembersWith(j.wallet) :
                   Resume(j, [j EXCEPT !.at = "answered", !.got = Me(m)])
             \/ Resume(j, [j EXCEPT !.at = "create"])
             \/ End(j)
      BY <1>11 DEF LookUpMember
    <2>2. ServerInv'
      <3>1. nonces' = nonces /\ challenge' = [challenge EXCEPT ![j.wallet] = 0]
        BY <2>1
      <3>2. 0 \in 0 .. nonces
        BY <1>4
      <3>3. challenge' \in [Wallets -> 0 .. nonces']
        BY <1>4, <3>1, <3>2
      <3> QED
        BY <1>4, <3>1, <3>3 DEF ServerInv
    <2>3. j.wallet \in Wallets
      BY <1>2, <2>1 DEF JobOK, WalletPlaces
    <2>4. JobOK([j EXCEPT !.at = "create"])'
      BY <1>1, <2>1, <2>3, MovedOn DEF Places, TokenPlaces
    <2>5. ASSUME NEW m \in MembersWith(j.wallet),
                 Resume(j, [j EXCEPT !.at = "answered", !.got = Me(m)])
          PROVE  \A k \in jobs' : k \in jobs \/ JobOK(k)'
      <3>1. PICK g : g = Me(m)
        OBVIOUS
      <3>2. m \in Ids
        BY DEF MembersWith
      <3>3. g \in Answers /\ g.id \in 0 .. Len(members')
        BY <1>1, <1>3, <3>1, <3>2, MeTyped
      <3>4. JobOK([j EXCEPT !.at = "answered", !.got = g])'
        <4>1. ~(j.kind = "gate" /\ j.live)
          BY <1>5, <2>1
        <4> QED
          BY <1>a, <3>3, <4>1, AnsweredJob
      <3> QED
        BY <2>5, <3>1, <3>4, NextJobs
    <2> QED
      BY <2>1, <2>2, <2>4, <2>5, NextJobs, LastJobs
  <1>12. CASE PasswordLogin(j)
    <2>1. PICK m \in Ids : Resume(j, [j EXCEPT !.at = "answered", !.got = Me(m)])
      BY <1>12 DEF PasswordLogin
    <2>2. ServerInv' /\ j.at = "password"
      BY <1>12, ServerSame DEF PasswordLogin
    <2>3. PICK g : g = Me(m)
      OBVIOUS
    <2>4. g \in Answers /\ g.id \in 0 .. Len(members')
      BY <1>1, <1>3, <2>1, <2>3, MeTyped
    <2>5. JobOK([j EXCEPT !.at = "answered", !.got = g])'
      <3>1. ~(j.kind = "gate" /\ j.live)
        BY <1>5, <2>2
      <3> QED
        BY <1>a, <2>4, <3>1, AnsweredJob
    <2> QED
      BY <2>1, <2>2, <2>3, <2>5, NextJobs
  <1>13. CASE PayReadsExpiry(j)
    <2>1. j.at = "price" /\ Resume(j, [j EXCEPT !.at = "charge", !.base = members[j.token].until])
      BY <1>13 DEF PayReadsExpiry
    <2>2. ServerInv'
      BY <1>13, ServerSame DEF PayReadsExpiry
    <2>3. j.token \in Ids /\ j.token # 0
      BY <1>2, <1>3, <2>1 DEF JobOK, TokenPlaces
    <2>4. /\ members[j.token].until \in Nat
          /\ members[j.token].until + members[j.token].credits <= Credits
      BY <2>3, RowsTyped, SessionConstants DEF SessionInv, MembersInv
    <2> DEFINE i == [j EXCEPT !.at = "charge"]
    <2>a. PICK k : k = [i EXCEPT !.base = members[j.token].until]
      OBVIOUS
    <2>5. "charge" \in Places
      BY DEF Places
    <2>6. SameBut(i, j, "at") /\ i.at = "charge" /\ i \in JobRow
      BY <1>2, <2>5, OneField DEF SameBut
    <2>7. [j EXCEPT !.at = "charge", !.base = members[j.token].until] = k
      BY <1>2, <2>a DEF JobRow
    <2> HIDE DEF i
    <2>8. SameBut(k, i, "base") /\ k.base = members[j.token].until
      BY <2>4, <2>6, <2>a, OneField
    <2>9. /\ k \in JobRow /\ k.at = "charge" /\ k.token = j.token /\ k.kind = j.kind
          /\ k.live = j.live /\ k.got = j.got
      BY <2>6, <2>8 DEF SameBut
    <2>10. JobOK(k)'
      BY <1>1, <1>2, <1>5, <2>1, <2>3, <2>4, <2>8, <2>9 DEF JobOK, WalletPlaces, TokenPlaces
    <2> QED
      BY <2>1, <2>2, <2>7, <2>10, NextJobs
  <1> QED
    BY <1>7, <1>8, <1>9, <1>10, <1>11, <1>12, <1>13

(***************************************************************************)
(* A member's wallet changes only to one that is free.                     *)
(***************************************************************************)
LEMMA BindKeeps ==
  ASSUME SessionInv, NEW m \in Ids, NEW w \in Wallets \cup {Unlinked}, Bound(m, w)
  PROVE  MembersInv' /\ MembersGrow /\ WalletsAreUnique' /\ Len(members') = Len(members)
  <1>1. /\ Ids = 1 .. Len(members) /\ Len(members) \in Nat /\ members \in Seq(Row)
        /\ \A n \in Ids : members[n] \in Row /\ members[n].credits \in 0 .. Credits
    BY RowsTyped DEF SessionInv, MembersInv
  <1>2. Free(m, w) /\ members' = [members EXCEPT ![m].wallet = w]
    BY DEF Bound
  <1> DEFINE r == [members[m] EXCEPT !.wallet = w]
  <1>3. /\ r \in Row /\ r.wallet = w /\ r.admin = members[m].admin
        /\ r.credits = members[m].credits /\ r.until = members[m].until
    BY <1>1 DEF Row
  <1>4. members' = [members EXCEPT ![m] = r]
    BY <1>2
  <1> HIDE DEF r
  <1>5. /\ members' \in Seq(Row) /\ Len(members') = Len(members)
        /\ members'[m] = r /\ \A n \in Ids : n # m => members'[n] = members[n]
    BY <1>1, <1>3, <1>4
  <1>6. \A n \in Ids : /\ members'[n].admin = members[n].admin
                       /\ members'[n].credits = members[n].credits
                       /\ members'[n].until = members[n].until
    BY <1>3, <1>5
  <1>7. MembersInv'
    BY <1>1, <1>5, <1>6 DEF SessionInv, MembersInv, Ids
  <1>8. MembersGrow
    BY <1>1, <1>5, <1>6, SessionConstants DEF MembersGrow
  <1>9. WalletsAreUnique'
    <2>1. Ids' = Ids
      BY <1>5 DEF Ids
    <2>2. \A n \in Ids : n # m => members'[n].wallet = members[n].wallet /\ members[n].wallet # w
      BY <1>2, <1>5 DEF Free
    <2>3. members'[m].wallet = w
      BY <1>3, <1>5
    <2> QED
      BY <2>1, <2>2, <2>3 DEF SessionInv, WalletsAreUnique
  <1> QED
    BY <1>5, <1>7, <1>8, <1>9

(***************************************************************************)
(* Answers that change one.                                                *)
(***************************************************************************)
LEMMA WritesKeep ==
  ASSUME SessionInv, NEW j \in jobs,
         \/ CreateMember(j) \/ BindWallet(j) \/ PayCharges(j) \/ CancelSubscription(j)
         \/ LinkWallet(j) \/ UnlinkMember(j)
  PROVE  SessionInv'
  <1>1. /\ challenge' = challenge /\ nonces' = nonces
        /\ UNCHANGED <<page, token, nav, ready, selected, clicks>>
        /\ wallet' \in {wallet, None}
    BY DEF CreateMember, BindWallet, PayCharges, CancelSubscription, LinkWallet, UnlinkMember
  <1>2. JobOK(j) /\ j \in JobRow
    BY DEF SessionInv, JobsInv, JobOK
  <1>3. /\ Len(members) \in Nat /\ Ids = 1 .. Len(members) /\ members \in Seq(Row)
        /\ \A m \in Ids : /\ members[m] \in Row
                          /\ members[m].credits \in 0 .. Credits
                          /\ members[m].until \in 0 .. Credits
                          /\ members[m].until + members[m].credits <= Credits
    BY RowsTyped DEF SessionInv, MembersInv
  <1>4. ServerInv'
    BY <1>1 DEF SessionInv, ServerInv
  <1>5. j.at \notin {"me", "answered"} => ~(j.kind = "gate" /\ j.live)
    BY <1>2 DEF JobOK, GateOK
  <1>6. ASSUME MembersInv', MembersGrow, WalletsAreUnique',
               \A k \in jobs' : k \in jobs \/ JobOK(k)'
        PROVE  SessionInv'
    <2>1. Len(members) <= Len(members') /\ Len(members') \in Nat
      BY <1>6 DEF MembersGrow, MembersInv
    <2>2. nav' \in 0 .. Len(members')
      BY <1>1, <1>3, <2>1 DEF SessionInv, TabInv
    <2> QED
      BY <1>1, <1>4, <1>6, <2>2, QuietStep DEF SessionInv, TabInv
  <1>7. j.at \in TokenPlaces => j.token \in Ids
    BY <1>2, <1>3 DEF JobOK
  <1>8. CASE CreateMember(j)
    <2> DEFINE r == NewMember(j.wallet, None, Len(members) = 0)
    <2>1. /\ j.at = "create" /\ members' = Append(members, r)
          /\ Resume(j, [j EXCEPT !.at = "bind", !.token = Len(members) + 1])
      BY <1>8 DEF CreateMember
    <2>2. j.wallet \in Wallets
      BY <1>2, <2>1 DEF JobOK, WalletPlaces
    <2>3. r \in Row /\ r.wallet = None /\ r.until = 0 /\ r.credits = Credits
      <3>1. (Len(members) = 0) \in BOOLEAN
        OBVIOUS
      <3>2. \A b \in BOOLEAN : NewMember(j.wallet, None, b) \in Row
        BY <2>2, SessionConstants DEF NewMember, Row
      <3>3. r \in Row
        BY <3>1, <3>2
      <3> QED
        BY <3>3 DEF NewMember
    <2> HIDE DEF r
    <2>4. /\ members' \in Seq(Row) /\ Len(members') = Len(members) + 1
          /\ members'[Len(members) + 1] = r
          /\ \A m \in Ids : members'[m] = members[m]
      BY <1>3, <2>1, <2>3
    <2>5. MembersInv'
      BY <1>3, <2>3, <2>4, SessionConstants DEF MembersInv, Ids
    <2>6. MembersGrow
      BY <1>3, <2>4, SessionConstants DEF MembersGrow
    <2>7. WalletsAreUnique'
      <3>1. Ids' = Ids \cup {Len(members) + 1}
        BY <1>3, <2>4 DEF Ids
      <3>2. members'[Len(members) + 1].wallet \notin Wallets
        BY <2>3, <2>4, SessionConstants
      <3> QED
        BY <2>4, <3>1, <3>2 DEF SessionInv, WalletsAreUnique
    <2> DEFINE i == [j EXCEPT !.at = "bind"]
    <2>a. PICK k : k = [i EXCEPT !.token = Len(members) + 1]
      OBVIOUS
    <2>8. "bind" \in Places
      BY DEF Places
    <2>9. SameBut(i, j, "at") /\ i.at = "bind" /\ i \in JobRow
      BY <1>2, <2>8, OneField DEF SameBut
    <2>10. [j EXCEPT !.at = "bind", !.token = Len(members) + 1] = k
      BY <1>2, <2>a DEF JobRow
    <2> HIDE DEF i
    <2>11. SameBut(k, i, "token") /\ k.token = Len(members) + 1
      BY <1>3, <2>9, <2>a, OneField
    <2>12. /\ k \in JobRow /\ k.at = "bind" /\ k.wallet = j.wallet /\ k.kind = j.kind
           /\ k.live = j.live /\ k.got = j.got
      BY <2>9, <2>11 DEF SameBut
    <2>13. k.token \in 0 .. Len(members') /\ k.token # 0 /\ k.got.id \in 0 .. Len(members')
      BY <1>2, <1>3, <2>4, <2>11, <2>12 DEF JobOK
    <2>14. ~(k.kind = "gate" /\ k.live)
      BY <1>5, <2>1, <2>12
    <2>15. JobOK(k)'
      BY <2>2, <2>12, <2>13, <2>14 DEF JobOK
    <2> QED
      BY <1>6, <2>1, <2>5, <2>6, <2>7, <2>10, <2>15, NextJobs
  <1>9. CASE BindWallet(j)
    <2>1. /\ j.at = "bind"
          /\ \/ /\ Bound(j.token, j.wallet)
                /\ Resume(j, [j EXCEPT !.at = "answered", !.got = Me(j.token)]) \/ End(j)
             \/ End(j) /\ members' = members
      BY <1>9 DEF BindWallet
    <2>2. j.wallet \in Wallets /\ j.token \in Ids
      BY <1>2, <1>7, <2>1 DEF JobOK, WalletPlaces, TokenPlaces
    <2>3. CASE members' = members /\ End(j)
      <3>1. wallet' \in Wallets \cup {None}
        BY <1>1 DEF SessionInv, TabInv
      <3> QED
        BY <1>1, <1>4, <2>3, <3>1, LastJobs, QuietTab DEF SessionInv, TabInv
    <2>4. CASE Bound(j.token, j.wallet) /\ End(j)
      BY <1>6, <2>2, <2>4, BindKeeps, LastJobs
    <2>5. CASE /\ Bound(j.token, j.wallet)
               /\ Resume(j, [j EXCEPT !.at = "answered", !.got = Me(j.token)])
      <3>1. MembersInv' /\ MembersGrow /\ WalletsAreUnique' /\ Len(members') = Len(members)
        BY <2>2, <2>5, BindKeeps
      <3>2. PICK g : g = Me(j.token)
        OBVIOUS
      <3>3. g \in Answers /\ g.id \in 0 .. Len(members')
        BY <1>3, <2>2, <3>1, <3>2, MeTyped
      <3>4. Len(members') \in Nat /\ Len(members) <= Len(members')
        BY <1>3, <3>1
      <3>5. ~(j.kind = "gate" /\ j.live)
        BY <1>5, <2>1
      <3>6. JobOK([j EXCEPT !.at = "answered", !.got = g])'
        BY <3>3, <3>4, <3>5, AnsweredJob
      <3> QED
        BY <1>6, <2>5, <3>1, <3>2, <3>6, NextJobs
    <2> QED
      BY <2>1, <2>3, <2>4, <2>5
  <1>10. CASE PayCharges(j)
    <2>1. /\ j.at = "charge"
          /\ \/ /\ CanPay(j.token)
                /\ members' = [members EXCEPT ![j.token].credits = @ - 1,
                                             ![j.token].until = j.base + 1]
                /\ Resume(j, [j EXCEPT !.at = "paid"])
             \/ End(j) /\ members' = members
      BY <1>10 DEF PayCharges
    <2>2. CASE members' = members /\ End(j)
      <3>1. wallet' \in Wallets \cup {None}
        BY <1>1 DEF SessionInv, TabInv
      <3> QED
        BY <1>1, <1>4, <2>2, <3>1, LastJobs, QuietTab DEF SessionInv, TabInv
    <2>3. CASE ~(members' = members /\ End(j))
      <3> DEFINE m == j.token
                 old == members[m]
                 h == [old EXCEPT !.credits = old.credits - 1]
                 r == [h EXCEPT !.until = j.base + 1]
                 mid == [members EXCEPT ![m].credits = old.credits - 1]
      <3>1. m \in Ids /\ j.base \in Nat /\ j.base + old.credits <= Credits
        BY <1>2, <1>7, <2>1 DEF JobOK, JobRow, TokenPlaces
      <3>2. old.credits \in 0 .. Credits /\ old.credits > 0 /\ Credits \in Nat
        BY <1>3, <2>1, <2>3, <3>1, SessionConstants DEF CanPay
      <3>3. old.credits - 1 \in 0 .. Credits /\ j.base + 1 \in 0 .. Credits
        BY <3>1, <3>2
      <3>4. old \in Row
        BY <1>3, <3>1
      <3>5. h \in Row /\ h.wallet = old.wallet /\ h.admin = old.admin /\ h.credits = old.credits - 1
        BY <3>3, <3>4 DEF Row
      <3>6. members' = [mid EXCEPT ![m].until = j.base + 1]
        BY <2>1, <2>3
      <3>7. mid = [members EXCEPT ![m] = h]
        BY <3>1
      <3> HIDE DEF h, mid
      <3>8. /\ r \in Row /\ r.wallet = old.wallet /\ r.admin = old.admin
            /\ r.credits = old.credits - 1 /\ r.until = j.base + 1
        BY <3>3, <3>5 DEF Row
      <3>a. /\ mid \in Seq(Row) /\ Len(mid) = Len(members)
            /\ mid[m] = h /\ \A n \in Ids : n # m => mid[n] = members[n]
        BY <1>3, <3>1, <3>5, <3>7
      <3>b. members' = [mid EXCEPT ![m] = r]
        BY <3>6, <3>a
      <3> HIDE DEF r
      <3>9. /\ members' \in Seq(Row) /\ Len(members') = Len(members)
            /\ members'[m] = r /\ \A n \in Ids : n # m => members'[n] = members[n]
        BY <1>3, <3>1, <3>8, <3>a, <3>b
      <3>k. JobOK([j EXCEPT !.at = "paid"])' /\ Resume(j, [j EXCEPT !.at = "paid"])
        <4>1. Resume(j, [j EXCEPT !.at = "paid"])
          BY <2>1, <2>3
        <4> DEFINE k == [j EXCEPT !.at = "paid"]
        <4>2. "paid" \in Places
          BY DEF Places
        <4>3. SameBut(k, j, "at") /\ k.at = "paid"
          BY <1>2, <4>2, OneField
        <4> HIDE DEF k
        <4>4. Len(members') = Len(members)
          BY <1>3, <3>9
        <4>5. ~(k.kind = "gate" /\ k.live)
          BY <1>5, <2>1, <4>3 DEF SameBut
        <4>6. JobOK(k)'
          BY <1>2, <4>3, <4>4, <4>5 DEF JobOK, SameBut, WalletPlaces, TokenPlaces
        <4> QED
          BY <4>1, <4>6 DEF k
      <3>10. \A n \in Ids : /\ members'[n].admin = members[n].admin
                            /\ members'[n].wallet = members[n].wallet
                            /\ members'[n].credits <= members[n].credits
                            /\ members'[n].until + members'[n].credits <= Credits
        <4> TAKE n \in Ids
        <4>1. CASE n = m
          <5>1. members'[n] = r /\ members[n] = old
            BY <3>9, <4>1
          <5>2. old.credits - 1 <= old.credits /\ j.base + 1 + (old.credits - 1) <= Credits
            BY <3>1, <3>2
          <5> HIDE DEF old, m
          <5>3. r.credits <= old.credits /\ r.until + r.credits <= Credits
            BY <3>8, <5>2
          <5> QED
            BY <3>8, <5>1, <5>3
        <4>2. CASE n # m
          BY <1>3, <3>2, <3>9, <4>2
        <4> QED
          BY <4>1, <4>2
      <3>11. Ids' = Ids
        BY <3>9 DEF Ids
      <3>12. MembersInv'
        BY <3>9, <3>10, <3>11 DEF MembersInv
      <3>13. MembersGrow
        BY <1>3, <3>9, <3>10 DEF MembersGrow
      <3>14. WalletsAreUnique'
        BY <3>10, <3>11 DEF SessionInv, WalletsAreUnique
      <3> QED
        BY <1>6, <3>12, <3>13, <3>14, <3>k, NextJobs
    <2> QED
      BY <2>2, <2>3
  <1>11. CASE CancelSubscription(j)
    <2>1. /\ j.at = "cancel" /\ End(j)
          /\ members' = [members EXCEPT ![j.token].until = 0]
      BY <1>11 DEF CancelSubscription
    <2> DEFINE m == j.token
               r == [members[m] EXCEPT !.until = 0]
    <2>2. m \in Ids
      BY <1>7, <2>1 DEF TokenPlaces
    <2>3. /\ r \in Row /\ r.wallet = members[m].wallet /\ r.admin = members[m].admin
          /\ r.credits = members[m].credits /\ r.until = 0
      <3>1. members[m] \in Row /\ 0 \in 0 .. Credits
        BY <1>3, <2>2, SessionConstants
      <3> QED
        BY <3>1 DEF Row
    <2>4. members' = [members EXCEPT ![m] = r]
      BY <2>1
    <2> HIDE DEF r
    <2>5. /\ members' \in Seq(Row) /\ Len(members') = Len(members)
          /\ members'[m] = r /\ \A n \in Ids : n # m => members'[n] = members[n]
      BY <1>3, <2>2, <2>3, <2>4
    <2>6. \A n \in Ids : /\ members'[n].admin = members[n].admin
                         /\ members'[n].wallet = members[n].wallet
                         /\ members'[n].credits <= members[n].credits
                         /\ members'[n].until + members'[n].credits <= Credits
      <3> TAKE n \in Ids
      <3>1. CASE n = m
        BY <1>3, <2>2, <2>3, <2>5, <3>1, SessionConstants
      <3>2. CASE n # m
        BY <1>3, <2>5, <3>2, SessionConstants
      <3> QED
        BY <3>1, <3>2
    <2>7. Ids' = Ids
      BY <2>5 DEF Ids
    <2>8. MembersInv'
      BY <2>5, <2>6, <2>7 DEF MembersInv
    <2>9. MembersGrow
      BY <1>3, <2>5, <2>6 DEF MembersGrow
    <2>10. WalletsAreUnique'
      BY <2>6, <2>7 DEF SessionInv, WalletsAreUnique
    <2> QED
      BY <1>6, <2>1, <2>8, <2>9, <2>10, LastJobs
  <1>12. CASE LinkWallet(j)
    <2>1. j.at = "link" /\ j.token # 0 /\ Bound(j.token, j.wallet) /\ End(j)
      BY <1>12 DEF LinkWallet
    <2>2. j.wallet \in Wallets /\ j.token \in Ids
      BY <1>2, <1>3, <2>1 DEF JobOK, WalletPlaces
    <2> QED
      BY <1>6, <2>1, <2>2, BindKeeps, LastJobs
  <1>13. CASE UnlinkMember(j)
    <2>1. j.at = "unlink" /\ Bound(j.token, Unlinked) /\ End(j)
      BY <1>13 DEF UnlinkMember
    <2>2. j.token \in Ids
      BY <1>7, <2>1 DEF TokenPlaces
    <2> QED
      BY <1>6, <2>1, <2>2, BindKeeps, LastJobs
  <1> QED
    BY <1>8, <1>9, <1>10, <1>11, <1>12, <1>13

(***************************************************************************)
(* The tab takes an answer.  Here a gate lets the visitor in: it is the    *)
(* gate of this page, and it was told of the member whose token the tab    *)
(* holds, if it still holds one.                                           *)
(***************************************************************************)
LEMMA GateKeeps ==
  ASSUME SessionInv, NEW j \in jobs, GateDone(j) PROVE SessionInv'
  <1> DEFINE to == GateSends(j.page, j.got)
  <1>1. /\ j.kind = "gate" /\ j.at = "answered"
        /\ UNCHANGED <<server, token, wallet, selected, clicks>>
    BY DEF GateDone
  <1>2. JobOK(j) /\ j \in JobRow
    BY DEF SessionInv, JobsInv, JobOK
  <1>3. j.page \in Pages /\ to \in Pages
    <2>1. j.page \in Pages
      BY <1>2 DEF JobRow
    <2> QED
      BY <2>1 DEF GateSends, Pages, Landing
  <1>4. members' = members /\ ServerInv'
    BY <1>1, ServerSame DEF server
  <1>5. clicks' \in 0 .. MaxClicks /\ jobs \ {j} \in SUBSET jobs
    BY <1>1 DEF SessionInv, TabInv
  <1>6. CASE to # j.page
    <2>1. GoTo(to, jobs \ {j})
      BY <1>6 DEF GateDone
    <2> QED
      BY <1>1, <1>3, <1>5, <2>1, Goes
  <1>7. CASE to = j.page
    <2> DEFINE new == IF j.live /\ page = "/subscribe" /\ token # 0
                      THEN {[Job("checkpoint", "me") EXCEPT !.token = token]} ELSE {}
    <2>1. /\ ready' = (ready \/ j.live)
          /\ jobs' = (jobs \ {j}) \cup new
          /\ page' = page /\ nav' = nav
      BY <1>7 DEF GateDone
    <2>2. \A k \in jobs' : k \in jobs \/ JobOK(k)'
      <3> SUFFICES ASSUME NEW k, k = [Job("checkpoint", "me") EXCEPT !.token = token]
                   PROVE  JobOK(k)'
        BY <2>1
      <3> DEFINE i == Job("checkpoint", "me")
      <3>1. "checkpoint" \in Kinds /\ "me" \in Places
        BY DEF Kinds, Places
      <3>2. NewRow(i, "checkpoint", "me")
        BY <3>1, NewJob
      <3>3. k = [i EXCEPT !.token = token]
        OBVIOUS
      <3> HIDE DEF i
      <3>4. Len(members) \in Nat /\ Failed.id = 0 /\ token \in 0 .. Len(members)
        BY RowsTyped DEF SessionInv, TabInv, Failed
      <3>5. token \in Nat
        BY <3>4
      <3>6. SameBut(k, i, "token") /\ k.token = token
        BY <3>2, <3>3, <3>5, OneField DEF NewRow
      <3>7. k \in JobRow /\ k.kind = "checkpoint" /\ k.at = "me" /\ k.got = Failed
        BY <3>2, <3>6 DEF NewRow, SameBut
      <3> QED
        BY <1>4, <3>4, <3>6, <3>7 DEF JobOK, WalletPlaces, TokenPlaces
    <2>3. CASE ~j.live
      <3>1. ready' = ready
        BY <2>1, <2>3 DEF SessionInv, TabInv
      <3> QED
        BY <1>1, <1>4, <1>5, <2>1, <2>2, <3>1, QuietTab DEF SessionInv, TabInv
    <2>4. CASE j.live
      <3>1. GateOK(j)
        BY <1>1, <1>2, <2>4 DEF JobOK
      <3>2. MembersInv' /\ WalletsAreUnique' /\ MembersGrow
        <4>1. Len(members) \in Nat /\ \A m \in Ids : members[m].credits \in 0 .. Credits
          BY RowsTyped DEF SessionInv
        <4> QED
          BY <1>4, <4>1, SessionConstants
             DEF SessionInv, MembersInv, WalletsAreUnique, Ids, MembersGrow
      <3>3. JobsInv'
        BY <1>1, <2>1, <2>2, <3>2, JobStays DEF JobsInv
      <3>4. TabInv'
        <4>1. ready' \in BOOLEAN
          BY <2>1, <2>4
        <4> QED
          BY <1>1, <1>4, <1>5, <2>1, <4>1 DEF SessionInv, TabInv
      <3>5. PagesAreGated'
        <4> SUFFICES ASSUME token # 0
                     PROVE  /\ page \in Gated
                            /\ members[token].admin <=> page = "/admin/payouts"
                            /\ page = "/member" => members[token].credits < Credits
          BY <1>1, <1>4, <2>1 DEF PagesAreGated
        <4>1. page \in Gated /\ j.page = page /\ token = j.token
          BY <3>1 DEF GateOK
        <4>2. page # Landing /\ page # "/admin"
          BY <4>1 DEF Gated
        <4>3. j.got.id # 0
          BY <1>7, <4>1, <4>2 DEF GateSends
        <4>4. /\ j.got.admin = members[token].admin
              /\ j.got.active => members[token].credits < Credits
          BY <3>1, <4>1, <4>3 DEF GateOK
        <4>5. j.got.admin \in BOOLEAN
          BY <1>2 DEF JobRow, Answers
        <4>6. CASE page = "/admin/payouts"
          <5>1. j.got.admin
            BY <1>7, <4>1, <4>3, <4>6 DEF GateSends
          <5> QED
            BY <4>1, <4>4, <4>6, <5>1
        <4>7. CASE page # "/admin/payouts"
          <5>1. ~j.got.admin
            BY <1>7, <4>1, <4>2, <4>3, <4>7 DEF GateSends
          <5>2. page = "/member" => j.got.active
            BY <1>7, <4>1, <4>3, <4>7, <5>1 DEF GateSends
          <5> QED
            BY <4>1, <4>4, <4>7, <5>1, <5>2
        <4> QED
          BY <4>6, <4>7
      <3> QED
        BY <1>4, <3>2, <3>3, <3>4, <3>5 DEF SessionInv
    <2> QED
      BY <2>3, <2>4
  <1> QED
    BY <1>6, <1>7

(***************************************************************************)
(* The tab takes an answer.                                                *)
(***************************************************************************)
LEMMA TakesKeep ==
  ASSUME SessionInv, NEW j \in jobs, TabTakes(j) PROVE SessionInv'
  <1>1. JobOK(j) /\ j \in JobRow
    BY DEF SessionInv, JobsInv, JobOK
  <1>2. Len(members) \in Nat /\ j.got.id \in 0 .. Len(members)
    BY <1>1, RowsTyped DEF SessionInv, JobOK
  <1>3. /\ token \in 0 .. Len(members) /\ nav \in 0 .. Len(members)
        /\ wallet \in Wallets \cup {None} /\ selected \in Wallets
        /\ clicks \in 0 .. MaxClicks /\ jobs \ {j} \in SUBSET jobs
    BY DEF SessionInv, TabInv
  <1>4. ASSUME UNCHANGED server, UNCHANGED <<page, ready, selected, clicks>>, End(j),
               token' \in {token, 0}, nav' \in 0 .. Len(members),
               wallet' \in Wallets \cup {None}
        PROVE  SessionInv'
    BY <1>3, <1>4, ServerSame, LastJobs, QuietTab
  <1>5. CASE NobodyTakes(j)
    BY <1>3, <1>4, <1>5 DEF NobodyTakes
  <1>6. CASE LoaderDone(j)
    <2>1. /\ UNCHANGED server /\ UNCHANGED <<page, ready, selected, clicks>> /\ End(j)
          /\ token' \in {token, 0} /\ wallet' \in {wallet, None}
          /\ nav' \in {nav, j.got.id, 0}
      BY <1>6 DEF LoaderDone
    <2>2. nav' \in 0 .. Len(members) /\ wallet' \in Wallets \cup {None}
      BY <1>2, <1>3, <2>1
    <2> QED
      BY <1>4, <2>1, <2>2
  <1>7. CASE GateDone(j)
    BY <1>7, GateKeeps
  <1>8. ASSUME UNCHANGED <<server, token, wallet, selected, clicks>>,
               \/ GoTo("/member", jobs \ {j})
               \/ End(j) /\ UNCHANGED <<page, nav, ready>>
        PROVE  SessionInv'
    <2>1. CASE GoTo("/member", jobs \ {j})
      <3>1. "/member" \in Pages /\ clicks' \in 0 .. MaxClicks
        BY <1>3, <1>8 DEF Pages
      <3> QED
        BY <1>3, <1>8, <2>1, <3>1, Goes
    <2>2. CASE End(j) /\ UNCHANGED <<page, nav, ready>>
      BY <1>3, <1>4, <1>8, <2>2
    <2> QED
      BY <1>8, <2>1, <2>2
  <1>9. CASE CheckpointDone(j)
    BY <1>8, <1>9 DEF CheckpointDone
  <1>10. CASE PayDone(j)
    BY <1>8, <1>10 DEF PayDone
  <1>11. CASE LoggedIn(j)
    <2>1. /\ token' = j.got.id /\ LoadPage(HomeOf(j.kind, j.got), j.got.id, wallet)
          /\ UNCHANGED <<server, wallet, selected, clicks>>
      BY <1>11 DEF LoggedIn
    <2>2. HomeOf(j.kind, j.got) \in Pages
      BY DEF HomeOf, Pages
    <2>3. wallet' \in Wallets \cup {None} /\ clicks' \in 0 .. MaxClicks
      BY <1>3, <2>1
    <2> QED
      BY <1>2, <2>1, <2>2, <2>3, Loads
  <1> QED
    BY <1>5, <1>6, <1>7, <1>9, <1>10, <1>11 DEF TabTakes

(***************************************************************************)
(* The initial states, and every step.                                     *)
(***************************************************************************)
LEMMA InitSession ==
  ASSUME Init PROVE SessionInv
  <1>1. selected \in Wallets
    BY SessionConstants DEF Init
  <1>2. /\ challenge = [w \in Wallets |-> 0] /\ nonces = 0
        /\ page = Landing /\ token = 0 /\ wallet = None
        /\ nav = 0 /\ ready = FALSE /\ jobs = {} /\ clicks = 0
    BY DEF Init
  <1>3. members = <<>> => MembersInv /\ WalletsAreUnique /\ Len(members) = 0
    BY DEF MembersInv, WalletsAreUnique, Ids
  <1>4. ASSUME NEW left \in 0 .. Credits - 1,
               members = <<NewMember(None, None, TRUE), Subscriber(selected, left)>>
        PROVE  MembersInv /\ WalletsAreUnique /\ Len(members) = 2
    <2> DEFINE a == NewMember(None, None, TRUE)
               n == NewMember(selected, selected, FALSE)
               b == Subscriber(selected, left)
    <2>1. a \in Row /\ a.wallet = None /\ a.until = 0 /\ a.credits = Credits
      BY SessionConstants DEF NewMember, Row
    <2>2. left \in 0 .. Credits /\ 1 \in 0 .. Credits /\ 1 + left <= Credits
      BY SessionConstants
    <2>3. n \in Row /\ n.wallet = selected
      BY <1>1, SessionConstants DEF NewMember, Row
    <2>4. b = [n EXCEPT !.until = 1, !.credits = left]
      BY DEF Subscriber
    <2> HIDE DEF a, n, b
    <2>5. b \in Row /\ b.wallet = selected /\ b.until = 1 /\ b.credits = left
      <3> DEFINE h == [n EXCEPT !.until = 1]
      <3>1. h \in Row /\ h.wallet = selected /\ h.until = 1
        BY <2>2, <2>3 DEF Row
      <3>2. b = [h EXCEPT !.credits = left]
        BY <2>4
      <3> HIDE DEF h
      <3> QED
        BY <2>2, <3>1, <3>2 DEF Row
    <2>6. members = <<a, b>>
      BY <1>4 DEF a, b
    <2>7. /\ members \in Seq(Row) /\ Len(members) = 2 /\ Ids = {1, 2}
          /\ members[1] = a /\ members[2] = b
      BY <2>1, <2>5, <2>6 DEF Ids
    <2>8. MembersInv
      BY <2>1, <2>2, <2>5, <2>7, SessionConstants DEF MembersInv
    <2>9. WalletsAreUnique
      BY <1>1, <2>1, <2>5, <2>7, SessionConstants DEF WalletsAreUnique
    <2> QED
      BY <2>7, <2>8, <2>9
  <1>5. MembersInv /\ WalletsAreUnique /\ Len(members) \in Nat
    BY <1>3, <1>4 DEF Init
  <1>6. ServerInv
    BY <1>2 DEF ServerInv
  <1>7. TabInv
    <2>1. page \in Pages /\ ready \in BOOLEAN
      BY <1>2 DEF Pages
    <2>2. /\ token \in 0 .. Len(members) /\ nav \in 0 .. Len(members)
          /\ clicks \in 0 .. MaxClicks
      BY <1>2, <1>5, SessionConstants
    <2> QED
      BY <1>1, <1>2, <2>1, <2>2 DEF TabInv
  <1>8. JobsInv /\ PagesAreGated
    BY <1>2 DEF JobsInv, PagesAreGated
  <1> QED
    BY <1>5, <1>6, <1>7, <1>8 DEF SessionInv

(***************************************************************************)
(* Every step keeps the invariant.                                         *)
(***************************************************************************)
LEMMA StepSession ==
  ASSUME SessionInv, [Next]_vars PROVE SessionInv'
  <1>1. CASE Visitor
    BY <1>1, VisitorKeeps
  <1>2. ASSUME NEW j \in jobs, Extension(j) \/ Server(j) \/ TabTakes(j)
        PROVE  SessionInv'
    BY <1>2, ExtensionKeeps, ReadsKeep, WritesKeep, TakesKeep DEF Server
  <1>3. CASE UNCHANGED vars
    BY <1>3 DEF vars, server, tab, SessionInv, MembersInv, ServerInv, TabInv, JobsInv, JobOK,
                GateOK, PagesAreGated, WalletsAreUnique, Ids
  <1> QED
    BY <1>1, <1>2, <1>3 DEF Next

(***************************************************************************)
(* The invariant holds throughout.                                         *)
(***************************************************************************)
LEMMA SessionInvariant == Spec => []SessionInv
  <1>1. Init => SessionInv
    BY InitSession
  <1>2. SessionInv /\ [Next]_vars => SessionInv'
    BY StepSession
  <1> QED
    BY <1>1, <1>2, PTL DEF Spec

(***************************************************************************)
(* Only who has subscribed enters the pages of the system: what a gate has *)
(* let in belongs to the member whose token the tab holds, an              *)
(* administrator behind the payouts, a member elsewhere, and behind the    *)
(* member's pages one who has paid at least once.                          *)
(***************************************************************************)
THEOREM PagesAlwaysGated == Spec => []PagesAreGated
  <1>1. SessionInv => PagesAreGated
    BY DEF SessionInv
  <1> QED
    BY <1>1, SessionInvariant, PTL

(***************************************************************************)
(* No two members are ever logged in with one wallet, for any number of    *)
(* wallets, registrations and wallets linked and given up meanwhile.       *)
(***************************************************************************)
THEOREM WalletsStayUnique == Spec => []WalletsAreUnique
  <1>1. SessionInv => WalletsAreUnique
    BY DEF SessionInv
  <1> QED
    BY <1>1, SessionInvariant, PTL

-----------------------------------------------------------------------------
(***************************************************************************)
(* Every nonce was asked for by a click.  Fewer requests, no more nonces.  *)
(***************************************************************************)
Counts == nonces \in Nat /\ clicks \in Nat /\ CountInv

\* Fewer jobs ask for fewer challenges.
LEMMA FewerAsk ==
  ASSUME NEW js, IsFiniteSet(js), NEW ks \in SUBSET js
  PROVE  /\ IsFiniteSet(ks) /\ Cardinality(ToAsk(ks)) \in Nat
         /\ Cardinality(ToAsk(js)) \in Nat
         /\ Cardinality(ToAsk(ks)) <= Cardinality(ToAsk(js))
  <1>1. ToAsk(js) \in SUBSET js /\ ToAsk(ks) \in SUBSET ToAsk(js)
    BY DEF ToAsk
  <1>2. IsFiniteSet(ToAsk(js)) /\ IsFiniteSet(ks)
    BY <1>1, FS_Subset
  <1>3. IsFiniteSet(ToAsk(ks)) /\ Cardinality(ToAsk(ks)) <= Cardinality(ToAsk(js))
    BY <1>1, <1>2, FS_Subset
  <1> QED
    BY <1>2, <1>3, FS_CardinalityType

(***************************************************************************)
(* A job more is a request more at most, and none if it asks for nothing.  *)
(***************************************************************************)
LEMMA OneMoreAsks ==
  ASSUME NEW js, IsFiniteSet(js), NEW k
  PROVE  /\ IsFiniteSet(js \cup {k})
         /\ Cardinality(ToAsk(js)) \in Nat /\ Cardinality(ToAsk(js \cup {k})) \in Nat
         /\ Cardinality(ToAsk(js \cup {k})) <= Cardinality(ToAsk(js)) + 1
         /\ k.at \notin {"connect", "challenge"} => ToAsk(js \cup {k}) = ToAsk(js)
  <1>1. IsFiniteSet(js \cup {k})
    BY FS_AddElement
  <1>2. IsFiniteSet(ToAsk(js)) /\ Cardinality(ToAsk(js)) \in Nat
    <2>1. ToAsk(js) \in SUBSET js
      BY DEF ToAsk
    <2> QED
      BY <2>1, FS_Subset, FS_CardinalityType
  <1>3. CASE k.at \in {"connect", "challenge"}
    <2>1. ToAsk(js \cup {k}) = ToAsk(js) \cup {k}
      BY <1>3 DEF ToAsk
    <2>2. /\ IsFiniteSet(ToAsk(js) \cup {k})
          /\ Cardinality(ToAsk(js) \cup {k}) = IF k \in ToAsk(js) THEN Cardinality(ToAsk(js))
                                               ELSE Cardinality(ToAsk(js)) + 1
      BY <1>2, FS_AddElement
    <2> QED
      BY <1>1, <1>2, <1>3, <2>1, <2>2
  <1>4. CASE k.at \notin {"connect", "challenge"}
    <2>1. ToAsk(js \cup {k}) = ToAsk(js)
      BY <1>4 DEF ToAsk
    <2> QED
      BY <1>1, <1>2, <2>1
  <1> QED
    BY <1>3, <1>4

(***************************************************************************)
(* A request that is no longer under way is one less.                      *)
(***************************************************************************)
LEMMA OneLessAsks ==
  ASSUME NEW js, IsFiniteSet(js), NEW j \in ToAsk(js)
  PROVE  /\ IsFiniteSet(js \ {j})
         /\ Cardinality(ToAsk(js)) \in Nat
         /\ Cardinality(ToAsk(js \ {j})) = Cardinality(ToAsk(js)) - 1
  <1>1. ToAsk(js) \in SUBSET js /\ js \ {j} \in SUBSET js
    BY DEF ToAsk
  <1>2. IsFiniteSet(ToAsk(js)) /\ IsFiniteSet(js \ {j})
    BY <1>1, FS_Subset
  <1>3. ToAsk(js \ {j}) = ToAsk(js) \ {j}
    BY DEF ToAsk
  <1>4. Cardinality(ToAsk(js) \ {j}) = Cardinality(ToAsk(js)) - 1
    BY <1>2, FS_RemoveElement
  <1> QED
    BY <1>2, <1>3, <1>4, FS_CardinalityType

(***************************************************************************)
(* Copies of jobs, at the places where these are, ask for no more.         *)
(***************************************************************************)
LEMMA CopiesAsk ==
  ASSUME NEW js, IsFiniteSet(js), NEW ks, NEW f \in [js -> ks],
         \A j \in js : f[j].at = j.at, \A k \in ks : \E j \in js : f[j] = k
  PROVE  /\ IsFiniteSet(ks) /\ Cardinality(ToAsk(ks)) \in Nat
         /\ Cardinality(ToAsk(ks)) <= Cardinality(ToAsk(js))
  <1>1. f \in Surjection(js, ks)
    BY DEF Surjection
  <1>2. IsFiniteSet(ks)
    BY <1>1, FS_Surjection
  <1> DEFINE g == [j \in ToAsk(js) |-> f[j]]
  <1>3. g \in [ToAsk(js) -> ToAsk(ks)]
    BY DEF ToAsk
  <1>4. \A k \in ToAsk(ks) : \E j \in ToAsk(js) : g[j] = k
    BY DEF ToAsk
  <1> HIDE DEF g
  <1>5. g \in Surjection(ToAsk(js), ToAsk(ks))
    BY <1>3, <1>4 DEF Surjection
  <1>6. IsFiniteSet(ToAsk(js))
    <2>1. ToAsk(js) \in SUBSET js
      BY DEF ToAsk
    <2> QED
      BY <2>1, FS_Subset
  <1>7. IsFiniteSet(ToAsk(ks)) /\ Cardinality(ToAsk(ks)) <= Cardinality(ToAsk(js))
    BY <1>5, <1>6, FS_Surjection
  <1> QED
    BY <1>2, <1>7, FS_CardinalityType

(***************************************************************************)
(* The jobs of a component that is gone, and those of a document that is.  *)
(***************************************************************************)
Gone(js) == {[j EXCEPT !.kind = "gone", !.live = FALSE] : j \in {k \in js : k.at \in AtServer}}

\* Jobs whose component or document is gone ask for no more challenges.
LEMMA LateAsk ==
  ASSUME NEW js \in SUBSET JobRow, IsFiniteSet(js), NEW late \in {LateJobs(js), Gone(js)}
  PROVE  /\ IsFiniteSet(late) /\ Cardinality(ToAsk(late)) \in Nat
         /\ Cardinality(ToAsk(js)) \in Nat
         /\ Cardinality(ToAsk(late)) <= Cardinality(ToAsk(js))
  <1>1. CASE late = LateJobs(js)
    <2> DEFINE f == [j \in js |-> [j EXCEPT !.live = FALSE]]
    <2>1. f \in [js -> late]
      BY <1>1 DEF LateJobs
    <2>2. \A j \in js : f[j].at = j.at
      BY DEF JobRow
    <2>3. \A k \in late : \E j \in js : f[j] = k
      BY <1>1 DEF LateJobs
    <2> HIDE DEF f
    <2> QED
      BY <2>1, <2>2, <2>3, CopiesAsk, FewerAsk
  <1>2. CASE late = Gone(js)
    <2> DEFINE at == {k \in js : k.at \in AtServer}
               f  == [j \in at |-> [j EXCEPT !.kind = "gone", !.live = FALSE]]
    <2>1. f \in [at -> late]
      BY <1>2 DEF Gone
    <2>2. \A j \in at : f[j].at = j.at
      BY DEF JobRow
    <2>3. \A k \in late : \E j \in at : f[j] = k
      BY <1>2 DEF Gone
    <2>4. at \in SUBSET js
      OBVIOUS
    <2> HIDE DEF f, at
    <2>5. /\ IsFiniteSet(at) /\ Cardinality(ToAsk(at)) <= Cardinality(ToAsk(js))
          /\ Cardinality(ToAsk(js)) \in Nat /\ Cardinality(ToAsk(at)) \in Nat
      BY <2>4, FewerAsk
    <2>6. /\ IsFiniteSet(late) /\ Cardinality(ToAsk(late)) \in Nat
          /\ Cardinality(ToAsk(late)) <= Cardinality(ToAsk(at))
      BY <2>1, <2>2, <2>3, <2>5, CopiesAsk
    <2> QED
      BY <2>5, <2>6
  <1> QED
    BY <1>1, <1>2

(***************************************************************************)
(* Nor does a page ask for a nonce when it is mounted.                     *)
(***************************************************************************)
LEMMA MountAsks ==
  ASSUME NEW late, IsFiniteSet(late), NEW p, NEW tok, NEW w
  PROVE  IsFiniteSet(late \cup Mount(p, tok, w))
         /\ ToAsk(late \cup Mount(p, tok, w)) = ToAsk(late)
  <1>1. /\ Loader(tok, w) \in {{}, {Job("loader", "accounts")},
                               {[Job("loader", "me") EXCEPT !.token = tok]}}
        /\ GateJob(p, tok) \in {{}, {[Job("gate", "me") EXCEPT !.page = p, !.token = tok]}}
    BY DEF Loader, GateJob
  <1>2. /\ Job("loader", "accounts").at = "accounts"
        /\ [Job("loader", "me") EXCEPT !.token = tok].at = "me"
        /\ [Job("gate", "me") EXCEPT !.page = p, !.token = tok].at = "me"
    BY DEF Job
  <1>3. IsFiniteSet(late \cup Loader(tok, w)) /\ ToAsk(late \cup Loader(tok, w)) = ToAsk(late)
    BY <1>1, <1>2, OneMoreAsks
  <1>4. /\ IsFiniteSet((late \cup Loader(tok, w)) \cup GateJob(p, tok))
        /\ ToAsk((late \cup Loader(tok, w)) \cup GateJob(p, tok)) = ToAsk(late \cup Loader(tok, w))
    BY <1>1, <1>2, <1>3, OneMoreAsks
  <1>5. late \cup Mount(p, tok, w) = (late \cup Loader(tok, w)) \cup GateJob(p, tok)
    BY DEF Mount
  <1> QED
    BY <1>3, <1>4, <1>5

(***************************************************************************)
(* Steps that give out no nonce: the requests on their way are not more,   *)
(* or one more for a click.                                                *)
(***************************************************************************)
LEMMA StillCounts ==
  ASSUME Counts, nonces' = nonces, clicks' \in {clicks, clicks + 1}, IsFiniteSet(jobs'),
         Cardinality(ToAsk(jobs')) <= Cardinality(ToAsk(jobs)) + (clicks' - clicks)
  PROVE  Counts'
  <1>1. /\ nonces \in Nat /\ clicks \in Nat
        /\ nonces + Cardinality(ToAsk(jobs)) <= clicks
    BY DEF Counts, CountInv
  <1>2. Cardinality(ToAsk(jobs)) \in Nat /\ Cardinality(ToAsk(jobs')) \in Nat
    BY FewerAsk DEF Counts, CountInv
  <1> HIDE DEF ToAsk
  <1> DEFINE a == Cardinality(ToAsk(jobs))
             b == Cardinality(ToAsk(jobs'))
  <1>3. a \in Nat /\ b \in Nat /\ nonces + a <= clicks /\ b <= a + (clicks' - clicks)
    BY <1>1, <1>2
  <1> HIDE DEF a, b
  <1>4. clicks' \in Nat /\ nonces + b <= clicks'
    <2>1. clicks' = clicks \/ clicks' = clicks + 1
      OBVIOUS
    <2>2. PICK c : c = clicks'
      OBVIOUS
    <2>3. (c = clicks \/ c = clicks + 1) /\ b <= a + (c - clicks)
      BY <1>3, <2>1, <2>2
    <2>4. c \in Nat /\ nonces + b <= c
      BY <1>1, <1>3, <2>3
    <2> QED
      BY <2>2, <2>4
  <1>5. nonces + Cardinality(ToAsk(jobs')) <= clicks'
    BY <1>4 DEF b
  <1> QED
    BY <1>1, <1>4, <1>5 DEF Counts, CountInv

(***************************************************************************)
(* A page is left for another.                                             *)
(***************************************************************************)
LEMMA ArrivalCounts ==
  ASSUME Counts, JobsInv, nonces' = nonces, clicks' \in {clicks, clicks + 1},
         NEW p, NEW tok, NEW w,
         \/ LoadPage(p, tok, w)
         \/ \E rest \in SUBSET jobs : GoTo(p, rest)
  PROVE  Counts'
  <1>1. jobs \in SUBSET JobRow /\ IsFiniteSet(jobs) /\ nonces \in Nat /\ clicks \in Nat
    BY DEF JobsInv, JobOK, Counts, CountInv
  <1>2. Cardinality(ToAsk(jobs)) \in Nat
    BY <1>1, FewerAsk
  <1>3. ASSUME NEW js \in SUBSET jobs, NEW late \in {LateJobs(js), Gone(js)},
               NEW q, NEW t, NEW v, Arrive(q, t, v, late)
        PROVE  Counts'
    <2>1. js \in SUBSET JobRow /\ IsFiniteSet(js)
      BY <1>1, FewerAsk
    <2>2. Cardinality(ToAsk(js)) \in Nat /\ Cardinality(ToAsk(js)) <= Cardinality(ToAsk(jobs))
      BY <1>1, FewerAsk
    <2>3. /\ IsFiniteSet(late) /\ Cardinality(ToAsk(late)) \in Nat
          /\ Cardinality(ToAsk(late)) <= Cardinality(ToAsk(js))
      BY <2>1, LateAsk
    <2>4. jobs' = late \cup Mount(Admitted(q, t), t, v)
      BY <1>3 DEF Arrive
    <2>5. IsFiniteSet(jobs') /\ ToAsk(jobs') = ToAsk(late)
      BY <2>3, <2>4, MountAsks
    <2>6. Cardinality(ToAsk(jobs')) <= Cardinality(ToAsk(jobs)) + (clicks' - clicks)
      BY <1>1, <1>2, <2>2, <2>3, <2>5
    <2> QED
      BY <2>5, <2>6, StillCounts
  <1>4. CASE LoadPage(p, tok, w)
    <2>1. Arrive(p, tok, w, Gone(jobs))
      BY <1>4 DEF LoadPage, Gone
    <2> QED
      BY <1>3, <2>1
  <1>5. ASSUME NEW rest \in SUBSET jobs, GoTo(p, rest) PROVE Counts'
    <2>1. CASE Admitted(p, token) = page
      <3>1. jobs' = rest
        BY <1>5, <2>1 DEF GoTo
      <3>2. /\ IsFiniteSet(rest) /\ Cardinality(ToAsk(rest)) \in Nat
            /\ Cardinality(ToAsk(rest)) <= Cardinality(ToAsk(jobs))
        BY <1>1, FewerAsk
      <3>3. Cardinality(ToAsk(jobs')) <= Cardinality(ToAsk(jobs)) + (clicks' - clicks)
        BY <1>1, <1>2, <3>1, <3>2
      <3> QED
        BY <3>1, <3>2, <3>3, StillCounts
    <2>2. CASE Admitted(p, token) # page
      <3>1. Arrive(p, token, wallet, LateJobs(rest))
        BY <1>5, <2>2 DEF GoTo
      <3> QED
        BY <1>3, <3>1
    <2> QED
      BY <2>1, <2>2
  <1> QED
    BY <1>4, <1>5

(***************************************************************************)
(* A job ends, or goes on at a place that asks for no nonce or from one    *)
(* that does.                                                              *)
(***************************************************************************)
LEMMA JobCounts ==
  ASSUME Counts, nonces' = nonces, clicks' = clicks, NEW j \in jobs,
         \/ End(j)
         \/ \E k : /\ Resume(j, k)
                   /\ k.at \in {"connect", "challenge"} => j.at \in {"connect", "challenge"}
  PROVE  Counts'
  <1>1. IsFiniteSet(jobs) /\ clicks \in Nat /\ jobs \ {j} \in SUBSET jobs
    BY DEF Counts, CountInv
  <1>2. /\ IsFiniteSet(jobs \ {j})
        /\ Cardinality(ToAsk(jobs)) \in Nat /\ Cardinality(ToAsk(jobs \ {j})) \in Nat
        /\ Cardinality(ToAsk(jobs \ {j})) <= Cardinality(ToAsk(jobs))
    BY <1>1, FewerAsk
  <1>3. CASE End(j)
    <2>1. jobs' = jobs \ {j} /\ clicks' - clicks = 0
      BY <1>1, <1>3 DEF End
    <2> QED
      BY <1>2, <2>1, StillCounts
  <1>4. ASSUME NEW k, Resume(j, k),
               k.at \in {"connect", "challenge"} => j.at \in {"connect", "challenge"}
        PROVE  Counts'
    <2>1. jobs' = (jobs \ {j}) \cup {k} /\ clicks' - clicks = 0
      BY <1>1, <1>4 DEF Resume
    <2>2. /\ IsFiniteSet(jobs') /\ Cardinality(ToAsk(jobs')) \in Nat
          /\ Cardinality(ToAsk(jobs')) <= Cardinality(ToAsk(jobs \ {j})) + 1
          /\ k.at \notin {"connect", "challenge"} => ToAsk(jobs') = ToAsk(jobs \ {j})
      BY <1>2, <2>1, OneMoreAsks
    <2>3. CASE k.at \in {"connect", "challenge"}
      <3>1. j \in ToAsk(jobs)
        BY <1>4, <2>3 DEF ToAsk
      <3>2. Cardinality(ToAsk(jobs \ {j})) = Cardinality(ToAsk(jobs)) - 1
        BY <1>1, <3>1, OneLessAsks
      <3>3. Cardinality(ToAsk(jobs')) <= Cardinality(ToAsk(jobs)) + (clicks' - clicks)
        BY <1>2, <2>1, <2>2, <3>2
      <3> QED
        BY <2>2, <3>3, StillCounts
    <2>4. CASE k.at \notin {"connect", "challenge"}
      <3>1. Cardinality(ToAsk(jobs')) <= Cardinality(ToAsk(jobs)) + (clicks' - clicks)
        BY <1>2, <2>1, <2>2, <2>4
      <3> QED
        BY <2>2, <3>1, StillCounts
    <2> QED
      BY <2>3, <2>4
  <1> QED
    BY <1>3, <1>4

(***************************************************************************)
(* Whatever the visitor does is a click, but for which a nonce may be      *)
(* asked.                                                                  *)
(***************************************************************************)
LEMMA VisitorCounts ==
  ASSUME Counts, JobsInv, Visitor PROVE Counts'
  <1>1. IsFiniteSet(jobs) /\ clicks \in Nat /\ Cardinality(ToAsk(jobs)) \in Nat
    BY FewerAsk DEF Counts, CountInv
  <1>2. ASSUME NEW k, jobs' = jobs \cup {k}, nonces' = nonces, clicks' = clicks + 1
        PROVE  Counts'
    <2>1. /\ IsFiniteSet(jobs')
          /\ Cardinality(ToAsk(jobs')) <= Cardinality(ToAsk(jobs)) + 1
      BY <1>1, <1>2, OneMoreAsks
    <2>2. clicks' - clicks = 1
      BY <1>1, <1>2
    <2> QED
      BY <1>2, <2>1, <2>2, StillCounts
  <1>3. ASSUME NEW p \in Pages, FollowLink(p) \/ Visit(p) PROVE Counts'
    <2>1. /\ nonces' = nonces /\ clicks' = clicks + 1
          /\ GoTo(p, jobs) \/ LoadPage(p, token, wallet)
      BY <1>3 DEF FollowLink, Visit, Click, server
    <2> QED
      BY <2>1, ArrivalCounts
  <1>4. CASE Logout
    <2>1. nonces' = nonces /\ clicks' = clicks + 1 /\ LoadPage(Landing, 0, None)
      BY <1>4 DEF Logout, Click, server
    <2> QED
      BY <2>1, ArrivalCounts
  <1>5. ASSUME NEW w \in Wallets, SwitchAccount(w) PROVE Counts'
    <2>1. nonces' = nonces /\ clicks' = clicks + 1 /\ jobs' = jobs
      BY <1>5 DEF SwitchAccount, Click, server, tab
    <2>2. Cardinality(ToAsk(jobs')) <= Cardinality(ToAsk(jobs)) + (clicks' - clicks)
      BY <1>1, <2>1
    <2> QED
      BY <1>1, <2>1, <2>2, StillCounts
  <1>6. ASSUME NEW kind, NEW named, StartLogin(kind, named) PROVE Counts'
    BY <1>2, <1>6 DEF StartLogin, Click, server
  <1>7. CASE handleAdminLogin
    BY <1>2, <1>7 DEF handleAdminLogin, Click, server
  <1>8. ASSUME NEW kind, NEW at, Ask(kind, at) PROVE Counts'
    BY <1>2, <1>8 DEF Ask, Click, server
  <1> QED
    BY <1>3, <1>4, <1>5, <1>6, <1>7, <1>8
       DEF Visitor, NavWalletLogin, handleWalletLogin,
           Subscribe, Renew, Cancel, ChangeWallet, UnlinkWallet

(***************************************************************************)
(* A nonce is given out to one request, which is then on its way no more.  *)
(***************************************************************************)
LEMMA NonceCounts ==
  ASSUME Counts, JobsInv, NEW j \in jobs, StartWalletAuth(j) PROVE Counts'
  <1>1. /\ IsFiniteSet(jobs) /\ nonces \in Nat /\ clicks \in Nat /\ j \in JobRow
        /\ nonces + Cardinality(ToAsk(jobs)) <= clicks
    BY DEF Counts, CountInv, JobsInv, JobOK
  <1>2. j.at = "challenge" /\ nonces' = nonces + 1 /\ clicks' = clicks
    BY DEF StartWalletAuth
  <1>3. PICK k : k = [j EXCEPT !.at = "sign", !.nonce = nonces + 1]
    OBVIOUS
  <1>4. k.at = "sign"
    BY <1>1, <1>3 DEF JobRow
  <1>5. jobs' = (jobs \ {j}) \cup {k}
    BY <1>3 DEF StartWalletAuth, Resume
  <1>6. j \in ToAsk(jobs)
    BY <1>2 DEF ToAsk
  <1>7. /\ IsFiniteSet(jobs \ {j}) /\ Cardinality(ToAsk(jobs)) \in Nat
        /\ Cardinality(ToAsk(jobs \ {j})) = Cardinality(ToAsk(jobs)) - 1
    BY <1>1, <1>6, OneLessAsks
  <1>8. IsFiniteSet(jobs') /\ ToAsk(jobs') = ToAsk(jobs \ {j})
    BY <1>4, <1>5, <1>7, OneMoreAsks
  <1>9. nonces' + Cardinality(ToAsk(jobs')) <= clicks'
    BY <1>1, <1>2, <1>7, <1>8
  <1> QED
    BY <1>1, <1>2, <1>8, <1>9 DEF Counts, CountInv

(***************************************************************************)
(* The wallet extension and the server answer.                             *)
(***************************************************************************)
LEMMA AnswersCount ==
  ASSUME Counts, JobsInv, NEW j \in jobs, Extension(j) \/ Server(j) PROVE Counts'
  <1>1. j \in JobRow
    BY DEF JobsInv, JobOK
  <1>2. CASE AccountsRead(j)
    <2>1. nonces' = nonces /\ clicks' = clicks
      BY <1>2 DEF AccountsRead, server
    <2>2. [j EXCEPT !.at = "me", !.token = token].at = "me"
      BY <1>1 DEF JobRow
    <2>3. End(j) \/ Resume(j, [j EXCEPT !.at = "me", !.token = token])
      BY <1>2 DEF AccountsRead
    <2> QED
      BY <2>1, <2>2, <2>3, JobCounts
  <1>3. CASE Connected(j)
    <2>1. nonces' = nonces /\ clicks' = clicks /\ j.at = "connect"
          /\ \E k : Resume(j, k)
      BY <1>3 DEF Connected, server
    <2> QED
      BY <2>1, JobCounts
  <1>4. CASE Signed(j) \/ Declined(j) \/ RequestFails(j)
    <2>1. nonces' = nonces /\ clicks' = clicks
      BY <1>4 DEF Signed, Declined, RequestFails, server
    <2>2. /\ [j EXCEPT !.at = "verify"].at = "verify"
          /\ [j EXCEPT !.at = "answered", !.got = Failed].at = "answered"
      BY <1>1 DEF JobRow
    <2>3. \/ End(j) \/ Resume(j, [j EXCEPT !.at = "verify"])
          \/ Resume(j, [j EXCEPT !.at = "answered", !.got = Failed])
      BY <1>4 DEF Signed, Declined, RequestFails
    <2> QED
      BY <2>1, <2>2, <2>3, JobCounts
  <1>5. ASSUME NEW got, nonces' = nonces, clicks' = clicks,
               End(j) \/ Resume(j, [j EXCEPT !.at = "answered", !.got = got])
        PROVE  Counts'
    <2>1. [j EXCEPT !.at = "answered", !.got = got].at = "answered"
      BY <1>1 DEF JobRow
    <2> QED
      BY <1>5, <2>1, JobCounts
  <1>6. CASE AnswerMe(j) \/ PasswordLogin(j)
    BY <1>5, <1>6 DEF AnswerMe, PasswordLogin, server
  <1>7. CASE StartWalletAuth(j)
    BY <1>7, NonceCounts
  <1>8. CASE VerifyChallenge(j)
    <2>1. [j EXCEPT !.at = "verified"].at = "verified"
      BY <1>1 DEF JobRow
    <2>2. nonces' = nonces /\ clicks' = clicks
          /\ (End(j) \/ Resume(j, [j EXCEPT !.at = "verified"]))
      BY <1>8 DEF VerifyChallenge
    <2> QED
      BY <2>1, <2>2, JobCounts
  <1>9. CASE LookUpMember(j)
    <2>1. [j EXCEPT !.at = "create"].at = "create"
      BY <1>1 DEF JobRow
    <2>2. nonces' = nonces /\ clicks' = clicks
      BY <1>9 DEF LookUpMember
    <2>3. CASE End(j) \/ Resume(j, [j EXCEPT !.at = "create"])
      BY <2>1, <2>2, <2>3, JobCounts
    <2>4. CASE \E m \in MembersWith(j.wallet) :
                  Resume(j, [j EXCEPT !.at = "answered", !.got = Me(m)])
      BY <1>5, <2>2, <2>4
    <2> QED
      BY <1>9, <2>3, <2>4 DEF LookUpMember
  <1>10. CASE CreateMember(j)
    <2>1. [j EXCEPT !.at = "bind", !.token = Len(members) + 1].at = "bind"
      BY <1>1 DEF JobRow
    <2>2. nonces' = nonces /\ clicks' = clicks
          /\ Resume(j, [j EXCEPT !.at = "bind", !.token = Len(members) + 1])
      BY <1>10 DEF CreateMember
    <2> QED
      BY <2>1, <2>2, JobCounts
  <1>11. CASE BindWallet(j)
    BY <1>5, <1>11 DEF BindWallet
  <1>12. CASE PayReadsExpiry(j)
    <2>1. [j EXCEPT !.at = "charge", !.base = members[j.token].until].at = "charge"
      BY <1>1 DEF JobRow
    <2>2. nonces' = nonces /\ clicks' = clicks
          /\ Resume(j, [j EXCEPT !.at = "charge", !.base = members[j.token].until])
      BY <1>12 DEF PayReadsExpiry, server
    <2> QED
      BY <2>1, <2>2, JobCounts
  <1>13. CASE PayCharges(j)
    <2>1. [j EXCEPT !.at = "paid"].at = "paid"
      BY <1>1 DEF JobRow
    <2>2. nonces' = nonces /\ clicks' = clicks
          /\ (End(j) \/ Resume(j, [j EXCEPT !.at = "paid"]))
      BY <1>13 DEF PayCharges
    <2> QED
      BY <2>1, <2>2, JobCounts
  <1>14. CASE CancelSubscription(j) \/ LinkWallet(j) \/ UnlinkMember(j)
    <2>1. nonces' = nonces /\ clicks' = clicks /\ End(j)
      BY <1>14 DEF CancelSubscription, LinkWallet, UnlinkMember
    <2> QED
      BY <2>1, JobCounts
  <1> QED
    BY <1>2, <1>3, <1>4, <1>6, <1>7, <1>8, <1>9, <1>10, <1>11, <1>12, <1>13, <1>14
       DEF Extension, Server

(***************************************************************************)
(* The tab takes an answer: one that goes on asks who is logged in.        *)
(***************************************************************************)
LEMMA TakingCounts ==
  ASSUME Counts, JobsInv, NEW j \in jobs, TabTakes(j) PROVE Counts'
  <1>1. nonces' = nonces /\ clicks' = clicks
    BY DEF TabTakes, NobodyTakes, LoaderDone, GateDone, CheckpointDone, PayDone, LoggedIn, server
  <1>2. jobs \ {j} \in SUBSET jobs
    OBVIOUS
  <1>3. CASE End(j)
    BY <1>1, <1>3, JobCounts
  <1>4. CASE \E p \in Pages : GoTo(p, jobs \ {j})
    BY <1>1, <1>2, <1>4, ArrivalCounts
  <1>5. CASE LoggedIn(j)
    BY <1>1, <1>5, ArrivalCounts DEF LoggedIn
  <1>6. CASE GateDone(j)
    <2>1. [Job("checkpoint", "me") EXCEPT !.token = token].at = "me"
      BY DEF Job
    <2>2. \/ \E p : GoTo(p, jobs \ {j})
          \/ Resume(j, [Job("checkpoint", "me") EXCEPT !.token = token])
          \/ End(j)
      BY <1>6 DEF GateDone, Resume, End
    <2> QED
      BY <1>1, <1>2, <2>1, <2>2, ArrivalCounts, JobCounts
  <1>7. CASE NobodyTakes(j) \/ LoaderDone(j) \/ CheckpointDone(j) \/ PayDone(j)
    <2>1. "/member" \in Pages
      BY DEF Pages
    <2> QED
      BY <1>3, <1>4, <1>7, <2>1 DEF NobodyTakes, LoaderDone, CheckpointDone, PayDone
  <1> QED
    BY <1>5, <1>6, <1>7 DEF TabTakes

(***************************************************************************)
(* Both invariants, throughout.                                            *)
(***************************************************************************)
LEMMA CountInvariant == Spec => [](SessionInv /\ Counts)
  <1>1. Init => SessionInv /\ Counts
    <2> SUFFICES ASSUME Init PROVE Counts
      BY InitSession
    <2>1. jobs = {} /\ nonces = 0 /\ clicks = 0
      BY DEF Init
    <2>2. IsFiniteSet(jobs) /\ Cardinality(ToAsk(jobs)) = 0
      BY <2>1, FS_EmptySet DEF ToAsk
    <2> QED
      BY <2>1, <2>2 DEF Counts, CountInv
  <1>2. SessionInv /\ Counts /\ [Next]_vars => SessionInv' /\ Counts'
    <2> SUFFICES ASSUME SessionInv, Counts, [Next]_vars PROVE Counts'
      BY StepSession
    <2>1. JobsInv
      BY DEF SessionInv
    <2>2. CASE Next
      BY <2>1, <2>2, VisitorCounts, AnswersCount, TakingCounts DEF Next
    <2>3. CASE UNCHANGED vars
      BY <2>3 DEF vars, server, tab, Counts, CountInv
    <2> QED
      BY <2>2, <2>3
  <1> QED
    BY <1>1, <1>2, PTL DEF Spec

(***************************************************************************)
(* Types: for any number of wallets the tab's data are what the code takes *)
(* them for, no member pays for more subscriptions than he can afford, and *)
(* no nonce is given out that nobody's click asked for.                    *)
(***************************************************************************)
THEOREM SessionTypeCorrect == Spec => []TypeOK
  <1>1. SessionInv /\ Counts => TypeOK
    <2> SUFFICES ASSUME SessionInv, Counts PROVE TypeOK
      OBVIOUS
    <2>1. /\ Len(members) \in Nat /\ Ids = 1 .. Len(members)
          /\ \A m \in Ids : members[m] \in Row
      BY RowsTyped DEF SessionInv
    <2>2. nonces \in 0 .. MaxClicks
      <3>1. /\ nonces \in Nat /\ clicks \in 0 .. MaxClicks
            /\ nonces + Cardinality(ToAsk(jobs)) <= clicks
        BY DEF SessionInv, TabInv, Counts, CountInv
      <3>2. Cardinality(ToAsk(jobs)) \in Nat
        BY FewerAsk DEF Counts, CountInv
      <3> QED
        BY <3>1, <3>2, SessionConstants
    <2>3. {token, nav} \subseteq Ids \cup {0}
      BY <2>1 DEF SessionInv, TabInv
    <2>4. \A j \in jobs : j.kind \in Kinds
      BY DEF SessionInv, JobsInv, JobOK, JobRow
    <2>5. /\ challenge \in [Wallets -> 0 .. nonces] /\ page \in Pages
          /\ wallet \in Wallets \cup {None} /\ selected \in Wallets
          /\ ready \in BOOLEAN /\ clicks \in 0 .. MaxClicks
      BY DEF SessionInv, ServerInv, TabInv
    <2> QED
      BY <2>1, <2>2, <2>3, <2>4, <2>5 DEF TypeOK, Row, Kinds
  <1> QED
    BY <1>1, CountInvariant, PTL

=============================================================================
