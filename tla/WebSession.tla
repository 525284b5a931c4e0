------------------------------ MODULE WebSession ------------------------------
(***************************************************************************)
(* One tab of the web application (apps/web) and the member service behind *)
(* it: the session token and the wallet address kept in sessionStorage,    *)
(* the login cards, the navigation bar, the gate in front of every page,   *)
(* the subscription pages, and the handlers of backend/service/member.go   *)
(* they call.                                                              *)
(*                                                                         *)
(* Whatever the tab awaits is a job.  A full load of a page                *)
(* (location.replace) ends the jobs of the document; a navigation inside   *)
(* the application (router.replace, a link) only unmounts components, whose *)
(* jobs run on and are no longer live.  A session is named by its member:  *)
(* rows of table sessions are never removed.                               *)
(* The database starts empty, or with an administrator and a subscriber.   *)
(***************************************************************************)
EXTENDS Naturals, Sequences, FiniteSets

CONSTANTS
    Wallets,      \* accounts of the wallet extension
    None,         \* no address (SQL NULL, nothing in sessionStorage)
    Unlinked,     \* the empty address written by DELETE /members/me/wallet
    MaxClicks,    \* bound: things the visitor does
    MaxLate,      \* bound: jobs of components that are gone
    Credits       \* how many subscriptions a new member can afford

ASSUME SessionConstants ==
    /\ Wallets # {} /\ None \notin Wallets /\ Unlinked \notin Wallets /\ None # Unlinked
    /\ MaxClicks \in Nat /\ MaxLate \in Nat /\ Credits \in Nat \ {0}

VARIABLES
    members,    \* table members: a sequence, the position is the id
    challenge,  \* table wallet_auth_challenges: nonce of each wallet, 0 if none
    nonces,     \* nonces given out
    page,       \* the page the tab is on
    token,      \* the member whose token sessionStorage holds, 0 if none
    wallet,     \* the address sessionStorage holds
    selected,   \* the account the wallet extension exposes
    nav,        \* the member the navigation bar shows, 0 if none
    ready,      \* the gate has let the visitor in
    jobs,       \* what the tab awaits
    clicks      \* what the visitor has done

server == <<members, challenge, nonces>>
tab    == <<page, token, wallet, nav, ready, jobs>>
vars   == <<server, tab, selected, clicks>>

Ids == 1 .. Len(members)

\* Pages by the gate in front of them; /admin and / have none.
Landing == "/"
Pages   == {Landing, "/subscribe", "/member", "/merchant", "/admin", "/admin/payouts"}
Gated   == Pages \ {Landing, "/admin"}

NewMember(id, w, isAdmin) ==
    [identity |-> id, wallet |-> w, admin |-> isAdmin,
     until |-> 0, credits |-> Credits]

Subscriber(w, left) ==
    [NewMember(w, w, FALSE) EXCEPT !.until = 1, !.credits = left]

\* What /members/me says of a member; an answer without id is a failure.
Me(id) == [id |-> id, admin |-> members[id].admin, active |-> members[id].until > 0]
Failed == [id |-> 0, admin |-> FALSE, active |-> FALSE]

Job(kind, at) ==
    [kind |-> kind, live |-> TRUE, at |-> at, page |-> Landing, token |-> 0,
     wallet |-> None, nonce |-> 0, named |-> FALSE, base |-> 0, got |-> Failed]

WalletLogins == {"member", "merchant", "nav"}
Logins       == WalletLogins \cup {"admin"}
LateJobs(js) == {[j EXCEPT !.live = FALSE] : j \in js}
-----------------------------------------------------------------------------
(* Arriving at a page. *)

\* The gate sends a visitor without a token away before anything is shown.
Admitted(p, tok) == IF p \in Gated /\ tok = 0 THEN Landing ELSE p

\* The first awaits of the navigation bar (and, on the landing page, of the
\* login panel, which asks for the same address) and of the gate.
Loader(tok, w) ==
    IF w # None THEN {Job("loader", "accounts")}
    ELSE IF tok # 0 THEN {[Job("loader", "me") EXCEPT !.token = tok]} ELSE {}

GateJob(p, tok) ==
    IF p \in Gated THEN {[Job("gate", "me") EXCEPT !.page = p, !.token = tok]} ELSE {}

Mount(p, tok, w) == Loader(tok, w) \cup GateJob(p, tok)

\* A page is mounted with the jobs that outlive the one before it.
Arrive(p, tok, w, late) ==
    LET q == Admitted(p, tok)
    IN  /\ page' = q /\ nav' = 0 /\ ready' = FALSE
        /\ jobs' = late \cup Mount(q, tok, w)

\* window.location.replace: of the old document only what the server is working
\* on goes on.
AtServer == {"challenge", "verify", "verified", "create", "bind",
             "price", "charge", "cancel", "link", "unlink"}
LoadPage(p, tok, w) ==
    Arrive(p, tok, w,
           {[j EXCEPT !.kind = "gone", !.live = FALSE] : j \in {k \in jobs : k.at \in AtServer}})

\* router.replace and <Link>: nothing happens on the page one is on already.
GoTo(p, rest) ==
    IF Admitted(p, token) = page
    THEN jobs' = rest /\ UNCHANGED <<page, nav, ready>>
    ELSE Arrive(p, token, wallet, LateJobs(rest))

Resume(j, k) == jobs' = (jobs \ {j}) \cup {k}
End(j)       == jobs' = jobs \ {j}
-----------------------------------------------------------------------------
(* What the visitor does. *)

Click == clicks < MaxClicks /\ clicks' = clicks + 1

HasFullNav(p) == p \notin {Landing, "/subscribe"}

\* The links of the bar depend on the member it has loaded and on the page.
ShownAdmin == nav # 0 /\ members[nav].admin
visibleLinks ==
    IF ShownAdmin \/ page = "/admin" THEN {"/admin", "/admin/payouts"}
    ELSE IF page = "/merchant" THEN {"/merchant"} ELSE {"/member"}

roleOptions ==
    IF nav # 0 /\ ~ShownAdmin /\ page # "/admin" THEN {"/member", "/merchant"} ELSE {}

FollowLink(p) ==
    /\ HasFullNav(page) /\ p \in visibleLinks \cup roleOptions /\ Click
    /\ Cardinality({j \in jobs : ~j.live}) < MaxLate
    /\ GoTo(p, jobs)
    /\ UNCHANGED <<server, token, wallet, selected>>

\* A bookmark, or the address typed.
Visit(p) ==
    /\ Click /\ LoadPage(p, token, wallet)
    /\ UNCHANGED <<server, token, wallet, selected>>

SwitchAccount(w) ==
    /\ w # selected /\ Click /\ selected' = w
    /\ UNCHANGED <<server, tab>>

LogoutOffered == nav # 0
Logout ==
    /\ LogoutOffered /\ Click
    /\ token' = 0 /\ wallet' = None
    /\ LoadPage(Landing, 0, None)
    /\ UNCHANGED <<server, selected>>

Busy(kind) == \E j \in jobs : j.live /\ j.kind = kind

\* The two wallet cards and the administrator's card of the landing page have a
\* flag each: all three can be at work.  To register one gives a name.
CardOffered(kind) == page = Landing /\ ~Busy(kind)

\* The button of the navigation bar is live on the other pages while it shows
\* no member; it registers nobody.
NavLoginOffered == HasFullNav(page) /\ nav = 0 /\ ~Busy("nav")

StartLogin(kind, named) ==
    /\ Click
    /\ token' = 0 /\ wallet' = None
    /\ jobs' = jobs \cup {[Job(kind, "connect") EXCEPT !.named = named]}
    /\ UNCHANGED <<server, page, nav, ready, selected>>

handleWalletLogin(target, named) ==
    target # "nav" /\ CardOffered(target) /\ StartLogin(target, named)
NavWalletLogin == NavLoginOffered /\ StartLogin("nav", FALSE)

\* The address of an earlier login stays.
handleAdminLogin ==
    /\ CardOffered("admin") /\ Click
    /\ token' = 0
    /\ jobs' = jobs \cup {Job("admin", "password")}
    /\ UNCHANGED <<server, page, wallet, nav, ready, selected>>

\* Requests of the subscription and account pages, one at a time per page.
Asking == {"pay", "renew", "cancel", "change", "unlink"}
Ask(kind, at) ==
    /\ ready /\ token # 0 /\ Click
    /\ \A k \in Asking \cup {"checkpoint"} : ~Busy(k)
    /\ jobs' = jobs \cup {[Job(kind, at) EXCEPT !.token = token]}
    /\ UNCHANGED <<server, page, token, wallet, nav, ready, selected>>

Subscribe    == page = "/subscribe" /\ Ask("pay", "price")
Renew        == page = "/member" /\ Ask("renew", "price")
Cancel       == page = "/member" /\ Ask("cancel", "cancel")
ChangeWallet == page = "/member" /\ Ask("change", "connect")
UnlinkWallet == page = "/member" /\ Ask("unlink", "unlink")
-----------------------------------------------------------------------------
(* The wallet extension answers, or the visitor declines. *)

\* getConnectedWalletAddress stores what the extension exposes by then; the
\* navigation bar goes on to ask who is logged in.
AccountsRead(j) ==
    /\ j.at = "accounts"
    /\ wallet' \in {selected, wallet}
    /\ IF j.kind = "loader" /\ token # 0
       THEN Resume(j, [j EXCEPT !.at = "me", !.token = token])
       ELSE End(j)
    /\ UNCHANGED <<server, page, token, nav, ready, selected, clicks>>

Connected(j) ==
    /\ j.at = "connect"
    /\ wallet' = selected
    /\ Resume(j, IF j.kind = "change"
                 THEN [j EXCEPT !.at = "link", !.wallet = selected, !.token = token]
                 ELSE [j EXCEPT !.at = "challenge", !.wallet = selected])
    /\ UNCHANGED <<server, page, token, nav, ready, selected, clicks>>

Signed(j) ==
    /\ j.at = "sign" /\ j.kind # "gone"
    /\ Resume(j, [j EXCEPT !.at = "verify"])
    /\ UNCHANGED <<server, page, token, wallet, nav, ready, selected, clicks>>

Declined(j) ==
    /\ j.at \in {"connect", "sign"} /\ j.kind # "gone" /\ End(j)
    /\ UNCHANGED <<server, page, token, wallet, nav, ready, selected, clicks>>
-----------------------------------------------------------------------------
(* The server answers. *)

Asked == {"me", "challenge", "verify", "password", "price", "cancel", "link", "unlink"}

NotCaught(j) ==
    /\ j.at \in Asked /\ End(j)
    /\ UNCHANGED <<server, page, token, wallet, nav, ready, selected, clicks>>

\* A failed request: the network, the rate limit, or an error of a handler.
\* The loader then forgets the session; the gate sends the visitor away.
RequestFails(j) ==
    /\ j.at \in Asked
    /\ IF j.at = "me"
       THEN Resume(j, [j EXCEPT !.at = "answered", !.got = Failed])
       ELSE End(j)
    /\ UNCHANGED <<server, page, token, wallet, nav, ready, selected, clicks>>

AnswerMe(j) ==
    /\ j.at = "me" /\ j.token # 0
    /\ Resume(j, [j EXCEPT !.at = "answered", !.got = Me(j.token)])
    /\ UNCHANGED <<server, page, token, wallet, nav, ready, selected, clicks>>

\* One challenge per wallet: a newer one replaces it.
StartWalletAuth(j) ==
    /\ j.at = "challenge"
    /\ nonces' = nonces + 1
    /\ challenge' = [challenge EXCEPT ![j.wallet] = nonces + 1]
    /\ Resume(j, [j EXCEPT !.at = "sign", !.nonce = nonces + 1])
    /\ UNCHANGED <<members, page, token, wallet, nav, ready, selected, clicks>>

\* VerifyWalletAuth reads the challenge; an expired one is deleted.
VerifyChallenge(j) ==
    /\ j.at = "verify"
    /\ \/ /\ challenge[j.wallet] = j.nonce
          /\ Resume(j, [j EXCEPT !.at = "verified"])
          /\ UNCHANGED challenge
       \/ /\ challenge[j.wallet] # j.nonce /\ End(j) /\ UNCHANGED challenge
       \/ /\ challenge[j.wallet] # 0 /\ End(j)
          /\ challenge' = [challenge EXCEPT ![j.wallet] = 0]
    /\ UNCHANGED <<members, nonces, page, token, wallet, nav, ready, selected, clicks>>

MembersWith(w) == {m \in Ids : members[m].wallet = w}

\* It deletes whatever challenge the wallet has and looks the member up.
LookUpMember(j) ==
    /\ j.at = "verified"
    /\ challenge' = [challenge EXCEPT ![j.wallet] = 0]
    /\ \/ \E m \in MembersWith(j.wallet) :
              Resume(j, [j EXCEPT !.at = "answered", !.got = Me(m)])
       \/ /\ MembersWith(j.wallet) = {}
          /\ IF j.named THEN Resume(j, [j EXCEPT !.at = "create"]) ELSE End(j)
    /\ UNCHANGED <<members, nonces, page, token, wallet, nav, ready, selected, clicks>>

\* The first member becomes administrator; the row is written without a wallet.
CreateMember(j) ==
    /\ j.at = "create"
    /\ members' = Append(members, NewMember(j.wallet, None, Len(members) = 0))
    /\ Resume(j, [j EXCEPT !.at = "bind", !.token = Len(members) + 1])
    /\ UNCHANGED <<challenge, nonces, page, token, wallet, nav, ready, selected, clicks>>

\* UPDATE members SET wallet_address under its unique index.
AnyWallet(m, w) == TRUE
Free(m, w)  == \A n \in Ids \ {m} : members[n].wallet # w
Bound(m, w) == Free(m, w) /\ members' = [members EXCEPT ![m].wallet = w]

\* The registration may still fail afterwards, on its invitation code.
BindWallet(j) ==
    /\ j.at = "bind"
    /\ \/ /\ Bound(j.token, j.wallet)
          /\ \/ Resume(j, [j EXCEPT !.at = "answered", !.got = Me(j.token)])
             \/ End(j)
       \/ /\ ~Free(j.token, j.wallet) /\ End(j) /\ UNCHANGED members
    /\ UNCHANGED <<challenge, nonces, page, token, wallet, nav, ready, selected, clicks>>

PasswordLogin(j) ==
    /\ j.at = "password"
    /\ \E m \in Ids :
          /\ members[m].identity = None
          /\ Resume(j, [j EXCEPT !.at = "answered", !.got = Me(m)])
    /\ UNCHANGED <<server, page, token, wallet, nav, ready, selected, clicks>>

\* handleSubscriptionPay reads the expiry, then charges and writes the new one.
PayReadsExpiry(j) ==
    /\ j.at = "price"
    /\ Resume(j, [j EXCEPT !.at = "charge", !.base = members[j.token].until])
    /\ UNCHANGED <<server, page, token, wallet, nav, ready, selected, clicks>>

AlwaysPays(m) == TRUE
CanPay(m)     == members[m].credits > 0

PayCharges(j) ==
    /\ j.at = "charge"
    /\ \/ /\ CanPay(j.token)
          /\ members' = [members EXCEPT ![j.token].credits = @ - 1,
                                       ![j.token].until = j.base + 1]
          /\ Resume(j, [j EXCEPT !.at = "paid"])
       \/ /\ ~CanPay(j.token) /\ End(j) /\ UNCHANGED members
    /\ UNCHANGED <<challenge, nonces, page, token, wallet, nav, ready, selected, clicks>>

CancelSubscription(j) ==
    /\ j.at = "cancel"
    /\ members' = [members EXCEPT ![j.token].until = 0]
    /\ End(j)
    /\ UNCHANGED <<challenge, nonces, page, token, wallet, nav, ready, selected, clicks>>

LinkWallet(j) ==
    /\ j.at = "link" /\ j.token # 0
    /\ Bound(j.token, j.wallet) /\ End(j)
    /\ UNCHANGED <<challenge, nonces, page, token, wallet, nav, ready, selected, clicks>>

\* The empty address is an address to the unique index: one member at most has it.
UnlinkMember(j) ==
    /\ j.at = "unlink"
    /\ Bound(j.token, Unlinked) /\ End(j)
    /\ wallet' = IF j.kind = "gone" THEN wallet ELSE None
    /\ UNCHANGED <<challenge, nonces, page, token, nav, ready, selected, clicks>>
-----------------------------------------------------------------------------
(* The tab takes an answer. *)

\* The document that asked is gone.
NobodyTakes(j) ==
    /\ j.kind = "gone" /\ j.at \in {"sign", "answered", "paid"} /\ End(j)
    /\ UNCHANGED <<server, page, token, wallet, nav, ready, selected, clicks>>

LoaderDone(j) ==
    /\ j.kind = "loader" /\ j.at = "answered" /\ End(j)
    /\ IF j.got.id # 0
       THEN nav' = (IF j.live THEN j.got.id ELSE nav) /\ UNCHANGED <<token, wallet>>
       ELSE token' = 0 /\ wallet' = None /\ nav' = (IF j.live THEN 0 ELSE nav)
    /\ UNCHANGED <<server, page, ready, selected, clicks>>

GateForgetsAdmins(p, got) ==
    IF got.id = 0 THEN Landing
    ELSE IF p = "/member" /\ ~got.active THEN "/subscribe" ELSE p

\* Where the gate of page p sends the member it was told of; p means: come in.
GateSends(p, got) ==
    IF got.id = 0 THEN Landing
    ELSE IF p = "/admin/payouts" THEN (IF got.admin THEN p ELSE "/member")
    ELSE IF got.admin THEN "/admin"
    ELSE IF p = "/member" /\ ~got.active THEN "/subscribe"
    ELSE p

\* A gate that is no longer mounted lets nobody in but still sends away.
GateDone(j) ==
    LET to == GateSends(j.page, j.got)
    IN  /\ j.kind = "gate" /\ j.at = "answered"
        /\ IF to # j.page THEN GoTo(to, jobs \ {j})
           ELSE /\ ready' = (ready \/ j.live)
                /\ jobs' = (jobs \ {j}) \cup
                     (IF j.live /\ page = "/subscribe" /\ token # 0
                      THEN {[Job("checkpoint", "me") EXCEPT !.token = token]} ELSE {})
                /\ UNCHANGED <<page, nav>>
        /\ UNCHANGED <<server, token, wallet, selected, clicks>>

\* The subscription page sends away who has subscribed already.
CheckpointDone(j) ==
    /\ j.kind = "checkpoint" /\ j.at = "answered"
    /\ IF j.got.active THEN GoTo("/member", jobs \ {j})
       ELSE End(j) /\ UNCHANGED <<page, nav, ready>>
    /\ UNCHANGED <<server, token, wallet, selected, clicks>>

PayDone(j) ==
    /\ j.kind \in {"pay", "renew"} /\ j.at = "paid"
    /\ IF j.kind = "pay" THEN GoTo("/member", jobs \ {j})
       ELSE End(j) /\ UNCHANGED <<page, nav, ready>>
    /\ UNCHANGED <<server, token, wallet, selected, clicks>>

HomeOf(kind, got) ==
    CASE kind = "merchant" -> "/merchant"
      [] kind = "admin"    -> "/admin"
      [] OTHER             -> IF got.active THEN "/member" ELSE "/subscribe"

\* The token is stored and the whole document replaced.
LoggedIn(j) ==
    /\ j.kind \in Logins /\ j.at = "answered"
    /\ token' = j.got.id
    /\ LoadPage(HomeOf(j.kind, j.got), j.got.id, wallet)
    /\ UNCHANGED <<server, wallet, selected, clicks>>
-----------------------------------------------------------------------------
Init ==
    /\ selected = CHOOSE w \in Wallets : TRUE   \* accounts are interchangeable
    /\ \/ members = <<>>
       \/ \E left \in 0 .. Credits - 1 :
              members = <<NewMember(None, None, TRUE), Subscriber(selected, left)>>
    /\ challenge = [w \in Wallets |-> 0] /\ nonces = 0
    /\ page = Landing /\ token = 0 /\ wallet = None
    /\ nav = 0 /\ ready = FALSE /\ jobs = {} /\ clicks = 0

Visitor ==
    \/ \E p \in Pages : FollowLink(p) \/ Visit(p)
    \/ \E w \in Wallets : SwitchAccount(w)
    \/ Logout \/ handleAdminLogin \/ NavWalletLogin
    \/ \E k \in WalletLogins, named \in BOOLEAN : handleWalletLogin(k, named)
    \/ Subscribe \/ Renew \/ Cancel \/ ChangeWallet \/ UnlinkWallet

Extension(j) == AccountsRead(j) \/ Connected(j) \/ Signed(j) \/ Declined(j)

Server(j) ==
    \/ RequestFails(j) \/ AnswerMe(j)
    \/ StartWalletAuth(j) \/ VerifyChallenge(j) \/ LookUpMember(j)
    \/ CreateMember(j) \/ BindWallet(j) \/ PasswordLogin(j)
    \/ PayReadsExpiry(j) \/ PayCharges(j) \/ CancelSubscription(j)
    \/ LinkWallet(j) \/ UnlinkMember(j)

TabTakes(j) ==
    \/ NobodyTakes(j) \/ LoaderDone(j) \/ GateDone(j)
    \/ CheckpointDone(j) \/ PayDone(j) \/ LoggedIn(j)

Next == Visitor \/ \E j \in jobs : Extension(j) \/ Server(j) \/ TabTakes(j)

\* Every request is answered or fails, and the tab takes the answer.  Nothing
\* is assumed of the visitor, nor of the prompts of the wallet extension.
Progress == \E j \in jobs : AccountsRead(j) \/ Server(j) \/ TabTakes(j)

Spec == Init /\ [][Next]_vars /\ WF_vars(Progress)
-----------------------------------------------------------------------------
TypeOK ==
    /\ \A m \in Ids : members[m] \in
          [identity : Wallets \cup {None}, wallet : Wallets \cup {None, Unlinked},
           admin : BOOLEAN, until : 0 .. Credits, credits : 0 .. Credits]
    /\ challenge \in [Wallets -> 0 .. nonces] /\ nonces \in 0 .. MaxClicks
    /\ page \in Pages /\ {token, nav} \subseteq Ids \cup {0}
    /\ wallet \in Wallets \cup {None} /\ selected \in Wallets
    /\ ready \in BOOLEAN /\ clicks \in 0 .. MaxClicks
    /\ \A j \in jobs : j.kind \in Logins \cup Asking \cup
                                   {"loader", "gate", "checkpoint", "gone"}

\* README: "only who has subscribed enters the pages of the system".  What a
\* gate has let in belongs to the member whose token the tab holds now: an
\* administrator behind /admin/payouts, a member behind the others, and one
\* who has subscribed behind /member.
PagesAreGated ==
    ready /\ token # 0 =>
        /\ page \in Gated
        /\ members[token].admin <=> page = "/admin/payouts"
        /\ page = "/member" => members[token].credits < Credits

\* Two members are never logged in with one wallet, whatever is linked,
\* unlinked and registered again meanwhile.
WalletsAreUnique ==
    \A m, n \in Ids : members[m].wallet \in Wallets /\ members[m].wallet = members[n].wallet
        => m = n

\* Redirects end.  The gates send each other's visitors away, and requests may
\* fail: yet once the visitor stops, no page stays at "verifying" and nothing
\* is awaited but a prompt the visitor has not answered.
Settled ==
    /\ \A j \in jobs : j.at \in {"connect", "sign"}
    /\ page \in Gated => ready
RedirectsEnd == <>[]Settled
=============================================================================
