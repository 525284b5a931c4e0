----------------------------- MODULE MerchantPortal -----------------------------
(***************************************************************************)
(* The portal of a merchant: changes of the menu are submitted on the      *)
(* merchant's pages, reviewed on the administrators' page, and put on the  *)
(* menu from the next midnight on by the requests that read merchants;     *)
(* several may do so at once, and most answer even when that failed.  A    *)
(* merchant closes its shop on the profile page, which administrators      *)
(* review too.                                                             *)
(*                                                                         *)
(* Bounds: one shop, one item of its menu, the changes Changes of it; Days *)
(* business days; the rows Rows of the item in the menu's table.           *)
(***************************************************************************)
EXTENDS Naturals, Sequences, FiniteSets

CONSTANTS
    Readers,    \* requests that read merchants
    MaxChange,  \* ids of changes, 1 .. MaxChange
    Days,       \* business days, 0 .. Days
    MaxRow      \* rows of the item, 1 .. MaxRow

ASSUME PortalConstants ==
    {MaxChange, Days, MaxRow} \subseteq Nat

Changes == 1 .. MaxChange
Rows == 1 .. MaxRow

VARIABLES
    day,        \* of the business calendar
    asked,      \* history: administrators have been shown that the shop is to close
    shop,       \* "open", "closing" (delist_requested_at) or "closed" (delisted_at)
    change,     \* menu_change_requests: action ("create" and "update" are applied alike,
                \* "put" here; "other" is any string the handler takes besides), status,
                \* effective_at
    menu,       \* menu_items: the change a row of the item shows, 0 without a row
    reader,     \* what each reader still has to apply, what was due when it began, and
                \* whether it was answered with that applied ("done") or without ("bare")
    told        \* history: what a tab was told became of a change

vars == <<day, shop, asked, change, menu, reader, told>>

Idle == [at |-> "idle", rest |-> <<>>, due |-> {}, row |-> 0]
Bare == [Idle EXCEPT !.at = "bare"]
AtRest == {"idle", "done", "bare"}
-----------------------------------------------------------------------------
(* Applying what is due.                                                   *)

Approved(c) == change[c].status = "approved"
Due(c)      == Approved(c) /\ change[c].effective <= day
DueSet == {c \in Changes : Due(c)}

Sooner(c, d) ==
    \/ change[c].effective < change[d].effective
    \/ change[c].effective = change[d].effective /\ c < d

\* The rows that are due, by their day and their id.
InOrder(due) ==
    CHOOSE s \in [1 .. Cardinality(due) -> due] :
        \A i, j \in DOMAIN s : i < j => Sooner(s[i], s[j])

ApplyScheduledMenuChangeRequests(r) ==
    /\ reader[r].at \in AtRest
    /\ reader' = [reader EXCEPT ![r] =
           [at |-> "next", rest |-> InOrder(DueSet), due |-> DueSet, row |-> 0]]
    /\ UNCHANGED <<day, shop, asked, change, menu, told>>

\* The transaction of a row reads the item first, without a lock.
FindsItem(r) ==
    /\ reader[r].at = "next" /\ reader[r].rest # <<>>
    /\ LET there == {i \in Rows : menu[i] # 0} IN
       reader' = [reader EXCEPT ![r].at = "found",
                      ![r].row = IF there = {} THEN 0
                                 ELSE CHOOSE i \in there : \A j \in there : i <= j]
    /\ UNCHANGED <<day, shop, asked, change, menu, told>>

OnlyThis(s) == <<>>
TheOthers(s) == Tail(s)

\* The item and the status of the change are written in one transaction.  An action
\* that is neither is an error, at that row and every time.
AppliesChange(r) ==
    LET c == Head(reader[r].rest) IN
    /\ reader[r].at = "found"
    /\ \/ /\ change[c].action = "delete"
          /\ menu' = [i \in Rows |-> 0]
       \/ /\ change[c].action = "put" /\ reader[r].row # 0
          /\ menu' = [menu EXCEPT ![reader[r].row] = IF @ = 0 THEN 0 ELSE c]
       \/ /\ change[c].action = "put" /\ reader[r].row = 0
          /\ \E i \in Rows : /\ menu[i] = 0
                             /\ \A j \in Rows : menu[j] = 0 => i <= j
                             /\ menu' = [menu EXCEPT ![i] = c]
    /\ change' = [change EXCEPT ![c].status = "applied"]
    /\ reader' = [reader EXCEPT ![r].at = "next", ![r].rest = TheOthers(@), ![r].row = 0]
    /\ UNCHANGED <<day, shop, asked, told>>

HasApplied(r) ==
    /\ reader[r].at = "next" /\ reader[r].rest = <<>>
    /\ reader' = [reader EXCEPT ![r].at = "done"]
    /\ UNCHANGED <<day, shop, asked, change, menu, told>>

\* A statement fails, the action is unknown, or the request is cut off: the rows left
\* are left.  The merchant's dashboard reports it; every other reader drops the error
\* and answers with the menu as it is.
ApplyFails(r) ==
    /\ reader[r].at \in {"next", "found"}
    /\ reader' \in {[reader EXCEPT ![r] = Idle], [reader EXCEPT ![r] = Bare]}
    /\ UNCHANGED <<day, shop, asked, change, menu, told>>

\* This one answers without applying anything.
GetMerchantDetail(r) ==
    /\ reader[r].at \in AtRest
    /\ reader' = [reader EXCEPT ![r] = Bare]
    /\ UNCHANGED <<day, shop, asked, change, menu, told>>

TwoMidnights(d)          == d + 2
nextEffectiveMidnight(d) == d + 1

Midnight ==
    /\ day < Days /\ day' = day + 1
    /\ UNCHANGED <<shop, asked, change, menu, reader, told>>
-----------------------------------------------------------------------------
(* The pages.  Each shows what was so when it last asked, and any number    *)
(* of them may be open: a control may be used on whatever was shown once.  *)

WerePending == {c \in Changes : change[c].status # "none"}
Acts(names, cs) == [name : names, change : cs]

\* The form offers no other action, but the handler takes any.
MerchantMenuManager        == Acts({"put", "delete", "other"}, {0})
MerchantMenuRequestHistory == Acts({"withdraw"}, WerePending)
MerchantProfileManager     == Acts({"unlink"}, {0})
AdminMenuReviews           == Acts({"approve", "reject"}, WerePending)
AdminMerchantDelists       == IF asked THEN Acts({"delist", "relist"}, {0}) ELSE {}

\* A tab that gets no answer is told nothing, whatever the server did.
Told(c, became) == told' \in {told, [told EXCEPT ![c] = @ \cup {became}]}

Unapplied(c) == change[c].status # "applied"
Pending(c)   == change[c].status = "pending"

GetMerchantByOwner == shop = "open"

CreateMenuChangeRequest(action) ==
    /\ GetMerchantByOwner
    /\ \E c \in Changes :
          /\ change[c].status = "none"
          /\ \A d \in Changes : change[d].status = "none" => c <= d
          /\ change' = [change EXCEPT ![c].action = action, ![c].status = "pending"]
    /\ UNCHANGED <<day, shop, asked, menu, reader, told>>

WithdrawMenuChangeRequest(c) ==
    /\ Pending(c) /\ Told(c, "withdrawn")
    /\ change' = [change EXCEPT ![c].status = "withdrawn"]
    /\ UNCHANGED <<day, shop, asked, menu, reader>>

ReviewMenuChangeRequest(c, decision) ==
    /\ Pending(c)
    /\ \/ /\ decision = "reject" /\ Told(c, "rejected")
          /\ change' = [change EXCEPT ![c].status = "rejected"]
       \/ /\ decision = "approve" /\ Told(c, "approved")
          /\ change' = [change EXCEPT ![c].status = "approved",
                                      ![c].effective = nextEffectiveMidnight(day)]
    /\ UNCHANGED <<day, shop, asked, menu, reader>>

UnlinkOwnedMerchant ==
    /\ shop # "closed"
    /\ shop' = "closing" /\ asked' = TRUE
    /\ UNCHANGED <<day, change, menu, reader, told>>

\* The decision is written whatever has become of the request.
ReviewMerchantDelist(decision) ==
    /\ shop' = IF decision = "delist" THEN "closed" ELSE "open"
    /\ UNCHANGED <<day, asked, change, menu, reader, told>>

Click ==
    \/ \E a \in MerchantMenuManager : CreateMenuChangeRequest(a.name)
    \/ \E a \in MerchantMenuRequestHistory : WithdrawMenuChangeRequest(a.change)
    \/ \E a \in AdminMenuReviews : ReviewMenuChangeRequest(a.change, a.name)
    \/ \E a \in MerchantProfileManager : UnlinkOwnedMerchant
    \/ \E a \in AdminMerchantDelists : ReviewMerchantDelist(a.name)
-----------------------------------------------------------------------------
Init ==
    /\ day = 0 /\ shop = "open" /\ asked = FALSE
    /\ change = [c \in Changes |-> [action |-> "put", status |-> "none", effective |-> 0]]
    /\ menu = [i \in Rows |-> 0]
    /\ reader = [r \in Readers |-> Idle]
    /\ told = [c \in Changes |-> {}]

Reading(r) ==
    \/ ApplyScheduledMenuChangeRequests(r) \/ FindsItem(r) \/ AppliesChange(r)
    \/ HasApplied(r) \/ ApplyFails(r) \/ GetMerchantDetail(r)

Next == Midnight \/ Click \/ \E r \in Readers : Reading(r)

Spec == Init /\ [][Next]_vars
-----------------------------------------------------------------------------
TypeOK ==
    /\ day \in 0 .. Days /\ shop \in {"open", "closing", "closed"}
    /\ change \in [Changes -> [action : {"put", "delete", "other"},
           status : {"none", "pending", "withdrawn", "rejected", "approved", "applied"},
           effective : 0 .. Days + 1]]
    /\ menu \in [Rows -> {0} \cup Changes]
    /\ \A r \in Readers : reader[r].at \in AtRest \cup {"next", "found"}

\* What a tab was told became of a change is what became of it: of a merchant that
\* withdraws and administrators that decide on what their pages still show as pending,
\* one is told so and the others that they are too late.
AnswersStand ==
    \A c \in Changes : \A s \in told[c] :
        IF s = "approved" THEN change[c].status \in {"approved", "applied"}
        ELSE change[c].status = s

\* The menu shows nothing before its midnight, and nothing that was not approved.
NothingEarly ==
    \A i \in Rows : menu[i] # 0 =>
        change[menu[i]].status = "applied" /\ change[menu[i]].effective <= day

\* Where applying the due changes returned without an error, every change that was due
\* when it began is applied, although other requests were applying the same changes and
\* failing half way.  A reader that dropped the error, or that does not apply, is promised
\* nothing: it may be answered with a menu that due changes are missing from.
AppliedIsComplete ==
    \A r \in Readers : reader[r].at = "done" =>
        \A c \in reader[r].due : change[c].status = "applied"

\* A decision is final: a change that was withdrawn, rejected or applied stays as it is,
\* and one that was approved is still to be applied, as approved and not before its day,
\* although readers write it applied from a list they have read long before.
Still(c)   == change'[c] = change[c]
Applied(c) == Due(c) /\ change'[c] = [change[c] EXCEPT !.status = "applied"]
DecisionsAreFinal ==
    [][\A c \in Changes :
          change[c].status \in {"none", "pending"} \/ Still(c) \/ Applied(c)]_vars
=============================================================================
