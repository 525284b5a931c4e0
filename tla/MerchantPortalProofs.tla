------------------------ MODULE MerchantPortalProofs ------------------------
(***************************************************************************)
(* Proofs about MerchantPortal, for any number of changes, days, rows and  *)
(* readers that apply the same changes at once.                            *)
(***************************************************************************)
EXTENDS MerchantPortal, FiniteSetTheorems, FunctionTheorems, WellFoundedInduction, TLAPS

-----------------------------------------------------------------------------
(***************************************************************************)
(* Every non-empty set of naturals has a least element.                    *)
(***************************************************************************)
LEMMA NatLeast ==
  ASSUME NEW T \in SUBSET Nat, T # {}
  PROVE  \E x \in T : \A y \in T : x <= y
  <1>1. \E x \in T : \A y \in T : <<y, x>> \notin OpToRel(<, Nat)
    BY NatLessThanWellFounded, WFMin, Zenon
  <1>2. PICK x \in T : \A y \in T : <<y, x>> \notin OpToRel(<, Nat)
    BY <1>1
  <1>3. \A y \in T : ~(y < x)
    BY <1>2, Zenon DEF OpToRel
  <1> QED
    BY <1>3

-----------------------------------------------------------------------------
Statuses == {"none", "pending", "withdrawn", "rejected", "approved", "applied"}
Answers  == {"withdrawn", "rejected", "approved"}

Change == [action : {"put", "delete", "other"}, status : Statuses, effective : 0 .. Days + 1]

\* What the assumption on the constants says of changes and rows.
LEMMA PortalTypes ==
  /\ MaxChange \in Nat /\ Days \in Nat /\ MaxRow \in Nat
  /\ IsFiniteSet(Changes) /\ Changes \subseteq Nat /\ Rows \subseteq Nat
  /\ 0 \notin Changes
  <1>1. MaxChange \in Nat /\ Days \in Nat /\ MaxRow \in Nat
    BY PortalConstants
  <1>2. IsFiniteSet(Changes)
    BY <1>1, FS_Interval DEF Changes
  <1> QED
    BY <1>1, <1>2 DEF Changes, Rows

-----------------------------------------------------------------------------
(***************************************************************************)
(* Rows are applied by their day and, within a day, by their id: of two    *)
(* rows one comes first.                                                   *)
(***************************************************************************)
LEMMA SoonerOrder ==
  ASSUME change \in [Changes -> Change]
  PROVE  \A c, d, e \in Changes :
           /\ ~Sooner(c, c)
           /\ Sooner(c, d) /\ Sooner(d, e) => Sooner(c, e)
           /\ c = d \/ Sooner(c, d) \/ Sooner(d, c)
  <1>1. Changes \subseteq Nat /\ \A c \in Changes : change[c].effective \in Nat
    BY PortalTypes DEF Change
  <1> QED
    BY <1>1 DEF Sooner

Before(due, c) == {d \in due : Sooner(d, c)}
Rank(due) == [c \in due |-> Cardinality(Before(due, c)) + 1]

(***************************************************************************)
(* The place of a row is one more than the number of rows before it; no    *)
(* two rows have the same place.                                           *)
(***************************************************************************)
LEMMA RankBijection ==
  ASSUME change \in [Changes -> Change], NEW due \in SUBSET Changes
  PROVE  /\ IsFiniteSet(due) /\ Cardinality(due) \in Nat
         /\ Rank(due) \in [due -> 1 .. Cardinality(due)]
         /\ \A c, d \in due : Sooner(c, d) => Rank(due)[c] < Rank(due)[d]
         /\ \A i \in 1 .. Cardinality(due) : \E c \in due : Rank(due)[c] = i
  <1> DEFINE n == Cardinality(due)
             rank == Rank(due)
  <1>1. IsFiniteSet(due) /\ n \in Nat
    BY PortalTypes, FS_Subset, FS_CardinalityType
  <1>2. ASSUME NEW c \in due
        PROVE  IsFiniteSet(Before(due, c)) /\ Cardinality(Before(due, c)) \in Nat
    BY <1>1, FS_Subset, FS_CardinalityType DEF Before
  <1>3. ASSUME NEW c \in due, NEW d \in due, Sooner(c, d)
        PROVE  Cardinality(Before(due, c)) < Cardinality(Before(due, d))
    <2>1. Before(due, c) \in SUBSET Before(due, d)
      BY <1>3, SoonerOrder DEF Before
    <2>2. c \in Before(due, d) /\ c \notin Before(due, c)
      BY <1>3, SoonerOrder DEF Before
    <2>3. IsFiniteSet(Before(due, d))
      BY <1>2
    <2>4. /\ Cardinality(Before(due, c)) <= Cardinality(Before(due, d))
          /\ Cardinality(Before(due, c)) = Cardinality(Before(due, d))
               => Before(due, c) = Before(due, d)
      BY <2>1, <2>3, FS_Subset
    <2> QED
      BY <1>2, <2>2, <2>4
  <1>4. ASSUME NEW c \in due PROVE Cardinality(Before(due, c)) < n
    <2>1. Before(due, c) \in SUBSET due /\ c \notin Before(due, c)
      BY SoonerOrder DEF Before
    <2>2. /\ Cardinality(Before(due, c)) <= n
          /\ Cardinality(Before(due, c)) = n => Before(due, c) = due
      BY <1>1, <2>1, FS_Subset
    <2> QED
      BY <1>1, <1>2, <2>1, <2>2
  <1>5. rank \in [due -> 1 .. n]
    <2> SUFFICES ASSUME NEW c \in due PROVE Cardinality(Before(due, c)) + 1 \in 1 .. n
      BY DEF Rank
    <2> QED
      BY <1>1, <1>2, <1>4
  <1>6. \A c, d \in due : Sooner(c, d) => rank[c] < rank[d]
    BY <1>2, <1>3 DEF Rank
  <1>7. rank \in Surjection(due, 1 .. n)
    <2>1. \A c, d \in due : rank[c] = rank[d] => c = d
      BY <1>1, <1>5, <1>6, SoonerOrder
    <2>2. rank \in Injection(due, 1 .. n)
      <3> HIDE DEF rank, n
      <3> QED
        BY <1>5, <2>1, Fun_IsInj
    <2>3. IsFiniteSet(1 .. n) /\ Cardinality(1 .. n) = n
      BY <1>1, FS_Interval
    <2> HIDE DEF rank
    <2> QED
      BY <2>2, <2>3, FS_Injection
  <1>8. \A i \in 1 .. n : \E c \in due : rank[c] = i
    BY <1>7 DEF Surjection
  <1> QED
    BY <1>1, <1>5, <1>6, <1>8

(***************************************************************************)
(* So what is due can be put in order, whatever it is.                     *)
(***************************************************************************)
LEMMA InOrderType ==
  ASSUME change \in [Changes -> Change], NEW due \in SUBSET Changes
  PROVE  /\ InOrder(due) \in [1 .. Cardinality(due) -> due]
         /\ \A i, j \in 1 .. Cardinality(due) :
              i < j => Sooner(InOrder(due)[i], InOrder(due)[j])
  <1> DEFINE n == Cardinality(due)
             rank == Rank(due)
             s == [i \in 1 .. n |-> CHOOSE c \in due : rank[c] = i]
             P(t) == \A i, j \in DOMAIN t : i < j => Sooner(t[i], t[j])
  <1>1. \A i \in 1 .. n : s[i] \in due /\ rank[s[i]] = i
    BY RankBijection
  <1>2. s \in [1 .. n -> due]
    BY <1>1
  <1>3. n \in Nat
    BY RankBijection
  <1>4. \A i, j \in 1 .. n : i < j => Sooner(s[i], s[j])
    <2> SUFFICES ASSUME NEW i \in 1 .. n, NEW j \in 1 .. n, i < j
                 PROVE  Sooner(s[i], s[j])
      OBVIOUS
    <2>1. s[i] \in due /\ s[j] \in due /\ rank[s[i]] = i /\ rank[s[j]] = j
      BY <1>1
    <2> HIDE DEF s, rank
    <2>2. s[i] # s[j]
      BY <1>3, <2>1
    <2>3. ~Sooner(s[j], s[i])
      BY <1>3, <2>1, RankBijection DEF rank
    <2> QED
      BY <2>1, <2>2, <2>3, SoonerOrder
  <1>5. P(s)
    BY <1>2, <1>4
  <1>6. InOrder(due) = CHOOSE t \in [1 .. n -> due] : P(t)
    BY DEF InOrder
  <1> HIDE DEF s, P, n
  <1>7. InOrder(due) \in [1 .. n -> due] /\ P(InOrder(due))
    BY <1>2, <1>5, <1>6
  <1>8. DOMAIN InOrder(due) = 1 .. n
    BY <1>7
  <1> QED
    BY <1>7, <1>8 DEF P, n

(***************************************************************************)
(* ... and nothing that is due is missing.                                 *)
(***************************************************************************)
LEMMA InOrderCovers ==
  ASSUME change \in [Changes -> Change], NEW due \in SUBSET Changes
  PROVE  /\ InOrder(due) \in Seq(Changes)
         /\ \A i \in DOMAIN InOrder(due) : InOrder(due)[i] \in due
         /\ \A c \in due : \E i \in DOMAIN InOrder(due) : InOrder(due)[i] = c
  <1> DEFINE n == Cardinality(due)
             s == InOrder(due)
  <1>1. n \in Nat /\ IsFiniteSet(due)
    BY RankBijection
  <1>2. s \in [1 .. n -> due] /\ \A i, j \in 1 .. n : i < j => Sooner(s[i], s[j])
    BY InOrderType
  <1> HIDE DEF s
  <1>3. \A i, j \in 1 .. n : s[i] = s[j] => i = j
    BY <1>1, <1>2, SoonerOrder
  <1>4. s \in Injection(1 .. n, due)
    <2> HIDE DEF n
    <2> QED
      BY <1>2, <1>3, Fun_IsInj
  <1>5. s \in Surjection(1 .. n, due)
    <2>1. Cardinality(1 .. n) = n
      BY <1>1, FS_Interval
    <2> QED
      BY <1>1, <1>4, <2>1, FS_Injection
  <1>6. \A c \in due : \E i \in 1 .. n : s[i] = c
    BY <1>5 DEF Surjection
  <1>7. s \in Seq(Changes)
    <2> HIDE DEF n
    <2>1. s \in [1 .. n -> Changes]
      BY <1>2
    <2> QED
      BY <1>1, <2>1
  <1> QED
    BY <1>2, <1>6, <1>7 DEF s

-----------------------------------------------------------------------------
(***************************************************************************)
(* The properties are not inductive alone.  What a reader has still to     *)
(* apply was approved, and its day has come; what was due when it began is *)
(* applied or among it; and nobody is told anything but an answer.         *)
(***************************************************************************)
Reader == [at : {"idle", "next", "found", "done", "bare"}, rest : Seq(Changes),
           due : SUBSET Changes, row : {0} \cup Rows]

DueStays(r) ==
  LET rest == reader[r].rest IN
  /\ reader[r].at = "found" => rest # <<>>
  /\ reader[r].at = "done" => rest = <<>>
  /\ \A i \in DOMAIN rest :
       change[rest[i]].status \in {"approved", "applied"} /\ change[rest[i]].effective <= day
  /\ \A c \in reader[r].due :
       change[c].status = "applied" \/ \E i \in DOMAIN rest : rest[i] = c

PortalInv ==
  /\ TypeOK /\ reader \in [Readers -> Reader] /\ told \in [Changes -> SUBSET Answers]
  /\ \A r \in Readers : DueStays(r)
  /\ AnswersStand /\ NothingEarly

\* The invariant holds at the start, where nothing was asked for.
LEMMA PortalInit == Init => PortalInv
  <1> SUFFICES ASSUME Init
               PROVE  PortalInv
    OBVIOUS
  <1>1. change \in [Changes -> Change]
    BY PortalTypes DEF Init, Change, Statuses
  <1>2. TypeOK
    BY <1>1, PortalTypes DEF Init, TypeOK, Idle, AtRest, Change, Statuses
  <1>3. reader \in [Readers -> Reader] /\ told \in [Changes -> SUBSET Answers]
    BY DEF Init, Idle, Reader
  <1>4. \A r \in Readers : DueStays(r)
    BY DEF Init, Idle, DueStays
  <1>5. AnswersStand /\ NothingEarly
    BY DEF Init, AnswersStand, NothingEarly
  <1> QED
    BY <1>2, <1>3, <1>4, <1>5 DEF PortalInv

(***************************************************************************)
(* The types, one fact each.                                               *)
(***************************************************************************)
LEMMA PortalFacts ==
  ASSUME PortalInv
  PROVE  /\ change \in [Changes -> Change]
         /\ \A c \in Changes : /\ change[c] \in Change
                               /\ change[c].status \in Statuses
                               /\ change[c].effective \in Nat
         /\ menu \in [Rows -> {0} \cup Changes]
         /\ day \in 0 .. Days /\ day \in Nat
         /\ reader \in [Readers -> Reader]
         /\ \A r \in Readers : /\ reader[r] \in Reader
                               /\ reader[r].rest \in Seq(Changes)
                               /\ reader[r].due \in SUBSET Changes
                               /\ DueStays(r)
         /\ told \in [Changes -> SUBSET Answers]
  <1>1. change \in [Changes -> Change]
    BY DEF PortalInv, TypeOK, Change, Statuses
  <1>2. \A c \in Changes : /\ change[c] \in Change
                           /\ change[c].status \in Statuses
                           /\ change[c].effective \in Nat
    BY <1>1, PortalTypes DEF Change
  <1>3. day \in 0 .. Days /\ day \in Nat
    BY PortalTypes DEF PortalInv, TypeOK
  <1>4. \A r \in Readers : /\ reader[r] \in Reader
                           /\ reader[r].rest \in Seq(Changes)
                           /\ reader[r].due \in SUBSET Changes
    BY DEF PortalInv, Reader
  <1> QED
    BY <1>1, <1>2, <1>3, <1>4 DEF PortalInv, TypeOK

(***************************************************************************)
(* The steps, with the controls of the pages resolved.                     *)
(***************************************************************************)
LEMMA PortalCases ==
  ASSUME [Next]_vars
  PROVE  \/ Midnight
         \/ \E action \in {"put", "delete", "other"} : CreateMenuChangeRequest(action)
         \/ \E c \in Changes : WithdrawMenuChangeRequest(c)
         \/ \E c \in Changes, decision \in {"approve", "reject"} :
              ReviewMenuChangeRequest(c, decision)
         \/ UnlinkOwnedMerchant
         \/ \E decision \in {"delist", "relist"} : ReviewMerchantDelist(decision)
         \/ \E r \in Readers : ApplyScheduledMenuChangeRequests(r)
         \/ \E r \in Readers : FindsItem(r)
         \/ \E r \in Readers : AppliesChange(r)
         \/ \E r \in Readers : HasApplied(r)
         \/ \E r \in Readers : ApplyFails(r)
         \/ \E r \in Readers : GetMerchantDetail(r)
         \/ UNCHANGED vars
  <1>1. ASSUME Click
        PROVE  \/ \E action \in {"put", "delete", "other"} : CreateMenuChangeRequest(action)
               \/ \E c \in Changes : WithdrawMenuChangeRequest(c)
               \/ \E c \in Changes, decision \in {"approve", "reject"} :
                    ReviewMenuChangeRequest(c, decision)
               \/ UnlinkOwnedMerchant
               \/ \E decision \in {"delist", "relist"} : ReviewMerchantDelist(decision)
    <2>1. ASSUME NEW a \in MerchantMenuManager
          PROVE  a.name \in {"put", "delete", "other"}
      BY DEF MerchantMenuManager, Acts
    <2>2. ASSUME NEW a \in MerchantMenuRequestHistory
          PROVE  a.change \in Changes
      BY DEF MerchantMenuRequestHistory, Acts, WerePending
    <2>3. ASSUME NEW a \in AdminMenuReviews
          PROVE  a.change \in Changes /\ a.name \in {"approve", "reject"}
      BY DEF AdminMenuReviews, Acts, WerePending
    <2>4. ASSUME NEW a \in AdminMerchantDelists
          PROVE  a.name \in {"delist", "relist"}
      <3>1. a \in Acts({"delist", "relist"}, {0})
        BY DEF AdminMerchantDelists
      <3> QED
        BY <3>1 DEF Acts
    <2> QED
      BY <1>1, <2>1, <2>2, <2>3, <2>4 DEF Click
  <1> QED
    BY <1>1 DEF Next, Reading

-----------------------------------------------------------------------------
(***************************************************************************)
(* Nothing decided is undone: an approved change keeps its day and can     *)
(* only be applied, an applied one stays so, and days pass.                *)
(***************************************************************************)
Decided == {"approved", "applied"}

Progress ==
  /\ day <= day'
  /\ \A c \in Changes : change[c].status \in Decided =>
       /\ change'[c].status \in Decided
       /\ change'[c].effective = change[c].effective
       /\ change[c].status = "applied" => change'[c].status = "applied"

\* What AppliesChange is about.
LEMMA HeadFacts ==
  ASSUME PortalInv, NEW r \in Readers, AppliesChange(r)
  PROVE  LET c == Head(reader[r].rest) IN
         /\ c \in Changes /\ change[c].status \in Decided /\ change[c].effective <= day
         /\ change' = [change EXCEPT ![c].status = "applied"]
         /\ change' \in [Changes -> Change]
         /\ change'[c].status = "applied" /\ change'[c].effective = change[c].effective
         /\ \A d \in Changes \ {c} : change'[d] = change[d]
         /\ reader[r].rest # <<>>
  <1> DEFINE rest == reader[r].rest
             c == Head(rest)
  <1>1. rest \in Seq(Changes) /\ rest # <<>> /\ change \in [Changes -> Change]
    BY PortalFacts DEF DueStays, AppliesChange
  <1>2. 1 \in DOMAIN rest /\ c = rest[1] /\ c \in Changes
    BY <1>1
  <1>3. change[c].status \in Decided /\ change[c].effective <= day
    BY <1>2, PortalFacts DEF DueStays, Decided
  <1>4. change' = [change EXCEPT ![c].status = "applied"]
    BY DEF AppliesChange
  <1> HIDE DEF c, rest
  <1>5. change[c] \in Change
    BY <1>1, <1>2
  <1>6. change'[c] = [change[c] EXCEPT !.status = "applied"]
    BY <1>1, <1>2, <1>4
  <1>7. /\ change'[c].status = "applied" /\ change'[c].effective = change[c].effective
        /\ change'[c] \in Change
    BY <1>5, <1>6 DEF Change, Statuses
  <1>8. \A d \in Changes \ {c} : change'[d] = change[d]
    BY <1>1, <1>4
  <1>9. change' \in [Changes -> Change]
    BY <1>1, <1>2, <1>4, <1>6, <1>7
  <1> QED
    BY <1>1, <1>2, <1>3, <1>4, <1>7, <1>8, <1>9 DEF c, rest

\* Every step moves days and changes only forward.
LEMMA ProgressStep ==
  ASSUME PortalInv, [Next]_vars
  PROVE  Progress
  <1>0. /\ change \in [Changes -> Change] /\ day \in Nat
    BY PortalFacts
  <1>1. ASSUME UNCHANGED <<day, change>> PROVE Progress
    BY <1>0, <1>1 DEF Progress
  <1>2. ASSUME Midnight PROVE Progress
    BY <1>0, <1>2 DEF Midnight, Progress
  <1>3. ASSUME NEW action \in {"put", "delete", "other"}, CreateMenuChangeRequest(action)
        PROVE  Progress
    <2>1. PICK c \in Changes : /\ change[c].status = "none"
                               /\ change' = [change EXCEPT ![c].action = action,
                                                           ![c].status = "pending"]
      BY <1>3 DEF CreateMenuChangeRequest
    <2>2. \A d \in Changes \ {c} : change'[d] = change[d]
      BY <1>0, <2>1
    <2>3. UNCHANGED day
      BY <1>3 DEF CreateMenuChangeRequest
    <2> QED
      BY <1>0, <2>1, <2>2, <2>3 DEF Progress, Decided
  <1>4. ASSUME NEW c \in Changes, WithdrawMenuChangeRequest(c) PROVE Progress
    BY <1>0, <1>4 DEF WithdrawMenuChangeRequest, Pending, Progress, Decided
  <1>5. ASSUME NEW c \in Changes, NEW decision \in {"approve", "reject"},
               ReviewMenuChangeRequest(c, decision)
        PROVE  Progress
    <2>1. /\ change[c].status = "pending" /\ UNCHANGED day
          /\ \A d \in Changes \ {c} : change'[d] = change[d]
      BY <1>0, <1>5 DEF ReviewMenuChangeRequest, Pending
    <2> QED
      BY <1>0, <2>1 DEF Progress, Decided
  <1>6. ASSUME NEW r \in Readers, AppliesChange(r) PROVE Progress
    <2> DEFINE h == Head(reader[r].rest)
    <2>1. UNCHANGED day
      BY <1>6 DEF AppliesChange
    <2>2. /\ change'[h].status = "applied" /\ change'[h].effective = change[h].effective
          /\ \A d \in Changes \ {h} : change'[d] = change[d]
      BY <1>6, HeadFacts
    <2> HIDE DEF h
    <2>3. \A c \in Changes : c = h \/ change'[c] = change[c]
      BY <2>2
    <2> QED
      BY <1>0, <2>1, <2>2, <2>3 DEF Progress, Decided
  <1>7. ASSUME \/ UnlinkOwnedMerchant
               \/ \E decision \in {"delist", "relist"} : ReviewMerchantDelist(decision)
               \/ \E r \in Readers : ApplyScheduledMenuChangeRequests(r)
               \/ \E r \in Readers : FindsItem(r)
               \/ \E r \in Readers : HasApplied(r)
               \/ \E r \in Readers : ApplyFails(r)
               \/ \E r \in Readers : GetMerchantDetail(r)
               \/ UNCHANGED vars
        PROVE  Progress
    BY <1>1, <1>7 DEF UnlinkOwnedMerchant, ReviewMerchantDelist, FindsItem, HasApplied,
                      ApplyScheduledMenuChangeRequests, ApplyFails, GetMerchantDetail, vars
  <1> QED
    BY <1>2, <1>3, <1>4, <1>5, <1>6, <1>7, PortalCases

(***************************************************************************)
(* Types.                                                                  *)
(***************************************************************************)
LEMMA ChangeStep ==
  ASSUME PortalInv, [Next]_vars
  PROVE  change' \in [Changes -> Change]
  <1>0. change \in [Changes -> Change] /\ day \in 0 .. Days /\ Days \in Nat
    BY PortalFacts, PortalTypes
  <1>1. ASSUME NEW c \in Changes, NEW s \in Statuses
        PROVE  [change[c] EXCEPT !.status = s] \in Change
    BY <1>0 DEF Change
  <1>2. ASSUME NEW action \in {"put", "delete", "other"}, CreateMenuChangeRequest(action)
        PROVE  change' \in [Changes -> Change]
    <2>1. PICK c \in Changes :
            change' = [change EXCEPT ![c].action = action, ![c].status = "pending"]
      BY <1>2 DEF CreateMenuChangeRequest
    <2>2. [change[c] EXCEPT !.action = action, !.status = "pending"] \in Change
      BY <1>0 DEF Change, Statuses
    <2>3. change' = [change EXCEPT ![c] = [change[c] EXCEPT !.action = action,
                                                            !.status = "pending"]]
      BY <1>0, <2>1
    <2> QED
      BY <1>0, <2>2, <2>3
  <1>3. ASSUME NEW c \in Changes, WithdrawMenuChangeRequest(c)
        PROVE  change' \in [Changes -> Change]
    <2>1. change' = [change EXCEPT ![c] = [change[c] EXCEPT !.status = "withdrawn"]]
      BY <1>3 DEF WithdrawMenuChangeRequest
    <2> QED
      BY <1>0, <1>1, <2>1 DEF Statuses
  <1>4. ASSUME NEW c \in Changes, NEW decision \in {"approve", "reject"},
               ReviewMenuChangeRequest(c, decision)
        PROVE  change' \in [Changes -> Change]
    <2>1. CASE change' = [change EXCEPT ![c].status = "rejected"]
      BY <1>0, <1>1, <2>1 DEF Statuses
    <2>2. CASE change' = [change EXCEPT ![c].status = "approved",
                                        ![c].effective = nextEffectiveMidnight(day)]
      <3> DEFINE e == nextEffectiveMidnight(day)
      <3>1. e \in 0 .. Days + 1
        BY <1>0 DEF nextEffectiveMidnight
      <3> HIDE DEF e
      <3>2. [change[c] EXCEPT !.status = "approved", !.effective = e] \in Change
        BY <1>0, <3>1 DEF Change, Statuses
      <3>3. change' = [change EXCEPT ![c] = [change[c] EXCEPT !.status = "approved",
                                                              !.effective = e]]
        BY <1>0, <2>2 DEF e
      <3> QED
        BY <1>0, <3>2, <3>3
    <2> QED
      BY <1>4, <2>1, <2>2 DEF ReviewMenuChangeRequest
  <1>5. ASSUME NEW r \in Readers, AppliesChange(r) PROVE change' \in [Changes -> Change]
    BY <1>5, HeadFacts
  <1>6. ASSUME \/ Midnight \/ UnlinkOwnedMerchant
               \/ \E decision \in {"delist", "relist"} : ReviewMerchantDelist(decision)
               \/ \E r \in Readers : ApplyScheduledMenuChangeRequests(r)
               \/ \E r \in Readers : FindsItem(r)
               \/ \E r \in Readers : HasApplied(r)
               \/ \E r \in Readers : ApplyFails(r)
               \/ \E r \in Readers : GetMerchantDetail(r)
               \/ UNCHANGED vars
        PROVE  change' \in [Changes -> Change]
    BY <1>0, <1>6 DEF Midnight, UnlinkOwnedMerchant, ReviewMerchantDelist, FindsItem,
                      HasApplied, ApplyScheduledMenuChangeRequests, ApplyFails,
                      GetMerchantDetail, vars
  <1> QED
    BY <1>2, <1>3, <1>4, <1>5, <1>6, PortalCases

\* Readers keep the shape of a reader.
LEMMA ReaderStep ==
  ASSUME PortalInv, [Next]_vars
  PROVE  reader' \in [Readers -> Reader]
  <1>0. /\ change \in [Changes -> Change] /\ reader \in [Readers -> Reader]
        /\ \A r \in Readers : /\ reader[r].rest \in Seq(Changes)
                              /\ reader[r].due \in SUBSET Changes
                              /\ DueStays(r)
    BY PortalFacts
  <1>1. ASSUME NEW r \in Readers, NEW x \in Reader, reader' = [reader EXCEPT ![r] = x]
        PROVE  reader' \in [Readers -> Reader]
    BY <1>0, <1>1
  <1>2. ASSUME NEW r \in Readers, ApplyScheduledMenuChangeRequests(r)
        PROVE  reader' \in [Readers -> Reader]
    <2> DEFINE x == [at |-> "next", rest |-> InOrder(DueSet), due |-> DueSet, row |-> 0]
    <2>1. DueSet \in SUBSET Changes
      BY DEF DueSet
    <2>2. InOrder(DueSet) \in Seq(Changes)
      BY <1>0, <2>1, InOrderCovers
    <2>3. x \in Reader
      BY <2>1, <2>2 DEF Reader
    <2>4. reader' = [reader EXCEPT ![r] = x]
      BY <1>2 DEF ApplyScheduledMenuChangeRequests
    <2> HIDE DEF x
    <2> QED
      BY <1>1, <2>3, <2>4
  <1>3. ASSUME NEW r \in Readers, FindsItem(r) PROVE reader' \in [Readers -> Reader]
    <2> DEFINE there == {i \in Rows : menu[i] # 0}
               row == IF there = {} THEN 0 ELSE CHOOSE i \in there : \A j \in there : i <= j
               x == [reader[r] EXCEPT !.at = "found", !.row = row]
    <2>1. row \in {0} \cup Rows
      <3>1. CASE there # {}
        <4>1. there \in SUBSET Nat /\ there \in SUBSET Rows
          BY PortalTypes
        <4> HIDE DEF there
        <4>2. \E i \in there : \A j \in there : i <= j
          BY <3>1, <4>1, NatLeast
        <4> QED
          BY <3>1, <4>1, <4>2
      <3> QED
        BY <3>1
    <2>2. reader' = [reader EXCEPT ![r].at = "found", ![r].row = row]
      BY <1>3, Zenon DEF FindsItem
    <2> HIDE DEF row
    <2>4. reader' = [reader EXCEPT ![r] = x]
      BY <1>0, <2>2
    <2>3. x \in Reader
      BY <1>0, <2>1 DEF Reader
    <2> HIDE DEF x
    <2> QED
      BY <1>1, <2>3, <2>4
  <1>4. ASSUME NEW r \in Readers, AppliesChange(r) PROVE reader' \in [Readers -> Reader]
    <2> DEFINE tail == Tail(reader[r].rest)
               x == [reader[r] EXCEPT !.at = "next", !.rest = tail, !.row = 0]
    <2>1. tail \in Seq(Changes)
      <3>1. reader[r].rest \in Seq(Changes) /\ reader[r].rest # <<>>
        BY <1>0, <1>4, HeadFacts
      <3> QED
        BY <3>1
    <2>2. reader' = [reader EXCEPT ![r] = x]
      BY <1>0, <1>4 DEF AppliesChange, TheOthers
    <2> HIDE DEF tail
    <2>3. x \in Reader
      BY <1>0, <2>1 DEF Reader
    <2> HIDE DEF x
    <2> QED
      BY <1>1, <2>2, <2>3
  <1>5. ASSUME NEW r \in Readers, HasApplied(r) PROVE reader' \in [Readers -> Reader]
    <2>1. [reader[r] EXCEPT !.at = "done"] \in Reader
      BY <1>0 DEF Reader
    <2> QED
      BY <1>1, <1>5, <2>1 DEF HasApplied
  <1>6. ASSUME NEW r \in Readers, ApplyFails(r) \/ GetMerchantDetail(r)
        PROVE  reader' \in [Readers -> Reader]
    <2>1. Idle \in Reader /\ Bare \in Reader
      <3>1. Idle \in Reader
        BY DEF Idle, Reader
      <3>2. Bare \in Reader
        BY <3>1 DEF Bare, Reader
      <3> QED
        BY <3>1, <3>2
    <2> QED
      BY <1>1, <1>6, <2>1 DEF ApplyFails, GetMerchantDetail
  <1>7. ASSUME UNCHANGED reader PROVE reader' \in [Readers -> Reader]
    BY <1>0, <1>7
  <1> QED
    BY <1>2, <1>3, <1>4, <1>5, <1>6, <1>7, PortalCases
       DEF Midnight, CreateMenuChangeRequest, WithdrawMenuChangeRequest,
           ReviewMenuChangeRequest, UnlinkOwnedMerchant, ReviewMerchantDelist, vars

(***************************************************************************)
(* What AppliesChange makes of the menu: no row shows a change that it did *)
(* not show before, but for the one that is applied.                       *)
(***************************************************************************)
LEMMA MenuStep ==
  ASSUME PortalInv, [Next]_vars
  PROVE  /\ menu' \in [Rows -> {0} \cup Changes]
         /\ \A i \in Rows : menu'[i] # 0 =>
              \/ menu'[i] = menu[i]
              \/ \E r \in Readers : AppliesChange(r) /\ menu'[i] = Head(reader[r].rest)
  <1> DEFINE Goal == /\ menu' \in [Rows -> {0} \cup Changes]
                     /\ \A i \in Rows : menu'[i] # 0 =>
                          \/ menu'[i] = menu[i]
                          \/ \E r \in Readers :
                               AppliesChange(r) /\ menu'[i] = Head(reader[r].rest)
  <1>0. menu \in [Rows -> {0} \cup Changes]
    BY PortalFacts
  <1>1. ASSUME UNCHANGED menu PROVE Goal
    BY <1>0, <1>1
  <1>2. ASSUME NEW r \in Readers, AppliesChange(r) PROVE Goal
    <2> DEFINE c == Head(reader[r].rest)
               row == reader[r].row
    <2>1. c \in Changes
      BY <1>2, HeadFacts
    <2>2. \/ menu' = [i \in Rows |-> 0]
          \/ menu' = [menu EXCEPT ![row] = IF @ = 0 THEN 0 ELSE c]
          \/ \E i \in Rows : menu' = [menu EXCEPT ![i] = c]
      BY <1>2 DEF AppliesChange
    <2> HIDE DEF c, row
    <2>3. menu' \in [Rows -> {0} \cup Changes]
          /\ \A i \in Rows : menu'[i] # 0 => menu'[i] = menu[i] \/ menu'[i] = c
      <3>1. CASE menu' = [i \in Rows |-> 0]
        BY <3>1
      <3>2. CASE menu' = [menu EXCEPT ![row] = IF @ = 0 THEN 0 ELSE c]
        <4> DEFINE v == IF menu[row] = 0 THEN 0 ELSE c
        <4>1. menu' = [menu EXCEPT ![row] = v] /\ v \in {0, c}
          BY <3>2
        <4> HIDE DEF v
        <4> QED
          BY <1>0, <2>1, <4>1
      <3>3. ASSUME NEW k \in Rows, menu' = [menu EXCEPT ![k] = c]
            PROVE  /\ menu' \in [Rows -> {0} \cup Changes]
                   /\ \A i \in Rows : menu'[i] # 0 => menu'[i] = menu[i] \/ menu'[i] = c
        BY <1>0, <2>1, <3>3
      <3> QED
        BY <2>2, <3>1, <3>2, <3>3
    <2> QED
      BY <1>2, <2>3 DEF c
  <1> HIDE DEF Goal
  <1>3. Goal
    BY <1>1, <1>2, PortalCases
       DEF Midnight, CreateMenuChangeRequest, WithdrawMenuChangeRequest,
           ReviewMenuChangeRequest, UnlinkOwnedMerchant, ReviewMerchantDelist,
           ApplyScheduledMenuChangeRequests, FindsItem, HasApplied, ApplyFails,
           GetMerchantDetail, vars
  <1> QED
    BY <1>3 DEF Goal

\* Every step keeps the types.
LEMMA PortalTypeStep ==
  ASSUME PortalInv, [Next]_vars
  PROVE  TypeOK'
  <1>1. day' \in 0 .. Days
    <2>1. day \in 0 .. Days /\ Days \in Nat
      BY PortalFacts, PortalTypes
    <2>2. CASE Midnight
      BY <2>1, <2>2 DEF Midnight
    <2>3. CASE UNCHANGED day
      BY <2>1, <2>3
    <2> QED
      BY <2>2, <2>3, PortalCases
         DEF CreateMenuChangeRequest, WithdrawMenuChangeRequest, ReviewMenuChangeRequest,
             UnlinkOwnedMerchant, ReviewMerchantDelist, ApplyScheduledMenuChangeRequests,
             FindsItem, AppliesChange, HasApplied, ApplyFails, GetMerchantDetail, vars
  <1>2. shop' \in {"open", "closing", "closed"}
    <2>1. shop \in {"open", "closing", "closed"}
      BY DEF PortalInv, TypeOK
    <2>2. CASE UNCHANGED shop
      BY <2>1, <2>2
    <2>3. CASE UnlinkOwnedMerchant
      BY <2>3 DEF UnlinkOwnedMerchant
    <2>4. ASSUME NEW decision \in {"delist", "relist"}, ReviewMerchantDelist(decision)
          PROVE  shop' \in {"open", "closing", "closed"}
      BY <2>4 DEF ReviewMerchantDelist
    <2> QED
      BY <2>2, <2>3, <2>4, PortalCases
         DEF Midnight, CreateMenuChangeRequest, WithdrawMenuChangeRequest,
             ReviewMenuChangeRequest, ApplyScheduledMenuChangeRequests,
             FindsItem, AppliesChange, HasApplied, ApplyFails, GetMerchantDetail, vars
  <1>3. change' \in [Changes -> Change]
    BY ChangeStep
  <1>4. \A r \in Readers : reader'[r].at \in {"idle", "next", "found", "done", "bare"}
    BY ReaderStep DEF Reader
  <1> QED
    BY <1>1, <1>2, <1>3, <1>4, MenuStep DEF TypeOK, AtRest, Change, Statuses

-----------------------------------------------------------------------------
(***************************************************************************)
(* A reader keeps what is due in hand while others apply the same rows.    *)
(***************************************************************************)
LEMMA DueKept ==
  ASSUME PortalInv, Progress, change' \in [Changes -> Change], day' \in Nat,
         NEW r \in Readers, reader'[r] = reader[r]
  PROVE  DueStays(r)'
  <1> DEFINE rest == reader[r].rest
  <1>1. /\ rest \in Seq(Changes) /\ reader[r].due \in SUBSET Changes
        /\ DueStays(r) /\ day \in Nat
        /\ \A c \in Changes : change[c].effective \in Nat
    BY PortalFacts
  <1>2. \A i \in DOMAIN rest : rest[i] \in Changes
    BY <1>1
  <1>3. \A i \in DOMAIN rest :
           change[rest[i]].status \in Decided /\ change[rest[i]].effective <= day
    BY <1>1 DEF DueStays, Decided
  <1>4. \A c \in reader[r].due :
           change[c].status = "applied" \/ \E i \in DOMAIN rest : rest[i] = c
    BY <1>1 DEF DueStays
  <1>5. /\ reader[r].at = "found" => rest # <<>>
        /\ reader[r].at = "done" => rest = <<>>
    BY <1>1 DEF DueStays
  <1> HIDE DEF rest
  <1>6. \A i \in DOMAIN rest :
           change'[rest[i]].status \in Decided /\ change'[rest[i]].effective <= day'
    BY <1>1, <1>2, <1>3 DEF Progress
  <1>7. \A c \in reader[r].due :
           change'[c].status = "applied" \/ \E i \in DOMAIN rest : rest[i] = c
    BY <1>1, <1>4 DEF Progress, Decided
  <1> QED
    BY <1>5, <1>6, <1>7 DEF DueStays, Decided, rest

\* Whatever step is taken, a reader keeps all that was due on its list or sees it applied.
LEMMA DueStep ==
  ASSUME PortalInv, [Next]_vars, NEW r \in Readers
  PROVE  DueStays(r)'
  <1>0. /\ reader \in [Readers -> Reader]
        /\ change \in [Changes -> Change]
        /\ reader[r].rest \in Seq(Changes) /\ reader[r].due \in SUBSET Changes
        /\ DueStays(r)
        /\ day \in Nat
    BY PortalFacts
  <1>1. Progress /\ change' \in [Changes -> Change] /\ day' \in Nat
    BY ProgressStep, ChangeStep, PortalTypeStep, PortalTypes DEF TypeOK
  <1>2. ASSUME reader'[r] = reader[r] PROVE DueStays(r)'
    BY <1>1, <1>2, DueKept
  <1>3. ASSUME NEW s \in Readers, ApplyScheduledMenuChangeRequests(s) PROVE DueStays(r)'
    <2>1. CASE r # s
      BY <1>0, <1>2, <1>3, <2>1 DEF ApplyScheduledMenuChangeRequests
    <2>2. CASE r = s
      <3> DEFINE rest == InOrder(DueSet)
      <3>1. /\ reader'[r] = [at |-> "next", rest |-> rest, due |-> DueSet, row |-> 0]
            /\ UNCHANGED <<change, day>>
        BY <1>0, <1>3, <2>2 DEF ApplyScheduledMenuChangeRequests
      <3>2. /\ \A i \in DOMAIN rest : rest[i] \in DueSet
            /\ \A c \in DueSet : \E i \in DOMAIN rest : rest[i] = c
        BY <1>0, InOrderCovers DEF DueSet
      <3> HIDE DEF rest
      <3>3. \A c \in DueSet : change[c].status = "approved" /\ change[c].effective <= day
        BY DEF DueSet, Due, Approved
      <3> QED
        BY <3>1, <3>2, <3>3 DEF DueStays
    <2> QED
      BY <2>1, <2>2
  <1>4. ASSUME NEW s \in Readers, FindsItem(s) PROVE DueStays(r)'
    <2>1. CASE r # s
      BY <1>0, <1>2, <1>4, <2>1 DEF FindsItem
    <2>2. CASE r = s
      <3>1. PICK row : reader' = [reader EXCEPT ![r].at = "found", ![r].row = row]
        BY <1>4, <2>2, Zenon DEF FindsItem
      <3>2. /\ reader'[r].at = "found" /\ reader'[r].rest = reader[r].rest
            /\ reader'[r].due = reader[r].due
        BY <1>0, <3>1 DEF Reader
      <3>3. reader[r].rest # <<>> /\ UNCHANGED <<change, day>>
        BY <1>4, <2>2 DEF FindsItem
      <3> QED
        BY <1>0, <3>2, <3>3 DEF DueStays
    <2> QED
      BY <2>1, <2>2
  <1>5. ASSUME NEW s \in Readers, AppliesChange(s) PROVE DueStays(r)'
    <2>1. CASE r # s
      BY <1>0, <1>2, <1>5, <2>1 DEF AppliesChange
    <2>2. CASE r = s
      <3> DEFINE rest == reader[r].rest
                 tail == Tail(rest)
                 c == Head(rest)
      <3>1. /\ c \in Changes /\ change'[c].status = "applied" /\ rest # <<>>
            /\ UNCHANGED day
        BY <1>5, <2>2, HeadFacts DEF AppliesChange
      <3>2. /\ reader'[r].at = "next" /\ reader'[r].rest = tail
            /\ reader'[r].due = reader[r].due
        <4>1. reader' = [reader EXCEPT ![r].at = "next", ![r].rest = tail, ![r].row = 0]
          BY <1>5, <2>2 DEF AppliesChange, TheOthers
        <4> HIDE DEF tail
        <4> QED
          BY <1>0, <4>1 DEF Reader
      <3>3. /\ c = rest[1] /\ rest \in Seq(Changes) /\ Len(rest) \in Nat \ {0}
            /\ DOMAIN rest = 1 .. Len(rest)
            /\ DOMAIN tail = 1 .. Len(rest) - 1
            /\ \A i \in 1 .. Len(rest) - 1 : tail[i] = rest[i + 1]
        BY <1>0, <3>1
      <3> HIDE DEF c, tail, rest
      <3>4. \A i \in DOMAIN tail : \E j \in DOMAIN rest : tail[i] = rest[j]
        BY <3>3
      <3>5. \A j \in DOMAIN rest : rest[j] = c \/ \E i \in DOMAIN tail : tail[i] = rest[j]
        <4> SUFFICES ASSUME NEW j \in DOMAIN rest, rest[j] # c
                     PROVE  \E i \in DOMAIN tail : tail[i] = rest[j]
          OBVIOUS
        <4>1. j - 1 \in 1 .. Len(rest) - 1 /\ (j - 1) + 1 = j
          BY <3>3
        <4> QED
          BY <3>3, <4>1
      <3>6. \A j \in DOMAIN rest :
              /\ rest[j] \in Changes
              /\ change[rest[j]].status \in Decided /\ change[rest[j]].effective <= day
        BY <1>0, <3>3 DEF DueStays, Decided, rest
      <3>7. \A i \in DOMAIN tail :
              change'[tail[i]].status \in Decided /\ change'[tail[i]].effective <= day'
        BY <1>1, <3>1, <3>4, <3>6 DEF Progress
      <3>8. \A d \in reader[r].due :
              change[d].status = "applied" \/ \E j \in DOMAIN rest : rest[j] = d
        BY <1>0 DEF DueStays, rest
      <3>9. \A d \in reader[r].due :
              change'[d].status = "applied" \/ \E i \in DOMAIN tail : tail[i] = d
        BY <1>0, <1>1, <3>1, <3>5, <3>8 DEF Progress, Decided
      <3> QED
        BY <3>2, <3>7, <3>9 DEF DueStays, Decided
    <2> QED
      BY <2>1, <2>2
  <1>6. ASSUME NEW s \in Readers, HasApplied(s) PROVE DueStays(r)'
    <2>1. CASE r # s
      BY <1>0, <1>2, <1>6, <2>1 DEF HasApplied
    <2>2. CASE r = s
      <3>1. /\ reader'[r].at = "done" /\ reader'[r].rest = reader[r].rest
            /\ reader'[r].due = reader[r].due
            /\ reader[r].rest = <<>> /\ UNCHANGED <<change, day>>
        BY <1>0, <1>6, <2>2 DEF HasApplied, Reader
      <3> QED
        BY <1>0, <3>1 DEF DueStays
    <2> QED
      BY <2>1, <2>2
  <1>7. ASSUME NEW s \in Readers, ApplyFails(s) \/ GetMerchantDetail(s)
        PROVE  DueStays(r)'
    <2>1. CASE r # s
      BY <1>0, <1>2, <1>7, <2>1 DEF ApplyFails, GetMerchantDetail
    <2>2. CASE r = s
      <3>1. reader'[r] \in {Idle, Bare}
        BY <1>0, <1>7, <2>2 DEF ApplyFails, GetMerchantDetail
      <3> QED
        BY <3>1 DEF Idle, Bare, DueStays
    <2> QED
      BY <2>1, <2>2
  <1>8. ASSUME UNCHANGED reader PROVE DueStays(r)'
    BY <1>2, <1>8
  <1> QED
    BY <1>3, <1>4, <1>5, <1>6, <1>7, <1>8, PortalCases
       DEF Midnight, CreateMenuChangeRequest, WithdrawMenuChangeRequest,
           ReviewMenuChangeRequest, UnlinkOwnedMerchant, ReviewMerchantDelist, vars

-----------------------------------------------------------------------------
\* What a status may have been announced as.
Fits(s, status) == IF s = "approved" THEN status \in Decided ELSE status = s

(***************************************************************************)
(* Answers: an answer is given by the step that makes it true, and a       *)
(* change that has an answer is pending no more.                           *)
(***************************************************************************)
LEMMA AnswersStep ==
  ASSUME PortalInv, [Next]_vars
  PROVE  /\ told' \in [Changes -> SUBSET Answers]
         /\ AnswersStand'
  <1> DEFINE Goal == /\ told' \in [Changes -> SUBSET Answers]
                     /\ \A c \in Changes : \A s \in told'[c] : Fits(s, change'[c].status)
  <1>0. /\ told \in [Changes -> SUBSET Answers]
        /\ change \in [Changes -> Change]
        /\ \A c \in Changes : \A s \in told[c] : s \in Answers /\ Fits(s, change[c].status)
    BY PortalFacts DEF PortalInv, AnswersStand, Fits, Decided
  <1>1. ASSUME UNCHANGED <<change, told>> PROVE Goal
    BY <1>0, <1>1
  <1>2. ASSUME NEW c \in Changes, NEW became \in Answers, Told(c, became),
               change[c].status = "pending", Fits(became, change'[c].status),
               \A d \in Changes \ {c} : change'[d] = change[d]
        PROVE  Goal
    <2>1. told[c] = {}
      BY <1>0, <1>2 DEF Fits, Answers, Decided
    <2>2. /\ told'[c] \subseteq {became} /\ told' \in [Changes -> SUBSET Answers]
          /\ \A d \in Changes \ {c} : told'[d] = told[d]
      <3>1. CASE told' = told
        BY <1>0, <2>1, <3>1
      <3>2. CASE told' = [told EXCEPT ![c] = told[c] \cup {became}]
        BY <1>0, <2>1, <3>2
      <3> QED
        BY <1>2, <3>1, <3>2 DEF Told
    <2> QED
      BY <1>0, <1>2, <2>2
  <1>3. ASSUME NEW action \in {"put", "delete", "other"}, CreateMenuChangeRequest(action)
        PROVE  Goal
    <2>1. PICK c \in Changes : /\ change[c].status = "none"
                               /\ change' = [change EXCEPT ![c].action = action,
                                                           ![c].status = "pending"]
      BY <1>3 DEF CreateMenuChangeRequest
    <2>2. told[c] = {}
      BY <1>0, <2>1 DEF Fits, Answers, Decided
    <2>3. \A d \in Changes \ {c} : change'[d] = change[d]
      BY <1>0, <2>1
    <2>4. UNCHANGED told
      BY <1>3 DEF CreateMenuChangeRequest
    <2> QED
      BY <1>0, <2>2, <2>3, <2>4
  <1>4. ASSUME NEW c \in Changes, WithdrawMenuChangeRequest(c) PROVE Goal
    <2>1. /\ Told(c, "withdrawn") /\ change[c].status = "pending"
          /\ change' = [change EXCEPT ![c].status = "withdrawn"]
      BY <1>4 DEF WithdrawMenuChangeRequest, Pending
    <2>2. /\ change'[c].status = "withdrawn"
          /\ \A d \in Changes \ {c} : change'[d] = change[d]
      BY <1>0, <2>1 DEF Change
    <2> HIDE DEF Goal
    <2> QED
      BY <1>2, <2>1, <2>2 DEF Fits, Answers
  <1>5. ASSUME NEW c \in Changes, NEW decision \in {"approve", "reject"},
               ReviewMenuChangeRequest(c, decision)
        PROVE  Goal
    <2>1. change[c].status = "pending"
      BY <1>5 DEF ReviewMenuChangeRequest, Pending
    <2>2. CASE /\ Told(c, "rejected")
               /\ change' = [change EXCEPT ![c].status = "rejected"]
      <3>1. /\ change'[c].status = "rejected"
            /\ \A d \in Changes \ {c} : change'[d] = change[d]
        BY <1>0, <2>2 DEF Change
      <3> HIDE DEF Goal
      <3> QED
        BY <1>2, <2>1, <2>2, <3>1 DEF Fits, Answers
    <2>3. CASE /\ Told(c, "approved")
               /\ change' = [change EXCEPT ![c].status = "approved",
                                           ![c].effective = nextEffectiveMidnight(day)]
      <3>1. /\ change'[c].status = "approved"
            /\ \A d \in Changes \ {c} : change'[d] = change[d]
        BY <1>0, <2>3 DEF Change
      <3> HIDE DEF Goal
      <3> QED
        BY <1>2, <2>1, <2>3, <3>1 DEF Fits, Answers, Decided
    <2> HIDE DEF Goal
    <2> QED
      BY <1>5, <2>2, <2>3 DEF ReviewMenuChangeRequest
  <1>6. ASSUME NEW r \in Readers, AppliesChange(r) PROVE Goal
    <2> DEFINE c == Head(reader[r].rest)
    <2>1. /\ c \in Changes /\ change[c].status \in Decided /\ change'[c].status = "applied"
          /\ \A d \in Changes \ {c} : change'[d] = change[d]
      BY <1>6, HeadFacts
    <2>2. UNCHANGED told
      BY <1>6 DEF AppliesChange
    <2> HIDE DEF c
    <2>3. \A s \in told[c] : s = "approved"
      BY <1>0, <2>1 DEF Fits, Answers, Decided
    <2> QED
      BY <1>0, <2>1, <2>2, <2>3 DEF Fits, Decided
  <1> HIDE DEF Goal
  <1>7. Goal
    BY <1>1, <1>3, <1>4, <1>5, <1>6, PortalCases
       DEF Midnight, UnlinkOwnedMerchant, ReviewMerchantDelist,
           ApplyScheduledMenuChangeRequests, FindsItem, HasApplied, ApplyFails,
           GetMerchantDetail, vars
  <1> QED
    BY <1>7 DEF Goal, AnswersStand, Fits, Decided

(***************************************************************************)
(* The menu: a change reaches it in the step that marks it applied, on or  *)
(* after its day, and an applied change keeps its day.                     *)
(***************************************************************************)
LEMMA EarlyStep ==
  ASSUME PortalInv, [Next]_vars
  PROVE  NothingEarly'
  <1> SUFFICES ASSUME NEW i \in Rows, menu'[i] # 0
               PROVE  change'[menu'[i]].status = "applied"
                      /\ change'[menu'[i]].effective <= day'
    BY DEF NothingEarly
  <1>0. /\ Progress /\ day \in Nat /\ day' \in Nat
        /\ \A c \in Changes : change[c].effective \in Nat
        /\ menu \in [Rows -> {0} \cup Changes]
    BY ProgressStep, PortalFacts, PortalTypeStep, PortalTypes DEF TypeOK
  <1>1. CASE menu'[i] = menu[i]
    <2>1. /\ menu[i] \in Changes /\ change[menu[i]].status = "applied"
          /\ change[menu[i]].effective <= day
      BY <1>0, <1>1 DEF PortalInv, NothingEarly
    <2> QED
      BY <1>0, <1>1, <2>1 DEF Progress, Decided
  <1>2. ASSUME NEW r \in Readers, AppliesChange(r), menu'[i] = Head(reader[r].rest)
        PROVE  change'[menu'[i]].status = "applied"
               /\ change'[menu'[i]].effective <= day'
    <2>1. UNCHANGED day
      BY <1>2 DEF AppliesChange
    <2> QED
      BY <1>2, <2>1, HeadFacts
  <1> QED
    BY <1>1, <1>2, MenuStep

-----------------------------------------------------------------------------
\* The invariant is inductive.
LEMMA PortalStep == PortalInv /\ [Next]_vars => PortalInv'
  <1> SUFFICES ASSUME PortalInv, [Next]_vars
               PROVE  PortalInv'
    OBVIOUS
  <1>1. TypeOK' /\ reader' \in [Readers -> Reader]
    BY PortalTypeStep, ReaderStep
  <1>2. told' \in [Changes -> SUBSET Answers] /\ AnswersStand'
    BY AnswersStep
  <1>3. \A r \in Readers : DueStays(r)'
    BY DueStep
  <1>4. NothingEarly'
    BY EarlyStep
  <1> QED
    BY <1>1, <1>2, <1>3, <1>4 DEF PortalInv

\* The invariant holds in every reachable state.
LEMMA PortalInvariant == Spec => []PortalInv
  BY PortalInit, PortalStep, PTL DEF Spec

(***************************************************************************)
(* The tables of the portal stay well formed.                              *)
(***************************************************************************)
THEOREM PortalTypeCorrect == Spec => []TypeOK
  <1>1. PortalInv => TypeOK
    BY DEF PortalInv
  <1> QED
    BY <1>1, PortalInvariant, PTL

(***************************************************************************)
(* Of a merchant that withdraws and administrators that decide, all on     *)
(* stale pages, nobody is told what did not happen, then or later.         *)
(***************************************************************************)
THEOREM AnswersAlwaysStand == Spec => []AnswersStand
  <1>1. PortalInv => AnswersStand
    BY DEF PortalInv
  <1> QED
    BY <1>1, PortalInvariant, PTL

(***************************************************************************)
(* The menu shows nothing before its midnight and nothing unapproved,      *)
(* however many requests apply the changes at once and wherever they fail. *)
(***************************************************************************)
THEOREM NothingIsEarly == Spec => []NothingEarly
  <1>1. PortalInv => NothingEarly
    BY DEF PortalInv
  <1> QED
    BY <1>1, PortalInvariant, PTL

(***************************************************************************)
(* Whenever applying what is due returned without an error                 *)
(* (ApplyScheduledMenuChangeRequests, postgres.go:1503-1554), every change *)
(* that was due when it began is applied, by it or by another, whatever    *)
(* failed and was dropped in between.  Readers that were answered after a  *)
(* failure, or that apply nothing, are in the model and promised nothing.  *)
(***************************************************************************)
THEOREM ApplyingIsComplete == Spec => []AppliedIsComplete
  <1>1. PortalInv => AppliedIsComplete
    <2> SUFFICES ASSUME PortalInv, NEW r \in Readers, reader[r].at = "done",
                        NEW c \in reader[r].due
                 PROVE  change[c].status = "applied"
      BY DEF AppliedIsComplete
    <2>1. DueStays(r)
      BY PortalFacts
    <2>2. reader[r].rest = <<>>
      BY <2>1 DEF DueStays
    <2>3. DOMAIN reader[r].rest = {}
      BY <2>2
    <2> QED
      BY <2>1, <2>3 DEF DueStays
  <1> QED
    BY <1>1, PortalInvariant, PTL

(***************************************************************************)
(* A decision is final (WithdrawMenuChangeRequest, postgres.go:2191, and   *)
(* ReviewMenuChangeRequest, :2209, write only what is pending): whatever   *)
(* readers still apply from lists they have read before, a change that was *)
(* withdrawn, rejected or applied stays so, and an approved one is applied *)
(* as it was approved, not before its day.                                 *)
(***************************************************************************)
FinalFor(c) == change[c].status \in {"none", "pending"} \/ Still(c) \/ Applied(c)

\* A step that writes one undecided change touches no other.
LEMMA UndecidedFinal ==
  ASSUME NEW d, change[d].status \in {"none", "pending"},
         \A c \in Changes \ {d} : change'[c] = change[c]
  PROVE  \A c \in Changes : FinalFor(c)
  BY DEF FinalFor, Still

\* Every step leaves decisions as they are.
LEMMA FinalStep ==
  ASSUME PortalInv, [Next]_vars
  PROVE  \A c \in Changes : FinalFor(c)
  <1>0. change \in [Changes -> Change]
    BY PortalFacts
  <1>1. ASSUME UNCHANGED change PROVE \A c \in Changes : FinalFor(c)
    BY <1>1 DEF FinalFor, Still
  <1>2. ASSUME NEW action \in {"put", "delete", "other"}, CreateMenuChangeRequest(action)
        PROVE  \A c \in Changes : FinalFor(c)
    <2>1. PICK c \in Changes : /\ change[c].status = "none"
                               /\ change' = [change EXCEPT ![c].action = action,
                                                           ![c].status = "pending"]
      BY <1>2 DEF CreateMenuChangeRequest
    <2>2. \A d \in Changes \ {c} : change'[d] = change[d]
      BY <1>0, <2>1
    <2>3. change[c].status \in {"none", "pending"}
      BY <2>1
    <2> QED
      BY <2>2, <2>3, UndecidedFinal
  <1>3. ASSUME NEW d \in Changes,
               \/ WithdrawMenuChangeRequest(d)
               \/ \E decision \in {"approve", "reject"} : ReviewMenuChangeRequest(d, decision)
        PROVE  \A c \in Changes : FinalFor(c)
    <2>1. /\ change[d].status = "pending"
          /\ \A c \in Changes \ {d} : change'[c] = change[c]
      BY <1>0, <1>3 DEF WithdrawMenuChangeRequest, ReviewMenuChangeRequest, Pending
    <2>2. change[d].status \in {"none", "pending"}
      BY <2>1
    <2> QED
      BY <2>1, <2>2, UndecidedFinal
  <1>4. ASSUME NEW r \in Readers, AppliesChange(r)
        PROVE  \A c \in Changes : FinalFor(c)
    <2> DEFINE h == Head(reader[r].rest)
    <2>1. /\ h \in Changes /\ change[h].status \in Decided /\ change[h].effective <= day
          /\ change' = [change EXCEPT ![h].status = "applied"]
          /\ \A d \in Changes \ {h} : change'[d] = change[d]
      BY <1>4, HeadFacts
    <2> HIDE DEF h
    <2>2. change'[h] = [change[h] EXCEPT !.status = "applied"] /\ change[h] \in Change
      BY <1>0, <2>1
    <2>3. CASE change[h].status = "applied"
      <3>1. change'[h] = change[h]
        BY <2>2, <2>3 DEF Change
      <3> QED
        BY <2>1, <3>1 DEF FinalFor, Still
    <2>4. CASE change[h].status = "approved"
      BY <2>1, <2>2, <2>4 DEF FinalFor, Still, Applied, Due, Approved
    <2> QED
      BY <2>1, <2>3, <2>4 DEF Decided
  <1>5. ASSUME \/ Midnight \/ UnlinkOwnedMerchant
               \/ \E decision \in {"delist", "relist"} : ReviewMerchantDelist(decision)
               \/ \E r \in Readers : ApplyScheduledMenuChangeRequests(r)
               \/ \E r \in Readers : FindsItem(r)
               \/ \E r \in Readers : HasApplied(r)
               \/ \E r \in Readers : ApplyFails(r)
               \/ \E r \in Readers : GetMerchantDetail(r)
               \/ UNCHANGED vars
        PROVE  \A c \in Changes : FinalFor(c)
    <2>1. UNCHANGED change
      BY <1>5 DEF Midnight, UnlinkOwnedMerchant, ReviewMerchantDelist, FindsItem, HasApplied,
                  ApplyScheduledMenuChangeRequests, ApplyFails, GetMerchantDetail, vars
    <2> QED
      BY <1>1, <2>1
  <1> QED
    BY <1>2, <1>3, <1>4, <1>5, PortalCases

(***************************************************************************)
(* For any number of changes, days and readers, no step undoes a decision: *)
(* an action property.                                                     *)
(***************************************************************************)
THEOREM DecisionsStayFinal == Spec => DecisionsAreFinal
  <1> DEFINE Step == \A c \in Changes : FinalFor(c)
  <1>1. PortalInv /\ [Next]_vars => [Step]_vars
    BY FinalStep
  <1>2. DecisionsAreFinal <=> [][Step]_vars
    BY PTL DEF DecisionsAreFinal, FinalFor
  <1> HIDE DEF Step
  <1> QED
    BY <1>1, <1>2, PortalInvariant, PTL DEF Spec

=============================================================================
