------------------------ MODULE ProposalRoundProofs -------------------------
(***************************************************************************)
(* Proofs about ProposalRound, for any number of members, merchants and    *)
(* requests in flight, any costs, rewards and limits, and every            *)
(* interleaving of the handlers' transactions.                             *)
(***************************************************************************)
EXTENDS ProposalRound, FiniteSetTheorems, FunctionTheorems, WellFoundedInduction, TLAPS

-----------------------------------------------------------------------------
(***************************************************************************)
(* Sums, for every finite domain: the sum of f counts its units, the pairs *)
(* <<x, i>> with 1 <= i <= f[x].                                           *)
(***************************************************************************)

(***************************************************************************)
(* A pair is a unit of f exactly when its count lies in 1..f[x].           *)
(***************************************************************************)
LEMMA UnitsElement ==
  ASSUME NEW f, NEW u
  PROVE  u \in Units(f) <=> \E x \in DOMAIN f : \E i \in 1 .. f[x] : u = <<x, i>>
  BY DEF Units

(***************************************************************************)
(* One key's units are finite and as many as its value.                    *)
(***************************************************************************)
LEMMA ColumnCard ==
  ASSUME NEW x, NEW n \in Nat
  PROVE  /\ IsFiniteSet({x} \X (1 .. n))
         /\ Cardinality({x} \X (1 .. n)) = n
  <1>1. IsFiniteSet({x}) /\ Cardinality({x}) = 1
    BY FS_Singleton
  <1>2. IsFiniteSet(1 .. n) /\ Cardinality(1 .. n) = n
    BY FS_Interval
  <1>3. /\ IsFiniteSet({x} \X (1 .. n))
        /\ Cardinality({x} \X (1 .. n)) = Cardinality({x}) * Cardinality(1 .. n)
    BY <1>1, <1>2, FS_Product, Zenon
  <1>4. Cardinality({x}) * Cardinality(1 .. n) = n
    BY <1>1, <1>2
  <1> QED
    BY <1>3, <1>4

(***************************************************************************)
(* A sum over a finite domain is a natural number.                         *)
(***************************************************************************)
LEMMA SumType ==
  ASSUME NEW S, IsFiniteSet(S), NEW f \in [S -> Nat]
  PROVE  /\ IsFiniteSet(Units(f))
         /\ Sum(f) \in Nat
  <1> DEFINE Column == [x \in S |-> {x} \X (1 .. f[x])]
             T == { {x} \X (1 .. f[x]) : x \in S }
  <1>1. Column \in Surjection(S, T)
    <2>1. Column \in [S -> T]
      OBVIOUS
    <2>2. \A t \in T : \E s \in S : Column[s] = t
      OBVIOUS
    <2> QED
      BY <2>1, <2>2, Fun_IsSurj
  <1>2. IsFiniteSet(T)
    BY <1>1, FS_Surjection
  <1>3. \A t \in T : IsFiniteSet(t)
    <2> SUFFICES ASSUME NEW x \in S
                 PROVE  IsFiniteSet({x} \X (1 .. f[x]))
      OBVIOUS
    <2>1. f[x] \in Nat
      OBVIOUS
    <2> QED
      BY <2>1, ColumnCard
  <1>4. IsFiniteSet(UNION T)
    BY <1>2, <1>3, FS_UNION
  <1>5. Units(f) = UNION T
    BY DEF Units
  <1> QED
    BY <1>4, <1>5, FS_CardinalityType DEF Sum

(***************************************************************************)
(* Functions that agree have the same sum; a function that is 0 everywhere *)
(* sums to 0.                                                              *)
(***************************************************************************)
LEMMA SumZero ==
  ASSUME NEW f, \A x \in DOMAIN f : f[x] = 0
  PROVE  Sum(f) = 0
  <1>1. Units(f) = {}
    BY DEF Units
  <1> QED
    BY <1>1, FS_EmptySet DEF Sum

(***************************************************************************)
(* Changing one value changes the sum by the difference: the units of the  *)
(* other keys stay.                                                        *)
(***************************************************************************)
LEMMA SumUpdate ==
  ASSUME NEW S, IsFiniteSet(S), NEW f \in [S -> Nat], NEW x \in S, NEW v \in Nat
  PROVE  /\ Sum([f EXCEPT ![x] = v]) = Sum(f) - f[x] + v
         /\ f[x] <= Sum(f)
  <1> DEFINE Column(n) == {x} \X (1 .. n)
             rest == {u \in Units(f) : u[1] # x}
             g == [f EXCEPT ![x] = v]
  <1>1. f[x] \in Nat /\ g \in [S -> Nat] /\ g[x] = v /\ \A y \in S \ {x} : g[y] = f[y]
    OBVIOUS
  <1>2. Units(f) = rest \cup Column(f[x]) /\ Units(g) = rest \cup Column(v)
    <2>1. /\ \A u : u \in Units(f) <=> \E y \in S : \E i \in 1 .. f[y] : u = <<y, i>>
          /\ \A u : u \in Units(g) <=> \E y \in S : \E i \in 1 .. g[y] : u = <<y, i>>
      <3> HIDE DEF g
      <3> QED
        BY <1>1, UnitsElement
    <2> HIDE DEF g
    <2>2. \A u : u \in rest <=> \E y \in S \ {x} : \E i \in 1 .. f[y] : u = <<y, i>>
      BY <2>1
    <2>3. \A n : \A u : u \in Column(n) <=> \E i \in 1 .. n : u = <<x, i>>
      OBVIOUS
    <2> HIDE DEF rest, Column
    <2> QED
      BY <1>1, <2>1, <2>2, <2>3
  <1>3. IsFiniteSet(rest)
    BY SumType, FS_Subset
  <1>4. \A n \in Nat : Cardinality(rest \cup Column(n)) = Cardinality(rest) + n
    <2> SUFFICES ASSUME NEW n \in Nat
                 PROVE  Cardinality(rest \cup Column(n)) = Cardinality(rest) + n
      OBVIOUS
    <2>1. IsFiniteSet(Column(n)) /\ Cardinality(Column(n)) = n
      BY ColumnCard
    <2>2. rest \cap Column(n) = {}
      OBVIOUS
    <2> HIDE DEF rest, Column
    <2>3. Cardinality(rest \cap Column(n)) = 0 /\ Cardinality(rest) \in Nat
      BY <1>3, <2>2, FS_EmptySet, FS_CardinalityType
    <2>4. Cardinality(rest \cup Column(n))
            = Cardinality(rest) + Cardinality(Column(n)) - Cardinality(rest \cap Column(n))
      BY <1>3, <2>1, FS_Union, Zenon
    <2> QED
      BY <2>1, <2>3, <2>4
  <1> HIDE DEF rest, Column, g
  <1>5. Cardinality(rest) \in Nat
    BY <1>3, FS_CardinalityType
  <1>6. Sum(f) = Cardinality(rest) + f[x] /\ Sum(g) = Cardinality(rest) + v
    BY <1>1, <1>2, <1>4 DEF Sum
  <1>7. Sum(g) = Sum(f) - f[x] + v /\ f[x] <= Sum(f)
    BY <1>1, <1>5, <1>6
  <1> QED
    BY <1>7 DEF g

(***************************************************************************)
(* A sum grows with its terms.                                             *)
(***************************************************************************)
LEMMA SumLeq ==
  ASSUME NEW S, IsFiniteSet(S), NEW f \in [S -> Nat], NEW g \in [S -> Nat],
         \A x \in S : f[x] <= g[x]
  PROVE  Sum(f) <= Sum(g)
  <1>1. Units(f) \in SUBSET Units(g)
    <2> SUFFICES ASSUME NEW x \in S, NEW i \in 1 .. f[x]
                 PROVE  <<x, i>> \in Units(g)
      BY UnitsElement
    <2>1. i \in 1 .. g[x]
      OBVIOUS
    <2> QED
      BY <2>1, UnitsElement
  <1>2. IsFiniteSet(Units(g))
    BY SumType
  <1> QED
    BY <1>1, <1>2, FS_Subset DEF Sum

(***************************************************************************)
(* Every non-empty set of naturals has a least element.                    *)
(***************************************************************************)
LEMMA NatLeast ==
  ASSUME NEW T \in SUBSET Nat, T # {}
  PROVE  \E x \in T : \A y \in T : x <= y
  <1>1. \E x \in T : \A y \in T : <<y, x>> \notin OpToRel(<, Nat)
    BY NatLessThanWellFounded, WFMin, Zenon
  <1>2. PICK x \in T : \A y \in T : <<y, x>> \notin OpToRel(<, Nat)
    BY <1>1
  <1>3. \A y \in T : ~(y < x)
    BY <1>2, Zenon DEF OpToRel
  <1> QED
    BY <1>3

-----------------------------------------------------------------------------
OptionRows ==
  /\ lastOptionId \in Nat
  /\ DOMAIN options \subseteq 1 .. lastOptionId
  /\ options \in [DOMAIN options -> OptionRow]

-----------------------------------------------------------------------------
(***************************************************************************)
(* Options are ordered by weight and then by id, so of the options that    *)
(* are left one comes first: a vote that is over has a winner if there is  *)
(* an option at all.                                                       *)
(***************************************************************************)
Beats(i, j) ==
  \/ options[i].weightedVotes > options[j].weightedVotes
  \/ options[i].weightedVotes = options[j].weightedVotes /\ i < j

BeatenBy(j) == {i \in DOMAIN options : Beats(i, j)}

\* topOption names one of the options, if there is one.
LEMMA TopStands ==
  ASSUME OptionRows
  PROVE  /\ TopOption \in DOMAIN options \cup {0}
         /\ options # << >> => TopOption \in DOMAIN options
  <1>1. CASE options = << >>
    BY <1>1 DEF TopOption
  <1>2. CASE options # << >>
    <2> DEFINE D == DOMAIN options
               Sizes == {Cardinality(BeatenBy(i)) : i \in D}
    <2>1. D # {}
      BY <1>2 DEF OptionRows
    <2>2. IsFiniteSet(D)
      <3>1. IsFiniteSet(1 .. lastOptionId)
        BY FS_Interval DEF OptionRows
      <3> QED
        BY <3>1, FS_Subset DEF OptionRows
    <2>3. \A i \in D : options[i].weightedVotes \in Int /\ i \in Nat
      BY DEF OptionRows, OptionRow
    <2>4. \A i \in D : IsFiniteSet(BeatenBy(i)) /\ Cardinality(BeatenBy(i)) \in Nat
      <3> SUFFICES ASSUME NEW i \in D
                   PROVE  IsFiniteSet(BeatenBy(i)) /\ Cardinality(BeatenBy(i)) \in Nat
        OBVIOUS
      <3>1. BeatenBy(i) \in SUBSET D
        BY DEF BeatenBy
      <3>2. IsFiniteSet(BeatenBy(i))
        BY <2>2, <3>1, FS_Subset
      <3> QED
        BY <3>2, FS_CardinalityType
    <2>5. PICK s \in Sizes : \A t \in Sizes : s <= t
      <3>1. Sizes \in SUBSET Nat /\ Sizes # {}
        BY <2>1, <2>4
      <3> QED
        BY <3>1, NatLeast
    <2>6. PICK i \in D : s = Cardinality(BeatenBy(i))
      OBVIOUS
    <2>7. BeatenBy(i) = {}
      <3> SUFFICES ASSUME NEW j \in BeatenBy(i)
                   PROVE  FALSE
        OBVIOUS
      <3>1. j \in D /\ Beats(j, i)
        BY DEF BeatenBy
      <3>2. ~Beats(j, j) /\ \A k \in D : Beats(k, j) => Beats(k, i)
        BY <2>3, <3>1 DEF Beats
      <3>3. BeatenBy(j) \in SUBSET BeatenBy(i) /\ j \notin BeatenBy(j)
        BY <3>2 DEF BeatenBy
      <3>4. Cardinality(BeatenBy(j)) <= Cardinality(BeatenBy(i))
            /\ Cardinality(BeatenBy(j)) # Cardinality(BeatenBy(i))
        <4>1. BeatenBy(j) # BeatenBy(i)
          BY <3>3
        <4> QED
          BY <2>4, <3>3, <4>1, FS_Subset
      <3>5. s <= Cardinality(BeatenBy(j))
        BY <2>5, <3>1
      <3> QED
        BY <2>4, <2>6, <3>1, <3>4, <3>5
    <2>8. \A j \in D \ {i} : Beats(i, j)
      BY <2>3, <2>7 DEF BeatenBy, Beats
    <2>9. \E k \in D : \A j \in D \ {k} :
            \/ options[k].weightedVotes > options[j].weightedVotes
            \/ options[k].weightedVotes = options[j].weightedVotes /\ k < j
      BY <2>8 DEF Beats
    <2> HIDE DEF D
    <2>10. TopOption = CHOOSE k \in D : \A j \in D \ {k} :
             \/ options[k].weightedVotes > options[j].weightedVotes
             \/ options[k].weightedVotes = options[j].weightedVotes /\ k < j
      BY <1>2 DEF TopOption, D
    <2>11. TopOption \in D
      BY <2>9, <2>10
    <2> QED
      BY <2>11 DEF D
  <1> QED
    BY <1>1, <1>2

-----------------------------------------------------------------------------
(* The inductive invariant: what a handler still holds of what it read.    *)

(* A handler at `step' with request r that has read `seen'.                *)
Handles(step, r, seen) ==
  /\ step \in Steps /\ r \in Requests
  /\ {seen.winner, seen.refund, seen.at} \subseteq Nat
  /\ DOMAIN seen.proposers \subseteq 1 .. lastOptionId
  /\ \A i \in DOMAIN seen.proposers : seen.proposers[i] \in Members
  /\ seen.voters \subseteq Members
  /\ seen.vote \in VoteRow /\ seen.vote.option <= lastOptionId
  /\ seen.at <= now
  /\ step = "refresh" => seen = NothingRead
  /\ step \in {"create", "link"} => r.kind = "create"
  /\ step = "insertOption" => r.kind = "addOption"
  /\ step \in {"voteRead", "voteWrite"} => r.kind = "vote" /\ r.option <= lastOptionId
  /\ step = "advance" => r.kind = "advance"

(* The winner a handler is about to write is an option of the round, and   *)
(* no handler that could write one has read a round that did not exist.    *)
WinnerHandles(step, seen) ==
  /\ proposal.phase = "none" =>
       /\ step \in {"idle", "create", "refresh", "advance"}
       /\ step = "advance" => seen.winner = 0
  /\ Live /\ step = "setWinner" =>
       seen.winner \in DOMAIN options /\ now >= proposal.voteDeadline
  /\ Live /\ step = "advance" => seen.winner \in DOMAIN options \cup {0}

Handled(c) ==
  /\ Handles(pc[c], request[c], read[c])
  /\ WinnerHandles(pc[c], read[c])

ClientTables ==
  /\ pc \in [Clients -> Steps]
  /\ DOMAIN request = Clients /\ DOMAIN read = Clients

TablesHold ==
  /\ now \in 0 .. MaxTime
  /\ account \in [Members -> Account]
  /\ proposal \in Proposal \cup NoProposal
  /\ proposal.phase = "none" => options = << >>
  /\ OptionRows
  /\ votes \in [Members -> VoteRow]
  /\ \A m \in Members : votes[m].option <= lastOptionId
  /\ WinnerAfterVote

RoundInv ==
  /\ TablesHold /\ ClientTables
  /\ \A c \in Clients : Handled(c)

(* What one step does to another client's view: ids and the clock grow, an *)
(* option that is there stays until the round is deleted, and a vote that  *)
(* is over is not reopened.                                                *)
TablesGrow ==
  /\ now \in Nat /\ now' \in Nat /\ now' >= now
  /\ lastOptionId \in Nat /\ lastOptionId' \in Nat /\ lastOptionId' >= lastOptionId
  /\ proposal'.phase = "none" => proposal.phase = "none"
  /\ Live' => \/ proposal.phase = "none"
              \/ /\ Live /\ DOMAIN options \subseteq DOMAIN options'
                 /\ now >= proposal.voteDeadline => now' >= proposal'.voteDeadline

(* Of the clients only c moves.                                            *)
OnlyMoves(c) ==
  /\ ClientTables'
  /\ \A d \in Clients \ {c} : /\ pc'[d] = pc[d] /\ request'[d] = request[d]
                              /\ read'[d] = read[d]

-----------------------------------------------------------------------------
(***************************************************************************)
(* A handler goes on to its next transaction, with what it has read.       *)
(***************************************************************************)
LEMMA GotoEffect ==
  ASSUME ClientTables, NEW c \in Clients, NEW step, NEW seen, step \in Steps,
         Goto(c, step, seen)
  PROVE  OnlyMoves(c) /\ pc'[c] = step /\ request'[c] = request[c] /\ read'[c] = seen
  BY DEF ClientTables, OnlyMoves, Goto

(***************************************************************************)
(* A handler begins with the arguments of its request.                     *)
(***************************************************************************)
LEMMA BeginEffect ==
  ASSUME ClientTables, NEW c \in Clients, NEW r, NEW step, NEW seen, step \in Steps,
         Begin(c, r, step, seen)
  PROVE  OnlyMoves(c) /\ pc'[c] = step /\ request'[c] = r /\ read'[c] = seen
  BY DEF ClientTables, OnlyMoves, Begin

(***************************************************************************)
(* An answered request leaves nothing behind.                              *)
(***************************************************************************)
LEMMA AnswerEffect ==
  ASSUME ClientTables, NEW c \in Clients, Answer(c)
  PROVE  /\ OnlyMoves(c) /\ pc'[c] = "idle"
         /\ request'[c] = NoRequest /\ read'[c] = NothingRead
  BY DEF ClientTables, OnlyMoves, Answer, Steps

(***************************************************************************)
(* A write that is done loads the round once more, holding nothing.        *)
(***************************************************************************)
LEMMA GetAndAnswerEffect ==
  ASSUME ClientTables, NEW c \in Clients, GetAndAnswer(c)
  PROVE  /\ OnlyMoves(c) /\ pc'[c] = "refresh"
         /\ request'[c] = NoRequest /\ read'[c] = NothingRead
  BY DEF ClientTables, OnlyMoves, GetAndAnswer, Steps

(***************************************************************************)
(* The arguments of a request are those of its kind.                       *)
(***************************************************************************)
LEMMA RequestShape ==
  ASSUME NEW r \in Requests
  PROVE  /\ r.kind = "create" => r.paidWith \in {"free", "token", "ticket"}
         /\ r.kind = "addOption" => r.merchant \in Merchants /\ r.ticket \in BOOLEAN
         /\ r.kind = "vote" => /\ r.option \in Nat /\ r.amount \in Nat
                               /\ r.ticket \in BOOLEAN
         /\ r.kind = "advance" => r.stage \in {"voting", "ordering", "settled"}
  BY DEF Requests

(***************************************************************************)
(* What a client that does not move holds, it holds after the step.        *)
(***************************************************************************)
LEMMA OthersHandled ==
  ASSUME RoundInv, TablesGrow, NEW c \in Clients, OnlyMoves(c)
  PROVE  \A d \in Clients \ {c} : Handled(d)'
  <1> SUFFICES ASSUME NEW d \in Clients \ {c}
               PROVE  Handled(d)'
    OBVIOUS
  <1>1. PICK step, r, seen : step = pc[d] /\ r = request[d] /\ seen = read[d]
    OBVIOUS
  <1>2. pc'[d] = step /\ request'[d] = r /\ read'[d] = seen
    BY <1>1 DEF OnlyMoves
  <1>3. Handles(step, r, seen) /\ WinnerHandles(step, seen)
    BY <1>1 DEF RoundInv, Handled
  <1>4. Handles(step, r, seen)'
    <2>1. /\ seen.at \in Nat /\ seen.vote.option \in Nat
          /\ r.kind = "vote" => r.option \in Nat
      BY <1>3, RequestShape DEF Handles, VoteRow
    <2>2. 1 .. lastOptionId \subseteq 1 .. lastOptionId'
      BY DEF TablesGrow
    <2>3. \A n \in Nat : /\ n <= lastOptionId => n <= lastOptionId'
                         /\ n <= now => n <= now'
      BY DEF TablesGrow
    <2>4. DOMAIN seen.proposers \subseteq 1 .. lastOptionId'
      BY <1>3, <2>2 DEF Handles
    <2>5. /\ seen.at <= now' /\ seen.vote.option <= lastOptionId'
          /\ step \in {"voteRead", "voteWrite"} => r.option <= lastOptionId'
      BY <1>3, <2>1, <2>3 DEF Handles
    <2> QED
      BY <1>3, <2>4, <2>5 DEF Handles
  <1>5. WinnerHandles(step, seen)'
    BY <1>3 DEF WinnerHandles, TablesGrow, Live
  <1> QED
    BY <1>2, <1>4, <1>5 DEF Handled

(***************************************************************************)
(* A client whose request is over, or that is about to load the round,     *)
(* holds nothing.                                                          *)
(***************************************************************************)
LEMMA NothingHandled ==
  ASSUME TablesHold', NEW c \in Clients,
         pc'[c] \in {"idle", "refresh"},
         request'[c] = NoRequest /\ read'[c] = NothingRead
  PROVE  Handled(c)'
  BY DEF Handled, Handles, WinnerHandles, NoRequest, NothingRead, NoVote, Requests, Steps,
         VoteRow, TablesHold, OptionRows

(***************************************************************************)
(* A step is judged by the tables and by the client that takes it.         *)
(***************************************************************************)
LEMMA InvStep ==
  ASSUME RoundInv, TablesHold', TablesGrow, NEW c \in Clients, OnlyMoves(c), Handled(c)'
  PROVE  RoundInv'
  <1>1. \A d \in Clients \ {c} : Handled(d)'
    BY OthersHandled
  <1> QED
    BY <1>1 DEF RoundInv, OnlyMoves

-----------------------------------------------------------------------------
(***************************************************************************)
(* The steps that only read.                                               *)
(***************************************************************************)
LEMMA TablesSame ==
  ASSUME RoundInv, UNCHANGED <<now, tables>>
  PROVE  TablesHold' /\ TablesGrow
  <1>1. TablesHold'
    BY DEF RoundInv, TablesHold, OptionRows, WinnerAfterVote, Live, tables
  <1>2. now \in Nat /\ lastOptionId \in Nat
    BY RoundAssumption DEF RoundInv, TablesHold, OptionRows
  <1>3. TablesGrow
    <2>1. /\ now' = now /\ lastOptionId' = lastOptionId /\ proposal' = proposal
          /\ options' = options
      BY DEF tables
    <2> QED
      BY <1>2, <2>1 DEF TablesGrow, Live
  <1> QED
    BY <1>1, <1>3

(***************************************************************************)
(* The clock.                                                              *)
(***************************************************************************)
LEMMA RoundTick == RoundInv /\ Tick => RoundInv'
  <1> SUFFICES ASSUME RoundInv, Tick
               PROVE  RoundInv'
    OBVIOUS
  <1>1. /\ now \in Nat /\ now' = now + 1 /\ now' \in 0 .. MaxTime
        /\ lastOptionId' = lastOptionId /\ proposal' = proposal /\ options' = options
        /\ account' = account /\ votes' = votes
        /\ pc' = pc /\ request' = request /\ read' = read
    BY RoundAssumption DEF RoundInv, TablesHold, Tick, tables
  <1>2. Live => proposal.voteDeadline \in Nat
    BY DEF RoundInv, TablesHold, Live, Proposal, NoProposal
  <1>3. TablesHold'
    BY <1>1, <1>2 DEF RoundInv, TablesHold, OptionRows, WinnerAfterVote, Live
  <1>4. ASSUME NEW c \in Clients
        PROVE  Handled(c)'
    <2>1. PICK step, r, seen : step = pc[c] /\ r = request[c] /\ seen = read[c]
      OBVIOUS
    <2>2. Handles(step, r, seen) /\ WinnerHandles(step, seen) /\ seen.at \in Nat
      BY <2>1 DEF RoundInv, Handled, Handles
    <2>3. Handles(step, r, seen)'
      BY <1>1, <2>2 DEF Handles
    <2>4. WinnerHandles(step, seen)'
      BY <1>1, <1>2, <2>2 DEF WinnerHandles, Live
    <2> QED
      BY <1>1, <2>1, <2>3, <2>4 DEF Handled
  <1> QED
    BY <1>1, <1>3, <1>4 DEF RoundInv, ClientTables

(* A step of client c keeps the invariant.                                 *)
StepKeeps(c) == TablesHold' /\ TablesGrow /\ OnlyMoves(c) /\ Handled(c)'

(***************************************************************************)
(* A handler that fails, or is killed, leaves the tables as they are.      *)
(***************************************************************************)
LEMMA FailKeeps ==
  ASSUME RoundInv, NEW c \in Clients, Fail(c), UNCHANGED now
  PROVE  StepKeeps(c)
  <1>1. TablesHold' /\ TablesGrow
    BY TablesSame DEF Fail
  <1> QED
    BY <1>1, AnswerEffect, NothingHandled DEF Fail, StepKeeps, RoundInv

(***************************************************************************)
(* A request arrives.                                                      *)
(***************************************************************************)
LEMMA ReceiveKeeps ==
  ASSUME RoundInv, NEW c \in Clients, Receive(c)
  PROVE  StepKeeps(c)
  <1>1. TablesHold' /\ TablesGrow
    BY TablesSame DEF Receive, Begin, At
  <1>2. /\ OnlyMoves(c) /\ pc'[c] = "refresh" /\ request'[c] = NoRequest
        /\ read'[c] = NothingRead
    BY BeginEffect DEF Receive, RoundInv, Steps
  <1> QED
    BY <1>1, <1>2, NothingHandled DEF StepKeeps

(***************************************************************************)
(* A request begins with what the tables hold now.                         *)
(***************************************************************************)
LEMMA BeginKeeps ==
  ASSUME RoundInv, NEW c \in Clients, NEW r, NEW step, NEW seen, UNCHANGED now,
         Begin(c, r, step, seen),
         Handles(step, r, seen), WinnerHandles(step, seen)
  PROVE  StepKeeps(c)
  <1>1. TablesHold' /\ TablesGrow
    BY TablesSame DEF Begin
  <1>2. OnlyMoves(c) /\ pc'[c] = step /\ request'[c] = r /\ read'[c] = seen
    BY BeginEffect DEF RoundInv, Handles
  <1>3. now' = now /\ lastOptionId' = lastOptionId /\ proposal' = proposal /\ options' = options
    BY DEF Begin, tables
  <1>4. Handles(step, r, seen)' /\ WinnerHandles(step, seen)'
    BY <1>3 DEF Handles, WinnerHandles, Live
  <1> QED
    BY <1>1, <1>2, <1>4 DEF StepKeeps, Handled

(***************************************************************************)
(* A transaction that only reads passes on what it has read.               *)
(***************************************************************************)
LEMMA GotoKeeps ==
  ASSUME RoundInv, NEW c \in Clients, NEW step, NEW seen, UNCHANGED <<now, tables>>,
         Goto(c, step, seen),
         Handles(step, request[c], seen), WinnerHandles(step, seen)
  PROVE  StepKeeps(c)
  <1>1. TablesHold' /\ TablesGrow
    BY TablesSame
  <1>2. OnlyMoves(c) /\ pc'[c] = step /\ request'[c] = request[c] /\ read'[c] = seen
    BY GotoEffect DEF RoundInv, Handles
  <1>3. now' = now /\ lastOptionId' = lastOptionId /\ proposal' = proposal /\ options' = options
    BY DEF tables
  <1>4. PICK r : r = request[c]
    OBVIOUS
  <1>5. Handles(step, r, seen)' /\ WinnerHandles(step, seen)'
    BY <1>3, <1>4 DEF Handles, WinnerHandles, Live
  <1> QED
    BY <1>1, <1>2, <1>4, <1>5 DEF StepKeeps, Handled

-----------------------------------------------------------------------------
(***************************************************************************)
(* What a reader of the tables may rely on.                                *)
(***************************************************************************)
LEMMA RoundTypes ==
  ASSUME RoundInv
  PROVE  /\ now \in Nat /\ lastOptionId \in Nat
         /\ Proposers \in [DOMAIN options -> Members]
         /\ Voters \subseteq Members
         /\ Live => /\ proposal \in Proposal
                    /\ proposal.winner \in Nat
                    /\ proposal.voteDeadline \in Nat /\ proposal.orderDeadline \in Nat
         /\ ~Live => proposal \in NoProposal
         /\ \A c \in Clients : Caller(c) \in Members
  <1>1. now \in Nat /\ lastOptionId \in Nat
    BY RoundAssumption DEF RoundInv, TablesHold, OptionRows
  <1>2. Proposers \in [DOMAIN options -> Members]
    BY DEF RoundInv, TablesHold, OptionRows, OptionRow, Proposers
  <1>3. Live => proposal \in Proposal
    BY DEF RoundInv, TablesHold, Live, NoProposal
  <1>4. ~Live => proposal \in NoProposal
    BY DEF RoundInv, TablesHold, Live, Proposal
  <1>5. \A c \in Clients : Caller(c) \in Members
    BY RoundAssumption DEF Caller
  <1> QED
    BY <1>1, <1>2, <1>3, <1>4, <1>5 DEF Voters, Proposal

(***************************************************************************)
(* A request to open the round, of a member who may.                       *)
(***************************************************************************)
LEMMA ReceiveCreateKeeps ==
  ASSUME RoundInv, NEW c \in Clients, NEW p \in {"free", "token", "ticket"},
         ReceiveCreate(c, p)
  PROVE  StepKeeps(c)
  <1> DEFINE r == [kind |-> "create", paidWith |-> p]
  <1>1. r \in Requests /\ r.kind = "create"
    BY DEF Requests
  <1>2. now \in Nat /\ lastOptionId \in Nat
    BY RoundTypes
  <1>3. Begin(c, r, "create", NothingRead) /\ UNCHANGED now
    BY DEF ReceiveCreate, At
  <1> HIDE DEF r
  <1>4. Handles("create", r, NothingRead)
    BY <1>1, <1>2 DEF Handles, Steps, NothingRead, NoVote, VoteRow
  <1>5. WinnerHandles("create", NothingRead)
    BY DEF WinnerHandles
  <1> QED
    BY <1>3, <1>4, <1>5, BeginKeeps

(***************************************************************************)
(* An admin ends a stage: the leading option is read before the row is     *)
(* written.                                                                *)
(***************************************************************************)
LEMMA ReceiveAdvanceKeeps ==
  ASSUME RoundInv, NEW c \in Clients, NEW stage \in {"voting", "ordering", "settled"},
         ReceiveAdvance(c, stage)
  PROVE  StepKeeps(c)
  <1> DEFINE r == [kind |-> "advance", stage |-> stage]
             w == IF stage = "ordering" THEN TopOption ELSE 0
             seen == [NothingRead EXCEPT !.at = now, !.winner = w]
  <1>1. r \in Requests /\ r.kind = "advance"
    BY DEF Requests
  <1>2. now \in Nat /\ lastOptionId \in Nat
    BY RoundTypes
  <1>3. Begin(c, r, "advance", seen) /\ UNCHANGED now
    BY DEF ReceiveAdvance, At
  <1>4. /\ w \in DOMAIN options \cup {0} /\ w \in Nat
        /\ options = << >> => w = 0
    BY <1>2, TopStands DEF RoundInv, TablesHold, OptionRows, TopOption
  <1> HIDE DEF w
  <1>5. /\ seen.winner = w /\ seen.at = now /\ seen.refund = 0 /\ seen.vote = NoVote
        /\ seen.proposers = << >> /\ seen.voters = {}
    BY DEF NothingRead
  <1> HIDE DEF r, seen
  <1>6. Handles("advance", r, seen)
    BY <1>1, <1>2, <1>4, <1>5 DEF Handles, Steps, NoVote, VoteRow
  <1>7. WinnerHandles("advance", seen)
    BY <1>4, <1>5 DEF WinnerHandles, RoundInv, TablesHold
  <1> QED
    BY <1>3, <1>6, <1>7, BeginKeeps

(***************************************************************************)
(* The round exists for whoever has loaded it; the checks of the service   *)
(* are made on that load.                                                  *)
(***************************************************************************)
LEMMA DispatchKeeps ==
  ASSUME RoundInv, NEW c \in Clients, Dispatch(c)
  PROVE  StepKeeps(c)
  <1>1. now \in Nat /\ lastOptionId \in Nat
    BY RoundTypes
  <1>2. CASE AnswerLoaded(c)
    BY <1>2, FailKeeps DEF AnswerLoaded, At
  <1>3. ASSUME NEW r, NEW step, r \in Requests, UNCHANGED now,
               proposal.phase # "none",
               \/ step = "insertOption" /\ r.kind = "addOption"
               \/ step = "voteRead" /\ r.kind = "vote" /\ r.option <= lastOptionId
               \/ step = "deleteRead",
               Begin(c, r, step, NothingRead)
        PROVE  StepKeeps(c)
    <2>1. Handles(step, r, NothingRead)
      BY <1>1, <1>3 DEF Handles, Steps, NothingRead, NoVote, VoteRow
    <2>2. WinnerHandles(step, NothingRead)
      BY <1>3 DEF WinnerHandles
    <2> QED
      BY <1>3, <2>1, <2>2, BeginKeeps
  <1>4. ASSUME Loaded(c)
        PROVE  UNCHANGED now /\ proposal.phase # "none"
    BY <1>4 DEF Loaded, At, Live
  <1>5. ASSUME NEW merchant \in Merchants, NEW ticket \in BOOLEAN,
               AddOption(c, merchant, ticket)
        PROVE  StepKeeps(c)
    <2> DEFINE r == [kind |-> "addOption", merchant |-> merchant, ticket |-> ticket]
    <2>1. r \in Requests /\ r.kind = "addOption"
      BY DEF Requests
    <2>2. Begin(c, r, "insertOption", NothingRead) /\ Loaded(c)
      BY <1>5 DEF AddOption
    <2> HIDE DEF r
    <2> QED
      BY <1>3, <1>4, <2>1, <2>2
  <1>6. ASSUME NEW option \in DOMAIN options, NEW amount \in Nat, NEW ticket \in BOOLEAN,
               Vote(c, option, amount, ticket)
        PROVE  StepKeeps(c)
    <2> DEFINE r == [kind |-> "vote", option |-> option, amount |-> amount,
                     ticket |-> ticket]
    <2>1. option \in Nat /\ option <= lastOptionId
      BY <1>1 DEF RoundInv, TablesHold, OptionRows
    <2>2. r \in Requests /\ r.kind = "vote" /\ r.option <= lastOptionId
      BY <2>1 DEF Requests
    <2>3. Begin(c, r, "voteRead", NothingRead) /\ Loaded(c)
      BY <1>6 DEF Vote
    <2> HIDE DEF r
    <2> QED
      BY <1>3, <1>4, <2>2, <2>3
  <1>7. CASE Delete(c)
    <2>1. NoRequest \in Requests
      BY DEF NoRequest, Requests
    <2>2. Begin(c, NoRequest, "deleteRead", NothingRead) /\ Loaded(c)
      BY <1>7 DEF Delete
    <2> QED
      BY <1>3, <1>4, <2>1, <2>2
  <1>8. CASE FinalizeSettlement(c)
    <2> DEFINE seen == [NothingRead EXCEPT !.winner = proposal.winner,
                                           !.proposers = Proposers, !.voters = Voters]
    <2>1. NoRequest \in Requests /\ proposal.winner \in Nat /\ Loaded(c)
      BY <1>8, RoundTypes DEF NoRequest, Requests, FinalizeSettlement, Loaded
    <2>2. Begin(c, NoRequest, "applyRewards", seen)
      BY <1>8 DEF FinalizeSettlement
    <2>3. /\ seen.winner = proposal.winner /\ seen.proposers = Proposers
          /\ seen.voters = Voters /\ seen.vote = NoVote /\ seen.refund = 0 /\ seen.at = 0
      BY DEF NothingRead
    <2> HIDE DEF seen
    <2>5. /\ DOMAIN Proposers \subseteq 1 .. lastOptionId
          /\ \A i \in DOMAIN Proposers : Proposers[i] \in Members
          /\ Voters \subseteq Members
      BY RoundTypes DEF RoundInv, TablesHold, OptionRows
    <2>4. /\ {seen.winner, seen.refund, seen.at} \subseteq Nat
          /\ seen.vote \in VoteRow /\ seen.vote.option <= lastOptionId
          /\ seen.at <= now
      BY <1>1, <2>1, <2>3 DEF NoVote, VoteRow
    <2>6. Handles("applyRewards", NoRequest, seen)
      BY <2>1, <2>3, <2>4, <2>5 DEF Handles, Steps
    <2>7. WinnerHandles("applyRewards", seen)
      BY <1>4, <2>1 DEF WinnerHandles
    <2> QED
      BY <1>4, <2>1, <2>2, <2>6, <2>7, BeginKeeps
  <1> QED
    BY <1>2, <1>5, <1>6, <1>7, <1>8, RoundAssumption DEF Dispatch

-----------------------------------------------------------------------------
(***************************************************************************)
(* The first half of a refresh reads the leading option, of a vote that is *)
(* over.                                                                   *)
(***************************************************************************)
LEMMA RefreshReadKeeps ==
  ASSUME RoundInv, NEW c \in Clients, RefreshRead(c)
  PROVE  StepKeeps(c)
  <1>1. /\ pc[c] = "refresh" /\ read[c] = NothingRead /\ request[c] \in Requests
        /\ UNCHANGED <<now, tables>>
    BY DEF RefreshRead, At, RoundInv, Handled, Handles
  <1>2. now \in Nat /\ lastOptionId \in Nat
    BY RoundTypes
  <1>3. CASE ~Live
    BY <1>1, <1>3, FailKeeps DEF RefreshRead, Fail
  <1>4. ASSUME Live, VoteIsOver, options # << >>,
               Goto(c, "setWinner", [read[c] EXCEPT !.winner = TopOption])
        PROVE  StepKeeps(c)
    <2> DEFINE seen == [NothingRead EXCEPT !.winner = TopOption]
    <2>1. /\ seen.winner = TopOption /\ seen.at = 0 /\ seen.refund = 0 /\ seen.vote = NoVote
          /\ seen.proposers = << >> /\ seen.voters = {}
      BY DEF NothingRead
    <2>2. Goto(c, "setWinner", seen)
      BY <1>1, <1>4
    <2>3. TopOption \in DOMAIN options /\ TopOption \in Nat
      BY <1>2, <1>4, TopStands DEF RoundInv, TablesHold, OptionRows
    <2> HIDE DEF seen
    <2>4. Handles("setWinner", request[c], seen)
      BY <1>1, <1>2, <2>1, <2>3 DEF Handles, Steps, NoVote, VoteRow
    <2>5. WinnerHandles("setWinner", seen)
      BY <1>4, <2>1, <2>3 DEF WinnerHandles, Live, VoteIsOver
    <2> QED
      BY <1>1, <2>2, <2>4, <2>5, GotoKeeps
  <1>5. ASSUME Live, NEW step, step \in {"settleLoad", "load"}, Goto(c, step, read[c])
        PROVE  StepKeeps(c)
    <2>1. Handles(step, request[c], NothingRead)
      BY <1>1, <1>2, <1>5 DEF Handles, Steps, NothingRead, NoVote, VoteRow
    <2>2. WinnerHandles(step, NothingRead)
      BY <1>5 DEF WinnerHandles, Live
    <2> QED
      BY <1>1, <1>5, <2>1, <2>2, GotoKeeps
  <1> QED
    BY <1>3, <1>4, <1>5 DEF RefreshRead, AfterRefresh

(***************************************************************************)
(* The rewards of a settlement are computed from the options there are.    *)
(***************************************************************************)
LEMMA LoadForSettlementKeeps ==
  ASSUME RoundInv, NEW c \in Clients, LoadForSettlement(c)
  PROVE  StepKeeps(c)
  <1>1. /\ request[c] \in Requests /\ UNCHANGED <<now, tables>>
    BY DEF LoadForSettlement, At, RoundInv, Handled, Handles
  <1>2. now \in Nat /\ lastOptionId \in Nat
    BY RoundTypes
  <1>3. CASE ~Live
    BY <1>1, <1>3, FailKeeps DEF LoadForSettlement, Fail
  <1>4. ASSUME Live,
               Goto(c, "settle", [NothingRead EXCEPT !.winner = proposal.winner,
                                                     !.proposers = Proposers])
        PROVE  StepKeeps(c)
    <2> DEFINE seen == [NothingRead EXCEPT !.winner = proposal.winner,
                                           !.proposers = Proposers]
    <2>1. /\ seen.winner = proposal.winner /\ seen.at = 0 /\ seen.refund = 0
          /\ seen.vote = NoVote /\ seen.proposers = Proposers /\ seen.voters = {}
      BY DEF NothingRead
    <2>2. Goto(c, "settle", seen)
      BY <1>4
    <2>3. /\ DOMAIN Proposers \subseteq 1 .. lastOptionId
          /\ \A i \in DOMAIN Proposers : Proposers[i] \in Members
          /\ proposal.winner \in Nat
      BY <1>4, RoundTypes DEF RoundInv, TablesHold, OptionRows
    <2> HIDE DEF seen
    <2>4. Handles("settle", request[c], seen)
      BY <1>1, <1>2, <2>1, <2>3 DEF Handles, Steps, NoVote, VoteRow
    <2>5. WinnerHandles("settle", seen)
      BY <1>4 DEF WinnerHandles, Live
    <2> QED
      BY <1>1, <2>2, <2>4, <2>5, GotoKeeps
  <1>5. ASSUME Live, Goto(c, "load", NothingRead)
        PROVE  StepKeeps(c)
    <2>1. Handles("load", request[c], NothingRead)
      BY <1>1, <1>2, <1>5 DEF Handles, Steps, NothingRead, NoVote, VoteRow
    <2>2. WinnerHandles("load", NothingRead)
      BY <1>5 DEF WinnerHandles, Live
    <2> QED
      BY <1>1, <1>5, <2>1, <2>2, GotoKeeps
  <1> QED
    BY <1>3, <1>4, <1>5 DEF LoadForSettlement

(***************************************************************************)
(* The vote that is read before it is replaced.                            *)
(***************************************************************************)
LEMMA VoteReadKeeps ==
  ASSUME RoundInv, NEW c \in Clients, VoteRead(c)
  PROVE  StepKeeps(c)
  <1> DEFINE v == votes[Caller(c)]
             seen == [NothingRead EXCEPT !.vote = v]
  <1>1. /\ pc[c] = "voteRead" /\ Handles("voteRead", request[c], read[c])
        /\ UNCHANGED <<now, tables>> /\ Goto(c, "voteWrite", seen)
    BY DEF VoteRead, At, RoundInv, Handled
  <1>2. now \in Nat /\ lastOptionId \in Nat
    BY RoundTypes
  <1>3. v \in VoteRow /\ v.option <= lastOptionId
    BY RoundTypes DEF RoundInv, TablesHold
  <1>4. /\ seen.winner = 0 /\ seen.at = 0 /\ seen.refund = 0
        /\ seen.vote = v /\ seen.proposers = << >> /\ seen.voters = {}
    BY DEF NothingRead
  <1> HIDE DEF seen, v
  <1>5. Handles("voteWrite", request[c], seen)
    BY <1>1, <1>2, <1>3, <1>4 DEF Handles, Steps
  <1>6. WinnerHandles("voteWrite", seen)
    BY <1>1 DEF WinnerHandles, RoundInv, Handled
  <1> QED
    BY <1>1, <1>5, <1>6, GotoKeeps

(***************************************************************************)
(* A deletion adds up its refund; it reads a natural number.               *)
(***************************************************************************)
LEMMA RefundType ==
  ASSUME RoundInv
  PROVE  DeleteRefund \in Nat
  <1> DEFINE stakes == [i \in DOMAIN options |-> options[i].tokenStake]
  <1>1. stakes \in [DOMAIN options -> Nat]
    BY DEF RoundInv, TablesHold, OptionRows, OptionRow
  <1>2. IsFiniteSet(DOMAIN options)
    <2>1. IsFiniteSet(1 .. lastOptionId)
      BY FS_Interval DEF RoundInv, TablesHold, OptionRows
    <2> QED
      BY <2>1, FS_Subset DEF RoundInv, TablesHold, OptionRows
  <1> HIDE DEF stakes
  <1>3. Sum(stakes) \in Nat
    BY <1>1, <1>2, SumType
  <1>4. DeleteRefund = Sum(stakes)
                       + (IF proposal.paidWith = "free" THEN 0 ELSE proposalTokenCost)
    BY DEF DeleteRefund, stakes
  <1>5. proposalTokenCost \in Nat
    BY RoundAssumption
  <1> QED
    BY <1>3, <1>4, <1>5

\* DeleteProposalByCreator reads what it gives back.
LEMMA DeleteReadKeeps ==
  ASSUME RoundInv, NEW c \in Clients, DeleteRead(c)
  PROVE  StepKeeps(c)
  <1>1. /\ pc[c] = "deleteRead" /\ request[c] \in Requests /\ UNCHANGED <<now, tables>>
    BY DEF DeleteRead, At, RoundInv, Handled, Handles
  <1>2. now \in Nat /\ lastOptionId \in Nat /\ DeleteRefund \in Nat
    BY RoundTypes, RefundType
  <1>3. CASE Answer(c)
    BY <1>1, <1>3, FailKeeps DEF Fail
  <1>4. ASSUME Live,
               Goto(c, "deleteWrite", [NothingRead EXCEPT !.refund = DeleteRefund])
        PROVE  StepKeeps(c)
    <2> DEFINE n == DeleteRefund
               seen == [NothingRead EXCEPT !.refund = n]
    <2> HIDE DEF n
    <2>1. /\ seen.winner = 0 /\ seen.at = 0 /\ seen.refund = n
          /\ seen.vote = NoVote /\ seen.proposers = << >> /\ seen.voters = {}
      BY DEF NothingRead
    <2>2. Goto(c, "deleteWrite", seen) /\ n \in Nat
      BY <1>2, <1>4 DEF n
    <2> HIDE DEF seen
    <2>3. Handles("deleteWrite", request[c], seen)
      BY <1>1, <1>2, <2>1, <2>2 DEF Handles, Steps, NoVote, VoteRow
    <2>4. WinnerHandles("deleteWrite", seen)
      BY <1>4 DEF WinnerHandles, Live
    <2> QED
      BY <1>1, <2>2, <2>3, <2>4, GotoKeeps
  <1> QED
    BY <1>3, <1>4 DEF DeleteRead

-----------------------------------------------------------------------------
(***************************************************************************)
(* Opening the round: it is charged only what the member has, once.        *)
(***************************************************************************)
LEMMA CreateKeeps ==
  ASSUME RoundInv, NEW c \in Clients, CreateProposal(c)
  PROVE  StepKeeps(c)
  <1> DEFINE m == Caller(c)
             wanted == request[c].paidWith
             useTicket == wanted = "ticket" /\ Own(c).createTickets > 0
             p == IF wanted = "free" \/ useTicket THEN wanted ELSE "token"
             tickets == IF useTicket THEN account[m].createTickets - 1
                        ELSE account[m].createTickets
             tokens == IF p = "token" THEN account[m].tokens - proposalTokenCost
                       ELSE account[m].tokens
  <1>1. /\ request[c] \in Requests /\ request[c].kind = "create" /\ UNCHANGED now
        /\ proposal.phase = "none"
    BY DEF CreateProposal, At, RoundInv, Handled, Handles
  <1>2. now \in Nat /\ lastOptionId \in Nat /\ m \in Members
    BY RoundTypes
  <1>3. CASE Fail(c)
    BY <1>1, <1>3, FailKeeps
  <1>4. ASSUME ~(p = "token" /\ CannotPay(c, proposalTokenCost)),
               account' = [account EXCEPT
                 ![Caller(c)].createTickets = IF useTicket THEN @ - 1 ELSE @,
                 ![Caller(c)].tokens = IF p = "token" THEN @ - proposalTokenCost ELSE @],
               proposal' = NewProposal(c, p),
               Goto(c, "link", NothingRead),
               UNCHANGED <<options, lastOptionId, votes>>
        PROVE  StepKeeps(c)
    <2>1. account \in [Members -> Account] /\ account[m] \in Account
      BY <1>2 DEF RoundInv, TablesHold
    <2>2. tickets \in Nat /\ tokens \in Nat
      BY <1>4, <2>1, RoundAssumption DEF Account, Own, CannotPay
    <2>3. account' \in [Members -> Account]
      BY <1>2, <1>4, <2>1, <2>2 DEF Account
    <2>4. wanted \in {"free", "token", "ticket"}
      BY <1>1, RequestShape
    <2>5. p \in {"free", "token", "ticket"}
      BY <2>4
    <2> HIDE DEF p
    <2>6. proposal' \in Proposal /\ proposal'.winner = 0 /\ proposal'.phase = "live"
      BY <1>2, <1>4, <2>5 DEF NewProposal, Proposal
    <2>7. TablesHold'
      BY <1>1, <1>4, <2>3, <2>6 DEF RoundInv, TablesHold, OptionRows, WinnerAfterVote, Live
    <2>8. TablesGrow
      BY <1>1, <1>2, <1>4, <2>6 DEF TablesGrow, Live
    <2>9. /\ OnlyMoves(c) /\ pc'[c] = "link" /\ request'[c] = request[c]
          /\ read'[c] = NothingRead
      BY <1>4, GotoEffect DEF RoundInv, Steps
    <2>10. Handled(c)'
      <3>1. PICK r : r = request[c]
        OBVIOUS
      <3>2. Handles("link", r, NothingRead)'
        BY <1>1, <1>2, <1>4, <3>1
           DEF Handles, Steps, NothingRead, NoVote, VoteRow
      <3>3. WinnerHandles("link", NothingRead)'
        BY <2>6 DEF WinnerHandles
      <3> QED
        BY <2>9, <3>1, <3>2, <3>3 DEF Handled
    <2> QED
      BY <2>7, <2>8, <2>9, <2>10 DEF StepKeeps
  <1> QED
    BY <1>3, <1>4 DEF CreateProposal

(***************************************************************************)
(* The row of the round is updated, whatever its state is by then.         *)
(***************************************************************************)
LEMMA ProposalKeeps ==
  ASSUME RoundInv,
         UNCHANGED <<now, options, lastOptionId, votes>>,
         account' \in [Members -> Account],
         proposal' \in Proposal \cup NoProposal,
         proposal'.phase = proposal.phase,
         Live => /\ proposal'.winner # 0 =>
                      proposal'.winner \in DOMAIN options /\ now >= proposal'.voteDeadline
                 /\ now >= proposal.voteDeadline => now >= proposal'.voteDeadline
  PROVE  TablesHold' /\ TablesGrow
  <1>1. now \in Nat /\ lastOptionId \in Nat
    BY RoundTypes
  <1>2. TablesHold'
    BY DEF RoundInv, TablesHold, OptionRows, WinnerAfterVote, Live
  <1>3. TablesGrow
    BY <1>1 DEF TablesGrow, Live
  <1> QED
    BY <1>2, <1>3

(***************************************************************************)
(* A field of the row that is no field of a round that is gone.            *)
(***************************************************************************)
LEMMA LinkKeeps ==
  ASSUME RoundInv, NEW c \in Clients, SetProposalGroupID(c)
  PROVE  StepKeeps(c)
  <1>1. /\ UNCHANGED <<now, account, options, lastOptionId, votes>>
        /\ proposal' = [proposal EXCEPT !.grouped = TRUE]
        /\ GetAndAnswer(c) \/ Answer(c)
    BY DEF SetProposalGroupID, At
  <1>2. /\ proposal' \in Proposal \cup NoProposal
        /\ proposal'.phase = proposal.phase
        /\ Live => proposal'.winner = proposal.winner
                   /\ proposal'.voteDeadline = proposal.voteDeadline
    <2>1. CASE Live
      <3>1. proposal \in Proposal
        BY <2>1, RoundTypes
      <3> QED
        BY <1>1, <3>1 DEF Proposal
    <2>2. CASE ~Live
      <3>1. proposal \in NoProposal
        BY <2>2, RoundTypes
      <3>2. proposal' = proposal
        BY <1>1, <3>1 DEF NoProposal
      <3> QED
        BY <2>2, <3>1, <3>2
    <2> QED
      BY <2>1, <2>2
  <1>3. TablesHold' /\ TablesGrow
    BY <1>1, <1>2, ProposalKeeps DEF RoundInv, TablesHold, WinnerAfterVote
  <1>4. OnlyMoves(c) /\ Handled(c)'
    BY <1>1, <1>3, AnswerEffect, GetAndAnswerEffect, NothingHandled DEF RoundInv
  <1> QED
    BY <1>3, <1>4 DEF StepKeeps

(***************************************************************************)
(* A handler that goes on to load the round holds nothing.                 *)
(***************************************************************************)
LEMMA LoadHandled ==
  ASSUME TablesHold', NEW c \in Clients, NEW step \in {"settleLoad", "load"},
         proposal'.phase # "none", request[c] \in Requests,
         pc'[c] = step /\ request'[c] = request[c] /\ read'[c] = NothingRead
  PROVE  Handled(c)'
  <1>1. PICK r : r = request[c]
    OBVIOUS
  <1>2. now' \in Nat /\ lastOptionId' \in Nat
    BY RoundAssumption DEF TablesHold, OptionRows
  <1>3. Handles(step, r, NothingRead)'
    BY <1>1, <1>2 DEF Handles, Steps, NothingRead, NoVote, VoteRow
  <1>4. WinnerHandles(step, NothingRead)'
    BY DEF WinnerHandles, Live
  <1> QED
    BY <1>1, <1>3, <1>4 DEF Handled

(***************************************************************************)
(* The winner that was read is written blindly: it is still an option of   *)
(* the round, or the round is gone.                                        *)
(***************************************************************************)
LEMMA SetWinnerKeeps ==
  ASSUME RoundInv, NEW c \in Clients, RefreshSetWinner(c)
  PROVE  StepKeeps(c)
  <1> DEFINE w == read[c].winner
  <1>1. /\ UNCHANGED <<now, account, options, lastOptionId, votes>>
        /\ proposal' = IF Live THEN [proposal EXCEPT !.winner = w] ELSE proposal
        /\ pc[c] = "setWinner" /\ request[c] \in Requests /\ w \in Nat
        /\ Live => w \in DOMAIN options /\ now >= proposal.voteDeadline
        /\ proposal.phase # "none"
    BY DEF RefreshSetWinner, At, RoundInv, Handled, Handles, WinnerHandles
  <1>2. PICK step \in {"settleLoad", "load"} : Goto(c, step, NothingRead)
    BY DEF RefreshSetWinner, AfterRefresh
  <1> HIDE DEF w
  <1>3. /\ proposal' \in Proposal \cup NoProposal
        /\ proposal'.phase = proposal.phase
        /\ Live => proposal'.winner = w /\ proposal'.voteDeadline = proposal.voteDeadline
    <2>1. CASE Live
      <3>1. proposal \in Proposal
        BY <2>1, RoundTypes
      <3> QED
        BY <1>1, <2>1, <3>1 DEF Proposal
    <2>2. CASE ~Live
      BY <1>1, <2>2, RoundTypes
    <2> QED
      BY <2>1, <2>2
  <1>4. TablesHold' /\ TablesGrow
    BY <1>1, <1>3, ProposalKeeps DEF RoundInv, TablesHold
  <1>5. /\ OnlyMoves(c) /\ pc'[c] = step /\ request'[c] = request[c]
        /\ read'[c] = NothingRead
    BY <1>2, GotoEffect DEF RoundInv, Steps
  <1>6. Handled(c)'
    BY <1>1, <1>3, <1>4, <1>5, LoadHandled
  <1> QED
    BY <1>4, <1>5, <1>6 DEF StepKeeps

(***************************************************************************)
(* An admin ends a stage at the time that was read: a vote that is over    *)
(* stays over, and the winner that was read is still an option.            *)
(***************************************************************************)
LEMMA AdvanceKeeps ==
  ASSUME RoundInv, NEW c \in Clients, AdvanceProposalStage(c)
  PROVE  StepKeeps(c)
  <1> DEFINE w == read[c].winner
             t == read[c].at
             stage == request[c].stage
  <1>1. /\ UNCHANGED <<now, account, options, lastOptionId, votes>> /\ GetAndAnswer(c)
        /\ pc[c] = "advance" /\ w \in Nat /\ t \in Nat /\ t <= now
        /\ Live => w \in DOMAIN options \cup {0}
        /\ stage \in {"voting", "ordering", "settled"}
    BY RequestShape DEF AdvanceProposalStage, At, RoundInv, Handled, Handles, WinnerHandles
  <1>2. \/ ~Live /\ proposal' = proposal
        \/ Live /\ stage = "voting" /\ proposal' = [proposal EXCEPT !.proposalDeadline = t]
        \/ Live /\ stage = "ordering" /\ proposal' = [proposal EXCEPT !.voteDeadline = t,
                                                                     !.winner = w]
        \/ Live /\ stage = "settled" /\ proposal' = [proposal EXCEPT !.orderDeadline = t]
    BY <1>1 DEF AdvanceProposalStage
  <1> HIDE DEF w, t, stage
  <1>3. /\ proposal' \in Proposal \cup NoProposal
        /\ proposal'.phase = proposal.phase
        /\ Live => \/ /\ proposal'.winner = proposal.winner
                      /\ proposal'.voteDeadline = proposal.voteDeadline
                   \/ proposal'.winner = w /\ proposal'.voteDeadline = t
    <2>1. CASE Live
      <3>1. proposal \in Proposal
        BY <2>1, RoundTypes
      <3> QED
        BY <1>1, <1>2, <2>1, <3>1 DEF Proposal
    <2>2. CASE ~Live
      BY <1>2, <2>2, RoundTypes
    <2> QED
      BY <2>1, <2>2
  <1>4. TablesHold' /\ TablesGrow
    BY <1>1, <1>3, ProposalKeeps DEF RoundInv, TablesHold, WinnerAfterVote
  <1>5. OnlyMoves(c) /\ Handled(c)'
    BY <1>1, <1>4, GetAndAnswerEffect, NothingHandled DEF RoundInv
  <1> QED
    BY <1>4, <1>5 DEF StepKeeps

(***************************************************************************)
(* Rewards are natural numbers.                                            *)
(***************************************************************************)
LEMMA RewardTypes ==
  ASSUME lastOptionId \in Nat, NEW seen, NEW voters, NEW m \in Members,
         DOMAIN seen.proposers \subseteq 1 .. lastOptionId
  PROVE  TokenReward(seen, m) \in Nat /\ PointReward(seen, voters, m) \in Nat
  <1> DEFINE D == DOMAIN seen.proposers
             f == [i \in D |-> IF seen.proposers[i] = m THEN OptionReward(seen, i) ELSE 0]
  <1>1. {winnerTokenReward, loserPartialRefund, winnerProposerPoints, voterPoints} \subseteq Nat
    BY RoundAssumption
  <1>2. IsFiniteSet(D)
    BY FS_Interval, FS_Subset
  <1>3. f \in [D -> Nat]
    BY <1>1 DEF OptionReward
  <1>4. TokenReward(seen, m) = Sum(f)
    BY DEF TokenReward
  <1> HIDE DEF f, D
  <1>5. Sum(f) \in Nat
    BY <1>2, <1>3, SumType
  <1>6. PointReward(seen, voters, m) \in Nat
    BY <1>1 DEF PointReward
  <1> QED
    BY <1>4, <1>5, <1>6

(***************************************************************************)
(* Rewards are added to the accounts, whatever the row says by then.       *)
(***************************************************************************)
LEMMA RewardKeeps ==
  ASSUME RoundInv, NEW c \in Clients, NEW voters, Reward(read[c], voters), UNCHANGED now
  PROVE  TablesHold' /\ TablesGrow /\ proposal'.phase = proposal.phase
  <1>1. /\ lastOptionId \in Nat /\ DOMAIN read[c].proposers \subseteq 1 .. lastOptionId
        /\ account \in [Members -> Account]
    BY RoundTypes DEF RoundInv, Handled, Handles, TablesHold
  <1>2. account' \in [Members -> Account]
    <2> SUFFICES ASSUME NEW m \in Members
                 PROVE  [account[m] EXCEPT !.tokens = @ + TokenReward(read[c], m),
                                           !.points = @ + PointReward(read[c], voters, m)]
                        \in Account
      BY DEF Reward
    <2> DEFINE x == TokenReward(read[c], m)
               y == PointReward(read[c], voters, m)
    <2>1. x \in Nat /\ y \in Nat
      BY <1>1, RewardTypes
    <2> HIDE DEF x, y
    <2>2. account[m] \in Account
      BY <1>1
    <2> DEFINE paid == [account[m] EXCEPT !.tokens = @ + x]
    <2>3. paid \in Account /\ paid.points = account[m].points
      BY <2>1, <2>2 DEF Account
    <2> HIDE DEF paid
    <2>4. [paid EXCEPT !.points = account[m].points + y] \in Account
      BY <2>1, <2>2, <2>3 DEF Account
    <2>5. [account[m] EXCEPT !.tokens = @ + x, !.points = @ + y] \in Account
      BY <2>4 DEF paid
    <2> QED
      BY <2>5 DEF x, y
  <1>3. /\ proposal' \in Proposal \cup NoProposal
        /\ proposal'.phase = proposal.phase
        /\ Live => proposal'.winner = proposal.winner
                   /\ proposal'.voteDeadline = proposal.voteDeadline
    <2>1. CASE Live
      <3>1. proposal \in Proposal
        BY <2>1, RoundTypes
      <3> QED
        BY <2>1, <3>1 DEF Proposal, Reward
    <2>2. CASE ~Live
      BY <2>2, RoundTypes DEF Reward
    <2> QED
      BY <2>1, <2>2
  <1>4. TablesHold' /\ TablesGrow
    BY <1>2, <1>3, ProposalKeeps DEF Reward, RoundInv, TablesHold, WinnerAfterVote
  <1> QED
    BY <1>3, <1>4

\* applyLocalSettlementRewards changes accounts only.
LEMMA SettleKeeps ==
  ASSUME RoundInv, NEW c \in Clients, SettleLocally(c)
  PROVE  StepKeeps(c)
  <1>1. /\ UNCHANGED now /\ request[c] \in Requests /\ proposal.phase # "none"
        /\ Goto(c, "load", NothingRead) /\ Reward(read[c], Voters)
    BY DEF SettleLocally, At, RoundInv, Handled, Handles, WinnerHandles
  <1>2. TablesHold' /\ TablesGrow /\ proposal'.phase # "none"
    BY <1>1, RewardKeeps
  <1>3. /\ OnlyMoves(c) /\ pc'[c] = "load" /\ request'[c] = request[c]
        /\ read'[c] = NothingRead
    BY <1>1, GotoEffect DEF RoundInv, Steps
  <1> QED
    BY <1>1, <1>2, <1>3, LoadHandled DEF StepKeeps

\* ApplySettlementRewards changes accounts only.
LEMMA ApplyRewardsKeeps ==
  ASSUME RoundInv, NEW c \in Clients, ApplySettlementRewards(c)
  PROVE  StepKeeps(c)
  <1>1. UNCHANGED now /\ GetAndAnswer(c) /\ Reward(read[c], read[c].voters)
    BY DEF ApplySettlementRewards, At
  <1>2. TablesHold' /\ TablesGrow
    BY <1>1, RewardKeeps
  <1> QED
    BY <1>1, <1>2, GetAndAnswerEffect, NothingHandled DEF RoundInv, StepKeeps

-----------------------------------------------------------------------------
(***************************************************************************)
(* Adding a weight moves one row only.                                     *)
(***************************************************************************)
LEMMA AddWeightEffect ==
  ASSUME NEW D, NEW rows \in [D -> OptionRow], NEW i, NEW w \in Int
  PROVE  /\ AddWeight(rows, i, w) \in [D -> OptionRow]
         /\ \A j \in D :
              /\ AddWeight(rows, i, w)[j].weightedVotes
                   = rows[j].weightedVotes + (IF j = i THEN w ELSE 0)
              /\ AddWeight(rows, i, w)[j].usedTicket = rows[j].usedTicket
              /\ AddWeight(rows, i, w)[j].tokenStake = rows[j].tokenStake
  <1>1. DOMAIN rows = D /\ \A j \in D : rows[j] \in OptionRow /\ rows[j].weightedVotes \in Int
    BY DEF OptionRow
  <1>2. CASE i \in D
    <2> DEFINE v == rows[i].weightedVotes + w
               row == [rows[i] EXCEPT !.weightedVotes = v]
    <2>1. v \in Int
      BY <1>1, <1>2
    <2>2. AddWeight(rows, i, w) = [rows EXCEPT ![i] = row]
      BY <1>1, <1>2 DEF AddWeight
    <2> HIDE DEF v
    <2>3. /\ row \in OptionRow /\ row.weightedVotes = v
          /\ row.usedTicket = rows[i].usedTicket /\ row.tokenStake = rows[i].tokenStake
      BY <1>1, <1>2, <2>1 DEF OptionRow
    <2> HIDE DEF row
    <2> QED
      BY <1>1, <1>2, <2>2, <2>3 DEF v
  <1>3. CASE i \notin D
    BY <1>1, <1>3 DEF AddWeight
  <1> QED
    BY <1>2, <1>3

(***************************************************************************)
(* An option is inserted under a new id, charged only what its proposer    *)
(* has.                                                                    *)
(***************************************************************************)
LEMMA InsertKeeps ==
  ASSUME RoundInv, NEW c \in Clients, InsertProposalOption(c)
  PROVE  StepKeeps(c)
  <1> DEFINE m == Caller(c)
             r == request[c]
             useTicket == r.ticket /\ Own(c).proposalTickets > 0
             cost == IF useTicket THEN 0 ELSE optionTokenCost
             tickets == IF useTicket THEN account[m].proposalTickets - 1
                        ELSE account[m].proposalTickets
             tokens == account[m].tokens - cost
             row == [merchant |-> r.merchant, proposer |-> Caller(c),
                     usedTicket |-> useTicket, weightedVotes |-> 0, tokenStake |-> cost]
             n == lastOptionId + 1
  <1>1. /\ r \in Requests /\ r.kind = "addOption" /\ UNCHANGED now
        /\ proposal.phase # "none"
    BY DEF InsertProposalOption, At, RoundInv, Handled, Handles, WinnerHandles
  <1>2. now \in Nat /\ lastOptionId \in Nat /\ m \in Members
    BY RoundTypes
  <1>3. CASE Fail(c)
    BY <1>1, <1>3, FailKeeps
  <1>4. ASSUME ~CannotPay(c, cost),
               account' = [account EXCEPT
                 ![Caller(c)].proposalTickets = IF useTicket THEN @ - 1 ELSE @,
                 ![Caller(c)].tokens = @ - cost],
               lastOptionId' = lastOptionId + 1,
               options' = [i \in DOMAIN options \cup {lastOptionId'} |->
                 IF i \in DOMAIN options THEN options[i] ELSE row],
               GetAndAnswer(c),
               UNCHANGED <<proposal, votes>>
        PROVE  StepKeeps(c)
    <2>1. account \in [Members -> Account] /\ account[m] \in Account
      BY <1>2 DEF RoundInv, TablesHold
    <2>2. r.ticket \in BOOLEAN /\ r.merchant \in Merchants
      BY <1>1, RequestShape
    <2>3. cost \in Nat
      BY RoundAssumption
    <2>4. useTicket \in BOOLEAN
      BY <2>1, <2>2 DEF Account, Own
    <2>5. tickets \in Nat /\ tokens \in Nat
      BY <1>4, <2>1, <2>3 DEF Account, Own, CannotPay
    <2>6. row \in OptionRow
      BY <1>2, <2>2, <2>3, <2>4 DEF OptionRow
    <2> HIDE DEF row, cost
    <2>7. account' \in [Members -> Account]
      BY <1>2, <1>4, <2>1, <2>5 DEF Account
    <2>8. /\ options' \in [DOMAIN options \cup {n} -> OptionRow]
          /\ DOMAIN options' \subseteq 1 .. lastOptionId'
          /\ lastOptionId' \in Nat /\ lastOptionId' >= lastOptionId
      BY <1>2, <1>4, <2>6 DEF RoundInv, TablesHold, OptionRows
    <2>9. DOMAIN options \subseteq DOMAIN options' /\ DOMAIN options' = DOMAIN options \cup {n}
      BY <2>8
    <2>10. /\ votes' = votes /\ proposal' = proposal /\ now' = now
           /\ \A v \in Members : votes[v].option <= lastOptionId'
      <3>1. \A v \in Members : votes[v].option \in Nat /\ votes[v].option <= lastOptionId
        BY DEF RoundInv, TablesHold, VoteRow
      <3> QED
        BY <1>1, <1>2, <1>4, <3>1
    <2>11. TablesHold'
      BY <1>1, <2>7, <2>8, <2>9, <2>10
         DEF RoundInv, TablesHold, OptionRows, WinnerAfterVote, Live
    <2>12. TablesGrow
      BY <1>1, <1>2, <2>8, <2>9, <2>10 DEF TablesGrow, Live
    <2> QED
      BY <1>4, <2>11, <2>12, GetAndAnswerEffect, NothingHandled DEF StepKeeps, RoundInv
  <1> QED
    BY <1>3, <1>4 DEF InsertProposalOption

(***************************************************************************)
(* A vote is written over the one that was read.                           *)
(***************************************************************************)
VoteWeight(r) == IF r.ticket THEN 1 ELSE r.amount

Cast(r) == [option |-> r.option, weight |-> VoteWeight(r), ticket |-> r.ticket]

PaidFor(a, old, r) ==
  IF r.ticket THEN [Refunded(a, old) EXCEPT !.voteTickets = @ - 1]
              ELSE [Refunded(a, old) EXCEPT !.tokens = @ - VoteWeight(r)]

Replaced(rows, old, r) == AddWeight(TakeOffOldWeight(rows, old), r.option, VoteWeight(r))

VoteBooked(c, m, old, r) ==
  /\ ~Insufficient(PaidFor(account[m], old, r))
  /\ ~(~HasVote(old) /\ HasVote(votes[m]))
  /\ account' = [account EXCEPT ![m] = PaidFor(account[m], old, r)]
  /\ options' = Replaced(options, old, r)
  /\ votes' = IF HasVote(old) /\ ~HasVote(votes[m]) THEN votes
              ELSE [votes EXCEPT ![m] = Cast(r)]
  /\ GetAndAnswer(c)
  /\ UNCHANGED <<proposal, lastOptionId>>

\* RecordVote fails, or books the vote.
LEMMA VoteWriteCases ==
  ASSUME NEW c \in Clients, VoteWrite(c)
  PROVE  Fail(c) \/ VoteBooked(c, Caller(c), read[c].vote, request[c])
  BY Zenon DEF VoteWrite, VoteBooked, PaidFor, VoteWeight, Cast, Replaced

\* An account that can pay for a vote is an account after it.
LEMMA PaidForType ==
  ASSUME NEW a \in Account, NEW old \in VoteRow, NEW r, r.ticket \in BOOLEAN, r.amount \in Nat,
         ~Insufficient(PaidFor(a, old, r))
  PROVE  PaidFor(a, old, r) \in Account
  <1> DEFINE b == Refunded(a, old)
             w == VoteWeight(r)
  <1>1. b \in Account /\ w \in Nat
    BY DEF Refunded, Account, VoteRow, VoteWeight
  <1>2. PaidFor(a, old, r) = IF r.ticket THEN [b EXCEPT !.voteTickets = @ - 1]
                             ELSE [b EXCEPT !.tokens = @ - w]
    BY DEF PaidFor
  <1> HIDE DEF b, w
  <1>3. CASE r.ticket
    BY <1>1, <1>2, <1>3 DEF Account, Insufficient
  <1>4. CASE ~r.ticket
    BY <1>1, <1>2, <1>4 DEF Account, Insufficient
  <1> QED
    BY <1>3, <1>4

\* RecordVote keeps the tables, and others what they have read.
LEMMA VoteWriteKeeps ==
  ASSUME RoundInv, NEW c \in Clients, VoteWrite(c)
  PROVE  StepKeeps(c)
  <1> DEFINE m == Caller(c)
             old == read[c].vote
             r == request[c]
  <1>1. /\ r \in Requests /\ r.kind = "vote" /\ r.option <= lastOptionId
        /\ old \in VoteRow /\ UNCHANGED now
    BY DEF VoteWrite, At, RoundInv, Handled, Handles
  <1>2. now \in Nat /\ lastOptionId \in Nat /\ m \in Members
    BY RoundTypes
  <1>3. r.option \in Nat /\ r.amount \in Nat /\ r.ticket \in BOOLEAN
    BY <1>1, RequestShape
  <1>4. CASE Fail(c)
    BY <1>1, <1>4, FailKeeps
  <1>5. CASE VoteBooked(c, m, old, r)
    <2> HIDE DEF m, old, r
    <2>1. account' \in [Members -> Account]
      <3>1. account \in [Members -> Account] /\ account[m] \in Account
        BY <1>2 DEF RoundInv, TablesHold
      <3>2. PaidFor(account[m], old, r) \in Account
        BY <1>1, <1>3, <1>5, <3>1, PaidForType DEF VoteBooked
      <3> QED
        BY <1>2, <1>5, <3>1, <3>2 DEF VoteBooked
    <2>2. options' \in [DOMAIN options -> OptionRow]
      <3> DEFINE less == TakeOffOldWeight(options, old)
      <3>1. VoteWeight(r) \in Int /\ -old.weight \in Int
        BY <1>1, <1>3 DEF VoteWeight, VoteRow
      <3>2. options \in [DOMAIN options -> OptionRow]
        BY DEF RoundInv, TablesHold, OptionRows
      <3>3. less \in [DOMAIN options -> OptionRow]
        BY <3>1, <3>2, AddWeightEffect DEF TakeOffOldWeight
      <3> HIDE DEF less
      <3>4. AddWeight(less, r.option, VoteWeight(r)) \in [DOMAIN options -> OptionRow]
        BY <3>1, <3>3, AddWeightEffect
      <3> QED
        BY <1>5, <3>4 DEF VoteBooked, Replaced, less
    <2>3. DOMAIN options' = DOMAIN options
      BY <2>2
    <2>4. /\ votes' \in [Members -> VoteRow]
          /\ \A v \in Members : votes'[v].option <= lastOptionId
      <3>1. Cast(r) \in VoteRow /\ Cast(r).option <= lastOptionId
        BY <1>1, <1>3 DEF Cast, VoteRow, VoteWeight
      <3>2. /\ votes \in [Members -> VoteRow]
            /\ \A v \in Members : votes[v].option <= lastOptionId
        BY DEF RoundInv, TablesHold
      <3>3. votes' = votes \/ votes' = [votes EXCEPT ![m] = Cast(r)]
        BY <1>5 DEF VoteBooked
      <3> HIDE DEF Cast
      <3> QED
        BY <1>2, <3>1, <3>2, <3>3
    <2>5. proposal' = proposal /\ lastOptionId' = lastOptionId /\ now' = now
      BY <1>1, <1>5 DEF VoteBooked
    <2>6. proposal.phase # "none"
      <3>1. pc[c] = "voteWrite"
        BY DEF VoteWrite, At
      <3> QED
        BY <3>1 DEF RoundInv, Handled, WinnerHandles
    <2>7. TablesHold'
      BY <2>1, <2>2, <2>3, <2>4, <2>5, <2>6
         DEF RoundInv, TablesHold, OptionRows, WinnerAfterVote, Live
    <2>8. TablesGrow
      BY <1>2, <2>3, <2>5 DEF TablesGrow, Live
    <2>9. OnlyMoves(c) /\ Handled(c)'
      BY <1>5, <2>7, GetAndAnswerEffect, NothingHandled DEF RoundInv, VoteBooked
    <2> QED
      BY <2>7, <2>8, <2>9 DEF StepKeeps
  <1> QED
    BY <1>4, <1>5, VoteWriteCases

(***************************************************************************)
(* A deletion pays what it added up and removes every row.                 *)
(***************************************************************************)
LEMMA DeleteWriteKeeps ==
  ASSUME RoundInv, NEW c \in Clients, DeleteWrite(c)
  PROVE  StepKeeps(c)
  <1> DEFINE m == Caller(c)
             n == read[c].refund
             tokens == account[m].tokens + n
  <1>1. /\ n \in Nat /\ UNCHANGED <<now, lastOptionId>> /\ Answer(c)
        /\ account' = [account EXCEPT ![m].tokens = tokens]
        /\ proposal' = [phase |-> "deleted"] /\ options' = << >>
        /\ votes' = [v \in Members |-> NoVote]
    BY DEF DeleteWrite, At, RoundInv, Handled, Handles
  <1>2. now \in Nat /\ lastOptionId \in Nat /\ m \in Members
    BY RoundTypes
  <1>3. account' \in [Members -> Account]
    <2>1. account \in [Members -> Account] /\ account[m] \in Account
      BY <1>2 DEF RoundInv, TablesHold
    <2>2. tokens \in Nat
      BY <1>1, <2>1 DEF Account
    <2> HIDE DEF tokens
    <2> QED
      BY <1>1, <1>2, <2>1, <2>2 DEF Account
  <1>4. proposal' \in NoProposal /\ proposal'.phase = "deleted"
    BY <1>1 DEF NoProposal
  <1>5. DOMAIN options' = {} /\ options' \in [DOMAIN options' -> OptionRow]
    BY <1>1
  <1>6. /\ votes' \in [Members -> VoteRow]
        /\ \A v \in Members : votes'[v].option <= lastOptionId
    BY <1>1, <1>2 DEF NoVote, VoteRow
  <1>7. TablesHold'
    BY <1>1, <1>2, <1>3, <1>4, <1>5, <1>6
       DEF RoundInv, TablesHold, OptionRows, WinnerAfterVote, Live
  <1>8. TablesGrow
    BY <1>1, <1>2, <1>4 DEF TablesGrow, Live
  <1> QED
    BY <1>1, <1>7, <1>8, AnswerEffect, NothingHandled DEF StepKeeps, RoundInv

-----------------------------------------------------------------------------
(***************************************************************************)
(* Every step of every client keeps the invariant.                         *)
(***************************************************************************)
LEMMA ClientKeeps ==
  ASSUME RoundInv, NEW c \in Clients, Arrive(c) \/ Dispatch(c) \/ Serve(c) \/ Abort(c)
  PROVE  StepKeeps(c)
  <1>1. CASE Arrive(c)
    BY <1>1, ReceiveKeeps, ReceiveCreateKeeps, ReceiveAdvanceKeeps DEF Arrive
  <1>2. CASE Dispatch(c)
    BY <1>2, DispatchKeeps
  <1>3. CASE Serve(c)
    BY <1>3, CreateKeeps, LinkKeeps, RefreshReadKeeps, SetWinnerKeeps,
       LoadForSettlementKeeps, SettleKeeps, InsertKeeps, VoteReadKeeps, VoteWriteKeeps,
       DeleteReadKeeps, DeleteWriteKeeps, ApplyRewardsKeeps, AdvanceKeeps DEF Serve
  <1>4. CASE Abort(c)
    BY <1>4, FailKeeps DEF Abort
  <1> QED
    BY <1>1, <1>2, <1>3, <1>4

\* What a member starts with is an account.
LEMMA StartIsAccount == StartAccount \in Account
  <1>1. \A kind \in {"create", "proposal", "vote"} : StartTickets[kind] \in Nat
    BY RoundAssumption
  <1> QED
    BY <1>1, RoundAssumption DEF StartAccount, Account

\* The invariant holds at the start.
LEMMA RoundInit == Init => RoundInv
  <1> SUFFICES ASSUME Init
               PROVE  RoundInv
    OBVIOUS
  <1>1. TablesHold
    <2>1. now \in 0 .. MaxTime
      BY RoundAssumption DEF Init
    <2>2. account \in [Members -> Account]
      BY StartIsAccount DEF Init
    <2>3. OptionRows
      BY DEF Init, OptionRows
    <2>4. votes \in [Members -> VoteRow] /\ \A m \in Members : votes[m].option <= lastOptionId
      BY DEF Init, NoVote, VoteRow
    <2>5. proposal \in NoProposal /\ options = << >> /\ ~Live
      BY DEF Init, NoProposal, Live
    <2> QED
      BY <2>1, <2>2, <2>3, <2>4, <2>5 DEF TablesHold, WinnerAfterVote
  <1>2. ClientTables
    BY DEF Init, ClientTables, Steps
  <1>3. ASSUME NEW c \in Clients
        PROVE  Handled(c)
    <2>1. /\ pc[c] = "idle" /\ request[c] = NoRequest /\ read[c] = NothingRead
          /\ now = 0 /\ lastOptionId = 0
      BY <1>3 DEF Init
    <2> QED
      BY <2>1 DEF Handled, Handles, WinnerHandles, NoRequest, NothingRead, NoVote, Requests,
                  Steps, VoteRow, Live
  <1> QED
    BY <1>1, <1>2, <1>3 DEF RoundInv

\* The invariant is inductive.
LEMMA RoundStep == RoundInv /\ [Next]_vars => RoundInv'
  <1> SUFFICES ASSUME RoundInv, [Next]_vars
               PROVE  RoundInv'
    OBVIOUS
  <1>1. CASE Tick
    BY <1>1, RoundTick
  <1>2. ASSUME NEW c \in Clients, Arrive(c) \/ Dispatch(c) \/ Serve(c) \/ Abort(c)
        PROVE  RoundInv'
    BY <1>2, ClientKeeps, InvStep DEF StepKeeps
  <1>3. CASE UNCHANGED vars
    <2>1. TablesHold'
      BY <1>3, TablesSame DEF vars
    <2>2. \A c \in Clients : Handled(c)'
      <3> SUFFICES ASSUME NEW c \in Clients
                   PROVE  Handled(c)'
        OBVIOUS
      <3>1. PICK step, r, seen : step = pc[c] /\ r = request[c] /\ seen = read[c]
        OBVIOUS
      <3>2. Handles(step, r, seen) /\ WinnerHandles(step, seen)
        BY <3>1 DEF RoundInv, Handled
      <3>3. Handles(step, r, seen)' /\ WinnerHandles(step, seen)'
        BY <1>3, <3>2 DEF Handles, WinnerHandles, Live, vars, tables
      <3> QED
        BY <1>3, <3>1, <3>3 DEF Handled, vars
    <2>3. ClientTables'
      BY <1>3 DEF RoundInv, ClientTables, vars
    <2> QED
      BY <2>1, <2>2, <2>3 DEF RoundInv
  <1> QED
    BY <1>1, <1>2, <1>3 DEF Next

\* The invariant holds in every reachable state.
LEMMA RoundInvariant == Spec => []RoundInv
  BY RoundInit, RoundStep, PTL DEF Spec

(***************************************************************************)
(* The ledger is well typed: no handler ever charges a member more than    *)
(* she has, whatever was committed between its check and its update.       *)
(***************************************************************************)
THEOREM RoundTypeCorrect == Spec => []TypeOK
  <1>1. RoundInv => TypeOK
    <2> SUFFICES ASSUME RoundInv
                 PROVE  TypeOK
      OBVIOUS
    <2>1. \A i \in DOMAIN options : options[i] \in OptionRow
      BY DEF RoundInv, TablesHold, OptionRows
    <2>2. \A c \in Clients :
            /\ request[c] \in Requests
            /\ {read[c].winner, read[c].refund, read[c].at} \subseteq Nat
            /\ \A i \in DOMAIN read[c].proposers : read[c].proposers[i] \in Members
            /\ read[c].voters \subseteq Members /\ read[c].vote \in VoteRow
      BY DEF RoundInv, Handled, Handles
    <2> QED
      BY <2>1, <2>2 DEF TypeOK, RoundInv, TablesHold, OptionRows, ClientTables
  <1> QED
    BY <1>1, RoundInvariant, PTL

(***************************************************************************)
(* A winner is an option of the round and is chosen only after the vote,   *)
(* though the refresh and the admin's stage both read the leading option   *)
(* in one transaction and write it in a later one.                         *)
(***************************************************************************)
THEOREM WinnerComesAfterVote == Spec => []WinnerAfterVote
  <1>1. RoundInv => WinnerAfterVote
    BY DEF RoundInv, TablesHold
  <1> QED
    BY <1>1, RoundInvariant, PTL

-----------------------------------------------------------------------------
(* Value.  What the members have, what the round was paid and what its     *)
(* tally counts add up, for any clients and any costs: no step needs that  *)
(* a member has one request in flight.                                     *)

WalletsOf(acc) == [m \in Members |-> Wallet(acc[m])]

StakesOf(rows) == [i \in DOMAIN rows |-> PaidToNominate(rows[i])]

For(rows) == [i \in DOMAIN rows |-> Above(rows[i].weightedVotes)]

Against(rows) == [i \in DOMAIN rows |-> Above(-rows[i].weightedVotes)]

TallyOf(rows) == Sum(For(rows)) - Sum(Against(rows))

Conserving == proposal.phase = "none" \/ (Live /\ ~proposal.rewardsApplied)

(***************************************************************************)
(* ValueConserved, by its parts.                                           *)
(***************************************************************************)
LEMMA ValueParts ==
  /\ ValueConserved <=>
       (Conserving => Sum(WalletsOf(account)) + PaidToOpen + Sum(StakesOf(options))
                        + TallyOf(options)
                      = Sum([m \in Members |-> Wallet(StartAccount)]))
  /\ Tallied = TallyOf(options)
  BY Zenon DEF ValueConserved, Conserving, WalletsOf, StakesOf, Tallied, TallyOf, For, Against

\* The same of the next state.
LEMMA ValuePartsNext ==
  ValueConserved' <=>
    (Conserving' => Sum(WalletsOf(account')) + PaidToOpen' + Sum(StakesOf(options'))
                      + TallyOf(options')
                    = Sum([m \in Members |-> Wallet(StartAccount)]))
  BY Zenon DEF ValueConserved, Conserving, WalletsOf, StakesOf, Tallied, TallyOf, For, Against,
               StartAccount

(***************************************************************************)
(* Functions that agree but for one key differ in their sums as there.     *)
(***************************************************************************)
LEMMA SumChange ==
  ASSUME NEW S, IsFiniteSet(S), NEW f \in [S -> Nat], NEW g \in [S -> Nat], NEW x \in S,
         \A y \in S \ {x} : g[y] = f[y]
  PROVE  Sum(g) = Sum(f) - f[x] + g[x]
  <1>1. PICK v \in Nat : v = g[x]
    OBVIOUS
  <1>2. g = [f EXCEPT ![x] = v]
    BY <1>1
  <1>3. Sum([f EXCEPT ![x] = v]) = Sum(f) - f[x] + v
    BY SumUpdate, Zenon
  <1> QED
    BY <1>1, <1>2, <1>3

(***************************************************************************)
(* Functions that agree but for a new key: the sum grows by its value.     *)
(***************************************************************************)
LEMMA SumExtend ==
  ASSUME NEW S, IsFiniteSet(S), NEW x, x \notin S, NEW f \in [S -> Nat],
         NEW g \in [S \cup {x} -> Nat], \A y \in S : g[y] = f[y]
  PROVE  Sum(g) = Sum(f) + g[x]
  <1>0. PICK T : T = S \cup {x}
    OBVIOUS
  <1> DEFINE h == [y \in T |-> IF y \in S THEN f[y] ELSE 0]
  <1>1. IsFiniteSet(T)
    BY <1>0, FS_AddElement
  <1>2. h \in [T -> Nat] /\ h[x] = 0 /\ \A y \in S : h[y] = f[y]
    BY <1>0
  <1>3. Units(h) = Units(f)
    <2>1. \A u : u \in Units(h) <=> \E y \in T : \E i \in 1 .. h[y] : u = <<y, i>>
      <3> DOMAIN h = T
        OBVIOUS
      <3> HIDE DEF h
      <3> QED
        BY UnitsElement
    <2>2. \A u : u \in Units(f) <=> \E y \in S : \E i \in 1 .. f[y] : u = <<y, i>>
      BY UnitsElement
    <2>3. 1 .. h[x] = {}
      BY <1>2
    <2> HIDE DEF h
    <2>4. \A u : u \in Units(h) <=> u \in Units(f)
      BY <1>0, <1>2, <2>1, <2>2, <2>3
    <2> QED
      BY <2>4
  <1>4. g \in [T -> Nat] /\ \A y \in T \ {x} : g[y] = h[y]
    BY <1>0, <1>2
  <1>5. Sum(f) \in Nat /\ Sum(f) = Sum(h)
    <2> HIDE DEF h
    <2>1. Sum(f) = Sum(h)
      BY <1>3 DEF Sum
    <2> QED
      BY <2>1, SumType
  <1>6. x \in T
    BY <1>0
  <1> HIDE DEF h
  <1>7. Sum(g) = Sum(h) - h[x] + g[x]
    BY <1>1, <1>2, <1>4, <1>6, SumChange
  <1>8. g[x] \in Nat
    BY <1>4, <1>6
  <1> QED
    BY <1>2, <1>5, <1>7, <1>8

(***************************************************************************)
(* Wallets hold natural numbers, and one account's change is the total's.  *)
(***************************************************************************)
LEMMA WalletsUpdate ==
  ASSUME NEW acc \in [Members -> Account], NEW m \in Members, NEW b \in Account
  PROVE  /\ Sum(WalletsOf(acc)) \in Nat /\ Wallet(acc[m]) \in Nat /\ Wallet(b) \in Nat
         /\ Sum(WalletsOf([acc EXCEPT ![m] = b]))
              = Sum(WalletsOf(acc)) - Wallet(acc[m]) + Wallet(b)
  <1>1. \A a \in Account : Wallet(a) \in Nat
    BY DEF Account, Wallet
  <1>2. WalletsOf(acc) \in [Members -> Nat] /\ IsFiniteSet(Members)
    BY <1>1, RoundAssumption DEF WalletsOf
  <1>3. WalletsOf([acc EXCEPT ![m] = b]) = [WalletsOf(acc) EXCEPT ![m] = Wallet(b)]
    BY DEF WalletsOf
  <1>4. PICK f \in [Members -> Nat], v \in Nat : f = WalletsOf(acc) /\ v = Wallet(b)
    BY <1>1, <1>2
  <1>5. f[m] = Wallet(acc[m])
    BY <1>4 DEF WalletsOf
  <1>6. Sum([f EXCEPT ![m] = v]) = Sum(f) - f[m] + v
    BY <1>2, SumUpdate, Zenon
  <1>7. Sum(f) \in Nat
    BY <1>2, SumType
  <1> QED
    BY <1>1, <1>3, <1>4, <1>5, <1>6, <1>7

(***************************************************************************)
(* The rows' sums are numbers.                                             *)
(***************************************************************************)
LEMMA RowSums ==
  ASSUME NEW D, IsFiniteSet(D), NEW rows \in [D -> OptionRow]
  PROVE  /\ For(rows) \in [D -> Nat] /\ Against(rows) \in [D -> Nat]
         /\ StakesOf(rows) \in [D -> Nat]
         /\ Sum(For(rows)) \in Nat /\ Sum(Against(rows)) \in Nat
         /\ Sum(StakesOf(rows)) \in Nat /\ TallyOf(rows) \in Int
  <1>1. \A n \in Int : Above(n) \in Nat /\ Above(-n) \in Nat
    BY DEF Above
  <1>2. \A i \in D : /\ rows[i].weightedVotes \in Int /\ rows[i].tokenStake \in Nat
    BY DEF OptionRow
  <1>3. /\ For(rows) \in [D -> Nat] /\ Against(rows) \in [D -> Nat]
        /\ StakesOf(rows) \in [D -> Nat]
    BY <1>1, <1>2 DEF For, Against, StakesOf, PaidToNominate
  <1> QED
    BY <1>3, SumType DEF TallyOf

(***************************************************************************)
(* Weight added to an option that is there is added to the tally; the      *)
(* stakes stay.                                                            *)
(***************************************************************************)
LEMMA TallyAdd ==
  ASSUME NEW D, IsFiniteSet(D), NEW rows \in [D -> OptionRow], NEW i, NEW w \in Int
  PROVE  /\ AddWeight(rows, i, w) \in [D -> OptionRow]
         /\ TallyOf(AddWeight(rows, i, w)) = TallyOf(rows) + (IF i \in D THEN w ELSE 0)
         /\ StakesOf(AddWeight(rows, i, w)) = StakesOf(rows)
  <1> DEFINE more == AddWeight(rows, i, w)
  <1>1. /\ more \in [D -> OptionRow]
        /\ \A j \in D : /\ more[j].weightedVotes
                             = rows[j].weightedVotes + (IF j = i THEN w ELSE 0)
                        /\ more[j].usedTicket = rows[j].usedTicket
                        /\ more[j].tokenStake = rows[j].tokenStake
    BY AddWeightEffect
  <1>2. \A j \in D : rows[j].weightedVotes \in Int
    BY DEF OptionRow
  <1>3. StakesOf(more) = StakesOf(rows)
    <2> HIDE DEF more
    <2> QED
      BY <1>1 DEF StakesOf, PaidToNominate
  <1>4. CASE i \notin D
    BY <1>3, <1>4, RowSums DEF AddWeight
  <1>5. CASE i \in D
    <2> DEFINE n == rows[i].weightedVotes
    <2>1. n \in Int /\ n + w \in Int
      BY <1>2, <1>5
    <2>2. /\ Above(n) \in Nat /\ Above(-n) \in Nat
          /\ Above(n + w) \in Nat /\ Above(-(n + w)) \in Nat
          /\ Above(n + w) - Above(-(n + w)) = Above(n) - Above(-n) + w
      BY <2>1 DEF Above
    <2>3. PICK f \in [D -> Nat], g \in [D -> Nat] : f = For(rows) /\ g = Against(rows)
      BY RowSums
    <2>4. Sum(f) \in Nat /\ Sum(g) \in Nat
      BY RowSums, <2>3
    <2>5. PICK up \in Nat, down \in Nat : up = Above(n + w) /\ down = Above(-(n + w))
      BY <2>2
    <2>6. f[i] = Above(n) /\ g[i] = Above(-n)
      BY <1>5, <2>3 DEF For, Against
    <2> HIDE DEF n, more
    <2>7. more[i].weightedVotes = n + w
          /\ \A j \in D \ {i} : more[j].weightedVotes = rows[j].weightedVotes
      BY <1>1, <1>2, <1>5 DEF n
    <2>8. For(more) = [f EXCEPT ![i] = up]
      BY <1>1, <1>5, <2>3, <2>5, <2>7 DEF For
    <2>9. Against(more) = [g EXCEPT ![i] = down]
      BY <1>1, <1>5, <2>3, <2>5, <2>7 DEF Against
    <2>10. Sum([f EXCEPT ![i] = up]) = Sum(f) - f[i] + up
      BY <1>5, SumUpdate, Zenon
    <2>11. Sum([g EXCEPT ![i] = down]) = Sum(g) - g[i] + down
      BY <1>5, SumUpdate, Zenon
    <2>12. TallyOf(rows) = Sum(f) - Sum(g)
      BY <2>3 DEF TallyOf
    <2>13. TallyOf(more) = Sum([f EXCEPT ![i] = up]) - Sum([g EXCEPT ![i] = down])
      BY <2>8, <2>9, Zenon DEF TallyOf
    <2>14. /\ f[i] \in Nat /\ g[i] \in Nat /\ up - down = f[i] - g[i] + w
      BY <1>5, <2>2, <2>5, <2>6
    <2>15. TallyOf(more) = TallyOf(rows) + w
      <3>1. PICK a \in Nat, b \in Nat, p \in Nat, q \in Nat :
              a = Sum(f) /\ b = Sum(g) /\ p = f[i] /\ q = g[i]
        BY <2>4, <2>14
      <3>2. TallyOf(more) = (a - p + up) - (b - q + down) /\ TallyOf(rows) = a - b
        BY <2>10, <2>11, <2>12, <2>13, <3>1, Zenon
      <3>3. up - down = p - q + w
        BY <2>14, <3>1
      <3> QED
        BY <3>2, <3>3
    <2> QED
      BY <1>1, <1>3, <1>5, <2>15 DEF more
  <1> QED
    BY <1>1, <1>3, <1>4, <1>5

-----------------------------------------------------------------------------
(* Until the round is deleted, a vote is for an option that is there; no   *)
(* vote weighs nothing, a ticket weighs 1.                                 *)
StandingVote(v) ==
  /\ v.option \in DOMAIN options \cup {0}
  /\ v.option = 0 => v.weight = 0
  /\ v.ticket => v.weight = 1

(* The vote a handler is about to write, and the one it is to replace.     *)
BallotHandles(step, r, seen) ==
  Live =>
    /\ step \in {"voteRead", "voteWrite"} => r.option \in DOMAIN options
    /\ step = "voteWrite" => StandingVote(seen.vote)

BallotHandled(c) == BallotHandles(pc[c], request[c], read[c])

VotesStand == proposal.phase # "deleted" => \A m \in Members : StandingVote(votes[m])

ValueInv ==
  /\ RoundInv /\ ValueConserved /\ VotesStand
  /\ \A c \in Clients : BallotHandled(c)

(* The same round, its rewards not taken back.                             *)
SameRound ==
  /\ proposal'.phase = proposal.phase
  /\ Live => /\ proposal'.paidWith = proposal.paidWith
             /\ proposal.rewardsApplied => proposal'.rewardsApplied

Balloting == {"voteRead", "voteWrite"}

ValueQuiet(c) ==
  UNCHANGED <<account, options, votes>> /\ SameRound /\ pc'[c] \notin Balloting

(* A step of client c conserves value and keeps the votes standing.        *)
StepConserves(c) == ValueConserved' /\ VotesStand' /\ BallotHandled(c)'

(***************************************************************************)
(* What the other clients hold of their votes stays good.                  *)
(***************************************************************************)
LEMMA ValueStep ==
  ASSUME ValueInv, RoundInv', TablesGrow, NEW c \in Clients, OnlyMoves(c), StepConserves(c)
  PROVE  ValueInv'
  <1>1. ASSUME NEW d \in Clients \ {c}
        PROVE  BallotHandled(d)'
    <2>1. PICK step, r, seen : step = pc[d] /\ r = request[d] /\ seen = read[d]
      OBVIOUS
    <2>2. pc'[d] = step /\ request'[d] = r /\ read'[d] = seen
      BY <2>1 DEF OnlyMoves
    <2>3. BallotHandles(step, r, seen) /\ WinnerHandles(step, seen)
      BY <2>1 DEF ValueInv, BallotHandled, RoundInv, Handled
    <2>4. BallotHandles(step, r, seen)'
      <3>1. CASE ~Live'
        BY <3>1 DEF BallotHandles
      <3>2. CASE proposal.phase = "none"
        BY <2>3, <3>2 DEF WinnerHandles, BallotHandles
      <3>3. CASE Live /\ DOMAIN options \subseteq DOMAIN options'
        BY <2>3, <3>3 DEF BallotHandles, StandingVote
      <3> QED
        BY <3>1, <3>2, <3>3 DEF TablesGrow
    <2> QED
      BY <2>2, <2>4 DEF BallotHandled
  <1> QED
    BY <1>1 DEF ValueInv, StepConserves

(***************************************************************************)
(* A step that moves nothing of value.                                     *)
(***************************************************************************)
LEMMA StillConserves ==
  ASSUME ValueInv, UNCHANGED <<account, options, votes>>, SameRound
  PROVE  ValueConserved' /\ VotesStand'
  <1>1. /\ proposal'.phase = proposal.phase /\ Live' = Live
        /\ Conserving' => Conserving /\ PaidToOpen' = PaidToOpen
    BY DEF SameRound, Conserving, Live, PaidToOpen
  <1>2. ValueConserved'
    <2>1. /\ WalletsOf(account') = WalletsOf(account)
          /\ StakesOf(options') = StakesOf(options) /\ TallyOf(options') = TallyOf(options)
      OBVIOUS
    <2>2. SUFFICES ASSUME Conserving'
                   PROVE  Sum(WalletsOf(account')) + PaidToOpen' + Sum(StakesOf(options'))
                            + TallyOf(options') = Sum([m \in Members |-> Wallet(StartAccount)])
      BY ValuePartsNext
    <2>3. Conserving /\ PaidToOpen' = PaidToOpen
      BY <1>1, <2>2
    <2> QED
      BY <2>1, <2>3, ValueParts, Zenon DEF ValueInv
  <1>3. VotesStand'
    BY <1>1 DEF ValueInv, VotesStand, StandingVote
  <1> QED
    BY <1>2, <1>3

(***************************************************************************)
(* The same, of a client that holds no vote after it.                      *)
(***************************************************************************)
LEMMA QuietConserves ==
  ASSUME ValueInv, NEW c \in Clients, ValueQuiet(c)
  PROVE  StepConserves(c)
  <1>1. ValueConserved' /\ VotesStand'
    BY StillConserves DEF ValueQuiet
  <1>2. BallotHandled(c)'
    BY DEF ValueQuiet, BallotHandled, BallotHandles, Balloting
  <1> QED
    BY <1>1, <1>2 DEF StepConserves

(***************************************************************************)
(* The steps of a client that move value, or prepare a vote.               *)
(***************************************************************************)
LEMMA ValueCases ==
  ASSUME RoundInv, NEW c \in Clients, Arrive(c) \/ Dispatch(c) \/ Serve(c) \/ Abort(c)
  PROVE  \/ ValueQuiet(c)
         \/ \E option \in DOMAIN options :
              \E amount \in VoteAmounts \cup {1}, ticket \in BOOLEAN :
                Vote(c, option, amount, ticket)
         \/ VoteRead(c) \/ SettleLocally(c) \/ ApplySettlementRewards(c)
         \/ CreateProposal(c) \/ InsertProposalOption(c) \/ VoteWrite(c) \/ DeleteWrite(c)
  <1>1. pc \in [Clients -> Steps]
    BY DEF RoundInv, ClientTables
  <1>2. ASSUME NEW step, NEW r, NEW seen, Begin(c, r, step, seen), step \notin Balloting
        PROVE  ValueQuiet(c)
    BY <1>1, <1>2 DEF Begin, tables, ValueQuiet, SameRound, Balloting
  <1>3. ASSUME NEW step, NEW seen, Goto(c, step, seen), SameRound,
               UNCHANGED <<account, options, votes>>, step \notin Balloting
        PROVE  ValueQuiet(c)
    BY <1>1, <1>3 DEF Goto, ValueQuiet, Balloting
  <1>4. ASSUME UNCHANGED <<account, options, votes>>, SameRound, Answer(c) \/ GetAndAnswer(c)
        PROVE  ValueQuiet(c)
    BY <1>1, <1>4 DEF Answer, GetAndAnswer, ValueQuiet, Balloting
  <1>5. UNCHANGED tables => SameRound /\ UNCHANGED <<account, options, votes>>
    BY DEF tables, SameRound
  <1>6. ASSUME Fail(c)
        PROVE  ValueQuiet(c)
    BY <1>4, <1>5, <1>6 DEF Fail
  <1>7. CASE Arrive(c)
    BY <1>2, <1>7 DEF Arrive, Receive, ReceiveCreate, ReceiveAdvance, Balloting
  <1>8. ASSUME AnswerLoaded(c) \/ Delete(c) \/ FinalizeSettlement(c)
               \/ \E merchant \in Merchants, ticket \in BOOLEAN : AddOption(c, merchant, ticket)
        PROVE  ValueQuiet(c)
    <2>1. "insertOption" \notin Balloting /\ "deleteRead" \notin Balloting
          /\ "applyRewards" \notin Balloting
      BY DEF Balloting
    <2>2. CASE AnswerLoaded(c)
      BY <1>6, <2>2 DEF AnswerLoaded
    <2>3. CASE Delete(c)
      BY <1>2, <2>1, <2>3 DEF Delete
    <2>4. CASE FinalizeSettlement(c)
      BY <1>2, <2>1, <2>4, Zenon DEF FinalizeSettlement
    <2>5. ASSUME NEW merchant \in Merchants, NEW ticket \in BOOLEAN, AddOption(c, merchant, ticket)
          PROVE  ValueQuiet(c)
      BY <1>2, <2>1, <2>5, Zenon DEF AddOption
    <2> QED
      BY <1>8, <2>2, <2>3, <2>4, <2>5
  <1>9. ASSUME SetProposalGroupID(c)
        PROVE  ValueQuiet(c)
    <2>1. proposal' = [proposal EXCEPT !.grouped = TRUE]
      BY <1>9 DEF SetProposalGroupID
    <2>2. SameRound
      BY <2>1, RoundTypes DEF SameRound, Proposal, NoProposal
    <2> QED
      BY <1>4, <1>9, <2>2 DEF SetProposalGroupID
  <1>10. ASSUME RefreshRead(c) \/ LoadForSettlement(c) \/ DeleteRead(c)
         PROVE  ValueQuiet(c)
    <2>1. UNCHANGED <<account, options, votes>> /\ SameRound
      BY <1>5, <1>10 DEF RefreshRead, LoadForSettlement, DeleteRead
    <2>2. \/ Answer(c)
          \/ \E seen : \E step \in {"setWinner", "settleLoad", "load", "settle", "deleteWrite"} :
               Goto(c, step, seen)
      BY <1>10, Zenon DEF RefreshRead, LoadForSettlement, DeleteRead, AfterRefresh
    <2> QED
      BY <1>3, <1>4, <2>1, <2>2 DEF Balloting
  <1>11. ASSUME RefreshSetWinner(c)
         PROVE  ValueQuiet(c)
    <2>1. proposal' = IF Live THEN [proposal EXCEPT !.winner = read[c].winner] ELSE proposal
      BY <1>11 DEF RefreshSetWinner
    <2>2. SameRound
      BY <2>1, RoundTypes DEF SameRound, Proposal
    <2> QED
      BY <1>3, <1>11, <2>2 DEF RefreshSetWinner, AfterRefresh, Balloting
  <1>12. ASSUME AdvanceProposalStage(c)
         PROVE  ValueQuiet(c)
    <2>1. request[c].stage \in {"voting", "ordering", "settled"}
      BY <1>12, RequestShape DEF AdvanceProposalStage, At, RoundInv, Handled, Handles
    <2>2. SameRound
      BY <1>12, <2>1, RoundTypes DEF AdvanceProposalStage, SameRound, Proposal
    <2> QED
      BY <1>4, <1>12, <2>2 DEF AdvanceProposalStage
  <1>13. CASE Serve(c)
    BY <1>9, <1>10, <1>11, <1>12, <1>13 DEF Serve
  <1>14. CASE Abort(c)
    BY <1>6, <1>14 DEF Abort
  <1> QED
    BY <1>7, <1>8, <1>13, <1>14, Zenon DEF Dispatch

(***************************************************************************)
(* Types of what is added up.                                              *)
(***************************************************************************)
LEMMA ValueTypes ==
  ASSUME RoundInv
  PROVE  /\ IsFiniteSet(DOMAIN options) /\ 0 \notin DOMAIN options
         /\ options \in [DOMAIN options -> OptionRow]
         /\ account \in [Members -> Account] /\ votes \in [Members -> VoteRow]
         /\ Sum(StakesOf(options)) \in Nat /\ TallyOf(options) \in Int
         /\ PaidToOpen \in Nat
  <1>1. /\ options \in [DOMAIN options -> OptionRow] /\ lastOptionId \in Nat
        /\ DOMAIN options \subseteq 1 .. lastOptionId
        /\ account \in [Members -> Account] /\ votes \in [Members -> VoteRow]
    BY DEF RoundInv, TablesHold, OptionRows
  <1>2. IsFiniteSet(DOMAIN options) /\ 0 \notin DOMAIN options
    BY <1>1, FS_Interval, FS_Subset
  <1>3. PaidToOpen \in Nat
    BY RoundAssumption DEF PaidToOpen
  <1> QED
    BY <1>1, <1>2, <1>3, RowSums

(***************************************************************************)
(* A member begins to vote: the option she chose is there.                 *)
(***************************************************************************)
LEMMA VoteConserves ==
  ASSUME ValueInv, NEW c \in Clients, NEW option \in DOMAIN options, NEW amount,
         NEW ticket \in BOOLEAN, Vote(c, option, amount, ticket)
  PROVE  StepConserves(c)
  <1> DEFINE r == [kind |-> "vote", option |-> option, amount |-> amount, ticket |-> ticket]
  <1>1. /\ Begin(c, r, "voteRead", NothingRead)
        /\ DOMAIN request = Clients /\ DOMAIN pc = Clients
    BY DEF Vote, ValueInv, RoundInv, ClientTables
  <1>2. r.option = option
    OBVIOUS
  <1> HIDE DEF r
  <1>3. pc'[c] = "voteRead" /\ request'[c] = r
    BY <1>1 DEF Begin
  <1>4. UNCHANGED <<account, options, votes>> /\ SameRound
    BY <1>1 DEF Begin, tables, SameRound
  <1>5. BallotHandled(c)'
    BY <1>2, <1>3, <1>4 DEF BallotHandled, BallotHandles
  <1> QED
    BY <1>4, <1>5, StillConserves DEF StepConserves

(***************************************************************************)
(* RecordVote reads a vote that stands.                                    *)
(***************************************************************************)
LEMMA VoteReadConserves ==
  ASSUME ValueInv, NEW c \in Clients, VoteRead(c)
  PROVE  StepConserves(c)
  <1>1. PICK m \in Members : m = Caller(c)
    BY RoundTypes DEF ValueInv
  <1> DEFINE seen == [NothingRead EXCEPT !.vote = votes[m]]
  <1>2. /\ Goto(c, "voteWrite", seen) /\ UNCHANGED tables /\ pc[c] = "voteRead"
        /\ DOMAIN read = Clients /\ DOMAIN pc = Clients
    BY <1>1 DEF VoteRead, At, ValueInv, RoundInv, ClientTables
  <1>3. seen.vote = votes[m]
    BY DEF NothingRead
  <1> HIDE DEF seen
  <1>4. pc'[c] = "voteWrite" /\ request'[c] = request[c] /\ read'[c] = seen
    BY <1>2 DEF Goto
  <1>5. UNCHANGED <<account, options, votes>> /\ SameRound /\ Live' = Live
    BY <1>2 DEF tables, SameRound, Live
  <1>6. Live => request[c].option \in DOMAIN options /\ StandingVote(votes[m])
    BY <1>2 DEF ValueInv, VotesStand, BallotHandled, BallotHandles, Live
  <1>7. BallotHandled(c)'
    BY <1>3, <1>4, <1>5, <1>6 DEF BallotHandled, BallotHandles, StandingVote
  <1> QED
    BY <1>5, <1>7, StillConserves DEF StepConserves

(***************************************************************************)
(* Rewards end the account.                                                *)
(***************************************************************************)
LEMMA RewardConserves ==
  ASSUME ValueInv, NEW c \in Clients, SettleLocally(c) \/ ApplySettlementRewards(c)
  PROVE  StepConserves(c)
  <1>1. /\ UNCHANGED <<options, votes>>
        /\ proposal' = IF Live THEN [proposal EXCEPT !.rewardsApplied = TRUE] ELSE proposal
        /\ pc[c] \in {"settle", "applyRewards"}
        /\ Goto(c, "load", NothingRead) \/ GetAndAnswer(c)
        /\ DOMAIN pc = Clients
    BY DEF SettleLocally, ApplySettlementRewards, Reward, At, ValueInv, RoundInv, ClientTables
  <1>2. pc'[c] \notin Balloting
    BY <1>1 DEF Goto, GetAndAnswer, Balloting
  <1>3. proposal.phase # "none"
    BY <1>1 DEF ValueInv, RoundInv, Handled, WinnerHandles
  <1>4. ~Conserving' /\ proposal'.phase = proposal.phase
    <2>1. CASE Live
      <3>1. proposal'.phase = "live" /\ proposal'.rewardsApplied = TRUE
        BY <1>1, <2>1, RoundTypes DEF ValueInv, Proposal
      <3> QED
        BY <2>1, <3>1 DEF Conserving, Live
    <2>2. CASE ~Live
      BY <1>1, <1>3, <2>2 DEF Conserving, Live
    <2> QED
      BY <2>1, <2>2
  <1>5. ValueConserved' /\ VotesStand'
    BY <1>1, <1>4, ValuePartsNext DEF ValueInv, VotesStand, StandingVote
  <1>6. BallotHandled(c)'
    BY <1>2 DEF BallotHandled, BallotHandles, Balloting
  <1> QED
    BY <1>5, <1>6 DEF StepConserves

(***************************************************************************)
(* A deletion ends the round.                                              *)
(***************************************************************************)
LEMMA DeleteConserves ==
  ASSUME ValueInv, NEW c \in Clients, DeleteWrite(c)
  PROVE  StepConserves(c)
  <1>1. ~Live' /\ ~Conserving' /\ proposal'.phase = "deleted"
    BY DEF DeleteWrite, Live, Conserving
  <1> QED
    BY <1>1, ValuePartsNext DEF StepConserves, VotesStand, BallotHandled, BallotHandles

(***************************************************************************)
(* Opening the round: what is charged is what was paid to open it.         *)
(***************************************************************************)
LEMMA CreateConserves ==
  ASSUME ValueInv, NEW c \in Clients, CreateProposal(c)
  PROVE  StepConserves(c)
  <1> DEFINE wanted == request[c].paidWith
             useTicket == wanted = "ticket" /\ Own(c).createTickets > 0
             p == IF wanted = "free" \/ useTicket THEN wanted ELSE "token"
             tickets == IF useTicket THEN Own(c).createTickets - 1 ELSE Own(c).createTickets
             tokens == IF p = "token" THEN Own(c).tokens - proposalTokenCost ELSE Own(c).tokens
  <1>0. DOMAIN pc = Clients
    BY DEF ValueInv, RoundInv, ClientTables
  <1>1. CASE Fail(c)
    <2>1. ValueQuiet(c)
      BY <1>0, <1>1 DEF Fail, Answer, tables, ValueQuiet, SameRound, Balloting
    <2> QED
      BY <2>1, QuietConserves
  <1>2. ASSUME ~(p = "token" /\ CannotPay(c, proposalTokenCost)),
               account' = [account EXCEPT
                 ![Caller(c)].createTickets = IF useTicket THEN @ - 1 ELSE @,
                 ![Caller(c)].tokens = IF p = "token" THEN @ - proposalTokenCost ELSE @],
               proposal' = NewProposal(c, p),
               Goto(c, "link", NothingRead),
               UNCHANGED <<options, lastOptionId, votes>>,
               proposal.phase = "none"
        PROVE  StepConserves(c)
    <2>1. PICK m \in Members : m = Caller(c)
      BY RoundTypes DEF ValueInv
    <2>2. /\ account \in [Members -> Account] /\ account[m] \in Account
          /\ options = << >> /\ votes \in [Members -> VoteRow]
      BY <1>2 DEF ValueInv, RoundInv, TablesHold
    <2>3. /\ account[m].tokens \in Nat /\ account[m].createTickets \in Nat
          /\ account[m].proposalTickets \in Nat /\ account[m].voteTickets \in Nat
          /\ proposalTokenCost \in Nat /\ Own(c) = account[m]
      BY <2>1, <2>2, RoundAssumption DEF Account, Own
    <2>4. wanted \in {"free", "token", "ticket"}
      BY RequestShape DEF ValueInv, RoundInv, Handled, Handles, CreateProposal, At
    <2>5. tokens \in Nat /\ tickets \in Nat
      BY <1>2, <2>3 DEF CannotPay
    <2>6. PICK b \in Account :
            /\ account' = [account EXCEPT ![m] = b]
            /\ b.tokens = tokens /\ b.createTickets = tickets
            /\ b.proposalTickets = account[m].proposalTickets
            /\ b.voteTickets = account[m].voteTickets
      <3> DEFINE a == [account[m] EXCEPT !.createTickets = tickets, !.tokens = tokens]
      <3>1. account' = [account EXCEPT ![m] = a]
        BY <1>2, <2>1, <2>2, <2>3
      <3>2. a \in Account /\ a.tokens = tokens /\ a.createTickets = tickets
            /\ a.proposalTickets = account[m].proposalTickets
            /\ a.voteTickets = account[m].voteTickets
        BY <2>2, <2>5 DEF Account
      <3> QED
        BY <3>1, <3>2
    <2>7. Live' /\ proposal'.paidWith = p /\ PaidToOpen = 0
      BY <1>2 DEF NewProposal, Live, PaidToOpen
    <2>8. Wallet(b) + PaidToOpen' = Wallet(account[m])
      BY <2>3, <2>4, <2>6, <2>7 DEF Wallet, PaidToOpen
    <2>9. ValueConserved'
      <3>1. /\ Sum(WalletsOf(account)) \in Nat /\ Wallet(account[m]) \in Nat /\ Wallet(b) \in Nat
            /\ Sum(WalletsOf([account EXCEPT ![m] = b]))
                 = Sum(WalletsOf(account)) - Wallet(account[m]) + Wallet(b)
        BY <2>2, WalletsUpdate, Zenon
      <3>2. Sum(WalletsOf(account'))
              = Sum(WalletsOf(account)) - Wallet(account[m]) + Wallet(b)
        BY <2>6, <3>1
      <3>3. PaidToOpen' \in Nat
        BY <2>3, <2>7 DEF PaidToOpen
      <3>4. /\ Sum(StakesOf(options)) \in Nat /\ TallyOf(options) \in Int
            /\ options' = options
        BY <1>2, ValueTypes DEF ValueInv
      <3>5. Sum(WalletsOf(account)) + PaidToOpen + Sum(StakesOf(options)) + TallyOf(options)
              = Sum([v \in Members |-> Wallet(StartAccount)])
        BY <1>2, ValueParts DEF ValueInv, Conserving
      <3> HIDE DEF p, tickets, tokens, wanted, useTicket
      <3>6. Sum(WalletsOf(account')) + PaidToOpen' + Sum(StakesOf(options')) + TallyOf(options')
              = Sum(WalletsOf(account)) + PaidToOpen + Sum(StakesOf(options))
                + TallyOf(options)
        BY <2>7, <2>8, <3>1, <3>2, <3>3, <3>4
      <3> QED
        BY <3>5, <3>6, ValuePartsNext, Zenon
    <2>10. VotesStand'
      BY <1>2, <2>2 DEF ValueInv, VotesStand, StandingVote
    <2>11. BallotHandled(c)'
      BY <1>0, <1>2 DEF Goto, BallotHandled, BallotHandles
    <2> QED
      BY <2>9, <2>10, <2>11 DEF StepConserves
  <1> QED
    BY <1>1, <1>2 DEF CreateProposal

(***************************************************************************)
(* A new option adds its price to the stakes, and nothing to the tally.    *)
(***************************************************************************)
LEMMA RowAdded ==
  ASSUME NEW D, IsFiniteSet(D), NEW n, n \notin D, NEW rows \in [D -> OptionRow],
         NEW more \in [D \cup {n} -> OptionRow], \A i \in D : more[i] = rows[i],
         more[n].weightedVotes = 0
  PROVE  /\ Sum(StakesOf(more)) = Sum(StakesOf(rows)) + PaidToNominate(more[n])
         /\ TallyOf(more) = TallyOf(rows)
  <1>1. IsFiniteSet(D \cup {n})
    BY FS_AddElement
  <1>2. PICK f \in [D -> Nat], g \in [D \cup {n} -> Nat] : f = StakesOf(rows) /\ g = StakesOf(more)
    BY <1>1, RowSums
  <1>3. Sum(g) = Sum(f) + g[n]
    <2>1. \A i \in D : g[i] = f[i]
      BY <1>2 DEF StakesOf
    <2> QED
      BY <2>1, SumExtend
  <1>4. g[n] = PaidToNominate(more[n])
    BY <1>2 DEF StakesOf
  <1>5. Above(0) = 0 /\ Above(-0) = 0
    BY DEF Above
  <1>6. Sum(For(more)) = Sum(For(rows))
    <2>1. PICK a \in [D -> Nat], b \in [D \cup {n} -> Nat] : a = For(rows) /\ b = For(more)
      BY <1>1, RowSums
    <2>2. b[n] = 0 /\ \A i \in D : b[i] = a[i]
      BY <1>5, <2>1 DEF For
    <2>3. Sum(b) = Sum(a) + b[n] /\ Sum(a) \in Nat
      BY <2>2, SumExtend, SumType
    <2> QED
      BY <2>1, <2>2, <2>3
  <1>7. Sum(Against(more)) = Sum(Against(rows))
    <2>1. PICK a \in [D -> Nat], b \in [D \cup {n} -> Nat] : a = Against(rows) /\ b = Against(more)
      BY <1>1, RowSums
    <2>2. b[n] = 0 /\ \A i \in D : b[i] = a[i]
      BY <1>5, <2>1 DEF Against
    <2>3. Sum(b) = Sum(a) + b[n] /\ Sum(a) \in Nat
      BY <2>2, SumExtend, SumType
    <2> QED
      BY <2>1, <2>2, <2>3
  <1> QED
    BY <1>2, <1>3, <1>4, <1>6, <1>7 DEF TallyOf

(***************************************************************************)
(* Inserting an option: what is charged is the price of the option.        *)
(***************************************************************************)
LEMMA InsertConserves ==
  ASSUME ValueInv, RoundInv', NEW c \in Clients, InsertProposalOption(c)
  PROVE  StepConserves(c)
  <1> DEFINE r == request[c]
             n == lastOptionId + 1
             useTicket == r.ticket /\ Own(c).proposalTickets > 0
             cost == IF useTicket THEN 0 ELSE optionTokenCost
             tickets == IF useTicket THEN Own(c).proposalTickets - 1
                        ELSE Own(c).proposalTickets
             tokens == Own(c).tokens - cost
             row == [merchant |-> r.merchant, proposer |-> Caller(c),
                     usedTicket |-> useTicket, weightedVotes |-> 0, tokenStake |-> cost]
  <1>0. DOMAIN pc = Clients
    BY DEF ValueInv, RoundInv, ClientTables
  <1>1. CASE Fail(c)
    <2>1. ValueQuiet(c)
      BY <1>0, <1>1 DEF Fail, Answer, tables, ValueQuiet, SameRound, Balloting
    <2> QED
      BY <2>1, QuietConserves
  <1>2. ASSUME ~CannotPay(c, cost),
               account' = [account EXCEPT
                 ![Caller(c)].proposalTickets = IF useTicket THEN @ - 1 ELSE @,
                 ![Caller(c)].tokens = @ - cost],
               lastOptionId' = lastOptionId + 1,
               options' = [i \in DOMAIN options \cup {lastOptionId'} |->
                 IF i \in DOMAIN options THEN options[i] ELSE row],
               GetAndAnswer(c),
               UNCHANGED <<proposal, votes>>
        PROVE  StepConserves(c)
    <2>1. PICK m \in Members : m = Caller(c)
      BY RoundTypes DEF ValueInv
    <2>2. /\ account \in [Members -> Account] /\ account[m] \in Account
          /\ options \in [DOMAIN options -> OptionRow] /\ IsFiniteSet(DOMAIN options)
      BY ValueTypes DEF ValueInv
    <2>3. /\ account[m].tokens \in Nat /\ account[m].createTickets \in Nat
          /\ account[m].proposalTickets \in Nat /\ account[m].voteTickets \in Nat
          /\ cost \in Nat /\ Own(c) = account[m]
      BY <2>1, <2>2, RoundAssumption DEF Account, Own
    <2>4. tokens \in Nat /\ tickets \in Nat
      BY <1>2, <2>3 DEF CannotPay
    <2>5. PICK b \in Account :
            /\ account' = [account EXCEPT ![m] = b]
            /\ b.tokens = tokens /\ b.proposalTickets = tickets
            /\ b.createTickets = account[m].createTickets
            /\ b.voteTickets = account[m].voteTickets
      <3> DEFINE a == [account[m] EXCEPT !.proposalTickets = tickets, !.tokens = tokens]
      <3>1. account' = [account EXCEPT ![m] = a]
        BY <1>2, <2>1, <2>2, <2>3
      <3>2. a \in Account /\ a.tokens = tokens /\ a.proposalTickets = tickets
            /\ a.createTickets = account[m].createTickets
            /\ a.voteTickets = account[m].voteTickets
        BY <2>2, <2>4 DEF Account
      <3> QED
        BY <3>1, <3>2
    <2>6. n \notin DOMAIN options
      <3>1. lastOptionId \in Nat /\ DOMAIN options \subseteq 1 .. lastOptionId
        BY DEF ValueInv, RoundInv, TablesHold, OptionRows
      <3> QED
        BY <3>1
    <2>7. /\ PaidToNominate(row) \in Nat /\ row.weightedVotes = 0
          /\ Wallet(b) + PaidToNominate(row) = Wallet(account[m])
      <3>1. row.usedTicket = useTicket /\ row.tokenStake = cost /\ row.weightedVotes = 0
        OBVIOUS
      <3>2. /\ useTicket => tickets = account[m].proposalTickets - 1 /\ cost = 0
            /\ ~useTicket => tickets = account[m].proposalTickets
            /\ tokens = account[m].tokens - cost
        BY <2>3
      <3> HIDE DEF row, tickets, tokens, cost, useTicket
      <3>3. PaidToNominate(row) = IF useTicket THEN 1 ELSE cost
        BY <3>1 DEF PaidToNominate
      <3> QED
        BY <2>3, <2>4, <2>5, <3>1, <3>2, <3>3 DEF Wallet
    <2> HIDE DEF row
    <2>8. /\ DOMAIN options' = DOMAIN options \cup {n}
          /\ \A i \in DOMAIN options : options'[i] = options[i]
          /\ options'[n] = row
      BY <1>2, <2>6
    <2>9. /\ options' \in [DOMAIN options \cup {n} -> OptionRow]
          /\ IsFiniteSet(DOMAIN options \cup {n})
      <3>1. options' \in [DOMAIN options' -> OptionRow]
        BY DEF RoundInv, TablesHold, OptionRows
      <3> QED
        BY <2>2, <2>8, <3>1, FS_AddElement
    <2> HIDE DEF n
    <2>12. /\ Sum(StakesOf(options')) = Sum(StakesOf(options)) + PaidToNominate(row)
           /\ TallyOf(options') = TallyOf(options)
      <3>0. PICK D : D = DOMAIN options
        OBVIOUS
      <3>1. PICK rows \in [D -> OptionRow], more \in [D \cup {n} -> OptionRow] :
              rows = options /\ more = options'
        BY <2>2, <2>9, <3>0
      <3>2. /\ IsFiniteSet(D) /\ n \notin D /\ \A i \in D : more[i] = rows[i]
            /\ more[n] = row /\ more[n].weightedVotes = 0
        BY <2>2, <2>6, <2>7, <2>8, <3>0, <3>1
      <3>3. /\ Sum(StakesOf(more)) = Sum(StakesOf(rows)) + PaidToNominate(more[n])
            /\ TallyOf(more) = TallyOf(rows)
        BY <3>2, RowAdded
      <3> QED
        BY <3>1, <3>2, <3>3
    <2>13. ValueConserved'
      <3>1. /\ Sum(WalletsOf(account)) \in Nat /\ Wallet(account[m]) \in Nat /\ Wallet(b) \in Nat
            /\ Sum(WalletsOf([account EXCEPT ![m] = b]))
                 = Sum(WalletsOf(account)) - Wallet(account[m]) + Wallet(b)
        BY <2>2, WalletsUpdate, Zenon
      <3>2. Sum(WalletsOf(account'))
              = Sum(WalletsOf(account)) - Wallet(account[m]) + Wallet(b)
        BY <2>5, <3>1
      <3>3. PaidToOpen' = PaidToOpen /\ (Conserving' <=> Conserving)
        BY <1>2 DEF PaidToOpen, Conserving, Live
      <3>4. /\ Sum(StakesOf(options)) \in Nat /\ TallyOf(options) \in Int
            /\ PaidToOpen \in Nat
        BY ValueTypes DEF ValueInv
      <3> HIDE DEF tickets, tokens, cost, useTicket
      <3>5. Sum(WalletsOf(account')) + PaidToOpen' + Sum(StakesOf(options')) + TallyOf(options')
              = Sum(WalletsOf(account)) + PaidToOpen + Sum(StakesOf(options))
                + TallyOf(options)
        BY <2>7, <2>12, <3>1, <3>2, <3>3, <3>4
      <3> QED
        BY <3>3, <3>5, ValueParts, ValuePartsNext, Zenon DEF ValueInv
    <2>14. VotesStand'
      BY <1>2, <2>8 DEF ValueInv, VotesStand, StandingVote
    <2>15. BallotHandled(c)'
      BY <1>0, <1>2 DEF GetAndAnswer, BallotHandled, BallotHandles
    <2> QED
      BY <2>13, <2>14, <2>15 DEF StepConserves
  <1> QED
    BY <1>1, <1>2 DEF InsertProposalOption

(***************************************************************************)
(* Voting: the replaced vote is given back, the new one is paid.           *)
(***************************************************************************)
LEMMA PaidForWallet ==
  ASSUME NEW a \in Account, NEW old \in VoteRow, NEW r, r.ticket \in BOOLEAN, r.amount \in Nat,
         old.ticket => old.weight = 1
  PROVE  /\ Wallet(PaidFor(a, old, r)) = Wallet(a) + old.weight - VoteWeight(r)
         /\ VoteWeight(r) \in Nat /\ old.weight \in Nat /\ Wallet(a) \in Nat
  <1> DEFINE b == Refunded(a, old)
             w == VoteWeight(r)
  <1>1. /\ a.tokens \in Nat /\ a.createTickets \in Nat
        /\ a.proposalTickets \in Nat /\ a.voteTickets \in Nat
        /\ old.weight \in Nat /\ w \in Nat /\ Wallet(a) \in Nat
    BY DEF Account, VoteRow, VoteWeight, Wallet
  <1>2. b \in Account
    BY <1>1 DEF Refunded, Account
  <1>3. Wallet(b) = Wallet(a) + old.weight
    BY <1>1 DEF Refunded, Account, Wallet
  <1>4. PaidFor(a, old, r) = IF r.ticket THEN [b EXCEPT !.voteTickets = @ - 1]
                             ELSE [b EXCEPT !.tokens = @ - w]
    BY DEF PaidFor
  <1>5. r.ticket => w = 1
    BY DEF VoteWeight
  <1> HIDE DEF b, w
  <1>6. /\ b.tokens \in Nat /\ b.createTickets \in Nat
        /\ b.proposalTickets \in Nat /\ b.voteTickets \in Nat
    BY <1>2 DEF Account
  <1>7. Wallet(PaidFor(a, old, r)) = Wallet(b) - w
    BY <1>1, <1>2, <1>4, <1>5, <1>6 DEF Account, Wallet
  <1> HIDE DEF Wallet
  <1>8. Wallet(b) - w = Wallet(a) + old.weight - w
    BY <1>1, <1>3
  <1> QED
    BY <1>1, <1>7, <1>8 DEF w

(***************************************************************************)
(* A booked vote moves its weight on the tally and leaves the stakes.      *)
(***************************************************************************)
LEMMA ReplacedTally ==
  ASSUME NEW D, IsFiniteSet(D), NEW rows \in [D -> OptionRow], NEW old \in VoteRow,
         old.option \in D \/ old.weight = 0,
         NEW r, r.option \in D, r.ticket \in BOOLEAN, r.amount \in Nat
  PROVE  /\ Replaced(rows, old, r) \in [D -> OptionRow]
         /\ TallyOf(Replaced(rows, old, r)) = TallyOf(rows) - old.weight + VoteWeight(r)
         /\ StakesOf(Replaced(rows, old, r)) = StakesOf(rows)
  <1>1. PICK w \in Nat, k \in Nat : w = VoteWeight(r) /\ k = old.weight
    BY DEF VoteWeight, VoteRow
  <1>2. PICK less : less = AddWeight(rows, old.option, -old.weight)
    OBVIOUS
  <1>3. /\ less \in [D -> OptionRow]
        /\ TallyOf(less) = TallyOf(rows) + (IF old.option \in D THEN -k ELSE 0)
        /\ StakesOf(less) = StakesOf(rows)
    <2>1. -k \in Int
      OBVIOUS
    <2> QED
      BY <1>1, <1>2, <2>1, TallyAdd
  <1>4. /\ AddWeight(less, r.option, w) \in [D -> OptionRow]
        /\ TallyOf(AddWeight(less, r.option, w)) = TallyOf(less) + w
        /\ StakesOf(AddWeight(less, r.option, w)) = StakesOf(less)
    BY <1>3, TallyAdd
  <1>5. Replaced(rows, old, r) = AddWeight(less, r.option, w)
    BY <1>1, <1>2 DEF Replaced, TakeOffOldWeight
  <1>6. TallyOf(rows) \in Int
    BY RowSums
  <1>7. TallyOf(less) = TallyOf(rows) - k
    BY <1>1, <1>3, <1>6
  <1> HIDE DEF AddWeight, TallyOf
  <1> QED
    BY <1>1, <1>3, <1>4, <1>5, <1>6, <1>7

(***************************************************************************)
(* RecordVote conserves value, even where the vote it has read is no       *)
(* longer the member's: what it gives back it takes off the tally.         *)
(***************************************************************************)
LEMMA VoteWriteConserves ==
  ASSUME ValueInv, NEW c \in Clients, VoteWrite(c)
  PROVE  StepConserves(c)
  <1>0. DOMAIN pc = Clients
    BY DEF ValueInv, RoundInv, ClientTables
  <1>1. CASE Fail(c)
    <2>1. ValueQuiet(c)
      BY <1>0, <1>1 DEF Fail, Answer, tables, ValueQuiet, SameRound, Balloting
    <2> QED
      BY <2>1, QuietConserves
  <1>2. CASE VoteBooked(c, Caller(c), read[c].vote, request[c])
    <2>1. PICK m \in Members : m = Caller(c)
      BY RoundTypes DEF ValueInv
    <2>2. PICK old, r : old = read[c].vote /\ r = request[c]
      OBVIOUS
    <2>3. VoteBooked(c, m, old, r) /\ pc[c] = "voteWrite"
      BY <1>2, <2>1, <2>2 DEF VoteWrite, At
    <2>4. /\ r \in Requests /\ r.kind = "vote" /\ old \in VoteRow
          /\ proposal.phase # "none"
          /\ Live => r.option \in DOMAIN options /\ StandingVote(old)
      BY <2>2, <2>3 DEF ValueInv, RoundInv, Handled, Handles, WinnerHandles, BallotHandled,
                        BallotHandles
    <2>5. r.option \in Nat /\ r.amount \in Nat /\ r.ticket \in BOOLEAN
      BY <2>4, RequestShape
    <2>6. /\ proposal' = proposal /\ GetAndAnswer(c)
          /\ account' = [account EXCEPT ![m] = PaidFor(account[m], old, r)]
          /\ options' = Replaced(options, old, r)
          /\ votes' = votes \/ votes' = [votes EXCEPT ![m] = Cast(r)]
          /\ ~Insufficient(PaidFor(account[m], old, r))
      BY <2>3 DEF VoteBooked
    <2>7. BallotHandled(c)'
      BY <1>0, <2>6 DEF GetAndAnswer, BallotHandled, BallotHandles
    <2>8. CASE ~Live
      <3>1. ~Conserving' /\ proposal'.phase = "deleted"
        <4>1. proposal \in NoProposal
          BY <2>8, RoundTypes DEF ValueInv
        <4> QED
          BY <2>4, <2>6, <2>8, <4>1 DEF Conserving, Live, NoProposal
      <3> QED
        BY <2>7, <3>1, ValuePartsNext DEF StepConserves, VotesStand
    <2>9. CASE Live
      <3>1. /\ account \in [Members -> Account] /\ account[m] \in Account
            /\ options \in [DOMAIN options -> OptionRow] /\ IsFiniteSet(DOMAIN options)
            /\ votes \in [Members -> VoteRow] /\ 0 \notin DOMAIN options
        BY ValueTypes DEF ValueInv
      <3>2. PICK b \in Account : b = PaidFor(account[m], old, r)
        BY <2>4, <2>5, <2>6, <3>1, PaidForType
      <3>3. PICK w \in Nat, k \in Nat : w = VoteWeight(r) /\ k = old.weight
        BY <2>4, <2>5 DEF VoteWeight, VoteRow
      <3>4. /\ old.option \in DOMAIN options \/ old.weight = 0
            /\ old.ticket => old.weight = 1
            /\ r.option \in DOMAIN options
        BY <2>4, <2>9 DEF StandingVote
      <3>5. Wallet(b) = Wallet(account[m]) + k - w
        BY <2>4, <2>5, <3>1, <3>2, <3>3, <3>4, PaidForWallet
      <3>6. /\ options' \in [DOMAIN options -> OptionRow]
            /\ TallyOf(options') = TallyOf(options) - k + w
            /\ StakesOf(options') = StakesOf(options)
        <4>1. PICK D : D = DOMAIN options
          OBVIOUS
        <4>2. PICK rows \in [D -> OptionRow] : rows = options
          BY <3>1, <4>1
        <4>3. /\ Replaced(rows, old, r) \in [D -> OptionRow]
              /\ TallyOf(Replaced(rows, old, r)) = TallyOf(rows) - old.weight + VoteWeight(r)
              /\ StakesOf(Replaced(rows, old, r)) = StakesOf(rows)
          BY <2>4, <2>5, <3>1, <3>4, <4>1, ReplacedTally
        <4> QED
          BY <2>6, <3>3, <4>1, <4>2, <4>3
      <3>7. /\ Sum(WalletsOf(account)) \in Nat /\ Wallet(account[m]) \in Nat
            /\ Sum(WalletsOf(account'))
                 = Sum(WalletsOf(account)) - Wallet(account[m]) + Wallet(b)
        <4>1. Sum(WalletsOf([account EXCEPT ![m] = b]))
                = Sum(WalletsOf(account)) - Wallet(account[m]) + Wallet(b)
              /\ Sum(WalletsOf(account)) \in Nat /\ Wallet(account[m]) \in Nat
          BY <3>1, WalletsUpdate, Zenon
        <4> QED
          BY <2>6, <3>2, <4>1
      <3>8. PaidToOpen' = PaidToOpen /\ (Conserving' <=> Conserving) /\ Live' /\ Live
        BY <2>6, <2>9 DEF PaidToOpen, Conserving, Live
      <3>9. /\ Sum(StakesOf(options)) \in Nat /\ TallyOf(options) \in Int
            /\ PaidToOpen \in Nat
        BY ValueTypes DEF ValueInv
      <3>10. Sum(WalletsOf(account')) + PaidToOpen' + Sum(StakesOf(options'))
               + TallyOf(options')
               = Sum(WalletsOf(account)) + PaidToOpen + Sum(StakesOf(options))
                 + TallyOf(options)
        BY <3>5, <3>6, <3>7, <3>8, <3>9
      <3>11. ValueConserved'
        BY <3>8, <3>10, ValueParts, ValuePartsNext, Zenon DEF ValueInv
      <3>12. VotesStand'
        <4>1. StandingVote(Cast(r)) /\ DOMAIN options' = DOMAIN options
          BY <3>1, <3>4, <3>6 DEF Cast, VoteWeight, StandingVote
        <4>2. \A v \in Members : StandingVote(votes[v])
          BY <2>9 DEF ValueInv, VotesStand, Live
        <4>3. \A v \in Members : StandingVote(votes'[v])
          BY <2>6, <3>1, <4>1, <4>2
        <4> QED
          BY <4>1, <4>3 DEF VotesStand, StandingVote
      <3> QED
        BY <2>7, <3>11, <3>12 DEF StepConserves
    <2> QED
      BY <2>8, <2>9
  <1> QED
    BY <1>1, <1>2, VoteWriteCases

-----------------------------------------------------------------------------
\* The invariant of value is inductive.
LEMMA ValueInductive == ValueInv /\ [Next]_vars => ValueInv'
  <1> SUFFICES ASSUME ValueInv, [Next]_vars
               PROVE  ValueInv'
    OBVIOUS
  <1>1. RoundInv'
    BY RoundStep DEF ValueInv
  <1>2. CASE UNCHANGED <<tables, pc, request, read>>
    <2>1. UNCHANGED <<account, options, votes, proposal, pc, request, read>> /\ SameRound
      BY <1>2 DEF tables, SameRound
    <2>2. ValueConserved' /\ VotesStand'
      BY <2>1, StillConserves
    <2>3. ASSUME NEW c \in Clients
          PROVE  BallotHandled(c)'
      BY <2>1 DEF ValueInv, BallotHandled, BallotHandles, Live, StandingVote
    <2> QED
      BY <1>1, <2>2, <2>3 DEF ValueInv
  <1>3. ASSUME NEW c \in Clients, Arrive(c) \/ Dispatch(c) \/ Serve(c) \/ Abort(c)
        PROVE  ValueInv'
    <2>1. OnlyMoves(c) /\ TablesGrow
      BY <1>3, ClientKeeps DEF StepKeeps, ValueInv
    <2>2. StepConserves(c)
      BY <1>1, <1>3, ValueCases, QuietConserves, VoteConserves, VoteReadConserves,
         RewardConserves, CreateConserves, InsertConserves, VoteWriteConserves,
         DeleteConserves DEF ValueInv
    <2> QED
      BY <1>1, <2>1, <2>2, ValueStep
  <1> QED
    BY <1>2, <1>3 DEF Next, Tick, vars

\* The invariant of value holds at the start.
LEMMA ValueInit == Init => ValueInv
  <1> SUFFICES ASSUME Init
               PROVE  ValueInv
    OBVIOUS
  <1>1. RoundInv
    BY RoundInit
  <1>2. VotesStand /\ ~Live /\ PaidToOpen = 0
    BY DEF Init, VotesStand, StandingVote, NoVote, Live, PaidToOpen
  <1>3. options = << >> /\ DOMAIN options = {}
    BY DEF Init
  <1>4. Sum(StakesOf(options)) = 0 /\ TallyOf(options) = 0
    <2>1. Sum(StakesOf(options)) = 0 /\ Sum(For(options)) = 0 /\ Sum(Against(options)) = 0
      BY <1>3, SumZero DEF StakesOf, For, Against
    <2> QED
      BY <2>1 DEF TallyOf
  <1>5. WalletsOf(account) = [m \in Members |-> Wallet(StartAccount)]
    BY DEF Init, WalletsOf
  <1>6. Sum(WalletsOf(account)) \in Nat
    <2>1. \A m \in Members : Wallet(account[m]) \in Nat
      BY <1>1 DEF RoundInv, TablesHold, Wallet, Account
    <2>2. WalletsOf(account) \in [Members -> Nat] /\ IsFiniteSet(Members)
      BY <2>1, RoundAssumption DEF WalletsOf
    <2> QED
      BY <2>2, SumType
  <1>7. ValueConserved
    BY <1>2, <1>4, <1>5, <1>6, ValueParts
  <1>8. \A c \in Clients : BallotHandled(c)
    BY <1>2 DEF BallotHandled, BallotHandles
  <1> QED
    BY <1>1, <1>2, <1>7, <1>8 DEF ValueInv

(***************************************************************************)
(* Until rewards are paid or the round is deleted, members' tokens and     *)
(* tickets, what was paid to open the round and to nominate, and the tally *)
(* add up to what the members started with: for any number of requests of  *)
(* the same member in flight, any costs and amounts, every abort and every *)
(* interleaving.                                                           *)
(***************************************************************************)
THEOREM ValueStaysConserved == Spec => []ValueConserved
  <1>1. ValueInv => ValueConserved
    BY DEF ValueInv
  <1> QED
    BY <1>1, ValueInit, ValueInductive, PTL DEF Spec

=============================================================================
