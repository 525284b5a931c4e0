------------------------ MODULE VotingContractProofs ------------------------
(***************************************************************************)
(* Proofs about VotingContract for every set of members, every cost, fee   *)
(* and bound the assumptions allow.                                        *)
(***************************************************************************)
EXTENDS VotingContract, FiniteSetTheorems, FunctionTheorems, TLAPS

-----------------------------------------------------------------------------
(***************************************************************************)
(* Sums, for every finite domain: the sum of f counts its units, the pairs *)
(* <<x, i>> with 1 <= i <= f[x], so that an update, a partition or an      *)
(* append of f is a disjoint union or a bijection of such pairs.           *)
(***************************************************************************)

(***************************************************************************)
(* The elements of the sets C[x] for x in S.                               *)
(***************************************************************************)
UnionOver(S, C) == UNION { C[x] : x \in S }

(***************************************************************************)
(* A pair is a unit of f exactly when its count lies in 1..f[x].           *)
(***************************************************************************)
LEMMA UnitsElement ==
  ASSUME NEW f, NEW u
  PROVE  u \in Units(f) <=> \E x \in DOMAIN f : \E i \in 1 .. f[x] : u = <<x, i>>
  BY DEF Units

(***************************************************************************)
(* One key's units are finite and as many as its value.                    *)
(***************************************************************************)
LEMMA ColumnCard ==
  ASSUME NEW x, NEW n \in Nat
  PROVE  /\ IsFiniteSet({x} \X (1 .. n))
         /\ Cardinality({x} \X (1 .. n)) = n
  <1>1. IsFiniteSet({x}) /\ Cardinality({x}) = 1
    BY FS_Singleton
  <1>2. IsFiniteSet(1 .. n) /\ Cardinality(1 .. n) = n
    BY FS_Interval
  <1>3. /\ IsFiniteSet({x} \X (1 .. n))
        /\ Cardinality({x} \X (1 .. n)) = Cardinality({x}) * Cardinality(1 .. n)
    BY <1>1, <1>2, FS_Product, Zenon
  <1>4. Cardinality({x}) * Cardinality(1 .. n) = n
    BY <1>1, <1>2
  <1> QED
    BY <1>3, <1>4

(***************************************************************************)
(* A sum over a finite domain is a natural number.                         *)
(***************************************************************************)
LEMMA SumType ==
  ASSUME NEW S, IsFiniteSet(S), NEW f \in [S -> Nat]
  PROVE  /\ IsFiniteSet(Units(f))
         /\ Sum(f) \in Nat
  <1> DEFINE Column == [x \in S |-> {x} \X (1 .. f[x])]
             T == { {x} \X (1 .. f[x]) : x \in S }
  <1>1. Column \in Surjection(S, T)
    <2>1. Column \in [S -> T]
      OBVIOUS
    <2>2. \A t \in T : \E s \in S : Column[s] = t
      OBVIOUS
    <2> QED
      BY <2>1, <2>2, Fun_IsSurj
  <1>2. IsFiniteSet(T)
    BY <1>1, FS_Surjection
  <1>3. \A t \in T : IsFiniteSet(t)
    <2> SUFFICES ASSUME NEW x \in S
                 PROVE  IsFiniteSet({x} \X (1 .. f[x]))
      OBVIOUS
    <2>1. f[x] \in Nat
      OBVIOUS
    <2> QED
      BY <2>1, ColumnCard
  <1>4. IsFiniteSet(UNION T)
    BY <1>2, <1>3, FS_UNION
  <1>5. Units(f) = UNION T
    BY DEF Units
  <1> QED
    BY <1>4, <1>5, FS_CardinalityType DEF Sum

(***************************************************************************)
(* Summing the sizes of disjoint sets counts their union: if f[x] is the   *)
(* size of C[x], the units of f are in bijection with the union of C.      *)
(***************************************************************************)
LEMMA SumPartition ==
  ASSUME NEW S, IsFiniteSet(S), NEW f \in [S -> Nat], NEW C,
         \A x \in S : IsFiniteSet(C[x]) /\ Cardinality(C[x]) = f[x],
         \A x, y \in S : x # y => C[x] \cap C[y] = {}
  PROVE  /\ IsFiniteSet(UnionOver(S, C))
         /\ Cardinality(UnionOver(S, C)) = Sum(f)
  <1> DEFINE B(x) == CHOOSE b : b \in Bijection(1 .. f[x], C[x])
             T == UNION { C[x] : x \in S }
             g == [u \in Units(f) |-> B(u[1])[u[2]]]
  <1>1. \A x \in S : B(x) \in Bijection(1 .. f[x], C[x])
    <2> SUFFICES ASSUME NEW x \in S
                 PROVE  \E b : b \in Bijection(1 .. f[x], C[x])
      OBVIOUS
    <2>1. ExistsBijection(1 .. f[x], C[x])
      BY FS_CardinalityType
    <2> QED
      BY <2>1, Fun_ExistsBij
  <1>2. \A x \in S : /\ B(x) \in [1 .. f[x] -> C[x]]
                     /\ \A i, j \in 1 .. f[x] : B(x)[i] = B(x)[j] => i = j
                     /\ \A c \in C[x] : \E i \in 1 .. f[x] : B(x)[i] = c
    <2> SUFFICES ASSUME NEW x \in S
                 PROVE  /\ B(x) \in [1 .. f[x] -> C[x]]
                        /\ \A i, j \in 1 .. f[x] : B(x)[i] = B(x)[j] => i = j
                        /\ \A c \in C[x] : \E i \in 1 .. f[x] : B(x)[i] = c
      OBVIOUS
    <2> HIDE DEF B
    <2>1. B(x) \in Bijection(1 .. f[x], C[x])
      BY <1>1
    <2>2. /\ B(x) \in Injection(1 .. f[x], C[x])
          /\ B(x) \in Surjection(1 .. f[x], C[x])
      BY <2>1 DEF Bijection
    <2> QED
      BY <2>2 DEF Injection, Surjection, IsInjective
  <1> HIDE DEF B
  <1>3. \A u \in Units(f) : /\ u[1] \in S
                            /\ u[2] \in 1 .. f[u[1]]
                            /\ u = <<u[1], u[2]>>
    BY UnitsElement
  <1>4. \A x \in S : \A i \in 1 .. f[x] : <<x, i>> \in Units(f)
    BY UnitsElement
  <1>5. \A u \in Units(f) : g[u] = B(u[1])[u[2]] /\ g[u] \in C[u[1]]
    BY <1>2, <1>3
  <1>6. g \in [Units(f) -> T]
    BY <1>3, <1>5
  <1>7. \A a, b \in Units(f) : g[a] = g[b] => a = b
    <2> SUFFICES ASSUME NEW a \in Units(f), NEW b \in Units(f), g[a] = g[b]
                 PROVE  a = b
      OBVIOUS
    <2>1. a[1] = b[1]
      BY <1>3, <1>5
    <2>2. a[2] = b[2]
      BY <2>1, <1>2, <1>3, <1>5
    <2> QED
      BY <2>1, <2>2, <1>3
  <1>8. \A t \in T : \E u \in Units(f) : g[u] = t
    <2> SUFFICES ASSUME NEW x \in S, NEW t \in C[x]
                 PROVE  \E u \in Units(f) : g[u] = t
      OBVIOUS
    <2>1. PICK i \in 1 .. f[x] : B(x)[i] = t
      BY <1>2
    <2> DEFINE u == <<x, i>>
    <2>2. u \in Units(f) /\ u[1] = x /\ u[2] = i
      BY <1>4
    <2>3. g[u] = t
      BY <2>1, <2>2, <1>5
    <2> QED
      BY <2>2, <2>3
  <1>9. g \in Injection(Units(f), T) /\ g \in Surjection(Units(f), T)
    BY <1>6, <1>7, <1>8, Fun_IsInj, Fun_IsSurj
  <1>10. IsFiniteSet(Units(f))
    BY SumType
  <1> QED
    BY <1>9, <1>10, FS_Surjection DEF Sum, UnionOver

(***************************************************************************)
(* Functions that agree have the same sum; a function that is 0 everywhere *)
(* sums to 0.                                                              *)
(***************************************************************************)
LEMMA SumZero ==
  ASSUME NEW f, \A x \in DOMAIN f : f[x] = 0
  PROVE  Sum(f) = 0
  <1>1. Units(f) = {}
    BY DEF Units
  <1> QED
    BY <1>1, FS_EmptySet DEF Sum

(***************************************************************************)
(* The sum of a pointwise sum.                                             *)
(***************************************************************************)
LEMMA SumPlus ==
  ASSUME NEW S, IsFiniteSet(S), NEW f \in [S -> Nat], NEW g \in [S -> Nat]
  PROVE  Sum([x \in S |-> f[x] + g[x]]) = Sum(f) + Sum(g)
  <1> DEFINE F(x) == {<<1, x>>} \X (1 .. f[x])
             G(x) == {<<2, x>>} \X (1 .. g[x])
             CF == [x \in S |-> F(x)]
             CG == [x \in S |-> G(x)]
             C == [x \in S |-> F(x) \cup G(x)]
             h == [x \in S |-> f[x] + g[x]]
  <1>1. \A x \in S : /\ IsFiniteSet(F(x)) /\ Cardinality(F(x)) = f[x]
                     /\ IsFiniteSet(G(x)) /\ Cardinality(G(x)) = g[x]
    BY ColumnCard
  <1>2. \A x \in S : F(x) \cap G(x) = {}
    OBVIOUS
  <1>3. \A x, y \in S : x # y => F(x) \cap F(y) = {} /\ G(x) \cap G(y) = {}
                                 /\ F(x) \cap G(y) = {}
    OBVIOUS
  <1>4. \A x \in S : /\ IsFiniteSet(F(x) \cup G(x))
                     /\ Cardinality(F(x) \cup G(x)) = f[x] + g[x]
    <2> SUFFICES ASSUME NEW x \in S
                 PROVE  /\ IsFiniteSet(F(x) \cup G(x))
                        /\ Cardinality(F(x) \cup G(x)) = f[x] + g[x]
      OBVIOUS
    <2> HIDE DEF F, G
    <2> DEFINE P == F(x)
               Q == G(x)
    <2>1. /\ IsFiniteSet(P) /\ Cardinality(P) = f[x]
          /\ IsFiniteSet(Q) /\ Cardinality(Q) = g[x]
      BY <1>1
    <2>2. P \cap Q = {}
      BY <1>2
    <2> HIDE DEF P, Q
    <2>3. Cardinality(P \cap Q) = 0
      BY <2>2, FS_EmptySet
    <2>4. /\ IsFiniteSet(P \cup Q)
          /\ Cardinality(P \cup Q) = Cardinality(P) + Cardinality(Q) - Cardinality(P \cap Q)
      BY <2>1, FS_Union, Zenon
    <2>5. IsFiniteSet(P \cup Q) /\ Cardinality(P \cup Q) = f[x] + g[x]
      BY <2>1, <2>3, <2>4
    <2> QED
      BY <2>5 DEF P, Q
  <1>5. h \in [S -> Nat]
    OBVIOUS
  <1>6. \A x, y \in S : F(x) \cap G(y) = {}
    OBVIOUS
  <1> HIDE DEF F, G
  <1>7. /\ IsFiniteSet(UnionOver(S, CF))
        /\ Cardinality(UnionOver(S, CF)) = Sum(f)
    <2>1. \A x \in S : IsFiniteSet(CF[x]) /\ Cardinality(CF[x]) = f[x]
      BY <1>1
    <2>2. \A x, y \in S : x # y => CF[x] \cap CF[y] = {}
      BY <1>3
    <2> HIDE DEF CF
    <2> QED
      BY <2>1, <2>2, SumPartition
  <1>8. /\ IsFiniteSet(UnionOver(S, CG))
        /\ Cardinality(UnionOver(S, CG)) = Sum(g)
    <2>1. \A x \in S : IsFiniteSet(CG[x]) /\ Cardinality(CG[x]) = g[x]
      BY <1>1
    <2>2. \A x, y \in S : x # y => CG[x] \cap CG[y] = {}
      BY <1>3
    <2> HIDE DEF CG
    <2> QED
      BY <2>1, <2>2, SumPartition
  <1>9. Cardinality(UnionOver(S, C)) = Sum(h)
    <2>1. \A x \in S : IsFiniteSet(C[x]) /\ Cardinality(C[x]) = h[x]
      BY <1>4
    <2>2. \A x, y \in S : x # y => C[x] \cap C[y] = {}
      BY <1>3
    <2> HIDE DEF C, h
    <2> QED
      BY <1>5, <2>1, <2>2, SumPartition
  <1> DEFINE UF == UnionOver(S, CF)
             UG == UnionOver(S, CG)
  <1>10. UnionOver(S, C) = UF \cup UG
    BY DEF UnionOver
  <1>11. UF \cap UG = {}
    BY <1>6 DEF UnionOver
  <1> HIDE DEF UF, UG
  <1>12. Cardinality(UF \cup UG) = Cardinality(UF) + Cardinality(UG)
    <2>1. IsFiniteSet(UF) /\ IsFiniteSet(UG)
      BY <1>7, <1>8 DEF UF, UG
    <2>2. Cardinality(UF \cap UG) = 0
      BY <1>11, FS_EmptySet
    <2>3. Cardinality(UF) \in Nat /\ Cardinality(UG) \in Nat
      BY <2>1, FS_CardinalityType
    <2>4. Cardinality(UF \cup UG)
            = Cardinality(UF) + Cardinality(UG) - Cardinality(UF \cap UG)
      BY <2>1, FS_Union, Zenon
    <2> QED
      BY <2>2, <2>3, <2>4
  <1> QED
    BY <1>7, <1>8, <1>9, <1>10, <1>12 DEF UF, UG

(***************************************************************************)
(* Changing one value changes the sum by the difference: the units of the  *)
(* other keys stay.                                                        *)
(***************************************************************************)
LEMMA SumUpdate ==
  ASSUME NEW S, IsFiniteSet(S), NEW f \in [S -> Nat], NEW x \in S, NEW v \in Nat
  PROVE  /\ Sum([f EXCEPT ![x] = v]) = Sum(f) - f[x] + v
         /\ f[x] <= Sum(f)
  <1> DEFINE Column(n) == {x} \X (1 .. n)
             rest == {u \in Units(f) : u[1] # x}
             g == [f EXCEPT ![x] = v]
  <1>1. f[x] \in Nat /\ g \in [S -> Nat] /\ g[x] = v /\ \A y \in S \ {x} : g[y] = f[y]
    OBVIOUS
  <1>2. Units(f) = rest \cup Column(f[x]) /\ Units(g) = rest \cup Column(v)
    <2>1. /\ \A u : u \in Units(f) <=> \E y \in S : \E i \in 1 .. f[y] : u = <<y, i>>
          /\ \A u : u \in Units(g) <=> \E y \in S : \E i \in 1 .. g[y] : u = <<y, i>>
      <3> HIDE DEF g
      <3> QED
        BY <1>1, UnitsElement
    <2> HIDE DEF g
    <2>2. \A u : u \in rest <=> \E y \in S \ {x} : \E i \in 1 .. f[y] : u = <<y, i>>
      BY <2>1
    <2>3. \A n : \A u : u \in Column(n) <=> \E i \in 1 .. n : u = <<x, i>>
      OBVIOUS
    <2> HIDE DEF rest, Column
    <2> QED
      BY <1>1, <2>1, <2>2, <2>3
  <1>3. IsFiniteSet(rest)
    BY SumType, FS_Subset
  <1>4. \A n \in Nat : Cardinality(rest \cup Column(n)) = Cardinality(rest) + n
    <2> SUFFICES ASSUME NEW n \in Nat
                 PROVE  Cardinality(rest \cup Column(n)) = Cardinality(rest) + n
      OBVIOUS
    <2>1. IsFiniteSet(Column(n)) /\ Cardinality(Column(n)) = n
      BY ColumnCard
    <2>2. rest \cap Column(n) = {}
      OBVIOUS
    <2> HIDE DEF rest, Column
    <2>3. Cardinality(rest \cap Column(n)) = 0 /\ Cardinality(rest) \in Nat
      BY <1>3, <2>2, FS_EmptySet, FS_CardinalityType
    <2>4. Cardinality(rest \cup Column(n))
            = Cardinality(rest) + Cardinality(Column(n)) - Cardinality(rest \cap Column(n))
      BY <1>3, <2>1, FS_Union, Zenon
    <2> QED
      BY <2>1, <2>3, <2>4
  <1> HIDE DEF rest, Column, g
  <1>5. Cardinality(rest) \in Nat
    BY <1>3, FS_CardinalityType
  <1>6. Sum(f) = Cardinality(rest) + f[x] /\ Sum(g) = Cardinality(rest) + v
    BY <1>1, <1>2, <1>4 DEF Sum
  <1>7. Sum(g) = Sum(f) - f[x] + v /\ f[x] <= Sum(f)
    BY <1>1, <1>5, <1>6
  <1> QED
    BY <1>7 DEF g

(***************************************************************************)
(* A sum grows with its terms.                                             *)
(***************************************************************************)
LEMMA SumLeq ==
  ASSUME NEW S, IsFiniteSet(S), NEW f \in [S -> Nat], NEW g \in [S -> Nat],
         \A x \in S : f[x] <= g[x]
  PROVE  Sum(f) <= Sum(g)
  <1>1. Units(f) \in SUBSET Units(g)
    <2> SUFFICES ASSUME NEW x \in S, NEW i \in 1 .. f[x]
                 PROVE  <<x, i>> \in Units(g)
      BY UnitsElement
    <2>1. i \in 1 .. g[x]
      OBVIOUS
    <2> QED
      BY <2>1, UnitsElement
  <1>2. IsFiniteSet(Units(g))
    BY SumType
  <1> QED
    BY <1>1, <1>2, FS_Subset DEF Sum

(***************************************************************************)
(* Appending a term adds it to the sum.                                    *)
(***************************************************************************)
LEMMA SumAppend ==
  ASSUME NEW n \in Nat, NEW f \in [1 .. n -> Nat], NEW g \in [1 .. n + 1 -> Nat],
         \A i \in 1 .. n : g[i] = f[i]
  PROVE  Sum(g) = Sum(f) + g[n + 1]
  <1> DEFINE P == Units(f)
             Q == {n + 1} \X (1 .. g[n + 1])
  <1>1. Units(g) = P \cup Q
    <2>1. 1 .. n + 1 = (1 .. n) \cup {n + 1}
      OBVIOUS
    <2>2. DOMAIN f = 1 .. n /\ DOMAIN g = 1 .. n + 1
      OBVIOUS
    <2> QED
      BY <2>1, <2>2 DEF Units
  <1>2. P \cap Q = {}
    BY DEF Units
  <1>3. IsFiniteSet(P) /\ Cardinality(P) = Sum(f) /\ Sum(f) \in Nat
    <2>1. IsFiniteSet(1 .. n)
      BY FS_Interval
    <2> QED
      BY <2>1, SumType DEF Sum
  <1>4. IsFiniteSet(Q) /\ Cardinality(Q) = g[n + 1] /\ g[n + 1] \in Nat
    <2>1. g[n + 1] \in Nat
      OBVIOUS
    <2> QED
      BY <2>1, ColumnCard
  <1> HIDE DEF P, Q
  <1>5. Cardinality(P \cap Q) = 0
    BY <1>2, FS_EmptySet
  <1>6. Cardinality(P \cup Q) = Cardinality(P) + Cardinality(Q) - Cardinality(P \cap Q)
    BY <1>3, <1>4, FS_Union, Zenon
  <1> QED
    BY <1>1, <1>3, <1>4, <1>5, <1>6 DEF Sum

(***************************************************************************)
(* Dividing terms among owners: what the owners hold adds up to the terms. *)
(***************************************************************************)
LEMMA SumByOwner ==
  ASSUME NEW M, IsFiniteSet(M), NEW I, IsFiniteSet(I),
         NEW f \in [I -> Nat], NEW own \in [I -> M]
  PROVE  Sum([m \in M |-> Sum([i \in {j \in I : own[j] = m} |-> f[i]])]) = Sum(f)
  <1> DEFINE Own(m) == {j \in I : own[j] = m}
             part(m) == [i \in Own(m) |-> f[i]]
             C == [m \in M |-> Units(part(m))]
             h == [m \in M |-> Sum(part(m))]
  <1>1. \A m \in M : /\ IsFiniteSet(Own(m))
                     /\ part(m) \in [Own(m) -> Nat]
    BY FS_Subset
  <1>2. \A m \in M : IsFiniteSet(C[m]) /\ Cardinality(C[m]) = h[m] /\ h[m] \in Nat
    <2> SUFFICES ASSUME NEW m \in M
                 PROVE  IsFiniteSet(Units(part(m))) /\ Sum(part(m)) \in Nat
      BY DEF Sum
    <2> HIDE DEF part, Own
    <2> QED
      BY <1>1, SumType
  <1>3. \A m, k \in M : m # k => C[m] \cap C[k] = {}
    <2>1. \A m \in M : \A u \in C[m] : own[u[1]] = m
      <3> SUFFICES ASSUME NEW m \in M, NEW u \in Units(part(m))
                   PROVE  own[u[1]] = m
        OBVIOUS
      <3>1. PICK x \in DOMAIN part(m) : \E i \in 1 .. part(m)[x] : u = <<x, i>>
        BY UnitsElement
      <3>2. u[1] = x /\ x \in Own(m)
        BY <3>1
      <3> QED
        BY <3>2
    <2> HIDE DEF C
    <2> QED
      BY <2>1
  <1>4. UnionOver(M, C) = Units(f)
    <2>1. \A u : u \in UnionOver(M, C) <=> \E m \in M : u \in Units(part(m))
      BY DEF UnionOver
    <2>2. \A m \in M : \A u : u \in Units(part(m)) <=>
             \E i \in I : own[i] = m /\ \E k \in 1 .. f[i] : u = <<i, k>>
      BY UnitsElement
    <2>3. \A u : u \in Units(f) <=> \E i \in I : \E k \in 1 .. f[i] : u = <<i, k>>
      BY UnitsElement
    <2>4. \A i \in I : own[i] \in M
      OBVIOUS
    <2>5. \A u : u \in UnionOver(M, C) <=> u \in Units(f)
      <3> HIDE DEF C, part, Own
      <3> QED
        BY <2>1, <2>2, <2>3, <2>4
    <2> HIDE DEF C
    <2> QED
      BY <2>5
  <1>5. h \in [M -> Nat]
    BY <1>2
  <1> HIDE DEF C, part, Own
  <1>6. Cardinality(UnionOver(M, C)) = Sum(h)
    <2> HIDE DEF h
    <2> QED
      BY <1>2, <1>3, <1>5, SumPartition
  <1> QED
    BY <1>4, <1>6 DEF Sum, part, Own

\* The same under a name, which provers can instantiate.
ByOwner(M, I, f, own) == Sum([m \in M |-> Sum([i \in {j \in I : own[j] = m} |-> f[i]])])

\* The sums by owner add up to the whole.
LEMMA SumOverOwners ==
  ASSUME NEW M, IsFiniteSet(M), NEW I, IsFiniteSet(I),
         NEW f \in [I -> Nat], NEW own \in [I -> M]
  PROVE  ByOwner(M, I, f, own) = Sum(f)
  BY SumByOwner DEF ByOwner

(***************************************************************************)
(* Every non-empty set of naturals has a least element.                    *)
(***************************************************************************)
LEMMA NatLeast ==
  ASSUME NEW T \in SUBSET Nat, T # {}
  PROVE  \E x \in T : \A y \in T : x <= y
  <1>1. \E x \in T : \A y \in T : <<y, x>> \notin OpToRel(<, Nat)
    BY NatLessThanWellFounded, WFMin, Zenon
  <1>2. PICK x \in T : \A y \in T : <<y, x>> \notin OpToRel(<, Nat)
    BY <1>1
  <1>3. \A y \in T : ~(y < x)
    BY <1>2, Zenon DEF OpToRel
  <1> QED
    BY <1>3

(***************************************************************************)
(* A non-empty row of naturals has a first maximum: strictly above all     *)
(* before it, not below any after it.                                      *)
(***************************************************************************)
LEMMA FirstMax ==
  ASSUME NEW n \in Nat \ {0}, NEW w \in [1 .. n -> Nat]
  PROVE  \E k \in 1 .. n : \A i \in 1 .. n :
            IF i < k THEN w[i] < w[k] ELSE w[i] <= w[k]
  <1> DEFINE Bounds == { b \in Nat : \A i \in 1 .. n : w[i] <= b }
  <1>1. Sum(w) \in Bounds
    <2>1. IsFiniteSet(1 .. n)
      BY FS_Interval
    <2>2. Sum(w) \in Nat
      BY <2>1, SumType
    <2>3. \A i \in 1 .. n : w[i] <= Sum(w)
      BY <2>1, SumUpdate
    <2> QED
      BY <2>2, <2>3
  <1>2. PICK b \in Bounds : \A c \in Bounds : b <= c
    BY <1>1, NatLeast
  <1> DEFINE Tops == { i \in 1 .. n : w[i] = b }
  <1>3. Tops # {}
    <2> SUFFICES ASSUME \A i \in 1 .. n : w[i] # b
                 PROVE  FALSE
      OBVIOUS
    <2>1. \A i \in 1 .. n : w[i] < b
      OBVIOUS
    <2>2. b - 1 \in Bounds
      BY <2>1
    <2> QED
      BY <1>2, <2>2
  <1>4. PICK k \in Tops : \A i \in Tops : k <= i
    <2>1. Tops \in SUBSET Nat
      OBVIOUS
    <2> HIDE DEF Tops
    <2> QED
      BY <2>1, <1>3, NatLeast
  <1>5. \A i \in 1 .. n : IF i < k THEN w[i] < w[k] ELSE w[i] <= w[k]
    BY <1>4
  <1> QED
    BY <1>4, <1>5

-----------------------------------------------------------------------------
BasisPoints == {bps \in Nat : bps <= 10000}

(***************************************************************************)
(* A basis-point share of an amount is at most the amount.                 *)
(***************************************************************************)
LEMMA BpsBound ==
  \A amount \in Nat, bps \in BasisPoints : Bps(amount, bps) \in Nat /\ Bps(amount, bps) <= amount
  <1> SUFFICES ASSUME NEW amount \in Nat, NEW bps \in BasisPoints
               PROVE  Bps(amount, bps) \in Nat /\ Bps(amount, bps) <= amount
    OBVIOUS
  <1> DEFINE x == amount * bps
  <1>1. x \in Nat /\ x <= amount * 10000
    BY DEF BasisPoints
  <1> HIDE DEF x
  <1>2. x \div 10000 \in Nat /\ x \div 10000 <= amount
    BY <1>1
  <1> QED
    BY <1>2 DEF Bps, x

(***************************************************************************)
(* The constants, one fact each.                                           *)
(***************************************************************************)
LEMMA ConstantTypes ==
  /\ OPTION_TOKEN_COST \in Nat
  /\ SUBSCRIPTION_TOKEN_COST \in Nat
  /\ SUBSCRIPTION_DURATION \in Nat
  /\ VoteAmounts \subseteq Nat
  /\ Approvals \subseteq Nat
  /\ TransferAmounts \subseteq Nat
  /\ WithdrawAmounts \subseteq Nat
  /\ MaxTime \in Nat
  /\ MaxProposals \in Nat
  /\ ProposalIds \subseteq Nat
  /\ \A n \in Nat : n < MaxProposals => n \in ProposalIds
  /\ LOSER_REFUND_BPS \in BasisPoints
  /\ WINNER_REWARD_BPS \in BasisPoints
  /\ ORDER_FEE_BPS \in BasisPoints
  <1>1. MaxProposals \in Nat
    BY ContractAssumption
  <1>2. ProposalIds \subseteq Nat /\ \A n \in Nat : n < MaxProposals => n \in ProposalIds
    <2>1. ProposalIds \subseteq Nat
      BY <1>1 DEF ProposalIds
    <2>2. \A n \in Nat : n < MaxProposals => n \in ProposalIds
      BY <1>1 DEF ProposalIds
    <2> QED
      BY <2>1, <2>2
  <1>3. /\ LOSER_REFUND_BPS \in BasisPoints
        /\ WINNER_REWARD_BPS \in BasisPoints
        /\ ORDER_FEE_BPS \in BasisPoints
    BY ContractAssumption DEF BasisPoints
  <1>4. /\ OPTION_TOKEN_COST \in Nat
        /\ SUBSCRIPTION_TOKEN_COST \in Nat
        /\ SUBSCRIPTION_DURATION \in Nat
        /\ MaxTime \in Nat
    BY ContractAssumption
  <1>5. /\ VoteAmounts \subseteq Nat
        /\ Approvals \subseteq Nat
        /\ TransferAmounts \subseteq Nat
        /\ WithdrawAmounts \subseteq Nat
    BY ContractAssumption
  <1> QED
    BY <1>1, <1>2, <1>3, <1>4, <1>5

(***************************************************************************)
(* The accounts and the rounds are finitely many.                          *)
(***************************************************************************)
LEMMA Finiteness ==
  /\ IsFiniteSet(Members)
  /\ IsFiniteSet(Accounts)
  /\ IsFiniteSet(ProposalIds)
  <1>1. IsFiniteSet(Members)
    BY TokenAssumption
  <1>2. IsFiniteSet(Accounts)
    BY <1>1, FS_AddElement DEF Accounts
  <1>3. IsFiniteSet(ProposalIds)
    <2>1. MaxProposals \in Nat
      BY ConstantTypes
    <2> QED
      BY <2>1, FS_Interval DEF ProposalIds
  <1> QED
    BY <1>1, <1>2, <1>3

(***************************************************************************)
(* The options of a round are numbered from 1 and well typed.              *)
(***************************************************************************)
LEMMA OptionType ==
  ASSUME TypeOK, NEW p \in ProposalIds
  PROVE  /\ Len(options[p]) \in Nat
         /\ DOMAIN options[p] = 1 .. Len(options[p])
         /\ \A i \in DOMAIN options[p] : /\ options[p][i] \in Option
                                         /\ options[p][i].proposer \in Members
                                         /\ options[p][i].weightedVotes \in Nat
                                         /\ options[p][i].tokenStake \in Nat
  <1>1. options[p] \in Seq(Option)
    BY DEF TypeOK
  <1>2. Len(options[p]) \in Nat /\ DOMAIN options[p] = 1 .. Len(options[p])
    BY <1>1
  <1>3. \A i \in DOMAIN options[p] : options[p][i] \in Option
    BY <1>1, <1>2
  <1>4. \A o \in Option : /\ o.proposer \in Members
                          /\ o.weightedVotes \in Nat
                          /\ o.tokenStake \in Nat
    BY DEF Option
  <1> QED
    BY <1>2, <1>3, <1>4

(***************************************************************************)
(* A round with an option has a winner: the first of the most-voted.       *)
(***************************************************************************)
LEMMA WinnerIndexType ==
  ASSUME TypeOK, NEW p \in ProposalIds, Len(options[p]) > 0
  PROVE  WinnerIndex(p) \in 0 .. Len(options[p]) - 1
  <1> DEFINE n == Len(options[p])
             w == [i \in 1 .. n |-> options[p][i].weightedVotes]
  <1>2. n \in Nat \ {0} /\ DOMAIN options[p] = 1 .. n
    BY OptionType
  <1>3. w \in [1 .. n -> Nat]
    BY OptionType
  <1>4. PICK k \in 1 .. n : \A i \in 1 .. n :
               IF i < k THEN w[i] < w[k] ELSE w[i] <= w[k]
    <2> HIDE DEF n, w
    <2> QED
      BY <1>2, <1>3, FirstMax
  <1>5. \E j \in 0 .. n - 1 :
          LET leader == options[p][j + 1].weightedVotes
          IN  \A i \in DOMAIN options[p] :
                IF i < j + 1 THEN options[p][i].weightedVotes < leader
                             ELSE options[p][i].weightedVotes <= leader
    <2>1. k - 1 \in 0 .. n - 1 /\ (k - 1) + 1 = k
      BY <1>2
    <2>2. \A i \in 1 .. n : w[i] = options[p][i].weightedVotes
      OBVIOUS
    <2> HIDE DEF n, w
    <2> QED
      BY <1>2, <1>4, <2>1, <2>2
  <1> QED
    BY <1>5 DEF WinnerIndex

(***************************************************************************)
(* One option's share is at most its stake, and a member's shares of a     *)
(* round add up to a natural number.                                       *)
(***************************************************************************)
LEMMA ShareType ==
  ASSUME TypeOK, NEW p \in ProposalIds, NEW winner
  PROVE  /\ IsFiniteSet(DOMAIN options[p])
         /\ \A i \in DOMAIN options[p] :
              /\ Share(p, i, winner) \in Nat
              /\ Share(p, i, winner) <= options[p][i].tokenStake
         /\ OptionDistributed(p, winner) \in Nat
         /\ \A m \in Members : Sum(SharesOf(p, m, winner)) \in Nat
  <1>1. DOMAIN options[p] = 1 .. Len(options[p]) /\ Len(options[p]) \in Nat
    BY OptionType
  <1>2. IsFiniteSet(DOMAIN options[p])
    BY <1>1, FS_Interval
  <1>3. \A i \in DOMAIN options[p] :
              /\ Share(p, i, winner) \in Nat
              /\ Share(p, i, winner) <= options[p][i].tokenStake
    <2> SUFFICES ASSUME NEW i \in DOMAIN options[p]
                 PROVE  /\ Share(p, i, winner) \in Nat
                        /\ Share(p, i, winner) <= options[p][i].tokenStake
      OBVIOUS
    <2> DEFINE stake == options[p][i].tokenStake
               bps == IF i = winner + 1 THEN WINNER_REWARD_BPS ELSE LOSER_REFUND_BPS
    <2>1. stake \in Nat
      BY OptionType
    <2>2. bps \in BasisPoints
      BY ConstantTypes
    <2>3. Share(p, i, winner) = Bps(stake, bps)
      BY DEF Share
    <2> HIDE DEF stake, bps
    <2>4. Bps(stake, bps) \in Nat /\ Bps(stake, bps) <= stake
      BY <2>1, <2>2, BpsBound, Zenon
    <2>5. Share(p, i, winner) \in Nat /\ Share(p, i, winner) <= stake
      BY <2>1, <2>3, <2>4
    <2> QED
      BY <2>5 DEF stake
  <1>4. OptionDistributed(p, winner) \in Nat
    <2> DEFINE f == [i \in DOMAIN options[p] |-> Share(p, i, winner)]
    <2>1. f \in [DOMAIN options[p] -> Nat]
      BY <1>3
    <2> HIDE DEF f
    <2>2. Sum(f) \in Nat
      BY <1>2, <2>1, SumType
    <2> QED
      BY <2>2 DEF f, OptionDistributed
  <1>5. \A m \in Members : Sum(SharesOf(p, m, winner)) \in Nat
    <2> SUFFICES ASSUME NEW m \in Members
                 PROVE  Sum(SharesOf(p, m, winner)) \in Nat
      OBVIOUS
    <2> DEFINE J == {j \in DOMAIN options[p] : options[p][j].proposer = m}
    <2>1. IsFiniteSet(J)
      BY <1>2, FS_Subset
    <2>2. SharesOf(p, m, winner) \in [J -> Nat]
      BY <1>3 DEF SharesOf
    <2> HIDE DEF J
    <2> QED
      BY <2>1, <2>2, SumType
  <1> QED
    BY <1>2, <1>3, <1>4, <1>5

-----------------------------------------------------------------------------
(***************************************************************************)
(* Token calls keep the token's types.                                     *)
(***************************************************************************)
LEMMA TransferType ==
  ASSUME TokenTypeOK, NEW from \in Accounts, NEW to \in Accounts, NEW amount \in Nat,
         MoveTokens(from, to, amount)
  PROVE  balanceOf' \in [Accounts -> Nat] /\ totalSupply' \in Nat
  <1> DEFINE debited == [balanceOf EXCEPT ![from] = @ - amount]
  <1>1. debited \in [Accounts -> Nat]
    BY DEF TokenTypeOK, MoveTokens
  <1>2. balanceOf' = [debited EXCEPT ![to] = @ + amount]
    BY DEF MoveTokens
  <1>3. totalSupply' \in Nat
    BY DEF TokenTypeOK, MoveTokens
  <1> HIDE DEF debited
  <1> QED
    BY <1>1, <1>2, <1>3

\* transferFrom keeps the token well typed.
LEMMA PayType ==
  ASSUME TokenTypeOK, NEW m \in Members, NEW amount \in Nat, Pay(m, amount)
  PROVE  TokenTypeOK'
  <1>1. m \in Accounts /\ Contract \in Accounts
    BY DEF Accounts
  <1>2. MoveTokens(m, Contract, amount)
    BY DEF Pay, TransferFrom
  <1>3. allowance' \in [Accounts -> [Accounts -> Nat]]
    BY <1>1 DEF TokenTypeOK, Pay, TransferFrom
  <1> QED
    BY <1>1, <1>2, <1>3, TransferType DEF TokenTypeOK

\* transfer keeps the token well typed.
LEMMA TransferTokenType ==
  ASSUME TokenTypeOK, NEW from \in Accounts, NEW to \in Accounts, NEW amount \in Nat,
         Transfer(from, to, amount)
  PROVE  TokenTypeOK'
  BY TransferType DEF Transfer, TokenTypeOK

-----------------------------------------------------------------------------
(***************************************************************************)
(* Each field of a stored record has its type; updates of one field keep   *)
(* the record a Proposal.                                                  *)
(***************************************************************************)
LEMMA ProposalType ==
  ASSUME TypeOK, NEW p \in ProposalIds
  PROVE  /\ proposals[p] \in Proposal
         /\ {proposals[p].proposalDeadline, proposals[p].voteDeadline,
             proposals[p].orderDeadline, proposals[p].winnerOptionIndex,
             proposals[p].optionTokenPool, proposals[p].voteTokenPool,
             proposals[p].orderPool} \subseteq Nat
         /\ {proposals[p].exists, proposals[p].voteFinalized, proposals[p].settled}
              \subseteq BOOLEAN
         /\ \A m \in Members :
              /\ orders[p][m] \in Order
              /\ orders[p][m].amount \in Nat
              /\ {orders[p][m].placed, orders[p][m].cancelled} \subseteq BOOLEAN
  BY DEF TypeOK, Proposal, Order

\* A round with another pool, or settled, is a round.
LEMMA ProposalUpdate ==
  ASSUME NEW r \in Proposal, NEW n \in Nat
  PROVE  /\ [r EXCEPT !.optionTokenPool = n] \in Proposal
         /\ [r EXCEPT !.voteTokenPool = n] \in Proposal
         /\ [r EXCEPT !.orderPool = n] \in Proposal
         /\ [r EXCEPT !.settled = TRUE] \in Proposal
  BY DEF Proposal

\* A cancelled order is an order.
LEMMA OrderUpdate ==
  ASSUME NEW r \in Order
  PROVE  [r EXCEPT !.cancelled = TRUE] \in Order
  BY DEF Order

\* A finalised round is a round.
LEMMA FinalizedType ==
  ASSUME TypeOK, NEW p \in ProposalIds, CanFinalize(p)
  PROVE  Finalized(p) \in Proposal
  <1>1. WinnerIndex(p) \in Nat
    <2>1. Len(options[p]) > 0 /\ Len(options[p]) \in Nat
      BY OptionType DEF CanFinalize
    <2> QED
      BY <2>1, WinnerIndexType
  <1>2. proposals[p] \in Proposal
    BY DEF TypeOK
  <1> QED
    BY <1>1, <1>2 DEF Finalized, Proposal

\* A quote names a round, a member and an amount.
LEMMA QuoteType ==
  ASSUME NEW q \in Quotes
  PROVE  q.proposal \in ProposalIds /\ q.member \in Members /\ q.amount \in Nat
  <1>1. q \in [proposal : ProposalIds, member : Members, amount : Nat,
               expiry : Nat, signer : Signers]
    BY ContractAssumption
  <1> QED
    BY <1>1

-----------------------------------------------------------------------------
\* Storage is well typed at the start.
LEMMA InitType == Init => TypeOK
  <1> SUFFICES ASSUME Init
               PROVE  TypeOK
    OBVIOUS
  <1>1. TokenTypeOK
    BY DEF Init, TokenInit, TokenTypeOK
  <1>2. proposals \in [ProposalIds -> Proposal]
    BY DEF Init, EmptyProposal, Proposal
  <1>3. options \in [ProposalIds -> Seq(Option)]
    BY DEF Init
  <1>4. orders \in [ProposalIds -> [Members -> Order]]
    BY DEF Init, EmptyOrder, Order
  <1>5. proposalCount \in 0 .. MaxProposals
    BY ConstantTypes DEF Init
  <1> QED
    BY <1>1, <1>2, <1>3, <1>4, <1>5 DEF Init, TypeOK

(***************************************************************************)
(* Every call keeps the types of the contract's storage.                   *)
(***************************************************************************)
LEMMA StepType == TypeOK /\ [Next]_vars => TypeOK'
  <1> SUFFICES ASSUME TypeOK, [Next]_vars
               PROVE  TypeOK'
    OBVIOUS
  <1> USE DEF roundVars, orderVars, rewardVars, adminVars, tokenVars
  <1>0. TokenTypeOK /\ Members \subseteq Accounts /\ Contract \in Accounts
    BY DEF TypeOK, Accounts
  <1>1. ASSUME NEW a \in Accounts, MintTo(a) PROVE TypeOK'
    <2>1. PICK amount \in MintAmounts : Mint(a, amount)
      BY <1>1 DEF MintTo
    <2>2. amount \in Nat
      BY TokenAssumption
    <2>3. TokenTypeOK'
      BY <1>0, <2>1, <2>2 DEF Mint, TokenTypeOK
    <2> QED
      BY <1>1, <2>3 DEF MintTo, TypeOK
  <1>2. ASSUME NEW m \in Members, ApproveContract(m) PROVE TypeOK'
    <2>1. PICK amount \in Approvals : Approve(m, Contract, amount)
      BY <1>2 DEF ApproveContract
    <2>2. amount \in Nat
      BY ConstantTypes
    <2>3. TokenTypeOK'
      BY <1>0, <2>1, <2>2 DEF Approve, TokenTypeOK
    <2> QED
      BY <1>2, <2>3 DEF ApproveContract, TypeOK
  <1>3. ASSUME NEW m \in Members, NEW to \in Accounts, SendTokens(m, to) PROVE TypeOK'
    <2>1. PICK amount \in TransferAmounts : Transfer(m, to, amount)
      BY <1>3 DEF SendTokens
    <2>2. amount \in Nat
      BY ConstantTypes
    <2>3. TokenTypeOK'
      BY <1>0, <2>1, <2>2, TransferTokenType
    <2> QED
      BY <1>3, <2>3 DEF SendTokens, TypeOK
  <1>4. ASSUME NEW pd \in 1 .. MaxTime, NEW vd \in 1 .. MaxTime, NEW od \in 1 .. MaxTime,
               CreateProposal(pd, vd, od)
        PROVE TypeOK'
    <2>1. proposalCount' \in 0 .. MaxProposals
      <3>1. proposalCount < MaxProposals /\ proposalCount' = proposalCount + 1
        BY <1>4 DEF CreateProposal
      <3>2. proposalCount \in 0 .. MaxProposals /\ MaxProposals \in Nat
        BY ConstantTypes DEF TypeOK
      <3> QED
        BY <3>1, <3>2
    <2>2. [EmptyProposal EXCEPT !.proposalDeadline = pd, !.voteDeadline = vd,
                                !.orderDeadline = od, !.exists = TRUE] \in Proposal
      <3>1. pd \in Nat /\ vd \in Nat /\ od \in Nat
        BY ConstantTypes
      <3> QED
        BY <3>1, Zenon DEF EmptyProposal, Proposal
    <2>3. proposals' \in [ProposalIds -> Proposal]
      BY <1>4, <2>2 DEF CreateProposal, TypeOK
    <2> QED
      BY <1>4, <2>1, <2>3 DEF CreateProposal, TypeOK, TokenTypeOK
  <1>5. ASSUME NEW m \in Members, SubscribeMonthly(m) PROVE TypeOK'
    <2>1. SUBSCRIPTION_TOKEN_COST \in Nat /\ SUBSCRIPTION_DURATION \in Nat
      BY ConstantTypes
    <2>2. TokenTypeOK'
      BY <1>0, <1>5, <2>1, PayType DEF SubscribeMonthly
    <2>3. /\ subscriptionExpiry' \in [Members -> Nat]
          /\ treasuryTokenBalance' \in Nat
      BY <1>5, <2>1 DEF SubscribeMonthly, TypeOK
    <2> QED
      BY <1>5, <2>2, <2>3 DEF SubscribeMonthly, TypeOK
  <1>6. ASSUME NEW m \in Members, NEW p \in ProposalIds, AddOption(m, p) PROVE TypeOK'
    <2>1. OPTION_TOKEN_COST \in Nat
      BY ConstantTypes
    <2>2. TokenTypeOK'
      BY <1>0, <1>6, <2>1, PayType DEF AddOption
    <2> DEFINE o == [proposer |-> m, weightedVotes |-> 0, tokenStake |-> OPTION_TOKEN_COST]
    <2>3. o \in Option
      BY <2>1 DEF Option
    <2>4. Append(options[p], o) \in Seq(Option)
      <3> HIDE DEF o
      <3> QED
        BY <2>3 DEF TypeOK
    <2>5. options' \in [ProposalIds -> Seq(Option)]
      BY <1>6, <2>4 DEF AddOption, TypeOK
    <2>6. proposals' \in [ProposalIds -> Proposal]
      <3> DEFINE n == proposals[p].optionTokenPool + OPTION_TOKEN_COST
      <3>1. n \in Nat
        BY <2>1, ProposalType
      <3>2. proposals' = [proposals EXCEPT ![p] = [proposals[p] EXCEPT !.optionTokenPool = n]]
        BY <1>6 DEF AddOption
      <3> HIDE DEF n
      <3>3. [proposals[p] EXCEPT !.optionTokenPool = n] \in Proposal
        BY <3>1, ProposalType, ProposalUpdate
      <3> QED
        BY <3>2, <3>3 DEF TypeOK
    <2> QED
      BY <1>6, <2>2, <2>5, <2>6 DEF AddOption, TypeOK
  <1>7. ASSUME NEW m \in Members, NEW p \in ProposalIds, NEW amount \in VoteAmounts,
               NEW i \in DOMAIN options[p], Vote(m, p, i, amount)
        PROVE TypeOK'
    <2>1. amount \in Nat
      BY ConstantTypes
    <2>2. TokenTypeOK'
      BY <1>0, <1>7, <2>1, PayType DEF Vote
    <2>3. options' \in [ProposalIds -> Seq(Option)]
      <3> DEFINE o == [options[p][i] EXCEPT !.weightedVotes = @ + amount]
      <3>1. o \in Option
        BY <2>1, OptionType DEF Option
      <3>2. options[p] \in Seq(Option)
        BY DEF TypeOK
      <3>3. options' = [options EXCEPT ![p] = [options[p] EXCEPT ![i] = o]]
        BY <1>7 DEF Vote
      <3> HIDE DEF o
      <3>4. [options[p] EXCEPT ![i] = o] \in Seq(Option)
        BY <3>1, <3>2
      <3> QED
        BY <3>3, <3>4 DEF TypeOK
    <2>4. proposals' \in [ProposalIds -> Proposal]
      <3> DEFINE n == proposals[p].voteTokenPool + amount
      <3>1. n \in Nat
        BY <2>1, ProposalType
      <3>2. proposals' = [proposals EXCEPT ![p] = [proposals[p] EXCEPT !.voteTokenPool = n]]
        BY <1>7 DEF Vote
      <3> HIDE DEF n
      <3>3. [proposals[p] EXCEPT !.voteTokenPool = n] \in Proposal
        BY <3>1, ProposalType, ProposalUpdate
      <3> QED
        BY <3>2, <3>3 DEF TypeOK
    <2>5. memberVoteSpend' \in [ProposalIds -> [Members -> Nat]]
      BY <1>7, <2>1 DEF Vote, RecordSpend, TypeOK
    <2> QED
      BY <1>7, <2>2, <2>3, <2>4, <2>5 DEF Vote, TypeOK
  <1>8. ASSUME NEW p \in ProposalIds, FinalizeVote(p) PROVE TypeOK'
    <2>1. proposals' \in [ProposalIds -> Proposal]
      BY <1>8, FinalizedType DEF FinalizeVote, TypeOK
    <2> QED
      BY <1>8, <2>1 DEF FinalizeVote, TypeOK, TokenTypeOK
  <1>9. ASSUME NEW q \in Quotes, PlaceOrder(q) PROVE TypeOK'
    <2> DEFINE p == q.proposal
               m == q.member
    <2>1. p \in ProposalIds /\ m \in Members /\ q.amount \in Nat
      BY QuoteType
    <2>2. PoolForReplacement(p, m) \in Nat
      BY <1>9, <2>1, ProposalType DEF PlaceOrder, PoolForReplacement
    <2>3. /\ proposals' = [proposals EXCEPT ![p].orderPool = PoolForReplacement(p, m) + q.amount]
          /\ orders' = [orders EXCEPT ![p][m] =
                          [placed |-> TRUE, cancelled |-> FALSE, amount |-> q.amount]]
          /\ nativeBalance' = nativeBalance + q.amount
          /\ usedOrderDigests' = usedOrderDigests \cup {q}
      BY <1>9 DEF PlaceOrder
    <2>4. [placed |-> TRUE, cancelled |-> FALSE, amount |-> q.amount] \in Order
      BY <2>1 DEF Order
    <2> HIDE DEF p, m
    <2>5. proposals' \in [ProposalIds -> Proposal]
      <3> DEFINE n == PoolForReplacement(p, m) + q.amount
      <3>1. n \in Nat
        BY <2>1, <2>2
      <3>2. proposals' = [proposals EXCEPT ![p] = [proposals[p] EXCEPT !.orderPool = n]]
        BY <2>3
      <3> HIDE DEF n
      <3>3. [proposals[p] EXCEPT !.orderPool = n] \in Proposal
        BY <2>1, <3>1, ProposalType, ProposalUpdate
      <3> QED
        BY <3>2, <3>3 DEF TypeOK
    <2>6. orders' \in [ProposalIds -> [Members -> Order]]
      BY <2>1, <2>3, <2>4 DEF TypeOK
    <2>7. nativeBalance' \in Nat /\ usedOrderDigests' \subseteq Quotes
      BY <2>1, <2>3 DEF TypeOK
    <2> QED
      BY <1>9, <2>5, <2>6, <2>7 DEF PlaceOrder, TypeOK, TokenTypeOK
  <1>10. ASSUME NEW m \in Members, NEW p \in ProposalIds, CancelOrder(m, p) PROVE TypeOK'
    <2>1. orders[p][m].amount \in Nat /\ proposals[p].orderPool \in Nat
      BY ProposalType
    <2>2. proposals' \in [ProposalIds -> Proposal]
      <3> DEFINE n == proposals[p].orderPool - orders[p][m].amount
      <3>1. n \in Nat
        BY <1>10, <2>1 DEF CancelOrder
      <3>2. proposals' = [proposals EXCEPT ![p] = [proposals[p] EXCEPT !.orderPool = n]]
        BY <1>10 DEF CancelOrder
      <3> HIDE DEF n
      <3>3. [proposals[p] EXCEPT !.orderPool = n] \in Proposal
        BY <3>1, ProposalType, ProposalUpdate
      <3> QED
        BY <3>2, <3>3 DEF TypeOK
    <2>3. orders' \in [ProposalIds -> [Members -> Order]]
      <3> DEFINE r == [orders[p][m] EXCEPT !.cancelled = TRUE]
      <3>1. r \in Order
        BY ProposalType, OrderUpdate
      <3>2. orders' = [orders EXCEPT ![p] = [orders[p] EXCEPT ![m] = r]]
        BY <1>10 DEF CancelOrder, MarkCancelled
      <3> HIDE DEF r
      <3>3. [orders[p] EXCEPT ![m] = r] \in [Members -> Order]
        BY <3>1 DEF TypeOK
      <3> QED
        BY <3>2, <3>3 DEF TypeOK
    <2>4. nativeBalance' \in Nat
      BY <1>10, <2>1 DEF CancelOrder, TypeOK
    <2> QED
      BY <1>10, <2>2, <2>3, <2>4 DEF CancelOrder, TypeOK, TokenTypeOK
  <1>11. ASSUME NEW p \in ProposalIds, SettleProposal(p) PROVE TypeOK'
    <2> DEFINE final == IF proposals[p].voteFinalized THEN proposals[p] ELSE Finalized(p)
               fee == Bps(final.orderPool, ORDER_FEE_BPS)
               w == final.winnerOptionIndex
    <2>1. final \in Proposal
      BY <1>11, FinalizedType, ProposalType DEF SettleProposal
    <2>2. fee \in 0 .. final.orderPool /\ final.orderPool \in Nat
      <3>1. final.orderPool \in Nat
        BY <2>1 DEF Proposal
      <3>2. ORDER_FEE_BPS \in BasisPoints
        BY ConstantTypes
      <3>3. fee \in Nat /\ fee <= final.orderPool
        <4> HIDE DEF final
        <4> QED
          BY <3>1, <3>2, BpsBound, Zenon
      <3> QED
        BY <3>1, <3>3
    <2>3. /\ proposals' = [proposals EXCEPT ![p] = [final EXCEPT !.settled = TRUE]]
          /\ treasuryNativeBalance' = treasuryNativeBalance + fee
          /\ nativeBalance' = nativeBalance - (final.orderPool - fee)
          /\ nativeBalance >= final.orderPool - fee
          /\ claimableRewards' =
               [m \in Members |-> claimableRewards[m] + Sum(SharesOf(p, m, w))]
          /\ treasuryTokenBalance' = treasuryTokenBalance + TreasuryGain(p, w)
      BY <1>11 DEF SettleProposal
    <2> HIDE DEF final, fee, w
    <2>4. proposals' \in [ProposalIds -> Proposal]
      <3>1. [final EXCEPT !.settled = TRUE] \in Proposal
        BY <2>1, ProposalUpdate
      <3> QED
        BY <2>3, <3>1 DEF TypeOK
    <2>5. treasuryNativeBalance' \in Nat /\ nativeBalance' \in Nat
      BY <2>2, <2>3 DEF TypeOK
    <2>6. claimableRewards' \in [Members -> Nat]
      <3>1. \A m \in Members : Sum(SharesOf(p, m, w)) \in Nat
        BY ShareType
      <3> QED
        BY <2>3, <3>1 DEF TypeOK
    <2>7. treasuryTokenBalance' \in Nat
      <3>1. TreasuryGain(p, w) \in Nat
        BY ShareType, ProposalType DEF TreasuryGain
      <3> QED
        BY <2>3, <3>1 DEF TypeOK
    <2> QED
      BY <1>11, <2>4, <2>5, <2>6, <2>7 DEF SettleProposal, TypeOK, TokenTypeOK
  <1>12. ASSUME NEW m \in Members, ClaimReward(m) PROVE TypeOK'
    <2>1. claimableRewards[m] \in Nat
      BY DEF TypeOK
    <2>2. TokenTypeOK'
      BY <1>0, <1>12, <2>1, TransferTokenType DEF ClaimReward
    <2> QED
      BY <1>12, <2>2 DEF ClaimReward, TypeOK
  <1>13. ASSUME NEW to \in Accounts, NEW amount \in WithdrawAmounts,
                WithdrawTreasuryTokens(to, amount)
         PROVE TypeOK'
    <2>1. amount \in Nat
      BY ConstantTypes
    <2>2. TokenTypeOK'
      BY <1>0, <1>13, <2>1, TransferTokenType DEF WithdrawTreasuryTokens
    <2> QED
      BY <1>13, <2>1, <2>2 DEF WithdrawTreasuryTokens, TypeOK
  <1>14. ASSUME NEW amount \in WithdrawAmounts, WithdrawTreasuryNative(amount) PROVE TypeOK'
    <2>1. amount \in Nat
      BY ConstantTypes
    <2> QED
      BY <1>14, <2>1 DEF WithdrawTreasuryNative, TypeOK, TokenTypeOK
  <1>15. ASSUME NEW k \in Signers, SetSigner(k) PROVE TypeOK'
    BY <1>15 DEF SetSigner, TypeOK, TokenTypeOK
  <1>16. ASSUME NEW w \in Wallets, SetPlatformMainWallet(w) PROVE TypeOK'
    BY <1>16 DEF SetPlatformMainWallet, TypeOK, TokenTypeOK
  <1>17. CASE Tick
    BY <1>17 DEF Tick, TypeOK, TokenTypeOK
  <1>18. CASE UNCHANGED vars
    BY <1>18 DEF vars, TypeOK, TokenTypeOK
  <1> QED
    BY <1>1, <1>2, <1>3, <1>4, <1>5, <1>6, <1>7, <1>8, <1>9, <1>10, <1>11, <1>12, <1>13,
       <1>14, <1>15, <1>16, <1>17, <1>18 DEF Next

(***************************************************************************)
(* The contract's storage stays well typed: no balance, pool or treasury   *)
(* ever goes below zero, in any sequence of calls.                         *)
(***************************************************************************)
THEOREM TypeCorrect == Spec => []TypeOK
  BY InitType, StepType, PTL DEF Spec

-----------------------------------------------------------------------------
(***************************************************************************)
(* The MEAL ledger: no call creates or destroys tokens, and the contract   *)
(* can always pay every debt it has recorded.                              *)
(***************************************************************************)

(***************************************************************************)
(* A transfer moves tokens and changes no total; what it does to one       *)
(* account depends only on whether that account is an end of it.           *)
(***************************************************************************)
LEMMA MoveSum ==
  ASSUME TokenTypeOK, NEW from \in Accounts, NEW to \in Accounts, NEW amount \in Nat,
         MoveTokens(from, to, amount)
  PROVE  Sum(balanceOf') = Sum(balanceOf)
  <1> DEFINE less == balanceOf[from] - amount
             debited == [balanceOf EXCEPT ![from] = less]
             more == debited[to] + amount
  <1>1. balanceOf \in [Accounts -> Nat] /\ IsFiniteSet(Accounts)
    BY Finiteness DEF TokenTypeOK
  <1>2. less \in Nat
    BY <1>1 DEF MoveTokens
  <1>3. debited \in [Accounts -> Nat]
    BY <1>1, <1>2
  <1>4. balanceOf' = [debited EXCEPT ![to] = more]
    BY DEF MoveTokens
  <1>5. more \in Nat /\ debited[to] \in Nat
    BY <1>3
  <1>6. Sum(debited) = Sum(balanceOf) - balanceOf[from] + less
    <2> HIDE DEF less
    <2> QED
      BY <1>1, <1>2, SumUpdate, Zenon
  <1>7. Sum([debited EXCEPT ![to] = more]) = Sum(debited) - debited[to] + more
    <2> HIDE DEF debited, more
    <2> QED
      BY <1>1, <1>3, <1>5, SumUpdate, Zenon
  <1>8. Sum(balanceOf) \in Nat /\ balanceOf[from] \in Nat
    BY <1>1, SumType, Zenon
  <1>9. Sum(balanceOf) - balanceOf[from] + less = Sum(balanceOf) - amount
    BY <1>1, <1>8
  <1>10. Sum(balanceOf') = Sum(debited) - debited[to] + more
    BY <1>4, <1>7
  <1>11. more = debited[to] + amount
    OBVIOUS
  <1> HIDE DEF debited, more, less
  <1> QED
    BY <1>5, <1>6, <1>8, <1>9, <1>10, <1>11

\* What moving tokens does to the contract's own balance.
LEMMA MoveContract ==
  ASSUME TokenTypeOK, NEW from \in Accounts, NEW to \in Accounts, NEW amount \in Nat,
         MoveTokens(from, to, amount)
  PROVE  /\ from # Contract => balanceOf'[Contract] >= balanceOf[Contract]
         /\ from # Contract /\ to = Contract
              => balanceOf'[Contract] = balanceOf[Contract] + amount
         /\ from = Contract => balanceOf'[Contract] >= balanceOf[Contract] - amount
  <1> DEFINE debited == [balanceOf EXCEPT ![from] = @ - amount]
  <1>1. Contract \in Accounts /\ balanceOf \in [Accounts -> Nat]
    BY DEF Accounts, TokenTypeOK
  <1>2. debited \in [Accounts -> Nat]
    BY <1>1 DEF MoveTokens
  <1>3. balanceOf' = [debited EXCEPT ![to] = @ + amount]
    BY DEF MoveTokens
  <1>4. debited[Contract] = IF from = Contract THEN balanceOf[Contract] - amount
                                               ELSE balanceOf[Contract]
    BY <1>1
  <1> HIDE DEF debited
  <1>5. balanceOf'[Contract] = IF to = Contract THEN debited[Contract] + amount
                                                ELSE debited[Contract]
    BY <1>1, <1>2, <1>3
  <1> QED
    BY <1>1, <1>2, <1>4, <1>5

-----------------------------------------------------------------------------
(***************************************************************************)
(* Every step but a mint leaves the ledger alone or moves tokens.          *)
(***************************************************************************)
LEMMA SupplyStep == TypeOK /\ SupplyConserved /\ [Next]_vars => SupplyConserved'
  <1> SUFFICES ASSUME TypeOK, SupplyConserved, [Next]_vars
               PROVE  SupplyConserved'
    OBVIOUS
  <1> USE DEF tokenVars
  <1>0. TokenTypeOK /\ Members \subseteq Accounts /\ Contract \in Accounts
    BY DEF TypeOK, Accounts
  <1>1. ASSUME NEW from \in Accounts, NEW to \in Accounts, NEW amount \in Nat,
               MoveTokens(from, to, amount)
        PROVE  SupplyConserved'
    <2>1. Sum(balanceOf') = Sum(balanceOf) /\ totalSupply' = totalSupply
      BY <1>0, <1>1, MoveSum DEF MoveTokens
    <2> QED
      BY <2>1 DEF SupplyConserved
  <1>2. ASSUME UNCHANGED <<balanceOf, totalSupply>>
        PROVE  SupplyConserved'
    BY <1>2 DEF SupplyConserved, Sum, Units
  <1>3. ASSUME NEW a \in Accounts, MintTo(a) PROVE SupplyConserved'
    <2>1. PICK amount \in MintAmounts : Mint(a, amount)
      BY <1>3 DEF MintTo
    <2> DEFINE more == balanceOf[a] + amount
    <2>2. amount \in Nat /\ balanceOf[a] \in Nat
      BY <1>0, TokenAssumption DEF TokenTypeOK
    <2>3. balanceOf' = [balanceOf EXCEPT ![a] = more] /\ totalSupply' = totalSupply + amount
      BY <2>1 DEF Mint
    <2>4. more \in Nat /\ balanceOf \in [Accounts -> Nat] /\ IsFiniteSet(Accounts)
      BY <1>0, <2>2, Finiteness DEF TokenTypeOK
    <2>5. Sum([balanceOf EXCEPT ![a] = more]) = Sum(balanceOf) - balanceOf[a] + more
      <3> HIDE DEF more
      <3> QED
        BY <2>4, SumUpdate, Zenon
    <2>6. Sum(balanceOf') = Sum(balanceOf) - balanceOf[a] + more
      BY <2>3, <2>5
    <2>7. Sum(balanceOf) \in Nat
      BY <2>4, SumType, Zenon
    <2> QED
      BY <2>2, <2>3, <2>6, <2>7 DEF SupplyConserved
  <1>4. ASSUME NEW m \in Members, NEW amount \in Nat, Pay(m, amount)
        PROVE  SupplyConserved'
    BY <1>0, <1>1, <1>4 DEF Pay, TransferFrom
  <1>5. ASSUME NEW from \in Accounts, NEW to \in Accounts, NEW amount \in Nat,
               Transfer(from, to, amount)
        PROVE  SupplyConserved'
    BY <1>1, <1>5 DEF Transfer
  <1>6. ASSUME NEW m \in Members, ApproveContract(m) PROVE SupplyConserved'
    BY <1>2, <1>6 DEF ApproveContract, Approve
  <1>7. ASSUME NEW m \in Members, NEW to \in Accounts, SendTokens(m, to)
        PROVE  SupplyConserved'
    <2>1. PICK amount \in TransferAmounts : Transfer(m, to, amount)
      BY <1>7 DEF SendTokens
    <2>2. amount \in Nat /\ m \in Accounts
      BY <1>0, ConstantTypes
    <2> QED
      BY <1>5, <2>1, <2>2
  <1>8. ASSUME NEW m \in Members, SubscribeMonthly(m) PROVE SupplyConserved'
    <2>1. Pay(m, SUBSCRIPTION_TOKEN_COST)
      BY <1>8 DEF SubscribeMonthly
    <2>2. SUBSCRIPTION_TOKEN_COST \in Nat
      BY ConstantTypes
    <2> QED
      BY <1>4, <2>1, <2>2
  <1>9. ASSUME NEW m \in Members, NEW p \in ProposalIds, AddOption(m, p)
        PROVE  SupplyConserved'
    <2>1. Pay(m, OPTION_TOKEN_COST)
      BY <1>9 DEF AddOption
    <2>2. OPTION_TOKEN_COST \in Nat
      BY ConstantTypes
    <2> QED
      BY <1>4, <2>1, <2>2
  <1>10. ASSUME NEW m \in Members, NEW p \in ProposalIds, NEW amount \in VoteAmounts,
                NEW i \in DOMAIN options[p], Vote(m, p, i, amount)
         PROVE  SupplyConserved'
    <2>1. Pay(m, amount)
      BY <1>10 DEF Vote
    <2>2. amount \in Nat
      BY ConstantTypes
    <2> QED
      BY <1>4, <2>1, <2>2
  <1>11. ASSUME NEW m \in Members, ClaimReward(m) PROVE SupplyConserved'
    <2>1. claimableRewards[m] \in Nat
      BY DEF TypeOK
    <2>2. Transfer(Contract, m, claimableRewards[m])
      BY <1>11 DEF ClaimReward
    <2> QED
      BY <1>0, <1>5, <2>1, <2>2
  <1>12. ASSUME NEW to \in Accounts, NEW amount \in WithdrawAmounts,
                WithdrawTreasuryTokens(to, amount)
         PROVE  SupplyConserved'
    <2>1. Transfer(Contract, to, amount)
      BY <1>12 DEF WithdrawTreasuryTokens
    <2>2. amount \in Nat
      BY ConstantTypes
    <2> QED
      BY <1>0, <1>5, <2>1, <2>2
  <1>13. ASSUME UNCHANGED tokenVars PROVE SupplyConserved'
    BY <1>2, <1>13
  <1>14. ASSUME NEW pd \in 1 .. MaxTime, NEW vd \in 1 .. MaxTime, NEW od \in 1 .. MaxTime,
                CreateProposal(pd, vd, od)
         PROVE  SupplyConserved'
    BY <1>13, <1>14 DEF CreateProposal
  <1>15. ASSUME NEW p \in ProposalIds, FinalizeVote(p) PROVE SupplyConserved'
    BY <1>13, <1>15 DEF FinalizeVote
  <1>16. ASSUME NEW p \in ProposalIds, SettleProposal(p) PROVE SupplyConserved'
    BY <1>13, <1>16 DEF SettleProposal
  <1>17. ASSUME NEW q \in Quotes, PlaceOrder(q) PROVE SupplyConserved'
    BY <1>13, <1>17 DEF PlaceOrder
  <1>18. ASSUME NEW m \in Members, NEW p \in ProposalIds, CancelOrder(m, p)
         PROVE  SupplyConserved'
    BY <1>13, <1>18 DEF CancelOrder
  <1>19. ASSUME NEW amount \in WithdrawAmounts, WithdrawTreasuryNative(amount)
         PROVE  SupplyConserved'
    BY <1>13, <1>19 DEF WithdrawTreasuryNative
  <1>20. ASSUME NEW k \in Signers, SetSigner(k) PROVE SupplyConserved'
    BY <1>13, <1>20 DEF SetSigner
  <1>21. ASSUME NEW w \in Wallets, SetPlatformMainWallet(w) PROVE SupplyConserved'
    BY <1>13, <1>21 DEF SetPlatformMainWallet
  <1>22. ASSUME Tick PROVE SupplyConserved'
    BY <1>13, <1>22 DEF Tick
  <1>23. ASSUME UNCHANGED vars PROVE SupplyConserved'
    BY <1>13, <1>23 DEF vars
  <1>24. CASE Next
    BY <1>3, <1>6, <1>7, <1>8, <1>9, <1>10, <1>11, <1>12, <1>14, <1>15, <1>16, <1>17,
       <1>18, <1>19, <1>20, <1>21, <1>22, <1>24 DEF Next
  <1> QED
    BY <1>23, <1>24

\* Nothing is minted at the start.
LEMMA SupplyInit == Init => SupplyConserved
  <1> SUFFICES ASSUME Init
               PROVE  SupplyConserved
    OBVIOUS
  <1>1. \A x \in DOMAIN balanceOf : balanceOf[x] = 0
    BY DEF Init, TokenInit
  <1>2. Sum(balanceOf) = 0
    BY <1>1, SumZero, Zenon
  <1> QED
    BY <1>2 DEF Init, TokenInit, SupplyConserved

(***************************************************************************)
(* No sequence of calls creates or destroys MEAL: whatever is staked,      *)
(* voted, rewarded or withdrawn, the balances add up to what was minted.   *)
(***************************************************************************)
THEOREM SupplyIsConserved == Spec => []SupplyConserved
  <1>1. Init => TypeOK /\ SupplyConserved
    BY InitType, SupplyInit
  <1>2. TypeOK /\ SupplyConserved /\ [Next]_vars => (TypeOK /\ SupplyConserved)'
    BY StepType, SupplyStep
  <1> QED
    BY <1>1, <1>2, PTL DEF Spec
-----------------------------------------------------------------------------
(***************************************************************************)
(* Solvency is not inductive alone: settlement must not distribute more    *)
(* than the round's option pool, which holds because that pool is the sum  *)
(* of its options' stakes, and rounds not yet created must be empty.       *)
(***************************************************************************)
Stakes(p) == [i \in DOMAIN options[p] |-> options[p][i].tokenStake]

StakesPooled == \A p \in ProposalIds : proposals[p].optionTokenPool = Sum(Stakes(p))

UnusedEmpty ==
  \A p \in ProposalIds : p >= proposalCount =>
    proposals[p] = EmptyProposal /\ options[p] = <<>>

TokenInv == TypeOK /\ StakesPooled /\ UnusedEmpty /\ TokenSolvent

(***************************************************************************)
(* A step creates a round, or changes at most one round, which exists.     *)
(***************************************************************************)
LEMMA RoundFrame ==
  ASSUME TypeOK, [Next]_vars
  PROVE  \/ \E pd, vd, od \in 1 .. MaxTime : CreateProposal(pd, vd, od)
         \/ UNCHANGED <<proposalCount, proposals, options>>
         \/ /\ UNCHANGED proposalCount
            /\ \E p \in ProposalIds :
                 /\ proposals[p].exists
                 /\ \A q \in ProposalIds \ {p} : /\ proposals'[q] = proposals[q]
                                                 /\ options'[q] = options[q]
  <1> DEFINE Only(p) == \A q \in ProposalIds \ {p} : /\ proposals'[q] = proposals[q]
                                                     /\ options'[q] = options[q]
             Touch == /\ UNCHANGED proposalCount
                      /\ \E p \in ProposalIds : proposals[p].exists /\ Only(p)
             Same == UNCHANGED <<proposalCount, proposals, options>>
  <1> USE DEF roundVars
  <1>0. /\ proposals \in [ProposalIds -> Proposal]
        /\ options \in [ProposalIds -> Seq(Option)]
    BY DEF TypeOK
  <1>1. ASSUME NEW m \in Members, NEW p \in ProposalIds, AddOption(m, p) PROVE Touch
    BY <1>0, <1>1 DEF AddOption
  <1>2. ASSUME NEW m \in Members, NEW p \in ProposalIds, NEW amount \in VoteAmounts,
               NEW i \in DOMAIN options[p], Vote(m, p, i, amount)
        PROVE Touch
    BY <1>0, <1>2 DEF Vote
  <1>3. ASSUME NEW p \in ProposalIds, FinalizeVote(p) PROVE Touch
    BY <1>0, <1>3 DEF FinalizeVote, CanFinalize
  <1>4. ASSUME NEW q \in Quotes, PlaceOrder(q) PROVE Touch
    BY <1>0, <1>4, QuoteType DEF PlaceOrder, OrderWindow
  <1>5. ASSUME NEW m \in Members, NEW p \in ProposalIds, CancelOrder(m, p) PROVE Touch
    BY <1>0, <1>5 DEF CancelOrder
  <1>6. ASSUME NEW p \in ProposalIds, SettleProposal(p) PROVE Touch
    BY <1>0, <1>6 DEF SettleProposal
  <1>7. ASSUME \/ \E a \in Accounts : MintTo(a)
               \/ \E m \in Members : ApproveContract(m)
               \/ \E m \in Members, to \in Accounts : SendTokens(m, to)
               \/ \E m \in Members : SubscribeMonthly(m)
               \/ \E m \in Members : ClaimReward(m)
               \/ \E to \in Accounts, amount \in WithdrawAmounts :
                    WithdrawTreasuryTokens(to, amount)
               \/ \E amount \in WithdrawAmounts : WithdrawTreasuryNative(amount)
               \/ \E k \in Signers : SetSigner(k)
               \/ \E w \in Wallets : SetPlatformMainWallet(w)
               \/ Tick
               \/ UNCHANGED vars
        PROVE  Same
    BY <1>7 DEF MintTo, ApproveContract, SendTokens, SubscribeMonthly, ClaimReward,
                WithdrawTreasuryTokens, WithdrawTreasuryNative, SetSigner,
                SetPlatformMainWallet, Tick, vars
  <1> HIDE DEF Touch, Same
  <1>8. (\E pd, vd, od \in 1 .. MaxTime : CreateProposal(pd, vd, od)) \/ Same \/ Touch
    BY <1>1, <1>2, <1>3, <1>4, <1>5, <1>6, <1>7 DEF Next
  <1> QED
    BY <1>8 DEF Touch, Same

\* A round that is not created stays empty, whatever is called.
LEMMA UnusedStep ==
  ASSUME TypeOK, UnusedEmpty, [Next]_vars
  PROVE  UnusedEmpty'
  <1> SUFFICES ASSUME NEW q \in ProposalIds, q >= proposalCount'
               PROVE  proposals'[q] = EmptyProposal /\ options'[q] = <<>>
    BY DEF UnusedEmpty
  <1>0. proposalCount \in Nat /\ q \in Nat
    BY ConstantTypes DEF TypeOK
  <1>1. q >= proposalCount => proposals[q] = EmptyProposal /\ options[q] = <<>>
    BY DEF UnusedEmpty
  <1>2. ASSUME NEW pd \in 1 .. MaxTime, NEW vd \in 1 .. MaxTime, NEW od \in 1 .. MaxTime,
               CreateProposal(pd, vd, od)
        PROVE  proposals'[q] = EmptyProposal /\ options'[q] = <<>>
    <2>1. q # proposalCount /\ q >= proposalCount
      BY <1>0, <1>2 DEF CreateProposal
    <2>2. proposals'[q] = proposals[q] /\ options'[q] = options[q]
      BY <1>2, <2>1 DEF CreateProposal, TypeOK
    <2> QED
      BY <1>1, <2>1, <2>2
  <1>3. CASE UNCHANGED <<proposalCount, proposals, options>>
    BY <1>1, <1>3
  <1>4. ASSUME UNCHANGED proposalCount, NEW p \in ProposalIds, proposals[p].exists,
               \A r \in ProposalIds \ {p} : /\ proposals'[r] = proposals[r]
                                            /\ options'[r] = options[r]
        PROVE  proposals'[q] = EmptyProposal /\ options'[q] = <<>>
    <2>1. proposals[q] = EmptyProposal /\ options[q] = <<>>
      BY <1>1, <1>4
    <2>2. q # p
      BY <1>4, <2>1 DEF EmptyProposal
    <2> QED
      BY <1>4, <2>1, <2>2
  <1> QED
    BY <1>2, <1>3, <1>4, RoundFrame

(***************************************************************************)
(* The pool of a round follows its options: addOption raises both by the   *)
(* same amount and no other call changes either.                           *)
(***************************************************************************)
LEMMA StakesType ==
  ASSUME TypeOK, NEW p \in ProposalIds
  PROVE  /\ Stakes(p) \in [DOMAIN options[p] -> Nat]
         /\ IsFiniteSet(DOMAIN options[p])
  BY OptionType, ShareType DEF Stakes

\* Every call keeps a round's pool at the sum of its stakes.
LEMMA StakesStep ==
  ASSUME TypeOK, TypeOK', UnusedEmpty, StakesPooled, [Next]_vars
  PROVE  StakesPooled'
  <1> USE DEF roundVars
  <1>0. /\ proposals \in [ProposalIds -> Proposal]
        /\ options \in [ProposalIds -> Seq(Option)]
        /\ proposalCount \in Nat
    BY DEF TypeOK
  <1>1. ASSUME UNCHANGED options,
               \A q \in ProposalIds :
                 proposals'[q].optionTokenPool = proposals[q].optionTokenPool
        PROVE  StakesPooled'
    BY <1>1 DEF StakesPooled, Stakes
  <1>2. ASSUME NEW pd \in 1 .. MaxTime, NEW vd \in 1 .. MaxTime, NEW od \in 1 .. MaxTime,
               CreateProposal(pd, vd, od)
        PROVE  StakesPooled'
    <2>1. proposalCount \in ProposalIds
      BY <1>0, <1>2, ConstantTypes DEF CreateProposal
    <2>2. proposals[proposalCount] = EmptyProposal
      BY <1>0, <2>1 DEF UnusedEmpty
    <2>3. \A q \in ProposalIds :
            proposals'[q].optionTokenPool = proposals[q].optionTokenPool
      BY <1>0, <1>2, <2>2 DEF CreateProposal, EmptyProposal
    <2> QED
      BY <1>1, <1>2, <2>3 DEF CreateProposal
  <1>3. ASSUME NEW m \in Members, NEW p \in ProposalIds, AddOption(m, p)
        PROVE  StakesPooled'
    <2> DEFINE n == Len(options[p])
               o == [proposer |-> m, weightedVotes |-> 0, tokenStake |-> OPTION_TOKEN_COST]
               f == Stakes(p)
               g == [i \in DOMAIN options'[p] |-> options'[p][i].tokenStake]
    <2>1. n \in Nat /\ f \in [1 .. n -> Nat] /\ f = [i \in 1 .. n |-> options[p][i].tokenStake]
      BY OptionType, StakesType DEF Stakes
    <2>2. options'[p] = Append(options[p], o) /\ OPTION_TOKEN_COST \in Nat
      <3>1. OPTION_TOKEN_COST \in Nat
        BY ConstantTypes
      <3>2. options' = [options EXCEPT ![p] = Append(options[p], o)]
        BY <1>3 DEF AddOption
      <3> HIDE DEF o
      <3> QED
        BY <1>0, <3>1, <3>2
    <2>3. /\ DOMAIN options'[p] = 1 .. n + 1
          /\ \A i \in 1 .. n : options'[p][i] = options[p][i]
          /\ options'[p][n + 1] = o
      <3>1. options[p] \in Seq(Option)
        BY <1>0
      <3> HIDE DEF o
      <3> QED
        BY <2>2, <3>1
    <2>4. /\ g \in [1 .. n + 1 -> Nat]
          /\ \A i \in 1 .. n : g[i] = f[i]
          /\ g[n + 1] = OPTION_TOKEN_COST
      <3>1. g = [i \in 1 .. n + 1 |-> options'[p][i].tokenStake]
        BY <2>3
      <3>2. \A i \in 1 .. n : g[i] = f[i] /\ f[i] \in Nat
        <4> SUFFICES ASSUME NEW i \in 1 .. n
                     PROVE  g[i] = f[i] /\ f[i] \in Nat
          OBVIOUS
        <4>1. i \in 1 .. n + 1
          BY <2>1
        <4>2. g[i] = options'[p][i].tokenStake
          BY <3>1, <4>1
        <4> QED
          BY <2>1, <2>3, <4>2
      <3>3. g[n + 1] = OPTION_TOKEN_COST
        BY <2>1, <2>3, <3>1
      <3>4. \A i \in 1 .. n + 1 : i \in 1 .. n \/ i = n + 1
        BY <2>1
      <3> HIDE DEF g, f, n
      <3>5. \A i \in 1 .. n + 1 : g[i] \in Nat
        BY <2>2, <3>2, <3>3, <3>4
      <3> QED
        BY <3>1, <3>2, <3>3, <3>5
    <2>5. Sum(g) = Sum(f) + g[n + 1]
      <3> HIDE DEF g, f, n
      <3> QED
        BY <2>1, <2>4, SumAppend, Zenon
    <2>6. proposals'[p].optionTokenPool = Sum(Stakes(p)')
      <3>1. proposals'[p].optionTokenPool = proposals[p].optionTokenPool + OPTION_TOKEN_COST
        BY <1>0, <1>3 DEF AddOption, Proposal
      <3>2. proposals[p].optionTokenPool = Sum(f)
        BY DEF StakesPooled
      <3>3. Stakes(p)' = g
        BY DEF Stakes
      <3>4. Sum(g) = Sum(f) + OPTION_TOKEN_COST
        BY <2>4, <2>5
      <3> QED
        BY <3>1, <3>2, <3>3, <3>4
    <2>7. \A q \in ProposalIds \ {p} :
            /\ proposals'[q].optionTokenPool = proposals[q].optionTokenPool
            /\ options'[q] = options[q]
      BY <1>0, <1>3 DEF AddOption
    <2> QED
      BY <2>6, <2>7 DEF StakesPooled, Stakes
  <1>4. ASSUME NEW m \in Members, NEW p \in ProposalIds, NEW amount \in VoteAmounts,
               NEW i \in DOMAIN options[p], Vote(m, p, i, amount)
        PROVE  StakesPooled'
    <2>1. /\ DOMAIN options'[p] = DOMAIN options[p]
          /\ \A j \in DOMAIN options[p] :
               options'[p][j].tokenStake = options[p][j].tokenStake
      BY <1>0, <1>4, OptionType DEF Vote, Option
    <2>2. \A q \in ProposalIds \ {p} : options'[q] = options[q]
      BY <1>0, <1>4 DEF Vote
    <2>3. \A q \in ProposalIds :
            proposals'[q].optionTokenPool = proposals[q].optionTokenPool
      BY <1>0, <1>4 DEF Vote, Proposal
    <2>4. \A q \in ProposalIds : Stakes(q)' = Stakes(q)
      BY <2>1, <2>2 DEF Stakes
    <2> QED
      BY <2>3, <2>4 DEF StakesPooled
  <1>5. ASSUME NEW p \in ProposalIds, FinalizeVote(p) PROVE StakesPooled'
    BY <1>0, <1>1, <1>5 DEF FinalizeVote, Finalized, Proposal
  <1>6. ASSUME NEW q \in Quotes, PlaceOrder(q) PROVE StakesPooled'
    BY <1>0, <1>1, <1>6, QuoteType DEF PlaceOrder, Proposal
  <1>7. ASSUME NEW m \in Members, NEW p \in ProposalIds, CancelOrder(m, p)
        PROVE  StakesPooled'
    BY <1>0, <1>1, <1>7 DEF CancelOrder, Proposal
  <1>8. ASSUME NEW p \in ProposalIds, SettleProposal(p) PROVE StakesPooled'
    BY <1>0, <1>1, <1>8 DEF SettleProposal, Finalized, Proposal
  <1>9. ASSUME UNCHANGED <<proposals, options>> PROVE StakesPooled'
    BY <1>1, <1>9
  <1>10. ASSUME \/ \E a \in Accounts : MintTo(a)
                \/ \E m \in Members : ApproveContract(m)
                \/ \E m \in Members, to \in Accounts : SendTokens(m, to)
                \/ \E m \in Members : SubscribeMonthly(m)
                \/ \E m \in Members : ClaimReward(m)
                \/ \E to \in Accounts, amount \in WithdrawAmounts :
                     WithdrawTreasuryTokens(to, amount)
                \/ \E amount \in WithdrawAmounts : WithdrawTreasuryNative(amount)
                \/ \E k \in Signers : SetSigner(k)
                \/ \E w \in Wallets : SetPlatformMainWallet(w)
                \/ Tick
                \/ UNCHANGED vars
         PROVE  UNCHANGED <<proposals, options>>
    BY <1>10 DEF MintTo, ApproveContract, SendTokens, SubscribeMonthly, ClaimReward,
                 WithdrawTreasuryTokens, WithdrawTreasuryNative, SetSigner,
                 SetPlatformMainWallet, Tick, vars
  <1> QED
    BY <1>2, <1>3, <1>4, <1>5, <1>6, <1>7, <1>8, <1>9, <1>10 DEF Next
-----------------------------------------------------------------------------
Pools == [p \in ProposalIds |-> OpenPool(p)]

\* The pools, rewards and balances that solvency adds up are numbers.
LEMMA PoolsType ==
  ASSUME TypeOK
  PROVE  /\ Pools \in [ProposalIds -> Nat]
         /\ Sum(Pools) \in Nat
         /\ claimableRewards \in [Members -> Nat]
         /\ Sum(claimableRewards) \in Nat
         /\ treasuryTokenBalance \in Nat
         /\ balanceOf[Contract] \in Nat
  <1>1. Pools \in [ProposalIds -> Nat]
    BY ProposalType DEF Pools, OpenPool
  <1>2. claimableRewards \in [Members -> Nat]
    BY DEF TypeOK
  <1>3. Sum(Pools) \in Nat
    BY <1>1, Finiteness, SumType, Zenon
  <1>4. Sum(claimableRewards) \in Nat
    BY <1>2, Finiteness, SumType, Zenon
  <1>5. treasuryTokenBalance \in Nat /\ balanceOf[Contract] \in Nat
    BY DEF TypeOK, TokenTypeOK, Accounts
  <1> QED
    BY <1>1, <1>2, <1>3, <1>4, <1>5

\* TokenSolvent, with the pools of open rounds as one sum.
LEMMA SolventDef == TokenSolvent <=>
    balanceOf[Contract] >= treasuryTokenBalance + Sum(claimableRewards) + Sum(Pools)
  BY DEF TokenSolvent, Pools

(***************************************************************************)
(* A step that changes one round changes the sum of the pools by as much   *)
(* as that round's open pool.                                              *)
(***************************************************************************)
LEMMA PoolsUpdate ==
  ASSUME TypeOK, TypeOK', NEW p \in ProposalIds,
         \A q \in ProposalIds \ {p} : proposals'[q] = proposals[q]
  PROVE  /\ Sum(Pools)' = Sum(Pools) - OpenPool(p) + OpenPool(p)'
         /\ OpenPool(p) <= Sum(Pools)
         /\ OpenPool(p) \in Nat /\ OpenPool(p)' \in Nat
  <1> DEFINE v == OpenPool(p)'
             pools == Pools
  <1>1. pools \in [ProposalIds -> Nat] /\ IsFiniteSet(ProposalIds)
    BY PoolsType, Finiteness
  <1>2. pools[p] = OpenPool(p)
    BY DEF Pools
  <1>3. v \in Nat
    <2>1. proposals'[p] \in Proposal
      BY DEF TypeOK
    <2> QED
      BY <2>1 DEF OpenPool, Proposal
  <1>4. Pools' = [pools EXCEPT ![p] = v]
    BY DEF Pools, OpenPool
  <1> HIDE DEF v, pools
  <1>5. Sum([pools EXCEPT ![p] = v]) = Sum(pools) - pools[p] + v /\ pools[p] <= Sum(pools)
    BY <1>1, <1>3, SumUpdate, Zenon
  <1>6. Sum(Pools') = Sum(pools) - OpenPool(p) + v /\ OpenPool(p) <= Sum(pools)
    BY <1>2, <1>4, <1>5
  <1> QED
    BY <1>1, <1>2, <1>3, <1>6 DEF v, pools

\* Rounds that keep their pools keep the sum.
LEMMA PoolsSame ==
  ASSUME \A q \in ProposalIds : OpenPool(q)' = OpenPool(q)
  PROVE  Sum(Pools)' = Sum(Pools)
  <1>1. Pools' = Pools
    BY DEF Pools
  <1> QED
    BY <1>1 DEF Sum, Units

(***************************************************************************)
(* Settlement turns a round's pool into rewards and treasury income of     *)
(* exactly the same amount.                                                *)
(***************************************************************************)
LEMMA Distribution ==
  ASSUME TypeOK, StakesPooled, NEW p \in ProposalIds, NEW winner
  PROVE  /\ OptionDistributed(p, winner) \in Nat
         /\ OptionDistributed(p, winner) <= proposals[p].optionTokenPool
         /\ Sum([m \in Members |-> Sum(SharesOf(p, m, winner))]) = OptionDistributed(p, winner)
  <1> DEFINE D == DOMAIN options[p]
             f == [i \in D |-> Share(p, i, winner)]
             own == [i \in D |-> options[p][i].proposer]
             st == Stakes(p)
  <1>1. OptionDistributed(p, winner) = Sum(f)
    BY DEF OptionDistributed
  <1>2. IsFiniteSet(D) /\ IsFiniteSet(Members)
    BY ShareType, Finiteness
  <1>3. f \in [D -> Nat] /\ OptionDistributed(p, winner) \in Nat
    BY ShareType
  <1>4. own \in [D -> Members]
    BY OptionType
  <1>5. st \in [D -> Nat]
    BY StakesType
  <1>6. \A i \in D : f[i] <= st[i]
    BY ShareType DEF Stakes
  <1>7. Sum(f) <= Sum(st)
    <2> HIDE DEF D, f, st
    <2> QED
      BY <1>2, <1>3, <1>5, <1>6, SumLeq, Zenon
  <1>8. proposals[p].optionTokenPool = Sum(st)
    BY DEF StakesPooled
  <1>9. Sum([m \in Members |-> Sum([i \in {j \in D : own[j] = m} |-> f[i]])]) = Sum(f)
    <2> HIDE DEF D, f, own
    <2>1. ByOwner(Members, D, f, own) = Sum(f)
      BY <1>2, <1>3, <1>4, SumOverOwners, Zenon
    <2> QED
      BY <2>1 DEF ByOwner
  <1>10. \A m \in Members : SharesOf(p, m, winner) = [i \in {j \in D : own[j] = m} |-> f[i]]
    BY DEF SharesOf
  <1>11. [m \in Members |-> Sum(SharesOf(p, m, winner))]
           = [m \in Members |-> Sum([i \in {j \in D : own[j] = m} |-> f[i]])]
    <2> HIDE DEF D, f, own
    <2> QED
      BY <1>10, Zenon
  <1> HIDE DEF D, f, own, st
  <1> QED
    BY <1>1, <1>3, <1>7, <1>8, <1>9, <1>11

(***************************************************************************)
(* The three kinds of step that move debts.                                *)
(***************************************************************************)
LEMMA SettleSolvent ==
  ASSUME TypeOK, TypeOK', StakesPooled, TokenSolvent,
         NEW p \in ProposalIds, SettleProposal(p)
  PROVE  TokenSolvent'
  <1> DEFINE final == IF proposals[p].voteFinalized THEN proposals[p] ELSE Finalized(p)
             w == final.winnerOptionIndex
             shares == [m \in Members |-> Sum(SharesOf(p, m, w))]
             rewards == claimableRewards
             D == OptionDistributed(p, w)
             pool == proposals[p].optionTokenPool
             votes == proposals[p].voteTokenPool
  <1>1. /\ proposals' = [proposals EXCEPT ![p] = [final EXCEPT !.settled = TRUE]]
        /\ claimableRewards' = [m \in Members |-> claimableRewards[m] + Sum(SharesOf(p, m, w))]
        /\ treasuryTokenBalance' = treasuryTokenBalance + TreasuryGain(p, w)
        /\ UNCHANGED tokenVars
        /\ ~proposals[p].settled
        /\ proposals[p].voteFinalized \/ CanFinalize(p)
    BY DEF SettleProposal
  <1>2. final \in Proposal
    BY <1>1, FinalizedType, ProposalType
  <1>3. \A m \in Members : Sum(SharesOf(p, m, w)) \in Nat
    <2> HIDE DEF w
    <2> QED
      BY ShareType
  <1>4. D \in Nat /\ D <= pool /\ Sum(shares) = D
    <2> HIDE DEF w
    <2> QED
      BY Distribution
  <1>5. TreasuryGain(p, w) = votes + (pool - D)
    <2>1. pool \in Nat /\ votes \in Nat
      BY ProposalType
    <2>2. TreasuryGain(p, w) = votes + (IF pool > D THEN pool - D ELSE 0)
      BY DEF TreasuryGain
    <2> HIDE DEF D, pool, votes
    <2> QED
      BY <1>4, <2>1, <2>2
  <1>6. OpenPool(p) = pool + votes /\ pool \in Nat /\ votes \in Nat
    BY <1>1, ProposalType DEF OpenPool
  <1>7. OpenPool(p)' = 0
    <2> HIDE DEF final
    <2>1. proposals'[p].settled = TRUE
      BY <1>1, <1>2 DEF TypeOK, Proposal
    <2> QED
      BY <2>1 DEF OpenPool
  <1>8. \A q \in ProposalIds \ {p} : proposals'[q] = proposals[q]
    BY <1>1 DEF TypeOK
  <1>9. /\ Sum(Pools)' = Sum(Pools) - OpenPool(p) + OpenPool(p)'
        /\ OpenPool(p) <= Sum(Pools)
    BY <1>8, PoolsUpdate
  <1>10. Sum(claimableRewards') = Sum(claimableRewards) + D
    <2>1. claimableRewards' = [m \in Members |-> rewards[m] + shares[m]]
      BY <1>1
    <2>2. shares \in [Members -> Nat] /\ rewards \in [Members -> Nat] /\ IsFiniteSet(Members)
      BY <1>3, Finiteness DEF TypeOK
    <2> HIDE DEF shares, rewards
    <2>3. Sum([m \in Members |-> rewards[m] + shares[m]]) = Sum(rewards) + Sum(shares)
      BY <2>2, SumPlus, Zenon
    <2>4. Sum(claimableRewards') = Sum(rewards) + D
      BY <1>4, <2>1, <2>3
    <2> QED
      BY <2>4 DEF rewards
  <1>11. balanceOf'[Contract] = balanceOf[Contract]
    BY <1>1 DEF tokenVars
  <1>12. balanceOf[Contract] >= treasuryTokenBalance + Sum(claimableRewards) + Sum(Pools)
    BY SolventDef
  <1> HIDE DEF D, pool, votes, w
  <1>13. balanceOf'[Contract]
            >= treasuryTokenBalance' + Sum(claimableRewards') + Sum(Pools)'
    BY <1>1, <1>4, <1>5, <1>6, <1>7, <1>9, <1>10, <1>11, <1>12, PoolsType
  <1> QED
    BY <1>13 DEF TokenSolvent, Pools

\* claimReward pays one debt out of the balance.
LEMMA ClaimSolvent ==
  ASSUME TypeOK, TypeOK', TokenSolvent, NEW m \in Members, ClaimReward(m)
  PROVE  TokenSolvent'
  <1> DEFINE r == claimableRewards[m]
             rewards == claimableRewards
  <1>1. /\ rewards \in [Members -> Nat] /\ IsFiniteSet(Members) /\ 0 \in Nat /\ r \in Nat
    BY Finiteness, PoolsType
  <1>2. claimableRewards' = [rewards EXCEPT ![m] = 0] /\ UNCHANGED <<treasuryTokenBalance, proposals>>
    BY DEF ClaimReward, roundVars
  <1>3. Sum([rewards EXCEPT ![m] = 0]) = Sum(rewards) - rewards[m] + 0
    <2> HIDE DEF rewards
    <2> QED
      BY <1>1, SumUpdate, Zenon
  <1>4. Sum(claimableRewards') = Sum(claimableRewards) - r
    <2>1. Sum(claimableRewards') = Sum(rewards) - rewards[m] + 0
      BY <1>2, <1>3
    <2> QED
      BY <1>1, <2>1, PoolsType
  <1>5. balanceOf'[Contract] >= balanceOf[Contract] - r
    <2>1. MoveTokens(Contract, m, r)
      BY DEF ClaimReward, Transfer
    <2>2. TokenTypeOK /\ Contract \in Accounts /\ m \in Accounts
      BY DEF TypeOK, Accounts
    <2> HIDE DEF r
    <2> QED
      BY <1>1, <2>1, <2>2, MoveContract
  <1>6. Sum(Pools)' = Sum(Pools)
    BY <1>2, PoolsSame DEF OpenPool
  <1>7. balanceOf[Contract] >= treasuryTokenBalance + Sum(claimableRewards) + Sum(Pools)
    BY SolventDef
  <1>8. balanceOf'[Contract] \in Nat
    BY DEF TypeOK, TokenTypeOK, Accounts
  <1> HIDE DEF r
  <1>9. balanceOf'[Contract]
            >= treasuryTokenBalance' + Sum(claimableRewards') + Sum(Pools)'
    BY <1>1, <1>2, <1>4, <1>5, <1>6, <1>7, <1>8, PoolsType
  <1> QED
    BY <1>9 DEF TokenSolvent, Pools

\* What is paid in covers what the pools and the treasury grow by.
LEMMA PaySolvent ==
  ASSUME TypeOK, TypeOK', TokenSolvent, NEW m \in Members, NEW amount \in Nat,
         Pay(m, amount), UNCHANGED claimableRewards,
         treasuryTokenBalance' + Sum(Pools)' <= treasuryTokenBalance + Sum(Pools) + amount
  PROVE  TokenSolvent'
  <1>1. MoveTokens(m, Contract, amount)
    BY DEF Pay, TransferFrom
  <1>2. TokenTypeOK /\ m \in Accounts /\ Contract \in Accounts /\ m # Contract
    BY TokenAssumption DEF TypeOK, Accounts
  <1>3. balanceOf'[Contract] = balanceOf[Contract] + amount
    BY <1>1, <1>2, MoveContract
  <1>4. balanceOf[Contract] >= treasuryTokenBalance + Sum(claimableRewards) + Sum(Pools)
    BY SolventDef
  <1>5. Sum(claimableRewards') = Sum(claimableRewards)
    BY DEF Sum, Units
  <1>6. treasuryTokenBalance' \in Nat /\ Sum(Pools)' \in Nat
    <2>1. Pools' \in [ProposalIds -> Nat]
      <3>1. \A p \in ProposalIds : proposals'[p] \in Proposal
        BY DEF TypeOK
      <3> QED
        BY <3>1 DEF Pools, OpenPool, Proposal
    <2>2. Sum(Pools') \in Nat
      BY <2>1, Finiteness, SumType, Zenon
    <2> QED
      BY <2>2 DEF TypeOK
  <1>7. balanceOf'[Contract]
            >= treasuryTokenBalance' + Sum(claimableRewards') + Sum(Pools)'
    BY <1>3, <1>4, <1>5, <1>6, PoolsType
  <1> QED
    BY <1>7 DEF TokenSolvent, Pools

\* Calls that touch neither pools nor debts keep solvency.
LEMMA QuietSolvent ==
  ASSUME TypeOK, TypeOK', TokenSolvent,
         balanceOf'[Contract] >= balanceOf[Contract],
         UNCHANGED <<claimableRewards, treasuryTokenBalance>>,
         \A q \in ProposalIds : OpenPool(q)' = OpenPool(q)
  PROVE  TokenSolvent'
  <1>1. Sum(Pools)' = Sum(Pools)
    BY PoolsSame
  <1>2. Sum(claimableRewards') = Sum(claimableRewards)
    BY DEF Sum, Units
  <1>3. balanceOf[Contract] >= treasuryTokenBalance + Sum(claimableRewards) + Sum(Pools)
    BY SolventDef
  <1>4. balanceOf'[Contract] \in Nat
    BY DEF TypeOK, TokenTypeOK, Accounts
  <1>5. balanceOf'[Contract]
            >= treasuryTokenBalance' + Sum(claimableRewards') + Sum(Pools)'
    BY <1>1, <1>2, <1>3, <1>4, PoolsType
  <1> QED
    BY <1>5 DEF TokenSolvent, Pools

\* Every call keeps the contract solvent in MEAL.
LEMMA SolventStep ==
  ASSUME TypeOK, TypeOK', StakesPooled, UnusedEmpty, TokenSolvent, [Next]_vars
  PROVE  TokenSolvent'
  <1> USE DEF roundVars, orderVars, rewardVars, adminVars, tokenVars
  <1>0. /\ TokenTypeOK /\ Members \subseteq Accounts /\ Contract \in Accounts
        /\ Contract \notin Members
        /\ balanceOf \in [Accounts -> Nat] /\ balanceOf' \in [Accounts -> Nat]
        /\ proposals \in [ProposalIds -> Proposal]
        /\ proposalCount \in Nat
    <2>1. Members \subseteq Accounts /\ Contract \in Accounts /\ Contract \notin Members
      BY TokenAssumption DEF Accounts
    <2>2. TokenTypeOK /\ TokenTypeOK' /\ proposals \in [ProposalIds -> Proposal]
      BY DEF TypeOK
    <2>3. proposalCount \in Nat
      BY ConstantTypes DEF TypeOK
    <2> QED
      BY <2>1, <2>2, <2>3 DEF TokenTypeOK
  <1>1. ASSUME UNCHANGED <<claimableRewards, treasuryTokenBalance, proposals>>,
               balanceOf'[Contract] >= balanceOf[Contract]
        PROVE  TokenSolvent'
    BY <1>1, QuietSolvent DEF OpenPool
  <1>2. ASSUME UNCHANGED <<claimableRewards, treasuryTokenBalance, balanceOf>>,
               \A q \in ProposalIds : OpenPool(q)' = OpenPool(q)
        PROVE  TokenSolvent'
    BY <1>0, <1>2, QuietSolvent
  <1>3. ASSUME NEW a \in Accounts, MintTo(a) PROVE TokenSolvent'
    <2>1. PICK amount \in MintAmounts : Mint(a, amount)
      BY <1>3 DEF MintTo
    <2>2. amount \in Nat
      BY TokenAssumption
    <2>3. balanceOf'[Contract] >= balanceOf[Contract]
      BY <1>0, <2>1, <2>2 DEF Mint
    <2>4. UNCHANGED <<claimableRewards, treasuryTokenBalance, proposals>>
      BY <1>3 DEF MintTo
    <2> QED
      BY <1>1, <2>3, <2>4
  <1>4. ASSUME NEW m \in Members, ApproveContract(m) PROVE TokenSolvent'
    <2>1. /\ UNCHANGED <<claimableRewards, treasuryTokenBalance, proposals>>
          /\ UNCHANGED balanceOf
      BY <1>4 DEF ApproveContract, Approve
    <2>2. balanceOf'[Contract] >= balanceOf[Contract]
      BY <1>0, <2>1
    <2> QED
      BY <1>1, <2>1, <2>2
  <1>5. ASSUME NEW m \in Members, NEW to \in Accounts, SendTokens(m, to)
        PROVE  TokenSolvent'
    <2>1. PICK amount \in TransferAmounts : Transfer(m, to, amount)
      BY <1>5 DEF SendTokens
    <2>2. amount \in Nat /\ m # Contract /\ m \in Accounts
      BY <1>0, ConstantTypes
    <2>3. balanceOf'[Contract] >= balanceOf[Contract]
      BY <1>0, <2>1, <2>2, MoveContract DEF Transfer
    <2>4. UNCHANGED <<claimableRewards, treasuryTokenBalance, proposals>>
      BY <1>5 DEF SendTokens
    <2> QED
      BY <1>1, <2>3, <2>4
  <1>6. ASSUME NEW pd \in 1 .. MaxTime, NEW vd \in 1 .. MaxTime, NEW od \in 1 .. MaxTime,
               CreateProposal(pd, vd, od)
        PROVE  TokenSolvent'
    <2>1. proposalCount \in ProposalIds
      BY <1>0, <1>6, ConstantTypes DEF CreateProposal
    <2>2. proposals[proposalCount] = EmptyProposal
      BY <1>0, <2>1 DEF UnusedEmpty
    <2>3. \A q \in ProposalIds : OpenPool(q)' = OpenPool(q)
      BY <1>0, <1>6, <2>2 DEF CreateProposal, EmptyProposal, OpenPool
    <2> QED
      BY <1>2, <1>6, <2>3 DEF CreateProposal
  <1>7. ASSUME NEW m \in Members, SubscribeMonthly(m) PROVE TokenSolvent'
    <2>1. SUBSCRIPTION_TOKEN_COST \in Nat
      BY ConstantTypes
    <2>2. Sum(Pools)' = Sum(Pools)
      BY <1>7, PoolsSame DEF SubscribeMonthly, OpenPool
    <2>3. treasuryTokenBalance' + Sum(Pools)'
            <= treasuryTokenBalance + Sum(Pools) + SUBSCRIPTION_TOKEN_COST
      BY <1>7, <2>1, <2>2, PoolsType DEF SubscribeMonthly
    <2>5. Pay(m, SUBSCRIPTION_TOKEN_COST) /\ UNCHANGED claimableRewards
      BY <1>7 DEF SubscribeMonthly
    <2> QED
      BY <2>1, <2>3, <2>5, PaySolvent
  <1>8. ASSUME NEW m \in Members, NEW p \in ProposalIds, AddOption(m, p)
        PROVE  TokenSolvent'
    <2>1. OPTION_TOKEN_COST \in Nat
      BY ConstantTypes
    <2>2. OpenPool(p)' <= OpenPool(p) + OPTION_TOKEN_COST
      <3>1. proposals[p].optionTokenPool \in Nat /\ proposals[p].voteTokenPool \in Nat
        BY <1>0, ProposalType DEF Proposal
      <3>2. /\ proposals'[p].optionTokenPool = proposals[p].optionTokenPool + OPTION_TOKEN_COST
            /\ proposals'[p].voteTokenPool = proposals[p].voteTokenPool
            /\ proposals'[p].settled = proposals[p].settled
        BY <1>0, <1>8, ProposalType DEF AddOption, Proposal
      <3> QED
        BY <2>1, <3>1, <3>2 DEF OpenPool
    <2>3. \A q \in ProposalIds \ {p} : proposals'[q] = proposals[q]
      BY <1>0, <1>8 DEF AddOption
    <2>4. treasuryTokenBalance' + Sum(Pools)'
            <= treasuryTokenBalance + Sum(Pools) + OPTION_TOKEN_COST
      <3>1. UNCHANGED treasuryTokenBalance
        BY <1>8 DEF AddOption
      <3>2. Sum(Pools)' = Sum(Pools) - OpenPool(p) + OpenPool(p)'
        BY <2>3, PoolsUpdate
      <3>3. OpenPool(p) \in Nat /\ OpenPool(p)' \in Nat
        BY <2>3, PoolsUpdate
      <3> QED
        BY <2>1, <2>2, <3>1, <3>2, <3>3, PoolsType
    <2>5. Pay(m, OPTION_TOKEN_COST) /\ UNCHANGED claimableRewards
      BY <1>8 DEF AddOption
    <2> QED
      BY <2>1, <2>4, <2>5, PaySolvent
  <1>9. ASSUME NEW m \in Members, NEW p \in ProposalIds, NEW amount \in VoteAmounts,
               NEW i \in DOMAIN options[p], Vote(m, p, i, amount)
        PROVE  TokenSolvent'
    <2>1. amount \in Nat
      BY ConstantTypes
    <2>2. OpenPool(p)' <= OpenPool(p) + amount
      BY <1>0, <1>9, <2>1, ProposalType DEF Vote, OpenPool, Proposal
    <2>3. \A q \in ProposalIds \ {p} : proposals'[q] = proposals[q]
      BY <1>0, <1>9 DEF Vote
    <2>4. treasuryTokenBalance' + Sum(Pools)' <= treasuryTokenBalance + Sum(Pools) + amount
      <3>1. UNCHANGED treasuryTokenBalance
        BY <1>9 DEF Vote
      <3>2. Sum(Pools)' = Sum(Pools) - OpenPool(p) + OpenPool(p)'
        BY <2>3, PoolsUpdate
      <3>3. OpenPool(p) \in Nat /\ OpenPool(p)' \in Nat
        BY <2>3, PoolsUpdate
      <3> QED
        BY <2>1, <2>2, <3>1, <3>2, <3>3, PoolsType
    <2>5. Pay(m, amount) /\ UNCHANGED claimableRewards
      BY <1>9 DEF Vote
    <2> QED
      BY <2>1, <2>4, <2>5, PaySolvent
  <1>10. ASSUME NEW p \in ProposalIds, FinalizeVote(p) PROVE TokenSolvent'
    <2>1. \A q \in ProposalIds : OpenPool(q)' = OpenPool(q)
      BY <1>0, <1>10 DEF FinalizeVote, Finalized, Proposal, OpenPool
    <2> QED
      BY <1>2, <1>10, <2>1 DEF FinalizeVote
  <1>11. ASSUME NEW q \in Quotes, PlaceOrder(q) PROVE TokenSolvent'
    <2>1. \A p \in ProposalIds : OpenPool(p)' = OpenPool(p)
      BY <1>0, <1>11, QuoteType DEF PlaceOrder, Proposal, OpenPool
    <2> QED
      BY <1>2, <1>11, <2>1 DEF PlaceOrder
  <1>12. ASSUME NEW m \in Members, NEW p \in ProposalIds, CancelOrder(m, p)
         PROVE  TokenSolvent'
    <2>1. \A q \in ProposalIds : OpenPool(q)' = OpenPool(q)
      BY <1>0, <1>12 DEF CancelOrder, Proposal, OpenPool
    <2> QED
      BY <1>2, <1>12, <2>1 DEF CancelOrder
  <1>13. ASSUME NEW p \in ProposalIds, SettleProposal(p) PROVE TokenSolvent'
    BY <1>13, SettleSolvent
  <1>14. ASSUME NEW m \in Members, ClaimReward(m) PROVE TokenSolvent'
    BY <1>14, ClaimSolvent
  <1>15. ASSUME NEW to \in Accounts, NEW amount \in WithdrawAmounts,
                WithdrawTreasuryTokens(to, amount)
         PROVE  TokenSolvent'
    <2>1. amount \in Nat
      BY ConstantTypes
    <2>2. balanceOf'[Contract] >= balanceOf[Contract] - amount
      BY <1>0, <1>15, <2>1, MoveContract DEF WithdrawTreasuryTokens, Transfer
    <2>3. Sum(Pools)' = Sum(Pools)
      BY <1>15, PoolsSame DEF WithdrawTreasuryTokens, OpenPool
    <2>4. Sum(claimableRewards') = Sum(claimableRewards)
      BY <1>15 DEF WithdrawTreasuryTokens, Sum, Units
    <2>5. /\ treasuryTokenBalance' = treasuryTokenBalance - amount
          /\ amount <= treasuryTokenBalance
      BY <1>15 DEF WithdrawTreasuryTokens
    <2>6. balanceOf[Contract] >= treasuryTokenBalance + Sum(claimableRewards) + Sum(Pools)
      BY SolventDef
    <2>7. balanceOf'[Contract] \in Nat
      BY <1>0
    <2>8. balanceOf'[Contract]
            >= treasuryTokenBalance' + Sum(claimableRewards') + Sum(Pools)'
      BY <2>1, <2>2, <2>3, <2>4, <2>5, <2>6, <2>7, PoolsType
    <2> QED
      BY <2>8 DEF TokenSolvent, Pools
  <1>16. ASSUME \/ \E amount \in WithdrawAmounts : WithdrawTreasuryNative(amount)
                \/ \E k \in Signers : SetSigner(k)
                \/ \E w \in Wallets : SetPlatformMainWallet(w)
                \/ Tick
                \/ UNCHANGED vars
         PROVE  TokenSolvent'
    <2>1. UNCHANGED <<claimableRewards, treasuryTokenBalance, proposals, balanceOf>>
      BY <1>16 DEF WithdrawTreasuryNative, SetSigner, SetPlatformMainWallet, Tick, vars
    <2> QED
      BY <1>2, <2>1 DEF OpenPool
  <1> QED
    BY <1>3, <1>4, <1>5, <1>6, <1>7, <1>8, <1>9, <1>10, <1>11, <1>12, <1>13, <1>14, <1>15,
       <1>16 DEF Next

\* The invariant of MEAL holds at the start.
LEMMA TokenInvInit == Init => TokenInv
  <1> SUFFICES ASSUME Init
               PROVE  TokenInv
    OBVIOUS
  <1>1. TypeOK
    BY InitType
  <1>2. UnusedEmpty
    BY DEF Init, UnusedEmpty
  <1>3. StakesPooled
    <2> SUFFICES ASSUME NEW p \in ProposalIds
                 PROVE  proposals[p].optionTokenPool = Sum(Stakes(p))
      BY DEF StakesPooled
    <2> DEFINE s == Stakes(p)
    <2>1. \A i \in DOMAIN s : s[i] = 0
      BY DEF Init, Stakes
    <2>2. Sum(s) = 0
      <3> HIDE DEF s
      <3> QED
        BY <2>1, SumZero, Zenon
    <2> QED
      BY <2>2 DEF Init, EmptyProposal
  <1>4. TokenSolvent
    <2>1. \A p \in DOMAIN Pools : Pools[p] = 0
      BY DEF Init, EmptyProposal, Pools, OpenPool
    <2>2. Sum(Pools) = 0
      BY <2>1, SumZero, Zenon
    <2>3. \A m \in DOMAIN claimableRewards : claimableRewards[m] = 0
      BY DEF Init
    <2>4. Sum(claimableRewards) = 0
      BY <2>3, SumZero, Zenon
    <2>5. balanceOf[Contract] = 0 /\ treasuryTokenBalance = 0
      BY DEF Init, TokenInit, Accounts
    <2> QED
      BY <2>2, <2>4, <2>5, SolventDef
  <1> QED
    BY <1>1, <1>2, <1>3, <1>4 DEF TokenInv

(***************************************************************************)
(* At every moment the contract holds the MEAL of its treasury, of every   *)
(* unclaimed reward and of every open round's pools, so that claimReward   *)
(* and withdrawTreasuryTokens never fail for want of tokens.               *)
(***************************************************************************)
THEOREM ContractIsTokenSolvent == Spec => []TokenSolvent
  <1>1. Init => TokenInv
    BY TokenInvInit
  <1>2. TokenInv /\ [Next]_vars => TokenInv'
    <2> SUFFICES ASSUME TokenInv, [Next]_vars
                 PROVE  TokenInv'
      OBVIOUS
    <2>1. TypeOK /\ StakesPooled /\ UnusedEmpty /\ TokenSolvent
      BY DEF TokenInv
    <2>2. TypeOK'
      BY <2>1, StepType
    <2>3. UnusedEmpty' /\ StakesPooled'
      BY <2>1, <2>2, UnusedStep, StakesStep
    <2>4. TokenSolvent'
      BY <2>1, <2>2, SolventStep
    <2> QED
      BY <2>2, <2>3, <2>4 DEF TokenInv
  <1>3. TokenInv => TokenSolvent
    BY DEF TokenInv
  <1> QED
    BY <1>1, <1>2, <1>3, PTL DEF Spec

-----------------------------------------------------------------------------
(***************************************************************************)
(* The rounds of the contract: the votes it counts, the winner it fixes,   *)
(* the orders it holds money for, and the finality of a settlement.        *)
(***************************************************************************)

(***************************************************************************)
(* No proof below works without the clock: a vote is fixed only after      *)
(* voting, a round settled only after ordering, and ordering ends later.   *)
(***************************************************************************)
Timed ==
  \A p \in ProposalIds :
    /\ proposals[p].voteDeadline <= proposals[p].orderDeadline
    /\ proposals[p].voteFinalized => proposals[p].voteDeadline < now
    /\ proposals[p].settled =>
         proposals[p].voteFinalized /\ proposals[p].orderDeadline < now

\* A step that touches no round, vote or order.
Elsewhere ==
  /\ UNCHANGED <<proposalCount, proposals, options, memberVoteSpend, orders>>
  /\ now' \in Nat /\ now <= now'

(***************************************************************************)
(* The calls that touch a round are seven; the rest happen elsewhere.      *)
(***************************************************************************)
LEMMA RoundCases ==
  ASSUME TypeOK, [Next]_vars
  PROVE  \/ \E pd, vd, od \in 1 .. MaxTime : CreateProposal(pd, vd, od)
         \/ \E m \in Members, p \in ProposalIds : AddOption(m, p)
         \/ \E m \in Members, p \in ProposalIds, amount \in VoteAmounts :
              \E i \in DOMAIN options[p] : Vote(m, p, i, amount)
         \/ \E p \in ProposalIds : FinalizeVote(p)
         \/ \E q \in Quotes : PlaceOrder(q)
         \/ \E m \in Members, p \in ProposalIds : CancelOrder(m, p)
         \/ \E p \in ProposalIds : SettleProposal(p)
         \/ Elsewhere
  <1> USE DEF roundVars, orderVars
  <1>0. now \in Nat
    BY DEF TypeOK
  <1>1. ASSUME \/ \E a \in Accounts : MintTo(a)
               \/ \E m \in Members : ApproveContract(m)
               \/ \E m \in Members, to \in Accounts : SendTokens(m, to)
               \/ \E m \in Members : SubscribeMonthly(m)
               \/ \E m \in Members : ClaimReward(m)
               \/ \E to \in Accounts, amount \in WithdrawAmounts :
                    WithdrawTreasuryTokens(to, amount)
               \/ \E amount \in WithdrawAmounts : WithdrawTreasuryNative(amount)
               \/ \E k \in Signers : SetSigner(k)
               \/ \E w \in Wallets : SetPlatformMainWallet(w)
               \/ UNCHANGED vars
        PROVE  Elsewhere
    <2>1. UNCHANGED <<now, proposalCount, proposals, options, memberVoteSpend, orders>>
      BY <1>1 DEF MintTo, ApproveContract, SendTokens, SubscribeMonthly, ClaimReward,
                  WithdrawTreasuryTokens, WithdrawTreasuryNative, SetSigner,
                  SetPlatformMainWallet, vars
    <2> QED
      BY <1>0, <2>1 DEF Elsewhere
  <1>2. Tick => Elsewhere
    BY <1>0 DEF Tick, Elsewhere
  <1> QED
    BY <1>1, <1>2 DEF Next

-----------------------------------------------------------------------------
(***************************************************************************)
(* Every call keeps the rounds in step with the clock.                     *)
(***************************************************************************)
LEMMA TimedStep ==
  ASSUME TypeOK, TypeOK', Timed, [Next]_vars
  PROVE  Timed'
  <1>0. /\ proposals \in [ProposalIds -> Proposal]
        /\ now \in Nat
    BY DEF TypeOK
  <1>1. ASSUME UNCHANGED now,
               \A p \in ProposalIds :
                 /\ proposals'[p].voteDeadline = proposals[p].voteDeadline
                 /\ proposals'[p].orderDeadline = proposals[p].orderDeadline
                 /\ proposals'[p].voteFinalized = proposals[p].voteFinalized
                 /\ proposals'[p].settled = proposals[p].settled
        PROVE  Timed'
    BY <1>1 DEF Timed
  <1>2. ASSUME NEW pd \in 1 .. MaxTime, NEW vd \in 1 .. MaxTime, NEW od \in 1 .. MaxTime,
               CreateProposal(pd, vd, od)
        PROVE  Timed'
    <2>1. proposalCount \in ProposalIds
      BY <1>2, ConstantTypes DEF CreateProposal, TypeOK
    <2>2. \A p \in ProposalIds \ {proposalCount} : proposals'[p] = proposals[p]
      BY <1>0, <1>2 DEF CreateProposal
    <2>3. /\ proposals'[proposalCount].voteDeadline = vd
          /\ proposals'[proposalCount].orderDeadline = od
          /\ ~proposals'[proposalCount].voteFinalized
          /\ ~proposals'[proposalCount].settled
      BY <1>0, <1>2, <2>1 DEF CreateProposal, EmptyProposal
    <2>4. vd <= od /\ UNCHANGED now
      BY <1>2, ConstantTypes DEF CreateProposal
    <2> QED
      BY <2>2, <2>3, <2>4 DEF Timed
  <1>3. ASSUME NEW m \in Members, NEW p \in ProposalIds, AddOption(m, p) PROVE Timed'
    BY <1>0, <1>1, <1>3 DEF AddOption, Proposal
  <1>4. ASSUME NEW m \in Members, NEW p \in ProposalIds, NEW amount \in VoteAmounts,
               NEW i \in DOMAIN options[p], Vote(m, p, i, amount)
        PROVE  Timed'
    BY <1>0, <1>1, <1>4 DEF Vote, Proposal
  <1>5. ASSUME NEW p \in ProposalIds, FinalizeVote(p) PROVE Timed'
    <2>1. /\ proposals'[p] = Finalized(p)
          /\ \A q \in ProposalIds \ {p} : proposals'[q] = proposals[q]
          /\ proposals[p].voteDeadline < now /\ ~proposals[p].voteFinalized
          /\ UNCHANGED now
      BY <1>0, <1>5 DEF FinalizeVote, CanFinalize
    <2>2. /\ Finalized(p).voteDeadline = proposals[p].voteDeadline
          /\ Finalized(p).orderDeadline = proposals[p].orderDeadline
          /\ Finalized(p).settled = proposals[p].settled
          /\ Finalized(p).voteFinalized
      BY <1>0 DEF Finalized, Proposal
    <2> QED
      BY <2>1, <2>2 DEF Timed
  <1>6. ASSUME NEW q \in Quotes, PlaceOrder(q) PROVE Timed'
    BY <1>0, <1>1, <1>6, QuoteType DEF PlaceOrder, Proposal
  <1>7. ASSUME NEW m \in Members, NEW p \in ProposalIds, CancelOrder(m, p) PROVE Timed'
    BY <1>0, <1>1, <1>7 DEF CancelOrder, Proposal
  <1>8. ASSUME NEW p \in ProposalIds, SettleProposal(p) PROVE Timed'
    <2> DEFINE final == IF proposals[p].voteFinalized THEN proposals[p] ELSE Finalized(p)
    <2>1. /\ proposals'[p] = [final EXCEPT !.settled = TRUE]
          /\ \A q \in ProposalIds \ {p} : proposals'[q] = proposals[q]
          /\ proposals[p].orderDeadline < now
          /\ UNCHANGED now
      BY <1>0, <1>8 DEF SettleProposal
    <2>2. final \in Proposal
      BY <1>8, FinalizedType, ProposalType DEF SettleProposal
    <2>3. /\ final.voteDeadline = proposals[p].voteDeadline
          /\ final.orderDeadline = proposals[p].orderDeadline
          /\ final.voteFinalized
      BY <1>0 DEF Finalized, Proposal
    <2> HIDE DEF final
    <2>4. /\ proposals'[p].voteDeadline = proposals[p].voteDeadline
          /\ proposals'[p].orderDeadline = proposals[p].orderDeadline
          /\ proposals'[p].voteFinalized
      BY <2>1, <2>2, <2>3 DEF Proposal
    <2>5. proposals[p].voteDeadline < now
      BY <1>0, <2>1, ProposalType DEF Timed
    <2> QED
      BY <2>1, <2>4, <2>5 DEF Timed
  <1>9. CASE Elsewhere
    BY <1>0, <1>9, ProposalType DEF Elsewhere, Timed
  <1> QED
    BY <1>2, <1>3, <1>4, <1>5, <1>6, <1>7, <1>8, <1>9, RoundCases

-----------------------------------------------------------------------------
Actives(p) == [m \in Members |-> ActiveAmount(p, m)]
Opens      == [p \in ProposalIds |-> OpenOrders(p)]

(***************************************************************************)
(* The sums over the orders are sums of naturals over finite sets.         *)
(***************************************************************************)
LEMMA OrdersType ==
  ASSUME TypeOK
  PROVE  /\ \A p \in ProposalIds :
              /\ Actives(p) \in [Members -> Nat]
              /\ ActiveOrders(p) = Sum(Actives(p))
              /\ ActiveOrders(p) \in Nat /\ OpenOrders(p) \in Nat
         /\ Opens \in [ProposalIds -> Nat]
         /\ Sum(Opens) \in Nat
         /\ NativeSolvent <=> nativeBalance >= treasuryNativeBalance + Sum(Opens)
  <1>1. ASSUME NEW p \in ProposalIds
        PROVE  /\ Actives(p) \in [Members -> Nat]
               /\ ActiveOrders(p) = Sum(Actives(p))
               /\ ActiveOrders(p) \in Nat
    <2>1. Actives(p) \in [Members -> Nat]
      BY ProposalType DEF Actives, ActiveAmount
    <2>2. Sum(Actives(p)) \in Nat
      BY <2>1, Finiteness, SumType, Zenon
    <2> QED
      BY <2>1, <2>2 DEF ActiveOrders, Actives
  <1>2. \A p \in ProposalIds : OpenOrders(p) \in Nat
    BY <1>1 DEF OpenOrders
  <1>3. Opens \in [ProposalIds -> Nat]
    BY <1>2 DEF Opens
  <1>4. Sum(Opens) \in Nat
    BY <1>3, Finiteness, SumType, Zenon
  <1>5. NativeSolvent <=> nativeBalance >= treasuryNativeBalance + Sum(Opens)
    BY DEF NativeSolvent, Opens
  <1> QED
    BY <1>1, <1>2, <1>3, <1>4, <1>5

(***************************************************************************)
(* A step that changes one member's order changes the round's active       *)
(* amount by as much as that order's.                                      *)
(***************************************************************************)
LEMMA ActiveUpdate ==
  ASSUME TypeOK, TypeOK', NEW p \in ProposalIds, NEW m \in Members,
         \A k \in Members \ {m} : orders'[p][k] = orders[p][k]
  PROVE  /\ ActiveOrders(p)' = ActiveOrders(p) - ActiveAmount(p, m) + ActiveAmount(p, m)'
         /\ ActiveAmount(p, m) <= ActiveOrders(p)
         /\ ActiveAmount(p, m) \in Nat /\ ActiveAmount(p, m)' \in Nat
  <1> DEFINE v == ActiveAmount(p, m)'
             actives == Actives(p)
  <1>1. actives \in [Members -> Nat] /\ IsFiniteSet(Members)
    BY OrdersType, Finiteness
  <1>2. actives[m] = ActiveAmount(p, m)
    BY DEF Actives
  <1>3. v \in Nat
    <2>1. orders'[p][m] \in Order
      BY DEF TypeOK
    <2> QED
      BY <2>1 DEF ActiveAmount, Order
  <1>4. Actives(p)' = [actives EXCEPT ![m] = v]
    BY DEF Actives, ActiveAmount
  <1>5. ActiveOrders(p) = Sum(actives) /\ ActiveOrders(p)' = Sum(Actives(p)')
    BY DEF ActiveOrders, Actives
  <1> HIDE DEF v, actives
  <1>6. Sum([actives EXCEPT ![m] = v]) = Sum(actives) - actives[m] + v
        /\ actives[m] <= Sum(actives)
    BY <1>1, <1>3, SumUpdate, Zenon
  <1> QED
    BY <1>1, <1>2, <1>3, <1>4, <1>5, <1>6 DEF v

\* A round whose orders stay has the same active orders.
LEMMA ActiveSame ==
  ASSUME NEW p \in ProposalIds, orders'[p] = orders[p]
  PROVE  ActiveOrders(p)' = ActiveOrders(p)
  <1>1. Actives(p)' = Actives(p)
    BY DEF Actives, ActiveAmount
  <1> QED
    BY <1>1 DEF ActiveOrders, Actives

(***************************************************************************)
(* The same for the rounds: one round's orders, or none.                   *)
(***************************************************************************)
LEMMA OpensUpdate ==
  ASSUME TypeOK, TypeOK', NEW p \in ProposalIds,
         \A q \in ProposalIds \ {p} : OpenOrders(q)' = OpenOrders(q)
  PROVE  /\ Sum(Opens)' = Sum(Opens) - OpenOrders(p) + OpenOrders(p)'
         /\ OpenOrders(p) <= Sum(Opens)
         /\ OpenOrders(p) \in Nat /\ OpenOrders(p)' \in Nat
  <1> DEFINE v == OpenOrders(p)'
             opens == Opens
  <1>1. opens \in [ProposalIds -> Nat] /\ IsFiniteSet(ProposalIds)
    BY OrdersType, Finiteness
  <1>2. opens[p] = OpenOrders(p)
    BY DEF Opens
  <1>3. v \in Nat
    <2>1. Actives(p)' \in [Members -> Nat]
      <3>1. \A m \in Members : orders'[p][m] \in Order
        BY DEF TypeOK
      <3> QED
        BY <3>1 DEF Actives, ActiveAmount, Order
    <2>2. Sum(Actives(p)') \in Nat
      BY <2>1, Finiteness, SumType, Zenon
    <2>3. ActiveOrders(p)' = Sum(Actives(p)')
      BY DEF ActiveOrders, Actives
    <2> QED
      BY <2>2, <2>3 DEF OpenOrders
  <1>4. Opens' = [opens EXCEPT ![p] = v]
    BY DEF Opens
  <1> HIDE DEF v, opens
  <1>5. Sum([opens EXCEPT ![p] = v]) = Sum(opens) - opens[p] + v /\ opens[p] <= Sum(opens)
    BY <1>1, <1>3, SumUpdate, Zenon
  <1>6. Sum(Opens') = Sum(opens) - OpenOrders(p) + v /\ OpenOrders(p) <= Sum(opens)
    BY <1>2, <1>4, <1>5
  <1> QED
    BY <1>1, <1>2, <1>3, <1>6 DEF v, opens

\* Rounds that keep their active orders keep the sum.
LEMMA OpensSame ==
  ASSUME \A q \in ProposalIds : OpenOrders(q)' = OpenOrders(q)
  PROVE  Sum(Opens)' = Sum(Opens)
  <1>1. Opens' = Opens
    BY DEF Opens
  <1> QED
    BY <1>1 DEF Sum, Units

(***************************************************************************)
(* Placing, cancelling and settling are the only calls that touch what a   *)
(* round holds of orders.                                                  *)
(***************************************************************************)
LEMMA OrderCases ==
  ASSUME TypeOK, UnusedEmpty, [Next]_vars
  PROVE  \/ \E q \in Quotes : PlaceOrder(q)
         \/ \E m \in Members, p \in ProposalIds : CancelOrder(m, p)
         \/ \E p \in ProposalIds : SettleProposal(p)
         \/ /\ UNCHANGED orders
            /\ \A p \in ProposalIds : /\ proposals'[p].orderPool = proposals[p].orderPool
                                      /\ proposals'[p].settled = proposals[p].settled
  <1> DEFINE Same == /\ UNCHANGED orders
                     /\ \A p \in ProposalIds :
                          /\ proposals'[p].orderPool = proposals[p].orderPool
                          /\ proposals'[p].settled = proposals[p].settled
  <1> USE DEF orderVars
  <1>0. proposals \in [ProposalIds -> Proposal]
    BY DEF TypeOK
  <1>1. ASSUME NEW pd \in 1 .. MaxTime, NEW vd \in 1 .. MaxTime, NEW od \in 1 .. MaxTime,
               CreateProposal(pd, vd, od)
        PROVE  Same
    <2>1. proposalCount \in ProposalIds
      BY <1>1, ConstantTypes DEF CreateProposal, TypeOK
    <2>2. \A p \in ProposalIds \ {proposalCount} : proposals'[p] = proposals[p]
      BY <1>0, <1>1 DEF CreateProposal
    <2>3. proposals[proposalCount] = EmptyProposal
      BY <2>1, ConstantTypes DEF UnusedEmpty
    <2>4. /\ proposals'[proposalCount].orderPool = 0
          /\ proposals'[proposalCount].settled = FALSE
      BY <1>0, <1>1, <2>1 DEF CreateProposal, EmptyProposal
    <2>5. proposals[proposalCount].orderPool = 0 /\ proposals[proposalCount].settled = FALSE
      BY <2>3 DEF EmptyProposal
    <2>6. UNCHANGED orders
      BY <1>1 DEF CreateProposal
    <2> QED
      BY <2>2, <2>4, <2>5, <2>6
  <1>2. ASSUME NEW m \in Members, NEW p \in ProposalIds, AddOption(m, p) PROVE Same
    BY <1>0, <1>2 DEF AddOption, Proposal
  <1>3. ASSUME NEW m \in Members, NEW p \in ProposalIds, NEW amount \in VoteAmounts,
               NEW i \in DOMAIN options[p], Vote(m, p, i, amount)
        PROVE  Same
    BY <1>0, <1>3 DEF Vote, Proposal
  <1>4. ASSUME NEW p \in ProposalIds, FinalizeVote(p) PROVE Same
    BY <1>0, <1>4 DEF FinalizeVote, Finalized, Proposal
  <1>5. ASSUME Elsewhere PROVE Same
    BY <1>5 DEF Elsewhere
  <1> HIDE DEF Same
  <1>6. \/ \E q \in Quotes : PlaceOrder(q)
        \/ \E m \in Members, p \in ProposalIds : CancelOrder(m, p)
        \/ \E p \in ProposalIds : SettleProposal(p)
        \/ Same
    BY <1>1, <1>2, <1>3, <1>4, <1>5, RoundCases
  <1> QED
    BY <1>6 DEF Same

(***************************************************************************)
(* What the three calls do to the order of one member, to the pool of its  *)
(* round and to the contract's money.                                      *)
(***************************************************************************)
LEMMA PlaceEffect ==
  ASSUME TypeOK, NEW q \in Quotes, PlaceOrder(q), NEW p, p = q.proposal, NEW m, m = q.member
  PROVE  /\ p \in ProposalIds /\ m \in Members /\ q.amount \in Nat
         /\ \A k \in Members \ {m} : orders'[p][k] = orders[p][k]
         /\ \A r \in ProposalIds \ {p} : /\ orders'[r] = orders[r]
                                         /\ proposals'[r] = proposals[r]
         /\ ActiveAmount(p, m) = 0 /\ ActiveAmount(p, m)' = q.amount
         /\ proposals'[p].orderPool <= proposals[p].orderPool + q.amount
         /\ ~proposals[p].settled /\ ~proposals'[p].settled
         /\ nativeBalance' = nativeBalance + q.amount
         /\ UNCHANGED treasuryNativeBalance
  <1>0. /\ proposals \in [ProposalIds -> Proposal]
        /\ orders \in [ProposalIds -> [Members -> Order]]
    BY DEF TypeOK
  <1>1. p \in ProposalIds /\ m \in Members /\ q.amount \in Nat
    BY QuoteType
  <1>2. orders' = [orders EXCEPT ![p][m] =
                      [placed |-> TRUE, cancelled |-> FALSE, amount |-> q.amount]]
    BY DEF PlaceOrder
  <1>3. /\ \A k \in Members \ {m} : orders'[p][k] = orders[p][k]
        /\ \A r \in ProposalIds \ {p} : orders'[r] = orders[r]
        /\ orders'[p][m] = [placed |-> TRUE, cancelled |-> FALSE, amount |-> q.amount]
    BY <1>0, <1>1, <1>2
  <1>4. ActiveAmount(p, m) = 0
    BY DEF PlaceOrder, NoActiveOrder, ActiveAmount
  <1>5. ActiveAmount(p, m)' = q.amount
    BY <1>3 DEF ActiveAmount
  <1>6. PoolForReplacement(p, m) <= proposals[p].orderPool
    BY <1>1, ProposalType DEF PoolForReplacement
  <1>7. /\ proposals'[p].orderPool = PoolForReplacement(p, m) + q.amount
        /\ proposals'[p].settled = proposals[p].settled
        /\ \A r \in ProposalIds \ {p} : proposals'[r] = proposals[r]
    BY <1>0, <1>1 DEF PlaceOrder, Proposal
  <1>8. PoolForReplacement(p, m) \in Int
    BY <1>1, ProposalType DEF PoolForReplacement
  <1>9. proposals'[p].orderPool <= proposals[p].orderPool + q.amount
    BY <1>1, <1>6, <1>7, <1>8, ProposalType
  <1> QED
    BY <1>1, <1>3, <1>4, <1>5, <1>7, <1>9 DEF PlaceOrder, OrderWindow

\* What cancelOrder changes: one order, one pool, the money it pays back.
LEMMA CancelEffect ==
  ASSUME TypeOK, NEW m \in Members, NEW p \in ProposalIds, CancelOrder(m, p)
  PROVE  /\ \A k \in Members \ {m} : orders'[p][k] = orders[p][k]
         /\ \A r \in ProposalIds \ {p} : /\ orders'[r] = orders[r]
                                         /\ proposals'[r] = proposals[r]
         /\ ActiveAmount(p, m) = orders[p][m].amount /\ ActiveAmount(p, m)' = 0
         /\ proposals'[p].orderPool = proposals[p].orderPool - orders[p][m].amount
         /\ proposals'[p].settled = proposals[p].settled
         /\ now <= proposals[p].orderDeadline
         /\ nativeBalance' = nativeBalance - orders[p][m].amount
         /\ UNCHANGED treasuryNativeBalance
  <1>0. /\ proposals \in [ProposalIds -> Proposal]
        /\ orders \in [ProposalIds -> [Members -> Order]]
    BY DEF TypeOK
  <1>1. orders' = [orders EXCEPT ![p][m].cancelled = TRUE]
    BY DEF CancelOrder, MarkCancelled
  <1>2. /\ \A k \in Members \ {m} : orders'[p][k] = orders[p][k]
        /\ \A r \in ProposalIds \ {p} : orders'[r] = orders[r]
        /\ orders'[p][m].cancelled
    BY <1>0, <1>1 DEF Order
  <1>3. ActiveAmount(p, m) = orders[p][m].amount
    BY DEF CancelOrder, ActiveAmount
  <1>4. ActiveAmount(p, m)' = 0
    BY <1>2 DEF ActiveAmount
  <1>5. /\ proposals'[p].orderPool = proposals[p].orderPool - orders[p][m].amount
        /\ proposals'[p].settled = proposals[p].settled
        /\ \A r \in ProposalIds \ {p} : proposals'[r] = proposals[r]
    BY <1>0 DEF CancelOrder, Proposal
  <1> QED
    BY <1>2, <1>3, <1>4, <1>5 DEF CancelOrder, CancelWindow

\* What settleProposal does to the native coin: fee to the treasury, rest paid out.
LEMMA SettleEffect ==
  ASSUME TypeOK, NEW p \in ProposalIds, SettleProposal(p)
  PROVE  /\ UNCHANGED orders
         /\ \A r \in ProposalIds \ {p} : proposals'[r] = proposals[r]
         /\ proposals'[p].orderPool = proposals[p].orderPool
         /\ ~proposals[p].settled /\ proposals'[p].settled
         /\ \E fee \in 0 .. proposals[p].orderPool :
              /\ nativeBalance' = nativeBalance - (proposals[p].orderPool - fee)
              /\ treasuryNativeBalance' = treasuryNativeBalance + fee
  <1> DEFINE final == IF proposals[p].voteFinalized THEN proposals[p] ELSE Finalized(p)
             pool == proposals[p].orderPool
             fee == Bps(final.orderPool, ORDER_FEE_BPS)
  <1>0. proposals \in [ProposalIds -> Proposal] /\ pool \in Nat
    BY ProposalType DEF TypeOK
  <1>1. /\ proposals' = [proposals EXCEPT ![p] = [final EXCEPT !.settled = TRUE]]
        /\ nativeBalance' = nativeBalance - (final.orderPool - fee)
        /\ treasuryNativeBalance' = treasuryNativeBalance + fee
        /\ ~proposals[p].settled
        /\ UNCHANGED orders
    BY DEF SettleProposal
  <1>2. final.orderPool = pool
    BY <1>0 DEF Finalized, Proposal
  <1>3. final \in Proposal
    BY FinalizedType, ProposalType DEF SettleProposal
  <1>4. fee \in Nat /\ fee <= pool
    <2>1. ORDER_FEE_BPS \in BasisPoints
      BY ConstantTypes
    <2>2. Bps(pool, ORDER_FEE_BPS) \in Nat /\ Bps(pool, ORDER_FEE_BPS) <= pool
      <3> HIDE DEF pool
      <3> QED
        BY <1>0, <2>1, BpsBound, Zenon
    <2>3. fee = Bps(pool, ORDER_FEE_BPS)
      BY <1>2
    <2> HIDE DEF fee
    <2> QED
      BY <2>2, <2>3
  <1> HIDE DEF final, fee
  <1>5. /\ proposals'[p].orderPool = pool /\ proposals'[p].settled
        /\ \A r \in ProposalIds \ {p} : proposals'[r] = proposals[r]
    BY <1>0, <1>1, <1>2, <1>3 DEF Proposal
  <1>6. fee \in 0 .. pool
    BY <1>0, <1>4
  <1> QED
    BY <1>1, <1>2, <1>5, <1>6

(***************************************************************************)
(* What settlement pays out of stays within the active orders: a replaced  *)
(* order leaves the pool a second time, which only makes the pool smaller. *)
(***************************************************************************)
LEMMA PoolStep ==
  ASSUME TypeOK, TypeOK', UnusedEmpty, PoolWithinOrders, [Next]_vars
  PROVE  PoolWithinOrders'
  <1> SUFFICES ASSUME NEW p \in ProposalIds
               PROVE  proposals'[p].orderPool <= ActiveOrders(p)'
    BY DEF PoolWithinOrders
  <1>0. /\ proposals[p].orderPool <= ActiveOrders(p)
        /\ proposals[p].orderPool \in Nat /\ ActiveOrders(p) \in Nat
    BY ProposalType, OrdersType DEF PoolWithinOrders
  <1>1. ASSUME orders'[p] = orders[p], proposals'[p].orderPool = proposals[p].orderPool
        PROVE  proposals'[p].orderPool <= ActiveOrders(p)'
    BY <1>0, <1>1, ActiveSame
  <1>2. ASSUME NEW q \in Quotes, PlaceOrder(q)
        PROVE  proposals'[p].orderPool <= ActiveOrders(p)'
    <2> DEFINE m == q.member
    <2>1. CASE p # q.proposal
      BY <1>1, <1>2, <2>1, PlaceEffect
    <2>2. CASE p = q.proposal
      <3>1. /\ ActiveOrders(p)' = ActiveOrders(p) - ActiveAmount(p, m) + ActiveAmount(p, m)'
            /\ ActiveAmount(p, m) = 0 /\ ActiveAmount(p, m)' = q.amount
        BY <1>2, <2>2, PlaceEffect, ActiveUpdate
      <3>2. /\ proposals'[p].orderPool <= proposals[p].orderPool + q.amount
            /\ q.amount \in Nat /\ proposals'[p].orderPool \in Nat
        <4>1. proposals'[p] \in Proposal
          BY DEF TypeOK
        <4> QED
          BY <1>2, <2>2, <4>1, PlaceEffect DEF Proposal
      <3> QED
        BY <1>0, <3>1, <3>2
    <2> QED
      BY <2>1, <2>2
  <1>3. ASSUME NEW m \in Members, NEW r \in ProposalIds, CancelOrder(m, r)
        PROVE  proposals'[p].orderPool <= ActiveOrders(p)'
    <2>1. CASE p # r
      BY <1>1, <1>3, <2>1, CancelEffect
    <2>2. CASE p = r
      <3>1. /\ ActiveOrders(p)' = ActiveOrders(p) - ActiveAmount(p, m) + ActiveAmount(p, m)'
            /\ ActiveAmount(p, m) = orders[p][m].amount /\ ActiveAmount(p, m)' = 0
            /\ proposals'[p].orderPool = proposals[p].orderPool - orders[p][m].amount
        BY <1>3, <2>2, CancelEffect, ActiveUpdate
      <3>2. orders[p][m].amount \in Nat
        BY ProposalType
      <3> QED
        BY <1>0, <3>1, <3>2
    <2> QED
      BY <2>1, <2>2
  <1>4. ASSUME NEW r \in ProposalIds, SettleProposal(r)
        PROVE  proposals'[p].orderPool <= ActiveOrders(p)'
    <2>1. orders'[p] = orders[p] /\ proposals'[p].orderPool = proposals[p].orderPool
      BY <1>4, SettleEffect
    <2> QED
      BY <1>1, <2>1
  <1>5. CASE /\ UNCHANGED orders
             /\ proposals'[p].orderPool = proposals[p].orderPool
    BY <1>1, <1>5
  <1> QED
    BY <1>2, <1>3, <1>4, <1>5, OrderCases

(***************************************************************************)
(* The money: an order brings in what its round then owes, a cancellation  *)
(* takes back what it owes, and a settlement pays out no more than the     *)
(* active orders of the round it closes.  A cancellation would take money  *)
(* that is not owed any more if it came after the settlement; the clock    *)
(* excludes it.                                                            *)
(***************************************************************************)
LEMMA NativeStep ==
  ASSUME TypeOK, TypeOK', UnusedEmpty, Timed, PoolWithinOrders, NativeSolvent, [Next]_vars
  PROVE  NativeSolvent'
  <1> USE DEF orderVars
  <1>0. /\ nativeBalance >= treasuryNativeBalance + Sum(Opens)
        /\ {nativeBalance, treasuryNativeBalance, now} \subseteq Nat
        /\ Sum(Opens) \in Nat
    BY OrdersType DEF TypeOK
  <1>1. NativeSolvent' <=> nativeBalance' >= treasuryNativeBalance' + Sum(Opens)'
    BY DEF NativeSolvent, Opens
  <1>2. ASSUME NEW q \in Quotes, PlaceOrder(q) PROVE NativeSolvent'
    <2> DEFINE p == q.proposal
               m == q.member
    <2>1. /\ p \in ProposalIds /\ m \in Members /\ q.amount \in Nat
          /\ \A k \in Members \ {m} : orders'[p][k] = orders[p][k]
          /\ \A r \in ProposalIds \ {p} : /\ orders'[r] = orders[r]
                                          /\ proposals'[r] = proposals[r]
          /\ ActiveAmount(p, m) = 0 /\ ActiveAmount(p, m)' = q.amount
          /\ ~proposals[p].settled /\ ~proposals'[p].settled
          /\ nativeBalance' = nativeBalance + q.amount
          /\ UNCHANGED treasuryNativeBalance
      BY <1>2, PlaceEffect
    <2> HIDE DEF p, m
    <2>2. ActiveOrders(p)' = ActiveOrders(p) + q.amount
      BY <2>1, ActiveUpdate, OrdersType
    <2>3. OpenOrders(p)' = OpenOrders(p) + q.amount
      BY <2>1, <2>2 DEF OpenOrders
    <2>4. \A r \in ProposalIds \ {p} : OpenOrders(r)' = OpenOrders(r)
      BY <2>1, ActiveSame DEF OpenOrders
    <2>5. /\ Sum(Opens)' = Sum(Opens) - OpenOrders(p) + OpenOrders(p)'
          /\ OpenOrders(p) \in Nat
      BY <2>1, <2>4, OpensUpdate
    <2> QED
      BY <1>0, <1>1, <2>1, <2>3, <2>5
  <1>3. ASSUME NEW m \in Members, NEW p \in ProposalIds, CancelOrder(m, p)
        PROVE  NativeSolvent'
    <2> DEFINE amount == orders[p][m].amount
    <2>1. /\ \A k \in Members \ {m} : orders'[p][k] = orders[p][k]
          /\ \A r \in ProposalIds \ {p} : /\ orders'[r] = orders[r]
                                          /\ proposals'[r] = proposals[r]
          /\ ActiveAmount(p, m) = amount /\ ActiveAmount(p, m)' = 0
          /\ proposals'[p].settled = proposals[p].settled
          /\ now <= proposals[p].orderDeadline
          /\ nativeBalance' = nativeBalance - amount
          /\ UNCHANGED treasuryNativeBalance
      BY <1>3, CancelEffect
    <2>2. amount \in Nat /\ proposals[p].orderDeadline \in Nat
      BY ProposalType
    <2> HIDE DEF amount
    <2>3. ~proposals[p].settled
      BY <1>0, <2>1, <2>2 DEF Timed
    <2>4. ActiveOrders(p)' = ActiveOrders(p) - amount
      BY <2>1, <2>2, ActiveUpdate, OrdersType
    <2>5. OpenOrders(p)' = OpenOrders(p) - amount
      BY <2>1, <2>3, <2>4 DEF OpenOrders
    <2>6. \A r \in ProposalIds \ {p} : OpenOrders(r)' = OpenOrders(r)
      BY <2>1, ActiveSame DEF OpenOrders
    <2>7. /\ Sum(Opens)' = Sum(Opens) - OpenOrders(p) + OpenOrders(p)'
          /\ OpenOrders(p) \in Nat
      BY <2>6, OpensUpdate
    <2> QED
      BY <1>0, <1>1, <2>1, <2>2, <2>5, <2>7
  <1>4. ASSUME NEW p \in ProposalIds, SettleProposal(p) PROVE NativeSolvent'
    <2> DEFINE pool == proposals[p].orderPool
    <2>1. /\ UNCHANGED orders
          /\ \A r \in ProposalIds \ {p} : proposals'[r] = proposals[r]
          /\ ~proposals[p].settled /\ proposals'[p].settled
      BY <1>4, SettleEffect
    <2>2. PICK fee \in 0 .. pool :
            /\ nativeBalance' = nativeBalance - (pool - fee)
            /\ treasuryNativeBalance' = treasuryNativeBalance + fee
      BY <1>4, SettleEffect
    <2>3. /\ pool \in Nat /\ pool <= ActiveOrders(p) /\ ActiveOrders(p) \in Nat
      BY ProposalType, OrdersType DEF PoolWithinOrders
    <2> HIDE DEF pool
    <2>4. OpenOrders(p) = ActiveOrders(p) /\ OpenOrders(p)' = 0
      BY <2>1 DEF OpenOrders
    <2>5. \A r \in ProposalIds \ {p} : OpenOrders(r)' = OpenOrders(r)
      BY <2>1, ActiveSame DEF OpenOrders
    <2>6. Sum(Opens)' = Sum(Opens) - OpenOrders(p) + OpenOrders(p)'
      BY <2>5, OpensUpdate
    <2>7. fee \in Nat
      OBVIOUS
    <2> QED
      BY <1>0, <1>1, <2>2, <2>3, <2>4, <2>6, <2>7
  <1>5. ASSUME UNCHANGED orders,
               \A p \in ProposalIds : proposals'[p].settled = proposals[p].settled
        PROVE  Sum(Opens)' = Sum(Opens)
    BY <1>5, ActiveSame, OpensSame DEF OpenOrders
  <1>6. ASSUME NEW amount \in WithdrawAmounts, WithdrawTreasuryNative(amount)
        PROVE  NativeSolvent'
    <2>1. Sum(Opens)' = Sum(Opens) /\ amount \in Nat
      BY <1>5, <1>6, ConstantTypes DEF WithdrawTreasuryNative, roundVars
    <2> QED
      BY <1>0, <1>1, <1>6, <2>1 DEF WithdrawTreasuryNative
  <1>7. ASSUME \A q \in Quotes : ~PlaceOrder(q),
               \A m \in Members, p \in ProposalIds : ~CancelOrder(m, p),
               \A p \in ProposalIds : ~SettleProposal(p),
               \A amount \in WithdrawAmounts : ~WithdrawTreasuryNative(amount)
        PROVE  NativeSolvent'
    <2>1. UNCHANGED <<nativeBalance, treasuryNativeBalance>>
      BY <1>7 DEF Next, MintTo, ApproveContract, SendTokens, CreateProposal,
                  SubscribeMonthly, AddOption, Vote, FinalizeVote, ClaimReward,
                  WithdrawTreasuryTokens, SetSigner, SetPlatformMainWallet, Tick, vars
    <2>2. Sum(Opens)' = Sum(Opens)
      BY <1>5, <1>7, OrderCases
    <2> QED
      BY <1>0, <1>1, <2>1, <2>2
  <1> QED
    BY <1>2, <1>3, <1>4, <1>6, <1>7

-----------------------------------------------------------------------------
Weights(p) == [i \in DOMAIN options[p] |-> options[p][i].weightedVotes]

\* The two books of one round agree with its pool.
Booked(p) ==
  /\ proposals[p].voteTokenPool = Sum(memberVoteSpend[p])
  /\ proposals[p].voteTokenPool = Sum(Weights(p))

\* VotesAccountedFor, round by round.
LEMMA BookedDef == VotesAccountedFor <=> \A p \in ProposalIds : Booked(p)
  BY DEF VotesAccountedFor, Booked, Weights

\* Tallies and spends are numbers, and finitely many.
LEMMA WeightsType ==
  ASSUME TypeOK, NEW p \in ProposalIds
  PROVE  /\ Weights(p) \in [DOMAIN options[p] -> Nat]
         /\ IsFiniteSet(DOMAIN options[p])
         /\ memberVoteSpend[p] \in [Members -> Nat]
         /\ Sum(Weights(p)) \in Nat /\ Sum(memberVoteSpend[p]) \in Nat
  <1>1. Weights(p) \in [DOMAIN options[p] -> Nat] /\ IsFiniteSet(DOMAIN options[p])
    BY OptionType, ShareType DEF Weights
  <1>2. memberVoteSpend[p] \in [Members -> Nat]
    BY DEF TypeOK
  <1>3. Sum(Weights(p)) \in Nat
    BY <1>1, SumType, Zenon
  <1>4. Sum(memberVoteSpend[p]) \in Nat
    BY <1>2, Finiteness, SumType, Zenon
  <1> QED
    BY <1>1, <1>2, <1>3, <1>4

(***************************************************************************)
(* A vote is booked three times by the same amount: with the voter, with   *)
(* the option and with the round.                                          *)
(***************************************************************************)
LEMMA VoteBooked ==
  ASSUME TypeOK, TypeOK', NEW m \in Members, NEW p \in ProposalIds,
         NEW amount \in VoteAmounts, NEW i \in DOMAIN options[p],
         Vote(m, p, i, amount), Booked(p)
  PROVE  Booked(p)'
  <1> DEFINE f == Weights(p)
             g == memberVoteSpend[p]
             v == options[p][i].weightedVotes + amount
             s == memberVoteSpend[p][m] + amount
  <1>0. /\ proposals \in [ProposalIds -> Proposal]
        /\ options \in [ProposalIds -> Seq(Option)]
        /\ memberVoteSpend \in [ProposalIds -> [Members -> Nat]]
    BY DEF TypeOK
  <1>1. amount \in Nat /\ IsFiniteSet(Members)
    BY ConstantTypes, Finiteness
  <1>2. /\ f \in [DOMAIN options[p] -> Nat] /\ IsFiniteSet(DOMAIN options[p])
        /\ g \in [Members -> Nat]
        /\ Sum(f) \in Nat /\ Sum(g) \in Nat
    BY WeightsType
  <1>3. f[i] = options[p][i].weightedVotes /\ v \in Nat /\ s \in Nat
    BY <1>0, <1>1, OptionType DEF Weights
  <1>4. Weights(p)' = [f EXCEPT ![i] = v]
    <2>1. options' = [options EXCEPT ![p] = [options[p] EXCEPT ![i] =
                        [options[p][i] EXCEPT !.weightedVotes = v]]]
      BY DEF Vote
    <2> HIDE DEF v
    <2>2. options'[p] = [options[p] EXCEPT ![i] =
                           [options[p][i] EXCEPT !.weightedVotes = v]]
      BY <1>0, <2>1
    <2>3. DOMAIN options'[p] = DOMAIN options[p]
      BY <2>2
    <2>4. options'[p][i].weightedVotes = v
      <3>1. options'[p][i] = [options[p][i] EXCEPT !.weightedVotes = v]
        BY <2>2
      <3>2. options[p][i] \in Option
        BY OptionType
      <3> QED
        BY <3>1, <3>2 DEF Option
    <2>5. \A j \in DOMAIN options[p] \ {i} : options'[p][j] = options[p][j]
      BY <2>2
    <2> QED
      BY <2>3, <2>4, <2>5 DEF Weights
  <1>5. memberVoteSpend'[p] = [g EXCEPT ![m] = s]
    BY <1>0 DEF Vote, RecordSpend
  <1>6. proposals'[p].voteTokenPool = proposals[p].voteTokenPool + amount
    BY <1>0 DEF Vote, Proposal
  <1>7. g[m] \in Nat /\ s = g[m] + amount /\ v = f[i] + amount
    BY <1>2, <1>3
  <1> HIDE DEF f, g, v, s
  <1>8. Sum([f EXCEPT ![i] = v]) = Sum(f) - f[i] + v
    BY <1>2, <1>3, SumUpdate, Zenon
  <1>9. Sum([g EXCEPT ![m] = s]) = Sum(g) - g[m] + s
    <2>1. g \in [Members -> Nat] /\ IsFiniteSet(Members) /\ s \in Nat
      BY <1>1, <1>2, <1>3
    <2> QED
      BY <2>1, SumUpdate, Zenon
  <1>10. Sum(Weights(p)') = Sum(f) + amount /\ Sum(memberVoteSpend'[p]) = Sum(g) + amount
    BY <1>1, <1>2, <1>3, <1>4, <1>5, <1>7, <1>8, <1>9
  <1>11. proposals[p].voteTokenPool = Sum(g) /\ proposals[p].voteTokenPool = Sum(f)
    BY DEF Booked, f, g
  <1> QED
    BY <1>6, <1>10, <1>11 DEF Booked

(***************************************************************************)
(* A new option has no votes.                                              *)
(***************************************************************************)
LEMMA OptionBooked ==
  ASSUME TypeOK, TypeOK', NEW m \in Members, NEW p \in ProposalIds, AddOption(m, p), Booked(p)
  PROVE  Booked(p)'
  <1> DEFINE n == Len(options[p])
             o == [proposer |-> m, weightedVotes |-> 0, tokenStake |-> OPTION_TOKEN_COST]
             f == Weights(p)
             g == Weights(p)'
  <1>0. /\ proposals \in [ProposalIds -> Proposal]
        /\ options \in [ProposalIds -> Seq(Option)]
    BY DEF TypeOK
  <1>1. n \in Nat /\ f \in [1 .. n -> Nat] /\ \A i \in 1 .. n : f[i] = options[p][i].weightedVotes
    BY OptionType, WeightsType DEF Weights
  <1>2. options'[p] = Append(options[p], o)
    <2>1. options' = [options EXCEPT ![p] = Append(options[p], o)]
      BY DEF AddOption
    <2> HIDE DEF o
    <2> QED
      BY <1>0, <2>1
  <1>3. /\ DOMAIN options'[p] = 1 .. n + 1
        /\ \A i \in 1 .. n : options'[p][i] = options[p][i]
        /\ options'[p][n + 1] = o
    <2>1. options[p] \in Seq(Option)
      BY <1>0
    <2> HIDE DEF o
    <2> QED
      BY <1>2, <2>1
  <1>4. /\ g = [i \in 1 .. n + 1 |-> options'[p][i].weightedVotes]
    BY <1>3 DEF Weights
  <1>5. g[n + 1] = 0
    BY <1>1, <1>3, <1>4
  <1>6. \A i \in 1 .. n : g[i] = f[i] /\ f[i] \in Nat
    <2> SUFFICES ASSUME NEW i \in 1 .. n PROVE g[i] = f[i] /\ f[i] \in Nat
      OBVIOUS
    <2>1. i \in 1 .. n + 1
      BY <1>1
    <2>2. g[i] = options'[p][i].weightedVotes
      BY <1>4, <2>1
    <2> QED
      BY <1>1, <1>3, <2>2
  <1>7. g \in [1 .. n + 1 -> Nat]
    <2>1. \A i \in 1 .. n + 1 : i \in 1 .. n \/ i = n + 1
      BY <1>1
    <2> HIDE DEF f, g, n
    <2>2. \A i \in 1 .. n + 1 : g[i] \in Nat
      BY <1>5, <1>6, <2>1
    <2> QED
      BY <1>4, <2>2
  <1>8. Sum(g) = Sum(f) + g[n + 1]
    <2> HIDE DEF f, g, n
    <2> QED
      BY <1>1, <1>6, <1>7, SumAppend, Zenon
  <1>9. Sum(g) = Sum(f)
    BY <1>5, <1>8, WeightsType
  <1>10. /\ proposals'[p].voteTokenPool = proposals[p].voteTokenPool
         /\ memberVoteSpend'[p] = memberVoteSpend[p]
    BY <1>0 DEF AddOption, Proposal
  <1> HIDE DEF o, n
  <1> QED
    BY <1>9, <1>10 DEF Booked

\* A round whose counters stay is booked as before.
LEMMA BookedSame ==
  ASSUME NEW p \in ProposalIds, Booked(p), options'[p] = options[p],
         memberVoteSpend'[p] = memberVoteSpend[p],
         proposals'[p].voteTokenPool = proposals[p].voteTokenPool
  PROVE  Booked(p)'
  <1>1. Weights(p)' = Weights(p)
    BY DEF Weights
  <1> QED
    BY <1>1 DEF Booked

(***************************************************************************)
(* No other call books a vote.                                             *)
(***************************************************************************)
LEMMA VotesStep ==
  ASSUME TypeOK, TypeOK', UnusedEmpty, VotesAccountedFor, [Next]_vars
  PROVE  VotesAccountedFor'
  <1> SUFFICES ASSUME NEW p \in ProposalIds
               PROVE  Booked(p)'
    BY DEF VotesAccountedFor, Booked, Weights
  <1>0. /\ proposals \in [ProposalIds -> Proposal]
        /\ options \in [ProposalIds -> Seq(Option)]
        /\ memberVoteSpend \in [ProposalIds -> [Members -> Nat]]
        /\ Booked(p)
    BY BookedDef DEF TypeOK
  <1>1. ASSUME UNCHANGED <<options, memberVoteSpend>>,
               proposals'[p].voteTokenPool = proposals[p].voteTokenPool
        PROVE  Booked(p)'
    BY <1>0, <1>1, BookedSame
  <1>2. ASSUME NEW pd \in 1 .. MaxTime, NEW vd \in 1 .. MaxTime, NEW od \in 1 .. MaxTime,
               CreateProposal(pd, vd, od)
        PROVE  Booked(p)'
    <2>1. CASE p # proposalCount
      <3>1. proposals'[p] = proposals[p]
        BY <1>0, <1>2, <2>1 DEF CreateProposal
      <3> QED
        BY <1>1, <1>2, <3>1 DEF CreateProposal
    <2>2. CASE p = proposalCount
      <3>1. proposals[p] = EmptyProposal
        BY <2>2, ConstantTypes DEF UnusedEmpty
      <3>2. proposals[p].voteTokenPool = 0
        BY <3>1 DEF EmptyProposal
      <3>3. proposals'[p].voteTokenPool = 0
        BY <1>0, <1>2, <2>2 DEF CreateProposal, EmptyProposal
      <3> QED
        BY <1>1, <1>2, <3>2, <3>3 DEF CreateProposal
    <2> QED
      BY <2>1, <2>2
  <1>3. ASSUME NEW m \in Members, NEW r \in ProposalIds, AddOption(m, r) PROVE Booked(p)'
    <2>1. CASE p = r
      BY <1>0, <1>3, <2>1, OptionBooked
    <2>2. CASE p # r
      BY <1>0, <1>3, <2>2, BookedSame DEF AddOption
    <2> QED
      BY <2>1, <2>2
  <1>4. ASSUME NEW m \in Members, NEW r \in ProposalIds, NEW amount \in VoteAmounts,
               NEW i \in DOMAIN options[r], Vote(m, r, i, amount)
        PROVE  Booked(p)'
    <2>1. CASE p = r
      BY <1>0, <1>4, <2>1, VoteBooked
    <2>2. CASE p # r
      BY <1>0, <1>4, <2>2, BookedSame DEF Vote, RecordSpend
    <2> QED
      BY <2>1, <2>2
  <1>5. ASSUME NEW r \in ProposalIds, FinalizeVote(r) PROVE Booked(p)'
    BY <1>0, <1>1, <1>5 DEF FinalizeVote, Finalized, Proposal
  <1>6. ASSUME NEW q \in Quotes, PlaceOrder(q) PROVE Booked(p)'
    BY <1>0, <1>1, <1>6, QuoteType DEF PlaceOrder, Proposal
  <1>7. ASSUME NEW m \in Members, NEW r \in ProposalIds, CancelOrder(m, r) PROVE Booked(p)'
    BY <1>0, <1>1, <1>7 DEF CancelOrder, Proposal
  <1>8. ASSUME NEW r \in ProposalIds, SettleProposal(r) PROVE Booked(p)'
    BY <1>0, <1>1, <1>8 DEF SettleProposal, Finalized, Proposal
  <1>9. ASSUME Elsewhere PROVE Booked(p)'
    BY <1>1, <1>9 DEF Elsewhere
  <1> QED
    BY <1>2, <1>3, <1>4, <1>5, <1>6, <1>7, <1>8, <1>9, RoundCases

-----------------------------------------------------------------------------
\* The winner fixed for a round is the one its options say.
Stands(p) ==
  proposals[p].voteFinalized =>
    /\ proposals[p].winnerOptionIndex < Len(options[p])
    /\ proposals[p].winnerOptionIndex = WinnerIndex(p)

\* Options that stay have the same winner.
LEMMA WinnerSame ==
  ASSUME NEW p \in ProposalIds, options'[p] = options[p]
  PROVE  WinnerIndex(p)' = WinnerIndex(p)
  BY DEF WinnerIndex

(***************************************************************************)
(* Finalizing records an option of the round, the first most-voted.        *)
(***************************************************************************)
LEMMA FinalizedStands ==
  ASSUME TypeOK, NEW p \in ProposalIds, CanFinalize(p)
  PROVE  /\ Finalized(p).winnerOptionIndex < Len(options[p])
         /\ Finalized(p).winnerOptionIndex = WinnerIndex(p)
  <1>1. WinnerIndex(p) \in 0 .. Len(options[p]) - 1 /\ Len(options[p]) \in Nat
    BY WinnerIndexType, OptionType DEF CanFinalize
  <1>2. Finalized(p).winnerOptionIndex = WinnerIndex(p)
    BY ProposalType DEF Finalized, Proposal
  <1> QED
    BY <1>1, <1>2

\* Where options and decision stay, the winner stands.
LEMMA StandsSame ==
  ASSUME NEW p \in ProposalIds, Stands(p), options'[p] = options[p],
         proposals'[p].voteFinalized = proposals[p].voteFinalized,
         proposals'[p].winnerOptionIndex = proposals[p].winnerOptionIndex
  PROVE  Stands(p)'
  BY WinnerSame DEF Stands

(***************************************************************************)
(* No option or vote reaches a round whose winner is fixed: addOption      *)
(* looks at the flag and vote only at the clock, which has passed voting.  *)
(***************************************************************************)
LEMMA WinnerStep ==
  ASSUME TypeOK, TypeOK', Timed, WinnerStands, [Next]_vars
  PROVE  WinnerStands'
  <1> SUFFICES ASSUME NEW p \in ProposalIds
               PROVE  Stands(p)'
    BY DEF WinnerStands, Stands
  <1>0. /\ proposals \in [ProposalIds -> Proposal]
        /\ options \in [ProposalIds -> Seq(Option)]
        /\ now \in Nat
        /\ Stands(p)
    BY DEF TypeOK, WinnerStands, Stands
  <1>1. ASSUME ~proposals'[p].voteFinalized PROVE Stands(p)'
    BY <1>1 DEF Stands
  <1>2. ASSUME NEW pd \in 1 .. MaxTime, NEW vd \in 1 .. MaxTime, NEW od \in 1 .. MaxTime,
               CreateProposal(pd, vd, od)
        PROVE  Stands(p)'
    <2>1. CASE p # proposalCount
      BY <1>0, <1>2, <2>1, StandsSame DEF CreateProposal
    <2>2. CASE p = proposalCount
      BY <1>0, <1>1, <1>2, <2>2 DEF CreateProposal, EmptyProposal
    <2> QED
      BY <2>1, <2>2
  <1>3. ASSUME NEW m \in Members, NEW r \in ProposalIds, AddOption(m, r) PROVE Stands(p)'
    <2>1. CASE p # r
      BY <1>0, <1>3, <2>1, StandsSame DEF AddOption
    <2>2. CASE p = r
      BY <1>0, <1>1, <1>3, <2>2 DEF AddOption, Proposal
    <2> QED
      BY <2>1, <2>2
  <1>4. ASSUME NEW m \in Members, NEW r \in ProposalIds, NEW amount \in VoteAmounts,
               NEW i \in DOMAIN options[r], Vote(m, r, i, amount)
        PROVE  Stands(p)'
    <2>1. CASE p # r
      BY <1>0, <1>4, <2>1, StandsSame DEF Vote
    <2>2. CASE p = r
      <3>1. now <= proposals[p].voteDeadline
        BY <1>4, <2>2 DEF Vote, VotingOpen
      <3>2. ~proposals[p].voteFinalized
        BY <1>0, <3>1, ProposalType DEF Timed
      <3>3. ~proposals'[p].voteFinalized
        BY <1>0, <1>4, <2>2, <3>2 DEF Vote, Proposal
      <3> QED
        BY <1>1, <3>3
    <2> QED
      BY <2>1, <2>2
  <1>5. ASSUME NEW r \in ProposalIds, FinalizeVote(r) PROVE Stands(p)'
    <2>1. CASE p # r
      BY <1>0, <1>5, <2>1, StandsSame DEF FinalizeVote
    <2>2. CASE p = r
      <3>1. proposals'[p] = Finalized(p) /\ UNCHANGED options
        BY <1>0, <1>5, <2>2 DEF FinalizeVote
      <3>2. /\ Finalized(p).winnerOptionIndex < Len(options[p])
            /\ Finalized(p).winnerOptionIndex = WinnerIndex(p)
        BY <1>5, <2>2, FinalizedStands DEF FinalizeVote
      <3>3. WinnerIndex(p)' = WinnerIndex(p)
        BY <3>1, WinnerSame
      <3> QED
        BY <3>1, <3>2, <3>3 DEF Stands
    <2> QED
      BY <2>1, <2>2
  <1>6. ASSUME NEW q \in Quotes, PlaceOrder(q) PROVE Stands(p)'
    BY <1>0, <1>6, QuoteType, StandsSame DEF PlaceOrder, Proposal, roundVars
  <1>7. ASSUME NEW m \in Members, NEW r \in ProposalIds, CancelOrder(m, r) PROVE Stands(p)'
    BY <1>0, <1>7, StandsSame DEF CancelOrder, Proposal
  <1>8. ASSUME NEW r \in ProposalIds, SettleProposal(r) PROVE Stands(p)'
    <2>1. CASE p # r
      BY <1>0, <1>8, <2>1, StandsSame DEF SettleProposal
    <2>2. CASE p = r
      <3> DEFINE final == IF proposals[p].voteFinalized THEN proposals[p] ELSE Finalized(p)
      <3>1. proposals'[p] = [final EXCEPT !.settled = TRUE] /\ UNCHANGED options
        BY <1>0, <1>8, <2>2 DEF SettleProposal
      <3>2. final \in Proposal
        BY <1>8, <2>2, FinalizedType, ProposalType DEF SettleProposal
      <3>3. /\ final.winnerOptionIndex < Len(options[p])
            /\ final.winnerOptionIndex = WinnerIndex(p)
        BY <1>0, <1>8, <2>2, FinalizedStands DEF SettleProposal, Stands
      <3> HIDE DEF final
      <3>4. proposals'[p].winnerOptionIndex = final.winnerOptionIndex
        BY <3>1, <3>2 DEF Proposal
      <3>5. WinnerIndex(p)' = WinnerIndex(p)
        BY <3>1, WinnerSame
      <3> QED
        BY <3>1, <3>3, <3>4, <3>5 DEF Stands
    <2> QED
      BY <2>1, <2>2
  <1>9. ASSUME Elsewhere PROVE Stands(p)'
    BY <1>0, <1>9, StandsSame DEF Elsewhere
  <1> QED
    BY <1>2, <1>3, <1>4, <1>5, <1>6, <1>7, <1>8, <1>9, RoundCases

(***************************************************************************)
(* A call that touches a round finds it open: the flags close the door to  *)
(* options, orders and a second settlement, the clock to votes and         *)
(* cancellations, which look at no flag.                                   *)
(***************************************************************************)
LEMMA FinalStep ==
  ASSUME TypeOK, UnusedEmpty, Timed, [Next]_vars,
         NEW p \in ProposalIds, proposals[p].settled
  PROVE  /\ proposals'[p] = proposals[p]
         /\ options'[p] = options[p]
         /\ memberVoteSpend'[p] = memberVoteSpend[p]
         /\ orders'[p] = orders[p]
  <1> DEFINE Same == /\ proposals'[p] = proposals[p]
                     /\ options'[p] = options[p]
                     /\ memberVoteSpend'[p] = memberVoteSpend[p]
                     /\ orders'[p] = orders[p]
  <1> USE DEF orderVars, roundVars
  <1>0. /\ proposals \in [ProposalIds -> Proposal]
        /\ options \in [ProposalIds -> Seq(Option)]
        /\ memberVoteSpend \in [ProposalIds -> [Members -> Nat]]
        /\ orders \in [ProposalIds -> [Members -> Order]]
        /\ now \in Nat
        /\ {proposals[p].voteDeadline, proposals[p].orderDeadline} \subseteq Nat
    BY ProposalType DEF TypeOK
  <1>1. /\ proposals[p].voteFinalized
        /\ proposals[p].voteDeadline < now /\ proposals[p].orderDeadline < now
    BY DEF Timed
  <1>2. ASSUME NEW pd \in 1 .. MaxTime, NEW vd \in 1 .. MaxTime, NEW od \in 1 .. MaxTime,
               CreateProposal(pd, vd, od)
        PROVE  Same
    <2>1. p # proposalCount
      <3>1. p = proposalCount => proposals[p] = EmptyProposal
        BY ConstantTypes DEF UnusedEmpty
      <3> QED
        BY <3>1 DEF EmptyProposal
    <2> QED
      BY <1>0, <1>2, <2>1 DEF CreateProposal
  <1>3. ASSUME NEW m \in Members, NEW r \in ProposalIds, AddOption(m, r) PROVE Same
    BY <1>0, <1>1, <1>3 DEF AddOption
  <1>4. ASSUME NEW m \in Members, NEW r \in ProposalIds, NEW amount \in VoteAmounts,
               NEW i \in DOMAIN options[r], Vote(m, r, i, amount)
        PROVE  Same
    <2>1. p # r
      BY <1>0, <1>1, <1>4 DEF Vote, VotingOpen
    <2> QED
      BY <1>0, <1>4, <2>1 DEF Vote, RecordSpend
  <1>5. ASSUME NEW r \in ProposalIds, FinalizeVote(r) PROVE Same
    BY <1>0, <1>1, <1>5 DEF FinalizeVote, CanFinalize
  <1>6. ASSUME NEW q \in Quotes, PlaceOrder(q) PROVE Same
    <2>1. p # q.proposal
      BY <1>6 DEF PlaceOrder, OrderWindow
    <2> QED
      BY <1>0, <1>6, <2>1 DEF PlaceOrder
  <1>7. ASSUME NEW m \in Members, NEW r \in ProposalIds, CancelOrder(m, r) PROVE Same
    <2>1. p # r
      BY <1>0, <1>1, <1>7 DEF CancelOrder, CancelWindow
    <2> QED
      BY <1>0, <1>7, <2>1 DEF CancelOrder, MarkCancelled
  <1>8. ASSUME NEW r \in ProposalIds, SettleProposal(r) PROVE Same
    BY <1>0, <1>8 DEF SettleProposal
  <1>9. ASSUME Elsewhere PROVE Same
    BY <1>9 DEF Elsewhere
  <1> HIDE DEF Same
  <1>10. Same
    BY <1>2, <1>3, <1>4, <1>5, <1>6, <1>7, <1>8, <1>9, RoundCases
  <1> QED
    BY <1>10 DEF Same

-----------------------------------------------------------------------------
(***************************************************************************)
(* The invariant the theorems follow from.                                 *)
(***************************************************************************)
RoundInv ==
  /\ TypeOK /\ UnusedEmpty /\ Timed
  /\ PoolWithinOrders /\ NativeSolvent /\ VotesAccountedFor /\ WinnerStands

\* The invariant of rounds holds at the start.
LEMMA RoundInvInit == Init => RoundInv
  <1> SUFFICES ASSUME Init
               PROVE  RoundInv
    OBVIOUS
  <1>1. TypeOK /\ UnusedEmpty
    BY InitType DEF Init, UnusedEmpty
  <1>2. Timed /\ WinnerStands
    BY DEF Init, EmptyProposal, Timed, WinnerStands
  <1>3. ASSUME NEW p \in ProposalIds PROVE ActiveOrders(p) = 0
    <2> DEFINE f == Actives(p)
    <2>1. \A m \in DOMAIN f : f[m] = 0
      BY DEF Init, EmptyOrder, Actives, ActiveAmount
    <2>2. Sum(f) = 0
      <3> HIDE DEF f
      <3> QED
        BY <2>1, SumZero, Zenon
    <2> QED
      BY <2>2 DEF ActiveOrders, Actives
  <1>4. PoolWithinOrders
    BY <1>3 DEF Init, EmptyProposal, PoolWithinOrders
  <1>5. NativeSolvent
    <2>1. \A p \in DOMAIN Opens : Opens[p] = 0
      BY <1>3 DEF Opens, OpenOrders
    <2>2. Sum(Opens) = 0
      BY <2>1, SumZero, Zenon
    <2>3. nativeBalance = 0 /\ treasuryNativeBalance = 0
      BY DEF Init
    <2> QED
      BY <1>1, <2>2, <2>3, OrdersType
  <1>6. VotesAccountedFor
    <2> SUFFICES ASSUME NEW p \in ProposalIds
                 PROVE  Booked(p)
      BY BookedDef
    <2> DEFINE f == Weights(p)
               g == memberVoteSpend[p]
    <2>1. (\A i \in DOMAIN f : f[i] = 0) /\ (\A m \in DOMAIN g : g[m] = 0)
      BY DEF Init, Weights
    <2>2. proposals[p].voteTokenPool = 0
      BY DEF Init, EmptyProposal
    <2>3. Sum(f) = 0
      <3> HIDE DEF f
      <3> QED
        BY <2>1, SumZero, Zenon
    <2>4. Sum(g) = 0
      <3> HIDE DEF g
      <3> QED
        BY <2>1, SumZero, Zenon
    <2> QED
      BY <2>2, <2>3, <2>4 DEF Booked
  <1> QED
    BY <1>1, <1>2, <1>4, <1>5, <1>6 DEF RoundInv

\* The invariant of rounds is inductive.
LEMMA RoundInvStep == RoundInv /\ [Next]_vars => RoundInv'
  <1> SUFFICES ASSUME RoundInv, [Next]_vars
               PROVE  RoundInv'
    OBVIOUS
  <1>1. /\ TypeOK /\ UnusedEmpty /\ Timed
        /\ PoolWithinOrders /\ NativeSolvent /\ VotesAccountedFor /\ WinnerStands
    BY DEF RoundInv
  <1>2. TypeOK'
    BY <1>1, StepType
  <1>3. UnusedEmpty'
    BY <1>1, UnusedStep
  <1>4. Timed'
    BY <1>1, <1>2, TimedStep
  <1>5. PoolWithinOrders'
    BY <1>1, <1>2, PoolStep
  <1>6. NativeSolvent'
    BY <1>1, <1>2, NativeStep
  <1>7. VotesAccountedFor'
    BY <1>1, <1>2, VotesStep
  <1>8. WinnerStands'
    BY <1>1, <1>2, WinnerStep
  <1> QED
    BY <1>2, <1>3, <1>4, <1>5, <1>6, <1>7, <1>8 DEF RoundInv

\* The invariant of rounds holds in every reachable state.
LEMMA RoundInvariant == Spec => []RoundInv
  BY RoundInvInit, RoundInvStep, PTL DEF Spec

(***************************************************************************)
(* orderPool, which settlement pays out of, never exceeds the active       *)
(* orders of its round, whatever was placed, cancelled and placed again.   *)
(***************************************************************************)
THEOREM PoolStaysWithinOrders == Spec => []PoolWithinOrders
  <1>1. RoundInv => PoolWithinOrders
    BY DEF RoundInv
  <1> QED
    BY <1>1, RoundInvariant, PTL

(***************************************************************************)
(* The contract's balance covers the amounts of all active orders of all   *)
(* open rounds and its treasury together, at any moment.                   *)
(***************************************************************************)
THEOREM ContractIsNativeSolvent == Spec => []NativeSolvent
  <1>1. RoundInv => NativeSolvent
    BY DEF RoundInv
  <1> QED
    BY <1>1, RoundInvariant, PTL

(***************************************************************************)
(* What vote() books with the voter, the option and the round always adds  *)
(* up to the same number of tokens.                                        *)
(***************************************************************************)
THEOREM VotesAreAccountedFor == Spec => []VotesAccountedFor
  <1>1. RoundInv => VotesAccountedFor
    BY DEF RoundInv
  <1> QED
    BY <1>1, RoundInvariant, PTL

(***************************************************************************)
(* The winner a round was finalized with is its first most-voted option    *)
(* ever after, although vote() never looks at voteFinalized.               *)
(***************************************************************************)
THEOREM WinnerAlwaysStands == Spec => []WinnerStands
  <1>1. RoundInv => WinnerStands
    BY DEF RoundInv
  <1> QED
    BY <1>1, RoundInvariant, PTL

(***************************************************************************)
(* No call ever changes a settled round, although cancelOrder and vote do  *)
(* not look at settled.                                                    *)
(***************************************************************************)
THEOREM SettlementIsFinal == Spec => SettledIsFinal
  <1>1. RoundInv /\ [Next]_vars =>
          [\A p \in ProposalIds : proposals[p].settled =>
              /\ proposals'[p] = proposals[p]
              /\ options'[p] = options[p]
              /\ memberVoteSpend'[p] = memberVoteSpend[p]
              /\ orders'[p] = orders[p]]_vars
    BY FinalStep DEF RoundInv
  <1> QED
    BY <1>1, RoundInvariant, PTL DEF Spec, SettledIsFinal

-----------------------------------------------------------------------------
(***************************************************************************)
(* settleProposal (:335), split into what it requires, the finalizeVote it *)
(* calls and the transfer to the merchant included, and what it writes.    *)
(***************************************************************************)
FinalOf(p) == IF proposals[p].voteFinalized THEN proposals[p] ELSE Finalized(p)
FeeOf(p)   == Bps(FinalOf(p).orderPool, ORDER_FEE_BPS)

SettleRequires(p) ==
  /\ proposals[p].exists /\ ~proposals[p].settled
  /\ now > proposals[p].orderDeadline
  /\ proposals[p].voteFinalized \/ CanFinalize(p)
  /\ nativeBalance >= FinalOf(p).orderPool - FeeOf(p)

SettleWrites(p) ==
  /\ proposals' = [proposals EXCEPT ![p] = [FinalOf(p) EXCEPT !.settled = TRUE]]
  /\ treasuryNativeBalance' = treasuryNativeBalance + FeeOf(p)
  /\ nativeBalance' = nativeBalance - (FinalOf(p).orderPool - FeeOf(p))
  /\ claimableRewards' =
       [m \in Members |->
          claimableRewards[m] + Sum(SharesOf(p, m, FinalOf(p).winnerOptionIndex))]
  /\ treasuryTokenBalance' =
       treasuryTokenBalance + TreasuryGain(p, FinalOf(p).winnerOptionIndex)
  /\ UNCHANGED <<tokenVars, now, proposalCount, options, memberVoteSpend, orders,
                 usedOrderDigests, subscriptionExpiry, adminVars>>

\* A value for each variable and nothing else: only SettleRequires can refuse the call.
LEMMA SettleSplit ==
  ASSUME NEW p \in ProposalIds
  PROVE  SettleProposal(p) <=> SettleRequires(p) /\ SettleWrites(p)
  BY Zenon DEF SettleProposal, SettleRequires, SettleWrites, FinalOf, FeeOf

(***************************************************************************)
(* Nothing settleProposal requires can fail once ordering is over and the  *)
(* round has an option.                                                    *)
(***************************************************************************)
SettleNeverRefused ==
  \A p \in ProposalIds :
    /\ proposals[p].exists /\ ~proposals[p].settled
    /\ now > proposals[p].orderDeadline
    /\ options[p] # <<>>
    => SettleRequires(p)

(***************************************************************************)
(* A round with an option can always be settled once ordering is over: a   *)
(* vote nobody has finalised can still be, and the contract never runs out *)
(* of money for the merchant, however many other rounds were settled,      *)
(* orders cancelled and withdrawals made before.                           *)
(***************************************************************************)
THEOREM SettlementNeverRefused == Spec => []SettleNeverRefused
  <1>1. RoundInv => SettleNeverRefused
    <2> SUFFICES ASSUME RoundInv, NEW p \in ProposalIds,
                        proposals[p].exists, ~proposals[p].settled,
                        now > proposals[p].orderDeadline, options[p] # <<>>
                 PROVE  SettleRequires(p)
      BY DEF SettleNeverRefused
    <2> DEFINE pool == proposals[p].orderPool
               opens == Opens
    <2>1. TypeOK /\ PoolWithinOrders /\ NativeSolvent /\ Timed
      BY DEF RoundInv
    <2>2. /\ pool \in Nat /\ pool <= ActiveOrders(p) /\ ActiveOrders(p) = OpenOrders(p)
          /\ OpenOrders(p) \in Nat
      BY <2>1, ProposalType, OrdersType DEF PoolWithinOrders, OpenOrders
    <2>3. opens \in [ProposalIds -> Nat] /\ opens[p] = OpenOrders(p)
      BY <2>1, OrdersType DEF Opens
    <2>4. /\ nativeBalance >= treasuryNativeBalance + Sum(opens)
          /\ {nativeBalance, treasuryNativeBalance, Sum(opens)} \subseteq Nat
      BY <2>1, OrdersType DEF TypeOK
    <2> HIDE DEF pool, opens
    <2>5. opens[p] <= Sum(opens)
      <3>1. IsFiniteSet(ProposalIds) /\ 0 \in Nat
        BY Finiteness
      <3> QED
        BY <2>3, <3>1, SumUpdate, Zenon
    <2>6. ORDER_FEE_BPS \in BasisPoints
      BY ConstantTypes
    <2>7. Bps(pool, ORDER_FEE_BPS) \in Nat
      BY <2>2, <2>6, BpsBound, Zenon
    <2>8. pool - Bps(pool, ORDER_FEE_BPS) <= nativeBalance
      BY <2>2, <2>3, <2>4, <2>5, <2>7
    <2>9. proposals[p].voteFinalized \/ CanFinalize(p)
      <3>1. now \in Nat /\ {proposals[p].voteDeadline, proposals[p].orderDeadline} \subseteq Nat
        BY <2>1, ProposalType DEF TypeOK
      <3>2. now > proposals[p].voteDeadline
        BY <2>1, <3>1 DEF Timed
      <3>3. Len(options[p]) > 0
        BY <2>1 DEF TypeOK
      <3> QED
        BY <3>2, <3>3 DEF CanFinalize
    <2>10. FinalOf(p).orderPool = pool
      BY <2>1, ProposalType DEF FinalOf, Finalized, Proposal, pool
    <2> QED
      BY <2>8, <2>9, <2>10 DEF SettleRequires, FeeOf
  <1> QED
    BY <1>1, RoundInvariant, PTL

=============================================================================
