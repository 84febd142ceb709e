---- MODULE ListsProofs ----
(***************************************************************************)
(* Facts about lists and about numbers that the proofs of several modules  *)
(* need.                                                                   *)
(***************************************************************************)
EXTENDS Lists, Functions, TLAPS, WellFoundedInduction, FiniteSetTheorems

----
(***************************************************************************)
(* The first of some numbers.                                              *)
(***************************************************************************)
\* The order of the numbers, as a relation.
Less == {ss \in Nat \X Nat : ss[1] < ss[2]}

\* Some numbers have a smallest one, and so have the positions of a list.
LEMMA SmallestExists ==
  ASSUME NEW T, T \subseteq Nat, T # {}
  PROVE  \E x \in T : \A y \in T : x <= y
<1>1. OpToRel(<, Nat) = Less BY DEF OpToRel, Less
<1>2. IsWellFoundedOn(Less, Nat) BY <1>1, NatLessThanWellFounded
<1>3. \E x \in T : \A y \in T : ~(<<y, x>> \in Less) BY <1>2, WFMin
<1>4. ASSUME NEW x \in T, NEW y \in T, ~(<<y, x>> \in Less) PROVE x <= y
  BY <1>4 DEF Less
<1> QED BY <1>3, <1>4

----
(***************************************************************************)
(* The positions of a sublist.                                             *)
(***************************************************************************)
\* How many of the positions P come up to i.
Rank(P, i) == Cardinality({j \in P : j <= i})

\* A later position has a higher rank.
LEMMA RanksIncrease ==
  ASSUME NEW P, IsFiniteSet(P), P \subseteq Int
  PROVE  /\ Cardinality(P) \in Nat
         /\ \A i \in P : Rank(P, i) \in 1 .. Cardinality(P)
         /\ \A i, j \in P : i < j => Rank(P, i) < Rank(P, j)
<1>1. Cardinality(P) \in Nat
  BY FS_CardinalityType
<1> DEFINE Upto(i) == {j \in P : j <= i}
<1>2. ASSUME NEW i \in P
      PROVE  /\ IsFiniteSet(Upto(i)) /\ Rank(P, i) = Cardinality(Upto(i))
             /\ Rank(P, i) \in Nat /\ Rank(P, i) <= Cardinality(P) /\ Rank(P, i) # 0
  <2>1. Upto(i) \in SUBSET P /\ i \in Upto(i)
    OBVIOUS
  <2>2. IsFiniteSet(Upto(i)) /\ Cardinality(Upto(i)) <= Cardinality(P)
    <3> HIDE DEF Upto
    <3>1. QED
      BY <2>1, FS_Subset
  <2>3. Rank(P, i) = Cardinality(Upto(i))
    BY DEF Rank
  <2>4. Cardinality(Upto(i)) \in Nat /\ Cardinality(Upto(i)) # 0
    <3> HIDE DEF Upto
    <3>1. QED
      BY <2>1, <2>2, FS_CardinalityType, FS_EmptySet
  <2>5. QED
    BY <2>2, <2>3, <2>4
<1>3. ASSUME NEW i \in P, NEW j \in P, i < j
      PROVE  Rank(P, i) < Rank(P, j)
  <2>1. i \in Int /\ j \in Int /\ \A l \in P : l \in Int
    OBVIOUS
  <2>2. \A l \in Upto(i) : l \in Upto(j)
    BY <1>3, <2>1
  <2>3. Upto(i) \in SUBSET Upto(j) /\ j \in Upto(j) /\ j \notin Upto(i)
    <3>1. j \in Upto(j) /\ j \notin Upto(i)
      BY <1>3, <2>1
    <3>2. Upto(i) \subseteq Upto(j)
      BY <2>2
    <3>3. QED
      BY <3>1, <3>2
  <2>4. Cardinality(Upto(i)) <= Cardinality(Upto(j)) /\ Cardinality(Upto(i)) # Cardinality(Upto(j))
    <3> HIDE DEF Upto
    <3>1. QED
      BY <1>2, <2>3, FS_Subset
  <2>5. QED
    BY <1>2, <2>4
<1> HIDE DEF Upto
<1>4. ASSUME NEW i \in P PROVE Rank(P, i) \in 1 .. Cardinality(P)
  <2>1. Rank(P, i) \in Nat /\ Rank(P, i) # 0 /\ Rank(P, i) <= Cardinality(P)
    BY <1>2
  <2>2. QED
    BY <1>1, <2>1
<1>5. QED
  BY <1>1, <1>3, <1>4

\* The numbers from 1 to their number name the positions, in their order.
LEMMA NthFacts ==
  ASSUME NEW P, IsFiniteSet(P), P \subseteq Int
  PROVE  /\ Cardinality(P) \in Nat
         /\ \A k \in 1 .. Cardinality(P) : Nth(P, k) \in P /\ Rank(P, Nth(P, k)) = k
         /\ \A i \in P : Rank(P, i) \in 1 .. Cardinality(P) /\ Nth(P, Rank(P, i)) = i
         /\ \A k, m \in 1 .. Cardinality(P) : k < m => Nth(P, k) < Nth(P, m)
<1> DEFINE n == Cardinality(P)
           rank == [i \in P |-> Rank(P, i)]
<1>1. /\ n \in Nat
      /\ \A i \in P : Rank(P, i) \in 1 .. n
      /\ \A i, j \in P : i < j => Rank(P, i) < Rank(P, j)
  BY RanksIncrease
<1>2. \A i, j \in P : Rank(P, i) = Rank(P, j) => i = j
  <2>1. ASSUME NEW i \in P, NEW j \in P, i # j PROVE Rank(P, i) # Rank(P, j)
    <3>1. i < j \/ j < i
      BY <2>1
    <3>2. Rank(P, i) \in Int /\ Rank(P, j) \in Int
      BY <1>1
    <3>3. QED
      BY <1>1, <3>1, <3>2
  <2>2. QED
    BY <2>1
<1>3. \A k \in 1 .. n : \E i \in P : Rank(P, i) = k
  <2>1. rank \in Injection(P, 1 .. n)
    BY <1>1, <1>2 DEF Injection, IsInjective
  <2>2. IsFiniteSet(1 .. n) /\ Cardinality(1 .. n) = n
    BY <1>1, FS_Interval
  <2>3. rank \in Surjection(P, 1 .. n)
    BY <2>1, <2>2, FS_Injection
  <2>4. QED
    BY <2>3 DEF Surjection
<1>4. \A k \in 1 .. n : Nth(P, k) \in P /\ Rank(P, Nth(P, k)) = k
  BY <1>3 DEF Nth, Rank
<1>5. \A i \in P : Rank(P, i) \in 1 .. n /\ Nth(P, Rank(P, i)) = i
  BY <1>1, <1>2, <1>4
<1>6. ASSUME NEW k \in 1 .. n, NEW m \in 1 .. n, k < m PROVE Nth(P, k) < Nth(P, m)
  <2>1. Nth(P, k) \in P /\ Nth(P, m) \in P /\ Rank(P, Nth(P, k)) = k /\ Rank(P, Nth(P, m)) = m
    BY <1>4
  <2>2. ~(m < k) /\ m # k
    BY <1>1, <1>6
  <2>3. ~(Nth(P, m) < Nth(P, k)) /\ Nth(P, m) # Nth(P, k)
    BY <1>1, <2>1, <2>2
  <2>4. Nth(P, k) \in Int /\ Nth(P, m) \in Int
    BY <2>1
  <2>5. QED
    BY <2>3, <2>4
<1>7. QED
  BY <1>1, <1>4, <1>5, <1>6

\* A sublist holds what is at its positions, nothing else, and in that order.
LEMMA SublistFacts ==
  ASSUME NEW s, NEW P, IsFiniteSet(P), P \subseteq Int
  PROVE  /\ Cardinality(P) \in Nat
         /\ Len(Sublist(s, P)) = Cardinality(P) /\ DOMAIN Sublist(s, P) = 1 .. Cardinality(P)
         /\ \A k \in 1 .. Cardinality(P) : Nth(P, k) \in P /\ Sublist(s, P)[k] = s[Nth(P, k)]
         /\ \A i \in P : \E k \in 1 .. Cardinality(P) : Nth(P, k) = i
         /\ \A k, m \in 1 .. Cardinality(P) : k < m => Nth(P, k) < Nth(P, m)
<1>1. Cardinality(P) \in Nat
  BY NthFacts
<1>2. Sublist(s, P) = [k \in 1 .. Cardinality(P) |-> s[Nth(P, k)]]
  BY DEF Sublist
<1>3. Len(Sublist(s, P)) = Cardinality(P)
  BY <1>1, <1>2
<1>4. QED
  BY <1>1, <1>2, <1>3, NthFacts

\* A sublist is a list of the elements at its positions.
LEMMA SublistRange ==
  ASSUME NEW s, NEW P, IsFiniteSet(P), P \subseteq Int, NEW S, \A i \in P : s[i] \in S
  PROVE  /\ Sublist(s, P) \in Seq(S)
         /\ \A x : x \in Range(Sublist(s, P)) <=> \E i \in P : x = s[i]
<1> DEFINE n == Cardinality(P)
           t == Sublist(s, P)
<1>1. /\ n \in Nat /\ DOMAIN t = 1 .. n
      /\ \A k \in 1 .. n : Nth(P, k) \in P /\ t[k] = s[Nth(P, k)]
      /\ \A i \in P : \E k \in 1 .. n : Nth(P, k) = i
  <2>1. n \in Nat
    BY NthFacts
  <2>2. \A k \in 1 .. n : Nth(P, k) \in P
    BY NthFacts
  <2>3. ASSUME NEW i \in P PROVE \E k \in 1 .. n : Nth(P, k) = i
    BY NthFacts
  <2>4. DOMAIN t = 1 .. n /\ \A k \in 1 .. n : t[k] = s[Nth(P, k)]
    BY DEF Sublist
  <2>5. QED
    BY <2>1, <2>2, <2>3, <2>4
<1>2. t = [k \in 1 .. n |-> t[k]]
  BY DEF Sublist
<1> HIDE DEF n, t
<1>3. \A k \in 1 .. n : t[k] \in S
  BY <1>1
<1>4. t \in Seq(S)
  <2>1. t \in [1 .. n -> S]
    BY <1>2, <1>3
  <2>2. QED
    BY <1>1, <2>1
<1>5. ASSUME NEW x, x \in Range(t) PROVE \E i \in P : x = s[i]
  <2>1. PICK k \in 1 .. n : x = t[k]
    BY <1>1, <1>5 DEF Range
  <2>2. Nth(P, k) \in P /\ x = s[Nth(P, k)]
    BY <1>1, <2>1
  <2>3. QED
    BY <2>2
<1>6. ASSUME NEW i \in P PROVE s[i] \in Range(t)
  BY <1>1 DEF Range
<1>7. QED
  BY <1>4, <1>5, <1>6 DEF t
====
