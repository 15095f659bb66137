---------------------------- MODULE SchedulerProofs ----------------------------
(***************************************************************************)
(* The scheduler keeps its types, hands out batches that lose, repeat and  *)
(* reorder nothing and requeues its work at a restart, for lists of any    *)
(* length.  The facts about the pure functions come first: what selecting, *)
(* sorting and deduplicating a list keeps, and what types the planner and  *)
(* the batch return; the proofs of the sync loop use them too.             *)
(***************************************************************************)
EXTENDS Scheduler, FiniteSetTheorems, FunctionTheorems, SequenceTheorems, TLAPS

USE IdsAndPathsAreNat

\* A non-empty set of naturals has a least element.
LEMMA LeastNatural ==
    ASSUME NEW J \in SUBSET Nat, J # {}
    PROVE  \E m \in J : \A j \in J : m <= j
<1>1. PICK m \in J : \A j \in J : ~(<<j, m>> \in OpToRel(<, Nat))
  BY NatLessThanWellFounded, WFMin
<1>2. \A j \in J : ~(j < m)
  BY <1>1 DEF OpToRel
<1> QED  BY <1>2

\* R orders I totally.
TotalOrder(R, I) ==
    /\ \A i \in I : <<i, i>> \in R
    /\ \A i, j \in I : <<i, j>> \in R \/ <<j, i>> \in R
    /\ \A i, j \in I : <<i, j>> \in R /\ <<j, i>> \in R => i = j
    /\ \A i, j, k \in I : <<i, j>> \in R /\ <<j, k>> \in R => <<i, k>> \in R

\* The elements of I up to i, whose number is the rank of i.
UpTo(R, I, i) == {j \in I : <<j, i>> \in R}

\* In a finite total order the ranks are exactly 1..Cardinality(I).
LEMMA RankOnto ==
    ASSUME NEW I, IsFiniteSet(I), NEW R, TotalOrder(R, I)
    PROVE  /\ Cardinality(I) \in Nat
           /\ \A n \in 1..Cardinality(I) : \E i \in I : Cardinality(UpTo(R, I, i)) = n
           /\ \A i \in I : Cardinality(UpTo(R, I, i)) \in 1..Cardinality(I)
           /\ \A i, k \in I : Cardinality(UpTo(R, I, i)) = Cardinality(UpTo(R, I, k)) => i = k
<1> DEFINE D(i) == UpTo(R, I, i)
           N == Cardinality(I)
           f == [i \in I |-> Cardinality(D(i))]
<1>1. N \in Nat  BY FS_CardinalityType
<1>2. ASSUME NEW i \in I
      PROVE  /\ IsFiniteSet(D(i)) /\ Cardinality(D(i)) \in 1..N
             /\ i \in D(i)
  <2>1. D(i) \in SUBSET I /\ i \in D(i)  BY DEF TotalOrder, UpTo
  <2>2. IsFiniteSet(D(i)) /\ Cardinality(D(i)) <= N
    <3> HIDE DEF D
    <3> QED  BY <2>1, FS_Subset
  <2>3. Cardinality(D(i)) \in Nat /\ Cardinality(D(i)) # 0
    <3> HIDE DEF D
    <3> QED  BY <2>1, <2>2, FS_CardinalityType, FS_EmptySet
  <2> QED  BY <1>1, <2>1, <2>2, <2>3
<1>3. ASSUME NEW i \in I, NEW k \in I, <<i, k>> \in R, i # k
      PROVE  Cardinality(D(i)) # Cardinality(D(k))
  <2>1. D(i) \in SUBSET D(k)  BY <1>3 DEF TotalOrder, UpTo
  <2>2. k \in D(k) /\ k \notin D(i)  BY <1>3 DEF TotalOrder, UpTo
  <2>3. IsFiniteSet(D(k))  BY <1>2
  <2> HIDE DEF D
  <2> QED  BY <2>1, <2>2, <2>3, FS_Subset
<1>4. f \in Injection(I, 1..N)
  <2>1. f \in [I -> 1..N]  BY <1>2
  <2>2. ASSUME NEW i \in I, NEW k \in I, i # k PROVE f[i] # f[k]
    <3>1. <<i, k>> \in R \/ <<k, i>> \in R  BY DEF TotalOrder
    <3> HIDE DEF D
    <3> QED  BY <1>3, <2>2, <3>1
  <2> HIDE DEF f
  <2> QED  BY <2>1, <2>2, Fun_IsInj
<1>5. IsFiniteSet(1..N) /\ Cardinality(1..N) = N
  BY <1>1, FS_Interval
<1>6. f \in Surjection(I, 1..N)
  <2> HIDE DEF f
  <2> QED  BY <1>4, <1>5, FS_Injection
<1>7. \A n \in 1..N : \E i \in I : f[i] = n
  <2> HIDE DEF f
  <2> QED  BY <1>6, Fun_SurjectionProperties
<1>8. ASSUME NEW i \in I, NEW k \in I, Cardinality(D(i)) = Cardinality(D(k))
      PROVE  i = k
  <2>1. <<i, k>> \in R \/ <<k, i>> \in R  BY DEF TotalOrder
  <2> HIDE DEF D
  <2> QED  BY <1>3, <1>8, <2>1
<1> QED  BY <1>1, <1>2, <1>7, <1>8

-----------------------------------------------------------------------------
\* The indices of a list, and its elements.
LEMMA ElemsOfSeq ==
    ASSUME NEW S, NEW s \in Seq(S)
    PROVE  /\ Len(s) \in Nat /\ DOMAIN s = 1..Len(s) /\ s \in [1..Len(s) -> S]
           /\ IsFiniteSet(DOMAIN s) /\ Cardinality(DOMAIN s) = Len(s)
           /\ Elems(s) \subseteq S
<1>1. Len(s) \in Nat /\ DOMAIN s = 1..Len(s) /\ s \in [1..Len(s) -> S]
  OBVIOUS
<1>2. IsFiniteSet(1..Len(s)) /\ Cardinality(1..Len(s)) = Len(s)
  BY <1>1, FS_Interval
<1> QED  BY <1>1, <1>2 DEF Elems

\* The elements of s at the indices in I.
ElemsAt(s, I) == {s[i] : i \in I}

\* A function on 1..N is a list.
LEMMA SeqOfFunction ==
    ASSUME NEW S, NEW N \in Nat, NEW t \in [1..N -> S]
    PROVE  t \in Seq(S) /\ Len(t) = N /\ DOMAIN t = 1..N /\ Elems(t) = ElemsAt(t, 1..N)
<1>1. t \in Seq(S)  BY SeqDef
<1>2. DOMAIN t = 1..N  OBVIOUS
<1>3. Len(t) = N  BY <1>1, <1>2
<1> QED  BY <1>1, <1>2, <1>3 DEF Elems, ElemsAt

\* t reads the list s at the indices I, in the order c of their ranks in R.
ReadsByRank(S, s, I, R, c, t) ==
    /\ s \in Seq(S) /\ I \subseteq DOMAIN s
    /\ TotalOrder(R, I)
    /\ c \in [1..Cardinality(I) -> I]
    /\ \A n \in 1..Cardinality(I) : Cardinality(UpTo(R, I, c[n])) = n
    /\ t \in [1..Cardinality(I) -> S]
    /\ \A n \in 1..Cardinality(I) : t[n] = s[c[n]]

\* Such a reading is a list of the same elements.
LEMMA ReadByRank ==
    ASSUME NEW S, NEW s, NEW I, NEW R, NEW c, NEW t, ReadsByRank(S, s, I, R, c, t)
    PROVE  /\ t \in Seq(S) /\ Len(t) = Cardinality(I)
           /\ Elems(t) = ElemsAt(s, I)
<1> USE DEF ReadsByRank
<1>1. IsFiniteSet(I)  BY ElemsOfSeq, FS_Subset
<1>2. PICK N : N = Cardinality(I)  OBVIOUS
<1>3. /\ N \in Nat
      /\ \A i \in I : Cardinality(UpTo(R, I, i)) \in 1..N
      /\ \A i, k \in I : Cardinality(UpTo(R, I, i)) = Cardinality(UpTo(R, I, k)) => i = k
  BY <1>1, <1>2, RankOnto
<1>4. \A n \in 1..N : c[n] \in I /\ s[c[n]] \in S /\ t[n] = s[c[n]]
  BY <1>2, ElemsOfSeq
<1>5. t \in [1..N -> S]
  BY <1>2, <1>4
<1>6. ASSUME NEW i \in I PROVE \E n \in 1..N : c[n] = i
  <2>1. PICK m : m = Cardinality(UpTo(R, I, i))  OBVIOUS
  <2>2. m \in 1..N  BY <1>3, <2>1
  <2>3. c[m] \in I /\ Cardinality(UpTo(R, I, c[m])) = m  BY <1>2, <1>4, <2>2
  <2> QED  BY <1>3, <2>1, <2>2, <2>3
<1>7. /\ \A n \in 1..N : \E i \in I : t[n] = s[i]
      /\ \A i \in I : \E n \in 1..N : t[n] = s[i]
  BY <1>4, <1>6
<1>8. ElemsAt(t, 1..N) = ElemsAt(s, I)
  BY <1>7 DEF ElemsAt
<1> QED  BY <1>2, <1>3, <1>5, <1>8, SeqOfFunction

\* Pick reads a list at the chosen indices, in their order.
LEMMA PickReads ==
    ASSUME NEW S, NEW s \in Seq(S), NEW I, I \subseteq DOMAIN s
    PROVE  \E R, c : ReadsByRank(S, s, I, R, c, Pick(s, I))
<1> DEFINE R == {p \in I \X I : p[1] <= p[2]}
           N == Cardinality(I)
           c == [n \in 1..N |-> CHOOSE i \in I : Cardinality({j \in I : j <= i}) = n]
           t == Pick(s, I)
<1>1. \A i, j \in I : <<j, i>> \in R <=> j <= i
  OBVIOUS
<1>2. I \subseteq Nat /\ IsFiniteSet(I)  BY ElemsOfSeq, FS_Subset
<1>3. TotalOrder(R, I)
  <2> HIDE DEF R
  <2> QED  BY <1>1, <1>2 DEF TotalOrder
<1>4. \A i \in I : UpTo(R, I, i) = {j \in I : j <= i}
  <2> HIDE DEF R
  <2> QED  BY <1>1 DEF UpTo
<1>5. \A n \in 1..N : \E i \in I : Cardinality({j \in I : j <= i}) = n
  <2> HIDE DEF R
  <2>1. \A n \in 1..N : \E i \in I : Cardinality(UpTo(R, I, i)) = n
    BY <1>2, <1>3, RankOnto
  <2> QED  BY <1>4, <2>1
<1>6. \A n \in 1..N : c[n] \in I /\ Cardinality({j \in I : j <= c[n]}) = n
  BY <1>5
<1>7. t = [n \in 1..N |-> s[c[n]]]
  BY DEF Pick
<1>8. c \in [1..N -> I]
  BY <1>6
<1>9. \A n \in 1..N : Cardinality(UpTo(R, I, c[n])) = n
  <2> HIDE DEF R, c
  <2> QED  BY <1>4, <1>6
<1>9a. t \in [1..N -> S] /\ \A n \in 1..N : t[n] = s[c[n]]
  <2> HIDE DEF c, t
  <2> QED  BY <1>7, <1>8, ElemsOfSeq
<1>10. ReadsByRank(S, s, I, R, c, t)
  <2> HIDE DEF R, t, c
  <2> QED  BY <1>3, <1>8, <1>9, <1>9a DEF ReadsByRank
<1> HIDE DEF R, t, c
<1> QED  BY <1>10 DEF t

\* Pick keeps exactly the elements at the chosen indices.
LEMMA PickProps ==
    ASSUME NEW S, NEW s \in Seq(S), NEW I, I \subseteq DOMAIN s
    PROVE  /\ Pick(s, I) \in Seq(S) /\ Len(Pick(s, I)) = Cardinality(I)
           /\ Elems(Pick(s, I)) = ElemsAt(s, I)
           /\ Elems(Pick(s, I)) \subseteq Elems(s)
<1>1. PICK t : t = Pick(s, I)  OBVIOUS
<1>2. PICK R, c : ReadsByRank(S, s, I, R, c, t)  BY <1>1, PickReads
<1>3. t \in Seq(S) /\ Len(t) = Cardinality(I) /\ Elems(t) = ElemsAt(s, I)
  BY <1>2, ReadByRank
<1>4. Elems(t) \subseteq Elems(s)  BY <1>3 DEF Elems, ElemsAt
<1> QED  BY <1>1, <1>3, <1>4

\* It keeps every element as often as it is chosen.
LEMMA PickCount ==
    ASSUME NEW S, NEW s \in Seq(S), NEW I, I \subseteq DOMAIN s, NEW o
    PROVE  Count(Pick(s, I), o) = Cardinality({i \in I : s[i] = o})
<1>1. PICK t : t = Pick(s, I)  OBVIOUS
<1>2. PICK R, c : ReadsByRank(S, s, I, R, c, t)  BY <1>1, PickReads
<1>3. IsFiniteSet(I)  BY ElemsOfSeq, FS_Subset
<1>4. PICK N : N = Cardinality(I)  OBVIOUS
<1>5. /\ N \in Nat /\ TotalOrder(R, I)
      /\ \A i \in I : Cardinality(UpTo(R, I, i)) \in 1..N
      /\ \A i, k \in I : Cardinality(UpTo(R, I, i)) = Cardinality(UpTo(R, I, k)) => i = k
  BY <1>2, <1>3, <1>4, RankOnto DEF ReadsByRank
<1>6. DOMAIN t = 1..N /\ \A n \in 1..N : c[n] \in I /\ t[n] = s[c[n]] /\ Cardinality(UpTo(R, I, c[n])) = n
  BY <1>2, <1>4 DEF ReadsByRank
<1> DEFINE A == {n \in 1..N : t[n] = o}
           B == {i \in I : s[i] = o}
           f == [n \in A |-> c[n]]
<1>7. f \in [A -> B]  BY <1>6
<1>8. \A m, n \in A : f[m] = f[n] => m = n  BY <1>6
<1>9. ASSUME NEW i \in B  PROVE \E n \in A : f[n] = i
  <2>1. PICK n : n = Cardinality(UpTo(R, I, i))  OBVIOUS
  <2>2. n \in 1..N /\ c[n] = i  BY <1>5, <1>6, <2>1
  <2>3. n \in A /\ f[n] = i  BY <1>6, <2>2
  <2> QED  BY <2>3
<1>10. IsFiniteSet(A)
  <2>1. IsFiniteSet(1..N)  BY <1>5, FS_Interval
  <2>2. A \in SUBSET (1..N)  OBVIOUS
  <2> HIDE DEF A
  <2> QED  BY <2>1, <2>2, FS_Subset
<1>11. Cardinality(A) = Cardinality(B)
  <2> HIDE DEF A, B, f
  <2>1. f \in Bijection(A, B)  BY <1>7, <1>8, <1>9, Fun_IsBij
  <2>2. ExistsBijection(A, B)  BY <2>1, Fun_ExistsBij
  <2> QED  BY <1>10, <2>2, FS_Bijection
<1>12. Count(t, o) = Cardinality(A)  BY <1>6 DEF Count
<1> QED  BY <1>1, <1>11, <1>12

-----------------------------------------------------------------------------
\* L is the strict part of a weak order of the indices D.
WeakOrder(L, D) ==
    /\ \A i, j \in D : <<i, j>> \in L => <<j, i>> \notin L
    /\ \A i, j, k \in D : <<i, k>> \in L => <<i, j>> \in L \/ <<j, k>> \in L

\* L, and among equals the order of the naturals.
StableOf(L, D) == {p \in D \X D : p \in L \/ (<<p[2], p[1]>> \notin L /\ p[1] <= p[2])}

\* What a stable sort orders by is total.
LEMMA StableIsTotal ==
    ASSUME NEW D, D \subseteq Nat, NEW L, WeakOrder(L, D)
    PROVE  TotalOrder(StableOf(L, D), D)
<1> DEFINE R == StableOf(L, D)
<1>1. \A i, j \in D : <<i, j>> \in R <=> (<<i, j>> \in L \/ (<<j, i>> \notin L /\ i <= j))
  BY DEF StableOf
<1> HIDE DEF R
<1>2. \A i \in D : <<i, i>> \in R  BY <1>1
<1>3. ASSUME NEW i \in D, NEW j \in D PROVE <<i, j>> \in R \/ <<j, i>> \in R
  <2>1. i <= j \/ j <= i  OBVIOUS
  <2> QED  BY <1>1, <2>1
<1>4. \A i, j \in D : <<i, j>> \in R /\ <<j, i>> \in R => i = j
  BY <1>1 DEF WeakOrder
<1>5. ASSUME NEW i \in D, NEW j \in D, NEW k \in D, <<i, j>> \in R, <<j, k>> \in R
      PROVE  <<i, k>> \in R
  <2>1. CASE <<i, j>> \in L
    <3>1. <<k, j>> \notin L  BY <1>1, <1>5 DEF WeakOrder
    <3> QED  BY <1>1, <2>1, <3>1 DEF WeakOrder
  <2>2. CASE <<i, j>> \notin L
    <3>1. <<j, i>> \notin L /\ i <= j  BY <1>1, <1>5, <2>2
    <3>2. CASE <<j, k>> \in L
      BY <1>1, <3>1, <3>2 DEF WeakOrder
    <3>3. CASE <<j, k>> \notin L
      <4>1. <<k, j>> \notin L /\ j <= k  BY <1>1, <1>5, <3>3
      <4>2. <<k, i>> \notin L /\ i <= k  BY <3>1, <4>1 DEF WeakOrder
      <4> QED  BY <1>1, <4>2
    <3> QED  BY <3>2, <3>3
  <2> QED  BY <2>1, <2>2
<1> QED  BY <1>2, <1>3, <1>4, <1>5 DEF TotalOrder, R

\* t is s read in the stable order of L, at the indices c.
StablySorted(S, s, L, c, t) ==
    /\ s \in Seq(S)
    /\ WeakOrder(L, DOMAIN s)
    /\ c \in [DOMAIN s -> DOMAIN s]
    /\ \A n \in DOMAIN s : Cardinality(UpTo(StableOf(L, DOMAIN s), DOMAIN s, c[n])) = n
    /\ t = [n \in DOMAIN s |-> s[c[n]]]

\* A stable order has an index for every place.
LEMMA StableRanks ==
    ASSUME NEW S, NEW s \in Seq(S), NEW L, WeakOrder(L, DOMAIN s)
    PROVE  /\ TotalOrder(StableOf(L, DOMAIN s), DOMAIN s)
           /\ \A n \in DOMAIN s : \E i \in DOMAIN s :
                Cardinality(UpTo(StableOf(L, DOMAIN s), DOMAIN s, i)) = n
<1> DEFINE D == DOMAIN s
           R == StableOf(L, D)
<1>1. D = 1..Len(s) /\ Len(s) \in Nat /\ IsFiniteSet(D) /\ Cardinality(D) = Len(s)
  BY ElemsOfSeq
<1>2. WeakOrder(L, D) /\ D \subseteq Nat  BY <1>1
<1> HIDE DEF D
<1>3. TotalOrder(R, D)  BY <1>2, StableIsTotal
<1> HIDE DEF R
<1>4. \A n \in D : \E i \in D : Cardinality(UpTo(R, D, i)) = n
  BY <1>1, <1>3, RankOnto
<1> QED  BY <1>3, <1>4 DEF D, R

\* A stable sort keeps the length and the elements.
LEMMA SortKeeps ==
    ASSUME NEW S, NEW s, NEW L, NEW c, NEW t, StablySorted(S, s, L, c, t)
    PROVE  t \in Seq(S) /\ Len(t) = Len(s) /\ Elems(t) = Elems(s)
<1> DEFINE D == DOMAIN s
           R == StableOf(L, D)
<1>1. s \in Seq(S)  BY DEF StablySorted
<1>2. D = 1..Len(s) /\ Len(s) \in Nat /\ IsFiniteSet(D) /\ Cardinality(D) = Len(s)
  BY <1>1, ElemsOfSeq
<1>3. TotalOrder(R, D)  BY <1>1, StableRanks DEF StablySorted
<1>4. c \in [D -> D] /\ \A n \in D : Cardinality(UpTo(R, D, c[n])) = n
  BY DEF StablySorted
<1>5. t = [n \in D |-> s[c[n]]]
  BY DEF StablySorted
<1> HIDE DEF R
<1>6. t \in [D -> S] /\ \A n \in D : t[n] = s[c[n]]
  <2>1. \A n \in D : s[n] \in S  BY <1>1, ElemsOfSeq
  <2> HIDE DEF D
  <2> QED  BY <1>4, <1>5, <2>1
<1>7. D = 1..Cardinality(D)  BY <1>2
<1>8. ReadsByRank(S, s, D, R, c, t)
  <2>1. D \subseteq DOMAIN s  OBVIOUS
  <2> HIDE DEF D
  <2> QED  BY <1>1, <1>3, <1>4, <1>6, <1>7, <2>1 DEF ReadsByRank
<1>9. t \in Seq(S) /\ Len(t) = Cardinality(D) /\ Elems(t) = ElemsAt(s, D)
  BY <1>8, ReadByRank
<1>10. Elems(s) = ElemsAt(s, D)  BY DEF Elems, ElemsAt
<1> QED  BY <1>2, <1>9, <1>10

\* Every planned operation has one of four priorities.
LEMMA PriorityType ==
    ASSUME NEW o \in PlannedOperation
    PROVE  priority(o) \in Nat /\ o.sync \in Nat /\ o.path \in Nat
BY DEF priority, PlannedOperation, OpKinds

\* The order of the queue is a weak order of operations.
LEMMA DispatchWeak ==
    ASSUME NEW a \in PlannedOperation, NEW b \in PlannedOperation, NEW c \in PlannedOperation
    PROVE  /\ DispatchLt(a, b) => ~DispatchLt(b, a)
           /\ DispatchLt(a, c) => DispatchLt(a, b) \/ DispatchLt(b, c)
BY PriorityType DEF DispatchLt

\* So is the order of the persisted snapshot.
LEMMA SnapshotWeak ==
    ASSUME NEW a \in PlannedOperation, NEW b \in PlannedOperation, NEW c \in PlannedOperation
    PROVE  /\ SnapshotLt(a, b) => ~SnapshotLt(b, a)
           /\ SnapshotLt(a, c) => SnapshotLt(a, b) \/ SnapshotLt(b, c)
BY PriorityType DEF SnapshotLt, DispatchLt

\* Sorting the queue loses no operation and makes none up.
LEMMA SortOpsProps ==
    ASSUME NEW s \in Seq(PlannedOperation)
    PROVE  /\ SortOps(s) \in Seq(PlannedOperation) /\ Len(SortOps(s)) = Len(s)
           /\ Elems(SortOps(s)) = Elems(s)
<1> DEFINE D == DOMAIN s
           L == {p \in D \X D : DispatchLt(s[p[1]], s[p[2]])}
           Before(j, i) == DispatchLt(s[j], s[i]) \/ (~DispatchLt(s[i], s[j]) /\ j <= i)
           c == [n \in D |-> CHOOSE i \in D : Cardinality({j \in D : Before(j, i)}) = n]
           t == SortOps(s)
<1>1. \A i \in D : s[i] \in PlannedOperation  BY ElemsOfSeq
<1>2. \A i, j \in D : <<i, j>> \in L <=> DispatchLt(s[i], s[j])  OBVIOUS
<1>3. WeakOrder(L, D)
  <2> HIDE DEF L, D
  <2> QED  BY <1>1, <1>2, DispatchWeak DEF WeakOrder
<1>4. \A i \in D : UpTo(StableOf(L, D), D, i) = {j \in D : Before(j, i)}
  <2> HIDE DEF L, D
  <2> QED  BY <1>2 DEF UpTo, StableOf
<1>5. \A n \in D : \E i \in D : Cardinality({j \in D : Before(j, i)}) = n
  <2>1. \A n \in D : \E i \in D : Cardinality(UpTo(StableOf(L, D), D, i)) = n
    <3> HIDE DEF L
    <3> QED  BY <1>3, StableRanks
  <2> HIDE DEF L, D, Before
  <2> QED  BY <1>4, <2>1
<1>6. c \in [D -> D] /\ \A n \in D : Cardinality({j \in D : Before(j, c[n])}) = n
  <2> HIDE DEF L, D, Before
  <2> QED  BY <1>5
<1>7. t = [n \in D |-> s[c[n]]]
  BY DEF SortOps, StableSort
<1> HIDE DEF c, t, L, Before
<1>8. \A n \in D : Cardinality(UpTo(StableOf(L, D), D, c[n])) = n
  <2> HIDE DEF D
  <2> QED  BY <1>4, <1>6
<1>9. StablySorted(PlannedOperation, s, L, c, t)
  BY <1>3, <1>6, <1>7, <1>8 DEF StablySorted
<1>10. t \in Seq(PlannedOperation) /\ Len(t) = Len(s) /\ Elems(t) = Elems(s)
  BY <1>9, SortKeeps
<1> QED  BY <1>10 DEF t

\* Nor does sorting the snapshot.
LEMMA SnapshotSortProps ==
    ASSUME NEW s \in Seq(PlannedOperation)
    PROVE  /\ StableSort(s, SnapshotLt) \in Seq(PlannedOperation) /\ Len(StableSort(s, SnapshotLt)) = Len(s)
           /\ Elems(StableSort(s, SnapshotLt)) = Elems(s)
<1> DEFINE D == DOMAIN s
           L == {p \in D \X D : SnapshotLt(s[p[1]], s[p[2]])}
           Before(j, i) == SnapshotLt(s[j], s[i]) \/ (~SnapshotLt(s[i], s[j]) /\ j <= i)
           c == [n \in D |-> CHOOSE i \in D : Cardinality({j \in D : Before(j, i)}) = n]
           t == StableSort(s, SnapshotLt)
<1>1. \A i \in D : s[i] \in PlannedOperation  BY ElemsOfSeq
<1>2. \A i, j \in D : <<i, j>> \in L <=> SnapshotLt(s[i], s[j])  OBVIOUS
<1>3. WeakOrder(L, D)
  <2> HIDE DEF L, D
  <2> QED  BY <1>1, <1>2, SnapshotWeak DEF WeakOrder
<1>4. \A i \in D : UpTo(StableOf(L, D), D, i) = {j \in D : Before(j, i)}
  <2> HIDE DEF L, D
  <2> QED  BY <1>2 DEF UpTo, StableOf
<1>5. \A n \in D : \E i \in D : Cardinality({j \in D : Before(j, i)}) = n
  <2>1. \A n \in D : \E i \in D : Cardinality(UpTo(StableOf(L, D), D, i)) = n
    <3> HIDE DEF L
    <3> QED  BY <1>3, StableRanks
  <2> HIDE DEF L, D, Before
  <2> QED  BY <1>4, <2>1
<1>6. c \in [D -> D] /\ \A n \in D : Cardinality({j \in D : Before(j, c[n])}) = n
  <2> HIDE DEF L, D, Before
  <2> QED  BY <1>5
<1>7. t = [n \in D |-> s[c[n]]]
  BY DEF StableSort
<1> HIDE DEF c, t, L, Before
<1>8. \A n \in D : Cardinality(UpTo(StableOf(L, D), D, c[n])) = n
  <2> HIDE DEF D
  <2> QED  BY <1>4, <1>6
<1>9. StablySorted(PlannedOperation, s, L, c, t)
  BY <1>3, <1>6, <1>7, <1>8 DEF StablySorted
<1>10. t \in Seq(PlannedOperation) /\ Len(t) = Len(s) /\ Elems(t) = Elems(s)
  BY <1>9, SortKeeps
<1> QED  BY <1>10 DEF t

\* The order in which the planner visits candidates is a weak order.
LEMMA CandidateWeak ==
    ASSUME NEW a \in Candidate, NEW b \in Candidate, NEW c \in Candidate
    PROVE  /\ CandidateLt(a, b) => ~CandidateLt(b, a)
           /\ CandidateLt(a, c) => CandidateLt(a, b) \/ CandidateLt(b, c)
<1>1. \A x \in {a, b, c} : x.path \in Nat /\ x.source \in {"Local", "Remote"}
  BY DEF Candidate, Sources
<1> QED  BY <1>1 DEF CandidateLt

\* Nor does sorting the deferred candidates.
LEMMA CandidateSortProps ==
    ASSUME NEW s \in Seq(Candidate)
    PROVE  /\ StableSort(s, CandidateLt) \in Seq(Candidate) /\ Len(StableSort(s, CandidateLt)) = Len(s)
           /\ Elems(StableSort(s, CandidateLt)) = Elems(s)
<1> DEFINE D == DOMAIN s
           L == {p \in D \X D : CandidateLt(s[p[1]], s[p[2]])}
           Before(j, i) == CandidateLt(s[j], s[i]) \/ (~CandidateLt(s[i], s[j]) /\ j <= i)
           c == [n \in D |-> CHOOSE i \in D : Cardinality({j \in D : Before(j, i)}) = n]
           t == StableSort(s, CandidateLt)
<1>1. \A i \in D : s[i] \in Candidate  BY ElemsOfSeq
<1>2. \A i, j \in D : <<i, j>> \in L <=> CandidateLt(s[i], s[j])  OBVIOUS
<1>3. WeakOrder(L, D)
  <2> HIDE DEF L, D
  <2> QED  BY <1>1, <1>2, CandidateWeak DEF WeakOrder
<1>4. \A i \in D : UpTo(StableOf(L, D), D, i) = {j \in D : Before(j, i)}
  <2> HIDE DEF L, D
  <2> QED  BY <1>2 DEF UpTo, StableOf
<1>5. \A n \in D : \E i \in D : Cardinality({j \in D : Before(j, i)}) = n
  <2>1. \A n \in D : \E i \in D : Cardinality(UpTo(StableOf(L, D), D, i)) = n
    <3> HIDE DEF L
    <3> QED  BY <1>3, StableRanks
  <2> HIDE DEF L, D, Before
  <2> QED  BY <1>4, <2>1
<1>6. c \in [D -> D] /\ \A n \in D : Cardinality({j \in D : Before(j, c[n])}) = n
  <2> HIDE DEF L, D, Before
  <2> QED  BY <1>5
<1>7. t = [n \in D |-> s[c[n]]]
  BY DEF StableSort
<1> HIDE DEF c, t, L, Before
<1>8. \A n \in D : Cardinality(UpTo(StableOf(L, D), D, c[n])) = n
  <2> HIDE DEF D
  <2> QED  BY <1>4, <1>6
<1>9. StablySorted(Candidate, s, L, c, t)
  BY <1>3, <1>6, <1>7, <1>8 DEF StablySorted
<1>10. t \in Seq(Candidate) /\ Len(t) = Len(s) /\ Elems(t) = Elems(s)
  BY <1>9, SortKeeps
<1> QED  BY <1>10 DEF t

-----------------------------------------------------------------------------
\* Elements and types of a concatenation.
LEMMA ConcatProps ==
    ASSUME NEW S, NEW s \in Seq(S), NEW t \in Seq(S)
    PROVE  s \o t \in Seq(S) /\ Elems(s \o t) = Elems(s) \cup Elems(t)
<1>1. s \o t \in Seq(S) /\ Len(s \o t) = Len(s) + Len(t)  BY ConcatProperties
<1>2. /\ Len(s) \in Nat /\ DOMAIN s = 1..Len(s)
      /\ Len(t) \in Nat /\ DOMAIN t = 1..Len(t)
      /\ DOMAIN (s \o t) = 1..(Len(s) + Len(t))
  BY <1>1
<1>3. \A i \in 1..(Len(s) + Len(t)) :
        (s \o t)[i] = IF i <= Len(s) THEN s[i] ELSE t[i - Len(s)]
  BY ConcatProperties
<1>4. ASSUME NEW i \in DOMAIN (s \o t) PROVE (s \o t)[i] \in Elems(s) \cup Elems(t)
  <2>1. CASE i <= Len(s)  BY <1>2, <1>3, <2>1 DEF Elems
  <2>2. CASE ~(i <= Len(s))
    <3>1. i - Len(s) \in DOMAIN t  BY <1>2, <2>2
    <3> QED  BY <1>2, <1>3, <2>2, <3>1 DEF Elems
  <2> QED  BY <2>1, <2>2
<1>5. ASSUME NEW i \in DOMAIN s PROVE s[i] \in Elems(s \o t)
  <2>1. i \in DOMAIN (s \o t) /\ (s \o t)[i] = s[i]  BY <1>2, <1>3
  <2> QED  BY <2>1 DEF Elems
<1>6. ASSUME NEW i \in DOMAIN t PROVE t[i] \in Elems(s \o t)
  <2>1. i + Len(s) \in DOMAIN (s \o t) /\ (s \o t)[i + Len(s)] = t[i]  BY <1>2, <1>3
  <2> QED  BY <2>1 DEF Elems
<1>7. Elems(s \o t) \subseteq Elems(s) \cup Elems(t)
  BY <1>4 DEF Elems
<1>8. Elems(s) \cup Elems(t) \subseteq Elems(s \o t)
  BY <1>5, <1>6 DEF Elems
<1> QED  BY <1>1, <1>7, <1>8

\* dedup_by drops operations, never the last one of a (root, path).
LEMMA DedupProps ==
    ASSUME NEW s \in Seq(PlannedOperation)
    PROVE  /\ DedupNeighbours(s) \in Seq(PlannedOperation)
           /\ Keys(Elems(DedupNeighbours(s))) = Keys(Elems(s))
<1> DEFINE I == {i \in DOMAIN s : i = 1 \/ Key(s[i - 1]) # Key(s[i])}
<1>1. DOMAIN s = 1..Len(s) /\ Len(s) \in Nat  BY ElemsOfSeq
<1>2. I \subseteq DOMAIN s  OBVIOUS
<1>3. ASSUME NEW i \in DOMAIN s PROVE \E m \in I : Key(s[m]) = Key(s[i])
  <2> DEFINE J == {j \in DOMAIN s : Key(s[j]) = Key(s[i])}
  <2>1. J \in SUBSET Nat /\ J # {}  BY <1>1
  <2>2. PICK m \in J : \A j \in J : m <= j
    <3> HIDE DEF J
    <3> QED  BY <2>1, LeastNatural
  <2>3. m \in DOMAIN s /\ m \in Nat /\ Key(s[m]) = Key(s[i])  BY <1>1
  <2>4. m = 1 \/ (m - 1 \in DOMAIN s /\ m - 1 \notin J)
    <3> HIDE DEF J
    <3> QED  BY <1>1, <2>2, <2>3
  <2>5. m \in I  BY <2>3, <2>4
  <2> QED  BY <2>3, <2>5
<1> DEFINE t == Pick(s, I)
<1> HIDE DEF I, t
<1>4. t \in Seq(PlannedOperation) /\ Elems(t) = ElemsAt(s, I)
  BY <1>2, PickProps DEF t
<1>5. Keys(ElemsAt(s, I)) = Keys(Elems(s))
  BY <1>2, <1>3 DEF Keys, Elems, ElemsAt
<1>6. DedupNeighbours(s) = t  BY DEF DedupNeighbours, t, I
<1> QED  BY <1>4, <1>5, <1>6

\* The persisted snapshot holds every (root, path) that is queued or handed
\* out, whatever duplicates the two lists have.
THEOREM SnapshotKeys ==
    ASSUME NEW q \in Seq(PlannedOperation), NEW d \in Seq(PlannedOperation)
    PROVE  /\ snapshot_scheduler_durable(q, d) \in Seq(PlannedOperation)
           /\ Keys(Elems(snapshot_scheduler_durable(q, d)))
                = Keys(Elems(q)) \cup Keys(Elems(d))
<1>1. PICK s : s = q \o d  OBVIOUS
<1>2. s \in Seq(PlannedOperation) /\ Elems(s) = Elems(q) \cup Elems(d)
  BY <1>1, ConcatProps
<1>3. PICK t : t = StableSort(s, SnapshotLt)  OBVIOUS
<1>4. t \in Seq(PlannedOperation) /\ Elems(t) = Elems(s)
  BY <1>2, <1>3, SnapshotSortProps
<1>5. snapshot_scheduler_durable(q, d) = DedupNeighbours(t)
  BY <1>1, <1>3 DEF snapshot_scheduler_durable
<1>6. Keys(Elems(q) \cup Elems(d)) = Keys(Elems(q)) \cup Keys(Elems(d))
  BY DEF Keys
<1> QED  BY <1>2, <1>4, <1>5, <1>6, DedupProps

-----------------------------------------------------------------------------
\* A finite, non-empty set of indices has a last one.
LEMMA GreatestIndex ==
    ASSUME NEW N \in Nat, NEW J \in SUBSET (1..N), J # {}
    PROVE  \E m \in J : \A j \in J : j <= m
<1> DEFINE K == {N - j : j \in J}
<1>1. K \in SUBSET Nat /\ K # {}
  <2>1. \A j \in J : N - j \in Nat  OBVIOUS
  <2>2. PICK j : j \in J  OBVIOUS
  <2>3. N - j \in K  BY <2>2
  <2> QED  BY <2>1, <2>3
<1>2. PICK k \in K : \A l \in K : k <= l
  <2> HIDE DEF K
  <2> QED  BY <1>1, LeastNatural
<1>3. PICK m \in J : k = N - m  OBVIOUS
<1>4. \A j \in J : N - m <= N - j  BY <1>2, <1>3
<1> QED  BY <1>4

\* One candidate makes one operation of its own root and path.
LEMMA PlanSingleType ==
    ASSUME NEW c \in Candidate
    PROVE  plan_single(c) \in PlannedOperation
<1>1. /\ c.sync \in SyncIds /\ c.path \in Paths
      /\ c.change = "Delete" \/ c.change = "Upsert"
      /\ c.source = "Local" \/ c.source = "Remote"
      /\ c.kind = "File" \/ c.kind = "Folder"
  BY DEF Candidate, Sources, EntryKinds, ChangeKinds
<1>2. \A k \in OpKinds : Planned(k, c) \in PlannedOperation
  BY <1>1 DEF Planned, PlannedOperation
<1>3. {"DeleteLocal", "DeleteRemote", "CreateLocalDirectory",
       "CreateRemoteDirectory", "DownloadFile", "UploadFile"} \subseteq OpKinds
  BY DEF OpKinds
<1> HIDE DEF Planned
<1> QED  BY <1>1, <1>2, <1>3 DEF plan_single

\* So do two candidates of one path.
LEMMA PlanPairType ==
    ASSUME NEW l \in Candidate, NEW r \in Candidate
    PROVE  plan_conflict_or_resolution(l, r) \in PlannedOperation
BY DEF plan_conflict_or_resolution, Planned, PlannedOperation, OpKinds, Candidate

\* And the candidates of one path together.
LEMMA PlanPathType ==
    ASSUME NEW cands \in Seq(Candidate), NEW p \in CandPaths(cands)
    PROVE  PlanPath(cands, p) \in PlannedOperation
<1> DEFINE At(src) == {i \in DOMAIN cands : cands[i].path = p /\ cands[i].source = src}
           last(I) == cands[CHOOSE i \in I : \A j \in I : j <= i]
           L == At("Local")
           R == At("Remote")
<1>1. /\ DOMAIN cands = 1..Len(cands) /\ Len(cands) \in Nat
      /\ \A i \in DOMAIN cands : cands[i] \in Candidate
  BY ElemsOfSeq
<1>2. ASSUME NEW I \in SUBSET (DOMAIN cands), I # {} PROVE last(I) \in Candidate
  <2>1. \E m \in I : \A j \in I : j <= m  BY <1>1, <1>2, GreatestIndex
  <2>2. (CHOOSE i \in I : \A j \in I : j <= i) \in I  BY <2>1
  <2> QED  BY <1>1, <2>2
<1>3. L \cup R # {}
  <2>1. PICK i \in DOMAIN cands : cands[i].path = p  BY DEF CandPaths
  <2>2. cands[i].source \in {"Local", "Remote"}  BY <1>1 DEF Candidate, Sources
  <2> QED  BY <2>1, <2>2
<1>4. L \in SUBSET (DOMAIN cands) /\ R \in SUBSET (DOMAIN cands)
      /\ L \cup R \in SUBSET (DOMAIN cands)
  OBVIOUS
<1>5. PlanPath(cands, p) =
        IF L # {} /\ R # {} THEN plan_conflict_or_resolution(last(L), last(R))
        ELSE plan_single(last(L \cup R))
  BY DEF PlanPath
<1> HIDE DEF L, R, last
<1>6. CASE L # {} /\ R # {}
  <2>1. last(L) \in Candidate /\ last(R) \in Candidate  BY <1>2, <1>4, <1>6
  <2> QED  BY <1>5, <1>6, <2>1, PlanPairType
<1>7. CASE ~(L # {} /\ R # {})
  <2>1. last(L \cup R) \in Candidate  BY <1>2, <1>3, <1>4
  <2> QED  BY <1>5, <1>7, <2>1, PlanSingleType
<1> QED  BY <1>6, <1>7

\* The paths of a tick are finitely many paths of its candidates.
LEMMA PlannedPathsProps ==
    ASSUME NEW cands \in Seq(Candidate), NEW max
    PROVE  /\ PlannedPaths(cands, max) \subseteq CandPaths(cands)
           /\ CandPaths(cands) \subseteq Nat
           /\ IsFiniteSet(PlannedPaths(cands, max))
<1>1. /\ IsFiniteSet(DOMAIN cands)
      /\ \A i \in DOMAIN cands : cands[i] \in Candidate
  BY ElemsOfSeq
<1>2. CandPaths(cands) \subseteq Nat
  BY <1>1 DEF CandPaths, Candidate
<1>3. PlannedPaths(cands, max) \subseteq CandPaths(cands)
  BY DEF PlannedPaths
<1>4. IsFiniteSet(CandPaths(cands))
  <2> DEFINE D == DOMAIN cands
             f == [i \in D |-> cands[i].path]
             C == CandPaths(cands)
  <2>1. f \in Surjection(D, C)
    <3>1. f \in [D -> C] /\ \A p \in C : \E i \in D : f[i] = p
      BY DEF CandPaths
    <3> HIDE DEF f, C, D
    <3> QED  BY <3>1, Fun_IsSurj
  <2> HIDE DEF f, C
  <2>2. IsFiniteSet(C)  BY <1>1, <2>1, FS_Surjection
  <2> QED  BY <2>2 DEF C
<1> QED  BY <1>2, <1>3, <1>4, FS_Subset

\* The planner returns planned operations.
LEMMA PlanOpsType ==
    ASSUME NEW cands \in Seq(Candidate), NEW max
    PROVE  plan_with_overflow_ops(cands, max) \in Seq(PlannedOperation)
<1> DEFINE P == PlannedPaths(cands, max)
           N == Cardinality(P)
           R == {p \in P \X P : p[1] <= p[2]}
           c(n) == CHOOSE p \in P : Cardinality({q \in P : q <= p}) = n
           t == plan_with_overflow_ops(cands, max)
<1>1. P \subseteq CandPaths(cands) /\ P \subseteq Nat /\ IsFiniteSet(P)
  BY PlannedPathsProps
<1>2. \A p, q \in P : <<q, p>> \in R <=> q <= p  OBVIOUS
<1>3. t = [n \in 1..N |-> PlanPath(cands, c(n))]
  BY DEF plan_with_overflow_ops
<1> HIDE DEF P, R, t
<1>4. TotalOrder(R, P)  BY <1>1, <1>2 DEF TotalOrder
<1>5. \A p \in P : UpTo(R, P, p) = {q \in P : q <= p}  BY <1>2 DEF UpTo
<1>6. N \in Nat /\ \A n \in 1..N : \E p \in P : Cardinality({q \in P : q <= p}) = n
  <2>1. N \in Nat /\ \A n \in 1..N : \E p \in P : Cardinality(UpTo(R, P, p)) = n
    <3>1. IsFiniteSet(P)  BY <1>1
    <3> QED  BY <1>4, <3>1, RankOnto
  <2> QED  BY <1>5, <2>1
<1>7. \A n \in 1..N : c(n) \in P  BY <1>6
<1> HIDE DEF c
<1>8. \A n \in 1..N : PlanPath(cands, c(n)) \in PlannedOperation
  BY <1>1, <1>7, PlanPathType
<1>9. t \in [1..N -> PlannedOperation]  BY <1>3, <1>8
<1> HIDE DEF N
<1>10. t \in Seq(PlannedOperation)  BY <1>6, <1>9, SeqOfFunction
<1> QED  BY <1>10 DEF t

\* Nor does the delete policy add anything.
LEMMA PlanFilteredType ==
    ASSUME NEW cands \in Seq(Candidate), NEW max, NEW type, NEW propagate
    PROVE  plan_filtered(cands, max, type, propagate) \in Seq(PlannedOperation)
<1>1. PICK ops : ops = plan_with_overflow_ops(cands, max)  OBVIOUS
<1>2. PICK I : I = {i \in DOMAIN ops : ~suppresses(type, propagate, ops[i])}  OBVIOUS
<1>3. ops \in Seq(PlannedOperation)  BY <1>1, PlanOpsType
<1>4. I \subseteq DOMAIN ops  BY <1>2
<1>5. plan_filtered(cands, max, type, propagate) = Pick(ops, I)
  BY <1>1, <1>2 DEF plan_filtered
<1> QED  BY <1>3, <1>4, <1>5, PickProps

\* What the cap defers is a list of candidates.
LEMMA PlanRestType ==
    ASSUME NEW cands \in Seq(Candidate), NEW max
    PROVE  plan_with_overflow_rest(cands, max) \in Seq(Candidate)
<1>1. PICK I : I = {i \in DOMAIN cands : cands[i].path \notin PlannedPaths(cands, max)}
  OBVIOUS
<1>2. PICK t : t = Pick(cands, I)  OBVIOUS
<1>3. I \subseteq DOMAIN cands  BY <1>1
<1>4. t \in Seq(Candidate)  BY <1>2, <1>3, PickProps
<1>5. plan_with_overflow_rest(cands, max) = StableSort(t, CandidateLt)
  BY <1>1, <1>2 DEF plan_with_overflow_rest
<1> QED  BY <1>4, <1>5, CandidateSortProps

-----------------------------------------------------------------------------
\* The number of roots in a queue is a natural number.
LEMMA QueueRootsFinite ==
    ASSUME NEW q \in Seq(PlannedOperation)
    PROVE  Cardinality(QueueRoots(q)) \in Nat
<1> DEFINE D == DOMAIN q
           f == [i \in D |-> q[i].sync]
           C == QueueRoots(q)
<1>1. IsFiniteSet(D)  BY ElemsOfSeq
<1>2. f \in [D -> C] /\ \A p \in C : \E i \in D : f[i] = p
  BY DEF QueueRoots
<1> HIDE DEF f, C, D
<1>3. f \in Surjection(D, C)  BY <1>2, Fun_IsSurj
<1>4. IsFiniteSet(C)  BY <1>1, <1>3, FS_Surjection
<1> QED  BY <1>4, FS_CardinalityType DEF C

\* A quotient rounded up is positive.
LEMMA CeilPositive ==
    ASSUME NEW a \in Nat \ {0}, NEW k \in Nat \ {0}
    PROVE  1 <= (a + k - 1) \div k
OBVIOUS

\* The per-root share of a positive window is positive.
LEMMA CapPositive ==
    ASSUME NEW q \in Seq(PlannedOperation), NEW limit \in Nat \ {0}
    PROVE  1 <= per_root_cap(q, limit)
<1>1. PICK k : k = Cardinality(QueueRoots(q))  OBVIOUS
<1>2. k \in Nat  BY <1>1, QueueRootsFinite
<1>3. CASE k = 0  BY <1>1, <1>3 DEF per_root_cap
<1>4. CASE k # 0
  <2>1. 1 <= (limit + k - 1) \div k  BY <1>2, <1>4, CeilPositive
  <2>2. per_root_cap(q, limit) = (limit + k - 1) \div k  BY <1>1, <1>4 DEF per_root_cap
  <2> QED  BY <2>1, <2>2
<1> QED  BY <1>3, <1>4

\* A batch of a non-empty queue is not empty: its first operation is in it,
\* so no window and no number of roots brings dispatching to a halt.
THEOREM BatchNonEmpty ==
    ASSUME NEW q \in Seq(PlannedOperation), q # <<>>, NEW limit \in Nat \ {0}
    PROVE  1 \in take_fair_batch(q, limit)
<1> DEFINE cap == per_root_cap(q, limit)
           Same(i) == {j \in 1..i : q[j].sync = q[i].sync}
           Eligible == {i \in DOMAIN q : Cardinality(Same(i)) <= cap}
           First(i) == {j \in Eligible : j <= i}
<1>1. DOMAIN q = 1..Len(q) /\ Len(q) \in Nat \ {0}  BY EmptySeq, ElemsOfSeq
<1>2. 1 \in DOMAIN q  BY <1>1
<1>3. 1 <= cap  BY CapPositive
<1>4. Cardinality({1}) = 1  BY FS_Singleton
<1>5. Same(1) = {1}  OBVIOUS
<1>6. 1 \in Eligible
  <2> HIDE DEF Same, cap
  <2> QED  BY <1>2, <1>3, <1>4, <1>5
<1>7. First(1) = {1}
  <2>1. \A j \in Eligible : j \in Nat /\ 1 <= j  BY <1>1
  <2>2. \A j \in Eligible : j <= 1 <=> j = 1
    <3> HIDE DEF Eligible
    <3> QED  BY <2>1
  <2> HIDE DEF Eligible
  <2> QED  BY <1>6, <2>2
<1>8. take_fair_batch(q, limit) = {i \in Eligible : Cardinality(First(i)) <= limit}
  BY DEF take_fair_batch, fair_indices
<1>9. Cardinality(First(1)) <= limit
  <2>1. 1 <= limit  OBVIOUS
  <2>2. Cardinality(First(1)) = 1  BY <1>4, <1>7
  <2> HIDE DEF First
  <2> QED  BY <2>1, <2>2
<1> HIDE DEF Eligible, First
<1> QED  BY <1>6, <1>8, <1>9

\* The batch is cut out of the queue.
LEMMA BatchProps ==
    ASSUME NEW q \in Seq(PlannedOperation), NEW limit
    PROVE  /\ take_fair_batch(q, limit) \subseteq DOMAIN q
           /\ Pick(q, take_fair_batch(q, limit)) \in Seq(PlannedOperation)
           /\ Pick(q, DOMAIN q \ take_fair_batch(q, limit)) \in Seq(PlannedOperation)
<1>1. PICK I : I = take_fair_batch(q, limit)  OBVIOUS
<1>2. I \subseteq DOMAIN q  BY <1>1 DEF take_fair_batch, fair_indices
<1>3. DOMAIN q \ I \subseteq DOMAIN q  OBVIOUS
<1> QED  BY <1>1, <1>2, <1>3, PickProps

\* What dispatching a batch does to the list of dispatched operations: it gains
\* exactly the operations of the batch.
LEMMA PushProps ==
    ASSUME NEW d \in Seq(PlannedOperation), NEW b \in Seq(PlannedOperation)
    PROVE  /\ push_dispatched(d, b) \in Seq(PlannedOperation)
           /\ Elems(push_dispatched(d, b)) = Elems(d) \cup Elems(b)
<1>1. PICK I : I = {i \in DOMAIN b :
                        /\ b[i] \notin Elems(d)
                        /\ \A j \in 1..(i - 1) : b[j] # b[i]}
  OBVIOUS
<1>2. I \subseteq DOMAIN b  BY <1>1
<1>3. PICK t : t = Pick(b, I)  OBVIOUS
<1>4. t \in Seq(PlannedOperation) /\ Elems(t) \subseteq Elems(b) /\ Elems(t) = ElemsAt(b, I)
  BY <1>2, <1>3, PickProps
<1>5. push_dispatched(d, b) = d \o t  BY <1>1, <1>3 DEF push_dispatched
<1>6. ASSUME NEW k \in DOMAIN b, b[k] \notin Elems(d)  PROVE b[k] \in ElemsAt(b, I)
  <2> DEFINE J == {j \in DOMAIN b : b[j] = b[k]}
  <2>1. DOMAIN b = 1..Len(b) /\ Len(b) \in Nat  BY ElemsOfSeq
  <2>2. J \in SUBSET Nat /\ J # {}  BY <2>1
  <2>3. PICK m \in J : \A j \in J : m <= j
    <3> HIDE DEF J
    <3> QED  BY <2>2, LeastNatural
  <2>4. m \in DOMAIN b /\ m \in Nat /\ b[m] = b[k]  BY <2>1
  <2>5. ASSUME NEW j \in 1..(m - 1)  PROVE b[j] # b[m]
    <3>1. j \in DOMAIN b /\ ~(m <= j)  BY <2>1, <2>4
    <3> QED  BY <2>3, <2>4, <3>1
  <2>6. m \in I  BY <1>1, <1>6, <2>4, <2>5
  <2> QED  BY <2>4, <2>6 DEF ElemsAt
<1>7. Elems(b) \subseteq Elems(d) \cup Elems(t)  BY <1>4, <1>6 DEF Elems
<1> QED  BY <1>4, <1>5, <1>7, ConcatProps

\* The operations of a root that may still be taken, and the first limit of them:
\* the batch is closed under going back within a root, and no longer than limit.
LEMMA FairIndices ==
    ASSUME NEW q \in Seq(PlannedOperation), NEW limit \in Nat, NEW cap \in Nat
    PROVE  /\ Cardinality(fair_indices(q, limit, cap)) <= limit
           /\ \A a \in fair_indices(q, limit, cap), b \in DOMAIN q :
                 b < a /\ q[a].sync = q[b].sync => b \in fair_indices(q, limit, cap)
<1> DEFINE Same(i) == {j \in 1..i : q[j].sync = q[i].sync}
           Eligible == {i \in DOMAIN q : Cardinality(Same(i)) <= cap}
           First(i) == {j \in Eligible : j <= i}
           I == {i \in Eligible : Cardinality(First(i)) <= limit}
<1>1. fair_indices(q, limit, cap) = I  BY DEF fair_indices
<1>2. DOMAIN q = 1..Len(q) /\ Len(q) \in Nat /\ IsFiniteSet(DOMAIN q)  BY ElemsOfSeq
<1>3. Eligible \subseteq DOMAIN q /\ I \subseteq Eligible  OBVIOUS
<1>4. ASSUME NEW i \in DOMAIN q
      PROVE  /\ IsFiniteSet(First(i)) /\ IsFiniteSet(Same(i))
             /\ Cardinality(First(i)) \in Nat /\ Cardinality(Same(i)) \in Nat
  <2>1. First(i) \in SUBSET DOMAIN q /\ Same(i) \in SUBSET DOMAIN q  BY <1>2
  <2> HIDE DEF First, Same
  <2> QED  BY <1>2, <2>1, FS_Subset, FS_CardinalityType
<1>5. Cardinality(I) <= limit
  <2>1. CASE I = {}
    <3> HIDE DEF I
    <3>1. Cardinality(I) = 0  BY <2>1, FS_EmptySet
    <3> QED  BY <3>1
  <2>2. CASE I # {}
    <3>1. I \in SUBSET (1..Len(q))  BY <1>2
    <3>2. PICK m \in I : \A j \in I : j <= m
      <4> HIDE DEF I
      <4> QED  BY <1>2, <2>2, <3>1, GreatestIndex
    <3>3. m \in DOMAIN q /\ Cardinality(First(m)) <= limit  OBVIOUS
    <3>4. I \in SUBSET First(m)  BY <3>2
    <3>5. Cardinality(I) <= Cardinality(First(m)) /\ Cardinality(I) \in Nat /\ Cardinality(First(m)) \in Nat
      <4> HIDE DEF I, First
      <4> QED  BY <1>4, <3>3, <3>4, FS_Subset, FS_CardinalityType
    <3> HIDE DEF I, First
    <3> QED  BY <3>3, <3>5
  <2> QED  BY <2>1, <2>2
<1>6. ASSUME NEW a \in I, NEW b \in DOMAIN q, b < a, q[a].sync = q[b].sync
      PROVE  b \in I
  <2>1. a \in DOMAIN q /\ a \in Nat /\ b \in Nat  BY <1>2
  <2>2. Cardinality(Same(b)) <= cap
    <3>1. Same(b) \in SUBSET Same(a)  BY <1>6, <2>1
    <3>2. Cardinality(Same(a)) <= cap  OBVIOUS
    <3>3. Cardinality(Same(b)) <= Cardinality(Same(a))
      <4> HIDE DEF Same
      <4> QED  BY <1>4, <2>1, <3>1, FS_Subset
    <3>4. Cardinality(Same(a)) \in Nat /\ Cardinality(Same(b)) \in Nat  BY <1>4, <2>1
    <3> HIDE DEF Same
    <3> QED  BY <3>2, <3>3, <3>4
  <2>3. Cardinality(First(b)) <= limit
    <3>1. First(b) \in SUBSET First(a)
      <4>1. \A j \in Eligible : j \in Nat  BY <1>2
      <4> HIDE DEF Eligible
      <4> QED  BY <1>6, <2>1, <4>1
    <3>2. Cardinality(First(a)) <= limit  OBVIOUS
    <3>3. Cardinality(First(b)) <= Cardinality(First(a))
      <4> HIDE DEF First
      <4> QED  BY <1>4, <2>1, <3>1, FS_Subset
    <3>4. Cardinality(First(a)) \in Nat /\ Cardinality(First(b)) \in Nat  BY <1>4, <2>1
    <3> HIDE DEF First
    <3> QED  BY <3>2, <3>3, <3>4
  <2> QED  BY <2>2, <2>3
<1> HIDE DEF I
<1> QED  BY <1>1, <1>5, <1>6

-----------------------------------------------------------------------------
(* The scheduler. *)

\* The window is a positive number.
LEMMA WindowPositive == global_limit \in Nat \ {0}
  BY SchedulerAssumption DEF global_limit

\* The share of a root is a number.
LEMMA ShareType ==
    ASSUME NEW q \in Seq(PlannedOperation), NEW limit \in Nat \ {0}
    PROVE  per_root_cap(q, limit) \in Nat
<1>1. PICK k : k = Cardinality(QueueRoots(q))  OBVIOUS
<1>2. k \in Nat  BY <1>1, QueueRootsFinite
<1>3. \A n \in Nat \ {0} : (limit + n - 1) \div n \in Nat  OBVIOUS
<1> QED  BY <1>1, <1>2, <1>3 DEF per_root_cap

\* What next_batch takes, and what it leaves.
LEMMA NextBatchProps ==
    ASSUME SchedulerTypeOK, next_batch
    PROVE  \E I \in SUBSET DOMAIN queued :
             /\ batch' = Pick(queued, I) /\ queued' = Pick(queued, DOMAIN queued \ I)
             /\ unacked' = push_dispatched(unacked, batch')
             /\ Cardinality(I) <= global_limit
             /\ \A a \in I, b \in DOMAIN queued : b < a /\ queued[a].sync = queued[b].sync => b \in I
<1>1. queued \in Seq(PlannedOperation)  BY DEF SchedulerTypeOK
<1>2. PICK I : I = take_fair_batch(queued, global_limit)  OBVIOUS
<1>3. PICK cap : cap = per_root_cap(queued, global_limit)  OBVIOUS
<1>4. cap \in Nat /\ global_limit \in Nat  BY <1>1, <1>3, ShareType, WindowPositive
<1>5. I = fair_indices(queued, global_limit, cap)  BY <1>2, <1>3 DEF take_fair_batch
<1>6. I \in SUBSET DOMAIN queued  BY <1>1, <1>2, BatchProps
<1>7. /\ Cardinality(I) <= global_limit
      /\ \A a \in I, b \in DOMAIN queued : b < a /\ queued[a].sync = queued[b].sync => b \in I
  BY <1>1, <1>4, <1>5, FairIndices
<1>8. /\ batch' = Pick(queued, I) /\ queued' = Pick(queued, DOMAIN queued \ I)
      /\ unacked' = push_dispatched(unacked, batch')
  BY <1>2 DEF next_batch
<1> QED  BY <1>6, <1>7, <1>8

\* Selecting and sorting keep lists of operations.
LEMMA ListOps ==
    ASSUME NEW q \in Seq(PlannedOperation)
    PROVE  /\ \A r : without(q, r) \in Seq(PlannedOperation)
           /\ \A keys : ack_batch(q, keys) \in Seq(PlannedOperation)
           /\ SortOps(q) \in Seq(PlannedOperation)
<1>1. \A I : I \subseteq DOMAIN q => Pick(q, I) \in Seq(PlannedOperation)  BY PickProps
<1>2. ASSUME NEW r  PROVE without(q, r) \in Seq(PlannedOperation)
  <2>1. PICK I : I = {i \in DOMAIN q : q[i].sync # r}  OBVIOUS
  <2> QED  BY <1>1, <2>1 DEF without
<1>3. ASSUME NEW keys  PROVE ack_batch(q, keys) \in Seq(PlannedOperation)
  <2>1. PICK I : I = {i \in DOMAIN q : Key(q[i]) \notin keys}  OBVIOUS
  <2> QED  BY <1>1, <2>1 DEF ack_batch
<1> QED  BY <1>2, <1>3, SortOpsProps

\* Every operation of the scheduler keeps its lists, and a batch its window.
LEMMA SchedulerTypeStep ==
    SchedulerTypeOK /\ [SchedulerNext]_schedulerVars => SchedulerTypeOK'
<1> SUFFICES ASSUME SchedulerTypeOK, [SchedulerNext]_schedulerVars
             PROVE  SchedulerTypeOK'
  OBVIOUS
<1> USE DEF SchedulerTypeOK
<1>1. Plans \subseteq Seq(PlannedOperation) /\ global_limit \in Nat
  BY SchedulerAssumption, WindowPositive
<1>2. ASSUME NEW r \in SyncIds, NEW ops \in Plans, ReplaceQueueForSyncId(r, ops)
      PROVE  SchedulerTypeOK'
  <2>1. PICK w : w = without(queued, r) \o ops  OBVIOUS
  <2>2. w \in Seq(PlannedOperation)  BY <1>1, <2>1, ListOps, ConcatProps
  <2>3. queued' = SortOps(w) /\ UNCHANGED <<unacked, batch>>
    BY <1>2, <2>1 DEF ReplaceQueueForSyncId, replace_queue_for_sync_id
  <2> QED  BY <2>2, <2>3, ListOps
<1>3. CASE next_batch
  <2>1. PICK I \in SUBSET DOMAIN queued :
             /\ batch' = Pick(queued, I) /\ queued' = Pick(queued, DOMAIN queued \ I)
             /\ unacked' = push_dispatched(unacked, batch')
             /\ Cardinality(I) <= global_limit
    BY <1>3, NextBatchProps
  <2>2. batch' \in Seq(PlannedOperation) /\ Len(batch') <= global_limit
    BY <2>1, PickProps
  <2>3. queued' \in Seq(PlannedOperation)
    <3>1. PICK J : J = DOMAIN queued \ I  OBVIOUS
    <3> QED  BY <2>1, <3>1, PickProps
  <2>4. unacked' \in Seq(PlannedOperation)  BY <2>1, <2>2, PushProps
  <2> QED  BY <2>2, <2>3, <2>4
<1>4. ASSUME NEW keys, AckBatch(keys)  PROVE SchedulerTypeOK'
  BY <1>4, ListOps DEF AckBatch
<1>5. ASSUME NEW ops \in Plans, replace_queue(ops)  PROVE SchedulerTypeOK'
  BY <1>1, <1>5, ListOps DEF replace_queue
<1>6. ASSUME NEW r \in SyncIds, evict_sync_id(r)  PROVE SchedulerTypeOK'
  BY <1>6, ListOps DEF evict_sync_id
<1>7. CASE drain_batch
  <2>1. queued' = SubSeq(queued, global_limit + 1, Len(queued)) /\ UNCHANGED <<unacked, batch>>
    BY <1>7 DEF drain_batch
  <2>2. \A i \in (global_limit + 1)..Len(queued) : queued[i] \in PlannedOperation
    BY <1>1, ElemsOfSeq
  <2>3. SubSeq(queued, global_limit + 1, Len(queued)) \in Seq(PlannedOperation)
    BY <1>1, <2>2, ElemsOfSeq, SubSeqProperties
  <2> QED  BY <2>1, <2>3
<1>8. ASSUME NEW o \in PlanOps, enqueue(o)  PROVE SchedulerTypeOK'
  <2>1. o \in PlannedOperation  BY <1>1, ElemsOfSeq DEF PlanOps
  <2>2. queued' = Append(queued, o) /\ UNCHANGED <<unacked, batch>>  BY <1>8 DEF enqueue
  <2> QED  BY <2>1, <2>2, AppendProperties
<1>9. CASE restore_scheduler_queue
  <2>1. PICK s : s = snapshot_scheduler_durable(queued, unacked)  OBVIOUS
  <2>2. s \in Seq(PlannedOperation)  BY <2>1, SnapshotKeys
  <2>3. queued' = SortOps(s) /\ unacked' = <<>> /\ batch' = <<>>
    BY <1>9, <2>1 DEF restore_scheduler_queue
  <2>4. <<>> \in Seq(PlannedOperation) /\ Len(<<>>) = 0  BY EmptySeq
  <2> QED  BY <1>1, <2>2, <2>3, <2>4, ListOps
<1>10. CASE UNCHANGED schedulerVars  BY <1>10 DEF schedulerVars
<1> QED
  BY <1>2, <1>3, <1>4, <1>5, <1>6, <1>7, <1>8, <1>9, <1>10 DEF SchedulerNext

\* The scheduler's lists hold planned operations and a batch fits the window, for
\* every plan handed in, every window and any number of roots.
THEOREM SchedulerTypeCorrect == SchedulerSpec => []SchedulerTypeOK
<1>1. SchedulerInit => SchedulerTypeOK
  <2>1. <<>> \in Seq(PlannedOperation) /\ Len(<<>>) = 0  BY EmptySeq
  <2> QED  BY <2>1, WindowPositive DEF SchedulerInit, SchedulerTypeOK
<1> QED  BY <1>1, SchedulerTypeStep, PTL DEF SchedulerSpec

\* next_batch loses nothing, repeats nothing, records what it hands out, fits its
\* window and hands out something while there is work.
THEOREM BatchesConserve == SchedulerSpec => BatchConserves
<1>1. ASSUME SchedulerTypeOK, next_batch
      PROVE  /\ \A o \in Elems(queued) \cup Elems(batch') \cup Elems(queued') :
                    Count(queued, o) = Count(queued', o) + Count(batch', o)
             /\ Elems(batch') \subseteq Elems(unacked')
             /\ Len(batch') <= global_limit
             /\ queued # <<>> => batch' # <<>>
  <2>1. queued \in Seq(PlannedOperation) /\ unacked \in Seq(PlannedOperation)
    BY <1>1 DEF SchedulerTypeOK
  <2>2. PICK I \in SUBSET DOMAIN queued :
             /\ batch' = Pick(queued, I) /\ queued' = Pick(queued, DOMAIN queued \ I)
             /\ unacked' = push_dispatched(unacked, batch')
    BY <1>1, NextBatchProps
  <2>3. Elems(batch') \subseteq Elems(unacked')
    BY <2>1, <2>2, PickProps, PushProps
  <2>4. ASSUME NEW o  PROVE Count(queued, o) = Count(queued', o) + Count(batch', o)
    <3> DEFINE D == DOMAIN queued
               J == D \ I
               A == {i \in I : queued[i] = o}
               B == {i \in J : queued[i] = o}
               C == {i \in D : queued[i] = o}
    <3>1. Count(batch', o) = Cardinality(A)
      <4>1. I \subseteq DOMAIN queued  OBVIOUS
      <4> QED  BY <2>1, <2>2, <4>1, PickCount
    <3>2. Count(queued', o) = Cardinality(B)
      <4>1. J \subseteq DOMAIN queued  OBVIOUS
      <4>2. queued' = Pick(queued, J)  BY <2>2
      <4> HIDE DEF J
      <4> QED  BY <2>1, <4>1, <4>2, PickCount
    <3>3. C = A \cup B /\ A \cap B = {} /\ A \in SUBSET D /\ B \in SUBSET D  OBVIOUS
    <3>4. IsFiniteSet(D)  BY <2>1, ElemsOfSeq
    <3>5. Count(queued, o) = Cardinality(C)  BY DEF Count
    <3> HIDE DEF A, B, C, D
    <3>6. IsFiniteSet(A) /\ IsFiniteSet(B)  BY <3>3, <3>4, FS_Subset
    <3>7. Cardinality(A \cap B) = 0  BY <3>3, FS_EmptySet
    <3>8. Cardinality(C) = Cardinality(A) + Cardinality(B) - Cardinality(A \cap B)
      BY <3>3, <3>6, FS_Union
    <3>9. Cardinality(A) \in Nat /\ Cardinality(B) \in Nat  BY <3>6, FS_CardinalityType
    <3> QED  BY <3>1, <3>2, <3>5, <3>7, <3>8, <3>9
  <2>5. Len(batch') <= global_limit
    BY <1>1, NextBatchProps, PickProps DEF SchedulerTypeOK
  <2>6. ASSUME queued # <<>>  PROVE batch' # <<>>
    <3>1. PICK K : K = take_fair_batch(queued, global_limit)  OBVIOUS
    <3>2. K # {} /\ K \subseteq DOMAIN queued
      BY <2>1, <2>6, <3>1, BatchNonEmpty, BatchProps, WindowPositive
    <3>3. batch' = Pick(queued, K)  BY <1>1, <3>1 DEF next_batch
    <3>4. Elems(batch') = ElemsAt(queued, K)  BY <2>1, <3>2, <3>3, PickProps
    <3>5. Elems(batch') # {}  BY <3>2, <3>4 DEF ElemsAt
    <3> QED  BY <3>5 DEF Elems
  <2> QED  BY <2>3, <2>4, <2>5, <2>6
<1> QED  BY <1>1, SchedulerTypeCorrect, PTL DEF SchedulerSpec, BatchConserves

\* Within a root, next_batch never lets an operation overtake a more urgent one.
THEOREM NothingOvertakes == SchedulerSpec => NoOvertaking
<1>1. ASSUME SchedulerTypeOK, next_batch,
             \A i, j \in DOMAIN queued : i < j => ~DispatchLt(queued[j], queued[i])
      PROVE  \A o \in Elems(batch'), w \in Elems(queued') : o.sync = w.sync => ~DispatchLt(w, o)
  <2>1. queued \in Seq(PlannedOperation)  BY <1>1 DEF SchedulerTypeOK
  <2>2. PICK I \in SUBSET DOMAIN queued :
             /\ batch' = Pick(queued, I) /\ queued' = Pick(queued, DOMAIN queued \ I)
             /\ \A a \in I, b \in DOMAIN queued : b < a /\ queued[a].sync = queued[b].sync => b \in I
    BY <1>1, NextBatchProps
  <2>3. Elems(batch') = ElemsAt(queued, I)
    <3>1. I \subseteq DOMAIN queued  OBVIOUS
    <3> QED  BY <2>1, <2>2, <3>1, PickProps
  <2>4. Elems(queued') = ElemsAt(queued, DOMAIN queued \ I)
    <3>1. PICK J : J = DOMAIN queued \ I  OBVIOUS
    <3>2. J \subseteq DOMAIN queued  BY <3>1
    <3> QED  BY <2>1, <2>2, <3>1, <3>2, PickProps
  <2>5. DOMAIN queued \subseteq Nat  BY <2>1, ElemsOfSeq
  <2>6. ASSUME NEW a \in I, NEW b \in DOMAIN queued \ I, queued[a].sync = queued[b].sync
        PROVE  ~DispatchLt(queued[b], queued[a])
    <3>1. a \in Nat /\ b \in Nat /\ a # b /\ ~(b < a)  BY <2>2, <2>5, <2>6
    <3>2. a < b  BY <3>1
    <3> QED  BY <1>1, <3>2
  <2> QED  BY <2>3, <2>4, <2>6 DEF ElemsAt
<1> QED  BY <1>1, SchedulerTypeCorrect, PTL DEF SchedulerSpec, NoOvertaking

\* A restart queues again every (root, path) that was queued or handed out.
THEOREM RestartsRequeue == SchedulerSpec => RestartRequeues
<1>1. ASSUME SchedulerTypeOK, restore_scheduler_queue
      PROVE  Keys(Elems(queued)) \cup Keys(Elems(unacked)) = Keys(Elems(queued'))
  <2>1. PICK s : s = snapshot_scheduler_durable(queued, unacked)  OBVIOUS
  <2>2. s \in Seq(PlannedOperation) /\ Keys(Elems(s)) = Keys(Elems(queued)) \cup Keys(Elems(unacked))
    BY <1>1, <2>1, SnapshotKeys DEF SchedulerTypeOK
  <2>3. queued' = SortOps(s)  BY <1>1, <2>1 DEF restore_scheduler_queue
  <2> QED  BY <2>2, <2>3, SortOpsProps
<1> QED  BY <1>1, SchedulerTypeCorrect, PTL DEF SchedulerSpec, RestartRequeues

=============================================================================
