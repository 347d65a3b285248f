----------------------------- MODULE AscendingProofs ----------------------------
(***************************************************************************)
(* What Ascending and At promise, for every finite set of numbers,         *)
(* induction over the naturals as a fact about sets, RemoveAt, and joins   *)
(* of sequences: two, one in the middle, and all that FlattenSeq joins.    *)
(***************************************************************************)
EXTENDS Ascending, SequencesExt, FiniteSetTheorems, SequenceTheorems,
        WellFoundedInduction, TLAPS

Below(S, n) == {m \in S : m < n}

(* A larger member has more members below it.                              *)
LEMMA RankGrows ==
    ASSUME NEW S \in SUBSET Nat, IsFiniteSet(S), NEW n \in S, NEW p \in S, n < p
    PROVE  Cardinality(Below(S, n)) < Cardinality(Below(S, p))
<1>1. IsFiniteSet(Below(S, n)) /\ Cardinality(Below(S, n)) \in Nat
  BY FS_Subset, FS_CardinalityType DEF Below
<1>2. IsFiniteSet(Below(S, p)) /\ Cardinality(Below(S, p)) \in Nat
  BY FS_Subset, FS_CardinalityType DEF Below
<1>3. n \notin Below(S, n) /\ Below(S, n) \cup {n} \in SUBSET Below(S, p)
  <2>1. n \in Nat /\ p \in Nat /\ \A m \in S : m \in Nat
    OBVIOUS
  <2>2. \A m \in S : m < n => m < p
    BY <2>1
  <2>3. n \notin Below(S, n)
    BY <2>1 DEF Below
  <2>4. Below(S, n) \cup {n} \subseteq Below(S, p)
    BY <2>2 DEF Below
  <2> QED  BY <2>3, <2>4
<1>4. Cardinality(Below(S, n) \cup {n}) = Cardinality(Below(S, n)) + 1
  BY <1>1, <1>3, FS_AddElement
<1>5. Cardinality(Below(S, n) \cup {n}) <= Cardinality(Below(S, p))
  BY <1>2, <1>3, FS_Subset
<1> QED  BY <1>1, <1>2, <1>4, <1>5

(* Every number of members is below some member, up to the last.           *)
LEMMA RankTaken ==
    ASSUME NEW S \in SUBSET Nat, IsFiniteSet(S), NEW i \in 1 .. Cardinality(S)
    PROVE  \E n \in S : Cardinality(Below(S, n)) = i - 1
<1> DEFINE N    == Cardinality(S)
           rank == [n \in S |-> Cardinality(Below(S, n)) + 1]
<1>1. N \in Nat
  BY FS_CardinalityType
<1>2. ASSUME NEW n \in S
      PROVE  rank[n] \in 1 .. N
  <2>1. IsFiniteSet(Below(S, n)) /\ Cardinality(Below(S, n)) \in Nat
    BY FS_Subset, FS_CardinalityType DEF Below
  <2>2. n \notin Below(S, n) /\ Below(S, n) \cup {n} \in SUBSET S
    BY DEF Below
  <2>3. Cardinality(Below(S, n) \cup {n}) = Cardinality(Below(S, n)) + 1
    BY <2>1, <2>2, FS_AddElement
  <2>4. Cardinality(Below(S, n) \cup {n}) <= N
    BY <2>2, FS_Subset
  <2> QED  BY <1>1, <2>1, <2>3, <2>4
<1>3. rank \in [S -> 1 .. N]
  BY <1>2
<1>4. ASSUME NEW n \in S, NEW p \in S, rank[n] = rank[p]
      PROVE  n = p
  <2>0. Cardinality(Below(S, n)) \in Nat /\ Cardinality(Below(S, p)) \in Nat
    BY FS_Subset, FS_CardinalityType DEF Below
  <2>1. Cardinality(Below(S, n)) = Cardinality(Below(S, p))
    BY <1>4, <2>0
  <2>2. CASE n < p
    BY <2>0, <2>1, <2>2, RankGrows
  <2>3. CASE p < n
    BY <2>0, <2>1, <2>3, RankGrows
  <2> QED  BY <2>2, <2>3
<1>5. IsFiniteSet(1 .. N) /\ Cardinality(1 .. N) = N
  BY <1>1, FS_Interval
<1>6. rank \in Injection(S, 1 .. N)
  <2> HIDE DEF rank
  <2> QED  BY <1>3, <1>4 DEF Injection, IsInjective
<1>7. rank \in Surjection(S, 1 .. N)
  <2> HIDE DEF rank
  <2> QED  BY <1>5, <1>6, FS_Injection
<1>8. PICK n \in S : rank[n] = i
  <2> HIDE DEF rank
  <2> QED  BY <1>7 DEF Surjection
<1>9. Cardinality(Below(S, n)) \in Nat
  BY FS_Subset, FS_CardinalityType DEF Below
<1> QED  BY <1>8, <1>9

(* Ascending lists the set, in order and without gaps.                     *)
LEMMA AscendingLists ==
    ASSUME NEW S \in SUBSET Nat, IsFiniteSet(S)
    PROVE  /\ Cardinality(S) \in Nat
           /\ Ascending(S) \in [1 .. Cardinality(S) -> S]
           /\ Ascending(S) \in Seq(S)
           /\ Len(Ascending(S)) = Cardinality(S)
           /\ \A i, j \in 1 .. Cardinality(S) : i < j <=> Ascending(S)[i] < Ascending(S)[j]
           /\ \A n \in S : \E i \in 1 .. Cardinality(S) : Ascending(S)[i] = n
<1> DEFINE N == Cardinality(S)
           A == Ascending(S)
           Member(i) == CHOOSE n \in S : Cardinality(Below(S, n)) = i - 1
<1>1. N \in Nat
  BY FS_CardinalityType
<1>z1. A = [i \in 1 .. N |-> Member(i)]
  BY DEF Ascending, Below
<1>z2. ASSUME NEW i \in 1 .. N
      PROVE  Member(i) \in S /\ Cardinality(Below(S, Member(i))) = i - 1
  BY RankTaken
<1> HIDE DEF A, Member
<1>2. ASSUME NEW i \in 1 .. N
      PROVE  A[i] \in S /\ Cardinality(Below(S, A[i])) = i - 1
  BY <1>z1, <1>z2
<1>3. A \in [1 .. N -> S]
  BY <1>z1, <1>z2
<1>4. ASSUME NEW i \in 1 .. N, NEW j \in 1 .. N
      PROVE  i < j <=> A[i] < A[j]
  <2>1. \A n \in S : n \in Nat
    OBVIOUS
  <2>2. A[i] \in Nat /\ A[j] \in Nat
    BY <1>2, <2>1
  <2>3. i \in Nat /\ j \in Nat
    BY <1>1
  <2>4. CASE A[i] < A[j]
    BY <1>2, <2>2, <2>3, <2>4, RankGrows
  <2>5. CASE A[j] < A[i]
    BY <1>2, <2>2, <2>3, <2>5, RankGrows
  <2>6. CASE A[i] = A[j]
    <3>1. i = j
      BY <1>2, <2>3, <2>6
    <3> QED  BY <2>2, <2>3, <3>1
  <2> QED  BY <2>2, <2>4, <2>5, <2>6
<1>5. A \in Injection(1 .. N, S)
  <2>1. ASSUME NEW i \in 1 .. N, NEW j \in 1 .. N, A[i] = A[j]
        PROVE  i = j
    BY <1>1, <1>2, <2>1
  <2> QED  BY <1>3, <2>1 DEF Injection, IsInjective
<1>6. A \in Surjection(1 .. N, S)
  <2> QED  BY <1>1, <1>5, FS_Injection, FS_Interval
<1>7. \A n \in S : \E i \in 1 .. N : A[i] = n
  <2> QED  BY <1>6 DEF Surjection
<1>8. A \in Seq(S) /\ Len(A) = N
  <2> QED  BY <1>1, <1>3
<1> QED  BY <1>1, <1>3, <1>4, <1>7, <1>8 DEF A

(* Induction, as a fact about sets of numbers.                             *)
LEMMA SetInduction ==
    ASSUME NEW T, T \subseteq Nat, 0 \in T, \A n \in T : n + 1 \in T
    PROVE  T = Nat
<1> DEFINE R == OpToRel(<, Nat)
           U == Nat \ T
<1>1. SUFFICES ASSUME U # {} PROVE FALSE
  OBVIOUS
<1>2. IsWellFoundedOn(R, Nat)
  BY NatLessThanWellFounded
<1>3. \A x, y \in Nat : x < y => <<x, y>> \in R
  BY DEF OpToRel
<1> HIDE DEF R
<1>4. PICK x \in U : \A y \in U : ~ (<<y, x>> \in R)
  BY ONLY <1>1, <1>2, WFMin, U \subseteq Nat
<1>5. x # 0 /\ x - 1 \in Nat /\ x - 1 < x
  BY <1>4
<1>6. x - 1 \in T
  BY <1>3, <1>4, <1>5
<1> QED  BY <1>5, <1>6

(* A set of numbers that is not empty has a least member.                  *)
LEMMA LeastMember ==
    ASSUME NEW S \in SUBSET Nat, S # {}
    PROVE  \E n \in S : \A m \in S : n <= m
<1> DEFINE R == OpToRel(<, Nat)
<1>1. IsWellFoundedOn(R, Nat)
  BY NatLessThanWellFounded
<1>2. \A x, y \in Nat : x < y => <<x, y>> \in R
  BY DEF OpToRel
<1> HIDE DEF R
<1>3. PICK x \in S : \A y \in S : ~ (<<y, x>> \in R)
  BY ONLY <1>1, WFMin, S \in SUBSET Nat, S # {}
<1>4. \A m \in S : m \in Nat
  OBVIOUS
<1>5. \A m \in S : ~ (m < x)
  BY <1>2, <1>3, <1>4
<1> QED  BY <1>4, <1>5

(* At picks what stands at the positions, in their order.                  *)
LEMMA AtPicks ==
    ASSUME NEW S, NEW s \in Seq(S), NEW P \in SUBSET DOMAIN s
    PROVE  /\ IsFiniteSet(P) /\ Cardinality(P) \in Nat
           /\ At(s, P) \in Seq(S)
           /\ Len(At(s, P)) = Cardinality(P)
           /\ DOMAIN At(s, P) = 1 .. Cardinality(P)
           /\ \A i \in 1 .. Cardinality(P) :
                 Ascending(P)[i] \in P /\ At(s, P)[i] = s[Ascending(P)[i]]
           /\ \A i, j \in 1 .. Cardinality(P) : i < j <=> Ascending(P)[i] < Ascending(P)[j]
           /\ \A p \in P : \E i \in 1 .. Cardinality(P) : Ascending(P)[i] = p
<1>1. DOMAIN s = 1 .. Len(s) /\ Len(s) \in Nat
  OBVIOUS
<1>2. IsFiniteSet(P) /\ P \in SUBSET Nat
  <2>1. P \in SUBSET (1 .. Len(s))
    BY <1>1
  <2>2. IsFiniteSet(1 .. Len(s))
    BY <1>1, FS_Interval
  <2>3. IsFiniteSet(P)
    BY <2>1, <2>2, FS_Subset
  <2>4. 1 .. Len(s) \subseteq Nat
    BY <1>1
  <2> QED  BY <2>1, <2>3, <2>4
<1>3. \A i \in 1 .. Cardinality(P) : Ascending(P)[i] \in P
  BY <1>2, AscendingLists
<1>4. \A i \in 1 .. Cardinality(P) : s[Ascending(P)[i]] \in S
  BY <1>1, <1>3
<1>5. At(s, P) \in [1 .. Cardinality(P) -> S]
  BY <1>4 DEF At
<1>6. \A i \in 1 .. Cardinality(P) : At(s, P)[i] = s[Ascending(P)[i]]
  BY DEF At
<1>7. Cardinality(P) \in Nat
  BY <1>2, FS_CardinalityType
<1>8. At(s, P) \in Seq(S) /\ Len(At(s, P)) = Cardinality(P)
  BY <1>5, <1>7
<1>9. DOMAIN At(s, P) = 1 .. Cardinality(P)
  BY <1>5
<1> QED  BY <1>2, <1>3, <1>6, <1>7, <1>8, <1>9, AscendingLists

LEMMA AtNothing ==
    ASSUME NEW s
    PROVE  At(s, {}) = << >>
<1>1. Cardinality({}) = 0
  BY FS_EmptySet
<1> QED  BY <1>1 DEF At

(* Each has its rank, and no other has it.                                 *)
LEMMA AscendingRanks ==
    ASSUME NEW S \in SUBSET Nat, IsFiniteSet(S), NEW i \in 1 .. Cardinality(S), NEW n \in S,
           Cardinality(Below(S, n)) = i - 1
    PROVE  Ascending(S)[i] = n
<1> DEFINE a == Ascending(S)[i]
<1>1. a = CHOOSE m \in S : Cardinality({k \in S : k < m}) = i - 1
  BY DEF Ascending
<1>2. a \in S /\ Cardinality(Below(S, a)) = i - 1
  BY <1>1 DEF Below
<1> HIDE DEF a
<1>3. n \in Nat /\ a \in Nat /\ i - 1 \in Int
  BY <1>2
<1>4. CASE n < a
  <2>1. Cardinality(Below(S, n)) < Cardinality(Below(S, a))
    BY <1>2, <1>4, RankGrows
  <2> QED  BY <1>2, <1>3, <2>1
<1>5. CASE a < n
  <2>1. Cardinality(Below(S, a)) < Cardinality(Below(S, n))
    BY <1>2, <1>5, RankGrows
  <2> QED  BY <1>2, <1>3, <2>1
<1> QED  BY <1>3, <1>4, <1>5 DEF a

(* A greatest member comes last and leaves the others where they are.      *)
LEMMA AscendingOneMore ==
    ASSUME NEW P \in SUBSET Nat, IsFiniteSet(P), NEW m \in Nat, \A n \in P : n < m
    PROVE  /\ Cardinality(P) \in Nat /\ Cardinality(P \cup {m}) = Cardinality(P) + 1
           /\ IsFiniteSet(P \cup {m})
           /\ \A i \in 1 .. Cardinality(P) : Ascending(P \cup {m})[i] = Ascending(P)[i]
           /\ Ascending(P \cup {m})[Cardinality(P) + 1] = m
<1> DEFINE Q == P \cup {m}
           N == Cardinality(P)
<1>1. m \notin P /\ N \in Nat
  BY FS_CardinalityType
<1>2. IsFiniteSet(Q) /\ Cardinality(Q) = N + 1 /\ Q \in SUBSET Nat
  BY <1>1, FS_AddElement
<1>3. ASSUME NEW i \in 1 .. N
      PROVE  Ascending(Q)[i] = Ascending(P)[i]
  <2> DEFINE n == Ascending(P)[i]
  <2>1. PICK k \in P : Cardinality(Below(P, k)) = i - 1
    BY RankTaken
  <2>2. n = k
    BY <2>1, AscendingRanks
  <2>3. Below(Q, k) = Below(P, k)
    <3>1. k < m /\ k \in Nat
      OBVIOUS
    <3>2. ~ (m < k)
      BY <3>1
    <3> QED  BY <3>2 DEF Below
  <2>4. i \in 1 .. Cardinality(Q) /\ k \in Q
    BY <1>1, <1>2
  <2> HIDE DEF Q
  <2>5. Ascending(Q)[i] = k
    BY <1>2, <2>1, <2>3, <2>4, AscendingRanks
  <2> QED  BY <2>2, <2>5
<1>4. Ascending(Q)[N + 1] = m
  <2>1. Below(Q, m) = P
    <3>1. ~ (m < m) /\ \A n \in P : n < m
      OBVIOUS
    <3>2. Below(Q, m) = {n \in P \cup {m} : n < m}
      BY DEF Below
    <3> QED  BY <3>1, <3>2, Zenon
  <2>2. m \in Q /\ N + 1 \in 1 .. Cardinality(Q) /\ Cardinality(Below(Q, m)) = (N + 1) - 1
    BY <1>1, <1>2, <2>1
  <2> HIDE DEF Q, N
  <2> QED  BY <1>2, <2>2, AscendingRanks
<1> QED  BY <1>1, <1>2, <1>3, <1>4

(* A position behind the others adds what stands there.                    *)
LEMMA AtOneMore ==
    ASSUME NEW S, NEW s \in Seq(S), NEW m \in DOMAIN s, NEW P \in SUBSET (1 .. m - 1)
    PROVE  At(s, P \cup {m}) = Append(At(s, P), s[m])
<1> DEFINE Q == P \cup {m}
           N == Cardinality(P)
           a == At(s, P)
<1>1. /\ m \in Nat /\ P \in SUBSET Nat /\ \A n \in P : n < m
      /\ P \in SUBSET DOMAIN s /\ Q \in SUBSET DOMAIN s
  <2>1. DOMAIN s = 1 .. Len(s) /\ Len(s) \in Nat /\ m \in 1 .. Len(s)
    OBVIOUS
  <2>2. \A n \in P : n \in 1 .. m - 1
    OBVIOUS
  <2>3. \A n \in P : n \in Nat /\ n < m /\ n \in DOMAIN s
    BY <2>1, <2>2
  <2>4. P \in SUBSET Nat /\ P \in SUBSET DOMAIN s
    BY <2>3
  <2>5. m \in Nat
    BY <2>1
  <2>6. Q \in SUBSET DOMAIN s
    BY <2>1, <2>4
  <2> HIDE DEF Q, N, a
  <2> QED  BY <2>3, <2>4, <2>5, <2>6, Zenon
<1>2. /\ IsFiniteSet(P) /\ N \in Nat /\ a \in Seq(S) /\ Len(a) = N
      /\ \A i \in 1 .. N : a[i] = s[Ascending(P)[i]]
  BY <1>1, AtPicks
<1>3. /\ Cardinality(Q) = N + 1
      /\ \A i \in 1 .. N : Ascending(Q)[i] = Ascending(P)[i]
      /\ Ascending(Q)[N + 1] = m
  BY <1>1, <1>2, AscendingOneMore
<1>4. At(s, Q) = [i \in 1 .. N + 1 |-> s[Ascending(Q)[i]]]
  BY <1>3 DEF At
<1>5. s[m] \in S
  OBVIOUS
<1> HIDE DEF Q, N, a
<1>6. Append(a, s[m]) = [i \in 1 .. N + 1 |-> IF i = N + 1 THEN s[m] ELSE a[i]]
  <2>1. /\ Append(a, s[m]) \in Seq(S) /\ Len(Append(a, s[m])) = N + 1
        /\ \A i \in 1 .. N : Append(a, s[m])[i] = a[i]
        /\ Append(a, s[m])[N + 1] = s[m]
    BY <1>2, <1>5, AppendProperties
  <2> DEFINE b == Append(a, s[m])
  <2>2. b = [i \in 1 .. N + 1 |-> b[i]]
    <3>1. b \in [1 .. N + 1 -> S]
      BY <2>1, LenProperties
    <3> HIDE DEF b
    <3> QED  BY <3>1
  <2>3. \A i \in 1 .. N + 1 : b[i] = IF i = N + 1 THEN s[m] ELSE a[i]
    BY <1>2, <2>1
  <2> HIDE DEF b
  <2>4. b = [i \in 1 .. N + 1 |-> IF i = N + 1 THEN s[m] ELSE a[i]]
    BY <2>2, <2>3, Zenon
  <2> QED  BY <2>4 DEF b
<1>7. \A i \in 1 .. N + 1 : i \in 1 .. N \/ i = N + 1
  BY <1>2
<1>8. \A i \in 1 .. N + 1 : s[Ascending(Q)[i]] = IF i = N + 1 THEN s[m] ELSE a[i]
  BY <1>2, <1>3, <1>7
<1> QED  BY <1>4, <1>6, <1>8 DEF Q, a

(* What is appended later changes nothing.                                 *)
LEMMA AtLonger ==
    ASSUME NEW S, NEW s \in Seq(S), NEW e \in S, NEW P \in SUBSET DOMAIN s
    PROVE  At(Append(s, e), P) = At(s, P)
<1>1. \A i \in 1 .. Cardinality(P) : Ascending(P)[i] \in DOMAIN s
  BY AtPicks
<1>2. \A i \in DOMAIN s : Append(s, e)[i] = s[i]
  OBVIOUS
<1> QED  BY <1>1, <1>2 DEF At

(* At every position it is the sequence itself.                            *)
LEMMA AtEverything ==
    ASSUME NEW S, NEW s \in Seq(S)
    PROVE  At(s, 1 .. Len(s)) = s
<1> DEFINE N == Len(s)
           D == 1 .. N
<1>1. N \in Nat /\ s = [i \in D |-> s[i]]
  OBVIOUS
<1>2. IsFiniteSet(D) /\ Cardinality(D) = N
  <2>1. 1 \in Int /\ N \in Int /\ N >= 0
    BY <1>1
  <2> HIDE DEF N
  <2> QED  BY <2>1, FS_Interval
<1>3. ASSUME NEW n \in D
      PROVE  Cardinality({m \in D : m < n}) = n - 1
  <2>1. {m \in D : m < n} = 1 .. (n - 1)
    BY <1>1
  <2>2. 1 \in Int /\ n - 1 \in Int /\ n - 1 >= 0
    BY <1>1
  <2>3. Cardinality(1 .. (n - 1)) = n - 1
    BY <2>2, FS_Interval
  <2> QED  BY <2>1, <2>3
<1>4. ASSUME NEW i \in D
      PROVE  Ascending(D)[i] = i
  <2>1. Ascending(D)[i] = CHOOSE n \in D : Cardinality({m \in D : m < n}) = i - 1
    BY <1>2 DEF Ascending
  <2>2. \A n \in D : Cardinality({m \in D : m < n}) = i - 1 => n = i
    BY <1>1, <1>3
  <2>3. Cardinality({m \in D : m < i}) = i - 1
    BY <1>3
  <2> HIDE DEF D
  <2> QED  BY <2>1, <2>2, <2>3
<1>5. At(s, D) = [i \in 1 .. N |-> s[Ascending(D)[i]]]
  BY <1>2 DEF At
<1> HIDE DEF N
<1> QED  BY <1>1, <1>4, <1>5

(* RemoveAt keeps every other element, in order.                           *)
LEMMA RemoveAtProperties ==
    ASSUME NEW S, NEW queue \in Seq(S), NEW pos \in 1 .. Len(queue)
    PROVE  /\ RemoveAt(queue, pos) \in Seq(S)
           /\ Len(RemoveAt(queue, pos)) = Len(queue) - 1
           /\ \A j \in 1 .. Len(queue) - 1 :
                 RemoveAt(queue, pos)[j] = queue[IF j < pos THEN j ELSE j + 1]
<1> DEFINE front == SubSeq(queue, 1, pos - 1)
           back  == SubSeq(queue, pos + 1, Len(queue))
<1>1. \A i \in 1 .. Len(queue) : queue[i] \in S
  OBVIOUS
<1>2. Len(queue) \in Nat
  OBVIOUS
<1>3. /\ front \in Seq(S) /\ Len(front) = pos - 1
      /\ \A i \in 1 .. pos - 1 : front[i] = queue[i]
  <2>1. \A i \in 1 .. (pos - 1) : queue[i] \in S
    BY <1>1, <1>2
  <2> QED  BY <2>1, <1>2, SubSeqProperties
<1>4. /\ back \in Seq(S) /\ Len(back) = Len(queue) - pos
      /\ \A i \in 1 .. Len(queue) - pos : back[i] = queue[pos + i]
  <2>1. \A i \in (pos + 1) .. Len(queue) : queue[i] \in S
    BY <1>1, <1>2
  <2> QED  BY <2>1, <1>2, SubSeqProperties
<1>5. RemoveAt(queue, pos) = front \o back
  BY DEF RemoveAt
<1> HIDE DEF front, back
<1>6. /\ front \o back \in Seq(S)
      /\ Len(front \o back) = Len(front) + Len(back)
      /\ \A i \in 1 .. Len(front) + Len(back) :
            (front \o back)[i] = IF i <= Len(front) THEN front[i] ELSE back[i - Len(front)]
  BY <1>3, <1>4, ConcatProperties
<1>7. ASSUME NEW j \in 1 .. Len(queue) - 1
      PROVE  (front \o back)[j] = queue[IF j < pos THEN j ELSE j + 1]
  <2>1. CASE j < pos
    BY <2>1, <1>2, <1>3, <1>4, <1>6
  <2>2. CASE ~ (j < pos)
    <3>1. j - (pos - 1) \in 1 .. Len(queue) - pos /\ ~ (j <= pos - 1)
      BY <2>2, <1>2
    <3>2. (front \o back)[j] = back[j - (pos - 1)]
      BY <3>1, <1>2, <1>3, <1>4, <1>6
    <3>3. pos + (j - (pos - 1)) = j + 1
      BY <1>2
    <3> QED  BY <3>1, <3>2, <3>3, <2>2, <1>4
  <2> QED  BY <2>1, <2>2
<1>8. Len(front \o back) = Len(queue) - 1
  BY <1>2, <1>3, <1>4, <1>6
<1> QED  BY <1>5, <1>6, <1>7, <1>8

-------------------------------------------------------------------------------
(* Sums.                                                                   *)

(* A function may be summed up from the front.                             *)
LEMMA SumsExist ==
    ASSUME NEW N \in Nat, NEW v \in [1 .. N -> Nat]
    PROVE  \E f \in [0 .. N -> Nat] : f[0] = 0 /\ \A n \in 1 .. N : f[n] = f[n - 1] + v[n]
<1> DEFINE Sums(f, n) == /\ f \in [0 .. N -> Nat] /\ f[0] = 0
                         /\ \A i \in 1 .. N : i <= n => f[i] = f[i - 1] + v[i]
           T == {n \in Nat : n <= N => \E f : Sums(f, n)}
<1>1. 0 \in T
  <2> DEFINE z == [n \in 0 .. N |-> 0]
  <2>1. Sums(z, 0)
    OBVIOUS
  <2> HIDE DEF z, Sums
  <2> QED  BY <2>1
<1>2. ASSUME NEW n \in T
      PROVE  n + 1 \in T
  <2>1. n \in Nat /\ n + 1 \in Nat
    OBVIOUS
  <2> SUFFICES ASSUME n + 1 <= N PROVE \E f : Sums(f, n + 1)
    BY <2>1
  <2>2. PICK f : Sums(f, n)
    <3>1. n <= N
      BY <2>1
    <3> HIDE DEF Sums
    <3> QED  BY <3>1
  <2> DEFINE g == [i \in 0 .. N |-> IF i = n + 1 THEN f[n] + v[n + 1] ELSE f[i]]
  <2>3. n + 1 \in 1 .. N /\ n \in 0 .. N
    BY <2>1
  <2>4. f[n] + v[n + 1] \in Nat
    <3>1. f \in [0 .. N -> Nat]
      BY <2>2
    <3>2. f[n] \in Nat
      BY ONLY <2>3, <3>1
    <3>3. v[n + 1] \in Nat
      <4>1. \A i \in 1 .. N : v[i] \in Nat
        BY ONLY v \in [1 .. N -> Nat]
      <4> QED  BY ONLY <2>3, <4>1
    <3>4. PICK a \in Nat, b \in Nat : a = f[n] /\ b = v[n + 1]
      BY ONLY <3>2, <3>3
    <3>5. a + b \in Nat
      OBVIOUS
    <3> QED  BY ONLY <3>4, <3>5
  <2>5. g \in [0 .. N -> Nat] /\ \A i \in 0 .. N : g[i] = IF i = n + 1 THEN f[n] + v[n + 1] ELSE f[i]
    <3>1. ASSUME NEW i \in 0 .. N
          PROVE  g[i] \in Nat
      <4>1. f[i] \in Nat
        BY <2>2
      <4> QED  BY <2>4, <4>1
    <3> QED  BY <3>1
  <2> HIDE DEF g
  <2>6. g[0] = 0
    BY <2>1, <2>2, <2>5
  <2>7. ASSUME NEW i \in 1 .. N, i <= n + 1
        PROVE  g[i] = g[i - 1] + v[i]
    <3>1. CASE i = n + 1
      <4>1. i - 1 = n /\ i \in 0 .. N /\ n # n + 1
        BY <3>1, <2>1, <2>3
      <4>2. g[i] = f[n] + v[n + 1]
        BY <3>1, <4>1, <2>5
      <4>3. g[i - 1] = f[n]
        BY <4>1, <2>3, <2>5
      <4> QED  BY <3>1, <4>2, <4>3
    <3>2. CASE i # n + 1
      <4>1. i <= n /\ i - 1 \in 0 .. N /\ i - 1 # n + 1 /\ i \in 0 .. N
        BY <3>2, <2>1, <2>7
      <4>2. f[i] = f[i - 1] + v[i]
        BY <4>1, <2>2
      <4> QED  BY <3>2, <4>1, <4>2, <2>5
    <3> QED  BY <3>1, <3>2
  <2>8. Sums(g, n + 1)
    BY <2>5, <2>6, <2>7
  <2> HIDE DEF Sums
  <2> QED  BY <2>8
<1>3. T = Nat
  <2> HIDE DEF Sums
  <2>1. T \subseteq Nat
    OBVIOUS
  <2> HIDE DEF T
  <2> QED  BY <1>1, <1>2, <2>1, SetInduction
<1>4. PICK f : Sums(f, N)
  <2> HIDE DEF Sums
  <2>1. N \in T
    <3> HIDE DEF T
    <3> QED  BY <1>3
  <2>2. N <= N
    OBVIOUS
  <2> QED  BY <2>1, <2>2
<1>5. \A i \in 1 .. N : i <= N
  OBVIOUS
<1>6. f \in [0 .. N -> Nat] /\ f[0] = 0 /\ \A n \in 1 .. N : f[n] = f[n - 1] + v[n]
  BY <1>4, <1>5
<1> QED  BY <1>6

LEMMA Arithmetic ==
    \A a, b, c, d \in Nat : /\ (a + b) + (c + d) = (a + c) + (b + d)
                           /\ a <= b /\ c <= d => a + c <= b + d
  OBVIOUS

(* Total is the last of the sums from the front.                           *)
IsSum(s, v) ==
    /\ s \in [0 .. Len(v) -> Nat]
    /\ s[0] = 0
    /\ \A n \in 1 .. Len(v) : s[n] = s[n - 1] + v[n]

LEMMA TotalSums ==
    ASSUME NEW v \in Seq(Nat)
    PROVE  \E s : IsSum(s, v) /\ Total(v) = s[Len(v)]
<1> DEFINE N == Len(v)
           Rule(s) == s = [n \in 0 .. N |-> IF n = 0 THEN 0 ELSE s[n - 1] + v[n]]
           S == CHOOSE s : Rule(s)
<1>1. N \in Nat /\ v \in [1 .. N -> Nat]
  OBVIOUS
<1>2. Total(v) = S[N]
  BY DEF Total
<1> HIDE DEF N
<1>3. PICK f \in [0 .. N -> Nat] : f[0] = 0 /\ \A n \in 1 .. N : f[n] = f[n - 1] + v[n]
  BY <1>1, SumsExist
<1>4. Rule(f)
  <2>1. \A n \in 0 .. N : f[n] = IF n = 0 THEN 0 ELSE f[n - 1] + v[n]
    <3> TAKE n \in 0 .. N
    <3>1. CASE n = 0
      BY <3>1, <1>3
    <3>2. CASE n # 0
      <4>1. n \in 1 .. N
        BY <3>2, <1>1
      <4> QED  BY <4>1, <3>2, <1>1, <1>3
    <3> QED  BY <3>1, <3>2
  <2> QED  BY <2>1
<1>5. ASSUME NEW s, Rule(s)
      PROVE  s[N] = f[N]
  <2> DEFINE T == {n \in Nat : n <= N => s[n] = f[n]}
  <2>1. 0 \in T
    BY <1>1, <1>3, <1>5
  <2>2. ASSUME NEW n \in T
        PROVE  n + 1 \in T
    <3> SUFFICES ASSUME n + 1 <= N PROVE s[n + 1] = f[n + 1]
      OBVIOUS
    <3>1. n + 1 \in 1 .. N /\ n + 1 \in 0 .. N /\ (n + 1) - 1 = n /\ n <= N
      BY <1>1
    <3>2. s[n + 1] = s[n] + v[n + 1]
      BY <3>1, <1>5
    <3>3. f[n + 1] = f[n] + v[n + 1]
      BY <3>1, <1>3
    <3> QED  BY <3>1, <3>2, <3>3
  <2>3. T \subseteq Nat
    OBVIOUS
  <2> HIDE DEF T
  <2>4. T = Nat
    BY <2>1, <2>2, <2>3, SetInduction
  <2>5. N \in T
    BY <1>1, <2>4
  <2> QED  BY <2>5, <1>1 DEF T
<1>6. S[N] = f[N]
  <2> HIDE DEF Rule
  <2> QED  BY <1>4, <1>5
<1>7. IsSum(f, v)
  BY <1>3 DEF IsSum, N
<1> QED  BY <1>2, <1>6, <1>7 DEF N

LEMMA TotalIs ==
    ASSUME NEW v \in Seq(Nat), NEW s, IsSum(s, v)
    PROVE  Total(v) = s[Len(v)] /\ Total(v) \in Nat
<1> DEFINE N == Len(v)
<1>1. N \in Nat
  OBVIOUS
<1>2. PICK f : IsSum(f, v) /\ Total(v) = f[N]
  BY TotalSums
<1> DEFINE T == {n \in Nat : n <= N => s[n] = f[n]}
<1>3. 0 \in T
  BY <1>1, <1>2 DEF IsSum
<1>4. ASSUME NEW n \in T
      PROVE  n + 1 \in T
  <2> SUFFICES ASSUME n + 1 <= N PROVE s[n + 1] = f[n + 1]
    OBVIOUS
  <2>1. n + 1 \in 1 .. N /\ (n + 1) - 1 = n /\ n <= N
    BY <1>1
  <2>2. s[n + 1] = s[n] + v[n + 1] /\ f[n + 1] = f[n] + v[n + 1]
    BY <2>1, <1>2 DEF IsSum
  <2> QED  BY <2>1, <2>2
<1>5. T \subseteq Nat
  OBVIOUS
<1> HIDE DEF T
<1>6. T = Nat
  BY <1>3, <1>4, <1>5, SetInduction
<1>7. N \in T /\ N \in 0 .. N
  BY <1>1, <1>6
<1>8. f[N] \in Nat
  BY <1>2, <1>7 DEF IsSum
<1> QED  BY <1>1, <1>2, <1>7, <1>8 DEF T

LEMMA TotalOfNone == Total(<< >>) = 0
<1>1. << >> \in Seq(Nat) /\ Len(<< >>) = 0
  OBVIOUS
<1>2. PICK s : IsSum(s, << >>) /\ Total(<< >>) = s[Len(<< >>)]
  BY <1>1, TotalSums
<1> QED  BY <1>1, <1>2 DEF IsSum

(* A position taken out of a sequence takes its number out of the sum.     *)
LEMMA TotalWithout ==
    ASSUME NEW v \in Seq(Nat), NEW w \in Seq(Nat), NEW p \in 1 .. Len(v),
           Len(w) = Len(v) - 1,
           \A j \in 1 .. Len(w) : w[j] = IF j < p THEN v[j] ELSE v[j + 1]
    PROVE  Total(v) = Total(w) + v[p]
<1> DEFINE N == Len(v)
<1>1. N \in Nat /\ p \in 1 .. N /\ N - 1 \in Nat
  OBVIOUS
<1>2. PICK f : IsSum(f, v) /\ Total(v) = f[N]
  BY TotalSums
<1>3. PICK g : IsSum(g, w) /\ Total(w) = g[N - 1]
  BY TotalSums
<1>4. \A j \in 1 .. N - 1 : w[j] = IF j < p THEN v[j] ELSE v[j + 1]
  OBVIOUS
<1>5. \A n \in 1 .. N : f[n] = f[n - 1] + v[n] /\ v[n] \in Nat
  BY <1>2 DEF IsSum
<1>6. \A n \in 1 .. N - 1 : g[n] = g[n - 1] + w[n]
  BY <1>3 DEF IsSum
<1>7. f[0] = 0 /\ g[0] = 0 /\ \A n \in 0 .. N : f[n] \in Nat
  BY <1>2, <1>3 DEF IsSum
<1>8. \A n \in 0 .. N - 1 : g[n] \in Nat
  BY <1>3 DEF IsSum
<1> HIDE DEF N
<1> DEFINE Same(n) == IF n < p THEN g[n] = f[n] ELSE f[n + 1] = g[n] + v[p]
           T == {n \in Nat : n <= N - 1 => Same(n)}
<1>9. 0 \in T
  BY <1>1, <1>7
<1>10. ASSUME NEW n \in T
       PROVE  n + 1 \in T
  <2> SUFFICES ASSUME n + 1 <= N - 1 PROVE Same(n + 1)
    <3> HIDE DEF Same
    <3> QED  OBVIOUS
  <2>0. n \in Nat /\ Same(n)
    <3> HIDE DEF Same
    <3>1. n \in Nat /\ (n <= N - 1 => Same(n))
      OBVIOUS
    <3> QED  BY <3>1, <1>1
  <2> HIDE DEF T
  <2>1. /\ n + 1 \in 1 .. N - 1 /\ n + 1 \in 1 .. N /\ n + 2 \in 1 .. N
        /\ (n + 1) - 1 = n /\ (n + 2) - 1 = n + 1 /\ (n + 1) + 1 = n + 2
    BY <1>1, <2>0
  <2>2. g[n + 1] = g[n] + w[n + 1] /\ f[n + 1] = f[n] + v[n + 1] /\ f[n + 2] = f[n + 1] + v[n + 2]
    BY <2>1, <1>5, <1>6
  <2>3. w[n + 1] = IF n + 1 < p THEN v[n + 1] ELSE v[n + 2]
    BY <2>1, <1>4
  <2>4. IF n < p THEN g[n] = f[n] ELSE f[n + 1] = g[n] + v[p]
    BY <2>0
  <2>5. /\ f[n] \in Nat /\ f[n + 1] \in Nat /\ g[n] \in Nat
        /\ v[n + 1] \in Nat /\ v[n + 2] \in Nat /\ v[p] \in Nat
    <3>1. n \in 0 .. N - 1 /\ n \in 0 .. N /\ n + 1 \in 0 .. N
      BY <2>0, <2>1, <1>1
    <3> QED  BY <3>1, <2>1, <1>1, <1>5, <1>7, <1>8
  <2>6. CASE n + 1 < p
    BY <2>6, <2>0, <2>1, <2>2, <2>3, <2>4, <1>1
  <2>7. CASE n + 1 = p
    <3>1. /\ f[n + 2] = f[n + 1] + v[n + 2] /\ g[n + 1] = g[n] + v[n + 2]
          /\ f[n + 1] = g[n] + v[p]
      <4> HIDE DEF Same, N
      <4>1. n < p /\ ~ (n + 1 < p) /\ n + 1 = p
        BY ONLY <2>7, <2>0, <1>1
      <4>2. w[n + 1] = v[n + 2] /\ g[n] = f[n]
        BY ONLY <4>1, <2>3, <2>4
      <4>3. f[n + 1] = f[n] + v[n + 1] /\ v[n + 1] = v[p]
        BY ONLY <4>1, <2>2
      <4> QED  BY ONLY <2>2, <4>2, <4>3
    <3>2. f[n + 2] = (g[n] + v[p]) + v[n + 2] /\ g[n + 1] + v[p] = (g[n] + v[n + 2]) + v[p]
      BY <3>1
    <3>3. f[n + 2] = g[n + 1] + v[p]
      BY <3>2, <2>5
    <3> QED  BY <3>3, <2>0, <2>1, <2>7, <1>1
  <2>8. CASE n + 1 > p
    <3>1. f[n + 1] = g[n] + v[p] /\ f[n + 2] = f[n + 1] + v[n + 2] /\ g[n + 1] = g[n] + v[n + 2]
      BY <2>8, <2>0, <2>1, <2>2, <2>3, <2>4, <1>1
    <3>2. f[n + 2] = (g[n] + v[p]) + v[n + 2] /\ g[n + 1] + v[p] = (g[n] + v[n + 2]) + v[p]
      BY <3>1
    <3>3. f[n + 2] = g[n + 1] + v[p]
      BY <3>2, <2>5
    <3> QED  BY <3>3, <2>0, <2>1, <2>8, <1>1
  <2> QED  BY <2>6, <2>7, <2>8, <2>0, <1>1
<1>11. T \subseteq Nat
  OBVIOUS
<1> HIDE DEF T
<1>12. T = Nat
  BY <1>9, <1>10, <1>11, SetInduction
<1>13. IF N - 1 < p THEN g[N - 1] = f[N - 1] ELSE f[(N - 1) + 1] = g[N - 1] + v[p]
  <2>1. N - 1 \in T
    BY <1>1, <1>12
  <2>2. Same(N - 1)
    <3> HIDE DEF Same
    <3> QED  BY <2>1, <1>1 DEF T
  <2> QED  BY <2>2
<1>14. (N - 1) + 1 = N /\ N \in 1 .. N /\ N - 1 \in 0 .. N - 1
  BY <1>1
<1>15. f[N] = f[N - 1] + v[N] /\ f[N - 1] \in Nat /\ g[N - 1] \in Nat
  BY <1>1, <1>14, <1>5, <1>7, <1>8
<1>16. v[p] \in Nat /\ v[N] \in Nat /\ (p = N \/ p <= N - 1)
  BY <1>1, <1>5
<1>17. f[N] = g[N - 1] + v[p]
  BY <1>1, <1>13, <1>14, <1>15, <1>16
<1> QED  BY <1>2, <1>3, <1>17

(* Its last number is the last one added.                                  *)
LEMMA TotalOfLast ==
    ASSUME NEW v \in Seq(Nat), NEW w \in Seq(Nat), Len(v) = Len(w) + 1,
           \A j \in 1 .. Len(w) : w[j] = v[j]
    PROVE  Total(v) = Total(w) + v[Len(v)]
<1>1. Len(w) \in Nat /\ Len(v) \in 1 .. Len(v) /\ Len(w) = Len(v) - 1
  OBVIOUS
<1>2. \A j \in 1 .. Len(w) : w[j] = IF j < Len(v) THEN v[j] ELSE v[j + 1]
  BY <1>1
<1> QED  BY <1>1, <1>2, TotalWithout

(* Numbers added up place by place.                                        *)
LEMMA TotalAdds ==
    ASSUME NEW u \in Seq(Nat), NEW v \in Seq(Nat), NEW w \in Seq(Nat),
           Len(v) = Len(u), Len(w) = Len(u),
           \A i \in 1 .. Len(u) : u[i] = v[i] + w[i]
    PROVE  Total(u) = Total(v) + Total(w)
<1> DEFINE N == Len(u)
<1>1. PICK f : IsSum(f, v) /\ Total(v) = f[N]
  BY TotalSums
<1>2. PICK g : IsSum(g, w) /\ Total(w) = g[N]
  BY TotalSums
<1> DEFINE h == [n \in 0 .. N |-> f[n] + g[n]]
<1>3. N \in Nat
  OBVIOUS
<1>4. /\ f[0] = 0 /\ g[0] = 0
      /\ \A n \in 0 .. N : f[n] \in Nat /\ g[n] \in Nat
      /\ \A n \in 1 .. N : f[n] = f[n - 1] + v[n] /\ g[n] = g[n - 1] + w[n]
  BY <1>1, <1>2 DEF IsSum
<1>5. \A n \in 1 .. N : u[n] = v[n] + w[n] /\ v[n] \in Nat /\ w[n] \in Nat
  <2>1. \A n \in 1 .. N : u[n] = v[n] + w[n]
    OBVIOUS
  <2>2. \A n \in 1 .. N : v[n] \in Nat
    OBVIOUS
  <2>3. \A n \in 1 .. N : w[n] \in Nat
    OBVIOUS
  <2> QED  BY ONLY <2>1, <2>2, <2>3
<1>6. h \in [0 .. N -> Nat] /\ h[0] = 0 /\ \A n \in 0 .. N : h[n] = f[n] + g[n]
  <2>1. \A n \in 0 .. N : f[n] + g[n] \in Nat
    BY <1>4
  <2>2. 0 \in 0 .. N
    BY <1>3
  <2>3. f[0] + g[0] = 0
    BY <1>4
  <2> QED  BY <2>1, <2>2, <2>3
<1> HIDE DEF h, N
<1>7. ASSUME NEW n \in 1 .. N
      PROVE  h[n] = h[n - 1] + u[n]
  <2>1. n \in 0 .. N /\ n - 1 \in 0 .. N
    BY <1>3
  <2>2. h[n] = f[n] + g[n] /\ h[n - 1] = f[n - 1] + g[n - 1]
    BY <2>1, <1>6
  <2>3. f[n - 1] \in Nat /\ g[n - 1] \in Nat
    BY <2>1, <1>4
  <2>4. f[n] = f[n - 1] + v[n] /\ g[n] = g[n - 1] + w[n] /\ u[n] = v[n] + w[n] /\ v[n] \in Nat /\ w[n] \in Nat
    BY <1>4, <1>5
  <2>5. h[n] = (f[n - 1] + v[n]) + (g[n - 1] + w[n])
    BY <2>2, <2>4
  <2>6. (f[n - 1] + v[n]) + (g[n - 1] + w[n]) = (f[n - 1] + g[n - 1]) + (v[n] + w[n])
    <3>1. PICK a \in Nat, b \in Nat, c \in Nat, d \in Nat :
             a = f[n - 1] /\ b = v[n] /\ c = g[n - 1] /\ d = w[n]
      BY <2>3, <2>4
    <3>2. (a + b) + (c + d) = (a + c) + (b + d)
      BY Arithmetic
    <3> QED  BY <3>1, <3>2
  <2> QED  BY <2>2, <2>4, <2>5, <2>6
<1>8. IsSum(h, u)
  BY <1>6, <1>7 DEF IsSum, N
<1>9. Total(u) = h[N]
  BY <1>8, TotalIs DEF N
<1>10. N \in 0 .. N
  BY <1>3
<1> QED  BY <1>1, <1>2, <1>9, <1>10, <1>6

(* The place before b is at a or behind it, when a is before b.            *)
LEMMA PlaceBefore ==
    ASSUME NEW N \in Nat, NEW a \in 0 .. N, NEW b \in 1 .. N, a < b
    PROVE  a <= b - 1 /\ b - 1 \in 0 .. N
  OBVIOUS

(* The numbers of w are no larger than numbers of v at later and later     *)
(* places.                                                                 *)
LEMMA TotalSelected ==
    ASSUME NEW v \in Seq(Nat), NEW w \in Seq(Nat), NEW f \in [1 .. Len(w) -> 1 .. Len(v)],
           \A i, j \in 1 .. Len(w) : i < j => f[i] < f[j],
           \A i \in 1 .. Len(w) : w[i] <= v[f[i]]
    PROVE  Total(w) <= Total(v)
<1> DEFINE N == Len(v)
           M == Len(w)
<1>1. N \in Nat /\ M \in Nat
  OBVIOUS
<1>2. PICK s : IsSum(s, v) /\ Total(v) = s[N]
  BY TotalSums
<1>3. PICK t : IsSum(t, w) /\ Total(w) = t[M]
  BY TotalSums
<1>4. /\ s[0] = 0 /\ \A n \in 0 .. N : s[n] \in Nat
      /\ \A n \in 1 .. N : s[n] = s[n - 1] + v[n] /\ v[n] \in Nat
  <2>1. s \in [0 .. N -> Nat] /\ s[0] = 0 /\ \A n \in 1 .. N : s[n] = s[n - 1] + v[n]
    BY <1>2 DEF IsSum
  <2>2. \A n \in 1 .. N : v[n] \in Nat
    OBVIOUS
  <2> HIDE DEF N, M
  <2> QED  BY <2>1, <2>2
<1>5. /\ t[0] = 0 /\ \A n \in 0 .. M : t[n] \in Nat
      /\ \A n \in 1 .. M : t[n] = t[n - 1] + w[n] /\ w[n] \in Nat
  <2>1. t \in [0 .. M -> Nat] /\ t[0] = 0 /\ \A n \in 1 .. M : t[n] = t[n - 1] + w[n]
    BY <1>3 DEF IsSum
  <2>2. \A n \in 1 .. M : w[n] \in Nat
    OBVIOUS
  <2> HIDE DEF N, M
  <2> QED  BY <2>1, <2>2
<1>6. /\ \A i \in 1 .. M : f[i] \in 1 .. N /\ w[i] <= v[f[i]]
      /\ \A i, j \in 1 .. M : i < j => f[i] < f[j]
  OBVIOUS
<1> HIDE DEF N, M
<1>7. ASSUME NEW a \in 0 .. N, NEW b \in 0 .. N, a <= b
      PROVE  s[a] <= s[b]
  <2> DEFINE T == {d \in Nat : a + d <= N => s[a] <= s[a + d]}
  <2>1. 0 \in T
    BY <1>1, <1>4
  <2>2. ASSUME NEW d \in T
        PROVE  d + 1 \in T
    <3> SUFFICES ASSUME a + (d + 1) <= N PROVE s[a] <= s[a + (d + 1)]
      OBVIOUS
    <3>1. a + (d + 1) \in 1 .. N /\ (a + (d + 1)) - 1 = a + d /\ a + d \in 0 .. N /\ a + d <= N
      BY <1>1
    <3>2. s[a + (d + 1)] = s[a + d] + v[a + (d + 1)] /\ v[a + (d + 1)] \in Nat
      BY <3>1, <1>4
    <3>3. s[a] <= s[a + d] /\ s[a] \in Nat /\ s[a + d] \in Nat
      BY <3>1, <1>4
    <3> QED  BY <3>2, <3>3
  <2>3. T \subseteq Nat
    OBVIOUS
  <2> HIDE DEF T
  <2>4. T = Nat
    BY <2>1, <2>2, <2>3, SetInduction
  <2>5. b - a \in T /\ a + (b - a) = b /\ b <= N
    BY <1>1, <1>7, <2>4
  <2> QED  BY <2>5 DEF T
<1> DEFINE Spot(n) == IF n = 0 THEN 0 ELSE f[n]
           U == {n \in Nat : n <= M => t[n] <= s[Spot(n)]}
<1>8. 0 \in U
  BY <1>4, <1>5
<1>9. ASSUME NEW n \in U
      PROVE  n + 1 \in U
  <2> SUFFICES ASSUME n + 1 <= M PROVE t[n + 1] <= s[f[n + 1]]
    OBVIOUS
  <2>0. n \in Nat /\ (n <= M => t[n] <= s[Spot(n)])
    OBVIOUS
  <2> HIDE DEF U
  <2>1. n \in Nat /\ n + 1 \in 1 .. M /\ (n + 1) - 1 = n /\ n <= M /\ n \in 0 .. M
    BY <1>1, <2>0
  <2>2. f[n + 1] \in 1 .. N /\ w[n + 1] <= v[f[n + 1]]
    BY ONLY <2>1, <1>6
  <2>3. Spot(n) \in 0 .. N /\ Spot(n) <= f[n + 1] - 1 /\ f[n + 1] - 1 \in 0 .. N
    <3>1. Spot(n) \in 0 .. N /\ Spot(n) < f[n + 1]
      <4>1. CASE n = 0
        <5>1. Spot(n) = 0
          BY <4>1
        <5> HIDE DEF Spot
        <5> QED  BY <5>1, <2>2, <1>1
      <4>2. CASE n # 0
        <5>1. n \in 1 .. M /\ n < n + 1
          BY ONLY <4>2, <2>1, <1>1
        <5>2. f[n] < f[n + 1] /\ f[n] \in 1 .. N
          BY ONLY <5>1, <2>1, <1>6
        <5>3. Spot(n) = f[n]
          BY <4>2
        <5> HIDE DEF Spot
        <5>4. f[n] \in 0 .. N
          BY ONLY <5>2, <1>1
        <5> QED  BY ONLY <5>2, <5>3, <5>4
      <4> QED  BY <4>1, <4>2
    <3> HIDE DEF Spot
    <3> QED  BY ONLY <3>1, <2>2, <1>1, PlaceBefore
  <2>4. t[n] <= s[Spot(n)]
    BY <2>0, <2>1
  <2> HIDE DEF Spot
  <2>5. s[Spot(n)] <= s[f[n + 1] - 1]
    BY <2>3, <1>7
  <2>6. s[f[n + 1]] = s[f[n + 1] - 1] + v[f[n + 1]] /\ v[f[n + 1]] \in Nat
    BY <2>2, <1>4
  <2>7. t[n + 1] = t[n] + w[n + 1] /\ w[n + 1] \in Nat /\ t[n] \in Nat
    BY <2>1, <1>5
  <2>8. s[Spot(n)] \in Nat /\ s[f[n + 1] - 1] \in Nat
    BY <2>3, <1>4
  <2>9. t[n] <= s[f[n + 1] - 1]
    <3>1. PICK a \in Nat, b \in Nat, c \in Nat : a = t[n] /\ b = s[Spot(n)] /\ c = s[f[n + 1] - 1]
      BY ONLY <2>7, <2>8
    <3>2. a <= b /\ b <= c
      BY ONLY <2>4, <2>5, <3>1
    <3>3. a <= c
      BY ONLY <3>2, a \in Nat, b \in Nat, c \in Nat
    <3> QED  BY ONLY <3>1, <3>3
  <2>10. t[n] + w[n + 1] <= s[f[n + 1] - 1] + v[f[n + 1]]
    <3>1. PICK a \in Nat, b \in Nat, c \in Nat, d \in Nat :
             a = t[n] /\ b = s[f[n + 1] - 1] /\ c = w[n + 1] /\ d = v[f[n + 1]]
      BY <2>6, <2>7, <2>8
    <3>2. a <= b /\ c <= d
      BY <3>1, <2>2, <2>9
    <3>3. a + c <= b + d
      BY <3>2, Arithmetic
    <3> QED  BY <3>1, <3>3
  <2> QED  BY <2>6, <2>7, <2>10
<1>10. U \subseteq Nat
  OBVIOUS
<1> HIDE DEF U
<1>11. U = Nat
  BY <1>8, <1>9, <1>10, SetInduction
<1>12. t[M] <= s[Spot(M)] /\ Spot(M) \in 0 .. N
  <2>1. M \in U
    BY <1>1, <1>11
  <2>2. M = 0 \/ M \in 1 .. M
    BY <1>1
  <2>3. Spot(M) \in 0 .. N
    BY <2>2, <1>1, <1>6
  <2> QED  BY <2>1, <2>3, <1>1 DEF U
<1> HIDE DEF Spot
<1>13. s[Spot(M)] <= s[N] /\ N \in 0 .. N /\ M \in 0 .. M
  <2>1. N \in 0 .. N /\ Spot(M) <= N
    BY <1>1, <1>12
  <2> QED  BY <2>1, <1>1, <1>12, <1>7
<1>14. t[M] \in Nat /\ s[Spot(M)] \in Nat /\ s[N] \in Nat
  BY <1>12, <1>13, <1>4, <1>5
<1> QED  BY <1>2, <1>3, <1>12, <1>13, <1>14

(* Place by place no larger.                                               *)
LEMMA TotalGrows ==
    ASSUME NEW v \in Seq(Nat), NEW w \in Seq(Nat), Len(w) = Len(v),
           \A i \in 1 .. Len(v) : w[i] <= v[i]
    PROVE  Total(w) <= Total(v)
<1> DEFINE f == [i \in 1 .. Len(w) |-> i]
<1>1. f \in [1 .. Len(w) -> 1 .. Len(v)] /\ \A i \in 1 .. Len(w) : f[i] = i
  OBVIOUS
<1> HIDE DEF f
<1>2. \A i, j \in 1 .. Len(w) : i < j => f[i] < f[j]
  BY <1>1
<1>3. \A i \in 1 .. Len(w) : w[i] <= v[f[i]]
  BY <1>1
<1> QED  BY <1>1, <1>2, <1>3, TotalSelected

(* One number changed changes the sum by as much.                          *)
LEMMA TotalChanged ==
    ASSUME NEW v \in Seq(Nat), NEW w \in Seq(Nat), Len(w) = Len(v), NEW p \in 1 .. Len(v),
           \A i \in 1 .. Len(v) : i # p => w[i] = v[i]
    PROVE  Total(v) + w[p] = Total(w) + v[p]
<1>0. /\ \A i \in 1 .. Len(v) : i # p => w[i] = v[i]
      /\ Len(v) \in Nat /\ \A i \in 1 .. Len(v) : v[i] \in Nat /\ w[i] \in Nat
  OBVIOUS
<1> DEFINE N == Len(v)
           u == [j \in 1 .. N - 1 |-> IF j < p THEN v[j] ELSE v[j + 1]]
<1>1. N \in Nat /\ p \in 1 .. N /\ N - 1 \in Nat
  OBVIOUS
<1>2. u \in Seq(Nat) /\ Len(u) = N - 1 /\ \A j \in 1 .. N - 1 : u[j] = IF j < p THEN v[j] ELSE v[j + 1]
  <2>1. \A i \in 1 .. N : v[i] \in Nat
    OBVIOUS
  <2>2. \A j \in 1 .. N - 1 : (IF j < p THEN v[j] ELSE v[j + 1]) \in Nat
    BY <2>1, <1>1
  <2>3. u \in [1 .. N - 1 -> Nat]
    BY <2>2
  <2> QED  BY <2>3, <1>1
<1> HIDE DEF u
<1>3. \A j \in 1 .. N - 1 : u[j] = IF j < p THEN w[j] ELSE w[j + 1]
  <2> HIDE DEF N
  <2> TAKE j \in 1 .. N - 1
  <2>1. u[j] = IF j < p THEN v[j] ELSE v[j + 1]
    BY <1>2
  <2>2. CASE j < p
    <3>1. j \in 1 .. N /\ j # p
      BY ONLY <2>2, <1>1, j \in 1 .. N - 1
    <3>2. w[j] = v[j]
      BY <3>1, <1>0 DEF N
    <3> QED  BY <2>1, <2>2, <3>2
  <2>3. CASE ~ (j < p)
    <3>1. j + 1 \in 1 .. N /\ j + 1 # p
      BY ONLY <2>3, <1>1, j \in 1 .. N - 1
    <3>2. w[j + 1] = v[j + 1]
      BY <3>1, <1>0 DEF N
    <3> QED  BY <2>1, <2>3, <3>2
  <2> QED  BY <2>2, <2>3
<1>4. Total(v) = Total(u) + v[p]
  BY <1>2, TotalWithout
<1>5. Total(w) = Total(u) + w[p]
  BY <1>2, <1>3, TotalWithout
<1>6. Total(u) \in Nat
  <2>1. u \in Seq(Nat)
    BY <1>2
  <2>2. PICK s : IsSum(s, u)
    BY ONLY <2>1, TotalSums
  <2> QED  BY ONLY <2>1, <2>2, TotalIs
<1>7. v[p] \in Nat /\ w[p] \in Nat
  BY <1>0
<1> QED  BY ONLY <1>4, <1>5, <1>6, <1>7

-------------------------------------------------------------------------------
(* Lists in order: what is listed so is Ascending, and what it picks is At. *)

(* g lists S, every member once.                                           *)
Lists(g, N, S) ==
    /\ N \in Nat
    /\ g \in [1 .. N -> S]
    /\ \A x \in S : \E i \in 1 .. N : g[i] = x
    /\ \A i, j \in 1 .. N : g[i] = g[j] => i = j

(* In a list of S without gaps or repetitions, i - 1 members come before   *)
(* the i-th.                                                               *)
LEMMA RankInList ==
    ASSUME NEW S, NEW N, NEW g, Lists(g, N, S), NEW n \in 0 .. N, NEW B \in SUBSET S,
           \A j \in 1 .. N : g[j] \in B <=> j <= n
    PROVE  IsFiniteSet(B) /\ Cardinality(B) = n
<1> DEFINE h == [i \in 1 .. n |-> g[i]]
<1>0. /\ N \in Nat /\ g \in [1 .. N -> S]
      /\ \A x \in S : \E i \in 1 .. N : g[i] = x
      /\ \A i, j \in 1 .. N : g[i] = g[j] => i = j
  BY DEF Lists
<1>1. n \in Nat /\ 1 .. n \subseteq 1 .. N
  BY <1>0
<1>2. h \in [1 .. n -> B]
  BY <1>0, <1>1
<1>3. \A i, j \in 1 .. n : h[i] = h[j] => i = j
  BY <1>0, <1>1
<1>4. \A x \in B : \E i \in 1 .. n : h[i] = x
  <2> TAKE x \in B
  <2>1. PICK i \in 1 .. N : g[i] = x
    BY <1>0
  <2>2. i \in 1 .. n
    BY <2>1, <1>0
  <2> QED  BY <2>1, <2>2
<1> HIDE DEF h
<1>5. h \in Bijection(1 .. n, B)
  BY <1>2, <1>3, <1>4 DEF Bijection, Injection, Surjection, IsInjective
<1>6. ExistsBijection(1 .. n, B)
  BY <1>5 DEF ExistsBijection
<1>7. IsFiniteSet(1 .. n) /\ Cardinality(1 .. n) = n
  BY <1>1, FS_Interval
<1> QED  BY <1>6, <1>7, FS_Bijection

(* A list of S in order is Ascending(S).                                   *)
LEMMA AscendingIs ==
    ASSUME NEW S \in SUBSET Nat, NEW N \in Nat, NEW g \in [1 .. N -> S],
           \A n \in S : \E i \in 1 .. N : g[i] = n,
           \A i, j \in 1 .. N : i < j => g[i] < g[j]
    PROVE  /\ IsFiniteSet(S) /\ Cardinality(S) = N
           /\ \A i \in 1 .. N : Ascending(S)[i] = g[i]
<1>0. \A i \in 1 .. N : i \in Nat /\ g[i] \in S /\ g[i] \in Nat
  <2> TAKE i \in 1 .. N
  <2>1. i \in Nat
    OBVIOUS
  <2>2. g[i] \in S
    OBVIOUS
  <2>3. g[i] \in Nat
    BY ONLY <2>2, S \in SUBSET Nat
  <2> QED  BY <2>1, <2>2, <2>3
<1>1. \A i, j \in 1 .. N : i < j <=> g[i] < g[j]
  <2> TAKE i, j \in 1 .. N
  <2>1. i \in Nat /\ j \in Nat /\ g[i] \in Nat /\ g[j] \in Nat
    BY <1>0
  <2>2. i < j => g[i] < g[j]
    OBVIOUS
  <2>3. j < i => g[j] < g[i]
    OBVIOUS
  <2> QED  BY ONLY <2>1, <2>2, <2>3
<1>2. \A i, j \in 1 .. N : g[i] = g[j] => i = j
  <2> SUFFICES ASSUME NEW i \in 1 .. N, NEW j \in 1 .. N, g[i] = g[j] PROVE i = j
    OBVIOUS
  <2>1. i \in Nat /\ j \in Nat /\ g[i] \in Nat /\ ~ (g[i] < g[i])
    BY <1>0
  <2>2. ~ (i < j) /\ ~ (j < i)
    BY <2>1, <1>1
  <2> QED  BY <2>1, <2>2
<1>z. Lists(g, N, S)
  BY <1>2 DEF Lists
<1>3. IsFiniteSet(S) /\ Cardinality(S) = N
  <2>1. \A j \in 1 .. N : g[j] \in S <=> j <= N
    OBVIOUS
  <2>2. N \in 0 .. N /\ S \in SUBSET S
    OBVIOUS
  <2> QED  BY ONLY <1>z, <2>1, <2>2, RankInList
<1>4. ASSUME NEW i \in 1 .. N
      PROVE  Cardinality(Below(S, g[i])) = i - 1
  <2>1. i - 1 \in 0 .. N /\ Below(S, g[i]) \in SUBSET S
    BY DEF Below
  <2>2. \A j \in 1 .. N : g[j] \in Below(S, g[i]) <=> j <= i - 1
    <3> TAKE j \in 1 .. N
    <3>1. g[j] \in Below(S, g[i]) <=> g[j] < g[i]
      BY DEF Below
    <3>2. j < i <=> j <= i - 1
      OBVIOUS
    <3> QED  BY <3>1, <3>2, <1>1
  <2> QED  BY ONLY <1>z, <2>1, <2>2, RankInList
<1>5. ASSUME NEW i \in 1 .. N
      PROVE  Ascending(S)[i] = g[i]
  <2>1. Ascending(S)[i] = CHOOSE n \in S : Cardinality(Below(S, n)) = i - 1
    BY <1>3 DEF Ascending, Below
  <2>2. g[i] \in S /\ Cardinality(Below(S, g[i])) = i - 1
    BY <1>4
  <2>3. ASSUME NEW n \in S, Cardinality(Below(S, n)) = i - 1
        PROVE  n = g[i]
    <3>1. PICK k \in 1 .. N : g[k] = n
      OBVIOUS
    <3>2. k - 1 = i - 1
      BY <3>1, <2>3, <1>4
    <3>3. k \in Nat /\ i \in Nat
      OBVIOUS
    <3>4. k = i
      BY ONLY <3>2, <3>3
    <3> QED  BY <3>1, <3>4
  <2> QED  BY ONLY <2>1, <2>2, <2>3
<1> QED  BY <1>3, <1>5

(* t has what s has at the positions P, in their order; g lists them.      *)
PicksAt(s, P, t, g) ==
    /\ g \in [1 .. Len(t) -> P]
    /\ \A n \in P : \E i \in 1 .. Len(t) : g[i] = n
    /\ \A i, j \in 1 .. Len(t) : i < j => g[i] < g[j]
    /\ \A i \in 1 .. Len(t) : t[i] = s[g[i]]

(* That is what At takes.                                                  *)
LEMMA AtIs ==
    ASSUME NEW S, NEW s \in Seq(S), NEW P, P \subseteq DOMAIN s,
           NEW t \in Seq(S), NEW g, PicksAt(s, P, t, g)
    PROVE  At(s, P) = t
<1> DEFINE N == Len(t)
<1>0. /\ g \in [1 .. N -> P]
      /\ \A n \in P : \E i \in 1 .. N : g[i] = n
      /\ \A i, j \in 1 .. N : i < j => g[i] < g[j]
      /\ \A i \in 1 .. N : t[i] = s[g[i]]
  BY DEF PicksAt
<1>1. N \in Nat /\ P \in SUBSET Nat /\ t = [i \in 1 .. N |-> t[i]]
  OBVIOUS
<1> HIDE DEF N
<1>2. Cardinality(P) = N /\ \A i \in 1 .. N : Ascending(P)[i] = g[i]
  <2>1. PICK S1 \in SUBSET Nat, n \in Nat : S1 = P /\ n = N
    BY <1>1
  <2>2. /\ g \in [1 .. n -> S1]
        /\ \A m \in S1 : \E i \in 1 .. n : g[i] = m
        /\ \A i, j \in 1 .. n : i < j => g[i] < g[j]
    BY ONLY <1>0, <2>1
  <2>3. Cardinality(S1) = n
    BY ONLY <2>2, AscendingIs
  <2>4. \A i \in 1 .. n : Ascending(S1)[i] = g[i]
    BY ONLY <2>2, AscendingIs
  <2> QED  BY ONLY <2>1, <2>3, <2>4
<1>3. At(s, P) = [i \in 1 .. N |-> s[Ascending(P)[i]]]
  BY <1>2 DEF At
<1>4. At(s, P) = [i \in 1 .. N |-> t[i]]
  BY <1>0, <1>2, <1>3
<1> QED  BY <1>1, <1>4

-------------------------------------------------------------------------------
(* Joins of sequences.                                                     *)

(* Joining does not depend on what is joined first.                        *)
Associates(S) == \A a, b, c \in Seq(S) : (a \o b) \o c = a \o (b \o c)

LEMMA JoinAssociates ==
    ASSUME NEW S
    PROVE  Associates(S)
<1> SUFFICES \A a, b, c \in Seq(S) : (a \o b) \o c = a \o (b \o c)
  BY DEF Associates
<1> TAKE a, b, c \in Seq(S)
<1> QED  OBVIOUS

(* Two sequences joined, position by position.                             *)
LEMMA JoinOf ==
    ASSUME NEW S, NEW front \in Seq(S), NEW back \in Seq(S)
    PROVE  /\ front \o back \in Seq(S)
           /\ Len(front) \in Nat /\ Len(back) \in Nat
           /\ DOMAIN front = 1 .. Len(front) /\ DOMAIN back = 1 .. Len(back)
           /\ Len(front \o back) = Len(front) + Len(back)
           /\ DOMAIN (front \o back) = 1 .. Len(front) + Len(back)
           /\ \A i \in 1 .. Len(front) + Len(back) :
                 (front \o back)[i] = IF i <= Len(front) THEN front[i] ELSE back[i - Len(front)]
<1>1. PICK q : q = front \o back
  OBVIOUS
<1>2. /\ q \in Seq(S) /\ Len(q) = Len(front) + Len(back)
      /\ \A i \in 1 .. Len(front) + Len(back) :
            q[i] = IF i <= Len(front) THEN front[i] ELSE back[i - Len(front)]
  BY <1>1, ConcatProperties
<1>3. /\ Len(front) \in Nat /\ Len(back) \in Nat
      /\ DOMAIN front = 1 .. Len(front) /\ DOMAIN back = 1 .. Len(back)
  OBVIOUS
<1>4. DOMAIN q = 1 .. Len(front) + Len(back)
  BY ONLY <1>2
<1> QED  BY <1>1, <1>2, <1>3, <1>4

(* A sequence with a member in the middle.                                 *)
LEMMA MiddleOf ==
    ASSUME NEW S, NEW front \in Seq(S), NEW back \in Seq(S), NEW e \in S,
           NEW queue, queue = front \o (<<e>> \o back)
    PROVE  /\ queue \in Seq(S)
           /\ Len(front) \in Nat /\ Len(back) \in Nat
           /\ Len(queue) = (Len(front) + Len(back)) + 1
           /\ \A i \in 1 .. Len(front) : queue[i] = front[i]
           /\ queue[Len(front) + 1] = e
           /\ \A i \in 1 .. Len(back) : queue[(Len(front) + i) + 1] = back[i]
<1>1. PICK half : half = <<e>> \o back
  OBVIOUS
<1>2. <<e>> \in Seq(S) /\ Len(<<e>>) = 1 /\ <<e>>[1] = e
  OBVIOUS
<1>3. PICK f \in Nat, b \in Nat : f = Len(front) /\ b = Len(back)
  OBVIOUS
<1>4. /\ half \in Seq(S) /\ Len(half) = 1 + b
      /\ \A i \in 1 .. 1 + b : half[i] = IF i <= 1 THEN <<e>>[i] ELSE back[i - 1]
  <2>1. /\ half \in Seq(S) /\ Len(half) = Len(<<e>>) + Len(back)
        /\ \A i \in 1 .. Len(<<e>>) + Len(back) :
              half[i] = IF i <= Len(<<e>>) THEN <<e>>[i] ELSE back[i - Len(<<e>>)]
    BY <1>1, <1>2, JoinOf
  <2> QED  BY ONLY <2>1, <1>2, <1>3
<1>5. /\ queue \in Seq(S) /\ Len(queue) = f + (1 + b)
      /\ \A i \in 1 .. f + (1 + b) : queue[i] = IF i <= f THEN front[i] ELSE half[i - f]
  <2>1. /\ queue \in Seq(S) /\ Len(queue) = Len(front) + Len(half)
        /\ \A i \in 1 .. Len(front) + Len(half) :
              queue[i] = IF i <= Len(front) THEN front[i] ELSE half[i - Len(front)]
    BY <1>1, <1>4, JoinOf
  <2> QED  BY ONLY <2>1, <1>3, <1>4
<1>6. \A i \in 1 .. f : queue[i] = front[i]
  BY <1>5
<1>7. queue[f + 1] = e
  <2>1. f + 1 \in 1 .. f + (1 + b) /\ ~ (f + 1 <= f) /\ (f + 1) - f = 1 /\ 1 \in 1 .. 1 + b
    OBVIOUS
  <2>2. queue[f + 1] = half[(f + 1) - f]
    BY ONLY <2>1, <1>5
  <2>3. half[1] = <<e>>[1]
    BY ONLY <2>1, <1>4
  <2> QED  BY ONLY <2>1, <2>2, <2>3, <1>2
<1>8. ASSUME NEW i \in 1 .. b
      PROVE  queue[(f + i) + 1] = back[i]
  <2>1. /\ (f + i) + 1 \in 1 .. f + (1 + b) /\ ~ ((f + i) + 1 <= f) /\ ((f + i) + 1) - f = i + 1
        /\ i + 1 \in 1 .. 1 + b /\ ~ (i + 1 <= 1) /\ (i + 1) - 1 = i
    OBVIOUS
  <2> QED  BY <2>1, <1>4, <1>5
<1>9. f + (1 + b) = (f + b) + 1
  OBVIOUS
<1> QED  BY <1>3, <1>5, <1>6, <1>7, <1>8, <1>9

(* The same as a fact about three sequences.                               *)
JoinedFrom(all, front, back) == all = front \o back

(* The first member of a sequence replaced.                                *)
HeadBecomes(queue, e, new) == new = [queue EXCEPT ![1] = e]

(* A change at the head of a join is one at the head of its first part.    *)
LEMMA HeadOfJoin ==
    ASSUME NEW S, NEW queue \in Seq(S), queue # << >>, NEW behind \in Seq(S),
           NEW all, all = queue \o behind, NEW e \in S,
           NEW new, HeadBecomes(queue, e, new), NEW changed, HeadBecomes(all, e, changed)
    PROVE  /\ all \in Seq(S) /\ all # << >> /\ all[1] = queue[1]
           /\ Tail(all) = Tail(queue) \o behind
           /\ JoinedFrom(changed, new, behind)
<1>1. PICK m \in Nat, n \in Nat : m = Len(queue) /\ n = Len(behind) /\ m > 0
  <2>1. Len(queue) \in Nat /\ Len(behind) \in Nat /\ Len(queue) > 0
    OBVIOUS
  <2> QED  BY <2>1
<1>2. /\ all \in Seq(S) /\ Len(all) = m + n
      /\ \A i \in 1 .. m + n : all[i] = IF i <= m THEN queue[i] ELSE behind[i - m]
  BY <1>1, JoinOf
<1>3. all # << >> /\ all[1] = queue[1]
  <2>1. 1 \in 1 .. m + n /\ 1 <= m
    BY <1>1
  <2> QED  BY <2>1, <1>2
<1>4. Tail(all) = Tail(queue) \o behind
  <2>1. PICK u, v, w : u = Tail(all) /\ v = Tail(queue) /\ w = v \o behind
    OBVIOUS
  <2>2. /\ u \in Seq(S) /\ Len(u) = (m + n) - 1
        /\ \A i \in 1 .. (m + n) - 1 : u[i] = all[i + 1]
    BY <2>1, <1>2, <1>3, HeadTailProperties
  <2>3. /\ v \in Seq(S) /\ Len(v) = m - 1
        /\ \A i \in 1 .. m - 1 : v[i] = queue[i + 1]
    BY <2>1, <1>1, HeadTailProperties
  <2>4. /\ w \in Seq(S) /\ Len(w) = Len(v) + Len(behind)
        /\ \A i \in 1 .. Len(v) + Len(behind) : w[i] = IF i <= Len(v) THEN v[i] ELSE behind[i - Len(v)]
    BY <2>1, <2>3, JoinOf
  <2>5. /\ w \in Seq(S) /\ Len(w) = (m - 1) + n
        /\ \A i \in 1 .. (m - 1) + n : w[i] = IF i <= m - 1 THEN v[i] ELSE behind[i - (m - 1)]
    BY <2>3, <2>4, <1>1
  <2>6. ASSUME NEW i \in 1 .. (m - 1) + n
        PROVE  u[i] = w[i]
    <3>1. i \in 1 .. (m + n) - 1 /\ i + 1 \in 1 .. m + n
      BY <1>1
    <3>2. u[i] = all[i + 1]
      BY <3>1, <2>2
    <3>3. CASE i <= m - 1
      <4>1. i \in 1 .. m - 1 /\ i + 1 <= m
        BY <3>3, <1>1
      <4>2. all[i + 1] = queue[i + 1] /\ w[i] = queue[i + 1]
        BY <3>1, <3>3, <4>1, <1>2, <2>3, <2>5
      <4> QED  BY <3>2, <4>2
    <3>4. CASE ~ (i <= m - 1)
      <4>1. ~ (i + 1 <= m) /\ (i + 1) - m = i - (m - 1)
        BY <3>4, <1>1
      <4>2. all[i + 1] = behind[(i + 1) - m]
        BY <3>1, <4>1, <1>2
      <4>3. w[i] = behind[i - (m - 1)]
        BY <3>4, <2>5
      <4> QED  BY <3>2, <4>1, <4>2, <4>3
    <3> QED  BY <3>3, <3>4
  <2>7. (m + n) - 1 = (m - 1) + n
    BY <1>1
  <2>8. u = w
    <3>1. PICK k : k = (m - 1) + n
      OBVIOUS
    <3>2. /\ u \in Seq(S) /\ w \in Seq(S) /\ Len(u) = k /\ Len(w) = k
          /\ \A i \in 1 .. k : u[i] = w[i]
      BY ONLY <3>1, <2>2, <2>5, <2>6, <2>7
    <3> QED  BY ONLY <3>2
  <2> QED  BY <2>1, <2>8
<1>5. changed = new \o behind
  <2>0. changed = [all EXCEPT ![1] = e] /\ new = [queue EXCEPT ![1] = e]
    BY DEF HeadBecomes
  <2>1. PICK u, v, w : u = [all EXCEPT ![1] = e] /\ v = [queue EXCEPT ![1] = e] /\ w = v \o behind
    OBVIOUS
  <2>a. u = changed /\ v = new
    BY ONLY <2>0, <2>1
  <2>2. /\ u \in Seq(S) /\ Len(u) = m + n
        /\ \A i \in 1 .. m + n : u[i] = IF i = 1 THEN e ELSE all[i]
    <3>1. 1 \in 1 .. Len(all)
      BY <1>1, <1>2
    <3> QED  BY ONLY <2>1, <3>1, <1>2, e \in S, ExceptSeq
  <2>3. /\ v \in Seq(S) /\ Len(v) = m
        /\ \A i \in 1 .. m : v[i] = IF i = 1 THEN e ELSE queue[i]
    BY <2>1, <1>1
  <2>4. /\ w \in Seq(S) /\ Len(w) = m + n
        /\ \A i \in 1 .. m + n : w[i] = IF i <= m THEN v[i] ELSE behind[i - m]
    BY <2>1, <2>3, <1>1, JoinOf
  <2>5. ASSUME NEW i \in 1 .. m + n
        PROVE  u[i] = w[i]
    <3>1. CASE i <= m
      <4>1. i \in 1 .. m
        BY <3>1
      <4>2. w[i] = IF i = 1 THEN e ELSE queue[i]
        BY <3>1, <4>1, <2>3, <2>4
      <4>3. all[i] = queue[i]
        BY <3>1, <1>2
      <4> QED  BY <4>2, <4>3, <2>2
    <3>2. CASE ~ (i <= m)
      <4>1. i # 1
        BY <3>2, <1>1
      <4>2. w[i] = behind[i - m] /\ all[i] = behind[i - m]
        BY <3>2, <1>2, <2>4
      <4> QED  BY <4>1, <4>2, <2>2
    <3> QED  BY <3>1, <3>2
  <2>6. u = w
    BY <2>2, <2>4, <2>5
  <2> QED  BY <2>a, <2>1, <2>6
<1> QED  BY <1>2, <1>3, <1>4, <1>5 DEF JoinedFrom

(* A sequence cut at a position, and without what was there.               *)
SplitsAt(queue, pos, front, back, S) ==
    /\ front \in Seq(S) /\ back \in Seq(S)
    /\ queue = front \o (<<queue[pos]>> \o back)
    /\ RemoveAt(queue, pos) = front \o back
    /\ \A i \in DOMAIN front : i \in DOMAIN queue /\ i # pos /\ front[i] = queue[i]
    /\ \A i \in DOMAIN back :
          pos + i \in DOMAIN queue /\ pos + i # pos /\ back[i] = queue[pos + i]

(* RemoveAt makes such a cut.                                              *)
LEMMA RemoveAtSplits ==
    ASSUME NEW S, NEW queue \in Seq(S), NEW pos \in 1 .. Len(queue)
    PROVE  \E front, back : SplitsAt(queue, pos, front, back, S)
<1>1. PICK front, back : front = SubSeq(queue, 1, pos - 1) /\ back = SubSeq(queue, pos + 1, Len(queue))
  OBVIOUS
<1>2. PICK n \in Nat : n = Len(queue)
  OBVIOUS
<1>3. \A i \in 1 .. n : queue[i] \in S
  BY <1>2
<1>4. /\ front \in Seq(S) /\ Len(front) = pos - 1
      /\ \A i \in 1 .. pos - 1 : front[i] = queue[i]
  <2>1. \A i \in 1 .. (pos - 1) : queue[i] \in S
    BY <1>2, <1>3
  <2>2. \A i \in 1 .. (pos - 1) - 1 + 1 : front[i] = queue[1 + i - 1]
    BY <2>1, <1>1, SubSeqProperties
  <2> QED  BY <2>1, <2>2, <1>1, <1>2, SubSeqProperties
<1>5. /\ back \in Seq(S) /\ Len(back) = n - pos
      /\ \A i \in 1 .. n - pos : back[i] = queue[pos + i]
  <2>1. \A i \in (pos + 1) .. n : queue[i] \in S
    BY <1>2, <1>3
  <2>2. /\ back \in Seq(S) /\ Len(back) = IF pos + 1 <= n THEN n - (pos + 1) + 1 ELSE 0
        /\ \A i \in 1 .. n - (pos + 1) + 1 : back[i] = queue[(pos + 1) + i - 1]
    BY <2>1, <1>1, <1>2, SubSeqProperties
  <2>3. Len(back) = n - pos
    BY <2>2, <1>2
  <2>4. ASSUME NEW i \in 1 .. n - pos
        PROVE  back[i] = queue[pos + i]
    <3>1. i \in 1 .. n - (pos + 1) + 1 /\ (pos + 1) + i - 1 = pos + i
      BY <1>2
    <3> QED  BY <3>1, <2>2
  <2> QED  BY <2>2, <2>3, <2>4
<1>6. RemoveAt(queue, pos) = front \o back
  BY <1>1 DEF RemoveAt
<1>7. PICK t : t = front \o (<<queue[pos]>> \o back)
  OBVIOUS
<1>8. /\ t \in Seq(S) /\ Len(t) = ((pos - 1) + (n - pos)) + 1
      /\ \A i \in 1 .. pos - 1 : t[i] = front[i]
      /\ t[(pos - 1) + 1] = queue[pos]
      /\ \A i \in 1 .. n - pos : t[((pos - 1) + i) + 1] = back[i]
  <2>1. PICK e \in S : e = queue[pos]
    BY <1>2, <1>3
  <2>2. t = front \o (<<e>> \o back) /\ front \in Seq(S) /\ back \in Seq(S)
    BY <2>1, <1>4, <1>5, <1>7
  <2>3. /\ t \in Seq(S) /\ Len(t) = (Len(front) + Len(back)) + 1
        /\ \A i \in 1 .. Len(front) : t[i] = front[i]
        /\ t[Len(front) + 1] = e
        /\ \A i \in 1 .. Len(back) : t[(Len(front) + i) + 1] = back[i]
    BY ONLY <2>2, e \in S, MiddleOf
  <2> QED  BY <2>1, <2>3, <1>4, <1>5
<1>9. Len(t) = n
  BY <1>2, <1>8
<1>10. ASSUME NEW i \in 1 .. n
       PROVE  queue[i] = t[i]
  <2>1. CASE i < pos
    <3>1. i \in 1 .. pos - 1
      BY <2>1, <1>2
    <3> QED  BY <3>1, <1>4, <1>8
  <2>2. CASE i = pos
    BY <2>2, <1>2, <1>8
  <2>3. CASE i > pos
    <3>1. PICK m \in 1 .. n - pos : i = pos + m /\ ((pos - 1) + m) + 1 = i
      <4>1. i - pos \in 1 .. n - pos /\ i = pos + (i - pos) /\ ((pos - 1) + (i - pos)) + 1 = i
        BY <2>3, <1>2
      <4> QED  BY <4>1
    <3> QED  BY <3>1, <1>5, <1>8
  <2> QED  BY <2>1, <2>2, <2>3, <1>2
<1>11. queue = t
  BY <1>2, <1>8, <1>9, <1>10
<1>12. \A i \in DOMAIN front : i \in DOMAIN queue /\ i # pos /\ front[i] = queue[i]
  <2>1. DOMAIN front = 1 .. pos - 1 /\ DOMAIN queue = 1 .. n
    BY <1>2, <1>4
  <2> QED  BY <2>1, <1>2, <1>4
<1>13. \A i \in DOMAIN back : pos + i \in DOMAIN queue /\ pos + i # pos /\ back[i] = queue[pos + i]
  <2>1. DOMAIN back = 1 .. n - pos /\ DOMAIN queue = 1 .. n
    BY <1>2, <1>5
  <2>2. \A i \in 1 .. n - pos : pos + i \in 1 .. n /\ pos + i # pos
    BY <1>2
  <2> QED  BY <2>1, <2>2, <1>5
<1>14. SplitsAt(queue, pos, front, back, S)
  BY <1>4, <1>5, <1>6, <1>7, <1>11, <1>12, <1>13 DEF SplitsAt
<1> QED  BY <1>14

-------------------------------------------------------------------------------
(* FlattenSeq.                                                             *)

(* The joins of a sequence of sequences, from the front.                   *)
IsJoin(f, seqs, T) ==
    /\ Len(seqs) \in Nat
    /\ f \in [0 .. Len(seqs) -> Seq(T)]
    /\ f[0] = << >>
    /\ \A n \in 1 .. Len(seqs) : f[n] = f[n - 1] \o seqs[n]

(* There is such a sequence of joins, one longer than the last at a time.  *)
LEMMA JoinsExist ==
    ASSUME NEW T, NEW v \in Seq(Seq(T))
    PROVE  \E f : IsJoin(f, v, T)
<1> DEFINE N == Len(v)
<1>0. N \in Nat /\ v \in [1 .. N -> Seq(T)]
  OBVIOUS
<1> HIDE DEF N
<1> DEFINE Joins(f, n) == /\ f \in [0 .. N -> Seq(T)] /\ f[0] = << >>
                          /\ \A i \in 1 .. N : i <= n => f[i] = f[i - 1] \o v[i]
           M == {n \in Nat : n <= N => \E f : Joins(f, n)}
<1>1. 0 \in M
  <2> DEFINE z == [n \in 0 .. N |-> << >>]
  <2>1. Joins(z, 0)
    <3>1. << >> \in Seq(T) /\ 0 \in 0 .. N
      BY <1>0
    <3>2. z \in [0 .. N -> Seq(T)] /\ z[0] = << >>
      BY <3>1
    <3>3. \A i \in 1 .. N : ~ (i <= 0)
      OBVIOUS
    <3> QED  BY <3>2, <3>3
  <2> HIDE DEF z, Joins
  <2> QED  BY <2>1
<1>2. ASSUME NEW n \in M
      PROVE  n + 1 \in M
  <2>1. n \in Nat /\ n + 1 \in Nat
    OBVIOUS
  <2> SUFFICES ASSUME n + 1 <= N PROVE \E f : Joins(f, n + 1)
    BY <2>1
  <2>2. PICK f : Joins(f, n)
    <3>1. n <= N
      BY <1>0, <2>1
    <3> HIDE DEF Joins
    <3> QED  BY <3>1
  <2> DEFINE g == [i \in 0 .. N |-> IF i = n + 1 THEN f[n] \o v[n + 1] ELSE f[i]]
  <2>3. n + 1 \in 1 .. N /\ n \in 0 .. N
    BY <1>0, <2>1
  <2>4. f[n] \o v[n + 1] \in Seq(T)
    <3>1. f[n] \in Seq(T)
      BY <2>2, <2>3
    <3>2. v[n + 1] \in Seq(T)
      BY ONLY <2>3, <1>0
    <3> QED  BY ONLY <3>1, <3>2, ConcatProperties
  <2>5. g \in [0 .. N -> Seq(T)]
        /\ \A i \in 0 .. N : g[i] = IF i = n + 1 THEN f[n] \o v[n + 1] ELSE f[i]
    <3>1. ASSUME NEW i \in 0 .. N
          PROVE  g[i] \in Seq(T)
      <4>1. f[i] \in Seq(T)
        BY <2>2
      <4> QED  BY <2>4, <4>1
    <3> QED  BY <3>1
  <2> HIDE DEF g
  <2>6. g[0] = << >>
    <3>1. 0 \in 0 .. N /\ 0 # n + 1
      BY <1>0, <2>1
    <3> QED  BY <3>1, <2>2, <2>5
  <2>7. ASSUME NEW i \in 1 .. N, i <= n + 1
        PROVE  g[i] = g[i - 1] \o v[i]
    <3>1. CASE i = n + 1
      <4>1. i - 1 = n /\ i \in 0 .. N /\ n # n + 1
        BY <1>0, <3>1, <2>1, <2>3
      <4>2. g[i] = f[n] \o v[n + 1]
        BY <3>1, <4>1, <2>5
      <4>3. g[i - 1] = f[n]
        BY <4>1, <2>3, <2>5
      <4> QED  BY <3>1, <4>2, <4>3
    <3>2. CASE i # n + 1
      <4>1. i <= n /\ i - 1 \in 0 .. N /\ i - 1 # n + 1 /\ i \in 0 .. N
        BY <1>0, <3>2, <2>1, <2>7
      <4>2. f[i] = f[i - 1] \o v[i]
        BY <4>1, <2>2
      <4> QED  BY <3>2, <4>1, <4>2, <2>5
    <3> QED  BY <3>1, <3>2
  <2>8. Joins(g, n + 1)
    BY <2>5, <2>6, <2>7
  <2> HIDE DEF Joins
  <2> QED  BY <2>8
<1>3. M = Nat
  <2> HIDE DEF Joins
  <2>1. M \subseteq Nat
    OBVIOUS
  <2> HIDE DEF M
  <2> QED  BY <1>1, <1>2, <2>1, SetInduction
<1>4. PICK f : Joins(f, N)
  <2> HIDE DEF Joins
  <2>1. N \in M
    <3> HIDE DEF M
    <3> QED  BY <1>0, <1>3
  <2>2. N <= N
    BY <1>0
  <2> QED  BY <2>1, <2>2
<1>5. \A i \in 1 .. N : i <= N
  BY <1>0
<1>6. f \in [0 .. N -> Seq(T)] /\ f[0] = << >> /\ \A n \in 1 .. N : f[n] = f[n - 1] \o v[n]
  BY <1>4, <1>5
<1> QED  BY <1>0, <1>6 DEF IsJoin, N

(* FlattenSeq is the last of them.                                         *)
LEMMA FlattenJoins ==
    ASSUME NEW T, NEW seqs \in Seq(Seq(T))
    PROVE  \E f : IsJoin(f, seqs, T) /\ FlattenSeq(seqs) = f[Len(seqs)]
<1> DEFINE N == Len(seqs)
           Rule(s) == s = [i \in 1 .. N |-> IF i = 1 THEN seqs[i] ELSE s[i - 1] \o seqs[i]]
           S == CHOOSE s : Rule(s)
<1>1. N \in Nat /\ seqs \in [1 .. N -> Seq(T)]
  OBVIOUS
<1>2. FlattenSeq(seqs) = IF N = 0 THEN seqs ELSE S[N]
  BY DEF FlattenSeq
<1>3. N = 0 => seqs = << >>
  OBVIOUS
<1>0. PICK f : IsJoin(f, seqs, T)
  BY JoinsExist
<1>4. f \in [0 .. N -> Seq(T)] /\ f[0] = << >> /\ \A n \in 1 .. N : f[n] = f[n - 1] \o seqs[n]
  BY <1>0 DEF IsJoin
<1> HIDE DEF N
<1>5. ASSUME N # 0
      PROVE  f[1] = seqs[1]
  <2>1. 1 \in 1 .. N /\ 1 - 1 = 0
    BY <1>1, <1>5
  <2>2. f[1] = << >> \o seqs[1] /\ seqs[1] \in Seq(T)
    BY <2>1, <1>1, <1>4
  <2> QED  BY ONLY <2>2, ConcatEmptySeq
<1> DEFINE h == [i \in 1 .. N |-> f[i]]
<1>6. Rule(h)
  <2>1. \A n \in 1 .. N : f[n] = IF n = 1 THEN seqs[n] ELSE h[n - 1] \o seqs[n]
    <3> TAKE n \in 1 .. N
    <3>1. CASE n = 1
      BY <3>1, <1>1, <1>5
    <3>2. CASE n # 1
      <4>1. n - 1 \in 1 .. N
        BY <3>2, <1>1
      <4>2. h[n - 1] = f[n - 1]
        BY <4>1
      <4> QED  BY <3>2, <4>2, <1>4
    <3> QED  BY <3>1, <3>2
  <2> QED  BY <2>1
<1>7. ASSUME NEW s, Rule(s), N # 0
      PROVE  s[N] = f[N]
  <2> DEFINE M == {n \in Nat : n <= N /\ n # 0 => s[n] = f[n]}
  <2>1. 0 \in M
    OBVIOUS
  <2>2. ASSUME NEW n \in M
        PROVE  n + 1 \in M
    <3> SUFFICES ASSUME n + 1 <= N PROVE s[n + 1] = f[n + 1]
      OBVIOUS
    <3>1. n + 1 \in 1 .. N /\ (n + 1) - 1 = n /\ n <= N /\ n \in Nat
      BY <1>1
    <3>2. s[n + 1] = IF n + 1 = 1 THEN seqs[n + 1] ELSE s[n] \o seqs[n + 1]
      BY <3>1, <1>7
    <3>3. f[n + 1] = f[n] \o seqs[n + 1]
      BY <3>1, <1>4
    <3>4. CASE n = 0
      BY <3>1, <3>2, <3>4, <1>5, <1>7
    <3>5. CASE n # 0
      <4>1. s[n] = f[n] /\ n + 1 # 1
        BY <3>1, <3>5
      <4> QED  BY <3>2, <3>3, <4>1
    <3> QED  BY <3>4, <3>5
  <2>3. M \subseteq Nat
    OBVIOUS
  <2> HIDE DEF M
  <2>4. M = Nat
    BY <2>1, <2>2, <2>3, SetInduction
  <2>5. N \in M
    BY <1>1, <2>4
  <2> QED  BY <2>5, <1>1, <1>7 DEF M
<1>8. FlattenSeq(seqs) = f[N]
  <2>1. CASE N = 0
    BY <2>1, <1>2, <1>3, <1>4
  <2>2. CASE N # 0
    <3> HIDE DEF Rule, h
    <3>1. S[N] = f[N]
      BY <2>2, <1>6, <1>7
    <3> QED  BY <2>2, <3>1, <1>2
  <2> QED  BY <2>1, <2>2
<1> QED  BY <1>0, <1>8 DEF N

(* What makes a sequence of members of Q.                                  *)
LEMMA MakesSeq ==
    ASSUME NEW Q, NEW n \in Nat, NEW q, q = [k \in 1 .. n |-> q[k]], \A k \in 1 .. n : q[k] \in Q
    PROVE  q \in Seq(Q)
  OBVIOUS

(* It is a sequence of members of the sequences.                           *)
LEMMA FlattenType ==
    ASSUME NEW T, NEW seqs \in Seq(Seq(T))
    PROVE  FlattenSeq(seqs) \in Seq(T)
<1>1. PICK f : IsJoin(f, seqs, T) /\ FlattenSeq(seqs) = f[Len(seqs)]
  BY FlattenJoins
<1>2. Len(seqs) \in 0 .. Len(seqs)
  OBVIOUS
<1> QED  BY <1>1, <1>2 DEF IsJoin

(* Each of its members is one of theirs.                                   *)
LEMMA FlattenMembers ==
    ASSUME NEW T, NEW seqs \in Seq(Seq(T)), NEW i \in DOMAIN FlattenSeq(seqs)
    PROVE  \E k \in DOMAIN seqs : \E m \in DOMAIN seqs[k] : FlattenSeq(seqs)[i] = seqs[k][m]
<1> DEFINE V == {t \in T : \E k \in DOMAIN seqs : \E m \in DOMAIN seqs[k] : t = seqs[k][m]}
<1>1. seqs \in Seq(Seq(V))
  <2>1. ASSUME NEW k \in DOMAIN seqs
        PROVE  seqs[k] \in Seq(V)
    <3>1. seqs[k] \in Seq(T)
      OBVIOUS
    <3>2. ASSUME NEW m \in 1 .. Len(seqs[k])
          PROVE  seqs[k][m] \in V
      <4>1. m \in DOMAIN seqs[k] /\ seqs[k][m] \in T
        BY <3>1
      <4> QED  BY <4>1
    <3> HIDE DEF V
    <3>3. seqs[k] = [m \in 1 .. Len(seqs[k]) |-> seqs[k][m]] /\ Len(seqs[k]) \in Nat
      BY <3>1
    <3> QED  BY <3>2, <3>3
  <2> HIDE DEF V
  <2>2. seqs = [k \in 1 .. Len(seqs) |-> seqs[k]] /\ Len(seqs) \in Nat /\ DOMAIN seqs = 1 .. Len(seqs)
    OBVIOUS
  <2>3. seqs \in [1 .. Len(seqs) -> Seq(V)]
    BY ONLY <2>1, <2>2
  <2>4. PICK n \in Nat : n = Len(seqs)
    BY <2>2
  <2>5. PICK Q : Q = Seq(V)
    OBVIOUS
  <2>6. seqs = [k \in 1 .. n |-> seqs[k]] /\ \A k \in 1 .. n : seqs[k] \in Q
    BY ONLY <2>1, <2>2, <2>4, <2>5
  <2>7. seqs \in Seq(Q)
    BY ONLY n \in Nat, <2>6, MakesSeq
  <2> QED  BY ONLY <2>5, <2>7
<1> HIDE DEF V
<1>2. FlattenSeq(seqs) \in Seq(V)
  BY <1>1, FlattenType
<1>3. FlattenSeq(seqs)[i] \in V
  BY <1>2
<1> QED  BY <1>3 DEF V

(* Flattening in two parts.                                                *)
LEMMA FlattenConcat ==
    ASSUME NEW T, NEW s \in Seq(Seq(T)), NEW t \in Seq(Seq(T))
    PROVE  /\ s \o t \in Seq(Seq(T))
           /\ FlattenSeq(s \o t) = FlattenSeq(s) \o FlattenSeq(t)
<1>a. \A a, b, c \in Seq(T) : (a \o b) \o c = a \o (b \o c)
  <2>1. Associates(T)
    BY ONLY JoinAssociates
  <2> QED  BY ONLY <2>1 DEF Associates
<1> DEFINE u == s \o t
           m == Len(s)
           n == Len(t)
<1>1. /\ u \in Seq(Seq(T)) /\ Len(u) = m + n /\ m \in Nat /\ n \in Nat
      /\ \A i \in 1 .. m + n : u[i] = IF i <= m THEN s[i] ELSE t[i - m]
  BY ConcatProperties
<1>2. PICK f : IsJoin(f, s, T) /\ FlattenSeq(s) = f[m]
  BY FlattenJoins
<1>3. PICK g : IsJoin(g, t, T) /\ FlattenSeq(t) = g[n]
  BY FlattenJoins
<1>4. PICK h : IsJoin(h, u, T) /\ FlattenSeq(u) = h[m + n]
  BY <1>1, FlattenJoins
<1>t. \A k \in 1 .. n : t[k] \in Seq(T)
  OBVIOUS
<1> HIDE DEF u, m, n
<1>5. \A k \in Nat : k <= m => h[k] = f[k]
  <2> DEFINE M == {k \in Nat : k <= m => h[k] = f[k]}
  <2>1. 0 \in M
    BY <1>2, <1>4 DEF IsJoin
  <2>2. ASSUME NEW k \in M
        PROVE  k + 1 \in M
    <3> SUFFICES ASSUME k + 1 <= m PROVE h[k + 1] = f[k + 1]
      OBVIOUS
    <3>1. k \in Nat /\ k + 1 \in 1 .. m /\ k + 1 \in 1 .. m + n /\ (k + 1) - 1 = k /\ k <= m
      BY <1>1
    <3>2. h[k + 1] = h[k] \o u[k + 1] /\ u[k + 1] = s[k + 1] /\ f[k + 1] = f[k] \o s[k + 1]
      BY <3>1, <1>1, <1>2, <1>4 DEF IsJoin, m
    <3>3. h[k] = f[k]
      BY <3>1
    <3> QED  BY <3>2, <3>3
  <2>3. M \subseteq Nat
    OBVIOUS
  <2> HIDE DEF M
  <2>4. M = Nat
    BY <2>1, <2>2, <2>3, SetInduction
  <2> QED  BY <2>4 DEF M
<1>6. \A k \in Nat : k <= n => h[m + k] = f[m] \o g[k]
  <2> DEFINE Joined(k) == h[m + k] = f[m] \o g[k]
             M == {k \in Nat : k <= n => Joined(k)}
  <2>0. f[m] \in Seq(T)
    <3>1. m \in 0 .. m
      BY <1>1
    <3> QED  BY <3>1, <1>2 DEF IsJoin, m
  <2>1. 0 \in M
    <3>1. h[m + 0] = f[m]
      BY <1>1, <1>5
    <3>2. g[0] = << >>
      BY <1>3 DEF IsJoin
    <3>3. f[m] = f[m] \o << >>
      BY <2>0, ConcatEmptySeq
    <3> QED  BY <3>1, <3>2, <3>3
  <2>2. ASSUME NEW k \in M
        PROVE  k + 1 \in M
    <3> SUFFICES ASSUME k + 1 <= n PROVE Joined(k + 1)
      <4> HIDE DEF Joined
      <4> QED  OBVIOUS
    <3>1. /\ k \in Nat /\ k + 1 \in 1 .. n /\ m + (k + 1) \in 1 .. m + n /\ ~ (m + (k + 1) <= m)
          /\ (k + 1) - 1 = k /\ k <= n /\ k \in 0 .. n
          /\ (m + (k + 1)) - 1 = m + k /\ (m + (k + 1)) - m = k + 1
      BY <1>1
    <3>2. u[m + (k + 1)] = t[k + 1]
      BY <3>1, <1>1
    <3>3. h[m + (k + 1)] = h[m + k] \o t[k + 1]
      BY <3>1, <3>2, <1>1, <1>4 DEF IsJoin
    <3>4. g[k + 1] = g[k] \o t[k + 1] /\ g[k] \in Seq(T)
      BY <3>1, <1>3 DEF IsJoin, n
    <3>5. h[m + k] = f[m] \o g[k]
      BY <3>1
    <3>6. (f[m] \o g[k]) \o t[k + 1] = f[m] \o (g[k] \o t[k + 1])
      <4>1. t[k + 1] \in Seq(T)
        BY <3>1, <1>t
      <4> QED  BY ONLY <2>0, <3>4, <4>1, <1>a, Zenon
    <3> QED  BY <3>3, <3>4, <3>5, <3>6
  <2>3. M \subseteq Nat
    OBVIOUS
  <2> HIDE DEF M
  <2>4. M = Nat
    BY <2>1, <2>2, <2>3, SetInduction
  <2> QED  BY <2>4 DEF M
<1>7. h[m + n] = f[m] \o g[n]
  <2>1. n \in Nat /\ n <= n
    BY <1>1
  <2> QED  BY ONLY <2>1, <1>6
<1> QED  BY <1>1, <1>2, <1>3, <1>4, <1>7 DEF u

(* Flattening a single sequence.                                           *)
LEMMA FlattenOne ==
    ASSUME NEW T, NEW queue \in Seq(T)
    PROVE  <<queue>> \in Seq(Seq(T)) /\ FlattenSeq(<<queue>>) = queue
<1> DEFINE s == <<queue>>
<1>1. s \in Seq(Seq(T)) /\ Len(s) = 1 /\ s[1] = queue
  OBVIOUS
<1> HIDE DEF s
<1>2. PICK f : IsJoin(f, s, T) /\ FlattenSeq(s) = f[Len(s)]
  BY <1>1, FlattenJoins
<1>3. f[1] = f[0] \o s[1] /\ f[0] = << >>
  <2>1. 1 \in 1 .. 1 /\ 1 - 1 = 0
    OBVIOUS
  <2> QED  BY <2>1, <1>1, <1>2 DEF IsJoin
<1>4. f[1] = queue
  BY <1>1, <1>3, ConcatEmptySeq
<1> QED  BY <1>1, <1>2, <1>4 DEF s
===============================================================================
