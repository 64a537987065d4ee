----------------------------- MODULE DataLemmas ------------------------------
(***************************************************************************)
(* Facts about the data of the models: the least and the greatest of a set *)
(* of numbers, and what removing, appending, taking and joining do to the  *)
(* members of a sequence and to whether it names each of them once.        *)
(***************************************************************************)
EXTENDS Integers, SequencesExt, SequenceTheorems, FiniteSetTheorems, WellFoundedInduction, TLAPS

(* A set of numbers has a least element, a set of indices a greatest.       *)
LEMMA LeastNumber ==
  ASSUME NEW T, T \subseteq Nat, T # {}
  PROVE  \E m \in T : \A k \in T : m <= k
  <1>1. PICK m \in T : \A k \in T : <<k, m>> \notin OpToRel(<, Nat)
    BY WFMin, NatLessThanWellFounded, Zenon
  <1>2. \A k \in T : ~(k < m)
    BY <1>1, Zenon DEF OpToRel
  <1> QED
    BY <1>2

LEMMA GreatestIndex ==
  ASSUME NEW n \in Nat, NEW S, S \subseteq 1..n, S # {}
  PROVE  Max(S) \in S /\ \A i \in S : i <= Max(S)
  <1> DEFINE T == {k \in Nat : n - k \in S}
  <1>1. T # {}
    <2>1. PICK i \in S : TRUE
      OBVIOUS
    <2>2. n - i \in Nat /\ n - (n - i) = i
      OBVIOUS
    <2> QED
      BY <2>1, <2>2
  <1>2. PICK m \in T : \A k \in T : m <= k
    BY <1>1, LeastNumber
  <1>3. n - m \in S
    BY <1>2
  <1>4. \A i \in S : n - m >= i
    <2> SUFFICES ASSUME NEW i \in S PROVE n - m >= i
      OBVIOUS
    <2>1. n - i \in Nat /\ n - (n - i) = i
      OBVIOUS
    <2>2. m <= n - i
      BY <1>2, <2>1
    <2> QED
      BY <1>2, <2>2
  <1>5. Max(S) \in S /\ \A i \in S : Max(S) >= i
    BY <1>3, <1>4, Zenon DEF Max
  <1> QED
    BY <1>5

(* The members of a sequence, by their indices.                             *)
LEMMA SeqMembers ==
  ASSUME NEW S, NEW s \in Seq(S)
  PROVE  /\ Len(s) \in Nat /\ DOMAIN s = 1..Len(s) /\ ToSet(s) \subseteq S
         /\ \A x : x \in ToSet(s) <=> \E i \in 1..Len(s) : s[i] = x
  <1>1. Len(s) \in Nat /\ DOMAIN s = 1..Len(s) /\ \A i \in 1..Len(s) : s[i] \in S
    BY LenProperties, ElementOfSeq
  <1> QED
    BY <1>1 DEF ToSet

(* A sequence that names no member twice has as many members as places.     *)
LEMMA DistinctCount ==
  ASSUME NEW S, NEW s \in Seq(S), IsInjective(s)
  PROVE  IsFiniteSet(ToSet(s)) /\ Cardinality(ToSet(s)) = Len(s)
  <1>1. Len(s) \in Nat /\ DOMAIN s = 1..Len(s)
    BY SeqMembers
  <1>2. s \in Bijection(1..Len(s), ToSet(s))
    <2>1. s \in [1..Len(s) -> ToSet(s)]
      BY <1>1, LenProperties DEF ToSet
    <2> QED
      BY <1>1, <2>1 DEF Bijection, Injection, Surjection, IsInjective, ToSet
  <1>3. IsFiniteSet(1..Len(s)) /\ Cardinality(1..Len(s)) = Len(s)
    BY <1>1, FS_Interval
  <1>4. \E f \in Bijection(1..Len(s), ToSet(s)) : TRUE
    BY <1>2
  <1> QED
    BY <1>3, <1>4, FS_Bijection, Zenon DEF ExistsBijection

(* A sequence has no more members than places.                              *)
LEMMA MembersCount ==
  ASSUME NEW S, NEW s \in Seq(S)
  PROVE  IsFiniteSet(ToSet(s)) /\ Cardinality(ToSet(s)) <= Len(s)
  <1>1. Len(s) \in Nat /\ DOMAIN s = 1..Len(s)
    BY SeqMembers
  <1>2. IsFiniteSet(1..Len(s)) /\ Cardinality(1..Len(s)) = Len(s)
    BY <1>1, FS_Interval
  <1>3. s \in Surjection(1..Len(s), ToSet(s))
    <2>1. s \in [1..Len(s) -> ToSet(s)]
      BY <1>1, LenProperties DEF ToSet
    <2> QED
      BY <1>1, <2>1 DEF Surjection, ToSet
  <1> QED
    BY <1>2, <1>3, FS_Surjection

(* Without the place k, the places behind it move up.                       *)
LEMMA RemovedPlace ==
  ASSUME NEW S, NEW s \in Seq(S), NEW k \in 1..Len(s)
  PROVE  /\ RemoveAt(s, k) \in Seq(S) /\ Len(RemoveAt(s, k)) = Len(s) - 1
         /\ \A i \in 1..Len(s) - 1 : RemoveAt(s, k)[i] = IF i < k THEN s[i] ELSE s[i + 1]
  <1> DEFINE a == SubSeq(s, 1, k - 1)
             b == SubSeq(s, k + 1, Len(s))
  <1>1. Len(s) \in Nat /\ \A i \in 1..Len(s) : s[i] \in S
    BY SeqMembers, ElementOfSeq
  <1>2. a \in Seq(S) /\ Len(a) = k - 1 /\ \A i \in 1..k - 1 : a[i] = s[i]
    BY <1>1, SubSeqProperties
  <1>3. b \in Seq(S) /\ Len(b) = Len(s) - k /\ \A i \in 1..Len(s) - k : b[i] = s[k + i]
    BY <1>1, SubSeqProperties
  <1> HIDE DEF a, b
  <1>4. /\ a \o b \in Seq(S) /\ Len(a \o b) = Len(s) - 1
        /\ \A i \in 1..Len(s) - 1 : (a \o b)[i] = IF i < k THEN s[i] ELSE s[i + 1]
    <2>1. /\ a \o b \in Seq(S) /\ Len(a \o b) = Len(a) + Len(b)
          /\ \A i \in 1..Len(a) + Len(b) : (a \o b)[i] = IF i <= Len(a) THEN a[i] ELSE b[i - Len(a)]
      BY <1>2, <1>3, ConcatProperties
    <2> QED
      BY <1>1, <1>2, <1>3, <2>1
  <1> QED
    BY <1>4 DEF a, b, RemoveAt

(* If a member is named once, removing its place removes it.                *)
LEMMA RemovedDistinct ==
  ASSUME NEW S, NEW s \in Seq(S), IsInjective(s), NEW k \in 1..Len(s)
  PROVE  /\ IsInjective(RemoveAt(s, k))
         /\ ToSet(RemoveAt(s, k)) = ToSet(s) \ {s[k]}
  <1> DEFINE r == RemoveAt(s, k)
  <1>1. /\ Len(s) \in Nat /\ r \in Seq(S) /\ Len(r) = Len(s) - 1
        /\ \A i \in 1..Len(s) - 1 : r[i] = IF i < k THEN s[i] ELSE s[i + 1]
        /\ \A i, j \in 1..Len(s) : s[i] = s[j] => i = j
    BY RemovedPlace, SeqMembers DEF IsInjective
  <1> HIDE DEF r
  <1>2. DOMAIN r = 1..Len(s) - 1
    BY <1>1, SeqMembers
  <1>3. IsInjective(r)
    BY <1>1, <1>2 DEF IsInjective
  <1>4. \A x \in ToSet(r) : x \in ToSet(s) /\ x # s[k]
    BY <1>1, <1>2, SeqMembers DEF ToSet
  <1>5. ASSUME NEW x \in ToSet(s), x # s[k]
        PROVE  x \in ToSet(r)
    <2>1. PICK i \in 1..Len(s) : s[i] = x
      BY SeqMembers
    <2>2. \E j \in 1..Len(s) - 1 : r[j] = x
      <3>1. CASE i < k
        BY <1>1, <2>1, <3>1
      <3>2. CASE i > k
        <4>1. i - 1 \in 1..Len(s) - 1 /\ r[i - 1] = s[(i - 1) + 1]
          BY <1>1, <3>2
        <4> QED
          BY <2>1, <4>1
      <3> QED
        BY <1>5, <2>1, <3>1, <3>2
    <2> QED
      BY <1>2, <2>2 DEF ToSet
  <1>6. ToSet(r) = ToSet(s) \ {s[k]}
    BY <1>4, <1>5
  <1> QED
    BY <1>3, <1>6 DEF r

(* Appending adds a member, named once if it is new.                        *)
LEMMA Appended ==
  ASSUME NEW S, NEW s \in Seq(S), NEW e \in S
  PROVE  /\ Append(s, e) \in Seq(S) /\ Len(Append(s, e)) = Len(s) + 1
         /\ ToSet(Append(s, e)) = ToSet(s) \cup {e}
         /\ IsInjective(s) /\ e \notin ToSet(s) => IsInjective(Append(s, e))
  <1>1. /\ Append(s, e) \in Seq(S) /\ Len(Append(s, e)) = Len(s) + 1
        /\ \A i \in 1..Len(s) : Append(s, e)[i] = s[i]
        /\ Append(s, e)[Len(s) + 1] = e
    BY AppendProperties
  <1>2. /\ Len(s) \in Nat /\ DOMAIN s = 1..Len(s) /\ DOMAIN Append(s, e) = 1..Len(s) + 1
    BY <1>1, SeqMembers
  <1>3. \A x : x \in ToSet(Append(s, e)) <=> x \in ToSet(s) \/ x = e
    <2>1. \A i \in 1..Len(s) + 1 : i \in 1..Len(s) \/ i = Len(s) + 1
      BY <1>2
    <2>2. 1..Len(s) \subseteq 1..Len(s) + 1 /\ Len(s) + 1 \in 1..Len(s) + 1
      BY <1>2
    <2> QED
      BY <1>1, <1>2, <2>1, <2>2, Zenon DEF ToSet
  <1>4. IsInjective(s) /\ e \notin ToSet(s) => IsInjective(Append(s, e))
    BY <1>1, <1>2 DEF IsInjective, ToSet
  <1> QED
    BY <1>1, <1>3, <1>4

(* Taking the first of a queue removes it.                                  *)
LEMMA Taken ==
  ASSUME NEW S, NEW s \in Seq(S), s # <<>>
  PROVE  /\ Head(s) \in S /\ Head(s) \in ToSet(s)
         /\ Tail(s) \in Seq(S) /\ Len(Tail(s)) = Len(s) - 1 /\ Len(s) > 0
         /\ ToSet(Tail(s)) \subseteq ToSet(s)
         /\ IsInjective(s) => IsInjective(Tail(s)) /\ ToSet(Tail(s)) = ToSet(s) \ {Head(s)}
  <1>1. /\ Head(s) \in S /\ Tail(s) \in Seq(S) /\ Len(Tail(s)) = Len(s) - 1
        /\ \A i \in 1..Len(Tail(s)) : Tail(s)[i] = s[i + 1]
    BY HeadTailProperties
  <1>2. Len(s) \in Nat /\ Len(s) > 0 /\ DOMAIN s = 1..Len(s)
    BY SeqMembers, EmptySeq
  <1>3. DOMAIN Tail(s) = 1..Len(s) - 1
    BY <1>1, SeqMembers
  <1>4. Head(s) = s[1]
    OBVIOUS
  <1>5. Head(s) \in ToSet(s)
    BY <1>2, <1>4 DEF ToSet
  <1>6. \A x \in ToSet(Tail(s)) : x \in ToSet(s)
    BY <1>1, <1>2, <1>3 DEF ToSet
  <1>7. ASSUME IsInjective(s)
        PROVE  IsInjective(Tail(s)) /\ ToSet(Tail(s)) = ToSet(s) \ {Head(s)}
    <2>1. IsInjective(Tail(s))
      BY <1>1, <1>2, <1>3, <1>7 DEF IsInjective
    <2>2. \A x \in ToSet(Tail(s)) : x # Head(s)
      BY <1>1, <1>2, <1>3, <1>4, <1>7 DEF IsInjective, ToSet
    <2>3. ASSUME NEW x \in ToSet(s), x # Head(s)
          PROVE  x \in ToSet(Tail(s))
      <3>1. PICK i \in 1..Len(s) : s[i] = x
        BY <1>2 DEF ToSet
      <3>2. i - 1 \in 1..Len(s) - 1 /\ Tail(s)[i - 1] = s[(i - 1) + 1]
        BY <1>1, <1>2, <1>4, <2>3, <3>1
      <3>3. Tail(s)[i - 1] = x
        BY <3>1, <3>2
      <3> QED
        BY <1>3, <3>2, <3>3 DEF ToSet
    <2> QED
      BY <1>6, <2>1, <2>2, <2>3
  <1> QED
    BY <1>1, <1>2, <1>5, <1>6, <1>7

(* Joining two sequences joins their members, named once if they are apart. *)
LEMMA Joined ==
  ASSUME NEW S, NEW s \in Seq(S), NEW t \in Seq(S)
  PROVE  /\ s \o t \in Seq(S) /\ Len(s \o t) = Len(s) + Len(t)
         /\ ToSet(s \o t) = ToSet(s) \cup ToSet(t)
         /\ IsInjective(s) /\ IsInjective(t) /\ ToSet(s) \cap ToSet(t) = {} => IsInjective(s \o t)
  <1>1. /\ s \o t \in Seq(S) /\ Len(s \o t) = Len(s) + Len(t)
        /\ \A i \in 1..Len(s) + Len(t) : (s \o t)[i] = IF i <= Len(s) THEN s[i] ELSE t[i - Len(s)]
    BY ConcatProperties
  <1>2. /\ Len(s) \in Nat /\ DOMAIN s = 1..Len(s) /\ Len(t) \in Nat /\ DOMAIN t = 1..Len(t)
        /\ DOMAIN (s \o t) = 1..Len(s) + Len(t)
    BY <1>1, SeqMembers
  <1>3. \A i \in 1..Len(s) : i \in 1..Len(s) + Len(t) /\ (s \o t)[i] = s[i]
    BY <1>1, <1>2
  <1>4. \A i \in 1..Len(t) : Len(s) + i \in 1..Len(s) + Len(t) /\ (s \o t)[Len(s) + i] = t[i]
    BY <1>1, <1>2
  <1>5. ASSUME NEW i \in 1..Len(s) + Len(t)
        PROVE  \/ i \in 1..Len(s) /\ (s \o t)[i] = s[i]
               \/ i - Len(s) \in 1..Len(t) /\ (s \o t)[i] = t[i - Len(s)]
    BY <1>1, <1>2
  <1>6. \A x : x \in ToSet(s \o t) <=> x \in ToSet(s) \/ x \in ToSet(t)
    <2>1. \A x \in ToSet(s) : x \in ToSet(s \o t)
      BY <1>2, <1>3, Zenon DEF ToSet
    <2>2. \A x \in ToSet(t) : x \in ToSet(s \o t)
      BY <1>2, <1>4, Zenon DEF ToSet
    <2>3. \A x \in ToSet(s \o t) : x \in ToSet(s) \/ x \in ToSet(t)
      BY <1>2, <1>5, Zenon DEF ToSet
    <2> QED
      BY <2>1, <2>2, <2>3
  <1>7. ASSUME IsInjective(s), IsInjective(t), ToSet(s) \cap ToSet(t) = {}
        PROVE  IsInjective(s \o t)
    <2>1. \A i \in 1..Len(s), j \in 1..Len(t) : s[i] # t[j]
      BY <1>2, <1>7 DEF ToSet
    <2>2. \A i, j \in 1..Len(s) + Len(t) : (s \o t)[i] = (s \o t)[j] => i = j
      BY <1>1, <1>2, <1>7, <2>1 DEF IsInjective
    <2> QED
      BY <1>2, <2>2 DEF IsInjective
  <1> QED
    BY <1>1, <1>6, <1>7
=============================================================================
