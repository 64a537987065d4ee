------------------------ MODULE MonitorService_proofs ------------------------
(***************************************************************************)
(* Proofs about MonitorService, for every set of pids, every number of     *)
(* lifetimes and every event size.                                         *)
(***************************************************************************)
EXTENDS MonitorService, DataLemmas

(* Sums over finite sets: they are what their recursion says, and they grow *)
(* with their terms.  What is shown for every size is shown by its least    *)
(* counterexample.                                                          *)

(* The element a sum takes next, and the sums it has on the way.            *)
Pick(s) == CHOOSE x \in s : TRUE

IsSums(f, S, g) == g = [s \in SUBSET S |-> IF s = {} THEN 0 ELSE f[Pick(s)] + g[s \ {Pick(s)}]]

Sums(f, S) == CHOOSE g : IsSums(f, S, g)

LEMMA SumOfIs == ASSUME NEW f PROVE SumOf(f) = Sums(f, DOMAIN f)[DOMAIN f]
  BY Zenon DEF SumOf, MapThenSumSet, MapThenFoldSet, Sums, IsSums, Pick

LEMMA PickSmaller ==
  ASSUME NEW S, IsFiniteSet(S), NEW s \in SUBSET S, s # {}
  PROVE  /\ Pick(s) \in s /\ Pick(s) \in S /\ s \ {Pick(s)} \in SUBSET S
         /\ Cardinality(s) \in Nat /\ Cardinality(s) # 0
         /\ Cardinality(s \ {Pick(s)}) = Cardinality(s) - 1
  <1>1. Pick(s) \in s
    BY DEF Pick
  <1>2. IsFiniteSet(s)
    BY FS_Subset
  <1>3. Cardinality(s) \in Nat
    BY <1>2, FS_CardinalityType
  <1>4. Cardinality(s \ {Pick(s)}) = Cardinality(s) - 1
    BY <1>1, <1>2, FS_RemoveElement
  <1>5. Cardinality(s) # 0
    BY <1>2, FS_EmptySet
  <1> QED
    BY <1>1, <1>3, <1>4, <1>5

(* Sums up to a size exist, whatever the size.                              *)
LEMMA SumsExist ==
  ASSUME NEW S, IsFiniteSet(S), NEW f \in [S -> Int]
  PROVE  \E g \in [SUBSET S -> Int] : IsSums(f, S, g)
  <1> DEFINE Step(g, s) == IF s = {} THEN 0 ELSE f[Pick(s)] + g[s \ {Pick(s)}]
             UpTo(g, n) == \A s \in SUBSET S : Cardinality(s) <= n => g[s] = Step(g, s)
             Missing == {n \in Nat : ~ \E g \in [SUBSET S -> Int] : UpTo(g, n)}
  <1>1. \A s \in SUBSET S : IsFiniteSet(s) /\ Cardinality(s) \in Nat
    BY FS_Subset, FS_CardinalityType
  <1>2. 0 \notin Missing
    <2> DEFINE z == [s \in SUBSET S |-> 0]
    <2>1. z \in [SUBSET S -> Int]
      OBVIOUS
    <2>2. UpTo(z, 0)
      <3>1. \A s \in SUBSET S : Cardinality(s) <= 0 => s = {}
        BY <1>1, FS_EmptySet
      <3> QED
        BY <3>1
    <2> HIDE DEF z, UpTo
    <2> QED
      BY <2>1, <2>2
  <1>3. ASSUME NEW n \in Nat, n \notin Missing PROVE n + 1 \notin Missing
    <2>1. PICK g \in [SUBSET S -> Int] : UpTo(g, n)
      BY <1>3
    <2> DEFINE h == [s \in SUBSET S |-> IF Cardinality(s) <= n THEN g[s] ELSE Step(g, s)]
    <2>2. \A s \in SUBSET S : Step(g, s) \in Int
      <3> SUFFICES ASSUME NEW s \in SUBSET S, s # {} PROVE f[Pick(s)] + g[s \ {Pick(s)}] \in Int
        OBVIOUS
      <3>1. f[Pick(s)] \in Int /\ g[s \ {Pick(s)}] \in Int
        BY PickSmaller
      <3> QED
        BY <3>1
    <2>3. h \in [SUBSET S -> Int]
      BY <2>2
    <2>4. ASSUME NEW s \in SUBSET S, Cardinality(s) <= n + 1 PROVE h[s] = Step(h, s)
      <3>1. CASE s = {}
        <4>1. Cardinality(s) <= n
          BY <3>1, FS_EmptySet
        <4> QED
          BY <2>1, <3>1, <4>1
      <3>2. CASE s # {}
        <4> DEFINE r == s \ {Pick(s)}
        <4>1. r \in SUBSET S /\ Cardinality(r) <= n
          BY <2>4, <3>2, PickSmaller
        <4>2. h[r] = g[r]
          BY <4>1
        <4>3. Step(h, s) = Step(g, s)
          BY <3>2, <4>2
        <4>4. h[s] = Step(g, s)
          BY <2>1
        <4> QED
          BY <4>3, <4>4
      <3> QED
        BY <3>1, <3>2
    <2>5. UpTo(h, n + 1)
      BY <2>4
    <2> HIDE DEF h, UpTo
    <2> QED
      BY <2>3, <2>5
  <1>4. Missing = {}
    <2> SUFFICES ASSUME Missing # {} PROVE FALSE
      OBVIOUS
    <2>1. Missing \subseteq Nat
      OBVIOUS
    <2> HIDE DEF Missing
    <2>2. PICK m \in Missing : \A k \in Missing : m <= k
      BY <2>1, LeastNumber
    <2>3. m # 0 /\ m \in Nat
      BY <1>2, <2>1
    <2>4. m - 1 \in Nat /\ m - 1 \notin Missing /\ (m - 1) + 1 = m
      BY <2>1, <2>2, <2>3
    <2> QED
      BY <1>3, <2>4
  <1>5. PICK g \in [SUBSET S -> Int] : UpTo(g, Cardinality(S))
    BY <1>1, <1>4
  <1>6. \A s \in SUBSET S : Cardinality(s) <= Cardinality(S)
    BY FS_Subset
  <1>7. \A s \in SUBSET S : g[s] = Step(g, s)
    BY <1>5, <1>6
  <1> QED
    BY <1>7 DEF IsSums

LEMMA SumsIs ==
  ASSUME NEW S, IsFiniteSet(S), NEW f \in [S -> Int]
  PROVE  /\ Sums(f, S)[{}] = 0
         /\ \A s \in SUBSET S : s # {} => Sums(f, S)[s] = f[Pick(s)] + Sums(f, S)[s \ {Pick(s)}]
  <1>1. IsSums(f, S, Sums(f, S))
    BY SumsExist, Zenon DEF Sums
  <1> QED
    BY <1>1 DEF IsSums

(* A sum in which one term grew has grown by as much.                       *)
LEMMA SumGrows ==
  ASSUME NEW S, IsFiniteSet(S), NEW f \in [S -> Int], NEW g \in [S -> Int],
         NEW e \in S, NEW d \in Int, g[e] = f[e] + d,
         \A x \in S \ {e} : g[x] = f[x]
  PROVE  SumOf(g) = SumOf(f) + d /\ SumOf(f) \in Int
  <1> DEFINE F == Sums(f, S)
             G == Sums(g, S)
             Right(s) == F[s] \in Int /\ G[s] = F[s] + IF e \in s THEN d ELSE 0
             Wrong == {n \in Nat : \E s \in SUBSET S : Cardinality(s) = n /\ ~Right(s)}
  <1>1. /\ F[{}] = 0 /\ G[{}] = 0
        /\ \A s \in SUBSET S : s # {} => /\ F[s] = f[Pick(s)] + F[s \ {Pick(s)}]
                                         /\ G[s] = g[Pick(s)] + G[s \ {Pick(s)}]
    BY SumsIs
  <1>2. \A s \in SUBSET S : Cardinality(s) \in Nat
    BY FS_Subset, FS_CardinalityType
  <1> HIDE DEF F, G
  <1>3. Wrong = {}
    <2> SUFFICES ASSUME Wrong # {} PROVE FALSE
      OBVIOUS
    <2>1. PICK n \in Wrong : \A k \in Wrong : n <= k
      <3>1. Wrong \subseteq Nat
        OBVIOUS
      <3> HIDE DEF Wrong
      <3> QED
        BY <3>1, LeastNumber
    <2>2. PICK s \in SUBSET S : Cardinality(s) = n /\ ~Right(s)
      OBVIOUS
    <2>3. s # {}
      <3>1. Right({})
        BY <1>1
      <3> HIDE DEF Right
      <3> QED
        BY <2>2, <3>1
    <2> DEFINE x == Pick(s)
               r == s \ {x}
    <2>4. x \in s /\ x \in S /\ r \in SUBSET S /\ Cardinality(r) \in Nat /\ Cardinality(r) < n
      BY <1>2, <2>2, <2>3, PickSmaller
    <2>5. Right(r)
      <3> HIDE DEF Right
      <3> QED
        BY <2>1, <2>4
    <2>6. F[s] = f[x] + F[r] /\ G[s] = g[x] + G[r]
      BY <1>1, <2>3
    <2>7. f[x] \in Int /\ g[x] \in Int
      BY <2>4
    <2> HIDE DEF x
    <2>8. CASE x = e
      BY <2>4, <2>5, <2>6, <2>7, <2>8, <2>2
    <2>9. CASE x # e
      <3>1. g[x] = f[x] /\ (e \in s <=> e \in r)
        BY <2>4, <2>9
      <3> QED
        BY <2>2, <2>5, <2>6, <2>7, <3>1
    <2> QED
      BY <2>8, <2>9
  <1>4. Right(S)
    <2>1. S \in SUBSET S /\ Cardinality(S) \in Nat
      BY <1>2
    <2> HIDE DEF Right
    <2> QED
      BY <1>3, <2>1
  <1>5. SumOf(f) = F[S] /\ SumOf(g) = G[S]
    BY SumOfIs DEF F, G
  <1> QED
    BY <1>4, <1>5

LEMMA SumZero ==
  ASSUME NEW S, IsFiniteSet(S)
  PROVE  SumOf([x \in S |-> 0]) = 0
  <1> DEFINE f == [x \in S |-> 0]
             F == Sums(f, S)
             Wrong == {n \in Nat : \E s \in SUBSET S : Cardinality(s) = n /\ F[s] # 0}
  <1>1. f \in [S -> Int] /\ \A x \in S : f[x] = 0
    OBVIOUS
  <1> HIDE DEF f
  <1>2. F[{}] = 0 /\ \A s \in SUBSET S : s # {} => F[s] = f[Pick(s)] + F[s \ {Pick(s)}]
    BY <1>1, SumsIs
  <1>3. \A s \in SUBSET S : Cardinality(s) \in Nat
    BY FS_Subset, FS_CardinalityType
  <1> HIDE DEF F
  <1>4. Wrong = {}
    <2> SUFFICES ASSUME Wrong # {} PROVE FALSE
      OBVIOUS
    <2>1. PICK n \in Wrong : \A k \in Wrong : n <= k
      <3>1. Wrong \subseteq Nat
        OBVIOUS
      <3> HIDE DEF Wrong
      <3> QED
        BY <3>1, LeastNumber
    <2>2. PICK s \in SUBSET S : Cardinality(s) = n /\ F[s] # 0
      OBVIOUS
    <2>3. s # {}
      BY <1>2, <2>2
    <2> DEFINE r == s \ {Pick(s)}
    <2>4. Pick(s) \in S /\ r \in SUBSET S /\ Cardinality(r) \in Nat /\ Cardinality(r) < n
      BY <1>3, <2>2, <2>3, PickSmaller
    <2>5. F[r] = 0
      BY <2>1, <2>4
    <2> QED
      BY <1>1, <1>2, <2>2, <2>3, <2>4, <2>5
  <1>5. F[S] = 0
    BY <1>3, <1>4
  <1>6. SumOf(f) = F[S]
    BY <1>1, SumOfIs DEF F
  <1> QED
    BY <1>5, <1>6 DEF f

-----------------------------------------------------------------------------
USE OsAssumption, MarkerAssumption, TrackerAssumption, ServiceAssumption

(* Parts of an identity.                                                    *)
LEMMA IdParts == \A i \in Ids : i[1] \in Pids /\ i[2] \in Lives
  BY DEF Ids

LEMMA IdEqual == \A i, j \in Ids : i[1] = j[1] /\ i[2] = j[2] => i = j
  BY DEF Ids

LEMMA InitTypeOK == Init => TypeOK
  BY DEF Init, OsInit, AggInit, CollectorInit, TrackerInit, TypeOK, NoRows, Counters, Lives

(* The numbers kept for one identity and its pid.                           *)
LEMMA TypesAt ==
  ASSUME TypeOK, NEW i \in Ids
  PROVE  /\ i[1] \in Pids /\ i[2] \in Lives /\ i[2] \in Nat
         /\ base[i] \in Int /\ prev[i] \in Nat /\ high[i] \in Nat
         /\ rows[i] \in Counters /\ retired[i] \in Counters
         /\ totals[i[1]] \in Nat /\ discarded[i[1]] \in Nat /\ buffered[i[1]] \in Nat
         /\ snap[i[1]] \in Nat /\ removed[i[1]] \in Nat /\ Charges(i[1]) \in Nat
  <1>1. i[1] \in Pids /\ i[2] \in Lives
    BY IdParts
  <1>2. i[2] \in Nat
    BY <1>1 DEF Lives
  <1>3. /\ base[i] \in Int /\ prev[i] \in Nat /\ high[i] \in Nat
        /\ rows[i] \in Counters /\ retired[i] \in Counters
    BY Zenon DEF TypeOK
  <1>4. /\ totals[i[1]] \in Nat /\ discarded[i[1]] \in Nat /\ buffered[i[1]] \in Nat
        /\ snap[i[1]] \in Nat /\ removed[i[1]] \in Nat
    BY <1>1, Zenon DEF TypeOK
  <1>5. Charges(i[1]) \in Nat
    BY <1>1 DEF TypeOK, Charges, Lives
  <1> QED
    BY <1>1, <1>2, <1>3, <1>4, <1>5

LEMMA NextTypeOK == TypeOK /\ [Next]_vars => TypeOK'
  <1> SUFFICES ASSUME TypeOK, [Next]_vars PROVE TypeOK'
    OBVIOUS
  <1> USE DEF accountVars, trackerVars, aggVars, osVars, collectorVars, stateVars
  <1>1. ASSUME NEW p \in Pids, Spawn(p), UNCHANGED <<aggVars, collectorVars, accountVars>>
        PROVE  TypeOK'
    BY <1>1 DEF Spawn, TypeOK, Counters
  <1>2. ASSUME NEW p \in Pids, Exit(p), UNCHANGED <<aggVars, collectorVars, accountVars>>
        PROVE  TypeOK'
    BY <1>2 DEF Exit, TypeOK, Counters
  <1>3. ASSUME NEW p \in Pids, NEW k \in Sizes, Emit(p, k),
               UNCHANGED <<aggVars, collectorVars, accountVars>>
        PROVE  TypeOK'
    BY <1>3 DEF Emit, TypeOK, Counters, AddFrom
  <1>4. ASSUME NEW p \in Pids, NEW k \in Sizes, LoseEvent(p, k),
               UNCHANGED <<aggVars, collectorVars, accountVars>>
        PROVE  TypeOK'
    BY <1>4 DEF LoseEvent, TypeOK, Counters
  <1>5. ASSUME NEW p \in Pids, NEW k \in Sizes, Record(p, k),
               UNCHANGED <<collectorVars, accountVars>>
        PROVE  TypeOK'
    BY <1>5 DEF Record, Payload, TypeOK, Counters
  <1>6. CASE Refresh /\ UNCHANGED <<osVars, aggVars, accountVars>>
    BY <1>6 DEF Refresh, TypeOK, Counters, CacheAfter, Lives
  <1>7. CASE TakeSnapshot /\ UNCHANGED <<osVars, aggVars, accountVars>>
    BY <1>7 DEF TakeSnapshot, TypeOK, Counters, ListedIds
  <1>8. CASE Return /\ UNCHANGED <<osVars, aggVars, accountVars>>
    BY <1>8 DEF Return, TypeOK, Counters
  <1>9. ASSUME NEW i \in Ids, RowUnverified(i), UNCHANGED <<osVars, aggVars, accountVars>>
        PROVE  TypeOK'
    BY <1>9 DEF RowUnverified, TypeOK, Counters
  <1>10. ASSUME NEW i \in Ids, RowFirst(i), UNCHANGED <<osVars, aggVars, accountVars>>
         PROVE  TypeOK'
    BY <1>10, IdParts DEF RowFirst, FirstBaseline, TypeOK, Counters
  <1>11. ASSUME NEW i \in Ids, RowUpdate(i), UNCHANGED <<osVars, aggVars, accountVars>>
         PROVE  TypeOK'
    BY <1>11, IdParts DEF RowUpdate, Baseline, AtLeast, TypeOK, Counters
  <1>12. ASSUME NEW i \in Ids, RetireConfirmed(i), UNCHANGED <<osVars, aggVars, accountVars>>
         PROVE  TypeOK'
    BY <1>12 DEF RetireConfirmed, Retire, TypeOK, Counters
  <1>13. ASSUME NEW i \in Ids, RetireWithTail(i), UNCHANGED <<osVars, aggVars, accountVars>>
         PROVE  TypeOK'
    BY <1>13, IdParts DEF RetireWithTail, Retire, AtLeast, TypeOK, Counters
  <1>14. CASE Cut /\ UNCHANGED <<osVars, accountVars>>
    BY <1>14 DEF Cut, RetainPids, RemovedBy, Kept, GoneIds, ListedIds, TypeOK, Counters
  <1>15. CASE Publish
    BY <1>15 DEF Publish, TypeOK, Counters
  <1>16. ASSUME NEW i \in Ids, ChargeRow(i) PROVE TypeOK'
    BY <1>16, IdParts DEF ChargeRow, ChargeSample, Observe, AccountKeys, Gain, AddFrom, TypeOK, Counters
  <1>17. ASSUME NEW i \in Ids, ChargeRetired(i) PROVE TypeOK'
    BY <1>17, IdParts DEF ChargeRetired, ChargeSample, Observe, AccountKeys, Gain, AddFrom, TypeOK, Counters
  <1>18. CASE UNCHANGED vars
    BY <1>18 DEF vars, TypeOK, Counters
  <1> QED
    BY <1>1, <1>2, <1>3, <1>4, <1>5, <1>6, <1>7, <1>8, <1>9, <1>10, <1>11, <1>12,
       <1>13, <1>14, <1>15, <1>16, <1>17, <1>18
    DEF Next, Os, EtwConsumer, Service, Collect, CollectStep, RetirementCut

(* Every variable keeps the range it is declared with.                      *)
THEOREM TypeCorrect == Spec => []TypeOK
  BY InitTypeOK, NextTypeOK, PTL DEF Spec

(* A step of Windows or of the ETW consumer leaves every sample as good as  *)
(* it was: its pid may only have received, and its processes sent, more.    *)
LEMMA SamplesFrame ==
  ASSUME IInv, TypeOK', UNCHANGED <<collectorVars, accountVars, discarded>>,
         \A p \in Pids : totals[p] <= totals'[p],
         \A p \in Pids, n \in Lives : emitted[p][n] <= emitted'[p][n]
  PROVE  /\ ChargesWereReceived' /\ SnapshotInv' /\ RemovedInv'
         /\ SamplesInv' /\ OneIdentityInv' /\ NeverOvercharged'
  <1> USE DEF collectorVars, stateVars, accountVars, trackerVars
  <1>1. ChargesWereReceived'
    <2> SUFFICES ASSUME NEW p \in Pids
                 PROVE  /\ Charges(p) <= Received(p)'
                        /\ \A n \in Lives : charged[p][n] <= Charges(p)
      BY DEF ChargesWereReceived, Charges, Received
    <2>1. Charges(p) \in Nat /\ totals[p] \in Nat /\ totals'[p] \in Nat /\ discarded[p] \in Nat
      BY DEF IInv, TypeOK, Charges, Lives
    <2> QED
      BY <2>1 DEF IInv, ChargesWereReceived, Received
  <1>2. SnapshotInv'
    BY DEF IInv, TypeOK, SnapshotInv, Charges
  <1>3. RemovedInv'
    BY DEF IInv, RemovedInv, ActivePids
  <1>4. ASSUME NEW i \in tracked PROVE TrackedAt(i)'
    <2>1. i \in Ids /\ TrackedAt(i) /\ totals[i[1]] <= totals'[i[1]]
          /\ i[1] \in Pids /\ totals[i[1]] \in Nat /\ totals'[i[1]] \in Nat
      BY IdParts DEF IInv, TypeOK, SamplesInv
    <2> QED
      BY <2>1 DEF IInv, TypeOK, TrackedAt, Bucket, ActivePids, Mark, Charges, Gain, Counters
  <1>5. ASSUME NEW i \in Ids PROVE RowAt(i)'
    <2>1. RowAt(i) /\ \A n \in Lives : emitted[i[1]][n] <= emitted'[i[1]][n]
                       /\ emitted[i[1]][n] \in Nat /\ emitted'[i[1]][n] \in Nat
      BY IdParts DEF IInv, TypeOK, SamplesInv
    <2>2. Mark(i) \in Int /\ Mark(i)' = Mark(i)
      BY IdParts DEF IInv, TypeOK, Mark
    <2> QED
      BY <2>1, <2>2 DEF RowAt, Lives
  <1>6. ASSUME NEW i \in Ids PROVE RetiredAt(i)'
    <2>1. RetiredAt(i) /\ \A n \in Lives : emitted[i[1]][n] <= emitted'[i[1]][n]
                       /\ emitted[i[1]][n] \in Nat /\ emitted'[i[1]][n] \in Nat
      BY IdParts DEF IInv, TypeOK, SamplesInv
    <2>2. /\ Charges(i[1]) \in Nat /\ Charges(i[1])' = Charges(i[1]) /\ high[i] \in Nat
          /\ Received(i[1]) <= Received(i[1])' /\ Received(i[1]) \in Nat /\ Received(i[1])' \in Nat
          /\ retired[i] # None => retired[i] \in Nat
      <3>1. i[1] \in Pids /\ MaxLife \in Lives
        BY IdParts DEF Lives
      <3> QED
        BY <3>1 DEF IInv, TypeOK, Charges, Received, Counters
    <2> QED
      BY <2>1, <2>2 DEF RetiredAt, Lives, ActivePids
  <1>7. SamplesInv'
    BY <1>4, <1>5, <1>6 DEF IInv, SamplesInv, NoRows
  <1>8. OneIdentityInv'
    BY DEF IInv, OneIdentityInv, OneLifetimePerPid, Leaving, GoneIds, ListedIds
  <1>9. NeverOvercharged'
    BY DEF IInv, TypeOK, NeverOvercharged
  <1> QED
    BY <1>1, <1>2, <1>3, <1>7, <1>8, <1>9

LEMMA OsIInv == IInv /\ Os => IInv'
  <1> SUFFICES ASSUME IInv, Os PROVE IInv'
    OBVIOUS
  <1>0. TypeOK'
    BY NextTypeOK DEF IInv, Next
  <1>00. UNCHANGED <<aggVars, collectorVars, accountVars>>
    BY DEF Os
  <1> USE <1>00 DEF aggVars
  <1>1. ASSUME NEW p \in Pids, Spawn(p) PROVE IInv'
    <2>1. ASSUME NEW q \in Pids, NEW n \in Lives, n >= life'[q]
          PROVE  Received(q)' + buffered'[q] <= emitted'[q][n]
      <3>1. life[q] \in Nat /\ n >= life[q]
        BY <1>1, <2>1 DEF Spawn, IInv, TypeOK, Lives
      <3> QED
        BY <1>1, <3>1 DEF Spawn, IInv, ReceivedWasSent, Received
    <2>2. \A q \in Pids : alive'[q] => life'[q] # 0
      <3>1. life \in [Pids -> Nat] /\ alive \in [Pids -> BOOLEAN]
        BY DEF IInv, TypeOK
      <3> QED
        BY <1>1, <3>1 DEF Spawn, IInv, ReceivedWasSent
    <2> QED
      BY <1>0, <1>1, <2>1, <2>2, SamplesFrame DEF Spawn, IInv, TypeOK, ReceivedWasSent
  <1>2. ASSUME NEW p \in Pids, Exit(p) PROVE IInv'
    <2>1. ReceivedWasSent'
      BY <1>2 DEF Exit, IInv, ReceivedWasSent, Received
    <2> QED
      BY <1>0, <1>2, <2>1, SamplesFrame DEF Exit, IInv, TypeOK
  <1>3. ASSUME NEW p \in Pids, NEW k \in Sizes, Emit(p, k) PROVE IInv'
    <2>1. life[p] \in Lives /\ k \in Nat
      <3>1. life[p] # 0
        BY <1>3 DEF Emit, IInv, ReceivedWasSent, Lives
      <3> QED
        BY <3>1 DEF IInv, TypeOK, Lives
    <2>2. \A q \in Pids, n \in Lives :
            emitted'[q][n] = IF q = p /\ n >= life[p] THEN emitted[q][n] + k ELSE emitted[q][n]
      <3>1. emitted \in [Pids -> [Lives -> Nat]] /\ emitted' = AddFrom(emitted, p, life[p], k)
        BY <1>3 DEF Emit, IInv, TypeOK
      <3> QED
        BY <2>1, <3>1 DEF AddFrom
    <2>3. ASSUME NEW q \in Pids, NEW n \in Lives, n >= life'[q]
          PROVE  Received(q)' + buffered'[q] <= emitted'[q][n]
      <3>1. Received(q) + buffered[q] <= emitted[q][n]
        BY <1>3, <2>3 DEF Emit, IInv, ReceivedWasSent
      <3> QED
        BY <1>3, <2>1, <2>2, <2>3, <3>1 DEF Emit, IInv, TypeOK, Received
    <2>4. \A q \in Pids, n \in Lives : emitted[q][n] <= emitted'[q][n]
      BY <2>1, <2>2 DEF IInv, TypeOK
    <2>5. UNCHANGED <<life, alive, totals>> /\ totals \in [Pids -> Nat]
      BY <1>3 DEF Emit, IInv, TypeOK
    <2> QED
      BY <1>0, <2>3, <2>4, <2>5, SamplesFrame DEF IInv, ReceivedWasSent
  <1>4. ASSUME NEW p \in Pids, NEW k \in Sizes, LoseEvent(p, k) PROVE IInv'
    <2>1. ASSUME NEW q \in Pids, NEW n \in Lives, n >= life'[q]
          PROVE  Received(q)' + buffered'[q] <= emitted'[q][n]
      <3>1. Received(q) + buffered[q] <= emitted[q][n]
        BY <1>4, <2>1 DEF LoseEvent, IInv, ReceivedWasSent
      <3> QED
        BY <1>4, <3>1 DEF LoseEvent, IInv, TypeOK, Received
    <2> QED
      BY <1>0, <1>4, <2>1, SamplesFrame DEF LoseEvent, IInv, TypeOK, ReceivedWasSent
  <1> QED
    BY <1>1, <1>2, <1>3, <1>4 DEF Os

LEMMA ConsumerIInv == IInv /\ EtwConsumer => IInv'
  <1> SUFFICES ASSUME IInv, NEW p \in Pids, NEW k \in Sizes, Record(p, k),
                      UNCHANGED <<collectorVars, accountVars>>
               PROVE  IInv'
    BY DEF EtwConsumer
  <1>0. TypeOK'
    BY NextTypeOK DEF IInv, Next, EtwConsumer
  <1>1. ASSUME NEW q \in Pids, NEW n \in Lives, n >= life'[q]
        PROVE  Received(q)' + buffered'[q] <= emitted'[q][n]
    <2>1. Received(q) + buffered[q] <= emitted[q][n]
      BY <1>1 DEF Record, IInv, ReceivedWasSent
    <2>2. k \in Nat /\ Received(q)' + buffered'[q] = Received(q) + buffered[q]
      BY DEF Record, Payload, IInv, TypeOK, Received
    <2> QED
      BY <2>1, <2>2 DEF Record
  <1>2. \A q \in Pids : totals[q] <= totals'[q]
    BY DEF Record, Payload, IInv, TypeOK
  <1> QED
    BY <1>0, <1>1, <1>2, SamplesFrame DEF Record, IInv, TypeOK, ReceivedWasSent

LEMMA ListedIsActive ==
  ASSUME TypeOK, NEW i \in Ids, procs[i[1]] = i[2]
  PROVE  i[1] \in ActivePids
  <1>1. i[1] \in Pids /\ i[2] \in Nat
    BY IdParts DEF Lives
  <1> QED
    BY <1>1, MarkerAssumption DEF ActivePids

LEMMA RefreshIInv == IInv /\ Refresh /\ UNCHANGED <<osVars, aggVars, accountVars>> => IInv'
  <1> SUFFICES ASSUME IInv, Refresh, UNCHANGED <<osVars, aggVars, accountVars>> PROVE IInv'
    OBVIOUS
  <1>0. TypeOK'
    BY NextTypeOK DEF IInv, Next, Service, Collect, CollectStep
  <1> USE DEF Refresh, osVars, aggVars, accountVars, trackerVars, stateVars
  <1>1. ReceivedWasSent' /\ ChargesWereReceived' /\ SnapshotInv' /\ NeverOvercharged'
    BY DEF IInv, ReceivedWasSent, ChargesWereReceived, Charges, Received, SnapshotInv, NeverOvercharged
  <1>2. RemovedInv'
    BY DEF IInv, RemovedInv
  <1>3. SamplesInv'
    BY DEF IInv, SamplesInv, TrackedAt, RowAt, RetiredAt, NoRows, Bucket, Charges, Gain, Mark
  <1>4. OneIdentityInv'
    BY DEF IInv, SamplesInv, OneIdentityInv, OneLifetimePerPid, Leaving, NoRows
  <1> QED
    BY <1>0, <1>1, <1>2, <1>3, <1>4 DEF IInv

LEMMA TakeSnapshotIInv ==
  IInv /\ TakeSnapshot /\ UNCHANGED <<osVars, aggVars, accountVars>> => IInv'
  <1> SUFFICES ASSUME IInv, TakeSnapshot, UNCHANGED <<osVars, aggVars, accountVars>> PROVE IInv'
    OBVIOUS
  <1>0. TypeOK'
    BY NextTypeOK DEF IInv, Next, Service, Collect, CollectStep
  <1> USE DEF TakeSnapshot, osVars, aggVars, accountVars, trackerVars, stateVars
  <1>1. ReceivedWasSent' /\ ChargesWereReceived' /\ NeverOvercharged'
    BY DEF IInv, ReceivedWasSent, ChargesWereReceived, Charges, Received, NeverOvercharged
  <1>2. SnapshotInv'
    BY DEF IInv, TypeOK, ChargesWereReceived, Charges, Received, SnapshotInv
  <1>3. RemovedInv'
    BY DEF IInv, RemovedInv
  <1>4. ASSUME NEW i \in tracked PROVE TrackedAt(i)'
    BY IdParts DEF IInv, SamplesInv, TrackedAt, Bucket, Charges, Gain, Mark
  <1>5. SamplesInv'
    BY <1>4 DEF IInv, SamplesInv, RowAt, RetiredAt, NoRows
  <1>6. OneIdentityInv'
    BY DEF IInv, SamplesInv, OneIdentityInv, OneLifetimePerPid, Leaving, ListedIds, NoRows
  <1> QED
    BY <1>0, <1>1, <1>2, <1>3, <1>5, <1>6 DEF IInv

LEMMA ReturnIInv == IInv /\ Return /\ UNCHANGED <<osVars, aggVars, accountVars>> => IInv'
  <1> SUFFICES ASSUME IInv, Return, UNCHANGED <<osVars, aggVars, accountVars>> PROVE IInv'
    OBVIOUS
  <1>0. TypeOK'
    BY NextTypeOK DEF IInv, Next, Service, Collect, CollectStep
  <1> USE DEF Return, osVars, aggVars, accountVars, trackerVars, stateVars
  <1>1. ReceivedWasSent' /\ ChargesWereReceived' /\ SnapshotInv' /\ NeverOvercharged'
    BY DEF IInv, ReceivedWasSent, ChargesWereReceived, Charges, Received, SnapshotInv, NeverOvercharged
  <1>2. RemovedInv'
    BY DEF IInv, RemovedInv
  <1>3. tracked \subseteq ListedIds
    BY DEF IInv, OneIdentityInv, GoneIds
  <1>4. ASSUME NEW i \in tracked
        PROVE  i \in Ids /\ i[1] \in ActivePids /\ removed[i[1]] = 0 /\ removed'[i[1]] = 0
    <2>1. i \in Ids /\ i[1] \in Pids /\ i[1] \in ActivePids
      BY <1>3, IdParts, ListedIsActive DEF ListedIds, IInv
    <2> QED
      BY <2>1 DEF IInv, RemovedInv
  <1>5. ASSUME NEW i \in tracked PROVE TrackedAt(i)'
    BY <1>4 DEF IInv, SamplesInv, TrackedAt, Bucket, Charges, Gain, Mark
  <1>6. ASSUME NEW i \in Ids PROVE RowAt(i)' /\ RetiredAt(i)'
    BY <1>4 DEF IInv, SamplesInv, RowAt, RetiredAt, Charges, Received, Mark, ActivePids
  <1>7. SamplesInv'
    BY <1>5, <1>6 DEF IInv, SamplesInv
  <1>8. OneIdentityInv'
    <2>1. ASSUME NEW i \in tracked, NEW j \in tracked, i[1] = j[1] PROVE i = j
      BY <1>3, <2>1, IdEqual DEF ListedIds, IInv, TypeOK
    <2> QED
      BY <1>3, <2>1 DEF IInv, OneIdentityInv, OneLifetimePerPid, Leaving, ListedIds
  <1> QED
    BY <1>0, <1>1, <1>2, <1>7, <1>8 DEF IInv

LEMMA RowUnverifiedIInv ==
  ASSUME IInv, NEW i \in Ids, RowUnverified(i), UNCHANGED <<osVars, aggVars, accountVars>>
  PROVE  IInv'
  <1>0. TypeOK'
    BY NextTypeOK DEF IInv, Next, Service, Collect, CollectStep
  <1> USE DEF RowUnverified, osVars, aggVars, accountVars, trackerVars, stateVars
  <1>1. ReceivedWasSent' /\ ChargesWereReceived' /\ SnapshotInv' /\ NeverOvercharged'
    BY DEF IInv, ReceivedWasSent, ChargesWereReceived, Charges, Received, SnapshotInv, NeverOvercharged
  <1>2. RemovedInv'
    BY DEF IInv, RemovedInv, ActivePids
  <1>3. SamplesInv'
    BY DEF IInv, SamplesInv, TrackedAt, RowAt, RetiredAt, Bucket, ActivePids, Charges, Received, Gain, Mark
  <1>4. OneIdentityInv'
    BY DEF IInv, OneIdentityInv, OneLifetimePerPid, Leaving, ListedIds
  <1> QED
    BY <1>0, <1>1, <1>2, <1>3, <1>4 DEF IInv

(* A sample taken now, of a process found running after the counters were   *)
(* read, measures bytes that it and its predecessors had sent.              *)
LEMMA SnapshotWasSent ==
  ASSUME IInv, pc = "validate", NEW i \in Ids, IdentityIsCurrent(i), NEW n \in Lives, n >= i[2]
  PROVE  discarded[i[1]] + snap[i[1]] <= emitted[i[1]][n]
  <1>1. i[1] \in Pids /\ i[2] \in Lives
    BY IdParts
  <1>2. Received(i[1]) + buffered[i[1]] <= emitted[i[1]][n]
    BY <1>1 DEF IInv, ReceivedWasSent, IdentityIsCurrent, IsRunning
  <1>3. snap[i[1]] <= totals[i[1]]
    BY <1>1 DEF IInv, SnapshotInv
  <1> QED
    BY <1>1, <1>2, <1>3 DEF IInv, TypeOK, Received

LEMMA RowFirstIInv ==
  ASSUME IInv, NEW i \in Ids, RowFirst(i), UNCHANGED <<osVars, aggVars, accountVars>>
  PROVE  IInv'
  <1>0. TypeOK'
    BY NextTypeOK DEF IInv, Next, Service, Collect, CollectStep
  <1> USE DEF osVars, aggVars, accountVars, trackerVars
  <1>1. ReceivedWasSent' /\ ChargesWereReceived' /\ SnapshotInv' /\ NeverOvercharged'
    BY DEF RowFirst, IInv, ReceivedWasSent, ChargesWereReceived, Charges, Received, SnapshotInv,
           NeverOvercharged
  <1>2. RemovedInv'
    BY DEF RowFirst, IInv, RemovedInv, ActivePids
  <1>3. /\ pc = "validate" /\ pc' = "validate" /\ retired = NoRows /\ IdentityIsCurrent(i)
        /\ procs[i[1]] = i[2] /\ i \notin tracked
    BY DEF RowFirst, IInv, SamplesInv, OneIdentityInv, ListedIds
  <1>4. i[1] \in Pids /\ i[2] \in Lives
    BY IdParts
  <1>5. /\ base'[i] = snap[i[1]] /\ prev'[i] = 0 /\ rows'[i] = 0
        /\ \A j \in Ids \ {i} : base'[j] = base[j] /\ prev'[j] = prev[j] /\ rows'[j] = rows[j]
    BY DEF RowFirst, FirstBaseline, IInv, TypeOK
  <1>6. removed[i[1]] = 0
    BY <1>3, <1>4 DEF IInv, RemovedInv
  <1>7. TrackedAt(i)'
    <2>1. /\ snap[i[1]] \in Nat /\ snap[i[1]] <= totals[i[1]]
          /\ Charges(i[1]) <= discarded[i[1]] + snap[i[1]] /\ discarded[i[1]] \in Nat
          /\ Charges(i[1]) \in Nat /\ high[i] \in Nat
      BY <1>3, <1>4 DEF IInv, TypeOK, SnapshotInv, Charges, Lives
    <2>2. Gain(i, prev[i])' = 0
      BY <1>5, <2>1 DEF Gain, RowFirst
    <2> QED
      BY <1>3, <1>4, <1>5, <1>6, <2>1, <2>2, MarkerAssumption
      DEF TrackedAt, Bucket, Charges, Mark, RowFirst
  <1>8. ASSUME NEW j \in tracked PROVE TrackedAt(j)'
    <2>1. j \in Ids \ {i} /\ TrackedAt(j)
      BY <1>3 DEF IInv, SamplesInv, TypeOK
    <2> QED
      BY <1>5, <2>1 DEF RowFirst, TrackedAt, Bucket, ActivePids, Charges, Gain, Mark
  <1>9. RowAt(i)'
    BY <1>3, <1>4, <1>5, <1>6, SnapshotWasSent DEF RowAt, Mark, RowFirst, IInv, TypeOK
  <1>10. ASSUME NEW j \in Ids \ {i} PROVE RowAt(j)'
    BY <1>5 DEF RowFirst, IInv, SamplesInv, RowAt, Mark
  <1>11. SamplesInv'
    BY <1>3, <1>7, <1>8, <1>9, <1>10 DEF RowFirst, SamplesInv, RetiredAt, NoRows
  <1>12. OneIdentityInv'
    BY <1>3 DEF RowFirst, IInv, OneIdentityInv, OneLifetimePerPid, Leaving, ListedIds
  <1> QED
    BY <1>0, <1>1, <1>2, <1>11, <1>12 DEF IInv

LEMMA RowUpdateIInv ==
  ASSUME IInv, NEW i \in Ids, RowUpdate(i), UNCHANGED <<osVars, aggVars, accountVars>>
  PROVE  IInv'
  <1>0. TypeOK'
    BY NextTypeOK DEF IInv, Next, Service, Collect, CollectStep
  <1> USE DEF osVars, aggVars, accountVars, trackerVars
  <1>1. ReceivedWasSent' /\ ChargesWereReceived' /\ SnapshotInv' /\ NeverOvercharged'
    BY DEF RowUpdate, IInv, ReceivedWasSent, ChargesWereReceived, Charges, Received, SnapshotInv,
           NeverOvercharged
  <1>2. RemovedInv'
    BY DEF RowUpdate, IInv, RemovedInv, ActivePids
  <1>3. /\ pc = "validate" /\ pc' = "validate" /\ retired = NoRows /\ IdentityIsCurrent(i)
        /\ procs[i[1]] = i[2] /\ i \in tracked /\ TrackedAt(i)
    BY DEF RowUpdate, IInv, SamplesInv, OneIdentityInv, ListedIds
  <1>4. /\ i[1] \in Pids /\ i[2] \in Lives /\ snap[i[1]] \in Nat /\ prev[i] \in Nat /\ base[i] \in Nat
        /\ discarded[i[1]] \in Nat /\ high[i] \in Nat /\ Charges(i[1]) \in Nat
        /\ snap[i[1]] <= totals[i[1]] /\ totals[i[1]] \in Nat
    BY <1>3, TypesAt DEF IInv, TrackedAt, SnapshotInv
  <1>5. /\ base'[i] = Baseline(i) /\ prev'[i] = AtLeast(0, snap[i[1]] - Baseline(i))
        /\ rows'[i] = prev'[i]
        /\ \A j \in Ids \ {i} : base'[j] = base[j] /\ prev'[j] = prev[j] /\ rows'[j] = rows[j]
    BY DEF RowUpdate, IInv, TypeOK
  (* The clamp does nothing and the sample ends where the snapshot does.    *)
  <1>6. /\ base'[i] \in Nat /\ prev'[i] \in Nat
        /\ prev'[i] >= prev[i] /\ base'[i] >= base[i] /\ base'[i] + prev'[i] = snap[i[1]]
    BY <1>3, <1>4, <1>5 DEF TrackedAt, Baseline, AtLeast
  <1>7. removed[i[1]] = 0 /\ removed' = removed
    BY <1>3, <1>4 DEF IInv, RemovedInv, RowUpdate
  <1>8. TrackedAt(i)'
    <2>1. Charges(i[1]) + Gain(i, prev'[i]) <= discarded[i[1]] + base'[i] + prev'[i]
      BY <1>3, <1>4, <1>6, <1>7 DEF TrackedAt, Gain, Mark
    <2>2. prev'[i] \in Nat /\ rows'[i] # None
      BY <1>5, <1>6, MarkerAssumption
    <2> QED
      BY <1>3, <1>4, <1>6, <1>7, <2>1, <2>2 DEF TrackedAt, Bucket, Charges, Gain, Mark, RowUpdate
  <1>9. ASSUME NEW j \in tracked, j # i PROVE TrackedAt(j)'
    <2>1. j \in Ids \ {i} /\ TrackedAt(j)
      BY <1>9 DEF IInv, SamplesInv, TypeOK
    <2> QED
      BY <1>5, <2>1 DEF RowUpdate, TrackedAt, Bucket, ActivePids, Charges, Gain, Mark
  <1>10. RowAt(i)'
    BY <1>3, <1>4, <1>5, <1>6, <1>7, SnapshotWasSent DEF RowAt, Mark, RowUpdate, IInv, TypeOK
  <1>11. ASSUME NEW j \in Ids \ {i} PROVE RowAt(j)'
    BY <1>5 DEF RowUpdate, IInv, SamplesInv, RowAt, Mark
  <1>12. SamplesInv'
    BY <1>3, <1>8, <1>9, <1>10, <1>11 DEF RowUpdate, SamplesInv, RetiredAt, NoRows
  <1>13. OneIdentityInv'
    BY <1>3 DEF RowUpdate, IInv, OneIdentityInv, OneLifetimePerPid, Leaving, ListedIds
  <1> QED
    BY <1>0, <1>1, <1>2, <1>12, <1>13 DEF IInv

LEMMA CutIInv == IInv /\ Cut /\ UNCHANGED <<osVars, accountVars>> => IInv'
  <1> SUFFICES ASSUME IInv, Cut, UNCHANGED <<osVars, accountVars>> PROVE IInv'
    OBVIOUS
  <1>0. TypeOK'
    BY NextTypeOK DEF IInv, Next, Service, RetirementCut
  <1> USE DEF osVars, accountVars, trackerVars, stateVars
  <1>1. /\ pc = "validate" /\ pc' = "retire" /\ todo' = GoneIds /\ retired = NoRows
        /\ UNCHANGED <<procs, snap, tracked, base, prev, unsure, rows, retired>>
    BY DEF Cut, IInv, SamplesInv
  <1>2. ASSUME NEW p \in Pids
        PROVE  /\ Received(p)' = Received(p)
               /\ discarded'[p] - removed'[p] = discarded[p] - removed[p]
               /\ p \in ActivePids => removed'[p] = 0 /\ totals'[p] = totals[p]
                                        /\ discarded'[p] = discarded[p]
               /\ p \notin ActivePids => removed'[p] = totals[p]
    BY <1>1 DEF Cut, RetainPids, RemovedBy, Kept, IInv, TypeOK, RemovedInv, Received
  <1>3. ReceivedWasSent' /\ ChargesWereReceived' /\ SnapshotInv' /\ NeverOvercharged'
    BY <1>1, <1>2 DEF IInv, ReceivedWasSent, ChargesWereReceived, Charges, SnapshotInv, NeverOvercharged
  <1>4. RemovedInv'
    BY <1>1, <1>2 DEF RemovedInv, ActivePids
  <1>5. ASSUME NEW i \in tracked PROVE TrackedAt(i)'
    <2>1. i \in Ids /\ i[1] \in Pids /\ TrackedAt(i)
      BY IdParts DEF IInv, SamplesInv, TypeOK
    <2>2. Mark(i)' = Mark(i)
      BY <1>1, <1>2, <2>1 DEF Mark
    <2>3. Bucket(i[1])' = Bucket(i[1])
      BY <1>1, <1>2, <2>1 DEF Bucket, ActivePids
    <2> QED
      BY <1>1, <2>1, <2>2, <2>3 DEF TrackedAt, Charges, Gain
  <1>6. ASSUME NEW i \in Ids PROVE RowAt(i)'
    <2>1. i[1] \in Pids /\ RowAt(i)
      BY IdParts DEF IInv, SamplesInv
    <2>2. Mark(i)' = Mark(i)
      BY <1>1, <1>2, <2>1 DEF Mark
    <2> QED
      BY <1>1, <2>1, <2>2 DEF RowAt
  <1>7. SamplesInv'
    BY <1>1, <1>5, <1>6 DEF SamplesInv, RetiredAt, NoRows
  <1>8. OneIdentityInv'
    BY <1>1 DEF IInv, OneIdentityInv, OneLifetimePerPid, Leaving, GoneIds, ListedIds
  <1> QED
    BY <1>0, <1>3, <1>4, <1>7, <1>8 DEF IInv

(* Retiring an identity keeps the invariant when the sample it leaves, if   *)
(* it is worth anything, ends within what its pid received and had sent.    *)
LEMMA RetireIInv ==
  ASSUME IInv, TypeOK', NEW i \in Ids, NEW bytes \in Nat, Retire(i, bytes),
         UNCHANGED <<osVars, aggVars, accountVars>>,
         bytes > high[i] =>
            /\ i[1] \notin ActivePids
            /\ Charges(i[1]) + bytes - high[i] <= Received(i[1])
            /\ \A n \in Lives : n >= i[2] =>
                  Charges(i[1]) + bytes - high[i] <= emitted[i[1]][n]
  PROVE  IInv'
  <1> USE DEF osVars, aggVars, accountVars, trackerVars
  <1>1. ReceivedWasSent' /\ ChargesWereReceived' /\ SnapshotInv' /\ NeverOvercharged'
    BY DEF Retire, IInv, ReceivedWasSent, ChargesWereReceived, Charges, Received, SnapshotInv,
           NeverOvercharged
  <1>2. RemovedInv'
    BY DEF Retire, IInv, RemovedInv, ActivePids
  <1>3. /\ pc = "retire" /\ pc' = "retire" /\ i \in tracked /\ procs[i[1]] # i[2] /\ rows[i] = None
        /\ todo = GoneIds
    BY DEF Retire, IInv, SamplesInv, RowAt, OneIdentityInv, GoneIds, ListedIds
  <1>4. /\ retired'[i] = bytes /\ tracked' = tracked \ {i}
        /\ \A j \in Ids \ {i} : base'[j] = base[j] /\ prev'[j] = prev[j] /\ retired'[j] = retired[j]
    BY DEF Retire, IInv, TypeOK
  <1>5. ASSUME NEW j \in tracked' PROVE TrackedAt(j)'
    <2>1. j \in Ids \ {i} /\ TrackedAt(j)
      BY <1>4, <1>5 DEF IInv, SamplesInv, TypeOK
    <2> QED
      BY <1>4, <2>1 DEF Retire, TrackedAt, Bucket, ActivePids, Charges, Gain, Mark
  <1>6. ASSUME NEW j \in Ids PROVE RowAt(j)'
    <2>1. CASE j = i
      BY <1>3, <2>1 DEF Retire, RowAt
    <2>2. CASE j # i
      BY <1>4, <2>2 DEF Retire, IInv, SamplesInv, RowAt, Mark
    <2> QED
      BY <2>1, <2>2
  <1>7. ASSUME NEW j \in Ids PROVE RetiredAt(j)'
    <2>1. CASE j = i
      BY <1>3, <1>4, <2>1 DEF Retire, RetiredAt, Charges, Received, ActivePids
    <2>2. CASE j # i
      BY <1>4, <2>2 DEF Retire, IInv, SamplesInv, RetiredAt, Charges, Received, ActivePids
    <2> QED
      BY <2>1, <2>2
  <1>8. SamplesInv'
    BY <1>3, <1>5, <1>6, <1>7 DEF SamplesInv
  <1>9. OneIdentityInv'
    <2>1. ASSUME NEW j \in Ids, Leaving(j)' PROVE Leaving(j)
      <3>1. CASE j = i
        BY <1>3, <3>1 DEF Leaving
      <3>2. CASE j # i
        BY <1>4, <2>1, <3>2 DEF Retire, Leaving
      <3> QED
        BY <3>1, <3>2
    <2>2. todo' = GoneIds'
      BY <1>3, <1>4 DEF Retire, GoneIds, ListedIds
    <2> QED
      BY <1>3, <2>1, <2>2 DEF IInv, OneIdentityInv, OneLifetimePerPid
  <1> QED
    BY <1>1, <1>2, <1>8, <1>9 DEF IInv

LEMMA RetireConfirmedIInv ==
  ASSUME IInv, NEW i \in Ids, RetireConfirmed(i), UNCHANGED <<osVars, aggVars, accountVars>>
  PROVE  IInv'
  <1>0. TypeOK'
    BY NextTypeOK DEF IInv, Next, Service, Collect, CollectStep
  <1>1. i \in tracked /\ rows[i] = None /\ TrackedAt(i)
    BY DEF RetireConfirmed, Retire, IInv, SamplesInv, RowAt, OneIdentityInv, GoneIds, ListedIds
  <1>2. prev[i] <= high[i] /\ prev[i] \in Nat /\ high[i] \in Nat
    BY <1>1 DEF TrackedAt, IInv, TypeOK
  <1> QED
    BY <1>0, <1>2, RetireIInv DEF RetireConfirmed

LEMMA RetireWithTailIInv ==
  ASSUME IInv, NEW i \in Ids, RetireWithTail(i), UNCHANGED <<osVars, aggVars, accountVars>>
  PROVE  IInv'
  <1>0. TypeOK'
    BY NextTypeOK DEF IInv, Next, Service, Collect, CollectStep
  <1> DEFINE tail == AtLeast(prev[i], AtLeast(0, removed[i[1]] - base[i]))
  <1>1. /\ pc = "retire" /\ i \in tracked /\ rows[i] = None /\ TrackedAt(i)
        /\ i[1] \notin ActivePids /\ IdentityIsCurrent(i) /\ Retire(i, tail)
    BY DEF RetireWithTail, Retire, IInv, SamplesInv, RowAt, OneIdentityInv, GoneIds, ListedIds
  <1>2. /\ i[1] \in Pids /\ i[2] \in Lives /\ prev[i] \in Nat /\ base[i] \in Nat /\ high[i] \in Nat
        /\ removed[i[1]] \in Nat /\ discarded[i[1]] \in Nat /\ totals[i[1]] \in Nat
        /\ buffered[i[1]] \in Nat /\ Charges(i[1]) \in Nat
    BY <1>1, TypesAt DEF IInv, TrackedAt
  <1>3. tail = removed[i[1]] - base[i] /\ tail \in Nat /\ tail >= prev[i]
    BY <1>1, <1>2 DEF TrackedAt, Bucket, AtLeast
  <1>4. tail > high[i] => Charges(i[1]) + tail - high[i] <= discarded[i[1]]
    BY <1>1, <1>2, <1>3 DEF TrackedAt, Gain, Mark
  <1>5. ASSUME NEW n \in Lives, n >= i[2] PROVE discarded[i[1]] <= emitted[i[1]][n]
    <2>1. Received(i[1]) + buffered[i[1]] <= emitted[i[1]][n] /\ emitted[i[1]][n] \in Nat
      BY <1>1, <1>2, <1>5 DEF IInv, TypeOK, ReceivedWasSent, IdentityIsCurrent, IsRunning
    <2> QED
      BY <1>2, <2>1 DEF Received
  <1>6. discarded[i[1]] <= Received(i[1]) /\ Received(i[1]) \in Nat
    BY <1>2 DEF Received
  <1>7. tail > high[i] =>
            /\ Charges(i[1]) + tail - high[i] <= Received(i[1])
            /\ \A n \in Lives : n >= i[2] =>
                  Charges(i[1]) + tail - high[i] <= emitted[i[1]][n]
    BY <1>2, <1>3, <1>4, <1>5, <1>6 DEF IInv, TypeOK
  <1> HIDE DEF tail
  <1> QED
    BY <1>0, <1>1, <1>3, <1>7, RetireIInv

LEMMA PublishIInv == IInv /\ Publish => IInv'
  <1> SUFFICES ASSUME IInv, Publish PROVE IInv'
    OBVIOUS
  <1>0. TypeOK'
    BY NextTypeOK DEF IInv, Next, Service
  <1> USE DEF Publish, osVars, aggVars, accountVars, trackerVars, stateVars
  <1>1. ReceivedWasSent' /\ ChargesWereReceived' /\ SnapshotInv' /\ NeverOvercharged'
    BY DEF IInv, ReceivedWasSent, ChargesWereReceived, Charges, Received, SnapshotInv, NeverOvercharged
  <1>2. RemovedInv'
    BY DEF IInv, RemovedInv, ActivePids
  <1>3. SamplesInv'
    BY DEF IInv, SamplesInv, TrackedAt, RowAt, RetiredAt, NoRows, Bucket, Charges, Gain, Mark
  <1>4. OneIdentityInv'
    BY DEF IInv, OneIdentityInv, OneLifetimePerPid, Leaving
  <1> QED
    BY <1>0, <1>1, <1>2, <1>3, <1>4 DEF IInv

(* Charging g to lifetime i[2] and above: who is charged what afterwards,   *)
(* and that nobody is overcharged when g fits in what was received and sent.*)
LEMMA ChargeEffect ==
  ASSUME IInv, pc = "update", NEW i \in Ids, NEW bytes \in Nat, Observe(i, bytes),
         charged' = AddFrom(charged, i[1], i[2], Gain(i, bytes)),
         UNCHANGED <<osVars, aggVars, cached, procs, pc, snap, removed, todo, stateVars>>,
         Gain(i, bytes) > 0 =>
            /\ Charges(i[1]) + Gain(i, bytes) <= Received(i[1])
            /\ \A n \in Lives : n >= i[2] =>
                  Charges(i[1]) + Gain(i, bytes) <= emitted[i[1]][n]
  PROVE  /\ ReceivedWasSent' /\ ChargesWereReceived' /\ SnapshotInv'
         /\ RemovedInv' /\ NeverOvercharged'
         /\ Charges(i[1])' = Charges(i[1]) + Gain(i, bytes)
         /\ \A p \in Pids : p # i[1] => Charges(p)' = Charges(p)
         /\ high'[i] = high[i] + Gain(i, bytes)
         /\ \A j \in Ids : j # i => high'[j] = high[j]
  <1> DEFINE g == Gain(i, bytes)
  <1>0. high \in [Ids -> Nat] /\ charged \in [Pids -> [Lives -> Nat]]
    BY DEF IInv, TypeOK
  <1>1. /\ i[1] \in Pids /\ i[2] \in Lives /\ g \in Nat /\ MaxLife \in Lives /\ i[2] <= MaxLife
        /\ high \in [Ids -> Nat] /\ charged \in [Pids -> [Lives -> Nat]]
    <2>1. high[i] \in Nat
      BY <1>0
    <2> QED
      BY <1>0, <2>1, IdParts DEF Gain, Lives
  <1>2. high' = [high EXCEPT ![i] = @ + g]
    BY DEF Observe
  <1>3. \A p \in Pids, n \in Lives :
          charged'[p][n] = IF p = i[1] /\ n >= i[2] THEN charged[p][n] + g ELSE charged[p][n]
    BY <1>1 DEF AddFrom
  <1> HIDE DEF g
  <1>4. /\ Charges(i[1])' = Charges(i[1]) + g
        /\ \A p \in Pids : p # i[1] => Charges(p)' = Charges(p)
    BY <1>1, <1>3 DEF Charges
  <1>5. ASSUME NEW p \in Pids PROVE Charges(p)' <= Received(p)
    <2>1. /\ Charges(p) \in Nat /\ Received(p) \in Nat /\ Charges(p) <= Received(p)
          /\ p = i[1] /\ g > 0 => Charges(p) + g <= Received(p)
      BY <1>1 DEF IInv, TypeOK, Charges, Received, ChargesWereReceived, g
    <2> QED
      BY <1>1, <1>4, <2>1
  <1>6. ASSUME NEW p \in Pids, NEW n \in Lives
        PROVE  charged'[p][n] <= Charges(p)' /\ charged'[p][n] <= emitted[p][n]
    <2>1. /\ Charges(p) \in Nat /\ charged[p][n] \in Nat /\ emitted[p][n] \in Nat
          /\ charged[p][n] <= Charges(p) /\ charged[p][n] <= emitted[p][n]
      BY <1>1 DEF IInv, TypeOK, Charges, ChargesWereReceived, NeverOvercharged
    <2>2. p = i[1] /\ n >= i[2] /\ g > 0 => Charges(p) + g <= emitted[p][n]
      BY DEF g
    <2> QED
      BY <1>1, <1>3, <1>4, <2>1, <2>2
  <1>7. ReceivedWasSent' /\ RemovedInv'
    BY DEF IInv, ReceivedWasSent, RemovedInv, Received, ActivePids, osVars, aggVars
  <1>8. SnapshotInv' /\ ChargesWereReceived' /\ NeverOvercharged'
    BY <1>5, <1>6 DEF SnapshotInv, ChargesWereReceived, NeverOvercharged, Received, osVars, aggVars
  <1> QED
    BY <1>1, <1>2, <1>4, <1>7, <1>8 DEF g

LEMMA ChargeRowIInv ==
  ASSUME IInv, NEW i \in Ids, ChargeRow(i) PROVE IInv'
  <1>0. TypeOK'
    BY NextTypeOK DEF IInv, Next, Service
  <1>1. /\ pc = "update" /\ pc' = "update" /\ rows[i] # None /\ i \in tracked /\ procs[i[1]] = i[2]
        /\ rows[i] = prev[i] /\ TrackedAt(i) /\ RowAt(i) /\ retired' = retired
        /\ UNCHANGED <<procs, tracked, todo, base, prev, removed, discarded, totals, emitted>>
    BY DEF ChargeRow, ChargeSample, IInv, SamplesInv, RowAt, osVars, aggVars, stateVars
  <1>2. /\ i[1] \in Pids /\ i[2] \in Lives /\ i[1] \in ActivePids /\ removed[i[1]] = 0
        /\ prev[i] \in Nat /\ base[i] \in Nat /\ high[i] \in Nat
        /\ discarded[i[1]] \in Nat /\ totals[i[1]] \in Nat /\ Charges(i[1]) \in Nat
        /\ Gain(i, prev[i]) \in Nat
    <2>1. i[1] \in Pids /\ i[2] \in Lives /\ i[1] \in ActivePids
      BY <1>1, IdParts, ListedIsActive DEF IInv
    <2>2. /\ prev[i] \in Nat /\ base[i] \in Nat /\ high[i] \in Nat
          /\ discarded[i[1]] \in Nat /\ totals[i[1]] \in Nat /\ Charges(i[1]) \in Nat
      BY <1>1, TypesAt DEF IInv, TrackedAt
    <2>3. removed[i[1]] = 0
      BY <2>1 DEF IInv, RemovedInv
    <2> QED
      BY <2>1, <2>2, <2>3 DEF Gain
  <1>3. /\ Charges(i[1]) + Gain(i, prev[i]) <= Mark(i)
        /\ Mark(i) = discarded[i[1]] + base[i] + prev[i] /\ Mark(i) <= Received(i[1])
    BY <1>1, <1>2 DEF TrackedAt, Bucket, Mark, Received
  <1>4. \A n \in Lives : n >= i[2] => Charges(i[1]) + Gain(i, prev[i]) <= emitted[i[1]][n]
    BY <1>1, <1>2, <1>3 DEF RowAt, IInv, TypeOK
  <1>5. /\ Observe(i, prev[i])
        /\ charged' = AddFrom(charged, i[1], i[2], Gain(i, prev[i]))
        /\ UNCHANGED <<osVars, aggVars, cached, procs, pc, snap, removed, todo, stateVars>>
        /\ rows' = [rows EXCEPT ![i] = None]
    BY <1>1 DEF ChargeRow, ChargeSample
  <1>6. Charges(i[1]) + Gain(i, prev[i]) <= Received(i[1])
    BY <1>2, <1>3 DEF Received
  <1>7. /\ ReceivedWasSent' /\ ChargesWereReceived' /\ SnapshotInv'
        /\ RemovedInv' /\ NeverOvercharged'
        /\ Charges(i[1])' = Charges(i[1]) + Gain(i, prev[i])
        /\ \A p \in Pids : p # i[1] => Charges(p)' = Charges(p)
        /\ high'[i] = high[i] + Gain(i, prev[i])
        /\ \A j \in Ids : j # i => high'[j] = high[j]
    BY <1>1, <1>2, <1>4, <1>5, <1>6, ChargeEffect
  <1>8. rows'[i] = None /\ \A j \in Ids : j # i => rows'[j] = rows[j]
    BY <1>5 DEF IInv, TypeOK
  <1>9. TrackedAt(i)'
    <2>1. prev[i] <= high'[i] /\ Gain(i, prev[i])' = 0
      BY <1>1, <1>2, <1>7 DEF Gain
    <2> QED
      BY <1>1, <1>2, <1>3, <1>7, <2>1 DEF TrackedAt, Bucket, Mark
  <1>10. ASSUME NEW j \in tracked, j # i PROVE TrackedAt(j)'
    <2>1. j \in Ids /\ j[1] \in Pids /\ j[1] # i[1] /\ TrackedAt(j)
      BY <1>1, <1>10, IdParts DEF IInv, TypeOK, SamplesInv, OneIdentityInv, OneLifetimePerPid
    <2>2. Charges(j[1])' = Charges(j[1]) /\ high'[j] = high[j] /\ rows'[j] = rows[j]
      BY <1>7, <1>8, <1>10, <2>1
    <2> QED
      BY <1>1, <2>1, <2>2 DEF TrackedAt, Bucket, ActivePids, Gain, Mark
  <1>11. ASSUME NEW j \in Ids PROVE RowAt(j)'
    <2>1. RowAt(j) /\ (rows'[j] # None => rows'[j] = rows[j]) /\ Mark(j)' = Mark(j)
      BY <1>1, <1>8 DEF IInv, SamplesInv, Mark
    <2> QED
      BY <1>1, <2>1 DEF RowAt
  <1>12. ASSUME NEW j \in Ids PROVE RetiredAt(j)'
    <2> SUFFICES ASSUME retired[j] # None PROVE RetiredAt(j)'
      BY <1>1 DEF RetiredAt
    <2>1. j # i /\ RetiredAt(j) /\ j[1] \in Pids
      BY <1>1, IdParts DEF IInv, SamplesInv, RetiredAt
    <2>2. high'[j] = high[j] /\ (j[1] # i[1] => Charges(j[1])' = Charges(j[1]))
      BY <1>7, <2>1
    <2> QED
      BY <1>1, <1>2, <2>1, <2>2 DEF RetiredAt, ActivePids, Received
  <1>13. SamplesInv'
    BY <1>1, <1>9, <1>10, <1>11, <1>12 DEF SamplesInv
  <1>14. OneIdentityInv'
    BY <1>1 DEF IInv, OneIdentityInv, OneLifetimePerPid, Leaving, ListedIds
  <1> QED
    BY <1>0, <1>7, <1>13, <1>14 DEF IInv

LEMMA ChargeRetiredIInv ==
  ASSUME IInv, NEW i \in Ids, ChargeRetired(i) PROVE IInv'
  <1>0. TypeOK'
    BY NextTypeOK DEF IInv, Next, Service
  <1> DEFINE bytes == retired[i]
  <1>1. /\ pc = "update" /\ pc' = "update" /\ retired[i] # None /\ RetiredAt(i) /\ i \notin tracked
        /\ rows = NoRows /\ rows' = rows
        /\ UNCHANGED <<procs, tracked, todo, base, prev, removed, discarded, totals, emitted>>
    BY DEF ChargeRetired, ChargeSample, IInv, SamplesInv, RetiredAt, osVars, aggVars, stateVars
  <1>2. /\ i[1] \in Pids /\ i[2] \in Lives /\ bytes \in Nat /\ high[i] \in Nat
        /\ Charges(i[1]) \in Nat /\ Gain(i, bytes) \in Nat
    BY <1>1, TypesAt DEF IInv, Counters, Gain
  <1>3. Gain(i, bytes) > 0 =>
            /\ i[1] \notin ActivePids
            /\ Charges(i[1]) + Gain(i, bytes) <= Received(i[1])
            /\ \A n \in Lives : n >= i[2] =>
                  Charges(i[1]) + Gain(i, bytes) <= emitted[i[1]][n]
    <2>1. Gain(i, bytes) > 0 =>
             bytes > high[i] /\ Charges(i[1]) + Gain(i, bytes) = Charges(i[1]) + bytes - high[i]
      BY <1>2 DEF Gain
    <2> QED
      BY <1>1, <2>1 DEF RetiredAt
  <1>4. /\ Observe(i, bytes)
        /\ charged' = AddFrom(charged, i[1], i[2], Gain(i, bytes))
        /\ UNCHANGED <<osVars, aggVars, cached, procs, pc, snap, removed, todo, stateVars>>
        /\ retired' = [retired EXCEPT ![i] = None]
    BY <1>1 DEF ChargeRetired, ChargeSample
  <1>5. retired'[i] = None /\ \A j \in Ids : j # i => retired'[j] = retired[j]
    BY <1>4 DEF IInv, TypeOK
  <1> HIDE DEF bytes
  <1>6. /\ ReceivedWasSent' /\ ChargesWereReceived' /\ SnapshotInv'
        /\ RemovedInv' /\ NeverOvercharged'
        /\ Charges(i[1])' = Charges(i[1]) + Gain(i, bytes)
        /\ \A p \in Pids : p # i[1] => Charges(p)' = Charges(p)
        /\ \A j \in Ids : j # i => high'[j] = high[j]
    BY <1>1, <1>2, <1>3, <1>4, ChargeEffect
  <1>7. ASSUME NEW j \in tracked PROVE TrackedAt(j)'
    <2>1. j \in Ids /\ j[1] \in Pids /\ j # i /\ TrackedAt(j) /\ j[1] \in ActivePids
      BY <1>1, IdParts, ListedIsActive DEF IInv, TypeOK, SamplesInv, OneIdentityInv, ListedIds
    <2>2. Charges(j[1])' = Charges(j[1])
      BY <1>2, <1>3, <1>6, <2>1
    <2> QED
      BY <1>1, <1>6, <2>1, <2>2 DEF TrackedAt, Bucket, ActivePids, Gain, Mark
  <1>8. ASSUME NEW j \in Ids PROVE RowAt(j)'
    BY <1>1 DEF RowAt, NoRows
  <1>9. ASSUME NEW j \in Ids PROVE RetiredAt(j)'
    <2> SUFFICES ASSUME j # i, retired[j] # None PROVE RetiredAt(j)'
      BY <1>5 DEF RetiredAt
    <2>1. RetiredAt(j) /\ j[1] \in Pids /\ j[1] # i[1] /\ retired'[j] = retired[j]
      BY <1>1, <1>5, IdParts DEF IInv, SamplesInv, OneIdentityInv, Leaving
    <2>2. high'[j] = high[j] /\ Charges(j[1])' = Charges(j[1])
      BY <1>6, <2>1
    <2> QED
      BY <1>1, <2>1, <2>2 DEF RetiredAt, ActivePids, Received
  <1>10. SamplesInv'
    BY <1>1, <1>7, <1>8, <1>9 DEF SamplesInv
  <1>11. OneIdentityInv'
    <2>1. \A j \in Ids : Leaving(j)' => Leaving(j)
      BY <1>1, <1>5 DEF Leaving
    <2> QED
      BY <1>1, <2>1 DEF IInv, OneIdentityInv, OneLifetimePerPid, ListedIds
  <1> QED
    BY <1>0, <1>6, <1>10, <1>11 DEF IInv

LEMMA StutterIInv == IInv /\ UNCHANGED vars => IInv'
  <1> SUFFICES ASSUME IInv, UNCHANGED vars PROVE IInv'
    OBVIOUS
  <1>0. TypeOK'
    BY NextTypeOK DEF IInv
  <1> QED
    BY <1>0, SamplesFrame DEF vars, osVars, aggVars, IInv, TypeOK, ReceivedWasSent, Received

LEMMA InitIInv == Init => IInv
  <1> SUFFICES ASSUME Init PROVE IInv
    OBVIOUS
  <1> USE DEF Init, OsInit, AggInit, CollectorInit, TrackerInit
  <1>1. TypeOK
    BY InitTypeOK
  <1>2. ReceivedWasSent /\ ChargesWereReceived /\ SnapshotInv /\ RemovedInv /\ NeverOvercharged
    BY DEF ReceivedWasSent, ChargesWereReceived, Charges, Received, SnapshotInv, RemovedInv,
           NeverOvercharged, Lives
  <1>3. SamplesInv
    BY DEF SamplesInv, RowAt, RetiredAt, NoRows
  <1>4. OneIdentityInv
    BY DEF OneIdentityInv, OneLifetimePerPid, Leaving, NoRows
  <1> QED
    BY <1>1, <1>2, <1>3, <1>4 DEF IInv

LEMMA NextIInv == IInv /\ [Next]_vars => IInv'
  <1> SUFFICES ASSUME IInv, [Next]_vars PROVE IInv'
    OBVIOUS
  <1>1. CASE Collect
    BY <1>1, RefreshIInv, TakeSnapshotIInv, ReturnIInv, RowUnverifiedIInv, RowFirstIInv,
       RowUpdateIInv, RetireConfirmedIInv, RetireWithTailIInv
    DEF Collect, CollectStep
  <1>2. CASE RetirementCut
    BY <1>2, CutIInv DEF RetirementCut
  <1>3. ASSUME NEW i \in Ids, ChargeRow(i) \/ ChargeRetired(i) PROVE IInv'
    BY <1>3, ChargeRowIInv, ChargeRetiredIInv
  <1> QED
    BY <1>1, <1>2, <1>3, OsIInv, ConsumerIInv, PublishIInv, StutterIInv DEF Next, Service

(* The measuring argument holds at every step.                              *)
THEOREM InductiveInvariant == Spec => []IInv
  BY InitIInv, NextIInv, PTL DEF Spec

(* No process is charged a byte that was sent after it was gone, or twice.  *)
THEOREM NoOvercharge == Spec => []NeverOvercharged
  <1>1. IInv => NeverOvercharged
    BY DEF IInv
  <1> QED
    BY <1>1, InductiveInvariant, PTL

(* One pid is never watched under two lifetimes after collect returned.     *)
THEOREM NoPidWatchedTwice == Spec => []OneLifetimePerPid
  <1>1. IInv => OneLifetimePerPid
    BY DEF IInv, OneIdentityInv
  <1> QED
    BY <1>1, InductiveInvariant, PTL

(* The clamps of collect never hide a counter that went back.               *)
THEOREM BucketsCoverStates == Spec => []BucketCoversState
  <1>1. ASSUME IInv, pc \in {"idle", "listed"}, NEW i \in tracked
        PROVE  totals[i[1]] >= base[i] + prev[i] /\ base[i] >= 0
    <2>1. TrackedAt(i) /\ Bucket(i[1]) = totals[i[1]]
      BY <1>1 DEF IInv, SamplesInv, Bucket
    <2>2. totals[i[1]] \in Nat /\ base[i] \in Int /\ prev[i] \in Nat
      BY <1>1, IdParts DEF IInv, TypeOK
    <2> QED
      BY <2>1, <2>2 DEF TrackedAt
  <1>2. IInv => BucketCoversState
    BY <1>1 DEF BucketCoversState
  <1> QED
    BY <1>2, InductiveInvariant, PTL

(* A counter is only ever replaced by one measured further down its bucket. *)
THEOREM NoStepBack == Spec => CountersNeverStepBack
  <1>1. ASSUME IInv, Next, NEW i \in tracked \cap tracked' PROVE prev'[i] >= prev[i]
    <2>1. i \in Ids /\ prev \in [Ids -> Nat] /\ prev[i] \in Nat /\ TrackedAt(i)
      BY <1>1 DEF IInv, TypeOK, SamplesInv
    <2>2. ASSUME NEW j \in Ids, RowFirst(j) PROVE prev'[i] = prev[i]
      BY <1>1, <2>1, <2>2 DEF RowFirst
    <2>3. ASSUME NEW j \in Ids, NEW bytes, Retire(j, bytes) PROVE prev'[i] = prev[i]
      BY <1>1, <2>1, <2>3 DEF Retire
    <2>4. ASSUME NEW j \in Ids, RowUpdate(j) PROVE prev'[i] >= prev[i]
      <3>1. i[1] \in Pids /\ snap[i[1]] \in Nat /\ base[i] \in Nat
        BY <1>1, <2>1, IdParts DEF IInv, TypeOK, TrackedAt
      <3>2. base[i] + prev[i] <= snap[i[1]]
        BY <2>1, <2>4 DEF RowUpdate, TrackedAt
      <3>3. snap[i[1]] - Baseline(i) >= prev[i]
        BY <2>1, <3>1, <3>2 DEF Baseline
      <3> QED
        BY <2>1, <2>4, <3>1, <3>2, <3>3 DEF RowUpdate, AtLeast, Baseline
    <2>5. CASE UNCHANGED prev
      BY <2>1, <2>5
    <2>6. UNCHANGED prev \/ \E j \in Ids : RowFirst(j) \/ RowUpdate(j) \/ \E b : Retire(j, b)
      BY <1>1 DEF Next, Os, EtwConsumer, Service, Collect, CollectStep, RetirementCut, Cut, Refresh,
                  TakeSnapshot, Return, RowUnverified, RetireConfirmed, RetireWithTail, Publish,
                  ChargeRow, ChargeRetired, ChargeSample, collectorVars, stateVars
    <2> QED
      BY <2>1, <2>2, <2>3, <2>4, <2>5, <2>6
  <1>2. ASSUME IInv, [Next]_vars
        PROVE  [\A i \in tracked \cap tracked' : prev'[i] >= prev[i]]_vars
    BY <1>1, <1>2
  <1> QED
    BY <1>2, InductiveInvariant, PTL DEF Spec, CountersNeverStepBack

LEMMA NextMeasured == IInv /\ MeasuredInv /\ [Next]_vars => MeasuredInv'
  <1> SUFFICES ASSUME IInv, MeasuredInv, [Next]_vars,
                      pc' \in {"validate", "retire", "update"},
                      NEW i \in tracked', i \in ListedIds',
                      pc' = "validate" => i \notin todo', ~unsure'[i]
               PROVE  base'[i] + prev'[i] = snap'[i[1]]
    BY DEF MeasuredInv
  <1>1. /\ i \in Ids /\ i[1] \in Pids /\ snap[i[1]] \in Nat
        /\ base \in [Ids -> Int] /\ prev \in [Ids -> Nat] /\ unsure \in [Ids -> BOOLEAN]
    BY IdParts DEF IInv, TypeOK, ListedIds
  <1> USE DEF ListedIds
  <1>2. ASSUME NEW j \in Ids, RowUnverified(j) PROVE base'[i] + prev'[i] = snap'[i[1]]
    BY <1>1, <1>2 DEF RowUnverified, MeasuredInv
  <1>3. ASSUME NEW j \in Ids, RowFirst(j) PROVE base'[i] + prev'[i] = snap'[i[1]]
    BY <1>1, <1>3 DEF RowFirst, FirstBaseline, MeasuredInv
  <1>4. ASSUME NEW j \in Ids, RowUpdate(j) PROVE base'[i] + prev'[i] = snap'[i[1]]
    <2>1. CASE i = j
      <3>1. TrackedAt(i) /\ base[i] + prev[i] <= snap[i[1]] /\ base[i] \in Nat
        BY <1>1, <1>4, <2>1 DEF RowUpdate, TrackedAt, IInv, SamplesInv
      <3>2. snap[i[1]] - Baseline(i) \in Nat /\ Baseline(i) \in Int
        BY <1>1, <3>1 DEF Baseline
      <3> QED
        BY <1>1, <1>4, <2>1, <3>2 DEF RowUpdate, AtLeast
    <2>2. CASE i # j
      BY <1>1, <1>4, <2>2 DEF RowUpdate, MeasuredInv
    <2> QED
      BY <2>1, <2>2
  <1>5. ASSUME NEW j \in Ids, NEW b, Retire(j, b) PROVE base'[i] + prev'[i] = snap'[i[1]]
    BY <1>1, <1>5 DEF Retire, MeasuredInv
  <1>6. CASE TakeSnapshot
    BY <1>6 DEF TakeSnapshot
  <1>7. CASE Cut \/ Return
    BY <1>1, <1>7 DEF Cut, Return, MeasuredInv, stateVars
  <1>8. CASE UNCHANGED <<procs, pc, todo, snap, stateVars>>
    BY <1>8 DEF MeasuredInv, stateVars
  <1>9. pc' # "listed" /\ pc' # "idle"
    OBVIOUS
  <1> QED
    BY <1>2, <1>3, <1>4, <1>5, <1>6, <1>7, <1>8, <1>9
    DEF Next, Os, EtwConsumer, Service, Collect, CollectStep, RetirementCut, Refresh,
        RetireConfirmed, RetireWithTail, Publish,
        ChargeRow, ChargeRetired, ChargeSample, collectorVars, vars

(* A sample without doubt accounts for its whole bucket.                    *)
THEOREM CertainSamplesComplete == Spec => []CertainSampleIsComplete
  <1>1. Init => MeasuredInv
    BY DEF Init, CollectorInit, MeasuredInv
  <1>2. IInv /\ MeasuredInv => CertainSampleIsComplete
    BY DEF IInv, OneIdentityInv, MeasuredInv, CertainSampleIsComplete
  <1> QED
    BY <1>1, <1>2, NextMeasured, InductiveInvariant, PTL DEF Spec

-----------------------------------------------------------------------------
(***************************************************************************)
(* MonitorService implements TrafficLedger: every step that moves a total  *)
(* is one entry of the ledger, for every set of pids, lifetimes and sizes. *)
(***************************************************************************)
LEMMA InitSent == Init => SentInv
  BY DEF Init, OsInit, SentInv, Lives

LEMMA NextSent == IInv /\ SentInv /\ [Next]_vars => SentInv'
  <1> SUFFICES ASSUME IInv, SentInv, [Next]_vars, NEW q \in Pids, NEW n \in Lives
               PROVE  /\ emitted'[q][n] <= MaxBytes
                      /\ n >= life'[q] => emitted'[q][n] = emitted'[q][MaxLife]
    BY DEF SentInv
  <1>1. /\ life \in [Pids -> 0..MaxLife] /\ emitted \in [Pids -> [Lives -> Nat]]
        /\ MaxLife \in Lives /\ n <= MaxLife /\ n \in Nat /\ life[q] \in 0..MaxLife
    <2>1. life \in [Pids -> 0..MaxLife] /\ emitted \in [Pids -> [Lives -> Nat]]
      BY DEF IInv, TypeOK
    <2> QED
      BY <2>1 DEF Lives
  <1>2. ASSUME NEW p \in Pids, Spawn(p)
        PROVE  /\ emitted'[q][n] <= MaxBytes
               /\ n >= life'[q] => emitted'[q][n] = emitted'[q][MaxLife]
    <2>1. n >= life'[q] => n >= life[q]
      BY <1>1, <1>2 DEF Spawn
    <2> QED
      BY <1>2, <2>1 DEF Spawn, SentInv
  <1>3. ASSUME NEW p \in Pids, NEW k \in Sizes, Emit(p, k)
        PROVE  /\ emitted'[q][n] <= MaxBytes
               /\ n >= life'[q] => emitted'[q][n] = emitted'[q][MaxLife]
    <2>1. life[p] \in Lives /\ k \in Nat
      BY <1>3, <1>1 DEF Emit, IInv, ReceivedWasSent, Lives
    <2>2. \A m \in Lives :
            emitted'[q][m] = IF q = p /\ m >= life[p] THEN emitted[q][m] + k ELSE emitted[q][m]
      BY <1>1, <1>3, <2>1 DEF Emit, AddFrom
    <2>3. emitted[p][life[p]] + k <= MaxBytes
      BY <1>3 DEF Emit
    <2>4. \A m \in Lives : m >= life[p] => emitted[p][m] = emitted[p][life[p]]
      BY <1>1, <2>1 DEF SentInv, Lives
    <2>5. emitted'[q][n] <= MaxBytes
      BY <1>1, <2>1, <2>2, <2>3, <2>4 DEF SentInv
    <2>6. n >= life[q] => emitted'[q][n] = emitted'[q][MaxLife]
      BY <1>1, <2>1, <2>2 DEF SentInv
    <2> QED
      BY <1>3, <2>5, <2>6 DEF Emit
  <1>4. CASE UNCHANGED <<life, emitted>>
    BY <1>4 DEF SentInv
  <1>5. \/ UNCHANGED <<life, emitted>>
        \/ \E p \in Pids : Spawn(p) \/ \E k \in Sizes : Emit(p, k)
    BY DEF Next, Os, Exit, LoseEvent, EtwConsumer, Record, Service, Collect, RetirementCut, Publish,
           ChargeRow, ChargeRetired, ChargeSample, osVars, vars
  <1> QED
    BY <1>2, <1>3, <1>4, <1>5

(* One sample charged is one entry.                                         *)
LEMMA ChargeIsEntry ==
  ASSUME IInv, IInv', SentInv, NEW i \in Ids, NEW bytes \in Nat, Observe(i, bytes),
         charged' = AddFrom(charged, i[1], i[2], Gain(i, bytes)), UNCHANGED emitted
  PROVE  Ledger!Next
  <1>1. PICK a \in AccountKeys(i) :
          /\ keyOf' = [keyOf EXCEPT ![i] = a]
          /\ appTotals' = [appTotals EXCEPT ![a] = @ + Gain(i, bytes)]
    BY DEF Observe
  <1>2. /\ i[1] \in Pids /\ i[2] \in Lives /\ i = <<i[1], i[2]>>
        /\ charged \in [Pids -> [Lives -> Nat]] /\ high \in [Ids -> Nat]
        /\ emitted \in [Pids -> [Lives -> Nat]] /\ keyOf \in [Ids -> Apps \cup {Unknown}]
    BY DEF Ids, IInv, TypeOK
  <1>3. Gain(i, bytes) \in Nat
    <2>1. high[i] \in Nat
      BY <1>2
    <2> QED
      BY <2>1 DEF Gain
  <1>4. a \in Apps /\ keyOf[i] \in {Unknown, a}
    BY <1>1, <1>2 DEF AccountKeys
  <1>5. ASSUME NEW m \in Lives, m >= i[2]
        PROVE  charged[i[1]][m] + Gain(i, bytes) <= emitted[i[1]][m]
    <2>1. charged'[i[1]][m] = charged[i[1]][m] + Gain(i, bytes)
      BY <1>2, <1>5 DEF AddFrom
    <2> QED
      BY <1>2, <2>1 DEF IInv, NeverOvercharged
  <1>6. Gain(i, bytes) \in 0..MaxBytes
    <2>1. MaxLife \in Lives /\ MaxLife >= i[2]
      BY <1>2 DEF Lives
    <2>2. /\ charged[i[1]][MaxLife] \in Nat /\ emitted[i[1]][MaxLife] \in Nat
          /\ charged[i[1]][MaxLife] + Gain(i, bytes) <= emitted[i[1]][MaxLife]
          /\ emitted[i[1]][MaxLife] <= MaxBytes
      BY <1>2, <1>5, <2>1 DEF SentInv
    <2> QED
      BY <1>3, <2>2
  <1>7. Ledger!Charge(i[1], i[2], a, Gain(i, bytes))
    BY <1>1, <1>2, <1>4, <1>5 DEF Ledger!Charge, Ledger!From, AddFrom
  <1> QED
    BY <1>2, <1>4, <1>6, <1>7 DEF Ledger!Next

LEMMA InitLedger == Init => Ledger!Init
  BY DEF Init, OsInit, TrackerInit, Ledger!Init, Ids

LEMMA NextLedger ==
  IInv /\ IInv' /\ SentInv /\ [Next]_vars => [Ledger!Next]_(Ledger!ledgerVars)
  <1> SUFFICES ASSUME IInv, IInv', SentInv, [Next]_vars
               PROVE  Ledger!Next \/ UNCHANGED Ledger!ledgerVars
    OBVIOUS
  <1>1. ASSUME NEW p \in Pids, NEW k \in Sizes, Emit(p, k), UNCHANGED accountVars
        PROVE  Ledger!Next
    <2>1. life[p] \in Lives /\ k \in Nat /\ emitted[p][life[p]] \in Nat
      <3>1. life[p] \in Lives
        <4>1. life[p] \in 0..MaxLife
          BY DEF IInv, TypeOK
        <4> QED
          BY <1>1, <4>1 DEF Emit, IInv, ReceivedWasSent, Lives
      <3> QED
        BY <3>1 DEF IInv, TypeOK
    <2>2. k \in 0..MaxBytes
      BY <1>1, <2>1 DEF Emit
    <2>3. Ledger!Send(p, life[p], k)
      BY <1>1 DEF Emit, AddFrom, Ledger!Send, Ledger!From, accountVars, trackerVars
    <2> QED
      BY <2>1, <2>2, <2>3 DEF Ledger!Next
  <1>2. ASSUME NEW i \in Ids, ChargeRow(i) PROVE Ledger!Next
    <2>1. rows[i] \in Nat
      BY <1>2 DEF ChargeRow, ChargeSample, IInv, TypeOK, Counters
    <2> QED
      BY <1>2, <2>1, ChargeIsEntry DEF ChargeRow, ChargeSample, osVars
  <1>3. ASSUME NEW i \in Ids, ChargeRetired(i) PROVE Ledger!Next
    <2>1. retired[i] \in Nat
      BY <1>3 DEF ChargeRetired, ChargeSample, IInv, TypeOK, Counters
    <2> QED
      BY <1>3, <2>1, ChargeIsEntry DEF ChargeRetired, ChargeSample, osVars
  <1>4. CASE UNCHANGED <<emitted, accountVars>>
    BY <1>4 DEF Ledger!ledgerVars, accountVars, trackerVars
  <1>5. \/ UNCHANGED <<emitted, accountVars>>
        \/ \E p \in Pids, k \in Sizes : Emit(p, k) /\ UNCHANGED accountVars
        \/ \E i \in Ids : ChargeRow(i) \/ ChargeRetired(i)
    BY DEF Next, Os, Spawn, Exit, LoseEvent, EtwConsumer, Record, Service, Collect, RetirementCut,
           Publish, osVars, vars
  <1> QED
    BY <1>1, <1>2, <1>3, <1>4, <1>5

(* The totals shown to the user are a ledger of real traffic.               *)
THEOREM Refinement == Spec => ImplementsLedger
  BY InitSent, NextSent, InitLedger, NextLedger, InductiveInvariant, PTL
  DEF Spec, ImplementsLedger, Ledger!Spec
-----------------------------------------------------------------------------
FiledUnder(a) == [i \in Ids |-> IF keyOf[i] = a THEN high[i] ELSE 0]
ChargedBy     == [p \in Pids |-> charged[p][MaxLife]]

LEMMA FiniteIds == IsFiniteSet(Ids)
  <1>1. IsFiniteSet(Lives)
    BY FS_Interval DEF Lives
  <1> QED
    BY <1>1, FS_Product, FiniteAssumption DEF Ids

LEMMA InitAccounts == Init => AccountsInv
  <1> SUFFICES ASSUME Init PROVE AccountsInv
    OBVIOUS
  <1>1. /\ keyOf = [i \in Ids |-> Unknown] /\ high = [i \in Ids |-> 0]
        /\ appTotals = [a \in Apps |-> 0] /\ charged = [p \in Pids |-> [n \in Lives |-> 0]]
    BY DEF Init, TrackerInit
  <1>2. ASSUME NEW a \in Apps PROVE FiledUnder(a) = [i \in Ids |-> 0]
    BY <1>1 DEF FiledUnder
  <1>3. ChargedBy = [p \in Pids |-> 0]
    BY <1>1 DEF ChargedBy, Lives
  <1>4. \A a \in Apps : SumOf(FiledUnder(a)) = 0
    BY <1>2, SumZero, FiniteIds
  <1>5. SumOf(appTotals) = 0 /\ SumOf(ChargedBy) = 0
    BY <1>1, <1>3, SumZero, FiniteAssumption
  <1>6. AccountsAddUp
    BY <1>1, <1>4, <1>5 DEF AccountsAddUp, FiledUnder, ChargedBy
  <1> QED
    BY <1>1, <1>6 DEF AccountsInv

(* A sample raises its mark, its account and what its pid was charged by    *)
(* the same gain.                                                           *)
LEMMA SampleKeepsAccounts ==
  ASSUME TypeOK, AccountsInv, NEW i \in Ids, NEW bytes \in Nat, Observe(i, bytes),
         charged' = AddFrom(charged, i[1], i[2], Gain(i, bytes))
  PROVE  AccountsInv'
  <1> DEFINE g == Gain(i, bytes)
  <1>1. PICK k \in AccountKeys(i) :
          /\ keyOf' = [keyOf EXCEPT ![i] = k]
          /\ high' = [high EXCEPT ![i] = @ + g]
          /\ appTotals' = [appTotals EXCEPT ![k] = @ + g]
    BY DEF Observe
  <1>2. /\ i[1] \in Pids /\ i[2] \in Lives /\ MaxLife \in Lives /\ i[2] <= MaxLife
        /\ charged \in [Pids -> [Lives -> Nat]] /\ high \in [Ids -> Nat]
        /\ appTotals \in [Apps -> Nat] /\ keyOf \in [Ids -> Apps \cup {Unknown}]
    <2>1. i[1] \in Pids /\ i[2] \in Lives
      BY IdParts
    <2>2. MaxLife \in Lives /\ i[2] <= MaxLife
      BY <2>1 DEF Lives
    <2> QED
      BY <2>1, <2>2 DEF TypeOK
  <1>3. g \in Nat
    <2>1. high[i] \in Nat
      BY <1>2
    <2> QED
      BY <2>1 DEF Gain
  <1>4. k \in Apps /\ keyOf[i] \in {Unknown, k} /\ Unknown \notin Apps
    BY <1>1, <1>2 DEF AccountKeys
  <1>5. keyOf[i] = Unknown => high[i] = 0
    BY DEF AccountsInv
  <1> HIDE DEF g
  <1>6. /\ keyOf'[i] = k /\ high'[i] = high[i] + g
        /\ \A j \in Ids \ {i} : keyOf'[j] = keyOf[j] /\ high'[j] = high[j]
    BY <1>1, <1>2
  <1>7. ASSUME NEW a \in Apps PROVE appTotals'[a] = SumOf(FiledUnder(a)')
    <2>1. /\ FiledUnder(a) \in [Ids -> Int] /\ FiledUnder(a)' \in [Ids -> Int]
          /\ appTotals[a] = SumOf(FiledUnder(a))
      <3>1. \A j \in Ids : high[j] \in Int /\ high'[j] \in Int
        BY <1>2, <1>3, <1>6
      <3> QED
        BY <3>1 DEF FiledUnder, AccountsInv, AccountsAddUp
    <2>2. CASE a = k
      <3>1. FiledUnder(a)'[i] = FiledUnder(a)[i] + g
        BY <1>2, <1>3, <1>4, <1>5, <1>6, <2>2 DEF FiledUnder
      <3>2. \A j \in Ids \ {i} : FiledUnder(a)'[j] = FiledUnder(a)[j]
        BY <1>6 DEF FiledUnder
      <3>3. SumOf(FiledUnder(a)') = SumOf(FiledUnder(a)) + g
        BY <1>3, <2>1, <3>1, <3>2, FiniteIds, SumGrows
      <3>4. appTotals'[a] = appTotals[a] + g
        BY <1>1, <1>2, <2>2
      <3> QED
        BY <2>1, <3>3, <3>4
    <2>3. CASE a # k
      <3>1. FiledUnder(a)' = FiledUnder(a)
        BY <1>4, <1>6, <2>3 DEF FiledUnder
      <3>2. appTotals'[a] = appTotals[a]
        BY <1>1, <1>2, <2>3
      <3> QED
        BY <2>1, <3>1, <3>2
    <2> QED
      BY <2>2, <2>3
  <1>8. SumOf(appTotals') = SumOf(ChargedBy')
    <2>1. /\ appTotals \in [Apps -> Int] /\ appTotals' \in [Apps -> Int]
          /\ appTotals'[k] = appTotals[k] + g
          /\ \A a \in Apps \ {k} : appTotals'[a] = appTotals[a]
      BY <1>1, <1>2, <1>3, <1>4
    <2>2. SumOf(appTotals') = SumOf(appTotals) + g
      BY <1>3, <1>4, <2>1, SumGrows, FiniteAssumption
    <2>3. \A p \in Pids : /\ charged[p][MaxLife] \in Nat
                         /\ charged'[p][MaxLife]
                              = IF p = i[1] THEN charged[p][MaxLife] + g ELSE charged[p][MaxLife]
      <3>1. charged' = AddFrom(charged, i[1], i[2], g)
        BY DEF g
      <3>2. \A p \in Pids : charged[p] \in [Lives -> Nat]
        BY <1>2
      <3> QED
        BY <1>2, <3>1, <3>2 DEF AddFrom
    <2>4. /\ ChargedBy \in [Pids -> Int] /\ ChargedBy' \in [Pids -> Int]
          /\ ChargedBy'[i[1]] = ChargedBy[i[1]] + g
          /\ \A p \in Pids \ {i[1]} : ChargedBy'[p] = ChargedBy[p]
      BY <1>2, <1>3, <2>3 DEF ChargedBy
    <2>5. SumOf(ChargedBy') = SumOf(ChargedBy) + g
      BY <1>2, <1>3, <2>4, SumGrows, FiniteAssumption
    <2>6. SumOf(appTotals) = SumOf(ChargedBy)
      BY DEF AccountsInv, AccountsAddUp, ChargedBy
    <2> QED
      BY <2>2, <2>5, <2>6
  <1>9. \A j \in Ids : keyOf'[j] = Unknown => high'[j] = 0
    BY <1>4, <1>6 DEF AccountsInv
  <1> QED
    BY <1>7, <1>8, <1>9 DEF AccountsInv, AccountsAddUp, FiledUnder, ChargedBy

LEMMA NextAccounts == TypeOK /\ AccountsInv /\ [Next]_vars => AccountsInv'
  <1> SUFFICES ASSUME TypeOK, AccountsInv, [Next]_vars PROVE AccountsInv'
    OBVIOUS
  <1>1. ASSUME NEW i \in Ids, ChargeRow(i) \/ ChargeRetired(i) PROVE AccountsInv'
    <2>1. PICK bytes \in Nat : /\ Observe(i, bytes)
                              /\ charged' = AddFrom(charged, i[1], i[2], Gain(i, bytes))
      BY <1>1 DEF ChargeRow, ChargeRetired, ChargeSample, TypeOK, Counters
    <2> QED
      BY <2>1, SampleKeepsAccounts
  <1>2. CASE UNCHANGED accountVars
    BY <1>2 DEF AccountsInv, AccountsAddUp, accountVars, trackerVars
  <1> QED
    BY <1>1, <1>2
    DEF Next, Os, EtwConsumer, Service, Collect, RetirementCut, Publish, vars

(* An application account is exactly what its processes were seen to move,  *)
(* exited ones included, and nothing is charged outside an account          *)
(* (application_session.py:43-127).                                         *)
THEOREM AccountsAreExact == Spec => []AccountsAddUp
  <1>1. AccountsInv => AccountsAddUp
    BY DEF AccountsInv
  <1> QED
    BY <1>1, InitAccounts, NextAccounts, TypeCorrect, PTL DEF Spec

=============================================================================
