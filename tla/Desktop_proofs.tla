----------------------------- MODULE Desktop_proofs ----------------------------
(***************************************************************************)
(* Proofs about the parts of MCDesktop.  Preferences: ui.json is whole     *)
(* through kills, power losses and any number of instances, and an         *)
(* instance that runs alone never skips a save it needs.  IconCache: no    *)
(* queue is ever full when something is put in it and the cache is within  *)
(* its cap, for any set of paths, wherever close and poll find the worker. *)
(* CollectorProbe: its verdict is true of the collector that ran.  And the *)
(* parts beside one another.                                               *)
(***************************************************************************)
EXTENDS MCDesktop, Windows_proofs, DataLemmas

(* No instance, no temporary file.                                          *)
LEMMA PreferencesStart == Init => IInv
  BY PreferencesAssumption
  DEF Init, IInv, TypeOK, Stages, FileWhole, Synced, Mirror

(* A process starts or is loading: the file stays, _last_saved mirrors it.  *)
LEMMA StartKeepsIInv ==
  ASSUME IInv, NEW i \in Instances, Start(i) \/ Loaded(i)
  PROVE  IInv'
  <1>1. TypeOK' /\ FileWhole' /\ Synced'
    BY PreferencesAssumption
    DEF IInv, TypeOK, Stages, FileWhole, Synced, Start, Loaded, Goto, Readable, Others
  <1>2. Mirror'
    BY DEF IInv, TypeOK, Mirror, Start, Loaded, Goto, Readable, Alone, Others, FileWhole
  <1> QED
    BY <1>1, <1>2 DEF IInv

(* What the user does changes neither the file nor _last_saved.             *)
LEMMA UserKeepsIInv ==
  ASSUME IInv, NEW i \in Instances,
         Change(i) \/ Shutdown(i) \/ Ask(i) \/ Refused(i)
  PROVE  IInv'
  <1>1. TypeOK' /\ FileWhole' /\ Synced'
    BY DEF IInv, TypeOK, Stages, FileWhole, Synced, Change, Shutdown, Ask, Refused, Goto
  <1>2. Mirror'
    BY DEF IInv, TypeOK, Mirror, Change, Shutdown, Ask, Refused, Goto, Alone
  <1> QED
    BY <1>1, <1>2 DEF IInv

(* An elevated restart runs beside the instance that asked for it.          *)
LEMMA GrantedKeepsIInv ==
  ASSUME IInv, NEW i \in Instances, NEW j \in Instances, Granted(i, j)
  PROVE  IInv'
  <1>1. TypeOK' /\ FileWhole' /\ Synced'
    BY PreferencesAssumption DEF IInv, TypeOK, Stages, FileWhole, Synced, Granted, Others
  <1>2. Mirror'
    BY DEF IInv, TypeOK, Mirror, Granted, Alone, Others
  <1> QED
    BY <1>1, <1>2 DEF IInv

(* Every step of a save, whether it succeeds or not.                        *)
LEMMA SavingKeepsIInv ==
  ASSUME IInv, NEW i \in Instances, Saving(i)
  PROVE  IInv'
  <1>1. CASE SaveUnneeded(i) \/ SaveBegin(i) \/ SaveRefused(i) \/ Write(i) \/ Raise(i)
    <2>1. TypeOK' /\ FileWhole' /\ Synced'
      BY <1>1 DEF IInv, TypeOK, Stages, FileWhole, Synced, SaveUnneeded, SaveBegin,
                  SaveRefused, Write, Raise, Goto, After
    <2>2. Mirror'
      BY <1>1 DEF IInv, TypeOK, Mirror, SaveUnneeded, SaveBegin, SaveRefused, Write,
                  Raise, Goto, After, Alone
    <2> QED
      BY <2>1, <2>2 DEF IInv
  <1>2. CASE Replace(i)
    <2>1. file' = [value |-> prefs[i], on |-> "disk"] /\ prefs[i] # Torn
      BY <1>2, PreferencesAssumption DEF IInv, TypeOK, Synced, Replace, Renamed
    <2>2. TypeOK' /\ FileWhole' /\ Synced'
      BY <1>2, <2>1 DEF IInv, TypeOK, Stages, FileWhole, Synced, Replace, Goto, After
    <2>3. Mirror'
      BY <1>2, <2>1 DEF IInv, TypeOK, Mirror, Replace, Goto, After, Alone
    <2> QED
      BY <2>2, <2>3 DEF IInv
  <1>3. CASE Clean(i)
    <2>1. TypeOK' /\ FileWhole' /\ Synced'
      BY <1>3 DEF IInv, TypeOK, Stages, FileWhole, Synced, Clean, Removed, Unsaved, Goto, After
    <2>2. Mirror'
      BY <1>3 DEF IInv, TypeOK, Mirror, Clean, Unsaved, Goto, After, Alone
    <2> QED
      BY <2>1, <2>2 DEF IInv
  <1> QED
    BY <1>1, <1>2, <1>3 DEF Saving

(* A process that ends, or all of them at a power loss: what was replaced   *)
(* was on disk.                                                             *)
LEMMA EndKeepsIInv ==
  ASSUME IInv, (\E i \in Instances : End(i)) \/ PowerLoss
  PROVE  IInv'
  <1>1. TypeOK' /\ FileWhole' /\ Synced'
    BY DEF IInv, TypeOK, Stages, FileWhole, Synced, End, PowerLoss, Goto
  <1>2. Mirror'
    BY DEF IInv, TypeOK, Mirror, FileWhole, End, PowerLoss, Goto, Alone
  <1> QED
    BY <1>1, <1>2 DEF IInv

(* The inductive step.                                                      *)
LEMMA StepKeepsIInv == IInv /\ [Next]_vars => IInv'
  <1> SUFFICES ASSUME IInv, [Next]_vars PROVE IInv'
    OBVIOUS
  <1>1. CASE UNCHANGED vars
    BY <1>1 DEF vars, IInv, TypeOK, FileWhole, Synced, Mirror, Alone
  <1>2. ASSUME NEW i \in Instances, Step(i) PROVE IInv'
    BY <1>2, StartKeepsIInv, UserKeepsIInv, GrantedKeepsIInv, SavingKeepsIInv,
       EndKeepsIInv DEF Step
  <1> QED
    BY <1>1, <1>2, EndKeepsIInv DEF Next

(* The invariant of every execution.                                        *)
LEMMA PreferencesHold == Spec => []IInv
  BY PreferencesStart, StepKeepsIInv, PTL DEF Spec

(* ui.json is absent or whole whatever is killed or powered off, for any    *)
(* number of instances and values.                                          *)
THEOREM FileIsWhole == Spec => []FileWhole
  BY PreferencesHold, PTL DEF IInv

(* The types hold, and a temporary file exists only inside a save.          *)
THEOREM PreferencesTypes == Spec => []TypeOK
  BY PreferencesHold, PTL DEF IInv

(* What an instance leaves that has not run beside another one.             *)
LEMMA ExitStep ==
  ASSUME IInv, [Next]_vars
  PROVE  [\A i \in Instances \ shared : LeavesWhatItShows(i)]_vars
  <1> SUFFICES ASSUME NEW i \in Instances \ shared, stage[i] # "bye", stage'[i] = "bye",
                      ~UNCHANGED vars
               PROVE  i \in failed' \/ file'.value = prefs'[i]
    BY DEF LeavesWhatItShows
  <1>1. IInv'
    BY StepKeepsIInv
  <1>2. PICK j \in Instances : Step(j)
    BY PreferencesAssumption DEF Next, PowerLoss, IInv, TypeOK
  <1>3. i \notin shared'
    BY <1>2 DEF Step, Start, Loaded, Change, Saving, SaveUnneeded, SaveBegin, SaveRefused,
                Write, Replace, Raise, Clean, Shutdown, Ask, Refused, Granted, End, Goto,
                IInv, TypeOK
  <1> QED
    BY <1>1, <1>3, PreferencesAssumption DEF IInv, Mirror, TypeOK, Stages

(* An instance that never ran beside another one leaves its preferences in  *)
(* the file when it exits, unless that save itself failed.                  *)
THEOREM PersistedWhenAlone == Spec => PersistedAlone
  <1>1. IInv /\ [Next]_vars => [\A i \in Instances \ shared : LeavesWhatItShows(i)]_vars
    BY ExitStep
  <1> QED
    BY <1>1, PreferencesHold, PTL DEF Spec, PersistedAlone

-----------------------------------------------------------------------------
(* The icons.                                                               *)
USE DEF Slots

(* Nothing is in flight at first.                                           *)
LEMMA IconStarts == IconInit => IconInv
  <1> SUFFICES ASSUME IconInit PROVE IconInv
    OBVIOUS
  <1>1. IsFiniteSet({}) /\ Cardinality({}) = 0
    BY FS_EmptySet
  <1>2. QueueTypes
    BY IconAssumption DEF IconInit, QueueTypes
  <1>3. ~Closed /\ InFlight = 0
    BY DEF IconInit, Closed, InFlight
  <1> QED
    BY <1>1, <1>2, <1>3 DEF IconInit, IconInv, NeverFull, Bounded, JobInv

(* The lengths of well-typed queues are numbers.                            *)
LEMMA Lengths ==
  ASSUME QueueTypes
  PROVE  /\ Len(requests) \in Nat /\ Len(results) \in Nat /\ Len(job) \in Nat
         /\ InFlight \in Nat
  <1>1. Len(requests) \in Nat
    BY LenProperties DEF QueueTypes
  <1>2. Len(results) \in Nat
    BY LenProperties DEF QueueTypes
  <1>3. Len(job) \in Nat
    BY LenProperties DEF QueueTypes
  <1> QED
    BY <1>1, <1>2, <1>3 DEF InFlight

(* Taking from a queue shortens it by one.                                  *)
LEMMA Shorter ==
  ASSUME NEW S, NEW q \in Seq(S), q # <<>>
  PROVE  Head(q) \in S /\ Tail(q) \in Seq(S) /\ Len(Tail(q)) = Len(q) - 1
  BY HeadTailProperties

(* request takes a slot of _pending for what it puts in the queue.          *)
LEMMA RequestKeepsIInv ==
  ASSUME IconInv, NEW p \in Paths, RequestRead(p)
  PROVE  IconInv'
  <1> USE DEF IconInv
  <1>1. IsFiniteSet(pending') /\ Cardinality(pending') = Cardinality(pending) + 1
    BY FS_AddElement DEF RequestRead, MayRequest, Bounded
  <1>2. /\ requests' \in Seq(Paths \cup {Stop}) /\ Len(requests') = Len(requests) + 1
        /\ UNCHANGED <<results, closes, job, gui>> /\ ~Closed /\ ~Closed'
    BY AppendProperties DEF RequestRead, QueueTypes, Closed
  <1>3. QueueTypes'
    BY <1>2 DEF RequestRead, QueueTypes
  <1>4. Cardinality(pending) \in Nat /\ Cardinality(pending) < Slots
    BY FS_CardinalityType DEF Bounded, RequestRead, MayRequest
  <1>5. InFlight' = InFlight + 1
    BY <1>2, Lengths DEF InFlight
  <1>6. Bounded'
    BY <1>1, <1>2, <1>4, <1>5, Lengths DEF Bounded
  <1>7. Len(requests') <= InFlight'
    BY <1>2, <1>3, LenProperties DEF InFlight, QueueTypes
  <1>8. worker' \in {worker, "loop"} /\ (worker' # worker => worker = "none")
    BY DEF RequestRead
  <1>9. JobInv'
    BY <1>2, <1>8 DEF JobInv
  <1>10. NeverFull'
    BY <1>2, <1>5, <1>6, <1>7, <1>8, Lengths DEF NeverFull, Bounded
  <1> QED
    BY <1>3, <1>6, <1>9, <1>10

(* poll gives the slot back with the result it takes.                       *)
LEMMA PollKeepsIInv ==
  ASSUME IconInv, PollTake
  PROVE  IconInv'
  <1> USE DEF IconInv
  <1>1. /\ Head(results) \in Paths /\ results' \in Seq(Paths)
        /\ Len(results') = Len(results) - 1
        /\ UNCHANGED <<requests, closes, worker, job, gui>>
    BY Shorter DEF PollTake, QueueTypes
  <1>2. /\ IsFiniteSet(pending') /\ pending' \subseteq pending
        /\ Cardinality(pending') \in {Cardinality(pending), Cardinality(pending) - 1}
    BY FS_RemoveElement DEF PollTake, Freed, Bounded
  <1>3. Cardinality(pending) \in Nat /\ Cardinality(pending') \in Nat
    BY <1>2, FS_CardinalityType DEF Bounded
  <1>4. QueueTypes'
    BY <1>1, <1>2 DEF QueueTypes
  <1>5. InFlight' = InFlight - 1 /\ Closed' = Closed
    BY <1>1, Lengths DEF InFlight, Closed
  <1>6. Bounded'
    BY <1>1, <1>2, <1>3, <1>5, Lengths DEF Bounded
  <1>7. NeverFull' /\ JobInv'
    BY <1>1, Lengths DEF NeverFull, JobInv
  <1> QED
    BY <1>4, <1>6, <1>7

(* close leaves nothing but the sentinel in the queue of requests.          *)
LEMMA CloseKeepsIInv ==
  ASSUME IconInv, CloseCall \/ DrainTake \/ DrainDone
  PROVE  IconInv'
  <1> USE DEF IconInv
  <1>1. CASE CloseCall
    <2>1. UNCHANGED <<pending, requests, results, worker, job>> /\ gui' = "drain"
      BY <1>1 DEF CloseCall
    <2>2. closes' \in 0..MaxCloses /\ Closed'
      BY <1>1, IconAssumption DEF CloseCall, QueueTypes, Closed
    <2>3. InFlight' <= InFlight /\ InFlight' \in Nat
      BY <2>1, <2>2, Lengths DEF InFlight
    <2>4. QueueTypes' /\ JobInv' /\ NeverFull'
      BY <2>1, <2>2 DEF QueueTypes, JobInv, NeverFull
    <2>5. Bounded'
      BY <2>1, <2>2, <2>3, Lengths DEF Bounded
    <2> QED
      BY <2>4, <2>5
  <1>2. CASE DrainTake
    <2>1. /\ UNCHANGED <<pending, results, closes, worker, job, gui>>
          /\ requests' \in Seq(Paths \cup {Stop}) /\ Len(requests') = Len(requests) - 1
      BY <1>2, Shorter DEF DrainTake, QueueTypes
    <2>2. Closed /\ Closed'
      BY <1>2, <2>1 DEF DrainTake, Bounded, Closed
    <2>3. InFlight' = InFlight
      BY <2>1, <2>2 DEF InFlight
    <2> QED
      BY <2>1, <2>2, <2>3, Lengths DEF QueueTypes, JobInv, NeverFull, Bounded
  <1>3. CASE DrainDone
    <2>1. UNCHANGED <<results, closes, worker, job>> /\ pending' = {} /\ gui' \in {"free", "join"}
      BY <1>3 DEF DrainDone
    <2>2. requests' \in Seq(Paths \cup {Stop}) /\ Len(requests') = 1
      BY <1>3 DEF DrainDone, Sentinel
    <2>3. Closed /\ Closed'
      BY <1>3, <2>1 DEF DrainDone, Bounded, Closed
    <2>4. InFlight' = InFlight
      BY <2>1, <2>3 DEF InFlight
    <2> QED
      BY <2>1, <2>2, <2>3, <2>4, FS_EmptySet DEF QueueTypes, JobInv, NeverFull, Bounded
  <1> QED
    BY <1>1, <1>2, <1>3

(* The worker carries one path at a time from one queue to the other.       *)
LEMMA WorkerKeepsIInv ==
  ASSUME IconInv, Worker \/ ReadReturns
  PROVE  IconInv'
  <1> USE DEF IconInv
  <1>0. UNCHANGED <<pending, closes, gui>> /\ Closed' = Closed
    BY DEF Worker, Loop, Take, Put, ReadReturns, Closed
  <1>1. CASE Loop
    <2>1. UNCHANGED <<requests, results, job>> /\ worker = "loop" /\ worker' \in {"gone", "get"}
      BY <1>1 DEF Loop
    <2>2. InFlight' = InFlight
      BY <1>0, <2>1 DEF InFlight
    <2> QED
      BY <1>0, <2>1, <2>2 DEF QueueTypes, JobInv, NeverFull, Bounded
  <1>2. CASE Take
    <2>1. /\ Head(requests) \in Paths \cup {Stop} /\ requests' \in Seq(Paths \cup {Stop})
          /\ Len(requests') = Len(requests) - 1 /\ results' = results /\ worker = "get"
          /\ Len(job) = 0
      BY <1>2, Shorter DEF Take, QueueTypes, JobInv
    <2>2. CASE Head(requests) = Stop \/ Closed
      <3>1. worker' = "gone" /\ job' = job
        BY <1>2, <2>2 DEF Take
      <3>2. InFlight' <= InFlight /\ InFlight' \in Nat
        BY <1>0, <2>1, <3>1, Lengths DEF InFlight
      <3> QED
        BY <1>0, <2>1, <3>1, <3>2, Lengths, FS_CardinalityType
        DEF QueueTypes, JobInv, NeverFull, Bounded
    <2>3. CASE ~(Head(requests) = Stop \/ Closed)
      <3>1. worker' = "read" /\ job' = <<Head(requests)>> /\ job' \in Seq(Paths) /\ Len(job') = 1
        <4>1. worker' = "read" /\ job' = <<Head(requests)>> /\ Head(requests) \in Paths
          BY <1>2, <2>1, <2>3 DEF Take
        <4> QED
          BY <4>1
      <3>2. InFlight' = Len(job') + Len(results') + Len(requests')
        BY <1>0, <2>3 DEF InFlight
      <3>3. InFlight = Len(job) + Len(results) + Len(requests)
        BY <2>3 DEF InFlight
      <3>4. InFlight' = InFlight
        BY <2>1, <3>1, <3>2, <3>3, Lengths
      <3> QED
        BY <1>0, <2>1, <3>1, <3>4, Lengths DEF QueueTypes, JobInv, NeverFull, Bounded
    <2> QED
      BY <2>2, <2>3
  <1>3. CASE ReadReturns
    <2>1. UNCHANGED <<requests, results>> /\ worker = "read" /\ Len(job) = 1
      BY <1>3 DEF ReadReturns, JobInv
    <2>2. CASE Closed
      <3>1. worker' = "loop" /\ job' = <<>>
        BY <1>3, <2>2 DEF ReadReturns, AfterRead
      <3>2. InFlight' = InFlight - 1
        BY <1>0, <2>1, <2>2, <3>1, Lengths DEF InFlight
      <3> QED
        BY <1>0, <2>1, <2>2, <3>1, <3>2, Lengths DEF QueueTypes, JobInv, NeverFull, Bounded
    <2>3. CASE ~Closed
      <3>1. worker' = "put" /\ job' = job
        BY <1>3, <2>3 DEF ReadReturns, AfterRead
      <3>2. InFlight' = InFlight
        BY <1>0, <2>1, <3>1 DEF InFlight
      <3> QED
        BY <1>0, <2>1, <3>1, <3>2 DEF QueueTypes, JobInv, NeverFull, Bounded
    <2> QED
      BY <2>2, <2>3
  <1>4. CASE Put
    <2>1. requests' = requests /\ job' = <<>> /\ worker = "put" /\ Len(job) = 1
      BY <1>4 DEF Put, JobInv
    <2>2. Len(results) < Slots
      <3>1. 1 + Len(results) <= InFlight
        BY <2>1, Lengths DEF InFlight
      <3> QED
        BY <3>1, Lengths DEF Bounded
    <2>3. worker' = "loop" /\ results' = results \o job
      BY <1>4, <2>2 DEF Put
    <2>4. results' \in Seq(Paths) /\ Len(results') = Len(results) + 1
      BY <2>1, <2>3, ConcatProperties DEF QueueTypes
    <2>5. InFlight' = InFlight
      <3>1. Len(job') = 0
        BY <2>1
      <3> QED
        BY <1>0, <2>1, <2>4, <3>1, Lengths DEF InFlight
    <2> QED
      BY <1>0, <2>1, <2>2, <2>3, <2>4, <2>5, Lengths DEF QueueTypes, JobInv, NeverFull, Bounded
  <1> QED
    BY <1>1, <1>2, <1>3, <1>4 DEF Worker

(* Every step keeps the bound on what is in flight.                         *)
LEMMA IconStep == IconInv /\ [IconNext]_iconVars => IconInv'
  <1> SUFFICES ASSUME IconInv, [IconNext]_iconVars PROVE IconInv'
    OBVIOUS
  <1>1. CASE \E p \in Paths : RequestRead(p)
    BY <1>1, RequestKeepsIInv
  <1>2. CASE PollTake
    BY <1>2, PollKeepsIInv
  <1>3. CASE CloseCall \/ DrainTake \/ DrainDone
    BY <1>3, CloseKeepsIInv
  <1>4. CASE Worker \/ ReadReturns
    BY <1>4, WorkerKeepsIInv
  <1>5. CASE \/ PollCall \/ PollDone \/ JoinReturns \/ UNCHANGED iconVars
             \/ \E p \in Paths : RequestCached(p)
    <2>1. /\ UNCHANGED <<pending, requests, results, closes, worker, job>>
          /\ gui' \in {gui, "poll", "free"}
      BY <1>5 DEF PollCall, PollDone, JoinReturns, RequestCached, iconVars
    <2>2. InFlight' = InFlight /\ Closed' = Closed
      BY <2>1 DEF InFlight, Closed
    <2> QED
      BY <2>1, <2>2 DEF IconInv, QueueTypes, NeverFull, Bounded, JobInv
  <1> QED
    BY <1>1, <1>2, <1>3, <1>4, <1>5 DEF IconNext, Gui

(* No put_nowait of the icon cache ever raises queue.Full.                  *)
THEOREM QueuesNeverFull == IconSpec => []NeverFull
  <1>1. IconInv => NeverFull
    BY DEF IconInv
  <1> QED
    BY <1>1, IconStarts, IconStep, PTL DEF IconSpec
(* A touched path is the last of the cache, where it is named once.         *)
LEMMA TouchedOnce ==
  ASSUME CacheInv, NEW p \in Paths
  PROVE  /\ Touched(p) \in Seq(Paths) /\ IsInjective(Touched(p))
         /\ ToSet(Touched(p)) = Cached \cup {p}
         /\ Len(Touched(p)) = IF p \in Cached THEN Len(cache) ELSE Len(cache) + 1
  <1>1. cache \in Seq(Paths) /\ IsInjective(cache) /\ Len(cache) \in Nat
    BY SeqMembers DEF CacheInv
  <1>2. CASE p \in Cached
    <2>1. Place(p) \in 1..Len(cache) /\ cache[Place(p)] = p
      <3>1. \E k \in DOMAIN cache : cache[k] = p
        BY <1>2 DEF Cached, ToSet
      <3> QED
        BY <1>1, <3>1, SeqMembers DEF Place
    <2>2. Without(p) = RemoveAt(cache, Place(p))
      BY <1>2 DEF Without
    <2>3. /\ Without(p) \in Seq(Paths) /\ IsInjective(Without(p))
          /\ Len(Without(p)) = Len(cache) - 1 /\ ToSet(Without(p)) = Cached \ {p}
      <3>1. /\ RemoveAt(cache, Place(p)) \in Seq(Paths)
            /\ Len(RemoveAt(cache, Place(p))) = Len(cache) - 1
        <4>1. ASSUME NEW k \in 1..Len(cache)
              PROVE  RemoveAt(cache, k) \in Seq(Paths) /\ Len(RemoveAt(cache, k)) = Len(cache) - 1
          BY <1>1, RemovedPlace
        <4> QED
          BY <2>1, <4>1
      <3>2. /\ IsInjective(RemoveAt(cache, Place(p)))
            /\ ToSet(RemoveAt(cache, Place(p))) = ToSet(cache) \ {cache[Place(p)]}
        BY <1>1, <2>1, RemovedDistinct
      <3> QED
        BY <2>1, <2>2, <3>1, <3>2 DEF Cached
    <2> QED
      BY <1>1, <1>2, <2>3, Appended DEF Touched
  <1>3. CASE p \notin Cached
    <2>1. Without(p) = cache
      BY <1>3 DEF Without
    <2> QED
      BY <1>1, <1>3, <2>1, Appended DEF Touched, Cached
  <1> QED
    BY <1>2, <1>3

(* Only a request and a poll change the cache.                              *)
LEMMA CacheKept ==
  ASSUME FlowInv, [IconNext]_iconVars
  PROVE  CacheInv'
  <1>1. CASE cache' = cache
    BY <1>1 DEF FlowInv, CacheInv
  <1>2. ASSUME NEW p \in Paths, RequestCached(p)
        PROVE  CacheInv'
    <2>1. cache' = Touched(p) /\ p \in Cached
      BY <1>2 DEF RequestCached
    <2> QED
      BY <2>1, TouchedOnce DEF FlowInv, CacheInv
  <1>3. CASE PollTake /\ ~Closed
    <2> DEFINE h == Head(results)
    <2>1. h \in Paths
      BY <1>3, Taken DEF PollTake, FlowInv, IconInv, QueueTypes
    <2>2. cache' = IF Overfull(Touched(h)) THEN Tail(Touched(h)) ELSE Touched(h)
      BY <1>3 DEF PollTake
    <2>3. /\ Touched(h) \in Seq(Paths) /\ IsInjective(Touched(h))
          /\ Len(Touched(h)) \in Nat /\ Len(Touched(h)) <= Capacity + 1
      <3>1. Len(cache) \in Nat /\ Len(cache) <= Capacity /\ Capacity \in Nat
        BY SeqMembers, IconAssumption DEF FlowInv, CacheInv
      <3> QED
        BY <2>1, <3>1, TouchedOnce DEF FlowInv
    <2> HIDE DEF h
    <2>4. CASE Overfull(Touched(h))
      <3>1. Touched(h) # <<>>
        BY <2>3, <2>4, IconAssumption, EmptySeq DEF Overfull
      <3> QED
        BY <2>2, <2>3, <2>4, <3>1, Taken, IconAssumption DEF CacheInv
    <2>5. CASE ~Overfull(Touched(h))
      BY <2>2, <2>3, <2>5, IconAssumption DEF CacheInv, Overfull
    <2> QED
      BY <2>4, <2>5
  <1>4. CASE PollTake /\ Closed
    BY <1>1, <1>4 DEF PollTake
  <1> QED
    BY <1>1, <1>2, <1>3, <1>4
    DEF IconNext, Gui, Worker, iconVars, RequestRead, PollCall, PollDone, CloseCall, DrainTake,
        DrainDone, JoinReturns, Loop, Take, Put, ReadReturns

(* A request enters the queue of requests and _pending together.            *)
LEMMA RequestKeepsFlight ==
  ASSUME FlowInv, NEW p \in Paths, RequestRead(p)
  PROVE  FlightInv'
  <1> SUFFICES ASSUME ~Closed PROVE FlightInv'
    BY DEF RequestRead, FlightInv, Closed
  <1>1. /\ requests' = Append(requests, p) /\ pending' = pending \cup {p}
        /\ UNCHANGED <<cache, results, job>> /\ p \notin Cached /\ p \notin pending
    BY DEF RequestRead, MayRequest
  <1>2. /\ IsInjective(requests) /\ IsInjective(results)
        /\ ToSet(requests) \cap ToSet(job) = {} /\ ToSet(requests) \cap ToSet(results) = {}
        /\ ToSet(job) \cap ToSet(results) = {}
        /\ pending = ToSet(requests) \cup ToSet(job) \cup ToSet(results)
        /\ pending \cap Cached = {}
    BY DEF FlowInv, FlightInv
  <1>3. /\ ToSet(requests') = ToSet(requests) \cup {p}
        /\ p \notin ToSet(requests) => IsInjective(requests')
    BY <1>1, <1>2, Appended DEF FlowInv, IconInv, QueueTypes
  <1>4. Cached' = Cached
    BY <1>1 DEF Cached
  <1> QED
    BY <1>1, <1>2, <1>3, <1>4, Zenon DEF FlightInv

(* poll takes a result out of _pending before it is in the cache.           *)
LEMMA PollKeepsFlight ==
  ASSUME FlowInv, PollTake
  PROVE  FlightInv'
  <1> SUFFICES ASSUME ~Closed PROVE FlightInv'
    BY DEF PollTake, FlightInv, Closed
  <1> DEFINE h == Head(results)
  <1>1. /\ results' = Tail(results) /\ pending' = pending \ {h} /\ UNCHANGED <<requests, job>>
        /\ cache' = IF Overfull(Touched(h)) THEN Tail(Touched(h)) ELSE Touched(h)
    BY DEF PollTake, Freed
  <1>2. /\ IsInjective(requests) /\ IsInjective(results)
        /\ ToSet(requests) \cap ToSet(job) = {} /\ ToSet(requests) \cap ToSet(results) = {}
        /\ ToSet(job) \cap ToSet(results) = {}
        /\ pending = ToSet(requests) \cup ToSet(job) \cup ToSet(results)
        /\ pending \cap Cached = {}
    BY DEF FlowInv, FlightInv
  <1>3. h \in Paths /\ h \in ToSet(results) /\ IsInjective(results') /\ ToSet(results') = ToSet(results) \ {h}
    BY <1>1, <1>2, Taken DEF PollTake, FlowInv, IconInv, QueueTypes
  <1> HIDE DEF h
  <1>4. Cached' \subseteq Cached \cup {h}
    <2>1. Touched(h) \in Seq(Paths) /\ ToSet(Touched(h)) = Cached \cup {h}
      BY <1>3, TouchedOnce DEF FlowInv
    <2>2. CASE Overfull(Touched(h))
      <3>1. Touched(h) # <<>>
        BY <2>2, EmptySeq, IconAssumption DEF Overfull
      <3> QED
        BY <1>1, <2>1, <2>2, <3>1, Taken DEF Cached
    <2>3. CASE ~Overfull(Touched(h))
      BY <1>1, <2>1, <2>3 DEF Cached
    <2> QED
      BY <2>2, <2>3
  <1> QED
    BY <1>1, <1>2, <1>3, <1>4, Zenon DEF FlightInv

(* Through the worker a path is first in one queue, then with it, then in   *)
(* the other queue.                                                         *)
LEMMA WorkerKeepsFlight ==
  ASSUME FlowInv, Take \/ ReadReturns \/ Put
  PROVE  FlightInv'
  <1> SUFFICES ASSUME ~Closed PROVE FlightInv'
    BY DEF Take, ReadReturns, Put, FlightInv, Closed
  <1>1. /\ IsInjective(requests) /\ IsInjective(results)
        /\ ToSet(requests) \cap ToSet(job) = {} /\ ToSet(requests) \cap ToSet(results) = {}
        /\ ToSet(job) \cap ToSet(results) = {}
        /\ pending = ToSet(requests) \cup ToSet(job) \cup ToSet(results)
        /\ pending \cap Cached = {}
    BY DEF FlowInv, FlightInv
  <1>2. UNCHANGED <<pending, cache>> /\ Cached' = Cached
    BY DEF Take, ReadReturns, Put, Cached
  <1>3. CASE Take
    <2> DEFINE h == Head(requests)
    <2>1. /\ h \in ToSet(requests) /\ IsInjective(Tail(requests))
          /\ ToSet(Tail(requests)) = ToSet(requests) \ {h}
      BY <1>1, <1>3, Taken DEF Take, FlowInv, IconInv, QueueTypes
    <2>2. h # Stop
      BY <1>1, <2>1, IconAssumption DEF FlowInv, IconInv, QueueTypes
    <2>3. requests' = Tail(requests) /\ job' = <<h>> /\ results' = results
      BY <1>3, <2>2 DEF Take
    <2>4. ToSet(job) = {} /\ ToSet(job') = {h}
      <3>1. job = <<>>
        BY <1>3, EmptySeq DEF Take, FlowInv, IconInv, JobInv, QueueTypes
      <3> QED
        BY <2>3, <3>1 DEF ToSet
    <2> HIDE DEF h
    <2> QED
      BY <1>1, <1>2, <2>1, <2>3, <2>4, Zenon DEF FlightInv
  <1>4. CASE ReadReturns
    <2>1. UNCHANGED <<requests, results, job>>
      BY <1>4 DEF ReadReturns
    <2> QED
      BY <1>1, <1>2, <2>1 DEF FlightInv
  <1>5. CASE Put
    <2>1. Len(job) = 1 /\ job \in Seq(Paths) /\ results \in Seq(Paths)
      BY <1>5 DEF Put, FlowInv, IconInv, JobInv, QueueTypes
    <2>2. Len(results) < Slots
      <3>1. 1 + Len(results) <= InFlight
        BY <2>1, Lengths DEF InFlight, FlowInv, IconInv
      <3> QED
        BY <3>1, Lengths DEF Bounded, FlowInv, IconInv
    <2>3. results' = results \o job /\ job' = <<>> /\ requests' = requests
      BY <1>5, <2>2 DEF Put
    <2>4. IsInjective(job)
      BY <2>1, SeqMembers DEF IsInjective
    <2>5. IsInjective(results') /\ ToSet(results') = ToSet(results) \cup ToSet(job)
      BY <1>1, <2>1, <2>3, <2>4, Joined
    <2>6. ToSet(job') = {}
      BY <2>3 DEF ToSet
    <2> QED
      BY <1>1, <1>2, <2>3, <2>5, <2>6, Zenon DEF FlightInv
  <1> QED
    BY <1>3, <1>4, <1>5

(* Nothing is lost and nothing is read twice, until the cache is closed.    *)
LEMMA FlowKept == FlowInv /\ [IconNext]_iconVars => FlowInv'
  <1> SUFFICES ASSUME FlowInv, [IconNext]_iconVars PROVE FlowInv'
    OBVIOUS
  <1>1. IconInv' /\ CacheInv'
    BY IconStep, CacheKept DEF FlowInv
  <1>2. CASE \E p \in Paths : RequestRead(p)
    BY <1>1, <1>2, RequestKeepsFlight DEF FlowInv
  <1>3. CASE PollTake
    BY <1>1, <1>3, PollKeepsFlight DEF FlowInv
  <1>4. CASE Take \/ ReadReturns \/ Put
    BY <1>1, <1>4, WorkerKeepsFlight DEF FlowInv
  <1>5. CASE CloseCall \/ DrainTake \/ DrainDone
    <2>1. Closed'
      BY <1>5, IconAssumption DEF CloseCall, DrainTake, DrainDone, Closed, FlowInv, IconInv,
                                  QueueTypes, Bounded
    <2> QED
      BY <1>1, <2>1 DEF FlowInv, FlightInv
  <1>6. CASE \E p \in Paths : RequestCached(p)
    <2>1. PICK p \in Paths : RequestCached(p)
      BY <1>6
    <2>2. Cached' = Cached
      <3>1. cache' = Touched(p) /\ p \in Cached
        BY <2>1 DEF RequestCached
      <3>2. ToSet(Touched(p)) = Cached \cup {p}
        BY TouchedOnce DEF FlowInv
      <3> QED
        BY <3>1, <3>2 DEF Cached
    <2>3. UNCHANGED <<pending, requests, results, job>> /\ Closed' = Closed
      BY <2>1 DEF RequestCached, Closed
    <2> QED
      BY <1>1, <2>2, <2>3 DEF FlowInv, FlightInv
  <1>7. CASE PollCall \/ PollDone \/ JoinReturns \/ Loop \/ UNCHANGED iconVars
    <2>1. UNCHANGED <<cache, pending, requests, results, job>> /\ Closed' = Closed
      BY <1>7 DEF PollCall, PollDone, JoinReturns, Loop, iconVars, Closed
    <2>2. Cached' = Cached
      BY <2>1 DEF Cached
    <2> QED
      BY <1>1, <2>1, <2>2 DEF FlowInv, FlightInv
  <1> QED
    BY <1>2, <1>3, <1>4, <1>5, <1>6, <1>7 DEF IconNext, Gui, Worker

(* The cache starts empty, with nothing in flight.                          *)
LEMMA FlowStarts == IconInit => FlowInv
  <1> SUFFICES ASSUME IconInit PROVE FlowInv
    OBVIOUS
  <1>1. ToSet(<<>>) = {} /\ IsInjective(<<>>)
    BY DEF ToSet, IsInjective
  <1>2. CacheInv
    BY <1>1, IconAssumption DEF IconInit, CacheInv
  <1>3. FlightInv
    BY <1>1 DEF IconInit, FlightInv, Cached
  <1> QED
    BY <1>2, <1>3, IconStarts DEF FlowInv

(* The icon cache names a path once and no more paths than it may keep.     *)
THEOREM CacheStaysBounded == IconSpec => []CacheBounded
  <1>1. FlowInv => CacheBounded
    <2> SUFFICES ASSUME FlowInv PROVE CacheBounded
      OBVIOUS
    <2>1. cache \in Seq(Paths) /\ IsInjective(cache) /\ Len(cache) <= Capacity
      BY DEF FlowInv, CacheInv
    <2> QED
      BY <2>1, DistinctCount DEF CacheBounded, Cached
  <1> QED
    BY <1>1, FlowStarts, FlowKept, PTL DEF IconSpec

(* Until the cache is closed, _pending is the work in flight, each path of  *)
(* it in one place and none of it cached.                                   *)
THEOREM PendingIsTheWork == IconSpec => []PendingIsInFlight
  <1>1. FlowInv => PendingIsInFlight
    <2> SUFFICES ASSUME FlowInv, ~Closed PROVE PendingIsInFlight
      BY DEF PendingIsInFlight
    <2>1. /\ IsInjective(requests) /\ IsInjective(results)
          /\ ToSet(requests) \cap ToSet(job) = {} /\ ToSet(requests) \cap ToSet(results) = {}
          /\ ToSet(job) \cap ToSet(results) = {}
          /\ pending = ToSet(requests) \cup ToSet(job) \cup ToSet(results)
          /\ pending \cap Cached = {}
      BY DEF FlowInv, FlightInv
    <2>2. requests \in Seq(Paths \cup {Stop}) /\ results \in Seq(Paths \cup {Stop})
      BY SeqMonotonic DEF FlowInv, IconInv, QueueTypes
    <2>3. job \in Seq(Paths \cup {Stop}) /\ Len(job) \in {0, 1}
      <3>1. job \in Seq(Paths) /\ Len(job) \in {0, 1}
        BY DEF FlowInv, IconInv, QueueTypes, JobInv
      <3> QED
        BY <3>1, SeqMonotonic
    <2>4. IsInjective(job)
      BY <2>3, SeqMembers DEF IsInjective
    <2>5. /\ requests \o job \in Seq(Paths \cup {Stop}) /\ IsInjective(requests \o job)
          /\ ToSet(requests \o job) = ToSet(requests) \cup ToSet(job)
      BY <2>1, <2>2, <2>3, <2>4, Joined
    <2> DEFINE flight == requests \o job \o results
    <2>6. /\ flight \in Seq(Paths \cup {Stop}) /\ IsInjective(flight)
          /\ ToSet(flight) = ToSet(requests \o job) \cup ToSet(results)
      <3>1. ToSet(requests \o job) \cap ToSet(results) = {}
        BY <2>1, <2>5
      <3> QED
        <4>1. ASSUME NEW s \in Seq(Paths \cup {Stop}), IsInjective(s), ToSet(s) \cap ToSet(results) = {}
              PROVE  /\ s \o results \in Seq(Paths \cup {Stop}) /\ IsInjective(s \o results)
                     /\ ToSet(s \o results) = ToSet(s) \cup ToSet(results)
          BY <2>1, <2>2, <4>1, Joined
        <4> QED
          BY <2>5, <3>1, <4>1
    <2> HIDE DEF flight
    <2>7. ToSet(flight) = pending /\ Len(flight) = Cardinality(pending)
      BY <2>1, <2>5, <2>6, DistinctCount
    <2> QED
      BY <2>1, <2>7 DEF PendingIsInFlight, flight
  <1> QED
    BY <1>1, FlowStarts, FlowKept, PTL DEF IconSpec

(* Every variable of the icon cache keeps its type.                         *)
THEOREM IconTypes == IconSpec => []IconTypeOK
  <1>1. FlowInv => IconTypeOK
    BY DEF FlowInv, IconInv, CacheInv, IconTypeOK
  <1> QED
    BY <1>1, FlowStarts, FlowKept, PTL DEF IconSpec
-----------------------------------------------------------------------------
(* The probe.                                                               *)
LEMMA ZeroIsCounts == Zero \in [Directions -> Nat] /\ Zero # None
  <1>1. Zero \in [Directions -> Nat]
    BY DEF Zero
  <1> QED
    BY <1>1, NoneIsNoNumber

LEMMA ProbeStarts == ProbeInit => ProbeInv
  BY NoneIsNoNumber, ZeroIsCounts
  DEF ProbeInit, ProbeInv, CountsInv, BaselineInv, MeasureInv, OutcomeInv, Alive, Starting,
      Waiting, Measuring, Zero

(* What collect counts: nothing it was not given, nothing at first and      *)
(* nothing new after a failed check, all of it from a baseline of zero, and *)
(* only what grew comes with a rate.                                        *)
LEMMA CountedBytes ==
  ASSUME CountsInv, NEW ok \in BOOLEAN, Counted(ok)
  PROVE  /\ Bytes(ok) \in [Directions -> Nat] /\ Bytes(ok) # None
         /\ Baselined \in [Directions -> Nat] /\ Baselined # None
         /\ \A d \in Directions : Bytes(ok)[d] <= totals[d] /\ Baselined[d] <= totals[d]
         /\ base = None => Bytes(ok) = Zero
         /\ base # None /\ needs => Bytes(ok) = last
         /\ base = Zero /\ ~needs =>
                Baselined = Zero /\ \A d \in Directions : Bytes(ok)[d] = totals[d]
         /\ \A d \in Rising(ok) : Bytes(ok)[d] > 0
  <1>1. Bytes(ok) = [d \in Directions |-> totals[d] - Baselined[d]]
    BY DEF Bytes
  <1>2. \A d \in Directions : totals[d] \in Nat /\ last[d] \in Nat /\ last[d] <= totals[d]
    BY DEF CountsInv
  <1>3. Baselined \in [Directions -> Nat] /\ \A d \in Directions : Baselined[d] <= totals[d]
    <2>1. CASE base = None
      BY <2>1, <1>2 DEF Baselined, CountsInv
    <2>2. CASE base # None /\ needs
      <3>1. Baselined = [d \in Directions |-> totals[d] - last[d]]
        BY <2>2 DEF Baselined
      <3>2. \A d \in Directions : totals[d] - last[d] \in Nat /\ totals[d] - last[d] <= totals[d]
        BY <1>2
      <3> QED
        BY <3>1, <3>2
    <2>3. CASE base # None /\ ~needs
      BY <2>3 DEF Baselined, CountsInv
    <2> QED
      BY <2>1, <2>2, <2>3
  <1>4. \A d \in Directions :
            /\ Bytes(ok)[d] \in Nat /\ Bytes(ok)[d] <= totals[d]
            /\ base = None => Bytes(ok)[d] = 0
            /\ base # None /\ needs => Bytes(ok)[d] = last[d]
            /\ base = Zero /\ ~needs => Bytes(ok)[d] = totals[d]
    <2> SUFFICES ASSUME NEW d \in Directions
                 PROVE  /\ Bytes(ok)[d] \in Nat /\ Bytes(ok)[d] <= totals[d]
                        /\ base = None => Bytes(ok)[d] = 0
                        /\ base # None /\ needs => Bytes(ok)[d] = last[d]
                        /\ base = Zero /\ ~needs => Bytes(ok)[d] = totals[d]
      OBVIOUS
    <2>1. /\ Bytes(ok)[d] = totals[d] - Baselined[d]
          /\ Baselined[d] \in Nat /\ Baselined[d] <= totals[d]
          /\ totals[d] \in Nat /\ last[d] \in Nat
      BY <1>1, <1>2, <1>3
    <2>2. /\ base = None => Baselined[d] = totals[d]
          /\ base # None /\ needs => Baselined[d] = totals[d] - last[d]
          /\ base = Zero /\ ~needs => Baselined[d] = 0
      BY ZeroIsCounts DEF Baselined, Zero
    <2> QED
      BY <2>1, <2>2
  <1>5. Bytes(ok) \in [Directions -> Nat]
    BY <1>1, <1>4
  <1>6. base = None => Bytes(ok) = Zero
    BY <1>1, <1>4 DEF Zero
  <1>7. base # None /\ needs => Bytes(ok) = last
    BY <1>1, <1>4 DEF CountsInv
  <1>8. base = Zero /\ ~needs => Baselined = Zero
    BY ZeroIsCounts DEF Baselined
  <1>9. \A d \in Rising(ok) : Bytes(ok)[d] > 0
    BY <1>2, <1>5 DEF Rising
  <1> QED
    BY <1>3, <1>4, <1>5, <1>6, <1>7, <1>8, <1>9, NoneIsNoNumber

(* What collect leaves behind: a session that failed is not alive any more, *)
(* an excuse stays, a failed check is one while Windows knows the process,  *)
(* and a baseline of zero stays one without it.                             *)
LEMMA CollectStep ==
  ASSUME CountsInv, NEW ok \in BOOLEAN, Collect(ok), UNCHANGED <<totals, child, lingers>>
  PROVE  /\ last' \in [Directions -> Nat] /\ \A d \in Directions : last'[d] <= totals[d]
         /\ base' # None => base' \in [Directions -> Nat] /\ \A d \in Directions : base'[d] <= totals[d]
         /\ Alive' => session = "running" /\ Alive
         /\ excuses \subseteq excuses'
         /\ needs' => base' # None /\ ("identity" \in excuses' \/ ~Known')
         /\ base = Zero /\ "identity" \notin excuses' => base' = Zero
         /\ Counted(ok) /\ "identity" \notin excuses' => ~needs
         /\ Alive' /\ Known /\ "identity" \notin excuses' => Counted(ok)
         /\ last' = IF Counted(ok) THEN Bytes(ok) ELSE last
  <1>1. Known' = Known
    BY DEF Known, Running
  <1>2. /\ excuses \subseteq excuses'
        /\ session = "running" /\ Known /\ ~ok => "identity" \in excuses'
        /\ Alive' => session = "running" /\ Alive
    BY DEF Collect, Excuses, Alive
  <1>3. Counted(ok) /\ "identity" \notin excuses' => ~needs
    BY <1>2 DEF CountsInv, Collect, Counted
  <1>4. base = Zero /\ "identity" \notin excuses' => base' = Zero
    BY <1>3, CountedBytes DEF Collect
  <1>5. needs' => base' # None /\ ("identity" \in excuses' \/ ~Known')
    <2>1. CASE session = "running"
      BY <2>1, <1>1, <1>2, CountedBytes DEF Collect, Counted
    <2>2. CASE session # "running"
      BY <2>2, <1>1, <1>2 DEF Collect, Counted, CountsInv
    <2> QED
      BY <2>1, <2>2
  <1>6. Alive' /\ Known /\ "identity" \notin excuses' => Counted(ok)
    BY <1>2 DEF Counted
  <1>7. CASE Counted(ok)
    BY <1>2, <1>3, <1>4, <1>5, <1>6, <1>7, CountedBytes DEF Collect
  <1>8. CASE ~Counted(ok)
    BY <1>2, <1>3, <1>4, <1>5, <1>6, <1>8 DEF Collect, CountsInv
  <1> QED
    BY <1>7, <1>8

(* The child, the server and ETW move.                                      *)
World ==
    \/ ChildReports \/ ChildSends \/ ChildDone \/ ChildDies
    \/ ServerAccepts \/ ServerReplies \/ ServerEnds \/ ServerFails
    \/ SessionFails \/ \E d \in Directions : Deliver(d)

LEMMA WorldCounts ==
  ASSUME ProbeInv, World
  PROVE  /\ CountsInv'
         /\ \A d \in Directions : totals[d] <= totals'[d]
         /\ held = Zero /\ (child \in {"none", "starting", "ready", "bad"}) => totals' = totals /\ held' = Zero
         /\ UNCHANGED <<at, outcome, latest, peak, quiet, due, elapsed, base, last, needs,
                        excuses, lingers>>
         /\ Alive' => Alive
  <1>1. CASE \E d \in Directions : Deliver(d)
    <2> PICK d \in Directions : Deliver(d)
      BY <1>1
    <2>1. \A e \in Directions : totals'[e] \in Nat /\ totals[e] <= totals'[e] /\ held'[e] \in Nat
      BY DEF ProbeInv, CountsInv, Deliver
    <2>2. held' \in [Directions -> Nat] /\ totals' \in [Directions -> Nat]
      BY <2>1 DEF ProbeInv, CountsInv, Deliver
    <2>3. held # Zero
      BY DEF ProbeInv, CountsInv, Deliver, Zero
    <2>4. UNCHANGED <<at, outcome, latest, peak, quiet, due, elapsed, base, last, needs, excuses,
                      lingers, session, child>>
      BY DEF Deliver, parentVars, measureVars, childVars, collectorVars
    <2>5. /\ base' # None => /\ base' \in [Directions -> Nat]
                             /\ \A e \in Directions : base'[e] <= totals'[e]
          /\ latest' # None => /\ latest' \in [Directions -> Nat]
                               /\ \A e \in Directions : latest'[e] <= totals'[e]
      BY <2>1, <2>4 DEF ProbeInv, CountsInv
    <2>6. last' \in [Directions -> Nat] /\ \A e \in Directions : last'[e] <= totals'[e]
      BY <2>1, <2>4 DEF ProbeInv, CountsInv
    <2> QED
      BY <2>1, <2>2, <2>3, <2>4, <2>5, <2>6 DEF ProbeInv, CountsInv, Alive, Known, Running
  <1>2. CASE ChildSends \/ ServerReplies
    <2>1. held' \in [Directions -> Nat]
      BY <1>2, ProbeAssumption DEF ProbeInv, CountsInv, ChildSends, ServerReplies
    <2> QED
      BY <1>2, <2>1 DEF ProbeInv, CountsInv, ChildSends, ServerReplies, ChildStep, Alive,
                        Known, Running, parentVars, measureVars, childVars, collectorVars
  <1>3. CASE ChildReports \/ ChildDone \/ ChildDies \/ ServerAccepts \/ ServerEnds \/ ServerFails \/ SessionFails
    BY <1>3 DEF ProbeInv, CountsInv, ChildReports, ChildDone, ChildDies, ServerAccepts,
                ServerEnds, ServerFails, SessionFails, ChildStep, Alive, Known, Running, parentVars, measureVars,
                collectorVars, childVars
  <1> QED
    BY <1>1, <1>2, <1>3 DEF World

LEMMA WorldKeepsProbeInv == ASSUME ProbeInv, World PROVE ProbeInv'
  <1> USE WorldCounts
  <1>1. /\ child = "ok" => child' = "ok"
        /\ child' # "bad" => child # "bad"
        /\ child \in {"none", "starting", "ready", "bad"} => child' \in {child, "ready", "bad"}
        /\ child \in {"ready", "bad"} => child' \in {"ready", "bad"}
        /\ child = "none" => child' = "none"
        /\ child \in {"told", "sent", "ok", "bad"} => child' \in {"told", "sent", "ok", "bad"}
        /\ server = "ended" => server' = "ended"
        /\ session = "none" => session' = "none"
    BY DEF World, ChildReports, ChildSends, ChildDone, ChildDies, ServerAccepts, ServerReplies,
           ServerEnds, ServerFails, SessionFails, Deliver, ChildStep, Running, Serving, childVars,
           collectorVars
  <1>2. BaselineInv'
    BY <1>1 DEF ProbeInv, BaselineInv, Starting, Measuring, Zero
  <1>3. MeasureInv' /\ OutcomeInv'
    <2>1. \A d \in Directions : totals[d] > 0 => totals'[d] > 0
      BY DEF ProbeInv, CountsInv
    <2> QED
      BY <1>1, <2>1 DEF ProbeInv, CountsInv, MeasureInv, OutcomeInv, Waiting, Starting, Measuring,
                        Both, Zero
  <1> QED
    BY <1>2, <1>3 DEF ProbeInv

(* The steps before the exchange.                                           *)
LEMMA PreparingKeepsProbeInv ==
  ASSUME ProbeInv, StartProbe \/ Spawn \/ Identify \/ Signal PROVE ProbeInv'
  <1>1. CountsInv'
    <2>1. UNCHANGED <<held, totals, last, base, latest, peak, due, needs, excuses, lingers>>
      BY DEF StartProbe, Spawn, Identify, Signal, measureVars, collectorVars
    <2>2. Known' => Known \/ base = None
      BY DEF ProbeInv, BaselineInv, Starting, StartProbe, Spawn, Identify, Signal, Known, Running,
             childVars
    <2> QED
      BY <2>1, <2>2 DEF ProbeInv, CountsInv
  <1>2. BaselineInv'
    BY DEF ProbeInv, BaselineInv, StartProbe, Spawn, Identify, Signal, Go, Fail, Alive, Starting,
           Measuring, measureVars, childVars, collectorVars
  <1>3. MeasureInv'
    BY DEF ProbeInv, MeasureInv, StartProbe, Spawn, Identify, Signal, Go, Fail, Starting, Waiting,
           Measuring, measureVars, childVars, collectorVars
  <1>4. OutcomeInv'
    BY NoneIsNoNumber
    DEF ProbeInv, MeasureInv, OutcomeInv, StartProbe, Spawn, Identify, Signal, Go, Fail, Starting,
        Waiting, measureVars, childVars, collectorVars
  <1> QED
    BY <1>1, <1>2, <1>3, <1>4 DEF ProbeInv

LEMMA BaselineKeepsProbeInv == ASSUME ProbeInv, Baseline PROVE ProbeInv'
  <1> PICK ok \in BOOLEAN : Collect(ok)
    BY DEF Baseline
  <1>1. /\ at = "baseline" /\ at' = "signal"
        /\ UNCHANGED <<outcome, latest, peak, quiet, due, elapsed, child, killed, server, stop,
                       held, totals, lingers>>
    BY DEF Baseline, Go, measureVars, childVars
  <1>2. /\ totals = Zero /\ held = Zero /\ base = None /\ last = Zero
        /\ latest = None /\ peak = {} /\ due = {} /\ outcome = None /\ "clock" \notin excuses
        /\ child \in {"ready", "bad"}
    BY <1>1 DEF ProbeInv, BaselineInv, MeasureInv, Starting, Waiting
  <1>3. last' = Zero
    BY <1>1, <1>2, CountedBytes, CollectStep DEF ProbeInv
  <1>4. child # "bad" /\ Alive' => "identity" \in excuses' \/ base' = Zero
    BY <1>1, <1>2, CollectStep DEF ProbeInv, Collect, Baselined, Known, Running
  <1>5. CountsInv'
    BY <1>1, CollectStep DEF ProbeInv, CountsInv
  <1>6. BaselineInv'
    BY <1>1, <1>2, <1>4 DEF BaselineInv, Starting, Measuring, Zero
  <1>7. "clock" \notin excuses'
    BY <1>2 DEF Collect, Excuses
  <1>8. MeasureInv' /\ OutcomeInv'
    BY <1>1, <1>2, <1>3, <1>7, NoneIsNoNumber
    DEF MeasureInv, OutcomeInv, Starting, Waiting, Measuring, Zero
  <1> QED
    BY <1>5, <1>6, <1>8 DEF ProbeInv

LEMMA ExchangedKeepsProbeInv == ASSUME ProbeInv, Exchanged PROVE ProbeInv'
  <1>1. /\ at = "wait"
        /\ UNCHANGED <<latest, peak, quiet, child, killed, server, stop, held, totals, session,
                       closed, base, last, needs, excuses, lingers>>
        /\ \/ /\ child = "ok" /\ server = "ended"
              /\ at' = "measure" /\ outcome' = outcome
              /\ due' = {d \in Directions : totals[d] > 0}
           \/ at' = "stop" /\ outcome' = 1 /\ due' = due
    BY DEF Exchanged, Go, Fail, childVars, collectorVars
  <1>2. /\ last = Zero /\ latest = None /\ outcome = None
    BY <1>1 DEF ProbeInv, MeasureInv, Waiting
  <1>3. CountsInv' /\ BaselineInv'
    BY <1>1 DEF ProbeInv, CountsInv, BaselineInv, Alive, Known, Running, Starting, Measuring
  <1>4. MeasureInv' /\ OutcomeInv'
    BY <1>1, <1>2, NoneIsNoNumber DEF MeasureInv, OutcomeInv, Waiting, Starting, Measuring, Zero
  <1> QED
    BY <1>3, <1>4 DEF ProbeInv

(* A poll: the bytes it reports come with a rate, now or in an earlier one, *)
(* if the clock moved, and a session that is still alive reports what was   *)
(* due unless the check fails.                                              *)
LEMMA MeasureKeepsProbeInv ==
  ASSUME ProbeInv, NEW late \in BOOLEAN, NEW ok \in BOOLEAN, Measure(late, ok) PROVE ProbeInv'
  <1>1. /\ at = "measure" /\ at' \in {"idle", "measure"} /\ outcome' = outcome /\ Collect(ok)
        /\ latest' = Bytes(ok) /\ peak' = peak \cup Rising(ok)
        /\ UNCHANGED <<quiet, due, child, killed, server, stop, held, totals, lingers>>
    BY DEF Measure, Go, childVars
  <1>2. /\ child = "ok" /\ server = "ended" /\ outcome = None
        /\ \A d \in due : totals[d] > 0
        /\ "clock" \notin excuses => \A d \in Directions : last[d] > 0 => d \in peak
    BY <1>1 DEF ProbeInv, MeasureInv, Measuring
  <1>3. /\ excuses \subseteq excuses'
        /\ Alive' /\ "identity" \notin excuses' => base = Zero /\ base' = Zero
    <2>1. /\ Alive' => Alive
          /\ excuses \subseteq excuses'
          /\ base = Zero /\ "identity" \notin excuses' => base' = Zero
      BY <1>1, CollectStep DEF ProbeInv
    <2>2. Alive => "identity" \in excuses \/ base = Zero
      BY <1>1, <1>2 DEF ProbeInv, BaselineInv, Measuring
    <2> QED
      BY <2>1, <2>2
  <1>4. CountsInv'
    <2>1. peak' \subseteq Directions
      BY <1>1 DEF ProbeInv, CountsInv, Rising
    <2>2. latest' # None => /\ latest' \in [Directions -> Nat]
                           /\ \A d \in Directions : latest'[d] <= totals[d]
      BY <1>1, CountedBytes DEF ProbeInv, Bytes
    <2> QED
      BY <1>1, <2>1, <2>2, CollectStep DEF ProbeInv, CountsInv
  <1>5. BaselineInv'
    BY <1>1, <1>2, <1>3 DEF BaselineInv, Starting, Measuring
  <1>6. Counted(ok) /\ "clock" \notin excuses' => \A d \in Directions : Bytes(ok)[d] > 0 => d \in peak'
    <2> SUFFICES ASSUME Counted(ok), "clock" \notin excuses', NEW d \in Directions, Bytes(ok)[d] > 0
                 PROVE  d \in peak'
      OBVIOUS
    <2>1. base # None
      BY CountedBytes DEF ProbeInv, Zero
    <2>2. Bytes(ok)[d] \in Nat /\ last[d] \in Nat
      BY CountedBytes DEF ProbeInv, CountsInv
    <2>3. elapsed
      BY <1>1, <2>1 DEF Collect, Excuses
    <2>4. last[d] > 0 => d \in peak
      BY <1>2, <1>3
    <2> QED
      BY <1>1, <2>1, <2>2, <2>3, <2>4 DEF Rising
  <1>7. Alive' /\ lingers /\ due = Directions => "identity" \in excuses' \/ Both(latest')
    <2> SUFFICES ASSUME Alive', lingers, due = Directions, "identity" \notin excuses'
                 PROVE  Both(latest')
      OBVIOUS
    <2>1. Counted(ok) /\ ~needs /\ base = Zero
      BY <1>1, <1>3, CollectStep DEF ProbeInv, Known
    <2> QED
      BY <1>1, <1>2, <2>1, CountedBytes DEF ProbeInv, Both
  <1>8. MeasureInv'
    <2>1. "clock" \notin excuses' =>
              /\ latest' # None => \A d \in Directions : latest'[d] > 0 => d \in peak'
              /\ \A d \in Directions : last'[d] > 0 => d \in peak'
      <3>1. CASE Counted(ok)
        BY <1>1, <1>6, <3>1, CollectStep DEF ProbeInv
      <3>2. CASE ~Counted(ok)
        BY <1>1, <1>2, <1>3, <3>2, CollectStep DEF ProbeInv, Bytes
      <3> QED
        BY <3>1, <3>2
    <2> QED
      BY <1>1, <1>2, <1>7, <2>1 DEF MeasureInv, Waiting, Starting, Measuring, Both
  <1>9. OutcomeInv'
    BY <1>1, <1>2, NoneIsNoNumber DEF OutcomeInv
  <1> QED
    BY <1>4, <1>5, <1>8, <1>9 DEF ProbeInv

(* What main makes of the last stats is true.                               *)
LEMMA IdleKeepsProbeInv ==
  ASSUME ProbeInv, NEW late \in BOOLEAN, NEW ok \in BOOLEAN, Idle(late, ok) PROVE ProbeInv'
  <1>1. /\ at = "idle"
        /\ UNCHANGED <<latest, peak, due, child, killed, server, stop, held, totals, lingers>>
        /\ Collect(ok) \/ UNCHANGED <<session, closed, base, last, needs, excuses>>
        /\ \/ at' = "idle" /\ outcome' = outcome
           \/ at' = "stop" /\ \E recovered \in BOOLEAN : outcome' = Code(recovered)
    BY DEF Idle, IdlePoll, Go, Result, childVars, collectorVars
  <1>2. /\ child = "ok" /\ server = "ended" /\ outcome = None
        /\ latest # None /\ "clock" \notin excuses =>
               \A d \in Directions : latest[d] > 0 => d \in peak
        /\ Alive /\ lingers /\ due = Directions => "identity" \in excuses \/ Both(latest)
    BY <1>1 DEF ProbeInv, MeasureInv, Measuring
  <1>3. /\ CountsInv'
        /\ Alive' => Alive
        /\ excuses \subseteq excuses'
        /\ base = Zero /\ "identity" \notin excuses' => base' = Zero
    <2>1. CASE Collect(ok)
      BY <1>1, <2>1, CollectStep DEF ProbeInv, CountsInv
    <2>2. CASE UNCHANGED <<session, closed, base, last, needs, excuses>>
      BY <1>1, <2>2 DEF ProbeInv, CountsInv, Alive, Known, Running
    <2> QED
      BY <1>1, <2>1, <2>2
  <1>4. Alive' => "identity" \in excuses' \/ base' = Zero
    BY <1>1, <1>2, <1>3 DEF ProbeInv, BaselineInv, Measuring
  <1>5. BaselineInv'
    BY <1>1, <1>2, <1>4 DEF BaselineInv, Starting, Measuring
  <1>6. MeasureInv'
    BY <1>1, <1>2, <1>3 DEF ProbeInv, MeasureInv, Waiting, Starting, Measuring, Both
  <1>7. ASSUME NEW recovered \in BOOLEAN, outcome' = Code(recovered) PROVE OutcomeInv'
    <2>1. Both(latest) => /\ "clock" \notin excuses => peak = Directions
                          /\ \A d \in Directions : totals[d] > 0
      BY <1>2 DEF ProbeInv, CountsInv, Both
    <2>2. Available' => Alive'
      BY DEF Available, Alive
    <2>3. outcome' = 3 => "clock" \in excuses'
      BY <1>3, <1>7, <2>1 DEF Code
    <2>4. outcome' = 0 => Alive' /\ Both(latest)
      BY <1>7, <2>2 DEF Code
    <2>5. outcome' = 2 => Alive' /\ ~Both(latest)
      BY <1>7, <2>2 DEF Code
    <2> QED
      BY <1>1, <1>2, <1>3, <1>4, <2>1, <2>3, <2>4, <2>5 DEF OutcomeInv
  <1>8. OutcomeInv'
    BY <1>1, <1>2, <1>7, NoneIsNoNumber DEF OutcomeInv
  <1> QED
    BY <1>3, <1>5, <1>6, <1>8 DEF ProbeInv

(* The cleanup only takes a verdict back.                                   *)
LEMMA CleanupKeepsProbeInv ==
  ASSUME ProbeInv, StopServer \/ Terminate \/ Reap \/ ClosePipes \/ JoinServer \/ Close
  PROVE  ProbeInv'
  <1>1. /\ at' \in {"terminate", "reap", "pipes", "server", "close", "done"}
        /\ outcome' \in {outcome, 4}
        /\ UNCHANGED <<latest, peak, quiet, due, child, server, held, totals, base, last, needs,
                       excuses, lingers>>
    BY DEF StopServer, Terminate, Reap, ClosePipes, JoinServer, Close, Go, measureVars, childVars,
           collectorVars
  <1>2. CountsInv'
    BY <1>1 DEF ProbeInv, CountsInv, Known, Running
  <1> QED
    BY <1>1, <1>2
    DEF ProbeInv, BaselineInv, MeasureInv, OutcomeInv, Waiting, Starting, Measuring

LEMMA ProbeStep == ProbeInv /\ [ProbeNext]_probeVars => ProbeInv'
  <1> SUFFICES ASSUME ProbeInv, [ProbeNext]_probeVars PROVE ProbeInv'
    OBVIOUS
  <1>1. CASE UNCHANGED probeVars
    BY <1>1
    DEF ProbeInv, CountsInv, BaselineInv, MeasureInv, OutcomeInv, Alive, Both, Known, Running,
        probeVars, parentVars, measureVars, childVars, collectorVars
  <1>2. CASE World
    BY <1>2, WorldKeepsProbeInv
  <1>3. CASE StartProbe \/ Spawn \/ Identify \/ Signal
    BY <1>3, PreparingKeepsProbeInv
  <1>4. CASE \E late, ok \in BOOLEAN : Measure(late, ok) \/ Idle(late, ok)
    BY <1>4, MeasureKeepsProbeInv, IdleKeepsProbeInv
  <1>5. CASE StopServer \/ Terminate \/ Reap \/ ClosePipes \/ JoinServer \/ Close
    BY <1>5, CleanupKeepsProbeInv
  <1>6. CASE Baseline \/ Exchanged
    BY <1>6, BaselineKeepsProbeInv, ExchangedKeepsProbeInv
  <1> QED
    BY <1>1, <1>2, <1>3, <1>4, <1>5, <1>6 DEF ProbeNext, Parent, World, Done

(* The verdict of the probe is right both ways, whatever the child, the     *)
(* server, ETW and the identity checks do and however many events they      *)
(* take.  A success was delivered in both directions, and measured from a   *)
(* baseline before the exchange unless a check failed.  A failure that      *)
(* blames the collector is the collector's: bytes without a rate only if    *)
(* the clock did not move, missing bytes of a child that Windows knows only *)
(* if a check failed or they were not delivered in time                     *)
(* (collector_probe.py:126-139, 199-235, 346-362, 424-445;                  *)
(* windows_network.py:116-120, 139-145, 181-188).                           *)
THEOREM ProbeTellsTheTruth == ProbeSpec => []VerdictIsTrue
  <1>1. ProbeInv => VerdictIsTrue
    BY DEF ProbeInv, OutcomeInv, VerdictIsTrue, SuccessIsMeasured, NoFalseFailure
  <1> QED
    BY <1>1, ProbeStarts, ProbeStep, PTL DEF ProbeSpec

(* A direction moves once, when its sender sends, and the second quiet poll *)
(* is the last.                                                             *)
LEMMA WorldKeepsLimits == ASSUME ProbeInv, LimitsInv, World PROVE LimitsInv'
  <1>1. UNCHANGED <<at, outcome, quiet>>
    BY WorldCounts
  <1>2. \A d \in Directions : held[d] \in Nat /\ totals[d] \in Nat
    BY DEF ProbeInv, CountsInv
  <1>3. CASE \E d \in Directions : Deliver(d)
    <2> PICK d \in Directions : Deliver(d)
      BY <1>3
    <2>1. \A e \in Directions : held'[e] + totals'[e] = held[e] + totals[e]
      BY <1>2 DEF Deliver, ProbeInv, CountsInv
    <2>2. UNCHANGED <<child, server>>
      BY DEF Deliver, childVars
    <2> QED
      BY <1>1, <2>1, <2>2 DEF LimitsInv, Directions
  <1>4. CASE ChildSends
    <2>1. /\ child = "told" /\ child' = "sent" /\ UNCHANGED <<server, totals>>
          /\ held'["up"] = Chunks /\ held'["down"] = held["down"]
      BY <1>4 DEF ChildSends, ChildStep, ProbeInv, CountsInv, Directions
    <2>2. totals["up"] = 0
      BY <1>2, <2>1 DEF LimitsInv, Directions
    <2> QED
      BY <1>1, <1>2, <2>1, <2>2, ProbeAssumption DEF LimitsInv, Directions
  <1>5. CASE ServerReplies
    <2>1. /\ server = "serving" /\ server' = "replied" /\ UNCHANGED <<child, totals>>
          /\ held'["down"] = Chunks /\ held'["up"] = held["up"]
      BY <1>5 DEF ServerReplies, childVars, ProbeInv, CountsInv, Directions
    <2>2. totals["down"] = 0
      BY <1>2, <2>1 DEF LimitsInv, Directions
    <2> QED
      BY <1>1, <1>2, <2>1, <2>2, ProbeAssumption DEF LimitsInv, Directions
  <1>6. CASE ChildReports \/ ChildDone \/ ChildDies \/ ServerAccepts \/ ServerEnds \/ ServerFails \/ SessionFails
    <2>1. /\ UNCHANGED <<held, totals>>
          /\ child' \in {"none", "starting", "ready", "told"} =>
                child \in {"none", "starting", "ready", "told"}
          /\ server' \in {"none", "accepting", "serving"} =>
                server \in {"none", "accepting", "serving"}
      BY <1>6 DEF ChildReports, ChildDone, ChildDies, ServerAccepts, ServerEnds, ServerFails, SessionFails,
                  ChildStep, childVars
    <2> QED
      BY <1>1, <2>1 DEF LimitsInv
  <1> QED
    BY <1>3, <1>4, <1>5, <1>6 DEF World

LEMMA LimitsKept == ProbeInv /\ LimitsInv /\ [ProbeNext]_probeVars => LimitsInv'
  <1> SUFFICES ASSUME ProbeInv, LimitsInv, [ProbeNext]_probeVars PROVE LimitsInv'
    OBVIOUS
  <1>1. CASE World
    BY <1>1, WorldKeepsLimits
  <1>2. CASE Spawn
    <2>1. /\ at = "spawn" /\ at' \in {"pid", "stop"} /\ outcome' \in {outcome, 1}
          /\ UNCHANGED <<quiet, held, totals>>
      BY <1>2 DEF Spawn, Go, Fail, measureVars
    <2>2. totals = Zero /\ held = Zero
      BY <2>1 DEF ProbeInv, BaselineInv, Starting
    <2> QED
      BY <2>1, <2>2, ProbeAssumption DEF LimitsInv, Waiting, Starting, Zero, Directions
  <1>3. CASE StartProbe \/ Identify \/ Signal \/ Baseline \/ Exchanged
    <2>1. /\ at \in Waiting /\ at' \in Waiting \cup {"measure", "stop"} /\ outcome' \in {outcome, 1}
          /\ UNCHANGED <<quiet, held, totals, server>>
          /\ child' \in {"none", "starting", "ready", "told"} =>
                child \in {"none", "starting", "ready", "told"}
      BY <1>3 DEF StartProbe, Identify, Signal, Baseline, Exchanged, Go, Fail, Waiting, Starting,
                  measureVars, childVars
    <2> QED
      BY <2>1 DEF LimitsInv, Waiting, Starting
  <1>4. ASSUME NEW late \in BOOLEAN, NEW ok \in BOOLEAN, Measure(late, ok)
        PROVE  LimitsInv'
    <2>1. /\ at = "measure" /\ at' \in {"idle", "measure"}
          /\ UNCHANGED <<outcome, quiet, held, totals, server, child>>
      BY <1>4 DEF Measure, Go, childVars
    <2> QED
      BY <2>1 DEF LimitsInv, Waiting, Starting
  <1>5. ASSUME NEW late \in BOOLEAN, NEW ok \in BOOLEAN, Idle(late, ok)
        PROVE  LimitsInv'
    <2>1. /\ at = "idle" /\ UNCHANGED <<held, totals, server, child>>
          /\ quiet' \in {quiet, quiet + 1, 0}
          /\ \/ at' = "stop" /\ \E recovered \in BOOLEAN : outcome' = Code(recovered)
             \/ at' = "idle" /\ outcome' = outcome /\ quiet' # 2
      BY <1>5 DEF Idle, IdlePoll, Go, Result, childVars
    <2>2. quiet \in {0, 1}
      BY <2>1 DEF LimitsInv
    <2>3. outcome' \in {None, 0, 1, 2, 3, 4, 6}
      BY <2>1 DEF LimitsInv, Code
    <2> QED
      BY <2>1, <2>2, <2>3 DEF LimitsInv, Waiting, Starting
  <1>6. CASE StopServer \/ Terminate \/ Reap \/ ClosePipes \/ JoinServer \/ Close \/ UNCHANGED probeVars
    <2>1. /\ at' = at \/ at' \in {"terminate", "reap", "pipes", "server", "close", "done"}
          /\ outcome' \in {outcome, 4} /\ UNCHANGED <<quiet, child, server, held, totals>>
      BY <1>6 DEF StopServer, Terminate, Reap, ClosePipes, JoinServer, Close, Go, measureVars,
                  childVars, parentVars, probeVars
    <2> QED
      BY <2>1 DEF LimitsInv, Waiting, Starting
  <1> QED
    BY <1>1, <1>2, <1>3, <1>4, <1>5, <1>6 DEF ProbeNext, Parent, World, Done

(* Every variable of the probe keeps its type, and neither the aggregator   *)
(* nor ETW ever has more of a direction than was sent.                      *)
THEOREM ProbeTypes == ProbeSpec => []ProbeTypeOK
  <1>1. ProbeInit => LimitsInv
    BY ProbeAssumption DEF ProbeInit, LimitsInv, Zero, Directions, Waiting, Starting
  <1>2. ProbeInv /\ LimitsInv => ProbeTypeOK
    <2> SUFFICES ASSUME ProbeInv, LimitsInv PROVE ProbeTypeOK
      OBVIOUS
    <2>1. ASSUME NEW d \in Directions, latest # None
          PROVE  latest[d] \in 0..Chunks
      BY <2>1, ProbeAssumption DEF ProbeInv, CountsInv, LimitsInv
    <2> QED
      BY <2>1 DEF ProbeTypeOK, ProbeInv, CountsInv, LimitsInv
  <1> QED
    BY <1>1, <1>2, ProbeStarts, ProbeStep, LimitsKept, PTL DEF ProbeSpec

-----------------------------------------------------------------------------
(* MCDesktop.  The parts share no state: a step of one leaves the others    *)
(* alone, so each of them behaves as its own specification says.            *)
LEMMA PartsAreSpecified ==
  AllSpec => Spec /\ IconSpec /\ GeometrySpec /\ CardSpec /\ ButtonSpec /\ ProbeSpec
  <1>1. AllInit => Init /\ IconInit /\ GeometryInit /\ CardInit /\ ButtonInit /\ ProbeInit
    BY DEF AllInit
  <1>2. [AllNext]_all => [Next]_vars /\ [IconNext]_iconVars /\ [GeometryNext]_geometryVars
    BY DEF AllNext, Moves, all
  <1>3. [AllNext]_all => [CardNext]_cardVars /\ [ButtonNext]_buttonVars /\ [ProbeNext]_probeVars
    BY DEF AllNext, Moves, all
  <1> QED
    BY <1>1, <1>2, <1>3, PTL
    DEF AllSpec, Spec, IconSpec, GeometrySpec, CardSpec, ButtonSpec, ProbeSpec

(* Beside one another the parts keep their types and their bounds: the card *)
(* belongs to the visible micro window, the check in the tray is the        *)
(* topmost flag, what is pending is in flight, and the icons are bounded.   *)
THEOREM PartsOfDesktopSound == AllSpec => []PartsStaySound
  <1>1. AllSpec => []TypeOK /\ []IconTypeOK /\ []ProbeTypeOK
    BY PartsAreSpecified, PreferencesTypes, IconTypes, ProbeTypes
  <1>2. AllSpec => []CardTypeOK /\ []ButtonTypeOK
    <2>1. CardInv => CardTypeOK
      BY DEF CardInv
    <2>2. ButtonInv => ButtonTypeOK
      BY DEF ButtonInv
    <2> QED
      BY <2>1, <2>2, PartsAreSpecified, CardInvariant, ButtonInvariant, PTL
  <1>3. AllSpec => []CardNeedsMicro /\ []PinsAgree
    BY PartsAreSpecified, CardWithMicro, TrayShowsPin
  <1>4. AllSpec => []PendingIsInFlight /\ []CacheBounded
    BY PartsAreSpecified, PendingIsTheWork, CacheStaysBounded
  <1>5. /\ TypeOK /\ IconTypeOK /\ CardTypeOK /\ ButtonTypeOK /\ ProbeTypeOK
        /\ CardNeedsMicro /\ PinsAgree
        /\ PendingIsInFlight /\ CacheBounded
        => PartsStaySound
    BY DEF PartsStaySound
  <1> QED
    BY <1>1, <1>2, <1>3, <1>4, <1>5, PTL
=============================================================================
