---------------------------- MODULE MonitorService ----------------------------
(***************************************************************************)
(* MonitorService.snapshot over the whole attribution pipeline: refresh    *)
(* the process list or keep it, collect, drain the retired samples, charge *)
(* the applications.  The sampling thread runs it; the ETW consumer thread *)
(* records, and Windows starts and ends processes, between any two of its  *)
(* steps.                                                                  *)
(***************************************************************************)
EXTENDS ProcessNetworkCollector, ApplicationSessionTracker, FiniteSetsExt

ASSUME ServiceAssumption == Identities = Ids

ASSUME FiniteAssumption == IsFiniteSet(Pids) /\ IsFiniteSet(Apps)

VARIABLE charged  (* history: charged[p][n], bytes charged to lifetimes 1..n  *)

accountVars == <<trackerVars, charged>>
vars == <<osVars, aggVars, collectorVars, accountVars>>

Init ==
    /\ OsInit /\ AggInit /\ CollectorInit
    /\ TrackerInit
    /\ charged = [p \in Pids |-> [n \in Lives |-> 0]]

Os ==
    /\ \E p \in Pids :
        \/ Spawn(p) \/ Exit(p)
        \/ \E k \in Sizes : Emit(p, k) \/ LoseEvent(p, k)
    /\ UNCHANGED <<aggVars, collectorVars, accountVars>>

EtwConsumer ==
    /\ \E p \in Pids, k \in Sizes : Record(p, k)
    /\ UNCHANGED <<collectorVars, accountVars>>

Collect == CollectStep /\ UNCHANGED <<osVars, aggVars, accountVars>>

RetirementCut == Cut /\ UNCHANGED <<osVars, accountVars>>

(* One iteration of ApplicationSessionTracker.update over source.           *)
ChargeSample(i, source) ==
    /\ pc = "update"
    /\ source[i] # None
    /\ Observe(i, source[i])
    /\ charged' = AddFrom(charged, i[1], i[2], Gain(i, source[i]))
    /\ UNCHANGED <<osVars, aggVars, cached, procs, pc, snap, removed, todo, stateVars>>

ChargeRow(i) ==
    /\ ChargeSample(i, rows)
    /\ rows' = [rows EXCEPT ![i] = None]
    /\ UNCHANGED retired

ChargeRetired(i) ==
    /\ rows = NoRows
    /\ ChargeSample(i, retired)
    /\ retired' = [retired EXCEPT ![i] = None]
    /\ UNCHANGED rows

Publish ==
    /\ pc = "update"
    /\ rows = NoRows /\ retired = NoRows
    /\ snap' = [p \in Pids |-> 0]
    /\ pc' = "idle"
    /\ UNCHANGED <<osVars, aggVars, cached, procs, removed, todo, stateVars,
                   rows, retired, accountVars>>

Service ==
    \/ Collect \/ RetirementCut \/ Publish
    \/ \E i \in Ids : ChargeRow(i) \/ ChargeRetired(i)

Next == Os \/ EtwConsumer \/ Service

Spec == Init /\ [][Next]_vars

(* The worker's timer keeps calling snapshot.                               *)
FairSpec == Spec /\ WF_vars(Service)
-----------------------------------------------------------------------------
Counters == Nat \cup {None}

TypeOK ==
    /\ life \in [Pids -> 0..MaxLife] /\ alive \in [Pids -> BOOLEAN]
    /\ emitted \in [Pids -> [Lives -> Nat]] /\ buffered \in [Pids -> Nat]
    /\ totals \in [Pids -> Nat] /\ discarded \in [Pids -> Nat]
    /\ cached \in [Pids -> 0..MaxLife]
    /\ procs \in [Pids -> Lives \cup {Absent, NoTime}]
    /\ pc \in {"idle", "listed", "validate", "retire", "update"}
    /\ snap \in [Pids -> Nat] /\ removed \in [Pids -> Nat]
    /\ todo \subseteq Ids /\ tracked \subseteq Ids
    /\ base \in [Ids -> Int] /\ prev \in [Ids -> Nat] /\ unsure \in [Ids -> BOOLEAN]
    /\ rows \in [Ids -> Counters] /\ retired \in [Ids -> Counters]
    /\ keyOf \in [Ids -> Apps \cup {Unknown}]
    /\ high \in [Ids -> Nat] /\ appTotals \in [Apps -> Nat]
    /\ charged \in [Pids -> [Lives -> Nat]]

(* Bytes are never charged to a process that was gone when they were sent,  *)
(* and never twice: whatever the lifetimes 1..n of a pid were charged, they *)
(* had sent by then, however collect's steps fall between pid reuse, late   *)
(* delivery and doubtful identity checks.                                   *)
NeverOvercharged ==
    \A p \in Pids, n \in Lives : charged[p][n] <= emitted[p][n]

(* Between two collects the counters a state was confirmed with are still   *)
(* covered by its pid's bucket, so the max(0, ...) clamps of collect never  *)
(* hide a rollback.                                                         *)
BucketCoversState ==
    pc \in {"idle", "listed"} =>
        \A i \in tracked : /\ totals[i[1]] >= base[i] + prev[i]
                           /\ base[i] >= 0

(* Nothing is lost while an identity is certain: after collect its counter  *)
(* accounts for the whole bucket since its baseline.                        *)
CertainSampleIsComplete ==
    pc = "update" =>
        \A i \in tracked : ~unsure[i] => base[i] + prev[i] = snap[i[1]]

(* The identities collect keeps are those of the process list: one pid is   *)
(* never watched under two lifetimes, which would count its bucket twice.   *)
OneLifetimePerPid ==
    pc \in {"idle", "listed", "update"} =>
        \A i, j \in tracked : i[1] = j[1] => i = j

SumOf(f) == MapThenSumSet(LAMBDA x : f[x], DOMAIN f)

(* An application account is exactly what its processes were seen to move,  *)
(* each under one application only, exited processes included, and nothing  *)
(* is charged outside an account.                                           *)
AccountsAddUp ==
    /\ \A a \in Apps : appTotals[a] = SumOf([i \in Ids |-> IF keyOf[i] = a THEN high[i] ELSE 0])
    /\ SumOf(appTotals) = SumOf([p \in Pids |-> charged[p][MaxLife]])

(* The whole pipeline is a ledger of the traffic the processes really sent: *)
(* every step of it is an entry, or changes no total.                       *)
Ledger == INSTANCE TrafficLedger WITH
    Amounts <- 0..MaxBytes, sent <- emitted, owner <- keyOf, account <- appTotals
ImplementsLedger == Ledger!Spec

(* A process that stays watched never sees its session counter step back,   *)
(* across rebaselines and prunes.                                           *)
CountersNeverStepBack ==
    [][\A i \in tracked \cap tracked' : prev'[i] >= prev[i]]_vars

(* The process list and the checks agree that i is the process running.     *)
Watched(i) == IsRunning(i) /\ i \in tracked /\ ~unsure[i] /\ procs[i[1]] = i[2]

(* Bytes recorded for a process whose identity stays certain are eventually *)
(* charged to it.                                                           *)
WatchedIsCharged ==
    \A i \in Ids, b \in 1..MaxBytes :
        (Watched(i) /\ totals[i[1]] - base[i] >= b) ~> (high[i] >= b \/ ~Watched(i))

(* The claim of docs/stage3b-integration-2026-09-17.md:22 that a reused pid *)
(* gives the new identity an isolated baseline: nothing its predecessors    *)
(* sent is charged to it.  A predecessor's event that ETW delivers after    *)
(* the new baseline was taken breaks it.                                    *)
NewIdentityIsolated ==
    \A p \in Pids, n \in Lives :
        n > 1 => high[<<p, n>>] <= emitted[p][n] - emitted[p][n - 1]
-----------------------------------------------------------------------------
(***************************************************************************)
(* Why NeverOvercharged holds: the inductive invariant.  Everything p's    *)
(* bucket ever received is a line of Received(p) bytes; each tracked       *)
(* identity has been measured up to a point of that line, charges never    *)
(* pass that point, and the identity check, made after the counters were   *)
(* read, shows that what lies before it was sent by then.                  *)
(***************************************************************************)
Charges(p) == charged[p][MaxLife]
Received(p) == discarded[p] + totals[p]

(* The bucket the running collect measures p with.                          *)
Bucket(p) == IF pc = "retire" /\ p \notin ActivePids THEN removed[p] ELSE totals[p]

(* Where on the line the tracked identity i was measured last.              *)
Mark(i) == discarded[i[1]] - removed[i[1]] + base[i] + prev[i]

(* Every lifetime from the running one on can answer for all that arrived.  *)
ReceivedWasSent ==
    \A p \in Pids :
        /\ alive[p] => life[p] # 0
        /\ \A n \in Lives : n >= life[p] => Received(p) + buffered[p] <= emitted[p][n]

ChargesWereReceived ==
    \A p \in Pids :
        /\ Charges(p) <= Received(p)
        /\ \A n \in Lives : charged[p][n] <= Charges(p)

SnapshotInv ==
    pc = "validate" =>
        \A p \in Pids : /\ snap[p] <= totals[p]
                        /\ Charges(p) <= discarded[p] + snap[p]

RemovedInv ==
    \A p \in Pids : (pc # "retire" \/ p \in ActivePids) => removed[p] = 0

TrackedAt(i) ==
    /\ base[i] >= 0
    /\ base[i] + prev[i] <= Bucket(i[1])
    /\ pc = "validate" => base[i] + prev[i] <= snap[i[1]]
    /\ rows[i] = None => prev[i] <= high[i]
    /\ Charges(i[1]) + Gain(i, prev[i]) <= Mark(i)

RowAt(i) ==
    rows[i] # None =>
        /\ i \in tracked /\ procs[i[1]] = i[2]
        /\ rows[i] = prev[i]
        /\ \A n \in Lives : n >= i[2] => Mark(i) <= emitted[i[1]][n]

RetiredAt(i) ==
    retired[i] # None =>
        /\ i \notin tracked /\ procs[i[1]] # i[2]
        /\ retired[i] > high[i] =>
              /\ i[1] \notin ActivePids
              /\ Charges(i[1]) + retired[i] - high[i] <= Received(i[1])
              /\ \A n \in Lives : n >= i[2] =>
                    Charges(i[1]) + retired[i] - high[i] <= emitted[i[1]][n]

SamplesInv ==
    /\ \A i \in tracked : TrackedAt(i)
    /\ \A i \in Ids : RowAt(i) /\ RetiredAt(i)
    /\ pc \in {"idle", "listed"} => rows = NoRows
    /\ pc \in {"idle", "listed", "validate"} => retired = NoRows

(* Identities the list no longer has, retired or about to be.               *)
Leaving(i) == retired[i] # None \/ (i \in tracked /\ procs[i[1]] # i[2])

OneIdentityInv ==
    /\ OneLifetimePerPid
    /\ \A i, j \in Ids : Leaving(i) /\ Leaving(j) /\ i[1] = j[1] => i = j
    /\ pc = "validate" => todo \subseteq ListedIds
    /\ pc = "retire" => todo = GoneIds
    /\ pc = "update" => tracked \subseteq ListedIds

IInv ==
    /\ TypeOK
    /\ ReceivedWasSent /\ ChargesWereReceived
    /\ SnapshotInv /\ RemovedInv
    /\ SamplesInv /\ OneIdentityInv
    /\ NeverOvercharged

(* What three more results rest on: what the running loop has already       *)
(* measured is complete; lifetimes that have not started have sent nothing  *)
(* of their own; an identity without an account was never charged.          *)
MeasuredInv ==
    pc \in {"validate", "retire", "update"} =>
        \A i \in tracked \cap ListedIds :
            (pc = "validate" => i \notin todo) /\ ~unsure[i] => base[i] + prev[i] = snap[i[1]]

SentInv ==
    \A p \in Pids : \A n \in Lives :
        /\ emitted[p][n] <= MaxBytes
        /\ n >= life[p] => emitted[p][n] = emitted[p][MaxLife]

AccountsInv ==
    /\ AccountsAddUp
    /\ \A i \in Ids : keyOf[i] = Unknown => high[i] = 0
=============================================================================
