----------------------- MODULE ProcessNetworkCollector -----------------------
(***************************************************************************)
(* WindowsProcessNetworkCollector.collect on a running ETW session, step   *)
(* by step between the operating system and the ETW consumer thread: take  *)
(* the totals, then question the identity of every listed process, then    *)
(* prune the aggregator, then question every identity that left the list.  *)
(* Rates and their sample history are left out: no counter depends on      *)
(* them.                                                                   *)
(***************************************************************************)
EXTENDS NetworkAggregator

CONSTANTS Absent,  (* the enumeration did not report the pid                 *)
          NoTime,  (* reported with create_time = None                       *)
          None     (* a row without counters                                 *)

ASSUME MarkerAssumption == Absent \notin Nat /\ NoTime \notin Nat /\ None \notin Nat

VARIABLES cached,   (* psutil's process cache: lifetime it holds for a pid    *)
          procs,    (* the process list collect is given: pid -> lifetime     *)
          pc,       (* where the sampling thread is                           *)
          snap,     (* totals = aggregator.snapshot()                         *)
          removed,  (* removed = aggregator.retain_pids(active_pids)          *)
          todo,     (* identities the running loop still has to visit         *)
          tracked,  (* keys of _states                                        *)
          base,     (* baseline_*                                             *)
          prev,     (* previous_*                                             *)
          unsure,   (* needs_rebaseline                                       *)
          rows,     (* counters collect returns, by identity                  *)
          retired   (* _retired, by identity                                  *)

stateVars == <<tracked, base, prev, unsure>>
collectorVars == <<cached, procs, pc, snap, removed, todo, stateVars, rows, retired>>

NoRows == [i \in Ids |-> None]

CollectorInit ==
    /\ cached = [p \in Pids |-> 0]
    /\ procs = [p \in Pids |-> Absent]
    /\ pc = "idle"
    /\ snap = [p \in Pids |-> 0]
    /\ removed = [p \in Pids |-> 0]
    /\ todo = {}
    /\ tracked = {}
    /\ base = [i \in Ids |-> 0]
    /\ prev = [i \in Ids |-> 0]
    /\ unsure = [i \in Ids |-> FALSE]
    /\ rows = NoRows
    /\ retired = NoRows

AtLeast(a, b) == IF a >= b THEN a ELSE b

ActivePids == {p \in Pids : procs[p] # Absent}
ListedIds == {i \in Ids : procs[i[1]] = i[2]}

(* What the cache may hold after an enumeration: a handle opened for a      *)
(* process that is gone stays until the pid is seen missing.                *)
CacheAfter(p) ==
    IF ~alive[p] THEN {0} ELSE {life[p]} \cup ({cached[p]} \ {0})

(* ProcessCollector.collect: a process that cannot be opened is skipped or  *)
(* reported without its creation time.                                      *)
Refresh ==
    /\ pc = "idle"
    /\ \E c \in [Pids -> 0..MaxLife], hidden \in SUBSET Pids, opaque \in SUBSET Pids :
        /\ \A p \in Pids : c[p] \in CacheAfter(p)
        /\ cached' = c
        /\ procs' = [p \in Pids |->
               IF c[p] = 0 \/ p \in hidden THEN Absent
               ELSE IF p \in opaque THEN NoTime ELSE c[p]]
    /\ pc' = "listed"
    /\ UNCHANGED <<snap, removed, todo, stateVars, rows, retired>>

(* collect's snapshot; the list may be the one of an earlier tick.          *)
TakeSnapshot ==
    /\ pc \in {"idle", "listed"}
    /\ snap' = totals
    /\ todo' = ListedIds
    /\ pc' = "validate"
    /\ UNCHANGED <<cached, procs, removed, stateVars, rows, retired>>

(* Faulty: trusts the enumeration instead of opening the process again.     *)
TrustListFaulty(i) == TRUE

(* _identity_is_current: a fresh handle on the pid has this creation time.  *)
IdentityIsCurrent(i) == IsRunning(i)

(* The check failed, or could not be made.                                  *)
RowUnverified(i) ==
    /\ pc = "validate" /\ i \in todo
    /\ unsure' = [unsure EXCEPT ![i] = @ \/ i \in tracked]
    /\ todo' = todo \ {i}
    /\ UNCHANGED <<cached, procs, pc, snap, removed, tracked, base, prev, rows, retired>>

(* Faulty: the first sample claims what the bucket already held.            *)
ZeroBaselineFaulty(i) == 0

FirstBaseline(i) == snap[i[1]]

RowFirst(i) ==
    /\ pc = "validate" /\ i \in todo /\ i \notin tracked
    /\ IdentityIsCurrent(i)
    /\ tracked' = tracked \cup {i}
    /\ base' = [base EXCEPT ![i] = FirstBaseline(i)]
    /\ prev' = [prev EXCEPT ![i] = 0]
    /\ unsure' = [unsure EXCEPT ![i] = FALSE]
    /\ rows' = [rows EXCEPT ![i] = 0]
    /\ todo' = todo \ {i}
    /\ UNCHANGED <<cached, procs, pc, snap, removed, retired>>

(* Faulty: rebaselines to the whole bucket, or at every sample.             *)
RestartFaulty(i) == IF unsure[i] THEN snap[i[1]] ELSE base[i]
AlwaysRebaseFaulty(i) == snap[i[1]] - prev[i]

(* The baseline this sample is measured from: a process whose identity was  *)
(* in doubt restarts behind its confirmed counter.                          *)
Baseline(i) == IF unsure[i] THEN snap[i[1]] - prev[i] ELSE base[i]

RowUpdate(i) ==
    /\ pc = "validate" /\ i \in todo /\ i \in tracked
    /\ IdentityIsCurrent(i)
    /\ base' = [base EXCEPT ![i] = Baseline(i)]
    /\ prev' = [prev EXCEPT ![i] = AtLeast(0, snap[i[1]] - Baseline(i))]
    /\ unsure' = [unsure EXCEPT ![i] = FALSE]
    /\ rows' = [rows EXCEPT ![i] = AtLeast(0, snap[i[1]] - Baseline(i))]
    /\ todo' = todo \ {i}
    /\ UNCHANGED <<cached, procs, pc, snap, removed, tracked, retired>>

(* Tracked identities the list no longer has.                               *)
GoneIds == tracked \ ListedIds

(* The retirement cut.                                                      *)
Cut ==
    /\ pc = "validate" /\ todo = {}
    /\ removed' = RemovedBy(ActivePids)
    /\ RetainPids(ActivePids)
    /\ todo' = GoneIds
    /\ pc' = "retire"
    /\ UNCHANGED <<cached, procs, snap, stateVars, rows, retired>>

(* The state of a retired identity is dropped with the list comprehension   *)
(* that closes collect.                                                     *)
Retire(i, bytes) ==
    /\ pc = "retire" /\ i \in todo
    /\ retired' = [retired EXCEPT ![i] = bytes]
    /\ tracked' = tracked \ {i}
    /\ base' = [base EXCEPT ![i] = 0]
    /\ prev' = [prev EXCEPT ![i] = 0]
    /\ unsure' = [unsure EXCEPT ![i] = FALSE]
    /\ todo' = todo \ {i}
    /\ UNCHANGED <<cached, procs, pc, snap, removed, rows>>

(* Any doubt (a pid in use, an open rebaseline, a failed check): the last   *)
(* confirmed counter.                                                       *)
RetireConfirmed(i) == Retire(i, prev[i])

(* No doubt: everything recorded before the cut.                            *)
RetireWithTail(i) ==
    /\ i[1] \notin ActivePids
    /\ ~unsure[i]
    /\ IdentityIsCurrent(i)
    /\ Retire(i, AtLeast(prev[i], AtLeast(0, removed[i[1]] - base[i])))

Return ==
    /\ pc = "retire" /\ todo = {}
    /\ removed' = [p \in Pids |-> 0]
    /\ pc' = "update"
    /\ UNCHANGED <<cached, procs, snap, todo, stateVars, rows, retired>>

CollectStep ==
    \/ Refresh \/ TakeSnapshot \/ Return
    \/ \E i \in Ids :
        \/ RowUnverified(i) \/ RowFirst(i) \/ RowUpdate(i)
        \/ RetireConfirmed(i) \/ RetireWithTail(i)
=============================================================================
