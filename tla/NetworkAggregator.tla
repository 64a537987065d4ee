-------------------------- MODULE NetworkAggregator --------------------------
(***************************************************************************)
(* NetworkAggregator: byte counters by pid, written by the ETW consumer    *)
(* thread and read and pruned by the sampling thread under one lock, so    *)
(* each operation is one step.  Upload and download go through the same    *)
(* code side by side; one direction is modelled.  record never stores a    *)
(* zero (parse_network_event rejects size <= 0), so an absent key and a    *)
(* zero total are the same thing to every reader.                          *)
(***************************************************************************)
EXTENDS OsProcesses

VARIABLES totals,    (* _totals                                              *)
          discarded  (* history: bytes of p pruned by retain_pids so far     *)

aggVars == <<totals, discarded>>

AggInit ==
    /\ totals = [p \in Pids |-> 0]
    /\ discarded = [p \in Pids |-> 0]

(* The amount an event adds to its bucket.                                  *)
Payload(k) == k

Record(p, k) ==
    /\ k <= buffered[p]
    /\ buffered' = [buffered EXCEPT ![p] = @ - k]
    /\ totals' = [totals EXCEPT ![p] = @ + Payload(k)]
    /\ UNCHANGED <<life, alive, emitted, discarded>>

(* The buckets that survive a prune.                                        *)
Kept(active) == active

(* The totals retain_pids(active) hands back and forgets.                   *)
RemovedBy(active) == [p \in Pids |-> IF p \in Kept(active) THEN 0 ELSE totals[p]]

RetainPids(active) ==
    /\ totals' = [p \in Pids |-> IF p \in Kept(active) THEN totals[p] ELSE 0]
    /\ discarded' = [p \in Pids |-> discarded[p] + RemovedBy(active)[p]]
=============================================================================
