----------------------------- MODULE SourceState -----------------------------
(***************************************************************************)
(* What the GUI knows of the sampling thread: the status of the latest     *)
(* snapshot, when it and the latest usable one arrived, and whether the    *)
(* last sample failed.  Time is that of the GUI's monotonic clock, which   *)
(* may advance between any two steps.                                      *)
(***************************************************************************)
EXTENDS Naturals, PythonNone

CONSTANTS StaleSeconds,  (* STALE_SECONDS                                    *)
          MaxTime        (* bound: the clock stops there                     *)

(* What a snapshot can say of the source.                                   *)
Statuses == {"available", "permission", "unavailable"}

ASSUME SourceAssumption ==
    /\ StaleSeconds \in Nat \ {0} /\ MaxTime \in Nat
    /\ None \notin Nat /\ None \notin Statuses

VARIABLES now,           (* clock(); the projection is created at 0          *)
          status,        (* snapshot.process_network_state.status            *)
          received,      (* _received_at                                     *)
          valid,         (* last_valid_at                                    *)
          failure        (* "yes" iff _failure is not None                   *)

sourceVars == <<now, status, received, valid, failure>>

SourceInit ==
    /\ now = 0 /\ status = None /\ failure = "no"
    /\ received = None /\ valid = None

(* The collector tries to start in its first sample, and a session that     *)
(* failed is never started again.                                           *)
MayFollow(s) ==
    \/ status = None
    \/ status = "available" /\ s # "permission"
    \/ status = s

(* No data for StaleSeconds since t.                                        *)
Expired(t) == now - t >= StaleSeconds

(* source_state                                                             *)
Source ==
    CASE failure = "yes"         -> "failed"
      [] failure = "no" /\ status = None ->
            IF Expired(0) THEN "stale" ELSE "starting"
      [] failure = "no" /\ status \in {"permission", "unavailable"} -> status
      [] failure = "no" /\ status = "available" ->
            IF Expired(valid) THEN "stale" ELSE "active"

FailureAfter(s) == "no"

SourceReceive(s) ==
    /\ MayFollow(s)
    /\ status' = s /\ received' = now /\ failure' = FailureAfter(s)
    /\ valid' = IF s = "available" THEN now ELSE valid
    /\ UNCHANGED now

SourceFail ==
    /\ failure' = "yes"
    /\ UNCHANGED <<now, status, received, valid>>

Tick ==
    /\ now < MaxTime
    /\ now' = now + 1
    /\ UNCHANGED <<status, received, valid, failure>>

SourceTypeOK ==
    /\ now \in 0..MaxTime /\ failure \in {"yes", "no"}
    /\ status \in Statuses \cup {None}
    /\ received \in Nat \cup {None} /\ valid \in Nat \cup {None}

(* A snapshot has a time, a usable one a time as its last usable one, and   *)
(* no time lies in the future.                                              *)
SourceInv ==
    /\ (received = None) <=> (status = None)
    /\ received # None => received <= now
    /\ valid # None => received # None /\ valid <= received
    /\ status = "available" => valid = received
=============================================================================
