----------------------------- MODULE OsProcesses -----------------------------
(***************************************************************************)
(* What Windows does underneath the monitor: processes start and exit,     *)
(* process ids are reused, processes move bytes, and ETW hands the events  *)
(* to the consumer late (its buffers are flushed once a second) or loses   *)
(* them.  A process is the pair <<pid, n>>: the n-th process that had the  *)
(* pid, which is what (pid, create_time) tells apart in the code.          *)
(***************************************************************************)
EXTENDS Integers

CONSTANTS Pids,      (* process ids                                        *)
          MaxLife,   (* bound: lifetimes of one pid                        *)
          MaxBytes,  (* bound: bytes one pid emits over all its lifetimes  *)
          Sizes      (* payload sizes of one network event                 *)

ASSUME OsAssumption ==
    /\ MaxLife \in Nat \ {0}
    /\ MaxBytes \in Nat
    /\ Sizes \subseteq Nat \ {0}

Lives == 1..MaxLife
Ids == Pids \X Lives

VARIABLES life,     (* lifetime of the pid that started last, 0: none yet    *)
          alive,    (* that lifetime is still running                        *)
          emitted,  (* emitted[p][n]: bytes of lifetimes 1..n of p, so far   *)
          buffered  (* bytes of p sitting in ETW buffers, not yet delivered  *)

osVars == <<life, alive, emitted, buffered>>

OsInit ==
    /\ life = [p \in Pids |-> 0]
    /\ alive = [p \in Pids |-> FALSE]
    /\ emitted = [p \in Pids |-> [n \in Lives |-> 0]]
    /\ buffered = [p \in Pids |-> 0]

(* <<p, n>> is the process running under its pid.                           *)
IsRunning(i) == alive[i[1]] /\ life[i[1]] = i[2]

Spawn(p) ==
    /\ ~alive[p]
    /\ life[p] < MaxLife
    /\ life' = [life EXCEPT ![p] = @ + 1]
    /\ alive' = [alive EXCEPT ![p] = TRUE]
    /\ UNCHANGED <<emitted, buffered>>

Exit(p) ==
    /\ alive[p]
    /\ alive' = [alive EXCEPT ![p] = FALSE]
    /\ UNCHANGED <<life, emitted, buffered>>

(* An amount added to lifetime n counts for every later lifetime too.       *)
AddFrom(f, p, n, k) ==
    [f EXCEPT ![p] = [m \in Lives |-> IF m >= n THEN f[p][m] + k ELSE f[p][m]]]

Emit(p, k) ==
    /\ alive[p]
    /\ emitted[p][life[p]] + k <= MaxBytes
    /\ emitted' = AddFrom(emitted, p, life[p], k)
    /\ buffered' = [buffered EXCEPT ![p] = @ + k]
    /\ UNCHANGED <<life, alive>>

(* A buffer ETW drops, or an event parse_network_event turns into None.     *)
LoseEvent(p, k) ==
    /\ k <= buffered[p]
    /\ buffered' = [buffered EXCEPT ![p] = @ - k]
    /\ UNCHANGED <<life, alive, emitted>>
=============================================================================
