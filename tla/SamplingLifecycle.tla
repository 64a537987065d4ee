-------------------------- MODULE SamplingLifecycle --------------------------
(***************************************************************************)
(* Who owns the ETW session over the life of the application.  UiController*)
(* starts the sampling thread and shuts it down; SamplingWorker samples on *)
(* a timer and closes once; the collector creates the one session it ever  *)
(* tries, asks after its health at every sample, and stops it when it      *)
(* failed or when the worker closes.  Every call of the session runs       *)
(* through the steps of EtwSession.                                        *)
(***************************************************************************)
EXTENDS EtwSession

VARIABLES
    gui,        (* UiController: "up", "waiting" for the worker, "gone"        *)
    worker,     (* SamplingWorker: none, new, running, closed                  *)
    step,       (* where the sampling thread is                                *)
    collector,  (* "attempted": _start_attempted, "session": it has a _session *)
    state       (* the collector's _state; "stopped" stands for _closed too    *)

lifecycle == <<gui, worker, step, collector, state>>
lifecycleVars == <<vars, lifecycle>>

LifecycleInit ==
    /\ Init
    /\ gui = "up" /\ worker = "none" /\ step = "rest"
    /\ collector = {} /\ state = "starting"

Attempted == "attempted" \in collector
Owned == "session" \in collector

(* session.stop() on whatever the session holds.                            *)
StopSession == StopCall \/ StopNothing

(* The session's call step waits for has returned.                          *)
Returned(where) == step = where /\ pc = "idle"
-----------------------------------------------------------------------------
(* UiController                                                             *)

(* start.                                                                   *)
UiStart ==
    /\ gui = "up" /\ worker = "none"
    /\ worker' = "new"
    /\ UNCHANGED <<vars, gui, step, collector, state>>

(* shutdown blocks on the worker's stop, or closes the service itself when  *)
(* there is no thread.                                                      *)
Shutdown ==
    /\ gui = "up"
    /\ IF worker = "none"
       THEN gui' = "gone" /\ state' = "stopped"
       ELSE gui' = "waiting" /\ UNCHANGED state
    /\ UNCHANGED <<vars, worker, step, collector>>

ShutdownEnds ==
    /\ gui = "waiting" /\ worker = "closed" /\ step = "rest"
    /\ gui' = "gone"
    /\ UNCHANGED <<vars, worker, step, collector, state>>
-----------------------------------------------------------------------------
(* SamplingWorker                                                           *)

(* start samples at once; then the timer does.                              *)
Sample ==
    /\ step = "rest" /\ worker \in {"new", "running"}
    /\ worker' = "running" /\ step' = "sample"
    /\ UNCHANGED <<vars, gui, collector, state>>

(* stop, which closes the service and with it the collector.                *)
WorkerStop ==
    /\ gui = "waiting" /\ step = "rest" /\ worker \in {"new", "running"}
    /\ worker' = "closed" /\ state' = "stopped"
    /\ IF Owned THEN StopSession /\ step' = "close" ELSE UNCHANGED <<vars, step>>
    /\ UNCHANGED <<gui, collector>>
-----------------------------------------------------------------------------
(* WindowsProcessNetworkCollector.collect and close                         *)

(* _ensure_started on the first collect.                                    *)
CollectFirst ==
    /\ step = "sample" /\ ~Owned /\ ~Attempted
    /\ collector' = {"attempted"}
    /\ \/ StartCall /\ step' = "start" /\ state' = "starting"
       \/ UNCHANGED vars /\ step' = "rest" /\ state' = "unavailable"
    /\ UNCHANGED <<gui, worker>>

CollectAgain ==
    /\ step = "sample" /\ (Owned \/ Attempted)
    /\ IF Owned /\ state = "available"
       THEN CheckCall /\ step' = "check"
       ELSE UNCHANGED vars /\ step' = "rest"
    /\ UNCHANGED <<gui, worker, collector, state>>

(* Started: this collect goes on to its health check.                       *)
StartSucceeded ==
    /\ Returned("start") /\ outcome = "ok"
    /\ collector' = {"attempted", "session"} /\ state' = "available"
    /\ CheckCall /\ step' = "check"
    /\ UNCHANGED <<gui, worker>>

StartFailed ==
    /\ Returned("start") /\ outcome = "error"
    /\ state' \in {"denied", "unavailable"}
    /\ StopSession /\ step' = "rollback"
    /\ UNCHANGED <<gui, worker, collector>>

(* Faulty: lets go of a session whose stop failed.                          *)
ForgetFaulty == {"attempted"}

(* A stop that raises leaves the session with the collector.                *)
AfterStop == IF outcome = "error" THEN {"attempted", "session"} ELSE {"attempted"}

(* Faulty: does not ask the session.                                        *)
BlindFaulty == FALSE

CheckFailed == outcome = "error"

FailedState == "unavailable"

CheckReturns ==
    /\ Returned("check")
    /\ IF CheckFailed
       THEN /\ state' = FailedState /\ collector' = {"attempted"}
            /\ StopSession /\ step' = "drop"
       ELSE /\ step' = "rest"
            /\ UNCHANGED <<vars, state, collector>>
    /\ UNCHANGED <<gui, worker>>

(* The stop after a failed start, a failed check, or in close.              *)
StopReturns ==
    /\ Returned("rollback") \/ Returned("drop") \/ Returned("close")
    /\ collector' = AfterStop
    /\ step' = "rest"
    /\ UNCHANGED <<vars, gui, worker, state>>
-----------------------------------------------------------------------------
CollectorStep ==
    \/ CollectFirst \/ CollectAgain
    \/ StartSucceeded \/ StartFailed \/ CheckReturns \/ StopReturns

Sampling == Sample \/ CollectorStep \/ (CallSteps /\ UNCHANGED lifecycle)

LifecycleNext ==
    \/ UiStart \/ Shutdown \/ ShutdownEnds
    \/ Sampling \/ WorkerStop
    \/ (Consumer \/ SessionEnds) /\ UNCHANGED lifecycle

LifecycleSpec == LifecycleInit /\ [][LifecycleNext]_lifecycleVars

(* The timer keeps firing, a posted stop is handled between two samples     *)
(* however often the timer fires, and a blocked shutdown returns.           *)
LifecycleFairSpec ==
    /\ LifecycleSpec
    /\ WF_lifecycleVars(Sampling)
    /\ SF_lifecycleVars(WorkerStop)
    /\ WF_lifecycleVars(ShutdownEnds)
-----------------------------------------------------------------------------
LifecycleTypeOK ==
    /\ TypeOK
    /\ gui \in {"up", "waiting", "gone"}
    /\ worker \in {"none", "new", "running", "closed"}
    /\ step \in {"rest", "sample", "start", "rollback", "check", "drop", "close"}
    /\ collector \subseteq {"attempted", "session"}
    /\ state \in {"starting", "available", "denied", "unavailable", "stopped"}

(* Between two samples, whatever is left of a session in Windows or in its  *)
(* object is in the hands of the collector, whose close can still stop it:  *)
(* no failed start, failed check or failed stop drops a live session.       *)
OwnerKeepsSession ==
    step = "rest" /\ (~NothingLeft \/ session = "running" \/ trace = "open" \/ Alive) => Owned

(* The user is told the numbers are live only while a started session is    *)
(* there to feed them.                                                      *)
AvailableIsStarted ==
    step = "rest" /\ state = "available" => Owned /\ {"started", "thread"} \subseteq self

(* So a consumer thread that died is noticed by a later sample, however it  *)
(* died, and the state the user is shown changes.                           *)
FailureIsShown ==
    /\ []AvailableIsStarted
    /\ (state = "available" /\ consumer = "dead") ~> state # "available"

(* The window that is being closed does not hang: the worker's stop comes   *)
(* to its turn and every wait in it gives up in the end.                    *)
ShutdownReturns == gui = "waiting" ~> gui = "gone"
-----------------------------------------------------------------------------
(* Why OwnerKeepsSession holds: the sampling thread waits for each call, so *)
(* what the session promises of a returned stop is what it acts on.         *)

Stopping == {"rollback", "drop", "close"}

CallInv ==
    /\ pc # "idle" => step \notin {"rest", "sample"}
    /\ step = "check" => Owned
    /\ step \in Stopping => op = "stop"
    /\ step \in Stopping /\ pc = "idle" => outcome \in {"ok", "error"}

OwnershipInv == step \in {"rest", "sample"} /\ ~NothingLeft => Owned

(* Only a start that returned makes the state available, and whatever gives *)
(* the session up has changed the state before.                             *)
AvailableInv ==
    /\ step = "start" => op = "start"
    /\ step = "check" => pc \in {"idle", "checkAlive", "checkRaise"}
    /\ Returned("start") /\ outcome = "ok" => {"started", "thread"} \subseteq self
    /\ step \in {"rest", "sample", "check"} /\ state = "available" =>
          Owned /\ {"started", "thread"} \subseteq self
    /\ step \in Stopping \cup {"start"} => state # "available"

LifecycleIInv == IInv /\ CallInv /\ OwnershipInv /\ AvailableInv
=============================================================================
