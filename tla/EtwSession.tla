------------------------------ MODULE EtwSession ------------------------------
(***************************************************************************)
(* EtwSession: one real-time ETW session, its provider, its trace handle   *)
(* and the thread that sits in ProcessTrace.  The caller runs start, stop  *)
(* and raise_if_failed one at a time (start and stop under the lifecycle   *)
(* lock, raise_if_failed from the same sampling thread) and a call is a    *)
(* chain of steps, one for every Windows call or wait in it; the consumer  *)
(* thread and Windows act in between.                                      *)
(***************************************************************************)
VARIABLES
    self,         (* the fields of the object that are True or not None      *)
    threadError,  (* _thread_error                                           *)
    consumer,     (* where the consumer thread is                            *)
    status,       (* what ProcessTrace returned to it                        *)
    session,      (* Windows: the trace session; "taken" if somebody else    *)
                  (* stopped it                                              *)
    trace,        (* Windows: the handle ProcessTrace reads from             *)
    pc, op,       (* the caller's step, and the call it is in or was last    *)
    errors,       (* cleanup_errors                                          *)
    outcome       (* how the last call ended                                 *)

fields == <<self, threadError>>
threadVars == <<consumer, status>>
windows == <<session, trace>>
caller == <<pc, op, errors, outcome>>
vars == <<fields, threadVars, windows, caller>>

(* thread.is_alive().                                                       *)
Alive == consumer \in {"starting", "processing", "returned", "settled"}

Init ==
    /\ self = {} /\ threadError = "none"
    /\ consumer = "none" /\ status = "none"
    /\ session = "absent" /\ trace = "none"
    /\ pc = "idle" /\ op = "none" /\ errors = "none" /\ outcome = "none"

GoTo(step) == pc' = step /\ UNCHANGED <<op, outcome>>
ReturnWith(result) == pc' = "idle" /\ outcome' = result /\ UNCHANGED op
-----------------------------------------------------------------------------
(* start                                                                    *)

StartBlocked == self \cap {"started", "thread", "handle", "properties"} # {}

StartRejected ==
    /\ pc = "idle" /\ StartBlocked
    /\ op' = "start" /\ outcome' = "error"
    /\ UNCHANGED <<fields, threadVars, windows, pc, errors>>

StartCall ==
    /\ pc = "idle" /\ ~StartBlocked
    /\ self' = (self \ {"stopRequested", "thread"}) \cup {"properties"}
    /\ threadError' = "none"
    /\ pc' = "create" /\ op' = "start" /\ errors' = "none"
    /\ UNCHANGED <<threadVars, windows, outcome>>

(* Faulty: the rollback does not say that it stops.                         *)
UnannouncedFaulty(fieldsSet) == fieldsSet \ {"started"}

(* What a start that fails leaves for its rollback.                         *)
Failing(fieldsSet) == (fieldsSet \ {"started"}) \cup {"stopRequested"}

CreateTrace ==
    /\ pc = "create"
    /\ \/ /\ session' = "running" /\ self' = self \cup {"controllerActive"}
          /\ GoTo("enable")
       \/ self' = Failing(self) /\ GoTo("close") /\ UNCHANGED session
    /\ UNCHANGED <<threadError, threadVars, trace, errors>>

EnableProvider ==
    /\ pc = "enable"
    /\ \/ GoTo("open") /\ UNCHANGED self
       \/ self' = Failing(self) /\ GoTo("disable")
    /\ UNCHANGED <<threadError, threadVars, windows, errors>>

OpenConsumer ==
    /\ pc = "open"
    /\ \/ /\ self' = self \cup {"callback", "handle"} /\ trace' = "open"
          /\ GoTo("spawn")
       \/ self' = Failing(self \cup {"callback"}) /\ GoTo("disable") /\ UNCHANGED trace
    /\ UNCHANGED <<threadError, threadVars, session, errors>>

(* Thread.start may fail before the thread runs, or be interrupted after.   *)
SpawnConsumer ==
    /\ pc = "spawn"
    /\ status' = "none"
    /\ \/ /\ self' = self \cup {"started", "thread"} /\ consumer' = "starting"
          /\ ReturnWith("ok")
       \/ /\ self' = Failing(self \cup {"thread"}) /\ consumer' \in {"none", "starting"}
          /\ GoTo("disable")
    /\ UNCHANGED <<threadError, windows, errors>>
-----------------------------------------------------------------------------
(* stop, and the rollback of start, which takes the same steps in an order  *)
(* of its own and forgives every error.                                     *)

NothingLeft == self \cap {"thread", "handle", "properties", "controllerActive"} = {}

StopNothing ==
    /\ pc = "idle" /\ NothingLeft
    /\ op' = "stop" /\ outcome' = "ok"
    /\ UNCHANGED <<fields, threadVars, windows, pc, errors>>

StopCall ==
    /\ pc = "idle" /\ ~NothingLeft
    /\ self' = (self \ {"started"}) \cup {"stopRequested"}
    /\ pc' = IF "started" \in self THEN "disable" ELSE "control"
    /\ op' = "stop" /\ errors' = "none"
    /\ UNCHANGED <<threadError, threadVars, windows, outcome>>

(* Faulty: logs the error and goes on.                                      *)
SwallowErrorFaulty == UNCHANGED errors

(* A Windows call of the cleanup went wrong; only stop collects it.         *)
NoteError == errors' = IF op = "stop" THEN "some" ELSE errors

DisableProvider ==
    /\ pc = "disable"
    /\ NoteError \/ UNCHANGED errors
    /\ GoTo("control")
    /\ UNCHANGED <<fields, threadVars, windows>>

AfterControl == IF op = "stop" THEN "join" ELSE "close"

(* _stop_controller; a session that is gone already counts as stopped.      *)
StopController ==
    /\ pc = "control"
    /\ IF {"controllerActive", "properties"} \subseteq self
       THEN \/ /\ self' = self \ {"controllerActive"} /\ UNCHANGED errors
               /\ session' = IF session = "running" THEN "absent" ELSE session
            \/ NoteError /\ UNCHANGED <<self, session>>
       ELSE UNCHANGED <<self, session, errors>>
    /\ GoTo(AfterControl)
    /\ UNCHANGED <<threadError, threadVars, trace>>

(* The fields after CloseTrace answered ERROR_CTX_CLOSE_PENDING.            *)
AfterPending == self \ {"handle"}

(* _close_consumer; strict when its errors count.                           *)
CloseConsumer(strict) ==
    \/ "handle" \notin self /\ UNCHANGED <<self, trace, errors>>
    \/ /\ "handle" \in self
       /\ self' = self \ {"handle"} /\ trace' = "closed" /\ UNCHANGED errors
    \/ /\ "handle" \in self /\ consumer = "processing"
       /\ self' = AfterPending /\ trace' = "closing" /\ UNCHANGED errors
    \/ /\ "handle" \in self
       /\ IF strict THEN NoteError ELSE UNCHANGED errors
       /\ UNCHANGED <<self, trace>>

AfterClose == IF pc = "close" /\ op = "start" THEN "join" ELSE "join2"

Close ==
    /\ pc \in {"close", "close2"}
    /\ CloseConsumer(FALSE)
    /\ GoTo(AfterClose)
    /\ UNCHANGED <<threadError, threadVars, session>>

AfterJoin == IF op = "stop" THEN "closeLast" ELSE "release"

(* No thread, a thread that never ran, or a thread that is done.            *)
JoinDone ==
    /\ pc \in {"join", "join2"}
    /\ "thread" \notin self \/ ~Alive
    /\ GoTo(AfterJoin)
    /\ UNCHANGED <<fields, threadVars, windows, errors>>

(* Faulty: waits for ProcessTrace however long it takes.                    *)
JoinForeverFaulty == FALSE

(* join(timeout) gives up on a thread that is still running.                *)
JoinGivesUp == TRUE

JoinTimeout ==
    /\ pc \in {"join", "join2"}
    /\ "thread" \in self /\ Alive /\ JoinGivesUp
    /\ \/ /\ pc = "join" /\ UNCHANGED errors
          /\ GoTo(IF op = "stop" THEN "close" ELSE "close2")
       \/ pc = "join2" /\ NoteError /\ GoTo(AfterJoin)
    /\ UNCHANGED <<fields, threadVars, windows>>

CloseLast ==
    /\ pc = "closeLast"
    /\ CloseConsumer(TRUE)
    /\ GoTo("release")
    /\ UNCHANGED <<threadError, threadVars, session>>

(* Faulty: lets go whether or not the thread is out of ProcessTrace.        *)
ReleaseAnywayFaulty == TRUE

MayRelease == "thread" \notin self \/ ~Alive

(* Faulty: frees the properties, which a retry of the stop needs.           *)
DropPropertiesFaulty ==
    {"thread", "properties"} \cup (IF "handle" \in self THEN {} ELSE {"callback"})

(* What the end of a cleanup lets go of.                                    *)
Released ==
    {"thread"}
        \cup (IF "handle" \in self THEN {} ELSE {"callback"})
        \cup (IF "controllerActive" \in self THEN {} ELSE {"properties"})
        \cup (IF self \cap {"handle", "controllerActive"} = {} THEN {"stopRequested"} ELSE {})

Release ==
    /\ pc = "release"
    /\ self' = IF MayRelease THEN self \ Released ELSE self
    /\ GoTo("raise")
    /\ UNCHANGED <<threadError, threadVars, windows, errors>>

(* start raises what made it roll back; stop the consumer's error first.    *)
Raise ==
    /\ pc = "raise"
    /\ ReturnWith(IF op = "stop" /\ errors = "none" /\ threadError = "none" THEN "ok" ELSE "error")
    /\ UNCHANGED <<fields, threadVars, windows, errors>>
-----------------------------------------------------------------------------
(* raise_if_failed reads the error, then the thread.                        *)

CheckCall ==
    /\ pc = "idle"
    /\ op' = "check" /\ UNCHANGED outcome
    /\ pc' = IF threadError = "none" THEN "checkAlive" ELSE "checkRaise"
    /\ UNCHANGED <<fields, threadVars, windows, errors>>

CheckAlive ==
    /\ pc = "checkAlive"
    /\ threadError' =
          IF {"started", "thread"} \subseteq self /\ ~Alive THEN "no result" ELSE threadError
    /\ GoTo("checkRaise")
    /\ UNCHANGED <<self, threadVars, windows, errors>>

CheckRaise ==
    /\ pc = "checkRaise"
    /\ ReturnWith(IF threadError = "none" THEN "ok" ELSE "error")
    /\ UNCHANGED <<fields, threadVars, windows, errors>>
-----------------------------------------------------------------------------
(* The consumer thread, _consume.                                           *)

ReadHandle ==
    /\ consumer = "starting"
    /\ \/ "handle" \in self /\ consumer' = "processing" /\ UNCHANGED threadError
       \/ "handle" \notin self /\ consumer' = "settled" /\ threadError' = "no handle"
    /\ UNCHANGED <<self, status, windows, caller>>

(* ProcessTrace drains a session that ended, is cancelled by CloseTrace, or *)
(* fails; otherwise it stays, maybe for good.                               *)
ProcessTraceReturns ==
    /\ consumer = "processing"
    /\ \/ status' = "success" /\ (session # "running" \/ trace # "open")
       \/ status' = "cancelled" /\ trace # "open"
       \/ status' = "failure"
    /\ consumer' = "returned"
    /\ UNCHANGED <<fields, windows, caller>>

(* What _consume makes of the return.                                       *)
Verdict ==
    IF status = "failure" \/ (status = "cancelled" /\ "stopRequested" \notin self)
    THEN "ProcessTrace"
    ELSE IF "stopRequested" \in self THEN threadError ELSE "premature"

Settle ==
    /\ consumer = "returned"
    /\ threadError' = Verdict
    /\ consumer' = "settled"
    /\ UNCHANGED <<self, status, windows, caller>>

ThreadEnds ==
    /\ consumer = "settled" /\ consumer' = "dead"
    /\ UNCHANGED <<fields, status, windows, caller>>

(* Somebody else (logman, Windows) stops the session.                       *)
SessionEnds ==
    /\ session = "running" /\ session' = "taken"
    /\ UNCHANGED <<fields, threadVars, trace, caller>>
-----------------------------------------------------------------------------
Calls == StartRejected \/ StartCall \/ StopNothing \/ StopCall \/ CheckCall

CallSteps ==
    \/ CreateTrace \/ EnableProvider \/ OpenConsumer \/ SpawnConsumer
    \/ DisableProvider \/ StopController \/ Close \/ JoinDone \/ JoinTimeout
    \/ CloseLast \/ Release \/ Raise \/ CheckAlive \/ CheckRaise

Consumer == ReadHandle \/ ProcessTraceReturns \/ Settle \/ ThreadEnds

Next == Calls \/ CallSteps \/ Consumer \/ SessionEnds

Spec == Init /\ [][Next]_vars

(* A call keeps running: its waits time out and Windows answers it.         *)
FairSpec == Spec /\ WF_vars(CallSteps)
-----------------------------------------------------------------------------
Fields == {"started", "stopRequested", "controllerActive", "properties", "handle",
           "callback", "thread"}
ThreadErrors == {"none", "ProcessTrace", "premature", "no handle", "no result"}
ThreadPlaces == {"none", "starting", "processing", "returned", "settled", "dead"}
Statuses == {"none", "success", "cancelled", "failure"}
Steps == {"idle", "create", "enable", "open", "spawn", "disable", "control", "close", "join",
          "close2", "join2", "closeLast", "release", "raise", "checkAlive", "checkRaise"}

TypeOK ==
    /\ self \subseteq Fields /\ threadError \in ThreadErrors
    /\ consumer \in ThreadPlaces /\ status \in Statuses
    /\ session \in {"absent", "running", "taken"} /\ trace \in {"none", "open", "closing", "closed"}
    /\ pc \in Steps /\ op \in {"none", "start", "stop", "check"}
    /\ errors \in {"none", "some"} /\ outcome \in {"none", "ok", "error"}

(* ETW calls back into live memory: the callback object is referenced for   *)
(* as long as a thread is in ProcessTrace, whatever was closed under it.    *)
CallbackOutlivesProcessing == consumer = "processing" => "callback" \in self

(* What Windows still holds can still be stopped: the session has its flag  *)
(* and properties, the open trace its handle, the running thread its        *)
(* object, after any failure of start and any number of failed stops.       *)
NothingIsOrphaned ==
    /\ session = "running" => {"controllerActive", "properties"} \subseteq self
    /\ trace = "open" => "handle" \in self
    /\ Alive => "thread" \in self

(* CloseTrace is never asked to close a handle that is closed or closing.   *)
NeverClosedTwice == "handle" \in self => trace = "open"

(* A start begins from nothing: it never finds, and so never overwrites, a  *)
(* session, a trace or a thread of an earlier start.                        *)
StartsClean == pc = "create" => session # "running" /\ trace # "open" /\ ~Alive

(* A stop that raises nothing has given everything back to Windows.         *)
StopReleasesAll ==
    pc = "idle" /\ op = "stop" /\ outcome = "ok" =>
        /\ NothingLeft /\ "callback" \notin self
        /\ session # "running" /\ trace # "open" /\ ~Alive

(* What the consumer thread makes of ProcessTrace's return is right, however *)
(* a stop, a rollback or a retry writes _stop_requested around it: a session *)
(* ended before its time only if somebody else stopped it, and ProcessTrace *)
(* failed only if Windows said so (session.py:150-164).                     *)
VerdictIsFair ==
    /\ threadError = "premature" => session = "taken"
    /\ threadError = "ProcessTrace" => status = "failure"

(* What a stop says is true: what it keeps silent about was given back, and *)
(* the consumer's error that it raises first is one (session.py:249-252).   *)
StopIsTruthful == StopReleasesAll /\ VerdictIsFair

(* No call hangs on a ProcessTrace that never returns, so the lifecycle     *)
(* lock is always released.                                                 *)
CallsReturn == pc # "idle" ~> pc = "idle"

(* The claim of raise_if_failed (session.py:338) and of                     *)
(* tests/test_etw_session.py:168 that the health check raises the failure   *)
(* the consumer observed.  The thread may fail and end between the two      *)
(* reads of raise_if_failed, which then replaces its error by its own.      *)
HealthCheckKeepsCause ==
    "started" \in self /\ consumer = "dead" /\ status = "failure" => threadError = "ProcessTrace"
-----------------------------------------------------------------------------
(* Why nothing is lost: what start and stop know at each of their steps.    *)

Starting == pc \in {"create", "enable", "open", "spawn"}

HeldInv ==
    /\ "controllerActive" \in self => "properties" \in self
    /\ "handle" \in self => "callback" \in self
    /\ Starting => "properties" \in self /\ ~Alive /\ op = "start"
    /\ pc \in {"idle", "create", "enable", "open", "raise", "checkAlive", "checkRaise"} =>
          ("callback" \in self => "thread" \in self \/ "handle" \in self)

(* A stop without an error so far has done what its steps are for.          *)
CleanStopInv ==
    /\ pc \in {"checkAlive", "checkRaise"} => op = "check"
    /\ op = "stop" /\ errors = "none" =>
        /\ pc \in {"join", "close", "close2", "join2", "closeLast", "release", "raise"} =>
              "controllerActive" \notin self
        /\ pc \in {"closeLast", "release", "raise"} => ~Alive
        /\ pc \in {"release", "raise"} => "handle" \notin self
        /\ pc = "raise" => NothingLeft /\ "callback" \notin self

(* The thread has its verdict once, and what makes ProcessTrace return      *)
(* without an error is a stop that was requested or a session taken away.   *)
VerdictInv ==
    /\ pc \in {"disable", "control", "close", "join", "close2", "join2", "closeLast", "release"} =>
          "stopRequested" \in self
    /\ pc \in {"enable", "open", "spawn"} => session # "absent"
    /\ pc = "spawn" => trace = "open"
    /\ Starting \/ consumer \in {"starting", "processing", "returned"} => threadError = "none"
    /\ Alive /\ (session = "absent" \/ trace # "open") => "stopRequested" \in self
    /\ consumer = "returned" =>
          /\ status \in {"success", "cancelled", "failure"}
          /\ status = "success" => session # "running" \/ trace # "open"
          /\ status = "cancelled" => trace # "open"

HeldSafe ==
    /\ CallbackOutlivesProcessing /\ NothingIsOrphaned /\ NeverClosedTwice
    /\ StartsClean /\ HeldInv

CleanStop == StopReleasesAll /\ CleanStopInv

Fair == VerdictIsFair /\ VerdictInv

IInv == TypeOK /\ HeldSafe /\ CleanStop /\ Fair
=============================================================================
