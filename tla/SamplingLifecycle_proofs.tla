----------------------- MODULE SamplingLifecycle_proofs -----------------------
(***************************************************************************)
(* Proofs about EtwSession and SamplingLifecycle.  Whatever Windows        *)
(* answers, and whenever the consumer thread runs, nothing Windows holds   *)
(* is lost track of.  The application drives the session through           *)
(* EtwSession's own steps only, so what is proved of EtwSession holds      *)
(* there too; on top of it the collector never drops a live session.       *)
(***************************************************************************)
EXTENDS SamplingLifecycle, TLAPS

(* A new EtwSession holds nothing.                                          *)
LEMMA InitIInv == Init => IInv
  BY DEF Init, IInv, TypeOK, Fields, ThreadErrors, ThreadPlaces, Statuses, Steps,
         CallbackOutlivesProcessing, NothingIsOrphaned, NeverClosedTwice,
         StartsClean, StopReleasesAll, HeldInv, CleanStopInv, HeldSafe, CleanStop, Starting, Alive,
         Fair, VerdictIsFair, VerdictInv

(* Every step keeps fields, errors and positions within their values.       *)
LEMMA NextTypeOK == TypeOK /\ [Next]_vars => TypeOK'
  <1> USE DEF fields, threadVars, windows, caller, vars, GoTo, TypeOK
  <1>1. ASSUME TypeOK, StartRejected PROVE TypeOK'
    BY <1>1 DEF StartRejected
  <1>2. ASSUME TypeOK, StartCall PROVE TypeOK'
    BY <1>2 DEF StartCall, StartBlocked, Fields, ThreadErrors, Steps
  <1>3. ASSUME TypeOK, StopNothing PROVE TypeOK'
    BY <1>3 DEF StopNothing
  <1>4. ASSUME TypeOK, StopCall PROVE TypeOK'
    BY <1>4 DEF StopCall, Fields, Steps
  <1>5. ASSUME TypeOK, CheckCall PROVE TypeOK'
    BY <1>5 DEF CheckCall, Steps
  <1>6. ASSUME TypeOK, CreateTrace PROVE TypeOK'
    BY <1>6 DEF CreateTrace, Failing, Fields, Steps
  <1>7. ASSUME TypeOK, EnableProvider PROVE TypeOK'
    BY <1>7 DEF EnableProvider, Failing, Fields, Steps
  <1>8. ASSUME TypeOK, OpenConsumer PROVE TypeOK'
    BY <1>8 DEF OpenConsumer, Failing, Fields, Steps
  <1>9. ASSUME TypeOK, SpawnConsumer PROVE TypeOK'
    BY <1>9 DEF SpawnConsumer, Failing, ReturnWith, Fields, Steps, ThreadPlaces, Statuses
  <1>10. ASSUME TypeOK, DisableProvider PROVE TypeOK'
    BY <1>10 DEF DisableProvider, NoteError, Steps
  <1>11. ASSUME TypeOK, StopController PROVE TypeOK'
    BY <1>11 DEF StopController, NoteError, AfterControl, Steps
  <1>12. ASSUME TypeOK, Close PROVE TypeOK'
    BY <1>12 DEF Close, CloseConsumer, AfterPending, AfterClose, Steps
  <1>13. ASSUME TypeOK, JoinDone PROVE TypeOK'
    BY <1>13 DEF JoinDone, AfterJoin, Steps
  <1>14. ASSUME TypeOK, JoinTimeout PROVE TypeOK'
    BY <1>14 DEF JoinTimeout, NoteError, AfterJoin, Steps
  <1>15. ASSUME TypeOK, CloseLast PROVE TypeOK'
    BY <1>15 DEF CloseLast, CloseConsumer, NoteError, AfterPending, Steps
  <1>16. ASSUME TypeOK, Release PROVE TypeOK'
    BY <1>16 DEF Release, MayRelease, Released, Steps
  <1>17. ASSUME TypeOK, Raise PROVE TypeOK'
    BY <1>17 DEF Raise, ReturnWith, Steps
  <1>18. ASSUME TypeOK, CheckAlive PROVE TypeOK'
    BY <1>18 DEF CheckAlive, Steps, ThreadErrors
  <1>19. ASSUME TypeOK, CheckRaise PROVE TypeOK'
    BY <1>19 DEF CheckRaise, ReturnWith, Steps
  <1>20. ASSUME TypeOK, ReadHandle PROVE TypeOK'
    BY <1>20 DEF ReadHandle, ThreadPlaces, ThreadErrors
  <1>21. ASSUME TypeOK, ProcessTraceReturns PROVE TypeOK'
    BY <1>21 DEF ProcessTraceReturns, ThreadPlaces, Statuses
  <1>22. ASSUME TypeOK, Settle PROVE TypeOK'
    BY <1>22 DEF Settle, Verdict, ThreadPlaces, ThreadErrors
  <1>23. ASSUME TypeOK, ThreadEnds PROVE TypeOK'
    BY <1>23 DEF ThreadEnds, ThreadPlaces
  <1>24. ASSUME TypeOK, SessionEnds PROVE TypeOK'
    BY <1>24 DEF SessionEnds
  <1>25. ASSUME TypeOK, UNCHANGED vars PROVE TypeOK'
    BY <1>25
  <1> QED
    BY <1>1, <1>2, <1>3, <1>4, <1>5, <1>6, <1>7, <1>8, <1>9, <1>10, <1>11, <1>12,
       <1>13, <1>14, <1>15, <1>16, <1>17, <1>18, <1>19, <1>20, <1>21, <1>22, <1>23, <1>24, <1>25
    DEF Next, Calls, CallSteps, Consumer

(* What the object holds, step by step.                                     *)
LEMMA NextHeld == IInv /\ [Next]_vars => HeldSafe'
  <1> SUFFICES ASSUME IInv, [Next]_vars PROVE HeldSafe'
    OBVIOUS
  <1> USE DEF fields, threadVars, windows, caller, vars, GoTo,
              IInv, TypeOK, HeldSafe, CallbackOutlivesProcessing, NothingIsOrphaned, NeverClosedTwice,
              StartsClean, HeldInv, Starting, Alive
  <1>1. CASE StartRejected
    BY <1>1 DEF StartRejected
  <1>2. CASE StartCall
    BY <1>2 DEF StartCall, StartBlocked
  <1>3. CASE StopNothing
    BY <1>3 DEF StopNothing
  <1>4. CASE StopCall
    BY <1>4 DEF StopCall
  <1>5. CASE CheckCall
    BY <1>5 DEF CheckCall
  <1>6. CASE CreateTrace
    BY <1>6 DEF CreateTrace, Failing
  <1>7. CASE EnableProvider
    BY <1>7 DEF EnableProvider, Failing
  <1>8. CASE OpenConsumer
    BY <1>8 DEF OpenConsumer, Failing
  <1>9. CASE SpawnConsumer
    BY <1>9 DEF SpawnConsumer, Failing, ReturnWith
  <1>10. CASE DisableProvider
    BY <1>10 DEF DisableProvider, NoteError
  <1>11. CASE StopController
    BY <1>11 DEF StopController, NoteError, AfterControl
  <1>12. CASE Close
    BY <1>12 DEF Close, CloseConsumer, AfterPending, AfterClose
  <1>13. CASE JoinDone
    BY <1>13 DEF JoinDone, AfterJoin
  <1>14. CASE JoinTimeout
    BY <1>14 DEF JoinTimeout, NoteError, AfterJoin
  <1>15. CASE CloseLast
    BY <1>15 DEF CloseLast, CloseConsumer, NoteError, AfterPending
  <1>16. CASE Release
    BY <1>16 DEF Release, MayRelease, Released
  <1>17. CASE Raise
    BY <1>17 DEF Raise, ReturnWith
  <1>18. CASE CheckAlive
    BY <1>18 DEF CheckAlive
  <1>19. CASE CheckRaise
    BY <1>19 DEF CheckRaise, ReturnWith
  <1>20. CASE ReadHandle
    BY <1>20 DEF ReadHandle
  <1>21. CASE ProcessTraceReturns
    BY <1>21 DEF ProcessTraceReturns
  <1>22. CASE Settle
    BY <1>22 DEF Settle, Verdict
  <1>23. CASE ThreadEnds
    BY <1>23 DEF ThreadEnds
  <1>24. CASE SessionEnds
    BY <1>24 DEF SessionEnds
  <1>25. CASE UNCHANGED vars
    BY <1>25
  <1> QED
    BY <1>1, <1>2, <1>3, <1>4, <1>5, <1>6, <1>7, <1>8, <1>9, <1>10, <1>11, <1>12,
       <1>13, <1>14, <1>15, <1>16, <1>17, <1>18, <1>19, <1>20, <1>21, <1>22, <1>23, <1>24, <1>25
    DEF Next, Calls, CallSteps, Consumer

(* What a stop without errors has done, step by step.                       *)
LEMMA NextCleanStop == IInv /\ [Next]_vars => CleanStop'
  <1> SUFFICES ASSUME IInv, [Next]_vars PROVE CleanStop'
    OBVIOUS
  <1> USE DEF fields, threadVars, windows, caller, vars, GoTo,
              IInv, TypeOK, CleanStop, StopReleasesAll, CleanStopInv, HeldSafe, NeverClosedTwice,
              NothingIsOrphaned, HeldInv, Starting, NothingLeft, Alive
  <1>1. CASE StartRejected
    BY <1>1 DEF StartRejected
  <1>2. CASE StartCall
    BY <1>2 DEF StartCall, StartBlocked
  <1>3. CASE StopNothing
    BY <1>3 DEF StopNothing
  <1>4. CASE StopCall
    BY <1>4 DEF StopCall
  <1>5. CASE CheckCall
    BY <1>5 DEF CheckCall
  <1>6. CASE CreateTrace
    BY <1>6 DEF CreateTrace, Failing
  <1>7. CASE EnableProvider
    BY <1>7 DEF EnableProvider, Failing
  <1>8. CASE OpenConsumer
    BY <1>8 DEF OpenConsumer, Failing
  <1>9. CASE SpawnConsumer
    BY <1>9 DEF SpawnConsumer, Failing, ReturnWith
  <1>10. CASE DisableProvider
    BY <1>10 DEF DisableProvider, NoteError
  <1>11. CASE StopController
    BY <1>11 DEF StopController, NoteError, AfterControl
  <1>12. CASE Close
    <2>1. pc' \in {"join", "join2"} /\ pc \in {"close", "close2"}
      BY <1>12 DEF Close, AfterClose
    <2>2. StopReleasesAll'
      BY <2>1
    <2>3. self' \subseteq self /\ op' = op /\ errors' = errors
      BY <1>12 DEF Close, CloseConsumer, AfterPending, NoteError
    <2>4. CleanStopInv'
      BY <2>1, <2>3
    <2> QED
      BY <2>2, <2>4
  <1>13. CASE JoinDone
    BY <1>13 DEF JoinDone, AfterJoin
  <1>14. CASE JoinTimeout
    BY <1>14 DEF JoinTimeout, NoteError, AfterJoin
  <1>15. CASE CloseLast
    BY <1>15 DEF CloseLast, CloseConsumer, NoteError, AfterPending
  <1>16. CASE Release
    BY <1>16 DEF Release, MayRelease, Released
  <1>17. CASE Raise
    BY <1>17 DEF Raise, ReturnWith
  <1>18. CASE CheckAlive
    BY <1>18 DEF CheckAlive
  <1>19. CASE CheckRaise
    BY <1>19 DEF CheckRaise, ReturnWith
  <1>20. CASE ReadHandle
    BY <1>20 DEF ReadHandle
  <1>21. CASE ProcessTraceReturns
    BY <1>21 DEF ProcessTraceReturns
  <1>22. CASE Settle
    BY <1>22 DEF Settle, Verdict
  <1>23. CASE ThreadEnds
    BY <1>23 DEF ThreadEnds
  <1>24. CASE SessionEnds
    BY <1>24 DEF SessionEnds
  <1>25. CASE UNCHANGED vars
    BY <1>25
  <1> QED
    BY <1>1, <1>2, <1>3, <1>4, <1>5, <1>6, <1>7, <1>8, <1>9, <1>10, <1>11, <1>12,
       <1>13, <1>14, <1>15, <1>16, <1>17, <1>18, <1>19, <1>20, <1>21, <1>22, <1>23, <1>24, <1>25
    DEF Next, Calls, CallSteps, Consumer

(* What the consumer thread may conclude, step by step.                     *)
LEMMA NextFair == IInv /\ [Next]_vars => Fair'
  <1> SUFFICES ASSUME IInv, [Next]_vars PROVE Fair'
    OBVIOUS
  <1> USE DEF fields, threadVars, windows, caller, vars, GoTo,
              IInv, TypeOK, HeldSafe, NothingIsOrphaned, NeverClosedTwice, HeldInv, Starting, Alive,
              Fair, VerdictIsFair, VerdictInv
  <1>1. CASE StartRejected
    BY <1>1 DEF StartRejected
  <1>2. CASE StartCall
    BY <1>2 DEF StartCall, StartBlocked
  <1>3. CASE StopNothing
    BY <1>3 DEF StopNothing
  <1>4. CASE StopCall
    BY <1>4 DEF StopCall
  <1>5. CASE CheckCall
    BY <1>5 DEF CheckCall
  <1>6. CASE CreateTrace
    BY <1>6 DEF CreateTrace, Failing
  <1>7. CASE EnableProvider
    BY <1>7 DEF EnableProvider, Failing
  <1>8. CASE OpenConsumer
    BY <1>8 DEF OpenConsumer, Failing
  <1>9. CASE SpawnConsumer
    BY <1>9 DEF SpawnConsumer, Failing, ReturnWith
  <1>10. CASE DisableProvider
    BY <1>10 DEF DisableProvider, NoteError
  <1>11. CASE StopController
    BY <1>11 DEF StopController, NoteError, AfterControl
  <1>12. CASE Close
    BY <1>12 DEF Close, CloseConsumer, AfterPending, AfterClose
  <1>13. CASE JoinDone
    BY <1>13 DEF JoinDone, AfterJoin
  <1>14. CASE JoinTimeout
    BY <1>14 DEF JoinTimeout, NoteError, AfterJoin
  <1>15. CASE CloseLast
    BY <1>15 DEF CloseLast, CloseConsumer, NoteError, AfterPending
  <1>16. CASE Release
    BY <1>16 DEF Release, MayRelease, Released
  <1>17. CASE Raise
    BY <1>17 DEF Raise, ReturnWith
  <1>18. CASE CheckAlive
    BY <1>18 DEF CheckAlive
  <1>19. CASE CheckRaise
    BY <1>19 DEF CheckRaise, ReturnWith
  <1>20. CASE ReadHandle
    BY <1>20 DEF ReadHandle
  <1>21. CASE ProcessTraceReturns
    BY <1>21 DEF ProcessTraceReturns
  <1>22. CASE Settle
    BY <1>22 DEF Settle, Verdict
  <1>23. CASE ThreadEnds
    BY <1>23 DEF ThreadEnds
  <1>24. CASE SessionEnds
    BY <1>24 DEF SessionEnds
  <1>25. CASE UNCHANGED vars
    BY <1>25
  <1> QED
    BY <1>1, <1>2, <1>3, <1>4, <1>5, <1>6, <1>7, <1>8, <1>9, <1>10, <1>11, <1>12,
       <1>13, <1>14, <1>15, <1>16, <1>17, <1>18, <1>19, <1>20, <1>21, <1>22, <1>23, <1>24, <1>25
    DEF Next, Calls, CallSteps, Consumer

(* The strengthened invariant is inductive.                                 *)
LEMMA NextIInv == IInv /\ [Next]_vars => IInv'
  BY NextTypeOK, NextHeld, NextCleanStop, NextFair DEF IInv

(* It holds in every reachable state, and with it all its parts.            *)
THEOREM InductiveInvariant == Spec => []IInv
  BY InitIInv, NextIInv, PTL DEF Spec

(* Every variable of EtwSession keeps its type.                             *)
THEOREM TypeCorrect == Spec => []TypeOK
  <1>1. IInv => TypeOK
    BY DEF IInv
  <1> QED
    BY <1>1, InductiveInvariant, PTL

(* ETW never calls back into freed memory.                                  *)
THEOREM CallbackSafe == Spec => []CallbackOutlivesProcessing
  <1>1. IInv => CallbackOutlivesProcessing
    BY DEF IInv, HeldSafe
  <1> QED
    BY <1>1, InductiveInvariant, PTL

(* Every session, trace and thread is still known to the next stop.         *)
THEOREM NeverOrphaned == Spec => []NothingIsOrphaned
  <1>1. IInv => NothingIsOrphaned
    BY DEF IInv, HeldSafe
  <1> QED
    BY <1>1, InductiveInvariant, PTL

(* No handle is closed twice.                                               *)
THEOREM HandlesClosedOnce == Spec => []NeverClosedTwice
  <1>1. IInv => NeverClosedTwice
    BY DEF IInv, HeldSafe
  <1> QED
    BY <1>1, InductiveInvariant, PTL

(* A start finds nothing of an earlier one.                                 *)
THEOREM StartFindsNothing == Spec => []StartsClean
  <1>1. IInv => StartsClean
    BY DEF IInv, HeldSafe
  <1> QED
    BY <1>1, InductiveInvariant, PTL

(* A stop that raises nothing left nothing, and the consumer's error that   *)
(* it raises is the right one.                                              *)
THEOREM StopsAreTruthful == Spec => []StopIsTruthful
  <1>1. IInv => StopIsTruthful
    BY DEF IInv, CleanStop, Fair, StopIsTruthful
  <1> QED
    BY <1>1, InductiveInvariant, PTL

-----------------------------------------------------------------------------
(* The calls the session gets are calls EtwSession allows, one at a time.   *)
LEMMA StepsOfSession == [LifecycleNext]_lifecycleVars => [Next]_vars
  BY DEF LifecycleNext, lifecycleVars, UiStart, Shutdown, ShutdownEnds, Sampling, Sample,
         CollectorStep, CollectFirst, CollectAgain, StartSucceeded, StartFailed, CheckReturns,
         StopReturns, WorkerStop, StopSession, Next, Calls

(* The application drives the session as EtwSession specifies it.           *)
THEOREM DrivesSession == LifecycleSpec => Spec
  <1>1. LifecycleInit => Init
    BY DEF LifecycleInit
  <1> QED
    BY <1>1, StepsOfSession, PTL DEF LifecycleSpec, Spec

(* Before the first sample there is nothing to own.                         *)
LEMMA InitLifecycle == LifecycleInit => LifecycleIInv
  BY InitIInv DEF LifecycleInit, LifecycleIInv, CallInv, OwnershipInv, AvailableInv,
                  Stopping, NothingLeft, Init, Returned

(* A step inside a call leaves the ownership alone.                         *)
LEMMA InCall ==
  ASSUME LifecycleIInv, CallSteps, UNCHANGED lifecycle
  PROVE  CallInv' /\ OwnershipInv'
  <1>1. pc # "idle" /\ op' = op
    BY DEF CallSteps, CreateTrace, EnableProvider, OpenConsumer, SpawnConsumer, DisableProvider,
           StopController, Close, JoinDone, JoinTimeout, CloseLast, Release, Raise, CheckAlive,
           CheckRaise, GoTo, ReturnWith
  <1>2. step \notin {"rest", "sample"}
    BY <1>1 DEF LifecycleIInv, CallInv
  <1>3. pc' = "idle" => outcome' \in {"ok", "error"}
    BY <1>1 DEF CallSteps, CreateTrace, EnableProvider, OpenConsumer, SpawnConsumer,
           DisableProvider, StopController, AfterControl, Close, AfterClose, JoinDone, JoinTimeout,
           AfterJoin, CloseLast, Release, Raise, CheckAlive, CheckRaise, GoTo, ReturnWith
  <1> QED
    BY <1>1, <1>2, <1>3 DEF LifecycleIInv, CallInv, OwnershipInv, lifecycle, Owned, Stopping

(* Neither does the consumer thread, nor whoever else stops the session.    *)
LEMMA BesideCalls ==
  ASSUME LifecycleIInv, Consumer \/ SessionEnds, UNCHANGED lifecycle
  PROVE  CallInv' /\ OwnershipInv'
  <1>1. self' = self /\ UNCHANGED caller
    BY DEF Consumer, SessionEnds, ReadHandle, ProcessTraceReturns, Settle, ThreadEnds, fields
  <1> QED
    BY <1>1 DEF LifecycleIInv, CallInv, OwnershipInv, lifecycle, caller, Owned, Stopping,
                NothingLeft

(* session.stop() begins with op set; if there was nothing to stop, it is   *)
(* over.                                                                    *)
LEMMA StopBegins ==
  ASSUME StopSession
  PROVE  op' = "stop" /\ (pc' = "idle" => outcome' = "ok")
  BY DEF StopSession, StopCall, StopNothing

(* Every step of the application keeps the ownership.                       *)
LEMMA NextOwnership == LifecycleIInv /\ [LifecycleNext]_lifecycleVars => CallInv' /\ OwnershipInv'
  <1> SUFFICES ASSUME LifecycleIInv, [LifecycleNext]_lifecycleVars
               PROVE  CallInv' /\ OwnershipInv'
    OBVIOUS
  <1> USE DEF CallInv, OwnershipInv, Owned, Attempted, Returned, Stopping
  <1>1. CASE UiStart \/ Shutdown \/ ShutdownEnds \/ Sample
    BY <1>1 DEF UiStart, Shutdown, ShutdownEnds, Sample, LifecycleIInv, vars, fields, caller,
                NothingLeft
  <1>2. CASE WorkerStop
    BY <1>2, StopBegins DEF WorkerStop, LifecycleIInv, vars, fields, caller, NothingLeft
  <1>3. CASE CollectFirst
    BY <1>3 DEF CollectFirst, StartCall, LifecycleIInv, vars, fields, caller, NothingLeft
  <1>4. CASE CollectAgain
    BY <1>4 DEF CollectAgain, CheckCall, LifecycleIInv, vars, fields, caller, NothingLeft
  <1>5. CASE StartSucceeded
    BY <1>5 DEF StartSucceeded, CheckCall
  <1>6. CASE StartFailed
    BY <1>6, StopBegins DEF StartFailed
  <1>7. CASE CheckReturns
    BY <1>7, StopBegins DEF CheckReturns, LifecycleIInv, vars, fields, caller, NothingLeft
  <1>8. CASE StopReturns
    <2>1. pc = "idle" /\ op = "stop" /\ outcome \in {"ok", "error"}
      BY <1>8 DEF StopReturns, LifecycleIInv
    <2>2. outcome = "ok" => NothingLeft
      BY <2>1 DEF LifecycleIInv, IInv, CleanStop, StopReleasesAll
    <2> QED
      BY <1>8, <2>1, <2>2 DEF StopReturns, AfterStop, vars, fields, caller, NothingLeft
  <1>9. CASE CallSteps /\ UNCHANGED lifecycle
    BY <1>9, InCall
  <1>10. CASE (Consumer \/ SessionEnds) /\ UNCHANGED lifecycle
    BY <1>10, BesideCalls
  <1>11. CASE UNCHANGED lifecycleVars
    BY <1>11 DEF lifecycleVars, lifecycle, LifecycleIInv, vars, fields, caller, NothingLeft
  <1> QED
    BY <1>1, <1>2, <1>3, <1>4, <1>5, <1>6, <1>7, <1>8, <1>9, <1>10, <1>11
    DEF LifecycleNext, Sampling, CollectorStep

(* Neither a step inside a call nor the consumer thread undoes a start.     *)
LEMMA AvailableInCall ==
  ASSUME LifecycleIInv, (CallSteps \/ Consumer \/ SessionEnds) /\ UNCHANGED lifecycle
  PROVE  AvailableInv'
  <1> USE DEF AvailableInv, Owned, Returned, Stopping
  <1>1. CASE CallSteps
    <2>1. pc # "idle" /\ op' = op /\ step \notin {"rest", "sample"}
      BY <1>1 DEF CallSteps, CreateTrace, EnableProvider, OpenConsumer, SpawnConsumer,
             DisableProvider, StopController, Close, JoinDone, JoinTimeout, CloseLast, Release,
             Raise, CheckAlive, CheckRaise, GoTo, ReturnWith, LifecycleIInv, CallInv
    <2>2. op = "start" /\ pc' = "idle" /\ outcome' = "ok" => {"started", "thread"} \subseteq self'
      BY <1>1 DEF CallSteps, CreateTrace, EnableProvider, OpenConsumer, SpawnConsumer,
             DisableProvider, StopController, AfterControl, Close, AfterClose, JoinDone,
             JoinTimeout, AfterJoin, CloseLast, Release, Raise, CheckAlive, CheckRaise, GoTo,
             ReturnWith, LifecycleIInv, IInv, CleanStop, CleanStopInv
    <2>3. pc \in {"checkAlive", "checkRaise"} =>
             self' = self /\ pc' \in {"idle", "checkAlive", "checkRaise"}
      BY <1>1 DEF CallSteps, CreateTrace, EnableProvider, OpenConsumer, SpawnConsumer,
             DisableProvider, StopController, Close, JoinDone, JoinTimeout, CloseLast, Release,
             Raise, CheckAlive, CheckRaise, GoTo, ReturnWith, fields
    <2> QED
      BY <2>1, <2>2, <2>3 DEF LifecycleIInv, lifecycle
  <1>2. CASE Consumer \/ SessionEnds
    BY <1>2 DEF Consumer, SessionEnds, ReadHandle, ProcessTraceReturns, Settle, ThreadEnds,
                fields, caller, LifecycleIInv, lifecycle
  <1> QED
    BY <1>1, <1>2

(* Every step of the application keeps the state true.                      *)
LEMMA NextAvailable == LifecycleIInv /\ [LifecycleNext]_lifecycleVars => AvailableInv'
  <1> SUFFICES ASSUME LifecycleIInv, [LifecycleNext]_lifecycleVars
               PROVE  AvailableInv'
    OBVIOUS
  <1>0. op \in {"none", "start", "stop", "check"} /\ outcome \in {"none", "ok", "error"}
    BY DEF LifecycleIInv, IInv, TypeOK
  <1> USE DEF LifecycleIInv, AvailableInv, Owned, Attempted, Returned, Stopping
  <1>1. CASE UiStart \/ Shutdown \/ ShutdownEnds \/ Sample
    BY <1>1 DEF UiStart, Shutdown, ShutdownEnds, Sample, vars, fields, caller, CallInv
  <1>2. CASE WorkerStop
    BY <1>2 DEF WorkerStop, vars, fields, caller
  <1>3. CASE CollectFirst
    BY <1>3 DEF CollectFirst, StartCall, vars, fields, caller
  <1>4. CASE CollectAgain
    BY <1>4 DEF CollectAgain, CheckCall, vars, fields, caller
  <1>5. CASE StartSucceeded
    BY <1>5 DEF StartSucceeded, CheckCall, fields
  <1>6. CASE StartFailed
    BY <1>6 DEF StartFailed
  <1>7. CASE CheckReturns
    BY <1>7 DEF CheckReturns, FailedState, vars, fields
  <1>8. CASE StopReturns
    BY <1>8 DEF StopReturns
  <1>9. CASE (CallSteps \/ Consumer \/ SessionEnds) /\ UNCHANGED lifecycle
    BY <1>9, AvailableInCall
  <1>10. CASE UNCHANGED lifecycleVars
    BY <1>10 DEF lifecycleVars, lifecycle, vars, fields, caller
  <1> QED
    BY <1>1, <1>2, <1>3, <1>4, <1>5, <1>6, <1>7, <1>8, <1>9, <1>10
    DEF LifecycleNext, Sampling, CollectorStep

(* The strengthened invariant holds in every reachable state.               *)
THEOREM OwnershipInvariant == LifecycleSpec => []LifecycleIInv
  <1>1. LifecycleIInv /\ [LifecycleNext]_lifecycleVars => LifecycleIInv'
    BY NextOwnership, NextAvailable, StepsOfSession, NextIInv DEF LifecycleIInv
  <1> QED
    BY <1>1, InitLifecycle, PTL DEF LifecycleSpec

(* Between two samples the collector owns whatever is left of a session.    *)
THEOREM SessionNeverDropped == LifecycleSpec => []OwnerKeepsSession
  <1>1. LifecycleIInv => OwnerKeepsSession
    BY DEF LifecycleIInv, IInv, HeldSafe, NothingIsOrphaned, NothingLeft, OwnershipInv,
           OwnerKeepsSession
  <1> QED
    BY <1>1, OwnershipInvariant, PTL

(* The numbers are called live only while a started session feeds them.     *)
THEOREM LiveMeansStarted == LifecycleSpec => []AvailableIsStarted
  <1>1. LifecycleIInv => AvailableIsStarted
    BY DEF LifecycleIInv, AvailableInv, AvailableIsStarted
  <1> QED
    BY <1>1, OwnershipInvariant, PTL

(* Every variable of the application keeps its type.                        *)
THEOREM LifecycleTypes == LifecycleSpec => []LifecycleTypeOK
  <1>1. LifecycleInit => LifecycleTypeOK
    BY InitIInv DEF LifecycleInit, LifecycleTypeOK, IInv
  <1>2. LifecycleTypeOK /\ IInv' /\ [LifecycleNext]_lifecycleVars => LifecycleTypeOK'
    BY DEF LifecycleTypeOK, IInv, LifecycleNext, lifecycleVars, lifecycle, UiStart, Shutdown,
           ShutdownEnds, Sampling, Sample, CollectorStep, CollectFirst, CollectAgain,
           StartSucceeded, StartFailed, CheckReturns, FailedState, StopReturns, AfterStop,
           WorkerStop
  <1>3. LifecycleIInv => IInv
    BY DEF LifecycleIInv
  <1> QED
    BY <1>1, <1>2, <1>3, OwnershipInvariant, PTL DEF LifecycleSpec
=============================================================================
