------------------------------ MODULE MCSession ------------------------------
(***************************************************************************)
(* The session under two callers: the application, which follows the       *)
(* discipline of SamplingLifecycle, and anyone, who makes any calls of the *)
(* public interface in any order, as the tests do.                         *)
(***************************************************************************)
EXTENDS SamplingLifecycle

VARIABLE driver

all == <<lifecycleVars, driver>>

(* Anyone is no collector: the lifecycle stays where it claims nothing.     *)
AnyoneInit ==
    /\ Init
    /\ gui = "up" /\ worker = "none" /\ step = "sample"
    /\ collector = {} /\ state = "starting"

Application(A) == driver = "application" /\ A /\ UNCHANGED driver
Anyone(A) == driver = "anyone" /\ A /\ UNCHANGED <<lifecycle, driver>>

AllInit ==
    \/ driver = "application" /\ LifecycleInit
    \/ driver = "anyone" /\ AnyoneInit

AllNext == Application(LifecycleNext) \/ Anyone(Next)

(* The fairness of LifecycleFairSpec and of FairSpec.                       *)
AllSpec ==
    /\ AllInit /\ [][AllNext]_all
    /\ WF_all(Application(Sampling)) /\ SF_all(Application(WorkerStop))
    /\ WF_all(Application(ShutdownEnds))
    /\ WF_all(Anyone(CallSteps))
=============================================================================
