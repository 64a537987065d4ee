---------------------- MODULE ApplicationSessionTracker ----------------------
(***************************************************************************)
(* ApplicationSessionTracker: bytes per application over one session.      *)
(* Every sample of a process raises a high-water mark, and the application *)
(* is charged what the mark gained.  The application an identity is        *)
(* charged to is fixed by its first sample, because the executable path    *)
(* that names it may be unreadable in some samples.                        *)
(***************************************************************************)
EXTENDS Integers

CONSTANTS Identities,  (* (pid, create_time), create_time known               *)
          Apps,        (* application keys                                    *)
          KeysOf,      (* the keys application_key may give an identity: its  *)
                       (* executable, or the process itself when unreadable   *)
          Unknown      (* an identity that was never sampled                  *)

ASSUME TrackerAssumption ==
    /\ Unknown \notin Apps
    /\ KeysOf \in [Identities -> SUBSET Apps]

VARIABLES keyOf,      (* _ProcessAttribution.key                              *)
          high,       (* _ProcessAttribution.last_*_bytes                     *)
          appTotals   (* _ApplicationTotals.*_bytes                           *)

trackerVars == <<keyOf, high, appTotals>>

TrackerInit ==
    /\ keyOf = [i \in Identities |-> Unknown]
    /\ high = [i \in Identities |-> 0]
    /\ appTotals = [a \in Apps |-> 0]

(* What a sample of i showing bytes adds to the account.                    *)
Gain(i, bytes) == IF bytes > high[i] THEN bytes - high[i] ELSE 0

(* Faulty: moves the identity to whatever key this sample suggests.         *)
RenamedKeysFaulty(i) == KeysOf[i]

(* The account a sample of i goes to: the first one sticks.                 *)
AccountKeys(i) == IF keyOf[i] = Unknown THEN KeysOf[i] ELSE {keyOf[i]}

(* _observe of a sample with counters.                                      *)
Observe(i, bytes) ==
    \E k \in AccountKeys(i) :
        /\ keyOf' = [keyOf EXCEPT ![i] = k]
        /\ high' = [high EXCEPT ![i] = @ + Gain(i, bytes)]
        /\ appTotals' = [appTotals EXCEPT ![k] = @ + Gain(i, bytes)]
=============================================================================
