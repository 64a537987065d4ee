---------------------------- MODULE TrafficLedger ----------------------------
(***************************************************************************)
(* What the attribution pipeline promises whoever reads its totals: a      *)
(* ledger.  Processes send; an entry charges part of what lifetime n of a  *)
(* pid, and those before it, have sent to the application of that process, *)
(* which never changes; nothing is taken back and nothing is charged that  *)
(* was not sent.                                                           *)
(***************************************************************************)
EXTENDS Integers

CONSTANTS Pids, Lives, Apps, Unknown,
          Amounts  (* what one entry may be worth *)

VARIABLES sent,     (* sent[p][n]: by lifetimes 1..n of p                    *)
          charged,  (* charged[p][n]: to lifetimes 1..n of p                 *)
          owner,    (* the application of a process                          *)
          account   (* the total of an application                           *)

ledgerVars == <<sent, charged, owner, account>>

Init ==
    /\ sent = [p \in Pids |-> [n \in Lives |-> 0]]
    /\ charged = [p \in Pids |-> [n \in Lives |-> 0]]
    /\ owner = [i \in Pids \X Lives |-> Unknown]
    /\ account = [a \in Apps |-> 0]

From(f, p, n, k) == [f EXCEPT ![p] = [m \in Lives |-> IF m >= n THEN f[p][m] + k ELSE f[p][m]]]

Send(p, n, k) ==
    /\ sent' = From(sent, p, n, k)
    /\ UNCHANGED <<charged, owner, account>>

Charge(p, n, a, k) ==
    /\ owner[<<p, n>>] \in {Unknown, a}
    /\ \A m \in Lives : m >= n => charged[p][m] + k <= sent[p][m]
    /\ owner' = [owner EXCEPT ![<<p, n>>] = a]
    /\ charged' = From(charged, p, n, k)
    /\ account' = [account EXCEPT ![a] = @ + k]
    /\ UNCHANGED sent

Next ==
    \E p \in Pids, n \in Lives, k \in Amounts :
        \/ Send(p, n, k)
        \/ \E a \in Apps : Charge(p, n, a, k)

Spec == Init /\ [][Next]_ledgerVars
=============================================================================
