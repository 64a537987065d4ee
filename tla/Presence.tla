------------------------------ MODULE Presence ------------------------------
(***************************************************************************)
(* What the micro window and the card say about the selected application,  *)
(* in the foreground or not, running or not, and which application the     *)
(* spotlight names as the foreground one.  MicroProjection keeps two caches *)
(* of one foreground poll (the badge with the context it was resolved in,  *)
(* the spotlight's pid with its identity); snapshots, selections and hidden *)
(* windows come between the polls.  One program is enough to tell the      *)
(* cases apart: its processes show its path or do not, and one that does   *)
(* not is an application of its own.                                       *)
(***************************************************************************)
EXTENDS Naturals, FiniteSetsExt, PythonNone

CONSTANTS Pids, Lives,  (* process ids and their lifetimes, 1..n              *)
          Varied,       (* bound: pids that are reused and not always readable *)
          Rates,        (* bound: rates                                       *)
          Program       (* the program all processes run: exe:<its path>      *)

Identities == Pids \X Lives
Seen       == Pids \X (Lives \cup {0})  (* identities as far as readable     *)
Keys       == {Program} \cup Seen

(* What a poll sees: the pid, the selection with its members, and who has   *)
(* the pid.                                                                 *)
Polls == [pid : Pids \cup {None}, members : SUBSET Seen, key : Keys \cup {None},
          front : SUBSET Seen]

ASSUME PresenceAssumption ==
    /\ Lives \subseteq Nat \ {0} /\ 1 \in Lives /\ Rates \subseteq Nat /\ Varied \subseteq Pids
    /\ None \notin Pids \cup Rates /\ None \notin Keys /\ None \notin Polls

VARIABLES life,       (* the process that has the pid in Windows              *)
          processes,  (* snapshot.processes with their rows                   *)
          usable,     (* source_state() is ACTIVE                             *)
          attributed, (* _processes of the tracker: the key of an identity    *)
          selected,   (* _focus.key or _auto_key                              *)
          focused,    (* _focus is not None                                   *)
          visible,    (* the micro window or its card is on screen            *)
          presence,   (* _presence                                            *)
          context,    (* _presence_context                                    *)
          foreground, (* _spotlight_foreground_pid, _foreground_identity      *)
          polled      (* ghost: what the last poll since windows hid saw      *)

presenceVars == <<life, processes, usable, attributed, selected, focused, visible,
          presence, context, foreground, polled>>

(* An enumerated process: its create_time (0 if unreadable), whether its    *)
(* path is readable, and its rate if its row has one.                       *)
Processes == [pid : Pids, born : Lives \cup {0}, path : BOOLEAN, rate : Rates \cup {None}]

(* application_key                                                          *)
KeyOf(process) == IF process.path THEN Program ELSE <<process.pid, process.born>>

Identity(process) == <<process.pid, process.born>>

Members(procs, key) == {p \in procs : KeyOf(p) = key}

(* aggregate_application_network: a group has a rate if each of its members *)
(* has one.                                                                 *)
RateOf(procs, key) ==
    IF \E p \in Members(procs, key) : p.rate = None THEN None
    ELSE MapThenSumSet(LAMBDA p : p.rate, Members(procs, key))

SendingKeys(procs) == {KeyOf(p) : p \in {q \in procs : RateOf(procs, KeyOf(q)) \notin {None, 0}}}

-----------------------------------------------------------------------------
(* presence_context                                                         *)
Context(procs, key) ==
    LET members == Members(procs, key)
    IN  [key      |-> IF members = {} THEN None ELSE key,
         trusted  |-> {p.pid : p \in {m \in members : m.born # 0}},
         complete |-> members # {} /\ \A p \in members : p.born # 0,
         members  |-> {Identity(p) : p \in members}]

(* resolve_presence                                                         *)
Resolve(ctx, pid) ==
    IF ctx.key = None \/ pid = None THEN "unknown"
    ELSE IF pid \in ctx.trusted THEN "foreground"
    ELSE IF ctx.complete THEN "background"
    ELSE "unknown"

(* _foreground_context                                                      *)
ForegroundContext(procs, pid) ==
    {<<KeyOf(p), Identity(p)>> : p \in {q \in procs : q.pid = pid /\ q.born # 0}}

(* Faulty: the cached pid is believed whoever has it by now.                *)
CachedByPidFaulty(procs, fg) == IF fg.identity = {} THEN None ELSE fg.pid

(* cached_foreground_pid                                                    *)
CachedForeground(procs, fg) ==
    IF fg.identity = {} \/ fg.identity # ForegroundContext(procs, fg.pid) THEN None ELSE fg.pid

(* _find_foreground_application                                             *)
FindForeground(procs, pid) ==
    LET trusted == {p \in procs : p.pid = pid /\ p.born # 0}
    IN  IF trusted = {} THEN None ELSE KeyOf(CHOOSE p \in trusted : TRUE)

(* compute_network_spotlight: foreground, what the rest adds up to, and     *)
(* whether the share of it can be told.                                     *)
Spotlight ==
    LET front == FindForeground(processes, CachedForeground(processes, foreground))
        rest  == {KeyOf(p) : p \in processes} \ {front}
        known == {k \in rest : RateOf(processes, k) # None}
    IN  [foreground |-> IF usable THEN front ELSE None,
         background |-> IF usable THEN MapThenSumSet(LAMBDA k : RateOf(processes, k), known) ELSE None,
         reliable   |-> usable /\ rest = known /\
                        (processes = {} \/ (front # None /\ RateOf(processes, front) # None))]

(* cached_presence_state                                                    *)
Badge == IF context = Context(processes, selected) THEN presence ELSE "unknown"

Stable(key) == key = Program \/ \A p \in Members(processes, key) : p.born # 0

HasAccount(key) == \E i \in DOMAIN attributed : attributed[i] = key

(* observed_process_count                                                   *)
NoneObserved(key) ==
    /\ \A p \in processes : p.born # 0
    /\ \A p \in processes : key # IF Identity(p) \in DOMAIN attributed
                                  THEN attributed[Identity(p)] ELSE KeyOf(p)

(* The state of the frame while the source is active.                       *)
State ==
    LET rate == RateOf(processes, selected)
    IN  CASE Members(processes, selected) # {} ->
               IF rate = None \/ ~Stable(selected) THEN "unknown"
               ELSE IF rate > 0 THEN "active" ELSE "idle"
          [] Members(processes, selected) = {} /\ focused ->
               IF HasAccount(selected) /\ NoneObserved(selected) THEN "not_running" ELSE "unknown"
          [] OTHER ->
               IF processes = {} THEN "empty"
               ELSE IF \E p \in processes : p.rate = None THEN "unknown" ELSE "idle"

Forgotten == [pid |-> None, identity |-> {}]

-----------------------------------------------------------------------------
PresenceInit ==
    /\ life = [p \in Pids |-> 1] /\ processes = {} /\ usable = FALSE
    /\ attributed = [i \in {} |-> None]
    /\ selected = None /\ focused = FALSE /\ visible = TRUE
    /\ presence = "unknown" /\ context = Context({}, None)
    /\ foreground = Forgotten /\ polled = None

(* Faulty: the verdict of the last poll goes with the new context.          *)
ReusedFaulty ==
    /\ presence' = presence
    /\ context' = Context(processes', selected')

(* _refresh_views without a poll (controller.py:478-480) hands what          *)
(* cached_presence_state keeps, the verdict if its context is unchanged, to *)
(* set_presence_state, with the context of now.                             *)
Recheck ==
    /\ presence' = IF context = Context(processes', selected') THEN presence ELSE "unknown"
    /\ context' = Context(processes', selected')

(* frame(): cached_foreground_pid forgets a pid whose identity changed.     *)
Refresh ==
    /\ Recheck
    /\ foreground' = IF CachedForeground(processes', foreground) = None THEN Forgotten
                     ELSE foreground
    /\ polled' = polled

(* _invalidate_foreground                                                   *)
Invalidate ==
    /\ presence' = "unknown" /\ context' = Context(processes', selected')
    /\ foreground' = Forgotten /\ polled' = None

RefreshViews == IF visible THEN Refresh ELSE Invalidate

(* update: the key an identity is first seen with is kept.                  *)
Attributed(procs) ==
    LET certain(i) == {p \in procs : Identity(p) = i /\ p.born # 0 /\ p.rate # None}
    IN  [i \in DOMAIN attributed \cup {Identity(p) : p \in {q \in procs : q.born # 0 /\ q.rate # None}} |->
            IF i \in DOMAIN attributed THEN attributed[i]
            ELSE KeyOf(CHOOSE p \in certain(i) : TRUE)]

(* _on_snapshot: an enumeration and its rows, without numbers if the        *)
(* collector is not available; the automatic choice is one of the sending   *)
(* applications.                                                            *)
OnSnapshot(procs, available) ==
    /\ available \/ \A p \in procs : p.rate = None
    /\ processes' = procs /\ usable' = available
    /\ attributed' = Attributed(procs)
    /\ IF focused \/ ~available THEN selected' = selected
       ELSE selected' \in (IF SendingKeys(procs) = {} THEN {None} ELSE SendingKeys(procs))
    /\ UNCHANGED <<life, focused, visible>>
    /\ RefreshViews

(* A row has numbers only if the identity could be checked.                 *)
Enumerated(pid) ==
    LET row(born, known, rate) == [pid |-> pid, born |-> born, path |-> known, rate |-> rate]
    IN  {row(life[pid], TRUE, r) : r \in Rates \cup {None}}
        \cup (IF pid \notin Varied THEN {}
              ELSE {row(0, known, None) : known \in BOOLEAN}
                   \cup {row(life[pid], FALSE, r) : r \in Rates \cup {None}})

(* One row for each of the processes that are running.                      *)
Enumerations ==
    {procs \in SUBSET UNION {Enumerated(pid) : pid \in Pids} : \A p, q \in procs : p.pid = q.pid => p = q}

(* A sampling failure or the age of the data.                               *)
SourceLost ==
    /\ usable /\ usable' = FALSE
    /\ UNCHANGED <<life, processes, attributed, selected, focused, visible>>
    /\ RefreshViews

(* Windows gives the pid of a process that exited to another one.           *)
Reuse(pid) ==
    /\ pid \in Varied /\ life[pid] + 1 \in Lives
    /\ life' = [life EXCEPT ![pid] = @ + 1]
    /\ UNCHANGED <<processes, usable, attributed, selected, focused, visible,
                   presence, context, foreground, polled>>

(* follow: one of choices(), which has the enumerated applications and the  *)
(* accounts without active processes.                                       *)
FollowKey(key) ==
    /\ \/ Members(processes, key) # {} /\ Stable(key)
       \/ /\ HasAccount(key)
          /\ \A p \in processes : Identity(p) \in DOMAIN attributed => attributed[Identity(p)] # key
    /\ selected' = key /\ focused' = TRUE
    /\ UNCHANGED <<life, processes, usable, attributed, visible>>
    /\ RefreshViews

UnfollowKey ==
    /\ focused /\ focused' = FALSE
    /\ selected' \in (IF ~usable \/ SendingKeys(processes) = {} THEN {None} ELSE SendingKeys(processes))
    /\ UNCHANGED <<life, processes, usable, attributed, visible>>
    /\ RefreshViews

Poll(pid) ==
    /\ presence' = Resolve(Context(processes, selected), pid)
    /\ context' = Context(processes, selected)
    /\ foreground' = [pid |-> pid, identity |-> ForegroundContext(processes, pid)]
    /\ polled' = [pid |-> pid, members |-> {Identity(p) : p \in Members(processes, selected)},
                  key |-> selected, front |-> {Identity(p) : p \in {q \in processes : q.pid = pid}}]

(* _heartbeat_refresh                                                       *)
Heartbeat(pid) ==
    /\ UNCHANGED <<life, processes, usable, attributed, selected, focused, visible>>
    /\ IF visible THEN Poll(pid) ELSE Invalidate

(* The micro window or the card hides, or one is about to show.             *)
Hide ==
    /\ visible /\ visible' \in BOOLEAN
    /\ UNCHANGED <<life, processes, usable, attributed, selected, focused>>
    /\ Invalidate

Show ==
    /\ ~visible /\ visible' = TRUE
    /\ UNCHANGED <<life, processes, usable, attributed, selected, focused>>
    /\ Invalidate

PresenceNext ==
    \/ \E procs \in Enumerations, available \in BOOLEAN : OnSnapshot(procs, available)
    \/ SourceLost
    \/ \E pid \in Pids : Reuse(pid)
    \/ \E key \in Keys : FollowKey(key)
    \/ UnfollowKey
    \/ \E pid \in Pids \cup {None} : Heartbeat(pid)
    \/ Hide
    \/ Show

PresenceSpec == PresenceInit /\ [][PresenceNext]_presenceVars

-----------------------------------------------------------------------------
PresenceTypeOK ==
    /\ life \in [Pids -> Lives] /\ processes \in SUBSET Processes
    /\ usable \in BOOLEAN /\ focused \in BOOLEAN /\ visible \in BOOLEAN
    /\ DOMAIN attributed \subseteq Identities
    /\ \A i \in DOMAIN attributed : attributed[i] \in {Program, i}
    /\ selected \in Keys \cup {None}
    /\ presence \in {"foreground", "background", "unknown"}

(* The badge and the spotlight are cached apart and checked apart; they     *)
(* still never contradict each other: an application the badge calls the    *)
(* foreground one is the spotlight's, and one it calls background is not.   *)
(* Neither contradicts the state: an application shown as not running has   *)
(* no badge and is not the spotlight's.                                     *)
BadgeAgrees ==
    usable => /\ Badge = "foreground" => Spotlight.foreground = selected
              /\ Badge = "background" => Spotlight.foreground # selected
              /\ Badge # "unknown" => State \in {"active", "idle", "unknown"}
              /\ State = "not_running" => Spotlight.foreground # selected

(* What is shown about the foreground stems from a poll made since the      *)
(* windows were last hidden, of the same selection with the same members,   *)
(* and of the process that still has the polled pid: evidence is never      *)
(* carried over to another identity.                                        *)
EvidenceIsCurrent ==
    /\ Badge # "unknown" =>
         /\ polled # None /\ polled.key = selected
         /\ polled.members = {Identity(p) : p \in Members(processes, selected)}
    /\ Spotlight.foreground # None =>
         /\ polled # None
         /\ polled.front = {Identity(p) : p \in {q \in processes : q.pid = polled.pid}}
-----------------------------------------------------------------------------
(* Why both hold: a verdict that is kept was given by the last poll, about  *)
(* members that have not changed, and so was the identity of the pid; when  *)
(* the verdict says foreground, the one identity is among the members.      *)
OneRowPerPid == \A p, q \in processes : p.pid = q.pid => p = q

BadgeInv ==
    presence # "unknown" =>
        /\ polled # None /\ context.key \in Keys
        /\ polled.key = context.key /\ polled.members = context.members
        /\ polled.pid \in Pids /\ presence = Resolve(context, polled.pid)

SpotlightInv ==
    foreground.identity # {} =>
        /\ polled # None /\ foreground.pid = polled.pid /\ polled.pid \in Pids
        /\ polled.front = {x[2] : x \in foreground.identity}

ForegroundInv ==
    presence = "foreground" =>
        /\ foreground.pid = polled.pid
        /\ foreground.identity = {<<context.key, i>> : i \in {m \in context.members : m[1] = polled.pid}}

PresenceInv ==
    /\ PresenceTypeOK /\ OneRowPerPid /\ BadgeInv /\ SpotlightInv /\ ForegroundInv
    /\ focused => selected \in Keys
=============================================================================
