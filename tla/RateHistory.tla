----------------------------- MODULE RateHistory -----------------------------
(***************************************************************************)
(* RateHistoryStore: the rates behind the sparkline, per application key,  *)
(* bounded in applications, samples and time, with the least recently seen *)
(* application evicted.  Driven as the controller drives it: all groups of *)
(* a snapshot are recorded, then the visible card reads the series of the  *)
(* application it shows, and it reads it again at every redraw.  The one   *)
(* shown may have no group in the snapshot: a followed one keeps its card. *)
(* A sample stands for its time, and two readings of the clock are never   *)
(* the same.                                                               *)
(***************************************************************************)
EXTENDS Naturals, SequencesExt

CONSTANTS Tracks,        (* application keys                                  *)
          MaxApps,       (* max_applications                                  *)
          MaxSamples,    (* max_samples                                       *)
          HistoryWindow, (* duration_seconds                                  *)
          HistoryTime,   (* bound: the clock                                  *)
          Nobody         (* no card is visible                                *)

ASSUME HistoryAssumption ==
    /\ MaxApps \in Nat \ {0} /\ MaxSamples \in Nat \ {0}
    /\ HistoryWindow \in Nat \ {0} /\ HistoryTime \in Nat /\ Nobody \notin Tracks

VARIABLES store,  (* _series and _last_seen: their entries in dict order      *)
          moment, (* time.monotonic                                           *)
          shown,  (* the application of the visible card                      *)
          curve,  (* WidgetFrame.rate_history                                 *)
          due,    (* ghost: what a store without a cap on applications shows  *)
          crowded (* ghost: the cap was exceeded since the card is shown      *)

historyVars == <<store, moment, shown, curve, due, crowded>>

HistoryInit ==
    /\ store = <<>> /\ moment = 0 /\ shown = Nobody
    /\ curve = <<>> /\ due = <<>> /\ crowded = FALSE

Tracked(s, app) == \E i \in DOMAIN s : s[i].key = app

Position(s, app) == CHOOSE i \in DOMAIN s : s[i].key = app

(* The first of the entries seen least recently.                            *)
IsOldest(s, i) == \A j \in DOMAIN s : s[i].seen < s[j].seen \/ (s[i].seen = s[j].seen /\ i <= j)

Oldest(s) == CHOOSE i \in DOMAIN s : IsOldest(s, i)

(* Faulty: one application too many is kept.                                *)
EvictLateFaulty(s, app) ==
    IF Tracked(s, app) \/ Len(s) <= MaxApps THEN s ELSE RemoveAt(s, Oldest(s))

EvictIfNeeded(s, app) ==
    IF Tracked(s, app) \/ Len(s) < MaxApps THEN s ELSE RemoveAt(s, Oldest(s))

(* deque(maxlen), without a sample that is older than the last.             *)
Sampled(samples, at) ==
    IF samples # <<>> /\ at < Last(samples) THEN samples
    ELSE IF Len(samples) < MaxSamples THEN Append(samples, at)
    ELSE Append(Tail(samples), at)

Present(s, app, at) ==
    IF Tracked(s, app) THEN s
    ELSE Append(EvictIfNeeded(s, app), [key |-> app, seen |-> at, samples |-> <<>>])

(* The entry of app, seen at a time and with what became of its samples.    *)
Updated(s, app, at, samples) ==
    [s EXCEPT ![Position(s, app)] = [key |-> app, seen |-> at, samples |-> samples]]

SamplesOf(s, app) == s[Position(s, app)].samples

Record(s, app, at) ==
    LET present == Present(s, app, at)
    IN  Updated(present, app, at, Sampled(SamplesOf(present, app), at))

(* Each group at its own reading of the clock.                              *)
RecordAll(groups) ==
    LET after[k \in 0..Len(groups)] ==
            IF k = 0 THEN store ELSE Record(after[k - 1], groups[k], moment + k)
    IN  after[Len(groups)]

(* Samples leave at the front as long as the first of them has expired.     *)
Fresh(samples, now) ==
    LET young == {i \in DOMAIN samples : samples[i] + HistoryWindow >= now}
    IN  IF young = {} THEN <<>> ELSE SubSeq(samples, Min(young), Len(samples))

(* Faulty: reading does not count as seeing.                                *)
ReadOnlyFaulty(s, app, now) ==
    [s EXCEPT ![Position(s, app)].samples = Fresh(@, now)]

(* get_series of a tracked key: seen now, expired samples dropped.          *)
GetSeries(s, app, now) == Updated(s, app, now, Fresh(SamplesOf(s, app), now))

(* The groups and the one on screen, which may be none of them, are no more *)
(* than the store holds.                                                    *)
Fits(groups, app) == IF app \in ToSet(groups) THEN Len(groups) <= MaxApps ELSE Len(groups) < MaxApps

Turn(groups, app) == CHOOSE k \in DOMAIN groups : groups[k] = app

(* frame() for app, or for none: what a card reads of the store s, and what *)
(* it would read of one that evicts nobody and so goes on from owed.        *)
Reads(s, app, now, owed) ==
    LET held == app \in Tracks /\ Tracked(s, app)
    IN  /\ shown' = app
        /\ store' = IF held THEN GetSeries(s, app, now) ELSE s
        /\ curve' = IF held THEN SamplesOf(store', app) ELSE <<>>
        /\ due' = IF app = shown /\ app \in Tracks THEN Fresh(owed, now) ELSE curve'

(* One snapshot, the groups of its visible processes in order, and the card *)
(* for any application or none.                                             *)
HistorySnapshot(groups, app) ==
    LET now == moment + Len(groups) + 1
        owed == IF app \in ToSet(groups) THEN Sampled(due, moment + Turn(groups, app)) ELSE due
    IN  /\ now <= HistoryTime /\ moment' = now
        /\ Reads(RecordAll(groups), app, now, owed)
        /\ crowded' = (app = shown /\ app \in Tracks /\ (crowded \/ ~Fits(groups, app)))

(* A frame without a snapshot: the heartbeat, another choice, a card shown. *)
Redraw(app) ==
    /\ moment < HistoryTime /\ moment' = moment + 1
    /\ Reads(store, app, moment', due)
    /\ crowded' = (crowded /\ app = shown)

HistoryTick ==
    /\ moment < HistoryTime /\ moment' = moment + 1
    /\ UNCHANGED <<store, shown, curve, due, crowded>>

HistoryNext ==
    \/ HistoryTick
    \/ \E groups \in UNION {[1..n -> Tracks] : n \in 0..MaxApps + 1} :
           /\ IsInjective(groups)
           /\ \E app \in Tracks \cup {Nobody} : HistorySnapshot(groups, app)
    \/ \E app \in Tracks \cup {Nobody} : Redraw(app)

HistorySpec == HistoryInit /\ [][HistoryNext]_historyVars
-----------------------------------------------------------------------------
Times   == 0..HistoryTime
Entries == [key : Tracks, seen : Times, samples : Seq(Times)]

(* The types, and the documented max_samples of a series.                   *)
HistoryTypeOK ==
    /\ store \in Seq(Entries) /\ \A i \in DOMAIN store : Len(store[i].samples) <= MaxSamples
    /\ moment \in Times /\ shown \in Tracks \cup {Nobody}
    /\ curve \in Seq(Times) /\ due \in Seq(Times) /\ crowded \in BOOLEAN

(* The documented cap on tracked applications, through any order of new,    *)
(* vanishing and returning ones, each of them tracked once.                 *)
MemoryBounded ==
    /\ Len(store) <= MaxApps
    /\ \A i, j \in DOMAIN store : store[i].key = store[j].key => i = j

(* a is what b ends with.                                                   *)
EndsWith(b, a) ==
    /\ Len(a) <= Len(b)
    /\ \A i \in DOMAIN a : a[i] = b[i + (Len(b) - Len(a))]

(* Recording never evicts the application on screen, with a group in the    *)
(* snapshots or without one: its card shows every sample since it began to  *)
(* show it that is not too old and not beyond max_samples, whichever other  *)
(* applications come, go and are evicted, as long as the groups of a        *)
(* snapshot and the one on screen are no more than the cap.  When they are  *)
(* more, they evict one another and in some orders the one on screen; even  *)
(* then its curve only begins late: no sample is missing inside it.         *)
ShownHistoryComplete ==
    shown \in Tracks => EndsWith(due, curve) /\ (~crowded => curve = due)
-----------------------------------------------------------------------------
(* Why it holds: the one on screen is the one seen last, so that it is next *)
(* to be evicted only when all others were recorded in the same snapshot,   *)
(* and then there are as many of them as groups other than its own.         *)
Kept(s, app) == IF Tracked(s, app) THEN SamplesOf(s, app) ELSE <<>>

SeenLastInv ==
    /\ \A i \in DOMAIN store : store[i].seen <= moment
    /\ \A i \in DOMAIN due : due[i] <= moment
    /\ \A i \in DOMAIN store : \A j \in DOMAIN store[i].samples : store[i].samples[j] <= moment
    /\ shown \in Tracks =>
        /\ Kept(store, shown) = curve
        /\ Tracked(store, shown) =>
              \A i \in DOMAIN store :
                  store[i].key # shown => store[i].seen < store[Position(store, shown)].seen

HistoryInv == HistoryTypeOK /\ MemoryBounded /\ ShownHistoryComplete /\ SeenLastInv
=============================================================================
