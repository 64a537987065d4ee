------------------------------ MODULE IconCache ------------------------------
(***************************************************************************)
(* IconCache: icons of executables, read by one lazy worker thread.  The   *)
(* GUI thread calls request, poll and close, one at a time; every access   *)
(* to a queue or to the closed flag is a step, so the worker runs between  *)
(* any two of them.  An icon and a failed read are both an entry of the    *)
(* cache and are not told apart.                                           *)
(***************************************************************************)
EXTENDS Naturals, SequencesExt

CONSTANTS Paths,     (* normalized local paths that match their key           *)
          Capacity,  (* entries the cache keeps                               *)
          MaxCloses, (* bound: calls of close                                 *)
          Stop       (* the None that ends the worker                         *)

ASSUME IconAssumption ==
    Capacity \in Nat \ {0} /\ MaxCloses \in Nat \ {0} /\ Stop \notin Paths

VARIABLES cache,     (* cache: paths, the least recently used first           *)
          pending,   (* _pending                                              *)
          requests,  (* _requests                                             *)
          results,   (* _results                                              *)
          closes,    (* calls of close so far; _closed is set by the first    *)
          worker,    (* the worker thread: none, loop, get, read, put, gone,  *)
                     (* or dead of queue.Full                                 *)
          job,       (* the path it is reading: a sequence of at most one     *)
          gui        (* where the GUI thread is in poll or close              *)

iconVars == <<cache, pending, requests, results, closes, worker, job, gui>>

Slots == 2

IconInit ==
    /\ cache = <<>> /\ pending = {} /\ requests = <<>> /\ results = <<>>
    /\ closes = 0 /\ worker = "none" /\ job = <<>> /\ gui = "free"

Closed == closes > 0

Cached == ToSet(cache)

Place(p) == CHOOSE k \in DOMAIN cache : cache[k] = p

Without(p) == IF p \in Cached THEN RemoveAt(cache, Place(p)) ELSE cache

(* The cache after p became its most recently used entry.                   *)
Touched(p) == Append(Without(p), p)
-----------------------------------------------------------------------------
(* GUI thread                                                               *)

RequestCached(p) ==
    /\ gui = "free" /\ ~Closed /\ p \in Cached
    /\ cache' = Touched(p)
    /\ UNCHANGED <<pending, requests, results, closes, worker, job, gui>>

(* Faulty: bounds the work by the requests that are waiting.                *)
CountWaitingFaulty(p) == p \notin pending /\ Len(requests) < Slots

MayRequest(p) == p \notin pending /\ Cardinality(pending) < Slots

(* put_nowait, and the first request starts the worker.                     *)
RequestRead(p) ==
    /\ gui = "free" /\ ~Closed /\ p \notin Cached /\ MayRequest(p)
    /\ pending' = pending \cup {p}
    /\ requests' = Append(requests, p)
    /\ worker' = IF worker = "none" THEN "loop" ELSE worker
    /\ UNCHANGED <<cache, results, closes, job, gui>>

PollCall ==
    /\ gui = "free" /\ results # <<>>
    /\ gui' = "poll"
    /\ UNCHANGED <<cache, pending, requests, results, closes, worker, job>>

Overfull(entries) == Len(entries) > Capacity

Freed(p) == pending \ {p}

PollTake ==
    /\ gui = "poll" /\ results # <<>>
    /\ results' = Tail(results)
    /\ pending' = Freed(Head(results))
    /\ cache' = IF Closed THEN cache
                ELSE LET entries == Touched(Head(results))
                     IN  IF Overfull(entries) THEN Tail(entries) ELSE entries
    /\ UNCHANGED <<requests, closes, worker, job, gui>>

PollDone ==
    /\ gui = "poll" /\ results = <<>>
    /\ gui' = "free"
    /\ UNCHANGED <<cache, pending, requests, results, closes, worker, job>>

CloseCall ==
    /\ gui = "free" /\ closes < MaxCloses
    /\ closes' = closes + 1 /\ gui' = "drain"
    /\ UNCHANGED <<cache, pending, requests, results, worker, job>>

DrainTake ==
    /\ gui = "drain" /\ requests # <<>>
    /\ requests' = Tail(requests)
    /\ UNCHANGED <<cache, pending, results, closes, worker, job, gui>>

Sentinel == <<Stop>>

(* The queue was seen empty, and only the GUI thread fills it.              *)
DrainDone ==
    /\ gui = "drain" /\ requests = <<>>
    /\ pending' = {} /\ requests' = Sentinel
    /\ gui' = IF worker = "none" THEN "free" ELSE "join"
    /\ UNCHANGED <<cache, results, closes, worker, job>>

(* join returns, because the worker is gone or because its time is over.    *)
JoinReturns ==
    /\ gui = "join"
    /\ gui' = "free"
    /\ UNCHANGED <<cache, pending, requests, results, closes, worker, job>>
-----------------------------------------------------------------------------
(* The worker, _run                                                         *)

Loop ==
    /\ worker = "loop"
    /\ worker' = IF Closed THEN "gone" ELSE "get"
    /\ UNCHANGED <<cache, pending, requests, results, closes, job, gui>>

Take ==
    /\ worker = "get" /\ requests # <<>>
    /\ requests' = Tail(requests)
    /\ IF Head(requests) = Stop \/ Closed
       THEN worker' = "gone" /\ UNCHANGED job
       ELSE worker' = "read" /\ job' = <<Head(requests)>>
    /\ UNCHANGED <<cache, pending, results, closes, gui>>

(* Faulty: an exception of the reader ends the thread.                      *)
UncaughtFaulty == "raised"

(* Where reader's return, or its exception, leads.                          *)
AfterRead == IF Closed THEN "loop" ELSE "put"

ReadReturns ==
    /\ worker = "read"
    /\ worker' = AfterRead
    /\ job' = IF Closed THEN <<>> ELSE job
    /\ UNCHANGED <<cache, pending, requests, results, closes, gui>>

(* put_nowait, perhaps after close was called; queue.Full ends the thread.  *)
Put ==
    /\ worker = "put"
    /\ job' = <<>>
    /\ IF Len(results) < Slots
       THEN results' = results \o job /\ worker' = "loop"
       ELSE worker' = "dead" /\ UNCHANGED results
    /\ UNCHANGED <<cache, pending, requests, closes, gui>>
-----------------------------------------------------------------------------
Gui ==
    \/ \E p \in Paths : RequestCached(p) \/ RequestRead(p)
    \/ PollTake \/ PollDone \/ CloseCall \/ DrainTake \/ DrainDone \/ JoinReturns

Worker == Loop \/ Take \/ Put

IconNext == Gui \/ PollCall \/ Worker \/ ReadReturns

IconSpec == IconInit /\ [][IconNext]_iconVars

(* The GUI finishes what it began, its heartbeat polls, the worker runs.    *)
(* Nothing makes a read return.                                             *)
IconFairSpec ==
    /\ IconSpec
    /\ WF_iconVars(PollTake \/ PollDone) /\ WF_iconVars(PollCall)
    /\ WF_iconVars(DrainTake \/ DrainDone \/ JoinReturns)
    /\ WF_iconVars(Worker)
-----------------------------------------------------------------------------
QueueTypes ==
    /\ pending \subseteq Paths
    /\ requests \in Seq(Paths \cup {Stop}) /\ results \in Seq(Paths) /\ job \in Seq(Paths)
    /\ closes \in 0..MaxCloses
    /\ worker \in {"none", "loop", "get", "read", "put", "gone", "dead"}
    /\ gui \in {"free", "poll", "drain", "join"}

IconTypeOK == cache \in Seq(Paths) /\ QueueTypes

(* put_nowait never meets a full queue: not in the GUI thread, where it     *)
(* would break a repaint, and not in the worker, which it would kill.       *)
NeverFull == Len(requests) <= Slots /\ Len(results) <= Slots /\ worker # "dead"

(* _pending is exactly the work in flight, each path once and none of it    *)
(* cached: an entry that stayed behind would block its slot for good, a     *)
(* missing one would read a path twice.                                     *)
PendingIsInFlight ==
    ~Closed =>
        LET flight == requests \o job \o results IN
        /\ ToSet(flight) = pending
        /\ Len(flight) = Cardinality(pending)
        /\ pending \cap Cached = {}

(* The cache is bounded and lists a path once.                              *)
CacheBounded == Len(cache) <= Capacity /\ Cardinality(Cached) = Len(cache)

(* As long as no read hangs for ever, every requested icon arrives unless   *)
(* the cache is closed, and a close ends the worker: wherever close finds   *)
(* it, the sentinel or the flag reaches it.                                 *)
RequestsAnswered ==
    []<>(worker # "read") =>
        /\ \A p \in Paths : p \in pending ~> (p \in Cached \/ Closed)
        /\ Closed ~> worker \in {"none", "gone"}
-----------------------------------------------------------------------------
(* Why NeverFull holds: what is in flight is bounded by _pending, and close *)
(* empties the queue of requests before it adds the sentinel.               *)

InFlight ==
    IF Closed THEN Len(job) + Len(results)
              ELSE Len(job) + Len(results) + Len(requests)

Bounded ==
    /\ IsFiniteSet(pending) /\ InFlight <= Slots
    /\ ~Closed => InFlight <= Cardinality(pending) /\ Cardinality(pending) <= Slots
    /\ gui = "drain" => Closed

JobInv == Len(job) = IF worker \in {"read", "put"} THEN 1 ELSE 0

IconInv == QueueTypes /\ NeverFull /\ Bounded /\ JobInv

(* Why the other two hold: a path is in one of the three places at most,    *)
(* and in none of them once it is cached, because request looks there first.*)
CacheInv == cache \in Seq(Paths) /\ IsInjective(cache) /\ Len(cache) <= Capacity

FlightInv ==
    ~Closed =>
        /\ IsInjective(requests) /\ IsInjective(results)
        /\ ToSet(requests) \cap ToSet(job) = {} /\ ToSet(requests) \cap ToSet(results) = {}
        /\ ToSet(job) \cap ToSet(results) = {}
        /\ pending = ToSet(requests) \cup ToSet(job) \cup ToSet(results)
        /\ pending \cap Cached = {}

FlowInv == IconInv /\ CacheInv /\ FlightInv
=============================================================================
