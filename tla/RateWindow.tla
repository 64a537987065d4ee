------------------------------ MODULE RateWindow ------------------------------
(***************************************************************************)
(* The windowed rate of WindowsProcessNetworkCollector for one process and *)
(* one direction: what collect keeps of the samples of a verified identity *)
(* and the rate it publishes, a number of bytes over an elapsed time.      *)
(***************************************************************************)
EXTENDS Integers, SequencesExt, FiniteSetsExt

CONSTANTS Window,   (* _rate_window_seconds, here positive                    *)
          RateTime,  (* bound: the clock                                       *)
          MaxBytes, (* bound: the counter of the aggregator                   *)
          Unknown   (* a rate of None                                         *)

ASSUME WindowAssumption ==
    /\ Window \in Nat \ {0} /\ RateTime \in Nat /\ MaxBytes \in Nat
    /\ Unknown \notin Int

VARIABLES clock,    (* the monotonic clock, as coarse as the platform's       *)
          total,    (* bytes the aggregator has for the pid                   *)
          baseline, (* baseline_sent, Unknown before the first observation    *)
          previous, (* previous_sent                                          *)
          history,  (* history: samples of a time and the bytes observed      *)
          stale,    (* needs_rebaseline                                       *)
          rate,     (* the published rate: [bytes, elapsed], or Unknown       *)
          log       (* ghost: all samples since the window was last emptied   *)

rateVars == <<clock, total, baseline, previous, history, stale, rate, log>>

RateInit ==
    /\ clock = 0 /\ total = 0 /\ baseline = Unknown /\ previous = 0
    /\ history = <<>> /\ stale = FALSE /\ rate = Unknown /\ log = <<>>

Sample(bytes) == [at |-> clock, bytes |-> bytes]

(* Faulty: forgets the sample the window begins in.                         *)
InsideFaulty(samples) == SelectSeq(samples, LAMBDA s : s.at > clock - Window)

(* Samples from the last one that is as old as the window.                  *)
Pruned(samples) ==
    LET old == {i \in DOMAIN samples : samples[i].at <= clock - Window}
    IN  SubSeq(samples, IF old = {} THEN 1 ELSE Max(old), Len(samples))

Traffic ==
    /\ total < MaxBytes
    /\ total' = total + 1
    /\ UNCHANGED <<clock, baseline, previous, history, stale, rate, log>>

ClockTick ==
    /\ clock < RateTime
    /\ clock' = clock + 1
    /\ UNCHANGED <<total, baseline, previous, history, stale, rate, log>>

CollectUnverified ==
    /\ stale' = (stale \/ baseline # Unknown) /\ rate' = Unknown
    /\ UNCHANGED <<clock, total, baseline, previous, history, log>>

CollectFirst ==
    /\ baseline = Unknown
    /\ baseline' = total /\ previous' = 0
    /\ history' = <<Sample(0)>> /\ log' = <<Sample(0)>>
    /\ rate' = [bytes |-> 0, elapsed |-> 0]
    /\ UNCHANGED <<clock, total, stale>>

(* What the window still holds after a rebaseline.                          *)
Carried == IF stale THEN <<>> ELSE history

(* A clock that has not moved since the last sample empties the window.     *)
Moved == Carried = <<>> \/ clock > Last(Carried).at

(* Where the observed bytes are counted from.                               *)
Base == IF stale THEN total - previous ELSE baseline

Collect ==
    LET observed == IF total > Base THEN total - Base ELSE 0
        samples == IF Moved THEN Append(Carried, Sample(observed)) ELSE <<Sample(observed)>>
        window == Pruned(samples)
        first == Head(window)
    IN  /\ baseline # Unknown
        /\ history' = window
        /\ log' = IF stale \/ ~Moved THEN <<Sample(observed)>> ELSE Append(log, Sample(observed))
        /\ rate' = [bytes |-> observed - first.bytes, elapsed |-> clock - first.at]
        /\ baseline' = Base /\ previous' = observed /\ stale' = FALSE
        /\ UNCHANGED <<clock, total>>

RateNext == Traffic \/ ClockTick \/ CollectUnverified \/ CollectFirst \/ Collect

RateSpec == RateInit /\ [][RateNext]_rateVars
-----------------------------------------------------------------------------
(* The types; samples have increasing times, so that nothing divides by a   *)
(* time that did not pass.                                                  *)
RateTypeOK ==
    /\ clock \in 0..RateTime /\ total \in 0..MaxBytes /\ previous \in 0..MaxBytes
    /\ baseline \in 0..MaxBytes \cup {Unknown} /\ stale \in BOOLEAN
    /\ \A i \in DOMAIN history : history[i] \in [at : 0..RateTime, bytes : 0..MaxBytes]
    /\ \A i \in 2..Len(history) : history[i - 1].at < history[i].at
    /\ rate \in {Unknown} \cup [bytes : 0..MaxBytes, elapsed : 0..RateTime]

WindowedRate ==
    LET old  == {i \in DOMAIN log' : log'[i].at <= clock - Window}
        from == log'[IF old = {} THEN 1 ELSE Max(old)]
    IN  [bytes |-> Last(log').bytes - from.bytes, elapsed |-> clock - from.at]

(* The published rate is the one over all samples since the window was last *)
(* emptied: from the youngest that is at least a window old, or from the    *)
(* first of them.  What the collector threw away is never needed again, and *)
(* the bytes of an interval whose identity was unverified are in no rate:   *)
(* they are those of the first sample after it.                             *)
RateIsWindowed ==
    [][/\ Collect => rate' = WindowedRate
       /\ stale /\ ~stale' => rate'.bytes = 0 /\ Head(history').bytes = previous]_rateVars

(* Memory: no more samples than the window has clock ticks, and one.        *)
HistoryBounded == Len(history) <= Window + 1
-----------------------------------------------------------------------------
(* Why: the window is the end of the log, its times increase with every     *)
(* sample, and nothing is missing in front of it unless its first sample    *)
(* is as old as the window.                                                 *)
Samples == [at : 0..RateTime, bytes : 0..MaxBytes]

ValuesInv ==
    /\ clock \in 0..RateTime /\ total \in 0..MaxBytes /\ previous \in 0..MaxBytes
    /\ baseline \in 0..MaxBytes \cup {Unknown} /\ stale \in BOOLEAN
    /\ history \in Seq(Samples) /\ log \in Seq(Samples)
    /\ rate \in {Unknown} \cup [bytes : 0..MaxBytes, elapsed : 0..RateTime]

LogInv ==
    \A i, j \in 1..Len(log) :
        i <= j => /\ log[i].at + j - i <= log[j].at /\ log[j].at <= clock
                  /\ log[i].bytes <= log[j].bytes

SuffixInv ==
    /\ Len(history) <= Len(log)
    /\ \A i \in 1..Len(history) : history[i] = log[i + Len(log) - Len(history)]
    /\ Len(history) < Len(log) => history # <<>> /\ history[1].at <= clock - Window
    /\ Len(history) >= 2 => history[2].at > Last(history).at - Window

CountingInv ==
    /\ baseline = Unknown => history = <<>> /\ log = <<>> /\ ~stale
    /\ baseline # Unknown =>
          history # <<>> /\ Last(history).bytes = previous /\ baseline + previous <= total

RateInv == ValuesInv /\ LogInv /\ SuffixInv /\ CountingInv
=============================================================================
