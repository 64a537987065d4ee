--------------------------- MODULE CollectorProbe ---------------------------
(***************************************************************************)
(* The acceptance probe of the production collector: a parent that starts  *)
(* the collector, a loopback server thread and a child process, lets the   *)
(* child exchange one payload in each direction once its pid has a         *)
(* baseline, and reads what the collector counted.  The child and the      *)
(* server move on their own, may hang or die, and ETW delivers what they   *)
(* moved in chunks, later or never.  A timeout is a choice of the parent   *)
(* that is open whenever it waits.                                         *)
(***************************************************************************)
EXTENDS Naturals, PythonNone

CONSTANT Chunks  (* bound: ETW events of one direction                       *)

ASSUME ProbeAssumption == Chunks \in Nat \ {0}

Directions == {"up", "down"}

ASSUME NoneIsNoNumber == None \notin Nat /\ None \notin [Directions -> Nat]

VARIABLES at,        (* where the parent is                                   *)
          outcome,   (* the exit code so far                                *)
          latest,    (* the last stats: bytes of both directions or None      *)
          peak,      (* directions with a positive rate in some poll          *)
          quiet,     (* stable_zero_samples                                   *)
          child,     (* how far the child is; "ok" and "bad" are its exits    *)
          killed,    (* TerminateProcess was called on it                     *)
          server,    (* the server thread; "failed" has left an error         *)
          stop,      (* server_stop                                           *)
          held,      (* events ETW still holds                                *)
          totals,    (* the aggregator's bucket of the child's pid            *)
          session,   (* the collector's session                               *)
          closed,    (* _closed of the collector                              *)
          base,      (* baseline of the child's identity, or None             *)
          last,      (* previous_sent, previous_received                      *)
          needs,     (* needs_rebaseline                                      *)
          elapsed,   (* the clock has moved since the last collect            *)
          lingers,   (* Windows still knows an exited child by its pid        *)
          due,       (* ghost: directions delivered when the poll began       *)
          excuses    (* ghost: what kept the collector from counting          *)

parentVars    == <<at, outcome>>
measureVars   == <<latest, peak, quiet, due, elapsed>>
childVars     == <<child, killed>>
collectorVars == <<session, closed, base, last, needs, excuses>>
probeVars == <<parentVars, measureVars, childVars, server, stop, held, totals, collectorVars,
               lingers>>

Zero       == [d \in Directions |-> 0]
Running    == child \in {"starting", "ready", "told", "sent"}
Serving    == server \in {"accepting", "serving", "replied"}
Available  == session \in {"running", "failing"} /\ ~closed

ProbeInit ==
    /\ at = "start" /\ outcome = None /\ latest = None /\ peak = {} /\ quiet = 0 /\ due = {}
    /\ elapsed = FALSE /\ needs = FALSE /\ excuses = {}
    /\ child = "none" /\ killed = FALSE /\ server = "none" /\ stop = FALSE
    /\ held = Zero /\ totals = Zero
    /\ session = "none" /\ closed = FALSE /\ base = None /\ last = Zero /\ lingers \in BOOLEAN

-----------------------------------------------------------------------------
(* The child.                                                               *)
ChildStep(from, to) == child = from /\ child' = to /\ UNCHANGED killed

ChildReports ==
    /\ ChildStep("starting", "ready")
    /\ UNCHANGED <<parentVars, measureVars, server, stop, held, totals, collectorVars, lingers>>

ChildSends ==
    /\ ChildStep("told", "sent")
    /\ held' = [held EXCEPT !["up"] = Chunks]
    /\ UNCHANGED <<parentVars, measureVars, server, stop, totals, collectorVars, lingers>>

(* The child ends well when it has the whole answer, and just as well when  *)
(* the connection is closed before that.                                    *)
ChildDone ==
    /\ ChildStep("sent", "ok") /\ server \in {"replied", "ended", "failed"}
    /\ UNCHANGED <<parentVars, measureVars, server, stop, held, totals, collectorVars, lingers>>

(* By itself, by a closed stdin or by TerminateProcess.                     *)
ChildDies ==
    /\ Running /\ child' = "bad" /\ UNCHANGED killed
    /\ UNCHANGED <<parentVars, measureVars, server, stop, held, totals, collectorVars, lingers>>

(* _serve_once.                                                             *)
ServerAccepts ==
    /\ server = "accepting" /\ child = "sent" /\ ~stop /\ server' = "serving"
    /\ UNCHANGED <<parentVars, measureVars, childVars, stop, held, totals, collectorVars, lingers>>

ServerReplies ==
    /\ server = "serving" /\ child = "sent" /\ ~stop /\ server' = "replied"
    /\ held' = [held EXCEPT !["down"] = Chunks]
    /\ UNCHANGED <<parentVars, measureVars, childVars, stop, totals, collectorVars, lingers>>

(* It returns after its answer, when the child is gone or at cleanup.       *)
ServerEnds ==
    /\ Serving /\ (stop \/ server = "replied" \/ (server = "serving" /\ ~Running))
    /\ server' = "ended"
    /\ UNCHANGED <<parentVars, measureVars, childVars, stop, held, totals, collectorVars, lingers>>

(* Any of its calls may raise; after stop nobody is told.                   *)
ServerFails ==
    /\ Serving /\ ~stop /\ server' = "failed"
    /\ UNCHANGED <<parentVars, measureVars, childVars, stop, held, totals, collectorVars, lingers>>

(* ETW.                                                                     *)
Deliver(d) ==
    /\ held[d] > 0 /\ session = "running"
    /\ held' = [held EXCEPT ![d] = @ - 1] /\ totals' = [totals EXCEPT ![d] = @ + 1]
    /\ UNCHANGED <<parentVars, measureVars, childVars, server, stop, collectorVars, lingers>>

SessionFails ==
    /\ session = "running" /\ session' = "failing"
    /\ UNCHANGED <<parentVars, measureVars, childVars, server, stop, held, totals, closed, base,
                   last, needs, excuses, lingers>>

-----------------------------------------------------------------------------
(* collect((process,)): the sample, and what it leaves in the collector.    *)
(* ok is the answer of the identity check: no of a process that Windows     *)
(* does not know any more, and no as well when psutil fails.                *)
Known       == Running \/ lingers
Counted(ok) == session = "running" /\ ok

(* The baseline of the sample: a new one for a new identity, and one that   *)
(* leaves out what came since the last sample after a failed check.         *)
Baselined == IF base = None THEN totals
             ELSE IF needs THEN [d \in Directions |-> totals[d] - last[d]]
             ELSE base

Bytes(ok)  == IF Counted(ok) THEN [d \in Directions |-> totals[d] - Baselined[d]] ELSE None
Rising(ok) == {d \in Directions : Counted(ok) /\ base # None /\ elapsed /\ Bytes(ok)[d] > last[d]}

Excuses(ok) ==
    {e \in {"identity"} : session = "running" /\ Known /\ ~ok}
        \cup {e \in {"clock"} : Counted(ok) /\ base # None /\ ~elapsed}

Collect(ok) ==
    /\ ok => Known
    /\ session' = IF session = "failing" THEN "lost" ELSE session
    /\ base' = IF Counted(ok) THEN Baselined ELSE base
    /\ last' = IF Counted(ok) THEN Bytes(ok) ELSE last
    /\ needs' = IF session = "running" THEN ~ok /\ base # None ELSE needs
    /\ excuses' = excuses \cup Excuses(ok)
    /\ UNCHANGED closed

Go(stage) == at' = stage /\ UNCHANGED outcome
Fail      == at' = "stop" /\ outcome' = 1  (* an exception ends main with 1 *)

(* collect(()) and the check of available.                                  *)
StartProbe ==
    /\ at = "start"
    /\ \/ session' = "running" /\ Go("spawn")
       \/ session' = "refused" /\ Fail
    /\ UNCHANGED <<measureVars, childVars, server, stop, held, totals, closed, base, last, needs,
                   excuses, lingers>>

(* The server thread, then Popen, which may fail.                           *)
Spawn ==
    /\ at = "spawn" /\ server' = "accepting"
    /\ \/ child' = "starting" /\ Go("pid")
       \/ child' = child /\ Fail
    /\ UNCHANGED <<measureVars, killed, stop, held, totals, collectorVars, lingers>>

(* _read_child_pid and _get_child_process_info: a timeout, a child that is  *)
(* gone or an identity that cannot be read ends the probe.                  *)
Identify ==
    /\ at = "pid" /\ IF child = "ready" THEN Go("baseline") \/ Fail ELSE Fail
    /\ UNCHANGED <<measureVars, childVars, server, stop, held, totals, collectorVars, lingers>>

(* _baseline_then_signal.                                                   *)
Baseline ==
    /\ at = "baseline" /\ (\E ok \in BOOLEAN : Collect(ok)) /\ Go("signal")
    /\ UNCHANGED <<measureVars, childVars, server, stop, held, totals, lingers>>

Signal ==
    /\ at = "signal"
    /\ IF child = "ready" THEN child' = "told" /\ Go("wait") ELSE child' = child /\ Fail
    /\ UNCHANGED <<measureVars, killed, server, stop, held, totals, collectorVars, lingers>>

(* Faulty: without the return code.                                         *)
AnyExitFaulty ==
    /\ at = "wait"
    /\ IF child \in {"ok", "bad"} /\ server = "ended"
       THEN Go("measure") /\ due' = {d \in Directions : totals[d] > 0} /\ elapsed' \in BOOLEAN
       ELSE Fail /\ UNCHANGED <<due, elapsed>>
    /\ UNCHANGED <<latest, peak, quiet, childVars, server, stop, held, totals, collectorVars,
                   lingers>>

(* child.wait, the return code, the join of the server and its errors.  The *)
(* exchange may be over within one tick of the clock.                       *)
Exchanged ==
    /\ at = "wait"
    /\ IF child = "ok" /\ server = "ended"
       THEN Go("measure") /\ due' = {d \in Directions : totals[d] > 0} /\ elapsed' \in BOOLEAN
       ELSE Fail /\ UNCHANGED <<due, elapsed>>
    /\ UNCHANGED <<latest, peak, quiet, childVars, server, stop, held, totals, collectorVars,
                   lingers>>

Both(bytes) == bytes # None /\ \A d \in Directions : bytes[d] > 0

(* One poll of _wait_for_bidirectional_stats; late when the deadline        *)
(* passed.  The next poll comes after a sleep.                              *)
Measure(late, ok) ==
    /\ at = "measure" /\ Collect(ok)
    /\ latest' = Bytes(ok) /\ peak' = peak \cup Rising(ok) /\ elapsed' = TRUE
    /\ IF late \/ (Both(Bytes(ok)) /\ peak' = Directions) THEN Go("idle") ELSE Go("measure")
    /\ UNCHANGED <<quiet, due, childVars, server, stop, held, totals, lingers>>

(* What main makes of the result, but for the closed session.               *)
Code(recovered) ==
    IF ~Available' THEN 1
    ELSE IF ~Both(latest) THEN 2
    ELSE IF peak # Directions THEN 3
    ELSE IF recovered THEN 0 ELSE 6

Result(recovered) == at' = "stop" /\ outcome' = Code(recovered)

(* One poll of _wait_for_idle_stats, which compares with the last one; the  *)
(* deadline may pass before the poll or after it.                           *)
IdlePoll(late, ok) ==
    /\ Collect(ok)
    /\ quiet' = IF Bytes(ok) = last /\ Rising(ok) = {} THEN quiet + 1 ELSE 0
    /\ IF quiet' = 2 THEN Result(TRUE)
       ELSE IF late \/ Bytes(ok) = None THEN Result(FALSE)
       ELSE Go("idle")

Idle(late, ok) ==
    /\ at = "idle"
    /\ \/ (late \/ latest = None) /\ UNCHANGED <<collectorVars, quiet>> /\ Result(FALSE)
       \/ latest # None /\ IdlePoll(late, ok)
    /\ UNCHANGED <<latest, peak, due, elapsed, childVars, server, stop, held, totals, lingers>>

-----------------------------------------------------------------------------
(* Faulty: the pipes are closed before the child is stopped.                *)
PipesFirstFaulty ==
    /\ at = "stop" /\ stop' = TRUE /\ Go("pipes")
    /\ UNCHANGED <<measureVars, childVars, server, held, totals, collectorVars, lingers>>

(* finally: server_stop, which the server looks at, and stdin.              *)
StopServer ==
    /\ at = "stop" /\ stop' = TRUE /\ Go("terminate")
    /\ UNCHANGED <<measureVars, childVars, server, held, totals, collectorVars, lingers>>

(* _terminate_child: terminate, wait, kill, wait.                           *)
Terminate ==
    /\ at = "terminate" /\ killed' = (killed \/ Running) /\ Go("reap")
    /\ UNCHANGED <<measureVars, child, server, stop, held, totals, collectorVars, lingers>>

(* The child is gone, or both waits ran out.                                *)
Reap ==
    /\ at = "reap" /\ Go("pipes")
    /\ UNCHANGED <<measureVars, childVars, server, stop, held, totals, collectorVars, lingers>>

(* Closing a pipe waits for the helper thread that reads it, and that one   *)
(* for the child's end of the pipe.                                         *)
ClosePipes ==
    /\ at = "pipes" /\ ~Running /\ Go("server")
    /\ UNCHANGED <<measureVars, childVars, server, stop, held, totals, collectorVars, lingers>>

(* listener.close and the join of the server, which may time out.           *)
JoinServer ==
    /\ at = "server" /\ Go("close")
    /\ UNCHANGED <<measureVars, childVars, server, stop, held, totals, collectorVars, lingers>>

(* collector.close, whose stop may fail: the session goes on.  Then the     *)
(* result's collector_closed, which main looks at after the rates.          *)
Close ==
    /\ at = "close" /\ closed' = TRUE /\ UNCHANGED <<base, last, needs, excuses>>
    /\ session' \in (IF session = "refused" THEN {session} ELSE {"closed", session})
    /\ at' = "done" /\ outcome' = IF outcome \in {0, 6} /\ Available' THEN 4 ELSE outcome
    /\ UNCHANGED <<measureVars, childVars, server, stop, held, totals, lingers>>

Done == at = "done" /\ UNCHANGED probeVars

Parent ==
    \/ StartProbe \/ Spawn \/ Identify \/ Baseline \/ Signal \/ Exchanged
    \/ StopServer \/ Terminate \/ Reap \/ ClosePipes \/ JoinServer \/ Close

ProbeNext ==
    \/ Parent
    \/ \E late, ok \in BOOLEAN : Measure(late, ok) \/ Idle(late, ok)
    \/ ChildReports \/ ChildSends \/ ChildDone \/ ChildDies
    \/ ServerAccepts \/ ServerReplies \/ ServerEnds \/ ServerFails
    \/ SessionFails \/ \E d \in Directions : Deliver(d)
    \/ Done

(* The parent and the server run, the clock passes every deadline, and a    *)
(* process that was terminated ends.  The child owes nothing.               *)
MeasureEnds == \E ok \in BOOLEAN : Measure(TRUE, ok)
IdleEnds    == \E ok \in BOOLEAN : Idle(TRUE, ok)

Fairness ==
    /\ WF_probeVars(Parent) /\ WF_probeVars(MeasureEnds) /\ WF_probeVars(IdleEnds)
    /\ WF_probeVars(ServerEnds) /\ WF_probeVars(killed /\ ChildDies)

ProbeSpec     == ProbeInit /\ [][ProbeNext]_probeVars
ProbeFairSpec == ProbeSpec /\ Fairness

-----------------------------------------------------------------------------
ProbeTypeOK ==
    /\ outcome \in {None, 0, 1, 2, 3, 4, 6} /\ quiet \in 0..2 /\ peak \subseteq Directions
    /\ \A d \in Directions : held[d] + totals[d] <= Chunks
    /\ latest = None \/ \A d \in Directions : latest[d] \in 0..Chunks

(* The probe succeeds only on an exchange that the child and the server     *)
(* finished and ETW delivered in both directions, counted from a baseline   *)
(* older than the exchange unless an identity check failed meanwhile        *)
(* (collector_probe.py:126-139, 346-362, 424-445;                           *)
(* windows_network.py:116-120, 139-145).                                    *)
SuccessIsMeasured ==
    at = "done" /\ outcome = 0 =>
        /\ child = "ok" /\ server = "ended"
        /\ \A d \in Directions : totals[d] > 0
        /\ "identity" \notin excuses => base = Zero

(* The probe does not blame the collector: bytes in both directions come    *)
(* with rates, in whatever polls they arrived and after whatever failed     *)
(* checks, if the clock moved before the first poll; and as long as Windows *)
(* still knows the exited child and no identity check fails, bytes          *)
(* delivered in time are reported (collector_probe.py:199-235).             *)
NoFalseFailure ==
    at = "done" =>
        /\ outcome = 3 => "clock" \in excuses
        /\ outcome = 2 /\ lingers /\ "identity" \notin excuses => due # Directions

(* The verdict of the probe is right both ways.                             *)
VerdictIsTrue == SuccessIsMeasured /\ NoFalseFailure

(* NoFalseFailure for a child that Windows may have forgotten: what the     *)
(* collector had counted in both directions when the poll began is reported *)
(* if no identity check failed while Windows knew the child                 *)
(* (collector_probe.py:430-432 after the wait at 346).                      *)
DeliveredIsReported ==
    at = "done" /\ outcome = 2 /\ "identity" \notin excuses => due # Directions

(* The probe succeeds only if the collector closed its session              *)
(* (collector_probe.py:436-438).                                            *)
SuccessIsClosed == at = "done" /\ outcome = 0 => session = "closed"

(* Whatever hangs, dies or fails, the probe ends and leaves neither the     *)
(* child nor the server behind (collector_probe.py:395-405).                *)
RunEnds == <>[](at = "done" /\ ~Running /\ ~Serving)
-----------------------------------------------------------------------------
(* Why the verdict is true: nothing moves before the child is told to, and  *)
(* it is told only after the baseline, so while the session is alive and no *)
(* check has failed every byte is counted from zero; a byte that is counted *)
(* comes with a rate in the poll that sees it first.                        *)
Alive == session \in {"running", "failing"}

Starting  == {"start", "spawn", "pid", "baseline"}
Waiting   == Starting \cup {"signal", "wait"}
Measuring == {"measure", "idle"}

CountsInv ==
    /\ {held, totals, last} \subseteq [Directions -> Nat]
    /\ \A d \in Directions : last[d] <= totals[d]
    /\ base # None => base \in [Directions -> Nat] /\ \A d \in Directions : base[d] <= totals[d]
    /\ latest # None =>
          latest \in [Directions -> Nat] /\ \A d \in Directions : latest[d] <= totals[d]
    /\ peak \subseteq Directions /\ due \subseteq Directions
    /\ needs => base # None /\ ("identity" \in excuses \/ ~Known)

BaselineInv ==
    /\ at \in Starting => base = None
    /\ at \in Starting \cup {"signal"} =>
          totals = Zero /\ held = Zero /\ child \in {"none", "starting", "ready", "bad"}
    /\ at \in {"signal", "wait"} \cup Measuring /\ child # "bad" /\ Alive =>
          "identity" \in excuses \/ base = Zero
    /\ at = "start" => session = "none" /\ child = "none"
    /\ at = "baseline" => child \in {"ready", "bad"}
    /\ at = "wait" => child \in {"told", "sent", "ok", "bad"}

MeasureInv ==
    /\ at \in Waiting => /\ last = Zero /\ latest = None /\ peak = {} /\ due = {} /\ outcome = None
                         /\ "clock" \notin excuses
    /\ at \in Measuring => /\ child = "ok" /\ server = "ended" /\ outcome = None
                           /\ \A d \in due : totals[d] > 0
                           /\ latest # None /\ "clock" \notin excuses =>
                                  \A d \in Directions : latest[d] > 0 => d \in peak
    /\ at = "measure" /\ "clock" \notin excuses =>
          \A d \in Directions : last[d] > 0 => d \in peak
    /\ at = "idle" /\ Alive /\ lingers /\ due = Directions =>
          "identity" \in excuses \/ Both(latest)

OutcomeInv ==
    /\ outcome = 0 => /\ child = "ok" /\ server = "ended"
                      /\ \A d \in Directions : totals[d] > 0
                      /\ "identity" \notin excuses => base = Zero
    /\ outcome = 3 => "clock" \in excuses
    /\ outcome = 2 /\ lingers /\ "identity" \notin excuses => due # Directions

ProbeInv == CountsInv /\ BaselineInv /\ MeasureInv /\ OutcomeInv

(* Neither direction has moved before its sender did, and a second quiet    *)
(* poll is the last.                                                        *)
LimitsInv ==
    /\ outcome \in {None, 0, 1, 2, 3, 4, 6}
    /\ quiet \in 0..2
    /\ at \in Waiting \cup {"measure"} => quiet = 0
    /\ at = "idle" => quiet # 2
    /\ \A d \in Directions : held[d] + totals[d] <= Chunks
    /\ child \in {"none", "starting", "ready", "told"} => held["up"] + totals["up"] = 0
    /\ server \in {"none", "accepting", "serving"} => held["down"] + totals["down"] = 0
=============================================================================
