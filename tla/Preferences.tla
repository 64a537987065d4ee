----------------------------- MODULE Preferences -----------------------------
(***************************************************************************)
(* PreferencesStore and its users: instances of the program that load      *)
(* ui.json, change what is to be remembered, save it through a temporary   *)
(* file that replaces the old one, exit, restart as administrator, or are  *)
(* killed between any two of these steps.  Nothing in the code keeps a     *)
(* second instance out, and an elevated restart always makes one: the new  *)
(* process runs before the old one has saved for the last time.            *)
(***************************************************************************)
EXTENDS Naturals

CONSTANTS Instances, (* processes of the program                              *)
          Values,    (* UiPreferences: mode, positions and micro_on_top       *)
          Default,   (* UiPreferences(), which has no positions               *)
          Torn,      (* contents that are not a whole payload                 *)
          Kills,     (* are processes killed, is power lost?                  *)
          Beside,    (* does the user start an instance beside a running one? *)
          MaxStarts  (* bound: starts of an instance                          *)

ASSUME PreferencesAssumption ==
    /\ Default \notin Values /\ Torn \notin Values \cup {Default}
    /\ Kills \in BOOLEAN /\ Beside \in BOOLEAN /\ MaxStarts \in Nat

VARIABLES file,    (* ui.json: its value, Default if there is none, and       *)
                   (* whether it is on disk or in the cache of the system     *)
          temp,    (* per instance the temporary file of its save: none, part *)
                   (* or whole                                                *)
          stage,   (* per instance: off, load, run, ask, write, swap, clean,  *)
                   (* or bye when the last save is over                       *)
          leaving, (* instances in shutdown                                   *)
          failed,  (* instances whose last save returned False                *)
          prefs,   (* mode, positions and micro_on_top as they are now        *)
          saved,   (* _last_saved                                             *)
          starts,  (* starts so far                                           *)
          newest,  (* ghost: the instance started last                        *)
          shared   (* ghost: instances that have run beside another one       *)

vars == <<file, temp, stage, leaving, failed, prefs, saved, starts, newest, shared>>

Init ==
    /\ file = [value |-> Default, on |-> "disk"] /\ starts = 0
    /\ temp = [i \in Instances |-> "none"] /\ stage = [i \in Instances |-> "off"]
    /\ leaving = {} /\ failed = {} /\ prefs = [i \in Instances |-> Default]
    /\ saved = [i \in Instances |-> Default] /\ newest \in Instances /\ shared = {}

Alone(i) == \A j \in Instances \ {i} : stage[j] = "off"

Goto(i, s) == stage' = [stage EXCEPT ![i] = s]

Others(i) == {j \in Instances \ {i} : stage[j] # "off"}

(* By the user.                                                             *)
Start(i) ==
    /\ stage[i] = "off" /\ starts < MaxStarts /\ (Beside \/ Alone(i))
    /\ starts' = starts + 1 /\ newest' = i /\ Goto(i, "load")
    /\ shared' = IF Alone(i) THEN shared \ {i} ELSE shared \cup Others(i) \cup {i}
    /\ UNCHANGED <<file, temp, leaving, failed, prefs, saved>>

(* What load makes of the file.                                             *)
Readable == IF file.value = Torn THEN Default ELSE file.value

(* load: the file or, whatever goes wrong, the defaults.  Then the windows  *)
(* take positions that fit the screens.                                     *)
Loaded(i) ==
    /\ stage[i] = "load"
    /\ \E v \in {Readable, Default} : saved' = [saved EXCEPT ![i] = v]
    /\ \E v \in Values : prefs' = [prefs EXCEPT ![i] = v]
    /\ Goto(i, "run")
    /\ UNCHANGED <<file, temp, leaving, failed, starts, newest, shared>>

(* A window moves, or a mode is chosen; it is not saved yet.                *)
Change(i) ==
    /\ stage[i] = "run" /\ i \notin leaving
    /\ \E v \in Values : prefs' = [prefs EXCEPT ![i] = v]
    /\ UNCHANGED <<file, temp, stage, leaving, failed, saved, starts, newest, shared>>

(* Faulty: a save that failed is tried until it succeeds.                   *)
InsistFaulty(i, ok) == IF i \in leaving /\ ok THEN "bye" ELSE "run"

(* Where the caller of _save_preferences goes on.                           *)
After(i, ok) == IF i \in leaving THEN "bye" ELSE "run"

(* Nothing to save.                                                         *)
SaveUnneeded(i) ==
    /\ stage[i] = "run" /\ prefs[i] = saved[i] /\ i \in leaving
    /\ Goto(i, After(i, TRUE)) /\ failed' = failed \ {i}
    /\ UNCHANGED <<file, temp, leaving, prefs, saved, starts, newest, shared>>

(* mkdir and NamedTemporaryFile.                                            *)
SaveBegin(i) ==
    /\ stage[i] = "run" /\ prefs[i] # saved[i]
    /\ Goto(i, "write") /\ temp' = [temp EXCEPT ![i] = "part"]
    /\ UNCHANGED <<file, leaving, failed, prefs, saved, starts, newest, shared>>

SaveRefused(i) ==
    /\ stage[i] = "run" /\ prefs[i] # saved[i]
    /\ failed' = failed \cup {i} /\ Goto(i, After(i, FALSE))
    /\ UNCHANGED <<file, temp, leaving, prefs, saved, starts, newest, shared>>

(* json.dump, flush and fsync.                                              *)
Write(i) ==
    /\ stage[i] = "write"
    /\ temp' = [temp EXCEPT ![i] = "whole"] /\ Goto(i, "swap")
    /\ UNCHANGED <<file, leaving, failed, prefs, saved, starts, newest, shared>>

(* Faulty: without fsync, the contents may reach the disk after the rename. *)
UnsyncedFaulty(i) == [value |-> prefs[i], on |-> "cache"]

(* What os.replace makes of the temporary file.                             *)
Renamed(i) == [value |-> prefs[i], on |-> IF temp[i] = "whole" THEN "disk" ELSE "cache"]

(* os.replace, which Windows refuses while another instance reads the file. *)
Replace(i) ==
    /\ stage[i] = "swap" /\ \A j \in Instances : stage[j] # "load"
    /\ file' = Renamed(i) /\ temp' = [temp EXCEPT ![i] = "none"]
    /\ saved' = [saved EXCEPT ![i] = prefs[i]] /\ failed' = failed \ {i}
    /\ Goto(i, After(i, TRUE))
    /\ UNCHANGED <<leaving, prefs, starts, newest, shared>>

(* A write, a flush, fsync or os.replace raises.                            *)
Raise(i) ==
    /\ stage[i] \in {"write", "swap"} /\ Goto(i, "clean")
    /\ UNCHANGED <<file, temp, leaving, failed, prefs, saved, starts, newest, shared>>

(* Faulty: _last_saved follows whatever save returned.                      *)
TrustFaulty(i) == [saved EXCEPT ![i] = prefs[i]]

(* _last_saved after save returned False.                                   *)
Unsaved(i) == saved

Removed(i) == [temp EXCEPT ![i] = "none"]

(* The finally: unlink, whose own error is swallowed, and False.            *)
Clean(i) ==
    /\ stage[i] = "clean"
    /\ temp' = Removed(i) /\ saved' = Unsaved(i)
    /\ failed' = failed \cup {i} /\ Goto(i, After(i, FALSE))
    /\ UNCHANGED <<file, leaving, prefs, starts, newest, shared>>

(* exit_application, or QApplication.quit and aboutToQuit.                  *)
Shutdown(i) ==
    /\ stage[i] = "run" /\ i \notin leaving
    /\ leaving' = leaving \cup {i}
    /\ UNCHANGED <<file, temp, stage, failed, prefs, saved, starts, newest, shared>>

(* _restart_with_elevation: ShellExecute waits for the answer to UAC.       *)
Ask(i) ==
    /\ stage[i] = "run" /\ i \notin leaving /\ Goto(i, "ask")
    /\ UNCHANGED <<file, temp, leaving, failed, prefs, saved, starts, newest, shared>>

(* Cancelled or failed: this instance goes on.                              *)
Refused(i) ==
    /\ stage[i] = "ask" /\ Goto(i, "run")
    /\ UNCHANGED <<file, temp, leaving, failed, prefs, saved, starts, newest, shared>>

Granted(i, j) ==
    /\ stage[i] = "ask" /\ stage[j] = "off" /\ starts < MaxStarts
    /\ stage' = [stage EXCEPT ![i] = "run", ![j] = "load"]
    /\ leaving' = leaving \cup {i} /\ starts' = starts + 1 /\ newest' = j
    /\ shared' = shared \cup Others(j) \cup {j}
    /\ UNCHANGED <<file, temp, failed, prefs, saved>>

(* The process ends; or it is killed, with or without its last save.        *)
End(i) ==
    /\ stage[i] = "bye" \/ (Kills /\ stage[i] # "off")
    /\ Goto(i, "off")
    /\ temp' = [temp EXCEPT ![i] = "none"] /\ leaving' = leaving \ {i}
    /\ UNCHANGED <<file, failed, prefs, saved, starts, newest, shared>>

PowerLoss ==
    /\ Kills
    /\ stage' = [i \in Instances |-> "off"] /\ temp' = [i \in Instances |-> "none"]
    /\ leaving' = {}
    /\ file' = IF file.on = "disk" THEN file ELSE [value |-> Torn, on |-> "disk"]
    /\ UNCHANGED <<failed, prefs, saved, starts, newest, shared>>

Saving(i) ==
    \/ SaveUnneeded(i) \/ SaveBegin(i) \/ SaveRefused(i) \/ Write(i)
    \/ Replace(i) \/ Raise(i) \/ Clean(i)

Step(i) ==
    \/ Start(i) \/ Loaded(i) \/ Change(i) \/ Saving(i) \/ Shutdown(i)
    \/ Ask(i) \/ Refused(i) \/ (\E j \in Instances : Granted(i, j)) \/ End(i)

Next == (\E i \in Instances : Step(i)) \/ PowerLoss

Spec == Init /\ [][Next]_vars

(* A shutdown runs to its end in the GUI thread.                            *)
FairSpec == Spec /\ \A i \in Instances : WF_vars(i \in leaving /\ (Saving(i) \/ End(i)))
-----------------------------------------------------------------------------
Stages == {"off", "load", "run", "ask", "write", "swap", "clean", "bye"}

(* Types; a temporary file exists only inside a save.                       *)
TypeOK ==
    /\ file \in [value : Values \cup {Default, Torn}, on : {"cache", "disk"}]
    /\ stage \in [Instances -> Stages] /\ temp \in [Instances -> {"none", "part", "whole"}]
    /\ \A i \in Instances : temp[i] # "none" => stage[i] \in {"write", "swap", "clean"}
    /\ leaving \subseteq Instances /\ failed \subseteq Instances
    /\ prefs \in [Instances -> Values \cup {Default}]
    /\ saved \in [Instances -> Values \cup {Default}]
    /\ starts \in 0..MaxStarts /\ newest \in Instances /\ shared \subseteq Instances

(* Whatever is killed, refused or powered off, and however many instances   *)
(* save, ui.json is absent or a whole payload, also after a restart.        *)
FileWhole == file.value # Torn /\ file.on = "disk"

LeavesWhatItShows(i) ==
    Alone(i) /\ i = newest /\ stage[i] # "bye" /\ stage'[i] = "bye" =>
        i \in failed' \/ file'.value = prefs'[i]

(* An instance that never ran beside another one leaves its mode and        *)
(* positions in the file when it exits, unless that very save failed: an    *)
(* earlier failure is made good, and no save is skipped because of one that *)
(* did not happen.                                                          *)
PersistedAlone == [][\A i \in Instances \ shared : LeavesWhatItShows(i)]_vars

(* README.md:21.  The same of every instance that was started last and is   *)
(* the last to exit, so of the one an elevated restart makes even if the    *)
(* user never starts a second one (controller.py:337-345, 402).             *)
PersistedAtExit == [][\A i \in Instances : LeavesWhatItShows(i)]_vars

(* A shutdown ends although its save fails, so that an elevated restart     *)
(* leaves one instance that collects.                                       *)
ShutdownEnds == \A i \in Instances : i \in leaving ~> stage[i] = "off"
-----------------------------------------------------------------------------
(* Why they hold: a replaced file was synced, and _last_saved of an         *)
(* instance that ran alone mirrors the file unless it is the default.       *)
Synced == \A i \in Instances : stage[i] = "swap" => temp[i] = "whole"

Mirror ==
    \A i \in Instances \ shared :
        /\ stage[i] \notin {"off", "load"} => saved[i] \in {file.value, Default}
        /\ stage[i] # "off" => Alone(i)
        /\ stage[i] = "bye" => i \in failed \/ (saved[i] = prefs[i] /\ prefs[i] \in Values)
        /\ stage[i] \notin {"off", "load"} => prefs[i] \in Values

IInv == TypeOK /\ FileWhole /\ Synced /\ Mirror
=============================================================================
