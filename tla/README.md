# Net Monitor: models, checks and proofs

Net Monitor is a Windows desktop program that shows how many bytes each
application sends and receives. It listens to kernel network events through
ETW, attributes them to processes by process id, and adds them up per
application over one session. This directory models the parts of it where time
and order matter, checks them with TLC on small instances and proves the most
important results with TLAPS for all instances. Paths are relative to the
repository's `src/net_monitor/`.

## The system

| Component | State | Operations | Talks to |
|---|---|---|---|
| `EtwSession` (collectors/etw/session.py) | Windows handles, callback, consumer thread, last error | start, stop, raise_if_failed, the thread's `_consume` | Windows; calls `NetworkAggregator.record` from the consumer thread |
| `NetworkAggregator` (collectors/etw/network.py) | byte totals by pid | record, snapshot, retain_pids under one lock | written by the consumer thread, read and pruned by the sampling thread |
| `WindowsProcessNetworkCollector` (collectors/windows_network.py) | the session it owns; one `_ProcessState` per (pid, create_time); retired samples | collect, drain_retired, close | the two above, psutil |
| `ProcessCollector` (collectors/process.py) | none (psutil keeps a cache) | collect | psutil |
| `ApplicationSessionTracker` (core/application_session.py) | account per application, high-water mark and account per process | update | fed by `MonitorService` |
| `MonitorService` (services/monitor_service.py) | cached process list | snapshot, close | the collectors and the tracker |
| `SamplingWorker` (ui/sampling_worker.py) | running, closed, timer | start, sample_once, stop | its own Qt thread; signals to the GUI |
| `UiController` (ui/controller.py) | windows, timers, mode, latest snapshot | start, shutdown, snapshot and failure handlers, card and menus | everything in the GUI thread |
| `MicroProjection` (ui/micro_model.py) | latest groups, followed and automatic choice, clocks | receive, fail, follow, frame | GUI thread |
| `RateHistoryStore` (ui/rate_history.py) | bounded series per application, LRU | record, get_series | GUI thread |
| `IconCache` (ui/icon_cache.py) | LRU of icons, two queues of two slots | request, poll, close; a worker thread | GUI thread and its worker |
| `PreferencesStore` (ui/preferences.py), `restart_as_administrator` (core/elevation.py) | a file | load, save, restart | two processes during an elevated restart |
| `MicroWindow`, `ApplicationCard`, `KeyButton` (ui/micro_window.py) | press, drag, the key of a button | mouse and focus events | the controller, which owns the timers and the card |
| window placement (ui/window_geometry.py) | none | screen_for, fit_rect, place_card | called by the controller when screens, drags or modes change |
| `DetailWindow`, `MainWindow`, `SessionView` (ui/) | items of two lists, search, an open file dialog | apply_snapshot, tabs, search, export | GUI thread |
| `compute_network_spotlight` (core/), foreground presence (ui/micro_model.py) | two caches of one foreground poll | poll, recheck, invalidate | GUI thread and Windows |
| `collector_probe` (collectors/etw/collector_probe.py) | a child process, a server thread, a collector | one run | the production collector |
| `build_windows` (../../tools/build_windows.py) | a directory per commit and channel | one build | git, the developer's checkout |

Threads: the ETW consumer thread (records events), the sampling thread (every
500 ms: `snapshot`, with a new process list every 2 s), the GUI thread, the icon
worker. The hard behaviours are the interleaving of the consumer thread with
the steps of `collect`; process ids that are reused while a stale list, a stale
psutil cache and late ETW events are in play; the rollback of a start and the
retries of a stop when any Windows call may fail and a join may time out; and a
shutdown that waits for all of it. `PROJECT.json` lists each hazard at its line.

What makes each component correct: nothing is charged that was not sent, nothing
certain is lost, accounts add up (attribution); no handle, callback or thread is
lost or released early, every call returns (session); the session is never
dropped alive, a dead consumer is shown, a shutdown ends (lifecycle); staleness
is shown as such, the automatic choice changes only after sustained fresh
evidence (projection); bounds hold and nothing blocks the GUI (icon cache, rate
history); what is on screen stems from the latest snapshot and from evidence about
the identity it is shown for (views, lists, presence); windows stay on a screen and
the card opens, stays and closes as documented (geometry, card); the file of
preferences is whole and keeps what was set (preferences); a verdict of the probe and
the name of a package are true (probe, build).

## Modules

| Module | Models | Uses |
|---|---|---|
| `OsProcesses` | processes, pid reuse, ETW buffers (external), events that are dropped or not understood | |
| `NetworkAggregator` | the totals by pid | extends `OsProcesses` |
| `ProcessNetworkCollector` | `collect` and retirement, and the process list it is given | extends `NetworkAggregator` |
| `ApplicationSessionTracker` | accounts and high-water marks | stand-alone |
| `MonitorService` | one `snapshot` over the whole pipeline; the properties; the inductive invariant | composes the two above |
| `TrafficLedger` | what the pipeline promises: an append-only ledger | abstract specification |
| `RateWindow` | the windowed rate of one process | stand-alone |
| `EtwSession` | one session: start, rollback, stop, health check, consumer thread, Windows | stand-alone |
| `SamplingLifecycle` | worker, controller shutdown and the collector's ownership of the session | extends `EtwSession` |
| `IconCache` | request, poll and close against the worker thread | stand-alone |
| `SourceState` | what the GUI knows of the sampling thread, and its clock | stand-alone |
| `MicroProjection` | the automatic and the followed choice | extends `SourceState` |
| `UiViews` | publication and refresh of the windows | extends `SourceState` |
| `RateHistory` | the store behind the sparkline, as the controller drives it | stand-alone |
| `Presence` | groups, foreground badge, spotlight and the state of the frame | stand-alone |
| `DetailLists` | the two lists of the detail window and the export | stand-alone |
| `Preferences` | load and save by several instances, elevated restart, kills and power loss | stand-alone |
| `MicroCard` | pointer, timers, drags, popups, modes and the topmost flag | stand-alone |
| `KeyButton` | a button that is rebound while it is pressed | stand-alone |
| `WindowGeometry` | the places of the micro window and the card, screens, drags, restarts | stand-alone |
| `CollectorProbe` | the probe, its child, its server and the collector it asks | stand-alone |
| `BuildWindows` | builds beside edits, commits and other builds | stand-alone |
| `PythonNone` | the value `None`, shared by the parts that use it | |
| `DataLemmas`, `*_proofs` | the theorems and what they rest on | see Proofs |
| `MCMonitorService` | constants for TLC | extends `MonitorService` |
| `MCSession` | the session under the application, and under a caller without its discipline | extends `SamplingLifecycle` |
| `MCModels`, `MCDesktop` | parts that share no state, side by side | extend the parts |

In `MCModels` and `MCDesktop` the initial state chooses the part that moves and the
other parts stay in an initial state of theirs, so the reachable states are the
disjoint union of those of the parts and each property says what it says of its
part alone. Nothing is composed there; the parts are modules of different corners of
the program that do not call one another except through what each of them takes as a
free input. What is composed: the pipeline of `MonitorService`, and
`SamplingLifecycle` over `EtwSession`.

### Attribution

A process is `<<pid, n>>`, the n-th process with that pid; `(pid, create_time)`
tells the same ones apart in the code. `emitted[p][n]` is what lifetimes `1..n`
of `p` have sent so far, and `charged[p][n]` (a history variable) what was
charged to them. Upload and download take the same path through the code; one
direction is modelled. An absent key of `_totals` and a zero total are one
thing, because `record` never stores a zero.

`collect` is a chain of steps: `Refresh` (psutil enumerates; the cache may still
hold a process that is gone, a process may be skipped, a creation time may be
unreadable), `TakeSnapshot`, one `Row...` per listed process in any order (the
identity check and the update of the state are one step because the counters
were read before, the state belongs to the sampling thread, and nothing else
in the step is shared), `Cut` (`retain_pids`, atomic under the lock), one
`Retire...` per identity that left the list, `Return`. Between any two of them
processes start and exit and events are recorded. `RowUnverified` and
`RetireConfirmed` may always be taken: the check fails spuriously when psutil
raises. A rows' function by identity stands for `network_by_pid`: the list has
one process per pid. A row of a process without creation time is never
accounted and needs no state. `Retire` removes the state of the identity, which
the code does a few lines later without anything in between that reads it.

`ApplicationSessionTracker` is charged row by row and then retired sample by
retired sample; which application key a sample would give is any of `KeysOf`
(the executable's, or the process's own when the path is unreadable), since
either may happen at every sample.

### EtwSession

`self` is the set of fields that are true or not `None`. Each Windows call and
each wait is a step, and it succeeds or fails nondeterministically; the thread
(`ReadHandle`, `ProcessTraceReturns`, `Settle`, `ThreadEnds`) and a third party
that ends the session run in between. `pc` is the caller's step and `op` its
call; the rollback of `start` and `stop` share their steps and differ in the
order and in which errors they keep. `session` tells a session that
was stopped from one that a third party ended (`taken`), by which the thread's verdict
is judged: `StopIsTruthful` joins what a silent stop has released with the truth of the
error that a stop raises first. `start` and `stop` hold the lifecycle lock
throughout and `raise_if_failed` is called by the same sampling thread, so calls
do not overlap; the health check is two steps, because it takes no lock.
`Settle` merges the thread's read of `_stop_requested` with its write of
`_thread_error`: the thread is alive until after the write, and both `stop` and
`start`'s rollback change `_stop_requested` back only after they saw it dead. A
thread whose `start` was interrupted (the `except BaseException` of
session.py:119) may be running or not.

### SamplingLifecycle

Extends `EtwSession`: the application makes a call of the session and waits for
`pc = "idle"`. `collector` is the set of fields of the collector that are set;
`state = "stopped"` stands for `_closed`, which is assigned with it. A sample is
the step `Sample` followed by the collector's own steps. The GUI's blocking call
of `stop` is the pair `Shutdown`, `ShutdownEnds`. There is only ever one session,
because `_start_attempted` is never reset. Deadlock is not checked in this run:
the application is meant to end.

### IconCache

Every access to a queue or to `_closed` is a step, so the worker runs between any
two statements of `request`, `poll` and `close` that it could disturb. `requests`
holds paths and the `None` that ends the worker; `worker` says where `_run` is, with
`dead` for a `queue.Full` nobody catches. An icon and a failed read are the same
entry. A path that is not local or does not match its key is never requested.
`DrainDone` merges the failing `get_nowait` with the `put_nowait` of the sentinel:
the queue was seen empty and only the GUI thread fills it.

### SourceState and MicroProjection

`now` is the GUI's monotonic clock in seconds, advanced by `Tick` between any two
steps. A status follows another only as the collector lets it (`MayFollow`): one start
attempt in the first sample, and a session that failed is not started again
(windows_network.py:279-337). `stopped` and `unavailable` are one status, because
`source_state` does not tell them apart, and no snapshot has the status `starting`.

In `MicroProjection` an application is a number, ordered like its name, and a group is its
score; a `Receive` brings any set of applications with any scores, unknown ones
included. `lead` is a history variable: since when each application has led every
snapshot, without a failure, an unusable snapshot, a follow or a gap of
`StaleSeconds` between two of them. It is defined without the projection's own
challenger and clock, which are judged by it.

### UiViews

The GUI thread runs one event at a time. An event first changes what is known
(`OnSnapshot`, `OnSamplingFailed`) or what is to be shown (`RefreshFor`), and then goes
through `_publish_snapshot` and `_refresh_views`, whose readings of the clock are
steps of their own: the age of the data may cross its limit between the two
readings of `_publish_snapshot`. `sample` numbers the snapshots. `published`
is what the controller last published: the state, the number of the
snapshot, whether it still has its rates and whether the groups do. `fresh` is the
set of windows whose `_latest_snapshot` is that object, because identity decides
whether a window is painted again (controller.py:495); every copy without rates is
a new object. `painted` is what each window's content was made of. Windows that are
not visible are not painted (docs/stage4-lightweight.md:24 promises that windows
shown again never flash old rates, which is `ShowsLatest` and `ShowsSource`).

### RateWindow

One process, one direction. `baseline`, `previous`, `history` and `stale` are the
fields of `_ProcessState`; `Traffic` is the consumer thread; the clock may stand still
between two collects, because it is as coarse as the platform's. A rate is a pair of
bytes and seconds, so that nothing is rounded. `log` keeps every sample since the
window was last emptied, and `RateIsWindowed` recomputes the rate from it. The branch
for a counter that rolled back is not taken: `CountersNeverStepBack` is proved.

### RateHistory

`store` is the dictionary of series in its order (the one of `_last_seen` is the same),
each entry with the last time it was seen and its samples; a sample stands for its
time. `HistorySnapshot` records every group of a snapshot in order, evicting as it
goes, and then reads the series of the card's application into `curve`. The card may
show any application: a followed one keeps its card when the snapshot has no group for
it (micro_model.py:375-376, 416-417), and then its series is read without having been
recorded. `Redraw` reads it again between two snapshots. Every record and every read
has a reading of the clock of its own. That no two readings are the same is an assumption
(ties would be broken by the order of the dictionary): `time.monotonic` of the Python the
program is built with (build_windows.py:53) is the performance counter. `due` is what the card has to
show, computed as by a store that evicts nobody; `crowded` says that since the card
shows this application the groups of some snapshot and the one on screen were more than
the store holds (`Fits`). `ShownHistoryComplete` has a half for either case: while they
fit, nothing is missing; afterwards the curve begins late but has no gap.

### Presence

A process is enumerated with a creation time (0 if unreadable), a path that is
readable or not, and a rate or none. Processes that show their path are one
application, the others are one each. `life` is who has the pid in Windows: a pid may
change hands between an enumeration and a poll. The badge (`presence`, `context`) and
the spotlight's cache (`foreground`) stem from one `Poll` and are rechecked apart;
`Invalidate` is the controller's reaction to a window that hides or shows.
`BadgeAgrees` relates both caches and the frame's state; `EvidenceIsCurrent` relates
them to the ghost `polled`. Which process is in the foreground is a free choice of
`Heartbeat`. Which of the sending applications is chosen automatically is left to
`MicroProjection`; here it is any of them.

### DetailLists

`tree` and `items` map what is listed to what the row shows; the order of rows is left
out. `Flush` brings the accounts in only if the token of the snapshot changed;
`ExportClicked` freezes the listed rows and opens a dialog, during which every other
action goes on; `DialogReturns` writes them.

### Preferences

One instance is one process of the program. `save` is a chain of steps (temporary
file, write with `fsync`, `os.replace`, cleanup), each of which may fail, and an
instance may be killed or the power may go between any two. Contents reach the disk
with `fsync` or, if renamed without it, perhaps not: `PowerLoss` leaves a torn file
then. `Granted` starts the second instance of an elevated restart while the first is
still to save for the last time. `Beside` says whether the user may start an instance
beside a running one as well: in `desktop` yes, in `elevated` no, so that the only way to
two instances there is the restart. A power loss after the directory entry was replaced
but not written is outside: NTFS journals it.

### MicroCard, KeyButton and WindowGeometry

In `MicroCard` an action is one event with all handlers it reaches. Qt tells a window
that the pointer came or went, and nothing of it while a popup is open; a place
called `edge` is the ring of 8 pixels that `_collapse_if_outside` counts as inside.
In `KeyButton` a held mouse leaves and re-enters the button, each of which Qt reports as
released and pressed. `WindowGeometry` uses integers of any sign and the code's own
comparisons; screens are a set, so that the first of equally good screens is some
fixed one. A drag may pass anywhere; screens change during it; a restart fits the saved
place. Every screen is assumed to have room for the micro window.

### CollectorProbe

The parent's steps are one chain with a step for every wait; a timeout may strike
whenever it waits. The child and the server are processes of their own that may hang,
fail or die, ETW delivers each direction in `Chunks` events, late or never, and the session may
fail. `lingers` says whether Windows still knows an exited child by its pid: it does
while somebody holds a handle, which is the case for a child started directly and
not for one behind a launcher. The collector is the one of `collect` for a single
process: the identity check of each poll answers no for a child that is not known, and
may answer no for any other (psutil raises, windows_network.py:43-45); the state is then
rebaselined at the next check that succeeds, behind the counters already confirmed
(139-145). A rate needs that the clock has moved since the last poll (183): it always has
after a sleep, but the whole exchange may fit into one tick (`elapsed`). The server may
fail at any of its calls. `excuses` remembers which of these, a failed check of a child
Windows knew or a clock that stood still, kept the collector from counting; the
verdict is claimed with them: after a failed check a probe may succeed on a later
baseline, or report no bytes, and the code does so too.

### BuildWindows

Contents of the inputs are numbered; a build reads whatever is in the checkout at
each of its steps and may fail at each. `check_environment` reads the lock before any look
at git (`ReadLock`, build_windows.py:56, 218), then pip check runs, then comes the first
`git status` (`FirstLook`). The second look is two calls of git (`CheckHead`,
`CheckStatus`), and the hashes of `BUILD-INFO.json` are read after it (`HashSources`,
`HashConfiguration`, 254-255). `ZipIsOfCommit` says what each of these is worth. What was
compiled and copied is of the commit in the ZIP's name, unless HEAD moved
between the two calls of the second look: then the status is clean against another commit
than the one compared. The recorded versions were checked against a lock that may be
older than the commit, when an edit of it is committed while pip checks; the recorded
hashes may be newer, when the inputs are edited after the second look. The developer never
returns to an earlier content: such a change is invisible to the two looks. The second
`inspect_distribution` (272) can only refuse, which `BuildFails` covers.

## Runs

| Run | Instance | Shows |
|---|---|---|
| `reuse` | 1 pid, 3 lifetimes, 3 bytes, events of 1 or 2 bytes | the safety of attribution under pid reuse |
| `ledger` | 1 pid, 2 lifetimes, 2 bytes, 2 keys | the pipeline refines `TrafficLedger`, accounts add up, certain bytes are eventually charged |
| `late` | 1 pid, 2 lifetimes, 2 bytes | a finding, see below |
| `session` | complete (no constant) | the session's safety under any caller; ownership, failure display and shutdown of the application |
| `cause` | complete | a finding, see below |
| `views` | 2 snapshots, 2 s staleness, 3 s | the windows show the latest snapshot and no rates that are not live |
| `models` | see below | projection, rate history, windowed rate, presence, lists, builds |
| `desktop` | see below | preferences, icons, geometry, card, button, probe |
| `elevated`, `edge`, `exited`, `closed` | the bounds of `desktop` for their part, without kills or starts beside a running instance (`elevated`), with the ring (`edge`) | findings, see below |

Parts of `models`:

| Part | Instance |
|---|---|
| `MicroProjection` | 3 applications, scores 0 to 2, 2 s challenger, 3 s staleness, 5 s |
| `RateHistory` | 3 applications for 2 series of 2 samples, window 7 s, 10 s; snapshots with one group too many, cards with a group or without |
| `RateWindow` | window 2 s, 5 s, 4 bytes |
| `Presence` | 2 pids, one of them reused and not always readable, 2 lifetimes |
| `DetailLists` | 2 applications, one of them found by the search |
| `BuildWindows` | 2 builders, 2 builds, 3 contents, 1 channel |

Parts of `desktop`:

| Part | Instance |
|---|---|
| `Preferences` | 2 instances, 2 starts, 2 values, kills and power loss |
| `IconCache` | 4 paths, capacity 2, 2 calls of close |
| `WindowGeometry` | 5 layouts of screens (left, right, overlapping, moved origin), 50 places to drop the window |
| `MicroCard` | complete, without the ring |
| `KeyButton` | 3 keys |
| `CollectorProbe` | 2 events in each direction |

Why the bounds are enough. Pids do not interact in the collector or in the
aggregator (every function is indexed by pid and no step relates two of them
except by walking the list), so one pid with three lifetimes shows every
interaction of a predecessor, a current and a successor identity. Three bytes
in events of one and two let a bucket hold bytes of two lifetimes and a baseline
split them. Accounts are where processes meet, also two lifetimes of one pid, with a
shared and a separate key. The theorems below hold without the bounds. The session's
models have no bound. `IconCache`: four paths are more than the two slots, so requests are
refused, and more than two entries, so icons are evicted; a second close meets a
worker that is gone, reading or never started. `MicroProjection`: three applications let a
challenger be replaced by another, scores up to two let them tie and overtake, and
five seconds hold a gap of the stale time next to a full challenger time.
`views`: with two snapshots a hidden window misses one, and three seconds let each of
them grow old. `RateHistory`: one application more than the store holds forces
evictions, one sample more than a series holds and a clock longer than the window drop
samples both ways. `RateWindow`: five seconds hold two windows and a restart of one.
`Presence`: the pid that is not reused shows that evidence survives what does not
concern it, the other one changes hands, loses its path and its creation time.
`DetailLists`: one account that the search finds and one that it hides. `BuildWindows`:
three contents let a build start on one commit, read a second and end on a third,
beside another build of the same commit. `Preferences`: two starts make every
overlap of two instances; a third (in `elevated`) lets one come after them.
`WindowGeometry`: layouts in which a screen is lost to the left (negative
coordinates) and to the right, in which the card has no room on a side or on any, and
in which two screens overlap. `KeyButton`: one key pressed, one bound meanwhile, one
more. `CollectorProbe`: two events let the directions arrive in different polls and
partly.

Deadlock is checked in `reuse`, `ledger` and `views`, whose systems never stop; a closed
application, cache or probe does, and bounded clocks and builds run out.

Fairness. `ledger` assumes that the sampling thread takes its next step
(`WF(Service)`): the timer of sampling_worker.py:37-40 fires for ever and no step
of `snapshot` blocks. `session` assumes that a call in progress goes on
(`WF(CallSteps)`): Windows answers, and `join` has a timeout; nothing is assumed of
the consumer thread or of `ProcessTrace`, which may never return. For the application
it assumes the same of the sampling thread, that the stop the GUI posts to it gets
its turn although the timer keeps firing (`SF(WorkerStop)`: Qt delivers posted
events in order and before it polls timers again), and that the released GUI
thread goes on. `views` assumes that an event that began ends (`WF(GuiStep)`) and that
the 500 ms timer gets its turn among the other events (`SF(Heartbeat)`). In `desktop`:

* `IconCache`: the GUI thread finishes a poll or a close it began, the heartbeat polls
  results that are there (every 500 ms, controller.py:485) and the worker thread
  runs; nothing is assumed of the reader, so the liveness property holds only if no read
  hangs for ever, which it says: `[]<>(worker # "read")`.
* `Preferences`: a shutdown goes on in the GUI thread, save and exit included.
* `MicroCard`: Qt fires a timer that runs.
* `CollectorProbe`: the parent and the server run, the clock passes every deadline, a
  terminated process ends. Nothing is assumed of the child; closing a pipe waits for the
  reader and so for the child, which is why the order of the cleanup matters.

Every property of a passing run has a mutant in `PROJECT.json` that breaks it: a
definition named `...Faulty` in the module it belongs to. They are plausible slips
(trusting the list instead of a fresh handle, restarting a baseline, freeing the
properties a retry needs, joining without timeout, closing a pipe before its child is
stopped, renaming without `fsync`) and no part of the model.

## Findings

* `late`, `NewIdentityIsolated`. docs/stage3b-integration-2026-09-17.md:22 promises
  that a reused pid gives the new identity an isolated baseline. Buckets are keyed
  by the pid and events are never compared with the creation time, so an event of
  the previous process that ETW delivers after the new baseline was taken
  (windows_network.py:123; buffers are flushed once a second, api.py:226) is charged
  to the new one. What does hold is `NeverOvercharged`: the lifetimes of a pid up
  to any one of them are together never charged more than they sent.
* `cause`, `HealthCheckKeepsCause`. `raise_if_failed` (session.py:340) reads the error
  and then whether the thread lives. If the thread stores its error and ends in
  between, the check overwrites it with "exited without a result", and the code of
  the failed `ProcessTrace` is lost. The docstring (session.py:338) and
  tests/test_etw_session.py:168 say the failure is raised.
* `elevated`, `PersistedAtExit`. README.md:21 promises that mode and positions are saved.
  After an elevated restart the old instance saves last (controller.py:337-345, 545-551)
  and replaces what the new one saved meanwhile; the new one's `_last_saved`
  (controller.py:402) still equals its own preferences, so its exit saves nothing. No
  instance is started beside a running one by anything else in this run. What
  holds is `PersistedAlone`.
* `edge`, `PreviewEnds`. README.md:92 promises that a preview closes after the pointer
  left. `_collapse_if_outside` (controller.py:283-290) counts a ring of 8 pixels as
  inside and its timer fires once: a pointer that rests in the ring then and moves on
  sends no further leave event, and the preview stays. Without the ring it holds
  (`desktop`).
* `exited`, `DeliveredIsReported`. The probe waits for its child to exit
  (collector_probe.py:346) before it reads the child's numbers, and the collector gives
  none for a process Windows no longer knows (windows_network.py:116-120). Behind a venv
  launcher nothing keeps the child known, and the probe reports that no bytes were
  seen. As long as it is known, and no check of it fails, `VerdictIsTrue`.
* `closed`, `SuccessIsClosed`. collector_probe.py:436-438 exits with 4 if the collector did
  not close its session, but asks `available` (409), which is false after every
  `close`, also one whose stop failed (windows_network.py:342-356, 362-364).

Four smaller observations without a run of their own. The docstring of `KeyButton`
(micro_window.py:29) says that the identity is captured on press; a held pointer that
leaves the button and returns emits pressed again, and a refresh in between rebinds the
button, so the click follows what it shows now (`ClickFollowsShown` says just that). A
count of 0 in the session list (session_model.py:17) does not mean that the enumeration
has no process of the program: one that was first seen without its path is counted
under a key of its own. With more groups in a snapshot than the store holds, or as many beside a followed
application that has none (rate_history.py:166), the groups evict one another, in some
orders the one on screen, whose curve begins anew; `ShownHistoryComplete` says that it
then still has no gap. The versions a ZIP records were checked against the lock as it was
before the first look at git, and its hashes are read after the second
(build_windows.py:218, 254-255): neither need be of the commit in its name, and
`ZipIsOfCommit` says which way each may differ.

## Proofs

All theorems are checked by `tlapm` with no assumption other than the named
assumptions on the constants, which TLC evaluates as well: bounds and sizes are
natural numbers, positive where the code's constructor or a literal makes them so
(`HistoryAssumption` are the checks of rate_history.py:90-95), markers such as `None` and
`Unknown` are no numbers, keys or records, and the sets of pids and application keys
are finite, since `AccountsAddUp` sums over them. Every safety property of a passing run
is a theorem about the specification of its component, for all values of the
constants, the bounds of the clocks and counters included. Each rests on an inductive
invariant that the module states after its properties under a comment saying why
it holds; TLC found no violation of any of these invariants on the instances above.

Where the proofs are:

| Module | About |
|---|---|
| `DataLemmas` | numbers and sequences: the least number of a set, the members of a sequence and how many they are, what removing, appending, taking and joining do to them |
| `MonitorService_proofs` | attribution, accounts and the refinement of `TrafficLedger` |
| `SamplingLifecycle_proofs` | `EtwSession`, and the application that drives it |
| `MicroProjection_proofs` | `MicroProjection` and `Presence` |
| `Views_proofs` | `UiViews` |
| `Windows_proofs` | `WindowGeometry`, `MicroCard`, `KeyButton` |
| `Desktop_proofs` | `Preferences`, `IconCache`, `CollectorProbe`; the parts of `MCDesktop` together |
| `Models_proofs` | `RateWindow`, `DetailLists`, `BuildWindows`, `RateHistory`; the parts of `MCModels` together |

The arguments, by component:

* Attribution. The inductive invariant `IInv` follows one idea. All that a
  pid's bucket ever received is a line of `Received(p)` bytes (`discarded + totals`);
  each tracked identity has been measured up to a point of it, `Mark(i)`; charges
  never pass the mark; and since the identity was checked *after* the counters
  were read, everything before the mark had been sent by lifetimes up to that one
  (`RowAt`). The property itself is not inductive: it does not say what the rows and
  retired samples that are still to be charged may add (`TrackedAt`, `RowAt`,
  `RetiredAt`), that there is at most one of them per pid (`OneIdentityInv`), or that
  the snapshot is not ahead of the bucket (`SnapshotInv`). From it follow
  `NoOvercharge`, `BucketsCoverStates`, `NoPidWatchedTwice`, `NoStepBack` and, with
  one more lemma, `CertainSamplesComplete`.
* `Refinement`: `Spec => ImplementsLedger`, under the mapping
  `sent <- emitted`, `owner <- keyOf`, `account <- appTotals`. Charging steps map to
  `Charge`, emissions to `Send`, everything else to stuttering; `IInv` supplies the
  ledger's guard.
* Accounts. `AccountsAreExact` is about sums over sets, which the library defines by
  recursion. That the recursion has a solution (`SumsExist`) and that a sum grows with
  one of its terms by as much (`SumGrows`) are shown for every size by the least
  counterexample, because the induction theorems of the library cannot be used.
* Session. `IInv` of `EtwSession` adds to the safety properties what start, stop and the
  thread know at each of their steps (`HeldInv`, `CleanStopInv`, `VerdictInv`): for example that a callback
  without handle is kept only together with the thread object, which is why a
  restart cannot replace it under a running `ProcessTrace`. `DrivesSession`
  (`LifecycleSpec => Spec`) carries every result about `EtwSession` over to the
  application; `SessionNeverDropped` rests on `StopIsTruthful` at each stop that
  returned, `LiveMeansStarted` on what a start that returned without an error has set
  and a health check leaves alone (`AvailableInv`).
* Projection. `IInv` adds one fact to the properties (`EvidenceInv`): an
  application has evidence only if it is the challenger, whose clock then
  started with that evidence, or if it has just become the choice. `SwitchesNeedEvidence`
  and `LeaderChosen` are its two directions. `LeaderExists`, that a finite set of scores
  has a greatest and first one, needs no assumption of finiteness: scores are bounded
  and names are numbers.
* Presence. A verdict that is kept was given by the last poll, about members that have
  not changed (`BadgeInv`), and so was the identity of the pid (`SpotlightInv`); when the
  verdict is foreground, the one identity is among the members (`ForegroundInv`). Both
  theorems need that an enumeration has one row per pid (`OneRowPerPid`).
* `UiViews`. `ViewsInv` follows an event through `_publish_snapshot` and
  `_refresh_views`: what is published is told apart from what the source has become
  between two readings of the clock (`PublishedInv`), and a window that counts as fresh
  was painted from what is published (`PaintedInv`).
* `DetailLists`. What is listed is exactly what was last brought in, whether or not the
  page can be seen (`RowsInv`), and an open dialog holds the rows that were clicked.
* Icon cache. `QueuesNeverFull`, for any set of paths and any number of closes:
  the queues are bounded because everything in flight is counted by `_pending` before
  the close, and because the close empties the requests before it adds the sentinel
  (`Bounded`). `FlowInv` tells where each pending path is, in one place only
  (`FlightInv`), from which `PendingIsTheWork` and `CacheStaysBounded` follow.
* Rate history. `ShownCurveComplete`: the application on screen is the one seen last
  (`SeenLastInv`, because reading its series counts as seeing). `AllRecorded` follows a
  snapshot group by group: the store between two groups is handled as a set of entries,
  each either untouched or one of the groups so far (`During`), and the entry on
  screen is untouched until its own turn (`ShownEntry`). To evict it, the store would have
  to be full, of entries that were all seen no earlier; those are other groups
  of the same snapshot, and with the group that needs the room, or with one on screen that
  has no group, they are more than fit (`OtherIsTracked`, by counting). Without that room,
  what is read is still the end of what is due (`EndsWith`), since an evicted series begins
  anew and loses nothing after that.
* Windowed rate. `RateInv`: the window is the end of the log, the times in it increase,
  and nothing is missing in front of it unless its first sample is as old as the window.
* Preferences. `FileIsWhole` needs that a file is replaced only after it was
  synced (`Synced`); `PersistedWhenAlone` that `_last_saved` of an instance that never
  shared the file is the file's value or the default (`Mirror`), which no preference
  equals because it has no positions.
* Geometry. A chain of lemmas about the pure functions, for all
  integers: a fitted rectangle lies inside (`FitInside`), the best screen exists
  (`BestScreen`, by the well-founded order of overlap and distance) and is the one the
  fitted rectangle overlaps fully, so that fitting again changes nothing (`Refit`); a
  placed card has room on a side or is fitted (`CardPlaced`). `MicroOnScreen`,
  `CardNeverCovers` and `MicroStaysPut` follow by the invariant `GeometryInv`.
* Card and button. `CardInv`: an engaged card is persistent until it closes, and
  what may still show a window, a popup or a held button, exists only on a visible window
  of an application that was not shut down. `ButtonInv`: nothing rebinds a button
  while it is down.
* Probe. `ProbeInv` relates what the parent has read to what the child and the server had
  done by then: the baseline is zero while the session is alive and no check has failed,
  and a byte that is counted has come with a rate unless the clock stood still
  (`BaselineInv`, `MeasureInv`, `OutcomeInv`).
* Build. A build that read what differs from its commit is noticed because contents only
  grow, so that if HEAD and the checkout still are the commit, so was everything in between
  (`ReadInv`); a directory belongs to the build that made it (`OwnerInv`).
* `PartsOfDesktopSound`, `PartsOfModelsSound`. A step of one part leaves the others alone,
  so the specification of `MCDesktop` or `MCModels` implies that of every part
  (`PartsAreSpecified`), and what is proved about a part holds in the run.

Only model-checked: the liveness properties (`WatchedIsCharged`, `CallsReturn`,
`FailureIsShown`, `ShutdownReturns`, `RequestsAnswered`, `ShutdownEnds`, `PreviewEnds`,
`ProbeEnds`, `StaleIsBlanked`), because the prover does not do fairness. Proved and not
among the properties of the runs are `BucketCoversState`, `OneLifetimePerPid`,
`NeverClosedTwice`, `StartsClean` and the type invariants of `MonitorService` and the
session. `PartsStaySound` in `models` and `desktop` joins the type invariants and
secondary bounds of the parts, each of which is a theorem about its part as well.

## Not modelled

* The system-wide counters: one psutil call, and nothing depends on them.
* Texts, labels, colours, painting and layout; the order of rows; the CSV's wording;
  the path rules that hide system processes (core/process_visibility.py).
* The ctypes bindings (etw/api.py, etw/events.py, windows_foreground.py,
  windows_icons.py): their calls are free choices of the models.
* `probe.py` and `permission_probe.py`, straight-line diagnostics, the measuring tool
  and the entry script.
* Creating and deleting windows is not told apart from showing and hiding them. The
  place of the compact window, which goes through the same `fit_rect`.
* The interpreter's exit: the consumer thread is no daemon (session.py:117), so after a
  stop that gave up on `ProcessTrace` the process lives until it returns. A stop that
  fails during shutdown is not retried: the worker stops once.
* A screen too small for the micro window, and no screen at all: the code returns early.

## Plan

1. Compose `Presence` with `MicroProjection`, whose automatic choice it leaves open, and
   `UiViews` with `MicroCard`, which share the visible windows, each shown to imply the
   parts it composes, so that their theorems carry over.
2. An abstract specification of the rate history (the last samples of the application
   on screen, without a store) that `RateHistory` implements while its snapshots fit, and
   one of the icon cache (a request is answered once or refused).
3. The rows of the process tree and their order in `DetailLists`, with the lemma that a
   stable sort by rank keeps the members.
4. What a probe or a build that was killed leaves behind.
