---------------------------- MODULE BuildWindows ----------------------------
(***************************************************************************)
(* tools/build_windows.py: builds that package a commit while the developer *)
(* goes on working in the same checkout.  A build holds no lock: it looks   *)
(* at the inputs with git before and after it compiles them, and the        *)
(* directory named after the commit and the channel keeps builds apart.     *)
(* Contents of the inputs are numbered in the order they are written; the   *)
(* developer never returns to an earlier one (a change that is undone       *)
(* between the two looks is invisible to them).                            *)
(***************************************************************************)
EXTENDS Naturals, FiniteSets, PythonNone

CONSTANTS Builders,     (* processes that build at the same time              *)
          MaxContents,  (* bound: contents of the inputs                      *)
          MaxBuilds,    (* bound: builds that are started                     *)
          Channels      (* release channels                                   *)

ASSUME BuildAssumption ==
    MaxContents \in Nat \ {0} /\ MaxBuilds \in Nat /\ None \notin 1..MaxContents

Contents     == 1..MaxContents
Destinations == Contents \X Channels

VARIABLES head,   (* content of the commit HEAD                               *)
          checkout, (* content of the inputs in the checkout                  *)
          builds, (* builds started so far: each has its number               *)
          build,  (* Builders -> the build it runs                            *)
          disk    (* Destinations -> what is in the directory                 *)

buildVars == <<head, checkout, builds, build, disk>>

(* A build: its number, where it is, its channel and commit; the content    *)
(* whose lock it checked the environment against, those it has compiled and *)
(* copied from, and those whose hashes it has recorded.  seen is a ghost:   *)
(* HEAD as its second look saw it, None if HEAD moved during that look.     *)
NoBuild  == [id |-> 0, at |-> "idle", channel |-> None, commit |-> None,
             lock |-> None, inputs |-> {}, hashed |-> {}, seen |-> None]
(* A directory: the build that made it, and those that wrote its build.log, *)
(* its folder and its ZIP, with what that build had read.                   *)
NoFolder == [owner |-> 0, log |-> 0, folder |-> 0, zip |-> 0,
             lock |-> None, inputs |-> {}, hashed |-> {}, seen |-> None]

BuildInit ==
    /\ head = 1 /\ checkout = 1 /\ builds = 0
    /\ build = [b \in Builders |-> NoBuild]
    /\ disk = [d \in Destinations |-> NoFolder]

(* The developer, who writes new contents and commits them.                 *)
Edit ==
    /\ checkout < MaxContents /\ checkout' = checkout + 1
    /\ UNCHANGED <<head, builds, build, disk>>

Commit ==
    /\ head # checkout /\ head' = checkout
    /\ UNCHANGED <<checkout, builds, build, disk>>

-----------------------------------------------------------------------------
Destination(b) == <<build[b].commit, build[b].channel>>
Clean          == checkout = head  (* git status of the inputs is empty *)

(* A step of b from one place to the next; it may raise wherever it is, and *)
(* main then reports the error and ends.  Nothing is cleaned up.            *)
At(b, stage)      == build[b].at = stage
Become(b, next)   == build' = [build EXCEPT ![b] = next] /\ UNCHANGED <<head, checkout, builds>>
Advance(b, stage) == Become(b, [build[b] EXCEPT !.at = stage])
(* ... after reading the inputs as they are.                                *)
Reading(b, stage) ==
    Become(b, [build[b] EXCEPT !.at = stage, !.inputs = @ \cup {checkout}])

(* check_environment reads the lock and compares it with what is installed, *)
(* before any look at git: the lock may be of an edit that is not committed.*)
ReadLock(b, channel) ==
    /\ At(b, "idle") /\ builds < MaxBuilds
    /\ builds' = builds + 1
    /\ build' = [build EXCEPT ![b] = [NoBuild EXCEPT !.id = builds + 1, !.at = "check",
                                                    !.channel = channel, !.lock = checkout]]
    /\ UNCHANGED <<head, checkout, disk>>

(* pip check takes its time; then the first look at the inputs.             *)
FirstLook(b) == At(b, "check") /\ Clean /\ Advance(b, "commit") /\ UNCHANGED disk

(* rev-parse HEAD.                                                          *)
RevParse(b) ==
    /\ At(b, "commit")
    /\ Become(b, [build[b] EXCEPT !.at = "version", !.commit = head]) /\ UNCHANGED disk

(* source_version, which names the package.                                 *)
Version(b) == At(b, "version") /\ Reading(b, "mkdir") /\ UNCHANGED disk

(* Faulty: mkdir(exist_ok=True).                                            *)
ReuseFaulty(b) ==
    /\ At(b, "mkdir") /\ Advance(b, "compile")
    /\ disk' = [disk EXCEPT ![Destination(b)].owner = IF @ = 0 THEN build[b].id ELSE @]

(* destination.mkdir(exist_ok=False).                                       *)
Mkdir(b) ==
    /\ At(b, "mkdir") /\ disk[Destination(b)].owner = 0 /\ Advance(b, "compile")
    /\ disk' = [disk EXCEPT ![Destination(b)].owner = build[b].id]

(* PyInstaller starts with a fresh build.log, reads for minutes, and leaves *)
(* the distribution in a work directory of this build.                      *)
Compile(b) ==
    /\ At(b, "compile") /\ Reading(b, "compiling")
    /\ disk' = [disk EXCEPT ![Destination(b)].log = build[b].id]
Compiled(b) == At(b, "compiling") /\ Reading(b, "copy") /\ UNCHANGED disk

(* copytree, which refuses an existing folder, and inspect_distribution.    *)
Copy(b) ==
    /\ At(b, "copy") /\ disk[Destination(b)].folder = 0
    /\ disk' = [disk EXCEPT ![Destination(b)].folder = build[b].id]
    /\ Reading(b, "notices")

(* collect_licenses and render_notice read packaging/, ls-files the names.  *)
Notices(b) == At(b, "notices") /\ Reading(b, "recheck") /\ UNCHANGED disk

(* Faulty: HEAD is read and not compared, as if it could not have moved.    *)
StatusOnlyFaulty(b) ==
    /\ At(b, "recheck") /\ UNCHANGED disk
    /\ Become(b, [build[b] EXCEPT !.at = "status", !.seen = head])

(* The second look is two calls of git: is HEAD still the commit ...        *)
CheckHead(b) ==
    /\ At(b, "recheck") /\ head = build[b].commit /\ UNCHANGED disk
    /\ Become(b, [build[b] EXCEPT !.at = "status", !.seen = head])

(* ... and are the inputs those of HEAD, which may have moved since.        *)
CheckStatus(b) ==
    /\ At(b, "status") /\ Clean /\ UNCHANGED disk
    /\ Become(b, [build[b] EXCEPT !.at = "sources", !.seen = IF head = @ THEN @ ELSE None])

(* BUILD-INFO.json: the hashes of the inputs, read once more, and those of  *)
(* the two files that configure the build, read again.                      *)
Hashing(b, stage) ==
    /\ Become(b, [build[b] EXCEPT !.at = stage, !.hashed = @ \cup {checkout}])
    /\ UNCHANGED disk
HashSources(b)       == At(b, "sources") /\ Hashing(b, "configuration")
HashConfiguration(b) == At(b, "configuration") /\ Hashing(b, "archive")

(* The manifest, the second inspection, and the ZIP, which must not exist.  *)
Archive(b) ==
    /\ At(b, "archive") /\ disk[Destination(b)].zip = 0
    /\ disk' = [disk EXCEPT ![Destination(b)] =
                   [@ EXCEPT !.zip = build[b].id, !.lock = build[b].lock,
                             !.inputs = build[b].inputs, !.hashed = build[b].hashed,
                             !.seen = build[b].seen]]
    /\ Advance(b, "report")

(* SHA256SUMS.txt, build-result.json and exit code 0.                       *)
Report(b) == At(b, "report") /\ Become(b, NoBuild) /\ UNCHANGED disk

(* A check that refuses, a call that fails or a killed process.             *)
BuildFails(b) == build[b].at # "idle" /\ Become(b, NoBuild) /\ UNCHANGED disk

BuildNext ==
    \/ Edit \/ Commit
    \/ \E b \in Builders :
         \/ \E channel \in Channels : ReadLock(b, channel)
         \/ FirstLook(b) \/ RevParse(b) \/ Version(b) \/ Mkdir(b) \/ Compile(b) \/ Compiled(b)
         \/ Copy(b) \/ Notices(b) \/ CheckHead(b) \/ CheckStatus(b) \/ HashSources(b)
         \/ HashConfiguration(b) \/ Archive(b) \/ Report(b) \/ BuildFails(b)

BuildSpec == BuildInit /\ [][BuildNext]_buildVars

-----------------------------------------------------------------------------
Stages == {"idle", "check", "commit", "version", "mkdir", "compile", "compiling", "copy", "notices",
           "recheck", "status", "sources", "configuration", "archive", "report"}

BuildStates ==
    [id : 0..MaxBuilds, at : Stages, channel : Channels \cup {None}, commit : Contents \cup {None},
     lock : Contents \cup {None}, inputs : SUBSET Contents, hashed : SUBSET Contents,
     seen : Contents \cup {None}]

Directories ==
    [owner : 0..MaxBuilds, log : 0..MaxBuilds, folder : 0..MaxBuilds, zip : 0..MaxBuilds,
     lock : Contents \cup {None}, inputs : SUBSET Contents, hashed : SUBSET Contents,
     seen : Contents \cup {None}]

BuildTypeOK ==
    /\ head \in Contents /\ checkout \in Contents /\ head <= checkout /\ builds \in 0..MaxBuilds
    /\ build \in [Builders -> BuildStates] /\ disk \in [Destinations -> Directories]

(* What the second look guarantees of a ZIP (build_windows.py:219-250):     *)
(* whatever was edited or committed meanwhile, it holds nothing but what    *)
(* was compiled and copied from the inputs of the commit in its name,       *)
(* unless HEAD moved between the two git calls of that look or an edit was  *)
(* undone.  What it says about itself is bound less: the lock whose         *)
(* versions it records is of the commit or older, since it was read before  *)
(* the first look (lines 56, 218), and the hashes are of the commit or      *)
(* newer, since they are read after the second (254-255).                   *)
ZipIsOfCommit ==
    \A d \in Destinations : disk[d].zip # 0 =>
        /\ disk[d].seen # None => disk[d].inputs = {d[1]}
        /\ disk[d].lock <= d[1]
        /\ \A c \in disk[d].hashed : d[1] <= c

(* Everything in a directory comes from the build that made it, also when   *)
(* two builds of one commit run at once or one failed before: no output is  *)
(* replaced or mixed (build_windows.py:227-228, 274-275).                   *)
OneBuildPerDestination ==
    \A d \in Destinations : {disk[d].log, disk[d].folder, disk[d].zip} \subseteq {0, disk[d].owner}
-----------------------------------------------------------------------------
(* Why both hold: contents only grow, so what a build read lies between its *)
(* commit and the checkout, and if HEAD is still its commit while the       *)
(* checkout is clean, all of it was the commit's; and a build that has made *)
(* its directory is the owner of it until it ends.                          *)
Named(r)   == r.at \notin {"idle", "check", "commit"}
Owning(r)  == Named(r) /\ r.at \notin {"version", "mkdir"}
Checked(r) == r.at \in {"sources", "configuration", "archive", "report"}

SoundBuild(r) ==
    /\ r.at # "idle" => /\ r.id # 0 /\ r.channel \in Channels
                       /\ r.lock \in Contents /\ r.lock <= checkout
    /\ r.at \in {"check", "commit"} => r.inputs = {} /\ r.hashed = {}
    /\ r.at = "commit" => r.lock <= head
    /\ Named(r) =>
         /\ r.commit \in Contents /\ r.commit <= head /\ r.lock <= r.commit
         /\ \A c \in r.inputs \cup r.hashed : r.commit <= c /\ c <= checkout
         /\ r.at # "version" => r.inputs # {}
    /\ r.at = "status" => r.seen = r.commit
    /\ Checked(r) /\ r.seen # None => r.inputs = {r.commit}

ReadInv == \A b \in Builders : SoundBuild(build[b])

OwnerInv == \A b \in Builders : Owning(build[b]) => disk[Destination(b)].owner = build[b].id

BuildInv == BuildTypeOK /\ ReadInv /\ OwnerInv /\ ZipIsOfCommit /\ OneBuildPerDestination
=============================================================================
