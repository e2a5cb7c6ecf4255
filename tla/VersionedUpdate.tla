-------------------------- MODULE VersionedUpdate --------------------------
(***************************************************************************)
(* The desktop updates itself: the window that is open starts a process,   *)
(* the updater, which installs the new version beside the others (stage)   *)
(* and then, in a second process, points current.json at it, closes the    *)
(* application, opens the launcher and waits for the new version to        *)
(* confirm that it runs (activate); without the confirmation it points     *)
(* back and opens the version it came from.                                *)
(*                                                                         *)
(* A folder of versions/ is "absent" (no executable in it, which every     *)
(* reader treats alike), "whole", or "partial": what is left when a folder *)
(* is deleted under a process that runs from it, for the executable and    *)
(* the libraries it has loaded cannot be deleted. An update that is under  *)
(* way never lasts the thirty minutes after which its lock is stale, and   *)
(* none ends between creating the file and writing to it.                  *)
(*                                                                         *)
(* The steps of an activation are as coarse as the lock makes them: once   *)
(* two updaters hold it (raced) nothing is claimed of what follows.        *)
(***************************************************************************)
EXTENDS FiniteSets, Integers

CONSTANTS
  MaxVersion,  \* bound on the versions published
  MaxUpdates,  \* bound on the updates asked for
  MaxCrashes   \* bound on the updaters that crash

ASSUME UpdateBoundsAssumption ==
  MaxVersion \in Nat \ {0} /\ MaxUpdates \in Nat /\ MaxCrashes \in Nat

\* A version is its rank, the first is the one the installer put there; an update
\* is its place in the order of the requests.
Versions == 1 .. MaxVersion
Updates == 1 .. MaxUpdates
NoVersion == 0
NoUpdate == 0

VARIABLES
  dir,       \* dir[v]: the folder versions/<v>
  pointer,   \* current.json
  running,   \* versions that some process runs, window or --notifier agent
  working,   \* versions that are able to confirm they run
  lock,      \* updater.lock: who created the file, or NoUpdate where there is none
  stale,     \* the file is older than the timeout
  taking,    \* taking[u]: how far u has got in acquiring the lock
  raced,     \* history: the lock of an update under way was deleted by another
  updater,   \* updater[u]: the processes that serve request u, and the request
  marker,    \* marker[u]: the version that wrote the handshake marker of u
  launches,  \* launchers started and not yet done, by their request, or NoUpdate
  starting,  \* started for a request and not confirmed: pairs <<request, version>>
  crashes,
  unopened   \* a launch that no updater watches has failed to open anything

locks == <<lock, stale, taking, raced>>
vars == <<dir, pointer, running, working, locks, updater, marker, launches, starting, crashes, unopened>>

Phases == {"idle", "stage", "staging", "STAGED", "activate", "point", "stop", "launch", "wait",
           "clean", "undo", "undostop", "reopen", "crashed", "SUCCESS", "FAILED", "ROLLED_BACK"}

\* The phases in which an updater holds the lock, and those of an activation.
Activating == {"point", "stop", "launch", "wait", "clean", "undo", "undostop", "reopen"}
Holding == {"staging"} \cup Activating

NotAsked == [pc |-> "idle", target |-> NoVersion, from |-> NoVersion,
             previous |-> NoVersion, seen |-> NoVersion]

\* app_executable(root, version).is_file()
HasExe(v) == v # NoVersion /\ dir[v] # "absent"

Newest(S) == CHOOSE v \in S : \A w \in S : w <= v

\* list_installed_versions(root)[:keep]
InstalledVersions == {v \in Versions : HasExe(v)}
NewestTwo == {v \in InstalledVersions : Cardinality({w \in InstalledVersions : w > v}) < 2}

\* resolve_active_version; NoVersion when nothing is installed.
Active ==
  IF HasExe(pointer.version) THEN pointer.version
  ELSE IF InstalledVersions = {} THEN NoVersion
  ELSE Newest(InstalledVersions)

\* Processes end: only those of the versions S are left.
Remain(S) ==
  /\ running' = S
  /\ starting' = {s \in starting : s[2] \in S}

Go(u, pc) == updater' = [updater EXCEPT ![u].pc = pc]

\* The lock is released with the status that is reported: the file goes, whoever
\* created it.
Report(u, phase) ==
  /\ Go(u, phase)
  /\ lock' = NoUpdate /\ stale' = FALSE
  /\ UNCHANGED <<taking, raced>>

(***************************************************************************)
(* The people and the application                                          *)
(***************************************************************************)
\* UpdateCoordinator.start_update, up to the launch of the updater with --stage.
\* The server never goes back to a version older than one it has offered.
RequestUpdate(u) ==
  /\ updater[u].pc = "idle"
  /\ \A w \in Updates : w < u => updater[w].pc # "idle"
  /\ \E v \in running \cap working, t \in Versions :
       /\ v < t /\ \A w \in Updates : updater[w].target <= t
       /\ updater' = [updater EXCEPT ![u] = [NotAsked EXCEPT !.pc = "stage", !.target = t, !.from = v]]
  /\ UNCHANGED <<dir, pointer, running, working, locks, marker, launches, starting, crashes, unopened>>

\* A shortcut, Startup or a toast: all of them run the launcher, which reads the
\* pointer when it runs.
OpenApp ==
  /\ Active # NoVersion
  /\ running' = running \cup {Active}
  /\ UNCHANGED <<dir, pointer, working, locks, updater, marker, launches, starting, crashes, unopened>>

\* Its window is closed, its agent ends, or it fails.
Ends ==
  /\ \E v \in running : Remain(running \ {v})
  /\ UNCHANGED <<dir, pointer, working, locks, updater, marker, launches, crashes, unopened>>

\* A launcher started by an updater: what the pointer says then, not when it was
\* started.
LauncherOpens(l) ==
  /\ l \in launches /\ Active # NoVersion
  /\ launches' = launches \ {l}
  /\ running' = running \cup {Active}
  /\ starting' = IF l # NoUpdate THEN starting \cup {<<l, Active>>} ELSE starting
  /\ UNCHANGED <<dir, pointer, working, locks, updater, marker, crashes, unopened>>

LauncherFails(l) ==
  /\ l \in launches
  /\ launches' = launches \ {l}
  /\ unopened' = (unopened \/ l = NoUpdate)
  /\ UNCHANGED <<dir, pointer, running, working, locks, updater, marker, starting, crashes>>

\* confirm_post_update_handshake, the first thing the desktop does.
Confirm(s) ==
  /\ s \in starting /\ s[2] \in working
  /\ starting' = starting \ {s}
  /\ marker' = [marker EXCEPT ![s[1]] = s[2]]
  /\ UNCHANGED <<dir, pointer, running, working, locks, updater,
                 launches, crashes, unopened>>

(***************************************************************************)
(* Phase 1: stage                                                          *)
(***************************************************************************)
\* Mutant: the file is created without O_EXCL.
AlwaysFree(u) == TRUE

\* UpdaterLock._try_create
LockIsFree(u) == lock = NoUpdate

KeepApplication ==
  UNCHANGED <<dir, pointer, running, working, marker, launches, starting, crashes, unopened>>

Step(u, step) == taking' = [taking EXCEPT ![u] = step]

\* The file is there, and the phase that needed it begins.
Created(u) ==
  /\ LockIsFree(u)
  /\ lock' = u /\ stale' = FALSE /\ UNCHANGED raced
  /\ Step(u, "create")
  /\ Go(u, IF updater[u].pc = "stage" THEN "staging" ELSE "point")

\* UpdaterLockError, which is reported without a lock.
Refused(u) ==
  /\ Step(u, "create") /\ Go(u, "FAILED")
  /\ UNCHANGED <<lock, stale, raced>>

(* UpdaterLock._acquire: try to create the file, judge the one that is there,
   delete it if it is stale, try once more. *)
Acquiring(u, step) == updater[u].pc \in {"stage", "activate"} /\ taking[u] = step

Create(u) ==
  /\ Acquiring(u, "create")
  /\ \/ Created(u)
     \/ ~LockIsFree(u) /\ Step(u, "judge") /\ UNCHANGED <<updater, lock, stale, raced>>
  /\ KeepApplication

\* A file that is gone meanwhile is not stale either.
Judge(u) ==
  /\ Acquiring(u, "judge")
  /\ \/ stale /\ Step(u, "delete") /\ UNCHANGED <<updater, lock, stale, raced>>
     \/ ~stale /\ Refused(u)
  /\ KeepApplication

\* What is deleted is the file of that name, not the one that was judged.
Delete(u) ==
  /\ Acquiring(u, "delete")
  /\ lock' = NoUpdate /\ stale' = FALSE
  /\ raced' = (raced \/ (lock # NoUpdate /\ updater[lock].pc \in Holding))
  /\ Step(u, "recreate")
  /\ UNCHANGED updater /\ KeepApplication

Recreate(u) ==
  /\ Acquiring(u, "recreate")
  /\ Created(u) \/ (~LockIsFree(u) /\ Refused(u))
  /\ KeepApplication

Acquire(u) == Create(u) \/ Judge(u) \/ Delete(u) \/ Recreate(u)

\* Mutant: extracted in place, a failure leaves half of the files.
ExtractInPlace(u, ok) ==
  dir' = [dir EXCEPT ![updater[u].target] = IF HasExe(updater[u].target) THEN @ ELSE IF ok THEN "whole" ELSE "partial"]

\* Reused when it is there already; extracted, validated and renamed otherwise.
Install(u, ok) ==
  dir' = [dir EXCEPT ![updater[u].target] = IF HasExe(updater[u].target) \/ ~ok THEN @ ELSE "whole"]

Stage(u) ==
  /\ updater[u].pc = "staging"
  /\ \E ok \in BOOLEAN : Install(u, ok) /\ Report(u, IF ok THEN "STAGED" ELSE "FAILED")
  /\ UNCHANGED <<pointer, running, working, marker, launches, starting, crashes, unopened>>

(***************************************************************************)
(* Phase 2: activate                                                       *)
(***************************************************************************)
\* _stage_then_activate: the window that asked, if it is still open.
StartActivate(u) ==
  /\ updater[u].pc = "STAGED" /\ updater[u].from \in running
  /\ Go(u, "activate")
  /\ UNCHANGED <<dir, pointer, running, working, locks, marker,
                 launches, starting, crashes, unopened>>

\* The version to come back to: the pointer's, or else the one that asked.
PreviousOf(u) ==
  IF pointer.version # updater[u].target /\ HasExe(pointer.version) THEN pointer.version
  ELSE IF HasExe(updater[u].from) THEN updater[u].from ELSE NoVersion

PointTo(u) ==
  /\ updater' = [updater EXCEPT ![u].pc = "stop", ![u].previous = PreviousOf(u),
                                ![u].seen = pointer.version]
  /\ pointer' = [version |-> updater[u].target, previous |-> PreviousOf(u)]
  /\ marker' = [marker EXCEPT ![u] = NoVersion]
  /\ UNCHANGED locks

Point(u) ==
  /\ updater[u].pc = "point"
  /\ IF HasExe(updater[u].target) THEN PointTo(u) ELSE Report(u, "FAILED") /\ UNCHANGED <<pointer, marker>>
  /\ UNCHANGED <<dir, running, working, launches, starting, crashes, unopened>>

\* stop_processes_under the installation: what resists is left behind.
Stop(u) ==
  /\ updater[u].pc = "stop"
  /\ \E left \in SUBSET running : Remain(left)
  /\ Go(u, "launch")
  /\ UNCHANGED <<dir, pointer, working, locks, marker, launches, crashes, unopened>>

Launch(u) ==
  /\ updater[u].pc = "launch"
  /\ \/ Go(u, "wait") /\ launches' = launches \cup {u}
     \/ Go(u, "undo") /\ UNCHANGED launches
  /\ UNCHANGED <<dir, pointer, running, working, locks, marker,
                 starting, crashes, unopened>>

\* wait_for_handshake: the marker, or the time is over without it.
Wait(u) ==
  /\ updater[u].pc = "wait"
  /\ Go(u, IF marker[u] # NoVersion THEN "clean" ELSE "undo")
  /\ UNCHANGED <<dir, pointer, running, working, locks, marker,
                 launches, starting, crashes, unopened>>

\* Mutant: only what this activation has named is protected.
KeepWhatWasNamed(u) == {updater[u].target} \cup {pointer.version}

KeepSet(u) == {updater[u].target, updater[u].previous, pointer.version, pointer.previous} \cup NewestTwo

\* rmtree with ignore_errors: without the right to delete nothing happens, in
\* use what is loaded stays.
Removed(u) ==
  \E gone \in SUBSET (InstalledVersions \ KeepSet(u)) :
    dir' = [v \in Versions |->
              IF v \notin gone THEN dir[v] ELSE IF v \in running THEN "partial" ELSE "absent"]

\* cleanup_old_versions
Clean(u) ==
  /\ updater[u].pc = "clean"
  /\ Removed(u)
  /\ Report(u, "SUCCESS")
  /\ UNCHANGED <<pointer, running, working, marker, launches, starting, crashes, unopened>>

\* Mutant: the processes are stopped, the pointer stays.
PointerStays(u) == UNCHANGED pointer

PointBack(u) == pointer' = [version |-> updater[u].previous, previous |-> NoVersion]

\* Mutant: the caller is trusted to have a previous version.
UndoUnseen(u) ==
  /\ PointBack(u)
  /\ Go(u, "undostop")
  /\ UNCHANGED locks

UndoTo(u) ==
  /\ updater[u].previous # NoVersion
  /\ PointBack(u)
  /\ Go(u, "undostop")
  /\ UNCHANGED locks

NothingToRestore(u) ==
  /\ updater[u].previous = NoVersion
  /\ Report(u, "FAILED")
  /\ UNCHANGED pointer

Undo(u) ==
  /\ updater[u].pc = "undo"
  /\ UndoTo(u) \/ NothingToRestore(u)
  /\ UNCHANGED <<dir, running, working, marker, launches, starting, crashes, unopened>>

UndoStop(u) ==
  /\ updater[u].pc = "undostop"
  /\ \E left \in {running, running \ {updater[u].target}} : Remain(left)
  /\ Go(u, "reopen")
  /\ UNCHANGED <<dir, pointer, working, locks, marker, launches, crashes, unopened>>

\* Mutant: the person is left to open the application.
LeaveClosed == UNCHANGED <<launches, unopened>>

OpenAgain ==
  \/ launches' = launches \cup {NoUpdate} /\ UNCHANGED unopened
  \/ unopened' = TRUE /\ UNCHANGED launches

Reopen(u) ==
  /\ updater[u].pc = "reopen"
  /\ OpenAgain
  /\ Report(u, "ROLLED_BACK")
  /\ UNCHANGED <<dir, pointer, running, working, marker, starting, crashes>>

(***************************************************************************)
(* Faults                                                                  *)
(***************************************************************************)
\* The lock file outlives its process; a folder may be half deleted.
Crash(u) ==
  /\ updater[u].pc \in Holding /\ crashes < MaxCrashes
  /\ crashes' = crashes + 1
  /\ Go(u, "crashed")
  /\ IF updater[u].pc = "clean"
     THEN \E half \in SUBSET (InstalledVersions \ KeepSet(u)) :
            dir' = [v \in Versions |-> IF v \in half THEN "partial" ELSE dir[v]]
     ELSE UNCHANGED dir
  /\ UNCHANGED <<pointer, running, working, locks, marker,
                 launches, starting, unopened>>

\* After thirty minutes UpdaterLock._staleness_reason gives a reason to take it.
LockExpires ==
  /\ lock # NoUpdate /\ updater[lock].pc = "crashed"
  /\ stale' = TRUE
  /\ UNCHANGED <<lock, taking, raced, updater>> /\ KeepApplication

(***************************************************************************)
(* The specification                                                       *)
(***************************************************************************)
\* As the installer leaves it, or after the update to a second version, with
\* processes of the first that could not be stopped.
Init ==
  /\ \E n \in {1, 2} \cap Versions :
       /\ dir = [v \in Versions |-> IF v <= n THEN "whole" ELSE "absent"]
       /\ pointer = [version |-> n, previous |-> n - 1]
       /\ running \in SUBSET (1 .. n)
       /\ working \in {W \in SUBSET Versions : 1 .. n \subseteq W}
  /\ lock = NoUpdate /\ stale = FALSE /\ raced = FALSE
  /\ taking = [u \in Updates |-> "create"]
  /\ updater = [u \in Updates |-> NotAsked]
  /\ marker = [u \in Updates |-> NoVersion]
  /\ launches = {} /\ starting = {} /\ crashes = 0 /\ unopened = FALSE

UpdaterStep(u) ==
  \/ Acquire(u) \/ Stage(u) \/ Point(u) \/ Stop(u) \/ Launch(u)
  \/ Wait(u) \/ Clean(u) \/ Undo(u) \/ UndoStop(u) \/ Reopen(u)

LauncherStep == \E l \in launches : LauncherOpens(l) \/ LauncherFails(l)

Next ==
  \/ OpenApp \/ Ends \/ LockExpires \/ LauncherStep
  \/ \E s \in starting : Confirm(s)
  \/ \E u \in Updates : RequestUpdate(u) \/ StartActivate(u) \/ UpdaterStep(u) \/ Crash(u)

Spec == Init /\ [][Next]_vars

\* Processes that have been started run, and waiting ends by its timeout; what
\* people, the server and faults do is not fair.
Fairness ==
  /\ WF_vars(\E u \in Updates : UpdaterStep(u))
  /\ WF_vars(LauncherStep)

FairSpec == Spec /\ Fairness

(***************************************************************************)
(* Properties                                                              *)
(***************************************************************************)
\* Every value is one the program can produce; and until the lock of an updater is
\* deleted under it, the file is that of the one updater between its acquisition
\* and its release, or of one that crashed.
TypeOK ==
  /\ dir \in [Versions -> {"absent", "whole", "partial"}]
  /\ pointer \in [version : Versions, previous : Versions \cup {NoVersion}]
  /\ running \subseteq Versions /\ working \subseteq Versions
  /\ lock \in Updates \cup {NoUpdate}
  /\ stale \in BOOLEAN /\ raced \in BOOLEAN
  /\ taking \in [Updates -> {"create", "judge", "delete", "recreate"}]
  /\ updater \in [Updates -> [pc : Phases, target : Versions \cup {NoVersion},
                              from : Versions \cup {NoVersion},
                              previous : Versions \cup {NoVersion}, seen : Versions \cup {NoVersion}]]
  /\ marker \in [Updates -> Versions \cup {NoVersion}]
  /\ launches \subseteq Updates \cup {NoUpdate}
  /\ starting \subseteq Updates \X Versions
  /\ crashes \in 0 .. MaxCrashes /\ unopened \in BOOLEAN
  /\ raced \/ \A u \in Updates : updater[u].pc \in Holding => lock = u

\* No two updaters apply an update at once, which is what lock.py is for. It fails:
\* of two that judged the same file stale, the second deletes the new file of the
\* first and both go on.
OneUpdaterApplies ==
  \A u, w \in Updates : updater[u].pc \in Holding /\ updater[w].pc \in Holding => u = w

Named == {pointer.version, pointer.previous} \ {NoVersion}

\* Two newer ones are installed, so that a cleanup may delete v.
Overtaken(v) == \E w, x \in InstalledVersions : v < w /\ w < x

\* current.json never comes to name a half deleted folder, and no folder it names
\* is deleted, through every crash: what is installed appears at once, and what is
\* named is protected. The one exception the code has is an update that was
\* overtaken: by the time it activates, its target, or the version of the window
\* that asked for it, may lie in ruins beside two newer ones. Nothing is said once
\* two updaters hold the lock.
PointerIsWhole ==
  [][~raced => \A v \in Named' :
       dir'[v] = "whole" \/ /\ dir'[v] = dir[v]
                            /\ \/ v \in Named
                               \/ Overtaken(v) /\ \E u \in Updates : /\ updater[u].pc = "point"
                                                                     /\ v \in {updater[u].target, updater[u].from}]_vars

\* An update is reported as done only when its own version has confirmed that it
\* runs, whoever else asked for an update and whenever the launcher got to run;
\* as long as the lock was never deleted under an updater, for two that hold it
\* read each other's confirmations.
SuccessIsTheTarget ==
  ~raced => \A u \in Updates : updater[u].pc = "SUCCESS" => marker[u] = updater[u].target

\* While no updater crashes, the version that the launcher will open after an
\* activation, failed or not, is one that works.
RestsOnTested ==
  (crashes = 0 /\ \A u \in Updates : updater[u].pc \notin Activating) => pointer.version \in working

\* Every activation ends with a version that works being open: the new one confirms,
\* or the old one is opened again. It is left to the person when no old version is
\* there (the window that asked for the active version once more is gone and its
\* folder deleted), when an updater crashes, or when a launch nobody watches fails.
AppComesBack ==
  \A u \in Updates :
    updater[u].pc = "stop" ~> \/ updater[u].pc = "SUCCESS"
                              \/ updater[u].pc = "ROLLED_BACK" /\ running \cap working # {}
                              \/ updater[u].pc = "FAILED" /\ updater[u].previous = NoVersion
                              \/ crashes > 0 \/ unopened

=============================================================================
