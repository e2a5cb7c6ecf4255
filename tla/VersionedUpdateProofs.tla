----------------------- MODULE VersionedUpdateProofs -----------------------
(***************************************************************************)
(* Theorems about VersionedUpdate, for any number of versions, updates and *)
(* crashes. They rest on one invariant: until two takers of a stale lock   *)
(* have met, the lock makes one activation at a time the owner of the      *)
(* pointer, the pointer never names a folder without an executable, and    *)
(* what is heard under a request is its own target. Takers can only meet   *)
(* after an updater has crashed.                                           *)
(***************************************************************************)
EXTENDS VersionedUpdate, SumTheorems, TLAPS

Pointing == {"stop", "launch", "wait", "clean"}
Early == {"idle", "stage", "staging", "STAGED", "activate", "point", "stop", "launch"}

\* The launcher finds what the pointer names.
Found == HasExe(pointer.version)

\* While it activates, the pointer is this update's.
Points(u) == updater[u].pc \in Pointing => pointer.version = updater[u].target

CanGoBack(u) ==
  updater[u].pc \in {"stop", "launch", "wait", "undo"} /\ updater[u].previous # NoVersion
    => HasExe(updater[u].previous)

\* Nothing is launched, and nothing heard, before its time.
Unlaunched(u) ==
  /\ updater[u].pc \in Early => u \notin launches /\ \A s \in starting : s[1] # u
  /\ updater[u].pc \in {"stop", "launch"} => marker[u] = NoVersion

\* What confirms under this request is its target.
Heard(u) ==
  updater[u].pc \in {"wait", "clean", "SUCCESS"} =>
    /\ \A s \in starting : s[1] = u => s[2] = updater[u].target /\ u \notin launches
    /\ marker[u] # NoVersion => marker[u] = updater[u].target /\ u \notin launches
    /\ updater[u].pc # "wait" => marker[u] = updater[u].target
    /\ updater[u].target # NoVersion

\* While no updater has crashed: what asks, confirms and is come back to works.
Works(v) == v # NoVersion => v \in working

TestedBy(u) ==
  /\ Works(marker[u]) /\ Works(updater[u].from)
  /\ updater[u].pc \in {"stop", "launch", "wait", "undo"} =>
       IF updater[u].previous = NoVersion THEN pointer.version \in working
       ELSE updater[u].previous \in working
  /\ updater[u].pc \in {"undostop", "reopen"} => pointer.version \in working

Tested ==
  crashes = 0 =>
    /\ \A u \in Updates : TestedBy(u)
    /\ (\A u \in Updates : updater[u].pc \notin Activating \ {"point"}) => pointer.version \in working

\* Without a crash no lock grows stale, so that none is taken.
Calm ==
  crashes = 0 => /\ ~stale /\ ~raced
                 /\ \A u \in Updates : taking[u] \in {"create", "judge"} /\ updater[u].pc # "crashed"

\* No lock has been deleted under its owner, and what rests on that.
Alone ==
  /\ ~raced /\ TypeOK /\ Found /\ Tested
  /\ \A u \in Updates : Points(u) /\ CanGoBack(u) /\ Unlaunched(u) /\ Heard(u)

UpdateInv == TypeOK /\ Calm /\ (raced \/ Alone)

LEMMA UpdateInit == Init => UpdateInv
<1> SUFFICES ASSUME Init PROVE UpdateInv
  OBVIOUS
<1>1. PICK n \in {1, 2} \cap Versions :
        /\ dir = [v \in Versions |-> IF v <= n THEN "whole" ELSE "absent"]
        /\ pointer = [version |-> n, previous |-> n - 1]
        /\ running \in SUBSET (1 .. n)
        /\ working \in {W \in SUBSET Versions : 1 .. n \subseteq W}
  BY DEF Init
<1>2. n \in Versions /\ n - 1 \in Versions \cup {NoVersion} /\ 1 .. n \subseteq Versions /\ n \in working
  BY <1>1, UpdateBoundsAssumption DEF Versions, NoVersion
<1>3. TypeOK
  <2>1. /\ dir \in [Versions -> {"absent", "whole", "partial"}]
        /\ pointer \in [version : Versions, previous : Versions \cup {NoVersion}]
        /\ running \subseteq Versions /\ working \subseteq Versions
    BY <1>1, <1>2
  <2>2. /\ NotAsked \in [pc : Phases, target : Versions \cup {NoVersion}, from : Versions \cup {NoVersion},
                         previous : Versions \cup {NoVersion}, seen : Versions \cup {NoVersion}]
        /\ NotAsked.pc \notin Holding
    BY DEF NotAsked, Phases, Holding, Activating
  <2>3. /\ updater = [u \in Updates |-> NotAsked] /\ marker = [u \in Updates |-> NoVersion]
        /\ lock = NoUpdate /\ stale = FALSE /\ raced = FALSE
        /\ taking = [u \in Updates |-> "create"]
        /\ launches = {} /\ starting = {} /\ crashes = 0 /\ unopened = FALSE
    BY DEF Init
  <2>4. 0 \in 0 .. MaxCrashes
    BY UpdateBoundsAssumption
  <2> QED
    BY <2>1, <2>2, <2>3, <2>4 DEF TypeOK
<1>4. Found
  BY <1>1, <1>2 DEF Found, HasExe, Versions, NoVersion
<1>5. Tested
  BY <1>1, <1>2 DEF Init, Tested, TestedBy, Works, NotAsked, NoVersion
<1>6. \A u \in Updates : Points(u) /\ CanGoBack(u) /\ Unlaunched(u) /\ Heard(u)
  BY DEF Init, NotAsked, Points, Pointing, CanGoBack, Unlaunched, Heard
<1>7. Calm /\ ~raced
  BY DEF Init, Calm, NotAsked
<1> QED
  BY <1>3, <1>4, <1>5, <1>6, <1>7 DEF UpdateInv, Alone

\* The launcher opens what the pointer names: the repair is never needed.
LEMMA ActiveIsPointer == TypeOK /\ Found => Active = pointer.version /\ Active \in Versions
BY DEF TypeOK, Found, Active

\* A set of versions has a newest.
LEMMA HighestVersion ==
  ASSUME NEW S, S \subseteq Versions, S # {}
  PROVE  \E m \in S : \A w \in S : w <= m
<1> DEFINE T == {x .. MaxVersion : x \in S}
<1>1. T # {} /\ T \subseteq SUBSET Versions
  <2>1. \A x \in Versions : x .. MaxVersion \subseteq Versions
    BY UpdateBoundsAssumption DEF Versions
  <2> QED
    BY <2>1
<1>2. IsFiniteSet(Versions)
  BY UpdateBoundsAssumption, FS_Interval DEF Versions
<1>3. PICK t \in T : \A u \in T : u \subseteq t => u = t
  <2> HIDE DEF T
  <2> QED
    BY <1>1, <1>2, Smallest
<1>4. PICK m \in S : t = m .. MaxVersion
  OBVIOUS
<1>5. ASSUME NEW w \in S, m < w PROVE FALSE
  <2>1. m \in Nat /\ w \in Nat /\ w .. MaxVersion \in T
    BY UpdateBoundsAssumption DEF Versions
  <2>2. w .. MaxVersion \subseteq t /\ m \in t /\ m \notin w .. MaxVersion
    BY <1>4, <1>5, <2>1, UpdateBoundsAssumption DEF Versions
  <2> QED
    BY <1>3, <2>1, <2>2
<1> QED
  BY <1>5, UpdateBoundsAssumption DEF Versions

(***************************************************************************)
(* Types                                                                   *)
(***************************************************************************)
Requests == [pc : Phases, target : Versions \cup {NoVersion}, from : Versions \cup {NoVersion},
             previous : Versions \cup {NoVersion}, seen : Versions \cup {NoVersion}]

\* The parts of TypeOK: the installation and the application, the lock file, and
\* who holds it.
Plain ==
  /\ dir \in [Versions -> {"absent", "whole", "partial"}]
  /\ pointer \in [version : Versions, previous : Versions \cup {NoVersion}]
  /\ running \subseteq Versions /\ working \subseteq Versions
  /\ marker \in [Updates -> Versions \cup {NoVersion}]
  /\ launches \subseteq Updates \cup {NoUpdate}
  /\ starting \subseteq Updates \X Versions
  /\ crashes \in 0 .. MaxCrashes /\ unopened \in BOOLEAN

Steps == {"create", "judge", "delete", "recreate"}

LockTyped ==
  /\ lock \in Updates \cup {NoUpdate} /\ stale \in BOOLEAN /\ raced \in BOOLEAN
  /\ taking \in [Updates -> Steps]

Exclusive == raced \/ \A u \in Updates : updater[u].pc \in Holding => lock = u

LEMMA TypeParts ==
  /\ TypeOK <=> Plain /\ LockTyped /\ updater \in [Updates -> Requests] /\ Exclusive
  /\ TypeOK' <=> Plain' /\ LockTyped' /\ updater' \in [Updates -> Requests] /\ Exclusive'
BY DEF TypeOK, Plain, LockTyped, Steps, Requests, Exclusive

\* What holding the lock comes to in a step that moves the phase of u: it is kept,
\* or given back, or created where there was none.
LEMMA PhaseTyped ==
  ASSUME TypeOK, NEW u \in Updates, NEW pc \in Phases, updater' = [updater EXCEPT ![u].pc = pc],
         LockTyped', raced' = raced,
         \/ lock' = lock /\ (pc \in Holding => updater[u].pc \in Holding)
         \/ lock' = NoUpdate /\ updater[u].pc \in Holding /\ pc \notin Holding
         \/ lock = NoUpdate /\ lock' = u,
         Plain'
  PROVE  TypeOK'
<1>1. updater \in [Updates -> Requests] /\ Exclusive
  BY TypeParts
<1>2. updater' \in [Updates -> Requests]
  BY <1>1, SMTT(30) DEF Requests
<1>3. updater'[u].pc = pc /\ \A w \in Updates \ {u} : updater'[w] = updater[w]
  BY <1>1 DEF Requests
<1>4. Exclusive'
  <2>1. u # NoUpdate
    BY UpdateBoundsAssumption DEF Updates, NoUpdate
  <2>2. \A w \in Updates : w # NoUpdate
    BY UpdateBoundsAssumption DEF Updates, NoUpdate
  <2> QED
    BY <1>1, <1>3, <2>1, <2>2 DEF Exclusive
<1> QED
  BY <1>2, <1>4, TypeParts

\* A step of the application changes what it opens, ends and confirms.
LEMMA AppTyped ==
  ASSUME TypeOK, \/ OpenApp \/ Ends \/ LockExpires \/ LauncherStep \/ UNCHANGED vars
                 \/ \E s \in starting : Confirm(s)
  PROVE  TypeOK'
<1>1. Plain /\ LockTyped /\ updater \in [Updates -> Requests] /\ Exclusive
  BY TypeParts
<1>2. UNCHANGED <<dir, pointer, working, lock, taking, raced, updater, crashes>> /\ stale' \in BOOLEAN
  BY <1>1 DEF OpenApp, Ends, LockExpires, KeepApplication, LauncherStep, LauncherOpens, LauncherFails,
              Confirm, locks, vars, LockTyped
<1>3. updater' \in [Updates -> Requests] /\ Exclusive' /\ LockTyped'
  BY <1>1, <1>2 DEF Exclusive, LockTyped
<1>4. Active # NoVersion => Active \in Versions
  <2>1. InstalledVersions # {} => Newest(InstalledVersions) \in InstalledVersions
    BY HighestVersion DEF Newest, InstalledVersions
  <2> QED
    BY <1>1, <2>1 DEF Active, Plain, InstalledVersions
<1> DEFINE Typed == /\ running' \subseteq Versions /\ launches' \subseteq Updates \cup {NoUpdate}
                    /\ starting' \subseteq Updates \X Versions /\ unopened' \in BOOLEAN
                    /\ marker' \in [Updates -> Versions \cup {NoVersion}]
<1>5. Typed
  <2>1. CASE OpenApp \/ Ends \/ LockExpires \/ UNCHANGED vars \/ \E l \in launches : LauncherFails(l)
    BY <1>1, <1>4, <2>1 DEF OpenApp, Ends, Remain, LockExpires, KeepApplication, LauncherFails, vars, Plain
  <2>2. ASSUME NEW l \in launches, LauncherOpens(l) PROVE Typed
    <3>1. /\ Active \in Versions /\ launches' = launches \ {l} /\ running' = running \cup {Active}
          /\ starting' = IF l # NoUpdate THEN starting \cup {<<l, Active>>} ELSE starting
          /\ UNCHANGED <<marker, unopened>>
      BY <1>4, <2>2 DEF LauncherOpens
    <3> HIDE DEF Active
    <3> QED
      BY <1>1, <3>1 DEF Plain
  <2>3. ASSUME NEW s \in starting, Confirm(s) PROVE Typed
    BY <1>1, <2>3 DEF Confirm, Plain
  <2> QED
    BY <2>1, <2>2, <2>3 DEF LauncherStep
<1> QED
  BY <1>1, <1>2, <1>3, <1>5, TypeParts DEF Plain

LEMMA RequestTyped ==
  ASSUME TypeOK, NEW u \in Updates, RequestUpdate(u)
  PROVE  TypeOK'
<1>1. Plain /\ LockTyped /\ updater \in [Updates -> Requests] /\ Exclusive
  BY TypeParts
<1>2. PICK v \in running \cap working, t \in Versions :
        updater' = [updater EXCEPT ![u] = [NotAsked EXCEPT !.pc = "stage", !.target = t, !.from = v]]
  BY DEF RequestUpdate
<1>3. UNCHANGED <<dir, pointer, running, working, locks, marker, launches, starting, crashes, unopened>>
  BY DEF RequestUpdate
<1>4. v \in Versions /\ updater'[u].pc = "stage" /\ \A w \in Updates \ {u} : updater'[w] = updater[w]
  BY <1>1, <1>2 DEF Plain, NotAsked
<1>5. updater' \in [Updates -> Requests]
  BY <1>1, <1>2, <1>4 DEF Requests, NotAsked, Phases
<1>6. Plain' /\ LockTyped' /\ Exclusive'
  BY <1>1, <1>3, <1>4 DEF Plain, LockTyped, Exclusive, locks, Holding, Activating
<1> QED
  BY <1>5, <1>6, TypeParts

LEMMA AcquireTyped ==
  ASSUME TypeOK, NEW u \in Updates, Acquire(u)
  PROVE  TypeOK'
<1>1. Plain /\ LockTyped /\ updater \in [Updates -> Requests] /\ Exclusive
  BY TypeParts
<1>2. Plain'
  BY <1>1 DEF Plain, Acquire, Create, Judge, Delete, Recreate, KeepApplication
<1>3. \A step \in Steps : Step(u, step) => taking' \in [Updates -> Steps]
  BY <1>1 DEF LockTyped, Step
<1>4. CASE Created(u)
  <2>1. PICK pc \in {"staging", "point"} : updater' = [updater EXCEPT ![u].pc = pc]
    BY <1>4 DEF Created, Go
  <2>2. lock = NoUpdate /\ lock' = u /\ stale' = FALSE /\ raced' = raced /\ Step(u, "create")
    BY <1>4 DEF Created, LockIsFree
  <2>3. LockTyped'
    BY <1>1, <1>3, <2>2 DEF LockTyped, Steps
  <2> QED
    BY <1>2, <2>1, <2>2, <2>3, PhaseTyped DEF Phases
<1>5. CASE Refused(u)
  <2>1. /\ updater' = [updater EXCEPT ![u].pc = "FAILED"] /\ Step(u, "create")
        /\ UNCHANGED <<lock, stale, raced>>
    BY <1>5 DEF Refused, Go
  <2>2. LockTyped'
    BY <1>1, <1>3, <2>1 DEF LockTyped, Steps
  <2> QED
    BY <1>2, <2>1, <2>2, PhaseTyped DEF Phases, Holding, Activating
<1>6. CASE UNCHANGED <<updater, lock, stale, raced>> /\ \E step \in Steps : Step(u, step)
  <2>1. LockTyped' /\ Exclusive' /\ updater' \in [Updates -> Requests]
    BY <1>1, <1>3, <1>6 DEF LockTyped, Exclusive
  <2> QED
    BY <1>2, <2>1, TypeParts
<1>7. CASE Delete(u)
  <2>1. /\ lock' = NoUpdate /\ stale' = FALSE /\ updater' = updater
        /\ raced' = (raced \/ (lock # NoUpdate /\ updater[lock].pc \in Holding))
        /\ Step(u, "recreate")
    BY <1>7 DEF Delete
  <2>2. LockTyped' /\ updater' \in [Updates -> Requests]
    BY <1>1, <1>3, <2>1 DEF LockTyped, Steps
  <2>3. ASSUME ~raced', NEW w \in Updates PROVE updater[w].pc \notin Holding
    <3>1. w # NoUpdate
      BY UpdateBoundsAssumption DEF Updates, NoUpdate
    <3> QED
      BY <1>1, <2>1, <2>3, <3>1 DEF Exclusive
  <2>4. Exclusive'
    BY <2>1, <2>3 DEF Exclusive
  <2> QED
    BY <1>2, <2>2, <2>4, TypeParts
<1> QED
  BY <1>4, <1>5, <1>6, <1>7 DEF Acquire, Create, Judge, Recreate, Steps

\* The phase moves to pc, and the lock is kept or, with a report, given back.
LEMMA PhasesTyped ==
  ASSUME TypeOK, NEW u \in Updates,
         \/ StartActivate(u) \/ Stage(u) \/ Stop(u) \/ Launch(u) \/ Wait(u) \/ Clean(u)
         \/ Undo(u) \/ UndoStop(u) \/ Reopen(u) \/ Crash(u)
  PROVE  TypeOK'
<1>1. Plain /\ LockTyped /\ updater \in [Updates -> Requests]
  BY TypeParts
<1>2. PICK pc \in Phases :
        /\ updater' = [updater EXCEPT ![u].pc = pc]
        /\ \/ UNCHANGED locks /\ (pc \in Holding => updater[u].pc \in Holding)
           \/ /\ lock' = NoUpdate /\ stale' = FALSE /\ UNCHANGED <<taking, raced>>
              /\ updater[u].pc \in Holding /\ pc \notin Holding
  BY DEF StartActivate, Stage, Stop, Launch, Wait, Clean, Undo, UndoTo, NothingToRestore, UndoStop, Reopen,
         Crash, Report, Go, Phases, Holding, Activating
<1>3. LockTyped' /\ raced' = raced
  BY <1>1, <1>2 DEF LockTyped, locks
<1>4. dir' \in [Versions -> {"absent", "whole", "partial"}]
  <2>1. CASE Stage(u)
    BY <1>1, <2>1 DEF Stage, Install, Plain
  <2>2. CASE Clean(u)
    BY <1>1, <2>2 DEF Clean, Removed, Plain
  <2>3. CASE Crash(u)
    BY <1>1, <2>3 DEF Crash, Plain
  <2> QED
    BY <1>1, <2>1, <2>2, <2>3 DEF StartActivate, Stop, Launch, Wait, Undo, UndoStop, Reopen, Plain
<1>5. pointer' \in [version : Versions, previous : Versions \cup {NoVersion}]
  BY <1>1 DEF StartActivate, Stage, Stop, Launch, Wait, Clean, Undo, UndoTo, PointBack, NothingToRestore,
              UndoStop, Reopen, Crash, Plain, Requests
<1>6. /\ running' \subseteq running /\ starting' \subseteq starting /\ UNCHANGED <<working, marker>>
      /\ launches' \subseteq launches \cup {u, NoUpdate} /\ unopened' \in BOOLEAN
  <2>1. CASE Stop(u) \/ UndoStop(u)
    BY <1>1, <2>1 DEF Stop, UndoStop, Remain, Plain
  <2>2. CASE Reopen(u)
    BY <1>1, <2>2 DEF Reopen, OpenAgain, Plain
  <2>3. CASE Launch(u)
    BY <1>1, <2>3 DEF Launch, Plain
  <2> QED
    BY <1>1, <2>1, <2>2, <2>3 DEF StartActivate, Stage, Wait, Clean, Undo, Crash, Plain
<1>7. crashes' \in 0 .. MaxCrashes
  <2>1. CASE Crash(u)
    BY <1>1, <2>1, UpdateBoundsAssumption DEF Crash, Plain
  <2> QED
    BY <1>1, <2>1 DEF StartActivate, Stage, Stop, Launch, Wait, Clean, Undo, UndoStop, Reopen, Plain
<1>8. Plain'
  BY <1>1, <1>4, <1>5, <1>6, <1>7 DEF Plain
<1> QED
  BY <1>2, <1>3, <1>8, PhaseTyped DEF locks

LEMMA PointTyped ==
  ASSUME TypeOK, NEW u \in Updates, Point(u)
  PROVE  TypeOK'
<1>1. Plain /\ LockTyped /\ updater \in [Updates -> Requests] /\ Exclusive
  BY TypeParts
<1>2. UNCHANGED <<dir, running, working, launches, starting, crashes, unopened>> /\ updater[u].pc = "point"
  BY DEF Point
<1>3. CASE HasExe(updater[u].target) /\ PointTo(u)
  <2>1. /\ pointer' = [version |-> updater[u].target, previous |-> PreviousOf(u)]
        /\ marker' = [marker EXCEPT ![u] = NoVersion] /\ UNCHANGED locks
        /\ updater' = [updater EXCEPT ![u].pc = "stop", ![u].previous = PreviousOf(u),
                                      ![u].seen = pointer.version]
    BY <1>3 DEF PointTo
  <2>2. updater[u].target \in Versions /\ PreviousOf(u) \in Versions \cup {NoVersion}
    BY <1>1, <1>3 DEF PreviousOf, HasExe, Plain, Requests
  <2>3. /\ updater'[u] = [updater[u] EXCEPT !.pc = "stop", !.previous = PreviousOf(u),
                                            !.seen = pointer.version]
        /\ \A w \in Updates \ {u} : updater'[w] = updater[w]
    BY <1>1, <2>1
  <2>4. updater' \in [Updates -> Requests]
    <3>1. "stop" \in Phases /\ pointer.version \in Versions
      BY <1>1 DEF Phases, Plain
    <3>2. updater'[u] \in Requests
      BY ZenonT(60), <1>1, <2>2, <2>3, <3>1 DEF Requests
    <3>3. updater' = [updater EXCEPT ![u] = updater'[u]]
      BY <1>1, <2>1
    <3> QED
      BY <1>1, <3>2, <3>3
  <2>5. Plain' /\ LockTyped'
    BY <1>1, <1>2, <2>1, <2>2 DEF Plain, LockTyped, locks
  <2>6. Exclusive'
    BY <1>1, <1>2, <2>1, <2>3 DEF Exclusive, locks, Holding, Activating
  <2> QED
    BY <2>4, <2>5, <2>6, TypeParts
<1>4. CASE Report(u, "FAILED") /\ UNCHANGED <<pointer, marker>>
  <2>1. /\ updater' = [updater EXCEPT ![u].pc = "FAILED"] /\ lock' = NoUpdate /\ stale' = FALSE
        /\ UNCHANGED <<taking, raced>>
    BY <1>4 DEF Report, Go
  <2>2. Plain' /\ LockTyped'
    BY <1>1, <1>2, <1>4, <2>1 DEF Plain, LockTyped
  <2> QED
    BY <1>2, <2>1, <2>2, PhaseTyped DEF Phases, Holding, Activating
<1> QED
  BY <1>3, <1>4 DEF Point

LEMMA TypesStep == TypeOK /\ [Next]_vars => TypeOK'
BY AppTyped, RequestTyped, AcquireTyped, PhasesTyped, PointTyped DEF Next, UpdaterStep

\* Only a crash disturbs the calm: then nothing of it is claimed.
LEMMA CalmStep == TypeOK /\ Calm /\ [Next]_vars => Calm'
<1> SUFFICES ASSUME TypeOK, Calm, [Next]_vars, crashes' = 0 PROVE Calm'
  BY DEF Calm
<1>1. updater \in [Updates -> Requests] /\ LockTyped /\ crashes \in Nat
  BY TypeParts, UpdateBoundsAssumption DEF Plain
<1>2. CASE UNCHANGED <<locks, updater, crashes>>
  BY <1>2 DEF Calm, locks
<1>3. CASE LockExpires
  BY <1>1, <1>3 DEF LockExpires, KeepApplication, Calm, LockTyped
<1>4. ASSUME NEW u \in Updates, RequestUpdate(u) \/ StartActivate(u) PROVE Calm'
  <2>1. UNCHANGED <<locks, crashes>>
    BY <1>4 DEF RequestUpdate, StartActivate
  <2>2. updater'[u].pc # "crashed" /\ \A w \in Updates \ {u} : updater'[w] = updater[w]
    BY <1>1, <1>4 DEF RequestUpdate, StartActivate, Go, NotAsked, Requests
  <2> QED
    BY <2>1, <2>2 DEF Calm, locks
<1>5. ASSUME NEW u \in Updates, Acquire(u) PROVE Calm'
  <2>1. crashes = 0 /\ ~stale /\ taking[u] \in {"create", "judge"} /\ crashes' = crashes
    BY <1>5 DEF Acquire, Create, Judge, Delete, Recreate, KeepApplication, Calm
  <2>2. /\ ~stale' /\ raced' = raced
        /\ taking'[u] \in {"create", "judge"} /\ \A w \in Updates \ {u} : taking'[w] = taking[w]
    BY <1>1, <1>5, <2>1 DEF Acquire, Create, Judge, Delete, Recreate, Acquiring, Created, Refused, Step, LockTyped
  <2>3. \A w \in Updates : updater'[w].pc = updater[w].pc \/ updater'[w].pc # "crashed"
    BY <1>1, <1>5, <2>1 DEF Acquire, Create, Judge, Delete, Recreate, Acquiring, Created, Refused, Go, Requests
  <2> QED
    BY <2>1, <2>2, <2>3 DEF Calm
<1>6. ASSUME NEW u \in Updates, UpdaterStep(u) \/ Crash(u), ~Acquire(u) PROVE Calm'
  <2>1. ~Crash(u) /\ UpdaterStep(u)
    BY <1>1, <1>6 DEF Crash
  <2>2. /\ crashes' = crashes /\ UNCHANGED <<taking, raced>> /\ (stale' = stale \/ ~stale')
    BY <1>6, <2>1 DEF UpdaterStep, Stage, Point, PointTo, Stop, Launch, Wait, Clean, Undo, UndoTo, NothingToRestore,
                      UndoStop, Reopen, Report, locks
  <2>3. PICK pc \in Phases \ {"crashed"} :
          \/ updater' = [updater EXCEPT ![u].pc = pc]
          \/ updater' = [updater EXCEPT ![u].pc = pc, ![u].previous = PreviousOf(u), ![u].seen = pointer.version]
    BY <1>6, <2>1 DEF UpdaterStep, Stage, Point, PointTo, Stop, Launch, Wait, Clean, Undo, UndoTo, NothingToRestore,
                      UndoStop, Reopen, Report, Go, Phases
  <2>4. updater'[u].pc = pc /\ \A w \in Updates \ {u} : updater'[w] = updater[w]
    BY <1>1, <2>3 DEF Requests
  <2> QED
    BY <2>2, <2>4 DEF Calm
<1>7. ASSUME OpenApp \/ Ends \/ LauncherStep \/ UNCHANGED vars \/ \E s \in starting : Confirm(s)
      PROVE  UNCHANGED <<locks, updater, crashes>>
  BY <1>7 DEF OpenApp, Ends, LauncherStep, LauncherOpens, LauncherFails, Confirm, locks, vars
<1> QED
  BY <1>2, <1>3, <1>4, <1>5, <1>6, <1>7 DEF Next, UpdaterStep

(***************************************************************************)
(* The people and the application                                          *)
(***************************************************************************)
LEMMA RequestKeeps ==
  ASSUME Alone, TypeOK', ~raced', NEW u \in Updates, RequestUpdate(u)
  PROVE  Alone'
<1> USE DEF Alone
<1>1. PICK v \in running \cap working, t \in Versions :
        updater' = [updater EXCEPT ![u] = [NotAsked EXCEPT !.pc = "stage", !.target = t, !.from = v]]
  BY DEF RequestUpdate
<1>2. /\ updater[u].pc = "idle"
      /\ UNCHANGED <<dir, pointer, running, working, marker, launches, starting, crashes, unopened>>
  BY DEF RequestUpdate
<1>3. /\ updater'[u].pc = "stage" /\ updater'[u].from = v /\ v \in Versions
      /\ \A w \in Updates \ {u} : updater'[w] = updater[w]
  BY <1>1 DEF TypeOK, NotAsked
<1>5. Found' /\ \A w \in Updates : Points(w)' /\ CanGoBack(w)' /\ Unlaunched(w)' /\ Heard(w)'
  BY <1>2, <1>3 DEF Found, HasExe, Points, Pointing, CanGoBack, Unlaunched, Early, Heard
<1>6. Tested'
  BY <1>2, <1>3 DEF Tested, TestedBy, Works, Activating
<1> QED
  BY <1>5, <1>6

\* A process starts outside an update, ends, confirms, a launcher is done, or
\* nothing but time passes.
LEMMA AppKeeps ==
  ASSUME Alone, TypeOK', ~raced',
         \/ OpenApp \/ Ends \/ LockExpires \/ LauncherStep \/ UNCHANGED vars
         \/ \E s \in starting : Confirm(s)
  PROVE  Alone'
<1> USE DEF Alone
<1>0. UNCHANGED <<dir, pointer, working, updater, crashes>>
  BY DEF OpenApp, Ends, LockExpires, KeepApplication, LauncherStep, LauncherOpens, LauncherFails, Confirm, vars
<1>1. Found' /\ \A w \in Updates : Points(w)' /\ CanGoBack(w)'
  BY <1>0 DEF Found, HasExe, Points, CanGoBack
<1>2. CASE OpenApp \/ Ends \/ LockExpires \/ UNCHANGED vars \/ \E l \in launches : LauncherFails(l)
  <2>1. /\ running' \subseteq Versions /\ starting' \subseteq starting /\ launches' \subseteq launches
        /\ marker' = marker /\ unopened' \in BOOLEAN
    BY <1>2, ActiveIsPointer
       DEF OpenApp, Ends, LockExpires, KeepApplication, LauncherFails, Remain, vars, TypeOK
  <2>3. Tested' /\ \A w \in Updates : Unlaunched(w)' /\ Heard(w)'
    BY <1>0, <2>1 DEF Tested, TestedBy, Works, Unlaunched, Heard
  <2> QED
    BY <1>1, <2>3
<1>3. ASSUME NEW l \in launches, LauncherOpens(l) PROVE Alone'
  <2>1. /\ l \in Updates \cup {NoUpdate} /\ pointer.version \in Versions
        /\ launches' = launches \ {l} /\ running' = running \cup {pointer.version}
        /\ UNCHANGED <<marker, unopened>>
    BY <1>3, ActiveIsPointer DEF LauncherOpens, TypeOK
  <2>2. starting' = IF l # NoUpdate THEN starting \cup {<<l, pointer.version>>} ELSE starting
    BY <1>3, ActiveIsPointer DEF LauncherOpens
  <2>3. starting' \subseteq Updates \X Versions
    BY <2>1, <2>2 DEF TypeOK
  <2>5. \A w \in Updates : Unlaunched(w)'
    BY <1>0, <2>1, <2>2 DEF Unlaunched
  <2>6. \A w \in Updates : Heard(w)'
    BY <1>0, <2>1, <2>2 DEF Heard, Points, Pointing
  <2>7. Tested'
    BY <1>0, <2>1 DEF Tested, TestedBy, Works
  <2> QED
    BY <1>1, <2>5, <2>6, <2>7
<1>4. ASSUME NEW s \in starting, Confirm(s) PROVE Alone'
  <2>1. s[1] \in Updates /\ s[2] \in Versions /\ s[2] \in working
    BY <1>4 DEF Confirm, TypeOK
  <2>2. /\ starting' = starting \ {s} /\ UNCHANGED <<running, launches, unopened>>
        /\ marker' = [marker EXCEPT ![s[1]] = s[2]]
    BY <1>4 DEF Confirm
  <2>3. marker'[s[1]] = s[2] /\ \A w \in Updates \ {s[1]} : marker'[w] = marker[w]
    BY <2>1, <2>2 DEF TypeOK
  <2>5. \A w \in Updates : Unlaunched(w)'
    BY <1>0, <2>2, <2>3 DEF Unlaunched, Early
  <2>6. \A w \in Updates : Heard(w)'
    BY <1>0, <2>2, <2>3 DEF Heard
  <2>7. Tested'
    BY <1>0, <2>1, <2>3 DEF Tested, TestedBy, Works
  <2> QED
    BY <1>1, <2>5, <2>6, <2>7
<1> QED
  BY <1>2, <1>3, <1>4 DEF LauncherStep

(***************************************************************************)
(* The updater                                                             *)
(***************************************************************************)
\* A step of one updater leaves the others what they know.
LEMMA OthersKeep ==
  ASSUME Alone, NEW u \in Updates,
         \A w \in Updates \ {u} : updater'[w] = updater[w] /\ marker'[w] = marker[w],
         launches' \subseteq launches \cup {u, NoUpdate}, starting' \subseteq starting,
         UNCHANGED <<dir, pointer>> \/ updater[u].pc \in Holding
  PROVE  \A w \in Updates \ {u} : Points(w)' /\ CanGoBack(w)' /\ Unlaunched(w)' /\ Heard(w)'
<1> SUFFICES ASSUME NEW w \in Updates \ {u}
             PROVE  Points(w)' /\ CanGoBack(w)' /\ Unlaunched(w)' /\ Heard(w)'
  OBVIOUS
<1> USE DEF Alone
<1>1. w \notin {u, NoUpdate}
  BY UpdateBoundsAssumption DEF Updates, NoUpdate
<1>2. UNCHANGED <<dir, pointer>> \/ updater[w].pc \notin Holding
  BY DEF TypeOK
<1>3. Points(w)' /\ CanGoBack(w)'
  BY <1>2 DEF Points, CanGoBack, HasExe, Pointing, Holding, Activating
<1>4. Unlaunched(w)'
  BY <1>1 DEF Unlaunched
<1>5. Heard(w)'
  BY <1>1 DEF Heard
<1> QED
  BY <1>3, <1>4, <1>5

LEMMA OthersTested ==
  ASSUME Alone, crashes' = 0, crashes = 0, NEW u \in Updates, working' = working,
         \A w \in Updates \ {u} : updater'[w] = updater[w] /\ marker'[w] = marker[w],
         pointer' = pointer \/ updater[u].pc \in Holding
  PROVE  \A w \in Updates \ {u} : TestedBy(w)'
<1> SUFFICES ASSUME NEW w \in Updates \ {u} PROVE TestedBy(w)'
  OBVIOUS
<1>1. pointer' = pointer \/ updater[w].pc \notin Holding
  BY DEF Alone, TypeOK
<1> QED
  BY <1>1 DEF Alone, Tested, TestedBy, Works, Holding, Activating

\* The processes move on: nothing but their phase and the lock changes. An update
\* begins to apply where no other does: it has created the file.
LEMMA LockKeeps ==
  ASSUME Alone, TypeOK', ~raced', NEW u \in Updates, Acquire(u) \/ StartActivate(u)
  PROVE  Alone'
<1> USE DEF Alone
<1>1. UNCHANGED <<dir, pointer, running, working, marker, launches, starting, crashes, unopened>>
  BY DEF Acquire, Create, Judge, Delete, Recreate, KeepApplication, StartActivate
<1>2. CASE updater' = updater
  <2>1. Found' /\ \A w \in Updates : Points(w)' /\ CanGoBack(w)' /\ Unlaunched(w)' /\ Heard(w)'
    BY <1>1, <1>2 DEF Found, HasExe, Points, CanGoBack, Unlaunched, Heard
  <2>2. Tested'
    BY <1>1, <1>2 DEF Tested, TestedBy, Works
  <2> QED
    BY <2>1, <2>2
<1>3. ASSUME NEW pc \in {"staging", "activate", "point", "FAILED"},
             updater' = [updater EXCEPT ![u].pc = pc], updater[u].pc \in {"stage", "activate", "STAGED"}
      PROVE  Alone'
  <2>1. /\ updater'[u] = [updater[u] EXCEPT !.pc = pc]
        /\ \A w \in Updates \ {u} : updater'[w] = updater[w]
    BY <1>3 DEF TypeOK
  <2>2. Found' /\ \A w \in Updates \ {u} : Points(w)' /\ CanGoBack(w)' /\ Unlaunched(w)' /\ Heard(w)'
    BY <1>1, <2>1, OthersKeep DEF Found, HasExe
  <2>3. Points(u)' /\ CanGoBack(u)' /\ Unlaunched(u)' /\ Heard(u)'
    BY <1>1, <1>3, <2>1 DEF TypeOK, Points, Pointing, CanGoBack, Unlaunched, Early, Heard
  <2>4. Tested'
    BY <1>1, <1>3, <2>1, OthersTested DEF TypeOK, Tested, TestedBy, Works, Activating
  <2> QED
    BY <2>2, <2>3, <2>4
<1> QED
  BY <1>2, <1>3 DEF Acquire, Acquiring, Create, Judge, Delete, Recreate, Created, Refused, StartActivate, Go

LEMMA StageKeeps ==
  ASSUME Alone, TypeOK', ~raced', NEW u \in Updates, Stage(u)
  PROVE  Alone'
<1> USE DEF Alone
<1>1. /\ UNCHANGED <<pointer, running, working, marker, launches, starting, crashes, unopened>>
      /\ lock' = NoUpdate /\ updater[u].pc = "staging"
  BY DEF Stage, Report
<1>2. PICK ok \in BOOLEAN :
        /\ updater' = [updater EXCEPT ![u].pc = IF ok THEN "STAGED" ELSE "FAILED"]
        /\ Install(u, ok)
  BY DEF Stage, Report, Go
<1>3. /\ updater'[u] = [updater[u] EXCEPT !.pc = IF ok THEN "STAGED" ELSE "FAILED"]
      /\ \A w \in Updates \ {u} : updater'[w] = updater[w] /\ updater[w].pc \notin Holding
  BY <1>1, <1>2 DEF TypeOK, Holding
<1>4. /\ dir' \in [Versions -> {"absent", "whole", "partial"}]
      /\ \A v \in Versions : HasExe(v) => dir'[v] # "absent"
  BY <1>2 DEF TypeOK, Install, HasExe
<1>6. Found' /\ \A w \in Updates \ {u} : Points(w)' /\ CanGoBack(w)' /\ Unlaunched(w)' /\ Heard(w)'
  BY <1>1, <1>3, <1>4, OthersKeep DEF Found, HasExe, TypeOK, Holding
<1>7. Points(u)' /\ CanGoBack(u)' /\ Unlaunched(u)' /\ Heard(u)'
  BY <1>1, <1>3 DEF TypeOK, Points, Pointing, CanGoBack, Unlaunched, Early, Heard
<1>8. Tested'
  <2> SUFFICES ASSUME crashes' = 0 PROVE Tested'
    BY DEF Tested
  <2>1. \A w \in Updates \ {u} : TestedBy(w)'
    BY <1>1, <1>3, OthersTested
  <2>2. TestedBy(u)' /\ pointer.version \in working
    BY <1>1, <1>3 DEF TypeOK, Tested, TestedBy, Works, Holding, Activating
  <2> QED
    BY <1>1, <2>1, <2>2 DEF Tested
<1> QED
  BY <1>6, <1>7, <1>8

LEMMA PointKeeps ==
  ASSUME Alone, TypeOK', ~raced', NEW u \in Updates, Point(u)
  PROVE  Alone'
<1> USE DEF Alone
<1>1. /\ UNCHANGED <<dir, running, working, launches, starting, crashes, unopened>>
      /\ updater[u].pc = "point" /\ lock = u
      /\ \A w \in Updates \ {u} : updater[w].pc \notin Holding
  BY DEF Point, TypeOK, Holding, Activating
<1>2. CASE HasExe(updater[u].target) /\ PointTo(u)
  <2>1. /\ pointer' = [version |-> updater[u].target, previous |-> PreviousOf(u)]
        /\ marker' = [marker EXCEPT ![u] = NoVersion]
        /\ updater' = [updater EXCEPT ![u].pc = "stop", ![u].previous = PreviousOf(u),
                                      ![u].seen = pointer.version]
    BY <1>2 DEF PointTo
  <2>2. /\ updater[u].target \in Versions /\ PreviousOf(u) \in Versions \cup {NoVersion}
        /\ (PreviousOf(u) # NoVersion => HasExe(PreviousOf(u)))
        /\ (PreviousOf(u) = NoVersion => pointer.version = updater[u].target)
        /\ PreviousOf(u) \in {NoVersion, pointer.version, updater[u].from}
    BY <1>2 DEF PreviousOf, HasExe, TypeOK, Found
  <2>3. /\ updater'[u] = [updater[u] EXCEPT !.pc = "stop", !.previous = PreviousOf(u),
                                            !.seen = pointer.version]
        /\ \A w \in Updates \ {u} : updater'[w] = updater[w] /\ marker'[w] = marker[w]
        /\ marker'[u] = NoVersion
    BY <2>1 DEF TypeOK
  <2>4. /\ updater'[u].pc = "stop" /\ updater'[u].previous = PreviousOf(u)
        /\ updater'[u].target = updater[u].target /\ updater'[u].from = updater[u].from
    BY <2>3 DEF TypeOK
  <2>6. Found'
    BY <1>1, <1>2, <2>1 DEF Found, HasExe
  <2>7. \A w \in Updates \ {u} : Points(w)' /\ CanGoBack(w)' /\ Unlaunched(w)' /\ Heard(w)'
    BY <1>1, <2>3, OthersKeep DEF Holding, Activating
  <2>8. Points(u)' /\ CanGoBack(u)' /\ Unlaunched(u)' /\ Heard(u)'
    BY <1>1, <2>1, <2>2, <2>3, <2>4 DEF Points, Pointing, CanGoBack, HasExe, Unlaunched, Early, Heard
  <2>9. Tested'
    <3> SUFFICES ASSUME crashes' = 0 PROVE Tested'
      BY DEF Tested
    <3>1. \A w \in Updates \ {u} : TestedBy(w)'
      BY <1>1, <2>3, OthersTested DEF Holding, Activating
    <3>2. Works(updater[u].from) /\ pointer.version \in working
      BY <1>1 DEF Tested, TestedBy, Holding, Activating
    <3>3. TestedBy(u)'
      BY <1>1, <2>1, <2>2, <2>3, <2>4, <3>2 DEF TestedBy, Works
    <3> QED
      BY <2>4, <3>1, <3>3 DEF Tested, Activating
  <2> QED
    BY <2>6, <2>7, <2>8, <2>9
<1>3. CASE Report(u, "FAILED") /\ UNCHANGED <<pointer, marker>>
  <2>1. /\ updater' = [updater EXCEPT ![u].pc = "FAILED"] /\ lock' = NoUpdate
        /\ UNCHANGED <<pointer, marker>>
    BY <1>3 DEF Report, Go
  <2>2. /\ updater'[u] = [updater[u] EXCEPT !.pc = "FAILED"]
        /\ \A w \in Updates \ {u} : updater'[w] = updater[w]
    BY <2>1 DEF TypeOK
  <2>4. Found' /\ \A w \in Updates : Points(w)' /\ CanGoBack(w)' /\ Unlaunched(w)' /\ Heard(w)'
    BY <1>1, <2>1, <2>2 DEF TypeOK, Found, HasExe, Points, Pointing, CanGoBack, Unlaunched, Early, Heard
  <2>5. Tested'
    BY <1>1, <2>1, <2>2 DEF TypeOK, Tested, TestedBy, Works, Holding, Activating
  <2> QED
    BY <2>4, <2>5
<1> QED
  BY <1>2, <1>3 DEF Point

\* Stop, Launch and Wait: the phase moves, and processes or launchers with it.
LEMMA WaitKeeps ==
  ASSUME Alone, TypeOK', ~raced', NEW u \in Updates, Stop(u) \/ Launch(u) \/ Wait(u) \/ UndoStop(u)
  PROVE  Alone'
<1> USE DEF Alone
<1>1. /\ UNCHANGED <<dir, pointer, working, locks, marker, crashes, unopened>>
      /\ running' \subseteq running /\ starting' \subseteq starting
  BY DEF Stop, Launch, Wait, UndoStop, Remain
<1>2. PICK pc \in {"launch", "wait", "undo", "clean", "reopen"} :
        /\ updater' = [updater EXCEPT ![u].pc = pc]
        /\ \/ updater[u].pc = "stop" /\ pc = "launch" /\ launches' = launches
           \/ updater[u].pc = "launch" /\ pc = "wait" /\ launches' = launches \cup {u}
           \/ updater[u].pc = "launch" /\ pc = "undo" /\ launches' = launches
           \/ updater[u].pc = "wait" /\ pc = "undo" /\ launches' = launches
           \/ updater[u].pc = "wait" /\ pc = "clean" /\ launches' = launches /\ marker[u] # NoVersion
           \/ updater[u].pc = "undostop" /\ pc = "reopen" /\ launches' = launches
  BY DEF Stop, Launch, Wait, UndoStop, Go
<1>3. /\ updater'[u] = [updater[u] EXCEPT !.pc = pc]
      /\ \A w \in Updates \ {u} : updater'[w] = updater[w]
      /\ updater[u].pc \in Holding /\ pc \in Holding /\ lock = u
  BY <1>2 DEF TypeOK, Holding, Activating
<1>5. Found' /\ \A w \in Updates \ {u} : Points(w)' /\ CanGoBack(w)' /\ Unlaunched(w)' /\ Heard(w)'
  BY <1>1, <1>2, <1>3, OthersKeep DEF Found, HasExe
<1>6. Points(u)' /\ CanGoBack(u)' /\ Unlaunched(u)'
  BY <1>1, <1>2, <1>3 DEF TypeOK, Points, Pointing, CanGoBack, HasExe, Unlaunched, Early
<1>7. Heard(u)'
  <2>1. CASE pc = "wait"
    BY <1>1, <1>2, <1>3, <2>1, UpdateBoundsAssumption
       DEF TypeOK, Heard, Unlaunched, Early, Points, Pointing, Updates, Versions, NoVersion
  <2>2. CASE pc # "wait"
    BY <1>1, <1>2, <1>3, <2>2 DEF TypeOK, Heard
  <2> QED
    BY <2>1, <2>2
<1>8. Tested'
  <2> SUFFICES ASSUME crashes' = 0 PROVE Tested'
    BY DEF Tested
  <2>1. \A w \in Updates \ {u} : TestedBy(w)'
    BY <1>1, <1>3, OthersTested
  <2>2. TestedBy(u)'
    BY <1>1, <1>2, <1>3 DEF TypeOK, Tested, TestedBy, Works
  <2>3. updater'[u].pc \in Activating \ {"point"}
    BY <1>2, <1>3 DEF TypeOK, Activating
  <2> QED
    BY <2>1, <2>2, <2>3 DEF Tested
<1> QED
  BY <1>5, <1>6, <1>7, <1>8

\* What is deleted is neither the pointer's nor this update's.
LEMMA CleanKeeps ==
  ASSUME Alone, TypeOK', ~raced', NEW u \in Updates, Clean(u)
  PROVE  Alone'
<1> USE DEF Alone
<1>1. /\ UNCHANGED <<pointer, running, working, marker, launches, starting, crashes, unopened>>
      /\ updater[u].pc = "clean" /\ lock' = NoUpdate
      /\ updater' = [updater EXCEPT ![u].pc = "SUCCESS"]
  BY DEF Clean, Report, Go
<1>2. PICK gone \in SUBSET (InstalledVersions \ KeepSet(u)) :
        dir' = [v \in Versions |->
                  IF v \notin gone THEN dir[v] ELSE IF v \in running THEN "partial" ELSE "absent"]
  BY DEF Clean, Removed
<1>3. /\ dir' \in [Versions -> {"absent", "whole", "partial"}]
      /\ dir'[pointer.version] = dir[pointer.version]
  BY <1>2 DEF TypeOK, KeepSet
<1>4. /\ updater'[u] = [updater[u] EXCEPT !.pc = "SUCCESS"]
      /\ \A w \in Updates \ {u} : updater'[w] = updater[w] /\ updater[w].pc \notin Holding
  BY <1>1 DEF TypeOK, Holding, Activating
<1>6. Found' /\ \A w \in Updates \ {u} : Points(w)' /\ CanGoBack(w)' /\ Unlaunched(w)' /\ Heard(w)'
  BY <1>1, <1>3, <1>4, OthersKeep DEF Found, HasExe, Holding, Activating
<1>7. Points(u)' /\ CanGoBack(u)' /\ Unlaunched(u)' /\ Heard(u)'
  BY <1>1, <1>4 DEF TypeOK, Points, Pointing, CanGoBack, Unlaunched, Early, Heard
<1>8. Tested'
  <2> SUFFICES ASSUME crashes' = 0 PROVE Tested'
    BY DEF Tested
  <2>1. \A w \in Updates \ {u} : TestedBy(w)'
    BY <1>1, <1>4, OthersTested
  <2>2. TestedBy(u)' /\ pointer.version \in working
    BY <1>1, <1>4 DEF TypeOK, Tested, TestedBy, Works, Heard, Points, Pointing
  <2> QED
    BY <1>1, <2>1, <2>2 DEF Tested
<1> QED
  BY <1>6, <1>7, <1>8

LEMMA UndoKeeps ==
  ASSUME Alone, TypeOK', ~raced', NEW u \in Updates, Undo(u)
  PROVE  Alone'
<1> USE DEF Alone
<1>1. /\ UNCHANGED <<dir, running, working, marker, launches, starting, crashes, unopened>>
      /\ updater[u].pc = "undo" /\ lock = u
      /\ \A w \in Updates \ {u} : updater[w].pc \notin Holding
  BY DEF Undo, TypeOK, Holding, Activating
<1>2. CASE UndoTo(u)
  <2>1. /\ updater[u].previous # NoVersion
        /\ pointer' = [version |-> updater[u].previous, previous |-> NoVersion]
        /\ updater' = [updater EXCEPT ![u].pc = "undostop"]
    BY <1>2 DEF UndoTo, PointBack, Go
  <2>2. /\ updater'[u] = [updater[u] EXCEPT !.pc = "undostop"]
        /\ \A w \in Updates \ {u} : updater'[w] = updater[w]
    BY <2>1 DEF TypeOK
  <2>4. Found' /\ \A w \in Updates \ {u} : Points(w)' /\ CanGoBack(w)' /\ Unlaunched(w)' /\ Heard(w)'
    BY <1>1, <2>1, <2>2, OthersKeep DEF Found, HasExe, CanGoBack, Holding, Activating
  <2>5. Points(u)' /\ CanGoBack(u)' /\ Unlaunched(u)' /\ Heard(u)'
    BY <1>1, <2>1, <2>2 DEF TypeOK, Points, Pointing, CanGoBack, Unlaunched, Early, Heard
  <2>6. Tested'
    <3> SUFFICES ASSUME crashes' = 0 PROVE Tested'
      BY DEF Tested
    <3>1. \A w \in Updates \ {u} : TestedBy(w)'
      BY <1>1, <2>2, OthersTested DEF Holding, Activating
    <3>2. TestedBy(u)' /\ pointer'.version \in working'
      BY <1>1, <2>1, <2>2 DEF TypeOK, Tested, TestedBy, Works
    <3> QED
      BY <3>1, <3>2 DEF Tested
  <2> QED
    BY <2>4, <2>5, <2>6
<1>3. CASE NothingToRestore(u)
  <2>1. /\ updater[u].previous = NoVersion /\ lock' = NoUpdate /\ pointer' = pointer
        /\ updater' = [updater EXCEPT ![u].pc = "FAILED"]
    BY <1>3 DEF NothingToRestore, Report, Go
  <2>2. /\ updater'[u] = [updater[u] EXCEPT !.pc = "FAILED"]
        /\ \A w \in Updates \ {u} : updater'[w] = updater[w]
    BY <2>1 DEF TypeOK
  <2>4. Found' /\ \A w \in Updates : Points(w)' /\ CanGoBack(w)' /\ Unlaunched(w)' /\ Heard(w)'
    BY <1>1, <2>1, <2>2 DEF TypeOK, Found, HasExe, Points, Pointing, CanGoBack, Unlaunched, Early, Heard
  <2>5. Tested'
    BY <1>1, <2>1, <2>2 DEF TypeOK, Tested, TestedBy, Works, Holding, Activating
  <2> QED
    BY <2>4, <2>5
<1> QED
  BY <1>2, <1>3 DEF Undo

LEMMA ReopenKeeps ==
  ASSUME Alone, TypeOK', ~raced', NEW u \in Updates, Reopen(u)
  PROVE  Alone'
<1> USE DEF Alone
<1>1. /\ UNCHANGED <<dir, pointer, running, working, marker, starting, crashes>>
      /\ updater[u].pc = "reopen" /\ lock' = NoUpdate
      /\ updater' = [updater EXCEPT ![u].pc = "ROLLED_BACK"]
      /\ launches' \subseteq launches \cup {NoUpdate} /\ unopened' \in BOOLEAN
  BY DEF Reopen, OpenAgain, Report, Go, TypeOK
<1>2. /\ updater'[u] = [updater[u] EXCEPT !.pc = "ROLLED_BACK"]
      /\ \A w \in Updates \ {u} : updater'[w] = updater[w] /\ updater[w].pc \notin Holding
  BY <1>1 DEF TypeOK, Holding, Activating
<1>4. Found' /\ \A w \in Updates \ {u} : Points(w)' /\ CanGoBack(w)' /\ Unlaunched(w)' /\ Heard(w)'
  BY <1>1, <1>2, OthersKeep DEF Found, HasExe
<1>5. Points(u)' /\ CanGoBack(u)' /\ Unlaunched(u)' /\ Heard(u)'
  BY <1>1, <1>2 DEF TypeOK, Points, Pointing, CanGoBack, Unlaunched, Early, Heard
<1>6. Tested'
  <2> SUFFICES ASSUME crashes' = 0 PROVE Tested'
    BY DEF Tested
  <2>1. \A w \in Updates \ {u} : TestedBy(w)'
    BY <1>1, <1>2, OthersTested
  <2>2. TestedBy(u)' /\ pointer.version \in working
    BY <1>1, <1>2 DEF TypeOK, Tested, TestedBy, Works
  <2> QED
    BY <1>1, <2>1, <2>2 DEF Tested
<1> QED
  BY <1>4, <1>5, <1>6

(***************************************************************************)
(* Faults                                                                  *)
(***************************************************************************)
LEMMA CrashKeeps ==
  ASSUME Alone, TypeOK', ~raced', NEW u \in Updates, Crash(u)
  PROVE  Alone'
<1> USE DEF Alone
<1>1. /\ UNCHANGED <<pointer, running, working, marker, launches, starting, unopened>>
      /\ updater[u].pc \in Holding /\ crashes' = crashes + 1 /\ crashes < MaxCrashes
      /\ updater' = [updater EXCEPT ![u].pc = "crashed"]
  BY DEF Crash, Go
<1>2. /\ dir' \in [Versions -> {"absent", "whole", "partial"}]
      /\ \A v \in Versions : dir[v] # "absent" => dir'[v] # "absent"
  <2>1. CASE dir' = dir
    BY <2>1 DEF TypeOK
  <2>2. CASE \E half \in SUBSET (InstalledVersions \ KeepSet(u)) :
               dir' = [v \in Versions |-> IF v \in half THEN "partial" ELSE dir[v]]
    BY <2>2 DEF TypeOK
  <2> QED
    BY <2>1, <2>2 DEF Crash
<1>3. /\ updater'[u] = [updater[u] EXCEPT !.pc = "crashed"]
      /\ \A w \in Updates \ {u} : updater'[w] = updater[w]
  BY <1>1 DEF TypeOK
<1>4. crashes' \in 0 .. MaxCrashes /\ crashes' # 0
  BY <1>1, UpdateBoundsAssumption DEF TypeOK
<1>6. Found' /\ \A w \in Updates \ {u} : Points(w)' /\ CanGoBack(w)' /\ Unlaunched(w)' /\ Heard(w)'
  BY <1>1, <1>2, <1>3, OthersKeep DEF TypeOK, Found, HasExe
<1>7. Points(u)' /\ CanGoBack(u)' /\ Unlaunched(u)' /\ Heard(u)'
  BY <1>1, <1>3 DEF TypeOK, Points, Pointing, CanGoBack, Unlaunched, Early, Heard
<1> QED
  BY <1>4, <1>6, <1>7 DEF Tested

(***************************************************************************)
(* Theorems                                                                *)
(***************************************************************************)
LEMMA AloneStep == Alone /\ TypeOK' /\ ~raced' /\ [Next]_vars => Alone'
<1> SUFFICES ASSUME Alone, TypeOK', ~raced', [Next]_vars PROVE Alone'
  OBVIOUS
<1>1. ASSUME NEW u \in Updates, UpdaterStep(u) PROVE Alone'
  BY <1>1, LockKeeps, StageKeeps, PointKeeps, WaitKeeps, CleanKeeps, UndoKeeps, ReopenKeeps DEF UpdaterStep
<1> QED
  BY <1>1, RequestKeeps, AppKeeps, LockKeeps, CrashKeeps DEF Next

LEMMA RacedStays == raced /\ [Next]_vars => raced'
BY DEF Next, OpenApp, Ends, LockExpires, LauncherStep, LauncherOpens, LauncherFails, Confirm, RequestUpdate,
       StartActivate, UpdaterStep, Acquire, Create, Judge, Delete, Recreate, Created, Refused, Stage, Point, PointTo,
       Stop, Launch, Wait, Clean, Undo, UndoTo, NothingToRestore, UndoStop, Reopen, Crash, Report, locks, vars

LEMMA UpdateStep == UpdateInv /\ [Next]_vars => UpdateInv'
BY TypesStep, CalmStep, AloneStep, RacedStays DEF UpdateInv

LEMMA UpdateInvariant == Spec => []UpdateInv
BY UpdateInit, UpdateStep, PTL DEF Spec

\* Every value is of its type; and until the lock of an updater is deleted under it
\* by a second taker of a stale lock, whoever prepares or activates holds it.
THEOREM UpdateTypeCorrect == Spec => []TypeOK
BY UpdateInvariant, PTL DEF UpdateInv

\* Two updaters apply at once only after a crash: without one no lock is ever taken
\* from the updater that created it.
THEOREM OneAtATime == Spec => [](crashes = 0 => OneUpdaterApplies)
<1>1. UpdateInv => (crashes = 0 => OneUpdaterApplies)
  BY DEF UpdateInv, Calm, TypeOK, OneUpdaterApplies
<1> QED
  BY <1>1, UpdateInvariant, PTL

\* The launcher always finds the version the pointer names, so the repair that
\* picks the newest folder instead (and might pick one that was rolled back from)
\* is never what decides; once two takers of a stale lock have met it may.
THEOREM LauncherOpensThePointer == Spec => [](~raced => Active = pointer.version)
<1>1. UpdateInv => (~raced => Active = pointer.version)
  BY ActiveIsPointer DEF UpdateInv, Alone
<1> QED
  BY <1>1, UpdateInvariant, PTL

\* Until two takers of a stale lock have met, success is reported only of a target
\* that has itself confirmed that it runs.
THEOREM ConfirmedIsTheTarget == Spec => []SuccessIsTheTarget
<1>1. UpdateInv => SuccessIsTheTarget
  BY DEF UpdateInv, Alone, Heard, SuccessIsTheTarget
<1> QED
  BY <1>1, UpdateInvariant, PTL

\* As long as no updater crashes, the version left to be opened is one that works.
THEOREM WorkingIsLeft == Spec => []RestsOnTested
<1>1. UpdateInv => RestsOnTested
  BY DEF UpdateInv, Calm, Alone, Tested, RestsOnTested
<1> QED
  BY <1>1, UpdateInvariant, PTL

(***************************************************************************)
(* The folders that the pointer names                                      *)
(***************************************************************************)
\* What lies in ruins was deleted beside the newest two; and while an update may
\* be undone, the pointer names the version it would come back to.
Ruins == \A v \in Versions : dir[v] = "partial" => Overtaken(v)
BackIsNamed(u) == updater[u].pc \in {"stop", "launch", "wait", "undo"} => pointer.previous = updater[u].previous
FolderInv == Ruins /\ \A u \in Updates : BackIsNamed(u)

LEMMA VersionsAreFinite == IsFiniteSet(Versions) /\ \A v \in Versions : v \in Nat
<1>1. 1 \in Int /\ MaxVersion \in Int
  BY UpdateBoundsAssumption
<1>2. IsFiniteSet(1 .. MaxVersion)
  BY <1>1, FS_Interval
<1> QED
  BY <1>2, UpdateBoundsAssumption DEF Versions

\* What is installed and not of the newest two has the newest two above it.
LEMMA TwoAbove ==
  ASSUME NEW v \in InstalledVersions \ NewestTwo
  PROVE  \E w, x \in NewestTwo : v < w /\ w < x
<1> DEFINE above(y) == {w \in InstalledVersions : w > y}
<1>1. InstalledVersions \subseteq Versions /\ \A y \in Versions : y \in Nat
  BY UpdateBoundsAssumption DEF InstalledVersions, Versions
<1>2. IsFiniteSet(above(v)) /\ Cardinality(above(v)) \in Nat
  <2>1. IsFiniteSet(Versions) /\ above(v) \subseteq Versions
    BY <1>1, VersionsAreFinite
  <2> QED
    BY <2>1, FS_Subset, FS_CardinalityType
<1>3. Cardinality(above(v)) >= 2
  BY <1>2 DEF NewestTwo
<1>4. PICK x \in above(v) : \A w \in above(v) : w <= x
  <2>1. above(v) # {}
    BY <1>3, FS_EmptySet
  <2> QED
    BY <1>1, <2>1, HighestVersion
<1>5. PICK w \in above(v) \ {x} : \A y \in above(v) \ {x} : y <= w
  <2>1. above(v) \ {x} # {}
    <3> SUFFICES ASSUME above(v) = {x} PROVE FALSE
      BY <1>4
    <3> QED
      BY <1>3, FS_Singleton
  <2> QED
    BY <1>1, <2>1, HighestVersion
<1>6. v < w /\ w < x /\ w \in InstalledVersions /\ x \in InstalledVersions
  BY <1>1, <1>4, <1>5
<1>7. x \in NewestTwo
  <2>1. above(x) = {}
    BY <1>1, <1>4, <1>6
  <2> QED
    BY <1>6, <2>1, FS_EmptySet DEF NewestTwo
<1>8. w \in NewestTwo
  <2>1. above(w) = {x}
    BY <1>1, <1>4, <1>5, <1>6
  <2> QED
    BY <1>6, <2>1, FS_Singleton DEF NewestTwo
<1> QED
  BY <1>6, <1>7, <1>8

\* A cleanup, completed or not, spares the newest two: what it ruins has them
\* above it, and they stay above what was ruined before.
LEMMA CleanupRuins ==
  ASSUME Alone, Ruins, NEW u \in Updates, NEW gone \in SUBSET (InstalledVersions \ KeepSet(u)),
         \A v \in Versions \ gone : dir'[v] = dir[v]
  PROVE  Ruins' /\ \A v \in Named : dir'[v] = dir[v]
<1>1. NewestTwo \subseteq InstalledVersions \ gone /\ InstalledVersions \subseteq Versions
  BY DEF KeepSet, NewestTwo, InstalledVersions
<1>2. NewestTwo \subseteq InstalledVersions'
  BY <1>1 DEF InstalledVersions, HasExe
<1>3. ASSUME NEW v \in Versions, dir'[v] = "partial" PROVE Overtaken(v)'
  <2>1. v \in InstalledVersions
    BY <1>3, <1>1, UpdateBoundsAssumption DEF InstalledVersions, HasExe, Versions, NoVersion
  <2>2. CASE v \notin NewestTwo
    BY <1>2, <2>1, <2>2, TwoAbove DEF Overtaken
  <2>3. CASE v \in NewestTwo
    <3>1. dir[v] = "partial"
      BY <1>1, <1>3, <2>3
    <3>2. PICK w \in InstalledVersions, x \in InstalledVersions : v < w /\ w < x
      BY <3>1 DEF Ruins, Overtaken
    <3>3. \A y \in InstalledVersions : y > v => y \in NewestTwo
      <4> SUFFICES ASSUME NEW y \in InstalledVersions, y > v, y \notin NewestTwo PROVE FALSE
        OBVIOUS
      <4> DEFINE above(z) == {w1 \in InstalledVersions : w1 > z}
      <4>1. IsFiniteSet(above(v)) /\ above(y) \subseteq above(v) /\ IsFiniteSet(above(y))
        <5>1. IsFiniteSet(Versions) /\ above(v) \subseteq Versions /\ \A z \in Versions : z \in Nat
          BY <1>1, VersionsAreFinite
        <5>2. above(y) \subseteq above(v)
          BY <1>1, <5>1
        <5> QED
          BY <5>1, <5>2, FS_Subset
      <4>2. Cardinality(above(y)) <= Cardinality(above(v))
        BY <4>1, FS_Subset
      <4>3. Cardinality(above(v)) < 2 /\ ~(Cardinality(above(y)) < 2)
        BY <2>3 DEF NewestTwo
      <4> QED
        BY <4>1, <4>2, <4>3, FS_CardinalityType
    <3>4. v \in Nat /\ w \in Nat /\ x \in Nat
      BY <1>1, UpdateBoundsAssumption DEF Versions
    <3> QED
      BY <1>2, <3>2, <3>3, <3>4 DEF Overtaken
  <2> QED
    BY <2>2, <2>3
<1>4. \A v \in Named : v \in Versions \ gone
  BY DEF Named, KeepSet, Alone, TypeOK
<1> QED
  BY <1>3, <1>4 DEF Ruins

\* The step that PointerIsWhole speaks of.
NamesWhole ==
  \A v \in Named' :
    dir'[v] = "whole" \/ /\ dir'[v] = dir[v]
                         /\ \/ v \in Named
                            \/ Overtaken(v) /\ \E u \in Updates : /\ updater[u].pc = "point"
                                                                  /\ v \in {updater[u].target, updater[u].from}

Undoable == {"stop", "launch", "wait", "undo"}

\* Steps that leave folders and pointer alone.
LEMMA FoldersStay ==
  ASSUME FolderInv, UNCHANGED <<dir, pointer>>,
         \A u \in Updates : updater'[u].pc \in Undoable =>
           updater[u].pc \in Undoable /\ updater'[u].previous = updater[u].previous
  PROVE  FolderInv' /\ NamesWhole
<1>1. InstalledVersions' = InstalledVersions /\ Named' = Named
  BY DEF InstalledVersions, HasExe, Named
<1>2. Ruins'
  BY <1>1 DEF FolderInv, Ruins, Overtaken
<1>3. \A u \in Updates : BackIsNamed(u)'
  BY DEF FolderInv, BackIsNamed, Undoable
<1> QED
  BY <1>1, <1>2, <1>3 DEF FolderInv, NamesWhole

LEMMA AppLeavesFolders ==
  ASSUME Alone, FolderInv,
         \/ OpenApp \/ Ends \/ LockExpires \/ LauncherStep \/ UNCHANGED vars
         \/ \E s \in starting : Confirm(s)
  PROVE  FolderInv' /\ NamesWhole
<1>1. UNCHANGED <<dir, pointer, updater>>
  BY DEF OpenApp, Ends, LockExpires, KeepApplication, LauncherStep, LauncherOpens, LauncherFails, Confirm, vars
<1> QED
  BY <1>1, FoldersStay

LEMMA PhasesLeaveFolders ==
  ASSUME Alone, FolderInv, NEW u \in Updates,
         \/ RequestUpdate(u) \/ StartActivate(u) \/ Acquire(u)
         \/ Stop(u) \/ Launch(u) \/ Wait(u) \/ UndoStop(u) \/ Reopen(u)
  PROVE  FolderInv' /\ NamesWhole
<1>1. UNCHANGED <<dir, pointer>>
  BY DEF RequestUpdate, StartActivate, Acquire, Create, Judge, Delete, Recreate, KeepApplication,
         Stop, Launch, Wait, UndoStop, Reopen
<1>2. DOMAIN updater = Updates /\ DOMAIN updater[u] = {"pc", "target", "from", "previous", "seen"}
  BY DEF Alone, TypeOK
<1>3. CASE RequestUpdate(u)
  <2>1. PICK v \in running \cap working, t \in Versions :
          updater' = [updater EXCEPT ![u] = [NotAsked EXCEPT !.pc = "stage", !.target = t, !.from = v]]
    BY <1>3 DEF RequestUpdate
  <2>2. updater'[u].pc = "stage" /\ \A w \in Updates \ {u} : updater'[w] = updater[w]
    BY <1>2, <2>1 DEF NotAsked
  <2> QED
    BY <1>1, <2>2, FoldersStay DEF Undoable
<1>4. CASE updater' = updater
  BY <1>1, <1>4, FoldersStay
<1>5. CASE ~RequestUpdate(u) /\ updater' # updater
  <2>1. PICK pc \in Phases : /\ updater' = [updater EXCEPT ![u].pc = pc]
                             /\ pc \in Undoable => updater[u].pc \in Undoable
    BY <1>5 DEF StartActivate, Acquire, Create, Judge, Delete, Recreate, Created, Refused,
                Stop, Launch, Wait, UndoStop, Reopen, Report, Go, Phases, Undoable
  <2>2. /\ updater'[u].pc = pc /\ updater'[u].previous = updater[u].previous
        /\ \A w \in Updates \ {u} : updater'[w] = updater[w]
    BY <1>2, <2>1
  <2> QED
    BY <1>1, <2>1, <2>2, FoldersStay
<1> QED
  BY <1>3, <1>4, <1>5

LEMMA StageLeavesWhole ==
  ASSUME Alone, FolderInv, NEW u \in Updates, Stage(u)
  PROVE  FolderInv' /\ NamesWhole
<1>1. PICK ok \in BOOLEAN : Install(u, ok) /\ updater' = [updater EXCEPT ![u].pc = IF ok THEN "STAGED" ELSE "FAILED"]
  BY DEF Stage, Report, Go
<1>2. pointer' = pointer /\ Named' = Named /\ Named \subseteq Versions
  BY DEF Stage, Named, Alone, TypeOK
<1>3. \A v \in Versions : dir'[v] = dir[v] \/ (~HasExe(v) /\ dir'[v] = "whole")
  BY <1>1, UpdateBoundsAssumption DEF Install, Alone, TypeOK, HasExe, Versions, NoVersion
<1>4. InstalledVersions \subseteq InstalledVersions'
  BY <1>3 DEF InstalledVersions, HasExe
<1>5. Ruins'
  BY <1>3, <1>4 DEF FolderInv, Ruins, Overtaken
<1>6. \A w \in Updates : BackIsNamed(w)'
  BY <1>1, <1>2 DEF FolderInv, BackIsNamed, Alone, TypeOK
<1> QED
  BY <1>2, <1>3, <1>5, <1>6 DEF FolderInv, NamesWhole

LEMMA PointNamesWhole ==
  ASSUME Alone, FolderInv, NEW u \in Updates, Point(u)
  PROVE  FolderInv' /\ NamesWhole
<1>1. dir' = dir /\ updater[u].pc = "point" /\ \A w \in Updates \ {u} : updater[w].pc \notin Holding
  BY DEF Point, Alone, TypeOK, Holding, Activating
<1>2. Ruins'
  BY <1>1 DEF FolderInv, Ruins, Overtaken, InstalledVersions, HasExe
<1>3. CASE HasExe(updater[u].target) /\ PointTo(u)
  <2>1. /\ pointer' = [version |-> updater[u].target, previous |-> PreviousOf(u)]
        /\ updater' = [updater EXCEPT ![u].pc = "stop", ![u].previous = PreviousOf(u),
                                      ![u].seen = pointer.version]
    BY <1>3 DEF PointTo
  <2>2. updater'[u].previous = PreviousOf(u) /\ \A w \in Updates \ {u} : updater'[w] = updater[w]
    BY <2>1 DEF Alone, TypeOK
  <2>3. \A w \in Updates : BackIsNamed(w)'
    BY <1>1, <2>1, <2>2 DEF BackIsNamed, Holding, Activating
  <2>4. PreviousOf(u) \in {NoVersion, pointer.version} \/ (PreviousOf(u) = updater[u].from /\ HasExe(updater[u].from))
    BY DEF PreviousOf
  <2>5. ASSUME NEW v \in Named', v \notin Named PROVE v \in {updater[u].target, updater[u].from} /\ HasExe(v)
    BY <1>3, <2>1, <2>4, <2>5 DEF Named
  <2>6. ASSUME NEW v \in Named', v \notin Named, dir[v] # "whole" PROVE Overtaken(v)
    BY <2>5, <2>6 DEF FolderInv, Ruins, HasExe, Alone, TypeOK
  <2>7. NamesWhole
    BY <1>1, <2>5, <2>6 DEF NamesWhole
  <2> QED
    BY <1>2, <2>3, <2>7 DEF FolderInv
<1>4. CASE Report(u, "FAILED") /\ UNCHANGED <<pointer, marker>>
  <2>1. updater'[u].pc = "FAILED" /\ \A w \in Updates \ {u} : updater'[w] = updater[w]
    BY <1>4 DEF Report, Go, Alone, TypeOK
  <2> QED
    BY <1>1, <1>4, <2>1, FoldersStay DEF Undoable
<1> QED
  BY <1>3, <1>4 DEF Point

LEMMA UndoNamesWhole ==
  ASSUME Alone, FolderInv, NEW u \in Updates, Undo(u)
  PROVE  FolderInv' /\ NamesWhole
<1>1. dir' = dir /\ updater[u].pc = "undo" /\ \A w \in Updates \ {u} : updater[w].pc \notin Holding
  BY DEF Undo, Alone, TypeOK, Holding, Activating
<1>2. CASE UndoTo(u)
  <2>1. /\ updater[u].previous # NoVersion /\ updater[u].previous = pointer.previous
        /\ pointer' = [version |-> updater[u].previous, previous |-> NoVersion]
    BY <1>1, <1>2 DEF UndoTo, PointBack, FolderInv, BackIsNamed
  <2>2. updater'[u].pc = "undostop" /\ \A w \in Updates \ {u} : updater'[w] = updater[w]
    BY <1>2 DEF UndoTo, Go, Alone, TypeOK
  <2>3. \A w \in Updates : BackIsNamed(w)'
    BY <1>1, <2>2 DEF BackIsNamed, Holding, Activating
  <2>4. Named' \subseteq Named
    BY <2>1 DEF Named
  <2>5. Ruins'
    BY <1>1 DEF FolderInv, Ruins, Overtaken, InstalledVersions, HasExe
  <2> QED
    BY <1>1, <2>3, <2>4, <2>5 DEF FolderInv, NamesWhole
<1>3. CASE NothingToRestore(u)
  <2>1. pointer' = pointer /\ updater'[u].pc = "FAILED" /\ \A w \in Updates \ {u} : updater'[w] = updater[w]
    BY <1>3 DEF NothingToRestore, Report, Go, Alone, TypeOK
  <2> QED
    BY <1>1, <2>1, FoldersStay DEF Undoable
<1> QED
  BY <1>2, <1>3 DEF Undo

LEMMA DeletingLeavesNamed ==
  ASSUME Alone, FolderInv, NEW u \in Updates, Clean(u) \/ Crash(u)
  PROVE  FolderInv' /\ NamesWhole
<1>1. PICK pc \in Phases : updater' = [updater EXCEPT ![u].pc = pc] /\ pc \notin Undoable
  BY DEF Clean, Crash, Report, Go, Phases, Undoable
<1>2. pointer' = pointer /\ Named' = Named /\ Named \subseteq Versions
  BY DEF Clean, Crash, Named, Alone, TypeOK
<1>3. \A w \in Updates : BackIsNamed(w)'
  BY <1>1, <1>2 DEF FolderInv, BackIsNamed, Alone, TypeOK, Undoable
<1>4. \E gone \in SUBSET (InstalledVersions \ KeepSet(u)) : \A v \in Versions \ gone : dir'[v] = dir[v]
  <2>1. CASE Clean(u)
    BY <2>1 DEF Clean, Removed
  <2>2. CASE Crash(u)
    BY <2>2 DEF Crash
  <2> QED
    BY <2>1, <2>2
<1>5. Ruins' /\ \A v \in Named : dir'[v] = dir[v]
  BY <1>4, CleanupRuins DEF FolderInv
<1> QED
  BY <1>2, <1>3, <1>5 DEF FolderInv, NamesWhole

LEMMA FolderStep == Alone /\ FolderInv /\ [Next]_vars => FolderInv' /\ NamesWhole
<1> SUFFICES ASSUME Alone, FolderInv, [Next]_vars PROVE FolderInv' /\ NamesWhole
  OBVIOUS
<1>1. ASSUME NEW u \in Updates, UpdaterStep(u) PROVE FolderInv' /\ NamesWhole
  BY <1>1, PhasesLeaveFolders, StageLeavesWhole, PointNamesWhole, UndoNamesWhole, DeletingLeavesNamed DEF UpdaterStep
<1> QED
  BY <1>1, AppLeavesFolders, PhasesLeaveFolders, DeletingLeavesNamed DEF Next

LEMMA FolderInit == Init => FolderInv
<1> SUFFICES ASSUME Init PROVE FolderInv
  OBVIOUS
<1>1. Ruins
  BY DEF Init, Ruins
<1>2. \A u \in Updates : BackIsNamed(u)
  BY DEF Init, BackIsNamed, NotAsked
<1> QED
  BY <1>1, <1>2 DEF FolderInv

\* current.json only comes to name whole folders, and no cleanup, rollback or crash
\* takes one from it, for any number of versions, windows and updates; but for an
\* update overtaken by two newer versions, whose folder may lie in ruins, and until
\* two takers of a stale lock have met.
THEOREM PointerStaysWhole == Spec => PointerIsWhole
<1>1. UpdateInv /\ (raced \/ FolderInv) /\ [Next]_vars => (raced \/ FolderInv)' /\ [~raced => NamesWhole]_vars
  BY FolderStep, RacedStays DEF UpdateInv
<1>2. PointerIsWhole <=> [][~raced => NamesWhole]_vars
  BY DEF PointerIsWhole, NamesWhole
<1>3. Init => raced \/ FolderInv
  BY FolderInit
<1> QED
  BY <1>1, <1>2, <1>3, UpdateInvariant, PTL DEF Spec
=============================================================================
