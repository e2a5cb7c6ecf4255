----------------------- MODULE ReplicaReadGateProofs -----------------------
(***************************************************************************)
(* Theorems about ReplicaReadGate for any number of threads and any number *)
(* of writes, commits and failures.                                        *)
(***************************************************************************)
EXTENDS ReplicaReadGate, TLAPS

(***************************************************************************)
(* The inductive invariant                                                 *)
(***************************************************************************)
\* No generation is recorded before the gate has reached it.
GenerationsExist == worker.gen <= writeGen /\ syncedGen <= writeGen

\* Whoever holds the current generation took it after the last write ended, so
\* what that write committed is below the head it has read, or is still to read.
AnsweredIsCommitted == answered <= head /\ \A t \in Threads : call[t].commit <= head
PassCoversAnswered ==
  worker.gen = writeGen =>
    /\ worker.pc = "syncing" => answered <= goal
    /\ worker.pc \in {"synced", "returned"} => answered <= cursor
SyncedCoversAnswered == syncedGen = writeGen => answered <= cursor

\* The engine runs for the worker, and for nobody else.
WorkerRuns ==
  /\ goal <= head /\ cursor <= head
  /\ worker.pc = "syncing" => pass = "running"

GateInv == /\ TypeOK /\ GenerationsExist /\ AnsweredIsCommitted /\ PassCoversAnswered
           /\ SyncedCoversAnswered /\ WorkerRuns

LEMMA GateInit == Init => GateInv
BY DEF Init, GateInv, TypeOK, GenerationsExist, AnsweredIsCommitted, PassCoversAnswered,
       SyncedCoversAnswered, WorkerRuns, NoCall, NoWorker, Engine!NoCursor, Engine!Passes

(***************************************************************************)
(* Steps                                                                   *)
(***************************************************************************)
\* A commit is above everything that was answered, read or shown before.
LEMMA CommitKeeps ==
  ASSUME GateInv,
         OtherCommits \/ \E t \in Threads : WriteCommits(t)
  PROVE  GateInv'
<1> USE DEF GateInv
<1>1. /\ head' = head + 1 /\ head' \in Nat
      /\ UNCHANGED <<cursor, pass, goal, writeGen, syncedGen, answered, worker, agent, asked, failures>>
  BY DEF OtherCommits, WriteCommits, CommitNext, Engine!Commit, TypeOK
<1>2. /\ call' \in [Threads -> [pc : {"none", "sent"}, commit : Nat]]
      /\ \A t \in Threads : call'[t].commit <= head'
  BY <1>1 DEF OtherCommits, WriteCommits, TypeOK, AnsweredIsCommitted
<1>3. TypeOK'
  BY <1>1, <1>2 DEF TypeOK
<1>4. AnsweredIsCommitted' /\ WorkerRuns'
  BY <1>1, <1>2 DEF TypeOK, AnsweredIsCommitted, WorkerRuns, Engine!NoCursor
<1>5. GenerationsExist' /\ PassCoversAnswered' /\ SyncedCoversAnswered'
  BY <1>1 DEF GenerationsExist, PassCoversAnswered, SyncedCoversAnswered
<1> QED
  BY <1>3, <1>4, <1>5

\* A write that begins or ends leaves every recorded generation behind.
LEMMA WriteKeeps ==
  ASSUME GateInv, NEW t \in Threads, StartWrite(t) \/ FinishWrite(t)
  PROVE  GateInv'
<1> USE DEF GateInv
<1>1. /\ writeGen' = writeGen + 1
      /\ UNCHANGED <<head, cursor, pass, goal, syncedGen, worker, agent, failures>>
      /\ asked' \in Nat
  BY DEF StartWrite, FinishWrite, TypeOK
<1>2. /\ call' \in [Threads -> [pc : {"none", "sent"}, commit : Nat]]
      /\ \A u \in Threads : call'[u].commit <= head
      /\ answered' \in Nat /\ answered' <= head
  BY DEF StartWrite, FinishWrite, TypeOK, AnsweredIsCommitted, NoCall, Bigger
<1>3. TypeOK' /\ AnsweredIsCommitted' /\ WorkerRuns'
  BY <1>1, <1>2 DEF TypeOK, AnsweredIsCommitted, WorkerRuns
<1>4. worker'.gen < writeGen' /\ syncedGen' < writeGen'
  BY <1>1 DEF TypeOK, GenerationsExist
<1>5. GenerationsExist' /\ PassCoversAnswered' /\ SyncedCoversAnswered'
  BY <1>1, <1>4 DEF TypeOK, GenerationsExist, PassCoversAnswered, SyncedCoversAnswered
<1> QED
  BY <1>3, <1>5

\* The agent starts and ends workers; it touches no generation.
LEMMA AgentKeeps ==
  ASSUME GateInv, AgentStep \/ Poll \/ Stop
  PROVE  GateInv'
<1> USE DEF GateInv
<1>1. UNCHANGED <<head, cursor, pass, goal, writeGen, syncedGen, call, answered, failures>>
  BY DEF AgentStep, Deliver, OnSuccess, OnError, Finished, Poll, Stop
<1>2. \/ worker' = worker
      \/ worker' = NoWorker
      \/ worker' = [NoWorker EXCEPT !.pc = "started"]
  BY DEF AgentStep, Deliver, OnSuccess, OnError, Finished, Poll, Stop, RequestSync
<1>3. TypeOK'
  <2> DEFINE Agents == [stopped : BOOLEAN, inFlight : BOOLEAN, pending : BOOLEAN,
                        state : {"syncing", "ready", "failed"}]
  <2>1. /\ agent \in Agents /\ asked \in Nat
        /\ worker' \in [pc : {"none", "started", "begun", "syncing", "synced", "returned", "failed"},
                        gen : Nat]
    BY <1>2 DEF TypeOK, NoWorker
  <2>2. agent' \in Agents /\ (agent'.inFlight <=> worker'.pc # "none")
    <3>1. CASE agent' = agent /\ worker' = worker
      BY <2>1, <3>1 DEF TypeOK
    <3>2. CASE agent' = [agent EXCEPT !.pending = TRUE] /\ worker' = worker
      BY <2>1, <3>2 DEF TypeOK
    <3>3. CASE /\ agent' = [agent EXCEPT !.inFlight = TRUE, !.state = "syncing"]
               /\ worker' = [NoWorker EXCEPT !.pc = "started"]
      BY <2>1, <3>3 DEF NoWorker
    <3>4. CASE agent' = [agent EXCEPT !.stopped = TRUE, !.pending = FALSE] /\ worker' = worker
      BY <2>1, <3>4 DEF TypeOK
    <3>5. CASE agent' = [agent EXCEPT !.inFlight = FALSE] /\ worker' = NoWorker
      BY <2>1, <3>5 DEF NoWorker
    <3>6. ASSUME NEW st \in {"ready", "failed"}, worker' = NoWorker,
                 agent' = [agent EXCEPT !.inFlight = FALSE, !.state = st, !.pending = FALSE]
          PROVE  agent' \in Agents /\ (agent'.inFlight <=> worker'.pc # "none")
      BY <2>1, <3>6 DEF NoWorker
    <3> QED
      BY <3>1, <3>2, <3>3, <3>4, <3>5, <3>6
         DEF AgentStep, Deliver, OnSuccess, OnError, Finished, Poll, Stop, RequestSync
  <2>3. asked' \in Nat
    BY <2>1 DEF AgentStep, Deliver, OnSuccess, OnError, Finished, Poll, Stop
  <2> QED
    BY <1>1, <2>1, <2>2, <2>3 DEF TypeOK
<1>4. worker' = worker \/ (worker'.gen = 0 /\ worker'.pc \in {"none", "started"})
  BY <1>2 DEF NoWorker
<1>5. GenerationsExist' /\ PassCoversAnswered' /\ WorkerRuns'
  BY <1>1, <1>4 DEF TypeOK, GenerationsExist, PassCoversAnswered, WorkerRuns
<1> QED
  BY <1>1, <1>3, <1>5 DEF AnsweredIsCommitted, SyncedCoversAnswered

LEMMA WorkerKeeps ==
  ASSUME GateInv, WorkerStep
  PROVE  GateInv'
<1> USE DEF GateInv
<1>0. UNCHANGED <<head, writeGen, call, answered, agent, asked>>
  BY DEF WorkerStep, BeginSync, BeginPass, ApplyPage, EndPass, FailPass, CompleteSync, RestOfWorker,
         engine, Engine!Begin, Engine!Advance, Engine!Finish, Engine!Fail
<1>1. CASE BeginSync
  BY <1>0, <1>1 DEF BeginSync, RestOfWorker, engine, TypeOK, GenerationsExist, AnsweredIsCommitted,
                    PassCoversAnswered, SyncedCoversAnswered, WorkerRuns
<1>2. CASE BeginPass
  BY <1>0, <1>2 DEF BeginPass, Works, RestOfWorker, Engine!Begin, Engine!Passes, TypeOK, GenerationsExist,
                    AnsweredIsCommitted, PassCoversAnswered, SyncedCoversAnswered, WorkerRuns
<1>3. CASE ApplyPage
  BY <1>0, <1>3 DEF ApplyPage, RestOfWorker, Engine!Advance, Engine!Forward, Engine!NoCursor, TypeOK,
                    GenerationsExist, AnsweredIsCommitted, PassCoversAnswered, SyncedCoversAnswered,
                    WorkerRuns
<1>4. CASE EndPass
  BY <1>0, <1>4 DEF EndPass, Works, RestOfWorker, Engine!Finish, Engine!Forward, Engine!NoCursor,
                    Engine!Passes, TypeOK, GenerationsExist, AnsweredIsCommitted, PassCoversAnswered,
                    SyncedCoversAnswered, WorkerRuns
<1>5. CASE FailPass
  BY <1>0, <1>5 DEF FailPass, Works, RestOfWorker, Engine!Fail, Engine!Passes, TypeOK, GenerationsExist,
                    AnsweredIsCommitted, PassCoversAnswered, SyncedCoversAnswered, WorkerRuns
<1>6. CASE CompleteSync
  BY <1>0, <1>6 DEF CompleteSync, Works, Bigger, TypeOK, GenerationsExist, AnsweredIsCommitted,
                    PassCoversAnswered, SyncedCoversAnswered, WorkerRuns
<1> QED
  BY <1>1, <1>2, <1>3, <1>4, <1>5, <1>6 DEF WorkerStep

LEMMA GateStep == GateInv /\ [Next]_vars => GateInv'
<1> SUFFICES ASSUME GateInv, [Next]_vars PROVE GateInv'
  OBVIOUS
<1>1. CASE UNCHANGED vars
  BY <1>1 DEF vars, GateInv, TypeOK, GenerationsExist, AnsweredIsCommitted, PassCoversAnswered,
              SyncedCoversAnswered, WorkerRuns
<1> QED
  BY <1>1, CommitKeeps, WriteKeeps, AgentKeeps, WorkerKeeps DEF Next

\* Types, and the agent's belief about its worker, hold in every state.
THEOREM GateTypeCorrect == Spec => []TypeOK
BY GateInit, GateStep, PTL DEF Spec, GateInv

\* Once a write of this desktop has ended, its screens do not read the replica
\* before it has the write, for any threads, writes, failures and messages.
THEOREM WritesAreShown == Spec => []AnsweredWritesAreShown
<1>1. GateInv => AnsweredWritesAreShown
  BY DEF GateInv, SyncedCoversAnswered, AnsweredWritesAreShown, CanRead
<1> QED
  BY <1>1, GateInit, GateStep, PTL DEF Spec
(***************************************************************************)
(* The way back to an open gate                                            *)
(***************************************************************************)
\* While a worker runs the agent reports it as such: an old failure does not
\* excuse a synchronisation that is under way.
ReportsTheWorker == agent.inFlight => agent.state = "syncing"
WayInv == ReopeningIsOnItsWay /\ ReportsTheWorker

LEMMA WayInit == Init => WayInv
BY DEF Init, WayInv, ReopeningIsOnItsWay, ReportsTheWorker, NoWorker

\* A write that begins closes the gate, one that ends asks for a synchronisation.
LEMMA WriteAsks ==
  ASSUME GateInv, WayInv, NEW t \in Threads, WriteCommits(t) \/ StartWrite(t) \/ FinishWrite(t)
  PROVE  WayInv'
<1>1. UNCHANGED <<syncedGen, worker, agent>>
  BY DEF WriteCommits, StartWrite, FinishWrite
<1>2. ReportsTheWorker'
  BY <1>1 DEF WayInv, ReportsTheWorker
<1>3. CASE WriteCommits(t)
  <2>1. writeGen' = writeGen /\ asked' = asked /\ (InFlight => InFlight')
    BY <1>3 DEF WriteCommits, InFlight, GateInv, TypeOK
  <2> QED
    BY <1>1, <1>2, <2>1 DEF WayInv, ReopeningIsOnItsWay
<1>4. CASE StartWrite(t)
  <2>1. InFlight'
    BY <1>4 DEF StartWrite, InFlight, GateInv, TypeOK
  <2> QED
    BY <1>2, <2>1 DEF WayInv, ReopeningIsOnItsWay
<1>5. CASE FinishWrite(t)
  <2>1. asked' > 0
    BY <1>5 DEF FinishWrite, GateInv, TypeOK
  <2> QED
    BY <1>2, <2>1 DEF WayInv, ReopeningIsOnItsWay
<1> QED
  BY <1>3, <1>4, <1>5

\* A request that is delivered starts a worker or waits for the one that runs,
\* and one that waits is asked for again when that one ends.
LEMMA AgentPassesOn ==
  ASSUME GateInv, WayInv, AgentStep \/ Poll \/ Stop
  PROVE  WayInv'
<1> USE DEF GateInv
<1>1. UNCHANGED <<writeGen, syncedGen, call>> /\ InFlight' = InFlight
  BY DEF AgentStep, Deliver, OnSuccess, OnError, Finished, Poll, Stop, InFlight
<1>2. CASE Deliver \/ Poll
  <2>1. RequestSync
    BY <1>2 DEF Deliver, Poll
  <2>2. agent'.stopped \/ agent'.pending \/ worker'.pc = "started"
    BY <2>1 DEF RequestSync, TypeOK, NoWorker
  <2>3. ReportsTheWorker'
    BY <2>1 DEF RequestSync, TypeOK, WayInv, ReportsTheWorker
  <2> QED
    BY <2>2, <2>3 DEF WayInv, ReopeningIsOnItsWay
<1>3. CASE Stop
  <2>1. agent'.stopped /\ agent'.inFlight = agent.inFlight /\ agent'.state = agent.state
    BY <1>3 DEF Stop, TypeOK
  <2> QED
    BY <2>1 DEF WayInv, ReopeningIsOnItsWay, ReportsTheWorker
<1>4. ASSUME NEW state \in {"ready", "failed"}, Finished(state),
             worker.pc = "failed" => state = "failed", worker.pc \in {"returned", "failed"}
      PROVE  WayInv'
  <2>1. ~agent'.inFlight /\ (agent.stopped => agent'.stopped)
        /\ (~agent.stopped => agent'.state = state)
    BY <1>4 DEF Finished, TypeOK
  <2>2. asked' \in Nat /\ (~agent.stopped /\ (agent.pending \/ asked > 0) => asked' > 0)
    BY <1>4 DEF Finished, TypeOK
  <2>3. agent.state = "syncing"
    BY <1>4 DEF TypeOK, WayInv, ReportsTheWorker
  <2> QED
    BY <1>1, <1>4, <2>1, <2>2, <2>3 DEF WayInv, ReopeningIsOnItsWay, ReportsTheWorker
<1> QED
  BY <1>2, <1>3, <1>4 DEF AgentStep, OnSuccess, OnError

\* A worker takes the generation along, to its record in the gate.
LEMMA WorkerCarries ==
  ASSUME GateInv, WayInv, WorkerStep
  PROVE  WayInv'
<1> USE DEF GateInv
<1>1. UNCHANGED <<writeGen, call, agent, asked>> /\ InFlight' = InFlight /\ ReportsTheWorker'
  BY DEF WorkerStep, BeginSync, BeginPass, ApplyPage, EndPass, FailPass, CompleteSync, RestOfWorker,
         InFlight, WayInv, ReportsTheWorker
<1>2. CASE BeginSync
  BY <1>1, <1>2 DEF BeginSync, WayInv, ReopeningIsOnItsWay
<1>3. CASE BeginPass \/ ApplyPage \/ EndPass \/ FailPass
  <2>1. /\ syncedGen' = syncedGen /\ worker'.gen = worker.gen
        /\ worker.pc # "started" /\ worker'.pc \in {"syncing", "synced", "failed"}
    BY <1>3 DEF BeginPass, ApplyPage, EndPass, FailPass, Works, RestOfWorker, TypeOK
  <2> QED
    BY <1>1, <2>1 DEF WayInv, ReopeningIsOnItsWay
<1>4. CASE CompleteSync
  <2>1. worker.gen = writeGen \/ syncedGen = writeGen => syncedGen' = writeGen
    BY <1>4 DEF CompleteSync, Bigger, TypeOK, GenerationsExist
  <2> QED
    BY <1>1, <1>4, <2>1 DEF CompleteSync, WayInv, ReopeningIsOnItsWay
<1> QED
  BY <1>1, <1>2, <1>3, <1>4 DEF WorkerStep

LEMMA WayStep == GateInv /\ WayInv /\ [Next]_vars => WayInv'
<1> SUFFICES ASSUME GateInv, WayInv, [Next]_vars PROVE WayInv'
  OBVIOUS
<1>1. CASE UNCHANGED vars
  BY <1>1 DEF vars, WayInv, ReopeningIsOnItsWay, ReportsTheWorker, InFlight
<1>2. CASE OtherCommits
  BY <1>2 DEF OtherCommits, WayInv, ReopeningIsOnItsWay, ReportsTheWorker, InFlight
<1> QED
  BY <1>1, <1>2, WriteAsks, AgentPassesOn, WorkerCarries DEF Next

\* A closed gate is never forgotten: unless the last synchronisation failed, one
\* that counts is running, waiting or asked for, for any threads and writes.
THEOREM GateIsNotForgotten == Spec => []ReopeningIsOnItsWay
<1>1. WayInv => ReopeningIsOnItsWay
  BY DEF WayInv
<1> QED
  BY <1>1, GateInit, GateStep, WayInit, WayStep, PTL DEF Spec
=============================================================================
