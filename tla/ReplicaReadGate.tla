-------------------------- MODULE ReplicaReadGate --------------------------
(***************************************************************************)
(* When a screen of the desktop may read the local replica instead of the  *)
(* API: the gate counts this desktop's writes and the synchronisations     *)
(* begun after them; the agent, on the thread of the user interface, lets  *)
(* one synchronisation run at a time in a worker thread. The engine itself *)
(* is ReplicaPass, which ReplicaSync implements.                           *)
(*                                                                         *)
(* A commit of the server is its sequence number. The user's entities are  *)
(* fixed, so of can_read's conditions only the generations and the cursor  *)
(* are left. Any number of writes may be in flight, each from its thread.  *)
(***************************************************************************)
EXTENDS Integers

CONSTANTS
  Threads,     \* threads of the desktop that write through the API
  MaxHead,     \* bound on the commits of the server
  MaxWrites,   \* bound on the writes of this desktop
  MaxFailures  \* bound on the synchronisations that fail

ASSUME GateBoundsAssumption == MaxHead \in Nat /\ MaxWrites \in Nat /\ MaxFailures \in Nat

VARIABLES
  head, cursor, pass, goal,  \* the engine: see ReplicaPass
  writeGen,    \* ReplicaReadGate._write_generation
  syncedGen,   \* ReplicaReadGate._synced_generation
  call,        \* call[t]: the write thread t has in flight
  answered,    \* the last commit of a write whose request has ended
  worker,      \* the thread that runs sync_once for the gate
  agent,       \* ReplicaSyncAgent
  asked,       \* sync_requested signals and single shots not yet delivered
  failures     \* synchronisations that have failed

engine == <<head, cursor, pass, goal>>
vars == <<head, cursor, pass, goal, writeGen, syncedGen, call, answered, worker, agent, asked, failures>>

Engine == INSTANCE ReplicaPass

Bigger(a, b) == IF a < b THEN b ELSE a

\* commit is zero until the server commits the write.
NoCall == [pc |-> "none", commit |-> 0]
NoWorker == [pc |-> "none", gen |-> 0]

Attached == ~agent.stopped

(***************************************************************************)
(* The server                                                              *)
(***************************************************************************)
CommitNext == head' = head + 1 /\ head < MaxHead /\ Engine!Commit

\* Another desktop's write, or one of this desktop that it has given up.
OtherCommits ==
  /\ CommitNext
  /\ UNCHANGED <<writeGen, syncedGen, call, answered, worker, agent, asked, failures>>

WriteCommits(t) ==
  /\ call[t].pc = "sent" /\ call[t].commit = 0
  /\ CommitNext
  /\ call' = [call EXCEPT ![t].commit = head']
  /\ UNCHANGED <<writeGen, syncedGen, answered, worker, agent, asked, failures>>

(***************************************************************************)
(* A write through _BorrowedApiClient.request                              *)
(***************************************************************************)
StartWrite(t) ==
  /\ Attached
  /\ call[t].pc = "none" /\ writeGen < 2 * MaxWrites
  /\ writeGen' = writeGen + 1
  /\ call' = [call EXCEPT ![t].pc = "sent"]
  /\ UNCHANGED <<head, cursor, pass, goal, syncedGen, answered, worker, agent, asked, failures>>

\* Mutant: only the sending of a write closes the gate.
FinishWriteQuietly(t) ==
  /\ call[t].pc = "sent"
  /\ answered' = Bigger(answered, call[t].commit)
  /\ call' = [call EXCEPT ![t] = NoCall]
  /\ asked' = asked + 1
  /\ UNCHANGED <<head, cursor, pass, goal, writeGen, syncedGen, worker, agent, failures>>

\* The finally of request: an answer, a refusal (no commit), an answer that was
\* lost (a commit all the same), or a timeout before the server has decided.
FinishWrite(t) ==
  /\ call[t].pc = "sent"
  /\ writeGen' = writeGen + 1
  /\ answered' = Bigger(answered, call[t].commit)
  /\ call' = [call EXCEPT ![t] = NoCall]
  /\ asked' = asked + 1
  /\ UNCHANGED <<head, cursor, pass, goal, syncedGen, worker, agent, failures>>

(***************************************************************************)
(* The agent: one synchronisation at a time, requests made meanwhile       *)
(* become one that follows                                                 *)
(***************************************************************************)
\* Mutant: a request made during a synchronisation is dropped.
DropRequest ==
  IF agent.inFlight \/ agent.stopped THEN UNCHANGED <<agent, worker>>
  ELSE /\ agent' = [agent EXCEPT !.inFlight = TRUE, !.state = "syncing"]
       /\ worker' = [NoWorker EXCEPT !.pc = "started"]

RequestSync ==
  IF agent.stopped THEN UNCHANGED <<agent, worker>>
  ELSE IF agent.inFlight THEN agent' = [agent EXCEPT !.pending = TRUE] /\ UNCHANGED worker
  ELSE /\ agent' = [agent EXCEPT !.inFlight = TRUE, !.state = "syncing"]
       /\ worker' = [NoWorker EXCEPT !.pc = "started"]

Deliver ==
  /\ asked > 0 /\ asked' = asked - 1
  /\ RequestSync
  /\ UNCHANGED <<head, cursor, pass, goal, writeGen, syncedGen, call, answered, failures>>

\* The timer, or a sync.head message that is not ignored (notify_head); what is
\* already in the queue of the event loop comes first.
Poll ==
  /\ ~agent.stopped /\ asked = 0
  /\ RequestSync
  /\ UNCHANGED <<head, cursor, pass, goal, writeGen, syncedGen, call, answered, asked, failures>>

\* Logout or close: no gate for later reads and writes, no more requests.
Stop ==
  /\ ~agent.stopped
  /\ agent' = [agent EXCEPT !.stopped = TRUE, !.pending = FALSE]
  /\ UNCHANGED <<head, cursor, pass, goal, writeGen, syncedGen, call, answered, worker, asked, failures>>

\* Mutant: a failure leaves the agent in flight.
FinishStuck(state) ==
  /\ worker' = NoWorker
  /\ agent' = [agent EXCEPT !.state = state, !.inFlight = state = "failed"]
  /\ UNCHANGED <<head, cursor, pass, goal, writeGen, syncedGen, call, answered, asked, failures>>

\* _on_success and _on_error end alike: a pending request becomes a single shot.
Finished(state) ==
  /\ worker' = NoWorker
  /\ IF agent.stopped
     THEN agent' = [agent EXCEPT !.inFlight = FALSE] /\ UNCHANGED asked
     ELSE /\ agent' = [agent EXCEPT !.inFlight = FALSE, !.state = state, !.pending = FALSE]
          /\ asked' = IF agent.pending THEN asked + 1 ELSE asked
  /\ UNCHANGED <<head, cursor, pass, goal, writeGen, syncedGen, call, answered, failures>>

OnSuccess == worker.pc = "returned" /\ Finished("ready")
OnError == worker.pc = "failed" /\ Finished("failed")

(***************************************************************************)
(* The worker: begin_sync, sync_once, complete_sync                        *)
(***************************************************************************)
Works(pc) == worker' = [worker EXCEPT !.pc = pc]
RestOfWorker == UNCHANGED <<writeGen, syncedGen, call, answered, agent, asked>>

BeginSync ==
  /\ worker.pc = "started"
  /\ worker' = [pc |-> "begun", gen |-> writeGen]
  /\ UNCHANGED engine /\ UNCHANGED failures /\ RestOfWorker

\* The first head, and any later one when a new load is asked for.
BeginPass ==
  /\ worker.pc \in {"begun", "syncing"}
  /\ Engine!Begin
  /\ Works("syncing")
  /\ UNCHANGED failures /\ RestOfWorker

ApplyPage ==
  /\ worker.pc = "syncing"
  /\ cursor' \in 0 .. head /\ Engine!Advance
  /\ UNCHANGED <<worker, failures>> /\ RestOfWorker

EndPass ==
  /\ worker.pc = "syncing"
  /\ cursor' \in 0 .. head /\ Engine!Finish
  /\ Works("synced")
  /\ UNCHANGED failures /\ RestOfWorker

FailPass ==
  /\ worker.pc = "syncing" /\ failures < MaxFailures
  /\ Engine!Fail
  /\ Works("failed")
  /\ failures' = failures + 1
  /\ RestOfWorker

\* Mutant: the synchronisation counts for the writes made while it ran.
CompleteWithCurrent ==
  /\ worker.pc = "synced"
  /\ syncedGen' = writeGen
  /\ Works("returned")
  /\ UNCHANGED <<head, cursor, pass, goal, writeGen, call, answered, agent, asked, failures>>

CompleteSync ==
  /\ worker.pc = "synced"
  /\ syncedGen' = Bigger(syncedGen, worker.gen)
  /\ Works("returned")
  /\ UNCHANGED <<head, cursor, pass, goal, writeGen, call, answered, agent, asked, failures>>

CanRead == Attached /\ syncedGen = writeGen /\ cursor # Engine!NoCursor

(***************************************************************************)
(* The session, from _start_replica_sync; the file may be of another day   *)
(***************************************************************************)
Init ==
  /\ head = 0 /\ cursor \in {Engine!NoCursor, 0} /\ pass = "none" /\ goal = 0
  /\ writeGen = 0 /\ syncedGen = -1
  /\ call = [t \in Threads |-> NoCall]
  /\ answered = 0
  /\ worker = [NoWorker EXCEPT !.pc = "started"]
  /\ agent = [stopped |-> FALSE, inFlight |-> TRUE, pending |-> FALSE, state |-> "syncing"]
  /\ asked = 0 /\ failures = 0

WorkerStep == BeginSync \/ BeginPass \/ ApplyPage \/ EndPass \/ FailPass \/ CompleteSync
AgentStep == Deliver \/ OnSuccess \/ OnError

Next ==
  \/ OtherCommits
  \/ \E t \in Threads : WriteCommits(t) \/ StartWrite(t) \/ FinishWrite(t)
  \/ Poll \/ Stop
  \/ AgentStep \/ WorkerStep

Spec == Init /\ [][Next]_vars

\* The event loop delivers, the timer fires, requests end or time out, and a
\* synchronisation does its next step or fails.
Fairness ==
  /\ WF_vars(Deliver) /\ WF_vars(OnSuccess \/ OnError) /\ WF_vars(Poll)
  /\ WF_vars(BeginSync) /\ WF_vars(worker.pc = "begun" /\ BeginPass)
  /\ WF_vars(EndPass \/ FailPass) /\ WF_vars(CompleteSync)
  /\ \A t \in Threads : WF_vars(FinishWrite(t))

FairSpec == Spec /\ Fairness

(***************************************************************************)
(* Properties                                                              *)
(***************************************************************************)
\* Generations and sequence numbers are of their types; the agent believes a
\* synchronisation to be in flight exactly while a worker has one.
TypeOK ==
  /\ head \in Nat /\ cursor \in Nat \cup {Engine!NoCursor} /\ pass \in Engine!Passes /\ goal \in Nat
  /\ writeGen \in Nat /\ syncedGen \in Nat \cup {-1}
  /\ call \in [Threads -> [pc : {"none", "sent"}, commit : Nat]]
  /\ answered \in Nat
  /\ worker \in [pc : {"none", "started", "begun", "syncing", "synced", "returned", "failed"}, gen : Nat]
  /\ agent \in [stopped : BOOLEAN, inFlight : BOOLEAN, pending : BOOLEAN,
                state : {"syncing", "ready", "failed"}]
  /\ agent.inFlight <=> worker.pc # "none"
  /\ asked \in Nat /\ failures \in Nat

\* FASE4_REPLICA_SQLITE_LEITURA_EXPEDICAO.md, guarantee 2: after a write of this
\* desktop the replica is not read until it has received the write; also when
\* the answer was lost on the way back.
AnsweredWritesAreShown == CanRead => answered <= cursor

InFlight == \E t \in Threads : call[t].pc = "sent"

\* The write that closed the gate has asked for the synchronisation that opens
\* it: unless the last one failed, one that counts is running, pending or
\* asked for, and the screens do not wait for the timer.
ReopeningIsOnItsWay ==
  \/ InFlight \/ agent.stopped \/ agent.state = "failed" \/ syncedGen = writeGen
  \/ agent.pending \/ asked > 0 \/ worker.pc = "started"
  \/ worker.pc \in {"begun", "syncing", "synced", "failed"} /\ worker.gen = writeGen

\* The gate does not stay closed: once writes and failures end, screens read
\* the replica again until the window closes.
GateReopens == []<>(CanRead \/ agent.stopped)
=============================================================================
