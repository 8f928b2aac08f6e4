--------------------------- MODULE PipelineManager ---------------------------
(***************************************************************************)
(* The run manager of the pipeline HTTP API: pipeline-api/manager.py and   *)
(* the start/stop routes of pipeline-api/server.py.                        *)
(*                                                                         *)
(* Each HTTP request is served by a thread of its own (Clients); each      *)
(* accepted start creates a PipelineRun (Runs) executed by a daemon thread.*)
(* A block under `with self._lock` is one action.  What the code does with *)
(* the lock released (assigning and starting the thread, joining it,       *)
(* reading run.status for the reply) is an action of its own, so every     *)
(* interleaving of requests and workers is explored.  The workflow itself  *)
(* is reduced to its outcome: see WorkflowEngine.                          *)
(***************************************************************************)

CONSTANTS Names,        \* pipeline names a request may carry
          Configured,   \* names with a YAML definition (self._configs)
          Clients,      \* request threads of the HTTP server
          Runs,         \* PipelineRun objects; their number bounds the starts
          NoRun         \* None

ASSUME PMAssumption ==
    /\ Configured \subseteq Names
    /\ NoRun \notin Runs

VARIABLES runs,       \* self._runs: the current or last run of each name
          owner,      \* run.pipeline_name, fixed when the run is created
          status,     \* run.status; "unused" before the object exists
          stopEvent,  \* run._stop_event.is_set()
          thread,     \* run._thread and where its target has got to
          pc,         \* where each request thread is
          arg,        \* the run a request thread holds in a local variable
          reply       \* the last reply of each request thread

vars == <<runs, owner, status, stopEvent, thread, pc, arg, reply>>

(***************************************************************************)
(* thread: "none" (attribute still None), "assigned" (constructed but not  *)
(* started), "executing" (inside the engine), then the outcome of          *)
(* execute_workflow ("true", "false", "raised") until the final locked     *)
(* section is done ("exiting"), and "dead".                                *)
(***************************************************************************)
Outcomes == {"true", "false", "raised"}
Working  == {"executing"} \cup Outcomes
Alive    == Working \cup {"exiting"}

Terminal    == {"completed", "failed", "stopped"}
RunStatuses == {"unused", "running"} \cup Terminal
Replies     == {"none", "accepted", "not_found", "conflict"} \cup RunStatuses

Starting == {"created", "assigned"}
Stopping == {"signalled", "joined", "marked"}

TypeOK ==
    /\ runs \in [Names -> Runs \cup {NoRun}]
    /\ owner \in [Runs -> Names \cup {NoRun}]
    /\ status \in [Runs -> RunStatuses]
    /\ stopEvent \in [Runs -> BOOLEAN]
    /\ thread \in [Runs -> {"none", "assigned", "dead"} \cup Alive]
    /\ pc \in [Clients -> {"idle"} \cup Starting \cup Stopping]
    /\ arg \in [Clients -> Runs \cup {NoRun}]
    /\ reply \in [Clients -> Replies]

Init ==
    /\ runs = [n \in Names |-> NoRun]
    /\ owner = [r \in Runs |-> NoRun]
    /\ status = [r \in Runs |-> "unused"]
    /\ stopEvent = [r \in Runs |-> FALSE]
    /\ thread = [r \in Runs |-> "none"]
    /\ pc = [c \in Clients |-> "idle"]
    /\ arg = [c \in Clients |-> NoRun]
    /\ reply = [c \in Clients |-> "none"]

Answer(c, what) ==
    /\ pc' = [pc EXCEPT ![c] = "idle"]
    /\ arg' = [arg EXCEPT ![c] = NoRun]
    /\ reply' = [reply EXCEPT ![c] = what]

\* Mutant: asks whether the worker is alive instead of reading its status.
IsRunningByLiveness(n) == runs[n] # NoRun /\ thread[runs[n]] \in Alive

\* `run and run.status == "running"` for the run recorded under a name.
IsRunning(n) == runs[n] # NoRun /\ status[runs[n]] = "running"

-----------------------------------------------------------------------------
(* POST /pipelines/<name>/start                                            *)

StartUnknown(c, n) ==
    /\ pc[c] = "idle" /\ n \notin Configured
    /\ Answer(c, "not_found")
    /\ UNCHANGED <<runs, owner, status, stopEvent, thread>>

StartRejected(c, n) ==
    /\ pc[c] = "idle" /\ n \in Configured /\ IsRunning(n)
    /\ Answer(c, "conflict")
    /\ UNCHANGED <<runs, owner, status, stopEvent, thread>>

StartCreate(c, n, r) ==
    /\ pc[c] = "idle" /\ n \in Configured /\ ~IsRunning(n)
    /\ status[r] = "unused"
    /\ status' = [status EXCEPT ![r] = "running"]
    /\ owner' = [owner EXCEPT ![r] = n]
    /\ runs' = [runs EXCEPT ![n] = r]
    /\ pc' = [pc EXCEPT ![c] = "created"]
    /\ arg' = [arg EXCEPT ![c] = r]
    /\ UNCHANGED <<stopEvent, thread, reply>>

\* new_run._thread = t, after the lock was released.
StartAssign(c) ==
    /\ pc[c] = "created"
    /\ thread' = [thread EXCEPT ![arg[c]] = "assigned"]
    /\ pc' = [pc EXCEPT ![c] = "assigned"]
    /\ UNCHANGED <<runs, owner, status, stopEvent, arg, reply>>

StartThread(c) ==
    /\ pc[c] = "assigned"
    /\ thread' = [thread EXCEPT ![arg[c]] = "executing"]
    /\ Answer(c, "accepted")
    /\ UNCHANGED <<runs, owner, status, stopEvent>>

\* t.start() raises RuntimeError when the host refuses another thread, which may
\* happen at any time; the route turns every RuntimeError into a 409, and the run stays "running".
StartThreadRefused(c) ==
    /\ pc[c] = "assigned"
    /\ Answer(c, "conflict")
    /\ UNCHANGED <<runs, owner, status, stopEvent, thread>>

-----------------------------------------------------------------------------
(* POST /pipelines/<name>/stop                                             *)

StopRejected(c, n) ==
    /\ pc[c] = "idle" /\ ~IsRunning(n)
    /\ Answer(c, "conflict")
    /\ UNCHANGED <<runs, owner, status, stopEvent, thread>>

\* Mutant: returns to the caller without setting the event.
StopSignalForgotten(c, n) ==
    /\ pc[c] = "idle" /\ IsRunning(n)
    /\ pc' = [pc EXCEPT ![c] = "signalled"]
    /\ arg' = [arg EXCEPT ![c] = runs[n]]
    /\ UNCHANGED <<runs, owner, status, stopEvent, thread, reply>>

\* Mutant: signals the last run whatever its status.
StopSignalAny(c, n) ==
    /\ pc[c] = "idle" /\ runs[n] # NoRun
    /\ stopEvent' = [stopEvent EXCEPT ![runs[n]] = TRUE]
    /\ pc' = [pc EXCEPT ![c] = "signalled"]
    /\ arg' = [arg EXCEPT ![c] = runs[n]]
    /\ UNCHANGED <<runs, owner, status, thread, reply>>

StopSignal(c, n) ==
    /\ pc[c] = "idle" /\ IsRunning(n)
    /\ stopEvent' = [stopEvent EXCEPT ![runs[n]] = TRUE]
    /\ pc' = [pc EXCEPT ![c] = "signalled"]
    /\ arg' = [arg EXCEPT ![c] = runs[n]]
    /\ UNCHANGED <<runs, owner, status, thread, reply>>

\* No thread yet: no wait.  Otherwise join(timeout) returns, whether the
\* thread has ended by then or not.
StopJoin(c) ==
    /\ pc[c] = "signalled" /\ thread[arg[c]] # "assigned"
    /\ pc' = [pc EXCEPT ![c] = "joined"]
    /\ UNCHANGED <<runs, owner, status, stopEvent, thread, arg, reply>>

\* join() on a thread that was never started raises RuntimeError: a 409 for a
\* stop whose event is already set.
StopJoinUnstarted(c) ==
    /\ pc[c] = "signalled" /\ thread[arg[c]] = "assigned"
    /\ Answer(c, "conflict")
    /\ UNCHANGED <<runs, owner, status, stopEvent, thread>>

\* Mutant: does not test the status again after the join.
StopMarkBlindly(c) ==
    /\ pc[c] = "joined"
    /\ status' = [status EXCEPT ![arg[c]] = "stopped"]
    /\ pc' = [pc EXCEPT ![c] = "marked"]
    /\ UNCHANGED <<runs, owner, stopEvent, thread, arg, reply>>

StopMark(c) ==
    /\ pc[c] = "joined"
    /\ status' = [status EXCEPT ![arg[c]] = IF @ = "running" THEN "stopped" ELSE @]
    /\ pc' = [pc EXCEPT ![c] = "marked"]
    /\ UNCHANGED <<runs, owner, stopEvent, thread, arg, reply>>

\* run.status is read again for the reply, without the lock.
StopReply(c) ==
    /\ pc[c] = "marked"
    /\ Answer(c, status[arg[c]])
    /\ UNCHANGED <<runs, owner, status, stopEvent, thread>>

-----------------------------------------------------------------------------
(* The worker thread: _run_pipeline                                        *)

EngineReturns(r, how) ==
    /\ thread[r] = "executing"
    /\ thread' = [thread EXCEPT ![r] = how]
    /\ UNCHANGED <<runs, owner, status, stopEvent, pc, arg, reply>>

\* Mutants: the outcome itself as status; the stop event not consulted.
FinalStatusRaw(r) == thread[r]

FinalStatusNoStop(r) == IF thread[r] = "true" THEN "completed" ELSE "failed"

FinalStatus(r) ==
    IF thread[r] = "raised" THEN "failed"
    ELSE IF stopEvent[r] THEN "stopped"
    ELSE IF thread[r] = "true" THEN "completed" ELSE "failed"

\* Mutant: no `except` block, an exception ends the thread unreported.
WorkerReportsNoExcept(r) ==
    /\ thread[r] \in Outcomes
    /\ status' = IF thread[r] = "raised" THEN status
                 ELSE [status EXCEPT ![r] = FinalStatus(r)]
    /\ thread' = [thread EXCEPT ![r] = "exiting"]
    /\ UNCHANGED <<runs, owner, stopEvent, pc, arg, reply>>

WorkerReports(r) ==
    /\ thread[r] \in Outcomes
    /\ status' = [status EXCEPT ![r] = FinalStatus(r)]
    /\ thread' = [thread EXCEPT ![r] = "exiting"]
    /\ UNCHANGED <<runs, owner, stopEvent, pc, arg, reply>>

ThreadDies(r) ==
    /\ thread[r] = "exiting"
    /\ thread' = [thread EXCEPT ![r] = "dead"]
    /\ UNCHANGED <<runs, owner, status, stopEvent, pc, arg, reply>>

-----------------------------------------------------------------------------
ClientContinues(c) ==
    \/ StartAssign(c) \/ StartThread(c) \/ StartThreadRefused(c)
    \/ StopJoin(c) \/ StopJoinUnstarted(c) \/ StopMark(c) \/ StopReply(c)

ClientRequests(c, n) ==
    \/ StartUnknown(c, n) \/ StartRejected(c, n)
    \/ \E r \in Runs : StartCreate(c, n, r)
    \/ StopRejected(c, n) \/ StopSignal(c, n)

Worker(r) ==
    \/ \E how \in Outcomes : EngineReturns(r, how)
    \/ WorkerReports(r) \/ ThreadDies(r)

Next ==
    \/ \E c \in Clients : ClientContinues(c) \/ \E n \in Names : ClientRequests(c, n)
    \/ \E r \in Runs : Worker(r)

\* A request that has begun runs on to its reply, and a workflow ends: its
\* list of steps is finite.  Nothing obliges a client to send a request.
Fairness ==
    /\ \A c \in Clients : WF_vars(ClientContinues(c))
    /\ \A r \in Runs : WF_vars(Worker(r))

Spec == Init /\ [][Next]_vars
FairSpec == Spec /\ Fairness

-----------------------------------------------------------------------------
(* Safety                                                                  *)

\* The status check under the lock admits one "running" run per name, and
\* that run is the one recorded in _runs: no start orphans a running run,
\* whatever stop requests and workers do in between (manager.py:139-152).
RunningIsCurrent ==
    \A r \in Runs : status[r] = "running" => runs[owner[r]] = r

\* A worker can outlive its place in _runs (stop gives up after its timeout
\* and a new start is accepted), but only after its stop event was set: it
\* halts at the next step, and no run is forgotten while free to go on.
OrphansWereStopped ==
    \A r \in Runs :
        thread[r] \in Working /\ runs[owner[r]] # r =>
            stopEvent[r] /\ status[r] = "stopped"

\* Stop and completion are serialised by the lock: a run whose stop was
\* signalled while running never ends "completed", though the workflow may
\* have run to its end by then (manager.py:170-172 against 195-199).
StoppedNeverCompletes ==
    \A r \in Runs : stopEvent[r] => status[r] # "completed"

\* The case _effective_status guards against, "shouldn't happen": a worker
\* past its last locked section left its run "running" (manager.py:212-215).
NoDeadRunning ==
    \A r \in Runs : thread[r] \in {"exiting", "dead"} => status[r] \in Terminal

\* The status in a stop reply is read after the lock is released, while the
\* worker may still overwrite it: it is "stopped", or "failed" when the
\* workflow raised, and never "running" or "completed" (manager.py:185).
StopReplyHonest ==
    \A c \in Clients : reply[c] \notin {"unused", "running", "completed"}

(* Refinement                                                              *)

Lifecycle == INSTANCE PipelineLifecycle WITH current <- runs, asked <- stopEvent

\* Every step of requests and workers is a step of a run's promised life
\* (PipelineLifecycle), or leaves the tracked runs alone: "completed" and "failed"
\* are final, and "stopped", written by a stop request whose join timed out, can
\* only become "failed".
LifecycleSpec == Lifecycle!LifeSpec

(* The inductive invariant behind them                                     *)

\* A PipelineRun that was not created yet is known to nobody.
UnusedUntouched ==
    \A r \in Runs : status[r] = "unused" =>
        thread[r] = "none" /\ ~stopEvent[r] /\ (\A n \in Names : runs[n] # r)

\* _runs files every run under its own name.
FiledUnderOwner ==
    /\ \A n \in Names : runs[n] # NoRun => owner[runs[n]] = n
    /\ \A r \in Runs : status[r] # "unused" => owner[r] \in Names

\* Until its worker reports, a run is running or was declared stopped.
UnreportedOpen ==
    \A r \in Runs : thread[r] \notin {"exiting", "dead"} =>
        \/ status[r] \in {"unused", "running"}
        \/ status[r] = "stopped" /\ stopEvent[r]

\* What a request thread knows of the run it holds.
ClientsKnow ==
    \A c \in Clients :
        /\ pc[c] # "idle" => arg[c] \in Runs
        /\ pc[c] = "created" => thread[arg[c]] = "none" /\ status[arg[c]] # "unused"
        /\ pc[c] = "assigned" => thread[arg[c]] = "assigned"
        /\ pc[c] \in Stopping => stopEvent[arg[c]]
        /\ pc[c] = "marked" => status[arg[c]] # "running"

\* A run is started by the one request that created it.
OneStarter ==
    \A c1, c2 \in Clients :
        pc[c1] \in Starting /\ pc[c2] \in Starting /\ arg[c1] = arg[c2] => c1 = c2

IInv ==
    /\ TypeOK /\ RunningIsCurrent /\ StoppedNeverCompletes /\ NoDeadRunning
    /\ StopReplyHonest /\ UnusedUntouched /\ FiledUnderOwner /\ UnreportedOpen
    /\ ClientsKnow /\ OneStarter

(* Liveness                                                                *)

\* The host refused the thread of a run: its request is over, and nothing will
\* ever execute or end the run.
Refused(r) ==
    thread[r] = "assigned" /\ \A c \in Clients : ~(pc[c] = "assigned" /\ arg[c] = r)

\* A name never stays blocked by a run whose thread could be started: every such
\* run ends, one whose stop request was answered 409 because it found a thread
\* not yet started included.
EveryRunEnds ==
    \A r \in Runs : status[r] = "running" ~> (status[r] \in Terminal \/ Refused(r))
=============================================================================
