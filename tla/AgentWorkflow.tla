---------------------------- MODULE AgentWorkflow ----------------------------
(***************************************************************************)
(* The run manager and the engines together, as _run_pipeline of           *)
(* pipeline-api/manager.py joins them: the worker thread of a run builds   *)
(* an engine from the configuration, hands it the run's stop event, and    *)
(* goes on with what execute_workflow returns or raises.                   *)
(***************************************************************************)
EXTENDS PipelineManager, WorkflowEngine

CONSTANT WorkflowSettings  \* the configuration and its engines, and who asks for what

\* An engine per run, all from the configuration of one pipeline.
ASSUME AWAssumption ==
    /\ Engines = Runs
    /\ \A n, m \in Configured : n = m
    /\ WorkflowSettings \subseteq [setting : Settings, callers : SUBSET (Clients \X Names)]

VARIABLE callers  \* clients that send requests, and the names in them

managed == <<runs, owner, status, thread, pc, arg, reply>>
engineState == <<setting, at, phase, queues, inputs, reads, outcome, executed, late>>
allVars == <<vars, workflowVars, callers>>

AgentInit ==
    \E c \in WorkflowSettings :
        /\ Init
        /\ setting = c.setting /\ WorkflowInit
        /\ callers = c.callers

\* A step of the manager: its stop events are the engines'.
ManagerOnly ==
    /\ stop' = stopEvent'
    /\ UNCHANGED <<engineState, callers>>

Request(c, n) ==
    /\ ClientRequests(c, n) /\ ManagerOnly
    /\ \A r \in Runs : status[r] # status'[r] /\ status[r] = "unused" => r \in setting.runs

Continue(c) == ClientContinues(c) /\ ManagerOnly

\* The worker leaves the engine with what the engine did, and not before.
Report(r) ==
    /\ Worker(r) /\ ManagerOnly
    /\ thread[r] = "executing" => thread'[r] = outcome[r]

\* The engine works as long as the worker is in it.
Execution(r) ==
    /\ thread[r] = "executing" /\ ExecuteWorkflow(r)
    /\ UNCHANGED <<vars, callers>>

AgentNext ==
    \/ \E c \in Clients : Continue(c) \/ \E n \in Names : <<c, n>> \in callers /\ Request(c, n)
    \/ \E r \in Runs : Report(r) \/ Execution(r)

\* A request that has begun runs on to its reply, and a started worker goes on.
\* Nothing obliges a client to send a request.
AgentFairness ==
    /\ \A c \in Clients : WF_allVars(Continue(c))
    /\ \A r \in Runs : WF_allVars(Report(r) \/ Execution(r))

AgentSpec == AgentInit /\ [][AgentNext]_allVars /\ AgentFairness
-----------------------------------------------------------------------------
(* What comments say and the code does not do                              *)

\* "Concurrent runs of the same pipeline name are rejected" (pipeline-api/manager.py:6),
\* and "engine doesn't mutate top-level" (manager.py:154): at least, no two runs of a
\* name are at work while one of them is about to execute a step with the other's
\* results.
RunsDoNotMeet ==
    \A r1, r2 \in Runs :
        /\ r1 # r2 /\ owner[r1] = owner[r2]
        /\ thread[r1] = "executing" /\ thread[r2] = "executing"
        /\ phase[r1] = "execute"
        => \A i \in DOMAIN Found(r1) : Found(r1)[i].run # r2
=============================================================================
