--------------------------- MODULE WorkflowEngine ---------------------------
(***************************************************************************)
(* agent-workflow/src: the engine a pipeline run executes in its worker    *)
(* thread.  The engines of one pipeline are built from one configuration:  *)
(* each has its own agents and message queues, but the input dictionaries  *)
(* of the steps belong to the configuration, which they share (the         *)
(* manager's copy of it is shallow).  AgentWorkflow puts the engines under *)
(* the manager that starts and stops them.                                 *)
(*                                                                         *)
(* An agent's action is reduced to whether the agent knows it; a result to *)
(* the engine and the step it comes from.                                  *)
(***************************************************************************)
EXTENDS Naturals, Sequences, FiniteSets

CONSTANTS Engines,    \* engines built from the configuration
          Agents,     \* agents the configuration defines
          Missing,    \* the agent of a step without an agent or an action
          Settings    \* the circumstances considered

\* A step: its agent, whether the agent knows the action, the agents its result
\* goes to, its error policy, and whether it has an input of its own.
StepRecords ==
    [agent : STRING, known : BOOLEAN, outputTo : SUBSET STRING,
     onError : {"continue", "stop"}, input : BOOLEAN]

\* The steps of the configuration, its agents of an unknown type, the engines that are
\* built from it, and whether the lineage package is importable (_LINEAGE_ENABLED).
Circumstances ==
    [steps : Seq(StepRecords), bad : SUBSET Agents, runs : SUBSET Engines, lineage : BOOLEAN]

ASSUME WEAssumption ==
    /\ Agents \subseteq STRING /\ Missing \notin Agents
    /\ Settings \subseteq Circumstances

VARIABLES setting,  \* the circumstances
          at,       \* the step each run is at
          phase,    \* where in it: "init", "top", "execute", "done"
          queues,   \* message_queues of each run
          inputs,   \* 'messages' of each step's input, in the shared configuration
          reads,    \* the messages the step of a run was handed, if it has no input of its own
          stop,     \* stop_event of each run
          outcome,  \* what execute_workflow did: "none", "true", "false", "raised"
          executed, \* steps whose agent ran (history)
          late      \* steps begun since the stop event (history)

workflowVars == <<setting, at, phase, queues, inputs, reads, stop, outcome, executed, late>>

steps == setting.steps
StepNumbers == 1..Len(steps)
Messages == [run : Engines, step : StepNumbers]

WorkflowTypeOK ==
    /\ setting \in Circumstances
    /\ at \in [Engines -> 1..(Len(steps) + 1)]
    /\ phase \in [Engines -> {"init", "top", "execute", "done"}]
    /\ queues \in [Engines -> [Agents -> Seq(Messages)]]
    /\ inputs \in [StepNumbers -> Seq(Messages)]
    /\ reads \in [Engines -> Seq(Messages)]
    /\ stop \in [Engines -> BOOLEAN]
    /\ outcome \in [Engines -> {"none", "true", "false", "raised"}]
    /\ executed \in [Engines -> SUBSET StepNumbers]
    /\ late \in [Engines -> 0..Len(steps)]

WorkflowInit ==
    /\ setting \in Settings
    /\ at = [r \in Engines |-> 1] /\ phase = [r \in Engines |-> "init"]
    /\ queues = [r \in Engines |-> [a \in Agents |-> <<>>]]
    /\ inputs = [n \in StepNumbers |-> <<>>] /\ reads = [r \in Engines |-> <<>>]
    /\ stop = [r \in Engines |-> FALSE] /\ outcome = [r \in Engines |-> "none"]
    /\ executed = [r \in Engines |-> {}] /\ late = [r \in Engines |-> 0]

-----------------------------------------------------------------------------
Step(r) == steps[at[r]]

Ends(r, how) ==
    /\ phase' = [phase EXCEPT ![r] = "done"]
    /\ outcome' = [outcome EXCEPT ![r] = how]

NextStep(r) ==
    /\ at' = [at EXCEPT ![r] = @ + 1]
    /\ phase' = [phase EXCEPT ![r] = "top"]

InitializeAgents(r) ==
    /\ phase[r] = "init" /\ setting.bad = {}
    /\ phase' = [phase EXCEPT ![r] = "top"]
    /\ UNCHANGED <<setting, at, outcome, queues, inputs, reads, stop, executed, late>>

UnknownAgentType(r) ==
    /\ phase[r] = "init" /\ setting.bad # {}
    /\ Ends(r, "raised")
    /\ UNCHANGED <<setting, at, queues, inputs, reads, stop, executed, late>>

\* Set by stop_pipeline at any time.
RequestStop(r) ==
    /\ ~stop[r]
    /\ stop' = [stop EXCEPT ![r] = TRUE]
    /\ UNCHANGED <<setting, at, phase, queues, inputs, reads, outcome, executed, late>>

AtStep(r) == phase[r] = "top" /\ at[r] \in StepNumbers

SeeStop(r) ==
    /\ AtStep(r) /\ stop[r]
    /\ Ends(r, "false")
    /\ UNCHANGED <<setting, at, queues, inputs, reads, stop, executed, late>>

Goes(r) == AtStep(r) /\ ~stop[r]

MissingAgent(r) ==
    /\ Goes(r) /\ Step(r).agent = Missing
    /\ Ends(r, "raised")
    /\ UNCHANGED <<setting, at, queues, inputs, reads, stop, executed, late>>

SkipUnknownAgent(r) ==
    /\ Goes(r) /\ Step(r).agent \notin Agents \cup {Missing}
    /\ NextStep(r)
    /\ UNCHANGED <<setting, queues, inputs, reads, stop, outcome, executed, late>>

\* Mutant: the queue is not cleared.
TakeMessagesCopy(r) ==
    LET messages == queues[r][Step(r).agent] IN
    /\ Goes(r) /\ Step(r).agent \in Agents
    /\ inputs' = IF messages # <<>> /\ Step(r).input
                   THEN [inputs EXCEPT ![at[r]] = messages] ELSE inputs
    /\ reads' = [reads EXCEPT ![r] = messages]
    /\ phase' = [phase EXCEPT ![r] = "execute"]
    /\ UNCHANGED <<setting, at, queues, stop, outcome, executed, late>>

\* get_messages empties the queue; what was in it goes into the step's input,
\* which is the configuration's own dictionary when the step has one.
TakeMessages(r) ==
    LET messages == queues[r][Step(r).agent] IN
    /\ Goes(r) /\ Step(r).agent \in Agents
    /\ queues' = [queues EXCEPT ![r][Step(r).agent] = <<>>]
    /\ inputs' = IF messages # <<>> /\ Step(r).input
                   THEN [inputs EXCEPT ![at[r]] = messages] ELSE inputs
    /\ reads' = [reads EXCEPT ![r] = messages]
    /\ phase' = [phase EXCEPT ![r] = "execute"]
    /\ UNCHANGED <<setting, at, stop, outcome, executed, late>>

\* The 'messages' the agent finds in its input.
Found(r) == IF Step(r).input THEN inputs[at[r]] ELSE reads[r]

Counted(r) == late' = [late EXCEPT ![r] = IF stop[r] THEN @ + 1 ELSE @]

\* _execute_step_with_lineage is not defined: with lineage, every step raises.
Works(r) == Step(r).known /\ ~setting.lineage

\* output_to may name agents that are not configured.
Delivered(r, a) == a \in Agents /\ a \in Step(r).outputTo

Execute(r) ==
    /\ phase[r] = "execute" /\ Works(r)
    /\ queues' = [queues EXCEPT ![r] =
         [a \in Agents |-> IF Delivered(r, a)
                             THEN Append(@[a], [run |-> r, step |-> at[r]]) ELSE @[a]]]
    /\ executed' = [executed EXCEPT ![r] = @ \cup {at[r]}]
    /\ NextStep(r) /\ Counted(r)
    /\ UNCHANGED <<setting, inputs, reads, stop, outcome>>

\* Mutant: the error policy is not looked at.
FailOn(r) ==
    /\ phase[r] = "execute" /\ ~Works(r)
    /\ NextStep(r) /\ outcome' = outcome
    /\ Counted(r)
    /\ UNCHANGED <<setting, queues, inputs, reads, stop, executed>>

Fail(r) ==
    /\ phase[r] = "execute" /\ ~Works(r)
    /\ IF Step(r).onError = "stop"
         THEN Ends(r, "false") /\ at' = at
         ELSE NextStep(r) /\ outcome' = outcome
    /\ Counted(r)
    /\ UNCHANGED <<setting, queues, inputs, reads, stop, executed>>

Finish(r) ==
    /\ phase[r] = "top" /\ at[r] \notin StepNumbers
    /\ Ends(r, "true")
    /\ UNCHANGED <<setting, at, queues, inputs, reads, stop, executed, late>>

ExecuteWorkflow(r) ==
    \/ InitializeAgents(r) \/ UnknownAgentType(r) \/ SeeStop(r) \/ MissingAgent(r) \/ SkipUnknownAgent(r)
    \/ TakeMessages(r) \/ Execute(r) \/ Fail(r) \/ Finish(r)

WorkflowNext == \E r \in setting.runs : ExecuteWorkflow(r) \/ RequestStop(r)

WorkflowSpec == WorkflowInit /\ [][WorkflowNext]_workflowVars

-----------------------------------------------------------------------------
(* Safety                                                                  *)

\* "Checks stop_event ... between steps so the pipeline-api can request a
\* graceful halt" (workflow_engine.py:52): at most the step being executed is
\* finished after the request.
StopIsPrompt == \A r \in Engines : late[r] <= 1

\* No step is executed behind one that failed under the policy "stop".
StopPolicyHolds ==
    \A r \in Engines, n \in StepNumbers : n \in executed[r] =>
        \A m \in 1..(n - 1) :
            steps[m].onError = "stop" /\ steps[m].agent \in Agents => m \in executed[r]

\* Results an earlier step of the run sent to a step's agent since that agent's
\* step before.
Due(r, n) ==
    LET a == steps[n].agent
        previous == {m \in 1..(n - 1) : steps[m].agent = a}
    IN {m \in executed[r] : m < n /\ a \in steps[m].outputTo /\ \A p \in previous : m >= p}

FindsItsResults(r) ==
    LET found == Found(r) IN
    /\ {found[i] : i \in DOMAIN found} = {[run |-> r, step |-> m] : m \in Due(r, at[r])}
    /\ \A i, j \in DOMAIN found : i < j => found[i].step < found[j].step

\* In a configuration that no other run uses, a step finds the results that are
\* due, and only these, in their order.
ResultsReachTheirStep ==
    \A r \in Engines : phase[r] = "execute" /\ setting.runs = {r} => FindsItsResults(r)

\* "Workflow executed successfully" (workflow_engine.py:102): every step that
\* its agent could do was done, if the lineage package is not there.
SuccessMeansWork ==
    \A r \in Engines : outcome[r] = "true" /\ ~setting.lineage =>
        {n \in StepNumbers : steps[n].agent \in Agents /\ steps[n].known} \subseteq executed[r]
=============================================================================
