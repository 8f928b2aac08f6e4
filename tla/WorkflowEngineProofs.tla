------------------------ MODULE WorkflowEngineProofs ------------------------
(***************************************************************************)
(* Theorems about WorkflowEngine, for any runs, agents and workflows.      *)
(***************************************************************************)
EXTENDS WorkflowEngine, TLAPS

(* What an invariant about control needs to know of the types              *)

ControlTypes ==
    /\ setting \in Circumstances
    /\ at \in [Engines -> Nat \ {0}]
    /\ phase \in [Engines -> {"init", "top", "execute", "done"}]
    /\ stop \in [Engines -> BOOLEAN]
    /\ outcome \in [Engines -> {"none", "true", "false", "raised"}]
    /\ executed \in [Engines -> SUBSET (Nat \ {0})]
    /\ late \in [Engines -> Nat]

LEMMA ActiveRuns == ControlTypes => setting.runs \subseteq Engines
BY DEF ControlTypes, Circumstances

LEMMA ControlTypesInvariant == WorkflowSpec => []ControlTypes
<1>1. WorkflowInit => ControlTypes
  BY WEAssumption DEF WorkflowInit, ControlTypes
<1>2. ControlTypes /\ [WorkflowNext]_workflowVars => ControlTypes'
  <2> SUFFICES ASSUME ControlTypes, [WorkflowNext]_workflowVars PROVE ControlTypes'
    OBVIOUS
  <2> USE DEF ControlTypes
  <2>1. ASSUME NEW r \in Engines, InitializeAgents(r) PROVE ControlTypes'
    BY <2>1 DEF InitializeAgents
  <2>2. ASSUME NEW r \in Engines, UnknownAgentType(r) \/ SeeStop(r) \/ MissingAgent(r) \/ Finish(r)
        PROVE  ControlTypes'
    BY <2>2 DEF UnknownAgentType, SeeStop, MissingAgent, Finish, Ends
  <2>3. ASSUME NEW r \in Engines, RequestStop(r) PROVE ControlTypes'
    BY <2>3 DEF RequestStop
  <2>4. ASSUME NEW r \in Engines, SkipUnknownAgent(r) PROVE ControlTypes'
    BY <2>4 DEF SkipUnknownAgent, NextStep
  <2>5. ASSUME NEW r \in Engines, TakeMessages(r) PROVE ControlTypes'
    BY <2>5 DEF TakeMessages
  <2>6. ASSUME NEW r \in Engines, Execute(r) PROVE ControlTypes'
    BY <2>6 DEF Execute, NextStep, Counted
  <2>7. ASSUME NEW r \in Engines, Fail(r) PROVE ControlTypes'
    <3>1. CASE Step(r).onError = "stop"
      BY <2>7, <3>1 DEF Fail, Ends, Counted
    <3>2. CASE Step(r).onError # "stop"
      BY <2>7, <3>2 DEF Fail, NextStep, Counted
    <3> QED BY <3>1, <3>2
  <2>8. CASE UNCHANGED workflowVars
    BY <2>8 DEF workflowVars
  <2> QED BY <2>1, <2>2, <2>3, <2>4, <2>5, <2>6, <2>7, <2>8, ActiveRuns DEF WorkflowNext, ExecuteWorkflow
<1> QED BY <1>1, <1>2, PTL DEF WorkflowSpec

-----------------------------------------------------------------------------
(* A stop request                                                          *)

\* A step is counted late when it ends after the request.  By then the run is
\* back at the top, where the next check halts it.
PromptInv ==
    \A r \in Engines :
        /\ late[r] <= 1
        /\ phase[r] = "execute" => late[r] = 0
        /\ late[r] # 0 => stop[r]

LEMMA PromptInvariant == WorkflowSpec => []PromptInv
<1>1. WorkflowInit => PromptInv
  BY DEF WorkflowInit, PromptInv
<1>2. ControlTypes /\ PromptInv /\ [WorkflowNext]_workflowVars => PromptInv'
  <2> SUFFICES ASSUME ControlTypes, PromptInv, [WorkflowNext]_workflowVars PROVE PromptInv'
    OBVIOUS
  <2> USE DEF ControlTypes, PromptInv
  <2>1. ASSUME NEW r \in Engines, InitializeAgents(r) \/ UnknownAgentType(r) \/ SeeStop(r) \/ MissingAgent(r) \/ Finish(r)
        PROVE  PromptInv'
    BY <2>1 DEF InitializeAgents, UnknownAgentType, SeeStop, MissingAgent, Finish, Ends
  <2>2. ASSUME NEW r \in Engines, RequestStop(r) PROVE PromptInv'
    BY <2>2 DEF RequestStop
  <2>3. ASSUME NEW r \in Engines, SkipUnknownAgent(r) PROVE PromptInv'
    BY <2>3 DEF SkipUnknownAgent, NextStep
  <2>4. ASSUME NEW r \in Engines, TakeMessages(r) PROVE PromptInv'
    <3>1. ~stop[r] /\ late[r] = 0
      BY <2>4 DEF TakeMessages, Goes
    <3> QED BY <2>4, <3>1 DEF TakeMessages
  <2>5. ASSUME NEW r \in Engines, Execute(r) PROVE PromptInv'
    BY <2>5 DEF Execute, NextStep, Counted
  <2>6. ASSUME NEW r \in Engines, Fail(r) PROVE PromptInv'
    BY <2>6 DEF Fail, Ends, NextStep, Counted
  <2>7. CASE UNCHANGED workflowVars
    BY <2>7 DEF workflowVars
  <2> QED BY <2>1, <2>2, <2>3, <2>4, <2>5, <2>6, <2>7, ActiveRuns DEF WorkflowNext, ExecuteWorkflow
<1> QED BY ControlTypesInvariant, <1>1, <1>2, PTL DEF WorkflowSpec

\* At most one step ends after stop_event is set, in any interleaving of any
\* number of runs: the check at the head of execute_workflow's loop.
THEOREM StopsArePrompt == WorkflowSpec => []StopIsPrompt
<1>1. PromptInv => StopIsPrompt
  BY DEF PromptInv, StopIsPrompt
<1> QED BY PromptInvariant, <1>1, PTL

-----------------------------------------------------------------------------
(* The error policy and success                                            *)

Able(n) == steps[n].agent \in Agents
Must(n) == Able(n) /\ (steps[n].onError = "stop" \/ (steps[n].known /\ ~setting.lineage))

\* Every step a run has passed was executed if it was able to be, or if failing
\* would have ended the run; a run that succeeds has passed every step.
PassedOf(at_s, phase_s, outcome_s, executed_s) ==
    /\ \A n \in executed_s : n < at_s
    /\ \A n \in Nat \ {0} : n < at_s /\ Must(n) => n \in executed_s
    /\ phase_s = "execute" => Able(at_s)
    /\ outcome_s = "true" => at_s \notin StepNumbers
    /\ phase_s # "done" => outcome_s = "none"
    /\ at_s <= Len(steps) + 1
    /\ phase_s = "execute" => at_s <= Len(steps)

PassedInv == \A s \in Engines : PassedOf(at[s], phase[s], outcome[s], executed[s])

LEMMA PassedAfter ==
    ASSUME UNCHANGED setting, \A s \in Engines : PassedOf(at'[s], phase'[s], outcome'[s], executed'[s])
    PROVE  PassedInv'
BY DEF PassedInv, PassedOf, Must, Able, StepNumbers, steps

LEMMA NextStepPasses ==
    ASSUME ControlTypes, PassedInv, NEW r \in Engines, NextStep(r), UNCHANGED <<setting, outcome>>,
           at[r] \in StepNumbers, phase[r] # "done",
           executed' \in {executed, [executed EXCEPT ![r] = @ \cup {at[r]}]},
           Must(at[r]) => at[r] \in executed'[r]
    PROVE  PassedInv'
<1>1. /\ at[r] \in Nat \ {0} /\ at'[r] = at[r] + 1 /\ \A s \in Engines \ {r} : at'[s] = at[s]
      /\ phase'[r] = "top" /\ \A s \in Engines \ {r} : phase'[s] = phase[s]
  BY DEF ControlTypes, NextStep
<1>2. /\ \A s \in Engines \ {r} : executed'[s] = executed[s]
      /\ executed'[r] \in {executed[r], executed[r] \cup {at[r]}}
  BY DEF ControlTypes
<1>3. PassedOf(at[r], phase[r], outcome[r], executed[r])
  BY DEF PassedInv
<1>4. ASSUME NEW s \in Engines
      PROVE  PassedOf(at'[s], phase'[s], outcome'[s], executed'[s])
  <2>1. CASE s = r
    <3>1. Len(steps) \in Nat /\ executed[r] \subseteq Nat
      BY DEF ControlTypes, Circumstances, steps
    <3>2. at'[r] <= Len(steps) + 1
      BY <1>1, <3>1 DEF StepNumbers
    <3>3. \A n \in executed'[r] : n < at'[r]
      BY <1>1, <1>2, <1>3, <3>1 DEF PassedOf
    <3>4. \A n \in Nat \ {0} : n < at'[r] /\ Must(n) => n \in executed'[r]
      BY <1>1, <1>2, <1>3, <3>1 DEF PassedOf
    <3>5. phase'[r] = "top" /\ outcome'[r] = "none"
      BY <1>1, <1>3 DEF PassedOf
    <3> QED BY <2>1, <3>2, <3>3, <3>4, <3>5 DEF PassedOf
  <2>2. CASE s # r
    BY <2>2, <1>1, <1>2 DEF PassedInv
  <2> QED BY <2>1, <2>2
<1> QED BY <1>4, PassedAfter

LEMMA EndPasses ==
    ASSUME ControlTypes, PassedInv, NEW r \in Engines, NEW how, Ends(r, how), UNCHANGED <<setting, at, executed>>,
           how = "true" => at[r] \notin StepNumbers
    PROVE  PassedInv'
<1>1. /\ phase'[r] = "done" /\ outcome'[r] = how
      /\ \A s \in Engines \ {r} : phase'[s] = phase[s] /\ outcome'[s] = outcome[s]
  BY DEF ControlTypes, Ends
<1>2. ASSUME NEW s \in Engines
      PROVE  PassedOf(at'[s], phase'[s], outcome'[s], executed'[s])
  <2>1. CASE s = r
    BY <2>1, <1>1 DEF PassedInv, PassedOf
  <2>2. CASE s # r
    BY <2>2, <1>1 DEF PassedInv
  <2> QED BY <2>1, <2>2
<1> QED BY <1>2, PassedAfter

LEMMA PassedInvariant == WorkflowSpec => []PassedInv
<1>1. WorkflowInit => PassedInv
  BY WEAssumption DEF WorkflowInit, PassedInv, PassedOf, Circumstances, steps
<1>2. ControlTypes /\ PassedInv /\ [WorkflowNext]_workflowVars => PassedInv'
  <2> SUFFICES ASSUME ControlTypes, PassedInv, [WorkflowNext]_workflowVars PROVE PassedInv'
    OBVIOUS
  <2>1. ASSUME NEW r \in Engines, InitializeAgents(r) PROVE PassedInv'
    BY <2>1 DEF InitializeAgents, ControlTypes, PassedInv, PassedOf, Must, Able, steps, StepNumbers
  <2>2. ASSUME NEW r \in Engines, UnknownAgentType(r) \/ SeeStop(r) \/ MissingAgent(r) \/ Finish(r) PROVE PassedInv'
    BY <2>2, EndPasses DEF UnknownAgentType, SeeStop, MissingAgent, Finish
  <2>3. ASSUME NEW r \in Engines, RequestStop(r) PROVE PassedInv'
    BY <2>3 DEF RequestStop, PassedInv, PassedOf, Must, Able, steps, StepNumbers
  <2>4. ASSUME NEW r \in Engines, SkipUnknownAgent(r) PROVE PassedInv'
    <3>1. ~Must(at[r]) /\ at[r] \in StepNumbers /\ phase[r] # "done"
      BY <2>4 DEF SkipUnknownAgent, Goes, AtStep, Step, Must, Able
    <3> QED BY <2>4, <3>1, NextStepPasses DEF SkipUnknownAgent
  <2>5. ASSUME NEW r \in Engines, TakeMessages(r) PROVE PassedInv'
    BY <2>5 DEF TakeMessages, Goes, AtStep, Step, ControlTypes, PassedInv, PassedOf, Must, Able, steps, StepNumbers
  <2>6. ASSUME NEW r \in Engines, Execute(r) PROVE PassedInv'
    <3>1. at[r] \in StepNumbers /\ phase[r] # "done"
      BY <2>6, WEAssumption DEF Execute, PassedInv, PassedOf, ControlTypes, StepNumbers, Circumstances, steps
    <3>2. /\ executed' = [executed EXCEPT ![r] = @ \cup {at[r]}] /\ at[r] \in executed'[r]
      BY <2>6 DEF Execute, ControlTypes
    <3> QED BY <2>6, <3>1, <3>2, NextStepPasses DEF Execute
  <2>7. ASSUME NEW r \in Engines, Fail(r) PROVE PassedInv'
    <3>1. at[r] \in StepNumbers /\ phase[r] # "done"
      BY <2>7, WEAssumption DEF Fail, PassedInv, PassedOf, ControlTypes, StepNumbers, Circumstances, steps
    <3>2. CASE Step(r).onError = "stop"
      BY <2>7, <3>2, EndPasses DEF Fail
    <3>3. CASE Step(r).onError # "stop"
      <4>1. ~Must(at[r])
        BY <2>7, <3>3 DEF Fail, Works, Step, Must
      <4> QED BY <2>7, <3>1, <3>3, <4>1, NextStepPasses DEF Fail
    <3> QED BY <3>2, <3>3
  <2>8. CASE UNCHANGED workflowVars
    BY <2>8 DEF workflowVars, PassedInv, PassedOf, Must, Able, steps, StepNumbers
  <2> QED BY <2>1, <2>2, <2>3, <2>4, <2>5, <2>6, <2>7, <2>8, ActiveRuns DEF WorkflowNext, ExecuteWorkflow
<1> QED BY ControlTypesInvariant, <1>1, <1>2, PTL DEF WorkflowSpec

\* No step is executed behind one that failed under the policy "stop":
\* execute_workflow's return from its exception handler.
THEOREM ErrorPolicyHolds == WorkflowSpec => []StopPolicyHolds
<1>1. ControlTypes /\ PassedInv => StopPolicyHolds
  <2> SUFFICES ASSUME ControlTypes, PassedInv, NEW r \in Engines, NEW n \in StepNumbers, n \in executed[r],
                      NEW m \in 1..(n - 1), steps[m].onError = "stop", steps[m].agent \in Agents
               PROVE  m \in executed[r]
    BY DEF StopPolicyHolds
  <2>1. n < at[r] /\ n \in Nat /\ at[r] \in Nat
    BY DEF PassedInv, PassedOf, ControlTypes
  <2>2. m \in Nat \ {0} /\ m < at[r] /\ Must(m)
    BY <2>1 DEF Must, Able
  <2> QED BY <2>2 DEF PassedInv, PassedOf
<1> QED BY ControlTypesInvariant, PassedInvariant, <1>1, PTL

\* Without the lineage package a run that reports success has executed every
\* step whose agent is configured and knows its action: the fall through the
\* loop of execute_workflow.
THEOREM SuccessIsEarned == WorkflowSpec => []SuccessMeansWork
<1>1. ControlTypes /\ PassedInv => SuccessMeansWork
  <2> SUFFICES ASSUME ControlTypes, PassedInv, NEW r \in Engines, outcome[r] = "true", ~setting.lineage,
                      NEW n \in StepNumbers, steps[n].agent \in Agents, steps[n].known
               PROVE  n \in executed[r]
    BY DEF SuccessMeansWork
  <2>1. Len(steps) \in Nat /\ at[r] \in Nat \ {0} /\ at[r] \notin StepNumbers
    BY DEF PassedInv, PassedOf, ControlTypes, Circumstances, steps
  <2>2. n \in Nat \ {0} /\ n < at[r] /\ Must(n)
    BY <2>1 DEF StepNumbers, Must, Able
  <2> QED BY <2>2 DEF PassedInv, PassedOf
<1> QED BY ControlTypesInvariant, PassedInvariant, <1>1, PTL

-----------------------------------------------------------------------------
(* Types, and who finds which results                                      *)

LEMMA StepsAreTyped ==
    ASSUME ControlTypes
    PROVE  /\ Len(steps) \in Nat /\ StepNumbers \subseteq Nat \ {0}
           /\ \A n \in StepNumbers : steps[n] \in StepRecords
BY DEF ControlTypes, Circumstances, steps, StepNumbers

\* A step is reached at the top of the loop or after get_messages.
LEMMA ExecutedStep ==
    ASSUME ControlTypes, PassedInv, NEW r \in Engines, phase[r] = "execute"
    PROVE  at[r] \in StepNumbers /\ Step(r).agent \in Agents
BY DEF ControlTypes, PassedInv, PassedOf, StepNumbers, Step, Able, Circumstances, steps

DataTypes ==
    /\ queues \in [Engines -> [Agents -> Seq(Messages)]]
    /\ inputs \in [StepNumbers -> Seq(Messages)]
    /\ reads \in [Engines -> Seq(Messages)]

LEMMA SettingKeepsMessages ==
    ASSUME UNCHANGED setting
    PROVE  Messages' = Messages /\ StepNumbers' = StepNumbers /\ steps' = steps
BY DEF Messages, StepNumbers, steps

LEMMA DataTypesInvariant == WorkflowSpec => []DataTypes
<1>1. WorkflowInit => DataTypes
  BY DEF WorkflowInit, DataTypes
<1>2. ControlTypes /\ PassedInv /\ DataTypes /\ [WorkflowNext]_workflowVars => DataTypes'
  <2> SUFFICES ASSUME ControlTypes, PassedInv, DataTypes, [WorkflowNext]_workflowVars PROVE DataTypes'
    OBVIOUS
  <2>0. ASSUME UNCHANGED <<setting, queues, inputs, reads>> PROVE DataTypes'
    BY <2>0, SettingKeepsMessages DEF DataTypes
  <2>1. ASSUME NEW r \in Engines, InitializeAgents(r) \/ UnknownAgentType(r) \/ SeeStop(r) \/ MissingAgent(r)
                                 \/ Finish(r) \/ RequestStop(r) \/ SkipUnknownAgent(r) \/ Fail(r)
        PROVE  DataTypes'
    BY <2>0, <2>1 DEF InitializeAgents, UnknownAgentType, SeeStop, MissingAgent, Finish, RequestStop,
                      SkipUnknownAgent, Fail
  <2>2. ASSUME NEW r \in Engines, TakeMessages(r) PROVE DataTypes'
    <3> DEFINE messages == queues[r][Step(r).agent]
    <3>1. messages \in Seq(Messages) /\ at[r] \in StepNumbers
      BY <2>2 DEF TakeMessages, Goes, AtStep, DataTypes
    <3>2. UNCHANGED setting
      BY <2>2 DEF TakeMessages
    <3>3. queues' \in [Engines -> [Agents -> Seq(Messages)]]
      BY <2>2 DEF TakeMessages, DataTypes
    <3>4. inputs' \in [StepNumbers -> Seq(Messages)]
      BY <2>2, <3>1 DEF TakeMessages, DataTypes
    <3>5. reads' \in [Engines -> Seq(Messages)]
      BY <2>2, <3>1 DEF TakeMessages, DataTypes
    <3> QED BY <3>2, <3>3, <3>4, <3>5, SettingKeepsMessages DEF DataTypes
  <2>3. ASSUME NEW r \in Engines, Execute(r) PROVE DataTypes'
    <3>1. UNCHANGED <<setting, inputs, reads>>
      BY <2>3 DEF Execute
    <3>2. [run |-> r, step |-> at[r]] \in Messages
      BY <2>3, ExecutedStep DEF Execute, Messages
    <3>3. queues' \in [Engines -> [Agents -> Seq(Messages)]]
      BY <2>3, <3>2 DEF Execute, DataTypes
    <3> QED BY <3>1, <3>3, SettingKeepsMessages DEF DataTypes
  <2>4. CASE UNCHANGED workflowVars
    BY <2>0, <2>4 DEF workflowVars
  <2> QED BY <2>1, <2>2, <2>3, <2>4, ActiveRuns DEF WorkflowNext, ExecuteWorkflow
<1> QED BY ControlTypesInvariant, PassedInvariant, <1>1, <1>2, PTL DEF WorkflowSpec

LateInv == \A r \in Engines : late[r] <= Len(steps)

LEMMA LateInvariant == WorkflowSpec => []LateInv
<1>1. WorkflowInit => LateInv
  BY WEAssumption DEF WorkflowInit, LateInv, Circumstances, steps
<1>2. ControlTypes /\ PassedInv /\ PromptInv /\ LateInv /\ [WorkflowNext]_workflowVars => LateInv'
  <2> SUFFICES ASSUME ControlTypes, PassedInv, PromptInv, LateInv, [WorkflowNext]_workflowVars PROVE LateInv'
    OBVIOUS
  <2>1. ASSUME NEW r \in Engines, Execute(r) \/ Fail(r) PROVE LateInv'
    <3>1. at[r] \in StepNumbers /\ late[r] = 0 /\ 1 <= Len(steps)
      BY <2>1, ExecutedStep, StepsAreTyped DEF Execute, Fail, PromptInv, StepNumbers
    <3>2. steps' = steps /\ Counted(r)
      BY <2>1 DEF Execute, Fail, steps
    <3>3. \A s \in Engines : late'[s] <= Len(steps)
      BY <3>1, <3>2, StepsAreTyped DEF Counted, ControlTypes, LateInv
    <3> QED BY <3>2, <3>3 DEF LateInv
  <2>2. ASSUME UNCHANGED <<late, setting>> PROVE LateInv'
    BY <2>2 DEF LateInv, steps
  <2>3. ASSUME NEW r \in Engines, ExecuteWorkflow(r) \/ RequestStop(r), ~Execute(r), ~Fail(r)
        PROVE  UNCHANGED <<late, setting>>
    BY <2>3 DEF ExecuteWorkflow, InitializeAgents, UnknownAgentType, SeeStop, MissingAgent, Finish,
                RequestStop, SkipUnknownAgent, TakeMessages
  <2>4. CASE UNCHANGED workflowVars
    BY <2>2, <2>4 DEF workflowVars
  <2> QED BY <2>1, <2>2, <2>3, <2>4, ActiveRuns DEF WorkflowNext
<1> QED BY ControlTypesInvariant, PassedInvariant, PromptInvariant, <1>1, <1>2, PTL DEF WorkflowSpec

\* Every variable keeps its type.
THEOREM WorkflowTypes == WorkflowSpec => []WorkflowTypeOK
<1>1. ControlTypes /\ PassedInv /\ DataTypes /\ LateInv => WorkflowTypeOK
  <2> SUFFICES ASSUME ControlTypes, PassedInv, DataTypes, LateInv PROVE WorkflowTypeOK
    OBVIOUS
  <2>1. \A r \in Engines : at[r] \in 1..(Len(steps) + 1)
    BY StepsAreTyped DEF ControlTypes, PassedInv, PassedOf
  <2>2. \A r \in Engines : late[r] \in 0..Len(steps)
    BY StepsAreTyped DEF ControlTypes, LateInv
  <2>3. \A r \in Engines : executed[r] \subseteq StepNumbers
    <3> SUFFICES ASSUME NEW r \in Engines, NEW n \in executed[r] PROVE n \in StepNumbers
      OBVIOUS
    <3>1. n \in Nat /\ n < at[r] /\ at[r] <= Len(steps) + 1 /\ at[r] \in Nat
      BY DEF ControlTypes, PassedInv, PassedOf
    <3> QED BY <3>1, StepsAreTyped DEF ControlTypes, StepNumbers
  <2> QED BY <2>1, <2>2, <2>3 DEF WorkflowTypeOK, ControlTypes, DataTypes
<1> QED BY ControlTypesInvariant, PassedInvariant, DataTypesInvariant, LateInvariant, <1>1, PTL

-----------------------------------------------------------------------------
(* The messages between the steps of a run                                 *)

\* A queue holds the results of these steps of the run, in the steps' order.
Carries(q, r, results) ==
    /\ \A i \in DOMAIN q : q[i].run = r /\ q[i].step \in results
    /\ \A m \in results : \E i \in DOMAIN q : q[i] = [run |-> r, step |-> m]
    /\ \A i, j \in DOMAIN q : i < j => q[i].step < q[j].step

\* What a queue of the run holds before step n: results sent to the agent since
\* its step before.
DueTo(n, a, done) ==
    {m \in done : /\ m < n /\ a \in steps[m].outputTo
                  /\ \A p \in StepNumbers : p < n /\ steps[p].agent = a => m >= p}

\* At the top of the loop each queue holds what is due to its agent; in a step
\* the agent's own queue has been handed over.  A run that has the configuration
\* to itself finds no messages in the inputs of the steps to come.
FlowOf(r) ==
    /\ phase[r] \in {"init", "top"} =>
         \A a \in Agents : Carries(queues[r][a], r, DueTo(at[r], a, executed[r]))
    /\ phase[r] = "execute" =>
         /\ \A a \in Agents \ {Step(r).agent} : Carries(queues[r][a], r, DueTo(at[r], a, executed[r]))
         /\ queues[r][Step(r).agent] = <<>>
         /\ Carries(reads[r], r, DueTo(at[r], Step(r).agent, executed[r]))
    /\ setting.runs = {r} =>
         /\ \A n \in StepNumbers : n > at[r] => inputs[n] = <<>>
         /\ phase[r] \in {"init", "top"} /\ at[r] \in StepNumbers => inputs[at[r]] = <<>>
         /\ phase[r] = "execute" /\ Step(r).input => inputs[at[r]] = reads[r]

FlowInv == \A r \in Engines : FlowOf(r)

LEMMA CarriesNothing == ASSUME NEW r PROVE Carries(<<>>, r, {})
BY DEF Carries

LEMMA CarriesOneMore ==
    ASSUME ControlTypes, NEW q \in Seq(Messages), NEW r \in Engines, NEW results, NEW n \in StepNumbers,
           Carries(q, r, results), \A m \in results : m < n
    PROVE  Carries(Append(q, [run |-> r, step |-> n]), r, results \cup {n})
<1> DEFINE sent == [run |-> r, step |-> n]
           queue == Append(q, sent)
<1>1. /\ Len(q) \in Nat /\ DOMAIN q = 1..Len(q) /\ DOMAIN queue = 1..(Len(q) + 1)
      /\ queue[Len(q) + 1] = sent /\ \A i \in DOMAIN q : queue[i] = q[i]
  OBVIOUS
<1>2. sent.run = r /\ sent.step = n
  OBVIOUS
<1> HIDE DEF queue, sent
<1>3. \A i \in DOMAIN queue : i \in DOMAIN q \/ i = Len(q) + 1
  BY <1>1
<1>4. \A i \in DOMAIN queue : queue[i].run = r /\ queue[i].step \in results \cup {n}
  BY <1>1, <1>2, <1>3 DEF Carries
<1>5. \A m \in results \cup {n} : \E i \in DOMAIN queue : queue[i] = [run |-> r, step |-> m]
  <2>1. \E i \in DOMAIN queue : queue[i] = [run |-> r, step |-> n]
    BY <1>1 DEF sent
  <2>2. \A m \in results : \E i \in DOMAIN q : q[i] = [run |-> r, step |-> m]
    BY DEF Carries
  <2>3. \A i \in DOMAIN q : i \in DOMAIN queue
    BY <1>1
  <2> QED BY <1>1, <2>1, <2>2, <2>3
<1>6. ASSUME NEW i \in DOMAIN queue, NEW j \in DOMAIN queue, i < j
      PROVE  queue[i].step < queue[j].step
  <2>1. i \in DOMAIN q
    BY <1>1, <1>3, <1>6
  <2>2. CASE j \in DOMAIN q
    BY <1>1, <1>6, <2>1, <2>2 DEF Carries
  <2>3. CASE j = Len(q) + 1
    BY <1>1, <1>2, <2>1, <2>3 DEF Carries
  <2> QED BY <1>3, <2>2, <2>3
<1> QED BY <1>4, <1>5, <1>6 DEF Carries, queue, sent

\* What is due changes as the run passes a step: for the step's own agent
\* nothing older is left; for another agent the result is added, if it is sent
\* there and the step was executed.
LEMMA DueToOther ==
    ASSUME ControlTypes, NEW n \in StepNumbers, NEW a, a # steps[n].agent,
           NEW done \in SUBSET (Nat \ {0}), \A m \in done : m < n
    PROVE  /\ DueTo(n + 1, a, done) = DueTo(n, a, done)
           /\ a \in steps[n].outputTo => DueTo(n + 1, a, done \cup {n}) = DueTo(n, a, done) \cup {n}
           /\ a \notin steps[n].outputTo => DueTo(n + 1, a, done \cup {n}) = DueTo(n, a, done)
<1>1. \A p \in StepNumbers : (p < n + 1 /\ steps[p].agent = a) <=> (p < n /\ steps[p].agent = a)
  BY StepsAreTyped
<1>2. /\ n \in Nat \ {0} /\ n < n + 1
      /\ \A m \in done \cup {n} : m < n + 1
      /\ \A p \in StepNumbers : p < n => n >= p
      /\ \A m \in done : m < n + 1 <=> m < n
  BY StepsAreTyped
<1> DEFINE free(m) == \A p \in StepNumbers : p < n /\ steps[p].agent = a => m >= p
<1>3. \A all : DueTo(n, a, all) = {m \in all : m < n /\ a \in steps[m].outputTo /\ free(m)}
  BY DEF DueTo
<1>4. \A all : DueTo(n + 1, a, all) = {m \in all : m < n + 1 /\ a \in steps[m].outputTo /\ free(m)}
  BY <1>1 DEF DueTo
<1>5. free(n)
  BY <1>2
<1> HIDE DEF free
<1>6. DueTo(n + 1, a, done) = DueTo(n, a, done)
  BY <1>2, <1>3, <1>4
<1>7. ASSUME a \in steps[n].outputTo PROVE DueTo(n + 1, a, done \cup {n}) = DueTo(n, a, done) \cup {n}
  <2>1. n \in DueTo(n + 1, a, done \cup {n})
    BY <1>2, <1>4, <1>5, <1>7
  <2>2. \A m \in done : m \in DueTo(n + 1, a, done \cup {n}) <=> m \in DueTo(n, a, done)
    BY <1>2, <1>3, <1>4
  <2>3. DueTo(n + 1, a, done \cup {n}) \subseteq done \cup {n} /\ DueTo(n, a, done) \subseteq done
    BY <1>3, <1>4
  <2> QED BY <2>1, <2>2, <2>3
<1>8. ASSUME a \notin steps[n].outputTo PROVE DueTo(n + 1, a, done \cup {n}) = DueTo(n, a, done)
  BY <1>2, <1>3, <1>4, <1>5, <1>8
<1> QED BY <1>6, <1>7, <1>8

LEMMA DueToOwn ==
    ASSUME ControlTypes, NEW n \in StepNumbers, NEW a, a = steps[n].agent,
           NEW done \in SUBSET (Nat \ {0}), \A m \in done : m < n
    PROVE  /\ DueTo(n + 1, a, done) = {}
           /\ a \in steps[n].outputTo => DueTo(n + 1, a, done \cup {n}) = {n}
           /\ a \notin steps[n].outputTo => DueTo(n + 1, a, done \cup {n}) = {}
<1>1. n \in Nat \ {0} /\ n < n + 1 /\ n >= n /\ \A m \in done : ~(m >= n)
  BY StepsAreTyped
<1>2. \A all : \A m \in DueTo(n + 1, a, all) : m \in all /\ m >= n /\ a \in steps[m].outputTo
  BY <1>1 DEF DueTo
<1>3. a \in steps[n].outputTo => n \in DueTo(n + 1, a, done \cup {n})
  BY <1>1, StepsAreTyped DEF DueTo
<1>4. DueTo(n + 1, a, done) = {}
  BY <1>1, <1>2
<1>5. DueTo(n + 1, a, done \cup {n}) \subseteq {n}
  BY <1>1, <1>2
<1>6. a \notin steps[n].outputTo => n \notin DueTo(n + 1, a, done \cup {n})
  BY <1>2
<1> QED BY <1>3, <1>4, <1>5, <1>6

\* The same for the step a run is at.
LEMMA DueToNext ==
    ASSUME ControlTypes, PassedInv, NEW r \in Engines, at[r] \in StepNumbers, NEW a
    PROVE  LET n == at[r]
               due == DueTo(n, a, executed[r])
           IN /\ a # Step(r).agent =>
                   /\ DueTo(n + 1, a, executed[r]) = due
                   /\ DueTo(n + 1, a, executed[r] \cup {n}) =
                        IF a \in Step(r).outputTo THEN due \cup {n} ELSE due
              /\ a = Step(r).agent =>
                   /\ DueTo(n + 1, a, executed[r]) = {}
                   /\ DueTo(n + 1, a, executed[r] \cup {n}) =
                        IF a \in Step(r).outputTo THEN {n} ELSE {}
<1>1. executed[r] \in SUBSET (Nat \ {0}) /\ \A m \in executed[r] : m < at[r]
  BY DEF ControlTypes, PassedInv, PassedOf
<1>2. CASE a # Step(r).agent
  <2> DEFINE due == DueTo(at[r], a, executed[r])
             next == DueTo(at[r] + 1, a, executed[r] \cup {at[r]})
  <2>1. a # steps[at[r]].agent
    BY <1>2 DEF Step
  <2>2. /\ DueTo(at[r] + 1, a, executed[r]) = due
        /\ a \in steps[at[r]].outputTo => next = due \cup {at[r]}
        /\ a \notin steps[at[r]].outputTo => next = due
    <3> DEFINE n == at[r]
    <3>1. n \in StepNumbers /\ a # steps[n].agent
      BY <2>1
    <3>2. executed[r] \in SUBSET (Nat \ {0}) /\ \A m \in executed[r] : m < n
      BY <1>1
    <3> HIDE DEF n
    <3>3. /\ DueTo(n + 1, a, executed[r]) = DueTo(n, a, executed[r])
          /\ a \in steps[n].outputTo =>
                DueTo(n + 1, a, executed[r] \cup {n}) = DueTo(n, a, executed[r]) \cup {n}
          /\ a \notin steps[n].outputTo => DueTo(n + 1, a, executed[r] \cup {n}) = DueTo(n, a, executed[r])
      BY <3>1, <3>2, DueToOther
    <3> QED BY <3>3 DEF n
  <2> HIDE DEF due, next
  <2>3. /\ DueTo(at[r] + 1, a, executed[r]) = due
        /\ next = IF a \in Step(r).outputTo THEN due \cup {at[r]} ELSE due
    BY <2>2 DEF Step
  <2> QED BY <1>2, <2>3 DEF due, next
<1>3. CASE a = Step(r).agent
  <2>1. a = steps[at[r]].agent
    BY <1>3 DEF Step
  <2>2. /\ DueTo(at[r] + 1, a, executed[r]) = {}
        /\ a \in steps[at[r]].outputTo => DueTo(at[r] + 1, a, executed[r] \cup {at[r]}) = {at[r]}
        /\ a \notin steps[at[r]].outputTo => DueTo(at[r] + 1, a, executed[r] \cup {at[r]}) = {}
    BY <1>1, <2>1, DueToOwn
  <2> QED BY <1>3, <2>2 DEF Step
<1> QED BY <1>2, <1>3

LEMMA DueUnchanged ==
    ASSUME UNCHANGED setting
    PROVE  /\ \A n, a, done : DueTo(n, a, done)' = DueTo(n, a, done)
           /\ steps' = steps /\ StepNumbers' = StepNumbers
BY DEF DueTo, steps, StepNumbers

\* A step of one run touches no other run, and only then does another run have
\* no configuration to itself.
LEMMA FlowAfter ==
    ASSUME FlowInv, UNCHANGED setting, NEW r \in Engines, r \in setting.runs, FlowOf(r)',
           \A s \in Engines \ {r} : /\ at'[s] = at[s] /\ phase'[s] = phase[s] /\ queues'[s] = queues[s]
                                 /\ reads'[s] = reads[s] /\ executed'[s] = executed[s]
    PROVE  FlowInv'
<1> SUFFICES ASSUME NEW s \in Engines PROVE FlowOf(s)'
  BY DEF FlowInv
<1>1. CASE s = r
  BY <1>1
<1>2. CASE s # r
  BY <1>2, DueUnchanged DEF FlowInv, FlowOf, Step, Carries
<1> QED BY <1>1, <1>2

\* The run is back at the top of the loop, behind the step.
LEMMA RunGoesOn ==
    ASSUME ControlTypes, UNCHANGED setting, NEW r \in Engines, at[r] \in StepNumbers,
           phase'[r] = "top", at'[r] = at[r] + 1,
           \A a \in Agents : Carries(queues[r][a], r, DueTo(at[r], a, executed[r]))',
           setting.runs = {r} => \A n \in StepNumbers : n > at[r] => inputs'[n] = <<>>
    PROVE  FlowOf(r)'
<1>1. at[r] + 1 > at[r] /\ \A n \in StepNumbers : n > at[r] + 1 => n > at[r]
  BY StepsAreTyped
<1>2. setting'.runs = {r} => \A n \in StepNumbers' : n > at'[r] => inputs'[n] = <<>>
  BY <1>1, DueUnchanged
<1>3. setting'.runs = {r} /\ at'[r] \in StepNumbers' => inputs'[at'[r]] = <<>>
  BY <1>1, DueUnchanged
<1> QED BY <1>2, <1>3 DEF FlowOf

LEMMA FlowInvariant == WorkflowSpec => []FlowInv
<1>1. WorkflowInit => FlowInv
  <2> SUFFICES ASSUME WorkflowInit, NEW r \in Engines PROVE FlowOf(r)
    BY DEF FlowInv
  <2>1. \A a \in Agents : queues[r][a] = <<>> /\ DueTo(at[r], a, executed[r]) = {}
    BY DEF WorkflowInit, DueTo
  <2>2. \A n \in StepNumbers : inputs[n] = <<>>
    BY DEF WorkflowInit
  <2>3. phase[r] = "init"
    BY DEF WorkflowInit
  <2> QED BY <2>1, <2>2, <2>3, CarriesNothing DEF FlowOf
<1>2. ControlTypes /\ PassedInv /\ DataTypes /\ FlowInv /\ [WorkflowNext]_workflowVars => FlowInv'
  <2> SUFFICES ASSUME ControlTypes, PassedInv, DataTypes, FlowInv, [WorkflowNext]_workflowVars PROVE FlowInv'
    OBVIOUS
  <2>0. ASSUME NEW r \in Engines
        PROVE  /\ FlowOf(r) /\ at[r] \in Nat \ {0} /\ executed[r] \in SUBSET (Nat \ {0})
               /\ \A m \in executed[r] : m < at[r]
    BY DEF FlowInv, ControlTypes, PassedInv, PassedOf
  <2>1. ASSUME NEW r \in Engines, r \in setting.runs,
               InitializeAgents(r) \/ UnknownAgentType(r) \/ SeeStop(r) \/ MissingAgent(r) \/ Finish(r)
        PROVE  FlowInv'
    <3>1. UNCHANGED <<setting, at, queues, inputs, reads, executed>>
      BY <2>1 DEF InitializeAgents, UnknownAgentType, SeeStop, MissingAgent, Finish
    <3>2. /\ \A s \in Engines \ {r} : phase'[s] = phase[s]
          /\ phase'[r] \in {"top", "done"} /\ (phase'[r] = "top" => phase[r] = "init")
      BY <2>1 DEF InitializeAgents, UnknownAgentType, SeeStop, MissingAgent, Finish, Ends, ControlTypes
    <3>3. FlowOf(r)'
      BY <3>1, <3>2, <2>0, DueUnchanged DEF FlowOf, Step, Carries
    <3> QED BY <2>1, <3>1, <3>2, <3>3, FlowAfter
  <2>2. ASSUME NEW r \in Engines, r \in setting.runs, SkipUnknownAgent(r) PROVE FlowInv'
    <3>1. /\ UNCHANGED <<setting, queues, inputs, reads, executed>> /\ phase[r] = "top"
          /\ at[r] \in StepNumbers /\ Step(r).agent \notin Agents
      BY <2>2 DEF SkipUnknownAgent, Goes, AtStep
    <3>2. /\ \A s \in Engines \ {r} : phase'[s] = phase[s] /\ at'[s] = at[s]
          /\ phase'[r] = "top" /\ at'[r] = at[r] + 1
      BY <2>2, <2>0 DEF SkipUnknownAgent, NextStep, ControlTypes
    <3>3. \A a \in Agents : DueTo(at[r] + 1, a, executed[r]) = DueTo(at[r], a, executed[r])
      BY <3>1, DueToNext
    <3>5. FlowOf(r)'
      <4>1. \A a \in Agents : Carries(queues[r][a], r, DueTo(at[r], a, executed[r]))'
        BY <2>0, <3>1, <3>2, <3>3, DueUnchanged DEF FlowOf, Carries
      <4>2. setting.runs = {r} => \A n \in StepNumbers : n > at[r] => inputs'[n] = <<>>
        BY <2>0, <3>1 DEF FlowOf
      <4> QED BY <3>1, <3>2, <4>1, <4>2, RunGoesOn
    <3> QED BY <2>2, <3>1, <3>2, <3>5, FlowAfter
  <2>3. ASSUME NEW r \in Engines, RequestStop(r) PROVE FlowInv'
    BY <2>3, DueUnchanged DEF RequestStop, FlowInv, FlowOf, Step, Carries
  <2>4. ASSUME NEW r \in Engines, r \in setting.runs, TakeMessages(r) PROVE FlowInv'
    <3> DEFINE agent == Step(r).agent
    <3>1. /\ UNCHANGED <<setting, at, executed>> /\ phase[r] = "top"
          /\ at[r] \in StepNumbers /\ agent \in Agents
      BY <2>4 DEF TakeMessages, Goes, AtStep
    <3>2. /\ \A s \in Engines \ {r} : phase'[s] = phase[s] /\ queues'[s] = queues[s] /\ reads'[s] = reads[s]
          /\ phase'[r] = "execute" /\ reads'[r] = queues[r][agent]
          /\ queues'[r][agent] = <<>> /\ \A a \in Agents \ {agent} : queues'[r][a] = queues[r][a]
      BY <2>4, <3>1 DEF TakeMessages, ControlTypes, DataTypes
    <3>3. inputs' = IF queues[r][agent] # <<>> /\ Step(r).input
                      THEN [inputs EXCEPT ![at[r]] = queues[r][agent]] ELSE inputs
      BY <2>4 DEF TakeMessages
    <3>4. \A n \in StepNumbers \ {at[r]} : inputs'[n] = inputs[n]
      BY <3>3 DEF DataTypes
    <3>5. Step(r).input /\ queues[r][agent] # <<>> => inputs'[at[r]] = queues[r][agent]
      BY <3>1, <3>3 DEF DataTypes
    <3>6. queues[r][agent] = <<>> => inputs'[at[r]] = inputs[at[r]]
      BY <3>3
    <3>7. Step(r)' = Step(r)
      BY <3>1 DEF Step, steps
    <3>8. phase[r] = "top" => Carries(queues[r][agent], r, DueTo(at[r], agent, executed[r]))
      BY <2>0, <3>1 DEF FlowOf
    <3>9. FlowOf(r)'
      <4> HIDE DEF agent
      <4>1. /\ \A a \in Agents \ {agent} : Carries(queues[r][a], r, DueTo(at[r], a, executed[r]))'
            /\ Carries(reads[r], r, DueTo(at[r], agent, executed[r]))'
        <5>1. \A a \in Agents \ {agent} : Carries(queues[r][a], r, DueTo(at[r], a, executed[r]))
          BY <2>0, <3>1 DEF FlowOf
        <5>2. \A a \in Agents \ {agent} : Carries(queues'[r][a], r, DueTo(at'[r], a, executed'[r]))
          BY <3>1, <3>2, <5>1
        <5>3. Carries(reads'[r], r, DueTo(at'[r], agent, executed'[r]))
          BY <3>1, <3>2, <3>8
        <5>4. agent' = agent
          BY <3>7 DEF agent
        <5> QED BY <3>1, <5>2, <5>3, <5>4, DueUnchanged DEF Carries
      <4>2. setting.runs = {r} => \A n \in StepNumbers : n > at[r] => inputs'[n] = <<>>
        BY <2>0, <3>1, <3>4, StepsAreTyped DEF FlowOf
      <4>3. setting.runs = {r} /\ Step(r).input => inputs'[at[r]] = reads'[r]
        BY <2>0, <3>1, <3>2, <3>5, <3>6 DEF FlowOf
      <4> QED BY <3>1, <3>2, <3>7, <4>1, <4>2, <4>3, DueUnchanged DEF FlowOf, agent
    <3> QED BY <2>4, <3>1, <3>2, <3>9, FlowAfter
  <2>5. ASSUME NEW r \in Engines, r \in setting.runs, Execute(r) PROVE FlowInv'
    <3> DEFINE agent == Step(r).agent
               sent == [run |-> r, step |-> at[r]]
    <3>1. /\ UNCHANGED <<setting, inputs, reads>> /\ phase[r] = "execute"
          /\ at[r] \in StepNumbers /\ agent \in Agents
      BY <2>5, ExecutedStep DEF Execute
    <3>2. /\ \A s \in Engines \ {r} : /\ phase'[s] = phase[s] /\ at'[s] = at[s]
                                   /\ queues'[s] = queues[s] /\ executed'[s] = executed[s]
          /\ phase'[r] = "top" /\ at'[r] = at[r] + 1 /\ executed'[r] = executed[r] \cup {at[r]}
      BY <2>5, <2>0 DEF Execute, NextStep, ControlTypes, DataTypes
    <3>3. \A a \in Agents : queues'[r][a] =
            IF a \in Step(r).outputTo THEN Append(queues[r][a], sent) ELSE queues[r][a]
      BY <2>5 DEF Execute, Delivered, DataTypes
    <3>5. ASSUME NEW a \in Agents
          PROVE  Carries(queues'[r][a], r, DueTo(at[r] + 1, a, executed[r] \cup {at[r]}))
      <4>1. queues[r][a] \in Seq(Messages)
        BY DEF DataTypes
      <4>2. CASE a = agent
        <5>1. queues[r][a] = <<>> /\ Carries(queues[r][a], r, {})
          BY <2>0, <3>1, <4>2, CarriesNothing DEF FlowOf
        <5>2. a \in Step(r).outputTo => Carries(Append(queues[r][a], sent), r, {} \cup {at[r]})
          BY <3>1, <4>1, <5>1, CarriesOneMore
        <5>3. DueTo(at[r] + 1, a, executed[r] \cup {at[r]}) = IF a \in Step(r).outputTo THEN {at[r]} ELSE {}
          BY <3>1, <4>2, DueToNext
        <5> QED BY <3>3, <5>1, <5>2, <5>3
      <4>3. CASE a # agent
        <5>1. Carries(queues[r][a], r, DueTo(at[r], a, executed[r]))
          BY <2>0, <3>1, <4>3 DEF FlowOf
        <5>2. \A m \in DueTo(at[r], a, executed[r]) : m < at[r]
          BY DEF DueTo
        <5>3. a \in Step(r).outputTo =>
                Carries(Append(queues[r][a], sent), r, DueTo(at[r], a, executed[r]) \cup {at[r]})
          BY <3>1, <4>1, <5>1, <5>2, CarriesOneMore
        <5>4. DueTo(at[r] + 1, a, executed[r] \cup {at[r]}) =
                IF a \in Step(r).outputTo THEN DueTo(at[r], a, executed[r]) \cup {at[r]}
                                          ELSE DueTo(at[r], a, executed[r])
          BY <3>1, <4>3, DueToNext
        <5> QED BY <3>3, <5>1, <5>3, <5>4
      <4> QED BY <4>2, <4>3
    <3>6. FlowOf(r)'
      <4>1. \A a \in Agents : Carries(queues[r][a], r, DueTo(at[r], a, executed[r]))'
        <5>1. \A a \in Agents : Carries(queues'[r][a], r, DueTo(at'[r], a, executed'[r]))
          BY <3>1, <3>2, <3>5
        <5> HIDE DEF sent, agent
        <5> QED BY <3>1, <5>1, DueUnchanged DEF Carries
      <4>2. setting.runs = {r} => \A n \in StepNumbers : n > at[r] => inputs'[n] = <<>>
        BY <2>0, <3>1 DEF FlowOf
      <4> QED BY <3>1, <3>2, <4>1, <4>2, RunGoesOn
    <3> QED BY <2>5, <3>1, <3>2, <3>6, FlowAfter
  <2>6. ASSUME NEW r \in Engines, r \in setting.runs, Fail(r) PROVE FlowInv'
    <3>1. /\ UNCHANGED <<setting, queues, inputs, reads, executed>> /\ phase[r] = "execute"
          /\ at[r] \in StepNumbers /\ Step(r).agent \in Agents
      BY <2>6, ExecutedStep DEF Fail
    <3>2. CASE Step(r).onError = "stop"
      <4>1. /\ \A s \in Engines \ {r} : phase'[s] = phase[s] /\ at'[s] = at[s]
            /\ phase'[r] = "done" /\ at'[r] = at[r]
        BY <2>6, <3>2 DEF Fail, Ends, ControlTypes
      <4>2. FlowOf(r)'
        BY <2>0, <3>1, <4>1, DueUnchanged DEF FlowOf
      <4> QED BY <2>6, <3>1, <4>1, <4>2, FlowAfter
    <3>3. CASE Step(r).onError # "stop"
      <4>1. /\ \A s \in Engines \ {r} : phase'[s] = phase[s] /\ at'[s] = at[s]
            /\ phase'[r] = "top" /\ at'[r] = at[r] + 1
        BY <2>6, <3>3, <2>0 DEF Fail, NextStep, ControlTypes
      <4>3. \A a \in Agents : Carries(queues[r][a], r, DueTo(at[r] + 1, a, executed[r]))
        <5> SUFFICES ASSUME NEW a \in Agents PROVE Carries(queues[r][a], r, DueTo(at[r] + 1, a, executed[r]))
          OBVIOUS
        <5>1. CASE a = Step(r).agent
          <6>1. queues[r][a] = <<>> /\ Carries(<<>>, r, {})
            BY <2>0, <3>1, <5>1, CarriesNothing DEF FlowOf
          <6> QED BY <3>1, <5>1, <6>1, DueToNext
        <5>2. CASE a # Step(r).agent
          <6>1. Carries(queues[r][a], r, DueTo(at[r], a, executed[r]))
            BY <2>0, <3>1, <5>2 DEF FlowOf
          <6> QED BY <3>1, <5>2, <6>1, DueToNext
        <5> QED BY <5>1, <5>2
      <4>4. FlowOf(r)'
        <5>1. \A a \in Agents : Carries(queues[r][a], r, DueTo(at[r], a, executed[r]))'
          BY <3>1, <4>1, <4>3, DueUnchanged DEF Carries
        <5>2. setting.runs = {r} => \A n \in StepNumbers : n > at[r] => inputs'[n] = <<>>
          BY <2>0, <3>1 DEF FlowOf
        <5> QED BY <3>1, <4>1, <5>1, <5>2, RunGoesOn
      <4> QED BY <2>6, <3>1, <4>1, <4>4, FlowAfter
    <3> QED BY <3>2, <3>3
  <2>7. CASE UNCHANGED workflowVars
    BY <2>7, DueUnchanged DEF workflowVars, FlowInv, FlowOf, Step, Carries
  <2> QED BY <2>1, <2>2, <2>3, <2>4, <2>5, <2>6, <2>7, ActiveRuns DEF WorkflowNext, ExecuteWorkflow
<1> QED BY ControlTypesInvariant, PassedInvariant, DataTypesInvariant, <1>1, <1>2, PTL DEF WorkflowSpec

\* A step of a run that has the configuration to itself finds in its input the
\* results sent to its agent since that agent's last step, each once, in the
\* order of the steps they come from: get_messages and send_message between the
\* iterations of execute_workflow.
THEOREM ResultsArrive == WorkflowSpec => []ResultsReachTheirStep
<1>1. ControlTypes /\ PassedInv /\ DataTypes /\ FlowInv => ResultsReachTheirStep
  <2> SUFFICES ASSUME ControlTypes, PassedInv, DataTypes, FlowInv,
                      NEW r \in Engines, phase[r] = "execute", setting.runs = {r}
               PROVE  FindsItsResults(r)
    BY DEF ResultsReachTheirStep
  <2> DEFINE due == DueTo(at[r], Step(r).agent, executed[r])
  <2>1. at[r] \in StepNumbers /\ Carries(reads[r], r, due) /\ Found(r) = reads[r]
    BY ExecutedStep DEF FlowInv, FlowOf, Found
  <2>2. Due(r, at[r]) = due
    BY <2>1, StepsAreTyped DEF Due, DueTo, Step, StepNumbers
  <2> HIDE DEF due
  <2>3. {reads[r][i] : i \in DOMAIN reads[r]} = {[run |-> r, step |-> m] : m \in due}
    <3>1. ASSUME NEW i \in DOMAIN reads[r] PROVE \E m \in due : reads[r][i] = [run |-> r, step |-> m]
      <4>1. reads[r][i] \in Messages
        BY DEF DataTypes
      <4> QED BY <2>1, <4>1 DEF Carries, Messages
    <3>2. \A m \in due : \E i \in DOMAIN reads[r] : reads[r][i] = [run |-> r, step |-> m]
      BY <2>1 DEF Carries
    <3> DEFINE message(m) == [run |-> r, step |-> m]
    <3>3. /\ \A i \in DOMAIN reads[r] : \E m \in due : reads[r][i] = message(m)
          /\ \A m \in due : \E i \in DOMAIN reads[r] : reads[r][i] = message(m)
      BY <3>1, <3>2
    <3> HIDE DEF message
    <3>4. {reads[r][i] : i \in DOMAIN reads[r]} = {message(m) : m \in due}
      BY <3>3
    <3> QED BY <3>4 DEF message
  <2> QED BY <2>1, <2>2, <2>3 DEF FindsItsResults, Carries
<1> QED BY ControlTypesInvariant, PassedInvariant, DataTypesInvariant, FlowInvariant, <1>1, PTL
=============================================================================
