------------------------ MODULE PipelineManagerProofs ------------------------
(***************************************************************************)
(* Theorems about PipelineManager for any sets of names, request threads   *)
(* and runs, and any limit on threads; and that it stays itself, and the   *)
(* engines themselves, where AgentWorkflow puts them together.             *)
(***************************************************************************)
EXTENDS AgentWorkflow, TLAPS

LEMMA InitIInv == Init => IInv
<1> SUFFICES ASSUME Init PROVE IInv
    OBVIOUS
<1> USE PMAssumption DEF Init
<1>1. TypeOK
    BY DEF TypeOK, RunStatuses, Replies
<1>2. RunningIsCurrent /\ StoppedNeverCompletes /\ NoDeadRunning /\ StopReplyHonest
    BY DEF RunningIsCurrent, StoppedNeverCompletes, NoDeadRunning, StopReplyHonest
<1>3. UnusedUntouched /\ FiledUnderOwner /\ UnreportedOpen
    BY DEF UnusedUntouched, FiledUnderOwner, UnreportedOpen
<1>4. ClientsKnow /\ OneStarter
    BY DEF ClientsKnow, OneStarter, Starting, Stopping
<1> QED
    BY <1>1, <1>2, <1>3, <1>4 DEF IInv

\* A request that is answered without touching a run keeps the invariant.
LEMMA AnswerIInv ==
    ASSUME IInv, NEW c \in Clients, NEW what \in Replies,
           what \notin {"unused", "running", "completed"},
           Answer(c, what), UNCHANGED <<runs, owner, status, stopEvent, thread>>
    PROVE  IInv'
<1> USE PMAssumption DEF IInv, Answer
<1>1. TypeOK'
    BY DEF TypeOK
<1>2. StopReplyHonest'
    BY DEF StopReplyHonest, TypeOK
<1>3. ClientsKnow'
    BY DEF ClientsKnow, TypeOK, Starting, Stopping
<1>4. OneStarter'
    BY DEF OneStarter, TypeOK, Starting
<1>5. /\ RunningIsCurrent' /\ StoppedNeverCompletes' /\ NoDeadRunning'
      /\ UnusedUntouched' /\ FiledUnderOwner' /\ UnreportedOpen'
    BY DEF RunningIsCurrent, StoppedNeverCompletes, NoDeadRunning,
           UnusedUntouched, FiledUnderOwner, UnreportedOpen
<1> QED
    BY <1>1, <1>2, <1>3, <1>4, <1>5

\* Creating a run when the name has none running.
LEMMA StartCreateIInv ==
    ASSUME IInv, NEW c \in Clients, NEW n \in Names, NEW r \in Runs, StartCreate(c, n, r)
    PROVE  IInv'
<1> USE PMAssumption DEF IInv, StartCreate, TypeOK
<1>1. TypeOK'
    BY DEF RunStatuses, Starting
<1>2. RunningIsCurrent'
    BY DEF RunningIsCurrent, IsRunning, UnusedUntouched, FiledUnderOwner, RunStatuses
<1>3. StoppedNeverCompletes' /\ NoDeadRunning' /\ StopReplyHonest'
    BY DEF StoppedNeverCompletes, NoDeadRunning, StopReplyHonest, UnusedUntouched
<1>4. UnusedUntouched'
    BY DEF UnusedUntouched
<1>5. FiledUnderOwner'
    BY DEF FiledUnderOwner, UnusedUntouched
<1>6. UnreportedOpen'
    BY DEF UnreportedOpen, UnusedUntouched
<1>7. ClientsKnow'
    BY DEF ClientsKnow, UnusedUntouched, Stopping
<1>8. OneStarter'
  <2>1. ASSUME NEW d \in Clients, d # c, pc[d] \in Starting PROVE arg[d] # r
      BY <2>1 DEF ClientsKnow, UnusedUntouched, Starting
  <2> QED
      BY <2>1 DEF OneStarter
<1> QED
    BY <1>1, <1>2, <1>3, <1>4, <1>5, <1>6, <1>7, <1>8

LEMMA StartAssignIInv ==
    ASSUME IInv, NEW c \in Clients, StartAssign(c)
    PROVE  IInv'
<1> USE PMAssumption DEF IInv, StartAssign, TypeOK
<1>0. arg[c] \in Runs /\ thread[arg[c]] = "none" /\ status[arg[c]] # "unused"
    BY DEF ClientsKnow
<1>1. TypeOK'
    BY <1>0 DEF Starting
<1>2. RunningIsCurrent' /\ StoppedNeverCompletes' /\ NoDeadRunning' /\ StopReplyHonest'
    BY <1>0 DEF RunningIsCurrent, StoppedNeverCompletes, NoDeadRunning, StopReplyHonest
<1>3. UnusedUntouched' /\ FiledUnderOwner' /\ UnreportedOpen'
    BY <1>0 DEF UnusedUntouched, FiledUnderOwner, UnreportedOpen
<1>4. ClientsKnow'
    BY <1>0 DEF ClientsKnow, OneStarter, Starting, Stopping
<1>5. OneStarter'
    BY <1>0 DEF OneStarter, Starting
<1> QED
    BY <1>1, <1>2, <1>3, <1>4, <1>5

LEMMA StartThreadIInv ==
    ASSUME IInv, NEW c \in Clients, StartThread(c)
    PROVE  IInv'
<1> USE PMAssumption DEF IInv, StartThread, Answer, TypeOK
<1>0. arg[c] \in Runs /\ thread[arg[c]] = "assigned" /\ status[arg[c]] # "unused"
    BY DEF ClientsKnow, UnusedUntouched
<1>1. TypeOK'
    BY <1>0 DEF Alive, Working, Replies
<1>2. RunningIsCurrent' /\ StoppedNeverCompletes' /\ NoDeadRunning' /\ StopReplyHonest'
    BY <1>0 DEF RunningIsCurrent, StoppedNeverCompletes, NoDeadRunning, StopReplyHonest
<1>3. UnusedUntouched' /\ FiledUnderOwner' /\ UnreportedOpen'
    BY <1>0 DEF UnusedUntouched, FiledUnderOwner, UnreportedOpen
<1>4. ClientsKnow'
    BY <1>0 DEF ClientsKnow, OneStarter, Starting, Stopping
<1>5. OneStarter'
    BY <1>0 DEF OneStarter, Starting
<1> QED
    BY <1>1, <1>2, <1>3, <1>4, <1>5

LEMMA StopSignalIInv ==
    ASSUME IInv, NEW c \in Clients, NEW n \in Names, StopSignal(c, n)
    PROVE  IInv'
<1> USE PMAssumption DEF IInv, StopSignal, TypeOK, IsRunning
<1>0. runs[n] \in Runs /\ status[runs[n]] = "running"
    OBVIOUS
<1>1. TypeOK'
    BY <1>0 DEF Stopping
<1>2. RunningIsCurrent' /\ StoppedNeverCompletes' /\ NoDeadRunning' /\ StopReplyHonest'
    BY <1>0 DEF RunningIsCurrent, StoppedNeverCompletes, NoDeadRunning, StopReplyHonest
<1>3. UnusedUntouched' /\ FiledUnderOwner' /\ UnreportedOpen'
    BY <1>0 DEF UnusedUntouched, FiledUnderOwner, UnreportedOpen
<1>4. ClientsKnow' /\ OneStarter'
    BY <1>0 DEF ClientsKnow, OneStarter, Starting, Stopping
<1> QED
    BY <1>1, <1>2, <1>3, <1>4

LEMMA StopJoinIInv ==
    ASSUME IInv, NEW c \in Clients, StopJoin(c)
    PROVE  IInv'
<1> USE PMAssumption DEF IInv, StopJoin, TypeOK
<1>1. TypeOK'
    BY DEF Stopping
<1>2. /\ RunningIsCurrent' /\ StoppedNeverCompletes' /\ NoDeadRunning' /\ StopReplyHonest'
      /\ UnusedUntouched' /\ FiledUnderOwner' /\ UnreportedOpen'
    BY DEF RunningIsCurrent, StoppedNeverCompletes, NoDeadRunning, StopReplyHonest,
           UnusedUntouched, FiledUnderOwner, UnreportedOpen
<1>3. ClientsKnow' /\ OneStarter'
    BY DEF ClientsKnow, OneStarter, Starting, Stopping
<1> QED
    BY <1>1, <1>2, <1>3

LEMMA StopMarkIInv ==
    ASSUME IInv, NEW c \in Clients, StopMark(c)
    PROVE  IInv'
<1> USE PMAssumption DEF IInv, StopMark, TypeOK
<1>0. arg[c] \in Runs /\ stopEvent[arg[c]] /\ status[arg[c]] # "unused"
    BY DEF ClientsKnow, Stopping, UnusedUntouched
<1>1. TypeOK'
    BY <1>0 DEF Stopping, RunStatuses, Terminal
<1>2. RunningIsCurrent' /\ StoppedNeverCompletes' /\ NoDeadRunning' /\ StopReplyHonest'
    BY <1>0 DEF RunningIsCurrent, StoppedNeverCompletes, NoDeadRunning, StopReplyHonest,
                Terminal
<1>3. UnusedUntouched' /\ FiledUnderOwner' /\ UnreportedOpen'
    BY <1>0 DEF UnusedUntouched, FiledUnderOwner, UnreportedOpen
<1>4. ClientsKnow' /\ OneStarter'
    BY <1>0 DEF ClientsKnow, OneStarter, Starting, Stopping
<1> QED
    BY <1>1, <1>2, <1>3, <1>4

\* The unlocked read of run.status finds "stopped" or "failed".
LEMMA StopReplyIInv ==
    ASSUME IInv, NEW c \in Clients, StopReply(c)
    PROVE  IInv'
<1>1. /\ status[arg[c]] \in Replies
      /\ status[arg[c]] \notin {"unused", "running", "completed"}
    BY DEF IInv, StopReply, TypeOK, Replies, ClientsKnow, Stopping, UnusedUntouched,
           StoppedNeverCompletes
<1> QED
    BY <1>1, AnswerIInv DEF StopReply

LEMMA EngineReturnsIInv ==
    ASSUME IInv, NEW r \in Runs, NEW how \in Outcomes, EngineReturns(r, how)
    PROVE  IInv'
<1> USE PMAssumption DEF IInv, EngineReturns, TypeOK, Outcomes
<1>1. TypeOK'
    BY DEF Alive, Working
<1>2. RunningIsCurrent' /\ StoppedNeverCompletes' /\ NoDeadRunning' /\ StopReplyHonest'
    BY DEF RunningIsCurrent, StoppedNeverCompletes, NoDeadRunning, StopReplyHonest
<1>3. UnusedUntouched' /\ FiledUnderOwner' /\ UnreportedOpen'
    BY DEF UnusedUntouched, FiledUnderOwner, UnreportedOpen
<1>4. ClientsKnow' /\ OneStarter'
    BY DEF ClientsKnow, OneStarter
<1> QED
    BY <1>1, <1>2, <1>3, <1>4

LEMMA WorkerReportsIInv ==
    ASSUME IInv, NEW r \in Runs, WorkerReports(r)
    PROVE  IInv'
<1> USE PMAssumption DEF IInv, WorkerReports, TypeOK, Outcomes
<1>0. /\ status[r] \in {"running", "stopped"}
      /\ FinalStatus(r) \in Terminal
      /\ stopEvent[r] => FinalStatus(r) # "completed"
    BY DEF UnusedUntouched, UnreportedOpen, FinalStatus, Terminal
<1>1. TypeOK'
    BY <1>0 DEF Alive, Working, RunStatuses
<1>2. RunningIsCurrent' /\ StoppedNeverCompletes' /\ NoDeadRunning' /\ StopReplyHonest'
    BY <1>0 DEF RunningIsCurrent, StoppedNeverCompletes, NoDeadRunning, StopReplyHonest,
                Terminal
<1>3. UnusedUntouched' /\ FiledUnderOwner' /\ UnreportedOpen'
    BY <1>0 DEF UnusedUntouched, FiledUnderOwner, UnreportedOpen, Terminal
<1>4. ClientsKnow' /\ OneStarter'
    BY <1>0 DEF ClientsKnow, OneStarter, Terminal
<1> QED
    BY <1>1, <1>2, <1>3, <1>4

LEMMA ThreadDiesIInv ==
    ASSUME IInv, NEW r \in Runs, ThreadDies(r)
    PROVE  IInv'
<1> USE PMAssumption DEF IInv, ThreadDies, TypeOK
<1>1. TypeOK'
    OBVIOUS
<1>2. RunningIsCurrent' /\ StoppedNeverCompletes' /\ NoDeadRunning' /\ StopReplyHonest'
    BY DEF RunningIsCurrent, StoppedNeverCompletes, NoDeadRunning, StopReplyHonest
<1>3. UnusedUntouched' /\ FiledUnderOwner' /\ UnreportedOpen'
    BY DEF UnusedUntouched, FiledUnderOwner, UnreportedOpen
<1>4. ClientsKnow' /\ OneStarter'
    BY DEF ClientsKnow, OneStarter
<1> QED
    BY <1>1, <1>2, <1>3, <1>4

LEMMA NextIInv == IInv /\ [Next]_vars => IInv'
<1> SUFFICES ASSUME IInv, [Next]_vars PROVE IInv'
    OBVIOUS
<1>1. ASSUME NEW c \in Clients, ClientContinues(c) PROVE IInv'
  <2>1. CASE StartThreadRefused(c) \/ StopJoinUnstarted(c)
      BY <2>1, AnswerIInv DEF StartThreadRefused, StopJoinUnstarted, Replies
  <2> QED
      BY <1>1, <2>1, StartAssignIInv, StartThreadIInv, StopJoinIInv, StopMarkIInv,
         StopReplyIInv DEF ClientContinues
<1>2. ASSUME NEW c \in Clients, NEW n \in Names, ClientRequests(c, n) PROVE IInv'
  <2>1. CASE StartUnknown(c, n) \/ StartRejected(c, n) \/ StopRejected(c, n)
      BY <2>1, AnswerIInv DEF StartUnknown, StartRejected, StopRejected, Replies
  <2> QED
      BY <1>2, <2>1, StartCreateIInv, StopSignalIInv DEF ClientRequests
<1>3. ASSUME NEW r \in Runs, Worker(r) PROVE IInv'
    BY <1>3, EngineReturnsIInv, WorkerReportsIInv, ThreadDiesIInv DEF Worker
<1>4. CASE UNCHANGED vars
  <2>1. TypeOK' /\ ClientsKnow' /\ OneStarter'
      BY <1>4 DEF IInv, vars, TypeOK, ClientsKnow, OneStarter
  <2>2. /\ RunningIsCurrent' /\ StoppedNeverCompletes' /\ NoDeadRunning' /\ StopReplyHonest'
        /\ UnusedUntouched' /\ FiledUnderOwner' /\ UnreportedOpen'
      BY <1>4 DEF IInv, vars, RunningIsCurrent, StoppedNeverCompletes, NoDeadRunning,
                  StopReplyHonest, UnusedUntouched, FiledUnderOwner, UnreportedOpen
  <2> QED
      BY <2>1, <2>2 DEF IInv
<1> QED
    BY <1>1, <1>2, <1>3, <1>4 DEF Next

LEMMA SpecIInv == Spec => []IInv
    BY InitIInv, NextIInv, PTL DEF Spec

\* Every variable of the manager keeps its type.
THEOREM TypeCorrect == Spec => []TypeOK
    BY SpecIInv, PTL DEF IInv

\* At most one run of a name is "running", and it is the one in _runs.
THEOREM RunningIsTheCurrentRun == Spec => []RunningIsCurrent
    BY SpecIInv, PTL DEF IInv

\* A run whose stop was signalled while running never ends "completed".
THEOREM StopExcludesCompletion == Spec => []StoppedNeverCompletes
    BY SpecIInv, PTL DEF IInv

\* The case _effective_status guards against does not arise: a worker past its
\* last locked section left its run in a terminal status.
THEOREM ThreadsEndReported == Spec => []NoDeadRunning
    BY SpecIInv, PTL DEF IInv

\* The unlocked read of a stop reply finds "stopped" or "failed".
THEOREM StopRepliesHonest == Spec => []StopReplyHonest
    BY SpecIInv, PTL DEF IInv

\* A worker still at work whose run was replaced in _runs had been told to stop:
\* an unreported run is "running" or a stopped one, and a "running" run is
\* the current one.
THEOREM OrphansAreStopped == Spec => []OrphansWereStopped
<1>1. IInv => OrphansWereStopped
  <2> SUFFICES ASSUME IInv, NEW r \in Runs, thread[r] \in Working, runs[owner[r]] # r
               PROVE  stopEvent[r] /\ status[r] = "stopped"
      BY DEF OrphansWereStopped
  <2>1. status[r] # "unused"
      BY DEF IInv, UnusedUntouched, Working, Outcomes
  <2>2. status[r] # "running"
      BY DEF IInv, RunningIsCurrent
  <2> QED
      BY <2>1, <2>2 DEF IInv, UnreportedOpen, Working, Outcomes
<1> QED
    BY <1>1, SpecIInv, PTL

-----------------------------------------------------------------------------
(* Every step of the manager is a step of PipelineLifecycle or a stutter.  *)

LEMMA RequestRefines ==
    ASSUME IInv, NEW c \in Clients, NEW n \in Names, ClientRequests(c, n)
    PROVE  [Lifecycle!LifeNext]_Lifecycle!lifeVars
<1> USE PMAssumption DEF IInv, TypeOK, IsRunning
<1>1. ASSUME NEW r \in Runs, StartCreate(c, n, r) PROVE Lifecycle!LifeNext
  <2>1. Lifecycle!Begin(n, r)
      BY <1>1 DEF StartCreate, Lifecycle!Begin
  <2> QED
      BY <2>1 DEF Lifecycle!LifeNext
<1>2. CASE StopSignal(c, n)
  <2>1. runs[n] \in Runs /\ Lifecycle!AskStop(runs[n])
      BY <1>2 DEF StopSignal, Lifecycle!AskStop
  <2> QED
      BY <2>1 DEF Lifecycle!LifeNext
<1>3. CASE StartUnknown(c, n) \/ StartRejected(c, n) \/ StopRejected(c, n)
    BY <1>3 DEF StartUnknown, StartRejected, StopRejected, Lifecycle!lifeVars
<1> QED
    BY <1>1, <1>2, <1>3 DEF ClientRequests

LEMMA ContinuationRefines ==
    ASSUME IInv, NEW c \in Clients, ClientContinues(c)
    PROVE  [Lifecycle!LifeNext]_Lifecycle!lifeVars
<1> USE PMAssumption DEF IInv, TypeOK
<1>1. CASE StopMark(c)
  <2>0. arg[c] \in Runs /\ stopEvent[arg[c]]
      BY <1>1 DEF StopMark, ClientsKnow, Stopping
  <2>1. CASE status[arg[c]] = "running"
    <3>1. Lifecycle!End(arg[c], "stopped")
        BY <1>1, <2>0, <2>1 DEF StopMark, Lifecycle!End
    <3> QED
        BY <2>0, <3>1 DEF Lifecycle!LifeNext
  <2>2. CASE status[arg[c]] # "running"
      BY <1>1, <2>0, <2>2 DEF StopMark, Lifecycle!lifeVars
  <2> QED
      BY <2>1, <2>2
<1>2. CASE ~StopMark(c)
    BY <1>2 DEF ClientContinues, StartAssign, StartThread, StartThreadRefused,
                StopJoin, StopJoinUnstarted, StopReply, Lifecycle!lifeVars
<1> QED
    BY <1>1, <1>2

LEMMA WorkerRefines ==
    ASSUME IInv, NEW r \in Runs, Worker(r)
    PROVE  [Lifecycle!LifeNext]_Lifecycle!lifeVars
<1> USE PMAssumption DEF IInv, TypeOK
<1>1. CASE WorkerReports(r)
  <2>0. \/ status[r] = "running"
        \/ status[r] = "stopped" /\ stopEvent[r]
      BY <1>1 DEF WorkerReports, Outcomes, UnreportedOpen, UnusedUntouched
  <2>1. /\ FinalStatus(r) \in {"completed", "failed", "stopped"}
        /\ FinalStatus(r) = "completed" => ~stopEvent[r]
        /\ FinalStatus(r) = "stopped" => stopEvent[r]
      BY DEF FinalStatus
  <2>2. CASE status[r] = "running"
    <3>1. Lifecycle!End(r, FinalStatus(r))
        BY <1>1, <2>1, <2>2 DEF WorkerReports, Lifecycle!End
    <3> QED
        BY <2>1, <3>1 DEF Lifecycle!LifeNext
  <2>3. CASE status[r] = "stopped" /\ stopEvent[r]
    <3>1. CASE FinalStatus(r) = "stopped"
        BY <1>1, <2>3, <3>1 DEF WorkerReports, Lifecycle!lifeVars
    <3>2. CASE FinalStatus(r) = "failed"
      <4>1. Lifecycle!FailLate(r)
          BY <1>1, <2>3, <3>2 DEF WorkerReports, Lifecycle!FailLate
      <4> QED
          BY <4>1 DEF Lifecycle!LifeNext
    <3> QED
        BY <2>1, <2>3, <3>1, <3>2
  <2> QED
      BY <2>0, <2>2, <2>3
<1>2. CASE ~WorkerReports(r)
    BY <1>2 DEF Worker, EngineReturns, ThreadDies, Lifecycle!lifeVars
<1> QED
    BY <1>1, <1>2

\* The manager implements the promised life of its runs.
THEOREM ManagerRefinesLifecycle == Spec => LifecycleSpec
<1>1. Init => Lifecycle!LifeInit
    BY DEF Init, Lifecycle!LifeInit
<1>2. IInv /\ [Next]_vars => [Lifecycle!LifeNext]_Lifecycle!lifeVars
  <2>1. CASE UNCHANGED vars
      BY <2>1 DEF vars, Lifecycle!lifeVars
  <2> QED
      BY <2>1, RequestRefines, ContinuationRefines, WorkerRefines DEF Next
<1> QED
    BY <1>1, <1>2, SpecIInv, PTL DEF Spec, LifecycleSpec, Lifecycle!LifeSpec
-----------------------------------------------------------------------------
(* The manager with its engines                                            *)

\* Behind the engines the manager is the one the theorems above are about.
THEOREM AgentsKeepTheManager == AgentSpec => Spec
<1>1. AgentInit => Init
    BY DEF AgentInit
<1>2. [AgentNext]_allVars => [Next]_vars
    BY DEF AgentNext, Continue, Request, Report, Execution, Next, allVars
<1> QED
    BY <1>1, <1>2, PTL DEF AgentSpec, Spec

\* The stop events are shared, and runs are made of the setting's engines.
Shared ==
    /\ stop = stopEvent
    /\ \A r \in Runs : status[r] # "unused" => r \in setting.runs

\* A request leaves the engines alone, or sets the stop event of one.
LEMMA RequestIsRequest ==
    ASSUME IInv, Shared, NEW c \in Clients, NEW n \in Names, Request(c, n)
    PROVE  (\E r \in setting.runs : RequestStop(r)) \/ UNCHANGED workflowVars
<1>1. CASE StopSignal(c, n)
  <2>1. runs[n] \in Runs /\ runs[n] \in setting.runs
      BY <1>1 DEF StopSignal, IsRunning, IInv, TypeOK, Shared
  <2>2. CASE stopEvent[runs[n]] = TRUE
    <3>1. stopEvent' = stopEvent
        BY <1>1, <2>1, <2>2 DEF StopSignal, IInv, TypeOK
    <3> QED
        BY <3>1 DEF Request, ManagerOnly, Shared, workflowVars, engineState
  <2>3. CASE stopEvent[runs[n]] # TRUE
    <3>1. RequestStop(runs[n])
        BY <1>1, <2>1, <2>3 DEF StopSignal, IInv, TypeOK, RequestStop, Request, ManagerOnly, Shared, engineState
    <3> QED
        BY <2>1, <3>1
  <2> QED
      BY <2>2, <2>3
<1>2. CASE ~StopSignal(c, n)
  <2>1. stopEvent' = stopEvent
      BY <1>2 DEF Request, ClientRequests, StartUnknown, StartRejected, StartCreate, StopRejected
  <2> QED
      BY <2>1 DEF Request, ManagerOnly, Shared, workflowVars, engineState
<1> QED
    BY <1>1, <1>2

LEMMA OthersLeaveEngines ==
    ASSUME Shared, (\E c \in Clients : Continue(c)) \/ (\E r \in Runs : Report(r))
    PROVE  UNCHANGED workflowVars
<1>1. stopEvent' = stopEvent
    BY DEF Continue, ClientContinues, StartAssign, StartThread, StartThreadRefused, StopJoin,
           StopJoinUnstarted, StopMark, StopReply, Report, Worker, EngineReturns, WorkerReports, ThreadDies
<1> QED
    BY <1>1 DEF Continue, Report, ManagerOnly, Shared, workflowVars, engineState

LEMMA SharedStep == IInv /\ Shared /\ [AgentNext]_allVars => Shared'
<1> SUFFICES ASSUME IInv, Shared, [AgentNext]_allVars PROVE Shared'
    OBVIOUS
<1> USE DEF IInv, TypeOK
<1>1. ASSUME NEW c \in Clients, NEW n \in Names, Request(c, n) PROVE Shared'
  <2>1. stop' = stopEvent' /\ setting' = setting
      BY <1>1 DEF Request, ManagerOnly, engineState
  <2>2. ASSUME NEW r \in Runs, status'[r] # "unused" PROVE r \in setting.runs
    <3>1. CASE status[r] = "unused"
        BY <1>1, <2>2, <3>1 DEF Request
    <3> QED
        BY <3>1 DEF Shared
  <2> QED
      BY <2>1, <2>2 DEF Shared
<1>2. ASSUME NEW c \in Clients, Continue(c) PROVE Shared'
  <2>1. \A r \in Runs : status'[r] # "unused" => status[r] # "unused"
    <3>1. CASE StopMark(c)
      <4>1. arg[c] \in Runs
          BY <3>1 DEF StopMark, ClientsKnow
      <4> QED
          BY <3>1, <4>1 DEF StopMark
    <3>2. CASE ~StopMark(c)
        BY <1>2, <3>2 DEF Continue, ClientContinues, StartAssign, StartThread, StartThreadRefused, StopJoin,
                          StopJoinUnstarted, StopReply
    <3> QED
        BY <3>1, <3>2
  <2> QED
      BY <1>2, <2>1 DEF Continue, ManagerOnly, engineState, Shared
<1>3. ASSUME NEW r \in Runs, Report(r) PROVE Shared'
  <2>1. \A q \in Runs : status'[q] # "unused" => status[q] # "unused"
    <3>1. CASE WorkerReports(r)
        BY <3>1 DEF WorkerReports, Outcomes, UnusedUntouched
    <3>2. CASE ~WorkerReports(r)
        BY <1>3, <3>2 DEF Report, Worker, EngineReturns, ThreadDies
    <3> QED
        BY <3>1, <3>2
  <2> QED
      BY <1>3, <2>1 DEF Report, ManagerOnly, engineState, Shared
<1>4. ASSUME NEW r \in Runs, Execution(r) PROVE Shared'
    BY <1>4 DEF Execution, vars, Shared, ExecuteWorkflow, InitializeAgents, UnknownAgentType, SeeStop, MissingAgent,
                SkipUnknownAgent, TakeMessages, Execute, Fail, Finish
<1>5. CASE UNCHANGED allVars
    BY <1>5 DEF allVars, vars, workflowVars, Shared
<1> QED
    BY <1>1, <1>2, <1>3, <1>4, <1>5 DEF AgentNext

\* Under the manager the engines are the ones WorkflowEngineProofs is about.
THEOREM AgentsKeepTheEngines == AgentSpec => WorkflowSpec
<1>1. AgentInit => WorkflowInit /\ Shared
    BY AWAssumption DEF AgentInit, Init, WorkflowInit, Shared
<1>2. IInv /\ Shared /\ [AgentNext]_allVars => [WorkflowNext]_workflowVars
  <2> SUFFICES ASSUME IInv, Shared, [AgentNext]_allVars PROVE [WorkflowNext]_workflowVars
      OBVIOUS
  <2>1. ASSUME NEW c \in Clients, NEW n \in Names, Request(c, n) PROVE [WorkflowNext]_workflowVars
      BY <2>1, RequestIsRequest DEF WorkflowNext
  <2>2. CASE (\E c \in Clients : Continue(c)) \/ (\E r \in Runs : Report(r))
      BY <2>2, OthersLeaveEngines
  <2>3. ASSUME NEW r \in Runs, Execution(r) PROVE [WorkflowNext]_workflowVars
    <3>1. r \in setting.runs
        BY <2>3 DEF Execution, IInv, UnusedUntouched, Shared
    <3> QED
        BY <2>3, <3>1 DEF Execution, WorkflowNext
  <2>4. CASE UNCHANGED allVars
      BY <2>4 DEF allVars, workflowVars
  <2> QED
      BY <2>1, <2>2, <2>3, <2>4 DEF AgentNext
<1> QED
    BY <1>1, <1>2, SharedStep, AgentsKeepTheManager, SpecIInv, PTL DEF AgentSpec, WorkflowSpec
=============================================================================
