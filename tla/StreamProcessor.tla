---------------------------- MODULE StreamProcessor ----------------------------
(***************************************************************************)
(* The jobs of the stream processor together: counting, backfill and       *)
(* reprocessing, the maintenance of the table they commit to, and the      *)
(* predictions made of the counts.                                         *)
(***************************************************************************)
EXTENDS InferencePipeline

CONSTANT StreamSettings  \* circumstances of the jobs, of the maintenance and of the pipeline

ASSUME StreamSettingsAssumption ==
    StreamSettings \subseteq [bus : JobSettings, order : CareSettings, serve : ServeSettings]

vars == <<jobVars, careVars, inferVars>>

Init ==
    \E c \in StreamSettings :
        /\ JobInit /\ bus = c.bus
        /\ CareInit /\ order = c.order
        /\ InferInit /\ serve = c.serve

Next ==
    \/ JobNext /\ UNCHANGED <<careVars, inferVars>>
    \/ CareNext /\ UNCHANGED inferVars
    \/ InferNext /\ UNCHANGED <<inputVars, job, saved, lakeVars, unsent, counts, dlqVars, signalVars, careVars>>

\* Flink retries, restarts and fires its timers; nobody promises answers.
Fairness == WF_vars(FlinkStep /\ UNCHANGED <<jobVars, careVars>>)

Spec == Init /\ [][Next]_vars /\ Fairness
-----------------------------------------------------------------------------
\* The jobs' and the maintenance's variables have their types: a job is
\* somewhere in its range of the topic, its checkpoint is not ahead of it and
\* holds no row that is committed, the snapshots are in the order of their ids.
StreamTypeOK == JobTypeOK /\ CareTypeOK

-----------------------------------------------------------------------------
(* What the documents of the repository say and the code does not do       *)

\* At least one of these statements holds, each quoted where it is defined.
SomeStatementHolds ==
    \/ CountsAreDelivered \/ SameKeySameAggregate \/ TypeChangesAreDeadLetters
    \/ OneSnapshotPerWindow \/ DeadLettersCanBeReplayed
==============================================================================
