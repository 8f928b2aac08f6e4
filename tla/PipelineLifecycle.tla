-------------------------- MODULE PipelineLifecycle --------------------------
(***************************************************************************)
(* What pipeline-api/manager.py promises of the runs it tracks: a run is   *)
(* begun only when its name has none running, may be asked to stop only    *)
(* while running, and ends once.  A stop that gave up waiting declares the *)
(* end itself, which a late exception of the workflow may turn to failed.  *)
(***************************************************************************)
CONSTANTS Names, Runs, NoRun

VARIABLES current,   \* the run recorded under each name
          status,    \* where each run is in its life
          asked      \* whether its stop was requested

lifeVars == <<current, status, asked>>

LifeInit ==
    /\ current = [n \in Names |-> NoRun]
    /\ status = [r \in Runs |-> "unused"]
    /\ asked = [r \in Runs |-> FALSE]

Begin(n, r) ==
    /\ current[n] # NoRun => status[current[n]] # "running"
    /\ status[r] = "unused"
    /\ status' = [status EXCEPT ![r] = "running"]
    /\ current' = [current EXCEPT ![n] = r]
    /\ UNCHANGED asked

AskStop(r) ==
    /\ status[r] = "running"
    /\ asked' = [asked EXCEPT ![r] = TRUE]
    /\ UNCHANGED <<current, status>>

End(r, how) ==
    /\ status[r] = "running"
    /\ how = "completed" => ~asked[r]
    /\ how = "stopped" => asked[r]
    /\ status' = [status EXCEPT ![r] = how]
    /\ UNCHANGED <<current, asked>>

FailLate(r) ==
    /\ status[r] = "stopped"
    /\ status' = [status EXCEPT ![r] = "failed"]
    /\ UNCHANGED <<current, asked>>

LifeNext ==
    \E r \in Runs :
        \/ \E n \in Names : Begin(n, r)
        \/ AskStop(r)
        \/ \E how \in {"completed", "failed", "stopped"} : End(r, how)
        \/ FailLate(r)

LifeSpec == LifeInit /\ [][LifeNext]_lifeVars
=============================================================================
