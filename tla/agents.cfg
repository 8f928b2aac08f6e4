\* Two names (one without a definition), two request threads, two runs, a host that
\* may refuse a thread, and workflows of up to six steps: see MCAgentWorkflow.
CONSTANTS
    c1 = c1
    c2 = c2
    n1 = n1
    r1 = r1
    r2 = r2
    Names = {n1, n2}
    Configured = {n1}
    Clients = {c1, c2}
    Runs = {r1, r2}
    NoRun = NoRun
    Engines = {r1, r2}
    Agents <- Three
    Missing = "nameless"
    Settings <- MCSettings
    WorkflowSettings <- All
SPECIFICATION AgentSpec
INVARIANTS
    TypeOK
    RunningIsCurrent
    OrphansWereStopped
    ResultsReachTheirStep
    StopPolicyHolds
PROPERTIES
    LifecycleSpec
    EveryRunEnds
CHECK_DEADLOCK FALSE
