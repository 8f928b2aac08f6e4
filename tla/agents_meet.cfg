\* One client, one name: a workflow of two steps is stopped and started again.
CONSTANTS
    c1 = c1
    c2 = c2
    n1 = n1
    r1 = r1
    r2 = r2
    Names = {n1}
    Configured = {n1}
    Clients = {c1, c2}
    Runs = {r1, r2}
    NoRun = NoRun
    Engines = {r1, r2}
    Agents <- Three
    Missing = "nameless"
    Settings <- MCSettings
    WorkflowSettings <- Meeting
SPECIFICATION AgentSpec
INVARIANT
    RunsDoNotMeet
CHECK_DEADLOCK FALSE
