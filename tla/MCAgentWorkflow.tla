--------------------------- MODULE MCAgentWorkflow ---------------------------
(* Instances of AgentWorkflow for TLC                                       *)
EXTENDS AgentWorkflow

CONSTANTS c1, c2, n1, r1, r2

step(agent, known, outputTo, onError, input) ==
    [agent |-> agent, known |-> known, outputTo |-> outputTo,
     onError |-> onError, input |-> input]

\* A pipeline of three agents: results merge at the sink, one agent has two
\* steps, one action is unknown, one agent is not configured.
Pipeline ==
    << step("ingest", TRUE, {"process", "sink"}, "continue", TRUE),
       step("process", TRUE, {"sink", "process"}, "stop", TRUE),
       step("nobody", TRUE, {"sink"}, "continue", FALSE),
       step("process", FALSE, {"sink"}, "continue", TRUE),
       step("sink", TRUE, {"ingest", "nobody"}, "stop", FALSE),
       step("ingest", TRUE, {}, "continue", TRUE) >>

\* Every workflow of three steps over two agents, one of which has an input of its
\* own; the policy of a step that cannot fail does not matter.
SomeSteps ==
    {step(a, TRUE, to, "continue", a = "sink") : a \in {"ingest", "sink"}, to \in {{}, {"ingest"}, {"sink"}}}
    \cup {step("sink", FALSE, {}, e, FALSE) : e \in {"continue", "stop"}}
    \cup {step("nobody", TRUE, {"sink"}, "continue", TRUE), step("nameless", TRUE, {}, "stop", FALSE)}

Three == {"ingest", "process", "sink"}

circumstances(workflow, unknown, engines, lineagePackage) ==
    [steps |-> workflow, bad |-> unknown, runs |-> engines, lineage |-> lineagePackage]

\* Workflows of one step, which succeed, fail, or are not understood.
Good == circumstances(<<step("ingest", TRUE, {"ingest"}, "stop", FALSE)>>, {}, Runs, FALSE)
Failing == circumstances(<<step("ingest", FALSE, {}, "stop", TRUE)>>, {}, Runs, FALSE)
Bad == [Good EXCEPT !.bad = {"sink"}]

\* Two steps, the second with an input of its own.
Passing == circumstances(<<step("ingest", TRUE, {"sink"}, "continue", FALSE), step("sink", TRUE, {}, "continue", TRUE)>>,
                         {}, Runs, FALSE)

Short == {circumstances(<<x, y, z>>, {}, {r1}, FALSE) : x \in SomeSteps, y \in SomeSteps, z \in SomeSteps}
Long == {circumstances(Pipeline, {}, engines, package) : engines \in {{r1}, Runs}, package \in BOOLEAN}

MCSettings == Short \cup Long \cup {Good, Failing, Bad, Passing}

by(settings, clients, names) == [setting : settings, callers : {clients \X names}]

\* Two clients start and stop short workflows; one client the others, and the long
\* one again while it is executed.
All == by({Good, Failing}, {c1, c2}, {n1}) \cup by({Bad}, {c1, c2}, Names) \cup by(Short \cup Long, {c1}, {n1})

Meeting == by({Passing}, {c1}, {n1})
=============================================================================
