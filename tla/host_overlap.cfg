\* Two beginCalls whose prompts are composed at the same time.
\* The calls and hang-ups of an instance are finite: it may really stop.
SPECIFICATION Spec
CONSTANTS
    s1 = s1
    s2 = s2
    s3 = s3
    a1 = a1
    a2 = a2
    Session = {s1, s2}
    Agent = {a1, a2}
    Job = {j1, j2}
    None = None
    AgentOf <- TwoAgents
    Story = {s2}
    Exit = {x1}
    WithMedia = {}
    Env = {"overlap"}
    MaxCrash = 0
CHECK_DEADLOCK FALSE
INVARIANT OneActiveCall
