\* Three calls with two agents, every stage may fail, failed jobs are retried.
\* The calls and hang-ups of an instance are finite: it may really stop.
SPECIFICATION FairSpec
CONSTANTS
    s1 = s1
    s2 = s2
    s3 = s3
    a1 = a1
    a2 = a2
    Session = {s1, s2, s3}
    Agent = {a1, a2}
    Job = {j1, j2}
    None = None
    AgentOf <- TwoAgents
    Story = {s2}
    Exit = {x1}
    WithMedia = {x1}
    Env = {"no_exit", "compose", "sync", "memory", "rollup", "sink", "retry"}
    MaxCrash = 0
CHECK_DEADLOCK FALSE
INVARIANTS
    TypeOK
    OneActiveCall
    NoCallDuringEffects
    ActiveCallIsLive
    CompletedJobsFinished
    MirrorAgrees
PROPERTIES
    EndedCallFreesUser
    TerminalIsFinal
    JobsSettle
