\* Calls hung up twice, store and profile writes that reject.
\* The calls and hang-ups of an instance are finite: it may really stop.
SPECIFICATION Spec
CONSTANTS
    s1 = s1
    s2 = s2
    s3 = s3
    a1 = a1
    a2 = a2
    Session = {s1, s2}
    Agent = {a1, a2}
    Job = {j1, j2}
    None = None
    AgentOf <- SameAgent
    Story = {s1}
    Exit = {x1, x2}
    WithMedia = {x2}
    Env = {"double_end", "sink", "voicemail", "save", "store", "retry"}
    MaxCrash = 0
CHECK_DEADLOCK FALSE
INVARIANTS
    BusyWhileWorking
    UniquePersistedJob
    SyncEffectsOnce
    MediaEffectsOnce
