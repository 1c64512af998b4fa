\* An edit of the schedule while the pump saves the profile.
SPECIFICATION Spec
CONSTANTS
    a1 = a1
    a2 = a2
    v1 = v1
    v2 = v2
    v3 = v3
    card1 = card1
    card2 = card2
    Agent = {a1}
    Call = {k1}
    Attached = {}
    Timed = {}
    CardOf <- OneCard
    AgentOf <- OneAgent
    MaxExec <- Once
    Put = {put}
    Plan = {plan}
    Delete = {delete}
    Loader = {loader}
    Saver = {k1, pump}
    MaxLoad = 3
    MaxCrash = 1
    None = None
CHECK_DEADLOCK FALSE
INVARIANTS
    ScheduleEditKept
