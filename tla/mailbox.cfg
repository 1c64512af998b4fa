\* Two calls at a time attach, schedule, generate and hear the voicemails of a
\* card, the pump saves, the server restarts once and a poller loads the
\* profile.  The effects of an instance are bounded: it may stop.
SPECIFICATION FairSpec
CONSTANTS
    a1 = a1
    a2 = a2
    v1 = v1
    v2 = v2
    v3 = v3
    card1 = card1
    card2 = card2
    Agent = {a1, a2}
    Call = {k1, k2}
    Attached = {v1}
    Timed = {v2}
    CardOf <- OneCard
    AgentOf <- OneAgent
    MaxExec <- TwiceFirst
    Put = {}
    Plan = {}
    Delete = {}
    Loader = {loader}
    Saver = {k1, k2, pump}
    MaxLoad = 1
    MaxCrash = 1
    None = None
CHECK_DEADLOCK FALSE
INVARIANTS
    DeliveredOnce
    LampTrue
PROPERTIES
    MailKept
    StackedArrives
