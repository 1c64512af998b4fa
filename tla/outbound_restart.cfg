SPECIFICATION FairSpec
CONSTANTS
    c1 = c1
    c2 = c2
    r1 = r1
    e1 = e1
    Card = {c2}
    StoryCard = {}
    CardMode <- OneMode
    Rule = {r1}
    RuleCard <- RulesOnC2
    RuleTime <- AtOne
    RuleDays <- EveryDay
    Timed = {}
    Attach = {}
    EffectCard <- EffectsOnC2
    Delay <- DelayOne
    Activation <- Either
    DayLen = 2
    Horizon = 3
    MaxExec <- TimedTwice
    None = None
    Flow = {f1}
    Vanishing = {c2}
    MaxCrash = 1
INVARIANTS
    NoOccurrenceSkipped
PROPERTIES
    NothingJumpedOver
    DueFires
