SPECIFICATION Spec
CONSTANTS
    c1 = c1
    c2 = c2
    r1 = r1
    e1 = e1
    Card = {c1}
    StoryCard = {c1}
    CardMode <- OneMode
    Rule = {}
    RuleCard <- RulesOnC2
    RuleTime <- AtOne
    RuleDays <- EveryDay
    Timed = {e1}
    Attach = {a1}
    EffectCard <- EffectsOnC1
    Delay <- DelayOne
    Activation <- Either
    DayLen = 2
    Horizon = 2
    MaxExec <- TimedTwice
    None = None
    Flow = {f1, f2}
    Vanishing = {}
    MaxCrash = 0
INVARIANTS
    TypeOK
    RingsOnce
    LiveCardTaken
PROPERTIES
    NoRingAfterCall
