\* Two calls after each other with one message each, summaries and vignettes,
\* failures of the model, the port and the writes of the job, a restart or a retry, a
\* clearing of the memory, whole or cut off, and time that passes over the end of a
\* month and a quarter.  The calls are bounded: it may stop.
SPECIFICATION Spec
CONSTANTS
    k1 = k1
    k2 = k2
    m1 = m1
    m2 = m2
    words = words
    summary = summary
    Call = {k1, k2}
    Text = {words, summary}
    Tale = {t}
    Start = 4
    MaxTime = 6
    Days = 2
    Limit = 3
    Fits = 2
    Message = {m1, m2}
    SaidIn <- OneEach
    Exit = {}
    Opening = {"line"}
    Words = words
    MaxRounds = 0
    MaxResumed = 1
    MaxClear = 1
VIEW MemoryView
CHECK_DEADLOCK FALSE
INVARIANTS
    SameTextOnce
    RollupsReal
    RollupsCover
