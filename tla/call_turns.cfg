\* One call with two messages at a time and an opening turn, the model's tools,
\* failures of the model, the port and the writes of the job, two restarts or
\* retries.  The call is bounded: it may stop.
SPECIFICATION FairSpec
CONSTANTS
    k1 = k1
    k2 = k2
    m1 = m1
    m2 = m2
    words = words
    summary = summary
    Call = {k1}
    Text = {words}
    Tale = {}
    Start = 6
    MaxTime = 6
    Days = 2
    Limit = 2
    Fits = 1
    Message = {m1, m2}
    SaidIn <- BothInOne
    Exit = {x}
    Opening = {"none", "line", "model", "playback"}
    Words = words
    MaxRounds = 1
    MaxResumed = 2
    MaxClear = 0
CHECK_DEADLOCK FALSE
INVARIANTS
    TypeOK
PROPERTIES
    NothingAfterHangUp
    RequestsEnd
    TalkRemembered
