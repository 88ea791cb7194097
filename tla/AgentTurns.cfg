SPECIFICATION FairSpec
CONSTANTS
    r1 = r1
    s1 = s1
    Runs = {r1}
    Sessions = {s1, s2}
    SessionOf <- OneConversation
    Tools = {t1}
    RunOf <- AllOfFirst
    NoRun = NoRun
    NoSession = NoSession
    MaxDeltas = 1
    MaxMishaps = 1
    CallsFail = TRUE
INVARIANTS TypeOK DoneIsDurable PartialIsExclusive ToolRunsApproved AcceptedAnswerCounts NoStaleRequest
CHECK_DEADLOCK FALSE
PROPERTIES CancelUnwinds KeepsTurnPromise
