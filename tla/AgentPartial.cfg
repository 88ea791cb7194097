SPECIFICATION Spec
CONSTANTS
    r1 = r1
    s1 = s1
    Runs = {r1}
    Sessions = {s1, s2}
    SessionOf <- OneConversation
    Tools = {t1}
    RunOf <- AllOfFirst
    NoRun = NoRun
    NoSession = NoSession
    MaxDeltas = 1
    MaxMishaps = 0
    CallsFail = FALSE
INVARIANT PartialPersists
CHECK_DEADLOCK FALSE
