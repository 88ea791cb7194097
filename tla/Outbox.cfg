SPECIFICATION FairSpec
CONSTANTS
    MaxEvents = 2
    Procs = {ticker, replay}
    Ticker = ticker
    Limit = 1
    MaxFaults = 2
    None = None
INVARIANTS
    TypeOK
    DoneWasDelivered
    ClaimExclusive
PROPERTIES
    EventuallyDone
    KeepsPromise
