SPECIFICATION Spec
CONSTANTS
    alice = alice
    bob = bob
    tabA = tabA
    tabB = tabB
    Users = {alice, bob}
    Tabs = {tabA, tabB}
    UserOf <- TabUsers
    Everyone = Everyone
    Targets = {alice, Everyone}
    Conns = {1, 2}
    MaxPublished = 3
    MaxServes = 2
    HistoryLimit = 2
    UserLimit = 1
    GlobalLimit = 2
    ReadCount = 2
    MaxUpsets = 2
    Channels = {wecom}
    Operators = {boot, request}
    Boot = boot
    MaxWorkers = 3
    MaxEdits = 2
    MaxBotFaults = 1
    MaxReconnectAttempts = 1
CHECK_DEADLOCK FALSE
INVARIANTS
    ConnectionsTypeOK
    NoGap
    OnlyOwnEvents
    TicketOpensOnce
    OnlyPeersBlock
    NoDuplicateWorker
    
    StopCancelsAll
