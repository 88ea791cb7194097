SPECIFICATION Spec
CONSTANTS
    Clients = {c1}
    MaxOps = 4
    Tools = {t1, t2, t3}
    None = None
SYMMETRY Symmetry
INVARIANTS
    TypeOK
    CompletedHasExecution
    ActiveIsLatest
PROPERTIES
    CompletionIsNew
