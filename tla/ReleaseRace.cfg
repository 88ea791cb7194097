SPECIFICATION Spec
CONSTANTS
    Functions = {f1}
    Contents = {c1, c2}
    Workers = {w1, w2}
    Ops = {"publish", "unpublish", "delete", "invoke"}
    MaxReleases = 2
    None = None
SYMMETRY Symmetry
INVARIANTS
    TypeOK
    TrustedCode
    OnePublished
    ActivePointer
    
