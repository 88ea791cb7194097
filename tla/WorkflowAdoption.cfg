SPECIFICATION Spec
CONSTANTS
    Workers = {w1}
    Kinds = {"commit", "load", "update", "session", "materialize", "touch", "apply", "record"}
    MaxTexts = 2
    MaxOps = 1
    MaxVersion = 2
    None = None
INVARIANTS
    TypeOK
    
    
    
