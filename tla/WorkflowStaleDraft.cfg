SPECIFICATION Spec
CONSTANTS
    Workers = {w1}
    Kinds = {"commit", "record"}
    MaxTexts = 4
    MaxOps = 2
    MaxVersion = 3
    None = None
SYMMETRY Symmetry
INVARIANTS
    StaleDraftAdoptable
