SPECIFICATION Spec
CONSTANTS
    Functions = {f1}
    Contents = {c1, c2}
    Workers = {w1}
    Ops = {"publish", "unpublish"}
    MaxReleases = 2
    None = None
SYMMETRY Symmetry
INVARIANTS
    PublishedRetained
