SPECIFICATION Spec
CONSTANTS
    Functions = {f1, f2}
    Contents = {c1, c2}
    Workers = {w1}
    Ops = {"publish", "unpublish", "edit", "reload", "apply"}
    MaxReleases = 2
    None = None
SYMMETRY Symmetry
INVARIANTS
    PointerIsPublished
