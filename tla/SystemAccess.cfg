SPECIFICATION Spec
CONSTANTS
    Users = {root, ann}
    Root = root
    Roles = {admin, clerk}
    Admin = admin
    Functions = {fn}
    Keys = {run}
    MaxMenus = 3
    MaxEdits = 2
    Calls = {c1, c2}
    MaxTokens = 2
    MaxAuthFaults = 1
    NoUser = NoUser
    Syncs = {s1, s2}
    Checks = {q1}
    MaxSyncs = 3
    MaxMenuFaults = 1
SYMMETRY Symmetry
CHECK_DEADLOCK FALSE
INVARIANTS
    SystemTypeOK
    OneRenewal
    NoLateEntry
    
    OpenedByGrant
