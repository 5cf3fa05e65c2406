SPECIFICATION Spec
CONSTANTS
    r1 = r1  r2 = r2
    amal = amal  badr = badr
    present = present  absent = absent
    k1 = k1  k2 = k2
    None = None
    Requests = {r1, r2}
    SessionIds = {1}
    Students = {amal, badr}
    Assigned = {amal}
    Dates = {1, 2}
    Statuses = {present, absent}
    AutoStatus <- MCAutoStatus
    Keys = {k1}
    MultipleSessions = TRUE
    Endpoints = {"create", "batch", "confirm", "reopen", "archive", "recover", "update"}
    MaxVersion = 3
SYMMETRY MCSymmetry
CONSTRAINT MovedFirst
INVARIANTS FreshViews BatchOnce
PROPERTIES NoLostUpdate ImplementsLifecycle SelectedRosterKept
