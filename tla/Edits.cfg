SPECIFICATION WorkSpec
CONSTANTS
    r1 = r1  r2 = r2
    amal = amal  badr = badr
    present = present  absent = absent
    k1 = k1
    None = None
    Requests = {r1, r2}
    SessionIds = {1, 2}
    Students = {amal, badr}
    Assigned = {amal, badr}
    Dates = {1, 2}
    Statuses = {present, absent}
    AutoStatus <- MCAutoStatus
    Keys = {k1}
    MultipleSessions = FALSE
    Endpoints = {"create", "batch", "upsert", "patch", "progress", "delete", "update"}
    MaxVersion = 1
SYMMETRY MCSymmetry
CONSTRAINT WorkBounds
INVARIANTS ProgressFits NoOrphans
