SPECIFICATION EditsSpec
CONSTANTS
    r1 = r1  r2 = r2
    amal = amal  badr = badr
    present = present  absent = absent
    k1 = k1
    None = None
    Requests = {r1, r2}
    SessionIds = {1}
    Students = {amal}
    Assigned = {amal}
    Dates = {1}
    Statuses = {present, absent}
    AutoStatus <- MCAutoStatus
    Keys = {k1}
    MultipleSessions = FALSE
    Endpoints = {"create", "patch", "confirm"}
    MaxVersion = 2
SYMMETRY MCSymmetry
PROPERTIES LockedSessionsStay
