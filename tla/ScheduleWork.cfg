SPECIFICATION WorkSpec
CONSTANTS
    w1 = w1  w2 = w2  a1 = a1  a2 = a2
    amal = amal  badr = badr
    s1 = s1  s2 = s2  s3 = s3  s4 = s4
    None = None
    DaysPerWeek = 2
    Horizon = 1
    Workers = {w1, w2}
    Admins = {a1, a2}
    Schedules = {1}
    SessionIds = {s1, s2}
    Students = {amal}
    Dates = {1, 2}
    Bodies <- MCBodies
    Failing = {}
    Endpoints = {}
    MaxManual = 1
    MaxVersion = 3
    MaxRestarts = 0
INVARIANTS OwnSessions OccurrenceOnce
PROPERTIES SkipsSpareWork RostersNeverBroaden
SYMMETRY WorkSymmetry
