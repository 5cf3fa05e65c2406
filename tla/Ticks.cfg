SPECIFICATION TicksSpec
CONSTANTS
    w1 = w1  w2 = w2  a1 = a1  a2 = a2
    amal = amal  badr = badr
    s1 = s1  s2 = s2  s3 = s3  s4 = s4
    None = None
    DaysPerWeek = 2
    Horizon = 1
    Workers = {w1}
    Admins = {a1}
    Schedules = {1, 2}
    SessionIds = {s1, s2, s3}
    Students = {amal}
    Dates = {1, 2}
    Bodies <- MCOneDay
    Failing = {1}
    Endpoints = {"settings", "create", "update"}
    MaxManual = 1
    MaxVersion = 2
    MaxRestarts = 1
PROPERTIES DueIsDecided
