SPECIFICATION MCSpec
CONSTANTS
    d1 = d1  d2 = d2
    sami = sami  tariq = tariq  amal = amal
    m1 = m1  m2 = m2  m3 = m3
    a1 = a1  a2 = a2
    None = None
    Scope <- MCScope
    Owner <- MCOwner
    Target <- MCTarget
    Sheikhs = {sami, tariq}
    Students = {amal}
    Devices = {d1}
    Mutations = {m1, m2}
    Attempts = {a1, a2}
    PageSize = 2
    Writes = {"student", "attendance", "delete", "switch", "assign"}
    MaxLog = 3
    MaxResets = 2
    MaxLosses = 1
INVARIANTS AsNewAsCursor MutationOnce ToldTheTruth
CHECK_DEADLOCK FALSE
PROPERTIES ReplicaCatchesUp
