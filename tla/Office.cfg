SPECIFICATION OfficeSpec
CONSTANTS
    u1 = u1  u2 = u2  u3 = u3
    c1 = c1  c2 = c2
    i1 = i1  i2 = i2
    v1 = v1  v2 = v2
    d1 = d1  d2 = d2
    egp = egp  usd = usd
    e1 = e1
    s1 = s1  s2 = s2
    t1 = t1  t2 = t2
    p1 = p1  p2 = p2
    w1 = w1
    a1 = a1
    k1 = k1  k2 = k2
    None = None
    Users = {u1, u2, u3}
    Centers = {c1, c2}
    Invitations = {i1, i2}
    Visits = {v1, v2}
    Desks = {d1, d2}
    Currencies = {egp, usd}
    Expenses = {e1}
    Fees = {0, 1, 2}
    MaxStudents = 2
    MaxMonth = 2
    MaxBills = 4
    Learners = {s1, s2}
    Sheikhs = {t1, t2}
    Applications = {a1}
    Periods = {p1, p2}
    Warnings = {w1}
    Clerks = {k1, k2}
    MaxDay = 3
    q1 = q1  q2 = q2
    Names = {"present", "absent", "excused", "not_applicable", "late", "missing"}
    MaxSessions = 3
    Limits = {1, 2}
    Calls = {q1, q2}
    Fields = {"f", "g"}
    Categories = {1, 2}
    FieldNames = {"a", "b"}
    CategoryNames = {"x", "y"}
    Members = {1, 2}
    Submissions = {1}
INVARIANTS InvitationOnce OneStudentPerApplication ValuesInOrder
PROPERTIES HomeOneByOne CurrencyOneByOne ApartOneByOne PaidBillsStay BatchesWhole NobodyLosesSheikh NoticedUnlessMixed RenamesFollow
CHECK_DEADLOCK FALSE
