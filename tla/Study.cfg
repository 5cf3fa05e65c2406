SPECIFICATION StudySpec
CONSTANTS
    None = None
    l1 = l1  l2 = l2  b1 = b1  b2 = b2  n1 = n1  n2 = n2
    q1 = q1  q2 = q2  x = x  y = y
    SurahAyahs <- MCSurahAyahs
    LineEnds <- MCLineEnds
    QuarterStarts <- MCQuarterStarts
    LinesInHalf = 2
    QuartersInHizb = 2
    LastPage = 3
    MaxAmount = 5
    LinesPer <- MCLinesPer
    Lessons = {l1, l2}
    Batches = {b1, b2}
    Notes = {n1, n2}
    MaxWardId = 2
    MaxEntryId = 2
    MaxRevisions = 3
    PlanDays = {1, 2}
    Tracks = {x, y}
    Configurations = {1, 2}
    PlanRequests = {q1, q2}
    MaxVersion = 4
    MaxLinks = 2
    People = {1}
    Phones = {1, 2}
    Calls = {1}
    AttemptLimit = 2
    MaxAttempts = 3
    MaxDevices = 3
    MaxAuthVersion = 2
    Interval = 2
    Retention = 3
    MaxCommits = 1
    MaxCrashes = 1
INVARIANTS PortionsWhole DaysFollowItems DeviceSessionsCurrent WholeBackupKept UpgradesSurviveCrashes
PROPERTIES CursorSkipsNothing HistoryOneByOne PlanAsSeen
CHECK_DEADLOCK FALSE
