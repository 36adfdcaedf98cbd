SPECIFICATION SiteSpec
CONSTANTS
    t1 = t1  t2 = t2  r1 = r1  r2 = r2  r3 = r3  q1 = q1  q2 = q2  q3 = q3
    Tab = {t1, t2}
    Run = {r1, r2, r3}
    Capacity = 2
    Lists <- FullList
    MaxQueue = 2
    MaxStarts = 2
    MaxLoads = 1
    Request = {q1, q2, q3}
    Final = 2
\* The bounds are reached.
CHECK_DEADLOCK FALSE
INVARIANTS
    ButtonsCurrent
    NoticesSeen
PROPERTIES
    SettlesOnResult
