SPECIFICATION ThreadsSpec
CONSTANTS
    t1 = t1  t2 = t2  t3 = t3  c1 = c1  c2 = c2
    r1 = r1  r2 = r2  q1 = q1  q2 = q2
    Task = {t1, t2, t3}
    NoTask = NoTask
    Caller = {c1, c2}
    OneShot = {t3}
    Period <- Periods
    InitialDelay <- Delays
    MinDelay <- MinDelays
    Jitter <- Jitters
    MaxLate = 1
    MaxCalls = 2
    Run = {r1, r2}
    Requester = {q1, q2}
    Worker = Worker
\* A scheduler that was stopped does nothing.
CHECK_DEADLOCK FALSE
INVARIANTS
    Inductive
    NoLostSignal
    NoDeadlock
PROPERTIES
    OnlyDue
    DueRuns
    StopReturns
