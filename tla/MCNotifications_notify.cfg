SPECIFICATION TabsSpec
CONSTANTS
    t1 = t1  t2 = t2  r1 = r1  r2 = r2
    None = None
    Tab = {t1, t2}
    MaxClicks = 2
    Run = {r1, r2}
    WebLocks = TRUE
    Capacity = 1
    FetchInterval = 2
    SleepTime = 2
    SettleTime = 1
    WakeUpTime = 3
    PurgeInterval = 3
    Grace = 0
    Lateness <- Throttled
    AnswerLimit = 1
    Horizon = 2
    MaxFollows = 2
    MaxEvents = 2
    Lasting = {t1}
INVARIANTS
    Inductive
    OnePlace
    NoneLost
PROPERTIES
    PurgeKeepsNews
    FollowedIsNotified
