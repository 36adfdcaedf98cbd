SPECIFICATION FairSpec
CONSTANTS
    r1 = r1  r2 = r2  c1 = c1  c2 = c2  n1 = n1  n2 = n2  a1 = a1  a2 = a2  u1 = u1  u2 = u2
    Run = {r1}
    Client = {c1, c2}
    Name = {n1}
    Addr = {a1}
    User = {u1}
    NameOf <- SameName
    CoresOf <- TwoCores
    WorkerCap <- Pairs
    Kinds = {"games"}
    NumGames = {2}
    AutoPurge = {TRUE}
    Reports <- OneReport
    CrashLimit = 0
    BatchGames = 2
    ConnLimit = 2
    MaxTasks = 2
    Accepts <- TwoAhead
    Rejects <- FourBehind
PROPERTIES
    DeadTaskReleased
