SPECIFICATION FairSpec
CONSTANTS
    w1 = w1  w2 = w2  f1 = f1  f2 = f2
    None = None
    Worker = {w1}
    Flips = {f1, f2}
    TaskSize = 2
    NumBatches = 2
    MaxTasks = 2
    MaxCrashes = 1
    MaxAttempts = 2
    MaxLate = 1
INVARIANTS
    RightPerturbation Inductive
PROPERTIES
    ImplementsTune
    EndedTaskLeft
CHECK_DEADLOCK FALSE
