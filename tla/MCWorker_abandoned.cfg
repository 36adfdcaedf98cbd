SPECIFICATION Spec
CONSTANTS
    w1 = w1  w2 = w2  f1 = f1  f2 = f2
    None = None
    Worker = {w1}
    Flips = {f1}
    TaskSize = 1
    NumBatches = 2
    MaxTasks = 2
    MaxCrashes = 0
    MaxAttempts = 1
    MaxLate = 0
PROPERTIES
    NoLongerNecessary
CHECK_DEADLOCK FALSE
