SPECIFICATION CacheSpec
CONSTANTS
    r1 = r1  r2 = r2  o1 = o1  o2 = o2  h1 = h1  h2 = h2  sched = sched  main = main
    Run = {r1, r2}
    Obj = {o1, o2}
    Handler = {h1, h2}
    Sched = sched
    Main = main
    PrioWeight = 1
    MaxAge = 2
    MaxVersion = 2
    Endings = {"buffer", "save", "forget"}
    Failures = {h1, sched}
INVARIANTS
    Sound
    OneCopy
    LatestRead
    ChangesMarked
PROPERTIES
    ImplementsStore
    NeverOlder
    EverySaved
