CONSTANTS
    w1 = w1  w2 = w2  h1 = h1  h2 = h2  c1 = c1
    Worker = {w1, w2}
    Sha = {h1, h2}
    Checker = {c1}
    ReadsLag = TRUE
    LookupsFail = TRUE
    MaxPushes = 2
    MaxCloses = 1
    MaxGenerations = 2
SPECIFICATION Spec
INVARIANTS OneLive EntryIsUnderWay LiveIsRegistered WatcherCaughtUp
PROPERTY CondemnedWindsDown
SYMMETRY Symmetry
CHECK_DEADLOCK FALSE
