CONSTANTS
    w1 = w1  w2 = w2  h1 = h1  h2 = h2  c1 = c1
    Worker = {w1, w2}
    Sha = {h1, h2}
    Checker = {c1}
    ReadsLag = TRUE
    LookupsFail = FALSE
    MaxPushes = 3
    MaxCloses = 1
    MaxGenerations = 1
SPECIFICATION FairSpec
PROPERTY StaleReviewStops
CHECK_DEADLOCK FALSE
