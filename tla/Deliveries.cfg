CONSTANTS
    d1 = d1  d2 = d2  r1 = r1  r2 = r2
    Body = {d1, d2}
    Handler = {r1, r2}
    Retention = 4
    StaleAfter = 2
    Skew = 1
    Stall = 1
    MaxTime = 6
SPECIFICATION Spec
INVARIANTS ActedOnce OneHolder RefusedForAReason
SYMMETRY Symmetry
CHECK_DEADLOCK FALSE
