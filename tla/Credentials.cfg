CONSTANTS
    c1 = c1  c2 = c2
    Caller = {c1, c2}
    Life = 2
    Margin = 1
    NegativeTtl = 1
    Stall = 0
    Delay = 1
    MaxTime = 2
    MaxInstalls = 2
SPECIFICATION Spec
PROPERTIES HandedIsFresh HandedIsRecent NotInstalledIsRecent RefusedOnlyOnChange
SYMMETRY Symmetry
CHECK_DEADLOCK FALSE
