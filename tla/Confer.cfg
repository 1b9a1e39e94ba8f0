CONSTANTS
    w1 = w1  w2 = w2  j1 = j1  j2 = j2  j3 = j3  h1 = h1  h2 = h2
    Worker = {w1, w2}
    Row = {j1, j2}
    Sha = {h1, h2}
    MaxPerPr = 2
    MaxInterrupts = 1
    None = None
SPECIFICATION Spec
INVARIANTS RecordsAreTrue LastComesLast ConfersAreCounted BudgetHolds
SYMMETRY Symmetry
CHECK_DEADLOCK FALSE
