CONSTANTS
    review1 = review1  review2 = review2
    Call = {review1, review2}
    Unique = {review1, review2}
    Text <- MCText
    Deadline = 3
    BaseDelay = 1
    MaxDelay = 2
    LookupSettle = 1
    ClockSlack = 1
    RetryAfter = {2}
    Lag = 2
    Skew = 1
    MaxTime = 4
SPECIFICATION FairSpec
INVARIANTS LandsOnce
PROPERTIES PromiseKept CallReturns
CHECK_DEADLOCK FALSE
