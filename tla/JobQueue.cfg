CONSTANTS
    w1 = w1  w2 = w2  p1 = p1  p2 = p2
    Worker = {w1, w2}
    PR = {p1}
    Kind = {"pull_request.synchronize", "pull_request.closed", "issue_comment.approve"}
    LeaseSecs = 2
    DebounceSecs = 1
    MaxAttempts = 2
    Backoff <- MCBackoff
    ResetDelay = {1}
    MaxTime = 2
    MaxJobs = 2
    MaxEvents = 3
    MaxRestarts = 1
SPECIFICATION FairSpec
INVARIANTS PendingUnique RunExclusive
PROPERTIES LedgerSpec DueIsServed ShutdownEnds
CHECK_DEADLOCK FALSE
