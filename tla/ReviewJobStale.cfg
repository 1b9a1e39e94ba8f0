CONSTANTS
    MaxPushes = 1
    MaxMerges = 1
    MaxLeases = 2
    MaxExperiments = 1
SPECIFICATION Spec
INVARIANT NotOfAnEarlierHead
CHECK_DEADLOCK FALSE
