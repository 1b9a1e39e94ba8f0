CONSTANTS
    MaxPushes = 1
    MaxMerges = 1
    MaxLeases = 2
    MaxExperiments = 2
SPECIFICATION Spec
INVARIANTS RecordsAreTrue OneReviewEach DecidedIsPosted RunningIsOwned
CHECK_DEADLOCK FALSE
