CONSTANTS
    Event <- MCEvent
    Commander = {"brayniac"}
    RequireSignature = TRUE
    MaxSends = 2
SPECIFICATION RelayFairSpec
INVARIANTS JobOrReason JobsAreAuthorised
PROPERTY Drains
CHECK_DEADLOCK FALSE
