CONSTANT
    Config <- MCConfig
SPECIFICATION FairSpec
INVARIANTS ReviewedAsConfigured OneServer LostForAReason VerdictOfBoth
PROPERTY ExperimentEnds
CHECK_DEADLOCK FALSE
