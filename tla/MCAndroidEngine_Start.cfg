CONSTANTS
    MaxTaps = 2
    MaxRevokes = 0
SPECIFICATION FairSpec
PROPERTIES
    StartReturns
CHECK_DEADLOCK FALSE
