CONSTANTS
    MaxTaps = 3
    MaxRevokes = 1
SPECIFICATION FairSpec
INVARIANTS
    StoppedIsNotConnected
    OneOwnEngine
    InterfaceHasOwner
PROPERTIES
    StopReturns
CHECK_DEADLOCK FALSE
