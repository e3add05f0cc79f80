SPECIFICATION Spec
CONSTANTS
    FirstBackoff = 1000
    MaxBackoff = 300000
    WaitTimeout = 10000
    MaxDelay = 60
    MaxFaults = 12
CHECK_DEADLOCK FALSE
INVARIANTS
    TypeOK
    BackoffRange
PROPERTIES
    LongBackoffIsForever
    ServesOrIsLocked
