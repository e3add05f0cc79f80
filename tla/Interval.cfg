SPECIFICATION Spec
CONSTANTS
    Length = 2
    NumMinutes = 5
    MaxVersion = 1
    ChanCap = 1
    BatchSize = 2
    MaxHistory = 1
    MaxOvertaken = 1
CHECK_DEADLOCK FALSE
INVARIANTS
    CompletedIsOver
    CompletedIsWhole
PROPERTY
    QueuedIsFlushed
