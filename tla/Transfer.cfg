SPECIFICATION Spec
CONSTANTS
    NumFiles = 2
    NumBlocks = 2
    MaxVersion = 2
    MaxTrouble = 3
    FaultKinds = {"open", "read", "stat", "seek", "write", "finalize"}
INVARIANTS TypeOK StoredIntact SkippedNotCompleted ConfirmationComing
PROPERTIES CompletedIsStored
CHECK_DEADLOCK FALSE
