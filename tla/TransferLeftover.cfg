SPECIFICATION Spec
CONSTANTS
    NumFiles = 2
    NumBlocks = 2
    MaxVersion = 2
    MaxTrouble = 2
    FaultKinds = {}
CHECK_DEADLOCK FALSE
INVARIANT DoneLeavesNoPartial
