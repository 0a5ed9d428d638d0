SPECIFICATION Spec
CONSTANTS
    Conns = {c1, c2}
    AckConns = {c2}
    MaxTries = 2
    MaxQueue = 2
INVARIANTS TypeOK KeyFrameFirst BacklogBounded WaitersRegistered
PROPERTIES WaitEnds RefreshHonoured
CHECK_DEADLOCK FALSE
