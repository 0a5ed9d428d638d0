SPECIFICATION Spec
CONSTANTS
    Conns = {c1, c2, c3}
    Keys = {k1}
SYMMETRY Symmetry
INVARIANTS TypeOK RestoredWhenIdle WakeLockExact SessionKept
CHECK_DEADLOCK FALSE
