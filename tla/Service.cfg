SPECIFICATION Spec
CONSTANTS
    Conns = {c1, c2, c3}
    Values = {v1, v2}
INVARIANTS TypeOK Disjoint GoneIsGone UpToDate
PROPERTIES ImplementsMembership Admission JoinEnds
CHECK_DEADLOCK FALSE
