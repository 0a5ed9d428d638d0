SPECIFICATION Spec
CONSTANTS
    Conns = {c1, c2}
    Terms = {1}
    MaxGens = 2
    MaxShells = 2
    MaxFlips = 1
INVARIANTS TypeOK NoOrphanShell
PROPERTIES PersistentSurvives TemporaryGoes
CHECK_DEADLOCK FALSE
