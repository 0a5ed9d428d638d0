SPECIFICATION Spec
CONSTANTS
    Users = {u1, u2}
    MIN_FPS = 1
    INIT_FPS = 3
    FPS = 6
    MAX_FPS = 8
    QuickStep = 2
    MinFps <- MCMinFps
    NormalFps <- MCNormalFps
    Qualities = {"low"}
    Delays = {20, 250}
    Late = 2500
    HistoryLen = 0
    MinSamples = 2
    WindowSamples = 2
    MaxEvents = 3
INVARIANTS TypeOK LateHoldsRate
PROPERTY RateRecovers
CHECK_DEADLOCK FALSE
