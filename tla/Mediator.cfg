SPECIFICATION Spec
CONSTANTS
    h1 = h1
    h2 = h2
    Hosts = {h1, h2}
    NoConf = NoConf
    Lists <- TwoLists
    Ipc = {i1}
INVARIANTS TypeOK AppliedUnlessLost
PROPERTIES OneExitsAllExit StopHonoured
