SPECIFICATION Spec
CONSTANTS
    h1 = h1
    h2 = h2
    Hosts = {h1, h2}
    NoHost = NoHost
    MaxId = 3
    Taken <- TakenInTurn
    MaxFlight = 1
    MaxRounds = 1
INVARIANTS TypeOK RegisteredSound
PROPERTY Settles
