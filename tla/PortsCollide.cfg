SPECIFICATION FairSpec
CONSTANTS
    Goroutines = {g1, g2}
    Ports = {p1, p2}
    NoPort = NoPort
    NumAddrs = 2
    MaxTries = 2
INVARIANT NoCollision
CHECK_DEADLOCK FALSE
