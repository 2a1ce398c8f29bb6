SPECIFICATION Spec
SYMMETRY Symmetry
CONSTANTS
    N = 3
    Powers = {p1, p2}
    BatchMax = 2
    MaxAttempts = 2
    Heartbeat = 2
    MaxArrivals = 1
    MaxCrashes = 0
    MaxFloor = 0
    Servers = {"serves"}
    Configs <- AllConfigs
INVARIANT TypeOK
INVARIANT NoneLost
