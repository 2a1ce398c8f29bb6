SPECIFICATION ReloadSpec
CONSTANTS
    N = 1
    Powers = {p1, p2}
    BatchMax = 2
    MaxAttempts = 2
    Heartbeat = 2
    MaxArrivals = 1
    MaxCrashes = 0
    MaxFloor = 0
    Servers = {"serves", "stops"}
    Configs <- IntervalConfigs
PROPERTY ReenabledResumes
