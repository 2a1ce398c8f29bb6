SPECIFICATION FairSpec
CONSTANTS
    N = 2
    Powers = {p1}
    BatchMax = 1
    MaxAttempts = 2
    Heartbeat = 2
    MaxArrivals = 1
    MaxCrashes = 1
    MaxFloor = 1
    Servers = {"serves", "stops", "evicts"}
    Configs <- IntervalConfigs
INVARIANT GivenUpOnlyWhenRefused
PROPERTY EvictionIsFinal
PROPERTY NothingBlocksTheQueue
