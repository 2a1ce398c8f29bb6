SPECIFICATION IslandSpec
SYMMETRY Symmetry
CONSTANTS
    None = None
    Poller = Poller
    Keys = {k1, k2}
    Phones = {p1, p2}
    Boxes = {}
    ApiKeys = {}
    Inverters = {}
    Codes = {}
    Requests = {r1, r2}
    CloudChannel = FALSE
    Paired = {k1}
    MaxRequests = 3
    MaxPolls = 0
    MaxCrashes = 1
    DayHours = 2
    RawRetention = 6
    HourlyRetention = 7
    Zones <- FourZones
    UtcZone <- Utc
    InverterZone <- Utc
    MaxTime = 13
    MaxGaps = 1
    MaxMoves = 1
    MaxMisses = 1
INVARIANT IslandTypeOK
PROPERTY OnlyTrustOrStaleCopyUnrevokes
PROPERTY LastAdminKept
PROPERTY HistoryKept
CHECK_DEADLOCK FALSE
