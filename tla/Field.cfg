SPECIFICATION FieldSpec
CONSTANTS
    Callers = {reader, beat}
    Beat = beat
    Vendor = vendor
    MaxQueued = 1
    MaxAsks = 2
    MaxLinks = 1
    Collectors = {p, q}
    Paired = {p}
    Addresses = {a, b, c}
    Dialable = {a, b, c}
    NoSerial = none
    MaxSessions = 3
    MaxMishaps = 2
    byCloud = byCloud
    byApp = byApp
    Writers = {byCloud, byApp}
    Recipes <- TwoRecipes
    PanelReads = {r}
    Frames = {"blind", "odd", "bad"}
    MaxRequests = 1
    StaleAfter = 1
    SourceAllowed = TRUE
    MaxTime = 4
    MaxReadings = 2
    MaxEvents = 1
    Boards = {h1}
    Packs = {p1}
    Views = {v1}
    MaxPacks = 1
    MaxChanges = 1
    MaxLosses = 1
    Inverters <- FourInverters
    Charges = {60, 64, 90}
CHECK_DEADLOCK FALSE
INVARIANT FieldTypeOK
INVARIANT HoldEnds
INVARIANT FramesJudgedRight
PROPERTY KeepsPromise
PROPERTY PairedIsRead
PROPERTY LoggerServesAll
PROPERTY EpochsMeet
