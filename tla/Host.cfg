SPECIFICATION HostSpec
CONSTANTS
    Phones = {phone}
    Inverters = {i}
    MaxQueue = 1
    MaxBots = 1
    MaxOutages = 1
    MaxFaults = 1
    Units = {u}
    Models = {m1, m2}
    DeyeModels = {m1}
    NoRead = none
    Retries = 1
    MaxEdits = 1
    MaxChanges = 2
    MaxSeeds = 1
    MaxTroubles = 1
    Changes = {"conn", "add"}
    MaxOptionEdits = 1
    MaxMishaps = 1
    Requests = {r1, r2}
    Dialogs = {d}
    MaxCodes = 2
    MaxWrong = 1
    Nobody = nobody
CHECK_DEADLOCK FALSE
INVARIANT HostTypeOK
INVARIANT ToldOnce
INVARIANT ChangesTakeEffect
INVARIANT PairedAsShown
 
PROPERTY SettingsReachCloud
