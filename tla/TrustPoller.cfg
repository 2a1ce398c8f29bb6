SPECIFICATION Spec
CONSTANTS
    None = None
    Poller = Poller
    Keys = {k1, k2}
    Phones = {p1}
    Boxes = {}
    ApiKeys = {}
    Inverters = {}
    Codes = {}
    Requests = {r1}
    CloudChannel = TRUE
    Paired = {k1}
    MaxRequests = 2
    MaxPolls = 2
    MaxCrashes = 1
INVARIANT RevokedNeverTrusted
INVARIANT CacheFollowsStore
