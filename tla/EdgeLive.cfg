SPECIFICATION EdgeSpec
CONSTANTS
    Commands = {c1, c2}
    Devices = {d1}
    Connections = {q1}
    Senders = {}
    Ttls = {3}
    DispatchTtl = 3
    RedeliverAfter = 2
    MaxDeliveries = 2
    AckTimeout = 1
    Null = Null
    Keys = {}
    Phones = {}
    Boxes = {b1}
    Inverters = {i1}
    ApiKeys = {a1}
    Codes = {k1}
    Requests = {r1, r2}
    Served = {"adopt", "forget", "contact", "ip", "update"}
    None = None
    Things = {}
    Sensing = {}
    Hubs = {}
    ShortAddrs = {}
    MaxJoins = 0
    MaxActs = 0
    Unlisted = unlisted
PROPERTY KeepsPromise
PROPERTY CallersAnswered
