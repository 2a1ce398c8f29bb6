SPECIFICATION EdgeSpec
SYMMETRY Symmetry
CONSTANTS
    Commands = {c1, c2}
    Devices = {d1}
    Connections = {q1}
    Senders = {s1, s2}
    Ttls = {4}
    DispatchTtl = 3
    RedeliverAfter = 2
    MaxDeliveries = 2
    AckTimeout = 1
    Null = Null
    Keys = {}
    Phones = {}
    Boxes = {b1, b2}
    Inverters = {i1}
    ApiKeys = {a1, a2}
    Codes = {k1, k2}
    Requests = {r1, r2}
    Served = {"adopt", "forget", "contact"}
    None = None
    Things = {z1, z2}
    Sensing = {z2}
    Hubs = {h1, h2}
    ShortAddrs = {n1}
    MaxJoins = 2
    MaxActs = 2
    Unlisted = unlisted
INVARIANT EdgeTypeOK
INVARIANT DeliveredAtMostTwice
 
PROPERTY FirstHandedInOrder
 
 
 
