SPECIFICATION FairSpec
CONSTANTS
    charge = charge
    rule = rule
    sale = sale
    r1 = r1
    r2 = r2
    Events = {charge}
    Registers = {r1, r2}
    Settings = {s1}
    Writes <- MCWrites
    Stored = {{charge}}
    Rules = {}
    Sales = {}
    Rank <- MCRank
    Faults = {"unverified"}
    Tick = Tick
    Requests = {q1, q2}
    MaxMishaps = 1
    Targets = {charge}
    None = None
 
INVARIANT RestoredByOne
