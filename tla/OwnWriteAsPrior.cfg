SPECIFICATION Spec
CONSTANTS
    charge = charge
    rule = rule
    sale = sale
    r1 = r1
    r2 = r2
    Events = {charge}
    Registers = {r1, r2}
    Settings = {s1}
    Writes <- MCWrites
    Stored = {{charge}}
    Rules = {}
    Sales = {}
    Rank <- MCRank
    Faults = {"unverified"}
    Tick = Tick
    Requests = {}
    MaxMishaps = 1
    Targets = {}
    None = None
INVARIANT HeldPriorIsOwners
