SPECIFICATION Spec
SYMMETRY Symmetry
CONSTANTS
    charge = charge
    rule = rule
    sale = sale
    r1 = r1
    r2 = r2
    Events = {charge, rule, sale}
    Registers = {r1, r2}
    Settings = {s1, s2}
    Writes <- MCWrites
    Stored = {{charge, rule}, {charge, sale}}
    Rules = {rule}
    Sales = {sale}
    Rank <- MCRank
    Faults = {"unwritten"}
    Tick = Tick
    Requests = {q1}
    MaxMishaps = 1
    Targets = {charge}
    None = None
INVARIANT TypeOK
INVARIANT SettingsAreOnRecord
INVARIANT HeldPriorIsOwners
PROPERTY HandsBack
 
