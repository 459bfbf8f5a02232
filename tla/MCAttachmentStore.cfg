SPECIFICATION FairSpec
CONSTANTS
    a1 = a1
    a2 = a2
    old = old
    new = new
    d1 = d1
    d2 = d2
    d3 = d3
    Dead = Dead
    None = None
    Attachments = {a1, a2}
    Contents = {old, new}
    Tasks = {d1, d2, d3}
    MaxFaults = 2
INVARIANTS
    TypeOK
    ReadyHasItsFile
    PartsAreOwned
PROPERTIES
    ReadyIsKept
    
