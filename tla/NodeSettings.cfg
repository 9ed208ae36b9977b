SPECIFICATION SettingsSpec
CONSTANTS
    Clients = {c1, c2}
    CAs = {ca}
    Pairs = {p, q}
    Junk = Junk
    Empty = Empty
    Absent = Absent
    MaxOps = 3
CHECK_DEADLOCK FALSE
INVARIANT SettingsInv
INVARIANT StoredMaterialBuilds
