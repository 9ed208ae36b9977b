\* The code keeps none of the properties below; they are checked one at a time.
SPECIFICATION SettingsSpec
CONSTANTS
    Clients = {c1, c2}
    CAs = {ca}
    Pairs = {p, q}
    Junk = Junk
    Empty = Empty
    Absent = Absent
    MaxOps = 3
CHECK_DEADLOCK FALSE
PROPERTY AbsentLeavesUnchanged
\* INVARIANT ActorHasStoredSettings
