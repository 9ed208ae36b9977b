SPECIFICATION ProgramSpec
CONSTANTS
    None = None
    Actors = {a1, a2}
    Clients = {c1, c2}
    MaxOps = 2
    MaxMisses = 1
    MaxFaults = 1
    MaxOutages = 2
INVARIANT StoreOutlivesWorkers
CHECK_DEADLOCK FALSE
