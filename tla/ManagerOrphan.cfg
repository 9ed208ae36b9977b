SPECIFICATION Spec
CONSTANTS
    None = None
    Actors = {a1, a2}
    Clients = {c1, c2}
    MaxOps = 2
    MaxMisses = 0
    MaxFaults = 0
INVARIANT ActorIffNode
CHECK_DEADLOCK FALSE
