SPECIFICATION Spec
CONSTANTS
    None = None
    Actors = {a1, a2}
    Clients = {c1}
    MaxOps = 1
    MaxMisses = 0
    MaxFaults = 1
INVARIANT ActorIffNode
CHECK_DEADLOCK FALSE
