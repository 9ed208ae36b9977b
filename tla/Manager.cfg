SPECIFICATION FairSpec
CONSTANTS
    None = None
    Actors = {a1, a2}
    Clients = {c1, c2}
    MaxOps = 3
    MaxMisses = 1
    MaxFaults = 1
INVARIANT TypeOK
INVARIANT RunningIsRegistered
INVARIANT NodeHasActor
PROPERTY ChangeReachesPass
PROPERTY ActorsExit
CHECK_DEADLOCK FALSE
