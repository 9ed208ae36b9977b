SPECIFICATION FairProgramSpec
CONSTANTS
    None = None
    Actors = {a1, a2}
    Clients = {c1, c2}
    MaxOps = 2
    MaxMisses = 1
    MaxFaults = 1
    MaxOutages = 2
INVARIANT ProgramInv
INVARIANT RunningIsRegistered
INVARIANT ServedNodeHasActor
INVARIANT CleanExit
PROPERTY ChangeSurvives
PROPERTY SignalEnds
PROPERTY ActorsExit
CHECK_DEADLOCK FALSE
