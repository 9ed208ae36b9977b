SPECIFICATION FairSpec
CONSTANTS
    Actors = {a1, a2}
    Updates = {c1}
    MaxUptime = 2
    MaxRestarts = 1
    MaxOutages = 1
    MaxStarts = 1
    MaxFaults = 1
INVARIANT HealthInv
PROPERTY LongUptimeRestartNoticed
PROPERTY OfflineNeedsMisses
PROPERTY ShownOnline
PROPERTY OfflineShown
