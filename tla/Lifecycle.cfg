SPECIFICATION FairSpec
CONSTANTS
    Clients = {c1, c2}
    Null = Null
    Keep = Keep
    Limits = {1}
    Expiries = {2}
    Days = {1}
    MaxTime = 1
    MaxUsed = 1
    MaxOps = 2
    MaxFaults = 1
INVARIANT LifecycleInv
INVARIANT TimeIsPaidFor
PROPERTY DisabledUntilAsked
PROPERTY OnlyOverlapShortens
PROPERTY Enforced
