\* The code keeps none of the properties below; they are checked one at a time.
SPECIFICATION Spec
CONSTANTS
    Clients = {c1, c2}
    Null = Null
    Keep = Keep
    Limits = {0, 1}
    Expiries = {1}
    Days = {1}
    MaxTime = 1
    MaxUsed = 1
    MaxOps = 2
    MaxFaults = 0
PROPERTY RenewalIsAtomic
\* PROPERTY RenewalsStack
\* PROPERTY DisabledStays
\* PROPERTY RenewalRestoresService
\* PROPERTY ResetReactivates
\* INVARIANT UnlimitedIsAnnounced
