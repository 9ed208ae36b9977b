\* The code keeps none of the properties below; they are checked one at a time.
SPECIFICATION FairSpec
CONSTANTS
    Actors = {a1, a2}
    Updates = {c1}
    MaxUptime = 4
    MaxRestarts = 1
    MaxOutages = 1
    MaxStarts = 1
    MaxFaults = 0
PROPERTY RestartDetected
\* PROPERTY ShownOffline
\* INVARIANT OnlineAgrees
