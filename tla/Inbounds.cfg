SPECIFICATION FairSpec
CONSTANTS
    None = None
    InboundIds = {i1, i2}
    Tags = {t1, t2}
    Configured = {t1}
    Users = {u1, u2}
    Clients = {c1, c2}
    MaxOps = 5
INVARIANT InboundsInv
INVARIANT NodeFollowsRows
PROPERTY SuspendedLeaves
