SPECIFICATION FairSpec
CONSTANTS
    None = None
    InboundIds = {i1, i2}
    Tags = {t1, t2}
    Configured = {t1}
    Users = {u1}
    Clients = {c1}
    MaxOps = 3
PROPERTY ActiveIsServed
