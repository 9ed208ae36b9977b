SPECIFICATION FairSpec
CONSTANTS
    None = None
    InboundIds = {i1}
    Tags = {t1, t2}
    Configured = {t1, t2}
    Users = {u1}
    Clients = {c1}
    MaxOps = 3
PROPERTY NoUserLeftBehind
