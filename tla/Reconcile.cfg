SPECIFICATION FairSpec
CONSTANTS
    u1 = u1
    i1 = i1
    n1 = n1
    n2 = n2
    e1 = e1
    e2 = e2
    Users = {u1, u2}
    Emails = {e1}
    EmailOf <- SharedEmail
    Inbounds = {i1, i2}
    Nodes = {n1}
    NodeOf <- OneNode
    Clients = {c1, c2}
    None = None
    MaxOps = 3
    MaxFaults = 1
INVARIANT NoForgottenWork
INVARIANT IInv
PROPERTY OnlyTombstonesPurged
PROPERTY Converges
