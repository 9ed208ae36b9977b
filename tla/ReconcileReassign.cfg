SPECIFICATION Spec
CONSTANTS
    u1 = u1
    i1 = i1
    n1 = n1
    n2 = n2
    e1 = e1
    e2 = e2
    Users = {u1}
    Emails = {e1}
    EmailOf <- TwoEmails
    Inbounds = {i1}
    Nodes = {n1}
    NodeOf <- OneNode
    Clients = {c1}
    None = None
    MaxOps = 3
    MaxFaults = 0
INVARIANT RequestedIsAssigned
