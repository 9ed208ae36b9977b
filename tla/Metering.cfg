SPECIFICATION MeterFairSpec
CONSTANTS
    u1 = u1
    e1 = e1
    e2 = e2
    Nodes = {n1, n2}
    Users = {u1, u2}
    Emails = {e1, e2}
    EmailOf <- TwoEmails
    None = None
    MaxBytes = 2
    MaxResets = 2
    MaxFailures = 2
INVARIANT Conservation
INVARIANT TotalsMatchSnapshots
INVARIANT CreditedByEmail
PROPERTY Drains
