\* The code keeps none of the properties below; they are checked one at a time.
SPECIFICATION MeterSpec
CONSTANTS
    u1 = u1
    e1 = e1
    e2 = e2
    Nodes = {n1}
    Users = {u1}
    Emails = {e1}
    EmailOf <- SharedEmail
    None = None
    MaxBytes = 1
    MaxResets = 0
    MaxFailures = 1
INVARIANT ReadsLoseNothing
\* INVARIANT PendingNotPersisted
