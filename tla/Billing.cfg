SPECIFICATION FairSpec
CONSTANTS
    x1 = x1
    a = a
    b = b
    e1 = e1
    e2 = e2
    e3 = e3
    e4 = e4
    e5 = e5
    e6 = e6
    None = None
    Events = {e1, e2, e3, e4, e5, e6}
    Payload <- Lifetime
    Emails = {a, b}
    ExternalIds = {x1}
    Handlers = {h1, h2}
    MaxDeliveries = 4
    MaxFaults = 1
INVARIANT AtMostOnce
INVARIANT OneAccount
PROPERTY ReplaysAcknowledged
PROPERTY ImplementsInbox
CHECK_DEADLOCK FALSE
