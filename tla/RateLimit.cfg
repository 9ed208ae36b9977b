SPECIFICATION Spec
CONSTANTS
    IPs = {a, b, c}
    Burst = 2
    Threshold = 1
INVARIANT Refilled
PROPERTY ImplementsLimiter
