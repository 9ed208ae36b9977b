SPECIFICATION Spec
CONSTANTS
    None = None
    Inputs <- MCInputs
    Clients = {c1}
    MaxTokens = 2
    MaxStored = 2
INVARIANT SubInv
INVARIANT StoredInboundWorks
INVARIANT FormatsAgree
INVARIANT ClientMatchesNode
