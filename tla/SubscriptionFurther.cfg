\* The code keeps none of the properties below; they are checked one at a time.
SPECIFICATION FairSpec
CONSTANTS
    None = None
    Inputs <- FewInputs
    Clients = {c1, c2}
    MaxTokens = 2
    MaxStored = 2
PROPERTY AccountFollowsInbound
\* PROPERTY ListedIsAssigned
\* PROPERTY ReplacedTokenStaysInvalid
\* INVARIANT VMessLinkComplete
