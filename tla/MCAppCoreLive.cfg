SPECIFICATION FairSpec
CONSTANTS
    None = None
    People = {alice}
    Tenants = {acme}
    TenantsOf <- AllOffered
    Calls = {a1, a2}
    Polls = {s1}
    MaxLoops = 3
    KeyRegistry = FALSE
    MaxTokens = 2
PROPERTIES
    CallsReturn
    StoppedLoopsEnd
    UpIsRenewed
    LoopsEndWithTheTunnel
