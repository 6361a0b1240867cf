SPECIFICATION Spec
CONSTANTS
    None = None
    People = {alice}
    Tenants = {acme}
    TenantsOf <- AllOffered
    Calls = {a1, a2, a3}
    Polls = {s1}
    MaxLoops = 2
    KeyRegistry = TRUE
    MaxTokens = 3
SYMMETRY Symmetry
INVARIANTS
    TypeOK
    OneLoopIsHeld
PROPERTIES
    SavedTokensAreUnspent
