SPECIFICATION Spec
CONSTANTS
    l1 = l1
    l2 = l2
    Logins = {l1, l2}
    Flows <- EachBesideGoAuthn
    Callbacks = {c1, c2, c3}
    None = None
    Intervals = {0, 2}
    Lifetimes = {12}
    DefaultInterval = 1
    SlowStep = 1
    CallTime = 3
    Buffer = 1
    MaxInterval = 3
SYMMETRY Symmetry
INVARIANTS
    TypeOK
    AuthorizedInTimeSignsIn
    EndsWithItsCode
    PromptIsLive
    HandlersFindRoom
PROPERTIES
    PollsAreSpaced
CHECK_DEADLOCK FALSE
