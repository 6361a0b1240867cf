SPECIFICATION Spec
CONSTANTS
    TTLs = {5, 24, 30}
    HelperFloor = 3
    HelperCeil = 12
    AppFloor = 2
    AppCeil = 9
    RetryAfter = 6
    CallTime = 3
    Patience = 5
    Naps = {2, 20, 40}
    MaxUpsets = 1
    MaxMisses = 2
INVARIANTS
    TypeOK
    LeaseIsNotOverestimated
    CutOffIsBounded
    OneRenewOfTheApp
PROPERTIES
    LeaseOutlastsOneFailure
    AppRenewsFirst
