SPECIFICATION Spec
CONSTANTS
    b1 = b1
    b2 = b2
    Browsers = {b1, b2}
    ResendAfter = 1
    CodeTtl = 2
    Hour = 3
    MaxSends = 1
    MaxAttempts = 2
    MaxTime = 3
    MaxCodes = 3
    MaxDeaths = 1
SYMMETRY Symmetry
INVARIANTS
    TypeOK
    GuessesBounded
    SendsPerHour
PROPERTIES
    SignInConsumesACode
