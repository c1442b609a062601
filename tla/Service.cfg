SPECIFICATION FairSpec
CONSTANTS
    User = {u1}
    All = All
    Request = {r1, r2}
    NoKey = NoKey
    Account = u1
    MaxFailures = 2
    Lifetime = 2
    ApiKey = {k1}
    NoApiKey = NoApiKey
INVARIANTS
    StaleIsExcused
    FailuresCounted
    DeactivatedStayOut
    RevokedKeysRefused
PROPERTIES
    LockoutEnds
