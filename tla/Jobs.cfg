SPECIFICATION FairSpec
CONSTANTS
    Instance = {i1, i2}
    Token = {t1, t2, t3}
    Query = {refreshTokens, magicLinks, verifications}
    MaxFaults = 2
    NoToken = NoToken
INVARIANTS
    OneAtWork
    HolderKeepsLock
PROPERTIES
    EventuallyPurged
