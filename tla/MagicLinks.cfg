SPECIFICATION LinksFairSpec
CONSTANTS
    Token = {t1, t2}
    Request = {r1, r2}
    Attempts = 2
    MaxStalled = 1
    NoToken = NoToken
INVARIANTS
    OpensOnce
    NewestWorks
    ExhaustionReported
PROPERTIES
    LinkArrivesOrFails
    LinkIsOneTime
