SPECIFICATION FairSpec
CONSTANTS
    User = {u1}
    Family = {f1}
    Device = {d1}
    Token = {t1, t2, t3}
    Request = {r1, r2}
    PageSize = 2
    MaxExpired = 1
    NoGrant = NoGrant
    NoToken = NoToken
    NoUser = NoUser
    Unborn = Unborn
PROPERTIES
    ReplayEndsFamily
