SPECIFICATION Spec
CONSTANTS
    User = {u1, u2}
    Family = {f1, f2}
    Device = {d1, d2}
    Token = {t1, t2, t3}
    Request = {r1, r2}
    PageSize = 2
    MaxExpired = 0
    NoGrant = NoGrant
    NoToken = NoToken
    NoUser = NoUser
    Unborn = Unborn
SYMMETRY Interchangeable
INVARIANTS
    LineageCoherent
    RotationConsumes
    ReplayRejected
    TerminationFinal
PROPERTIES
    SessionLifeCycle
