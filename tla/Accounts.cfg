SPECIFICATION Spec
CONSTANTS
    Email = {e0, e1}
    Identity = {i1}
    Request = {r1, r2}
    SeedEmail = e0
    Candidate = {e0, e1}
    NoUser = NoUser
    NoIdentity = NoIdentity
    NoEmail = NoEmail
SYMMETRY Interchangeable
INVARIANTS
    SuperAdminsRemain
    LinkIsOwn
    DeactivationSticks
    WayIn
PROPERTIES
    LinkStays
