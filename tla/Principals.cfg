SPECIFICATION Spec
CONSTANTS
    Roles = {user, admin}
    Instance = {i1, i2}
    Request = {r1, r2}
    TTL = 2
    MaxTime = 2
    NoEntry = NoEntry
    NoInstance = NoInstance
    NoRoles = NoRoles
SYMMETRY Interchangeable
INVARIANTS
    DecisionsFresh
