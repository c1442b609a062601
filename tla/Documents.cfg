SPECIFICATION Spec
CONSTANTS
    User = {u1, u2}
    Doc = {d1}
    Request = {r1, r2}
    RoleSets = {{"user"}, {"moderator"}, {"super_admin"}}
    NoUser = NoUser
    NoDoc = NoDoc
SYMMETRY Interchangeable
INVARIANTS
    DecisionMatchesRoutes
    ListMatchesRead
    NoOrphansUnlessRaced
    WrittenByEditors
