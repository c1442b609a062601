SPECIFICATION Spec
CONSTANTS
    Family = {f1, f2}
    State = {s1, s2}
    Foreign = Foreign
    Request = {m1, m2}
    MaxRotations = 2
    Keep = Keep
    NoCookie = NoCookie
    NoState = NoState
SYMMETRY Interchangeable
INVARIANTS
    ReplayNeedsTrouble
    OwnFlowsOnly
    PassesOnce
