SPECIFICATION TwoFactorSpec
CONSTANTS
    Secret = {s1, s2}
    BackupCode = {c1, c2, c3, c4}
    BatchSize = 2
    Request = {r1, r2}
    NoSecret = NoSecret
    NoCode = NoCode
INVARIANT BackupCodeSingleUse
CHECK_DEADLOCK FALSE
