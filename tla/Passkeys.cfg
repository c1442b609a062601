SPECIFICATION PasskeysSpec
CONSTANTS
    Credential = {c1, c2}
    Counting = {c1}
    Challenge = {h1, h2, h3}
    Request = {r1, r2}
    MaxCounter = 2
    MaxRow = 2
    NoCredential = NoCredential
    NoChallenge = NoChallenge
SYMMETRY Interchangeable
INVARIANTS
    AnsweredOnce
    CounterReached
PROPERTIES
    CounterNeverFalls
    ChallengeIsOneTime
