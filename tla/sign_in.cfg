CONSTANTS
    Nonces = {n1, n2, n3}
    NoNonce = NoNonce
    NonceTTL = 0
    TicksPerSecond = 1
    MaxTime = 1
    Tasks = {t1, t2}
    Attempts = 2
SPECIFICATION SignInSpec
INVARIANTS
    TypeOK
    PageOK
    RetryLogsInOnce
    ReadyMeansMatching
    NeverStuck
PROPERTIES
    IsOneTimeNonce
    PurgeKeepsUp
SYMMETRY Symmetry
