CONSTANTS
    Requests = {r1}
    Opaques = {o1, o2}
    Users = {alice}
    Nonces = {n1}
    NoToken = NoToken
    NoUser = NoUser
    NoNonce = NoNonce
    RefreshTTL = 1
    NonceTTL = 1
    TicksPerSecond = 1
    MaxTime = 2
    AllowInsecureHTTP = TRUE
    Durable = TRUE
    StoreFails = FALSE
    MaxCrashes = 1
SPECIFICATION Spec
INVARIANTS
    RefreshRefusesOnlyDeadTokens
