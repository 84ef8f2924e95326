CONSTANTS
    Requests = {r1}
    Opaques = {o1, o2}
    Users = {alice}
    Nonces = {n1}
    NoToken = NoToken
    NoUser = NoUser
    NoNonce = NoNonce
    RefreshTTL = 1
    NonceTTL = 1
    TicksPerSecond = 1
    MaxTime = 2
    AllowInsecureHTTP = TRUE
    Durable = TRUE
    StoreFails = TRUE
    MaxCrashes = 0
SPECIFICATION Spec
INVARIANTS
    LogoutKillsToken
