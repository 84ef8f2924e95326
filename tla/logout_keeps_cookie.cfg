CONSTANTS
    Requests = {r1, r2}
    Opaques = {o1, o2, o3}
    Users = {alice}
    Nonces = {n1}
    NoToken = NoToken
    NoUser = NoUser
    NoNonce = NoNonce
    RefreshTTL = 1
    NonceTTL = 1
    TicksPerSecond = 1
    MaxTime = 1
    AllowInsecureHTTP = TRUE
    Durable = TRUE
    StoreFails = FALSE
    MaxCrashes = 1
SPECIFICATION BrowserSpec
INVARIANTS
    LogoutClearsCookies
SYMMETRY Symmetry
