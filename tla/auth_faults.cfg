CONSTANTS
    Requests = {r1, r2}
    Opaques = {o1, o2, o3}
    Users = {alice, bob}
    Nonces = {n1, n2}
    NoToken = NoToken
    NoUser = NoUser
    NoNonce = NoNonce
    RefreshTTL = 1
    NonceTTL = 0
    TicksPerSecond = 2
    MaxTime = 1
    AllowInsecureHTTP = FALSE
    Durable = TRUE
    StoreFails = TRUE
    MaxCrashes = 1
SPECIFICATION Spec
INVARIANTS
    TypeOK
    RotationRetiresParent
    FreshCookieIsGood
    CredentialLogsInOnce
SYMMETRY Symmetry
PROPERTIES
    IsRefreshGrants
