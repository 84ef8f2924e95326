CONSTANTS
    Opaques = {o1, o2, o3}
    NoToken = NoToken
    NoID = NoID
    Users = {alice}
    Callers = {c1, c2}
    Expiries = {0}
    TicksPerSecond = 1
    StatementsFail = TRUE
    MaxTime = 1
SPECIFICATION Spec
INVARIANTS
    TypeOK
    ChainsAreSound
PROPERTIES
    IsRefreshStore
    NilMeansRevokedHere
SYMMETRY Symmetry
