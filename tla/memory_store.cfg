CONSTANTS
    Opaques = {o1, o2, o3}
    NoToken = NoToken
    NoID = NoID
    Users = {alice}
    Callers = {c1}
    Expiries = {0}
    TicksPerSecond = 1
    SequenceMod = 2
    MaxIssuesPerTick = 2
    MaxTime = 1
SPECIFICATION Spec
INVARIANTS
    TypeOK
    TwoMapsAgree
PROPERTIES
    IsRefreshStore
