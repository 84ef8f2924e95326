CONSTANTS
    Users = {alice, bob}
    NoUser = NoUser
    NoToken = NoToken
    Mints = {m1, m2}
    Calls = {q1}
    TAuth = TAuth
    fast = fast
    slow = slow
    Services = {TAuth, fast, slow}
    Offset <- MCOffset
    SessionTTL = 3
    Slack = 1
    TicksPerSecond = 2
    MaxTime = 6
    MaxRestarts = 1
SPECIFICATION Spec
INVARIANTS
    SessionOK
    NoSessionOutlivesTTL
    NoEarlyRefusal
    NotFoundHasCause
SYMMETRY Symmetry
