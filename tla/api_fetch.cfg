CONSTANTS
    Calls = {c1, c2, c3}
    Inits = {i1, i2}
    Logouts = {l1}
SPECIFICATION Spec
INVARIANTS
    TypeOK
    OneRefresh
    ToldMatchesProfile
    LogoutSticks
PROPERTIES
    SettlesUnlessTryThrows
    ServedByNextRefresh
