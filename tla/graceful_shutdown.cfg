CONSTANTS
    Requests = {r1, r2}
    NoRequest = NoRequest
    None = None
SPECIFICATION Spec
INVARIANTS
    GraceForInFlight
CHECK_DEADLOCK FALSE
