CONSTANTS
    Requests = {r1, r2}
    NoRequest = NoRequest
    None = None
SPECIFICATION Spec
INVARIANTS
    ServerOK
    ServedWithAllProvided
    OneBuildPerReset
    AcceptedLoginIsAnswered
    NothingLeftProvided
PROPERTIES
    SignalEndsProcess
CHECK_DEADLOCK FALSE
