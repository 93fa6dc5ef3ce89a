SPECIFICATION Spec
CONSTANTS
    Attempts = 2
    MaxReady = 3
INVARIANTS
    TypeOK
    SessionConsistent
    NoSecondSession
    ReconnectBounded
PROPERTIES
    KeepsToWebsocket
    RetryOrTold
    CloseEndsSession
