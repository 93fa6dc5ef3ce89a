\* A socket, its successor and a third; two connections; a call of close, of a
\* socket or of the client.
SPECIFICATION Spec
CONSTANTS
    MaxSockets = 3
    MaxLinks = 2
    MaxCloses = 1
INVARIANTS
    TypeOK
    RegisteredHasAsked
    RegisteredIsAttached
    ConnectedIsOpen
PROPERTIES
    ConnectedOrClosed
    CloseEndsSocket
\* The bounds run out.
CHECK_DEADLOCK FALSE
