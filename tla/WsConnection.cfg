SPECIFICATION Spec
CONSTANTS
    Builds = {TRUE, FALSE}
    MaxOut = 2
    MaxPeer = 3
INVARIANTS
    TypeOK
    Watched
    NothingAfterClose
    NoFrameForgotten
    EveryFrameDelivered
PROPERTIES
    ImplementsWebsocket
