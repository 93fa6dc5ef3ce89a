\* One emitter against the network thread that also sends, two connections.
CONSTANTS
    Net = net
    AppThreads = {a1}
    MaxEmits = 3
    MaxAcks = 1
    MaxLinks = 2
SPECIFICATION Spec
PROPERTIES
    ImplementsChannel
    DrainFlushes
\* The bounds run out, or the process has died.
CHECK_DEADLOCK FALSE
