\* Two emitters and two connections of the same socket.
CONSTANTS
    Net = net
    AppThreads = {a1, a2}
    MaxEmits = 2
    MaxAcks = 0
    MaxLinks = 2
SYMMETRY ThreadSymmetry
SPECIFICATION Spec
INVARIANTS
    TypeOK
    NoDuplicate
    NoOvertakeInQueue
    BoundedStranding
    LeftAfterClose
\* The bounds run out, or the process has died.
CHECK_DEADLOCK FALSE
