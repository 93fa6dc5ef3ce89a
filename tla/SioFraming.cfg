\* Two threads and the network thread; three packets, of three kinds, of the
\* client or of the server, on each of two connections.
SYMMETRY ThreadSymmetry
SPECIFICATION Spec
CONSTANTS
    Threads = {a, b}
    Net = net
    MaxLeaves = 2
    Kinds <- FewKinds
    MaxPackets = 3
    MaxLinks = 2
    a = a
    b = b
    net = net
INVARIANTS
    TypeOK
    DecodedWhole
    NothingKeptBack
    
    AnswerToAsker
    AnsweredIsCalled
CHECK_DEADLOCK FALSE
