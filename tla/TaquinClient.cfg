\* 360 boards, the farthest 21 moves away; the server asks about those 0, 1 and 21
\* moves away, about 2 x 2 boards, and about one of each without a solution.
SPECIFICATION Spec
CONSTANTS
    Rows = 2
    Cols = 3
    OtherRows = 2
    OtherCols = 2
    OtherNodes <- RingNodes
    OtherParents <- RingParents
    OtherNbits = 2
    OtherAsked <- RingAsked
    AskedMoves = {0, 1, 21}
    MaxLogins = 2
    MaxEvents = 3
    MaxLost = 1
INVARIANTS
    TypeOK
    AllBoardsFound
    ParentsAreShortest
    FarthestIsHardest
    StepsAreLegal
    StepsAreNumbered
PROPERTIES
    GraphIsBuilt
    SolvedInTheEnd
\* The server may stop asking.
CHECK_DEADLOCK FALSE
