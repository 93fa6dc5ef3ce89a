------------------------------ MODULE TaquinGraph ------------------------------
(***************************************************************************)
(* Graph.java: the solver of the Java client.  creatGraph searches breadth *)
(* first from the solved board; it adds an edge only when it meets a board *)
(* for the first time, so the graph it builds is a tree.  dijkstra then    *)
(* computes, for every board, the next board on the way to the solved one, *)
(* and the board that is farthest from it.                                 *)
(*                                                                         *)
(* One action per turn of a loop: a neighbour of the board being expanded, *)
(* a triple taken from the priority queue.  Where the comparator does not  *)
(* tell two triples apart, either may come first.                          *)
(***************************************************************************)
EXTENDS TaquinBoard, Sequences

VARIABLES
    nodes,                    \* reverse_ids: the board with number id is at id + 1
    graph,                    \* the neighbours of each, in the same order
    queue,                    \* the boards still to be expanded
    cur,                      \* the one being expanded
    k,                        \* the direction that is tried next, 4 for none
    pq,                       \* dijkstra's priority queue
    marks,                    \* the boards it has not settled
    parents,                  \* the next board on the way to the solved one
    farthest,                 \* farthest_node and farthest_distance
    phase                     \* "explore", "dijkstra", "ready"

searchVars == <<nodes, graph, queue, cur, k>>
dijkstraVars == <<pq, marks, parents, farthest>>
graphVars == <<searchVars, dijkstraVars, phase>>

Node(id) == nodes[id + 1]
Ids == 0 .. Len(nodes) - 1

\* new Taquin(n): the solved board, its blank in the last corner.
SolvedNode == [bs |-> Encode(Solved), i |-> Rows - 1, j |-> Cols - 1]

GraphInit ==
    /\ nodes = <<SolvedNode>>
    /\ graph = << << >> >>
    /\ queue = <<0>>
    /\ cur = 0
    /\ k = 4
    /\ pq = {}
    /\ marks = {}
    /\ parents = << >>
    /\ farthest = [id |-> 0, distance |-> 0]
    /\ phase = "explore"

(***************************************************************************)
(* creatGraph                                                              *)
(***************************************************************************)
PollNode ==
    /\ phase = "explore"
    /\ k = 4 /\ queue # << >>
    /\ cur' = Head(queue)
    /\ queue' = Tail(queue)
    /\ k' = 0
    /\ UNCHANGED <<nodes, graph, dijkstraVars, phase>>

DX == [d \in 0..3 |-> <<1, 0, -1, 0>>[d + 1]]
DY == [d \in 0..3 |-> <<0, 1, 0, -1>>[d + 1]]

\* Mutant: the last column is out of bounds.
ValidPos_Narrow(i, j) == i \in 0 .. Rows - 1 /\ j \in 0 .. Cols - 2

ValidPos(i, j) == i \in 0 .. Rows - 1 /\ j \in 0 .. Cols - 1

\* The board after the tile at (i, j) has moved to the blank's place.
Moved(node, i, j) ==
    LET bs == SetValue(node.bs, Position(node.i, node.j),
                       GetValue(node.bs, Position(i, j)))
    IN  [bs |-> SetValue(bs, Position(i, j), 0), i |-> i, j |-> j]

Registered(bs) == bs \in {Node(id).bs : id \in Ids}

\* Mutant: the newest board is expanded first.
AddNode_Front(node) ==
    LET id == Len(nodes)
    IN  /\ nodes' = Append(nodes, node)
        /\ graph' = Append([graph EXCEPT ![cur + 1] = Append(@, id)], <<cur>>)
        /\ queue' = <<id>> \o queue

\* addNode, addEdge(id, cur), and the queue.
AddNode(node) ==
    LET id == Len(nodes)
    IN  /\ nodes' = Append(nodes, node)
        /\ graph' = Append([graph EXCEPT ![cur + 1] = Append(@, id)], <<cur>>)
        /\ queue' = Append(queue, id)

Neighbour ==
    /\ phase = "explore"
    /\ k < 4
    /\ k' = k + 1
    /\ LET i == Node(cur).i + DX[k]
           j == Node(cur).j + DY[k]
           next == Moved(Node(cur), i, j)
       IN  IF ValidPos(i, j) /\ ~Registered(next.bs)
           THEN AddNode(next)
           ELSE UNCHANGED <<nodes, graph, queue>>
    /\ UNCHANGED <<cur, dijkstraVars, phase>>

(***************************************************************************)
(* dijkstra, on triples of a cost, a board and the board it was met from.  *)
(***************************************************************************)
StartDijkstra ==
    /\ phase = "explore"
    /\ k = 4 /\ queue = << >>
    /\ phase' = "dijkstra"
    /\ parents' = [id \in Ids |-> id]
    /\ marks' = Ids
    /\ pq' = {<<0, 0, 0>>}
    /\ UNCHANGED <<searchVars, farthest>>

\* TripleComparator: its second test repeats the first, so the board's number
\* is never compared.
Before(s, t) == s[1] < t[1] \/ (s[1] = t[1] /\ s[3] < t[3])

First(t) == \A s \in pq : ~Before(s, t)

\* Mutant: a step costs nothing.
Settle_NoCost(t) ==
    /\ marks' = marks \ {t[2]}
    /\ parents' = [parents EXCEPT ![t[2]] = t[3]]
    /\ farthest' = IF t[1] > farthest.distance
                   THEN [id |-> t[2], distance |-> t[1]] ELSE farthest
    /\ pq' = (pq \ {t}) \cup {<<t[1], id, t[2]>> : id \in Range(graph[t[2] + 1])}

\* All neighbours are queued, the settled ones too ("if" commented out).
Settle(t) ==
    /\ marks' = marks \ {t[2]}
    /\ parents' = [parents EXCEPT ![t[2]] = t[3]]
    /\ farthest' = IF t[1] > farthest.distance
                   THEN [id |-> t[2], distance |-> t[1]] ELSE farthest
    /\ pq' = (pq \ {t}) \cup {<<t[1] + 1, id, t[2]>> : id \in Range(graph[t[2] + 1])}

\* Mutant: a triple of a settled board stays in the queue.
PollTriple_Kept ==
    /\ phase = "dijkstra"
    /\ \E t \in pq :
          /\ First(t)
          /\ \/ t[2] \in marks /\ Settle(t)
             \/ t[2] \notin marks /\ UNCHANGED dijkstraVars
    /\ UNCHANGED <<searchVars, phase>>

PollTriple ==
    /\ phase = "dijkstra"
    /\ \E t \in pq :
          /\ First(t)
          /\ \/ t[2] \in marks /\ Settle(t)
             \/ /\ t[2] \notin marks
                /\ pq' = pq \ {t}
                /\ UNCHANGED <<marks, parents, farthest>>
    /\ UNCHANGED <<searchVars, phase>>

Built ==
    /\ phase = "dijkstra"
    /\ pq = {}
    /\ phase' = "ready"
    /\ UNCHANGED <<searchVars, dijkstraVars>>

GraphNext == PollNode \/ Neighbour \/ StartDijkstra \/ PollTriple \/ Built

-------------------------------------------------------------------------------
GraphTypeOK ==
    /\ \A id \in Ids : Node(id).bs \subseteq 0 .. SizeBS - 1
    /\ Len(graph) = Len(nodes)
    /\ \A id \in Ids : Range(graph[id + 1]) \subseteq Ids
    /\ Range(queue) \subseteq Ids
    /\ cur \in Ids
    /\ k \in 0..4
    /\ pq \subseteq Nat \X Ids \X Ids
    /\ marks \subseteq Ids
    /\ phase # "explore" => parents \in [Ids -> Ids]
    /\ farthest.id \in Ids
    /\ phase \in {"explore", "dijkstra", "ready"}

Board(id) == Decode(Node(id).bs)

\* dijkstra has ended; what it leaves stays as it is.
Finished == phase = "dijkstra" /\ pq = {}

(* The search misses no board that can be solved, reaches no other (none with a *)
(* tile twice), and holds each once.                                            *)
AllBoardsFound ==
    Finished =>
        /\ {Board(id) : id \in Ids} = DOMAIN Solution
        /\ Len(nodes) = Cardinality(DOMAIN Solution)

(* Following the parents from any board is a shortest solution, although the    *)
(* graph has only the edges by which boards were first met.                     *)
ParentsAreShortest ==
    Finished =>
        \A id \in Ids :
            LET next == Board(parents[id])
            IN  IF id = 0 THEN parents[id] = 0
                ELSE /\ next \in Moves(Board(id))
                     /\ Solution[next] = Solution[Board(id)] - 1

(* The board sent to the opponent is one of the hardest, however ties in the    *)
(* priority queue are broken.                                                   *)
FarthestIsHardest ==
    Finished =>
        \A b \in DOMAIN Solution : Solution[b] <= Solution[Board(farthest.id)]

(* The construction ends, so the client gets to connect.                        *)
GraphIsBuilt == <>(phase = "ready")
===============================================================================
