------------------------------ MODULE TaquinClient ------------------------------
(***************************************************************************)
(* The Java client (TaquinClient.java, ConnectionServerSocketIO.java): it  *)
(* builds the graph, connects and logs in, and then answers the server's   *)
(* events one at a time: "get-matriz", "solve", "ack-solve" and            *)
(* "error-solve".                                                          *)
(*                                                                         *)
(* External: the socket.io library, which connects again after the line is *)
(* lost; what was under way is lost with it, and the player logs in anew.  *)
(*                                                                         *)
(* External: the server, from the events the client answers.  It holds the *)
(* board the client is solving, applies a step that moves the blank to a   *)
(* neighbouring cell and answers "ack-solve"; it answers any other step    *)
(* with "error-solve", and may do so when it has lost the step.  It may    *)
(* ask for another board at any time after its last answer was handled (a  *)
(* step sent before that is dropped), also for a board without a solution. *)
(*                                                                         *)
(* The client has a graph for each of two sizes, and a "get-matriz" makes  *)
(* it use the other one, or none, also in the middle of a solution.  The   *)
(* graph of one size, Rows x Cols, is built here; that of the other is a   *)
(* constant, of which the properties assume no more than its types.        *)
(***************************************************************************)
EXTENDS TaquinGraph

CONSTANTS
    OtherRows, OtherCols,     \* the other size
    OtherNbits,               \* nbits, reverse_ids and parents of its graph, as the
    OtherNodes,               \* constructor leaves them
    OtherParents,
    OtherAsked,               \* bound: boards of that size the server asks about
    AskedMoves,               \* bound: how far the boards the server asks about are
                              \* from the solved one
    MaxLogins,                \* bound: connections
    MaxEvents,                \* bound: get-matriz and solve events of the server
    MaxLost                   \* bound: steps the server loses

OtherIds == 0 .. Len(OtherNodes) - 1
OtherPositions == 0 .. OtherRows * OtherCols - 1
OtherSizeBS == OtherNbits * OtherRows * OtherCols

ASSUME OtherAssumption ==
    /\ {OtherRows, OtherCols} \subseteq Nat \ {0}
    /\ OtherRows * OtherCols # Rows * Cols
    /\ OtherNodes # << >>
    /\ OtherNodes \in Seq([bs : SUBSET (0 .. OtherSizeBS - 1),
                           i : 0 .. OtherRows - 1, j : 0 .. OtherCols - 1])
    /\ OtherParents \in [OtherIds -> OtherIds]
    /\ OtherAsked \subseteq [OtherPositions -> OtherPositions]

ASSUME ServerAssumption ==
    AskedMoves \subseteq Nat /\ {MaxLogins, MaxEvents, MaxLost} \subseteq Nat

VARIABLES
    online,                   \* there is a connection
    logins,                   \* connections so far; the server gives each an id
    user,                     \* ConnectionServerSocketIO.id, 0 for none
    size,                     \* the graph size is the index of: "own" is the one built
                              \* here, "other", or "none"
    id,                       \* the board the last step led to
    step,                     \* the number of the last step
    astray,                   \* the board asked about is not of the own size, or that
                              \* graph was not in use when it was asked or an answer came
    sent,                     \* the step the server has still to look at
    event,                    \* the server's answer to the last one
    board,                    \* the server's board
    asked,                    \* the board it last asked the client to solve
    events,                   \* get-matriz and solve events so far
    lost                      \* steps lost so far

loginVars == <<online, logins, user>>
clientVars == <<size, id, step, astray>>
serverVars == <<board, asked, events, lost>>
vars == <<graphVars, loginVars, clientVars, sent, event, serverVars>>

NoStep == [step |-> 0, i |-> 0, j |-> 0]
NoBoard == [pos \in Positions |-> 0]

\* The boards the server asks about, of either size; some have no solution.
Asked ==
    LET unsolvable == Boards \ DOMAIN Solution
    IN  UNION {{b \in DOMAIN Solution : Solution[b] \in AskedMoves},
               IF unsolvable = {} THEN {} ELSE {CHOOSE b \in unsolvable : TRUE},
               OtherAsked}

Init ==
    /\ GraphInit
    /\ online = FALSE
    /\ logins = 0
    /\ user = 0
    /\ size \in {"own", "other"}           \* size 0 has a graph
    /\ id = 0
    /\ step = 0
    /\ astray = FALSE
    /\ sent = NoStep
    /\ event = "none"
    /\ board = NoBoard
    /\ asked = NoBoard
    /\ events = 0
    /\ lost = 0

\* The constructor builds the graphs before the connection is opened.
Build ==
    /\ GraphNext
    /\ UNCHANGED <<loginVars, clientVars, sent, event, serverVars>>

\* startServerConnection, and every connection after it: "add user" is sent.
Connect ==
    /\ phase = "ready"
    /\ ~online
    /\ logins < MaxLogins
    /\ online' = TRUE
    /\ logins' = logins + 1
    /\ UNCHANGED <<graphVars, user, clientVars, sent, event, serverVars>>

\* "login": the id of an earlier connection is kept until now.
Login ==
    /\ online
    /\ user # logins
    /\ user' = logins
    /\ UNCHANGED <<graphVars, online, logins, clientVars, sent, event, serverVars>>

\* The listener does nothing; the server forgets the player's board.
Disconnect ==
    /\ online
    /\ online' = FALSE
    /\ sent' = NoStep
    /\ event' = "none"
    /\ board' = NoBoard
    /\ asked' = NoBoard
    /\ UNCHANGED <<graphVars, logins, user, clientVars, events, lost>>

\* The server speaks to players who have logged in.
ServerEvent ==
    /\ online
    /\ user = logins
    /\ events < MaxEvents
    /\ events' = events + 1
    /\ UNCHANGED <<graphVars, loginVars, lost>>

\* Mutant: the board the last step led to is forgotten.
GetMatriz_Forgets ==
    /\ ServerEvent
    /\ size' \in {"own", "other", "none"}
    /\ id' = 0
    /\ UNCHANGED <<step, astray, sent, event, board, asked>>

\* getTaquin: size is assigned before it is used, and stays when the index is
\* out of bounds; the step and the board it led to are kept.
GetMatriz ==
    /\ ServerEvent
    /\ size' \in {"own", "other", "none"}
    /\ UNCHANGED <<id, step, astray, sent, event, board, asked>>

\* graphs.get(size): its numbers; an index that is none of them is an exception.
Numbers ==
    CASE size = "own" -> Ids
      [] size = "other" -> OtherIds
      [] size = "none" -> {}

GetBitSet(n) == IF size = "own" THEN Node(n) ELSE OtherNodes[n + 1]
GetParent(n) == IF size = "own" THEN parents[n] ELSE OtherParents[n]
GetId(b) ==
    LET bs == IF size = "own" THEN Convert(NBits, SizeBS, b)
                              ELSE Convert(OtherNbits, OtherSizeBS, b)
    IN  {n \in Numbers : GetBitSet(n).bs = bs}

Emit(s, n) == sent' = [step |-> s, i |-> GetBitSet(n).i, j |-> GetBitSet(n).j]

\* solveTaquin: an unknown board, or no graph, is an exception after step is
\* set; nothing is sent.
SolveTaquin(b) ==
    /\ step' = 1
    /\ \/ \E n \in GetId(b) : id' = GetParent(n) /\ Emit(1, GetParent(n))
       \/ GetId(b) = {} /\ UNCHANGED id /\ sent' = NoStep

\* "solve" for this client; the steps of an earlier board are forgotten.
Solve ==
    /\ ServerEvent
    /\ event = "none"
    /\ \E b \in Asked :
          /\ board' = b
          /\ asked' = b
          /\ SolveTaquin(b)
          /\ astray' = (size # "own" \/ b \notin Boards)
    /\ UNCHANGED <<size, event>>

\* Mutant: the board is not advanced.
SolveNextStep_Stays ==
    \/ id \notin Numbers /\ UNCHANGED <<id, step, sent>>
    \/ id \in Numbers /\ UNCHANGED id /\ step' = step + 1 /\ Emit(step + 1, id)

\* The board of the last step may have no number in the graph that is now used.
SolveNextStep ==
    \/ id \notin Numbers /\ UNCHANGED <<id, step, sent>>
    \/ /\ id \in Numbers
       /\ id' = GetParent(id)
       /\ step' = step + 1
       /\ Emit(step + 1, GetParent(id))

AckSolve ==
    /\ event = "ack-solve"
    /\ event' = "none"
    /\ SolveNextStep
    /\ astray' = (astray \/ size # "own")
    /\ UNCHANGED <<graphVars, loginVars, size, serverVars>>

\* Mutant: an error advances to the next step.
ErrorStep_Advances ==
    \/ id \notin Numbers /\ UNCHANGED <<id, sent>>
    \/ id \in Numbers /\ id' = GetParent(id) /\ Emit(step, GetParent(id))

ErrorStep ==
    /\ UNCHANGED id
    /\ \/ id \notin Numbers /\ UNCHANGED sent
       \/ id \in Numbers /\ Emit(step, id)

ErrorSolve ==
    /\ event = "error-solve"
    /\ event' = "none"
    /\ ErrorStep
    /\ astray' = (astray \/ size # "own")
    /\ UNCHANGED <<graphVars, loginVars, size, step, serverVars>>

(***************************************************************************)
(* The server looks at a step.  It answers the last step of a solution     *)
(* like any other (main.cpp:178-200 waits for that answer).                *)
(***************************************************************************)
Legal ==
    /\ board \in Boards
    /\ ValidPos(sent.i, sent.j)
    /\ Adjacent(Position(sent.i, sent.j), BlankOf(board))

OtherLegal ==
    /\ DOMAIN board = OtherPositions
    /\ sent.i \in 0 .. OtherRows - 1 /\ sent.j \in 0 .. OtherCols - 1
    /\ Distance(sent.i, BlankOf(board) \div OtherCols)
          + Distance(sent.j, BlankOf(board) % OtherCols) = 1

ServerApplies ==
    /\ sent # NoStep
    /\ \/ Legal /\ board' = Slide(board, Position(sent.i, sent.j))
       \/ OtherLegal /\ board' = Slide(board, sent.i * OtherCols + sent.j)
    /\ event' = "ack-solve"
    /\ sent' = NoStep
    /\ UNCHANGED <<graphVars, loginVars, clientVars, asked, events, lost>>

ServerRefuses ==
    /\ sent # NoStep
    /\ ~Legal /\ ~OtherLegal
    /\ event' = "error-solve"
    /\ sent' = NoStep
    /\ UNCHANGED <<graphVars, loginVars, clientVars, serverVars>>

ServerLoses ==
    /\ sent # NoStep
    /\ lost < MaxLost
    /\ lost' = lost + 1
    /\ event' = "error-solve"
    /\ sent' = NoStep
    /\ UNCHANGED <<graphVars, loginVars, clientVars, board, asked, events>>

ServerStep == ServerApplies \/ ServerRefuses \/ ServerLoses

ClientStep == AckSolve \/ ErrorSolve

Next ==
    \/ Build
    \/ Connect
    \/ Login
    \/ Disconnect
    \/ GetMatriz
    \/ Solve
    \/ ClientStep
    \/ ServerStep

Spec == Init /\ [][Next]_vars /\ WF_vars(Build) /\ WF_vars(ClientStep) /\ WF_vars(ServerStep)
-------------------------------------------------------------------------------
TypeOK ==
    /\ GraphTypeOK
    /\ online \in BOOLEAN
    /\ logins \in 0..MaxLogins
    /\ user \in 0..logins
    /\ size \in {"own", "other", "none"}
    /\ id \in Ids \cup OtherIds
    /\ step \in Nat
    /\ astray \in BOOLEAN
    /\ \/ sent = NoStep
       \/ ValidPos(sent.i, sent.j)
       \/ sent.i \in 0 .. OtherRows - 1 /\ sent.j \in 0 .. OtherCols - 1
    /\ sent # NoStep \/ event # "none" => online /\ user = logins
    /\ event \in {"none", "ack-solve", "error-solve"}
    /\ {board, asked} \subseteq
          Boards \cup {NoBoard} \cup [OtherPositions -> OtherPositions]
    /\ events \in 0..MaxEvents
    /\ lost \in 0..MaxLost

(* Every step the client sends moves the blank of the server's board, whatever  *)
(* steps were lost, boards of either size abandoned and connections broken      *)
(* before it, and although size was another between two answers; and once the   *)
(* board is solved the steps it goes on sending (the solved board is its own    *)
(* parent) move nothing.  An answer handled while another graph is in use ends  *)
(* that: id is a number of the wrong graph, until the next "solve".             *)
StepsAreLegal == sent # NoStep /\ ~astray => (Legal <=> board # Solved)

(* The number of a step is the number of the move in a shortest solution of the *)
(* board that was asked about: a step sent again keeps its number, and a new    *)
(* board starts again from 1.                                                   *)
StepsAreNumbered ==
    sent # NoStep /\ ~astray /\ board # Solved =>
        sent.step = Solution[asked] - Solution[board] + 1

(* A board that has a solution is solved, unless the line breaks or the server  *)
(* interrupts: with another board, or with a get-matriz of another size that no *)
(* other takes back before the next answer.                                     *)
SolvedInTheEnd ==
    sent # NoStep /\ ~astray ~>
        board = Solved \/ ~Solvable(board) \/ astray \/ ~online
===============================================================================
