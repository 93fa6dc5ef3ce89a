-------------------------- MODULE SioNamespacesProofs --------------------------
(***************************************************************************)
(* Proofs about SioNamespaces, for any number of sockets and connections:  *)
(* the registered socket, and no other, has a client; it has asked on the  *)
(* connection that is open, if the client was not closed; and it counts as *)
(* connected only while there is a connection.                             *)
(***************************************************************************)
EXTENDS SioNamespaces, TLAPS

HasAsked(s) == askedOn[s] = links \/ s \in Range(posted)

\* Only the registered socket and the one under construction have a client,
\* and they lose it only to an on_close that is still under way.
Alive ==
    /\ Locked => registered = None
    /\ Locked \/ app = "close" => created \in Sockets
    /\ registered # None => registered <= created
    /\ \A s \in Sockets :
          attached[s] => s = registered \/ (Locked /\ s = created)
    /\ net = "on_close" =>
          /\ \A s \in Sockets : ~attached[s]
          /\ Locked \/ registered # None
    /\ net # "on_close" /\ registered # None => attached[registered]
    /\ net # "on_close" /\ Locked => attached[created]

\* While m_con_state is con_opened, and between the handlers of the connection, a
\* socket that has been constructed or is registered has asked.  on_open waits for
\* the mutex, so a constructor that found the connection closed is followed by it.
Asked ==
    Opened /\ net # "on_open" =>
        /\ registered # None => HasAsked(registered)
        /\ app \in {"arm", "insert"} => HasAsked(created)

Connected ==
    \A s \in Sockets : connected[s] =>
        s = registered /\ attached[s] /\ (open \/ net = "on_disconnect")

IInv == TypeOK /\ Alive /\ Asked /\ Connected

(***************************************************************************)
(* The queue of posted requests.                                           *)
(***************************************************************************)
LEMMA PostedFacts ==
    ASSUME posted \in Seq(Sockets), NEW s \in Sockets
    PROVE  /\ Append(posted, s) \in Seq(Sockets)
           /\ Range(Append(posted, s)) = Range(posted) \cup {s}
           /\ posted # << >> =>
                /\ Head(posted) \in Sockets
                /\ Tail(posted) \in Seq(Sockets)
                /\ Range(posted) = {Head(posted)} \cup Range(Tail(posted))
<1> DEFINE n == Len(posted)
<1>1. /\ Append(posted, s) \in Seq(Sockets)
      /\ n \in Nat /\ DOMAIN posted = 1..n
      /\ DOMAIN Append(posted, s) = 1..(n + 1)
      /\ \A i \in 1..n : Append(posted, s)[i] = posted[i]
      /\ Append(posted, s)[n + 1] = s
  OBVIOUS
<1>2. posted # << >> =>
        /\ n > 0 /\ Head(posted) = posted[1] /\ Head(posted) \in Sockets
        /\ Tail(posted) \in Seq(Sockets)
        /\ DOMAIN Tail(posted) = 1..(n - 1)
        /\ \A i \in 1..(n - 1) : Tail(posted)[i] = posted[i + 1]
  OBVIOUS
<1> HIDE DEF n
<1>3. Range(Append(posted, s)) = Range(posted) \cup {s}
  <2>1. (\A i \in 1..(n + 1) : i \in 1..n \/ i = n + 1)
        /\ 1..n \subseteq 1..(n + 1) /\ n + 1 \in 1..(n + 1)
    BY <1>1
  <2> QED BY <1>1, <2>1 DEF Range
<1>4. ASSUME posted # << >>
      PROVE  Range(posted) = {Head(posted)} \cup Range(Tail(posted))
  <2>1. /\ 1 \in 1..n
        /\ \A i \in 1..n : i = 1 \/ (i - 1 \in 1..(n - 1) /\ (i - 1) + 1 = i)
        /\ \A i \in 1..(n - 1) : i + 1 \in 1..n
    BY <1>1, <1>2, <1>4
  <2> HIDE DEF Sockets
  <2>2. ASSUME NEW x \in Range(posted)
        PROVE  x \in {Head(posted)} \cup Range(Tail(posted))
    <3>1. PICK i \in 1..n : x = posted[i]
      BY <1>1 DEF Range
    <3>2. CASE i = 1
      BY <1>2, <1>4, <3>1, <3>2
    <3>3. CASE i - 1 \in 1..(n - 1) /\ (i - 1) + 1 = i
      <4>1. x = Tail(posted)[i - 1]
        BY <1>2, <1>4, <3>1, <3>3
      <4> QED BY <1>2, <1>4, <3>3, <4>1 DEF Range
    <3> QED BY <2>1, <3>2, <3>3
  <2>3. ASSUME NEW x \in {Head(posted)} \cup Range(Tail(posted))
        PROVE  x \in Range(posted)
    <3>1. CASE x = Head(posted)
      BY <1>1, <1>2, <1>4, <2>1, <3>1 DEF Range
    <3>2. CASE x \in Range(Tail(posted))
      BY <1>1, <1>2, <1>4, <2>1, <3>2 DEF Range
    <3> QED BY <2>3, <3>1, <3>2
  <2> QED BY <2>2, <2>3
<1> QED BY <1>1, <1>2, <1>3, <1>4

\* Sockets are numbered from 1.
LEMMA SocketNumbers ==
    /\ None \notin Sockets
    /\ \A s \in Sockets : s \in Nat
    /\ \A c \in {None} \cup Sockets :
          /\ c \in Int
          /\ c < MaxSockets => c + 1 \in Sockets
BY BoundsAssumption DEF None, Sockets

\* The timer of a socket, whoever arms or cancels it.
LEMMA RearmTypes ==
    ASSUME timer \in [Sockets -> {"none", "asking", "closing", "expired"}],
           closeDue \in [Sockets -> Nat]
    PROVE  \A s \in Sockets, t \in {"none", "asking", "closing"}, ran \in {0, 1} :
              Rearm(s, t, ran) /\ ran <= closeDue[s] =>
                 /\ timer' \in [Sockets -> {"none", "asking", "closing", "expired"}]
                 /\ closeDue' \in [Sockets -> Nat]
BY DEF Rearm, Cancelled

LEMMA IInvInit == ASSUME Init PROVE IInv
<1>1. TypeOK
  <2>1. posted \in Seq(Sockets) /\ created \in {None} \cup Sockets
    BY DEF Init, None
  <2>2. links \in 0 .. MaxLinks /\ closes \in 0 .. MaxCloses /\ askedOn \in [Sockets -> 0 .. MaxLinks]
    BY BoundsAssumption DEF Init
  <2>3. /\ attached \in [Sockets -> BOOLEAN]
        /\ connected \in [Sockets -> BOOLEAN]
        /\ timer \in [Sockets -> {"none", "asking", "closing", "expired"}]
        /\ due \in [Sockets -> Nat]
        /\ closeDue \in [Sockets -> Nat]
        /\ open \in BOOLEAN /\ closing \in BOOLEAN
    BY DEF Init
  <2> QED BY <2>1, <2>2, <2>3 DEF Init, TypeOK
<1>2. \A s \in Sockets : ~attached[s] /\ ~connected[s]
  BY DEF Init
<1>3. Alive
  BY <1>2 DEF Init, Alive, Locked, None
<1>4. Asked
  BY DEF Init, Asked
<1>5. Connected
  BY <1>2 DEF Connected
<1> QED BY <1>1, <1>3, <1>4, <1>5 DEF IInv

(***************************************************************************)
(* The invariant is inductive, action by action.                           *)
(***************************************************************************)
\* on_close, whoever calls it, up to remove_socket.
LEMMA DetachStep ==
    ASSUME IInv, NEW s \in Sockets, attached[s], net = "idle",
           NEW ran \in {0, 1}, ran <= closeDue[s], Detach(s, ran),
           due' \in [Sockets -> Nat],
           UNCHANGED <<mapVars, linkVars, sendVars, closes, app>>
    PROVE  IInv'
<1> USE SocketNumbers
    DEF IInv, TypeOK, Alive, Asked, Connected, HasAsked, Locked, Opened,
        mapVars, linkVars, sendVars
<1>1. TypeOK'
  <2>1. /\ timer' \in [Sockets -> {"none", "asking", "closing", "expired"}]
        /\ closeDue' \in [Sockets -> Nat]
    BY RearmTypes DEF Detach
  <2>2. /\ attached' \in [Sockets -> BOOLEAN]
        /\ connected' \in [Sockets -> BOOLEAN]
    BY DEF Detach
  <2> QED BY <2>1, <2>2 DEF Detach
<1>2. \A u \in Sockets : ~attached'[u]
  BY DEF Detach
<1>3. Alive'
  BY <1>2 DEF Detach
<1>4. Asked'
  BY DEF Detach
<1>5. Connected'
  BY DEF Detach
<1> QED BY ONLY <1>1, <1>3, <1>4, <1>5 DEF IInv

LEMMA IInvStep == ASSUME IInv, [Next]_vars PROVE IInv'
<1> USE BoundsAssumption, SocketNumbers
    DEF IInv, TypeOK, Alive, Asked, Connected, HasAsked, Locked, Opened,
        mapVars, timerVars, sockVars, linkVars, sendVars
<1>1. CASE SocketCall
  <2>1. created' \in Sockets /\ created' = created + 1
    BY <1>1 DEF SocketCall
  <2>2. TypeOK'
    BY <1>1, <2>1 DEF SocketCall
  <2>3. \A s \in Sockets : attached'[s] <=> attached[s] \/ s = created'
    BY <1>1, <2>1 DEF SocketCall
  <2>4. Alive'
    BY <1>1, <2>1, <2>3 DEF SocketCall
  <2>5. Asked'
    BY <1>1, <2>1 DEF SocketCall
  <2>6. Connected'
    BY <1>1, <2>1, <2>3 DEF SocketCall
  <2> QED BY ONLY <2>2, <2>4, <2>5, <2>6 DEF IInv
<1>2. CASE PostConnect
  <2>1. TypeOK'
    BY <1>2, PostedFacts DEF PostConnect
  <2>2. Alive'
    BY <1>2, PostedFacts DEF PostConnect
  <2>3. Asked'
    BY <1>2, PostedFacts DEF PostConnect
  <2>4. Connected'
    BY <1>2, PostedFacts DEF PostConnect
  <2> QED BY ONLY <2>1, <2>2, <2>3, <2>4 DEF IInv
<1>3. CASE ConstructorArms
  <2>1. TypeOK'
    <3>1. created \in Sockets /\ 0 <= closeDue[created] /\ Rearm(created, "asking", 0)
      BY <1>3 DEF ConstructorArms, ArmTimer
    <3>2. /\ timer' \in [Sockets -> {"none", "asking", "closing", "expired"}]
          /\ closeDue' \in [Sockets -> Nat]
      BY <3>1, RearmTypes
    <3> QED BY <1>3, <3>2 DEF ConstructorArms
  <2>2. Alive' /\ Asked' /\ Connected'
    BY <1>3 DEF ConstructorArms
  <2> QED BY ONLY <2>1, <2>2 DEF IInv
<1>4. CASE Insert
  <2>1. TypeOK'
    BY <1>4 DEF Insert
  <2>2. Alive'
    BY <1>4 DEF Insert
  <2>3. Asked'
    BY <1>4 DEF Insert
  <2>4. Connected'
    BY <1>4 DEF Insert
  <2> QED BY ONLY <2>1, <2>2, <2>3, <2>4 DEF IInv
<1>5. CASE RunPosted
  <2>1. TypeOK'
    <3>1. Head(posted) \in Sockets /\ posted' \in Seq(Sockets)
      BY <1>5, PostedFacts DEF RunPosted
    <3>2. askedOn' \in [Sockets -> 0 .. MaxLinks]
      BY <1>5, <3>1 DEF RunPosted, Ask
    <3>3. asked' \in Nat
      <4>1. asked \in Nat
        OBVIOUS
      <4>2. asked' \in {asked, asked + 1}
        BY ONLY <1>5 DEF RunPosted, Ask
      <4> QED BY ONLY <4>1, <4>2
    <3> QED BY <1>5, <3>1, <3>2, <3>3 DEF RunPosted
  <2>2. Alive'
    BY <1>5, PostedFacts DEF RunPosted, Ask
  <2>3. Asked'
    BY <1>5, PostedFacts DEF RunPosted, Ask
  <2>4. Connected'
    BY <1>5, PostedFacts DEF RunPosted, Ask
  <2> QED BY ONLY <2>1, <2>2, <2>3, <2>4 DEF IInv
<1>6. CASE OnOpen
  <2>1. TypeOK'
    <3>1. links \in 0 .. MaxLinks /\ links < MaxLinks /\ links' = links + 1
      BY <1>6 DEF OnOpen
    <3>2. links' \in 0 .. MaxLinks
      BY ONLY <3>1, BoundsAssumption
    <3>3. open' = TRUE /\ closing' = FALSE
      BY <1>6 DEF OnOpen
    <3> QED BY <1>6, <3>2, <3>3 DEF OnOpen
  <2>2. Alive'
    BY <1>6 DEF OnOpen
  <2>3. Asked'
    BY <1>6 DEF OnOpen
  <2>4. Connected'
    BY <1>6 DEF OnOpen
  <2> QED BY ONLY <2>1, <2>2, <2>3, <2>4 DEF IInv
<1>7. CASE OpenSockets
  <2>1. TypeOK'
    <3>1. askedOn' \in [Sockets -> 0 .. MaxLinks]
      BY <1>7 DEF OpenSockets, Ask
    <3>2. asked' \in Nat
      BY <1>7 DEF OpenSockets, Ask
    <3>3. /\ timer' \in [Sockets -> {"none", "asking", "closing", "expired"}]
          /\ closeDue' \in [Sockets -> Nat]
      <4>1. CASE registered # None
        <5>1. /\ registered \in Sockets /\ 0 <= closeDue[registered]
              /\ Rearm(registered, "asking", 0)
          BY <1>7, <4>1 DEF OpenSockets, ArmTimer
        <5> QED BY <5>1, RearmTypes
      <4>2. CASE registered = None
        BY <1>7, <4>2 DEF OpenSockets
      <4> QED BY <4>1, <4>2
    <3> QED BY <1>7, <3>1, <3>2, <3>3 DEF OpenSockets
  <2>2. Alive'
    BY <1>7 DEF OpenSockets, Ask
  <2>3. Asked'
    BY <1>7 DEF OpenSockets, Ask
  <2>4. Connected'
    BY <1>7 DEF OpenSockets, Ask
  <2> QED BY ONLY <2>1, <2>2, <2>3, <2>4 DEF IInv
<1>8. CASE LinkDown
  BY <1>8 DEF LinkDown
<1>9. CASE DisconnectSockets
  BY <1>9 DEF DisconnectSockets
<1>10. CASE RecvConnect
  <2>1. TypeOK'
    <3>1. connected' \in [Sockets -> BOOLEAN]
      BY <1>10 DEF RecvConnect
    <3>2. /\ timer' \in [Sockets -> {"none", "asking", "closing", "expired"}]
          /\ closeDue' \in [Sockets -> Nat]
      <4>1. CASE registered # None
        <5>1. /\ registered \in Sockets /\ 0 <= closeDue[registered]
              /\ Rearm(registered, "none", 0)
          BY <1>10, <4>1 DEF RecvConnect
        <5> QED BY <5>1, RearmTypes
      <4>2. CASE registered = None
        BY <1>10, <4>2 DEF RecvConnect
      <4> QED BY <4>1, <4>2
    <3> QED BY <1>10, <3>1, <3>2 DEF RecvConnect
  <2>2. Alive'
    BY <1>10 DEF RecvConnect
  <2>3. Asked'
    BY <1>10 DEF RecvConnect
  <2>4. Connected'
    BY <1>10 DEF RecvConnect
  <2> QED BY ONLY <2>1, <2>2, <2>3, <2>4 DEF IInv
<1>11. CASE RecvError
  BY <1>11 DEF RecvError
<1>12. CASE RecvDisconnect
  <2>1. /\ registered \in Sockets /\ attached[registered] /\ net = "idle"
        /\ 0 <= closeDue[registered] /\ due' \in [Sockets -> Nat]
        /\ Detach(registered, 0)
        /\ UNCHANGED <<mapVars, linkVars, sendVars, closes, app>>
    BY <1>12 DEF RecvDisconnect
  <2> HIDE DEF IInv, TypeOK, Alive, Asked, Connected, HasAsked, Locked
  <2> QED BY <2>1, DetachStep
<1>13. CASE RemoveSocket
  BY <1>13 DEF RemoveSocket
<1>14. ASSUME NEW s \in Sockets, TimerExpires(s) PROVE IInv'
  <2>1. TypeOK'
    <3>1. due \in [Sockets -> Nat] /\ closeDue \in [Sockets -> Nat]
      OBVIOUS
    <3>2. due' \in [Sockets -> Nat] /\ closeDue' \in [Sockets -> Nat]
      BY ONLY <1>14, <3>1 DEF TimerExpires
    <3>3. timer' \in [Sockets -> {"none", "asking", "closing", "expired"}]
      BY <1>14 DEF TimerExpires
    <3> QED BY <1>14, <3>2, <3>3 DEF TimerExpires
  <2>2. Alive'
    BY <1>14 DEF TimerExpires
  <2>3. Asked'
    BY <1>14 DEF TimerExpires
  <2>4. Connected'
    BY <1>14 DEF TimerExpires
  <2> QED BY ONLY <2>1, <2>2, <2>3, <2>4 DEF IInv
<1>15. ASSUME NEW s \in Sockets, TimeoutConnection(s) PROVE IInv'
  <2>1. due' \in [Sockets -> Nat]
    BY <1>15 DEF TimeoutConnection
  <2>2. CASE attached[s] /\ Detach(s, 0)
    <3>1. /\ net = "idle" /\ 0 <= closeDue[s]
          /\ UNCHANGED <<mapVars, linkVars, sendVars, closes, app>>
      BY <1>15 DEF TimeoutConnection
    <3> HIDE DEF IInv, TypeOK, Alive, Asked, Connected, HasAsked, Locked
    <3> QED BY <2>1, <2>2, <3>1, DetachStep
  <2>3. CASE ~attached[s] /\ UNCHANGED <<attached, connected, timer, closeDue, net>>
    BY <1>15, <2>1, <2>3 DEF TimeoutConnection
  <2> QED BY ONLY <1>15, <2>2, <2>3 DEF TimeoutConnection
<1>16. ASSUME NEW s \in Sockets, CloseHandler(s) PROVE IInv'
  <2>1. CASE attached[s] /\ Detach(s, 1)
    <3>1. /\ net = "idle" /\ 1 <= closeDue[s] /\ due' \in [Sockets -> Nat]
          /\ UNCHANGED <<mapVars, linkVars, sendVars, closes, app>>
      BY <1>16 DEF CloseHandler
    <3> HIDE DEF IInv, TypeOK, Alive, Asked, Connected, HasAsked, Locked
    <3> QED BY <2>1, <3>1, DetachStep
  <2>2. CASE ~attached[s]
    <3>1. closeDue \in [Sockets -> Nat]
      OBVIOUS
    <3>2. closeDue' \in [Sockets -> Nat]
      BY ONLY <1>16, <2>2, <3>1 DEF CloseHandler
    <3> QED BY <1>16, <2>2, <3>2 DEF CloseHandler
  <2> QED BY ONLY <1>16, <2>1, <2>2 DEF CloseHandler
<1>17. CASE CloseCall
  BY <1>17 DEF CloseCall
<1>18. CASE CloseArms
  <2>1. created \in Sockets /\ 0 <= closeDue[created]
    BY <1>18 DEF CloseArms
  <2>2. /\ timer' \in [Sockets -> {"none", "asking", "closing", "expired"}]
        /\ closeDue' \in [Sockets -> Nat]
    <3>1. CASE attached[created]
      BY <1>18, <2>1, <3>1, RearmTypes DEF CloseArms
    <3>2. CASE ~attached[created]
      BY <1>18, <3>2 DEF CloseArms
    <3> QED BY <3>1, <3>2
  <2>3. TypeOK'
    BY <1>18, <2>2 DEF CloseArms
  <2>4. Alive' /\ Asked' /\ Connected'
    BY <1>18, <2>1 DEF CloseArms
  <2> QED BY ONLY <2>3, <2>4 DEF IInv
<1>19. CASE ClientClose
  BY <1>19 DEF ClientClose
<1>20. CASE CloseSockets
  <2>1. TypeOK'
    BY <1>20 DEF CloseSockets
  <2>2. Alive'
    <3>1. registered # None => created \in Sockets
      BY DEF Sockets, None
    <3>2. app' \in {"idle", "close"} /\ (app' = "close" => registered # None)
      BY <1>20 DEF CloseSockets
    <3>3. UNCHANGED <<registered, created, attached, net>> /\ app = "closing"
      BY <1>20 DEF CloseSockets
    <3> QED BY <3>1, <3>2, <3>3
  <2>3. Asked'
    BY <1>20 DEF CloseSockets
  <2>4. Connected'
    BY <1>20 DEF CloseSockets
  <2> QED BY ONLY <2>1, <2>2, <2>3, <2>4 DEF IInv
<1>21. CASE UNCHANGED vars
  BY <1>21 DEF vars
<1> QED
  BY ONLY [Next]_vars, <1>1, <1>2, <1>3, <1>4, <1>5, <1>6, <1>7, <1>8, <1>9,
     <1>10, <1>11, <1>12, <1>13, <1>14, <1>15, <1>16, <1>17, <1>18, <1>19, <1>20, <1>21
  DEF Next, InCall, InHandler, Server

LEMMA IInvInvariant == Spec => []IInv
<1>1. Init => IInv
  BY IInvInit
<1>2. IInv /\ [Next]_vars => IInv'
  BY IInvStep
<1> QED BY <1>1, <1>2, PTL DEF Spec

(***************************************************************************)
(* The theorems.                                                           *)
(***************************************************************************)

\* Every variable of the namespace keeps its type.
THEOREM TypeCorrect == Spec => []TypeOK
<1>1. IInv => TypeOK
  BY DEF IInv
<1> QED BY <1>1, IInvInvariant, PTL

\* Whenever socket() is called, between which steps of on_open, the socket has
\* sent its request, or will, on the connection that is open and not being closed.
THEOREM SocketHasAsked == Spec => []RegisteredHasAsked
<1>1. IInv => RegisteredHasAsked
  BY DEF IInv, TypeOK, Asked, HasAsked, RegisteredHasAsked, AtRest, Opened
<1> QED BY <1>1, IInvInvariant, PTL

\* The socket in m_sockets has a client and no other has, so remove_socket
\* erases the socket that has closed and never its successor.
THEOREM SocketIsAttached == Spec => []RegisteredIsAttached
<1>1. IInv => RegisteredIsAttached
  BY BoundsAssumption
  DEF IInv, TypeOK, Alive, Locked, RegisteredIsAttached, AtRest, Sockets, None
<1> QED BY <1>1, IInvInvariant, PTL

\* on_disconnect and on_close leave no socket connected without a connection, and
\* close() of the client leaves it connected only while there is one.
THEOREM ConnectedHasConnection == Spec => []ConnectedIsOpen
<1>1. IInv => ConnectedIsOpen
  BY DEF IInv, Connected, ConnectedIsOpen
<1> QED BY <1>1, IInvInvariant, PTL
===============================================================================
