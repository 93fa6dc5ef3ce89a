----------------------------- MODULE SioNamespaces -----------------------------
(***************************************************************************)
(* The sockets of one namespace other than "/" (client_impl::socket,       *)
(* sockets_invoke_void, remove_socket; socket::impl's constructor,         *)
(* send_connect, timeout_connection and on_close): a socket asks the       *)
(* server to connect it when it is created on an open connection and each  *)
(* time the connection opens, and closes itself when no answer comes, or   *)
(* when the application asks: both use the one timer of the socket.        *)
(*                                                                         *)
(* An application thread calls socket(nsp), which constructs the socket    *)
(* while it holds m_socket_mutex, close() of a socket and close() of the   *)
(* client; the network thread takes the mutex for every look at m_sockets. *)
(* A socket that has closed is replaced by a new one at the next call:     *)
(* sockets are numbered in the order of creation, and the application      *)
(* keeps the old ones, so none is destroyed.  The packets it emits are in  *)
(* SioSocket, and what ends a connection, close_impl too, in               *)
(* SioConnection: here it may end at any time, and of m_con_state only     *)
(* what opened() and send_impl test is kept.                               *)
(*                                                                         *)
(* External: the connection, and the server, which answers a request with  *)
(* "connect" or with an error or not at all, and may disconnect a socket.  *)
(***************************************************************************)
EXTENDS Integers, Sequences, Functions

CONSTANTS
    MaxSockets,               \* bound: sockets created
    MaxLinks,                 \* bound: connections opened
    MaxCloses                 \* bound: calls of close, of a socket or the client

ASSUME BoundsAssumption == {MaxSockets, MaxLinks, MaxCloses} \subseteq Nat

Sockets == 1 .. MaxSockets

None == 0

VARIABLES
    registered,               \* the socket m_sockets holds, or None
    created,                  \* sockets created so far
    attached,                 \* m_client # NULL, of each socket
    connected,                \* m_connected
    timer,                    \* m_connection_timer: "none", armed by send_connect
                              \* ("asking") or by close ("closing"), or "expired"
    due,                      \* timeout_connection handlers ready, not cancelled
    closeDue,                 \* on_close handlers of the timer that are ready
    open,                     \* there is a connection: on_open has begun, and neither
                              \* on_close nor on_fail since
    closing,                  \* m_con_state = con_closing: the client was closed, and
                              \* no handler has set m_con_state since
    links,                    \* connections opened so far
    posted,                   \* connect packets waiting in the io_service
    asked,                    \* those the server has still to answer
    askedOn,                  \* the last connection each socket has asked on
    closes,                   \* calls of close of the client, and of a socket that
                              \* went past its tests
    app,                      \* where the application thread is within a call
    net                       \* where the network thread is within a handler

timerVars == <<timer, due, closeDue>>
sockVars == <<attached, connected, timerVars>>
linkVars == <<open, closing, links>>
sendVars == <<posted, asked, askedOn>>
mapVars  == <<registered, created>>
vars == <<mapVars, sockVars, linkVars, sendVars, closes, app, net>>

\* opened(): m_con_state = con_opened.
Opened == open /\ ~closing

Init ==
    /\ registered = None
    /\ created = 0
    /\ attached = [s \in Sockets |-> FALSE]
    /\ connected = [s \in Sockets |-> FALSE]
    /\ timer = [s \in Sockets |-> "none"]
    /\ due = [s \in Sockets |-> 0]
    /\ closeDue = [s \in Sockets |-> 0]
    /\ open = FALSE
    /\ closing = FALSE
    /\ links = 0
    /\ posted = << >>
    /\ asked = 0
    /\ askedOn = [s \in Sockets |-> 0]
    /\ closes = 0
    /\ app = "idle"
    /\ net = "idle"

(***************************************************************************)
(* The application thread, in socket(nsp) with the mutex.                  *)
(***************************************************************************)
Locked == app \in {"send", "arm", "insert"}

\* Mutant: a new socket leaves the request to on_open.
SocketCall_NoConnect ==
    /\ app = "idle"
    /\ registered = None
    /\ created < MaxSockets
    /\ created' = created + 1
    /\ attached' = [attached EXCEPT ![created + 1] = TRUE]
    /\ app' = "insert"
    /\ UNCHANGED <<registered, connected, timerVars, linkVars, sendVars, closes, net>>

\* No socket is registered: the constructor tests opened().  (Where one is,
\* the call changes nothing.)
SocketCall ==
    /\ app = "idle"
    /\ registered = None
    /\ created < MaxSockets
    /\ created' = created + 1
    /\ attached' = [attached EXCEPT ![created + 1] = TRUE]
    /\ app' = IF Opened THEN "send" ELSE "insert"
    /\ UNCHANGED <<registered, connected, timerVars, linkVars, sendVars, closes, net>>

\* Mutant: on_close looks at its error code.
Cancelled_Aborted(s, ran) == [closeDue EXCEPT ![s] = @ - ran]

\* A timer that is cancelled, destroyed or armed again makes its handler ready,
\* with an error: timeout_connection then does nothing, but the handler of close
\* is on_close without the error.  "ran" is 1 in that handler, else 0.
Cancelled(s, ran) ==
    [closeDue EXCEPT ![s] = @ - ran + (IF timer[s] = "closing" THEN 1 ELSE 0)]

Rearm(s, t, ran) ==
    /\ closeDue' = Cancelled(s, ran)
    /\ timer' = [timer EXCEPT ![s] = t]

\* Mutant: the timeout is not started.
ArmTimer_Never(s) == UNCHANGED <<timer, closeDue>>

\* The end of send_connect: a new timer in place of the old one.
ArmTimer(s) == Rearm(s, "asking", 0)

PostConnect ==
    /\ app = "send"
    /\ posted' = Append(posted, created)
    /\ app' = "arm"
    /\ UNCHANGED <<mapVars, sockVars, linkVars, asked, askedOn, closes, net>>

ConstructorArms ==
    /\ app = "arm"
    /\ ArmTimer(created)
    /\ app' = "insert"
    /\ UNCHANGED <<mapVars, attached, connected, due, linkVars, sendVars, closes, net>>

Insert ==
    /\ app = "insert"
    /\ registered' = created
    /\ app' = "idle"
    /\ UNCHANGED <<created, sockVars, linkVars, sendVars, closes, net>>

(***************************************************************************)
(* close().  A socket that still has its client is the last one created.   *)
(* The disconnect packet is in SioSocket; the server may answer it with    *)
(* another (RecvDisconnect).                                               *)
(***************************************************************************)
CloseCall ==
    /\ app = "idle"
    /\ created # None
    /\ attached[created] /\ connected[created]
    /\ closes < MaxCloses
    /\ closes' = closes + 1
    /\ app' = "close"
    /\ UNCHANGED <<mapVars, sockVars, linkVars, sendVars, net>>

\* The timer there is, or a new one for which m_client is used: on_close may have
\* cleared it, and then the process has ended (the network thread, which goes on
\* here, does nothing it could not do otherwise).
CloseArms ==
    /\ app = "close"
    /\ \/ attached[created] /\ Rearm(created, "closing", 0) /\ app' = "idle"
       \/ ~attached[created] /\ app' = "crashed" /\ UNCHANGED <<timer, closeDue>>
    /\ UNCHANGED <<mapVars, attached, connected, due, linkVars, sendVars, closes, net>>

\* client_impl::close: m_con_state is set first, while there may be a connection
\* (close_impl, which ends it, is in SioConnection);
ClientClose ==
    /\ app = "idle"
    /\ closes < MaxCloses
    /\ closes' = closes + 1
    /\ closing' = TRUE
    /\ app' = "closing"
    /\ UNCHANGED <<mapVars, sockVars, open, links, sendVars, net>>

\* sockets_invoke_void(close): then each socket tests for itself.
CloseSockets ==
    /\ app = "closing"
    /\ \/ /\ registered # None
          /\ attached[registered] /\ connected[registered]
          /\ app' = "close"
       \/ /\ registered # None => ~(attached[registered] /\ connected[registered])
          /\ app' = "idle"
    /\ UNCHANGED <<mapVars, sockVars, linkVars, sendVars, closes, net>>

(***************************************************************************)
(* The network thread.                                                     *)
(***************************************************************************)
\* send_impl: a packet is dropped unless m_con_state = con_opened.
Ask(s) ==
    \/ /\ Opened
       /\ asked' = asked + 1
       /\ askedOn' = [askedOn EXCEPT ![s] = links]
    \/ ~Opened /\ UNCHANGED <<asked, askedOn>>

RunPosted ==
    /\ net = "idle"
    /\ posted # << >>
    /\ posted' = Tail(posted)
    /\ Ask(Head(posted))
    /\ UNCHANGED <<mapVars, sockVars, linkVars, closes, app, net>>

OnOpen ==
    /\ net = "idle"
    /\ ~open
    /\ links < MaxLinks
    /\ open' = TRUE
    /\ closing' = FALSE
    /\ links' = links + 1
    /\ net' = "on_open"
    /\ UNCHANGED <<mapVars, sockVars, sendVars, closes, app>>

\* on_open, sockets_invoke_void: send_connect of the registered socket.
OpenSockets ==
    /\ net = "on_open"
    /\ ~Locked
    /\ net' = "idle"
    /\ \/ /\ registered # None
          /\ Ask(registered)
          /\ ArmTimer(registered)
       \/ /\ registered = None
          /\ UNCHANGED <<asked, askedOn, timer, closeDue>>
    /\ UNCHANGED <<mapVars, attached, connected, due, linkVars, posted, closes, app>>

\* on_close or on_fail, con_closed: what was asked on this connection is not
\* answered.
LinkDown ==
    /\ net = "idle"
    /\ open
    /\ open' = FALSE
    /\ closing' = FALSE
    /\ asked' = 0
    /\ net' = "on_disconnect"
    /\ UNCHANGED <<mapVars, sockVars, links, posted, askedOn, closes, app>>

\* Mutant: a lost connection is not noticed by the socket.
DisconnectSockets_Kept ==
    /\ net = "on_disconnect"
    /\ ~Locked
    /\ net' = "idle"
    /\ UNCHANGED <<mapVars, sockVars, linkVars, sendVars, closes, app>>

\* sockets_invoke_void(on_disconnect); the timer is left as it is.
DisconnectSockets ==
    /\ net = "on_disconnect"
    /\ ~Locked
    /\ net' = "idle"
    /\ connected' = [s \in Sockets |-> connected[s] /\ s # registered]
    /\ UNCHANGED <<mapVars, attached, timerVars, linkVars, sendVars, closes, app>>

\* The server's answer: get_socket_locked, on_connected.
RecvConnect ==
    /\ net = "idle"
    /\ ~Locked
    /\ open
    /\ asked > 0
    /\ asked' = asked - 1
    /\ \/ /\ registered # None
          /\ connected' = [connected EXCEPT ![registered] = TRUE]
          /\ Rearm(registered, "none", 0)
       \/ /\ registered = None
          /\ UNCHANGED <<connected, timer, closeDue>>
    /\ UNCHANGED <<mapVars, attached, due, linkVars, posted, askedOn, closes, app, net>>

\* The server refuses: only the error listener hears of it.
RecvError ==
    /\ net = "idle"
    /\ open
    /\ asked > 0
    /\ asked' = asked - 1
    /\ UNCHANGED <<mapVars, sockVars, linkVars, posted, askedOn, closes, app, net>>

\* Mutant: on_close forgets to clear m_client.
Detach_Kept(s, ran) ==
    /\ Rearm(s, "none", ran)
    /\ connected' = [connected EXCEPT ![s] = FALSE]
    /\ net' = "on_close"
    /\ UNCHANGED attached

\* on_close, up to remove_socket.
Detach(s, ran) ==
    /\ attached' = [attached EXCEPT ![s] = FALSE]
    /\ Rearm(s, "none", ran)
    /\ connected' = [connected EXCEPT ![s] = FALSE]
    /\ net' = "on_close"

RecvDisconnect ==
    /\ net = "idle"
    /\ ~Locked
    /\ open
    /\ registered # None
    /\ Detach(registered, 0)
    /\ UNCHANGED <<mapVars, due, linkVars, sendVars, closes, app>>

TimerExpires(s) ==
    /\ timer' = [timer EXCEPT ![s] = "expired"]
    /\ \/ /\ timer[s] = "asking"
          /\ due' = [due EXCEPT ![s] = @ + 1]
          /\ UNCHANGED closeDue
       \/ /\ timer[s] = "closing"
          /\ closeDue' = [closeDue EXCEPT ![s] = @ + 1]
          /\ UNCHANGED due
    /\ UNCHANGED <<mapVars, attached, connected, linkVars, sendVars, closes, app, net>>

\* Mutant: the handler does not look whether the timer was cancelled.
TimeoutConnection_Cancelled(s) ==
    /\ net = "idle"
    /\ due' = [due EXCEPT ![s] = @ - 1]
    /\ attached[s] /\ Detach(s, 0)
    /\ UNCHANGED <<mapVars, linkVars, sendVars, closes, app>>

\* timeout_connection, not cancelled: whatever has happened since it expired.
TimeoutConnection(s) ==
    /\ net = "idle"
    /\ due[s] > 0
    /\ due' = [due EXCEPT ![s] = @ - 1]
    /\ \/ attached[s] /\ Detach(s, 0)
       \/ ~attached[s] /\ UNCHANGED <<attached, connected, timer, closeDue, net>>
    /\ UNCHANGED <<mapVars, linkVars, sendVars, closes, app>>

\* The handler of close()'s timer, cancelled or not.
CloseHandler(s) ==
    /\ net = "idle"
    /\ closeDue[s] > 0
    /\ \/ attached[s] /\ Detach(s, 1)
       \/ /\ ~attached[s]
          /\ closeDue' = [closeDue EXCEPT ![s] = @ - 1]
          /\ UNCHANGED <<attached, connected, timer, net>>
    /\ UNCHANGED <<mapVars, due, linkVars, sendVars, closes, app>>

\* remove_socket erases by name, whichever socket has it.
RemoveSocket ==
    /\ net = "on_close"
    /\ ~Locked
    /\ registered' = None
    /\ net' = "idle"
    /\ UNCHANGED <<created, sockVars, linkVars, sendVars, closes, app>>

(***************************************************************************)
InCall == PostConnect \/ ConstructorArms \/ Insert \/ CloseSockets \/ CloseArms

Server == RecvConnect \/ RecvError \/ RecvDisconnect

InHandler == OpenSockets \/ DisconnectSockets \/ RemoveSocket

Next ==
    \/ SocketCall
    \/ CloseCall
    \/ ClientClose
    \/ InCall
    \/ RunPosted
    \/ OnOpen
    \/ LinkDown
    \/ InHandler
    \/ Server
    \/ \E s \in Sockets : TimerExpires(s) \/ TimeoutConnection(s) \/ CloseHandler(s)

\* Calls and handlers that have begun go on, timers expire and the handlers
\* that are ready run; nobody else owes anything.
Fairness ==
    /\ WF_vars(InCall)
    /\ WF_vars(InHandler)
    /\ WF_vars(RunPosted)
    /\ \A s \in Sockets :
          /\ WF_vars(TimerExpires(s))
          /\ WF_vars(TimeoutConnection(s))
          /\ WF_vars(CloseHandler(s))

Spec == Init /\ [][Next]_vars /\ Fairness
-------------------------------------------------------------------------------
TypeOK ==
    /\ registered \in {None} \cup Sockets
    /\ created \in {None} \cup Sockets
    /\ attached \in [Sockets -> BOOLEAN]
    /\ connected \in [Sockets -> BOOLEAN]
    /\ timer \in [Sockets -> {"none", "asking", "closing", "expired"}]
    /\ due \in [Sockets -> Nat]
    /\ closeDue \in [Sockets -> Nat]
    /\ open \in BOOLEAN
    /\ closing \in BOOLEAN
    /\ links \in 0 .. MaxLinks
    /\ posted \in Seq(Sockets)
    /\ asked \in Nat
    /\ askedOn \in [Sockets -> 0 .. MaxLinks]
    /\ closes \in 0 .. MaxCloses
    /\ app \in {"idle", "send", "arm", "insert", "close", "closing", "crashed"}
    /\ net \in {"idle", "on_open", "on_disconnect", "on_close"}

AtRest == ~Locked /\ net = "idle"

\* However socket() falls between the steps of on_open, the registered socket
\* has asked on the connection that is open, or its request is on its way; unless
\* the client is closed, when nothing is sent.
RegisteredHasAsked ==
    AtRest /\ Opened /\ registered # None =>
        askedOn[registered] = links \/ registered \in Range(posted)

\* Only the registered socket has a client, and it always has: on_close clears
\* m_client and then removes by name, so it must run once for each socket, or
\* the timer or the server's disconnect of a closed socket removes its
\* successor.
RegisteredIsAttached ==
    AtRest => \A s \in Sockets : attached[s] <=> registered = s

\* A socket counts as connected only while there is a connection, which client
\* close() leaves for the time it takes to end.
ConnectedIsOpen ==
    net # "on_disconnect" => \A s \in Sockets : connected[s] => open /\ attached[s]

\* sio_socket.cpp:487, "Should close socket if no connected message arrive.
\* Otherwise we'll never ask for open again.": a socket does not wait forever on
\* a connection that is open and that no one closes.
ConnectedOrClosed ==
    \A s \in Sockets :
        registered = s /\ Opened ~> connected[s] \/ registered # s \/ ~Opened

\* close() of a connected socket closes it, also when the connection is lost
\* meanwhile and the socket asks again and is connected again: send_connect and
\* on_connected cancel the timer of close(), and that too must run on_close.
CloseEndsSocket ==
    \A s \in Sockets : app = "close" /\ created = s ~> ~attached[s]

\* The same comment: the timeout is for a socket that no answer has reached.
TimeoutOnlyUnanswered ==
    [][\A s \in Sockets :
          connected[s] /\ attached[s] /\ ~attached'[s] => due'[s] = due[s]]_vars
===============================================================================
