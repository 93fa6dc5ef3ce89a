------------------------------ MODULE SioConnection ------------------------------
(***************************************************************************)
(* sio::client_impl (sio_client_impl.cpp): the life of the connection.     *)
(*                                                                         *)
(* An application thread calls connect, close and sync_close; the network  *)
(* thread (run_loop) runs the handlers that are ready in the io_service:   *)
(* those dispatched by the application, expired timers, and the events of  *)
(* the websocket.  m_con_state, m_reconn_timer and m_network_thread are    *)
(* used by both threads without a lock, so a handler is split where the    *)
(* other thread can come between two uses of them.                         *)
(*                                                                         *)
(* A timer that has expired has its handler in the ready queue, and        *)
(* cancelling the timer no longer stops it.                                *)
(*                                                                         *)
(* The websocket connection ("ws") behaves as Websocket says: its close()  *)
(* changes nothing unless the connection is open, a close with a reserved  *)
(* code only leaves the code behind, and an opening or closing handshake   *)
(* ends by itself after 5 s.  The peer is external.                        *)
(***************************************************************************)
EXTENDS Integers, Sequences, Functions

CONSTANTS
    Attempts,                 \* m_reconn_attempts
    MaxReady                  \* bound: handlers waiting in the io_service, above
                              \* which no timer expires and no close begins

ASSUME AttemptsAssumption == Attempts \in Nat
ASSUME ReadyAssumption == MaxReady \in Nat \ {0}

VARIABLES
    conState,                 \* m_con_state
    mcon,                     \* m_con is not expired
    made,                     \* m_reconn_made
    reconnTimer,              \* m_reconn_timer: "none", "armed", "expired"
    pongTimer,                \* m_ping_timeout_timer, the same
    pingTimer,                \* m_ping_timer is armed
    ready,                    \* handlers ready in the io_service, in order
    threadObj,                \* m_network_thread is set
    running,                  \* run_loop has not returned
    net,                      \* where the network thread is within a handler
    app,                      \* where the application thread is within a call
    ws,                       \* the websocket connection
    code,                     \* its local close code
    told,                     \* the last listener call; "retry_" is the reconnect
                              \* listener's, from on_fail or from on_close
    userClosed,               \* the user has closed and not connected again
    stalePong                 \* a pong timeout has been handled with no session

sessionVars == <<ws, code>>
timerVars   == <<reconnTimer, pongTimer, pingTimer>>
threadVars  == <<threadObj, running>>
userVars    == <<told, userClosed>>
vars == <<conState, mcon, made, timerVars, ready, threadVars, net, app,
          sessionVars, userVars, stalePong>>

ConStates == {"closed", "opening", "opened", "closing"}
TimerStates == {"none", "armed", "expired"}
Handlers == {"connect_impl", "close_impl", "timeout_pong", "timeout_reconnect"}
Codes == {"normal", "policy_violation", "abnormal_close"}

Init ==
    /\ conState = "closed"
    /\ mcon = FALSE
    /\ made = 0
    /\ reconnTimer = "none"
    /\ pongTimer = "none"
    /\ pingTimer = FALSE
    /\ ready = << >>
    /\ threadObj = FALSE
    /\ running = FALSE
    /\ net = "idle"
    /\ app = "idle"
    /\ ws = "none"
    /\ code = "abnormal_close"
    /\ told = "none"
    /\ userClosed = FALSE
    /\ stalePong = FALSE

(***************************************************************************)
(* The application thread.                                                 *)
(***************************************************************************)
\* connect(): the reconnect timer goes first, before any test.
ConnectCall ==
    /\ app = "idle"
    /\ app' = "connect"
    /\ reconnTimer' = "none"
    /\ UNCHANGED <<conState, mcon, made, pongTimer, pingTimer, ready,
                   threadVars, net, sessionVars, userVars, stalePong>>

\* "if we are connected, do nothing": the state is not closing or closed.
ConnectIgnored ==
    /\ app = "connect"
    /\ threadObj
    /\ conState \in {"opening", "opened"}
    /\ app' = "idle"
    /\ UNCHANGED <<conState, mcon, made, timerVars, ready, threadVars, net,
                   sessionVars, userVars, stalePong>>

ConnectWaits ==
    /\ app = "connect"
    /\ threadObj
    /\ conState \in {"closing", "closed"}
    /\ app' = "join"
    /\ UNCHANGED <<conState, mcon, made, timerVars, ready, threadVars, net,
                   sessionVars, userVars, stalePong>>

\* Mutant: the old thread is not joined.
ConnectStarts_NoJoin ==
    /\ app \in {"connect", "join"}
    /\ app' = "idle"
    /\ conState' = "opening"
    /\ made' = 0
    /\ ready' = Append(ready, "connect_impl")
    /\ threadObj' = TRUE
    /\ running' = TRUE
    /\ told' = "none"
    /\ userClosed' = FALSE
    /\ stalePong' = FALSE
    /\ UNCHANGED <<mcon, timerVars, net, sessionVars>>

\* The old thread, if there was one, has been joined: start a new one.
ConnectStarts ==
    /\ \/ app = "connect" /\ ~threadObj
       \/ app = "join" /\ ~running
    /\ app' = "idle"
    /\ conState' = "opening"
    /\ made' = 0
    /\ ready' = Append(ready, "connect_impl")
    /\ threadObj' = TRUE
    /\ running' = TRUE
    /\ told' = "none"
    /\ userClosed' = FALSE
    /\ stalePong' = FALSE
    /\ UNCHANGED <<mcon, timerVars, net, sessionVars>>

\* close() and sync_close() set the state, then dispatch close_impl.
CloseCall ==
    /\ app = "idle"
    /\ Len(ready) < MaxReady
    /\ app' \in {"close", "sync_close"}
    /\ conState' = "closing"
    /\ userClosed' = TRUE
    /\ UNCHANGED <<mcon, made, timerVars, ready, threadVars, net, sessionVars,
                   told, stalePong>>

CloseDispatch ==
    /\ app \in {"close", "sync_close"}
    /\ ready' = Append(ready, "close_impl")
    /\ app' = IF app = "close" THEN "idle" ELSE "sync_join"
    /\ UNCHANGED <<conState, mcon, made, timerVars, threadVars, net,
                   sessionVars, userVars, stalePong>>

SyncCloseJoined ==
    /\ app = "sync_join"
    /\ ~running
    /\ threadObj' = FALSE
    /\ app' = "idle"
    /\ UNCHANGED <<conState, mcon, made, timerVars, ready, running, net,
                   sessionVars, userVars, stalePong>>

(***************************************************************************)
(* What handlers do to the session and its timers.                         *)
(***************************************************************************)
\* connect_impl: get_connection may refuse the URI, which only calls the fail
\* listener.
ConnectImpl ==
    \/ /\ ws' = "connecting"
       /\ code' = "abnormal_close"
       /\ UNCHANGED told
    \/ /\ told' = "failed"
       /\ UNCHANGED sessionVars

\* Mutant: the test of m_con is the wrong way round.
CloseImpl_NoSession(c) ==
    /\ reconnTimer' = "none"
    /\ UNCHANGED sessionVars

\* close_impl(c): cancels the reconnect timer, then asks the websocket.
CloseImpl(c) ==
    /\ reconnTimer' = "none"
    /\ code' = IF mcon /\ ws = "open" THEN c ELSE code
    /\ ws' = IF mcon /\ ws = "open" /\ c # "abnormal_close" THEN "closing" ELSE ws

\* on_message, before the payload is looked at.
Rearmed(timer) == IF timer = "none" THEN "none" ELSE "armed"

\* Mutant: one attempt too many.
ScheduleRetry_OneMore(after) ==
    /\ made <= Attempts
    /\ reconnTimer' = "armed"
    /\ told' = after

\* The tail of on_close and on_fail.
ScheduleRetry(after) ==
    /\ made < Attempts
    /\ reconnTimer' = "armed"
    /\ told' = after

(***************************************************************************)
(* Handlers taken from the ready queue.                                    *)
(***************************************************************************)
Take(handler) ==
    /\ running
    /\ net = "idle"
    /\ ready # << >>
    /\ Head(ready) = handler
    /\ ready' = Tail(ready)

RunConnect ==
    /\ Take("connect_impl")
    /\ ConnectImpl
    /\ UNCHANGED <<conState, mcon, made, timerVars, threadVars, net, app,
                   userClosed, stalePong>>

RunClose ==
    /\ Take("close_impl")
    /\ CloseImpl("normal")
    /\ UNCHANGED <<conState, mcon, made, pongTimer, pingTimer, threadVars, net,
                   app, userVars, stalePong>>

TimeoutPong ==
    /\ Take("timeout_pong")
    /\ CloseImpl("policy_violation")
    /\ stalePong' = (stalePong \/ ~mcon)
    /\ UNCHANGED <<conState, mcon, made, pongTimer, pingTimer, threadVars, net,
                   app, userVars>>

\* timeout_reconnect tests the state, and sets it a moment later.
TimeoutReconnect ==
    /\ Take("timeout_reconnect")
    /\ net' = IF conState = "closed" THEN "reconnect" ELSE "idle"
    /\ UNCHANGED <<conState, mcon, made, timerVars, threadVars, app,
                   sessionVars, userVars, stalePong>>

\* Mutant: the unsigned counter counts down.
Reconnect_CountsDown ==
    /\ net = "reconnect"
    /\ net' = "idle"
    /\ conState' = "opening"
    /\ made' = made - 1
    /\ ConnectImpl
    /\ UNCHANGED <<mcon, timerVars, ready, threadVars, app, userClosed,
                   stalePong>>

Reconnect ==
    /\ net = "reconnect"
    /\ net' = "idle"
    /\ conState' = "opening"
    /\ made' = made + 1
    /\ ConnectImpl
    /\ UNCHANGED <<mcon, timerVars, ready, threadVars, app, userClosed,
                   stalePong>>

(***************************************************************************)
(* Timers.                                                                 *)
(***************************************************************************)
ReconnectExpires ==
    /\ reconnTimer = "armed"
    /\ Len(ready) < MaxReady
    /\ reconnTimer' = "expired"
    /\ ready' = Append(ready, "timeout_reconnect")
    /\ UNCHANGED <<conState, mcon, made, pongTimer, pingTimer, threadVars, net,
                   app, sessionVars, userVars, stalePong>>

PongExpires ==
    /\ pongTimer = "armed"
    /\ Len(ready) < MaxReady
    /\ pongTimer' = "expired"
    /\ ready' = Append(ready, "timeout_pong")
    /\ UNCHANGED <<conState, mcon, made, reconnTimer, pingTimer, threadVars,
                   net, app, sessionVars, userVars, stalePong>>

\* ping: sends, re-arms itself, and starts the wait for a pong if none runs.
Ping ==
    /\ running /\ net = "idle"
    /\ pingTimer /\ mcon
    /\ pongTimer' = IF pongTimer = "none" THEN "armed" ELSE pongTimer
    /\ UNCHANGED <<conState, mcon, made, reconnTimer, pingTimer, ready,
                   threadVars, net, app, sessionVars, userVars, stalePong>>

(***************************************************************************)
(* Events of the websocket.                                                *)
(***************************************************************************)
OnOpen ==
    /\ running /\ net = "idle"
    /\ ws = "connecting"
    /\ ws' = "open"
    /\ conState' = "opened"
    /\ mcon' = TRUE
    /\ made' = 0
    /\ told' = "opened"
    /\ UNCHANGED <<code, timerVars, ready, threadVars, net, app, userClosed,
                   stalePong>>

\* Mutant: m_con_state keeps its value.
SessionOver_StateKept(next) ==
    /\ running /\ net = "idle"
    /\ net' = next
    /\ ws' = "none"
    /\ mcon' = FALSE
    /\ UNCHANGED <<conState, made, reconnTimer, ready, threadVars, app,
                   userVars, stalePong>>

\* on_fail and on_close, up to the decision whether to reconnect.
SessionOver(next) ==
    /\ running /\ net = "idle"
    /\ net' = next
    /\ ws' = "none"
    /\ conState' = "closed"
    /\ mcon' = FALSE
    /\ UNCHANGED <<made, reconnTimer, ready, threadVars, app, userVars,
                   stalePong>>

OnFail ==
    /\ ws = "connecting"
    /\ SessionOver("failed")
    /\ UNCHANGED <<code, pongTimer, pingTimer>>

\* Mutant: the pong timeout is left running.
ClearTimers_PingOnly == pingTimer' = FALSE /\ UNCHANGED pongTimer

ClearTimers == pongTimer' = "none" /\ pingTimer' = FALSE

\* The connection breaks, or the closing handshake times out.
OnCloseDropped ==
    /\ ws \in {"open", "closing"}
    /\ code' = "abnormal_close"
    /\ ClearTimers
    /\ SessionOver("ended")

\* The closing handshake ends in good order, whoever began it.
OnCloseAnswered ==
    /\ ws = "closing"
    /\ UNCHANGED code
    /\ ClearTimers
    /\ SessionOver("ended")

AfterFail ==
    /\ net = "failed"
    /\ net' = "idle"
    /\ \/ ScheduleRetry("retry_failed")
       \/ /\ made >= Attempts
          /\ told' = "failed"
          /\ UNCHANGED reconnTimer
    /\ UNCHANGED <<conState, mcon, made, pongTimer, pingTimer, ready,
                   threadVars, app, sessionVars, userClosed, stalePong>>

AfterClose ==
    /\ net = "ended"
    /\ net' = "idle"
    /\ \/ code # "normal" /\ ScheduleRetry("retry_dropped")
       \/ /\ code = "normal" \/ made >= Attempts
          /\ told' = IF code = "normal" THEN "normal" ELSE "drop"
          /\ UNCHANGED reconnTimer
    /\ UNCHANGED <<conState, mcon, made, pongTimer, pingTimer, ready,
                   threadVars, app, sessionVars, userClosed, stalePong>>

(***************************************************************************)
(* Messages of the peer while the websocket is open (on_message, on_decode *)
(* and on_handshake).                                                      *)
(***************************************************************************)
Receive ==
    /\ running /\ net = "idle"
    /\ ws = "open"
    /\ UNCHANGED <<conState, mcon, made, ready, threadVars, net, app, userVars,
                   stalePong>>

RecvHandshake ==
    /\ Receive
    /\ pongTimer' = Rearmed(pongTimer)
    /\ pingTimer' = TRUE
    /\ UNCHANGED <<reconnTimer, sessionVars>>

RecvBadHandshake ==
    /\ Receive
    /\ pongTimer' = Rearmed(pongTimer)
    /\ CloseImpl("policy_violation")
    /\ UNCHANGED pingTimer

RecvPong ==
    /\ Receive
    /\ pongTimer' = "none"
    /\ UNCHANGED <<reconnTimer, pingTimer, sessionVars>>

RecvMessage ==
    /\ Receive
    /\ pongTimer' = Rearmed(pongTimer)
    /\ UNCHANGED <<reconnTimer, pingTimer, sessionVars>>

RecvEngineClose ==
    /\ Receive
    /\ pongTimer' = Rearmed(pongTimer)
    /\ CloseImpl("abnormal_close")
    /\ UNCHANGED pingTimer

\* The peer closes: the websocket echoes its code, and on_close comes later.
PeerCloses ==
    /\ Receive
    /\ ws' = "closing"
    /\ code' \in {"normal", "policy_violation"}
    /\ UNCHANGED timerVars

\* io_service::run returns when it has no work left.
RunLoopEnds ==
    /\ running /\ net = "idle"
    /\ ready = << >>
    /\ reconnTimer # "armed" /\ pongTimer # "armed" /\ ~pingTimer
    /\ ws = "none"
    /\ running' = FALSE
    /\ UNCHANGED <<conState, mcon, made, timerVars, ready, threadObj, net, app,
                   sessionVars, userVars, stalePong>>

(***************************************************************************)
InCall ==
    \/ ConnectIgnored
    \/ ConnectWaits
    \/ ConnectStarts
    \/ CloseDispatch
    \/ SyncCloseJoined

UserCall == ConnectCall \/ CloseCall

ReadyStep ==
    \/ RunConnect
    \/ RunClose
    \/ TimeoutPong
    \/ TimeoutReconnect
    \/ Reconnect
    \/ AfterFail
    \/ AfterClose
    \/ RunLoopEnds

\* A handshake, opening or closing, comes to an end.
HandshakeEnds ==
    \/ OnOpen
    \/ OnFail
    \/ OnCloseAnswered
    \/ ws = "closing" /\ OnCloseDropped

Peer ==
    \/ OnCloseDropped
    \/ PeerCloses
    \/ RecvHandshake
    \/ RecvBadHandshake
    \/ RecvPong
    \/ RecvMessage
    \/ RecvEngineClose

Next ==
    \/ UserCall
    \/ InCall
    \/ ReadyStep
    \/ HandshakeEnds
    \/ Peer
    \/ ReconnectExpires
    \/ PongExpires
    \/ Ping

\* The application thread goes on with a call it has begun, the network thread
\* runs what is ready, the reconnect timer expires, and the websocket's own
\* timeouts end its handshakes.  An open connection owes nothing.
Fairness ==
    /\ WF_vars(InCall)
    /\ WF_vars(ReadyStep)
    /\ WF_vars(ReconnectExpires)
    /\ WF_vars(HandshakeEnds)

Spec == Init /\ [][Next]_vars /\ Fairness
-------------------------------------------------------------------------------
TypeOK ==
    /\ conState \in ConStates
    /\ mcon \in BOOLEAN
    /\ made \in Nat
    /\ reconnTimer \in TimerStates
    /\ pongTimer \in TimerStates
    /\ pingTimer \in BOOLEAN
    /\ ready \in Seq(Handlers)
    /\ threadObj \in BOOLEAN
    /\ running \in BOOLEAN
    /\ net \in {"idle", "reconnect", "failed", "ended"}
    /\ app \in {"idle", "connect", "join", "close", "sync_close", "sync_join"}
    /\ ws \in {"none", "connecting", "open", "closing"}
    /\ code \in Codes
    /\ told \in {"none", "opened", "retry_failed", "retry_dropped", "failed",
                 "normal", "drop"}
    /\ userClosed \in BOOLEAN
    /\ stalePong \in BOOLEAN

-------------------------------------------------------------------------------
Retrying == told \in {"retry_failed", "retry_dropped"}

(* The state the client keeps agrees with the websocket: m_con is set exactly   *)
(* while there is a session, "opened" and the ping timers belong to a session,  *)
(* and the network thread outlives every connection (run() returns only when    *)
(* nothing is left to wait for).  on_open, on_close, on_fail and clear_timers   *)
(* must all keep it, whenever the user closes.                                  *)
SessionConsistent ==
    /\ mcon <=> ws \in {"open", "closing"}
    /\ conState = "opened" => mcon
    /\ pongTimer # "none" \/ pingTimer => mcon
    /\ ws # "none" => running

(* No second connection is made while one is alive: neither by the user's       *)
(* connect(), which joins the old thread first, nor by the reconnect timer.     *)
NoSecondSession ==
    net = "reconnect" \/ reconnTimer = "armed" \/ "connect_impl" \in Range(ready)
        => ws = "none"

(* API.md: "Set max reconnect attempts": the attempts since the last session    *)
(* never pass the maximum, and one more is scheduled only below it, whatever    *)
(* timers expired while the state was changing.                                 *)
ReconnectBounded ==
    /\ made <= Attempts
    /\ reconnTimer = "armed" \/ net = "reconnect" \/ "timeout_reconnect" \in Range(ready)
        => made < Attempts

(* Seen from the websocket, the client makes one connection after the other and *)
(* never touches the session, or its code, but by close: what WsConnection      *)
(* promises in return is all that the handlers here rely on.                    *)
W == INSTANCE Websocket

KeepsToWebsocket == W!Spec

(* A client that has told its user it will try again does so, and in the end    *)
(* opens, or says that it failed or was dropped; unless the user closes it, or  *)
(* a pong timeout of the dead session reaches close_impl, which cancels the     *)
(* reconnect timer for whoever calls it.                                        *)
RetryOrTold == Retrying ~> ~Retrying \/ userClosed \/ stalePong

(* A close_impl that finds the session open ends it, whatever the peer does.    *)
CloseEndsSession ==
    ws = "open" /\ "close_impl" \in Range(ready) ~> ws = "none"

(* API.md: sync_close "Close the client, return until it is really closed".     *)
SyncCloseReturns == app = "sync_join" ~> app = "idle"

(* API.md: the close listener is "Call[ed] when closed or drop": when the user  *)
(* has closed a client that had been connected and its thread has ended, the    *)
(* listener has been called for the session that dropped.                       *)
CloseListenerCalled ==
    userClosed /\ threadObj /\ ~running => told # "retry_dropped"

(* sio_client_impl.cpp:86: "if we are connected, do nothing": connect() does    *)
(* nothing only on a client whose network thread is at work.                    *)
ConnectNotIgnored ==
    [][app = "connect" /\ app' = "idle" /\ ready' = ready => running]_vars
===============================================================================
