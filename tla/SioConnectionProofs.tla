-------------------------- MODULE SioConnectionProofs --------------------------
(***************************************************************************)
(* Proofs about SioConnection, for any number of attempts: the state the   *)
(* client keeps agrees with the websocket, there is never a second session *)
(* and the retries stay within their maximum.                              *)
(*                                                                         *)
(* The three hold together, because an attempt at a connection is only     *)
(* ever in one place: a handler waiting to connect, the armed reconnect    *)
(* timer, the network thread between two halves of a handler, or a live    *)
(* websocket.                                                              *)
(***************************************************************************)
EXTENDS SioConnection, TLAPS

Attempting == {"connect_impl", "timeout_reconnect"}

\* At most one handler that leads to a connection waits in a queue.
OneAttempt(s) ==
    \A i, j \in DOMAIN s : s[i] \in Attempting /\ s[j] \in Attempting => i = j

Waiting == Range(ready) \cap Attempting # {}

AttemptInOnePlace ==
    /\ OneAttempt(ready)
    /\ Waiting => reconnTimer # "armed" /\ net = "idle" /\ ws = "none"
    /\ reconnTimer = "armed" => net = "idle" /\ ws = "none"
    /\ net # "idle" => ws = "none"

\* Nothing is left to do when the network thread has ended.
NothingLeft ==
    /\ ~threadObj => ~running
    /\ ~running => reconnTimer # "armed" /\ net = "idle" /\ ~Waiting

IInv ==
    /\ TypeOK
    /\ SessionConsistent
    /\ AttemptInOnePlace
    /\ NothingLeft
    /\ ReconnectBounded

(***************************************************************************)
(* The queue of ready handlers.                                            *)
(***************************************************************************)
LEMMA AppendReady ==
    ASSUME ready \in Seq(Handlers), NEW h \in Handlers, ready' = Append(ready, h)
    PROVE  /\ ready' \in Seq(Handlers)
           /\ Range(ready') = Range(ready) \cup {h}
           /\ OneAttempt(ready) /\ (h \notin Attempting \/ ~Waiting)
                => OneAttempt(ready')
<1> DEFINE n == Len(ready)
<1>1. /\ ready' \in Seq(Handlers)
      /\ n \in Nat /\ DOMAIN ready = 1..n
      /\ DOMAIN ready' = 1..(n + 1)
      /\ \A i \in 1..n : ready'[i] = ready[i]
      /\ ready'[n + 1] = h
  OBVIOUS
<1> HIDE DEF n
<1>2. \A i \in 1..(n + 1) : i \in 1..n \/ i = n + 1
  BY <1>1
<1>3. 1..n \subseteq 1..(n + 1) /\ n + 1 \in 1..(n + 1)
  BY <1>1
<1>4. Range(ready') = Range(ready) \cup {h}
  BY <1>1, <1>2, <1>3 DEF Range
<1>5. ASSUME OneAttempt(ready), h \notin Attempting \/ ~Waiting
      PROVE  OneAttempt(ready')
  <2>1. ~Waiting => \A i \in 1..n : ready[i] \notin Attempting
    BY <1>1 DEF Waiting, Range
  <2> QED BY <1>1, <1>2, <1>5, <2>1 DEF OneAttempt
<1> QED BY <1>1, <1>4, <1>5

LEMMA TakeReady ==
    ASSUME ready \in Seq(Handlers), ready # << >>, ready' = Tail(ready)
    PROVE  /\ ready' \in Seq(Handlers)
           /\ Head(ready) \in Range(ready)
           /\ Range(ready') \subseteq Range(ready)
           /\ OneAttempt(ready) =>
                /\ OneAttempt(ready')
                /\ Head(ready) \in Attempting => ~Waiting'
<1> DEFINE n == Len(ready)
<1>1. /\ ready' \in Seq(Handlers)
      /\ n \in Nat \ {0} /\ DOMAIN ready = 1..n
      /\ DOMAIN ready' = 1..(n - 1)
      /\ \A i \in 1..(n - 1) : ready'[i] = ready[i + 1]
      /\ Head(ready) = ready[1]
  OBVIOUS
<1> HIDE DEF n
<1>2. 1 \in 1..n /\ \A i \in 1..(n - 1) : i + 1 \in 1..n /\ i + 1 # 1
  BY <1>1
<1>3. Head(ready) \in Range(ready) /\ Range(ready') \subseteq Range(ready)
  BY <1>1, <1>2 DEF Range
<1>4. ASSUME OneAttempt(ready) PROVE OneAttempt(ready')
  <2>1. ASSUME NEW i \in 1..(n - 1), NEW j \in 1..(n - 1),
               ready'[i] \in Attempting, ready'[j] \in Attempting
        PROVE  i = j
    <3>1. i + 1 = j + 1
      BY <1>1, <1>2, <1>4, <2>1 DEF OneAttempt
    <3> QED BY <1>1, <3>1
  <2> QED BY <1>1, <2>1 DEF OneAttempt
<1>5. ASSUME OneAttempt(ready), Head(ready) \in Attempting PROVE ~Waiting'
  <2>1. \A i \in 1..(n - 1) : ready'[i] \notin Attempting
    BY <1>1, <1>2, <1>5 DEF OneAttempt
  <2> QED BY <1>1, <2>1 DEF Waiting, Range
<1> QED BY <1>1, <1>3, <1>4, <1>5

LEMMA IInvInit == ASSUME Init PROVE IInv
<1>1. Range(ready) = {} /\ DOMAIN ready = {} /\ ready \in Seq(Handlers)
  BY DEF Init, Range
<1>2. OneAttempt(ready) /\ ~Waiting
  BY <1>1 DEF OneAttempt, Waiting
<1>3. TypeOK
  BY <1>1 DEF Init, TypeOK, ConStates, TimerStates, Codes
<1> QED
  BY <1>1, <1>2, <1>3, AttemptsAssumption
  DEF Init, IInv, SessionConsistent, AttemptInOnePlace, NothingLeft,
      ReconnectBounded

(***************************************************************************)
(* The invariant is inductive, by group of actions.                        *)
(***************************************************************************)
LEMMA IInvStep == ASSUME IInv, [Next]_vars PROVE IInv'
<1> USE AttemptsAssumption
    DEF IInv, TypeOK, SessionConsistent, AttemptInOnePlace, NothingLeft,
        ReconnectBounded, Waiting, Attempting, Handlers, ConStates, TimerStates,
        Codes, sessionVars, timerVars, threadVars, userVars
<1>1. CASE InCall
  <2>1. CASE ConnectIgnored
    BY <2>1 DEF ConnectIgnored
  <2>2. CASE ConnectWaits
    BY <2>2 DEF ConnectWaits
  <2>3. CASE ConnectStarts
    <3>1. TypeOK'
      BY <2>3, AppendReady DEF ConnectStarts
    <3>2. SessionConsistent'
      BY <2>3, AppendReady DEF ConnectStarts
    <3>3. AttemptInOnePlace'
      BY <2>3, AppendReady DEF ConnectStarts
    <3>4. NothingLeft'
      BY <2>3, AppendReady DEF ConnectStarts
    <3>5. ReconnectBounded'
      BY <2>3, AppendReady DEF ConnectStarts
    <3> QED BY ONLY <3>1, <3>2, <3>3, <3>4, <3>5 DEF IInv
  <2>4. CASE CloseDispatch
    BY <2>4, AppendReady DEF CloseDispatch
  <2>5. CASE SyncCloseJoined
    BY <2>5 DEF SyncCloseJoined
  <2> QED BY ONLY <1>1, <2>1, <2>2, <2>3, <2>4, <2>5 DEF InCall
<1>2. CASE UserCall
  <2>1. CASE ConnectCall
    BY <2>1 DEF ConnectCall
  <2>2. CASE CloseCall
    BY <2>2 DEF CloseCall
  <2> QED BY ONLY <1>2, <2>1, <2>2 DEF UserCall
<1>3. CASE ReadyStep
  <2>1. CASE RunConnect
    BY <2>1, TakeReady DEF RunConnect, Take, ConnectImpl
  <2>2. CASE RunClose
    BY <2>2, TakeReady DEF RunClose, Take, CloseImpl
  <2>3. CASE TimeoutPong
    BY <2>3, TakeReady DEF TimeoutPong, Take, CloseImpl
  <2>4. CASE TimeoutReconnect
    BY <2>4, TakeReady DEF TimeoutReconnect, Take
  <2>5. CASE Reconnect
    BY <2>5 DEF Reconnect, ConnectImpl
  <2>6. CASE AfterFail
    BY <2>6 DEF AfterFail, ScheduleRetry
  <2>7. CASE AfterClose
    BY <2>7 DEF AfterClose, ScheduleRetry
  <2>8. CASE RunLoopEnds
    <3>1. Range(ready) = {}
      BY ONLY <2>8 DEF RunLoopEnds, Range
    <3>2. UNCHANGED <<conState, mcon, made, timerVars, ready, threadObj, net,
                      app, sessionVars, userVars, stalePong>>
      BY ONLY <2>8 DEF RunLoopEnds
    <3>3. running' = FALSE /\ reconnTimer # "armed" /\ net = "idle" /\ ws = "none"
      BY ONLY <2>8 DEF RunLoopEnds
    <3>4. TypeOK'
      <4>1. ready' \in Seq(Handlers)
        BY ONLY IInv, <3>2 DEF IInv, TypeOK
      <4>2. conState' \in ConStates /\ reconnTimer' \in TimerStates /\ pongTimer' \in TimerStates
        BY ONLY IInv, <3>2 DEF IInv, TypeOK, timerVars
      <4> QED BY <3>2, <3>3, <4>1, <4>2
    <3>5. SessionConsistent'
      BY <3>2, <3>3
    <3>6. AttemptInOnePlace' /\ NothingLeft' /\ ReconnectBounded'
      BY <3>1, <3>2, <3>3
    <3> QED BY ONLY <3>4, <3>5, <3>6 DEF IInv
  <2> QED BY ONLY <1>3, <2>1, <2>2, <2>3, <2>4, <2>5, <2>6, <2>7, <2>8 DEF ReadyStep
<1>4. CASE HandshakeEnds
  <2>1. CASE OnOpen
    BY <2>1 DEF OnOpen
  <2>2. CASE OnFail
    <3>1. TypeOK'
      BY <2>2 DEF OnFail, SessionOver
    <3>2. SessionConsistent'
      BY <2>2 DEF OnFail, SessionOver
    <3>3. AttemptInOnePlace'
      BY <2>2 DEF OnFail, SessionOver
    <3>4. NothingLeft'
      BY <2>2 DEF OnFail, SessionOver
    <3>5. ReconnectBounded'
      BY <2>2 DEF OnFail, SessionOver
    <3> QED BY ONLY <3>1, <3>2, <3>3, <3>4, <3>5 DEF IInv
  <2>3. CASE OnCloseAnswered
    <3>1. TypeOK'
      BY <2>3 DEF OnCloseAnswered, SessionOver, ClearTimers
    <3>2. SessionConsistent'
      BY <2>3 DEF OnCloseAnswered, SessionOver, ClearTimers
    <3>3. AttemptInOnePlace'
      BY <2>3 DEF OnCloseAnswered, SessionOver, ClearTimers
    <3>4. NothingLeft'
      BY <2>3 DEF OnCloseAnswered, SessionOver, ClearTimers
    <3>5. ReconnectBounded'
      BY <2>3 DEF OnCloseAnswered, SessionOver, ClearTimers
    <3> QED BY ONLY <3>1, <3>2, <3>3, <3>4, <3>5 DEF IInv
  <2>4. CASE ws = "closing" /\ OnCloseDropped
    BY <2>4 DEF OnCloseDropped, SessionOver, ClearTimers
  <2> QED BY ONLY <1>4, <2>1, <2>2, <2>3, <2>4 DEF HandshakeEnds
<1>5. CASE Peer
  <2>1. CASE OnCloseDropped
    BY <2>1 DEF OnCloseDropped, SessionOver, ClearTimers
  <2>2. CASE PeerCloses
    BY <2>2 DEF PeerCloses, Receive
  <2>3. CASE RecvHandshake
    BY <2>3 DEF RecvHandshake, Receive, Rearmed
  <2>4. CASE RecvBadHandshake
    BY <2>4 DEF RecvBadHandshake, Receive, Rearmed, CloseImpl
  <2>5. CASE RecvPong
    BY <2>5 DEF RecvPong, Receive
  <2>6. CASE RecvMessage
    BY <2>6 DEF RecvMessage, Receive, Rearmed
  <2>7. CASE RecvEngineClose
    BY <2>7 DEF RecvEngineClose, Receive, Rearmed, CloseImpl
  <2> QED BY ONLY <1>5, <2>1, <2>2, <2>3, <2>4, <2>5, <2>6, <2>7 DEF Peer
<1>6. CASE ReconnectExpires
  BY <1>6, AppendReady DEF ReconnectExpires
<1>7. CASE PongExpires
  BY <1>7, AppendReady DEF PongExpires
<1>8. CASE Ping
  BY <1>8 DEF Ping
<1>9. CASE UNCHANGED vars
  BY <1>9 DEF vars
<1> QED BY ONLY [Next]_vars, <1>1, <1>2, <1>3, <1>4, <1>5, <1>6, <1>7, <1>8, <1>9 DEF Next

LEMMA IInvInvariant == Spec => []IInv
<1>1. Init => IInv
  BY IInvInit
<1>2. IInv /\ [Next]_vars => IInv'
  BY IInvStep
<1> QED BY <1>1, <1>2, PTL DEF Spec

(***************************************************************************)
(* The theorems.                                                           *)
(***************************************************************************)

\* Every variable of the connection keeps its type.
THEOREM TypeCorrect == Spec => []TypeOK
<1>1. IInv => TypeOK
  BY DEF IInv
<1> QED BY <1>1, IInvInvariant, PTL

\* on_open, on_close, on_fail and clear_timers keep what the client remembers
\* of its session in step with the websocket, whatever the user calls meanwhile.
THEOREM SessionAgrees == Spec => []SessionConsistent
<1>1. IInv => SessionConsistent
  BY DEF IInv
<1> QED BY <1>1, IInvInvariant, PTL

\* Neither connect() nor the reconnect timer makes a second connection while
\* one is alive: an attempt is only ever in one place.
THEOREM OneSession == Spec => []NoSecondSession
<1>1. ASSUME IInv PROVE NoSecondSession
  <2>1. "connect_impl" \in Range(ready) => Waiting
    BY DEF Waiting, Attempting
  <2> QED BY <1>1, <2>1 DEF IInv, AttemptInOnePlace, NoSecondSession
<1> QED BY <1>1, IInvInvariant, PTL

\* on_fail and on_close schedule a retry, and timeout_reconnect makes it, at
\* most Attempts times in a row.
THEOREM RetriesAreBounded == Spec => []ReconnectBounded
<1>1. IInv => ReconnectBounded
  BY DEF IInv
<1> QED BY <1>1, IInvInvariant, PTL

(***************************************************************************)
(* The client uses its websocket as Websocket says.                        *)
(***************************************************************************)
\* The code is the reserved one until a close has been sent or received.
CodeAgrees == ws \in {"connecting", "open"} => code = "abnormal_close"

SessionStays == UNCHANGED <<ws, code>>

\* What a step may do to the websocket and its code.
LEMMA SessionStep ==
    ASSUME IInv, CodeAgrees, [Next]_vars
    PROVE  CodeAgrees' /\ [W!Next]_(W!vars)
<1> USE DEF CodeAgrees, W!vars, sessionVars, Codes
<1>a. /\ net = "reconnect" \/ "connect_impl" \in Range(ready) => ws = "none"
      /\ code \in Codes
  BY DEF IInv, TypeOK, AttemptInOnePlace, Waiting, Attempting
<1>b. ASSUME ready # << >> PROVE Head(ready) \in Range(ready)
  <2>1. ready \in Seq(Handlers)
    BY DEF IInv, TypeOK
  <2> QED
    BY <1>b, <2>1 DEF Range
<1>1. CASE RunConnect \/ Reconnect
  <2>1. ws = "none" /\ ConnectImpl
    BY <1>1, <1>a, <1>b DEF RunConnect, Reconnect, Take
  <2> QED
    BY <2>1 DEF ConnectImpl, W!Next, W!Connect
<1>2. CASE RunClose \/ TimeoutPong \/ RecvBadHandshake \/ RecvEngineClose
  <2>1. CloseImpl("normal") \/ CloseImpl("policy_violation") \/ CloseImpl("abnormal_close")
    BY <1>2 DEF RunClose, TimeoutPong, RecvBadHandshake, RecvEngineClose
  <2> QED
    BY <2>1 DEF CloseImpl, W!Next, W!Close
<1>3. CASE OnOpen
  BY <1>3 DEF OnOpen, W!Next, W!Open
<1>4. CASE OnFail
  BY <1>4 DEF OnFail, SessionOver, W!Next, W!Fail
<1>5. CASE OnCloseDropped \/ OnCloseAnswered
  BY <1>5 DEF OnCloseDropped, OnCloseAnswered, SessionOver, W!Next, W!Closed
<1>6. CASE PeerCloses
  BY <1>6 DEF PeerCloses, Receive, W!Next, W!Close
<1>7. CASE UserCall \/ InCall
  <2>1. SessionStays
    BY <1>7 DEF UserCall, InCall, ConnectCall, CloseCall, ConnectIgnored, ConnectWaits,
       ConnectStarts, CloseDispatch, SyncCloseJoined, SessionStays
  <2> QED
    BY <2>1 DEF SessionStays
<1>8. CASE TimeoutReconnect \/ AfterFail \/ AfterClose \/ RunLoopEnds
  <2>1. SessionStays
    BY <1>8 DEF TimeoutReconnect, AfterFail, AfterClose, RunLoopEnds, SessionStays
  <2> QED
    BY <2>1 DEF SessionStays
<1>9. CASE RecvHandshake \/ RecvPong \/ RecvMessage
  <2>1. SessionStays
    BY <1>9 DEF RecvHandshake, RecvPong, RecvMessage, SessionStays
  <2> QED
    BY <2>1 DEF SessionStays
<1>10. CASE ReconnectExpires \/ PongExpires \/ Ping \/ UNCHANGED vars
  <2>1. SessionStays
    BY <1>10 DEF ReconnectExpires, PongExpires, Ping, vars, SessionStays
  <2> QED
    BY <2>1 DEF SessionStays
<1> QED
  BY <1>1, <1>2, <1>3, <1>4, <1>5, <1>6, <1>7, <1>8, <1>9, <1>10
     DEF Next, ReadyStep, HandshakeEnds, Peer

\* The client connects only when its last connection has gone, and touches the
\* session only by close: what it relies on, WsConnection promises.  (Safety
\* only; that the handshakes end is checked by TLC.)
THEOREM UsesWebsocket == Spec => W!Init /\ [][W!Next]_(W!vars)
<1>1. Init => W!Init /\ CodeAgrees
  BY DEF Init, W!Init, CodeAgrees
<1>2. IInv /\ CodeAgrees /\ [Next]_vars => CodeAgrees' /\ [W!Next]_(W!vars)
  BY SessionStep
<1> QED BY <1>1, <1>2, IInvInvariant, PTL DEF Spec
===============================================================================
