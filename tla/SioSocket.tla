------------------------------- MODULE SioSocket -------------------------------
(***************************************************************************)
(* sio::socket::impl (sio_socket.cpp) for the default namespace "/": the   *)
(* packets the application emits, the queue that holds them until the      *)
(* server has answered "connect", and the two ways the queue is drained --  *)
(* by an application thread in send_packet and by the network thread in    *)
(* on_connected.  The threads interleave wherever the code holds no lock.  *)
(*                                                                         *)
(* From client_impl the module keeps what the socket sees: whether the     *)
(* connection is open (send_impl drops a packet otherwise) and that a      *)
(* dispatch from an application thread is posted to the io_service while   *)
(* one from the network thread runs on the spot.                           *)
(***************************************************************************)
EXTENDS Integers, Sequences, Functions

CONSTANTS
    AppThreads,               \* application threads that use the socket
    Net,                      \* the network thread (client_impl::run_loop)
    MaxEmits,                 \* bound: packets each application thread makes
    MaxAcks,                  \* bound: acks the network thread replies with
    MaxLinks                  \* bound: connections opened

ASSUME ThreadsAssumption == Net \notin AppThreads
ASSUME BoundsAssumption == {MaxEmits, MaxAcks, MaxLinks} \subseteq Nat

Threads == AppThreads \cup {Net}

Kinds == {"event", "ack", "disconnect"}

Packet == [by: Threads, seq: Nat \ {0}, kind: Kinds]

NoPacket == [by |-> Net, seq |-> 0, kind |-> "none"]

VARIABLES
    attached,                 \* m_client # NULL
    connected,                \* m_connected
    registered,               \* client_impl::m_sockets still holds the socket
    queue,                    \* m_packet_queue
    timer,                    \* m_connection_timer: "none", "armed", "expired"
    closeReady,               \* on_close handlers the timer has made ready
    con,                      \* client_impl::m_con_state
    links,                    \* connections opened so far
    posted,                   \* send_impl handlers waiting in the io_service
    wire,                     \* packets given to the websocket, in order
    pc,                       \* where each thread is
    own,                      \* the packet a thread's send_packet was given
    front,                    \* the packet a thread has popped from the queue
    made,                     \* packets each thread has made
    crashed                   \* a thread has used m_client = NULL

linkVars  == <<con, links>>
timerVars == <<timer, closeReady>>
vars == <<attached, connected, registered, queue, timer, closeReady, con,
          links, posted, wire, pc, own, front, made, crashed>>

Locations == {"idle", "guard", "branch", "drain", "front", "own", "push",
              "arm", "onclose", "clear"}

Init ==
    /\ attached = TRUE
    /\ connected = FALSE
    /\ registered = TRUE
    /\ queue = << >>
    /\ timer = "none"
    /\ closeReady = 0
    /\ con = "closed"
    /\ links = 0
    /\ posted = << >>
    /\ wire = << >>
    /\ pc = [t \in Threads |-> "idle"]
    /\ own = [t \in Threads |-> NoPacket]
    /\ front = [t \in Threads |-> NoPacket]
    /\ made = [t \in Threads |-> 0]
    /\ crashed = FALSE

Goto(t, l) == pc' = [pc EXCEPT ![t] = l]

(***************************************************************************)
(* Entering send_packet with a new packet, and leaving it.                 *)
(***************************************************************************)
Begin(t, kind) ==
    /\ pc[t] = "idle"
    /\ attached
    /\ made' = [made EXCEPT ![t] = @ + 1]
    /\ own' = [own EXCEPT ![t] = [by |-> t, seq |-> made[t] + 1, kind |-> kind]]
    /\ Goto(t, "guard")
    /\ UNCHANGED <<attached, connected, registered, queue, timerVars, linkVars,
                   posted, wire, front, crashed>>

Return(t) ==
    /\ own' = [own EXCEPT ![t] = NoPacket]
    /\ Goto(t, IF own[t].kind = "disconnect" THEN "arm" ELSE "idle")

Emit(t) == made[t] < MaxEmits /\ Begin(t, "event")

\* socket::impl::close sends a disconnect packet, but only when connected.
Close(t) == connected /\ made[t] < MaxEmits /\ Begin(t, "disconnect")

\* An event of the server that asks for an ack (on_socketio_event, ack).
ReplyAck == con # "closed" /\ made[Net] < MaxAcks /\ Begin(Net, "ack")

(***************************************************************************)
(* client_impl::send down to send_impl: posted by an application thread,   *)
(* run at once on the network thread.  With m_client = NULL the call is a  *)
(* use of a null pointer: the process dies.                                *)
(***************************************************************************)
Transmit(p) == wire' = IF con = "opened" THEN Append(wire, p) ELSE wire

Send(t, p) ==
    \/ /\ ~attached
       /\ crashed' = TRUE
       /\ UNCHANGED <<posted, wire, own, front, pc>>
    \/ /\ attached
       /\ UNCHANGED crashed
       /\ IF t = Net THEN Transmit(p) /\ UNCHANGED posted
                     ELSE posted' = Append(posted, p) /\ UNCHANGED wire

(***************************************************************************)
(* send_packet, one action per stretch between locks.                      *)
(***************************************************************************)
SendGuard(t) ==
    /\ pc[t] = "guard"
    /\ IF attached THEN Goto(t, "branch") /\ UNCHANGED own ELSE Return(t)
    /\ UNCHANGED <<attached, connected, registered, queue, timerVars, linkVars,
                   posted, wire, front, made, crashed>>

\* Mutant: a connected socket sends without draining its queue first.
SendBranch_NoDrain(t) ==
    /\ pc[t] = "branch"
    /\ Goto(t, IF connected THEN "own" ELSE "push")
    /\ UNCHANGED <<attached, connected, registered, queue, timerVars, linkVars,
                   posted, wire, own, front, made, crashed>>

SendBranch(t) ==
    /\ pc[t] = "branch"
    /\ Goto(t, IF connected THEN "drain" ELSE "push")
    /\ UNCHANGED <<attached, connected, registered, queue, timerVars, linkVars,
                   posted, wire, own, front, made, crashed>>

\* Mutant: front and pop without the mutex; the pop may be lost.
TakeFront_Unlocked(t) ==
    /\ pc[t] = "drain"
    /\ IF queue = << >>
       THEN /\ Goto(t, IF own[t] = NoPacket THEN "idle" ELSE "own")
            /\ UNCHANGED <<queue, front>>
       ELSE /\ front' = [front EXCEPT ![t] = Head(queue)]
            /\ queue' \in {queue, Tail(queue)}
            /\ Goto(t, "front")
    /\ UNCHANGED <<attached, connected, registered, timerVars, linkVars,
                   posted, wire, own, made, crashed>>

\* Both drain loops: under the mutex, pop one packet or find the queue empty.
\* on_connected (no packet of its own) returns then, send_packet goes on.
TakeFront(t) ==
    /\ pc[t] = "drain"
    /\ IF queue = << >>
       THEN /\ Goto(t, IF own[t] = NoPacket THEN "idle" ELSE "own")
            /\ UNCHANGED <<queue, front>>
       ELSE /\ front' = [front EXCEPT ![t] = Head(queue)]
            /\ queue' = Tail(queue)
            /\ Goto(t, "front")
    /\ UNCHANGED <<attached, connected, registered, timerVars, linkVars,
                   posted, wire, own, made, crashed>>

\* Mutant: "if" in place of "while" around the pop.
SendFront_Once(t) ==
    /\ pc[t] = "front"
    /\ Send(t, front[t])
    /\ attached => /\ front' = [front EXCEPT ![t] = NoPacket]
                   /\ Goto(t, IF own[t] = NoPacket THEN "idle" ELSE "own")
                   /\ UNCHANGED own
    /\ UNCHANGED <<attached, connected, registered, queue, timerVars, linkVars,
                   made>>

SendFront(t) ==
    /\ pc[t] = "front"
    /\ Send(t, front[t])
    /\ attached => /\ front' = [front EXCEPT ![t] = NoPacket]
                   /\ Goto(t, "drain")
                   /\ UNCHANGED own
    /\ UNCHANGED <<attached, connected, registered, queue, timerVars, linkVars,
                   made>>

\* Mutant: the "else" of send_packet is missing, the packet is queued as well.
SendOwn_AndQueue(t) ==
    /\ pc[t] = "own"
    /\ Send(t, own[t])
    /\ attached => Return(t) /\ UNCHANGED front
    /\ queue' = Append(queue, own[t])
    /\ UNCHANGED <<attached, connected, registered, timerVars, linkVars, made>>

SendOwn(t) ==
    /\ pc[t] = "own"
    /\ Send(t, own[t])
    /\ attached => Return(t) /\ UNCHANGED front
    /\ UNCHANGED <<attached, connected, registered, queue, timerVars, linkVars,
                   made>>

Push(t) ==
    /\ pc[t] = "push"
    /\ queue' = Append(queue, own[t])
    /\ Return(t)
    /\ UNCHANGED <<attached, connected, registered, timerVars, linkVars,
                   posted, wire, front, made, crashed>>

(***************************************************************************)
(* The timer of close().  Its handler is on_close without the error code,  *)
(* so re-arming or cancelling it runs on_close as well as its expiry does. *)
(***************************************************************************)
ArmTimer(t) ==
    /\ pc[t] = "arm"
    /\ \/ /\ timer = "none" /\ ~attached       \* m_client->get_io_service()
          /\ crashed' = TRUE
          /\ UNCHANGED <<timerVars, pc>>
       \/ /\ timer # "none" \/ attached
          /\ closeReady' = IF timer = "armed" THEN closeReady + 1 ELSE closeReady
          /\ timer' = "armed"
          /\ Goto(t, "idle")
          /\ UNCHANGED crashed
    /\ UNCHANGED <<attached, connected, registered, queue, linkVars, posted,
                   wire, own, front, made>>

CancelTimer ==
    /\ closeReady' = IF timer = "armed" THEN closeReady + 1 ELSE closeReady
    /\ timer' = "none"

TimerExpires ==
    /\ timer = "armed"
    /\ timer' = "expired"
    /\ closeReady' = closeReady + 1
    /\ UNCHANGED <<attached, connected, registered, queue, linkVars, posted,
                   wire, pc, own, front, made, crashed>>

(***************************************************************************)
(* Handlers of the network thread; one runs to its end before the next.    *)
(***************************************************************************)
RunSend ==
    /\ pc[Net] = "idle"
    /\ posted # << >>
    /\ posted' = Tail(posted)
    /\ Transmit(Head(posted))
    /\ UNCHANGED <<attached, connected, registered, queue, timerVars, linkVars,
                   pc, own, front, made, crashed>>

\* client_impl::on_open; the socket of "/" sends no connect packet.
LinkUp ==
    /\ pc[Net] = "idle"
    /\ con = "closed"
    /\ links < MaxLinks
    /\ con' = "opened"
    /\ links' = links + 1
    /\ UNCHANGED <<attached, connected, registered, queue, timerVars, posted,
                   wire, pc, own, front, made, crashed>>

\* client_impl::close by the application, as far as send_impl notices it.
ClientClose ==
    /\ con = "opened"
    /\ con' = "closing"
    /\ UNCHANGED <<attached, connected, registered, queue, timerVars, links,
                   posted, wire, pc, own, front, made, crashed>>

\* client_impl::on_close or on_fail calls on_disconnect.
LinkDown ==
    /\ pc[Net] = "idle"
    /\ con # "closed"
    /\ con' = "closed"
    /\ IF attached /\ connected
       THEN connected' = FALSE /\ Goto(Net, "clear")
       ELSE UNCHANGED <<connected, pc>>
    /\ UNCHANGED <<attached, registered, queue, timerVars, links, posted, wire,
                   own, front, made, crashed>>

\* Mutant: on_connected leaves the queue to the next emit.
RecvConnect_NoDrain ==
    /\ pc[Net] = "idle"
    /\ con # "closed"
    /\ attached
    /\ CancelTimer
    /\ connected' = TRUE
    /\ UNCHANGED <<attached, registered, queue, linkVars, posted, wire, pc, own,
                   front, made, crashed>>

\* The server's connect packet: on_connected up to its drain loop.
RecvConnect ==
    /\ pc[Net] = "idle"
    /\ con # "closed"
    /\ attached
    /\ CancelTimer
    /\ connected' = TRUE
    /\ IF connected THEN UNCHANGED pc ELSE Goto(Net, "drain")
    /\ UNCHANGED <<attached, registered, queue, linkVars, posted, wire, own,
                   front, made, crashed>>

\* on_close, first step: m_client = NULL.
Detach ==
    /\ attached' = FALSE
    /\ Goto(Net, "onclose")
    /\ UNCHANGED <<connected, registered, queue, linkVars, posted, wire, own,
                   front, made, crashed>>

\* The server's disconnect packet.
RecvDisconnect ==
    /\ pc[Net] = "idle"
    /\ con # "closed"
    /\ attached
    /\ Detach
    /\ UNCHANGED timerVars

\* Mutant: a handler of the timer runs that was never made ready.
CloseHandler_Unready ==
    /\ pc[Net] = "idle"
    /\ closeReady' = closeReady - 1
    /\ UNCHANGED timer
    /\ attached /\ Detach

\* The handler of close()'s timer.
CloseHandler ==
    /\ pc[Net] = "idle"
    /\ closeReady > 0
    /\ closeReady' = closeReady - 1
    /\ UNCHANGED timer
    /\ \/ attached /\ Detach
       \/ /\ ~attached
          /\ UNCHANGED <<attached, connected, registered, queue, linkVars,
                         posted, wire, pc, own, front, made, crashed>>

\* on_close, second step: the timer and m_connected.
OnClose ==
    /\ pc[Net] = "onclose"
    /\ CancelTimer
    /\ connected' = FALSE
    /\ Goto(Net, "clear")
    /\ UNCHANGED <<attached, registered, queue, linkVars, posted, wire, own,
                   front, made, crashed>>

\* Mutant: on_close removes the socket without emptying its queue.
ClearQueue_KeptOnClose ==
    /\ pc[Net] = "clear"
    /\ queue' = IF attached THEN << >> ELSE queue
    /\ registered' = (registered /\ attached)
    /\ Goto(Net, "idle")
    /\ UNCHANGED <<attached, connected, timerVars, linkVars, posted, wire, own,
                   front, made, crashed>>

\* The end of on_disconnect, and of on_close, which also removes the socket.
ClearQueue ==
    /\ pc[Net] = "clear"
    /\ queue' = << >>
    /\ registered' = (registered /\ attached)
    /\ Goto(Net, "idle")
    /\ UNCHANGED <<attached, connected, timerVars, linkVars, posted, wire, own,
                   front, made, crashed>>

(***************************************************************************)
ThreadStep(t) ==
    \/ SendGuard(t)
    \/ SendBranch(t)
    \/ TakeFront(t)
    \/ SendFront(t)
    \/ SendOwn(t)
    \/ Push(t)
    \/ ArmTimer(t)

NetStep ==
    \/ RunSend
    \/ CloseHandler
    \/ OnClose
    \/ ClearQueue

UserStep(t) == Emit(t) \/ Close(t)

LinkStep ==
    \/ LinkUp
    \/ LinkDown
    \/ ClientClose
    \/ RecvConnect
    \/ RecvDisconnect
    \/ ReplyAck
    \/ TimerExpires

Next ==
    /\ ~crashed
    /\ \/ \E t \in Threads : ThreadStep(t)
       \/ \E t \in AppThreads : UserStep(t)
       \/ NetStep
       \/ LinkStep

\* The threads run and the io_service runs what is ready; the server, the
\* timers and the application owe nothing.
Fairness ==
    /\ \A t \in Threads : WF_vars(~crashed /\ ThreadStep(t))
    /\ WF_vars(~crashed /\ NetStep)

Spec == Init /\ [][Next]_vars /\ Fairness
-------------------------------------------------------------------------------
TypeOK ==
    /\ attached \in BOOLEAN
    /\ connected \in BOOLEAN
    /\ registered \in BOOLEAN
    /\ queue \in Seq(Packet)
    /\ timer \in {"none", "armed", "expired"}
    /\ closeReady \in Nat
    /\ con \in {"closed", "opened", "closing"}
    /\ links \in 0..MaxLinks
    /\ posted \in Seq(Packet)
    /\ wire \in Seq(Packet)
    /\ pc \in [Threads -> Locations]
    /\ own \in [Threads -> Packet \cup {NoPacket}]
    /\ front \in [Threads -> Packet \cup {NoPacket}]
    /\ made \in [Threads -> Nat]
    /\ crashed \in BOOLEAN

InQueue  == Range(queue)
InPosted == Range(posted)
OnWire   == Range(wire)

\* No packet is ever in two places: two positions of the queue, of the posted
\* handlers or of the wire, or in the hands of two threads.  This is what the
\* mutex around "front, pop" gives when both threads drain the queue at once
\* (sio_socket.cpp:312-323 and 496-508).
NoDuplicate ==
    /\ IsInjective(queue) /\ IsInjective(posted) /\ IsInjective(wire)
    /\ InQueue \cap InPosted = {}
    /\ InQueue \cap OnWire = {}
    /\ InPosted \cap OnWire = {}
    /\ \A t \in Threads :
          {own[t], front[t]} \cap (InQueue \cup InPosted \cup OnWire) = {}
    /\ \A t, u \in Threads :
          /\ front[t] = front[u] => t = u \/ front[t] = NoPacket
          /\ own[t] = front[u] => own[t] = NoPacket

\* A packet never overtakes, into the io_service or onto the wire, an earlier
\* one of the same thread that is still queued.  The only inversion the code
\* allows is with a packet another thread has popped and not yet sent.
NoOvertakeInQueue ==
    \A a \in InQueue :
        \A b \in InPosted \cup OnWire \cup {front[t] : t \in Threads} :
            a.by = b.by => b.seq < a.seq

OnePerThread(s) == \A i, j \in DOMAIN s : s[i].by = s[j].by => i = j

\* send_packet tests m_connected before it takes the queue's mutex, so a packet
\* can be pushed after on_connected has drained the queue, and stay there.  But
\* while the socket is connected and the network thread is not draining, each
\* thread has at most one packet stranded: its next emit drains it.
BoundedStranding ==
    connected /\ pc[Net] = "idle" => OnePerThread(queue)

\* A socket that is no longer registered in the client was detached first and
\* has no packet left from before: what its queue can still receive is what a
\* thread was already past the guards with, at most one packet each.
LeftAfterClose ==
    ~registered => ~attached /\ ~connected /\ OnePerThread(queue)

\* The socket implements the at-most-once channel, on the identities of the
\* packets: those made are submitted, and pending until sent or dropped.
Id(p) == <<p.by, p.seq>>

Held == {own[t] : t \in Threads} \cup {front[t] : t \in Threads}

Channel == INSTANCE PacketChannel WITH
    Ids       <- Threads \X (1..(MaxEmits + MaxAcks)),
    submitted <- UNION {{t} \X (1..made[t]) : t \in Threads},
    pending   <- {Id(p) : p \in (InQueue \cup InPosted \cup Held) \ {NoPacket}},
    delivered <- [i \in DOMAIN wire |-> Id(wire[i])]

ImplementsChannel == Channel!ChanSpec

\* A thread that drains the queue of a connected socket before its own packet
\* leaves nothing behind that was queued when it started, whoever else drains.
DrainFlushes ==
    \A t \in AppThreads : \A n \in 1..MaxEmits :
        (pc[t] = "drain" /\ Id(own[t]) = <<t, n>>)
            ~> (crashed \/ \A a \in InQueue : a.by = t => a.seq > n)

\* NULL_GUARD (sio_socket.cpp:15-16, 250, 493) is there so that a socket whose
\* client is gone ignores a call: no thread uses m_client once it is NULL.
ClientPresentWhenUsed == ~crashed
===============================================================================
