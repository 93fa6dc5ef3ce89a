------------------------------- MODULE SioFraming -------------------------------
(***************************************************************************)
(* Packets between the client and the server: the threads of the           *)
(* application emit events, some of which ask for an ack; encode hands the *)
(* frames of a packet to the io_service one by one; the network thread     *)
(* writes them; and what the server answers is decoded by put_payload and  *)
(* given to the callback that waits in m_acks.                             *)
(*                                                                         *)
(* An application thread's frames are posted (on_encode, from a thread     *)
(* that does not run the io_service), and may be mixed with those of       *)
(* others, and written on a later connection than the first ones; a        *)
(* listener's are written at once.  Any thread may send attachments, and   *)
(* ask for an ack under an id it takes from s_global_event_id, a counter   *)
(* that no lock protects.  The queue of a socket that is not connected is  *)
(* in SioSocket.                                                           *)
(*                                                                         *)
(* External: the connection, which keeps the order of frames and may break *)
(* between any two of them, and the server, which decodes as the client    *)
(* does, acknowledges events that ask for it in any order, sends events of *)
(* its own, and engine.io pongs in between.                                *)
(***************************************************************************)
EXTENDS SioPacket, Functions

CONSTANTS
    Threads,                  \* threads of the application
    Net,                      \* the network thread, whose listeners emit too
    Kinds,                    \* bound: the kinds of messages emitted, by either side
    MaxPackets,               \* bound: events emitted, and packets the server sends
                              \* on one connection, together
    MaxLinks                  \* bound: connections opened; the last does not break

ASSUME BoundsAssumption ==
    /\ Net \notin Threads
    /\ Kinds \subseteq Shapes
    /\ {MaxPackets, MaxLinks} \subseteq Nat

VARIABLES
    open,                     \* there is a connection
    links,                    \* connections opened so far
    emitted,                  \* the packets emitted, and by whom
    at,                       \* what each thread still has to do of its emit
    nextId,                   \* s_global_event_id
    raced,                    \* a thread has read it between another's read and write
    acks,                     \* m_acks: the event of each id that has a callback
    called,                   \* the callbacks called, each with what it was given
    posted,                   \* frames posted to the io_service
    server,                   \* the server's end
    asked,                    \* packets it has still to acknowledge
    sent,                     \* packets it has sent on this connection
    down,                     \* frames not yet given to put_payload
    client                    \* the client's end: m_partial_packet, and what was
                              \* given to on_decode on this connection

idVars     == <<nextId, raced>>
emitVars   == <<emitted, at, idVars, posted>>
ackVars    == <<acks, called>>
serverVars == <<server, asked, sent>>
vars == <<open, links, emitVars, ackVars, serverVars, down, client>>

\* The packet an end has decoded with its last frame, if any.
New(before, after) ==
    IF after.decoded = before.decoded THEN {} ELSE {Last(after.decoded)}

Idle == [id |-> NoId, frames |-> << >>]

\* The network thread is in the emit of a listener, between the read and the write.
InListener == at[Net].id # NoId

Init ==
    /\ open = FALSE
    /\ links = 0
    /\ emitted = << >>
    /\ at = [t \in Threads \cup {Net} |-> Idle]
    /\ nextId = 1
    /\ raced = FALSE
    /\ acks = << >>
    /\ called = << >>
    /\ posted = << >>
    /\ server = NewEnd /\ asked = {} /\ sent = << >>
    /\ down = << >>
    /\ client = NewEnd

(***************************************************************************)
(* The connection.                                                         *)
(***************************************************************************)
\* Mutant: a partial packet survives into the next connection.
Reset_PartialKept == client' = [client EXCEPT !.decoded = << >>]

\* connect() and timeout_reconnect: reset_states, and with it the packet manager.
Reset == client' = NewEnd

Connect ==
    /\ ~open /\ ~InListener
    /\ links < MaxLinks
    /\ open' = TRUE
    /\ links' = links + 1
    /\ Reset
    /\ down' = << >>
    /\ server' = NewEnd /\ asked' = {} /\ sent' = << >>
    /\ UNCHANGED <<emitVars, ackVars>>

\* The connection breaks: what has not arrived is lost.
Disconnect ==
    /\ open /\ ~InListener
    /\ links < MaxLinks
    /\ open' = FALSE
    /\ UNCHANGED <<links, emitVars, ackVars, serverVars, down, client>>

(***************************************************************************)
(* emit                                                                    *)
(***************************************************************************)
\* The events thread t may emit next.
Event(id) ==
    {[id |-> id, about |-> Len(emitted) + 1, msg |-> Message(Len(emitted) + 1, shape)] :
        shape \in Kinds}

\* An event that has a callback: s_global_event_id++ is a read and a write, and no
\* lock is held.  A listener that is between the two keeps the network thread.
ReadEventId(t) ==
    /\ open
    /\ at[t] = Idle
    /\ Len(emitted) + Len(sent) < MaxPackets
    /\ at' = [at EXCEPT ![t].id = nextId]
    /\ raced' = (raced \/ \E other \in DOMAIN at : at[other].id # NoId)
    /\ UNCHANGED <<open, links, emitted, nextId, posted, ackVars, serverVars, down, client>>

\* Mutant: the callback is registered for the next event.
Register_Late(id, about) == acks' = acks @@ id + 1 :> about

\* m_acks[pack_id] = ack, under m_event_mutex.
Register(id, about) ==
    acks' = [i \in DOMAIN acks \cup {id} |-> IF i = id THEN about ELSE acks[i]]

\* Mutant: the counter is not raised.
TakeId_NotRaised(id) ==
    \/ id = NoId /\ UNCHANGED <<nextId, acks>>
    \/ id # NoId /\ Register(id, Len(emitted) + 1) /\ UNCHANGED nextId

\* The write of s_global_event_id, and the callback; or no callback.
TakeId(id) ==
    \/ id = NoId /\ UNCHANGED <<nextId, acks>>
    \/ id # NoId /\ Register(id, Len(emitted) + 1) /\ nextId' = id + 1

\* The callback is registered before a frame is handed over.
Emit(t) ==
    /\ open
    /\ at[t].frames = << >>
    /\ Len(emitted) + Len(sent) < MaxPackets
    /\ TakeId(at[t].id)
    /\ \E packet \in Event(at[t].id) :
          /\ emitted' = Append(emitted, [by |-> t, packet |-> packet])
          /\ at' = [at EXCEPT ![t] = [id |-> NoId, frames |-> Encode(packet)]]
    /\ UNCHANGED <<open, links, raced, posted, called, serverVars, down, client>>

\* Mutant: the last frame posted is the first to be written.
OnEncode_Front(t) ==
    /\ at[t].frames # << >>
    /\ posted' = <<Head(at[t].frames)>> \o posted
    /\ at' = [at EXCEPT ![t].frames = Tail(@)]
    /\ UNCHANGED <<open, links, emitted, idVars, ackVars, serverVars,
                   down, client>>

\* on_encode: dispatch, from a thread that is not the io_service's, is a post.
OnEncode(t) ==
    /\ at[t].frames # << >>
    /\ posted' = Append(posted, Head(at[t].frames))
    /\ at' = [at EXCEPT ![t].frames = Tail(@)]
    /\ UNCHANGED <<open, links, emitted, idVars, ackVars, serverVars,
                   down, client>>

\* Frames reach the server in the order they are written.
Write(frames) ==
    /\ server' = PutAll(server, frames)
    /\ asked' = asked \cup {packet \in New(server, server') : packet.id # NoId}

\* send_impl: dropped without a connection.
SendImpl ==
    /\ ~InListener
    /\ posted # << >>
    /\ posted' = Tail(posted)
    /\ \/ open /\ Write(<<Head(posted)>>)
       \/ ~open /\ UNCHANGED <<server, asked>>
    /\ UNCHANGED <<open, links, emitted, at, idVars, ackVars, sent, down,
                   client>>

\* emit in a listener: its frames are written at once.
ListenerEmits ==
    /\ open
    /\ Len(emitted) + Len(sent) < MaxPackets
    /\ TakeId(at[Net].id)
    /\ \E packet \in Event(at[Net].id) :
          /\ emitted' = Append(emitted, [by |-> Net, packet |-> packet])
          /\ Write(Encode(packet))
    /\ at' = [at EXCEPT ![Net] = Idle]
    /\ UNCHANGED <<open, links, raced, posted, called, sent, down, client>>

(***************************************************************************)
(* The server.                                                             *)
(***************************************************************************)
Send(packet) ==
    /\ open
    /\ Len(emitted) + Len(sent) < MaxPackets
    /\ sent' = Append(sent, packet)
    /\ down' = down \o Encode(packet)
    /\ UNCHANGED <<open, links, emitVars, ackVars, server, client>>

ServerAcks ==
    \E packet \in asked, shape \in Kinds :
        /\ Send([id |-> packet.id, about |-> packet.about,
                 msg |-> Message(Len(sent) + 1, shape)])
        /\ asked' = asked \ {packet}

ServerEmits ==
    /\ \E shape \in Kinds :
          Send([id |-> NoId, about |-> 0, msg |-> Message(Len(sent) + 1, shape)])
    /\ UNCHANGED asked

(***************************************************************************)
(* put_payload, and with a packet that is whole on_decode; on_socketio_ack *)
(* takes the callback out of m_acks before it calls it.                    *)
(***************************************************************************)
OnAck(id, about) ==
    /\ called' = Append(called, [event |-> acks[id], answer |-> about])
    /\ acks' = Restrict(acks, DOMAIN acks \ {id})

Receive ==
    /\ open /\ ~InListener
    /\ down # << >>
    /\ down' = Tail(down)
    /\ client' = PutPayload(client, Head(down))
    /\ LET answers == {packet \in New(client, client') : packet.id \in DOMAIN acks}
       IN  \/ answers = {} /\ UNCHANGED ackVars
           \/ \E packet \in answers : OnAck(packet.id, packet.about)
    /\ UNCHANGED <<open, links, emitVars, serverVars>>

\* An engine.io pong comes between two other frames.
ReceivePong ==
    /\ open /\ ~InListener
    /\ client' = PutPayload(client, Pong)
    /\ UNCHANGED <<open, links, emitVars, ackVars, serverVars, down>>

Next ==
    \/ Connect
    \/ Disconnect
    \/ \E t \in Threads \cup {Net} : ReadEventId(t)
    \/ \E t \in Threads : Emit(t) \/ OnEncode(t)
    \/ SendImpl
    \/ ListenerEmits
    \/ ServerAcks
    \/ ServerEmits
    \/ ReceivePong
    \/ Receive

Spec == Init /\ [][Next]_vars
-------------------------------------------------------------------------------
Messages == Seq(Null .. MaxPackets * MaxLeaves)

TypeOK ==
    /\ open \in BOOLEAN
    /\ links \in 0 .. MaxLinks
    /\ Len(emitted) <= MaxPackets
    /\ nextId \in 1 .. MaxPackets + 1
    /\ raced \in BOOLEAN
    /\ DOMAIN acks \subseteq 1 .. MaxPackets
    /\ Range(acks) \subseteq DOMAIN emitted
    /\ asked \subseteq Range(server.decoded)
    /\ Len(sent) <= MaxPackets
    /\ \A end \in {client, server} :
          /\ end.partial.frame.pending \in 0 .. MaxLeaves
          /\ \A i \in DOMAIN end.decoded : end.decoded[i].msg \in Messages

(* What the client decodes is what the server sent on this connection, message  *)
(* by message and blob by blob in its place, wherever an earlier connection     *)
(* broke.                                                                       *)
DecodedWhole == IsPrefix(client.decoded, sent)

(* put_payload never leaves a packet half decoded when its frames have come.    *)
NothingKeptBack ==
    down = << >> => client.decoded = sent /\ client.partial = NoPacket

\* The packet has an attachment of another thread than its own.
MixedUp(packet) ==
    \E leaf \in Range(packet.msg), n \in DOMAIN emitted :
        /\ IsBlob(leaf) /\ leaf \in Range(emitted[n].packet.msg)
        /\ emitted[n].by # emitted[packet.about].by

(* The frames of a packet with attachments are posted one by one, and those of  *)
(* other threads and new connections come in between.  The server gets events   *)
(* that were emitted, with their ids, once, and those of one thread in order;   *)
(* and one whose attachments are not its own, all and in order, has one of      *)
(* another thread: a thread never mixes up two of its own events.               *)
ServedWhole ==
    \A i \in DOMAIN server.decoded :
        LET packet == server.decoded[i]
            n == packet.about
        IN  /\ packet.id = emitted[n].packet.id
            /\ packet = emitted[n].packet \/ MixedUp(packet)
            /\ \A j \in i + 1 .. Len(server.decoded) :
                  LET m == server.decoded[j].about
                  IN  m # n /\ (emitted[m].by = emitted[n].by => n < m)

IdOf(n) == emitted[n].packet.id

(* A callback is called once, and with an answer to its own event, also when    *)
(* earlier events have lost theirs with a connection; only when two threads     *)
(* have raced for an id, it may be the answer to an event that got the same.    *)
AnswerToAsker ==
    /\ \A i \in DOMAIN called :
          LET own == called[i].event
              other == called[i].answer
          IN  own = other \/ (raced /\ IdOf(own) = IdOf(other))
    /\ \A i, j \in DOMAIN called : called[i].event = called[j].event => i = j

(* emit registers the callback before its first frame is handed over: no answer *)
(* comes too early to find it, or, after a race for ids, one of the same id.    *)
AnsweredIsCalled ==
    \A packet \in Range(client.decoded) :
        packet.id # NoId =>
            \E i \in DOMAIN called :
                \/ called[i].event = packet.about
                \/ raced /\ IdOf(called[i].event) = packet.id
===============================================================================
