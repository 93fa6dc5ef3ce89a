# Taquin client: TLA+ verification

The repository holds two clients of a game server for the sliding puzzle
("taquin"): a C++ demo on top of a Socket.IO client library kept with it
(`src/taquin-client-cpp/libs/src`, over a vendored websocketpp), and a Java client
that solves every puzzle itself (`src/taquin-client-java`). The server is not in
the repository. This directory models the parts of both clients that keep state,
checks them with TLC and proves the main invariants and refinements with TLAPS.

Run everything from this directory: `tlc -config X.cfg M` for a run of
`PROJECT.json`, `tlapm M.tla` for a proof module.

## 1. Inventory

| Part | Source | State | Operations | Modelled in |
|---|---|---|---|---|
| socket (one namespace) | `libs/src/sio_socket.cpp` | `m_client`, `m_connected`, `m_packet_queue`, `m_connection_timer`, acks, bindings | `emit`, `close`, `on_connected`, `on_disconnect`, `on_close`, `on_message_packet`, `send_packet` | `SioSocket` (packets), `SioNamespaces` (requests and timeouts), `SioFraming` (acks); no bindings |
| client_impl | `libs/src/internal/sio_client_impl.cpp` | `m_con_state`, `m_con`, three timers, `m_reconn_made`, `m_network_thread`, `m_sockets` | `connect`, `close`, `sync_close`, `run_loop`, `on_open/fail/close/message/handshake/pong/decode`, `ping`, the timeouts | `SioConnection`, `SioNamespaces` (`m_sockets`), `SioFraming` (`on_encode`, `send_impl`, `reset_states` for frames) |
| packet, packet_manager | `libs/src/internal/sio_packet.cpp` | the partial packet and its attachments | `encode`, `put_payload`, `parse`, `accept`, `reset` | `SioPacket`, `SioFraming`; no namespace, no JSON text |
| connection of websocketpp | `libs/lib/websocketpp` | `m_state`, the send queue and its write flag, the read buffer, the timers | `connect`, `send`, `close`, `terminate`, reading and writing, the handshakes and their timeouts | `WsConnection`, and what it promises in `Websocket`; a client's, not a server's |
| sio::client | `libs/src/sio_client.cpp` | none | forwards to client_impl | `SioConnection` (the calls) |
| message types | `libs/src/sio_message.h` | immutable values | constructors | not modelled |
| demo player | `main.cpp` | `participants`, `connect_finish`, the scripted solution | two waits, the listeners | not modelled |
| board and solver | `solve/Utils.java`, `solve/Taquin.java`, `solve/Graph.java`, `solve/TripleComparator.java` | the board's `BitSet`, the graph, the queue, the priority queue | `creatGraph`, `dijkstra`, accessors | `TaquinBoard`, `TaquinGraph` |
| Java player | `TaquinClient.java`, `ConnectionServerSocketIO.java` | `size`, `id`, `step`, the id of the login | login, `getTaquin`, `solveTaquin`, `solveNextStep`, `errorStep` and the event listeners | `TaquinClient` |
| rapidjson, gtest, asio, the rest of websocketpp | third party | | | not modelled |

How the parts interact. An application thread calls `emit` and `close` on a
socket and `connect`, `close` and `sync_close` on the client. One network thread
runs the io_service: handlers the application has dispatched, expired timers and
the handlers of the websocket connection. `client_impl` calls `on_open`,
`on_disconnect`, `on_close` and `on_message_packet` of its sockets from the
network thread; a socket calls `client_impl::send` from either, which cuts the
packet into frames and hands them to the io_service. Only the packet queue, the
socket map and the events (bindings and acks) have a mutex. The Java client builds
its graphs, connects, and then handles one event of the server at a time.

What is hard, and what makes each part correct:

- *socket*. Two threads drain one queue; `m_connected` and `m_client` are tested
  without a lock; a disconnect empties the queue under an emitting thread; the
  handler of `close()`'s timer ignores its error code. Correct means: no packet
  twice, none before an earlier queued one of its thread, none left behind by a
  drain, nothing left over in a removed socket.
- *client_impl*. The user's calls race with reconnecting: the state is written by
  both threads, an expired timer can no longer be cancelled, a close may meet a
  handshake. Correct means: one session at a time, remembered as it is; bounded
  retries; a user who hears how they ended; a close that ends the session.
- *namespaces*. A socket is created while the connection opens; its request is
  answered, refused or forgotten; its timeout races with the answer; a closed
  socket is removed by name; `close()` of the client sets the state while its
  sockets are still connected. Correct means: the registered socket has asked on
  every connection that is not being closed, ends connected or closed, and is the
  only one with a client.
- *framing*. A binary packet is several frames, posted one by one; senders may
  interleave them, and a reconnect may cut a packet short or come between its
  frames. Ids for acks are drawn from an unlocked counter. Correct means: the client
  gets back what the server encoded, or nothing; the server too, but for attachments
  of two threads that mix; and a callback gets its own answer, or after a race for
  an id one of the same id, and none twice.
- *websocket*. One read may bring the end of the opening response and several
  frames; one timer pointer serves both handshakes and can be overwritten; a
  handler may run after `terminate`; a write in progress must pick up what is
  pushed meanwhile. Correct means: one `on_fail`, or one `on_open` and then one
  `on_close`; no frame forgotten in either direction; always something to wake it.
- *board, solver*. Bit fields counted from the far end; a comparator that repeats
  its first test; a graph that is only a tree. Correct means: all solvable boards,
  each once, shortest solutions, and a hardest board.
- *Java player*. Lost steps, interrupting boards, boards without a solution, a
  size that changes in the middle of a solution, to that of another graph or of
  none, a second login. Correct means: legal moves, numbered as the server counts
  them, until the board is solved, as long as the graph of the board is the one in
  use when an answer is handled.
- *demo*. Waits that test their condition once, listeners bound late.

`PROJECT.json` lists each hazard with its line and the properties that cover it,
or the reason why none does.

## 2. Plan

Written in this order: `PacketChannel`, `SioSocket`, `SioConnection`,
`TaquinBoard`, `TaquinGraph`, `TaquinClient`, `SioNamespaces`, `SioFraming`, then
`Websocket`, `WsConnection` and `SioPacket`; each with its proofs where there are
any. How they fit together:

- `SioSocket` implements `PacketChannel`: checked and proved.
- `WsConnection` implements `Websocket`, and `SioConnection` keeps to what
  `Websocket` allows its environment: the connection above is written against
  exactly what the connection below provides. Checked with fairness, proved for
  the steps.
- `SioFraming` runs `SioPacket` at both ends of a connection.
- `TaquinClient` extends `TaquinGraph`, which extends `TaquinBoard`.

What is left, in order of value:

1. Messages of several fragments in `WsConnection`.
2. The two waits of `main.cpp` with spurious wake-ups.

Every invariant and every safety action property that a passing run checks is now
proved as well; what the runs alone show is listed at the end of section 5.

## 3. Modules

**`PacketChannel`** is what a socket promises of its packets: each is delivered
at most once and only if it was handed in; any may be lost; no order is promised.

**`SioSocket`**. Every application thread and the network thread has a program
counter. `Emit` and `Close` enter `send_packet`; `SendGuard` (NULL_GUARD),
`SendBranch` (`m_connected`), `TakeFront` (front and pop under the mutex),
`SendFront`, `SendOwn` and `Push` are the stretches between two points where
another thread can come in; `on_connected` (`RecvConnect`) uses the same drain
steps, and so does an ack (`ReplyAck`) on the network thread. `on_close` is
`Detach`, `OnClose`, `ClearQueue`; `on_disconnect` is `LinkDown`, `ClearQueue`. A
send from an application thread is posted and run later by `RunSend`; from the
network thread it runs at once (`dispatch`). `send_impl` drops the packet unless
the state is opened. A packet is its thread, its number and its kind.

**`Websocket`** is what `client_impl` relies on: the order of `on_open`, `on_fail`
and `on_close`, the local close code it then reads, and that a connection which is
opening or closing does not stay so for ever. Two of its allowances look odd and
are what websocketpp does: the code of a close may be replaced while the connection
closes (`Recode`), and once more at the end (`Closed`).

**`SioConnection`**. `ready` is the queue of ready handlers of the io_service,
`ws` and its code the websocket. A call of the user is split where the network
thread can come between two of its accesses (`ConnectCall`, then the test, the
join, the start; `CloseCall`, then `CloseDispatch`), and a handler where the user
can (`timeout_reconnect`, `on_fail` and `on_close` between their reads and writes
of `m_con_state`). A timer is armed or expired; an expired one has its handler in
`ready` and cannot be cancelled. The peer may close with any code (`PeerCloses`).
The websocket's own close has no effect unless the connection is open, and a close
with the reserved code of an abnormal closure only stores the code. `told` and
`userClosed` record what the listeners were told and what the user asked, for the
properties only, and so does `stalePong`.

**`WsConnection`** is `websocketpp::connection` for a client, over the asio
transport, with and without TLS. A handler of the io_service is one step; the loop
of `handle_read_frame` takes a step per frame, with the user's calls (made by
`client_impl` from the message handler) in between. `phase` joins
`m_internal_state` with what the transport is doing, `state` is `m_state`. What
goes out (`out`) and what comes in (`fromPeer`) are kept whole, with marks: frames
pushed, taken by `write_frame` and written (`m_write_flag` is set while `taken` is
ahead of `written`); items sent by the peer, read and processed. A read brings one
item or more, so the response and the first frames may share a buffer. `terminate`
is one operator, used by every error, eof and timeout, and sets the code before it
tests whether the connection is closed already. `late` counts handshake timeouts
no cancel reaches: expired ones, and one whose pointer `send_close_frame`
overwrote. A response that is refused, cut off or followed by an error ends in
`ReadRefused`.

**`SioNamespaces`** has the sockets of one namespace other than "/", numbered in
the order of their creation; `registered` is the one `m_sockets` holds. The
application thread holds `m_socket_mutex` from `SocketCall` (the constructor tests
`opened()`) over `PostConnect` and `ConstructorArms` to `Insert`; the network
thread waits for it wherever it looks into the map: `OnOpen` sets the state and
`OpenSockets` calls `send_connect`, `LinkDown` and `DisconnectSockets` are the two
halves of a lost connection, `Detach` and `RemoveSocket` of `on_close`. `CloseCall`
and `CloseArms` are the application's `close()`, which uses the same timer as the
request. `close()` of the client is `ClientClose`, which sets `m_con_state` to
con_closing (`closing`) while there may be a connection (`open`), and
`CloseSockets`, which calls `close()` of the sockets that are in the map then;
until the connection has ended `opened()` is false (`Opened`) and `send_impl` drops
every packet, although sockets are still connected. `close_impl`, which ends the
connection, is in `SioConnection`: here it may end at any time. A timer that has expired has its handler in `due` or `closeDue`, and
`Rearm` is every way to cancel one: the handler of a request then does nothing, but
that of a close runs all the same (`Cancelled`), since `on_close` is bound without
the error code. The packets of the application are in `SioSocket` only.

**`SioPacket`** encodes a packet (an id, the event it is about, which stands for
its text, and the sequence of the leaves of its message, text or blob) into a text
frame with numbered placeholders and a binary frame for each blob, and decodes
frame by frame with the partial packet kept in between.

**`SioFraming`** has the application's threads, the network thread and the server.
`Emit` is `emit` up to the frames, `ReadEventId` the read of `s_global_event_id` a
thread may be interrupted after, `OnEncode` hands over one frame, `SendImpl` writes
one or drops it when the connection is not open; a listener on the network thread
writes at once (`ListenerEmits`). `Receive` gives one frame to `put_payload` and a
whole ack to `on_socketio_ack`. The server is external: it decodes as the client
does, since the format is the same in both directions, acknowledges in any order,
and sends events of its own. The connection breaks between any two frames, and
`reset_states` runs before the next. Any thread sends attachments, and any asks
for acks. `s_global_event_id++` is a read (`ReadEventId`) and a write (in `TakeId`)
with no lock, so two threads may be given one id, and a late write may set the
counter back; `raced`, for the properties only, tells that a thread has read it
while another was between the two. The frames of two threads' attachments may mix at
the server. The code does nothing against either, and no document promises that it
would, so `AnswerToAsker`, `AnsweredIsCalled` and `ServedWhole` say how far the harm
goes: up to an answer of the same id, and attachments of another thread.

**`Induction`** has no model: it holds the lemmas on induction and recursion that
`SioFramingProofs` and `TaquinProofs` use.

**`TaquinBoard`** gives a `BitSet` as the set of its set bits and
`getValueBS`/`setValueBS` on it, then the puzzle itself on plain functions:
`Solution`, the distance of every solvable board, computed level by level until no
board is added (`Depth`) and independent of the encoding. `maskBits` is a `char`, so
`nBits` ends only for boards of at most 65536 cells (`BitsAssumption`). The code has n rows and n columns; the module keeps
the two apart so that TLC can use a puzzle that branches and is small enough.

**`TaquinGraph`** is `Graph.java`, one action per turn of a loop. The priority
queue is a set of triples; where `TripleComparator` does not tell two triples
apart either may come first.

**`TaquinClient`** composes it with the Java client and its server: the graph is
built first (`Build`), then the client connects, logs in and answers. The server is
external, modelled from what the listeners answer and from the script in
`main.cpp`: it applies a legal step and answers `ack-solve`, answers any other
with `error-solve`, and may lose a step, ask for another board (also one without
a solution), or for another size. The client has a graph for each of two sizes (the
code builds those of 2 and 3): that of the board that is built here, and another
that is a constant (`OtherNodes`, `OtherParents`), of which only the types are
assumed. `get-matriz` makes `size` the index of either or of none, at any time,
while `id` stays a number of the graph before: `GetBitSet`, `GetParent` and `GetId`
look it up in the graph that is in use, and throw (nothing is sent) where it has no
such number. `astray`, for the properties only, tells that the board asked about is
not of the own size, or that the own graph was not in use when it was asked or when
an answer was handled since: what the client then sends may be any cell, the server
refuses it or moves with it, and nothing is claimed of it until the next `solve`.
The socket.io library of the Java
client is external too: it reconnects, and the player logs in again and gets a new
id.

**`MCSioSocket`** and **`MCSioFraming`** declare the symmetry of the application
threads for TLC, the second also the kinds of messages; **`MCTaquinClient`** gives
the graph of the other size, that of 2 x 2. The other modules are run as they are.

## 4. Runs

| Run | Bounds | Shows |
|---|---|---|
| `socket_threads` | 2 application threads with 2 packets each, 2 connections, thread symmetry | `TypeOK`, `NoDuplicate`, `NoOvertakeInQueue`, `BoundedStranding`, `LeftAfterClose` |
| `socket_channel` | 1 application thread with 3 packets, 1 ack, 2 connections | `ImplementsChannel` (refinement), `DrainFlushes` (liveness) |
| `socket_client_gone` | 1 thread, 2 packets | violation of `ClientPresentWhenUsed` |
| `connection` | 2 attempts, 3 ready handlers | `TypeOK`, `SessionConsistent`, `NoSecondSession`, `ReconnectBounded`, `RetryOrTold`, `CloseEndsSession` (both liveness), `KeepsToWebsocket` |
| `connection_sync_close` | no attempts, 2 ready handlers | violation of `SyncCloseReturns` |
| `connection_ignored` | 1 attempt, 2 ready handlers | violation of `ConnectNotIgnored` |
| `connection_listener` | 1 attempt, 2 ready handlers | violation of `CloseListenerCalled` |
| `websocket` | with and without TLS, 2 frames out, 3 items from the peer on each connection | `TypeOK`, `Watched`, `NothingAfterClose`, `NoFrameForgotten`, `EveryFrameDelivered`, `ImplementsWebsocket` (refinement with liveness) |
| `namespaces` | 3 sockets, 2 connections, 1 call of close, of a socket or of the client | `TypeOK`, `RegisteredHasAsked`, `RegisteredIsAttached`, `ConnectedIsOpen`, `ConnectedOrClosed` and `CloseEndsSocket` (liveness) |
| `namespaces_timeout` | 1 socket, 1 connection | violation of `TimeoutOnlyUnanswered` |
| `framing` | 2 application threads (symmetric) and the network thread, messages of a text, a text and a blob, or two blobs, 3 packets (emitted, and sent by the server on a connection, together), 2 connections of which the second does not break | `TypeOK`, `DecodedWhole`, `NothingKeptBack`, `ServedWhole`, `AnswerToAsker`, `AnsweredIsCalled` |
| `client` | 2 x 3 board; boards 0, 1 and 21 moves away and one without a solution; the graph of 2 x 2, with boards 1 and 6 moves away and one without a solution; 2 logins, 3 server events, 1 lost step | `TypeOK`, `AllBoardsFound`, `ParentsAreShortest`, `FarthestIsHardest`, `GraphIsBuilt`, `StepsAreLegal`, `StepsAreNumbered`, `SolvedInTheEnd` |

Why the bounds are enough. Two threads and the network thread are what it takes
for one to hold a popped packet while two others drain; two packets per thread
let one be stranded and the next overtake it; two connections let a packet or a
timer of the first meet the second. One thread suffices for the refinement, since
`PacketChannel` relates a packet to itself only; its acks put the network thread
in the role of a second sender, and the theorem holds for any number. Two attempts
distinguish the first retry, the last and the refusal; three handlers let an
expired reconnect timer, an expired pong timeout and a close wait at once.
`MaxReady` bounds calls of close and expiries, not the handlers of the code. For
the websocket, two frames out let one be pushed while another is written, or a
ping be answered before a close; three items from the peer are the response and
two frames, which may come in one read or in three, or the response, a close and an
eof. `MaxOut` limits only the user's frames; pongs and close
frames come on top. Connections follow one another without a bound, each from
the same state. Three sockets and two connections let the timeout, the request and
the removal of one socket meet its successor, on the same connection or on the
next; with one close, its timer can be replaced by the request of the second
connection and cancelled by its answer. In `framing`, the messages have no blob, one
behind a text, or two; two threads mix their attachments and race for an id, and the
network thread may do either with them; three packets let two be mixed with a third,
let two events of an asker, or two with one id, be answered in the wrong order, and
let a packet whose frames straddle two connections be followed by one more. A
connection that breaks is one that has a successor: a break of the last would only
lose what has not arrived. The 2 x 3 puzzle has 360 solvable boards
up to 21 moves from the solved one, with real choices at every move; 3 x 3 (181,440
boards) is beyond a run. Boards 0 and 1 moves away are the edges of a solution (the
solved board is its own parent), 21 is the hardest; three events are a board, an
interruption and a second board, or a board, a switch to another graph and one
back. The ring of 2 x 2 has twelve boards, so that its numbers also occur in the
graph of 2 x 3, as those of size 2 do in that of size 3.

`CHECK_DEADLOCK FALSE` stands where the system may stop: an application that has
used up its packets, sockets or connections or a process that has died (socket,
namespaces, framing), a server that asks no more (client). `SioConnection` and
`WsConnection` never deadlock: the user can always call again.

Fairness. In `SioSocket` the threads run and the io_service runs what is ready;
emits, timers, the link and the server are free. In `SioConnection`: a call that
has begun goes on, ready handlers run, the reconnect timer expires, and an opening
or closing handshake ends, which is what `Websocket` promises. `WsConnection` shows
that websocketpp keeps the promise from less: timers expire (the library arms
one for each step of the transport, for each handshake and for the TLS shutdown),
their handlers run, and a loop over a buffer goes on. TCP and the peer owe
nothing: no step of theirs is fair, and an open connection stays open as long as
they like. In `SioNamespaces`: calls, handlers and timers; the server and the link
owe nothing. In `TaquinClient` the construction and the handlers run and the
server looks at a step it has been sent; it need not ask anything, and lines break
and logins happen without fairness.

### What the violations show

- `socket_client_gone`: `NULL_GUARD` is tested once, but `on_close` on the network
  thread clears `m_client` before the emitting thread uses it.
- `connection_sync_close`: `sync_close` while the connection is opening is lost in
  `close_impl` (`m_con` is still expired), the connection opens, and `join` waits
  for a session that nobody closes; `API.md` promises to return when closed.
- `connection_ignored`: `connect_impl` that fails to make a connection leaves the
  state at opening; later calls of `connect` take it for "connected" and return.
- `connection_listener`: a drop schedules a retry and does not call the close
  listener; if the user closes then, the retry is cancelled and nobody calls it;
  `API.md` says it is called when closed or dropped.
- `namespaces_timeout`: the timeout expires, the answer is handled first and cancels
  the timer in vain, and `timeout_connection` closes the connected socket; its
  comment says it should close a socket when no answer has arrived.

A weaker statement is checked where the strong one fails: `BoundedStranding`
(a packet pushed after `on_connected` drained the queue stays until its thread
emits again, but never more than one per thread), `RetryOrTold` (with the two
exceptions that the user closes, or a pong timeout of the dead session cancels
the reconnect timer), `LeftAfterClose` (a removed socket can still receive one
packet of each thread that was already past the guards), `ServedWhole` (attachments
of two threads may mix), `AnswerToAsker` and `AnsweredIsCalled` (after a race for an
id the answer may be that to the other event), `StepsAreLegal` and
`StepsAreNumbered` (not after an answer that was handled with another graph). Two
hazards are in a model without a property that would catch them, since no source
says what should happen: a client that reconnects after the user's close, when
that ended with another code than normal (`CloseEndsSession` is about the session there
was), and a pong timeout of the dead session, which reaches `close_impl` and cancels a
retry that was scheduled (`RetryOrTold` exempts it).

### What the websocket model found out

No document contradicts these behaviours, so they are no violations, but
`Websocket` had to be weak enough to allow them and `SioConnection` is checked with
them:

- A close frame that cannot be read is answered also while closing: a second
  close frame goes out with another code, and the pointer of the running timer is
  overwritten. The first timer still fires and terminates the connection.
- A timeout of the opening handshake that has expired when the response is handled
  is not stopped by the cancel: it terminates the connection that has just
  opened.
- With TLS, a posted `write_frame` or a late timeout that runs between `terminate`
  and `handle_terminate` sets the code to that of an abnormal closure, although the
  connection was closed normally. `client_impl::on_close` reads the code there, so
  it reconnects after a close that the user did not ask for but that was in order.
- A malformed frame that comes while closing terminates the connection at once,
  also with the code of an abnormal closure.

## 5. Proofs

| Module | Theorems | Assumptions |
|---|---|---|
| `SioSocketProofs` | `TypeCorrect`, `PacketInOnePlace` (`NoDuplicate`), `QueuedNotOvertaken` (`NoOvertakeInQueue`), `StrandingIsBounded` (`BoundedStranding`), `NothingLeftBehind` (`LeftAfterClose`) | `Net` not among the threads (`ThreadsAssumption`), natural bounds (`BoundsAssumption`) |
| `PacketChannelProofs` | `ChannelImplemented` (`ImplementsChannel`) | the same |
| `SioConnectionProofs` | `TypeCorrect`, `SessionAgrees` (`SessionConsistent`), `OneSession` (`NoSecondSession`), `RetriesAreBounded` (`ReconnectBounded`), `UsesWebsocket` | natural `Attempts` and `MaxReady` |
| `SioNamespacesProofs` | `TypeCorrect`, `SocketHasAsked` (`RegisteredHasAsked`), `SocketIsAttached` (`RegisteredIsAttached`), `ConnectedHasConnection` (`ConnectedIsOpen`) | natural bounds |
| `SioFramingProofs` | `JsonRoundTrip`, `EncodeRoundTrip`, `TypeCorrect`, `DecodesWhole` (`DecodedWhole`), `KeepsNothingBack` (`NothingKeptBack`), `ServesWhole` (`ServedWhole`), `AnswersAsker` (`AnswerToAsker`), `CallsAnswered` (`AnsweredIsCalled`) | `Net` not among the threads, `Kinds` among the messages of up to `MaxLeaves` leaves, natural bounds |
| `TaquinProofs` | `TypeCorrect`, `AllFound` (`AllBoardsFound`), `ShortestParents` (`ParentsAreShortest`), `HardestFarthest` (`FarthestIsHardest`), `LegalSteps` (`StepsAreLegal`), `NumberedSteps` (`StepsAreNumbered`), `Invariance` | at least two cells (`SizeAssumption`) and at most 65536 (`BitsAssumption`), a graph of another number of cells whose nodes and parents have their types (`OtherAssumption`), natural bounds (`ServerAssumption`) |
| `WsConnectionProofs` | `TypeCorrect`, `AlwaysWatched` (`Watched`), `CloseIsLast` (`NothingAfterClose`), `NoWakeUpLost` (`NoFrameForgotten`), `NothingLost` (`EveryFrameDelivered`), `Simulation` | natural bounds, `Builds` a non-empty set of Booleans |

*SioSocket.* None of the invariants is inductive. `IInv` has four parts, proved one
on top of the other. `Placed` is `TypeOK` with what each location of a thread means:
at "guard", "branch", "own" and "push" it has a packet of its own, the last one it
made, and it holds a popped packet exactly at "front". `Packets` orders the
packets: any packet outside its maker's hands is older than the one in them
(`OwnNewest`), the queue is ascending for each thread (`QueueAscending`), a thread
that has drained the queue before its own packet finds none of its own there
(`DrainedBeforeOwn`), nothing is popped, posted or sent twice (`SentOnce`), and
`NoOvertakeInQueue`, which `TakeFront` keeps only because the queue is ascending.
`Stranding` says that once `on_connected` has drained the queue of a connected
socket, a thread at "push" has nothing else in it: without it, pushes could pile
up. `Removed` says that a socket without a client is no longer connected or is just
being closed, and that in a removed one a thread that can still push (it was past
NULL_GUARD) has nothing in the queue yet. Each part has a lemma for each action that disturbs it; lemmas on `Append` and `Tail`
(range, injectivity, order) carry the sequences.

*The channel.* With `IInv`, every step of `SioSocket` makes a packet, which is a new
one (`MadeBounded` and the numbering give its identity), or is `Moved`: it loses
some of the packets that may still be sent, or puts one of them on the wire and
takes it from everywhere else (`Identified`: no two of them have the same
identity). `Moved` implies a step of `PacketChannel` or a stutter; it has one
case per action, under the lemmas for what a thread holds.

*SioConnection.* The strengthening is `AttemptInOnePlace`: an attempt at a
connection is a waiting `connect_impl` or `timeout_reconnect`, the armed reconnect
timer, the network thread between the halves of a handler, or a live websocket,
never two of them, and never two waiting handlers; and `NothingLeft`: the thread
ends only when none of it is left, which is what makes the user's `connect` after
the join safe. `UsesWebsocket` needs `AttemptInOnePlace` too: `connect` is called
only when the last websocket has gone.

*SioNamespaces.* The invariant is `Alive` (only the registered socket and the one
under construction have a client, and they lose it only to an `on_close` under
way), `Asked` (while `opened()` holds and `on_open` is not under way, a registered socket has
asked, and so has one that is constructed and past `PostConnect`) and `Connected`
(of the connection itself, which is still there after `ClientClose`).
`Asked` is inductive because `on_open` sets the state before it takes the mutex and
then waits for the constructor. The three ways into `on_close` (the server, the
request's timer, the timer of `close()`) share one lemma, `DetachStep`.

*WsConnection.* The invariant adds to the checked ones how the phase of the
transport goes with `m_state` and with what `handle_terminate` will report
(`PhaseAgrees`), that nothing is queued or delivered before the connection is open
(`NothingYet`), that no close frame is queued while it is (`NotClosedYet`), that the
code is the abnormal one until a close is sent (`CodeAgrees`), and that the peer's
frames follow its response (`AnswerFirst`). The actions that call `terminate` are
first reduced to one relation, `Terminated` (`NextSplit`), so that each part has one
case for all of them. `Simulation` is the safety half of the refinement.

*SioFraming.* Two results about the format come first: a message that has been
taken apart by `Buffers` and `ToJson` comes back whole from `FromJson`
(`JsonRoundTrip`), and a decoder that holds no partial packet, given all the frames
of `Encode`, ends with exactly that packet and holds none again (`EncodeRoundTrip`).
The invariant `IInv` has, beside the types, a part for each thing that must be known
of the frames and calls under way:

- `Stream`: the frames on the way down, put through the client's decoder from the
  partial packet it holds, end in exactly the packets the server sent and in no
  partial packet. It says at once what the client has decoded, what its partial
  packet is and what follows it; `DecodedWhole` and `NothingKeptBack` are read off it.
- `Numbered`: an id, of an event or read by a thread, never exceeds the number of
  events, also when threads race. `Unique`: as long as none has raced, no two events
  have an id, ids are below the counter, and the one thread that has read an id holds
  the counter's value; `ReadEventId` keeps this, as it sets `raced` when a second one
  reads.
- `Registered`, `Called`, `Answers`, `Delivered`: a callback is in `m_acks` under the
  id of its event; for every id given out the callback of *an* event of that id is
  registered or was called; a callback called is no longer registered, was given an
  answer of its id, and none was called twice; an answer carries the id of its event,
  and for each answer decoded a callback of its id was called. `AnswersAsker` and
  `CallsAnswered` follow, with `Unique` where no thread has raced.
- `Served`: the argument about interleaving, with any number of threads that send
  attachments. Every frame on its way up has a place, the number of its event and of
  the frame in it. The places of one sender are in order. The partial packet the
  server holds (`Half`) is that of an event whose next frame is on its way, and holds
  either its attachments so far or as many with one of another thread among them
  (`Mixture`, `Foreign`): a thread's next packet starts only after its last frame, so
  no frame of the same sender can come in out of turn, and a packet that is completed
  by frames of others is completed with a foreign one. Any text frame begins a new
  packet, wherever the one before stood. What was decoded (`Whole`) stands for events
  in the order of each sender, as emitted or with a foreign attachment (`Stands`).

TLC checked this invariant before it was proved, with messages of two leaves and two
packets completely, and with three packets in part.

*Induction.* The library's induction theorems take a predicate, which the backends
cannot instantiate. `Induction` proves what is needed without one: a *set* that has 0
and the successor of each of its numbers has every number (by the pigeonhole
principle for finite sets), and a function with a given first value and step exists.
A statement is proved for every n by defining the set of numbers it holds for, and a
recursive function is unfolded by the second. Folds over frames (`PutAll`), the
numbering of placeholders and concatenation are treated so, and in `TaquinProofs` the
powers of two, the sum of a field's bits, `Within` and three arguments by level or by
number.

*Taquin.* For boards of every size with a `BitSet`, where TLC plays one of six cells.
Three groups of lemmas come before the invariant:

- The encoding: `nBits` ends with a mask that holds every tile (`BitsFit`), no two
  fields share a bit (`BitPlaces`), `getValueBS` reads the tile that was written and
  `setValueBS` writes one field only (`GetValueHolds`, `SetValueHolds`); so a board and
  its `BitSet` determine each other, and comparing `BitSet`s is comparing boards.
- The puzzle: a move can be taken back, and what `creatGraph` tries in its four
  directions, with the bounds of `validationPos`, is every move and no other
  (`TowardLaws`).
- The distances: `Within` gains a board whenever it changes, and there are finitely
  many, so it ends (`DepthExists`); what it ends with is 0 for the solved board alone,
  one more than some neighbour for every other board, and at most one more than any
  (`SolutionLaws`).

`GraphInv` then says of `creatGraph` that boards get their numbers in the order of
their distance and only one number each (`Known`), that the edges are a tree in which
the first neighbour of a board is one move nearer and has a smaller number (`IsTree`),
that the queue is the last boards met (`Queued`), and how far the expansion is
(`Expanded`: all boards as near as the current one are met, and none is more than one
move farther). Of `dijkstra` it says that a triple waiting leads from a settled board
to a neighbour, that a board is settled after its parent in the tree and from it, and
that an unsettled board whose parent is settled has its triple waiting. That is enough
whichever triple comes first: only one triple can settle a board of a tree, so the
comparator that repeats its first test, and the neighbours queued although they are
settled, do no harm; the proof uses no order of the triples at all. When
the queue is empty all boards are settled, or the one with the smallest number would
still have its triple in it (`AllSettled`).

`ClientInv` says that, unless the client is astray, a step sent, refused or lost is
one move ahead of the server's board, with the number of that move (`Ahead`), and that
after "ack-solve" the server's board is the client's (`Arrived`); in any case `id` is a
number of one of the two graphs, and a step that is not of the own graph was sent
astray. `GetMatriz` changes `size` only, so it keeps this; `AckSolve` and `ErrorSolve`
keep it because an answer handled with another graph makes the client astray, and a
`solve` of a board of the own size restores it from any state. A connection that breaks
and a new board both begin it anew; the solved board is its own parent, so the step
after the last is refused. A number has boards of one size only, since the sizes have
different numbers of cells (`OtherAssumption`), so the server never takes a step of the
own graph for one of the other board.

TLC checked the invariant before it was proved: on a board of 2 x 2 in every state,
and on the run's board of 2 x 3 the client's part in every state, and the solver's in
every fortieth state or so of the search and of `dijkstra`.

Only model-checked: the liveness properties (`DrainFlushes`, `RetryOrTold`,
`CloseEndsSession`, `ConnectedOrClosed`, `CloseEndsSocket`, `GraphIsBuilt`,
`SolvedInTheEnd`) and the fairness in `ImplementsWebsocket` and `KeepsToWebsocket`,
which are out of the prover's reach.

## 6. Not modelled

- The vendored libraries, except the client's connection in websocketpp: rapidjson
  (a parser and a writer, single-threaded and without state between calls), gtest
  (the test framework shipped with it), asio, and the rest of websocketpp: the
  server role, the endpoint's listening, proxies, extensions, ping timeouts,
  pausing, the bytes of frames and of HTTP, masking, UTF-8 checks, logging.
  They are most of the repository's lines, and the client uses little of them.
- Messages of several fragments and messages over the size limit: a frame of
  `WsConnection` is a whole message, or one that fails to parse.
- TLS beyond its handshake and shutdown; URI and query strings, the JSON text,
  logging: no state of their own.
- Undefined behaviour of the unlocked `unique_ptr`s: the reads and writes of
  `m_reconn_timer` and `m_network_thread` by two threads are modelled as orders of
  whole operations; a double delete of the timer object is not.
- Listeners that call `connect` or `sync_close` from the network thread (it would
  join itself); listeners that emit are in `SioFraming`.
- Destructors, copying and `off_all`; the table of event bindings. The application
  is taken to keep every socket it has been given: the handlers of a socket's timer
  are bound to the bare object, and what they do once `remove_socket` has destroyed
  it is not modelled.
- `main.cpp`: a scripted test of one board whose two waits test their condition
  once; what it asks of the library is modelled, its waits are listed as hazards.
- The message types: immutable values.
- In the Java client, a `solve` for another player (ignored), `start` (answered
  without a change), and `finalize`, which closes a field that the constructor's
  local variable hides, so that it is never set; `Pair` and `PairComparator` are
  unused.
