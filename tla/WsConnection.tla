------------------------------ MODULE WsConnection ------------------------------
(***************************************************************************)
(* websocketpp::connection as sio::client_impl uses it: a client, on the   *)
(* asio transport, with or without TLS.                                    *)
(*                                                                         *)
(* The io_service runs one handler at a time, so a handler is one step,    *)
(* with one exception: the loop of handle_read_frame over a buffer of      *)
(* several frames takes one step per frame, and no other handler runs in   *)
(* between.  client_impl calls send and close from handlers too, on_message*)
(* among them.  A timer that has expired has its handler in the queue, and *)
(* cancelling it comes too late: that handler is counted in "late", as is  *)
(* a timer whose pointer has been overwritten.                             *)
(*                                                                         *)
(* What goes out and what comes in are kept whole for one connection, with *)
(* the marks up to which the code has got.                                 *)
(*                                                                         *)
(* External: the peer, which answers the opening request, sends frames of  *)
(* every kind, and may stop, close TCP, or lose the line at any time.      *)
(***************************************************************************)
EXTENDS Integers, Sequences, Functions

CONSTANTS
    Builds,                   \* without and with TLS: a subset of BOOLEAN
    MaxOut,                   \* bound: frames the user sends on a connection
    MaxPeer                   \* bound: items the peer sends on a connection

ASSUME BuildsAssumption == Builds \subseteq BOOLEAN /\ Builds # {}
ASSUME BoundsAssumption == MaxOut \in Nat /\ MaxPeer \in Nat

VARIABLES
    tls,                      \* is_secure(), fixed by the build
    phase,                    \* where the connection has got: m_internal_state,
                              \* and what the transport is doing
    state,                    \* m_state
    tstat,                    \* what handle_terminate will report
    code,                     \* m_local_close_code
    stepTimer,                \* the timer of the transport's step
    handTimer,                \* m_handshake_timer
    late,                     \* handshake timeouts no cancel reaches
    out,                      \* every frame pushed to m_send_queue
    taken,                    \* of these, how many write_frame has taken
    written,                  \* and how many have been written; m_write_flag is
                              \* set while taken is ahead
    posted,                   \* write_frame handlers in the io_service
    fromPeer,                 \* every item the peer has sent
    read,                     \* of these, how many have been read into m_buf
    pos,                      \* and how many have been processed
    reading,                  \* a read is outstanding
    delivered                 \* those handed to on_message

stateVars == <<phase, state, tstat, code>>
timerVars == <<stepTimer, handTimer, late>>
outVars   == <<out, taken, written, posted>>
inVars    == <<fromPeer, read, pos, reading, delivered>>
vars == <<tls, stateVars, timerVars, outVars, inVars>>

Steps == {"resolve", "connect", "tls_handshake"}
Phases == Steps \cup {"none", "request", "response", "frames", "shutdown"}
Terminal == {"policy_violation", "protocol_error"}
Codes == Terminal \cup {"normal", "abnormal_close"}
\* A "last" frame is a close frame marked terminal.
CloseFrames == {"close", "last"}
Answers == {"part", "accept", "refuse"}
PeerFrames == {"text", "ping", "close_normal", "close_policy", "close_bad", "malformed"}

Init ==
    /\ tls \in Builds
    /\ phase = "none"
    /\ state = "closed"
    /\ tstat = "unknown"
    /\ code = "abnormal_close"
    /\ stepTimer = "none" /\ handTimer = "none" /\ late = 0
    /\ out = << >> /\ taken = 0 /\ written = 0 /\ posted = 0
    /\ fromPeer = << >> /\ read = 0 /\ pos = 0
    /\ reading = FALSE
    /\ delivered = {}

\* No handler is in the middle of its loop.
Idle == pos = read

(***************************************************************************)
(* terminate, and what it leads to.                                        *)
(***************************************************************************)
\* Mutant: the pointer of the timer is not reset.
Cancel_NotReset(fired) ==
    /\ late' = late - fired
    /\ UNCHANGED handTimer

\* Cancel m_handshake_timer; "fired" is 1 in the handler of a timeout, else 0.
Cancel(fired) ==
    /\ handTimer' = "none"
    /\ late' = late - fired + (IF handTimer = "expired" THEN 1 ELSE 0)

Shutdown ==
    /\ state' = "closed"
    /\ tstat' = IF state = "connecting" THEN "failed" ELSE "closed"
    /\ reading' = FALSE
    /\ phase' = IF tls THEN "shutdown" ELSE "none"
    /\ stepTimer' = IF tls THEN "armed" ELSE "none"

\* Mutant: a connection that is already closed is terminated again.
Terminate_Again(failed, fired) ==
    /\ Cancel(fired)
    /\ code' = IF failed THEN "abnormal_close" ELSE code
    /\ Shutdown

\* terminate(ec): the code is set before the test whether the connection has
\* already been closed.  Without TLS async_shutdown calls back at once, and with
\* it handle_terminate, which calls on_fail or on_close.
Terminate(failed, fired) ==
    /\ Cancel(fired)
    /\ code' = IF failed THEN "abnormal_close" ELSE code
    /\ \/ state # "closed" /\ Shutdown
       \/ state = "closed" /\ UNCHANGED <<phase, state, tstat, stepTimer, reading>>

\* handle_async_shutdown (TLS), unless its timer has expired, or the timer.
ShutdownEnds ==
    /\ phase = "shutdown"
    /\ phase' = "none"
    /\ stepTimer' = "none"
    /\ UNCHANGED <<tls, state, tstat, code, handTimer, late, outVars, inVars>>

(***************************************************************************)
(* The opening handshake.                                                  *)
(***************************************************************************)
\* client_impl makes a new connection object and connects it.
Connect ==
    /\ phase = "none"
    /\ phase' = "resolve"
    /\ state' = "connecting"
    /\ tstat' = "unknown"
    /\ code' = "abnormal_close"
    /\ stepTimer' = "armed" /\ handTimer' = "none" /\ late' = 0
    /\ out' = << >> /\ taken' = 0 /\ written' = 0 /\ posted' = 0
    /\ fromPeer' = << >> /\ read' = 0 /\ pos' = 0
    /\ reading' = FALSE
    /\ delivered' = {}
    /\ UNCHANGED tls

Resolved ==
    /\ phase = "resolve"
    /\ phase' = "connect"
    /\ UNCHANGED <<stepTimer, handTimer>>

Connected ==
    /\ phase = "connect" /\ tls
    /\ phase' = "tls_handshake"
    /\ UNCHANGED <<stepTimer, handTimer>>

SendHttpRequest ==
    /\ phase = (IF tls THEN "tls_handshake" ELSE "connect")
    /\ phase' = "request"
    /\ stepTimer' = "none"
    /\ handTimer' = "armed"

\* One step of the transport after another.  An answer that comes after its timer
\* has expired is ignored.
StepDone ==
    /\ phase \in Steps
    /\ stepTimer = "armed"
    /\ Resolved \/ Connected \/ SendHttpRequest
    /\ UNCHANGED <<tls, state, tstat, code, late, outVars, inVars>>

\* A step fails while its timer runs, or the timer's handler is run.
StepFails ==
    /\ phase \in Steps
    /\ Terminate(TRUE, 0)
    /\ UNCHANGED <<tls, outVars, fromPeer, read, pos, delivered>>

RequestWritten ==
    /\ phase = "request"
    /\ phase' = "response"
    /\ reading' = TRUE
    /\ UNCHANGED <<tls, state, tstat, code, timerVars, outVars, fromPeer, read,
                   pos, delivered>>

RequestFails ==
    /\ phase = "request"
    /\ Terminate(TRUE, 0)
    /\ UNCHANGED <<tls, outVars, fromPeer, read, pos, delivered>>

\* The number of items a read may bring.  An eof is never one of them.
Readable == {k \in 1 .. Len(fromPeer) - read : fromPeer[read + k] # "eof"}

\* handle_read_http_response: the headers are not complete yet.
ReadPart ==
    /\ phase = "response" /\ reading
    /\ \E k \in Readable :
          /\ \A j \in read + 1 .. read + k : fromPeer[j] = "part"
          /\ read' = read + k
          /\ pos' = read + k
    /\ UNCHANGED <<tls, stateVars, timerVars, outVars, fromPeer, reading, delivered>>

\* Mutant: frames that came with the response are forgotten.
ReadAccept_DropsRest ==
    /\ phase = "response" /\ reading
    /\ \E k \in Readable :
          /\ \E j \in read + 1 .. read + k : fromPeer[j] = "accept"
          /\ pos' = read + k
          /\ read' = read + k
          /\ reading' = TRUE
    /\ Cancel(0)
    /\ phase' = "frames"
    /\ state' = "open"
    /\ UNCHANGED <<tls, tstat, code, stepTimer, outVars, fromPeer, delivered>>

\* The response is complete and valid: on_open is called, and the bytes that
\* follow it are frames.
ReadAccept ==
    /\ phase = "response" /\ reading
    /\ \E k \in Readable, j \in read + 1 .. Len(fromPeer) :
          /\ j <= read + k
          /\ fromPeer[j] = "accept"
          /\ pos' = j
          /\ read' = read + k
          /\ reading' = (j = read + k)
    /\ Cancel(0)
    /\ phase' = "frames"
    /\ state' = "open"
    /\ UNCHANGED <<tls, tstat, code, stepTimer, outVars, fromPeer, delivered>>

\* The response is invalid, or the peer closes, or the line breaks before it.
ReadRefused ==
    /\ phase = "response" /\ reading
    /\ Terminate(TRUE, 0)
    /\ UNCHANGED <<tls, outVars, fromPeer, read, pos, delivered>>

(***************************************************************************)
(* Writing.                                                                *)
(***************************************************************************)
\* write_push, and a dispatch of write_frame unless a write is outstanding.
Push(frame) ==
    /\ out' = Append(out, frame)
    /\ posted' = IF taken = written THEN posted + 1 ELSE posted
    /\ UNCHANGED <<taken, written>>

\* Mutant: m_state is not tested.
Send_AnyState ==
    /\ phase = "frames"
    /\ Len(out) < MaxOut
    /\ Push("text")
    /\ UNCHANGED <<tls, stateVars, timerVars, inVars>>

\* send: an invalid_state error unless open.
Send ==
    /\ state = "open"
    /\ Len(out) < MaxOut
    /\ Push("text")
    /\ UNCHANGED <<tls, stateVars, timerVars, inVars>>

\* Mutant: no timer for the closing handshake.
SendCloseFrame_NoTimer(c, frame) ==
    /\ code' = c
    /\ state' = "closing"
    /\ Push(frame)
    /\ UNCHANGED <<handTimer, late>>

\* send_close_frame.  The timer it sets replaces the one that may be there.
SendCloseFrame(c, frame) ==
    /\ code' = c
    /\ state' = "closing"
    /\ handTimer' = "armed"
    /\ late' = IF handTimer = "none" THEN late ELSE late + 1
    /\ Push(frame)

\* close(c): an invalid_state error unless open.  A code that may not go over
\* the wire is stored and then refused.
Close(c) ==
    /\ state = "open"
    /\ \/ /\ c = "abnormal_close"
          /\ code' = c
          /\ UNCHANGED <<state, handTimer, late, outVars>>
       \/ /\ c # "abnormal_close"
          /\ SendCloseFrame(c, IF c \in Terminal THEN "last" ELSE "close")
    /\ UNCHANGED <<tls, phase, tstat, stepTimer, inVars>>

\* Frames up to n go out together; the write stops after a terminal one.
Batch(n) ==
    /\ n \in taken + 1 .. Len(out)
    /\ \A i \in taken + 1 .. n - 1 : out[i] # "last"
    /\ n = Len(out) \/ out[n] = "last"

\* write_frame finds nothing to do.
WriteNothing ==
    /\ Idle /\ phase # "none"
    /\ posted > 0
    /\ written < taken \/ taken = Len(out)
    /\ posted' = posted - 1
    /\ UNCHANGED <<tls, stateVars, timerVars, out, taken, written, inVars>>

WriteFrame ==
    /\ Idle /\ phase # "none"
    /\ posted > 0
    /\ written = taken
    /\ \E n \in 1 .. Len(out) : Batch(n) /\ taken' = n
    /\ posted' = posted - 1
    /\ \/ /\ state # "closed"
          /\ UNCHANGED <<stateVars, timerVars, reading>>
       \/ /\ state = "closed"      \* async_write after async_shutdown
          /\ Terminate(TRUE, 0)
    /\ UNCHANGED <<tls, out, written, fromPeer, read, pos, delivered>>

\* Mutant: frames pushed during the write wait for the next send.
WriteDone_NoMore ==
    /\ Idle
    /\ state \in {"open", "closing"}
    /\ written < taken
    /\ out[taken] # "last"
    /\ written' = taken
    /\ UNCHANGED <<tls, stateVars, timerVars, out, taken, posted, inVars>>

\* handle_write_frame, without an error.
WriteDone ==
    /\ Idle
    /\ state \in {"open", "closing"}
    /\ written < taken
    /\ out[taken] # "last"
    /\ written' = taken
    /\ posted' = IF taken < Len(out) THEN posted + 1 ELSE posted
    /\ UNCHANGED <<tls, stateVars, timerVars, out, taken, inVars>>

\* The write failed, or its last frame was terminal.  m_write_flag stays set.
WriteEnds ==
    /\ Idle
    /\ state \in {"open", "closing"}
    /\ written < taken
    /\ \/ Terminate(TRUE, 0)
       \/ out[taken] = "last" /\ Terminate(FALSE, 0)
    /\ UNCHANGED <<tls, outVars, fromPeer, read, pos, delivered>>

(***************************************************************************)
(* Reading frames.                                                         *)
(***************************************************************************)
ReadFrames ==
    /\ phase = "frames" /\ reading
    /\ \E k \in Readable : read' = read + k
    /\ reading' = FALSE
    /\ UNCHANGED <<tls, stateVars, timerVars, outVars, fromPeer, pos, delivered>>

\* The peer has closed TCP: expected once the connection is closing.
ReadEof ==
    /\ phase = "frames" /\ reading
    /\ read < Len(fromPeer)
    /\ fromPeer[read + 1] = "eof"
    /\ Terminate(state # "closing", 0)
    /\ UNCHANGED <<tls, outVars, fromPeer, read, pos, delivered>>

ReadFails ==
    /\ phase = "frames" /\ reading
    /\ Terminate(TRUE, 0)
    /\ UNCHANGED <<tls, outVars, fromPeer, read, pos, delivered>>

\* One turn of the loop on a well-formed frame; after the last, read_frame.
Consume(frame) ==
    /\ phase = "frames" /\ ~Idle
    /\ fromPeer[pos + 1] = frame
    /\ pos' = pos + 1
    /\ reading' = (pos + 1 = read)
    /\ UNCHANGED <<tls, phase, tstat, stepTimer, fromPeer, read>>

ConsumeText ==
    /\ Consume("text")
    /\ delivered' = IF state = "open" THEN delivered \cup {pos + 1} ELSE delivered
    /\ UNCHANGED <<state, code, handTimer, late, outVars>>

ConsumePing ==
    /\ Consume("ping")
    /\ \/ state = "open" /\ Push("pong")
       \/ state # "open" /\ UNCHANGED outVars
    /\ UNCHANGED <<state, code, handTimer, late, delivered>>

\* The peer's close frame is answered with its own code; in answer to ours it
\* changes nothing, the peer now having to close TCP.
ConsumeClose(c, frame) ==
    /\ Consume(frame)
    /\ \/ state = "open" /\ SendCloseFrame(c, "close")
       \/ state = "closing" /\ UNCHANGED <<state, code, handTimer, late, outVars>>
    /\ UNCHANGED delivered

\* A close frame that cannot be read is answered in either state.
ConsumeBadClose ==
    /\ Consume("close_bad")
    /\ SendCloseFrame("protocol_error", "close")
    /\ UNCHANGED delivered

\* consume() reports an error: the rest of the buffer is dropped, and nothing is
\* read any more.
ConsumeMalformed ==
    /\ phase = "frames" /\ ~Idle
    /\ fromPeer[pos + 1] = "malformed"
    /\ pos' = read
    /\ \/ /\ state = "open"
          /\ SendCloseFrame("protocol_error", "last")
          /\ UNCHANGED <<phase, tstat, stepTimer, reading>>
       \/ /\ state = "closing"
          /\ Terminate(TRUE, 0)
          /\ UNCHANGED outVars
    /\ UNCHANGED <<tls, fromPeer, read, delivered>>

ConsumeFrame ==
    \/ ConsumeText
    \/ ConsumePing
    \/ ConsumeClose("normal", "close_normal")
    \/ ConsumeClose("policy_violation", "close_policy")
    \/ ConsumeBadClose
    \/ ConsumeMalformed

(***************************************************************************)
(* Timers.                                                                 *)
(***************************************************************************)
StepExpires ==
    /\ stepTimer = "armed"
    /\ stepTimer' = "expired"
    /\ UNCHANGED <<tls, stateVars, handTimer, late, outVars, inVars>>

HandshakeExpires ==
    /\ handTimer = "armed"
    /\ handTimer' = "expired"
    /\ UNCHANGED <<tls, stateVars, stepTimer, late, outVars, inVars>>

\* handle_open_handshake_timeout, handle_close_handshake_timeout.  Once the
\* connection has ended a late one only sets a code that nobody reads.
HandshakeTimeout ==
    /\ Idle /\ phase # "none"
    /\ handTimer = "expired" \/ late > 0
    /\ Terminate(TRUE, 1)
    /\ UNCHANGED <<tls, outVars, fromPeer, read, pos, delivered>>

(***************************************************************************)
(* The peer.                                                               *)
(***************************************************************************)
PeerSends(item) ==
    /\ phase # "none"
    /\ "eof" \notin Range(fromPeer)
    /\ Len(fromPeer) < MaxPeer
    /\ fromPeer' = Append(fromPeer, item)
    /\ UNCHANGED <<tls, stateVars, timerVars, outVars, read, pos, reading, delivered>>

PeerAnswers ==
    /\ phase \in {"request", "response"}
    /\ {"accept", "refuse"} \cap Range(fromPeer) = {}
    /\ \E item \in Answers : PeerSends(item)

PeerTalks ==
    /\ "accept" \in Range(fromPeer)
    /\ \E item \in PeerFrames : PeerSends(item)

PeerHangsUp ==
    /\ phase \in {"request", "response", "frames"}
    /\ PeerSends("eof")

(***************************************************************************)
User ==
    \/ Connect
    \/ Send
    \/ \E c \in Codes : Close(c)

Opening ==
    \/ StepDone
    \/ StepFails
    \/ RequestWritten
    \/ RequestFails
    \/ ReadPart
    \/ ReadAccept
    \/ ReadRefused

Reading ==
    \/ ReadFrames
    \/ ReadEof
    \/ ReadFails
    \/ ConsumeFrame

Writing ==
    \/ WriteNothing
    \/ WriteFrame
    \/ WriteDone
    \/ WriteEnds

Timers ==
    \/ StepExpires
    \/ HandshakeExpires
    \/ HandshakeTimeout

Peer == PeerAnswers \/ PeerTalks \/ PeerHangsUp

Next == User \/ Opening \/ Reading \/ Writing \/ Timers \/ ShutdownEnds \/ Peer

\* The handler of a transport timer that has expired.
StepTimeout == stepTimer = "expired" /\ (StepFails \/ ShutdownEnds)

\* Timers expire, the io_service runs their handlers, and a loop that has begun
\* goes on.  The peer and TCP owe nothing.
Fairness ==
    /\ WF_vars(StepExpires)
    /\ WF_vars(StepTimeout)
    /\ WF_vars(HandshakeExpires)
    /\ WF_vars(HandshakeTimeout)
    /\ WF_vars(ConsumeFrame)

Spec == Init /\ [][Next]_vars /\ Fairness
-------------------------------------------------------------------------------
ControlOK ==
    /\ tls \in BOOLEAN
    /\ phase \in Phases
    /\ state \in {"connecting", "open", "closing", "closed"}
    /\ tstat \in {"unknown", "failed", "closed"}
    /\ code \in Codes
    /\ stepTimer \in {"none", "armed", "expired"}
    /\ handTimer \in {"none", "armed", "expired"}
    /\ late \in Nat
    /\ posted \in Nat
    /\ reading \in BOOLEAN

DataOK ==
    /\ out \in Seq({"text", "pong", "close", "last"})
    /\ taken \in 0 .. Len(out)
    /\ written \in 0 .. taken
    /\ fromPeer \in Seq(Answers \cup PeerFrames \cup {"eof"})
    /\ read \in 0 .. Len(fromPeer)
    /\ pos \in 0 .. read
    /\ delivered \subseteq 1 .. pos

TypeOK == ControlOK /\ DataOK

(* Whatever a live connection waits for, something will wake it: an open one    *)
(* has a read outstanding or frames to process, and one that opens or closes    *)
(* has a timer, which no error, answer or overwritten timer pointer takes away. *)
Watched ==
    /\ state = "open" => reading \/ ~Idle
    /\ state = "closing" \/ phase \in {"request", "response"} => handTimer # "none"
    /\ phase \in Steps \cup {"shutdown"} => stepTimer # "none"

(* RFC 6455, 5.5.1: after a close frame an endpoint sends no data frame, and it *)
(* answers no ping: m_state is tested before every push but that of a close.    *)
NothingAfterClose ==
    \A i, j \in 1 .. Len(out) :
        i < j /\ out[i] \in CloseFrames => out[j] \in CloseFrames

(* m_write_flag and the dispatch of write_frame lose no wake-up: frames that    *)
(* wait in m_send_queue have a write outstanding, whose handler will see them,  *)
(* or a write_frame posted.                                                     *)
NoFrameForgotten ==
    state \in {"open", "closing"} /\ taken < Len(out) => written < taken \/ posted > 0

(* Every data frame that came while the connection was open has been handed to  *)
(* on_message, also those that came in the same read as the opening response.   *)
EveryFrameDelivered ==
    state = "open" => delivered = {i \in 1 .. pos : fromPeer[i] = "text"}

(* The handlers client_impl sets are called in the order it relies on: see      *)
(* Websocket.                                                                   *)
Session ==
    IF phase = "none" THEN "none"
    ELSE IF state \in {"open", "closing"} THEN state
    ELSE IF tstat = "closed" THEN "closing" ELSE "connecting"

W == INSTANCE Websocket WITH ws <- Session

ImplementsWebsocket == W!Spec
===============================================================================
