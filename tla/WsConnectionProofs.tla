--------------------------- MODULE WsConnectionProofs ---------------------------
(***************************************************************************)
(* Proofs about WsConnection, for every bound and both builds.  IInv says  *)
(* how the transport's phase goes with m_state, that nothing but data is   *)
(* queued before a close, that the code is the abnormal one until a close  *)
(* has been sent, and in which order the peer's items come.                *)
(***************************************************************************)
EXTENDS WsConnection, TLAPS

PhaseAgrees ==
    /\ state = "connecting" <=> phase \in Steps \cup {"request", "response"}
    /\ state \in {"open", "closing"} <=> phase = "frames"
    /\ state # "closed" => tstat = "unknown"
    /\ phase = "shutdown" => tstat # "unknown"

NothingYet == state = "connecting" => out = << >> /\ delivered = {}

NotClosedYet == state = "open" => \A i \in 1 .. Len(out) : out[i] \notin CloseFrames

CodeAgrees ==
    state \in {"connecting", "open"} \/ tstat = "failed" => code = "abnormal_close"

AnswerFirst ==
    /\ \A i \in 1 .. Len(fromPeer) :
          fromPeer[i] \in PeerFrames => \E j \in 1 .. Len(fromPeer) : fromPeer[j] = "accept"
    /\ \A i, j \in 1 .. Len(fromPeer) : i < j /\ fromPeer[j] = "accept" => fromPeer[i] = "part"

IInv ==
    /\ TypeOK
    /\ PhaseAgrees
    /\ NothingYet
    /\ NotClosedYet
    /\ CodeAgrees
    /\ AnswerFirst
    /\ Watched
    /\ NothingAfterClose
    /\ NoFrameForgotten
    /\ EveryFrameDelivered

-------------------------------------------------------------------------------
\* What a handler that calls terminate leaves behind.
Terminated ==
    /\ phase # "none"
    /\ handTimer' = "none"
    /\ late' \in Nat
    /\ state' = "closed"
    /\ reading' = IF state = "closed" THEN reading ELSE FALSE
    /\ \/ code' = "abnormal_close"
       \/ state = "closing" /\ code' = code
    /\ \/ /\ state = "closed"
          /\ phase' = phase /\ tstat' = tstat /\ stepTimer' = stepTimer
       \/ /\ state # "closed"
          /\ tstat' = IF state = "connecting" THEN "failed" ELSE "closed"
          /\ \/ phase' = "shutdown" /\ stepTimer' = "armed"
             \/ phase' = "none" /\ stepTimer' = "none"
    /\ posted' \in Nat
    /\ tls' = tls /\ out' = out /\ written' = written
    /\ fromPeer' = fromPeer /\ read' = read /\ delivered' = delivered

LEMMA TerminateEffect ==
    ASSUME ControlOK, phase # "none",
           \/ Terminate(TRUE, 0)
           \/ state = "closing" /\ Terminate(FALSE, 0)
           \/ (handTimer = "expired" \/ late > 0) /\ Terminate(TRUE, 1),
           posted' \in Nat,
           UNCHANGED <<tls, out, written, fromPeer, read, delivered>>
    PROVE  Terminated
<1>1. handTimer' = "none" /\ late' \in Nat
  BY DEF ControlOK, Terminate, Cancel
<1>2. \/ code' = "abnormal_close"
      \/ state = "closing" /\ code' = code
  BY DEF Terminate
<1>3. CASE state = "closed"
  BY <1>1, <1>2, <1>3 DEF Terminate, Terminated
<1>4. CASE state # "closed"
  <2>1. Shutdown
    BY <1>4 DEF Terminate
  <2> QED
    BY <1>1, <1>2, <1>4, <2>1 DEF Shutdown, Terminated
<1> QED
  BY <1>3, <1>4

LEMMA Numbers ==
    ASSUME DataOK
    PROVE  /\ Len(out) \in Nat /\ taken \in Nat /\ taken <= Len(out)
           /\ written \in Nat /\ written <= taken
           /\ Len(fromPeer) \in Nat /\ read \in Nat /\ read <= Len(fromPeer)
           /\ pos \in Nat /\ pos <= read
  BY DEF DataOK

LEMMA PushEffect ==
    ASSUME DataOK, NEW frame \in {"text", "pong", "close", "last"}, Push(frame)
    PROVE  /\ out' \in Seq({"text", "pong", "close", "last"})
           /\ Len(out') = Len(out) + 1
           /\ taken' \in 0 .. Len(out')
           /\ written' \in 0 .. taken'
  BY DEF DataOK, Push

\* And where its marks are afterwards.
Marks == taken' \in taken .. Len(out) /\ pos' \in {pos, read}

\* Every step terminates the connection, or is one of the rest.
LEMMA NextSplit ==
    ASSUME TypeOK, PhaseAgrees, NotClosedYet, [Next]_vars
    PROVE  \/ Terminated /\ Marks
           \/ Connect
           \/ Send
           \/ StepDone
           \/ RequestWritten
           \/ ReadPart
           \/ ReadAccept
           \/ ReadFrames
           \/ ConsumeText
           \/ ConsumePing
           \/ ConsumeBadClose
           \/ WriteNothing
           \/ WriteDone
           \/ StepExpires
           \/ HandshakeExpires
           \/ ShutdownEnds
           \/ PeerAnswers
           \/ PeerTalks
           \/ PeerHangsUp
           \/ \E c \in Codes : Close(c)
           \/ ConsumeClose("normal", "close_normal")
           \/ ConsumeClose("policy_violation", "close_policy")
           \/ state = "open" /\ ConsumeMalformed
           \/ state # "closed" /\ WriteFrame
           \/ UNCHANGED vars
<1> USE DEF TypeOK, outVars, inVars
<1>a. posted \in Nat
  BY DEF ControlOK
<1>b. (taken' = taken => taken' \in taken .. Len(out)) /\ taken \in Nat /\ Len(out) \in Nat
  BY Numbers
<1>1. CASE StepFails \/ RequestFails \/ ReadRefused \/ ReadFails
  <2>1. Terminated
    BY <1>1, <1>a, TerminateEffect DEF StepFails, RequestFails, ReadRefused, ReadFails, Steps
  <2>2. Marks
    BY <1>1, <1>b DEF StepFails, RequestFails, ReadRefused, ReadFails, Marks
  <2> QED
    BY <2>1, <2>2
<1>2. CASE ReadEof
  <2>1. Terminate(TRUE, 0) \/ (state = "closing" /\ Terminate(FALSE, 0))
    BY <1>2 DEF ReadEof, Terminate
  <2>2. Terminated
    BY <1>2, <1>a, <2>1, TerminateEffect DEF ReadEof
  <2>3. Marks
    BY <1>2, <1>b DEF ReadEof, Marks
  <2> QED
    BY <2>2, <2>3
<1>3. CASE WriteEnds
  <2>1. taken \in 1 .. Len(out) /\ phase # "none"
    BY <1>3, Numbers DEF WriteEnds, PhaseAgrees
  <2>2. out[taken] = "last" => state = "closing"
    BY <1>3, <2>1 DEF WriteEnds, NotClosedYet, CloseFrames
  <2>3. Terminated
    BY <1>3, <1>a, <2>1, <2>2, TerminateEffect DEF WriteEnds
  <2>4. Marks
    BY <1>3, <1>b DEF WriteEnds, Marks
  <2> QED
    BY <2>3, <2>4
<1>4. CASE HandshakeTimeout
  <2>1. Terminated
    BY <1>4, <1>a, TerminateEffect DEF HandshakeTimeout
  <2>2. Marks
    BY <1>4, <1>b DEF HandshakeTimeout, Marks
  <2> QED
    BY <2>1, <2>2
<1>5. CASE ConsumeMalformed
  <2>1. CASE state = "closing"
    <3>1. Terminated
      BY <1>5, <1>a, <2>1, TerminateEffect DEF ConsumeMalformed
    <3>2. Marks
      BY <1>5, <1>b, <2>1 DEF ConsumeMalformed, Marks
    <3> QED
      BY <3>1, <3>2
  <2>2. state \in {"open", "closing"}
    BY <1>5 DEF ConsumeMalformed
  <2> QED
    BY <1>5, <2>1, <2>2
<1>6. CASE WriteFrame
  <2>1. CASE state = "closed"
    <3>1. PICK n \in 1 .. Len(out) : Batch(n) /\ taken' = n
      BY <1>6 DEF WriteFrame
    <3>2. posted' \in Nat
      BY <1>6, <1>a DEF WriteFrame
    <3>3. Terminated
      BY <1>6, <2>1, <3>2, TerminateEffect DEF WriteFrame
    <3>4. Marks
      BY <1>6, <1>b, <3>1 DEF WriteFrame, Batch, Marks
    <3> QED
      BY <3>3, <3>4
  <2> QED
    BY <1>6, <2>1
<1> QED
  BY <1>1, <1>2, <1>3, <1>4, <1>5, <1>6 DEF Next, User, Opening, Reading, Writing, Timers,
     Peer, ConsumeFrame

\* The control part of the type invariant.
\* The control part of the type invariant.
\* The control part of the type invariant.
\* The control part of the type invariant.
\* The control part of the type invariant.
\* The control part of the type invariant.
\* The control part of the type invariant.
\* The control part of the type invariant.
\* The control part of the type invariant.
\* The control part of the type invariant.
\* The control part of the type invariant.
LEMMA ControlStep ==
    ASSUME TypeOK, PhaseAgrees, NotClosedYet, [Next]_vars
    PROVE  ControlOK'
<1> USE DEF TypeOK, ControlOK, Phases, Codes, Terminal, Steps, vars, stateVars, timerVars, outVars, inVars
<1>1. CASE Terminated /\ Marks
  BY <1>1 DEF Terminated, Marks
<1>2. CASE Connect
  BY <1>2 DEF Connect
<1>3. CASE Send
  BY <1>3 DEF Send, Push
<1>4. CASE \E c \in Codes : Close(c)
  BY <1>4 DEF Close, SendCloseFrame, Push
<1>5. CASE ConsumeClose("normal", "close_normal")
  BY <1>5 DEF ConsumeClose, Consume, SendCloseFrame, Push
<1>6. CASE ConsumeClose("policy_violation", "close_policy")
  BY <1>6 DEF ConsumeClose, Consume, SendCloseFrame, Push
<1>7. CASE ConsumeBadClose
  BY <1>7 DEF ConsumeBadClose, Consume, SendCloseFrame, Push
<1>8. CASE state = "open" /\ ConsumeMalformed
  BY <1>8 DEF ConsumeMalformed, SendCloseFrame, Push
<1>9. CASE ConsumeText
  BY <1>9 DEF ConsumeText, Consume
<1>10. CASE ConsumePing
  BY <1>10 DEF ConsumePing, Consume, Push
<1>11. CASE StepDone
  BY <1>11 DEF StepDone, Resolved, Connected, SendHttpRequest
<1>12. CASE RequestWritten
  BY <1>12 DEF RequestWritten
<1>13. CASE ReadPart
  BY <1>13 DEF ReadPart, Readable
<1>14. CASE ReadAccept
  BY <1>14 DEF ReadAccept, Readable, Cancel
<1>15. CASE ReadFrames
  BY <1>15 DEF ReadFrames, Readable
<1>16. CASE WriteNothing
  BY <1>16 DEF WriteNothing
<1>17. CASE state # "closed" /\ WriteFrame
  <2>1. taken < taken' /\ taken' <= Len(out) /\ taken = written /\ posted' = posted - 1
    BY <1>17, Numbers DEF WriteFrame, Batch, TypeOK
  <2>2. /\ posted > 0 /\ Idle
        /\ UNCHANGED <<tls, stateVars, timerVars, reading, out, written, fromPeer, read, pos, delivered>>
    BY <1>17 DEF WriteFrame
  <2> QED
    BY <2>1, <2>2
<1>18. CASE WriteDone
  BY <1>18 DEF WriteDone
<1>19. CASE StepExpires
  BY <1>19 DEF StepExpires
<1>20. CASE HandshakeExpires
  BY <1>20 DEF HandshakeExpires
<1>21. CASE ShutdownEnds
  BY <1>21 DEF ShutdownEnds
<1>22. CASE PeerAnswers
  BY <1>22 DEF PeerAnswers, PeerSends
<1>23. CASE PeerTalks
  BY <1>23 DEF PeerTalks, PeerSends
<1>24. CASE PeerHangsUp
  BY <1>24 DEF PeerHangsUp, PeerSends
<1>25. CASE UNCHANGED vars
  BY <1>25 DEF vars
<1> QED
  BY <1>1, <1>2, <1>3, <1>4, <1>5, <1>6, <1>7, <1>8, <1>9, <1>10, <1>11, <1>12, <1>13, <1>14,
     <1>15, <1>16, <1>17, <1>18, <1>19, <1>20, <1>21, <1>22, <1>23, <1>24, <1>25, NextSplit DEF TypeOK

\* The data part: no mark passes the next.
LEMMA DataStep ==
    ASSUME TypeOK, PhaseAgrees, NotClosedYet, [Next]_vars
    PROVE  DataOK'
<1> USE DEF TypeOK, DataOK, Idle, vars, stateVars, timerVars, outVars, inVars
<1>1. CASE Terminated /\ Marks
  BY <1>1, Numbers DEF Terminated, Marks
<1>2. CASE Connect
  BY <1>2, Numbers DEF Connect
<1>3. CASE Send
  BY <1>3, Numbers, PushEffect DEF Send
<1>4. CASE \E c \in Codes : Close(c)
  BY <1>4, Numbers, PushEffect DEF Close, SendCloseFrame
<1>5. CASE ConsumeClose("normal", "close_normal")
  BY <1>5, Numbers, PushEffect DEF ConsumeClose, Consume, SendCloseFrame
<1>6. CASE ConsumeClose("policy_violation", "close_policy")
  BY <1>6, Numbers, PushEffect DEF ConsumeClose, Consume, SendCloseFrame
<1>7. CASE ConsumeBadClose
  BY <1>7, Numbers, PushEffect DEF ConsumeBadClose, Consume, SendCloseFrame
<1>8. CASE state = "open" /\ ConsumeMalformed
  BY <1>8, Numbers, PushEffect DEF ConsumeMalformed, SendCloseFrame
<1>9. CASE ConsumeText
  BY <1>9, Numbers DEF ConsumeText, Consume
<1>10. CASE ConsumePing
  BY <1>10, Numbers, PushEffect DEF ConsumePing, Consume
<1>11. CASE StepDone
  BY <1>11, Numbers DEF StepDone, Resolved, Connected, SendHttpRequest
<1>12. CASE RequestWritten
  BY <1>12, Numbers DEF RequestWritten
<1>13. CASE ReadPart
  BY <1>13, Numbers DEF ReadPart, Readable
<1>14. CASE ReadAccept
  BY <1>14, Numbers DEF ReadAccept, Readable, Cancel
<1>15. CASE ReadFrames
  BY <1>15, Numbers DEF ReadFrames, Readable
<1>16. CASE WriteNothing
  BY <1>16, Numbers DEF WriteNothing
<1>17. CASE state # "closed" /\ WriteFrame
  BY <1>17, Numbers DEF WriteFrame, Batch
<1>18. CASE WriteDone
  BY <1>18, Numbers DEF WriteDone
<1>19. CASE StepExpires
  BY <1>19, Numbers DEF StepExpires
<1>20. CASE HandshakeExpires
  BY <1>20, Numbers DEF HandshakeExpires
<1>21. CASE ShutdownEnds
  BY <1>21, Numbers DEF ShutdownEnds
<1>22. CASE PeerAnswers
  BY <1>22, Numbers DEF PeerAnswers, PeerSends
<1>23. CASE PeerTalks
  BY <1>23, Numbers DEF PeerTalks, PeerSends
<1>24. CASE PeerHangsUp
  BY <1>24, Numbers DEF PeerHangsUp, PeerSends
<1>25. CASE UNCHANGED vars
  BY <1>25, Numbers DEF vars
<1> QED
  BY <1>1, <1>2, <1>3, <1>4, <1>5, <1>6, <1>7, <1>8, <1>9, <1>10, <1>11, <1>12, <1>13, <1>14,
     <1>15, <1>16, <1>17, <1>18, <1>19, <1>20, <1>21, <1>22, <1>23, <1>24, <1>25, NextSplit DEF TypeOK

LEMMA PhaseStep ==
    ASSUME TypeOK, PhaseAgrees, NotClosedYet, [Next]_vars
    PROVE  PhaseAgrees'
<1> USE DEF PhaseAgrees, Phases, Steps, vars, stateVars, timerVars, outVars, inVars
<1>1. CASE \/ StepDone
           \/ RequestWritten
  BY <1>1 DEF StepDone, Resolved, Connected, SendHttpRequest, RequestWritten
<1>2. CASE \/ ReadPart
           \/ ReadFrames
  BY <1>2 DEF ReadPart, Readable, ReadFrames
<1>3. CASE \/ ConsumeText
           \/ ConsumePing
  BY <1>3 DEF ConsumeText, Consume, ConsumePing, Push
<1>4. CASE \/ WriteNothing
           \/ WriteDone
           \/ StepExpires
           \/ HandshakeExpires
  BY <1>4 DEF WriteNothing, WriteDone, StepExpires, HandshakeExpires
<1>5. CASE \/ PeerAnswers
           \/ PeerTalks
           \/ PeerHangsUp
           \/ UNCHANGED vars
  BY <1>5 DEF PeerAnswers, PeerSends, PeerTalks, PeerHangsUp, vars
<1>6. CASE Terminated /\ Marks
  BY <1>6 DEF Terminated, Marks
<1>7. CASE Connect
  BY <1>7 DEF Connect
<1>8. CASE Send
  BY <1>8 DEF Send, Push
<1>9. CASE \E c \in Codes : Close(c)
  BY <1>9 DEF Close, SendCloseFrame, Push
<1>10. CASE ConsumeClose("normal", "close_normal")
  BY <1>10 DEF ConsumeClose, Consume, SendCloseFrame, Push
<1>11. CASE ConsumeClose("policy_violation", "close_policy")
  BY <1>11 DEF ConsumeClose, Consume, SendCloseFrame, Push
<1>12. CASE ConsumeBadClose
  BY <1>12 DEF ConsumeBadClose, Consume, SendCloseFrame, Push
<1>13. CASE state = "open" /\ ConsumeMalformed
  BY <1>13 DEF ConsumeMalformed, SendCloseFrame, Push
<1>14. CASE ReadAccept
  BY <1>14 DEF ReadAccept, Readable, Cancel
<1>15. CASE state # "closed" /\ WriteFrame
  BY <1>15 DEF WriteFrame
<1>16. CASE ShutdownEnds
  BY <1>16 DEF ShutdownEnds
<1> QED
  BY <1>1, <1>2, <1>3, <1>4, <1>5, <1>6, <1>7, <1>8, <1>9, <1>10, <1>11, <1>12, <1>13, <1>14,
     <1>15, <1>16, NextSplit DEF TypeOK

LEMMA NothingStep ==
    ASSUME TypeOK, PhaseAgrees, NotClosedYet, NothingYet, [Next]_vars
    PROVE  NothingYet'
<1> USE DEF NothingYet, PhaseAgrees, Steps, vars, stateVars, timerVars, outVars, inVars
<1>1. CASE \/ StepDone
           \/ RequestWritten
  BY <1>1 DEF StepDone, Resolved, Connected, SendHttpRequest, RequestWritten
<1>2. CASE \/ ReadPart
           \/ ReadFrames
  BY <1>2 DEF ReadPart, Readable, ReadFrames
<1>3. CASE \/ ConsumeText
           \/ ConsumePing
  BY <1>3 DEF ConsumeText, Consume, ConsumePing, Push
<1>4. CASE \/ WriteNothing
           \/ WriteDone
           \/ StepExpires
           \/ HandshakeExpires
  BY <1>4 DEF WriteNothing, WriteDone, StepExpires, HandshakeExpires
<1>5. CASE \/ PeerAnswers
           \/ PeerTalks
           \/ PeerHangsUp
           \/ UNCHANGED vars
  BY <1>5 DEF PeerAnswers, PeerSends, PeerTalks, PeerHangsUp, vars
<1>6. CASE Terminated /\ Marks
  BY <1>6 DEF Terminated, Marks
<1>7. CASE Connect
  BY <1>7 DEF Connect
<1>8. CASE Send
  BY <1>8 DEF Send, Push
<1>9. CASE \E c \in Codes : Close(c)
  BY <1>9 DEF Close, SendCloseFrame, Push
<1>10. CASE ConsumeClose("normal", "close_normal")
  BY <1>10 DEF ConsumeClose, Consume, SendCloseFrame, Push
<1>11. CASE ConsumeClose("policy_violation", "close_policy")
  BY <1>11 DEF ConsumeClose, Consume, SendCloseFrame, Push
<1>12. CASE ConsumeBadClose
  BY <1>12 DEF ConsumeBadClose, Consume, SendCloseFrame, Push
<1>13. CASE state = "open" /\ ConsumeMalformed
  BY <1>13 DEF ConsumeMalformed, SendCloseFrame, Push
<1>14. CASE ReadAccept
  BY <1>14 DEF ReadAccept, Readable, Cancel
<1>15. CASE state # "closed" /\ WriteFrame
  BY <1>15 DEF WriteFrame
<1>16. CASE ShutdownEnds
  BY <1>16 DEF ShutdownEnds
<1> QED
  BY <1>1, <1>2, <1>3, <1>4, <1>5, <1>6, <1>7, <1>8, <1>9, <1>10, <1>11, <1>12, <1>13, <1>14,
     <1>15, <1>16, NextSplit DEF TypeOK

LEMMA CodeStep ==
    ASSUME TypeOK, PhaseAgrees, NotClosedYet, CodeAgrees, [Next]_vars
    PROVE  CodeAgrees'
<1> USE DEF CodeAgrees, PhaseAgrees, Steps, vars, stateVars, timerVars, outVars, inVars
<1>1. CASE \/ StepDone
           \/ RequestWritten
  BY <1>1 DEF StepDone, Resolved, Connected, SendHttpRequest, RequestWritten
<1>2. CASE \/ ReadPart
           \/ ReadFrames
  BY <1>2 DEF ReadPart, Readable, ReadFrames
<1>3. CASE \/ ConsumeText
           \/ ConsumePing
  BY <1>3 DEF ConsumeText, Consume, ConsumePing, Push
<1>4. CASE \/ WriteNothing
           \/ WriteDone
           \/ StepExpires
           \/ HandshakeExpires
  BY <1>4 DEF WriteNothing, WriteDone, StepExpires, HandshakeExpires
<1>5. CASE \/ PeerAnswers
           \/ PeerTalks
           \/ PeerHangsUp
           \/ UNCHANGED vars
  BY <1>5 DEF PeerAnswers, PeerSends, PeerTalks, PeerHangsUp, vars
<1>6. CASE Terminated /\ Marks
  BY <1>6 DEF Terminated, Marks
<1>7. CASE Connect
  BY <1>7 DEF Connect
<1>8. CASE Send
  BY <1>8 DEF Send, Push
<1>9. CASE \E c \in Codes : Close(c)
  BY <1>9 DEF Close, SendCloseFrame, Push
<1>10. CASE ConsumeClose("normal", "close_normal")
  BY <1>10 DEF ConsumeClose, Consume, SendCloseFrame, Push
<1>11. CASE ConsumeClose("policy_violation", "close_policy")
  BY <1>11 DEF ConsumeClose, Consume, SendCloseFrame, Push
<1>12. CASE ConsumeBadClose
  BY <1>12 DEF ConsumeBadClose, Consume, SendCloseFrame, Push
<1>13. CASE state = "open" /\ ConsumeMalformed
  BY <1>13 DEF ConsumeMalformed, SendCloseFrame, Push
<1>14. CASE ReadAccept
  BY <1>14 DEF ReadAccept, Readable, Cancel
<1>15. CASE state # "closed" /\ WriteFrame
  BY <1>15 DEF WriteFrame
<1>16. CASE ShutdownEnds
  BY <1>16 DEF ShutdownEnds
<1> QED
  BY <1>1, <1>2, <1>3, <1>4, <1>5, <1>6, <1>7, <1>8, <1>9, <1>10, <1>11, <1>12, <1>13, <1>14,
     <1>15, <1>16, NextSplit DEF TypeOK

LEMMA WatchedStep ==
    ASSUME TypeOK, PhaseAgrees, NotClosedYet, Watched, [Next]_vars
    PROVE  Watched'
<1> USE DEF Watched, PhaseAgrees, Idle, Steps, vars, stateVars, timerVars, outVars, inVars
<1>1. CASE Terminated /\ Marks
  BY <1>1 DEF Terminated, Marks
<1>2. CASE Connect
  BY <1>2 DEF Connect
<1>3. CASE Send
  BY <1>3 DEF Send, Push
<1>4. CASE \E c \in Codes : Close(c)
  BY <1>4 DEF Close, SendCloseFrame, Push
<1>5. CASE ConsumeClose("normal", "close_normal")
  BY <1>5 DEF ConsumeClose, Consume, SendCloseFrame, Push
<1>6. CASE ConsumeClose("policy_violation", "close_policy")
  BY <1>6 DEF ConsumeClose, Consume, SendCloseFrame, Push
<1>7. CASE ConsumeBadClose
  BY <1>7 DEF ConsumeBadClose, Consume, SendCloseFrame, Push
<1>8. CASE state = "open" /\ ConsumeMalformed
  BY <1>8 DEF ConsumeMalformed, SendCloseFrame, Push
<1>9. CASE ConsumeText
  BY <1>9 DEF ConsumeText, Consume
<1>10. CASE ConsumePing
  BY <1>10 DEF ConsumePing, Consume, Push
<1>11. CASE StepDone
  BY <1>11 DEF StepDone, Resolved, Connected, SendHttpRequest
<1>12. CASE RequestWritten
  BY <1>12 DEF RequestWritten
<1>13. CASE ReadPart
  BY <1>13 DEF ReadPart, Readable
<1>14. CASE ReadAccept
  BY <1>14 DEF ReadAccept, Readable, Cancel
<1>15. CASE ReadFrames
  BY <1>15, Numbers DEF ReadFrames, Readable, TypeOK
<1>16. CASE WriteNothing
  BY <1>16 DEF WriteNothing
<1>17. CASE state # "closed" /\ WriteFrame
  <2>1. taken < taken' /\ taken' <= Len(out) /\ taken = written /\ posted' = posted - 1
    BY <1>17, Numbers DEF WriteFrame, Batch, TypeOK
  <2>2. /\ posted > 0 /\ Idle
        /\ UNCHANGED <<tls, stateVars, timerVars, reading, out, written, fromPeer, read, pos, delivered>>
    BY <1>17 DEF WriteFrame
  <2> QED
    BY <2>1, <2>2
<1>18. CASE WriteDone
  BY <1>18 DEF WriteDone
<1>19. CASE StepExpires
  BY <1>19 DEF StepExpires
<1>20. CASE HandshakeExpires
  BY <1>20 DEF HandshakeExpires
<1>21. CASE ShutdownEnds
  BY <1>21 DEF ShutdownEnds
<1>22. CASE PeerAnswers
  BY <1>22 DEF PeerAnswers, PeerSends
<1>23. CASE PeerTalks
  BY <1>23 DEF PeerTalks, PeerSends
<1>24. CASE PeerHangsUp
  BY <1>24 DEF PeerHangsUp, PeerSends
<1>25. CASE UNCHANGED vars
  BY <1>25 DEF vars
<1> QED
  BY <1>1, <1>2, <1>3, <1>4, <1>5, <1>6, <1>7, <1>8, <1>9, <1>10, <1>11, <1>12, <1>13, <1>14,
     <1>15, <1>16, <1>17, <1>18, <1>19, <1>20, <1>21, <1>22, <1>23, <1>24, <1>25, NextSplit DEF TypeOK


\* What a step may push.
PushOK(frame) ==
    /\ Push(frame)
    /\ \/ frame \in CloseFrames /\ state' = "closing"
       \/ frame \in {"text", "pong"} /\ state = "open" /\ state' = "open"

LEMMA OutStep ==
    ASSUME TypeOK, PhaseAgrees, NotClosedYet, [Next]_vars
    PROVE  \/ out' = << >>
           \/ out' = out /\ (state' = "open" => state \in {"connecting", "open"})
           \/ \E frame \in {"text", "pong", "close", "last"} : PushOK(frame)
<1> USE DEF CloseFrames, PushOK, outVars, stateVars
<1>1. CASE \/ StepDone
           \/ RequestWritten
  BY <1>1 DEF StepDone, Resolved, Connected, SendHttpRequest, RequestWritten
<1>2. CASE \/ ReadPart
           \/ ReadFrames
  BY <1>2 DEF ReadPart, Readable, ReadFrames
<1>3. CASE \/ WriteNothing
           \/ WriteDone
           \/ StepExpires
           \/ HandshakeExpires
  BY <1>3 DEF WriteNothing, WriteDone, StepExpires, HandshakeExpires
<1>4. CASE \/ PeerAnswers
           \/ PeerTalks
           \/ PeerHangsUp
           \/ UNCHANGED vars
  BY <1>4 DEF PeerAnswers, PeerSends, PeerTalks, PeerHangsUp, vars
<1>5. CASE Terminated /\ Marks
  BY <1>5 DEF Terminated, Marks
<1>6. CASE Connect
  BY <1>6 DEF Connect
<1>7. CASE Send
  BY <1>7 DEF Send
<1>8. CASE \E c \in Codes : Close(c)
  BY <1>8 DEF Close, SendCloseFrame
<1>9. CASE ConsumeClose("normal", "close_normal")
  BY <1>9 DEF ConsumeClose, SendCloseFrame
<1>10. CASE ConsumeClose("policy_violation", "close_policy")
  BY <1>10 DEF ConsumeClose, SendCloseFrame
<1>11. CASE ConsumeBadClose
  BY <1>11 DEF ConsumeBadClose, SendCloseFrame
<1>12. CASE state = "open" /\ ConsumeMalformed
  BY <1>12 DEF ConsumeMalformed, SendCloseFrame
<1>13. CASE ConsumeText
  BY <1>13 DEF ConsumeText, Consume
<1>14. CASE ConsumePing
  BY <1>14 DEF ConsumePing
<1>15. CASE ReadAccept
  BY <1>15 DEF ReadAccept, Cancel, PhaseAgrees, Steps
<1>16. CASE state # "closed" /\ WriteFrame
  BY <1>16 DEF WriteFrame
<1>17. CASE ShutdownEnds
  BY <1>17 DEF ShutdownEnds
<1> QED
  BY <1>1, <1>2, <1>3, <1>4, <1>5, <1>6, <1>7, <1>8, <1>9, <1>10, <1>11, <1>12, <1>13, <1>14,
     <1>15, <1>16, <1>17, NextSplit DEF TypeOK


LEMMA CloseStep ==
    ASSUME TypeOK, PhaseAgrees, NothingYet, NotClosedYet, NothingAfterClose, [Next]_vars
    PROVE  NotClosedYet' /\ NothingAfterClose'
<1>1. CASE out' = << >>
  BY <1>1 DEF NotClosedYet, NothingAfterClose
<1>2. CASE out' = out /\ (state' = "open" => state \in {"connecting", "open"})
  BY <1>2 DEF NotClosedYet, NothingAfterClose, NothingYet
<1>3. CASE \E frame \in {"text", "pong", "close", "last"} : PushOK(frame)
  <2>1. PICK frame \in {"text", "pong", "close", "last"} : PushOK(frame)
    BY <1>3
  <2>2. /\ Len(out) \in Nat
        /\ Len(out') = Len(out) + 1
        /\ out'[Len(out) + 1] = frame
        /\ \A i \in 1 .. Len(out) : out'[i] = out[i]
    BY <2>1 DEF TypeOK, DataOK, PushOK, Push
  <2>3. NotClosedYet'
    BY <2>1, <2>2 DEF PushOK, NotClosedYet, CloseFrames
  <2>4. NothingAfterClose'
    BY <2>1, <2>2 DEF PushOK, NotClosedYet, NothingAfterClose, CloseFrames
  <2> QED
    BY <2>3, <2>4
<1> QED
  BY <1>1, <1>2, <1>3, OutStep


LEMMA PushWakes ==
    ASSUME TypeOK, NEW frame, Push(frame)
    PROVE  written' < taken' \/ posted' > 0
<1>1. posted \in Nat
  BY DEF TypeOK, ControlOK
<1> QED
  BY <1>1, Numbers DEF Push, TypeOK

LEMMA WakeStep ==
    ASSUME TypeOK, PhaseAgrees, NotClosedYet, NothingYet, NoFrameForgotten, [Next]_vars
    PROVE  NoFrameForgotten'
<1> USE DEF TypeOK, NoFrameForgotten, NothingYet, PhaseAgrees, Steps, vars, stateVars, timerVars, outVars, inVars
<1>1. CASE Terminated /\ Marks
  BY <1>1, Numbers DEF Terminated, Marks
<1>2. CASE Connect
  BY <1>2, Numbers DEF Connect
<1>3. CASE Send
  BY <1>3, PushWakes DEF Send
<1>4. CASE \E c \in Codes : Close(c)
  BY <1>4, PushWakes DEF Close, SendCloseFrame
<1>5. CASE ConsumeClose("normal", "close_normal")
  BY <1>5, PushWakes DEF ConsumeClose, SendCloseFrame
<1>6. CASE ConsumeClose("policy_violation", "close_policy")
  BY <1>6, PushWakes DEF ConsumeClose, SendCloseFrame
<1>7. CASE ConsumeBadClose
  BY <1>7, PushWakes DEF ConsumeBadClose, SendCloseFrame
<1>8. CASE state = "open" /\ ConsumeMalformed
  BY <1>8, PushWakes DEF ConsumeMalformed, SendCloseFrame
<1>9. CASE ConsumeText
  BY <1>9, Numbers DEF ConsumeText, Consume
<1>10. CASE ConsumePing
  BY <1>10, PushWakes DEF ConsumePing, Consume
<1>11. CASE StepDone
  BY <1>11, Numbers DEF StepDone, Resolved, Connected, SendHttpRequest
<1>12. CASE RequestWritten
  BY <1>12, Numbers DEF RequestWritten
<1>13. CASE ReadPart
  BY <1>13, Numbers DEF ReadPart, Readable
<1>14. CASE ReadAccept
  BY <1>14, Numbers DEF ReadAccept, Readable, Cancel
<1>15. CASE ReadFrames
  BY <1>15, Numbers DEF ReadFrames, Readable
<1>16. CASE WriteNothing
  BY <1>16, Numbers DEF WriteNothing
<1>17. CASE state # "closed" /\ WriteFrame
  BY <1>17, Numbers DEF WriteFrame, Batch
<1>18. CASE WriteDone
  BY <1>18, Numbers DEF WriteDone, ControlOK
<1>19. CASE StepExpires
  BY <1>19, Numbers DEF StepExpires
<1>20. CASE HandshakeExpires
  BY <1>20, Numbers DEF HandshakeExpires
<1>21. CASE ShutdownEnds
  BY <1>21, Numbers DEF ShutdownEnds
<1>22. CASE PeerAnswers
  BY <1>22, Numbers DEF PeerAnswers, PeerSends
<1>23. CASE PeerTalks
  BY <1>23, Numbers DEF PeerTalks, PeerSends
<1>24. CASE PeerHangsUp
  BY <1>24, Numbers DEF PeerHangsUp, PeerSends
<1>25. CASE UNCHANGED vars
  BY <1>25, Numbers DEF vars
<1> QED
  BY <1>1, <1>2, <1>3, <1>4, <1>5, <1>6, <1>7, <1>8, <1>9, <1>10, <1>11, <1>12, <1>13, <1>14,
     <1>15, <1>16, <1>17, <1>18, <1>19, <1>20, <1>21, <1>22, <1>23, <1>24, <1>25, NextSplit DEF TypeOK


LEMMA PeerEffect ==
    ASSUME DataOK, NEW item, PeerSends(item)
    PROVE  /\ Len(fromPeer') = Len(fromPeer) + 1
           /\ fromPeer'[Len(fromPeer) + 1] = item
           /\ \A i \in 1 .. Len(fromPeer) : fromPeer'[i] = fromPeer[i]
           /\ pos' = pos /\ delivered' = delivered /\ state' = state
  BY DEF DataOK, PeerSends, stateVars

\* Whether the peer has answered, in terms of positions.
LEMMA Answered ==
    ASSUME DataOK, NEW item
    PROVE  item \in Range(fromPeer) <=> \E i \in 1 .. Len(fromPeer) : fromPeer[i] = item
  BY DEF DataOK, Range

LEMMA AnswerStep ==
    ASSUME TypeOK, PhaseAgrees, NotClosedYet, AnswerFirst, [Next]_vars
    PROVE  AnswerFirst'
<1> USE DEF TypeOK
<1>1. CASE fromPeer' \in {<< >>, fromPeer}
  BY <1>1 DEF AnswerFirst
<1>2. CASE PeerAnswers
  <2>1. PICK item \in Answers : PeerSends(item)
    BY <1>2 DEF PeerAnswers
  <2>2. /\ item \notin PeerFrames
        /\ \A i \in 1 .. Len(fromPeer) : fromPeer[i] \notin {"accept", "refuse", "eof"}
    BY <1>2, <2>1, Answered DEF PeerAnswers, PeerSends, Answers, PeerFrames
  <2>3. \A i \in 1 .. Len(fromPeer) : fromPeer[i] = "part"
    BY <2>2 DEF AnswerFirst, DataOK, Answers
  <2> QED
    BY <2>1, <2>2, <2>3, PeerEffect, Numbers DEF AnswerFirst, PeerFrames
<1>3. CASE PeerTalks
  <2>1. PICK item \in PeerFrames : PeerSends(item)
    BY <1>3 DEF PeerTalks
  <2>2. \E j \in 1 .. Len(fromPeer) : fromPeer[j] = "accept"
    BY <1>3, Answered DEF PeerTalks
  <2>3. item \notin {"accept", "part"}
    BY DEF PeerFrames
  <2>4. \E j \in 1 .. Len(fromPeer') : fromPeer'[j] = "accept"
    BY <2>1, <2>2, PeerEffect, Numbers
  <2>5. \A i, j \in 1 .. Len(fromPeer') :
            i < j /\ fromPeer'[j] = "accept" => fromPeer'[i] = "part"
    <3>1. /\ Len(fromPeer') = Len(fromPeer) + 1
          /\ fromPeer'[Len(fromPeer) + 1] # "accept"
          /\ \A i \in 1 .. Len(fromPeer) : fromPeer'[i] = fromPeer[i]
      BY <2>1, <2>3, PeerEffect
    <3> QED
      BY <3>1, Numbers DEF AnswerFirst
  <2>6. \A i \in 1 .. Len(fromPeer') :
            fromPeer'[i] \in PeerFrames => \E j \in 1 .. Len(fromPeer') : fromPeer'[j] = "accept"
    BY <2>4
  <2> QED
    BY <2>5, <2>6 DEF AnswerFirst
<1>4. CASE PeerHangsUp
  <2>1. PeerSends("eof")
    BY <1>4 DEF PeerHangsUp
  <2>2. "eof" \notin PeerFrames
    BY DEF PeerFrames
  <2>3. \A i \in 1 .. Len(fromPeer') :
            fromPeer'[i] \in PeerFrames => \E j \in 1 .. Len(fromPeer') : fromPeer'[j] = "accept"
    BY <2>1, <2>2, PeerEffect, Numbers DEF AnswerFirst
  <2>4. \A i, j \in 1 .. Len(fromPeer') :
            i < j /\ fromPeer'[j] = "accept" => fromPeer'[i] = "part"
    BY <2>1, PeerEffect, Numbers DEF AnswerFirst
  <2> QED
    BY <2>3, <2>4 DEF AnswerFirst
<1>5. fromPeer' \in {<< >>, fromPeer} \/ PeerAnswers \/ PeerTalks \/ PeerHangsUp
  BY NextSplit DEF Terminated, Connect, Send, Close, ConsumeClose, ConsumeBadClose,
     ConsumeMalformed, ConsumeText, ConsumePing, Consume, StepDone, Resolved, Connected, SendHttpRequest, RequestWritten,
     ReadPart, ReadAccept, ReadFrames, WriteNothing, WriteFrame, WriteDone, StepExpires,
     HandshakeExpires, ShutdownEnds, vars, inVars
<1> QED
  BY <1>1, <1>2, <1>3, <1>4, <1>5

LEMMA DeliveredStep ==
    ASSUME TypeOK, PhaseAgrees, NotClosedYet, NothingYet, AnswerFirst,
           EveryFrameDelivered, [Next]_vars
    PROVE  EveryFrameDelivered'
<1> USE DEF TypeOK, EveryFrameDelivered, PhaseAgrees, Steps, Idle, vars, stateVars, timerVars, outVars, inVars
<1>1. CASE Terminated /\ Marks
  BY <1>1, Numbers DEF Terminated, Marks
<1>2. CASE Connect
  BY <1>2, Numbers DEF Connect
<1>3. CASE Send
  BY <1>3, Numbers DEF Send, Push
<1>4. CASE \E c \in Codes : Close(c)
  BY <1>4, Numbers DEF Close, SendCloseFrame, Push
<1>5. CASE ConsumeClose("normal", "close_normal")
  BY <1>5, Numbers DEF ConsumeClose, Consume, SendCloseFrame, Push
<1>6. CASE ConsumeClose("policy_violation", "close_policy")
  BY <1>6, Numbers DEF ConsumeClose, Consume, SendCloseFrame, Push
<1>7. CASE ConsumeBadClose
  BY <1>7, Numbers DEF ConsumeBadClose, Consume, SendCloseFrame, Push
<1>8. CASE state = "open" /\ ConsumeMalformed
  BY <1>8, Numbers DEF ConsumeMalformed, SendCloseFrame, Push
<1>9. CASE ConsumeText
  BY <1>9, Numbers DEF ConsumeText, Consume
<1>10. CASE ConsumePing
  BY <1>10, Numbers DEF ConsumePing, Consume, Push
<1>11. CASE StepDone
  BY <1>11, Numbers DEF StepDone, Resolved, Connected, SendHttpRequest
<1>12. CASE RequestWritten
  BY <1>12, Numbers DEF RequestWritten
<1>13. CASE ReadPart
  BY <1>13, Numbers DEF ReadPart, Readable
<1>14. CASE ReadAccept
  <2>1. PICK k \in Readable, j \in read + 1 .. Len(fromPeer) :
                /\ fromPeer[j] = "accept"
                /\ pos' = j
    BY <1>14 DEF ReadAccept
  <2>2. delivered' = {} /\ fromPeer' = fromPeer
    BY <1>14 DEF ReadAccept, NothingYet
  <2>3. \A i \in 1 .. j : fromPeer[i] # "text"
    BY <2>1, Numbers DEF AnswerFirst
  <2> QED
    BY <2>1, <2>2, <2>3
<1>15. CASE ReadFrames
  BY <1>15, Numbers DEF ReadFrames, Readable
<1>16. CASE WriteNothing
  BY <1>16, Numbers DEF WriteNothing
<1>17. CASE state # "closed" /\ WriteFrame
  <2>1. taken < taken' /\ taken' <= Len(out) /\ taken = written /\ posted' = posted - 1
    BY <1>17, Numbers DEF WriteFrame, Batch, TypeOK
  <2>2. /\ posted > 0 /\ Idle
        /\ UNCHANGED <<tls, stateVars, timerVars, reading, out, written, fromPeer, read, pos, delivered>>
    BY <1>17 DEF WriteFrame
  <2> QED
    BY <2>1, <2>2
<1>18. CASE WriteDone
  BY <1>18, Numbers DEF WriteDone
<1>19. CASE StepExpires
  BY <1>19, Numbers DEF StepExpires
<1>20. CASE HandshakeExpires
  BY <1>20, Numbers DEF HandshakeExpires
<1>21. CASE ShutdownEnds
  BY <1>21, Numbers DEF ShutdownEnds
<1>22. CASE PeerAnswers
  BY <1>22, PeerEffect, Numbers DEF PeerAnswers, DataOK
<1>23. CASE PeerTalks
  BY <1>23, PeerEffect, Numbers DEF PeerTalks, DataOK
<1>24. CASE PeerHangsUp
  BY <1>24, PeerEffect, Numbers DEF PeerHangsUp, DataOK
<1>25. CASE UNCHANGED vars
  BY <1>25, Numbers DEF vars
<1> QED
  BY <1>1, <1>2, <1>3, <1>4, <1>5, <1>6, <1>7, <1>8, <1>9, <1>10, <1>11, <1>12, <1>13, <1>14,
     <1>15, <1>16, <1>17, <1>18, <1>19, <1>20, <1>21, <1>22, <1>23, <1>24, <1>25, NextSplit DEF TypeOK


-------------------------------------------------------------------------------
LEMMA InitHolds == Init => IInv
<1> SUFFICES ASSUME Init PROVE IInv
  OBVIOUS
<1>1. ControlOK
  BY BuildsAssumption DEF Init, ControlOK, Phases, Codes
<1>2. DataOK
  BY DEF Init, DataOK
<1>3. PhaseAgrees /\ NothingYet /\ CodeAgrees /\ Watched
  BY DEF Init, PhaseAgrees, NothingYet, CodeAgrees, Watched, Steps
<1>4. NotClosedYet /\ AnswerFirst /\ NothingAfterClose
  BY DEF Init, NotClosedYet, AnswerFirst, NothingAfterClose
<1>5. NoFrameForgotten /\ EveryFrameDelivered
  BY DEF Init, NoFrameForgotten, EveryFrameDelivered
<1> QED
  BY <1>1, <1>2, <1>3, <1>4, <1>5 DEF IInv, TypeOK

LEMMA InvariantStep == IInv /\ [Next]_vars => IInv'
  BY ControlStep, DataStep, PhaseStep, NothingStep, CodeStep, WatchedStep, CloseStep,
     WakeStep, AnswerStep, DeliveredStep
     DEF IInv, TypeOK

LEMMA Inductive == Spec => []IInv
<1>1. Init => IInv
  BY InitHolds
<1>2. IInv /\ [Next]_vars => IInv'
  BY InvariantStep
<1> QED
  BY <1>1, <1>2, PTL DEF Spec

(* The state of the connection has its types, and no mark passes another: no    *)
(* frame is written twice or processed before it was read, for any number of    *)
(* frames.                                                                      *)
THEOREM TypeCorrect == Spec => []TypeOK
<1>1. IInv => TypeOK
  BY DEF IInv
<1> QED
  BY <1>1, Inductive, PTL

(* An open connection has a read outstanding or frames to process, one that     *)
(* opens or closes has a timer, whatever is cancelled or overwritten.           *)
THEOREM AlwaysWatched == Spec => []Watched
<1>1. IInv => Watched
  BY DEF IInv
<1> QED
  BY <1>1, Inductive, PTL

(* Nothing but close frames is queued after a close frame.                      *)
THEOREM CloseIsLast == Spec => []NothingAfterClose
<1>1. IInv => NothingAfterClose
  BY DEF IInv
<1> QED
  BY <1>1, Inductive, PTL

(* A frame that waits to be written is never left without a handler to write it.*)
THEOREM NoWakeUpLost == Spec => []NoFrameForgotten
<1>1. IInv => NoFrameForgotten
  BY DEF IInv
<1> QED
  BY <1>1, Inductive, PTL

(* on_message has seen every data frame processed while the connection is open. *)
THEOREM NothingLost == Spec => []EveryFrameDelivered
<1>1. IInv => EveryFrameDelivered
  BY DEF IInv
<1> QED
  BY <1>1, Inductive, PTL


-------------------------------------------------------------------------------
(* Every step of the connection is a step of Websocket, or changes nothing that *)
(* client_impl can see: one on_fail, or one on_open and then one on_close, with *)
(* the close code each comes with, for any number of frames and both builds.    *)
(* The liveness part of the implementation is left to TLC.                      *)
THEOREM Simulation == Spec => W!Init /\ [][W!Next]_(W!vars)
<1>1. Init => W!Init
  BY DEF Init, W!Init, Session
<1>2. IInv /\ [Next]_vars => [W!Next]_(W!vars)
  <2> SUFFICES ASSUME IInv, [Next]_vars PROVE [W!Next]_(W!vars)
    OBVIOUS
  <2>a. TypeOK /\ PhaseAgrees /\ NotClosedYet /\ CodeAgrees
    BY DEF IInv
  <2> USE <2>a DEF Session, W!vars, PhaseAgrees, CodeAgrees, Steps, vars, stateVars, timerVars, outVars, inVars
  <2>1. CASE \/ StepDone
             \/ RequestWritten
    BY <2>1 DEF StepDone, Resolved, Connected, SendHttpRequest, RequestWritten
  <2>2. CASE \/ ReadPart
             \/ ReadFrames
    BY <2>2 DEF ReadPart, Readable, ReadFrames
  <2>3. CASE \/ ConsumeText
             \/ ConsumePing
    BY <2>3 DEF ConsumeText, Consume, ConsumePing, Push
  <2>4. CASE \/ WriteNothing
             \/ WriteDone
             \/ StepExpires
             \/ HandshakeExpires
    BY <2>4 DEF WriteNothing, WriteDone, StepExpires, HandshakeExpires
  <2>5. CASE \/ PeerAnswers
             \/ PeerTalks
             \/ PeerHangsUp
             \/ UNCHANGED vars
    BY <2>5 DEF PeerAnswers, PeerSends, PeerTalks, PeerHangsUp, vars
  <2>6. CASE Terminated /\ Marks
    <3>1. CASE state = "connecting"
      BY <2>6, <3>1 DEF Terminated, W!Next, W!Fail
    <3>2. CASE state \in {"open", "closing"} /\ phase' = "none"
      BY <2>6, <3>2 DEF Terminated, W!Next, W!Closed
    <3>3. CASE state \in {"open", "closing"} /\ phase' = "shutdown"
      BY <2>6, <3>3 DEF Terminated, W!Next, W!Close, W!Recode, Codes
    <3>4. CASE state = "closed"
      BY <2>6, <3>4 DEF Terminated, W!Next, W!Recode, Codes, TypeOK, ControlOK, Phases
    <3> QED
      BY <2>6, <3>1, <3>2, <3>3, <3>4 DEF Terminated, TypeOK, ControlOK
  <2>7. CASE Connect
    BY <2>7 DEF Connect, W!Next, W!Connect
  <2>8. CASE Send
    BY <2>8 DEF Send, Push
  <2>9. CASE \E c \in Codes : Close(c)
    BY <2>9 DEF Close, SendCloseFrame, W!Next, W!Close
  <2>10. CASE ConsumeClose("normal", "close_normal")
    BY <2>10 DEF ConsumeClose, Consume, SendCloseFrame, W!Next, W!Close, Codes
  <2>11. CASE ConsumeClose("policy_violation", "close_policy")
    BY <2>11 DEF ConsumeClose, Consume, SendCloseFrame, W!Next, W!Close, Codes, Terminal
  <2>12. CASE ConsumeBadClose
    <3>1. Session \in {"open", "closing"} /\ Session' = "closing" /\ code' = "protocol_error"
      BY <2>12 DEF ConsumeBadClose, Consume, SendCloseFrame
    <3> QED
      BY <3>1 DEF W!Next, W!Close, W!Recode, Codes, Terminal
  <2>13. CASE state = "open" /\ ConsumeMalformed
    BY <2>13 DEF ConsumeMalformed, SendCloseFrame, W!Next, W!Close, Codes, Terminal
  <2>14. CASE ReadAccept
    BY <2>14 DEF ReadAccept, W!Next, W!Open
  <2>15. CASE state # "closed" /\ WriteFrame
    BY <2>15 DEF WriteFrame
  <2>16. CASE ShutdownEnds
    BY <2>16 DEF ShutdownEnds, W!Next, W!Closed, W!Fail, TypeOK, ControlOK
  <2> QED
    BY <2>1, <2>2, <2>3, <2>4, <2>5, <2>6, <2>7, <2>8, <2>9, <2>10, <2>11, <2>12, <2>13, <2>14,
       <2>15, <2>16, NextSplit DEF TypeOK
<1> QED
  BY <1>1, <1>2, Inductive, PTL DEF Spec
===============================================================================
