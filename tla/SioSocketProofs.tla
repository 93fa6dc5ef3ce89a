---------------------------- MODULE SioSocketProofs ----------------------------
(***************************************************************************)
(* Proofs about SioSocket: for any number of application threads and any   *)
(* bounds, no packet is ever in two places, none overtakes a queued packet *)
(* of its own thread, and at most one packet per thread is ever stranded.  *)
(***************************************************************************)
EXTENDS SioSocket, TLAPS

(***************************************************************************)
(* Sequences: what Append and Tail do to the range and to injectivity.     *)
(***************************************************************************)
LEMMA AppendFacts ==
    ASSUME NEW S, NEW s \in Seq(S), NEW e \in S
    PROVE  /\ Append(s, e) \in Seq(S)
           /\ Range(Append(s, e)) = Range(s) \cup {e}
           /\ IsInjective(s) /\ e \notin Range(s) => IsInjective(Append(s, e))
<1> DEFINE n == Len(s)
<1>1. /\ Append(s, e) \in Seq(S)
      /\ n \in Nat /\ DOMAIN s = 1..n
      /\ DOMAIN Append(s, e) = 1..(n + 1)
      /\ \A i \in 1..n : Append(s, e)[i] = s[i]
      /\ Append(s, e)[n + 1] = e
  OBVIOUS
<1> HIDE DEF n
<1>2. Range(Append(s, e)) = Range(s) \cup {e}
  <2>1. ASSUME NEW x \in Range(Append(s, e)) PROVE x \in Range(s) \cup {e}
    <3>1. PICK i \in 1..(n + 1) : x = Append(s, e)[i]
      BY <1>1 DEF Range
    <3>2. i \in 1..n \/ i = n + 1
      BY <1>1
    <3> QED BY <1>1, <3>1, <3>2 DEF Range
  <2>2. ASSUME NEW i \in 1..n PROVE s[i] \in Range(Append(s, e))
    <3>1. i \in 1..(n + 1)
      BY <1>1
    <3> QED BY <1>1, <3>1 DEF Range
  <2>3. e \in Range(Append(s, e))
    BY <1>1 DEF Range
  <2> QED BY <1>1, <2>1, <2>2, <2>3 DEF Range
<1>3. ASSUME IsInjective(s), e \notin Range(s) PROVE IsInjective(Append(s, e))
  <2>1. SUFFICES ASSUME NEW i \in 1..(n + 1), NEW j \in 1..(n + 1),
                        Append(s, e)[i] = Append(s, e)[j]
                 PROVE  i = j
    BY <1>1 DEF IsInjective
  <2>2. (i \in 1..n \/ i = n + 1) /\ (j \in 1..n \/ j = n + 1)
    BY <1>1
  <2>3. \A k \in 1..n : s[k] # e
    BY <1>1, <1>3 DEF Range
  <2> QED BY <1>1, <1>3, <2>1, <2>2, <2>3 DEF IsInjective
<1> QED BY <1>1, <1>2, <1>3

LEMMA TailFacts ==
    ASSUME NEW S, NEW s \in Seq(S), s # << >>
    PROVE  /\ Head(s) \in S /\ Tail(s) \in Seq(S)
           /\ Head(s) \in Range(s)
           /\ Range(Tail(s)) \subseteq Range(s)
           /\ IsInjective(s) => IsInjective(Tail(s)) /\ Head(s) \notin Range(Tail(s))
<1> DEFINE n == Len(s)
<1>1. /\ n \in Nat \ {0} /\ DOMAIN s = 1..n
      /\ Head(s) = s[1] /\ Head(s) \in S
      /\ Tail(s) \in Seq(S)
      /\ DOMAIN Tail(s) = 1..(n - 1)
      /\ \A i \in 1..(n - 1) : Tail(s)[i] = s[i + 1] /\ i + 1 \in 1..n
  OBVIOUS
<1> HIDE DEF n
<1>2. Head(s) \in Range(s) /\ Range(Tail(s)) \subseteq Range(s)
  BY <1>1 DEF Range
<1>3. ASSUME IsInjective(s)
      PROVE  IsInjective(Tail(s)) /\ Head(s) \notin Range(Tail(s))
  <2>1. ASSUME NEW i \in 1..(n - 1), NEW j \in 1..(n - 1), Tail(s)[i] = Tail(s)[j]
        PROVE  i = j
    <3>1. i + 1 = j + 1
      BY <1>1, <1>3, <2>1 DEF IsInjective
    <3> QED BY <1>1, <3>1
  <2>2. ASSUME NEW i \in 1..(n - 1) PROVE Tail(s)[i] # Head(s)
    <3>1. i + 1 # 1 /\ 1 \in 1..n
      BY <1>1
    <3> QED BY <1>1, <1>3, <3>1 DEF IsInjective
  <2> QED BY <1>1, <2>1, <2>2 DEF IsInjective, Range
<1> QED BY <1>1, <1>2, <1>3

(***************************************************************************)
(* The order of the packets of one thread within a sequence.               *)
(***************************************************************************)
Ascending(s) ==
    \A i, j \in DOMAIN s : s[i].by = s[j].by /\ i < j => s[i].seq < s[j].seq

LEMMA AppendOrder ==
    ASSUME NEW s \in Seq(Packet), NEW e \in Packet
    PROVE  /\ Ascending(s) /\ (\A a \in Range(s) : a.by = e.by => a.seq < e.seq)
                => Ascending(Append(s, e))
           /\ OnePerThread(s) /\ (\A a \in Range(s) : a.by # e.by)
                => OnePerThread(Append(s, e))
<1> DEFINE n == Len(s)
<1>1. /\ n \in Nat /\ DOMAIN s = 1..n
      /\ DOMAIN Append(s, e) = 1..(n + 1)
      /\ \A i \in 1..n : Append(s, e)[i] = s[i]
      /\ Append(s, e)[n + 1] = e
  OBVIOUS
<1> HIDE DEF n
<1>2. \A i \in 1..n : s[i] \in Range(s)
  BY <1>1 DEF Range
<1>3. ASSUME NEW i \in 1..(n + 1) PROVE i \in 1..n \/ i = n + 1
  BY <1>1
<1>4. ASSUME Ascending(s), \A a \in Range(s) : a.by = e.by => a.seq < e.seq
      PROVE  Ascending(Append(s, e))
  <2>1. SUFFICES ASSUME NEW i \in 1..(n + 1), NEW j \in 1..(n + 1), i < j,
                        Append(s, e)[i].by = Append(s, e)[j].by
                 PROVE  Append(s, e)[i].seq < Append(s, e)[j].seq
    BY <1>1 DEF Ascending
  <2>2. i \in 1..n
    BY <1>1, <2>1
  <2> QED BY <1>1, <1>2, <1>3, <1>4, <2>1, <2>2 DEF Ascending
<1>5. ASSUME OnePerThread(s), \A a \in Range(s) : a.by # e.by
      PROVE  OnePerThread(Append(s, e))
  BY <1>1, <1>2, <1>3, <1>5 DEF OnePerThread
<1> QED BY <1>4, <1>5

LEMMA TailOrder ==
    ASSUME NEW s \in Seq(Packet), s # << >>
    PROVE  /\ Ascending(s) => /\ Ascending(Tail(s))
                              /\ \A a \in Range(Tail(s)) :
                                    a.by = Head(s).by => Head(s).seq < a.seq
           /\ OnePerThread(s) => OnePerThread(Tail(s))
<1> DEFINE n == Len(s)
<1>1. /\ n \in Nat \ {0} /\ DOMAIN s = 1..n
      /\ Head(s) = s[1]
      /\ DOMAIN Tail(s) = 1..(n - 1)
      /\ \A i \in 1..(n - 1) : Tail(s)[i] = s[i + 1] /\ i + 1 \in 1..n
  OBVIOUS
<1> HIDE DEF n
<1>2. ASSUME Ascending(s) PROVE Ascending(Tail(s))
  <2>1. ASSUME NEW i \in 1..(n - 1), NEW j \in 1..(n - 1), i < j
        PROVE  i + 1 < j + 1
    BY <1>1, <2>1
  <2> QED BY <1>1, <1>2, <2>1 DEF Ascending
<1>3. ASSUME Ascending(s), NEW i \in 1..(n - 1), Tail(s)[i].by = Head(s).by
      PROVE  Head(s).seq < Tail(s)[i].seq
  <2>1. 1 \in 1..n /\ 1 < i + 1
    BY <1>1
  <2> QED BY <1>1, <1>3, <2>1 DEF Ascending
<1>4. ASSUME OnePerThread(s) PROVE OnePerThread(Tail(s))
  <2>1. ASSUME NEW i \in 1..(n - 1), NEW j \in 1..(n - 1), i + 1 = j + 1
        PROVE  i = j
    BY <1>1, <2>1
  <2> QED BY <1>1, <1>4, <2>1 DEF OnePerThread
<1> QED BY <1>1, <1>2, <1>3, <1>4 DEF Range

(***************************************************************************)
(* The inductive invariant, in parts.  A thread holds a packet of its own  *)
(* exactly where send_packet has one, it is the last one the thread made,  *)
(* and a packet popped from the queue is held only to be sent.             *)
(***************************************************************************)
Located(t) ==
    /\ pc[t] \in {"guard", "branch", "own", "push"} => own[t] # NoPacket
    /\ pc[t] \in {"idle", "arm", "onclose", "clear"} => own[t] = NoPacket
    /\ own[t] # NoPacket => own[t].by = t /\ own[t].seq = made[t]
    /\ pc[t] = "front" <=> front[t] # NoPacket

Placed == TypeOK /\ \A t \in Threads : Located(t)

\* A packet anywhere but in the hands of its maker is older than that one.
Older(p) ==
    /\ p.seq <= made[p.by]
    /\ own[p.by] # NoPacket => p.seq < made[p.by]

OwnNewest ==
    /\ \A p \in InQueue \cup InPosted \cup OnWire : Older(p)
    /\ \A t \in Threads : front[t] # NoPacket => Older(front[t])

QueueAscending == Ascending(queue)

\* A thread about to send its own packet has found none of its own queued.
DrainedBeforeOwn ==
    \A t \in Threads : pc[t] = "own" => \A a \in InQueue : a.by # t

SentOnce ==
    /\ IsInjective(posted) /\ IsInjective(wire)
    /\ InPosted \cap OnWire = {}
    /\ \A t \in Threads : front[t] \notin InPosted \cup OnWire
    /\ \A t, u \in Threads : front[t] = front[u] => t = u \/ front[t] = NoPacket

\* Once on_connected has drained the queue of a connected socket, only a thread
\* that read m_connected before can still push, and only once.
Connecting == own[Net] = NoPacket /\ pc[Net] \in {"drain", "front"}

Stranding ==
    connected /\ ~Connecting =>
        /\ OnePerThread(queue)
        /\ \A t \in Threads : pc[t] = "push" => \A a \in InQueue : a.by # t

\* on_close clears m_connected after m_client, and the queue before it removes
\* the socket; whoever is past the guards by then has nothing queued.
Removed ==
    /\ ~attached => pc[Net] = "onclose" \/ ~connected
    /\ ~registered =>
        /\ ~attached /\ pc[Net] # "onclose"
        /\ OnePerThread(queue)
        /\ \A t \in Threads :
              pc[t] \in {"branch", "push"} => \A a \in InQueue : a.by # t

Packets ==
    /\ OwnNewest
    /\ QueueAscending
    /\ NoOvertakeInQueue
    /\ DrainedBeforeOwn
    /\ SentOnce

IInv == Placed /\ Packets /\ Stranding /\ Removed

LEMMA PlacedInit == ASSUME Init PROVE Placed
<1>1. MaxLinks \in Nat /\ Net \in Threads
  BY BoundsAssumption DEF Threads
<1>2. TypeOK
  <2>1. /\ pc \in [Threads -> Locations]
        /\ own \in [Threads -> Packet \cup {NoPacket}]
        /\ front \in [Threads -> Packet \cup {NoPacket}]
        /\ made \in [Threads -> Nat]
    BY DEF Init, Locations
  <2>2. << >> \in Seq(Packet) /\ 0 \in 0..MaxLinks
    BY <1>1
  <2> QED BY <2>1, <2>2 DEF Init, TypeOK
<1>3. ASSUME NEW t \in Threads PROVE Located(t)
  BY <1>3 DEF Init, Located
<1> QED BY <1>2, <1>3 DEF Placed

LEMMA NoPacketNotPacket == NoPacket \notin Packet
BY DEF NoPacket, Packet

LEMMA BeginPlaced ==
    ASSUME Placed, NEW t \in Threads, NEW kind \in Kinds, Begin(t, kind)
    PROVE  Placed'
<1> USE DEF Placed
<1>1. own'[t] \in Packet /\ own'[t].by = t /\ own'[t].seq = made'[t]
  BY DEF Begin, TypeOK, Packet
<1>2. TypeOK'
  BY <1>1 DEF Begin, TypeOK, Goto, Locations, linkVars, timerVars
<1>3. ASSUME NEW u \in Threads PROVE Located(u)'
  BY <1>1, <1>3, NoPacketNotPacket DEF Begin, TypeOK, Goto, Located
<1> QED BY <1>2, <1>3

LEMMA PlacedStep == ASSUME Placed, Next PROVE Placed'
<1> USE DEF Placed
<1> Net \in Threads /\ AppThreads \subseteq Threads
  BY DEF Threads
<1>1. ASSUME NEW t \in Threads, SendGuard(t) PROVE Placed'
  <2>1. TypeOK'
    BY <1>1 DEF SendGuard, Return, Goto, TypeOK, Locations, linkVars, timerVars
  <2>2. ASSUME NEW u \in Threads PROVE Located(u)'
    BY <1>1, <2>2 DEF SendGuard, Return, Goto, TypeOK, Located
  <2> QED BY <2>1, <2>2
<1>2. ASSUME NEW t \in Threads, SendBranch(t) PROVE Placed'
  <2>1. TypeOK'
    BY <1>2 DEF SendBranch, Goto, TypeOK, Locations, linkVars, timerVars
  <2>2. ASSUME NEW u \in Threads PROVE Located(u)'
    BY <1>2, <2>2 DEF SendBranch, Goto, TypeOK, Located
  <2> QED BY <2>1, <2>2
<1>3. ASSUME NEW t \in Threads, TakeFront(t) PROVE Placed'
  <2>1. queue # << >> => Head(queue) \in Packet /\ Tail(queue) \in Seq(Packet)
    BY TailFacts DEF TypeOK
  <2>2. TypeOK'
    BY <1>3, <2>1 DEF TakeFront, Goto, TypeOK, Locations, linkVars, timerVars
  <2>3. ASSUME NEW u \in Threads PROVE Located(u)'
    BY <1>3, <2>1, <2>3, NoPacketNotPacket DEF TakeFront, Goto, TypeOK, Located
  <2> QED BY <2>2, <2>3
<1>4. ASSUME NEW t \in Threads, SendFront(t) PROVE Placed'
  <2>1. front[t] \in Packet
    BY <1>4 DEF SendFront, TypeOK, Located
  <2>2. posted' \in Seq(Packet) /\ wire' \in Seq(Packet)
    <3>1. Append(posted, front[t]) \in Seq(Packet) /\ Append(wire, front[t]) \in Seq(Packet)
      BY <2>1, AppendFacts DEF TypeOK
    <3> QED BY <1>4, <3>1 DEF SendFront, Send, Transmit, TypeOK
  <2>3. TypeOK'
    BY <1>4, <2>2 DEF SendFront, Send, Goto, TypeOK, Locations, linkVars, timerVars
  <2>4. ASSUME NEW u \in Threads PROVE Located(u)'
    BY <1>4, <2>4 DEF SendFront, Send, Goto, TypeOK, Located
  <2> QED BY <2>3, <2>4
<1>5. ASSUME NEW t \in Threads, SendOwn(t) PROVE Placed'
  <2>1. own[t] \in Packet
    BY <1>5 DEF SendOwn, TypeOK, Located
  <2>2. posted' \in Seq(Packet) /\ wire' \in Seq(Packet)
    <3>1. Append(posted, own[t]) \in Seq(Packet) /\ Append(wire, own[t]) \in Seq(Packet)
      BY <2>1, AppendFacts DEF TypeOK
    <3> QED BY <1>5, <3>1 DEF SendOwn, Send, Transmit, TypeOK
  <2>3. TypeOK'
    BY <1>5, <2>2 DEF SendOwn, Send, Return, Goto, TypeOK, Locations, linkVars, timerVars
  <2>4. ASSUME NEW u \in Threads PROVE Located(u)'
    BY <1>5, <2>4 DEF SendOwn, Send, Return, Goto, TypeOK, Located
  <2> QED BY <2>3, <2>4
<1>6. ASSUME NEW t \in Threads, Push(t) PROVE Placed'
  <2>1. own[t] \in Packet
    BY <1>6 DEF Push, TypeOK, Located
  <2>2. queue' \in Seq(Packet)
    BY <1>6, <2>1, AppendFacts DEF Push, TypeOK
  <2>3. TypeOK'
    BY <1>6, <2>2 DEF Push, Return, Goto, TypeOK, Locations, linkVars, timerVars
  <2>4. ASSUME NEW u \in Threads PROVE Located(u)'
    BY <1>6, <2>4 DEF Push, Return, Goto, TypeOK, Located
  <2> QED BY <2>3, <2>4
<1>7. ASSUME NEW t \in Threads, ArmTimer(t) PROVE Placed'
  <2>1. TypeOK'
    <3>1. closeReady' \in Nat /\ timer' \in {"none", "armed", "expired"}
      BY <1>7 DEF ArmTimer, TypeOK, timerVars
    <3> QED BY <1>7, <3>1 DEF ArmTimer, Goto, TypeOK, Locations, linkVars
  <2>2. ASSUME NEW u \in Threads PROVE Located(u)'
    BY <1>7, <2>2 DEF ArmTimer, Goto, TypeOK, Located
  <2> QED BY <2>1, <2>2
<1>8. ASSUME NEW t \in AppThreads, UserStep(t) PROVE Placed'
  BY <1>8, BeginPlaced DEF UserStep, Emit, Close, Kinds
<1>9. CASE RunSend
  <2>1. posted # << >> /\ Head(posted) \in Packet /\ Tail(posted) \in Seq(Packet)
    BY <1>9, TailFacts DEF RunSend, TypeOK
  <2>2. wire' \in Seq(Packet)
    BY <1>9, <2>1, AppendFacts DEF RunSend, Transmit, TypeOK
  <2> QED BY <1>9, <2>1, <2>2 DEF RunSend, TypeOK, Located, linkVars, timerVars
<1>10. CASE CloseHandler
  <2>1. TypeOK'
    <3>1. closeReady' \in Nat /\ timer' \in {"none", "armed", "expired"}
      BY <1>10 DEF CloseHandler, Detach, TypeOK, timerVars
    <3> QED BY <1>10, <3>1 DEF CloseHandler, Detach, Goto, TypeOK, Locations, linkVars
  <2>2. ASSUME NEW u \in Threads PROVE Located(u)'
    BY <1>10, <2>2 DEF CloseHandler, Detach, Goto, TypeOK, Located
  <2> QED BY <2>1, <2>2
<1>11. CASE OnClose
  <2>1. TypeOK'
    <3>1. closeReady' \in Nat /\ timer' \in {"none", "armed", "expired"}
      BY <1>11 DEF OnClose, CancelTimer, TypeOK, timerVars
    <3> QED BY <1>11, <3>1 DEF OnClose, CancelTimer, Goto, TypeOK, Locations, linkVars
  <2>2. ASSUME NEW u \in Threads PROVE Located(u)'
    BY <1>11, <2>2 DEF OnClose, CancelTimer, Goto, TypeOK, Located
  <2> QED BY <2>1, <2>2
<1>12. CASE ClearQueue
  <2>1. TypeOK'
    BY <1>12 DEF ClearQueue, Goto, TypeOK, Locations, linkVars, timerVars
  <2>2. ASSUME NEW u \in Threads PROVE Located(u)'
    BY <1>12, <2>2 DEF ClearQueue, Goto, TypeOK, Located
  <2> QED BY <2>1, <2>2
<1>13. CASE LinkUp
  <2>1. TypeOK'
    BY <1>13, BoundsAssumption DEF LinkUp, TypeOK, Locations, linkVars, timerVars
  <2>2. ASSUME NEW u \in Threads PROVE Located(u)'
    BY <1>13, <2>2 DEF LinkUp, TypeOK, Located
  <2> QED BY <2>1, <2>2
<1>14. CASE LinkDown
  <2>1. TypeOK'
    BY <1>14 DEF LinkDown, Goto, TypeOK, Locations, linkVars, timerVars
  <2>2. ASSUME NEW u \in Threads PROVE Located(u)'
    BY <1>14, <2>2 DEF LinkDown, Goto, TypeOK, Located
  <2> QED BY <2>1, <2>2
<1>15. CASE ClientClose
  <2>1. TypeOK'
    BY <1>15 DEF ClientClose, TypeOK, Locations, linkVars, timerVars
  <2>2. ASSUME NEW u \in Threads PROVE Located(u)'
    BY <1>15, <2>2 DEF ClientClose, TypeOK, Located
  <2> QED BY <2>1, <2>2
<1>16. CASE RecvConnect
  <2>1. TypeOK'
    <3>1. closeReady' \in Nat /\ timer' \in {"none", "armed", "expired"}
      BY <1>16 DEF RecvConnect, CancelTimer, TypeOK, timerVars
    <3> QED BY <1>16, <3>1 DEF RecvConnect, CancelTimer, Goto, TypeOK, Locations, linkVars
  <2>2. ASSUME NEW u \in Threads PROVE Located(u)'
    BY <1>16, <2>2 DEF RecvConnect, CancelTimer, Goto, TypeOK, Located
  <2> QED BY <2>1, <2>2
<1>17. CASE RecvDisconnect
  <2>1. TypeOK'
    BY <1>17 DEF RecvDisconnect, Detach, Goto, TypeOK, Locations, linkVars, timerVars
  <2>2. ASSUME NEW u \in Threads PROVE Located(u)'
    BY <1>17, <2>2 DEF RecvDisconnect, Detach, Goto, TypeOK, Located
  <2> QED BY <2>1, <2>2
<1>18. CASE ReplyAck
  BY <1>18, BeginPlaced DEF ReplyAck, Kinds
<1>19. CASE TimerExpires
  <2>1. TypeOK'
    BY <1>19 DEF TimerExpires, TypeOK, Locations, linkVars, timerVars
  <2>2. ASSUME NEW u \in Threads PROVE Located(u)'
    BY <1>19, <2>2 DEF TimerExpires, TypeOK, Located
  <2> QED BY <2>1, <2>2
<1> QED BY <1>1, <1>2, <1>3, <1>4, <1>5, <1>6, <1>7, <1>8, <1>9, <1>10, <1>11,
           <1>12, <1>13, <1>14, <1>15, <1>16, <1>17, <1>18, <1>19
        DEF Next, ThreadStep, NetStep, LinkStep

(***************************************************************************)
(* Packets: where each one is, and the order of those of one thread.       *)
(***************************************************************************)
LEMMA PacketTypes ==
    ASSUME TypeOK
    PROVE  /\ InQueue \subseteq Packet
           /\ InPosted \subseteq Packet
           /\ OnWire \subseteq Packet
           /\ \A p \in Packet : p.by \in Threads /\ p.seq \in Nat \ {0}
<1>1. ASSUME NEW s \in Seq(Packet) PROVE Range(s) \subseteq Packet
  BY DEF Range
<1> QED BY <1>1 DEF TypeOK, InQueue, InPosted, OnWire, Packet

LEMMA PacketsInit == ASSUME Init PROVE Packets
<1>1. InQueue = {} /\ InPosted = {} /\ OnWire = {}
  BY DEF Init, InQueue, InPosted, OnWire, Range
<1>2. Ascending(queue) /\ IsInjective(posted) /\ IsInjective(wire)
  BY DEF Init, Ascending, IsInjective
<1>3. \A t \in Threads : front[t] = NoPacket /\ pc[t] = "idle"
  BY DEF Init
<1> QED BY <1>1, <1>2, <1>3
        DEF Packets, OwnNewest, QueueAscending, NoOvertakeInQueue,
            DrainedBeforeOwn, SentOnce

\* A step that leaves the packets alone and sends no thread to "own".
LEMMA PacketsQuiet ==
    ASSUME Packets,
           UNCHANGED <<queue, posted, wire, own, front, made>>,
           \A t \in Threads : pc'[t] = "own" => pc[t] = "own"
    PROVE  Packets'
<1>1. InQueue' = InQueue /\ InPosted' = InPosted /\ OnWire' = OnWire
  BY DEF InQueue, InPosted, OnWire
<1>2. OwnNewest'
  BY <1>1 DEF Packets, OwnNewest, Older
<1>3. QueueAscending' /\ SentOnce'
  BY <1>1 DEF Packets, QueueAscending, SentOnce
<1>4. NoOvertakeInQueue' /\ DrainedBeforeOwn'
  BY <1>1 DEF Packets, NoOvertakeInQueue, DrainedBeforeOwn
<1> QED BY <1>2, <1>3, <1>4 DEF Packets

LEMMA PacketsBegin ==
    ASSUME Placed, Packets, NEW t \in Threads, NEW kind \in Kinds, Begin(t, kind)
    PROVE  Packets'
<1> USE DEF Placed
<1>1. /\ UNCHANGED <<queue, posted, wire, front>>
      /\ made[t] \in Nat /\ made'[t] = made[t] + 1
      /\ \A u \in Threads : u # t => made'[u] = made[u] /\ own'[u] = own[u]
      /\ \A u \in Threads : pc'[u] = "own" => pc[u] = "own"
      /\ own'[t].by = t /\ own'[t].seq = made'[t]
  BY DEF Begin, TypeOK, Goto
<1>2. ASSUME NEW p \in Packet, Older(p) PROVE Older(p)'
  BY <1>1, <1>2, PacketTypes DEF Older, TypeOK
<1>3. OwnNewest'
  <2>1. ASSUME NEW u \in Threads, front[u] # NoPacket PROVE Older(front[u])'
    <3>1. front[u] \in Packet /\ Older(front[u]) /\ front'[u] = front[u]
      BY <1>1, <2>1 DEF TypeOK, Packets, OwnNewest
    <3> QED BY <1>2, <3>1 DEF Older
  <2> QED BY <1>1, <1>2, <2>1, PacketTypes
          DEF Packets, OwnNewest, InQueue, InPosted, OnWire
<1> QED BY <1>1, <1>3
        DEF Packets, QueueAscending, Ascending, NoOvertakeInQueue,
            DrainedBeforeOwn, SentOnce, InQueue, InPosted, OnWire, IsInjective,
            Range

LEMMA PacketsSendGuard ==
    ASSUME Placed, Packets, NEW t \in Threads, SendGuard(t)
    PROVE  Packets'
<1> USE DEF Placed
<1>1. /\ UNCHANGED <<queue, posted, wire, front, made>>
      /\ \A u \in Threads : own'[u] = own[u] \/ own'[u] = NoPacket
      /\ \A u \in Threads : pc'[u] = "own" => pc[u] = "own"
  BY DEF SendGuard, Return, Goto, TypeOK
<1>2. ASSUME NEW p, p.by \in Threads, Older(p) PROVE Older(p)'
  BY <1>1, <1>2 DEF Older
<1>3. OwnNewest'
  <2>1. ASSUME NEW u \in Threads, front[u] # NoPacket PROVE Older(front[u])'
    BY <1>1, <1>2, <2>1, PacketTypes DEF TypeOK, Packets, OwnNewest, Older
  <2> QED BY <1>1, <1>2, <2>1, PacketTypes
          DEF Packets, OwnNewest, InQueue, InPosted, OnWire
<1> QED BY <1>1, <1>3
        DEF Packets, QueueAscending, Ascending, NoOvertakeInQueue,
            DrainedBeforeOwn, SentOnce, InQueue, InPosted, OnWire, IsInjective,
            Range

\* Popping the head of the queue: it is the oldest of its thread there, and
\* younger than any packet of its thread that has left the queue before.
LEMMA PacketsTakeFront ==
    ASSUME Placed, Packets, NEW t \in Threads, TakeFront(t)
    PROVE  Packets'
<1> USE DEF Placed
<1>0. /\ UNCHANGED <<posted, wire, own, made>>
      /\ InPosted' = InPosted /\ OnWire' = OnWire
      /\ \A p : Older(p)' <=> Older(p)
  BY DEF TakeFront, InPosted, OnWire, Older
<1>1. CASE queue = << >>
  <2>1. /\ UNCHANGED <<queue, front>>
        /\ \A a \in InQueue : FALSE
    BY <1>1 DEF TakeFront, InQueue, Range
  <2> QED BY <1>0, <1>1, <2>1
          DEF Packets, OwnNewest, QueueAscending, NoOvertakeInQueue,
              DrainedBeforeOwn, SentOnce, InQueue
<1>2. CASE queue # << >>
  <2> DEFINE h == Head(queue)
  <2>1. /\ h \in Packet /\ h \in InQueue
        /\ InQueue' \subseteq InQueue
        /\ Ascending(queue')
        /\ \A a \in InQueue' : a.by = h.by => h.seq < a.seq
    <3>1. /\ queue \in Seq(Packet) /\ queue' = Tail(queue)
          /\ Ascending(queue)
      BY <1>2 DEF TakeFront, TypeOK, Packets, QueueAscending
    <3>2. InQueue = Range(queue) /\ InQueue' = Range(Tail(queue))
      BY <3>1 DEF InQueue
    <3> QED BY <1>2, <3>1, <3>2, TailFacts, TailOrder
  <2>2. /\ front'[t] = h
        /\ \A u \in Threads : u # t => front'[u] = front[u]
        /\ \A u \in Threads : pc'[u] = "own" => pc[u] = "own"
    BY <1>2 DEF TakeFront, Goto, TypeOK
  <2> HIDE DEF h
  <2>3. ASSUME NEW b \in InPosted \cup OnWire \cup {front[u] : u \in Threads}
        PROVE  b # h
    <3>1. h.by = b.by => b.seq < h.seq
      BY <2>1 DEF Packets, NoOvertakeInQueue
    <3> QED BY <2>1, <3>1, PacketTypes
  <2>4. OwnNewest'
    BY <1>0, <2>1, <2>2 DEF Packets, OwnNewest
  <2>5. NoOvertakeInQueue'
    BY <1>0, <2>1, <2>2 DEF Packets, NoOvertakeInQueue
  <2>6. SentOnce'
    <3>1. IsInjective(posted') /\ IsInjective(wire')
      BY <1>0 DEF Packets, SentOnce
    <3>2. ASSUME NEW u \in Threads PROVE front'[u] \notin InPosted \cup OnWire
      BY <2>2, <2>3 DEF Packets, SentOnce
    <3>3. ASSUME NEW u \in Threads, NEW v \in Threads, front'[u] = front'[v]
          PROVE  u = v \/ front'[u] = NoPacket
      BY <2>2, <2>3, <3>3 DEF Packets, SentOnce
    <3> QED BY <1>0, <3>1, <3>2, <3>3 DEF Packets, SentOnce
  <2> QED BY <2>1, <2>2, <2>4, <2>5, <2>6
          DEF Packets, QueueAscending, DrainedBeforeOwn
<1> QED BY <1>1, <1>2

(***************************************************************************)
(* Posting p, or putting it on the wire, when p is nowhere else but in the *)
(* hands of the thread that sends it.                                      *)
(***************************************************************************)
LEMMA SendFacts ==
    ASSUME TypeOK, SentOnce, NEW t \in Threads, NEW p \in Packet,
           attached, Send(t, p), p \notin InPosted \cup OnWire
    PROVE  /\ InPosted' \cup OnWire' \subseteq InPosted \cup OnWire \cup {p}
           /\ IsInjective(posted') /\ IsInjective(wire')
           /\ InPosted' \cap OnWire' = {}
<1>1. /\ IsInjective(posted) /\ IsInjective(wire)
      /\ InPosted \cap OnWire = {}
  BY DEF SentOnce
<1>2. CASE posted' = Append(posted, p) /\ UNCHANGED wire
  <2>1. InPosted' = InPosted \cup {p} /\ OnWire' = OnWire /\ IsInjective(posted')
    BY <1>1, <1>2, AppendFacts DEF TypeOK, InPosted, OnWire
  <2> QED BY <1>1, <1>2, <2>1
<1>3. CASE wire' = Append(wire, p) /\ UNCHANGED posted
  <2>1. OnWire' = OnWire \cup {p} /\ InPosted' = InPosted /\ IsInjective(wire')
    BY <1>1, <1>3, AppendFacts DEF TypeOK, InPosted, OnWire
  <2> QED BY <1>1, <1>3, <2>1
<1>4. CASE UNCHANGED <<posted, wire>>
  BY <1>1, <1>4 DEF InPosted, OnWire
<1> QED BY <1>2, <1>3, <1>4 DEF Send, Transmit

LEMMA PacketsSendFront ==
    ASSUME Placed, Packets, NEW t \in Threads, SendFront(t)
    PROVE  Packets'
<1> USE DEF Placed
<1>1. CASE ~attached
  BY <1>1, PacketsQuiet DEF SendFront, Send
<1>2. CASE attached
  <2>1. front[t] \in Packet /\ front[t] # NoPacket
    BY NoPacketNotPacket DEF SendFront, TypeOK, Located
  <2>2. /\ UNCHANGED <<queue, own, made>>
        /\ InQueue' = InQueue
        /\ front'[t] = NoPacket
        /\ \A u \in Threads : u # t => front'[u] = front[u]
        /\ \A u \in Threads : pc'[u] = "own" => pc[u] = "own"
        /\ \A p : Older(p)' <=> Older(p)
    BY <1>2 DEF SendFront, Goto, TypeOK, InQueue, Older
  <2>3. /\ InPosted' \cup OnWire' \subseteq InPosted \cup OnWire \cup {front[t]}
        /\ IsInjective(posted') /\ IsInjective(wire')
        /\ InPosted' \cap OnWire' = {}
    BY <1>2, <2>1, SendFacts DEF SendFront, Packets, SentOnce
  <2>4. OwnNewest'
    BY <2>1, <2>2, <2>3 DEF Packets, OwnNewest
  <2>5. NoOvertakeInQueue'
    <3>1. ASSUME NEW a \in InQueue, a.by = NoPacket.by PROVE NoPacket.seq < a.seq
      BY <3>1, PacketTypes DEF NoPacket
    <3> QED BY <2>2, <2>3, <3>1 DEF Packets, NoOvertakeInQueue
  <2>6. SentOnce'
    <3>1. NoPacket \notin InPosted' \cup OnWire'
      BY <2>1, <2>3, PacketTypes, NoPacketNotPacket
    <3>2. ASSUME NEW u \in Threads PROVE front'[u] \notin InPosted' \cup OnWire'
      BY <2>1, <2>2, <2>3, <3>1 DEF Packets, SentOnce
    <3> QED BY <2>2, <2>3, <3>2 DEF Packets, SentOnce
  <2> QED BY <2>2, <2>4, <2>5, <2>6
          DEF Packets, QueueAscending, DrainedBeforeOwn
<1> QED BY <1>1, <1>2 DEF TypeOK

LEMMA PacketsSendOwn ==
    ASSUME Placed, Packets, NEW t \in Threads, SendOwn(t)
    PROVE  Packets'
<1> USE DEF Placed
<1>1. CASE ~attached
  BY <1>1, PacketsQuiet DEF SendOwn, Send
<1>2. CASE attached
  <2>1. /\ own[t] \in Packet /\ own[t] # NoPacket
        /\ own[t].by = t /\ own[t].seq = made[t] /\ made[t] \in Nat
        /\ \A a \in InQueue : a.by # t
    BY NoPacketNotPacket
    DEF SendOwn, TypeOK, Located, Packets, DrainedBeforeOwn
  <2>2. /\ UNCHANGED <<queue, front, made>>
        /\ InQueue' = InQueue
        /\ own'[t] = NoPacket
        /\ \A u \in Threads : u # t => own'[u] = own[u]
        /\ \A u \in Threads : pc'[u] = "own" => pc[u] = "own"
    BY <1>2 DEF SendOwn, Return, Goto, TypeOK, InQueue
  <2>3. ASSUME NEW p, Older(p), p.by = own[t].by PROVE p # own[t]
    BY <2>1, <2>3 DEF Older
  <2>4. /\ own[t] \notin InPosted \cup OnWire
        /\ \A u \in Threads : front[u] # own[t]
    BY <2>1, <2>3 DEF Packets, OwnNewest
  <2>5. /\ InPosted' \cup OnWire' \subseteq InPosted \cup OnWire \cup {own[t]}
        /\ IsInjective(posted') /\ IsInjective(wire')
        /\ InPosted' \cap OnWire' = {}
    BY <1>2, <2>1, <2>4, SendFacts DEF SendOwn, Packets
  <2>6. OwnNewest'
    <3>1. ASSUME NEW p, p.by \in Threads, Older(p) PROVE Older(p)'
      BY <2>2, <3>1 DEF Older
    <3>3. ASSUME NEW u \in Threads, front'[u] # NoPacket PROVE Older(front[u])'
      <4>1. front[u] \in Packet /\ Older(front[u])
        BY <2>2, <3>3 DEF TypeOK, Packets, OwnNewest
      <4>2. front[u].by \in Threads
        BY <4>1, PacketTypes
      <4> QED BY <2>2, <3>1, <4>1, <4>2
    <3>4. ASSUME NEW p \in InQueue' \cup InPosted' \cup OnWire' PROVE Older(p)'
      <4>1. CASE p = own[t]
        BY <2>1, <2>2, <4>1 DEF Older
      <4>2. CASE p # own[t]
        <5>1. p \in InQueue \cup InPosted \cup OnWire
          BY <2>2, <2>5, <4>2
        <5>2. p.by \in Threads /\ Older(p)
          BY <5>1, PacketTypes DEF Packets, OwnNewest
        <5> QED BY <3>1, <5>2
      <4> QED BY <4>1, <4>2
    <3> QED BY <3>3, <3>4 DEF OwnNewest
  <2>7. NoOvertakeInQueue'
    BY <2>1, <2>2, <2>5 DEF Packets, NoOvertakeInQueue
  <2>8. SentOnce'
    BY <2>1, <2>2, <2>4, <2>5 DEF Packets, SentOnce
  <2> QED BY <2>2, <2>6, <2>7, <2>8 DEF Packets, QueueAscending, DrainedBeforeOwn
<1> QED BY <1>1, <1>2 DEF TypeOK

LEMMA PacketsPush ==
    ASSUME Placed, Packets, NEW t \in Threads, Push(t)
    PROVE  Packets'
<1> USE DEF Placed
<1>1. /\ own[t] \in Packet /\ own[t] # NoPacket
      /\ own[t].by = t /\ own[t].seq = made[t] /\ made[t] \in Nat
  BY NoPacketNotPacket DEF Push, TypeOK, Located
<1>2. /\ UNCHANGED <<posted, wire, front, made>>
      /\ InPosted' = InPosted /\ OnWire' = OnWire
      /\ own'[t] = NoPacket
      /\ \A u \in Threads : u # t => own'[u] = own[u]
      /\ \A u \in Threads : pc'[u] = "own" => u # t /\ pc[u] = "own"
  BY DEF Push, Return, Goto, TypeOK, InPosted, OnWire
<1>3. ASSUME NEW p, Older(p), p.by = own[t].by PROVE p.seq < own[t].seq
  BY <1>1, <1>3 DEF Older
<1>4. InQueue' = InQueue \cup {own[t]} /\ Ascending(queue')
  <2>1. queue \in Seq(Packet) /\ queue' = Append(queue, own[t]) /\ Ascending(queue)
    BY DEF Push, TypeOK, Packets, QueueAscending
  <2>2. InQueue = Range(queue) /\ InQueue' = Range(Append(queue, own[t]))
    BY <2>1 DEF InQueue
  <2>3. \A a \in InQueue : a.by = own[t].by => a.seq < own[t].seq
    BY <1>1, <1>3 DEF Packets, OwnNewest
  <2> QED BY <1>1, <2>1, <2>2, <2>3, AppendFacts, AppendOrder
<1>5. OwnNewest'
  <2>1. ASSUME NEW p, p.by \in Threads, Older(p) PROVE Older(p)'
    BY <1>2, <2>1 DEF Older
  <2>3. ASSUME NEW u \in Threads, front'[u] # NoPacket PROVE Older(front[u])'
    <3>1. front[u] \in Packet /\ Older(front[u])
      BY <1>2, <2>3 DEF TypeOK, Packets, OwnNewest
    <3>2. front[u].by \in Threads
      BY <3>1, PacketTypes
    <3> QED BY <1>2, <2>1, <3>1, <3>2
  <2>4. ASSUME NEW p \in InQueue' \cup InPosted' \cup OnWire' PROVE Older(p)'
    <3>1. CASE p = own[t]
      BY <1>1, <1>2, <3>1 DEF Older
    <3>2. CASE p # own[t]
      <4>1. p \in InQueue \cup InPosted \cup OnWire
        BY <1>2, <1>4, <3>2
      <4>2. p.by \in Threads /\ Older(p)
        BY <4>1, PacketTypes DEF Packets, OwnNewest
      <4> QED BY <2>1, <4>2
    <3> QED BY <3>1, <3>2
  <2> QED BY <2>3, <2>4 DEF OwnNewest
<1>6. NoOvertakeInQueue'
  <2>1. ASSUME NEW b \in InPosted \cup OnWire \cup {front[u] : u \in Threads},
               b.by = own[t].by
        PROVE  b.seq < own[t].seq
    <3>1. CASE b = NoPacket
      BY <1>1, <3>1, PacketTypes DEF NoPacket
    <3>2. CASE b # NoPacket
      BY <1>3, <2>1, <3>2 DEF Packets, OwnNewest
    <3> QED BY <3>1, <3>2
  <2> QED BY <1>2, <1>4, <2>1 DEF Packets, NoOvertakeInQueue
<1>7. DrainedBeforeOwn'
  BY <1>1, <1>2, <1>4 DEF Packets, DrainedBeforeOwn
<1> QED BY <1>2, <1>4, <1>5, <1>6, <1>7 DEF Packets, QueueAscending, SentOnce

LEMMA PacketsRunSend ==
    ASSUME Placed, Packets, RunSend
    PROVE  Packets'
<1> USE DEF Placed
<1> DEFINE h == Head(posted)
<1>1. /\ UNCHANGED <<queue, own, front, made, pc>>
      /\ InQueue' = InQueue
      /\ \A p : Older(p)' <=> Older(p)
  BY DEF RunSend, InQueue, Older
<1>2. /\ h \in Packet /\ h \in InPosted /\ h \notin InPosted'
      /\ InPosted' \subseteq InPosted
      /\ IsInjective(posted')
  <2>1. posted \in Seq(Packet) /\ posted # << >> /\ posted' = Tail(posted)
    BY DEF RunSend, TypeOK
  <2>2. InPosted = Range(posted) /\ InPosted' = Range(Tail(posted))
    BY <2>1 DEF InPosted
  <2>3. IsInjective(posted)
    BY DEF Packets, SentOnce
  <2> QED BY <2>1, <2>2, <2>3, TailFacts
<1>3. wire' = Append(wire, h) \/ wire' = wire
  BY DEF RunSend, Transmit
<1> HIDE DEF h
<1>4. h \notin OnWire /\ InPosted \cap OnWire = {} /\ IsInjective(wire)
  BY <1>2 DEF Packets, SentOnce
<1>5. OnWire' \subseteq OnWire \cup {h} /\ IsInjective(wire')
  <2>1. wire \in Seq(Packet) /\ OnWire = Range(wire) /\ OnWire' = Range(wire')
    BY DEF TypeOK, OnWire
  <2>2. /\ Range(Append(wire, h)) = OnWire \cup {h}
        /\ IsInjective(Append(wire, h))
    BY <1>2, <1>4, <2>1, AppendFacts
  <2> QED BY <1>3, <1>4, <2>1, <2>2
<1>6. OwnNewest' /\ NoOvertakeInQueue'
  BY <1>1, <1>2, <1>5 DEF Packets, OwnNewest, NoOvertakeInQueue
<1>7. SentOnce'
  BY <1>1, <1>2, <1>4, <1>5 DEF Packets, SentOnce
<1> QED BY <1>1, <1>6, <1>7 DEF Packets, QueueAscending, DrainedBeforeOwn

LEMMA PacketsClearQueue ==
    ASSUME Placed, Packets, ClearQueue
    PROVE  Packets'
<1>1. /\ UNCHANGED <<posted, wire, own, front, made>>
      /\ InQueue' = {} /\ InPosted' = InPosted /\ OnWire' = OnWire
      /\ Ascending(queue')
      /\ \A p : Older(p)' <=> Older(p)
  BY DEF ClearQueue, InQueue, InPosted, OnWire, Range, Ascending, Older
<1> QED BY <1>1
        DEF Packets, OwnNewest, QueueAscending, NoOvertakeInQueue,
            DrainedBeforeOwn, SentOnce

LEMMA PacketsStep == ASSUME Placed, Packets, Next PROVE Packets'
<1> Net \in Threads /\ AppThreads \subseteq Threads
  BY DEF Threads
<1>1. ASSUME NEW t \in Threads, ThreadStep(t) PROVE Packets'
  <2>1. CASE SendBranch(t)
    BY <2>1, PacketsQuiet DEF SendBranch, Goto, Placed, TypeOK
  <2>2. CASE ArmTimer(t)
    BY <2>2, PacketsQuiet DEF ArmTimer, Goto, Placed, TypeOK
  <2> QED BY <1>1, <2>1, <2>2, PacketsSendGuard, PacketsTakeFront,
             PacketsSendFront, PacketsSendOwn, PacketsPush
          DEF ThreadStep
<1>2. ASSUME NEW t \in AppThreads, UserStep(t) PROVE Packets'
  BY <1>2, PacketsBegin DEF UserStep, Emit, Close, Kinds
<1>3. CASE NetStep
  <2>1. CASE CloseHandler
    BY <2>1, PacketsQuiet DEF CloseHandler, Detach, Goto, Placed, TypeOK
  <2>2. CASE OnClose
    BY <2>2, PacketsQuiet DEF OnClose, Goto, Placed, TypeOK
  <2> QED BY <1>3, <2>1, <2>2, PacketsRunSend, PacketsClearQueue DEF NetStep
<1>4. CASE LinkStep
  <2>1. CASE LinkUp
    BY <2>1, PacketsQuiet DEF LinkUp, Placed, TypeOK
  <2>2. CASE LinkDown
    BY <2>2, PacketsQuiet DEF LinkDown, Goto, Placed, TypeOK
  <2>3. CASE ClientClose
    BY <2>3, PacketsQuiet DEF ClientClose, Placed, TypeOK
  <2>4. CASE RecvConnect
    BY <2>4, PacketsQuiet DEF RecvConnect, Goto, Placed, TypeOK
  <2>5. CASE RecvDisconnect
    BY <2>5, PacketsQuiet DEF RecvDisconnect, Detach, Goto, Placed, TypeOK
  <2>6. CASE TimerExpires
    BY <2>6, PacketsQuiet DEF TimerExpires, Placed, TypeOK
  <2>7. CASE ReplyAck
    BY <2>7, PacketsBegin DEF ReplyAck, Kinds
  <2> QED BY <1>4, <2>1, <2>2, <2>3, <2>4, <2>5, <2>6, <2>7 DEF LinkStep
<1> QED BY <1>1, <1>2, <1>3, <1>4 DEF Next

LEMMA OnePlace == ASSUME Placed, Packets PROVE NoDuplicate
<1> USE DEF Placed
<1>1. /\ IsInjective(posted) /\ IsInjective(wire)
      /\ InPosted \cap OnWire = {}
      /\ \A t \in Threads : front[t] \notin InPosted \cup OnWire
  BY DEF Packets, SentOnce
<1>2. ASSUME NEW a \in InQueue,
             NEW b \in InPosted \cup OnWire \cup {front[t] : t \in Threads}
      PROVE  a # b
  <2>1. a \in Packet /\ a.seq \in Nat
    BY PacketTypes
  <2> QED BY <2>1 DEF Packets, NoOvertakeInQueue
<1>3. IsInjective(queue)
  <2>1. SUFFICES ASSUME NEW i \in DOMAIN queue, NEW j \in DOMAIN queue,
                        queue[i] = queue[j]
                 PROVE  i = j
    BY DEF IsInjective
  <2>2. i \in Int /\ j \in Int /\ queue[i] \in Packet /\ queue[i].seq \in Nat
    BY <2>1, PacketTypes DEF TypeOK
  <2>3. ~(i < j) /\ ~(j < i)
    BY <2>1, <2>2 DEF Packets, QueueAscending, Ascending
  <2> QED BY <2>2, <2>3
<1>4. ASSUME NEW t \in Threads, NEW p \in InQueue \cup InPosted \cup OnWire
      PROVE  own[t] # p
  <2>1. p \in Packet /\ Older(p)
    BY PacketTypes DEF Packets, OwnNewest
  <2>2. p # NoPacket
    BY <2>1, NoPacketNotPacket
  <2>3. own[t] # NoPacket => own[t].by = t /\ own[t].seq = made[t] /\ made[t] \in Nat
    BY DEF Located, TypeOK
  <2> QED BY <2>1, <2>2, <2>3 DEF Older
<1>5. ASSUME NEW t \in Threads, NEW u \in Threads,
             own[t] = front[u], own[t] # NoPacket
      PROVE  FALSE
  <2>1. own[t].by = t /\ own[t].seq = made[t] /\ made[t] \in Nat
    BY <1>5 DEF Located, TypeOK
  <2>2. Older(front[u])
    BY <1>5 DEF Packets, OwnNewest
  <2> QED BY <1>5, <2>1, <2>2 DEF Older
<1>6. \A t, u \in Threads : front[t] = front[u] => t = u \/ front[t] = NoPacket
  BY DEF Packets, SentOnce
<1>7. InQueue \cap InPosted = {} /\ InQueue \cap OnWire = {}
  BY <1>2
<1>8. ASSUME NEW t \in Threads
      PROVE  {own[t], front[t]} \cap (InQueue \cup InPosted \cup OnWire) = {}
  BY <1>1, <1>2, <1>4
<1> QED BY <1>1, <1>3, <1>5, <1>6, <1>7, <1>8 DEF NoDuplicate

(***************************************************************************)
(* Stranding: who can still push when the socket is connected.             *)
(***************************************************************************)
LEMMA StrandingQuiet ==
    ASSUME Placed, Stranding,
           UNCHANGED <<connected, queue>>,
           connected => \A t \in Threads : pc'[t] = "push" => pc[t] = "push",
           connected /\ Connecting => Connecting'
    PROVE  Stranding'
<1>1. InQueue' = InQueue
  BY DEF InQueue
<1> QED BY <1>1 DEF Stranding

LEMMA StrandingStep == ASSUME Placed, Packets, Stranding, Next PROVE Stranding'
<1> USE DEF Placed
<1> Net \in Threads /\ AppThreads \subseteq Threads
  BY DEF Threads
<1>1. ASSUME NEW t \in Threads, NEW kind \in Kinds, Begin(t, kind)
      PROVE  Stranding'
  BY <1>1, StrandingQuiet DEF Begin, Goto, Connecting, TypeOK
<1>2. ASSUME NEW t \in Threads, SendGuard(t) \/ SendBranch(t) \/ ArmTimer(t)
      PROVE  Stranding'
  BY <1>2, StrandingQuiet
  DEF SendGuard, SendBranch, ArmTimer, Return, Goto, Connecting, TypeOK
<1>3. ASSUME NEW t \in Threads, SendFront(t) \/ SendOwn(t) PROVE Stranding'
  BY <1>3, StrandingQuiet
  DEF SendFront, SendOwn, Send, Return, Goto, Connecting, Located, TypeOK
<1>4. ASSUME NEW t \in Threads, TakeFront(t) PROVE Stranding'
  <2>1. CASE queue = << >>
    <3>1. InQueue' = {} /\ OnePerThread(queue')
      BY <1>4, <2>1 DEF TakeFront, InQueue, Range, OnePerThread
    <3> QED BY <3>1 DEF Stranding
  <2>2. CASE queue # << >>
    <3>1. /\ InQueue' \subseteq InQueue
          /\ OnePerThread(queue) => OnePerThread(queue')
      <4>1. queue \in Seq(Packet) /\ queue' = Tail(queue)
        BY <1>4, <2>2 DEF TakeFront, TypeOK
      <4>2. InQueue = Range(queue) /\ InQueue' = Range(Tail(queue))
        BY <4>1 DEF InQueue
      <4> QED BY <2>2, <4>1, <4>2, TailFacts, TailOrder
    <3>2. /\ UNCHANGED connected
          /\ \A u \in Threads : pc'[u] = "push" => pc[u] = "push"
          /\ Connecting => Connecting'
      BY <1>4, <2>2 DEF TakeFront, Goto, Connecting, TypeOK
    <3> QED BY <3>1, <3>2 DEF Stranding
  <2> QED BY <2>1, <2>2
<1>5. ASSUME NEW t \in Threads, Push(t) PROVE Stranding'
  <2>1. /\ own[t] \in Packet /\ own[t].by = t
        /\ queue \in Seq(Packet) /\ queue' = Append(queue, own[t])
    BY <1>5 DEF Push, TypeOK, Located
  <2>2. /\ UNCHANGED connected
        /\ \A u \in Threads : pc'[u] = "push" => u # t /\ pc[u] = "push"
        /\ Connecting => Connecting'
    BY <1>5 DEF Push, Return, Goto, Connecting, TypeOK, Located
  <2>3. SUFFICES ASSUME connected, ~Connecting
                 PROVE  /\ OnePerThread(queue')
                        /\ \A u \in Threads :
                              pc'[u] = "push" => \A a \in InQueue' : a.by # u
    BY <2>2 DEF Stranding
  <2>4. OnePerThread(queue) /\ \A a \in InQueue : a.by # t
    BY <1>5, <2>3 DEF Stranding, Push
  <2>5. InQueue = Range(queue) /\ InQueue' = Range(Append(queue, own[t]))
    BY <2>1 DEF InQueue
  <2>6. InQueue' = InQueue \cup {own[t]} /\ OnePerThread(queue')
    BY <2>1, <2>4, <2>5, AppendFacts, AppendOrder
  <2> QED BY <2>1, <2>2, <2>3, <2>6 DEF Stranding
<1>6. CASE RunSend \/ LinkUp \/ ClientClose \/ TimerExpires
  BY <1>6, StrandingQuiet DEF RunSend, LinkUp, ClientClose, TimerExpires, Connecting
<1>7. CASE CloseHandler
  BY <1>7, StrandingQuiet DEF CloseHandler, Detach, Goto, Connecting, TypeOK
<1>8. CASE RecvDisconnect
  BY <1>8, StrandingQuiet DEF RecvDisconnect, Detach, Goto, Connecting, TypeOK
<1>9. CASE OnClose
  BY <1>9 DEF OnClose, Stranding
<1>10. CASE ClearQueue
  <2>1. InQueue' = {} /\ OnePerThread(queue')
    BY <1>10 DEF ClearQueue, InQueue, Range, OnePerThread
  <2> QED BY <2>1 DEF Stranding
<1>11. CASE LinkDown
  <2>1. CASE attached /\ connected
    BY <1>11, <2>1 DEF LinkDown, Stranding
  <2>2. CASE ~(attached /\ connected)
    BY <1>11, <2>2, StrandingQuiet DEF LinkDown, Connecting
  <2> QED BY <2>1, <2>2
<1>12. CASE RecvConnect
  <2>1. CASE connected
    BY <1>12, <2>1, StrandingQuiet DEF RecvConnect, Connecting, TypeOK
  <2>2. CASE ~connected
    BY <1>12, <2>2 DEF RecvConnect, Goto, Connecting, Located, TypeOK, Stranding
  <2> QED BY <2>1, <2>2
<1> QED BY <1>1, <1>2, <1>3, <1>4, <1>5, <1>6, <1>7, <1>8, <1>9, <1>10, <1>11, <1>12
        DEF Next, ThreadStep, UserStep, NetStep, LinkStep, Emit, Close, ReplyAck, Kinds

(***************************************************************************)
(* Removed: who can still push when the socket is closed.                  *)
(***************************************************************************)
LEMMA RemovedQuiet ==
    ASSUME Placed, Removed,
           UNCHANGED <<attached, connected, registered, queue>>,
           pc[Net] = "onclose" <=> pc'[Net] = "onclose",
           \A t \in Threads :
              pc'[t] \in {"branch", "push"} => pc[t] \in {"branch", "push"} \/ attached
    PROVE  Removed'
<1>1. InQueue' = InQueue
  BY DEF InQueue
<1> QED BY <1>1 DEF Removed

LEMMA RemovedStep == ASSUME Placed, Removed, Next PROVE Removed'
<1> USE DEF Placed
<1> Net \in Threads /\ AppThreads \subseteq Threads
  BY DEF Threads
<1>1. ASSUME NEW t \in Threads, NEW kind \in Kinds, Begin(t, kind)
      PROVE  Removed'
  BY <1>1, RemovedQuiet DEF Begin, Goto, TypeOK
<1>2. ASSUME NEW t \in Threads, SendGuard(t) \/ SendBranch(t) \/ ArmTimer(t)
      PROVE  Removed'
  BY <1>2, RemovedQuiet DEF SendGuard, SendBranch, ArmTimer, Return, Goto, TypeOK
<1>3. ASSUME NEW t \in Threads, SendFront(t) \/ SendOwn(t) PROVE Removed'
  BY <1>3, RemovedQuiet DEF SendFront, SendOwn, Send, Return, Goto, TypeOK
<1>4. ASSUME NEW t \in Threads, TakeFront(t) PROVE Removed'
  <2>1. /\ UNCHANGED <<attached, connected, registered>>
        /\ pc[Net] = "onclose" <=> pc'[Net] = "onclose"
        /\ \A u \in Threads :
              pc'[u] \in {"branch", "push"} => pc[u] \in {"branch", "push"}
    BY <1>4 DEF TakeFront, Goto, TypeOK
  <2>2. InQueue' \subseteq InQueue /\ (OnePerThread(queue) => OnePerThread(queue'))
    <3>1. CASE queue = << >>
      BY <1>4, <3>1 DEF TakeFront, InQueue
    <3>2. CASE queue # << >>
      <4>1. queue \in Seq(Packet) /\ queue' = Tail(queue)
        BY <1>4, <3>2 DEF TakeFront, TypeOK
      <4>2. InQueue = Range(queue) /\ InQueue' = Range(Tail(queue))
        BY <4>1 DEF InQueue
      <4> QED BY <3>2, <4>1, <4>2, TailFacts, TailOrder
    <3> QED BY <3>1, <3>2
  <2> QED BY <2>1, <2>2 DEF Removed
<1>5. ASSUME NEW t \in Threads, Push(t) PROVE Removed'
  <2>1. /\ own[t] \in Packet /\ own[t].by = t
        /\ queue \in Seq(Packet) /\ queue' = Append(queue, own[t])
    BY <1>5 DEF Push, TypeOK, Located
  <2>2. /\ UNCHANGED <<attached, connected, registered>>
        /\ pc[Net] = "onclose" <=> pc'[Net] = "onclose"
        /\ \A u \in Threads :
              pc'[u] \in {"branch", "push"} => u # t /\ pc[u] \in {"branch", "push"}
    BY <1>5 DEF Push, Return, Goto, TypeOK
  <2>3. CASE registered
    BY <2>2, <2>3 DEF Removed
  <2>4. CASE ~registered
    <3>1. OnePerThread(queue) /\ \A a \in InQueue : a.by # t
      BY <1>5, <2>4 DEF Removed, Push
    <3>2. InQueue = Range(queue) /\ InQueue' = Range(Append(queue, own[t]))
      BY <2>1 DEF InQueue
    <3>3. InQueue' = InQueue \cup {own[t]} /\ OnePerThread(queue')
      BY <2>1, <3>1, <3>2, AppendFacts, AppendOrder
    <3> QED BY <2>1, <2>2, <3>3 DEF Removed
  <2> QED BY <2>3, <2>4 DEF TypeOK
<1>6. CASE RunSend \/ LinkUp \/ ClientClose \/ TimerExpires
  BY <1>6, RemovedQuiet DEF RunSend, LinkUp, ClientClose, TimerExpires
<1>7. CASE CloseHandler
  <2>1. CASE attached
    BY <1>7, <2>1 DEF CloseHandler, Detach, Goto, TypeOK, Removed
  <2>2. CASE ~attached
    BY <1>7, <2>2, RemovedQuiet DEF CloseHandler
  <2> QED BY <2>1, <2>2
<1>8. CASE RecvDisconnect
  BY <1>8 DEF RecvDisconnect, Detach, Goto, TypeOK, Removed
<1>9. CASE OnClose
  BY <1>9 DEF OnClose, Removed
<1>10. CASE ClearQueue
  <2>1. InQueue' = {} /\ OnePerThread(queue')
    BY <1>10 DEF ClearQueue, InQueue, Range, OnePerThread
  <2>2. /\ UNCHANGED <<attached, connected>>
        /\ pc[Net] # "onclose" /\ pc'[Net] # "onclose"
        /\ ~registered' => ~registered \/ ~attached
    BY <1>10 DEF ClearQueue, Goto, TypeOK
  <2> QED BY <2>1, <2>2 DEF Removed
<1>11. CASE LinkDown
  <2>1. CASE attached /\ connected
    BY <1>11, <2>1 DEF LinkDown, Removed
  <2>2. CASE ~(attached /\ connected)
    BY <1>11, <2>2, RemovedQuiet DEF LinkDown
  <2> QED BY <2>1, <2>2
<1>12. CASE RecvConnect
  BY <1>12 DEF RecvConnect, Removed
<1> QED BY <1>1, <1>2, <1>3, <1>4, <1>5, <1>6, <1>7, <1>8, <1>9, <1>10, <1>11, <1>12
        DEF Next, ThreadStep, UserStep, NetStep, LinkStep, Emit, Close, ReplyAck, Kinds

(***************************************************************************)
(* The theorems.                                                           *)
(***************************************************************************)
LEMMA IInvInvariant == Spec => []IInv
<1>1. Init => IInv
  BY PlacedInit, PacketsInit DEF Init, IInv, Stranding, Removed
<1>2. IInv /\ [Next]_vars => IInv'
  <2>1. CASE Next
    BY <2>1, PlacedStep, PacketsStep, StrandingStep, RemovedStep DEF IInv
  <2>2. CASE UNCHANGED vars
    BY <2>2
    DEF vars, linkVars, timerVars, IInv, Placed, TypeOK, Located, Packets,
        OwnNewest, Older, QueueAscending, NoOvertakeInQueue, DrainedBeforeOwn,
        SentOnce, Stranding, Removed, Connecting, InQueue, InPosted, OnWire
  <2> QED BY <2>1, <2>2
<1> QED BY <1>1, <1>2, PTL DEF Spec

\* The variables of the socket keep their types, with any number of threads.
THEOREM TypeCorrect == Spec => []TypeOK
<1>1. IInv => TypeOK
  BY DEF IInv, Placed
<1> QED BY <1>1, IInvInvariant, PTL

\* Two threads that drain one queue never hold, post or send a packet twice
\* (the loops of sio_socket.cpp:312-323 and 496-508).
THEOREM PacketInOnePlace == Spec => []NoDuplicate
<1>1. IInv => NoDuplicate
  BY OnePlace DEF IInv
<1> QED BY <1>1, IInvInvariant, PTL

\* No packet overtakes a queued one of its thread, however many threads emit.
THEOREM QueuedNotOvertaken == Spec => []NoOvertakeInQueue
<1>1. IInv => NoOvertakeInQueue
  BY DEF IInv, Packets
<1> QED BY <1>1, IInvInvariant, PTL

\* The unguarded test of m_connected (sio_socket.cpp:494) strands at most one
\* packet per thread, however often the connection is lost and made again.
THEOREM StrandingIsBounded == Spec => []BoundedStranding
<1>1. IInv => BoundedStranding
  BY DEF IInv, Stranding, Connecting, BoundedStranding
<1> QED BY <1>1, IInvInvariant, PTL

\* A closed socket keeps nothing from before (sio_socket.cpp:327-342), and can
\* still be given at most one packet by each thread that was past the guards.
THEOREM NothingLeftBehind == Spec => []LeftAfterClose
<1>1. IInv => LeftAfterClose
  BY DEF IInv, Removed, LeftAfterClose, Placed, TypeOK
<1> QED BY <1>1, IInvInvariant, PTL
===============================================================================
