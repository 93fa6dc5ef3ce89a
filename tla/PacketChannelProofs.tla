-------------------------- MODULE PacketChannelProofs --------------------------
(***************************************************************************)
(* SioSocket implements PacketChannel, for any number of threads, packets  *)
(* and connections: what a step does to the packets that may still reach   *)
(* the connection is to add the one just made, to drop some, or to send    *)
(* one that is nowhere else.                                               *)
(***************************************************************************)
EXTENDS SioSocketProofs

Places == (InQueue \cup InPosted \cup Held) \ {NoPacket}

\* No two packets that may still be sent have the same identity.
Identified == \A p, q \in Places : Id(p) = Id(q) => p = q

MadeBounded == \A t \in Threads : made[t] <= MaxEmits + MaxAcks

\* A step that makes no packet loses some, or sends one.
Sends ==
    \E p \in Places :
        /\ wire' = Append(wire, p)
        /\ Places' = Places \ {p}

Moved ==
    /\ UNCHANGED made
    /\ \/ Places' \subseteq Places /\ UNCHANGED wire
       \/ Sends

LEMMA PlaceTypes ==
    ASSUME Placed, Packets
    PROVE  /\ Places \subseteq Packet
           /\ \A p \in Places : p.by \in Threads /\ p.seq \in 1 .. made[p.by]
<1> USE DEF Placed
<1>1. ASSUME NEW p \in Places
      PROVE  p \in Packet /\ p.by \in Threads /\ p.seq \in 1 .. made[p.by]
  <2>1. p \in Packet
    BY PacketTypes DEF Places, Held, TypeOK
  <2>2. p.by \in Threads /\ p.seq \in Nat \ {0} /\ made[p.by] \in Nat
    BY <2>1, PacketTypes DEF TypeOK
  <2>3. p.seq <= made[p.by]
    <3>1. CASE p \in InQueue \cup InPosted \cup {front[t] : t \in Threads}
      BY <3>1 DEF Places, Packets, OwnNewest, Older
    <3>2. CASE p \in {own[t] : t \in Threads}
      BY <2>2, <3>2 DEF Places, Located
    <3> QED BY <3>1, <3>2 DEF Places, Held
  <2> QED BY <2>1, <2>2, <2>3
<1> QED BY <1>1

\* A thread that does not transmit leaves every packet where it was, hands it
\* on, or drops it.
LEMMA MovedQuiet ==
    ASSUME UNCHANGED <<made, wire>>,
           InQueue' \cup InPosted' \subseteq InQueue \cup InPosted \cup Held,
           Held' \subseteq InQueue \cup Held \cup {NoPacket}
    PROVE  Moved
BY DEF Moved, Places

LEMMA HeldQuiet ==
    ASSUME \A t \in Threads : own'[t] \in {own[t], NoPacket},
           \A t \in Threads : front'[t] \in {front[t], NoPacket}
    PROVE  Held' \subseteq Held \cup {NoPacket}
BY DEF Held

\* Sending a packet from a thread's hands.
LEMMA MovedSend ==
    ASSUME Placed, Packets, NEW t \in Threads, NEW p \in Packet,
           attached, Send(t, p),
           UNCHANGED <<queue, made>>,
           \/ /\ p = front[t]
              /\ UNCHANGED own
              /\ front' = [front EXCEPT ![t] = NoPacket]
           \/ /\ p = own[t]
              /\ UNCHANGED front
              /\ own' = [own EXCEPT ![t] = NoPacket]
    PROVE  Moved
<1> USE DEF Placed
<1>1. p \in Places /\ p # NoPacket
  BY NoPacketNotPacket DEF Places, Held
<1>2. \A u \in Threads : own'[u] \in {own[u], NoPacket} /\ front'[u] \in {front[u], NoPacket}
  BY DEF TypeOK
<1>3. Held' \subseteq Held \cup {NoPacket} /\ InQueue' = InQueue
  BY <1>2, HeldQuiet DEF InQueue
<1>4. CASE posted' = Append(posted, p) /\ UNCHANGED wire
  <2>1. InPosted' = InPosted \cup {p}
    BY <1>4, AppendFacts DEF TypeOK, InPosted
  <2> QED BY <1>1, <1>3, <1>4, <2>1, MovedQuiet DEF Places
<1>5. CASE UNCHANGED <<posted, wire>>
  BY <1>3, <1>5, MovedQuiet DEF InPosted
<1>6. CASE wire' = Append(wire, p) /\ UNCHANGED posted
  <2>1. InPosted' = InPosted
    BY <1>6 DEF InPosted
  <2>2. p \notin InQueue \cup InPosted
    BY OnePlace DEF NoDuplicate
  <2>3. ASSUME NEW u \in Threads PROVE own'[u] # p /\ front'[u] # p
    <3>1. own[u] = p /\ p = own[t] => u = t
      BY <1>1 DEF Located
    <3>2. front[u] = p /\ p = front[t] => u = t
      BY <1>1 DEF Packets, SentOnce
    <3>3. (p = front[t] => own[u] # p) /\ (p = own[t] => front[u] # p)
      BY <1>1, OnePlace DEF NoDuplicate
    <3> QED BY <1>1, <3>1, <3>2, <3>3 DEF TypeOK
  <2>4. Held' \cup {NoPacket} = (Held \ {p}) \cup {NoPacket}
    <3>1. ASSUME NEW u \in Threads
          PROVE  /\ own[u] # p => own'[u] = own[u]
                 /\ front[u] # p => front'[u] = front[u]
      BY DEF TypeOK
    <3>2. Held \ {p} \subseteq Held'
      BY <3>1 DEF Held
    <3>3. p \notin Held'
      BY <2>3 DEF Held
    <3> QED BY <1>1, <1>3, <3>2, <3>3
  <2>5. Places' = Places \ {p}
    BY <1>3, <2>1, <2>2, <2>4 DEF Places
  <2> QED BY <1>1, <1>6, <2>5 DEF Moved, Sends
<1> QED BY <1>4, <1>5, <1>6 DEF Send, Transmit

LEMMA MovedRunSend ==
    ASSUME Placed, Packets, RunSend
    PROVE  Moved
<1> USE DEF Placed
<1> DEFINE h == Head(posted)
<1>1. /\ UNCHANGED <<queue, own, front, made>>
      /\ InQueue' = InQueue /\ Held' = Held
  BY DEF RunSend, InQueue, Held
<1>2. /\ posted \in Seq(Packet) /\ posted # << >> /\ posted' = Tail(posted)
      /\ IsInjective(posted)
  BY DEF RunSend, TypeOK, Packets, SentOnce
<1>3. /\ h \in Packet /\ h \in InPosted /\ h \notin InPosted'
      /\ InPosted' \subseteq InPosted
  BY <1>2, TailFacts DEF InPosted
<1>4. CASE wire' = wire
  BY <1>1, <1>3, <1>4, MovedQuiet
<1>5. CASE wire' = Append(wire, h)
  <2>1. ASSUME NEW p \in InPosted, p # h PROVE p \in InPosted'
    <3>1. PICK i \in 1 .. Len(posted) : posted[i] = p
      BY <1>2 DEF InPosted, Range
    <3>2. /\ Len(posted) \in Nat /\ h = posted[1]
          /\ DOMAIN Tail(posted) = 1 .. Len(posted) - 1
          /\ \A j \in 1 .. Len(posted) - 1 : Tail(posted)[j] = posted[j + 1]
      BY <1>2
    <3>3. i - 1 \in 1 .. Len(posted) - 1 /\ (i - 1) + 1 = i
      BY <2>1, <3>1, <3>2
    <3>4. Tail(posted)[i - 1] = p
      BY <3>1, <3>2, <3>3
    <3> QED BY <1>2, <3>2, <3>3, <3>4 DEF InPosted, Range
  <2>2. InPosted' = InPosted \ {h}
    BY <1>3, <2>1
  <2>3. h \notin InQueue \cup Held
    BY <1>3, OnePlace DEF NoDuplicate, Held
  <2>4. h \in Places /\ Places' = Places \ {h}
    BY <1>1, <1>3, <2>2, <2>3, NoPacketNotPacket DEF Places
  <2> QED BY <1>1, <1>5, <2>4 DEF Moved, Sends
<1> QED BY <1>4, <1>5 DEF RunSend, Transmit

LEMMA Moves ==
    ASSUME Placed, Packets, Next
    PROVE  \/ Moved
           \/ \E t \in Threads, kind \in Kinds : /\ made[t] < MaxEmits + MaxAcks
                                                 /\ Begin(t, kind)
<1> USE DEF Placed
<1> Net \in Threads /\ AppThreads \subseteq Threads
  BY DEF Threads
<1> DEFINE Nothing == UNCHANGED <<queue, posted, wire, own, front, made>>
<1>1. Nothing => Moved
  BY MovedQuiet DEF InQueue, InPosted, Held
<1> HIDE DEF Nothing
<1>2. ASSUME NEW t \in Threads, SendGuard(t) PROVE Moved
  <2>1. /\ UNCHANGED <<queue, posted, wire, made, front>>
        /\ \A u \in Threads : own'[u] \in {own[u], NoPacket}
    BY <1>2 DEF SendGuard, Return, TypeOK
  <2> QED BY <2>1, HeldQuiet, MovedQuiet DEF InQueue, InPosted
<1>3. ASSUME NEW t \in Threads, SendBranch(t) \/ ArmTimer(t) PROVE Moved
  BY <1>1, <1>3 DEF SendBranch, ArmTimer, Nothing
<1>4. ASSUME NEW t \in Threads, TakeFront(t) PROVE Moved
  <2>1. CASE queue = << >>
    BY <1>1, <1>4, <2>1 DEF TakeFront, Nothing
  <2>2. CASE queue # << >>
    <3>1. /\ UNCHANGED <<posted, wire, own, made>>
          /\ queue \in Seq(Packet) /\ queue' = Tail(queue)
          /\ \A u \in Threads : front'[u] \in {front[u], Head(queue)}
      BY <1>4, <2>2 DEF TakeFront, TypeOK
    <3>2. Head(queue) \in InQueue /\ InQueue' \subseteq InQueue
      BY <2>2, <3>1, TailFacts DEF InQueue
    <3>3. Held' \subseteq InQueue \cup Held
      BY <3>1, <3>2 DEF Held
    <3> QED BY <3>1, <3>2, <3>3, MovedQuiet DEF InPosted
  <2> QED BY <2>1, <2>2
<1>5. ASSUME NEW t \in Threads, SendFront(t) PROVE Moved
  <2>1. CASE ~attached
    BY <1>1, <1>5, <2>1 DEF SendFront, Send, Nothing
  <2>2. CASE attached
    <3>1. front[t] \in Packet
      BY <1>5 DEF SendFront, TypeOK, Located
    <3> QED BY <1>5, <2>2, <3>1, MovedSend DEF SendFront
  <2> QED BY <2>1, <2>2 DEF TypeOK
<1>6. ASSUME NEW t \in Threads, SendOwn(t) PROVE Moved
  <2>1. CASE ~attached
    BY <1>1, <1>6, <2>1 DEF SendOwn, Send, Nothing
  <2>2. CASE attached
    <3>1. own[t] \in Packet
      BY <1>6 DEF SendOwn, TypeOK, Located
    <3> QED BY <1>6, <2>2, <3>1, MovedSend DEF SendOwn, Return
  <2> QED BY <2>1, <2>2 DEF TypeOK
<1>7. ASSUME NEW t \in Threads, Push(t) PROVE Moved
  <2>1. own[t] \in Packet /\ own[t] \in Held
    BY <1>7 DEF Push, TypeOK, Located, Held
  <2>2. /\ UNCHANGED <<posted, wire, made, front>>
        /\ queue \in Seq(Packet) /\ queue' = Append(queue, own[t])
        /\ \A u \in Threads : own'[u] \in {own[u], NoPacket}
    BY <1>7 DEF Push, Return, TypeOK
  <2>3. InQueue' = InQueue \cup {own[t]}
    BY <2>1, <2>2, AppendFacts DEF InQueue
  <2> QED BY <2>1, <2>2, <2>3, HeldQuiet, MovedQuiet DEF InPosted
<1>8. CASE ClearQueue
  <2>1. InQueue' = {}
    BY <1>8 DEF ClearQueue, InQueue, Range
  <2> QED BY <1>8, <2>1, MovedQuiet DEF ClearQueue, InPosted, Held
<1>9. CASE CloseHandler \/ OnClose \/ LinkUp \/ LinkDown \/ ClientClose
           \/ RecvConnect \/ RecvDisconnect \/ TimerExpires
  BY <1>1, <1>9 DEF CloseHandler, OnClose, LinkUp, LinkDown, ClientClose,
     RecvConnect, RecvDisconnect, Detach, TimerExpires, Nothing
<1>10. ASSUME NEW t \in AppThreads, UserStep(t)
       PROVE  \E kind \in Kinds : made[t] < MaxEmits + MaxAcks /\ Begin(t, kind)
  BY <1>10, BoundsAssumption DEF UserStep, Emit, Close, Kinds, TypeOK
<1>11. ASSUME ReplyAck
       PROVE  \E kind \in Kinds : made[Net] < MaxEmits + MaxAcks /\ Begin(Net, kind)
  BY <1>11, BoundsAssumption DEF ReplyAck, Kinds, TypeOK
<1> QED BY <1>2, <1>3, <1>4, <1>5, <1>6, <1>7, <1>8, <1>9, <1>10, <1>11, MovedRunSend
        DEF Next, ThreadStep, UserStep, NetStep, LinkStep

LEMMA BeginPlaces ==
    ASSUME Placed, Packets, NEW t \in Threads, NEW kind \in Kinds, Begin(t, kind)
    PROVE  LET p == [by |-> t, seq |-> made[t] + 1, kind |-> kind]
           IN  /\ Places' = Places \cup {p}
               /\ UNCHANGED wire
               /\ made' = [made EXCEPT ![t] = made[t] + 1]
<1> USE DEF Placed
<1> DEFINE p == [by |-> t, seq |-> made[t] + 1, kind |-> kind]
<1>1. /\ UNCHANGED <<queue, posted, wire, front>>
      /\ own[t] = NoPacket /\ own'[t] = p
      /\ \A u \in Threads : u # t => own'[u] = own[u]
      /\ made' = [made EXCEPT ![t] = made[t] + 1]
      /\ p \in Packet
  BY DEF Begin, TypeOK, Located, Packet
<1> HIDE DEF p
<1>2. Held' \cup {NoPacket} = Held \cup {p, NoPacket}
  BY <1>1 DEF Held
<1> QED BY <1>1, <1>2, NoPacketNotPacket DEF Places, InQueue, InPosted, p

LEMMA IdentifiedStep ==
    ASSUME Placed, Packets, Identified, MadeBounded, [Next]_vars
    PROVE  Identified' /\ MadeBounded'
<1>1. CASE Moved
  BY <1>1 DEF Moved, Sends, Identified, MadeBounded
<1>2. ASSUME NEW t \in Threads, NEW kind \in Kinds, Begin(t, kind),
             made[t] < MaxEmits + MaxAcks
      PROVE  Identified' /\ MadeBounded'
  <2> DEFINE p == [by |-> t, seq |-> made[t] + 1, kind |-> kind]
  <2>1. /\ Places' = Places \cup {p}
        /\ made' = [made EXCEPT ![t] = made[t] + 1]
        /\ made \in [Threads -> Nat]
    BY <1>2, BeginPlaces DEF Placed, TypeOK
  <2>2. p.by = t /\ p.seq = made[t] + 1
    OBVIOUS
  <2> HIDE DEF p
  <2>3. ASSUME NEW q \in Places PROVE Id(q) # Id(p)
    BY <2>1, <2>2, PlaceTypes DEF Id
  <2>4. MadeBounded'
    BY <1>2, <2>1, BoundsAssumption DEF MadeBounded
  <2> QED BY <2>1, <2>3, <2>4 DEF Identified
<1>3. CASE UNCHANGED vars
  BY <1>3 DEF vars, Identified, MadeBounded, Places, InQueue, InPosted, Held
<1> QED BY <1>1, <1>2, <1>3, Moves

(***************************************************************************)
(* The refinement.                                                         *)
(***************************************************************************)
LEMMA ChannelInit == ASSUME Init PROVE Channel!ChanInit
<1>1. InQueue = {} /\ InPosted = {} /\ wire = << >>
  BY DEF Init, InQueue, InPosted, Range
<1>2. \A t \in Threads : own[t] = NoPacket /\ front[t] = NoPacket /\ made[t] = 0
  BY DEF Init
<1>3. \A t \in Threads : {t} \X (1 .. made[t]) = {}
  BY <1>2
<1>4. Held \subseteq {NoPacket}
  BY <1>2 DEF Held
<1>5. [i \in DOMAIN wire |-> Id(wire[i])] = << >>
  BY <1>1
<1> QED BY <1>1, <1>3, <1>4, <1>5 DEF Channel!ChanInit

LEMMA ChannelMoved ==
    ASSUME Placed, Packets, Identified, MadeBounded, Moved
    PROVE  [Channel!ChanNext]_(Channel!chanVars)
<1> DEFINE pending == {Id(p) : p \in Places}
           delivered == [i \in DOMAIN wire |-> Id(wire[i])]
<1>0. /\ pending = {Id(p) : p \in (InQueue \cup InPosted \cup Held) \ {NoPacket}}
      /\ pending' = {Id(p) : p \in ((InQueue \cup InPosted \cup Held) \ {NoPacket})'}
  BY DEF Places
<1>1. CASE Places' \subseteq Places /\ UNCHANGED wire
  <2>1. pending' \in SUBSET pending /\ delivered' = delivered
    BY <1>1
  <2> QED BY <1>0, <2>1 DEF Moved, Channel!ChanNext, Channel!Lose
<1>2. CASE Sends
  <2>1. PICK p \in Places : wire' = Append(wire, p) /\ Places' = Places \ {p}
    BY <1>2 DEF Sends
  <2>2. pending' = pending \ {Id(p)}
    BY <2>1 DEF Identified
  <2>3. delivered' = Append(delivered, Id(p))
    <3>1. wire \in Seq(Packet) /\ p \in Packet
      BY <2>1, PlaceTypes DEF Placed, TypeOK
    <3>2. /\ Len(wire) \in Nat /\ DOMAIN wire = 1 .. Len(wire)
          /\ DOMAIN wire' = 1 .. Len(wire) + 1
          /\ \A i \in 1 .. Len(wire) : wire'[i] = wire[i]
          /\ wire'[Len(wire) + 1] = p
      BY <2>1, <3>1
    <3>3. delivered \in Seq({Id(wire[i]) : i \in DOMAIN wire}) /\ Len(delivered) = Len(wire)
      BY <3>2
    <3> QED BY <3>2, <3>3
  <2>4. Id(p) \in Threads \X (1 .. (MaxEmits + MaxAcks))
    <3>1. p.by \in Threads /\ p.seq \in 1 .. made[p.by] /\ made[p.by] \in Nat
      BY <2>1, PlaceTypes DEF Placed, TypeOK
    <3>2. made[p.by] <= MaxEmits + MaxAcks /\ MaxEmits + MaxAcks \in Nat
      BY <3>1, BoundsAssumption DEF MadeBounded
    <3>3. p.seq \in 1 .. MaxEmits + MaxAcks
      BY <3>1, <3>2
    <3> QED BY <3>1, <3>3 DEF Id
  <2>5. Id(p) \in pending /\ UNCHANGED made
    BY <2>1 DEF Moved
  <2> DEFINE id == Id(p)
  <2> HIDE DEF id
  <2>6. /\ id \in Threads \X (1 .. (MaxEmits + MaxAcks))
        /\ id \in pending /\ pending' = pending \ {id}
        /\ delivered' = Append(delivered, id)
        /\ UNCHANGED made
    BY <2>2, <2>3, <2>4, <2>5 DEF id
  <2> HIDE DEF pending, delivered
  <2>7. Channel!Deliver(id)
    BY <1>0, <2>6 DEF Channel!Deliver, pending, delivered
  <2> QED BY <2>6, <2>7 DEF Channel!ChanNext, Channel!Deliver
<1> QED BY <1>1, <1>2 DEF Moved
LEMMA ChannelBegin ==
    ASSUME Placed, Packets, NEW t \in Threads, NEW kind \in Kinds, Begin(t, kind),
           made[t] < MaxEmits + MaxAcks
    PROVE  [Channel!ChanNext]_(Channel!chanVars)
<1> USE DEF Placed
<1> DEFINE p == [by |-> t, seq |-> made[t] + 1, kind |-> kind]
           id == <<t, made[t] + 1>>
           pending == {Id(q) : q \in Places}
           submitted == UNION {{u} \X (1 .. made[u]) : u \in Threads}
<1>0. /\ pending = {Id(q) : q \in (InQueue \cup InPosted \cup Held) \ {NoPacket}}
      /\ pending' = {Id(q) : q \in ((InQueue \cup InPosted \cup Held) \ {NoPacket})'}
  BY DEF Places
<1>1. /\ Places' = Places \cup {p} /\ UNCHANGED wire
      /\ made' = [made EXCEPT ![t] = made[t] + 1]
      /\ made \in [Threads -> Nat]
  BY BeginPlaces DEF TypeOK
<1>2. pending' = pending \cup {id}
  <2>1. Id(p) = id
    BY DEF Id
  <2> HIDE DEF p, id
  <2> QED BY <1>1, <2>1
<1>3. \A i : i \in 1 .. made[t] + 1 <=> i \in 1 .. made[t] \/ i = made[t] + 1
  BY <1>1
<1>4. submitted' = submitted \cup {id}
  <2>1. ASSUME NEW u \in Threads
        PROVE  made'[u] = IF u = t THEN made[t] + 1 ELSE made[u]
    BY <1>1
  <2>2. ASSUME NEW x PROVE x \in submitted' <=> x \in submitted \/ x = id
    <3>1. ASSUME x \in submitted' PROVE x \in submitted \/ x = id
      <4>1. PICK u \in Threads : \E i \in 1 .. made'[u] : x = <<u, i>>
        BY <3>1
      <4>2. PICK i \in 1 .. made'[u] : x = <<u, i>>
        BY <4>1
      <4> QED BY <1>3, <2>1, <4>2
    <3>2. ASSUME x \in submitted PROVE x \in submitted'
      <4>1. PICK u \in Threads : \E i \in 1 .. made[u] : x = <<u, i>>
        BY <3>2
      <4>2. PICK i \in 1 .. made[u] : x = <<u, i>>
        BY <4>1
      <4>3. i \in 1 .. made'[u]
        BY <1>3, <2>1, <4>2
      <4> QED BY <4>2, <4>3
    <3>3. id \in submitted'
      <4>1. made[t] + 1 \in 1 .. made'[t]
        BY <1>1, <1>3, <2>1
      <4> QED BY <4>1
    <3> QED BY <3>1, <3>2, <3>3
  <2> QED BY <2>2
<1>5. id \notin submitted
  BY <1>1
<1>6. id \in Threads \X (1 .. (MaxEmits + MaxAcks))
  BY <1>1, BoundsAssumption
<1>7. [i \in DOMAIN wire |-> Id(wire[i])]' = [i \in DOMAIN wire |-> Id(wire[i])]
  BY <1>1
<1> HIDE DEF id, pending, submitted
<1>8. Channel!Submit(id)
  BY <1>0, <1>2, <1>4, <1>5, <1>7 DEF Channel!Submit, pending, submitted
<1> QED BY <1>6, <1>8 DEF Channel!ChanNext, Channel!Submit

\* The socket implements the at-most-once channel (sio_socket.cpp:312-323 and
\* 491-515): whatever is put on the connection was handed in and is put there once.
THEOREM ChannelImplemented == Spec => ImplementsChannel
<1>1. Init => Channel!ChanInit /\ Identified /\ MadeBounded
  <2>1. ASSUME Init PROVE Identified /\ MadeBounded
    <3>1. Places = {}
      BY <2>1 DEF Init, Places, InQueue, InPosted, Range, Held
    <3>2. MadeBounded
      BY <2>1, BoundsAssumption DEF Init, MadeBounded
    <3> QED BY <3>1, <3>2 DEF Identified
  <2> QED BY <2>1, ChannelInit
<1>2. IInv /\ Identified /\ MadeBounded /\ [Next]_vars => Identified' /\ MadeBounded'
  BY IdentifiedStep DEF IInv
<1>3. IInv /\ Identified /\ MadeBounded /\ [Next]_vars
        => [Channel!ChanNext]_(Channel!chanVars)
  <2>1. CASE UNCHANGED vars
    BY <2>1 DEF vars, Channel!chanVars, InQueue, InPosted, Held
  <2>2. CASE Next
    BY <2>2, Moves, ChannelMoved, ChannelBegin DEF IInv
  <2> QED BY <2>1, <2>2
<1> QED BY <1>1, <1>2, <1>3, IInvInvariant, PTL DEF Spec, ImplementsChannel, Channel!ChanSpec
=============================================================================
