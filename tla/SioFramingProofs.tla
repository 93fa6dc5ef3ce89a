--------------------------- MODULE SioFramingProofs ---------------------------
(***************************************************************************)
(* Proofs about packets (SioPacket) and framing (SioFraming).              *)
(*                                                                         *)
(* First, what the frames of a packet do to the end they come to: Buffers  *)
(* and Json agree on the numbers of the blobs, so that from_json puts each *)
(* in its place (JsonRoundTrip), and an end that is given the frames of a  *)
(* packet decodes that packet (EncodeRoundTrip).                           *)
(*                                                                         *)
(* Then the invariants of SioFraming, from one inductive invariant, IInv.  *)
(*                                                                         *)
(* Toward the client (Stream), the frames still to come complete what is   *)
(* decoded to what was sent.                                               *)
(*                                                                         *)
(* Of ids and callbacks (Numbered, Registered, Called, Answers,            *)
(* Delivered): an id is never above the number of events, and for each     *)
(* there is a callback in m_acks or one was called.  An id belongs to one  *)
(* event only as long as no two threads have raced for s_global_event_id   *)
(* (Unique): then one of them at most is between its read and its write.   *)
(*                                                                         *)
(* Toward the server (Served), every frame on its way has a place, which   *)
(* is an event and a number, and the frames of a thread are in order.  The *)
(* server's partial packet is at a place of one thread, whose next frame   *)
(* is pending: with its own attachments up to that place, or mixed, that   *)
(* is with at least as many, one of which is another thread's (Half,       *)
(* Mixture).  A thread's own frames cannot mix two of its packets, as the  *)
(* text of the second comes after the last attachment of the first.        *)
(***************************************************************************)
EXTENDS SioFraming, Induction, SequenceTheorems

-------------------------------------------------------------------------------
(****************************************************************************)
(* A packet and its frames.                                                 *)
(****************************************************************************)

(* What SelectSeq stands for, where the recursion it is defined by has a    *)
(* solution.                                                                *)
LEMMA BuffersUnfold ==
    ASSUME NEW Leaf, NEW msg \in Seq(Leaf), NEW h,
           h = [i \in 0 .. Len(msg) |->
                   IF i = 0 THEN << >>
                   ELSE IF IsBlob(msg[i]) THEN Append(h[i - 1], msg[i]) ELSE h[i - 1]]
    PROVE  \E f : /\ f = [i \in 0 .. Len(msg) |->
                            IF i = 0 THEN << >>
                            ELSE IF IsBlob(msg[i]) THEN Append(f[i - 1], msg[i])
                                                   ELSE f[i - 1]]
                  /\ Buffers(msg) = f[Len(msg)]
  BY DEF Buffers

(* The first elements of a sequence.                                        *)
LEMMA FirstElements ==
    ASSUME NEW S, NEW s \in Seq(S), NEW n \in 0 .. Len(s)
    PROVE  /\ SubSeq(s, 1, n) \in Seq(S)
           /\ Len(SubSeq(s, 1, n)) = n
           /\ \A i \in 1 .. n : SubSeq(s, 1, n)[i] = s[i]
<1>1. \A i \in 1 .. n : s[i] \in S
  OBVIOUS
<1>2. 1 \in Int /\ n \in Int /\ n - 1 + 1 = n
  OBVIOUS
<1>3. /\ SubSeq(s, 1, n) \in Seq(S)
      /\ Len(SubSeq(s, 1, n)) = IF 1 <= n THEN n - 1 + 1 ELSE 0
      /\ \A i \in 1 .. n - 1 + 1 : SubSeq(s, 1, n)[i] = s[1 + i - 1]
  BY <1>1, <1>2, SubSeqProperties
<1> QED
  BY <1>3

(* The buffers of the first leaves, one leaf after the other.               *)
LEMMA BuffersStep ==
    ASSUME NEW Leaf, NEW msg \in Seq(Leaf)
    PROVE  \E f \in [Nat -> Seq(Leaf)] :
              /\ f[0] = << >>
              /\ \A n \in 0 .. Len(msg) - 1 :
                    f[n + 1] = IF IsBlob(msg[n + 1]) THEN Append(f[n],
                      msg[n + 1]) ELSE f[n]
              /\ \A n \in 0 .. Len(msg) : Buffers(SubSeq(msg, 1, n)) = f[n]
<1> DEFINE S == Seq(Leaf)
           g == [x \in Nat \X S |-> IF x[1] + 1 <= Len(msg) /\ IsBlob(msg[x[1] + 1])
                                    THEN Append(x[2], msg[x[1] + 1]) ELSE x[2]]
<1>1. g \in [Nat \X S -> S]
  <2>1. ASSUME NEW x \in Nat \X S, x[1] + 1 <= Len(msg)
        PROVE  Append(x[2], msg[x[1] + 1]) \in S
    BY <2>1
  <2> QED
    BY <2>1
<1>2. << >> \in S
  OBVIOUS
<1>3. PICK f : f \in Iterates(S, << >>, g)
  <2> HIDE DEF g, S
  <2> QED
    BY <1>1, <1>2, Recursion
<1>4. f \in [Nat -> S] /\ f[0] = << >> /\ \A n \in Nat : f[n + 1] = g[<<n, f[n]>>]
  <2> HIDE DEF g, S
  <2> QED
    BY <1>3 DEF Iterates
<1>5. ASSUME NEW n \in Nat, n < Len(msg)
      PROVE  f[n + 1] = IF IsBlob(msg[n + 1]) THEN Append(f[n], msg[n + 1]) ELSE f[n]
  <2>1. n + 1 <= Len(msg) /\ f[n] \in S
    <3> HIDE DEF g
    <3> QED
      BY <1>4, <1>5
  <2>2. f[n + 1] = g[<<n, f[n]>>]
    BY <1>4
  <2> QED
    BY <2>1, <2>2
<1>6. ASSUME NEW n \in 0 .. Len(msg) PROVE Buffers(SubSeq(msg, 1, n)) = f[n]
  <2> DEFINE s == SubSeq(msg, 1, n)
             h == [i \in 0 .. n |-> f[i]]
  <2>1. s \in Seq(Leaf) /\ Len(s) = n /\ \A i \in 1 .. n : s[i] = msg[i]
    BY FirstElements
  <2> HIDE DEF s
  <2>2. h = [i \in 0 .. n |->
                IF i = 0 THEN << >>
                ELSE IF IsBlob(s[i]) THEN Append(h[i - 1], s[i]) ELSE h[i - 1]]
    <3>1. ASSUME NEW i \in 1 .. n
          PROVE  h[i] = IF IsBlob(s[i]) THEN Append(h[i - 1], s[i]) ELSE h[i - 1]
      <4>1. i - 1 \in Nat /\ i - 1 < Len(msg) /\ (i - 1) + 1 = i
        OBVIOUS
      <4>2. h[i] = f[i] /\ h[i - 1] = f[i - 1]
        OBVIOUS
      <4>3. f[i] = IF IsBlob(msg[i]) THEN Append(f[i - 1], msg[i]) ELSE f[i - 1]
        BY <4>1, <1>5
      <4> QED
        BY <4>2, <4>3, <2>1
    <3>2. h[0] = << >>
      BY <1>4
    <3>3. ASSUME NEW i \in 0 .. n
          PROVE  h[i] = IF i = 0 THEN << >>
                        ELSE IF IsBlob(s[i]) THEN Append(h[i - 1], s[i]) ELSE h[i - 1]
      <4> HIDE DEF h
      <4>1. i = 0 \/ i \in 1 .. n
        OBVIOUS
      <4> QED
        BY <3>1, <3>2, <4>1
    <3> QED
      BY <3>3, Zenon
  <2> HIDE DEF h
  <2>3. PICK e : /\ e = [i \in 0 .. Len(s) |->
                            IF i = 0 THEN << >>
                            ELSE IF IsBlob(s[i]) THEN Append(e[i - 1], s[i])
                                                 ELSE e[i - 1]]
                 /\ Buffers(s) = e[Len(s)]
    BY <2>1, <2>2, BuffersUnfold
  <2>8. \A i \in 0 .. n :
            e[i] = IF i = 0 THEN << >>
                   ELSE IF IsBlob(s[i]) THEN Append(e[i - 1], s[i]) ELSE e[i - 1]
    <3> HIDE DEF g
    <3> QED
      BY <2>1, <2>3
  <2> DEFINE Same == {i \in Nat : i <= n => e[i] = f[i]}
  <2>4. 0 \in Same
    BY <2>3, <1>4, <2>1
  <2>5. ASSUME NEW i \in Nat, i \in Same PROVE i + 1 \in Same
    <3>1. SUFFICES ASSUME i + 1 <= n PROVE e[i + 1] = f[i + 1]
      OBVIOUS
    <3>2. i + 1 \in 0 .. n /\ i + 1 \in 1 .. n /\ (i + 1) - 1 = i /\ i < Len(msg)
      BY <3>1
    <3>3. e[i + 1] = IF IsBlob(s[i + 1]) THEN Append(e[i], s[i + 1]) ELSE e[i]
      BY <2>8, <3>2
    <3>4. e[i] = f[i]
      BY <2>5, <3>1
    <3> QED
      BY <1>5, <2>1, <3>2, <3>3, <3>4
  <2>6. \A i \in Nat : i \in Same
    <3> HIDE DEF Same
    <3> QED
      BY <2>4, <2>5, SetInduction
  <2>7. e[n] = f[n]
    BY <2>6
  <2> QED
    BY <2>1, <2>3, <2>7 DEF s
<1>7. \A n \in 0 .. Len(msg) - 1 : n \in Nat /\ n < Len(msg)
  OBVIOUS
<1> HIDE DEF g
<1> QED
  BY <1>4, <1>5, <1>6, <1>7

(* A placeholder has the number of a buffer, and that buffer is the leaf it *)
(* stands for.                                                              *)
LEMMA Placeholders ==
    ASSUME NEW Leaf \in SUBSET Nat, NEW msg \in Seq(Leaf)
    PROVE  /\ Buffers(msg) \in Seq(Leaf)
           /\ Len(Buffers(msg)) <= Len(msg)
           /\ \A i \in 1 .. Len(msg) : IsBlob(msg[i]) =>
                 /\ Json(msg)[i] \in 0 .. Len(Buffers(msg)) - 1
                 /\ Buffers(msg)[Json(msg)[i] + 1] = msg[i]
<1>1. PICK f \in [Nat -> Seq(Leaf)] :
          /\ f[0] = << >>
          /\ \A n \in 0 .. Len(msg) - 1 :
                f[n + 1] = IF IsBlob(msg[n + 1]) THEN Append(f[n], msg[n + 1]) ELSE f[n]
          /\ \A n \in 0 .. Len(msg) : Buffers(SubSeq(msg, 1, n)) = f[n]
  BY BuffersStep
<1> DEFINE Placed(n, i) == /\ Len(f[i - 1]) < Len(f[n])
                           /\ f[n][Len(f[i - 1]) + 1] = msg[i]
           Good == {n \in Nat : n <= Len(msg) =>
                        /\ Len(f[n]) <= n
                        /\ \A i \in 1 .. n : IsBlob(msg[i]) => Placed(n, i)}
<1>2. 0 \in Good
  BY <1>1
<1>3. ASSUME NEW n \in Nat, n \in Good PROVE n + 1 \in Good
  <2>1. SUFFICES ASSUME n + 1 <= Len(msg)
                 PROVE  /\ Len(f[n + 1]) <= n + 1
                        /\ \A i \in 1 .. n + 1 : IsBlob(msg[i]) => Placed(n + 1, i)
    OBVIOUS
  <2>2. n \in 0 .. Len(msg) - 1 /\ n + 1 \in 1 .. Len(msg) /\ n <= Len(msg)
    BY <2>1
  <2>3. f[n] \in Seq(Leaf) /\ msg[n + 1] \in Leaf /\ Len(f[n]) \in Nat
    <3>1. f[n] \in Seq(Leaf)
      OBVIOUS
    <3> QED
      BY <2>2, <3>1, ElementOfSeq, LenProperties
  <2>4. /\ Len(f[n]) <= n
        /\ \A i \in 1 .. n : IsBlob(msg[i]) => Placed(n, i)
    BY <1>3, <2>2
  <2>5. CASE IsBlob(msg[n + 1])
    <3>1. f[n + 1] = Append(f[n], msg[n + 1])
      BY <1>1, <2>2, <2>5
    <3>2. /\ Len(f[n + 1]) = Len(f[n]) + 1
          /\ f[n + 1][Len(f[n]) + 1] = msg[n + 1]
          /\ \A j \in 1 .. Len(f[n]) : f[n + 1][j] = f[n][j]
      BY <2>3, <3>1, AppendProperties
    <3>3. ASSUME NEW i \in 1 .. n, IsBlob(msg[i]) PROVE Placed(n + 1, i)
      <4>1. Placed(n, i) /\ i - 1 \in Nat /\ f[i - 1] \in Seq(Leaf)
        <5> HIDE DEF Placed
        <5> QED
          BY <2>4, <3>3
      <4>2. Len(f[i - 1]) \in Nat
        BY <4>1, LenProperties
      <4>3. Len(f[i - 1]) + 1 \in 1 .. Len(f[n])
        <5>1. \A x, y \in Nat : x < y => x + 1 \in 1 .. y
          OBVIOUS
        <5>2. Len(f[i - 1]) < Len(f[n])
          BY <4>1
        <5> QED
          BY <2>3, <4>2, <5>1, <5>2
      <4> QED
        BY <4>1, <4>2, <4>3, <3>2, <2>3
    <3>4. Placed(n + 1, n + 1)
      <4>1. (n + 1) - 1 = n /\ Len(f[n]) \in Nat
        BY <2>3
      <4> QED
        BY <3>2, <4>1
    <3>5. \A i \in 1 .. n + 1 : i = n + 1 \/ i \in 1 .. n
      OBVIOUS
    <3>6. Len(f[n + 1]) <= n + 1
      BY <2>3, <2>4, <3>2
    <3> HIDE DEF Placed
    <3> QED
      BY <3>3, <3>4, <3>5, <3>6
  <2>6. CASE ~IsBlob(msg[n + 1])
    <3>1. f[n + 1] = f[n]
      BY <1>1, <2>2, <2>6
    <3>2. \A i \in 1 .. n + 1 : i = n + 1 \/ i \in 1 .. n
      OBVIOUS
    <3>3. Len(f[n + 1]) <= n + 1
      BY <2>3, <2>4, <3>1
    <3>4. \A i \in 1 .. n : Placed(n, i) => Placed(n + 1, i)
      BY <3>1
    <3> HIDE DEF Placed
    <3> QED
      BY <2>4, <2>6, <3>2, <3>3, <3>4
  <2> QED
    BY <2>5, <2>6
<1>4. Len(msg) \in Good
  <2>1. \A n \in Nat : n \in Good
    <3> HIDE DEF Good
    <3> QED
      BY <1>2, <1>3, SetInduction
  <2> HIDE DEF Good
  <2> QED
    BY <2>1
<1>5. Buffers(msg) = f[Len(msg)]
  <2>1. SubSeq(msg, 1, Len(msg)) = msg /\ Len(msg) \in 0 .. Len(msg)
    BY SubSeqFull, LenProperties
  <2> QED
    BY <1>1, <2>1
<1>6. ASSUME NEW i \in 1 .. Len(msg), IsBlob(msg[i])
      PROVE  /\ Json(msg)[i] \in 0 .. Len(Buffers(msg)) - 1
             /\ Buffers(msg)[Json(msg)[i] + 1] = msg[i]
  <2>1. i - 1 \in 0 .. Len(msg) /\ i - 1 \in Nat
    OBVIOUS
  <2>2. Json(msg)[i] = Len(f[i - 1])
    <3>1. Buffers(SubSeq(msg, 1, i - 1)) = f[i - 1]
      BY <1>1, <2>1
    <3>2. DOMAIN msg = 1 .. Len(msg)
      OBVIOUS
    <3> QED
      BY <1>6, <3>1, <3>2 DEF Json
  <2>3. Placed(Len(msg), i)
    BY <1>4, <1>6
  <2>4. Len(f[i - 1]) \in Nat /\ Len(f[Len(msg)]) \in Nat
    <3>1. f[i - 1] \in Seq(Leaf) /\ f[Len(msg)] \in Seq(Leaf)
      BY <2>1, LenProperties
    <3> QED
      BY <3>1, LenProperties
  <2> QED
    BY <2>2, <2>3, <2>4, <1>5
<1>7. f[Len(msg)] \in Seq(Leaf) /\ Len(f[Len(msg)]) <= Len(msg)
  BY <1>1, <1>4
<1> QED
  BY <1>5, <1>6, <1>7

(* from_json gives back the message accept_message was given.               *)
THEOREM JsonRoundTrip ==
    ASSUME NEW msg \in Seq(Nat)
    PROVE  FromJson(Json(msg), Buffers(msg)) = msg
<1>1. /\ \A i \in 1 .. Len(msg) : IsBlob(msg[i]) =>
            /\ Json(msg)[i] \in 0 .. Len(Buffers(msg)) - 1
            /\ Buffers(msg)[Json(msg)[i] + 1] = msg[i]
      /\ Buffers(msg) \in Seq(Nat)
  BY Placeholders
<1>2. DOMAIN Json(msg) = 1 .. Len(msg)
  BY DEF Json
<1>3. ASSUME NEW i \in 1 .. Len(msg) PROVE FromJson(Json(msg), Buffers(msg))[i] = msg[i]
  <2>1. CASE IsBlob(msg[i])
    <3>1. Json(msg)[i] \in Nat /\ Json(msg)[i] < Len(Buffers(msg))
      BY <1>1, <2>1
    <3> QED
      BY <1>1, <1>2, <2>1, <3>1 DEF FromJson, Plain
  <2>2. CASE ~IsBlob(msg[i])
    <3>1. Json(msg)[i] = Plain
      BY <2>2 DEF Json
    <3>2. msg[i] = Text
      BY <2>2 DEF IsBlob, Text
    <3> QED
      BY <1>2, <3>1, <3>2 DEF FromJson
  <2> QED
    BY <2>1, <2>2
<1>4. FromJson(Json(msg), Buffers(msg)) = [i \in 1 .. Len(msg) |-> FromJson(Json(msg),
        Buffers(msg))[i]]
  BY <1>2 DEF FromJson
<1> QED
  BY <1>3, <1>4

(* A packet is a text frame, and a binary frame for each buffer.            *)
LEMMA EncodeFrames ==
    ASSUME NEW packet, packet.msg \in Seq(Nat)
    PROVE  /\ Len(Encode(packet)) = Len(Buffers(packet.msg)) + 1
           /\ Encode(packet) # << >>
           /\ Encode(packet) \in Seq({Encode(packet)[m] : m \in 1 .. Len(Encode(packet))})
           /\ Encode(packet)[1] = TextFrame(packet)
           /\ \A i \in 1 .. Len(Buffers(packet.msg)) :
                 Encode(packet)[i + 1] = BinaryFrame(Buffers(packet.msg)[i])
<1> DEFINE b == Buffers(packet.msg)
           binary == [i \in DOMAIN b |-> BinaryFrame(b[i])]
           F == {TextFrame(packet)} \cup {BinaryFrame(x) : x \in Nat}
<1>1. b \in Seq(Nat)
  BY Placeholders
<1> HIDE DEF b
<1>2. binary \in Seq(F) /\ Len(binary) = Len(b)
  BY <1>1
<1>3. <<TextFrame(packet)>> \in Seq(F) /\ Len(<<TextFrame(packet)>>) = 1
  OBVIOUS
<1>4. Encode(packet) = <<TextFrame(packet)>> \o binary
  BY DEF Encode, b
<1>5. /\ Encode(packet) \in Seq(F)
      /\ Len(Encode(packet)) = 1 + Len(binary)
      /\ \A i \in 1 .. 1 + Len(binary) :
            Encode(packet)[i] = IF i <= 1 THEN <<TextFrame(packet)>>[i] ELSE binary[i - 1]
  <2> HIDE DEF binary, F
  <2> QED
    BY <1>2, <1>3, <1>4, ConcatProperties
<1>6. Encode(packet)[1] = TextFrame(packet)
  BY <1>1, <1>2, <1>5
<1>7. ASSUME NEW i \in 1 .. Len(b) PROVE Encode(packet)[i + 1] = BinaryFrame(b[i])
  <2>1. i + 1 \in 1 .. 1 + Len(binary) /\ ~(i + 1 <= 1) /\ (i + 1) - 1 = i
    BY <1>1, <1>2
  <2> QED
    BY <1>1, <1>2, <1>5, <2>1
<1>8. Len(b) \in Nat /\ Len(Encode(packet)) = Len(b) + 1
  BY <1>1, <1>2, <1>5
<1>9. Encode(packet) \in Seq({Encode(packet)[m] : m \in 1 .. Len(Encode(packet))})
  <2>1. Encode(packet) \in [1 .. Len(Encode(packet)) -> {Encode(packet)[m] :
          m \in 1 .. Len(Encode(packet))}]
    BY <1>5
  <2> QED
    BY <1>5, <2>1
<1> QED
  BY <1>6, <1>7, <1>8, <1>9 DEF b

(* A packet of which the first m frames have come.                          *)
PartialOf(packet, m) ==
    [frame |-> [id |-> packet.id, about |-> packet.about, json |-> Json(packet.msg),
                pending |-> Len(Buffers(packet.msg)) - (m - 1)],
     buffers |-> SubSeq(Buffers(packet.msg), 1, m - 1)]

(* Packets as they are sent: their leaves are numbers.                      *)
Packets == [id : Int, about : Int, msg : Seq(Nat)]

(* An end of the connection that has decoded a sequence of packets.         *)
IsEnd(end) == end = [partial |-> end.partial, decoded |-> end.decoded]

(* A packet that is still partial is not NoPacket.                          *)
LEMMA PartialIsPacket ==
    ASSUME NEW packet \in Packets, NEW m \in 1 .. Len(Buffers(packet.msg))
    PROVE  PartialOf(packet, m) # NoPacket
<1>1. Len(Buffers(packet.msg)) \in Nat
  BY Placeholders DEF Packets
<1>2. PartialOf(packet, m).frame.pending # NoPacket.frame.pending
  BY <1>1 DEF PartialOf, NoPacket
<1> QED
  BY <1>2

(* What a frame of a packet does to the end it comes to.                    *)
LEMMA PutTextFrame ==
    ASSUME NEW packet \in Packets, NEW end, IsEnd(end)
    PROVE  PutPayload(end, Encode(packet)[1]) =
              IF Len(Buffers(packet.msg)) = 0
              THEN [partial |-> end.partial, decoded |-> Append(end.decoded, packet)]
              ELSE [partial |-> PartialOf(packet, 1), decoded |-> end.decoded]
<1>1. packet.msg \in Seq(Nat) /\ packet = [id |-> packet.id, about |-> packet.about,
        msg |-> packet.msg]
  BY DEF Packets
<1>2. Buffers(packet.msg) \in Seq(Nat) /\ Len(Buffers(packet.msg)) \in Nat
  BY <1>1, Placeholders
<1>3. Encode(packet)[1] = TextFrame(packet)
  BY <1>1, EncodeFrames
<1>4. PutPayload(end, Encode(packet)[1]) = PutText(end, TextFrame(packet))
  BY <1>3 DEF PutPayload, TextFrame
<1>5. CASE Len(Buffers(packet.msg)) = 0
  <2>1. Buffers(packet.msg) = << >>
    BY <1>2, <1>5, EmptySeq
  <2>2. FromJson(Json(packet.msg), << >>) = packet.msg
    BY <1>1, <2>1, JsonRoundTrip
  <2>3. Decoded(end, TextFrame(packet), << >>) = Append(end.decoded, packet)
    BY <1>1, <2>2 DEF Decoded, TextFrame
  <2>4. PutText(end, TextFrame(packet)) = [end EXCEPT !.decoded = Append(end.decoded,
          packet)]
    BY <1>5, <2>3 DEF PutText, TextFrame
  <2> QED
    BY <1>4, <1>5, <2>4 DEF IsEnd
<1>6. CASE Len(Buffers(packet.msg)) # 0
  <2>1. SubSeq(Buffers(packet.msg), 1, 0) = << >>
    BY SubSeqEmpty
  <2>2. PutText(end, TextFrame(packet)) = [end EXCEPT !.partial = PartialOf(packet, 1)]
    BY <1>2, <1>6, <2>1 DEF PutText, TextFrame, PartialOf
  <2> QED
    BY <1>4, <1>6, <2>2 DEF IsEnd
<1> QED
  BY <1>5, <1>6

(* The binary frame of blob m, where the text and the blobs before it have  *)
(* come: the packet is whole with the last of them.                         *)
LEMMA PutBinaryFrame ==
    ASSUME NEW packet \in Packets, NEW end, IsEnd(end),
           NEW m \in 1 .. Len(Buffers(packet.msg)),
           end.partial = PartialOf(packet, m)
    PROVE  PutPayload(end, Encode(packet)[m + 1]) =
              IF m < Len(Buffers(packet.msg))
              THEN [partial |-> PartialOf(packet, m + 1), decoded |-> end.decoded]
              ELSE [partial |-> NoPacket, decoded |-> Append(end.decoded, packet)]
<1> DEFINE b == Buffers(packet.msg)
           next == Append(end.partial.buffers, b[m])
<1>1. packet.msg \in Seq(Nat) /\ packet = [id |-> packet.id, about |-> packet.about,
        msg |-> packet.msg]
  BY DEF Packets
<1>2. b \in Seq(Nat) /\ Len(b) \in Nat
  BY <1>1, Placeholders
<1>3. Encode(packet)[m + 1] = BinaryFrame(b[m])
  BY <1>1, EncodeFrames
<1>4. PutPayload(end, Encode(packet)[m + 1]) = PutBinary(end, BinaryFrame(b[m]))
  BY <1>3 DEF PutPayload, BinaryFrame
<1>5. end.partial # NoPacket
  BY PartialIsPacket
<1>6. end.partial.frame.pending - 1 = Len(b) - m
  BY <1>2 DEF PartialOf
<1>7. next = SubSeq(b, 1, m)
  <2>1. end.partial.buffers = SubSeq(b, 1, m - 1)
    BY DEF PartialOf
  <2>2. SubSeq(b, 1, m) = SubSeq(b, 1, m - 1) \o <<b[m]>>
    <3> HIDE DEF b
    <3>1. 1 \in 1 .. Len(b) /\ m \in 1 .. Len(b)
      BY <1>2 DEF b
    <3> QED
      BY <1>2, <3>1, SubSeqRecursiveSecond
  <2>3. SubSeq(b, 1, m - 1) \in Seq(Nat) /\ b[m] \in Nat
    BY <1>2, FirstElements
  <2> QED
    BY <2>1, <2>2, <2>3, AppendIsConcat
<1>8. CASE m < Len(b)
  <2> DEFINE rest == [frame |-> [end.partial.frame EXCEPT !.pending = Len(b) - m],
                      buffers |-> next]
  <2>1. Len(b) - m > 0
    BY <1>2, <1>8
  <2>2. PutBinary(end, BinaryFrame(b[m])) = [end EXCEPT !.partial = rest]
    <3> HIDE DEF b
    <3> QED
      BY <1>5, <1>6, <2>1 DEF PutBinary, BinaryFrame
  <2>3. Len(b) - m = Len(b) - ((m + 1) - 1) /\ (m + 1) - 1 = m
    BY <1>2
  <2>4. end.partial.frame = [id |-> packet.id, about |-> packet.about,
                             json |-> Json(packet.msg), pending |-> Len(b) - (m - 1)]
    BY DEF PartialOf
  <2>5. rest = PartialOf(packet, m + 1)
    <3> DEFINE f == [id |-> packet.id, about |-> packet.about,
                     json |-> Json(packet.msg), pending |-> Len(b) - m]
    <3>1. [end.partial.frame EXCEPT !.pending = Len(b) - m] = f
      <4> HIDE DEF b
      <4> QED
        BY <2>4
    <3>2. PartialOf(packet, m + 1) = [frame |-> f, buffers |-> SubSeq(b, 1, m)]
      BY <2>3 DEF PartialOf
    <3> HIDE DEF f, next
    <3> QED
      BY <1>7, <3>1, <3>2
  <2> HIDE DEF rest
  <2>6. [end EXCEPT !.partial = rest] = [partial |-> rest, decoded |-> end.decoded]
    BY DEF IsEnd
  <2> QED
    BY <1>4, <1>8, <2>2, <2>5, <2>6
<1>9. CASE ~(m < Len(b))
  <2>1. m = Len(b)
    BY <1>2, <1>9
  <2>2. next = b
    BY <1>2, <1>7, <2>1, SubSeqFull
  <2>3. FromJson(end.partial.frame.json, next) = packet.msg
    <3>1. end.partial.frame.json = Json(packet.msg)
      BY DEF PartialOf
    <3> QED
      BY <1>1, <2>2, <3>1, JsonRoundTrip
  <2>4. Decoded(end, end.partial.frame, next) = Append(end.decoded, packet)
    BY <1>1, <2>3 DEF Decoded, PartialOf
  <2>5. PutBinary(end, BinaryFrame(b[m])) =
           [partial |-> NoPacket, decoded |-> Decoded(end, end.partial.frame, next)]
    BY <1>2, <1>5, <1>6, <2>1 DEF PutBinary, BinaryFrame
  <2> QED
    BY <1>4, <1>9, <2>4, <2>5
<1> QED
  BY <1>8, <1>9

(* One frame after the other: the ends between them.                        *)
LEMMA PutAllUnfold ==
    ASSUME NEW end, NEW frames, NEW h,
           h = [n \in 0 .. Len(frames) |->
                   IF n = 0 THEN end ELSE PutPayload(h[n - 1], frames[n])]
    PROVE  \E f : /\ f = [n \in 0 .. Len(frames) |->
                            IF n = 0 THEN end ELSE PutPayload(f[n - 1], frames[n])]
                  /\ PutAll(end, frames) = f[Len(frames)]
  BY DEF PutAll

(* PutAll is what putting one frame after the other leads to.               *)
LEMMA PutAllSteps ==
    ASSUME NEW end, NEW frames, Len(frames) \in Nat, NEW h,
           h = [n \in 0 .. Len(frames) |-> h[n]],
           h[0] = end,
           \A n \in 1 .. Len(frames) : h[n] = PutPayload(h[n - 1], frames[n])
    PROVE  PutAll(end, frames) = h[Len(frames)]
<1> DEFINE N == Len(frames)
<1>1. h = [n \in 0 .. N |-> IF n = 0 THEN end ELSE PutPayload(h[n - 1], frames[n])]
  <2>1. \A n \in 0 .. N : n = 0 \/ n \in 1 .. N
    OBVIOUS
  <2>2. \A n \in 0 .. N : h[n] = IF n = 0 THEN end ELSE PutPayload(h[n - 1], frames[n])
    BY <2>1
  <2> QED
    BY <2>2, Zenon
<1>2. PICK f : /\ f = [n \in 0 .. N |->
                         IF n = 0 THEN end ELSE PutPayload(f[n - 1], frames[n])]
               /\ PutAll(end, frames) = f[N]
  BY <1>1, PutAllUnfold
<1>3. \A n \in 0 .. N : f[n] = IF n = 0 THEN end ELSE PutPayload(f[n - 1], frames[n])
  BY <1>2
<1> DEFINE Same == {n \in Nat : n <= N => f[n] = h[n]}
<1>4. 0 \in Same
  BY <1>3
<1>5. ASSUME NEW n \in Nat, n \in Same PROVE n + 1 \in Same
  <2>1. SUFFICES ASSUME n + 1 <= N PROVE f[n + 1] = h[n + 1]
    OBVIOUS
  <2>2. n + 1 \in 0 .. N /\ n + 1 \in 1 .. N /\ n + 1 # 0 /\ (n + 1) - 1 = n /\ n <= N
    BY <2>1
  <2>3. f[n] = h[n]
    BY <1>5, <2>2
  <2>4. h[n + 1] = PutPayload(h[n], frames[n + 1])
    BY <2>2
  <2> QED
    BY <1>3, <2>2, <2>3, <2>4
<1>6. \A n \in Nat : n \in Same
  <2> HIDE DEF Same
  <2> QED
    BY <1>4, <1>5, SetInduction
<1> QED
  BY <1>2, <1>6

(* The frames of a packet, put one after the other with no other between    *)
(* them, give back the packet, and leave nothing of it behind.              *)
THEOREM EncodeRoundTrip ==
    ASSUME NEW packet \in Packets, NEW end, IsEnd(end)
    PROVE  PutAll(end, Encode(packet)) =
              [partial |-> IF Len(Buffers(packet.msg)) = 0 THEN end.partial ELSE NoPacket,
               decoded |-> Append(end.decoded, packet)]
<1> DEFINE b == Buffers(packet.msg)
           N == Len(Encode(packet))
           h == [n \in 0 .. N |->
                    IF n = 0 THEN end
                    ELSE IF n < N
                    THEN [partial |-> PartialOf(packet, n), decoded |-> end.decoded]
                    ELSE [partial |-> IF Len(b) = 0 THEN end.partial ELSE NoPacket,
                          decoded |-> Append(end.decoded, packet)]]
<1>1. packet.msg \in Seq(Nat)
  BY DEF Packets
<1>2. Len(b) \in Nat /\ N = Len(b) + 1
  <2>1. b \in Seq(Nat)
    BY <1>1, Placeholders
  <2>2. N = Len(b) + 1
    BY <1>1, EncodeFrames
  <2> HIDE DEF b
  <2> QED
    BY <2>1, <2>2, LenProperties
<1> HIDE DEF b, N
<1>3. ASSUME NEW n \in 1 .. N PROVE h[n] = PutPayload(h[n - 1], Encode(packet)[n])
  <2>1. CASE n = 1
    <3>1. PutPayload(end, Encode(packet)[1]) =
              IF Len(b) = 0
              THEN [partial |-> end.partial, decoded |-> Append(end.decoded, packet)]
              ELSE [partial |-> PartialOf(packet, 1), decoded |-> end.decoded]
      BY PutTextFrame DEF b
    <3>2. h[0] = end
      BY <1>2
    <3>3. h[1] = IF 1 < N
                 THEN [partial |-> PartialOf(packet, 1), decoded |-> end.decoded]
                 ELSE [partial |-> IF Len(b) = 0 THEN end.partial ELSE NoPacket,
                       decoded |-> Append(end.decoded, packet)]
      BY <1>2
    <3>4. n - 1 = 0 /\ (1 < N <=> Len(b) # 0)
      BY <1>2, <2>1
    <3> HIDE DEF h
    <3> QED
      BY <2>1, <3>1, <3>2, <3>3, <3>4
  <2>2. CASE n > 1
    <3> DEFINE m == n - 1
    <3>1. m \in 1 .. Len(b) /\ m + 1 = n /\ m < N /\ m \in 0 .. N /\ m # 0 /\ Len(b) # 0
      BY <1>2, <2>2
    <3>2. h[m] = [partial |-> PartialOf(packet, m), decoded |-> end.decoded]
      BY <3>1
    <3> HIDE DEF m
    <3>3. h[n] = IF m < Len(b)
                 THEN [partial |-> PartialOf(packet, m + 1), decoded |-> end.decoded]
                 ELSE [partial |-> NoPacket, decoded |-> Append(end.decoded, packet)]
      BY <1>2, <3>1
    <3> HIDE DEF h
    <3>4. IsEnd(h[m]) /\ h[m].partial = PartialOf(packet, m) /\ h[m].decoded = end.decoded
      BY <3>2 DEF IsEnd
    <3>5. PutPayload(h[m], Encode(packet)[m + 1]) =
              IF m < Len(b)
              THEN [partial |-> PartialOf(packet, m + 1), decoded |-> end.decoded]
              ELSE [partial |-> NoPacket, decoded |-> Append(end.decoded, packet)]
      BY <3>1, <3>4, PutBinaryFrame DEF b
    <3> QED
      BY <3>1, <3>3, <3>5 DEF m
  <2> QED
    BY <2>1, <2>2
<1>4. h[0] = end
  BY <1>2
<1>5. h[N] = [partial |-> IF Len(b) = 0 THEN end.partial ELSE NoPacket,
              decoded |-> Append(end.decoded, packet)]
  BY <1>2
<1>6. h = [n \in 0 .. N |-> h[n]]
  OBVIOUS
<1> HIDE DEF h
<1>7. PutAll(end, Encode(packet)) = h[N]
  BY <1>2, <1>3, <1>4, <1>6, PutAllSteps DEF N
<1> QED
  BY <1>5, <1>7 DEF b

-------------------------------------------------------------------------------
(****************************************************************************)
(* Ends of the connection, and sequences of frames put into them.           *)
(****************************************************************************)

(* Frames, and the ends they are put into, over a set of leaves.            *)
Texts == [id : Int, about : Int, json : Seq(Nat \cup {Plain}), pending : 0 .. MaxLeaves]

(* Text and binary frames, whose blobs are of Leaf.                         *)
Frames(Leaf) ==
    [kind : {"text"}, id : Int, about : Int, json : Seq(Nat \cup {Plain}),
     pending : 0 .. MaxLeaves]
        \cup [kind : {"binary"}, blob : Leaf]

(* Packets that may be decoded.                                             *)
Decodable(Leaf) == [id : Int, about : Int, msg : Seq(Leaf)]

(* Partial packets, with the buffers that have come.                        *)
Partials(Leaf) == [frame : Texts, buffers : Seq(Leaf)]

(* The ends of the connection.                                              *)
Ends(Leaf) == [partial : Partials(Leaf), decoded : Seq(Decodable(Leaf))]

(* The leaves that a decoded message may have.                              *)
IsLeaves(Leaf) == Leaf \subseteq Int /\ {Text, Null} \subseteq Leaf

(* Sequence s goes on as t.                                                 *)
GoesOn(s, t) == Len(s) <= Len(t) /\ \A i \in 1 .. Len(s) : t[i] = s[i]

(* It goes on by one element at most.                                       *)
ByOne(s, t) == GoesOn(s, t) /\ Len(t) <= Len(s) + 1

(* from_json puts leaves, text or null in the place of each leaf.           *)
LEMMA FromJsonType ==
    ASSUME NEW Leaf, IsLeaves(Leaf), NEW json \in Seq(Nat \cup {Plain}),
           NEW buffers \in Seq(Leaf)
    PROVE  FromJson(json, buffers) \in Seq(Leaf)
<1>1. ASSUME NEW i \in 1 .. Len(json), json[i] # Plain, json[i] < Len(buffers)
      PROVE  buffers[json[i] + 1] \in Leaf
  <2>1. json[i] \in Nat
    BY <1>1, ElementOfSeq
  <2>2. json[i] + 1 \in 1 .. Len(buffers)
    BY <1>1, <2>1
  <2> QED
    BY <2>2, ElementOfSeq
<1>2. {Text, Null} \subseteq Leaf
  BY DEF IsLeaves
<1>3. FromJson(json, buffers) \in [1 .. Len(json) -> Leaf]
  BY <1>1, <1>2 DEF FromJson
<1> QED
  BY <1>3

(* A packet decoded is one more packet.                                     *)
LEMMA DecodedType ==
    ASSUME NEW Leaf, IsLeaves(Leaf), NEW end \in Ends(Leaf), NEW frame, frame.id \in Int,
           frame.about \in Int, frame.json \in Seq(Nat \cup {Plain}),
           NEW buffers \in Seq(Leaf)
    PROVE  /\ Decoded(end, frame, buffers) \in Seq(Decodable(Leaf))
           /\ ByOne(end.decoded, Decoded(end, frame, buffers))
<1> DEFINE packet == [id |-> frame.id, about |-> frame.about,
                      msg |-> FromJson(frame.json, buffers)]
<1>1. packet \in Decodable(Leaf)
  BY FromJsonType DEF Decodable
<1>2. Decoded(end, frame, buffers) = Append(end.decoded, packet)
  BY DEF Decoded
<1>3. end.decoded \in Seq(Decodable(Leaf))
  BY DEF Ends
<1> HIDE DEF packet
<1> QED
  BY <1>1, <1>2, <1>3, AppendProperties, LenProperties DEF ByOne, GoesOn

(* A new end is an end.                                                     *)
LEMMA NoPacketType == ASSUME NEW Leaf PROVE NoPacket \in Partials(Leaf)
                      /\ NewEnd \in Ends(Leaf)
  BY LeavesAssumption, EmptySeq DEF NoPacket, NewEnd, NoId, Partials, Texts, Ends

(* put_payload: an end stays an end, and decodes one packet at most.        *)
LEMMA PutPayloadType ==
    ASSUME NEW Leaf, IsLeaves(Leaf), NEW end \in Ends(Leaf), NEW frame \in Frames(Leaf)
    PROVE  /\ PutPayload(end, frame) \in Ends(Leaf)
           /\ ByOne(end.decoded, PutPayload(end, frame).decoded)
<1>1. /\ end = [partial |-> end.partial, decoded |-> end.decoded]
      /\ end.partial \in Partials(Leaf)
      /\ end.decoded \in Seq(Decodable(Leaf))
  BY DEF Ends
<1>2. /\ end.partial.frame \in Texts
      /\ end.partial.buffers \in Seq(Leaf)
  BY <1>1 DEF Partials
<1>3. ByOne(end.decoded, end.decoded)
  BY <1>1, LenProperties DEF ByOne, GoesOn
<1>4. CASE frame.kind = "text"
  <2>1. /\ frame.id \in Int /\ frame.about \in Int
        /\ frame.json \in Seq(Nat \cup {Plain}) /\ frame.pending \in 0 .. MaxLeaves
    BY <1>4 DEF Frames
  <2>2. PutPayload(end, frame) = PutText(end, frame)
    BY <1>4 DEF PutPayload
  <2>3. CASE frame.pending = 0
    <3>1. PutText(end, frame) = [partial |-> end.partial,
            decoded |-> Decoded(end, frame, << >>)]
      BY <1>1, <2>3 DEF PutText
    <3>2. Decoded(end, frame, << >>) \in Seq(Decodable(Leaf))
            /\ ByOne(end.decoded, Decoded(end, frame, << >>))
      BY <2>1, DecodedType, EmptySeq
    <3> QED
      BY <1>1, <2>2, <3>1, <3>2 DEF Ends
  <2>4. CASE frame.pending # 0
    <3> DEFINE part == [frame |-> [id |-> frame.id, about |-> frame.about,
                                   json |-> frame.json, pending |-> frame.pending],
                        buffers |-> << >>]
    <3>1. PutText(end, frame) = [partial |-> part, decoded |-> end.decoded]
      BY <1>1, <2>4 DEF PutText
    <3>2. part \in Partials(Leaf)
      BY <2>1, EmptySeq DEF Partials, Texts
    <3> HIDE DEF part
    <3> QED
      BY <1>1, <1>3, <2>2, <3>1, <3>2 DEF Ends
  <2> QED
    BY <2>3, <2>4
<1>5. CASE frame.kind # "text"
  <2>1. frame.kind = "binary" /\ frame.blob \in Leaf
    BY <1>5 DEF Frames
  <2>2. PutPayload(end, frame) = PutBinary(end, frame)
    BY <2>1 DEF PutPayload
  <2> DEFINE buffers == Append(end.partial.buffers, frame.blob)
             left == end.partial.frame.pending - 1
             part == [frame |-> [end.partial.frame EXCEPT !.pending = left],
                      buffers |-> buffers]
  <2>3. buffers \in Seq(Leaf)
    BY <1>2, <2>1, AppendProperties
  <2>4. CASE end.partial = NoPacket
    <3>1. PutBinary(end, frame) = end
      BY <2>4 DEF PutBinary
    <3> QED
      BY <1>3, <2>2, <3>1
  <2>5. CASE end.partial # NoPacket /\ left > 0
    <3>1. PutBinary(end, frame) = [partial |-> part, decoded |-> end.decoded]
      <4>1. PutBinary(end, frame) = [end EXCEPT !.partial = part]
        BY <2>5 DEF PutBinary
      <4> HIDE DEF part
      <4> QED
        BY <1>1, <4>1
    <3>2. [end.partial.frame EXCEPT !.pending = left] \in Texts
      BY <1>2, <2>5, LeavesAssumption DEF Texts
    <3>3. part \in Partials(Leaf)
      <4> HIDE DEF left, buffers
      <4> QED
        BY <2>3, <3>2 DEF Partials
    <3> HIDE DEF part
    <3> QED
      BY <1>1, <1>3, <2>2, <3>1, <3>3 DEF Ends
  <2>6. CASE end.partial # NoPacket /\ ~(left > 0)
    <3>1. PutBinary(end, frame) =
             [partial |-> NoPacket, decoded |-> Decoded(end, end.partial.frame, buffers)]
      BY <2>6 DEF PutBinary
    <3>2. /\ Decoded(end, end.partial.frame, buffers) \in Seq(Decodable(Leaf))
          /\ ByOne(end.decoded, Decoded(end, end.partial.frame, buffers))
      <4> HIDE DEF buffers
      <4> QED
        BY <1>2, <2>3, DecodedType DEF Texts
    <3> QED
      BY <2>2, <3>1, <3>2, NoPacketType DEF Ends
  <2> QED
    BY <2>4, <2>5, <2>6
<1> QED
  BY <1>4, <1>5

(* put_payload, frame by frame.                                             *)
Chains(Leaf, end, frames) ==
    {f \in [Nat -> Ends(Leaf)] :
        /\ f[0] = end
        /\ \A n \in 1 .. Len(frames) : f[n] = PutPayload(f[n - 1], frames[n])}

(* The ends after each frame of a sequence, up to PutAll.                   *)
LEMMA PutAllChain ==
    ASSUME NEW Leaf, IsLeaves(Leaf), NEW end \in Ends(Leaf),
           NEW frames \in Seq(Frames(Leaf))
    PROVE  \E f \in Chains(Leaf, end, frames) : PutAll(end, frames) = f[Len(frames)]
<1> DEFINE S == Ends(Leaf)
           g == [x \in Nat \X S |-> IF x[1] + 1 <= Len(frames)
                                    THEN PutPayload(x[2], frames[x[1] + 1]) ELSE x[2]]
<1>1. g \in [Nat \X S -> S]
  <2>1. ASSUME NEW x \in Nat \X S, x[1] + 1 <= Len(frames)
        PROVE  PutPayload(x[2], frames[x[1] + 1]) \in S
    <3>1. x[1] + 1 \in 1 .. Len(frames)
      BY <2>1
    <3> QED
      BY <3>1, ElementOfSeq, PutPayloadType
  <2> QED
    BY <2>1
<1>2. PICK f : f \in Iterates(S, end, g)
  <2> HIDE DEF g, S
  <2> QED
    BY <1>1, Recursion DEF S
<1>3. f \in [Nat -> S] /\ f[0] = end /\ \A n \in Nat : f[n + 1] = g[<<n, f[n]>>]
  <2> HIDE DEF g, S
  <2> QED
    BY <1>2 DEF Iterates
<1>4. ASSUME NEW n \in 1 .. Len(frames) PROVE f[n] = PutPayload(f[n - 1], frames[n])
  <2>1. n - 1 \in Nat /\ (n - 1) + 1 = n /\ n <= Len(frames)
    OBVIOUS
  <2>2. f[n] = g[<<n - 1, f[n - 1]>>] /\ f[n - 1] \in S
    <3> HIDE DEF g, S
    <3> QED
      BY <1>3, <2>1
  <2> HIDE DEF S
  <2> QED
    BY <2>1, <2>2
<1> HIDE DEF g
<1> DEFINE h == [n \in 0 .. Len(frames) |-> f[n]]
<1>5. h = [n \in 0 .. Len(frames) |-> h[n]] /\ h[0] = end
  BY <1>3
<1>6. \A n \in 1 .. Len(frames) : h[n] = PutPayload(h[n - 1], frames[n])
  BY <1>4
<1>7. h[Len(frames)] = f[Len(frames)] /\ Len(frames) \in Nat
  OBVIOUS
<1> HIDE DEF h
<1>8. PutAll(end, frames) = f[Len(frames)]
  BY <1>5, <1>6, <1>7, PutAllSteps
<1> QED
  BY <1>3, <1>4, <1>8 DEF Chains

(* Frames put into an end leave an end, which has decoded more.             *)
LEMMA PutAllType ==
    ASSUME NEW Leaf, IsLeaves(Leaf), NEW end \in Ends(Leaf),
           NEW frames \in Seq(Frames(Leaf))
    PROVE  /\ PutAll(end, frames) \in Ends(Leaf)
           /\ GoesOn(end.decoded, PutAll(end, frames).decoded)
           /\ frames = << >> => PutAll(end, frames) = end
<1>0. PICK f \in Chains(Leaf, end, frames) : PutAll(end, frames) = f[Len(frames)]
  BY PutAllChain
<1>1. /\ f \in [Nat -> Ends(Leaf)] /\ f[0] = end
      /\ \A n \in 1 .. Len(frames) : f[n] = PutPayload(f[n - 1], frames[n])
      /\ PutAll(end, frames) = f[Len(frames)]
  BY <1>0 DEF Chains
<1> DEFINE Longer == {n \in Nat : n <= Len(frames) => GoesOn(end.decoded, f[n].decoded)}
<1>2. 0 \in Longer
  <2>1. end.decoded \in Seq(Decodable(Leaf))
    BY DEF Ends
  <2> QED
    BY <1>1, <2>1 DEF GoesOn
<1>3. ASSUME NEW n \in Nat, n \in Longer PROVE n + 1 \in Longer
  <2>1. SUFFICES ASSUME n + 1 <= Len(frames) PROVE GoesOn(end.decoded, f[n + 1].decoded)
    OBVIOUS
  <2>2. n + 1 \in 1 .. Len(frames) /\ (n + 1) - 1 = n /\ n <= Len(frames)
    BY <2>1
  <2>3. f[n + 1] = PutPayload(f[n], frames[n + 1])
    BY <1>1, <2>2
  <2>4. GoesOn(f[n].decoded, f[n + 1].decoded)
    <3>1. frames[n + 1] \in Frames(Leaf)
      BY <2>2, ElementOfSeq
    <3> QED
      BY <1>1, <2>3, <3>1, PutPayloadType DEF ByOne
  <2>5. GoesOn(end.decoded, f[n].decoded)
    BY <1>3, <2>2
  <2>6. /\ Len(end.decoded) \in Nat /\ Len(f[n].decoded) \in Nat
        /\ Len(f[n + 1].decoded) \in Nat
    <3>1. \A e \in Ends(Leaf) : Len(e.decoded) \in Nat
      BY LenProperties DEF Ends
    <3> QED
      BY <3>1
  <2> QED
    BY <2>4, <2>5, <2>6 DEF GoesOn
<1>4. \A n \in Nat : n \in Longer
  <2> HIDE DEF Longer
  <2> QED
    BY <1>2, <1>3, SetInduction
<1>5. Len(frames) \in Nat /\ (frames = << >> => Len(frames) = 0)
  OBVIOUS
<1> QED
  BY <1>1, <1>4, <1>5

(* PutAll, from the first frame on.                                         *)
LEMMA PutAllFirst ==
    ASSUME NEW Leaf, IsLeaves(Leaf), NEW end \in Ends(Leaf),
           NEW frames \in Seq(Frames(Leaf)),
           frames # << >>
    PROVE  PutAll(end, frames) = PutAll(PutPayload(end, Head(frames)), Tail(frames))
<1>0. PICK f \in Chains(Leaf, end, frames) : PutAll(end, frames) = f[Len(frames)]
  BY PutAllChain
<1>1. /\ f \in [Nat -> Ends(Leaf)] /\ f[0] = end
      /\ \A n \in 1 .. Len(frames) : f[n] = PutPayload(f[n - 1], frames[n])
      /\ PutAll(end, frames) = f[Len(frames)]
  BY <1>0 DEF Chains
<1>2. /\ Head(frames) = frames[1]
      /\ Len(frames) \in Nat \ {0}
      /\ Len(Tail(frames)) = Len(frames) - 1
      /\ \A i \in 1 .. Len(Tail(frames)) : Tail(frames)[i] = frames[i + 1]
  BY HeadTailProperties, EmptySeq
<1> DEFINE t == Tail(frames)
           h == [n \in 0 .. Len(t) |-> f[n + 1]]
<1> HIDE DEF t
<1>3. h[0] = PutPayload(end, Head(frames))
  <2>1. 1 \in 1 .. Len(frames) /\ 1 - 1 = 0 /\ Len(t) \in Nat
    BY <1>2 DEF t
  <2>2. f[1] = PutPayload(f[0], frames[1])
    BY <1>1, <2>1
  <2> QED
    BY <1>1, <1>2, <2>1, <2>2
<1>4. ASSUME NEW n \in 1 .. Len(t) PROVE h[n] = PutPayload(h[n - 1], t[n])
  <2>1. n + 1 \in 1 .. Len(frames) /\ (n + 1) - 1 = n /\ (n - 1) + 1 = n
        /\ n \in 0 .. Len(t) /\ n - 1 \in 0 .. Len(t)
    BY <1>2 DEF t
  <2>2. f[n + 1] = PutPayload(f[n], frames[n + 1])
    BY <1>1, <2>1
  <2>3. t[n] = frames[n + 1]
    BY <1>2 DEF t
  <2>4. h[n] = f[n + 1] /\ h[n - 1] = f[n]
    BY <2>1
  <2> QED
    BY <2>2, <2>3, <2>4
<1>5. h = [n \in 0 .. Len(t) |-> h[n]] /\ Len(t) \in Nat
  BY <1>2 DEF t
<1>6. h[Len(t)] = f[Len(frames)]
  BY <1>2 DEF t
<1> HIDE DEF h
<1>7. PutAll(PutPayload(end, Head(frames)), t) = h[Len(t)]
  BY <1>3, <1>4, <1>5, PutAllSteps
<1> QED
  BY <1>1, <1>6, <1>7 DEF t

(* Two sequences of frames, one after the other.                            *)
LEMMA PutAllConcat ==
    ASSUME NEW Leaf, IsLeaves(Leaf), NEW end \in Ends(Leaf),
           NEW s \in Seq(Frames(Leaf)), NEW t \in Seq(Frames(Leaf))
    PROVE  PutAll(end, s \o t) = PutAll(PutAll(end, s), t)
<1>0. PICK f \in Chains(Leaf, end, s) : PutAll(end, s) = f[Len(s)]
  BY PutAllChain
<1>1. /\ f \in [Nat -> Ends(Leaf)] /\ f[0] = end
      /\ \A n \in 1 .. Len(s) : f[n] = PutPayload(f[n - 1], s[n])
      /\ PutAll(end, s) = f[Len(s)]
  BY <1>0 DEF Chains
<1>2. PutAll(end, s) \in Ends(Leaf)
  BY PutAllType
<1>9. PICK g \in Chains(Leaf, PutAll(end, s), t) : PutAll(PutAll(end, s), t) = g[Len(t)]
  BY <1>2, PutAllChain
<1>3. /\ g \in [Nat -> Ends(Leaf)] /\ g[0] = PutAll(end, s)
      /\ \A n \in 1 .. Len(t) : g[n] = PutPayload(g[n - 1], t[n])
      /\ PutAll(PutAll(end, s), t) = g[Len(t)]
  BY <1>9 DEF Chains
<1> DEFINE u == s \o t
           h == [n \in 0 .. Len(u) |-> IF n <= Len(s) THEN f[n] ELSE g[n - Len(s)]]
<1>4. /\ Len(s) \in Nat /\ Len(t) \in Nat
      /\ Len(u) = Len(s) + Len(t)
      /\ \A i \in 1 .. Len(s) + Len(t) :
           u[i] = IF i <= Len(s) THEN s[i] ELSE t[i - Len(s)]
  BY ConcatProperties, LenProperties
<1> HIDE DEF u
<1>5. ASSUME NEW n \in 1 .. Len(u) PROVE h[n] = PutPayload(h[n - 1], u[n])
  <2>1. n \in 0 .. Len(u) /\ n - 1 \in 0 .. Len(u) /\ n \in 1 .. Len(s) + Len(t)
    BY <1>4
  <2>2. CASE n <= Len(s)
    <3>1. n \in 1 .. Len(s) /\ n - 1 <= Len(s) /\ u[n] = s[n]
      BY <1>4, <2>1, <2>2
    <3>2. h[n] = f[n] /\ h[n - 1] = f[n - 1]
      BY <2>1, <2>2, <3>1
    <3> HIDE DEF h
    <3> QED
      BY <1>1, <3>1, <3>2
  <2>3. CASE n > Len(s)
    <3> DEFINE m == n - Len(s)
    <3>1. m \in 1 .. Len(t) /\ u[n] = t[m] /\ ~(n <= Len(s))
      BY <1>4, <2>1, <2>3
    <3>2. g[m] = PutPayload(g[m - 1], t[m])
      BY <1>3, <3>1
    <3>3. h[n] = g[m]
      BY <2>1, <3>1
    <3>4. h[n - 1] = g[m - 1]
      <4>1. CASE n - 1 <= Len(s)
        <5>1. n - 1 = Len(s) /\ m - 1 = 0
          BY <1>4, <2>1, <2>3, <4>1
        <5> QED
          BY <1>1, <1>3, <2>1, <5>1
      <4>2. CASE ~(n - 1 <= Len(s))
        <5>1. (n - 1) - Len(s) = m - 1
          BY <1>4
        <5> QED
          BY <2>1, <4>2, <5>1
      <4> QED
        BY <4>1, <4>2
    <3> HIDE DEF h, m
    <3> QED
      BY <3>1, <3>2, <3>3, <3>4
  <2> QED
    BY <1>4, <2>2, <2>3
<1>6. h = [n \in 0 .. Len(u) |-> h[n]] /\ Len(u) \in Nat /\ h[0] = end
  BY <1>1, <1>4
<1>7. h[Len(u)] = g[Len(t)]
  <2>1. CASE Len(t) = 0
    BY <1>1, <1>3, <1>4, <2>1
  <2>2. CASE Len(t) # 0
    BY <1>4, <2>2
  <2> QED
    BY <2>1, <2>2
<1> HIDE DEF h
<1>8. PutAll(end, u) = h[Len(u)]
  BY <1>5, <1>6, PutAllSteps
<1> QED
  BY <1>3, <1>7, <1>8 DEF u

(* The frames of a packet that may be sent.                                 *)
Sendable(Leaf) ==
    {packet \in [id : Int, about : Int, msg : Seq(Nat)] :
        packet.msg \in Seq(Leaf \cap Nat) /\ Len(Buffers(packet.msg)) <= MaxLeaves}

(* encode: the frames of a packet.                                          *)
LEMMA EncodeType ==
    ASSUME NEW Leaf, NEW packet \in Sendable(Leaf)
    PROVE  Encode(packet) \in Seq(Frames(Leaf)) /\ Encode(packet) # << >>
<1> DEFINE b == Buffers(packet.msg)
<1>1. /\ packet.msg \in Seq(Leaf \cap Nat) /\ packet.msg \in Seq(Nat)
      /\ packet.id \in Int /\ packet.about \in Int
      /\ Len(b) <= MaxLeaves
  BY DEF Sendable
<1>2. /\ b \in Seq(Leaf \cap Nat) /\ Len(b) \in Nat
      /\ \A i \in 1 .. Len(packet.msg) : IsBlob(packet.msg[i]) =>
           Json(packet.msg)[i] \in Nat
  <2>1. Leaf \cap Nat \in SUBSET Nat
    OBVIOUS
  <2>2. /\ Buffers(packet.msg) \in Seq(Leaf \cap Nat)
        /\ \A i \in 1 .. Len(packet.msg) : IsBlob(packet.msg[i]) =>
              Json(packet.msg)[i] \in 0 .. Len(Buffers(packet.msg)) - 1
    BY <1>1, <2>1, Placeholders
  <2>3. Len(Buffers(packet.msg)) \in Nat
    BY <2>2, LenProperties
  <2> QED
    BY <2>2, <2>3
<1>3. Json(packet.msg) \in Seq(Nat \cup {Plain})
  <2>1. DOMAIN packet.msg = 1 .. Len(packet.msg) /\ Len(packet.msg) \in Nat
    BY <1>1, LenProperties
  <2>2. ASSUME NEW i \in 1 .. Len(packet.msg)
        PROVE Json(packet.msg)[i] \in Nat \cup {Plain}
    <3>1. CASE IsBlob(packet.msg[i])
      BY <1>2, <3>1
    <3>2. CASE ~IsBlob(packet.msg[i])
      BY <2>1, <3>2 DEF Json
    <3> QED
      BY <3>1, <3>2
  <2>3. Json(packet.msg) = [i \in 1 .. Len(packet.msg) |-> Json(packet.msg)[i]]
    BY <2>1 DEF Json
  <2>4. Json(packet.msg) \in [1 .. Len(packet.msg) -> Nat \cup {Plain}]
    BY <2>2, <2>3
  <2> QED
    BY <2>1, <2>4
<1>4. TextFrame(packet) \in Frames(Leaf)
  <2> HIDE DEF b
  <2> QED
    BY <1>1, <1>2, <1>3, LeavesAssumption DEF TextFrame, Frames, b
<1>5. ASSUME NEW i \in 1 .. Len(b) PROVE BinaryFrame(b[i]) \in Frames(Leaf)
  <2>1. b[i] \in Leaf
    BY <1>2, ElementOfSeq
  <2> QED
    BY <2>1 DEF BinaryFrame, Frames
<1>6. /\ Len(Encode(packet)) = Len(b) + 1
      /\ Encode(packet) # << >>
      /\ Encode(packet) \in Seq({Encode(packet)[m] : m \in 1 .. Len(Encode(packet))})
      /\ Encode(packet)[1] = TextFrame(packet)
      /\ \A i \in 1 .. Len(b) : Encode(packet)[i + 1] = BinaryFrame(b[i])
  BY <1>1, EncodeFrames
<1> HIDE DEF b
<1>7. ASSUME NEW m \in 1 .. Len(Encode(packet)) PROVE Encode(packet)[m] \in Frames(Leaf)
  <2>1. CASE m = 1
    BY <1>4, <1>6, <2>1
  <2>2. CASE m # 1
    <3>1. m - 1 \in 1 .. Len(b) /\ (m - 1) + 1 = m
      BY <1>2, <1>6, <2>2
    <3>2. Encode(packet)[(m - 1) + 1] = BinaryFrame(b[m - 1])
      BY <1>6, <3>1
    <3> QED
      BY <1>5, <3>1, <3>2
  <2> QED
    BY <2>1, <2>2
<1>8. {Encode(packet)[m] : m \in 1 .. Len(Encode(packet))} \subseteq Frames(Leaf)
  BY <1>7
<1> QED
  BY <1>6, <1>8, SeqMonotonic

(* What has been sent when all of an encoded packet has been put, too.      *)
LEMMA PutAllEncoded ==
    ASSUME NEW Leaf, IsLeaves(Leaf), NEW end \in Ends(Leaf),
           NEW frames \in Seq(Frames(Leaf)), NEW packet \in Sendable(Leaf),
           PutAll(end, frames).partial = NoPacket
    PROVE  PutAll(end, frames \o Encode(packet)) =
               [partial |-> NoPacket, decoded |-> Append(PutAll(end, frames).decoded,
                 packet)]
<1>1. Encode(packet) \in Seq(Frames(Leaf)) /\ packet \in Packets
  BY EncodeType DEF Sendable, Packets
<1>2. PutAll(end, frames \o Encode(packet)) = PutAll(PutAll(end, frames), Encode(packet))
  BY <1>1, PutAllConcat
<1>3. IsEnd(PutAll(end, frames))
  BY PutAllType DEF IsEnd, Ends
<1> QED
  BY <1>1, <1>2, <1>3, EncodeRoundTrip

-------------------------------------------------------------------------------
(****************************************************************************)
(* Types.                                                                   *)
(****************************************************************************)

(* The leaves of the messages there are: blobs, text and null.              *)
Leaves == Null .. MaxPackets * MaxLeaves

(* They include text and null, and are those of TypeOK.                     *)
LEMMA LeavesOk == IsLeaves(Leaves) /\ MaxLeaves \in Nat /\ MaxPackets \in Nat
                  /\ Messages = Seq(Leaves)
<1>1. MaxLeaves \in Nat /\ MaxPackets \in Nat
  BY LeavesAssumption, BoundsAssumption
<1>2. \A m, n \in Nat : m * n \in Nat
  OBVIOUS
<1>3. MaxPackets * MaxLeaves \in Nat
  BY <1>1, <1>2
<1> QED
  BY <1>1, <1>3 DEF IsLeaves, Leaves, Null, Text, Messages

(* A message has leaves, and no more blobs than leaves.                     *)
LEMMA MessageType ==
    ASSUME NEW n \in 1 .. MaxPackets, NEW shape \in Shapes
    PROVE  /\ Message(n, shape) \in Seq(Leaves \cap Nat)
           /\ Len(Buffers(Message(n, shape))) <= MaxLeaves
<1> DEFINE msg == Message(n, shape)
           K == MaxPackets * MaxLeaves
<1>1. MaxLeaves \in Nat /\ MaxPackets \in Nat /\ K \in Nat /\ Leaves \cap Nat = 0 .. K
  <2>1. MaxLeaves \in Nat /\ MaxPackets \in Nat
    BY LeavesOk
  <2>2. \A x, y \in Nat : x * y \in Nat
    OBVIOUS
  <2>3. K \in Nat
    BY <2>1, <2>2
  <2> QED
    BY <2>1, <2>3 DEF Leaves, Null
<1>2. \A i \in 1 .. MaxLeaves : (n - 1) * MaxLeaves + i \in 1 .. K
  <2>1. \A L \in Nat, p \in Nat, q \in Nat : q <= p => q * L <= p * L /\ q * L \in Nat
    OBVIOUS
  <2>2. (n - 1) * MaxLeaves <= (MaxPackets - 1) * MaxLeaves /\ (n - 1) * MaxLeaves \in Nat
    <3>1. n - 1 \in Nat /\ MaxPackets - 1 \in Nat /\ n - 1 <= MaxPackets - 1
      BY <1>1
    <3> QED
      BY <1>1, <2>1, <3>1
  <2>3. (MaxPackets - 1) * MaxLeaves = K - MaxLeaves
    BY <1>1
  <2> QED
    BY <1>1, <2>2, <2>3
<1> HIDE DEF K
<1>3. PICK m \in 0 .. MaxLeaves : shape \in [1 .. m -> BOOLEAN]
  BY DEF Shapes, BoundedSeq, SeqOf
<1>4. DOMAIN shape = 1 .. m /\ \A i \in 1 .. m : i \in 1 .. MaxLeaves
  BY <1>1, <1>3
<1>5. msg \in [1 .. m -> 0 .. K]
  <2>1. 0 \in 0 .. K /\ 1 .. K \subseteq 0 .. K
    BY <1>1
  <2> QED
    BY <1>2, <1>4, <2>1 DEF Message, Text
<1> HIDE DEF msg
<1>6. msg \in Seq(0 .. K) /\ Len(msg) = m
  BY <1>1, <1>3, <1>5
<1>7. Len(Buffers(msg)) <= Len(msg) /\ Len(Buffers(msg)) \in Nat
  <2>1. 0 .. K \in SUBSET Nat
    BY <1>1
  <2> QED
    BY <1>6, <2>1, Placeholders, LenProperties
<1>8. Len(Buffers(msg)) <= MaxLeaves
  BY <1>1, <1>3, <1>6, <1>7
<1> QED
  BY <1>1, <1>6, <1>8 DEF msg

(* Who emits: a thread of the application, or a listener.                   *)
Someone == Threads \cup {Net}

(* The type of each variable; nextId and acks are in Numbered and           *)
(* Registered.                                                              *)
Typed ==
    /\ open \in BOOLEAN
    /\ links \in 0 .. MaxLinks
    /\ emitted \in Seq([by : Someone, packet : Sendable(Leaves)])
    /\ Len(emitted) <= MaxPackets
    /\ at \in [Someone -> [id : Int, frames : Seq(Frames(Leaves))]]
    /\ nextId \in Int
    /\ raced \in BOOLEAN
    /\ called \in Seq([event : Int, answer : Int])
    /\ posted \in Seq(Frames(Leaves))
    /\ server \in Ends(Leaves)
    /\ asked \subseteq Range(server.decoded)
    /\ sent \in Seq(Sendable(Leaves))
    /\ Len(sent) <= MaxPackets
    /\ down \in Seq(Frames(Leaves))
    /\ client \in Ends(Leaves)

(* What an end has decoded with its last frame is the last it has decoded.  *)
LEMMA NewIsLast ==
    ASSUME NEW before \in Ends(Leaves), NEW after \in Ends(Leaves),
           GoesOn(before.decoded, after.decoded)
    PROVE  /\ New(before, after) \subseteq Range(after.decoded)
           /\ Range(before.decoded) \subseteq Range(after.decoded)
           /\ \A packet \in New(before, after) :
                 /\ packet = after.decoded[Len(after.decoded)]
                 /\ Len(after.decoded) > Len(before.decoded)
<1> DEFINE b == before.decoded
           a == after.decoded
           D == Decodable(Leaves)
<1>1. b \in Seq(D) /\ a \in Seq(D)
  BY DEF Ends
<1>2. GoesOn(b, a)
  OBVIOUS
<1>3. New(before, after) = IF a = b THEN {} ELSE {a[Len(a)]}
  BY DEF New, Last
<1> HIDE DEF a, b, D
<1>4. Len(a) \in Nat /\ Len(b) \in Nat /\ DOMAIN a = 1 .. Len(a) /\ DOMAIN b = 1 .. Len(b)
  BY <1>1, LenProperties
<1>5. a # b => Len(a) > Len(b)
  BY <1>1, <1>2, <1>4, SeqEqual DEF GoesOn
<1>6. a # b => a[Len(a)] \in Range(a)
  BY <1>4, <1>5 DEF Range
<1>7. Range(b) \subseteq Range(a)
  <2>1. \A i \in 1 .. Len(b) : i \in 1 .. Len(a) /\ a[i] = b[i]
    BY <1>2, <1>4 DEF GoesOn
  <2> QED
    BY <1>4, <2>1 DEF Range
<1> QED
  BY <1>3, <1>5, <1>6, <1>7 DEF a, b

(* The kinds of messages that are emitted.                                  *)
LEMMA KindsOk == Kinds \subseteq Shapes
  BY BoundsAssumption

(* The event a thread emits.                                                *)
LEMMA EventType ==
    ASSUME Typed, Len(emitted) < MaxPackets, NEW id \in Int, NEW packet \in Event(id)
    PROVE  /\ packet \in Sendable(Leaves)
           /\ packet.id = id /\ packet.about = Len(emitted) + 1
<1> DEFINE n == Len(emitted) + 1
<1>1. n \in 1 .. MaxPackets
  BY LeavesOk DEF Typed
<1>2. PICK shape \in Kinds : packet = [id |-> id, about |-> n, msg |-> Message(n, shape)]
  BY DEF Event
<1> DEFINE msg == Message(n, shape)
<1>3. msg \in Seq(Leaves \cap Nat) /\ Len(Buffers(msg)) <= MaxLeaves
  <2>1. shape \in Shapes
    BY KindsOk
  <2> QED
    BY <1>1, <2>1, MessageType
<1>4. msg \in Seq(Nat)
  BY <1>3, SeqMonotonic
<1>5. packet.id = id /\ packet.about = n /\ packet.msg = msg
        /\ packet \in [id : Int, about : Int, msg : Seq(Nat)]
  BY <1>1, <1>2, <1>4
<1> HIDE DEF msg
<1> QED
  BY <1>3, <1>5 DEF Sendable

(* An emit, of whoever.                                                     *)
LEMMA EmittedOne ==
    ASSUME Typed, Len(emitted) + Len(sent) < MaxPackets, NEW t \in Someone,
           NEW id \in Int,
           NEW packet \in Event(id),
           emitted' = Append(emitted, [by |-> t, packet |-> packet])
    PROVE  /\ emitted' \in Seq([by : Someone, packet : Sendable(Leaves)])
           /\ Len(emitted) \in Nat
           /\ Len(emitted') = Len(emitted) + 1
           /\ Len(emitted') <= MaxPackets
           /\ \A n \in 1 .. Len(emitted) : emitted'[n] = emitted[n]
           /\ emitted'[Len(emitted) + 1] = [by |-> t, packet |-> packet]
           /\ packet \in Sendable(Leaves)
           /\ packet.id = id /\ packet.about = Len(emitted) + 1
<1> DEFINE S == [by : Someone, packet : Sendable(Leaves)]
<1>1. emitted \in Seq(S) /\ Len(emitted) \in Nat /\ Len(sent) \in Nat
  BY DEF Typed
<1>2. Len(emitted) < MaxPackets
  BY <1>1, LeavesOk
<1>3. /\ packet \in Sendable(Leaves)
      /\ packet.id = id /\ packet.about = Len(emitted) + 1
  BY <1>2, EventType
<1>4. [by |-> t, packet |-> packet] \in S
  BY <1>3
<1>5. /\ emitted' \in Seq(S)
      /\ Len(emitted') = Len(emitted) + 1
      /\ \A n \in 1 .. Len(emitted) : emitted'[n] = emitted[n]
      /\ emitted'[Len(emitted) + 1] = [by |-> t, packet |-> packet]
  <2> HIDE DEF S
  <2> QED
    BY <1>1, <1>4, AppendProperties
<1> QED
  BY <1>1, <1>2, <1>3, <1>5, LeavesOk

(* A write to the server.                                                   *)
LEMMA WriteType ==
    ASSUME Typed, NEW frames \in Seq(Frames(Leaves)), Write(frames)
    PROVE  /\ server' = PutAll(server, frames)
           /\ server' \in Ends(Leaves)
           /\ GoesOn(server.decoded, server'.decoded)
           /\ asked' \subseteq Range(server'.decoded)
<1>1. server \in Ends(Leaves) /\ asked \subseteq Range(server.decoded)
  BY DEF Typed
<1>2. server' = PutAll(server, frames)
  BY DEF Write
<1>3. server' \in Ends(Leaves) /\ GoesOn(server.decoded, server'.decoded)
  BY <1>1, <1>2, LeavesOk, PutAllType
<1>4. asked' \subseteq asked \cup New(server, server')
  BY DEF Write
<1> QED
  BY <1>1, <1>2, <1>3, <1>4, NewIsLast

(* A packet the server sends.                                               *)
SentMessage(id, about, shape) ==
    [id |-> id, about |-> about, msg |-> Message(Len(sent) + 1, shape)]

(* A packet the server sends, and its frames.                               *)
LEMMA SendType ==
    ASSUME Typed, NEW id \in Int, NEW about \in Int, NEW shape \in Shapes,
           Send(SentMessage(id, about, shape))
    PROVE  /\ SentMessage(id, about, shape) \in Sendable(Leaves)
           /\ sent' = Append(sent, SentMessage(id, about, shape))
           /\ sent' \in Seq(Sendable(Leaves))
           /\ Len(sent') <= MaxPackets
           /\ down' = down \o Encode(SentMessage(id, about, shape))
           /\ down' \in Seq(Frames(Leaves))
<1> DEFINE n == Len(sent) + 1
           msg == Message(n, shape)
           packet == SentMessage(id, about, shape)
<1>1. /\ Len(emitted) \in Nat /\ Len(sent) \in Nat /\ sent \in Seq(Sendable(Leaves))
      /\ down \in Seq(Frames(Leaves))
  BY DEF Typed
<1>2. Len(emitted) + Len(sent) < MaxPackets
  BY DEF Send
<1>3. n \in 1 .. MaxPackets
  BY <1>1, <1>2, LeavesOk
<1>4. msg \in Seq(Leaves \cap Nat) /\ Len(Buffers(msg)) <= MaxLeaves
  BY <1>3, MessageType
<1>5. msg \in Seq(Nat)
  BY <1>4, SeqMonotonic
<1>6. packet = [id |-> id, about |-> about, msg |-> msg]
  BY DEF SentMessage
<1> HIDE DEF msg
<1>7. packet \in Sendable(Leaves)
  BY <1>4, <1>5, <1>6 DEF Sendable
<1> HIDE DEF packet
<1>8. sent' = Append(sent, packet) /\ down' = down \o Encode(packet)
  BY DEF Send, packet
<1>9. sent' \in Seq(Sendable(Leaves)) /\ Len(sent') = Len(sent) + 1
  BY <1>1, <1>7, <1>8, AppendProperties
<1>10. down' \in Seq(Frames(Leaves))
  <2>1. Encode(packet) \in Seq(Frames(Leaves))
    BY <1>7, EncodeType
  <2> QED
    BY <1>1, <1>8, <2>1, ConcatProperties
<1> QED
  BY <1>1, <1>2, <1>7, <1>8, <1>9, <1>10, LeavesOk DEF packet

(* A new end, which has decoded nothing.                                    *)
LEMMA NewEndType == NewEnd \in Ends(Leaves) /\ NewEnd.decoded = << >>
  BY NoPacketType DEF NewEnd

(* At first all variables have their type.                                  *)
LEMMA TypedInit == Init => Typed
<1> SUFFICES ASSUME Init PROVE Typed
  OBVIOUS
<1>1. links \in 0 .. MaxLinks
  BY BoundsAssumption DEF Init
<1>2. at \in [Someone -> [id : Int, frames : Seq(Frames(Leaves))]]
  BY EmptySeq DEF Init, Idle, NoId, Someone
<1>3. emitted = << >> /\ sent = << >> /\ called = << >> /\ posted = << >> /\ down = << >>
  BY DEF Init
<1>4. Len(emitted) <= MaxPackets /\ Len(sent) <= MaxPackets
  BY <1>3, LeavesOk
<1>5. /\ emitted \in Seq([by : Someone, packet : Sendable(Leaves)])
      /\ sent \in Seq(Sendable(Leaves))
      /\ called \in Seq([event : Int, answer : Int])
      /\ posted \in Seq(Frames(Leaves)) /\ down \in Seq(Frames(Leaves))
  BY <1>3, EmptySeq
<1>6. /\ open \in BOOLEAN /\ nextId \in Int /\ raced \in BOOLEAN
      /\ server = NewEnd /\ client = NewEnd /\ asked = {}
  <2>1. open = FALSE /\ nextId = 1 /\ raced = FALSE
    BY DEF Init
  <2>2. server = NewEnd /\ client = NewEnd /\ asked = {}
    BY DEF Init
  <2>3. open \in BOOLEAN
    BY <2>1
  <2>4. raced \in BOOLEAN
    BY <2>1
  <2>5. nextId \in Int
    BY <2>1
  <2> QED
    BY <2>2, <2>3, <2>4, <2>5
<1>7. asked \subseteq Range(server.decoded)
  BY <1>6
<1> QED
  BY <1>1, <1>2, <1>4, <1>5, <1>6, <1>7, NewEndType DEF Typed

(* connect: a new connection keeps the types.                               *)
LEMMA TypedConnect == Typed /\ Connect => Typed'
<1> SUFFICES ASSUME Typed, Connect PROVE Typed'
  OBVIOUS
<1>1. links' \in 0 .. MaxLinks
  BY BoundsAssumption DEF Typed, Connect
<1>2. open' \in BOOLEAN /\ server' \in Ends(Leaves) /\ client' \in Ends(Leaves)
  BY NewEndType DEF Connect, Reset
<1>3. /\ down' \in Seq(Frames(Leaves)) /\ sent' \in Seq(Sendable(Leaves))
      /\ Len(sent') <= MaxPackets
  BY EmptySeq, LeavesOk DEF Connect
<1>4. asked' \subseteq Range(server.decoded)'
  BY DEF Connect
<1>5. UNCHANGED <<emitted, at, nextId, raced, posted, called>>
  BY DEF Connect, emitVars, idVars, ackVars
<1> QED
  BY <1>1, <1>2, <1>3, <1>4, <1>5 DEF Typed

(* emit of a thread keeps the types.                                        *)
LEMMA TypedEmit == ASSUME NEW t \in Threads PROVE Typed /\ Emit(t) => Typed'
<1> SUFFICES ASSUME Typed, Emit(t) PROVE Typed'
  OBVIOUS
<1>1. at[t].id \in Int /\ t \in Someone
  BY DEF Typed, Someone
<1>2. PICK packet \in Event(at[t].id) :
          /\ emitted' = Append(emitted, [by |-> t, packet |-> packet])
          /\ at' = [at EXCEPT ![t] = [id |-> NoId, frames |-> Encode(packet)]]
  BY DEF Emit
<1>3. /\ emitted' \in Seq([by : Someone, packet : Sendable(Leaves)])
      /\ Len(emitted') <= MaxPackets
      /\ packet \in Sendable(Leaves)
  BY <1>1, <1>2, EmittedOne DEF Emit
<1>4. at' \in [Someone -> [id : Int, frames : Seq(Frames(Leaves))]]
  <2>1. Encode(packet) \in Seq(Frames(Leaves))
    BY <1>3, EncodeType
  <2> QED
    BY <1>1, <1>2, <2>1 DEF Typed, NoId
<1>5. nextId' \in Int
  BY <1>1 DEF Emit, TakeId, Typed
<1>6. UNCHANGED <<open, links, raced, posted, called, server, asked, sent, down, client>>
  BY DEF Emit, serverVars
<1> QED
  BY <1>3, <1>4, <1>5, <1>6 DEF Typed

(* on_encode keeps the types.                                               *)
LEMMA TypedOnEncode == ASSUME NEW t \in Threads PROVE Typed /\ OnEncode(t) => Typed'
<1> SUFFICES ASSUME Typed, OnEncode(t) PROVE Typed'
  OBVIOUS
<1>1. at[t] \in [id : Int, frames : Seq(Frames(Leaves))] /\ at[t].frames # << >>
  BY DEF Typed, OnEncode, Someone
<1>2. Head(at[t].frames) \in Frames(Leaves) /\ Tail(at[t].frames) \in Seq(Frames(Leaves))
  BY <1>1, HeadTailProperties
<1>3. posted' \in Seq(Frames(Leaves))
  BY <1>2, AppendProperties DEF Typed, OnEncode
<1>4. at' \in [Someone -> [id : Int, frames : Seq(Frames(Leaves))]]
  BY <1>1, <1>2 DEF Typed, OnEncode
<1>5. UNCHANGED <<open, links, emitted, nextId, raced, called, server, asked, sent, down,
        client>>
  BY DEF OnEncode, idVars, serverVars, ackVars
<1> QED
  BY <1>3, <1>4, <1>5 DEF Typed

(* send_impl keeps the types: the server decodes a frame.                   *)
LEMMA TypedSendImpl == Typed /\ SendImpl => Typed'
<1> SUFFICES ASSUME Typed, SendImpl PROVE Typed'
  OBVIOUS
<1>1. Head(posted) \in Frames(Leaves) /\ posted' \in Seq(Frames(Leaves))
  BY HeadTailProperties DEF Typed, SendImpl
<1>2. server' \in Ends(Leaves) /\ asked' \subseteq Range(server'.decoded)
  <2>1. CASE Write(<<Head(posted)>>)
    <3>1. <<Head(posted)>> \in Seq(Frames(Leaves))
      BY <1>1
    <3> QED
      BY <2>1, <3>1, WriteType
  <2>2. CASE UNCHANGED <<server, asked>>
    BY <2>2 DEF Typed
  <2> QED
    BY <2>1, <2>2 DEF SendImpl
<1>3. UNCHANGED <<open, links, emitted, at, nextId, raced, called, sent, down, client>>
  BY DEF SendImpl, idVars, ackVars
<1> QED
  BY <1>1, <1>2, <1>3 DEF Typed

(* emit in a listener keeps the types: the server decodes all frames.       *)
LEMMA TypedListenerEmits == Typed /\ ListenerEmits => Typed'
<1> SUFFICES ASSUME Typed, ListenerEmits PROVE Typed'
  OBVIOUS
<1>1. at[Net].id \in Int /\ Net \in Someone
  BY DEF Typed, Someone
<1>2. PICK packet \in Event(at[Net].id) :
          /\ emitted' = Append(emitted, [by |-> Net, packet |-> packet])
          /\ Write(Encode(packet))
  BY DEF ListenerEmits
<1>3. /\ emitted' \in Seq([by : Someone, packet : Sendable(Leaves)])
      /\ Len(emitted') <= MaxPackets
      /\ packet \in Sendable(Leaves)
  BY <1>1, <1>2, EmittedOne DEF ListenerEmits
<1>4. server' \in Ends(Leaves) /\ asked' \subseteq Range(server'.decoded)
  BY <1>2, <1>3, EncodeType, WriteType
<1>5. nextId' \in Int
  BY <1>1 DEF ListenerEmits, TakeId, Typed
<1>6. at' \in [Someone -> [id : Int, frames : Seq(Frames(Leaves))]]
  <2>1. Idle \in [id : Int, frames : Seq(Frames(Leaves))]
    BY EmptySeq DEF Idle, NoId
  <2> QED
    BY <2>1 DEF ListenerEmits, Typed
<1>7. UNCHANGED <<open, links, raced, posted, called, sent, down, client>>
  BY DEF ListenerEmits
<1> QED
  BY <1>3, <1>4, <1>5, <1>6, <1>7 DEF Typed

(* The server's answers keep the types.                                     *)
LEMMA TypedServerAcks == Typed /\ ServerAcks => Typed'
<1> SUFFICES ASSUME Typed, ServerAcks PROVE Typed'
  OBVIOUS
<1>1. PICK packet \in asked, shape \in Kinds :
          /\ Send(SentMessage(packet.id, packet.about, shape))
          /\ asked' = asked \ {packet}
  BY DEF ServerAcks, SentMessage
<1>2. packet.id \in Int /\ packet.about \in Int
  <2>1. packet \in Range(server.decoded) /\ server.decoded \in Seq(Decodable(Leaves))
    BY <1>1 DEF Typed, Ends
  <2>2. packet \in Decodable(Leaves)
    BY <2>1, RangeOfSeq
  <2> QED
    BY <2>2 DEF Decodable
<1>3. /\ sent' \in Seq(Sendable(Leaves)) /\ Len(sent') <= MaxPackets
      /\ down' \in Seq(Frames(Leaves))
  BY <1>1, <1>2, KindsOk, SendType
<1>4. UNCHANGED <<open, links, emitted, at, nextId, raced, posted, called, server, client>>
  BY <1>1 DEF Send, emitVars, idVars, ackVars
<1> QED
  BY <1>1, <1>3, <1>4 DEF Typed

(* The server's own events keep the types.                                  *)
LEMMA TypedServerEmits == Typed /\ ServerEmits => Typed'
<1> SUFFICES ASSUME Typed, ServerEmits PROVE Typed'
  OBVIOUS
<1>1. PICK shape \in Kinds : Send(SentMessage(NoId, 0, shape))
  BY DEF ServerEmits, SentMessage
<1>2. NoId \in Int /\ 0 \in Int
  BY DEF NoId
<1>3. /\ sent' \in Seq(Sendable(Leaves)) /\ Len(sent') <= MaxPackets
      /\ down' \in Seq(Frames(Leaves))
  BY <1>1, <1>2, KindsOk, SendType
<1>4. UNCHANGED <<open, links, emitted, at, nextId, raced, posted, called, server, asked,
        client>>
  BY <1>1 DEF ServerEmits, Send, emitVars, idVars, ackVars
<1> QED
  BY <1>3, <1>4 DEF Typed

(* What a frame does to the client.                                         *)
LEMMA ReceiveType ==
    ASSUME Typed, Receive
    PROVE  /\ client' \in Ends(Leaves)
           /\ ByOne(client.decoded, client'.decoded)
           /\ GoesOn(client.decoded, client'.decoded)
           /\ down' \in Seq(Frames(Leaves))
           /\ PutAll(client', down') = PutAll(client, down)
<1>1. /\ client \in Ends(Leaves) /\ down \in Seq(Frames(Leaves)) /\ down # << >>
      /\ down' = Tail(down) /\ client' = PutPayload(client, Head(down))
  BY DEF Typed, Receive
<1>2. Head(down) \in Frames(Leaves) /\ down' \in Seq(Frames(Leaves))
  BY <1>1, HeadTailProperties
<1>3. client' \in Ends(Leaves) /\ ByOne(client.decoded, client'.decoded)
  BY <1>1, <1>2, PutPayloadType, LeavesOk
<1>4. PutAll(client', down') = PutAll(client, down)
  BY <1>1, PutAllFirst, LeavesOk
<1> QED
  BY <1>2, <1>3, <1>4 DEF ByOne

(* on_socketio_ack: the callback called is noted.                           *)
LEMMA TypedOnAck ==
    ASSUME Typed, acks \in [DOMAIN acks -> Int], NEW id \in DOMAIN acks,
           NEW about \in Int, OnAck(id, about)
    PROVE  called' \in Seq([event : Int, answer : Int])
<1>1. [event |-> acks[id], answer |-> about] \in [event : Int, answer : Int]
  OBVIOUS
<1> QED
  BY <1>1, AppendProperties DEF OnAck, Typed

(* put_payload in the client keeps the types.                               *)
LEMMA TypedReceive == Typed /\ acks \in [DOMAIN acks -> Int] /\ Receive => Typed'
<1> SUFFICES ASSUME Typed, acks \in [DOMAIN acks -> Int], Receive PROVE Typed'
  OBVIOUS
<1>1. /\ client' \in Ends(Leaves) /\ down' \in Seq(Frames(Leaves))
      /\ GoesOn(client.decoded, client'.decoded)
  BY ReceiveType
<1>2. called' \in Seq([event : Int, answer : Int])
  <2>1. CASE UNCHANGED ackVars
    BY <2>1 DEF Typed, ackVars
  <2>2. CASE \E packet \in New(client, client') : packet.id \in DOMAIN acks
          /\ OnAck(packet.id, packet.about)
    <3>1. PICK packet \in New(client, client') : packet.id \in DOMAIN acks
               /\ OnAck(packet.id, packet.about)
      BY <2>2
    <3>2. packet \in Range(client'.decoded) /\ client'.decoded \in Seq(Decodable(Leaves))
      BY <1>1, <3>1, NewIsLast DEF Typed, Ends
    <3>3. packet.about \in Int
      <4>1. packet \in Decodable(Leaves)
        BY <3>2, RangeOfSeq
      <4> QED
        BY <4>1 DEF Decodable
    <3> QED
      BY <3>1, <3>3, TypedOnAck
  <2> QED
    BY <2>1, <2>2 DEF Receive
<1>3. UNCHANGED <<open, links, emitted, at, nextId, raced, posted, server, asked, sent>>
  BY DEF Receive, emitVars, idVars, serverVars
<1> QED
  BY <1>1, <1>2, <1>3 DEF Typed

(* Every step keeps the types.                                              *)
LEMMA TypedNext == Typed /\ acks \in [DOMAIN acks -> Int] /\ [Next]_vars => Typed'
<1> SUFFICES ASSUME Typed, acks \in [DOMAIN acks -> Int], [Next]_vars PROVE Typed'
  OBVIOUS
<1>1. CASE Disconnect
  <2>1. open' \in BOOLEAN
    BY <1>1 DEF Disconnect
  <2>2. UNCHANGED <<links, emitted, at, nextId, raced, posted, called, server, asked,
                    sent, down, client>>
    BY <1>1 DEF Disconnect, emitVars, idVars, ackVars, serverVars
  <2> QED
    BY <2>1, <2>2 DEF Typed
<1>2. CASE \E t \in Someone : ReadEventId(t)
  <2>1. PICK t \in Someone : ReadEventId(t)
    BY <1>2
  <2>2. at' \in [Someone -> [id : Int, frames : Seq(Frames(Leaves))]]
    BY <2>1 DEF Typed, ReadEventId
  <2>3. raced' \in BOOLEAN
    BY <2>1 DEF Typed, ReadEventId
  <2>4. UNCHANGED <<open, links, emitted, nextId, posted, called, server, asked, sent,
                    down, client>>
    BY <2>1 DEF ReadEventId, ackVars, serverVars
  <2> QED
    BY <2>2, <2>3, <2>4 DEF Typed
<1>3. CASE ReceivePong
  <2>1. PutPayload(client, Pong) = client
    BY DEF PutPayload, Pong
  <2>2. UNCHANGED <<open, links, emitted, at, nextId, raced, posted, called, server,
                    asked, sent, down, client>>
    BY <1>3, <2>1 DEF ReceivePong, emitVars, idVars, ackVars, serverVars
  <2> QED
    BY <2>2 DEF Typed
<1>4. CASE UNCHANGED vars
  <2>1. UNCHANGED <<open, links, emitted, at, nextId, raced, posted, called, server,
                    asked, sent, down, client>>
    BY <1>4 DEF vars, emitVars, idVars, ackVars, serverVars
  <2> QED
    BY <2>1 DEF Typed
<1> QED
  BY <1>1, <1>2, <1>3, <1>4, TypedConnect, TypedEmit, TypedOnEncode, TypedSendImpl,
     TypedListenerEmits,
     TypedServerAcks, TypedServerEmits, TypedReceive DEF Next, Someone

-------------------------------------------------------------------------------
(****************************************************************************)
(* Toward the client.                                                       *)
(****************************************************************************)

(* What the client has and what is on its way to it make up what was sent.  *)
Stream == PutAll(client, down) = [partial |-> NoPacket, decoded |-> sent]

(* At first nothing is sent and nothing is decoded.                         *)
LEMMA StreamInit == Init => Stream
  BY NewEndType, EmptySeq, PutAllType, LeavesOk DEF Init, Stream, NewEnd

(* A new connection forgets both sides of Stream, a packet of the server    *)
(* lengthens both, and a frame given to put_payload changes neither.        *)
LEMMA StreamNext == Typed /\ Stream /\ [Next]_vars => Stream'
<1> SUFFICES ASSUME Typed, Stream, [Next]_vars PROVE Stream'
  OBVIOUS
<1>1. CASE Connect
  <2>1. client' = NewEnd /\ down' = << >> /\ sent' = << >>
    BY <1>1 DEF Connect, Reset
  <2>2. PutAll(NewEnd, << >>) = NewEnd
    BY NewEndType, EmptySeq, PutAllType, LeavesOk
  <2> QED
    BY <2>1, <2>2 DEF Stream, NewEnd
<1>2. ASSUME NEW id \in Int, NEW about \in Int, NEW shape \in Shapes,
             Send(SentMessage(id, about, shape))
      PROVE  Stream'
  <2>1. /\ SentMessage(id, about, shape) \in Sendable(Leaves)
        /\ sent' = Append(sent, SentMessage(id, about, shape))
        /\ down' = down \o Encode(SentMessage(id, about, shape))
        /\ client' = client
    BY <1>2, SendType DEF Send
  <2>2. client \in Ends(Leaves) /\ down \in Seq(Frames(Leaves))
    BY DEF Typed
  <2>3. PutAll(client, down).partial = NoPacket /\ PutAll(client, down).decoded = sent
    BY DEF Stream
  <2> QED
    BY <2>1, <2>2, <2>3, PutAllEncoded, LeavesOk DEF Stream
<1>3. CASE ServerAcks
  <2>1. PICK packet \in asked, shape \in Kinds :
          Send(SentMessage(packet.id, packet.about, shape))
    BY <1>3 DEF ServerAcks, SentMessage
  <2>2. packet.id \in Int /\ packet.about \in Int
    <3>1. packet \in Range(server.decoded) /\ server.decoded \in Seq(Decodable(Leaves))
      BY <2>1 DEF Typed, Ends
    <3>2. packet \in Decodable(Leaves)
      BY <3>1, RangeOfSeq
    <3> QED
      BY <3>2 DEF Decodable
  <2> QED
    BY <1>2, <2>1, <2>2, KindsOk
<1>4. CASE ServerEmits
  <2>1. PICK shape \in Kinds : Send(SentMessage(NoId, 0, shape))
    BY <1>4 DEF ServerEmits, SentMessage
  <2>2. NoId \in Int /\ 0 \in Int
    BY DEF NoId
  <2> QED
    BY <1>2, <2>1, <2>2, KindsOk
<1>5. CASE Receive
  <2>1. PutAll(client', down') = PutAll(client, down)
    BY <1>5, ReceiveType
  <2>2. sent' = sent
    BY <1>5 DEF Receive, serverVars
  <2> QED
    BY <2>1, <2>2 DEF Stream
<1>6. CASE ReceivePong
  <2>1. PutPayload(client, Pong) = client
    BY DEF PutPayload, Pong
  <2> QED
    BY <1>6, <2>1 DEF ReceivePong, serverVars, Stream
<1>7. CASE UNCHANGED <<client, down, sent>>
  BY <1>7 DEF Stream
<1>8. ASSUME NEW t \in Threads \cup {Net}, ReadEventId(t) \/ Emit(t) \/ OnEncode(t)
      PROVE  UNCHANGED <<client, down, sent>>
  BY <1>8 DEF ReadEventId, Emit, OnEncode, serverVars
<1>9. Disconnect \/ SendImpl \/ ListenerEmits \/ UNCHANGED vars
         => UNCHANGED <<client, down, sent>>
  BY DEF Disconnect, SendImpl, ListenerEmits, vars, serverVars
<1> QED
  BY <1>1, <1>3, <1>4, <1>5, <1>6, <1>7, <1>8, <1>9 DEF Next

(* What is decoded is therefore the start of what was sent, all of it when  *)
(* no frame is left.                                                        *)
LEMMA StreamDecoded ==
    ASSUME Typed, Stream
    PROVE  /\ GoesOn(client.decoded, sent)
           /\ DecodedWhole
           /\ NothingKeptBack
<1>1. /\ client \in Ends(Leaves) /\ down \in Seq(Frames(Leaves))
           /\ sent \in Seq(Sendable(Leaves))
      /\ client = [partial |-> client.partial, decoded |-> client.decoded]
      /\ client.decoded \in Seq(Decodable(Leaves))
  BY DEF Typed, Ends
<1>2. GoesOn(client.decoded, sent)
  <2>1. GoesOn(client.decoded, PutAll(client, down).decoded)
    BY <1>1, PutAllType, LeavesOk
  <2> QED
    BY <2>1 DEF Stream
<1>3. NothingKeptBack
  <2>1. down = << >> => PutAll(client, down) = client
    BY <1>1, PutAllType, LeavesOk
  <2> QED
    BY <2>1 DEF NothingKeptBack, Stream
<1>4. DecodedWhole
  <2> DEFINE d == client.decoded
             n == Len(d)
             T == Range(sent) \cup Decodable(Leaves)
  <2>1. d \in Seq(T) /\ sent \in Seq(T) /\ n \in 0 .. Len(sent)
    <3>1. d \in Seq(T)
      BY <1>1, SeqMonotonic
    <3>2. sent \in Seq(T)
      BY <1>1, SeqOfRange, SeqMonotonic
    <3> QED
      BY <1>1, <1>2, <3>1, <3>2 DEF GoesOn
  <2> HIDE DEF d, T
  <2>2. SubSeq(d, 1, n) = d /\ Len(d) \in Nat
    BY <2>1, SubSeqFull
  <2>3. /\ SubSeq(sent, 1, n) \in Seq(T) /\ Len(SubSeq(sent, 1, n)) = n
        /\ \A i \in 1 .. n : SubSeq(sent, 1, n)[i] = sent[i]
    BY <2>1, FirstElements
  <2>4. \A i \in 1 .. n : sent[i] = d[i]
    BY <1>2 DEF GoesOn, d
  <2>5. d = SubSeq(sent, 1, n)
    BY <2>1, <2>3, <2>4, SeqEqual
  <2> QED
    BY <2>1, <2>2, <2>5 DEF DecodedWhole, IsPrefix, d
<1> QED
  BY <1>2, <1>3, <1>4

-------------------------------------------------------------------------------
(****************************************************************************)
(* Ids and callbacks.                                                       *)
(****************************************************************************)

(* Events know their number; an id is one that was read from                *)
(* s_global_event_id, and there were never more of these than events.       *)
Numbered ==
    /\ \A n \in 1 .. Len(emitted) :
          /\ emitted[n].packet.about = n
          /\ IdOf(n) # NoId => IdOf(n) \in 1 .. Len(emitted)
    /\ nextId \in 1 .. Len(emitted) + 1
    /\ \A t \in Someone : at[t].id # NoId => at[t].id \in 1 .. Len(emitted) + 1

(* As long as no two threads have raced, no two events have the same id,    *)
(* one thread at most has read an id and not yet used it, and that one is   *)
(* s_global_event_id itself.                                                *)
Unique ==
    ~raced =>
        /\ \A n \in 1 .. Len(emitted) : IdOf(n) # NoId => IdOf(n) < nextId
        /\ \A m, n \in 1 .. Len(emitted) : IdOf(m) = IdOf(n) /\ IdOf(n) # NoId => m = n
        /\ \A t \in Someone : at[t].id # NoId => at[t].id = nextId
        /\ \A s, t \in Someone : at[s].id # NoId /\ at[t].id # NoId => s = t

(* The callbacks in m_acks are under the ids of their events; for every id  *)
(* given out, the callback of an event that has it is there or was called.  *)
Registered ==
    /\ acks \in [DOMAIN acks -> 1 .. Len(emitted)]
    /\ DOMAIN acks \subseteq 1 .. Len(emitted)
    /\ \A i \in DOMAIN acks : IdOf(acks[i]) = i
    /\ \A n \in 1 .. Len(emitted) : IdOf(n) # NoId =>
          \/ IdOf(n) \in DOMAIN acks
          \/ \E i \in 1 .. Len(called) : IdOf(called[i].event) = IdOf(n)

(* The callbacks called were given the answer to an event of the same id,   *)
(* are no longer in m_acks, and none was called twice.                      *)
Called ==
    /\ \A i \in 1 .. Len(called) :
          /\ called[i].event \in 1 .. Len(emitted)
          /\ called[i].answer \in 1 .. Len(emitted)
          /\ IdOf(called[i].event) # NoId
          /\ IdOf(called[i].event) = IdOf(called[i].answer)
          /\ \A k \in DOMAIN acks : acks[k] # called[i].event
    /\ \A i, j \in 1 .. Len(called) : called[i].event = called[j].event => i = j

(* An answer is for an event, and has the id of that event.                 *)
Answers ==
    \A i \in 1 .. Len(sent) : sent[i].id # NoId =>
        sent[i].about \in 1 .. Len(emitted) /\ IdOf(sent[i].about) = sent[i].id

(* An emit, by what it does to events, ids and callbacks.                   *)
EmitStep(t) ==
    /\ Len(emitted) + Len(sent) < MaxPackets
    /\ \E packet \in Event(at[t].id) :
          emitted' = Append(emitted, [by |-> t, packet |-> packet])
    /\ TakeId(at[t].id)
    /\ UNCHANGED <<raced, called>>
    /\ at'[t].id = NoId
    /\ \A s \in Someone : s # t => at'[s] = at[s]

(* emit in a thread and emit in a listener take an id in the same way.      *)
LEMMA EmitIsEmitStep ==
    ASSUME Typed, (\E t \in Threads : Emit(t)) \/ ListenerEmits
    PROVE  \E t \in Someone : EmitStep(t)
<1>1. ASSUME NEW t \in Threads, Emit(t) PROVE t \in Someone /\ EmitStep(t)
  <2>1. t \in Someone /\ at \in [Someone -> [id : Int, frames : Seq(Frames(Leaves))]]
    BY DEF Typed, Someone
  <2>2. PICK packet \in Event(at[t].id) :
            /\ emitted' = Append(emitted, [by |-> t, packet |-> packet])
            /\ at' = [at EXCEPT ![t] = [id |-> NoId, frames |-> Encode(packet)]]
    BY <1>1 DEF Emit
  <2>3. at'[t].id = NoId /\ \A s \in Someone : s # t => at'[s] = at[s]
    BY <2>1, <2>2
  <2>4. UNCHANGED <<raced, called>> /\ Len(emitted) + Len(sent) < MaxPackets
          /\ TakeId(at[t].id)
    BY <1>1 DEF Emit
  <2> QED
    BY <2>1, <2>2, <2>3, <2>4 DEF EmitStep
<1>2. ASSUME ListenerEmits PROVE Net \in Someone /\ EmitStep(Net)
  <2>1. Net \in Someone /\ at \in [Someone -> [id : Int, frames : Seq(Frames(Leaves))]]
    BY DEF Typed, Someone
  <2>2. PICK packet \in Event(at[Net].id) :
          emitted' = Append(emitted, [by |-> Net, packet |-> packet])
    BY <1>2 DEF ListenerEmits
  <2>3. at'[Net].id = NoId /\ \A s \in Someone : s # Net => at'[s] = at[s]
    BY <1>2, <2>1 DEF ListenerEmits, Idle
  <2>4. UNCHANGED <<raced, called>> /\ Len(emitted) + Len(sent) < MaxPackets
          /\ TakeId(at[Net].id)
    BY <1>2 DEF ListenerEmits
  <2> QED
    BY <2>1, <2>2, <2>3, <2>4 DEF EmitStep
<1> QED
  BY <1>1, <1>2

(* The events after an emit.                                                *)
LEMMA EmitStepEvents ==
    ASSUME Typed, NEW t \in Someone, EmitStep(t)
    PROVE  /\ Len(emitted) \in Nat /\ Len(emitted') = Len(emitted) + 1
           /\ at[t].id \in Int
           /\ \A n \in 1 .. Len(emitted) :
                 /\ n \in 1 .. Len(emitted') /\ emitted'[n] = emitted[n]
                 /\ IdOf(n)' = IdOf(n)
           /\ \A n \in 1 .. Len(emitted') : n \in 1 .. Len(emitted) \/ n = Len(emitted) + 1
           /\ Len(emitted) + 1 \in 1 .. Len(emitted')
           /\ emitted'[Len(emitted) + 1].packet.id = at[t].id
           /\ emitted'[Len(emitted) + 1].packet.about = Len(emitted) + 1
<1>1. at[t].id \in Int
  BY DEF Typed
<1>2. PICK packet \in Event(at[t].id) :
        emitted' = Append(emitted, [by |-> t, packet |-> packet])
  BY DEF EmitStep
<1>3. /\ Len(emitted) \in Nat /\ Len(emitted') = Len(emitted) + 1
      /\ \A n \in 1 .. Len(emitted) : emitted'[n] = emitted[n]
      /\ emitted'[Len(emitted) + 1] = [by |-> t, packet |-> packet]
      /\ packet.id = at[t].id /\ packet.about = Len(emitted) + 1
  BY <1>1, <1>2, EmittedOne DEF EmitStep
<1>4. \A n \in 1 .. Len(emitted) : n \in 1 .. Len(emitted') /\ IdOf(n)' = IdOf(n)
  BY <1>3 DEF IdOf
<1>5. /\ \A n \in 1 .. Len(emitted') : n \in 1 .. Len(emitted) \/ n = Len(emitted) + 1
      /\ Len(emitted) + 1 \in 1 .. Len(emitted')
  BY <1>3
<1> QED
  BY <1>1, <1>3, <1>4, <1>5

(* A new event keeps the numbers, and, without a race, has a new id.        *)
LEMMA EmitStepNumbered ==
    ASSUME Typed, Numbered, Unique, NEW t \in Someone, EmitStep(t)
    PROVE  Numbered' /\ Unique'
<1> DEFINE N == Len(emitted)
           id == at[t].id
<1>1. /\ N \in Nat /\ Len(emitted') = N + 1
      /\ id \in Int
      /\ \A n \in 1 .. N : n \in 1 .. N + 1 /\ emitted'[n] = emitted[n] /\ IdOf(n)' = IdOf(n)
      /\ \A n \in 1 .. N + 1 : n \in 1 .. N \/ n = N + 1
      /\ N + 1 \in 1 .. N + 1
      /\ emitted'[N + 1].packet.id = id
      /\ emitted'[N + 1].packet.about = N + 1
  BY EmitStepEvents
<1>2. /\ nextId \in 1 .. N + 1
      /\ id # NoId => id \in 1 .. N + 1
      /\ \A n \in 1 .. N : emitted[n].packet.about = n /\ (IdOf(n) # NoId => IdOf(n) \in 1 .. N)
      /\ \A s \in Someone : at[s].id # NoId => at[s].id \in 1 .. N + 1
  BY DEF Numbered
<1>3. \/ id = NoId /\ nextId' = nextId
      \/ id # NoId /\ nextId' = id + 1
  BY DEF EmitStep, TakeId
<1>4. /\ at'[t].id = NoId /\ \A s \in Someone : s # t => at'[s] = at[s]
      /\ raced' = raced
  BY DEF EmitStep
<1>5. ~raced => /\ \A n \in 1 .. N : IdOf(n) # NoId => IdOf(n) < nextId
                /\ \A m, n \in 1 .. N : IdOf(m) = IdOf(n) /\ IdOf(n) # NoId => m = n
                /\ id # NoId => id = nextId
                /\ \A s \in Someone : at[s].id # NoId => at[s].id = nextId
                /\ \A r, s \in Someone : at[r].id # NoId /\ at[s].id # NoId => r = s
  BY DEF Unique
<1>6. \A n \in 1 .. N + 1 : n = N + 1 => IdOf(n)' = id
  BY <1>1 DEF IdOf
<1> HIDE DEF N, id
<1>7. 1 .. N \subseteq 1 .. N + 1 /\ 1 .. N + 1 \subseteq 1 .. N + 2
  BY <1>1
<1>8. nextId' \in 1 .. N + 2
  BY <1>1, <1>2, <1>3
<1>9. Numbered'
  <2>1. \A n \in 1 .. N + 1 : emitted'[n].packet.about = n
    BY <1>1, <1>2
  <2>2. \A n \in 1 .. N + 1 : IdOf(n)' # NoId => IdOf(n)' \in 1 .. N + 1
    BY <1>1, <1>2, <1>6, <1>7
  <2>3. \A s \in Someone : at'[s].id # NoId => at'[s].id \in 1 .. N + 2
    BY <1>2, <1>4, <1>7
  <2>4. N + 2 = (N + 1) + 1
    BY <1>1
  <2> QED
    BY <1>1, <1>8, <2>1, <2>2, <2>3, <2>4 DEF Numbered
<1>10. Unique'
  <2> SUFFICES ASSUME ~raced PROVE Unique'
    BY <1>4 DEF Unique
  <2>1. id # NoId => id = nextId /\ nextId' = nextId + 1
    BY <1>3, <1>5
  <2>2. nextId \in Int /\ nextId' \in Int /\ nextId <= nextId'
    <3>1. \A k \in Int : k <= k + 1 /\ k <= k
      OBVIOUS
    <3> QED
      BY <1>2, <1>3, <1>8, <2>1, <3>1
  <2>3. \A n \in 1 .. N : IdOf(n)' # NoId => IdOf(n)' < nextId /\ IdOf(n)' < nextId'
    <3>1. \A n \in 1 .. N : IdOf(n) # NoId => IdOf(n) \in Int /\ IdOf(n) < nextId
      BY <1>2, <1>5
    <3>2. \A k \in Int : k < nextId => k < nextId'
      BY <2>2
    <3> QED
      BY <1>1, <3>1, <3>2
  <2>4. id # NoId => id < nextId' /\ ~(id < nextId)
    BY <2>1, <2>2
  <2>5. \A n \in 1 .. N + 1 : IdOf(n)' # NoId => IdOf(n)' < nextId'
    BY <1>1, <1>6, <2>3, <2>4
  <2>6. ASSUME NEW m \in 1 .. N + 1, NEW n \in 1 .. N + 1, IdOf(m)' = IdOf(n)', IdOf(n)' # NoId
        PROVE  m = n
    <3>1. CASE m \in 1 .. N /\ n \in 1 .. N
      BY <1>1, <1>5, <2>6, <3>1
    <3>2. CASE m = N + 1 /\ n \in 1 .. N
      BY <1>6, <2>3, <2>4, <2>6, <3>2
    <3>3. CASE n = N + 1 /\ m \in 1 .. N
      BY <1>6, <2>3, <2>4, <2>6, <3>3
    <3> QED
      BY <1>1, <3>1, <3>2, <3>3
  <2>7. \A s \in Someone : at'[s].id # NoId => s # t /\ at'[s].id = at[s].id
    BY <1>4
  <2>8. \A s \in Someone : at'[s].id # NoId => at'[s].id = nextId'
    <3>1. ASSUME NEW s \in Someone, at'[s].id # NoId PROVE at'[s].id = nextId'
      <4>1. s # t /\ at[s].id # NoId /\ at'[s].id = at[s].id
        BY <2>7, <3>1
      <4>2. id = NoId
        BY <1>5, <4>1 DEF id
      <4> QED
        BY <1>3, <1>5, <4>1, <4>2
    <3> QED
      BY <3>1
  <2>9. \A r, s \in Someone : at'[r].id # NoId /\ at'[s].id # NoId => r = s
    BY <1>5, <2>7
  <2> QED
    BY <1>1, <2>5, <2>6, <2>8, <2>9 DEF Unique
<1> QED
  BY <1>9, <1>10

(* Every other step leaves the events as they are.                          *)
LEMMA OtherSteps ==
    ASSUME [Next]_vars, ~((\E t \in Threads : Emit(t)) \/ ListenerEmits)
    PROVE  UNCHANGED <<emitted, nextId>>
<1>1. ASSUME NEW t \in Threads \cup {Net}, ReadEventId(t) \/ OnEncode(t)
      PROVE  UNCHANGED <<emitted, nextId>>
  BY <1>1 DEF ReadEventId, OnEncode, idVars
<1>2. Connect \/ Disconnect \/ SendImpl => UNCHANGED <<emitted, nextId>>
  BY DEF Connect, Disconnect, SendImpl, emitVars, idVars
<1>3. ServerAcks \/ ServerEmits => UNCHANGED <<emitted, nextId>>
  BY DEF ServerAcks, ServerEmits, Send, emitVars, idVars
<1>4. Receive \/ ReceivePong \/ UNCHANGED vars => UNCHANGED <<emitted, nextId>>
  BY DEF Receive, ReceivePong, vars, emitVars, idVars
<1> QED
  BY <1>1, <1>2, <1>3, <1>4 DEF Next

(* At first there are no events.                                            *)
LEMMA NumberedInit == Init => Numbered /\ Unique
<1> SUFFICES ASSUME Init PROVE Numbered /\ Unique
  OBVIOUS
<1>1. emitted = << >> /\ nextId = 1 /\ at = [t \in Someone |-> Idle]
  BY DEF Init, Someone
<1>2. Len(emitted) = 0
  BY <1>1
<1>3. \A t \in Someone : at[t].id = NoId
  BY <1>1 DEF Idle
<1> QED
  BY <1>1, <1>2, <1>3 DEF Numbered, Unique

(* Every step keeps the events numbered: a thread that reads the counter    *)
(* while another has read it and not yet written it has raced.              *)
LEMMA NumberedNext == Typed /\ Numbered /\ Unique /\ [Next]_vars => Numbered' /\ Unique'
<1> SUFFICES ASSUME Typed, Numbered, Unique, [Next]_vars PROVE Numbered' /\ Unique'
  OBVIOUS
<1>1. CASE (\E t \in Threads : Emit(t)) \/ ListenerEmits
  BY <1>1, EmitIsEmitStep, EmitStepNumbered
<1>2. CASE ~((\E t \in Threads : Emit(t)) \/ ListenerEmits)
  <2>1. UNCHANGED <<emitted, nextId>>
    BY <1>2, OtherSteps
  <2>2. at \in [Someone -> [id : Int, frames : Seq(Frames(Leaves))]]
    BY DEF Typed
  <2>3. ASSUME NEW s \in Someone, ReadEventId(s) PROVE Numbered' /\ Unique'
    <3>1. at' = [at EXCEPT ![s].id = nextId]
      BY <2>3 DEF ReadEventId
    <3>2. at'[s].id = nextId /\ \A t \in Someone : t # s => at'[t] = at[t]
      BY <2>2, <3>1
    <3>3. raced' = (raced \/ \E t \in Someone : at[t].id # NoId)
      BY <2>2, <2>3 DEF ReadEventId
    <3>4. Numbered'
      BY <2>1, <3>2 DEF Numbered, IdOf
    <3>5. CASE raced'
      BY <3>4, <3>5 DEF Unique
    <3>6. CASE ~raced'
      <4>1. ~raced /\ \A t \in Someone : at[t].id = NoId
        BY <3>3, <3>6
      <4>2. \A t \in Someone : at'[t].id # NoId => t = s
        BY <3>2, <4>1
      <4> QED
        BY <2>1, <3>2, <3>4, <4>1, <4>2 DEF Unique, IdOf
    <3> QED
      BY <3>5, <3>6
  <2>4. CASE (\A t \in Someone : at'[t].id = at[t].id) /\ UNCHANGED raced
    BY <2>1, <2>4 DEF Numbered, Unique, IdOf
  <2>5. ASSUME NEW s \in Threads, OnEncode(s)
        PROVE  (\A t \in Someone : at'[t].id = at[t].id) /\ UNCHANGED raced
    BY <2>2, <2>5 DEF OnEncode, idVars
  <2>6. CASE UNCHANGED <<at, raced>>
    BY <2>4, <2>6
  <2>7. Connect \/ Disconnect \/ SendImpl \/ Receive \/ ReceivePong => UNCHANGED <<at, raced>>
    BY DEF Connect, Disconnect, SendImpl, Receive, ReceivePong, emitVars, idVars
  <2>8. ServerAcks \/ ServerEmits \/ UNCHANGED vars => UNCHANGED <<at, raced>>
    BY DEF ServerAcks, ServerEmits, Send, vars, emitVars, idVars
  <2> QED
    BY <1>2, <2>3, <2>4, <2>5, <2>6, <2>7, <2>8 DEF Next, Someone
<1> QED
  BY <1>1, <1>2

(* The packets the server may acknowledge are about events, and have their  *)
(* ids.                                                                     *)
Asked ==
    \A packet \in asked : packet.about \in 1 .. Len(emitted) /\ packet.id = IdOf(packet.about)

(* For each answer that was decoded, a callback of its id was called.       *)
Delivered ==
    \A i \in 1 .. Len(client.decoded) : client.decoded[i].id # NoId =>
        \E j \in 1 .. Len(called) : IdOf(called[j].event) = client.decoded[i].id

(* At first no callback is registered or called.                            *)
LEMMA CallbacksInit == Init => Registered /\ Called /\ Answers /\ Delivered
<1> SUFFICES ASSUME Init PROVE Registered /\ Called /\ Answers /\ Delivered
  OBVIOUS
<1>1. Len(emitted) = 0 /\ Len(called) = 0 /\ Len(sent) = 0 /\ Len(client.decoded) = 0
  BY DEF Init, NewEnd
<1>2. DOMAIN acks = {}
  BY DEF Init
<1>3. acks \in [{} -> 1 .. Len(emitted)]
  BY DEF Init
<1> QED
  BY <1>1, <1>2, <1>3 DEF Registered, Called, Answers, Delivered

(* emit registers the callback of the new event; one that had the same id   *)
(* gives way to it.                                                         *)
LEMMA EmitStepCallbacks ==
    ASSUME Typed, Numbered, Registered, Called, NEW t \in Someone, EmitStep(t)
    PROVE  Registered' /\ Called'
<1> DEFINE N == Len(emitted)
           id == at[t].id
<1>1. /\ N \in Nat /\ Len(emitted') = N + 1
      /\ \A n \in 1 .. N : n \in 1 .. N + 1 /\ emitted'[n] = emitted[n] /\ IdOf(n)' = IdOf(n)
      /\ \A n \in 1 .. N + 1 : n \in 1 .. N \/ n = N + 1
      /\ N + 1 \in 1 .. N + 1
      /\ emitted'[N + 1].packet.id = id
  BY EmitStepEvents
<1>2. /\ acks \in [DOMAIN acks -> 1 .. N]
      /\ DOMAIN acks \subseteq 1 .. N
      /\ \A i \in DOMAIN acks : IdOf(acks[i]) = i
      /\ \A n \in 1 .. N : IdOf(n) # NoId =>
            \/ IdOf(n) \in DOMAIN acks
            \/ \E i \in 1 .. Len(called) : IdOf(called[i].event) = IdOf(n)
      /\ id # NoId => id \in 1 .. N + 1
  BY DEF Registered, Numbered
<1>3. /\ \A i \in 1 .. Len(called) :
            /\ called[i].event \in 1 .. N /\ called[i].answer \in 1 .. N
            /\ IdOf(called[i].event) # NoId
            /\ IdOf(called[i].event) = IdOf(called[i].answer)
            /\ \A k \in DOMAIN acks : acks[k] # called[i].event
      /\ \A i, j \in 1 .. Len(called) : called[i].event = called[j].event => i = j
  BY DEF Called
<1>4. called' = called
  BY DEF EmitStep
<1>5. \/ id = NoId /\ acks' = acks
      \/ id # NoId /\ Register(id, N + 1)
  BY DEF EmitStep, TakeId
<1> HIDE DEF N, id
<1>6. \A n \in 1 .. N + 1 : n = N + 1 => IdOf(n)' = id
  BY <1>1 DEF IdOf
<1>7. N + 1 \notin 1 .. N /\ 1 .. N \subseteq 1 .. N + 1
  BY <1>1
<1>8. /\ DOMAIN acks' \subseteq 1 .. N + 1
      /\ acks' \in [DOMAIN acks' -> 1 .. N + 1]
      /\ DOMAIN acks \subseteq DOMAIN acks'
      /\ id # NoId => id \in DOMAIN acks'
      /\ \A i \in DOMAIN acks' : \/ i \in DOMAIN acks /\ acks'[i] = acks[i]
                                 \/ i = id /\ acks'[i] = N + 1
  <2>1. CASE id = NoId /\ acks' = acks
    BY <1>2, <1>7, <2>1
  <2>2. CASE id # NoId /\ Register(id, N + 1)
    <3>1. acks' = [i \in DOMAIN acks \cup {id} |-> IF i = id THEN N + 1 ELSE acks[i]]
      BY <2>2 DEF Register
    <3>2. DOMAIN acks' = DOMAIN acks \cup {id}
      BY <3>1
    <3>3. \A i \in DOMAIN acks' : \/ i \in DOMAIN acks /\ acks'[i] = acks[i]
                                  \/ i = id /\ acks'[i] = N + 1
      BY <3>1
    <3>4. \A i \in DOMAIN acks' : acks'[i] \in 1 .. N + 1
      <4>1. \A i \in DOMAIN acks : acks[i] \in 1 .. N + 1
        BY <1>2, <1>7
      <4> QED
        BY <1>1, <3>3, <4>1
    <3>5. acks' = [i \in DOMAIN acks' |-> acks'[i]]
      BY <3>1
    <3>6. acks' \in [DOMAIN acks' -> 1 .. N + 1]
      BY <3>4, <3>5
    <3>7. DOMAIN acks' \subseteq 1 .. N + 1
      BY <1>2, <1>7, <2>2, <3>2
    <3> QED
      BY <3>2, <3>3, <3>6, <3>7
  <2> QED
    BY <1>5, <2>1, <2>2
<1>9. \A i \in 1 .. Len(called) :
        /\ called[i].event \in 1 .. N + 1 /\ called[i].answer \in 1 .. N + 1
        /\ emitted'[called[i].event].packet.id = IdOf(called[i].event)
        /\ emitted'[called[i].answer].packet.id = IdOf(called[i].answer)
  BY <1>1, <1>3 DEF IdOf
<1>10. Registered'
  <2>1. \A i \in DOMAIN acks' : emitted'[acks'[i]].packet.id = i
    <3>1. \A i \in DOMAIN acks : emitted'[acks[i]].packet.id = i
      BY <1>1, <1>2 DEF IdOf
    <3> QED
      BY <1>1, <1>8, <3>1
  <2>2. ASSUME NEW n \in 1 .. N + 1, IdOf(n)' # NoId
        PROVE  \/ IdOf(n)' \in DOMAIN acks'
               \/ \E i \in 1 .. Len(called) : emitted'[called[i].event].packet.id = IdOf(n)'
    <3>1. CASE n = N + 1
      BY <1>6, <1>8, <2>2, <3>1
    <3>2. CASE n \in 1 .. N
      BY <1>1, <1>2, <1>8, <1>9, <2>2, <3>2
    <3> QED
      BY <1>1, <3>1, <3>2
  <2> QED
    BY <1>1, <1>4, <1>8, <2>1, <2>2 DEF Registered, IdOf
<1>11. Called'
  <2>1. \A i \in 1 .. Len(called) : \A k \in DOMAIN acks' : acks'[k] # called[i].event
    BY <1>3, <1>7, <1>8
  <2>2. \A i \in 1 .. Len(called) :
          /\ emitted'[called[i].event].packet.id # NoId
          /\ emitted'[called[i].event].packet.id = emitted'[called[i].answer].packet.id
    BY <1>3, <1>9
  <2> QED
    BY <1>1, <1>3, <1>4, <1>9, <2>1, <2>2 DEF Called, IdOf
<1> QED
  BY <1>10, <1>11

(* emit changes no answer that was sent or decoded.                         *)
LEMMA EmitStepAnswers ==
    ASSUME Typed, Called, NEW t \in Someone, EmitStep(t), Answers, Delivered,
           UNCHANGED <<sent, client>>
    PROVE  Answers' /\ Delivered'
<1>1. \A n \in 1 .. Len(emitted) : n \in 1 .. Len(emitted')
        /\ emitted'[n].packet.id = IdOf(n)
  BY EmitStepEvents DEF IdOf
<1>2. Answers'
  BY <1>1 DEF Answers, IdOf
<1>3. \A j \in 1 .. Len(called) : emitted'[called[j].event].packet.id = IdOf(called[j].event)
  BY <1>1 DEF Called
<1>4. called' = called
  BY DEF EmitStep
<1>5. Delivered'
  BY <1>3, <1>4 DEF Delivered, IdOf
<1> QED
  BY <1>2, <1>5

(* What a frame the client receives answers.                                *)
LEMMA ReceiveNew ==
    ASSUME Typed, Stream, Receive
    PROVE  \A packet \in New(client, client') :
              /\ packet = client'.decoded[Len(client'.decoded)]
              /\ Len(client'.decoded) = Len(client.decoded) + 1
              /\ Len(client'.decoded) \in 1 .. Len(sent)
              /\ packet = sent[Len(client'.decoded)]
<1>1. /\ client' \in Ends(Leaves) /\ down' \in Seq(Frames(Leaves))
      /\ ByOne(client.decoded, client'.decoded)
      /\ GoesOn(client.decoded, client'.decoded)
      /\ PutAll(client', down') = PutAll(client, down)
  BY ReceiveType
<1>2. GoesOn(client'.decoded, sent)
  <2>1. GoesOn(client'.decoded, PutAll(client', down').decoded)
    BY <1>1, PutAllType, LeavesOk
  <2>2. PutAll(client, down).decoded = sent
    BY DEF Stream
  <2> QED
    BY <1>1, <2>1, <2>2
<1>3. Len(client.decoded) \in Nat /\ Len(client'.decoded) \in Nat /\ Len(sent) \in Nat
  <2>1. client.decoded \in Seq(Decodable(Leaves))
          /\ client'.decoded \in Seq(Decodable(Leaves))
    BY <1>1 DEF Typed, Ends
  <2> QED
    BY <2>1, LenProperties DEF Typed
<1>4. ASSUME NEW packet \in New(client, client')
      PROVE  /\ packet = client'.decoded[Len(client'.decoded)]
             /\ Len(client'.decoded) > Len(client.decoded)
  BY <1>1, NewIsLast DEF Typed
<1> QED
  BY <1>1, <1>2, <1>3, <1>4 DEF ByOne, GoesOn

(* put_payload: an answer that is decoded finds the callback of its id,     *)
(* unless that was called before.                                           *)
LEMMA ReceiveCallbacks ==
    ASSUME Typed, Stream, Numbered, Registered, Called, Answers, Delivered, Receive
    PROVE  Registered' /\ Called' /\ Answers' /\ Delivered'
<1>1. UNCHANGED <<emitted, sent>>
  BY DEF Receive, emitVars, serverVars
<1>2. Answers'
  BY <1>1 DEF Answers, IdOf
<1> DEFINE q == Len(client'.decoded)
<1>3. /\ \A packet \in New(client, client') :
              /\ packet = client'.decoded[q]
              /\ q = Len(client.decoded) + 1
              /\ packet = sent[q]
              /\ packet.id # NoId =>
                    packet.about \in 1 .. Len(emitted) /\ IdOf(packet.about) = packet.id
  BY ReceiveNew DEF Answers
<1>4. \/ New(client, client') = {} /\ client'.decoded = client.decoded
      \/ New(client, client') = {client'.decoded[q]}
  BY DEF New, Last
<1>5. /\ Len(client.decoded) \in Nat
      /\ \A i \in 1 .. Len(client.decoded) : client'.decoded[i] = client.decoded[i]
  <2>1. GoesOn(client.decoded, client'.decoded)
          /\ client.decoded \in Seq(Decodable(Leaves))
    BY ReceiveType DEF Typed, Ends
  <2> QED
    BY <2>1, LenProperties DEF GoesOn
<1>6. ASSUME \A j \in 1 .. Len(called) : j \in 1 .. Len(called')
             /\ called'[j] = called[j],
             \A packet \in New(client, client') : packet.id # NoId =>
                \E j \in 1 .. Len(called') : IdOf(called'[j].event) = packet.id
      PROVE  Delivered'
  <2>1. ASSUME NEW i \in 1 .. Len(client.decoded), client'.decoded[i].id # NoId
        PROVE  \E j \in 1 .. Len(called') : IdOf(called'[j].event) = client'.decoded[i].id
    <3>1. client'.decoded[i] = client.decoded[i]
      BY <1>5
    <3>2. PICK j \in 1 .. Len(called) : IdOf(called[j].event) = client.decoded[i].id
      BY <2>1, <3>1 DEF Delivered
    <3>3. j \in 1 .. Len(called') /\ IdOf(called'[j].event) = client'.decoded[i].id
      BY <1>6, <3>1, <3>2
    <3> QED
      BY <3>3
  <2>2. CASE New(client, client') = {} /\ client'.decoded = client.decoded
    BY <1>1, <2>1, <2>2 DEF Delivered, IdOf
  <2>3. CASE New(client, client') = {client'.decoded[q]}
    <3>1. \A i \in 1 .. q : i \in 1 .. Len(client.decoded) \/ i = q
      BY <1>3, <1>5, <2>3
    <3>2. client'.decoded[q].id # NoId =>
                \E j \in 1 .. Len(called') : IdOf(called'[j].event) = client'.decoded[q].id
      BY <1>6, <2>3
    <3> QED
      BY <1>1, <2>1, <3>1, <3>2 DEF Delivered, IdOf
  <2> QED
    BY <1>4, <2>2, <2>3
<1>7. CASE /\ {packet \in New(client, client') : packet.id \in DOMAIN acks} = {}
           /\ UNCHANGED ackVars
  <2>1. acks' = acks /\ called' = called
    BY <1>7 DEF ackVars
  <2>2. Registered' /\ Called'
    BY <1>1, <2>1 DEF Registered, Called, IdOf
  <2>3. \A packet \in New(client, client') : packet.id # NoId =>
            \E j \in 1 .. Len(called') : IdOf(called'[j].event) = packet.id
    BY <1>3, <1>7, <2>1 DEF Registered
  <2> QED
    BY <1>2, <1>6, <2>1, <2>2, <2>3
<1>8. ASSUME NEW packet \in New(client, client'), packet.id \in DOMAIN acks,
             OnAck(packet.id, packet.about)
      PROVE  Registered' /\ Called' /\ Delivered'
  <2> DEFINE id == packet.id
             n == packet.about
             e == acks[id]
             M == Len(called)
  <2>1. /\ id \in 1 .. Len(emitted) /\ id # NoId
        /\ e \in 1 .. Len(emitted) /\ IdOf(e) = id
    BY <1>8 DEF Registered, NoId
  <2>2. n \in 1 .. Len(emitted) /\ IdOf(n) = id
    BY <1>3, <2>1
  <2>3. called' = Append(called, [event |-> e, answer |-> n])
    BY <1>8 DEF OnAck
  <2>4. /\ DOMAIN acks' = DOMAIN acks \ {id}
        /\ acks' = [i \in DOMAIN acks \ {id} |-> acks[i]]
    BY <1>8 DEF OnAck, Restrict
  <2>5. \A i \in DOMAIN acks : acks[i] = e => i = id
    BY <2>1 DEF Registered
  <2>6. /\ M \in Nat /\ Len(called') = M + 1
        /\ \A j \in 1 .. M : called'[j] = called[j]
        /\ called'[M + 1] = [event |-> e, answer |-> n]
    <3>1. called \in Seq([event : Int, answer : Int]) /\ n \in Int /\ e \in Int
      BY <2>1, <2>2 DEF Typed
    <3>2. [event |-> e, answer |-> n] \in [event : Int, answer : Int]
      BY <3>1
    <3> HIDE DEF n, e
    <3> QED
      BY <2>3, <3>1, <3>2, AppendProperties, LenProperties
  <2>7. e = acks[id] /\ id \in DOMAIN acks
    BY <1>8
  <2> HIDE DEF id, n, e, M
  <2>8. \A j \in 1 .. Len(called') : j \in 1 .. M \/ j = M + 1
    BY <2>6
  <2>9. \A j \in 1 .. M : j \in 1 .. Len(called')
    BY <2>6
  <2>10. /\ M + 1 \in 1 .. Len(called')
         /\ called'[M + 1].event = e /\ called'[M + 1].answer = n
    BY <2>6
  <2>11. Registered'
    <3>1. acks' \in [DOMAIN acks' -> 1 .. Len(emitted')]
      BY <1>1, <2>4 DEF Registered
    <3>2. /\ DOMAIN acks' \subseteq 1 .. Len(emitted')
          /\ \A i \in DOMAIN acks' : emitted'[acks'[i]].packet.id = i
      BY <1>1, <2>4 DEF Registered, IdOf
    <3>3. ASSUME NEW k \in 1 .. Len(emitted), IdOf(k) # NoId
          PROVE  IdOf(k) \in DOMAIN acks' \/ \E j \in 1 .. Len(called') :
                 IdOf(called'[j].event) = IdOf(k)
      <4>1. CASE IdOf(k) = id
        BY <2>1, <2>10, <4>1
      <4>2. CASE IdOf(k) # id
        <5>1. IdOf(k) \in DOMAIN acks \/ \E j \in 1 .. M : IdOf(called[j].event) = IdOf(k)
          BY <3>3 DEF Registered, M
        <5> QED
          BY <2>4, <2>6, <2>9, <4>2, <5>1
      <4> QED
        BY <4>1, <4>2
    <3> QED
      BY <1>1, <3>1, <3>2, <3>3 DEF Registered, IdOf
  <2>12. Called'
    <3>1. \A j \in 1 .. M :
            /\ called[j].event \in 1 .. Len(emitted)
            /\ called[j].answer \in 1 .. Len(emitted)
            /\ IdOf(called[j].event) # NoId
            /\ IdOf(called[j].event) = IdOf(called[j].answer)
            /\ \A k \in DOMAIN acks : acks[k] # called[j].event
            /\ called[j].event # e
      BY <2>7 DEF Called, M
    <3>2. ASSUME NEW j \in 1 .. Len(called')
          PROVE  /\ called'[j].event \in 1 .. Len(emitted)
                 /\ called'[j].answer \in 1 .. Len(emitted)
                 /\ IdOf(called'[j].event) # NoId
                 /\ IdOf(called'[j].event) = IdOf(called'[j].answer)
                 /\ \A k \in DOMAIN acks' : acks'[k] # called'[j].event
      <4>1. CASE j \in 1 .. M
        BY <2>4, <2>6, <3>1, <4>1
      <4>2. CASE j = M + 1
        <5>1. \A k \in DOMAIN acks' : acks'[k] # e
          BY <2>4, <2>5
        <5> QED
          BY <2>1, <2>2, <2>10, <4>2, <5>1
      <4> QED
        BY <2>8, <4>1, <4>2
    <3>3. ASSUME NEW i \in 1 .. Len(called'), NEW j \in 1 .. Len(called'),
                 called'[i].event = called'[j].event
          PROVE  i = j
      <4>1. CASE i \in 1 .. M /\ j \in 1 .. M
        BY <2>6, <3>3, <4>1 DEF Called, M
      <4>2. CASE i = M + 1 /\ j \in 1 .. M
        BY <2>6, <2>10, <3>1, <3>3, <4>2
      <4>3. CASE j = M + 1 /\ i \in 1 .. M
        BY <2>6, <2>10, <3>1, <3>3, <4>3
      <4> QED
        BY <2>8, <4>1, <4>2, <4>3
    <3> QED
      BY <1>1, <3>2, <3>3 DEF Called, IdOf
  <2>13. Delivered'
    <3>1. \A other \in New(client, client') : other = packet
      BY <1>3
    <3>2. \A other \in New(client, client') : other.id # NoId =>
                \E j \in 1 .. Len(called') : IdOf(called'[j].event) = other.id
      BY <2>1, <2>10, <3>1 DEF id
    <3>3. \A j \in 1 .. Len(called) : j \in 1 .. Len(called') /\ called'[j] = called[j]
      BY <2>6, <2>9 DEF M
    <3> QED
      BY <1>6, <3>2, <3>3
  <2> QED
    BY <2>11, <2>12, <2>13
<1>9. CASE \E packet \in {p \in New(client, client') : p.id \in DOMAIN acks} :
        OnAck(packet.id, packet.about)
  <2>1. PICK packet \in New(client, client') : packet.id \in DOMAIN acks
             /\ OnAck(packet.id, packet.about)
    BY <1>9
  <2> QED
    BY <1>2, <1>8, <2>1
<1> QED
  BY <1>7, <1>9 DEF Receive

(* The server answers an event with the id of that event.                   *)
LEMMA SendAnswers ==
    ASSUME Typed, Answers, NEW id \in Int, NEW about \in Int, NEW shape \in Shapes,
           Send(SentMessage(id, about, shape)),
           id # NoId => about \in 1 .. Len(emitted) /\ IdOf(about) = id
    PROVE  Answers'
<1>1. /\ SentMessage(id, about, shape) \in Sendable(Leaves)
      /\ sent' = Append(sent, SentMessage(id, about, shape))
      /\ emitted' = emitted
  BY SendType DEF Send, emitVars
<1>2. /\ Len(sent) \in Nat /\ Len(sent') = Len(sent) + 1
      /\ \A i \in 1 .. Len(sent) : sent'[i] = sent[i]
      /\ sent'[Len(sent) + 1] = SentMessage(id, about, shape)
  BY <1>1, AppendProperties, LenProperties DEF Typed
<1>3. \A i \in 1 .. Len(sent') : i \in 1 .. Len(sent) \/ i = Len(sent) + 1
  BY <1>2
<1>4. sent'[Len(sent) + 1].id = id /\ sent'[Len(sent) + 1].about = about
  BY <1>2 DEF SentMessage
<1>5. \A i \in 1 .. Len(sent') : sent'[i].id # NoId =>
        sent'[i].about \in 1 .. Len(emitted) /\ IdOf(sent'[i].about) = sent'[i].id
  BY <1>2, <1>3, <1>4 DEF Answers
<1> QED
  BY <1>1, <1>5 DEF Answers, IdOf

(* Every step keeps what is said of callbacks and answers.                  *)
LEMMA CallbacksNext ==
    ASSUME Typed, Stream, Numbered, Asked, Registered, Called, Answers, Delivered,
           [Next]_vars
    PROVE  Registered' /\ Called' /\ Answers' /\ Delivered'
<1>1. CASE (\E t \in Threads : Emit(t)) \/ ListenerEmits
  <2>1. PICK t \in Someone : EmitStep(t)
    BY <1>1, EmitIsEmitStep
  <2>2. UNCHANGED <<sent, client>>
    BY <1>1 DEF Emit, ListenerEmits, serverVars
  <2> QED
    BY <2>1, <2>2, EmitStepCallbacks, EmitStepAnswers
<1>2. CASE Receive
  BY <1>2, ReceiveCallbacks
<1>3. CASE ~((\E t \in Threads : Emit(t)) \/ ListenerEmits) /\ ~Receive
  <2>1. UNCHANGED <<emitted, nextId>>
    BY <1>3, OtherSteps
  <2>2. UNCHANGED <<acks, called>>
    <3>1. \A t \in Threads \cup {Net} : ReadEventId(t) \/ OnEncode(t)
            => UNCHANGED <<acks, called>>
      BY DEF ReadEventId, OnEncode, ackVars
    <3>2. Connect \/ Disconnect \/ SendImpl \/ ReceivePong => UNCHANGED <<acks, called>>
      BY DEF Connect, Disconnect, SendImpl, ReceivePong, ackVars
    <3>3. ServerAcks \/ ServerEmits \/ UNCHANGED vars => UNCHANGED <<acks, called>>
      BY DEF ServerAcks, ServerEmits, Send, vars, ackVars
    <3> QED
      BY <1>3, <3>1, <3>2, <3>3 DEF Next
  <2>3. Registered' /\ Called'
    BY <2>1, <2>2 DEF Registered, Called, IdOf
  <2>4. CASE UNCHANGED <<sent, client>>
    BY <2>1, <2>2, <2>3, <2>4 DEF Answers, Delivered, IdOf
  <2>5. CASE Connect
    <3>1. Len(sent') = 0 /\ Len(client'.decoded) = 0
      BY <2>5 DEF Connect, Reset, NewEnd
    <3> QED
      BY <2>3, <3>1 DEF Answers, Delivered
  <2>6. CASE ServerAcks
    <3>1. PICK packet \in asked, shape \in Kinds :
            Send(SentMessage(packet.id, packet.about, shape))
      BY <2>6 DEF ServerAcks, SentMessage
    <3>2. packet.about \in 1 .. Len(emitted) /\ packet.id = IdOf(packet.about)
      BY <3>1 DEF Asked
    <3>3. packet.id \in Int /\ packet.about \in Int
      <4>1. emitted[packet.about] \in [by : Someone, packet : Sendable(Leaves)]
        BY <3>2, ElementOfSeq DEF Typed
      <4> QED
        BY <3>2, <4>1 DEF IdOf, Sendable
    <3>5. Answers'
      BY <3>1, <3>2, <3>3, KindsOk, SendAnswers
    <3>6. client' = client
      BY <3>1 DEF Send
    <3> QED
      BY <2>1, <2>2, <2>3, <3>5, <3>6 DEF Delivered, IdOf
  <2>7. CASE ServerEmits
    <3>1. PICK shape \in Kinds : Send(SentMessage(NoId, 0, shape))
      BY <2>7 DEF ServerEmits, SentMessage
    <3>2. NoId \in Int /\ 0 \in Int
      BY DEF NoId
    <3>3. Answers'
      BY <3>1, <3>2, KindsOk, SendAnswers
    <3>4. client' = client
      BY <3>1 DEF Send
    <3> QED
      BY <2>1, <2>2, <2>3, <3>3, <3>4 DEF Delivered, IdOf
  <2>8. \A t \in Threads \cup {Net} : ReadEventId(t) \/ OnEncode(t)
          => UNCHANGED <<sent, client>>
    BY DEF ReadEventId, OnEncode, serverVars
  <2>9. Disconnect \/ SendImpl \/ UNCHANGED vars => UNCHANGED <<sent, client>>
    BY DEF Disconnect, SendImpl, vars, serverVars
  <2>10. ReceivePong => UNCHANGED <<sent, client>>
    BY DEF ReceivePong, PutPayload, Pong, serverVars
  <2> QED
    BY <1>3, <2>4, <2>5, <2>6, <2>7, <2>8, <2>9, <2>10 DEF Next
<1> QED
  BY <1>1, <1>2, <1>3

-------------------------------------------------------------------------------
(****************************************************************************)
(* Toward the server.                                                       *)
(****************************************************************************)

(* A place: the number of an event, and of one of its frames.               *)
Places == [event : Nat, frame : Nat]

(* Who emitted the event of a place.                                        *)
Sender(E, x) == E[x.event].by

(* The frames of the event of a place.                                      *)
FramesOf(E, x) == Encode(E[x.event].packet)

(* Place x is of a frame of an event of E.                                  *)
IsPlace(E, x) ==
    x \in Places /\ x.event \in 1 .. Len(E) /\ x.frame \in 1 .. Len(FramesOf(E, x))

(* Place x comes before y, among those of one sender.                       *)
Before(x, y) == x.event < y.event \/ (x.event = y.event /\ x.frame < y.frame)

(* The place of the next frame of the event.                                *)
After(x) == [event |-> x.event, frame |-> x.frame + 1]

(* The threads that have frames of an emit to post.                         *)
Busy(w) == {t \in Threads : w[t].frames # << >>}

(* The places of all frames that were not yet given to send_impl: those     *)
(* posted (c), and the next one of each busy thread (a).                    *)
Pending(w, c, a) == {c[i] : i \in 1 .. Len(c)} \cup {a[t] : t \in Busy(w)}

(* The frames posted are those at the places c, and what a busy thread has  *)
(* still to post begins at its place a.  The frames of one sender are in    *)
(* order, and the next frame of a packet that is posted in part is pending  *)
(* too.                                                                     *)
Placed(E, q, w, c, a) ==
    /\ c \in Seq(Places) /\ Len(c) = Len(q)
    /\ a \in [Threads -> Places]
    /\ \A x \in Pending(w, c, a) : IsPlace(E, x) /\ Sender(E, x) \in Threads
    /\ \A i \in 1 .. Len(c) : q[i] = FramesOf(E, c[i])[c[i].frame]
    /\ \A t \in Busy(w) :
          /\ Sender(E, a[t]) = t
          /\ w[t].frames = SubSeq(FramesOf(E, a[t]), a[t].frame, Len(FramesOf(E, a[t])))
    /\ \A i, j \in 1 .. Len(c) : i < j /\ Sender(E, c[i]) = Sender(E, c[j]) =>
         Before(c[i], c[j])
    /\ \A i \in 1 .. Len(c), t \in Busy(w) : Sender(E, c[i]) = t => Before(c[i], a[t])
    /\ \A i \in 1 .. Len(c) :
          c[i].frame < Len(FramesOf(E, c[i])) => After(c[i]) \in Pending(w, c, a)

(* A sequence of events as emitted.                                         *)
Events(E) ==
    /\ E \in Seq([by : Someone, packet : Sendable(Leaves)])
    /\ \A n \in 1 .. Len(E) : E[n].packet.about = n

(* More has been emitted.                                                   *)
Longer(E, F) == Len(E) \in Nat /\ Len(F) \in Nat /\ Len(E) <= Len(F)
  /\ \A n \in 1 .. Len(E) : F[n] = E[n]

(* The places of one sender are ordered, with none between a place and the  *)
(* next of its packet.                                                      *)
LEMMA BeforeTransitive ==
    /\ \A x, y, z \in Places : Before(x, y) /\ Before(y, z) => Before(x, z)
    /\ \A x, y \in Places : Before(x, y) => x # y /\ ~Before(y, x)
    /\ \A x \in Places : After(x) \in Places /\ Before(x, After(x))
    /\ \A x, y \in Places : Before(x, y) /\ ~Before(After(x), y) => y = After(x)
  BY DEF Places, Before, After

(* A place keeps its meaning when more is emitted.                          *)
LEMMA LongerPlaces ==
    ASSUME NEW E, NEW F, Longer(E, F), NEW x, IsPlace(E, x)
    PROVE  /\ IsPlace(F, x) /\ Sender(F, x) = Sender(E, x)
           /\ FramesOf(F, x) = FramesOf(E, x)
           /\ F[x.event] = E[x.event]
  BY DEF Longer, IsPlace, Sender, FramesOf

(* Frames keep their places when more is emitted.                           *)
LEMMA LongerPlaced ==
    ASSUME NEW E, NEW F, Longer(E, F), NEW q, NEW w, NEW c, NEW a, Placed(E, q, w, c, a)
    PROVE  Placed(F, q, w, c, a)
<1>1. \A x \in Pending(w, c, a) :
          /\ IsPlace(F, x) /\ Sender(F, x) = Sender(E, x)
          /\ FramesOf(F, x) = FramesOf(E, x)
  BY LongerPlaces DEF Placed
<1>2. \A i \in 1 .. Len(c) : c[i] \in Pending(w, c, a)
  BY DEF Pending
<1>3. \A t \in Busy(w) : a[t] \in Pending(w, c, a)
  BY DEF Pending
<1> QED
  BY <1>1, <1>2, <1>3 DEF Placed

(* An event has a text frame and a frame for each of its blobs.             *)
LEMMA EventFrames ==
    ASSUME NEW E, Events(E), NEW x \in Places, x.event \in 1 .. Len(E)
    PROVE  /\ FramesOf(E, x) \in Seq(Frames(Leaves))
           /\ Len(Buffers(E[x.event].packet.msg)) \in Nat
           /\ Len(FramesOf(E, x)) = Len(Buffers(E[x.event].packet.msg)) + 1
           /\ E[x.event].packet \in Packets
           /\ E[x.event].packet.about = x.event
<1> DEFINE packet == E[x.event].packet
<1>1. packet \in Sendable(Leaves)
  <2>1. E[x.event] \in [by : Someone, packet : Sendable(Leaves)]
    BY ElementOfSeq DEF Events
  <2> QED
    BY <2>1
<1>2. packet.msg \in Seq(Nat) /\ packet \in Packets
  BY <1>1 DEF Sendable, Packets
<1>3. packet.about = x.event
  BY DEF Events
<1> HIDE DEF packet
<1>4. Encode(packet) \in Seq(Frames(Leaves))
        /\ Len(Encode(packet)) = Len(Buffers(packet.msg)) + 1
  BY <1>1, <1>2, EncodeType, EncodeFrames
<1>5. Len(Buffers(packet.msg)) \in Nat
  <2>1. Buffers(packet.msg) \in Seq(Nat)
    BY <1>2, Placeholders
  <2> QED
    BY <2>1, LenProperties
<1> QED
  BY <1>2, <1>3, <1>4, <1>5 DEF packet, FramesOf

(* The place of thread t is x.                                              *)
Moved(a, t, x) == [a EXCEPT ![t] = x]

(* The first place of an event.                                             *)
FirstPlace(n) == [event |-> n, frame |-> 1]

(* Thread t has to do the frames of the last event of E, and no others.     *)
StartsLast(E, N, w, v, t) ==
    /\ w[t].frames = << >>
    /\ Len(E) = N + 1
    /\ E[N + 1].by = t
    /\ v[t].frames = Encode(E[N + 1].packet)
    /\ \A s \in Threads : s # t => v[s] = w[s]

(* Thread t has done the first of its frames.                               *)
DoesOne(w, v, t) ==
    /\ t \in Busy(w)
    /\ v[t].frames = Tail(w[t].frames)
    /\ \A s \in Threads : s # t => v[s] = w[s]

(* emit: the frames of the new event are what the thread has still to do.   *)
LEMMA PlacedEmit ==
    ASSUME NEW E, Events(E), NEW q \in Seq(Frames(Leaves)),
           NEW w, NEW c, NEW a, Placed(E, q, w, c, a), NEW t \in Threads,
           NEW N \in Nat, NEW v, StartsLast(E, N, w, v, t),
           \A x \in Pending(w, c, a) : x.event <= N
    PROVE  LET b == Moved(a, t, FirstPlace(N + 1))
           IN  /\ Placed(E, q, v, c, b)
               /\ Pending(v, c, b) = Pending(w, c, a) \cup {FirstPlace(N + 1)}
<1> DEFINE first == FirstPlace(N + 1)
           b == Moved(a, t, first)
<1>0. /\ w[t].frames = << >> /\ Len(E) = N + 1 /\ E[N + 1].by = t
      /\ v[t].frames = Encode(E[N + 1].packet) /\ \A s \in Threads : s # t => v[s] = w[s]
  BY DEF StartsLast
<1>1. first \in Places /\ first.event = N + 1 /\ first.frame = 1
  BY <1>0 DEF Places, FirstPlace
<1> HIDE DEF first
<1>2. /\ FramesOf(E, first) \in Seq(Frames(Leaves))
      /\ Len(FramesOf(E, first)) \in Nat /\ Len(FramesOf(E, first)) >= 1
      /\ FramesOf(E, first) = Encode(E[N + 1].packet)
  <2>1. first.event \in 1 .. Len(E)
    BY <1>0, <1>1
  <2>2. /\ FramesOf(E, first) \in Seq(Frames(Leaves))
        /\ Len(Buffers(E[first.event].packet.msg)) \in Nat
        /\ Len(FramesOf(E, first)) = Len(Buffers(E[first.event].packet.msg)) + 1
    BY <1>0, <1>1, <2>1, EventFrames
  <2>3. FramesOf(E, first) = Encode(E[N + 1].packet)
    BY <1>0, <1>1 DEF FramesOf
  <2> QED
    BY <1>0, <2>2, <2>3
<1>3. IsPlace(E, first) /\ Sender(E, first) = t
  BY <1>0, <1>1, <1>2 DEF IsPlace, Sender
<1>4. v[t].frames = FramesOf(E, first) /\ \A s \in Threads : s # t => v[s] = w[s]
  BY <1>0, <1>2
<1>5. t \notin Busy(w) /\ Busy(v) = Busy(w) \cup {t}
  BY <1>0, <1>2, <1>4 DEF Busy
<1>6. c \in Seq(Places) /\ Len(c) \in Nat /\ a \in [Threads -> Places]
  BY <1>0 DEF Placed
<1>7. b \in [Threads -> Places] /\ b[t] = first /\ \A s \in Threads : s # t => b[s] = a[s]
  BY <1>1, <1>6 DEF Moved
<1> HIDE DEF b
<1>8. \A s \in Busy(v) : s = t \/ (s \in Busy(w) /\ s # t /\ b[s] = a[s] /\ v[s] = w[s])
  BY <1>0, <1>4, <1>5, <1>7 DEF Busy
<1>9. \A s \in Busy(w) : s \in Busy(v) /\ b[s] = a[s]
  BY <1>0, <1>5, <1>7 DEF Busy
<1>10. Pending(v, c, b) = Pending(w, c, a) \cup {first}
  <2>1. first \in Pending(v, c, b)
    BY <1>0, <1>5, <1>7 DEF Pending
  <2>2. {a[s] : s \in Busy(w)} \subseteq {b[s] : s \in Busy(v)}
    BY <1>0, <1>9
  <2>3. {b[s] : s \in Busy(v)} \subseteq {a[s] : s \in Busy(w)} \cup {first}
    <3>1. \A s \in Busy(v) : b[s] \in {a[u] : u \in Busy(w)} \cup {first}
      BY <1>0, <1>7, <1>8
    <3> QED
      BY <1>0, <3>1
  <2> QED
    BY <1>0, <2>1, <2>2, <2>3 DEF Pending
<1>11. \A x \in Pending(v, c, b) : IsPlace(E, x) /\ Sender(E, x) \in Threads
  BY <1>0, <1>3, <1>10 DEF Placed
<1>12. \A s \in Busy(v) :
          /\ Sender(E, b[s]) = s
          /\ v[s].frames = SubSeq(FramesOf(E, b[s]), b[s].frame, Len(FramesOf(E, b[s])))
  <2>1. v[t].frames = SubSeq(FramesOf(E, first), first.frame, Len(FramesOf(E, first)))
    BY <1>0, <1>1, <1>2, <1>4, SubSeqFull
  <2> QED
    BY <1>0, <1>3, <1>7, <1>8, <2>1 DEF Placed
<1>13. \A i \in 1 .. Len(c), s \in Busy(v) : Sender(E, c[i]) = s => Before(c[i], b[s])
  <2>1. \A i \in 1 .. Len(c) : Before(c[i], first)
    <3>1. \A i \in 1 .. Len(c) : c[i] \in Pending(w, c, a) /\ c[i] \in Places
      BY <1>0, <1>6, ElementOfSeq DEF Pending
    <3>2. \A x \in Places : x.event <= N => Before(x, first)
      BY <1>0, <1>1 DEF Before, Places
    <3> QED
      BY <1>0, <3>1, <3>2
  <2> QED
    BY <1>0, <1>7, <1>8, <2>1 DEF Placed
<1> QED
  BY <1>0, <1>6, <1>7, <1>10, <1>11, <1>12, <1>13 DEF Placed, b, first

(* on_encode: the first of the frames a thread has still to do is posted.   *)
LEMMA PlacedOnEncode ==
    ASSUME NEW E, Events(E), NEW q \in Seq(Frames(Leaves)),
           NEW w, NEW c, NEW a, Placed(E, q, w, c, a),
           NEW t, NEW v, DoesOne(w, v, t)
    PROVE  LET b == Moved(a, t, After(a[t]))
               d == Append(c, a[t])
           IN  /\ Placed(E, Append(q, Head(w[t].frames)), v, d, b)
               /\ Pending(w, c, a) \subseteq Pending(v, d, b)
               /\ \A x \in Pending(v, d, b) : x \in Pending(w, c, a) \/ x = After(a[t])
               /\ a[t] \in Pending(w, c, a)
<1> DEFINE y == a[t]
           b == Moved(a, t, After(y))
           d == Append(c, y)
           r == Append(q, Head(w[t].frames))
           F == FramesOf(E, y)
<1>0. /\ t \in Busy(w) /\ v[t].frames = Tail(w[t].frames)
      /\ \A s \in Threads : s # t => v[s] = w[s]
  BY DEF DoesOne
<1>1. /\ c \in Seq(Places) /\ Len(c) \in Nat /\ Len(q) = Len(c)
           /\ a \in [Threads -> Places]
      /\ t \in Threads /\ w[t].frames # << >>
  BY <1>0 DEF Placed, Busy
<1>2. y \in Pending(w, c, a) /\ IsPlace(E, y) /\ y \in Places /\ Sender(E, y) = t
      /\ w[t].frames = SubSeq(F, y.frame, Len(F))
  BY <1>0 DEF Pending, Placed, IsPlace
<1> HIDE DEF y
<1>3. F \in Seq(Frames(Leaves)) /\ Len(F) \in Nat /\ y.frame \in 1 .. Len(F)
        /\ y.frame \in Nat /\ y.event \in Nat
  <2>1. F \in Seq(Frames(Leaves))
    BY <1>0, <1>2, EventFrames DEF IsPlace
  <2> QED
    BY <1>0, <1>2, <2>1 DEF IsPlace, Places
<1>4. Head(w[t].frames) = F[y.frame] /\ Tail(w[t].frames) = SubSeq(F, y.frame + 1, Len(F))
  <2>1. y.frame \in 1 .. Len(F) /\ Len(F) \in y.frame .. Len(F)
    BY <1>0, <1>3
  <2>2. w[t].frames = SubSeq(F, y.frame, Len(F)) /\ F \in Seq(Frames(Leaves))
    BY <1>0, <1>2, <1>3
  <2> HIDE DEF F
  <2>3. /\ Head(SubSeq(F, y.frame, Len(F))) = F[y.frame]
        /\ Tail(SubSeq(F, y.frame, Len(F))) = SubSeq(F, y.frame + 1, Len(F))
    BY <2>1, <2>2, HeadTailOfSubSeq
  <2> QED
    BY <2>2, <2>3
<1>5. /\ After(y) \in Places /\ Sender(E, After(y)) = t /\ FramesOf(E, After(y)) = F
      /\ After(y).frame = y.frame + 1
      /\ y.frame < Len(F) => IsPlace(E, After(y))
  <2>1. After(y).event = y.event /\ After(y).frame = y.frame + 1 /\ After(y) \in Places
    BY <1>0, <1>3 DEF After, Places
  <2> QED
    BY <1>0, <1>2, <1>3, <2>1 DEF Sender, FramesOf, IsPlace
<1>6. v[t].frames = SubSeq(F, y.frame + 1, Len(F)) /\ \A s \in Threads : s # t =>
        v[s] = w[s]
  BY <1>0, <1>4
<1>7. t \in Busy(v) <=> y.frame < Len(F)
  <2>1. CASE y.frame < Len(F)
    <3>1. Len(SubSeq(F, y.frame + 1, Len(F))) = Len(F) - (y.frame + 1) + 1
      <4>1. \A i \in y.frame + 1 .. Len(F) : F[i] \in Frames(Leaves)
        BY <1>0, <1>3, ElementOfSeq
      <4>2. y.frame + 1 \in Int /\ Len(F) \in Int /\ y.frame + 1 <= Len(F)
        BY <1>0, <1>3, <2>1
      <4> HIDE DEF F
      <4> QED
        BY <1>0, <4>1, <4>2, SubSeqProperties
    <3>2. v[t].frames # << >>
      <4>1. Len(v[t].frames) # 0
        BY <1>3, <1>6, <2>1, <3>1
      <4>2. Len(<< >>) = 0
        BY EmptySeq
      <4> QED
        BY <1>0, <4>1, <4>2, Zenon
    <3> QED
      BY <1>0, <1>1, <2>1, <3>2 DEF Busy
  <2>2. CASE ~(y.frame < Len(F))
    <3>1. v[t].frames = << >>
      BY <1>3, <1>6, <2>2, SubSeqEmpty
    <3> QED
      BY <1>0, <2>2, <3>1 DEF Busy
  <2> QED
    BY <1>0, <2>1, <2>2
<1> HIDE DEF F
<1>8. \A s \in Threads : s # t => (s \in Busy(v) <=> s \in Busy(w))
  BY <1>0, <1>6 DEF Busy
<1>9. b \in [Threads -> Places] /\ b[t] = After(y) /\ \A s \in Threads : s # t =>
        b[s] = a[s]
  BY <1>1, <1>5 DEF Moved
<1> HIDE DEF b
<1>10. /\ d \in Seq(Places) /\ Len(d) = Len(c) + 1
       /\ \A i \in 1 .. Len(c) : d[i] = c[i]
       /\ d[Len(c) + 1] = y
  BY <1>0, <1>1, <1>2, AppendProperties
<1> HIDE DEF d
<1>11. /\ Len(r) = Len(c) + 1
       /\ \A i \in 1 .. Len(c) : r[i] = q[i]
       /\ r[Len(c) + 1] = F[y.frame]
  <2>1. Head(w[t].frames) \in Frames(Leaves)
    BY <1>0, <1>3, <1>4, ElementOfSeq
  <2> QED
    BY <1>0, <1>1, <1>4, <2>1, AppendProperties
<1> HIDE DEF r
<1>12. \A i \in 1 .. Len(d) : i \in 1 .. Len(c) \/ i = Len(c) + 1
  BY <1>0, <1>1, <1>10
<1>13. \A i \in 1 .. Len(c) : c[i] \in Pending(w, c, a) /\ c[i] \in Places
         /\ i \in 1 .. Len(d)
  BY <1>0, <1>1, <1>10, ElementOfSeq DEF Pending
<1>14. Pending(w, c, a) \subseteq Pending(v, d, b)
  <2>1. \A i \in 1 .. Len(c) : c[i] \in Pending(v, d, b)
    BY <1>0, <1>10, <1>13 DEF Pending
  <2>2. y \in Pending(v, d, b)
    <3>1. Len(c) + 1 \in 1 .. Len(d)
      BY <1>0, <1>1, <1>10
    <3> QED
      BY <1>0, <1>10, <3>1 DEF Pending
  <2>3. \A s \in Busy(w) : s # t => a[s] \in Pending(v, d, b)
    BY <1>0, <1>8, <1>9 DEF Pending, Busy
  <2> QED
    BY <1>0, <2>1, <2>2, <2>3 DEF Pending, y
<1>15. \A x \in Pending(v, d, b) :
          x \in Pending(w, c, a) \/ (x = After(y) /\ y.frame < Len(F))
  <2>1. \A i \in 1 .. Len(d) : d[i] \in Pending(w, c, a)
    BY <1>0, <1>2, <1>10, <1>12, <1>13
  <2>2. \A s \in Busy(v) : b[s] \in Pending(w, c, a)
          \/ (b[s] = After(y) /\ y.frame < Len(F))
    BY <1>0, <1>7, <1>8, <1>9 DEF Pending, Busy
  <2> QED
    BY <1>0, <2>1, <2>2 DEF Pending
<1>16. \A x \in Pending(v, d, b) : IsPlace(E, x) /\ Sender(E, x) \in Threads
  BY <1>0, <1>1, <1>5, <1>15 DEF Placed
<1>17. \A i \in 1 .. Len(d) : r[i] = FramesOf(E, d[i])[d[i].frame]
  BY <1>0, <1>10, <1>11, <1>12 DEF Placed, F
<1>18. \A s \in Busy(v) :
          /\ Sender(E, b[s]) = s
          /\ v[s].frames = SubSeq(FramesOf(E, b[s]), b[s].frame, Len(FramesOf(E, b[s])))
  <2>1. ASSUME NEW s \in Busy(v), s # t
        PROVE  /\ Sender(E, b[s]) = s
               /\ v[s].frames = SubSeq(FramesOf(E, b[s]), b[s].frame,
                    Len(FramesOf(E, b[s])))
    <3>1. s \in Busy(w) /\ b[s] = a[s] /\ v[s] = w[s]
      BY <1>0, <1>6, <1>8, <1>9, <2>1 DEF Busy
    <3> QED
      BY <1>0, <3>1 DEF Placed
  <2> QED
    BY <1>0, <1>5, <1>6, <1>9, <2>1
<1>19. \A i, j \in 1 .. Len(d) : i < j /\ Sender(E, d[i]) = Sender(E, d[j]) =>
         Before(d[i], d[j])
  <2>1. \A i, j \in 1 .. Len(c) : i < j /\ Sender(E, c[i]) = Sender(E, c[j]) =>
          Before(c[i], c[j])
    BY <1>0 DEF Placed
  <2>2. \A i \in 1 .. Len(c) : Sender(E, c[i]) = t => Before(c[i], y)
    BY <1>0 DEF Placed, y
  <2>3. ASSUME NEW i \in 1 .. Len(d), NEW j \in 1 .. Len(d), i < j,
               Sender(E, d[i]) = Sender(E, d[j])
        PROVE  Before(d[i], d[j])
    <3>1. i \in 1 .. Len(c)
      BY <1>0, <1>1, <1>10, <1>12, <2>3
    <3>2. CASE j \in 1 .. Len(c)
      BY <1>0, <1>10, <2>1, <2>3, <3>1, <3>2
    <3>3. CASE j = Len(c) + 1
      BY <1>0, <1>2, <1>10, <2>2, <2>3, <3>1, <3>3
    <3> QED
      BY <1>0, <1>12, <3>2, <3>3
  <2> QED
    BY <1>0, <2>3
<1>20. \A i \in 1 .. Len(d), s \in Busy(v) : Sender(E, d[i]) = s => Before(d[i], b[s])
  <2>1. \A i \in 1 .. Len(c), s \in Busy(w) : Sender(E, c[i]) = s => Before(c[i], a[s])
    BY <1>0 DEF Placed
  <2>2. Before(y, After(y))
    BY <1>0, <1>2, BeforeTransitive
  <2>3. \A i \in 1 .. Len(c) : Sender(E, c[i]) = t => Before(c[i], After(y))
    <3>1. \A i \in 1 .. Len(c) : Sender(E, c[i]) = t => Before(c[i], y)
      BY <1>0, <2>1 DEF y
    <3> QED
      BY <1>0, <1>2, <1>5, <1>13, <2>2, <3>1, BeforeTransitive
  <2>4. ASSUME NEW i \in 1 .. Len(d), NEW s \in Busy(v), Sender(E, d[i]) = s
        PROVE  Before(d[i], b[s])
    <3>1. CASE s = t
      BY <1>0, <1>9, <1>10, <1>12, <2>2, <2>3, <2>4, <3>1
    <3>2. CASE s # t
      <4>1. s \in Busy(w) /\ b[s] = a[s]
        BY <1>0, <1>8, <1>9, <3>2 DEF Busy
      <4>2. i \in 1 .. Len(c)
        BY <1>0, <1>2, <1>10, <1>12, <2>4, <3>2
      <4> QED
        BY <1>0, <1>10, <2>1, <2>4, <4>1, <4>2
    <3> QED
      BY <1>0, <3>1, <3>2
  <2> QED
    BY <1>0, <2>4
<1>21. \A i \in 1 .. Len(d) :
          d[i].frame < Len(FramesOf(E, d[i])) => After(d[i]) \in Pending(v, d, b)
  <2>1. \A i \in 1 .. Len(c) :
          c[i].frame < Len(FramesOf(E, c[i])) => After(c[i]) \in Pending(v, d, b)
    BY <1>0, <1>14 DEF Placed
  <2>2. y.frame < Len(F) => After(y) \in Pending(v, d, b)
    BY <1>0, <1>7, <1>9 DEF Pending
  <2> QED
    BY <1>0, <1>10, <1>12, <2>1, <2>2 DEF F
<1> QED
  <2>1. Placed(E, r, v, d, b)
    BY <1>0, <1>9, <1>10, <1>11, <1>16, <1>17, <1>18, <1>19, <1>20, <1>21 DEF Placed
  <2> QED
    BY <1>0, <1>2, <1>14, <1>15, <2>1 DEF r, d, b, y

(* send_impl: the first of the posted frames goes; of its sender's frames   *)
(* no other comes before it.                                                *)
LEMMA PlacedSend ==
    ASSUME NEW E, Events(E), NEW q \in Seq(Frames(Leaves)), q # << >>,
           NEW w, NEW c, NEW a, Placed(E, q, w, c, a)
    PROVE  LET d == Tail(c)
               P == Pending(w, c, a)
               R == Pending(w, d, a)
               y == c[1]
           IN  /\ Placed(E, Tail(q), w, d, a)
               /\ R \subseteq P /\ y \in P
               /\ \A x \in P : x \in R \/ x = y
               /\ \A x \in R : Sender(E, x) = Sender(E, y) => Before(y, x)
               /\ y.frame < Len(FramesOf(E, y)) => After(y) \in R
               /\ Head(q) = FramesOf(E, y)[y.frame]
<1> DEFINE d == Tail(c)
           P == Pending(w, c, a)
           R == Pending(w, d, a)
           y == c[1]
<1>1. c \in Seq(Places) /\ Len(c) = Len(q) /\ c # << >> /\ Len(c) \in Nat /\ Len(c) >= 1
  BY EmptySeq, LenProperties DEF Placed
<1>2. /\ d \in Seq(Places) /\ Len(d) = Len(c) - 1
      /\ \A i \in 1 .. Len(d) : d[i] = c[i + 1]
  BY <1>1, HeadTailProperties
<1>3. /\ Head(q) = q[1] /\ Len(Tail(q)) = Len(q) - 1
      /\ \A i \in 1 .. Len(Tail(q)) : Tail(q)[i] = q[i + 1]
  BY HeadTailProperties
<1> HIDE DEF d
<1>4. \A i \in 1 .. Len(d) : i + 1 \in 1 .. Len(c) /\ 1 < i + 1 /\ d[i] = c[i + 1]
  BY <1>1, <1>2
<1>5. \A j \in 1 .. Len(c) : j = 1 \/ (j - 1 \in 1 .. Len(d) /\ d[j - 1] = c[j])
  <2>1. \A j \in 1 .. Len(c) : j = 1 \/ (j - 1 \in 1 .. Len(d) /\ (j - 1) + 1 = j)
    BY <1>1, <1>2
  <2> QED
    BY <1>2, <2>1
<1>6. R \subseteq P
  BY <1>4 DEF Pending
<1>7. \A x \in P : x \in R \/ x = y
  <2>1. \A j \in 1 .. Len(c) : c[j] = y \/ \E i \in 1 .. Len(d) : c[j] = d[i]
    BY <1>5
  <2> QED
    BY <2>1 DEF Pending
<1>8. 1 \in 1 .. Len(c) /\ y \in P /\ y \in Places
  BY <1>1, ElementOfSeq DEF Pending
<1>9. /\ \A x \in P : IsPlace(E, x) /\ Sender(E, x) \in Threads
      /\ \A i \in 1 .. Len(c) : q[i] = FramesOf(E, c[i])[c[i].frame]
      /\ \A t \in Busy(w) :
            /\ Sender(E, a[t]) = t
            /\ w[t].frames = SubSeq(FramesOf(E, a[t]), a[t].frame, Len(FramesOf(E, a[t])))
      /\ \A i, j \in 1 .. Len(c) : i < j /\ Sender(E, c[i]) = Sender(E, c[j]) =>
           Before(c[i], c[j])
      /\ \A i \in 1 .. Len(c), t \in Busy(w) : Sender(E, c[i]) = t => Before(c[i], a[t])
      /\ \A i \in 1 .. Len(c) : c[i].frame < Len(FramesOf(E, c[i])) => After(c[i]) \in P
      /\ a \in [Threads -> Places]
  BY DEF Placed
<1>10. \A x \in R : Sender(E, x) = Sender(E, y) => Before(y, x)
  <2>1. \A i \in 1 .. Len(d) : Sender(E, d[i]) = Sender(E, y) => Before(y, d[i])
    BY <1>4, <1>8, <1>9
  <2>2. \A t \in Busy(w) : Sender(E, a[t]) = Sender(E, y) => Before(y, a[t])
    BY <1>8, <1>9
  <2> QED
    BY <2>1, <2>2 DEF Pending
<1>11. \A x \in Places : Sender(E, After(x)) = Sender(E, x)
  BY DEF Sender, After
<1>12. \A x \in P : Sender(E, x) = Sender(E, y) /\ (x = y \/ x \in R) => After(x) # y
  <2>1. ASSUME NEW x \in P, Sender(E, x) = Sender(E, y), x = y \/ x \in R
        PROVE  After(x) # y
    <3>1. x \in Places
      BY <1>9 DEF IsPlace
    <3>2. x = y \/ Before(y, x)
      BY <1>10, <2>1
    <3> QED
      BY <1>8, <3>1, <3>2, BeforeTransitive
  <2> QED
    BY <2>1
<1>13. ASSUME NEW i \in 1 .. Len(c), c[i].frame < Len(FramesOf(E, c[i]))
       PROVE  After(c[i]) \in R
  <2>1. c[i] \in P /\ c[i] \in Places /\ After(c[i]) \in P
    BY <1>1, <1>9, <1>13, ElementOfSeq DEF Pending
  <2>2. After(c[i]) # y
    <3>1. CASE Sender(E, c[i]) = Sender(E, y)
      BY <1>7, <1>12, <2>1, <3>1
    <3>2. CASE Sender(E, c[i]) # Sender(E, y)
      BY <1>11, <2>1, <3>2
    <3> QED
      BY <3>1, <3>2
  <2> QED
    BY <1>7, <2>1, <2>2
<1>14. Placed(E, Tail(q), w, d, a)
  <2>1. Len(d) = Len(Tail(q))
    BY <1>1, <1>2, <1>3
  <2>2. \A i \in 1 .. Len(d) : Tail(q)[i] = FramesOf(E, d[i])[d[i].frame]
    BY <1>3, <1>4, <1>9, <2>1
  <2>3. \A i, j \in 1 .. Len(d) : i < j /\ Sender(E, d[i]) = Sender(E, d[j]) =>
          Before(d[i], d[j])
    <3>1. \A i, j \in 1 .. Len(d) : i < j => i + 1 < j + 1
      OBVIOUS
    <3> QED
      BY <1>4, <1>9, <3>1
  <2>4. \A i \in 1 .. Len(d), t \in Busy(w) : Sender(E, d[i]) = t => Before(d[i], a[t])
    BY <1>4, <1>9
  <2>5. \A i \in 1 .. Len(d) : d[i].frame < Len(FramesOf(E, d[i])) => After(d[i]) \in R
    BY <1>4, <1>13
  <2>6. \A x \in R : IsPlace(E, x) /\ Sender(E, x) \in Threads
    BY <1>6, <1>9
  <2> QED
    BY <1>2, <1>9, <2>1, <2>2, <2>3, <2>4, <2>5, <2>6 DEF Placed
<1>15. Head(q) = FramesOf(E, y)[y.frame]
  BY <1>1, <1>3, <1>9
<1>16. y.frame < Len(FramesOf(E, y)) => After(y) \in R
  BY <1>8, <1>13
<1> QED
  BY <1>6, <1>7, <1>8, <1>10, <1>14, <1>15, <1>16 DEF d

(* Every buffer is that of a placeholder, and a blob of the message.        *)
LEMMA BuffersPlaced ==
    ASSUME NEW Leaf \in SUBSET Nat, NEW msg \in Seq(Leaf),
           NEW j \in 1 .. Len(Buffers(msg))
    PROVE  \E i \in 1 .. Len(msg) :
              /\ IsBlob(msg[i]) /\ Json(msg)[i] = j - 1
              /\ Buffers(msg)[j] = msg[i]
<1>1. PICK f \in [Nat -> Seq(Leaf)] :
          /\ f[0] = << >>
          /\ \A n \in 0 .. Len(msg) - 1 :
                f[n + 1] = IF IsBlob(msg[n + 1]) THEN Append(f[n], msg[n + 1]) ELSE f[n]
          /\ \A n \in 0 .. Len(msg) : Buffers(SubSeq(msg, 1, n)) = f[n]
  BY BuffersStep
<1> DEFINE From(n, k) == \E i \in 1 .. n : IsBlob(msg[i]) /\ Len(f[i - 1]) = k - 1
           Good == {n \in Nat : n <= Len(msg) => \A k \in 1 .. Len(f[n]) : From(n, k)}
<1>2. 0 \in Good
  BY <1>1
<1>3. ASSUME NEW n \in Nat, n \in Good PROVE n + 1 \in Good
  <2>1. SUFFICES ASSUME n + 1 <= Len(msg) PROVE \A k \in 1 .. Len(f[n + 1]) : From(n + 1, k)
    OBVIOUS
  <2>2. n \in 0 .. Len(msg) - 1 /\ n + 1 \in 1 .. Len(msg) /\ n <= Len(msg)
    BY <2>1
  <2>3. f[n] \in Seq(Leaf) /\ msg[n + 1] \in Leaf /\ Len(f[n]) \in Nat
    <3>1. f[n] \in Seq(Leaf)
      OBVIOUS
    <3> QED
      BY <2>2, <3>1, ElementOfSeq, LenProperties
  <2>4. \A k \in 1 .. Len(f[n]) : From(n + 1, k)
    <3>1. \A k \in 1 .. Len(f[n]) : From(n, k)
      BY <1>3, <2>2
    <3>2. 1 .. n \subseteq 1 .. n + 1
      OBVIOUS
    <3> QED
      BY <3>1, <3>2
  <2>5. CASE IsBlob(msg[n + 1])
    <3>1. f[n + 1] = Append(f[n], msg[n + 1])
      BY <1>1, <2>2, <2>5
    <3>2. Len(f[n + 1]) = Len(f[n]) + 1
      BY <2>3, <3>1, AppendProperties
    <3>3. From(n + 1, Len(f[n]) + 1)
      <4>1. n + 1 \in 1 .. n + 1 /\ (n + 1) - 1 = n /\ (Len(f[n]) + 1) - 1 = Len(f[n])
        BY <2>3
      <4> QED
        BY <2>5, <4>1
    <3>4. \A k \in 1 .. Len(f[n + 1]) : k \in 1 .. Len(f[n]) \/ k = Len(f[n]) + 1
      <4>1. \A l \in Nat : \A k \in 1 .. l + 1 : k \in 1 .. l \/ k = l + 1
        OBVIOUS
      <4> QED
        BY <2>3, <3>2, <4>1
    <3> HIDE DEF From
    <3> QED
      BY <2>4, <3>3, <3>4
  <2>6. CASE ~IsBlob(msg[n + 1])
    <3>1. f[n + 1] = f[n]
      BY <1>1, <2>2, <2>6
    <3> HIDE DEF From
    <3> QED
      BY <2>4, <3>1
  <2> QED
    BY <2>5, <2>6
<1>4. Len(msg) \in Good
  <2>1. \A n \in Nat : n \in Good
    <3> HIDE DEF Good
    <3> QED
      BY <1>2, <1>3, SetInduction
  <2> HIDE DEF Good
  <2> QED
    BY <2>1
<1>5. Buffers(msg) = f[Len(msg)]
  <2>1. SubSeq(msg, 1, Len(msg)) = msg /\ Len(msg) \in 0 .. Len(msg)
    BY SubSeqFull, LenProperties
  <2> QED
    BY <1>1, <2>1
<1>6. PICK i \in 1 .. Len(msg) : IsBlob(msg[i]) /\ Len(f[i - 1]) = j - 1
  BY <1>4, <1>5
<1>7. Json(msg)[i] = j - 1
  <2>1. i - 1 \in 0 .. Len(msg)
    OBVIOUS
  <2>2. Buffers(SubSeq(msg, 1, i - 1)) = f[i - 1]
    BY <1>1, <2>1
  <2>3. DOMAIN msg = 1 .. Len(msg)
    OBVIOUS
  <2> QED
    BY <1>6, <2>2, <2>3 DEF Json
<1>8. Buffers(msg)[Json(msg)[i] + 1] = msg[i]
  BY <1>6, Placeholders
<1>9. (j - 1) + 1 = j
  <2>1. Len(Buffers(msg)) \in Nat
    BY Placeholders, LenProperties
  <2> QED
    BY <2>1
<1> QED
  BY <1>6, <1>7, <1>8, <1>9

(* With a buffer for each placeholder, whatever the buffers are, from_json  *)
(* puts all of them into the message.                                       *)
LEMMA AllPlaced ==
    ASSUME NEW msg \in Seq(Nat), NEW buffers, Len(buffers) = Len(Buffers(msg)),
           NEW j \in 1 .. Len(buffers)
    PROVE  buffers[j] \in Range(FromJson(Json(msg), buffers))
<1> DEFINE new == FromJson(Json(msg), buffers)
<1>1. Nat \in SUBSET Nat /\ j \in 1 .. Len(Buffers(msg)) /\ Len(Buffers(msg)) \in Nat
  BY Placeholders, LenProperties
<1>2. PICK i \in 1 .. Len(msg) : IsBlob(msg[i]) /\ Json(msg)[i] = j - 1
  BY <1>1, BuffersPlaced
<1>3. DOMAIN Json(msg) = 1 .. Len(msg)
  BY DEF Json
<1>4. Json(msg)[i] # Plain /\ Json(msg)[i] < Len(buffers) /\ Json(msg)[i] + 1 = j
  BY <1>1, <1>2 DEF Plain
<1>5. i \in DOMAIN new /\ new[i] = buffers[j]
  BY <1>2, <1>3, <1>4 DEF FromJson
<1> QED
  BY <1>5 DEF Range

(* The frames after the first of an event are its blobs.                    *)
LEMMA BlobFrame ==
    ASSUME NEW E, Events(E), NEW y, IsPlace(E, y), y.frame # 1
    PROVE  \E blob \in Range(E[y.event].packet.msg) :
              /\ IsBlob(blob) /\ blob \in Leaves
              /\ FramesOf(E, y)[y.frame] = BinaryFrame(blob)
<1> DEFINE packet == E[y.event].packet
           b == Buffers(packet.msg)
<1>1. /\ y \in Places /\ y.event \in 1 .. Len(E) /\ y.frame \in 1 .. Len(FramesOf(E, y))
      /\ y.frame \in Nat
  BY DEF IsPlace, Places
<1>2. Len(b) \in Nat /\ Len(FramesOf(E, y)) = Len(b) + 1
  BY <1>1, EventFrames
<1>3. y.frame - 1 \in 1 .. Len(b) /\ (y.frame - 1) + 1 = y.frame
  BY <1>1, <1>2
<1>4. packet \in Sendable(Leaves)
  <2>1. E[y.event] \in [by : Someone, packet : Sendable(Leaves)]
    BY <1>1, ElementOfSeq DEF Events
  <2> QED
    BY <2>1
<1>5. packet.msg \in Seq(Nat) /\ packet.msg \in Seq(Leaves \cap Nat)
  BY <1>4 DEF Sendable
<1>6. FramesOf(E, y)[y.frame] = BinaryFrame(b[y.frame - 1])
  BY <1>3, <1>5, EncodeFrames DEF FramesOf
<1>7. PICK i \in 1 .. Len(packet.msg) : IsBlob(packet.msg[i]) /\ b[y.frame - 1] = packet.msg[i]
  <2> DEFINE j == y.frame - 1
             msg == packet.msg
  <2>1. j \in 1 .. Len(Buffers(msg)) /\ msg \in Seq(Nat) /\ Nat \in SUBSET Nat
    BY <1>3, <1>5
  <2> HIDE DEF j, msg
  <2>2. \E i \in 1 .. Len(msg) : IsBlob(msg[i]) /\ Buffers(msg)[j] = msg[i]
    BY <2>1, BuffersPlaced
  <2> QED
    BY <2>2 DEF j, msg
<1>8. packet.msg[i] \in Range(packet.msg) /\ packet.msg[i] \in Leaves
  <2>1. DOMAIN packet.msg = 1 .. Len(packet.msg)
    BY <1>5
  <2>2. packet.msg[i] \in Leaves \cap Nat
    BY <1>5, ElementOfSeq
  <2> QED
    BY <2>1, <2>2 DEF Range
<1> QED
  BY <1>6, <1>7, <1>8

(* The frame of a packet of which k attachments have come.                  *)
FrameLeft(packet, k) ==
    [id |-> packet.id, about |-> packet.about, json |-> Json(packet.msg),
     pending |-> Len(Buffers(packet.msg)) - k]

(* A partial packet has the text of the packet and less than its            *)
(* attachments, be they its own or not.                                     *)
Part(packet, partial) ==
    /\ partial = [frame |-> FrameLeft(packet, Len(partial.buffers)),
                  buffers |-> partial.buffers]
    /\ partial.buffers \in Seq(Leaves)
    /\ Len(partial.buffers) < Len(Buffers(packet.msg))

(* Its attachments, with one more.                                          *)
More(partial, blob) == Append(partial.buffers, blob)

(* What a blob does to it, whoever's it is.                                 *)
LEMMA PutBlob ==
    ASSUME NEW packet \in Packets, NEW end, IsEnd(end), Part(packet, end.partial),
           NEW blob \in Leaves
    PROVE  LET next == More(end.partial, blob)
           IN  /\ Len(end.partial.buffers) \in Nat
               /\ Len(next) = Len(end.partial.buffers) + 1
               /\ next \in Seq(Leaves)
               /\ next[Len(next)] = blob
               /\ \A j \in 1 .. Len(end.partial.buffers) :
                     j \in 1 .. Len(next) /\ next[j] = end.partial.buffers[j]
               /\ Len(next) \in 1 .. Len(next)
               /\ PutPayload(end, BinaryFrame(blob)) =
                     IF Len(next) < Len(Buffers(packet.msg))
                     THEN [partial |-> [frame |-> FrameLeft(packet, Len(next)),
                                        buffers |-> next],
                           decoded |-> end.decoded]
                     ELSE [partial |-> NoPacket,
                           decoded |-> Append(end.decoded,
                              [id |-> packet.id, about |-> packet.about,
                               msg |-> FromJson(Json(packet.msg), next)])]
<1> DEFINE B == Len(Buffers(packet.msg))
           old == end.partial.buffers
           next == More(end.partial, blob)
           k == Len(old)
<1>0. next = Append(end.partial.buffers, blob)
  BY DEF More
<1> HIDE DEF next
<1>1. B \in Nat /\ old \in Seq(Leaves) /\ k \in Nat /\ k < B
  <2>1. Len(Buffers(packet.msg)) \in Nat
    BY Placeholders, LenProperties DEF Packets
  <2>2. old \in Seq(Leaves) /\ k < B
    BY DEF Part
  <2>3. k \in Nat
    BY <2>2, LenProperties
  <2> QED
    BY <2>1, <2>2, <2>3
<1>2. end.partial = [frame |-> FrameLeft(packet, k), buffers |-> old]
  BY DEF Part
<1> HIDE DEF old
<1>3. /\ next \in Seq(Leaves) /\ Len(next) = k + 1 /\ next[k + 1] = blob
      /\ \A j \in 1 .. k : next[j] = old[j]
  BY <1>0, <1>1, AppendProperties DEF old
<1>4. \A j \in 1 .. k : j \in 1 .. k + 1
  BY <1>1
<1>5. k + 1 \in 1 .. k + 1
  BY <1>1
<1> HIDE DEF k, B
<1>6. end.partial.frame.pending = B - k /\ end.partial.buffers = old
  BY <1>2 DEF FrameLeft, B
<1>7. end.partial # NoPacket
  <2>1. B - k # 0
    BY <1>1
  <2> QED
    BY <1>6, <2>1 DEF NoPacket
<1>8. PutPayload(end, BinaryFrame(blob)) = PutBinary(end, BinaryFrame(blob))
  BY DEF PutPayload, BinaryFrame
<1>9. B - k - 1 = B - (k + 1) /\ (B - k - 1 > 0 <=> k + 1 < B)
  BY <1>1
<1>10. CASE k + 1 < B
  <2> DEFINE left == [end.partial.frame EXCEPT !.pending = B - k - 1]
             rest == [frame |-> left, buffers |-> next]
  <2>1. left = FrameLeft(packet, k + 1)
    BY <1>2, <1>9 DEF FrameLeft, B
  <2> HIDE DEF left
  <2>2. PutBinary(end, BinaryFrame(blob)) = [end EXCEPT !.partial = rest]
    BY <1>0, <1>6, <1>7, <1>9, <1>10 DEF PutBinary, BinaryFrame, left
  <2>3. [end EXCEPT !.partial = rest] = [partial |-> rest, decoded |-> end.decoded]
    <3> HIDE DEF rest
    <3> QED
      BY DEF IsEnd
  <2> QED
    BY <1>1, <1>3, <1>4, <1>5, <1>8, <1>10, <2>1, <2>2, <2>3 DEF next, old, k, B
<1>11. CASE ~(k + 1 < B)
  <2>1. PutBinary(end, BinaryFrame(blob)) =
           [partial |-> NoPacket, decoded |-> Decoded(end, end.partial.frame, next)]
    BY <1>0, <1>6, <1>7, <1>9, <1>11 DEF PutBinary, BinaryFrame
  <2>2. Decoded(end, end.partial.frame, next) =
           Append(end.decoded, [id |-> packet.id, about |-> packet.about,
                                msg |-> FromJson(Json(packet.msg), next)])
    BY <1>2 DEF Decoded, FrameLeft
  <2> QED
    BY <1>1, <1>3, <1>4, <1>5, <1>8, <1>11, <2>1, <2>2 DEF next, old, k, B
<1> QED
  BY <1>10, <1>11

(* A packet of which only its own attachments have come is a part of it.    *)
LEMMA PartialIsPart ==
    ASSUME NEW packet \in Sendable(Leaves), NEW m \in 1 .. Len(Buffers(packet.msg))
    PROVE  /\ Part(packet, PartialOf(packet, m))
           /\ Len(PartialOf(packet, m).buffers) = m - 1
<1> DEFINE b == Buffers(packet.msg)
           own == SubSeq(b, 1, m - 1)
<1>1. packet.msg \in Seq(Leaves \cap Nat)
  BY DEF Sendable
<1>2. b \in Seq(Leaves \cap Nat)
  BY <1>1, Placeholders
<1>3. Len(b) \in Nat
  BY <1>2, LenProperties
<1>4. own \in Seq(Leaves \cap Nat) /\ Len(own) = m - 1
  <2>1. m - 1 \in 0 .. Len(b)
    BY <1>3
  <2> HIDE DEF b
  <2> QED
    BY <1>2, <2>1, FirstElements
<1>5. own \in Seq(Leaves)
  BY <1>4, SeqMonotonic
<1>6. PartialOf(packet, m) = [frame |-> FrameLeft(packet, m - 1), buffers |-> own]
  BY DEF PartialOf, FrameLeft
<1> HIDE DEF own
<1>7. PartialOf(packet, m).buffers = own
  BY <1>6
<1> QED
  BY <1>3, <1>4, <1>5, <1>6, <1>7 DEF Part

(* The leaf is a blob of an event that the sender of event n did not emit.  *)
Foreign(E, leaf, n) ==
    /\ IsBlob(leaf)
    /\ \E m \in 1 .. Len(E) : leaf \in Range(E[m].packet.msg) /\ E[m].by # E[n].by

(* The partial packet is that of the event of x, with blobs of other        *)
(* senders among its attachments.                                           *)
Mixture(E, partial, x) ==
    /\ Part(E[x.event].packet, partial)
    /\ x.frame <= Len(partial.buffers)
    /\ \E j \in 1 .. Len(partial.buffers) : Foreign(E, partial.buffers[j], x.event)

(* Packet x.event of E is in end e up to frame x.frame, and the next of its *)
(* frames is to come, among the places P.                                   *)
Half(E, e, isOpen, P, x) ==
    /\ IsPlace(E, x) /\ Sender(E, x) \in Threads
    /\ x.frame < Len(FramesOf(E, x))
    /\ \/ e.partial = PartialOf(E[x.event].packet, x.frame)
       \/ Mixture(E, e.partial, x)
    /\ isOpen => After(x) \in P
    /\ \A y \in P : Sender(E, y) = Sender(E, x) => Before(x, y)
    /\ \A i \in 1 .. Len(e.decoded) :
          E[e.decoded[i].about].by = Sender(E, x) => e.decoded[i].about < x.event

(* A packet that stands for its event: it is the event as emitted, or has   *)
(* the attachment of another sender.                                        *)
Stands(E, packet) ==
    /\ packet.about \in 1 .. Len(E)
    /\ packet.id = E[packet.about].packet.id
    /\ \/ packet = E[packet.about].packet
       \/ \E leaf \in Range(packet.msg) : Foreign(E, leaf, packet.about)

(* What end e has decoded stands for events of E, those of one sender in    *)
(* order; of the frames that are at places P, those of its sender come      *)
(* after its text.                                                          *)
Whole(E, d, P) ==
    /\ \A i \in 1 .. Len(d) :
          /\ Stands(E, d[i])
          /\ \A x \in P : Sender(E, x) = E[d[i].about].by =>
                Before(FirstPlace(d[i].about), x)
    /\ \A i, j \in 1 .. Len(d) :
          i < j /\ E[d[i].about].by = E[d[j].about].by => d[i].about < d[j].about

(* What the server has decoded is whole, and what it has in part goes on.   *)
ServedBy(E, e, isOpen, P) ==
    /\ Whole(E, e.decoded, P)
    /\ e.partial = NoPacket \/ \E x \in Places : Half(E, e, isOpen, P, x)

(* A blob stays foreign when more is emitted.                               *)
LEMMA LongerForeign ==
    ASSUME NEW E, NEW F, Longer(E, F), NEW n \in 1 .. Len(E), NEW leaf, Foreign(E, leaf, n)
    PROVE  Foreign(F, leaf, n)
  BY DEF Longer, Foreign

(* What stands for an event does so when more is emitted,                   *)
LEMMA LongerStands ==
    ASSUME NEW E, NEW F, Longer(E, F), NEW packet, Stands(E, packet)
    PROVE  /\ Stands(F, packet) /\ packet.about \in 1 .. Len(E)
           /\ F[packet.about] = E[packet.about]
<1>1. \A n \in 1 .. Len(E) : n \in 1 .. Len(F) /\ F[n] = E[n]
  BY DEF Longer
<1>2. \A n \in 1 .. Len(E) : \A leaf : Foreign(E, leaf, n) => Foreign(F, leaf, n)
  BY LongerForeign
<1> QED
  BY <1>1, <1>2 DEF Stands

(* a partial packet goes on,                                                *)
LEMMA HalfLonger ==
    ASSUME NEW E, NEW F, Longer(E, F), NEW e, NEW isOpen, NEW P,
           \A x \in P : IsPlace(E, x), Whole(E, e.decoded, P),
           NEW x \in Places, Half(E, e, isOpen, P, x)
    PROVE  Half(F, e, isOpen, P, x)
<1>1. /\ IsPlace(F, x) /\ Sender(F, x) = Sender(E, x)
      /\ FramesOf(F, x) = FramesOf(E, x) /\ F[x.event] = E[x.event]
      /\ x.event \in 1 .. Len(E)
  BY LongerPlaces DEF Half, IsPlace
<1>2. Mixture(E, e.partial, x) => Mixture(F, e.partial, x)
  BY <1>1, LongerForeign DEF Mixture
<1>3. \A y \in P : Sender(F, y) = Sender(E, y)
  BY LongerPlaces
<1>4. \A i \in 1 .. Len(e.decoded) : F[e.decoded[i].about] = E[e.decoded[i].about]
  BY LongerStands DEF Whole
<1> QED
  BY <1>1, <1>2, <1>3, <1>4 DEF Half

(* and nothing of this changes.                                             *)
LEMMA LongerServed ==
    ASSUME NEW E, NEW F, Longer(E, F), NEW e, NEW isOpen, NEW P,
           \A x \in P : IsPlace(E, x), ServedBy(E, e, isOpen, P)
    PROVE  ServedBy(F, e, isOpen, P)
<1>1. \A x \in P : Sender(F, x) = Sender(E, x)
  BY LongerPlaces
<1>2. \A i \in 1 .. Len(e.decoded) :
        /\ Stands(F, e.decoded[i])
        /\ F[e.decoded[i].about] = E[e.decoded[i].about]
  BY LongerStands DEF ServedBy, Whole
<1>3. Whole(E, e.decoded, P)
  BY DEF ServedBy
<1>4. Whole(F, e.decoded, P)
  BY <1>1, <1>2, <1>3 DEF Whole
<1>5. \A x \in Places : Half(E, e, isOpen, P, x) => Half(F, e, isOpen, P, x)
  BY <1>3, HalfLonger
<1> QED
  BY <1>4, <1>5 DEF ServedBy

(* Packets decoded are about numbers.                                       *)
LEMMA DecodedAbout ==
    ASSUME NEW d \in Seq(Decodable(Leaves))
    PROVE  Len(d) \in Nat /\ \A i \in 1 .. Len(d) : d[i].about \in Int
<1>1. \A i \in 1 .. Len(d) : d[i] \in Decodable(Leaves)
  BY ElementOfSeq
<1> QED
  BY <1>1, LenProperties DEF Decodable

(* Places that are added come after others of their sender.                 *)
LEMMA LaterServed ==
    ASSUME NEW E, NEW e, NEW isOpen, NEW P, NEW R, ServedBy(E, e, isOpen, P),
           P \subseteq R, \A x \in P : x \in Places,
           \A y \in R : \/ y \in P
                        \/ \E z \in P : Sender(E, z) = Sender(E, y) /\ After(z) = y,
           e.decoded \in Seq(Decodable(Leaves))
    PROVE  ServedBy(E, e, isOpen, R)
<1>1. \A i \in 1 .. Len(e.decoded) : e.decoded[i].about \in Int
  BY DecodedAbout
<1>2. \A z \in Places : After(z).event = z.event /\ After(z) \in Places
  BY DEF After, Places
<1>3. \A n \in Int, z \in Places : Before(FirstPlace(n), z) => Before(FirstPlace(n), After(z))
  BY DEF Before, FirstPlace, After, Places
<1>4. Whole(E, e.decoded, R)
  <2>1. ASSUME NEW i \in 1 .. Len(e.decoded), NEW y \in R,
               Sender(E, y) = E[e.decoded[i].about].by
        PROVE  Before(FirstPlace(e.decoded[i].about), y)
    <3>1. CASE y \in P
      BY <2>1, <3>1 DEF ServedBy, Whole
    <3>2. CASE \E z \in P : Sender(E, z) = Sender(E, y) /\ After(z) = y
      BY <1>1, <1>3, <2>1, <3>2 DEF ServedBy, Whole
    <3> QED
      BY <3>1, <3>2
  <2> QED
    BY <2>1 DEF ServedBy, Whole
<1>5. ASSUME NEW x \in Places, Half(E, e, isOpen, P, x) PROVE Half(E, e, isOpen, R, x)
  <2>1. ASSUME NEW y \in R, Sender(E, y) = Sender(E, x) PROVE Before(x, y)
    <3>1. CASE y \in P
      BY <1>5, <2>1, <3>1 DEF Half
    <3>2. CASE \E z \in P : Sender(E, z) = Sender(E, y) /\ After(z) = y
      <4>1. PICK z \in P : Sender(E, z) = Sender(E, y) /\ After(z) = y
        BY <3>2
      <4>2. Before(x, z) /\ z \in Places
        BY <1>5, <2>1, <4>1 DEF Half
      <4> QED
        BY <1>2, <4>1, <4>2, BeforeTransitive
    <3> QED
      BY <3>1, <3>2
  <2> QED
    BY <1>5, <2>1 DEF Half
<1> QED
  BY <1>4, <1>5 DEF ServedBy

(* Fewer places may be pending.                                             *)
LEMMA FewerWhole ==
    ASSUME NEW E, NEW d, NEW P, NEW R \in SUBSET P, Whole(E, d, P)
    PROVE  Whole(E, d, R)
  BY DEF Whole

(* One more is decoded.                                                     *)
LEMMA OneMoreWhole ==
    ASSUME NEW E, NEW d \in Seq(Decodable(Leaves)), NEW P, NEW R \in SUBSET P,
           Whole(E, d, P),
           NEW n, NEW packet, Stands(E, packet), packet.about = n,
           NEW g, Len(g) = Len(d) + 1, \A i \in 1 .. Len(d) : g[i] = d[i],
             g[Len(d) + 1] = packet,
           \A i \in 1 .. Len(d) : E[d[i].about].by = E[n].by => d[i].about < n,
           \A x \in R : Sender(E, x) = E[n].by => Before(FirstPlace(n), x)
    PROVE  Whole(E, g, R)
<1>1. Len(d) \in Nat /\ \A i \in 1 .. Len(g) : i \in 1 .. Len(d) \/ i = Len(d) + 1
  BY DecodedAbout
<1>2. \A i \in 1 .. Len(d) : g[i].about = d[i].about
  OBVIOUS
<1>3. g[Len(d) + 1].about = n
  OBVIOUS
<1>4. ASSUME NEW i \in 1 .. Len(g)
      PROVE  /\ Stands(E, g[i])
             /\ \A x \in R : Sender(E, x) = E[g[i].about].by =>
                   Before(FirstPlace(g[i].about), x)
  <2>1. CASE i \in 1 .. Len(d)
    BY <2>1 DEF Whole
  <2>2. CASE i = Len(d) + 1
    BY <1>3, <2>2
  <2> QED
    BY <1>1, <2>1, <2>2
<1>5. ASSUME NEW i \in 1 .. Len(g), NEW j \in 1 .. Len(g), i < j,
             E[g[i].about].by = E[g[j].about].by
      PROVE  g[i].about < g[j].about
  <2>1. i \in 1 .. Len(d)
    BY <1>1, <1>5
  <2>2. CASE j \in 1 .. Len(d)
    BY <1>2, <1>5, <2>1, <2>2 DEF Whole
  <2>3. CASE j = Len(d) + 1
    BY <1>2, <1>3, <1>5, <2>1, <2>3
  <2> QED
    BY <1>1, <2>2, <2>3
<1> QED
  BY <1>4, <1>5 DEF Whole

(* A partial packet that was mixed, or whose next attachment is foreign, is *)
(* mixed with it, and stands for its event when it is decoded.              *)
LEMMA MixedBlob ==
    ASSUME NEW E, Events(E), NEW e \in Ends(Leaves), NEW x, IsPlace(E, x),
           x.frame < Len(FramesOf(E, x)),
           \/ e.partial = PartialOf(E[x.event].packet, x.frame)
           \/ Mixture(E, e.partial, x),
           NEW blob \in Leaves,
           Foreign(E, blob, x.event) \/ Mixture(E, e.partial, x)
    PROVE  LET f == PutPayload(e, BinaryFrame(blob))
           IN  \/ /\ Mixture(E, f.partial, x)
                  /\ Mixture(E, e.partial, x) =>
                        /\ x.frame + 1 < Len(FramesOf(E, x))
                        /\ x.frame + 1 <= Len(f.partial.buffers)
                  /\ f.decoded = e.decoded
               \/ \E packet :
                     /\ Stands(E, packet) /\ packet.about = x.event
                     /\ f.partial = NoPacket
                     /\ f.decoded = Append(e.decoded, packet)
<1> DEFINE n == x.event
           packet == E[n].packet
           B == Len(Buffers(packet.msg))
           old == e.partial.buffers
           next == More(e.partial, blob)
           f == PutPayload(e, BinaryFrame(blob))
<1>1. /\ x \in Places /\ n \in 1 .. Len(E) /\ x.frame \in 1 .. Len(FramesOf(E, x))
      /\ x.frame \in Nat
  BY DEF IsPlace, Places
<1>2. /\ B \in Nat /\ Len(FramesOf(E, x)) = B + 1
      /\ packet \in Packets /\ packet.about = n
  BY <1>1, EventFrames
<1>3. packet \in Sendable(Leaves)
  <2>1. E[n] \in [by : Someone, packet : Sendable(Leaves)]
    BY <1>1, ElementOfSeq DEF Events
  <2> QED
    BY <2>1
<1>4. x.frame \in 1 .. B
  BY <1>1, <1>2
<1>5. Part(packet, e.partial) /\ x.frame - 1 <= Len(old)
  <2>1. CASE e.partial = PartialOf(packet, x.frame)
    BY <1>1, <1>3, <1>4, <2>1, PartialIsPart
  <2>2. CASE Mixture(E, e.partial, x)
    <3>1. Part(packet, e.partial) /\ x.frame <= Len(old)
      BY <2>2 DEF Mixture
    <3>2. Len(old) \in Nat
      BY <3>1, LenProperties DEF Part
    <3> QED
      BY <1>1, <3>1, <3>2
  <2> QED
    BY <2>1, <2>2
<1>6. IsEnd(e)
  BY DEF Ends, IsEnd
<1>7. /\ Len(old) \in Nat
      /\ Len(next) = Len(old) + 1
      /\ next \in Seq(Leaves)
      /\ next[Len(next)] = blob
      /\ \A j \in 1 .. Len(old) : j \in 1 .. Len(next) /\ next[j] = old[j]
      /\ Len(next) \in 1 .. Len(next)
      /\ f = IF Len(next) < B
             THEN [partial |-> [frame |-> FrameLeft(packet, Len(next)), buffers |-> next],
                   decoded |-> e.decoded]
             ELSE [partial |-> NoPacket,
                   decoded |-> Append(e.decoded,
                      [id |-> packet.id, about |-> packet.about,
                       msg |-> FromJson(Json(packet.msg), next)])]
  <2>1. packet \in Packets /\ Part(packet, e.partial)
    BY <1>2, <1>5
  <2> HIDE DEF packet
  <2> QED
    BY <1>6, <2>1, PutBlob
<1>8. \E j \in 1 .. Len(next) : Foreign(E, next[j], n)
  <2>1. CASE Foreign(E, blob, n)
    BY <1>7, <2>1
  <2>2. CASE Mixture(E, e.partial, x)
    <3>1. PICK j \in 1 .. Len(old) : Foreign(E, old[j], n)
      BY <2>2 DEF Mixture
    <3> HIDE DEF next, old
    <3> QED
      BY <1>7, <3>1
  <2> QED
    BY <2>1, <2>2
<1>9. Mixture(E, e.partial, x) => x.frame <= Len(old)
  BY DEF Mixture
<1>10. Len(old) < B
  BY <1>5 DEF Part
<1>11. packet.msg \in Seq(Nat) /\ packet.id = E[n].packet.id
  BY <1>2 DEF Packets
<1> HIDE DEF f, next, old
<1>12. CASE Len(next) < B
  <2> DEFINE p == [frame |-> FrameLeft(packet, Len(next)), buffers |-> next]
  <2>1. f.partial = p /\ f.decoded = e.decoded
    BY <1>7, <1>12
  <2>2. p.buffers = next /\ p = [frame |-> FrameLeft(packet, Len(p.buffers)),
                                buffers |-> p.buffers]
    OBVIOUS
  <2> HIDE DEF p
  <2>3. Part(packet, p)
    <3> HIDE DEF packet
    <3> QED
      BY <1>7, <1>12, <2>2 DEF Part
  <2>4. x.frame <= Len(next)
    BY <1>1, <1>5, <1>7
  <2>5. Mixture(E, p, x)
    BY <1>8, <2>2, <2>3, <2>4 DEF Mixture
  <2>6. Mixture(E, e.partial, x) => x.frame + 1 <= Len(next) /\ x.frame + 1 < B + 1
    BY <1>1, <1>2, <1>7, <1>9, <1>12
  <2> QED
    BY <1>2, <2>1, <2>2, <2>5, <2>6 DEF f
<1>13. CASE ~(Len(next) < B)
  <2> DEFINE new == FromJson(Json(packet.msg), next)
             q == [id |-> packet.id, about |-> packet.about, msg |-> new]
  <2>1. f.partial = NoPacket /\ f.decoded = Append(e.decoded, q)
    BY <1>7, <1>13
  <2>2. Len(next) = B
    BY <1>2, <1>7, <1>10, <1>13
  <2>3. PICK j \in 1 .. Len(next) : Foreign(E, next[j], n)
    BY <1>8
  <2>4. next[j] \in Range(new)
    BY <1>11, <2>2, AllPlaced
  <2>5. q.about = n /\ q.id = E[n].packet.id /\ q.msg = new
    BY <1>2, <1>11
  <2> HIDE DEF new, q
  <2>6. Stands(E, q)
    BY <1>1, <2>3, <2>4, <2>5 DEF Stands
  <2> QED
    BY <2>1, <2>5, <2>6 DEF f
<1> QED
  BY <1>12, <1>13

(* One more is decoded, of the event of place x, of whose sender only       *)
(* places after x are pending.                                              *)
LEMMA DecodesOne ==
    ASSUME NEW E, NEW d \in Seq(Decodable(Leaves)), NEW P, NEW R \in SUBSET P, Whole(E, d, P),
           NEW x, IsPlace(E, x), \A z \in R : z \in Places,
           NEW packet, Stands(E, packet), packet.about = x.event,
           \A i \in 1 .. Len(d) : E[d[i].about].by = Sender(E, x) => d[i].about < x.event,
           \A z \in R : Sender(E, z) = Sender(E, x) => Before(x, z)
    PROVE  LET g == Append(d, packet)
           IN  /\ Whole(E, g, R)
               /\ \A i \in 1 .. Len(g) : (i \in 1 .. Len(d) /\ g[i] = d[i]) \/ g[i] = packet
<1> DEFINE g == Append(d, packet)
           n == x.event
<1>1. Len(d) \in Nat /\ Len(g) = Len(d) + 1 /\ g[Len(d) + 1] = packet
      /\ \A i \in 1 .. Len(d) : g[i] = d[i]
  BY LenProperties
<1>2. \A i \in 1 .. Len(g) : i \in 1 .. Len(d) \/ i = Len(d) + 1
  BY <1>1
<1>3. x \in Places /\ x.frame >= 1 /\ x.frame \in Nat /\ n \in Nat
  <2>1. x \in Places /\ x.frame \in 1 .. Len(FramesOf(E, x))
    BY DEF IsPlace
  <2> QED
    BY <2>1 DEF Places
<1>4. \A z \in Places : Before(x, z) => Before(FirstPlace(n), z)
  BY <1>3 DEF Before, FirstPlace, Places
<1>5. \A z \in R : Sender(E, z) = E[n].by => Before(FirstPlace(n), z)
  BY <1>4 DEF Sender
<1>6. \A i \in 1 .. Len(d) : E[d[i].about].by = E[n].by => d[i].about < n
  BY DEF Sender
<1> HIDE DEF g, n
<1>7. packet.about = n
  BY DEF n
<1>8. Whole(E, g, R)
  BY <1>1, <1>5, <1>6, <1>7, OneMoreWhole
<1> QED
  BY <1>1, <1>2, <1>8 DEF g

(* A frame of the first of the pending places is written.                   *)
SendsFirst(E, P, R, y) ==
    /\ R \subseteq P /\ y \in P
    /\ \A x \in P : IsPlace(E, x) /\ Sender(E, x) \in Threads
    /\ \A x \in P : x \in R \/ x = y
    /\ \A x \in R : Sender(E, x) = Sender(E, y) => Before(y, x)
    /\ y.frame < Len(FramesOf(E, y)) => After(y) \in R

(* The attachment of another sender than that of the partial packet is put  *)
(* into it.                                                                 *)
LEMMA ServedForeign ==
    ASSUME NEW E, Events(E), NEW e \in Ends(Leaves), NEW P, NEW R, NEW y,
           SendsFirst(E, P, R, y), ServedBy(E, e, TRUE, P), y.frame # 1,
           NEW x \in Places, Half(E, e, TRUE, P, x), Sender(E, x) # Sender(E, y)
    PROVE  ServedBy(E, PutPayload(e, FramesOf(E, y)[y.frame]), TRUE, R)
<1> DEFINE n == x.event
           d == e.decoded
<1>1. IsPlace(E, y) /\ R \in SUBSET P /\ \A z \in R : z \in Places /\ z \in P
  BY DEF SendsFirst, IsPlace
<1>2. /\ IsPlace(E, x) /\ Sender(E, x) \in Threads /\ x.frame < Len(FramesOf(E, x))
      /\ After(x) \in P
      /\ \A z \in P : Sender(E, z) = Sender(E, x) => Before(x, z)
      /\ \A i \in 1 .. Len(d) : E[d[i].about].by = Sender(E, x) => d[i].about < n
      /\ \/ e.partial = PartialOf(E[n].packet, x.frame)
         \/ Mixture(E, e.partial, x)
  BY DEF Half
<1>3. PICK blob \in Range(E[y.event].packet.msg) :
          /\ IsBlob(blob) /\ blob \in Leaves
          /\ FramesOf(E, y)[y.frame] = BinaryFrame(blob)
  BY <1>1, BlobFrame
<1>4. Foreign(E, blob, n)
  <2>1. y.event \in 1 .. Len(E) /\ E[y.event].by # E[n].by
    BY <1>1 DEF IsPlace, Sender
  <2> QED
    BY <1>3, <2>1 DEF Foreign
<1>5. d \in Seq(Decodable(Leaves)) /\ Whole(E, d, P)
  BY DEF Ends, ServedBy
<1>6. Whole(E, d, R)
  BY <1>1, <1>5, FewerWhole
<1>7. After(x) \in R
  <2>1. Sender(E, After(x)) = Sender(E, x)
    BY DEF After, Sender
  <2> QED
    BY <1>2, <2>1 DEF SendsFirst
<1> DEFINE f == PutPayload(e, BinaryFrame(blob))
<1>8. \/ Mixture(E, f.partial, x) /\ f.decoded = d
      \/ \E packet : /\ Stands(E, packet) /\ packet.about = n
                     /\ f.partial = NoPacket /\ f.decoded = Append(d, packet)
  BY <1>2, <1>3, <1>4, MixedBlob
<1> HIDE DEF f, d, n
<1>9. CASE Mixture(E, f.partial, x) /\ f.decoded = d
  <2>1. Half(E, f, TRUE, R, x)
    BY <1>1, <1>2, <1>7, <1>9 DEF Half, n
  <2> QED
    BY <1>3, <1>6, <1>9, <2>1 DEF ServedBy, f
<1>10. CASE \E packet : /\ Stands(E, packet) /\ packet.about = n
                        /\ f.partial = NoPacket /\ f.decoded = Append(d, packet)
  <2>1. PICK packet : /\ Stands(E, packet) /\ packet.about = n
                      /\ f.partial = NoPacket /\ f.decoded = Append(d, packet)
    BY <1>10
  <2>2. /\ packet.about = x.event
        /\ \A i \in 1 .. Len(d) : E[d[i].about].by = Sender(E, x) => d[i].about < x.event
        /\ \A z \in R : Sender(E, z) = Sender(E, x) => Before(x, z)
    BY <1>1, <1>2, <2>1 DEF n
  <2>3. Whole(E, Append(d, packet), R)
    BY <1>1, <1>2, <1>5, <2>1, <2>2, DecodesOne
  <2> QED
    BY <1>3, <2>1, <2>3 DEF ServedBy, f
<1> QED
  BY <1>8, <1>9, <1>10

(* The next attachment of a packet that is mixed already.                   *)
LEMMA ServedMixed ==
    ASSUME NEW E, Events(E), NEW e \in Ends(Leaves), NEW P, NEW R, NEW y,
           SendsFirst(E, P, R, y), ServedBy(E, e, TRUE, P), y.frame # 1,
           NEW x \in Places, Half(E, e, TRUE, P, x), y = After(x),
           Mixture(E, e.partial, x)
    PROVE  ServedBy(E, PutPayload(e, FramesOf(E, y)[y.frame]), TRUE, R)
<1> DEFINE n == x.event
           d == e.decoded
<1>1. /\ IsPlace(E, y) /\ Sender(E, y) \in Threads
      /\ R \in SUBSET P /\ \A z \in R : z \in Places /\ z \in P
      /\ \A z \in R : Sender(E, z) = Sender(E, y) => Before(y, z)
      /\ y.frame < Len(FramesOf(E, y)) => After(y) \in R
  BY DEF SendsFirst, IsPlace
<1>2. /\ IsPlace(E, x) /\ x.frame < Len(FramesOf(E, x))
      /\ \A i \in 1 .. Len(d) : E[d[i].about].by = Sender(E, x) => d[i].about < n
  BY DEF Half
<1>3. /\ y.event = n /\ y.frame = x.frame + 1
      /\ Sender(E, y) = Sender(E, x) /\ FramesOf(E, y) = FramesOf(E, x)
  BY DEF After, Sender, FramesOf
<1>4. PICK blob \in Leaves : FramesOf(E, y)[y.frame] = BinaryFrame(blob)
  BY <1>1, BlobFrame
<1>5. d \in Seq(Decodable(Leaves)) /\ Whole(E, d, P)
  BY DEF Ends, ServedBy
<1>6. Whole(E, d, R)
  BY <1>1, <1>5, FewerWhole
<1>7. y \in Places /\ \A i \in 1 .. Len(d) : E[d[i].about].by = Sender(E, y) => d[i].about < y.event
  BY <1>1, <1>2, <1>3 DEF IsPlace
<1> DEFINE f == PutPayload(e, BinaryFrame(blob))
<1>8. \/ /\ Mixture(E, f.partial, x) /\ f.decoded = d
         /\ x.frame + 1 < Len(FramesOf(E, x))
         /\ x.frame + 1 <= Len(f.partial.buffers)
      \/ \E packet : /\ Stands(E, packet) /\ packet.about = n
                     /\ f.partial = NoPacket /\ f.decoded = Append(d, packet)
  BY <1>2, MixedBlob
<1> HIDE DEF f, d, n
<1>9. CASE /\ Mixture(E, f.partial, x) /\ f.decoded = d
           /\ x.frame + 1 < Len(FramesOf(E, x))
           /\ x.frame + 1 <= Len(f.partial.buffers)
  <2>1. y.frame < Len(FramesOf(E, y)) /\ y.frame <= Len(f.partial.buffers)
    BY <1>3, <1>9
  <2>2. Mixture(E, f.partial, y)
    BY <1>3, <1>9, <2>1 DEF Mixture, n
  <2>3. Half(E, f, TRUE, R, y)
    BY <1>1, <1>7, <1>9, <2>1, <2>2 DEF Half
  <2> QED
    BY <1>4, <1>6, <1>7, <1>9, <2>3 DEF ServedBy, f
<1>10. CASE \E packet : /\ Stands(E, packet) /\ packet.about = n
                        /\ f.partial = NoPacket /\ f.decoded = Append(d, packet)
  <2>1. PICK packet : /\ Stands(E, packet) /\ packet.about = n
                      /\ f.partial = NoPacket /\ f.decoded = Append(d, packet)
    BY <1>10
  <2>2. packet.about = y.event
    BY <1>3, <2>1
  <2>3. Whole(E, Append(d, packet), R)
    BY <1>1, <1>5, <1>7, <2>1, <2>2, DecodesOne
  <2> QED
    BY <1>4, <2>1, <2>3 DEF ServedBy, f
<1> QED
  BY <1>8, <1>9, <1>10

(* send_impl with a connection: the first frame posted is the text of a     *)
(* packet, which no partial packet of its sender is in the way of, or the   *)
(* next binary frame of the partial packet; or it is an attachment of       *)
(* another packet than the partial one, which is mixed with it; or there is *)
(* no partial packet, and a binary frame, whose text went to an earlier     *)
(* connection, is dropped.                                                  *)
LEMMA ServedSend ==
    ASSUME NEW E, Events(E), NEW e \in Ends(Leaves), NEW P, NEW R, NEW y,
           SendsFirst(E, P, R, y), ServedBy(E, e, TRUE, P)
    PROVE  ServedBy(E, PutPayload(e, FramesOf(E, y)[y.frame]), TRUE, R)
<1> DEFINE n == y.event
           packet == E[n].packet
           B == Len(Buffers(packet.msg))
           d == e.decoded
           f == PutPayload(e, FramesOf(E, y)[y.frame])
<1>1. /\ IsPlace(E, y) /\ y \in Places /\ Sender(E, y) \in Threads
      /\ n \in 1 .. Len(E) /\ n \in Nat /\ y.frame \in Nat
      /\ y.frame \in 1 .. Len(FramesOf(E, y))
      /\ R \in SUBSET P /\ \A z \in R : z \in Places
      /\ \A z \in R : Sender(E, z) = Sender(E, y) => Before(y, z)
      /\ y.frame < Len(FramesOf(E, y)) => After(y) \in R
  BY DEF SendsFirst, IsPlace, Places
<1>2. /\ B \in Nat /\ Len(FramesOf(E, y)) = B + 1
      /\ packet \in Packets /\ packet.about = n
      /\ FramesOf(E, y) = Encode(packet)
      /\ E[n].by = Sender(E, y)
  <2>1. /\ B \in Nat /\ Len(FramesOf(E, y)) = B + 1
        /\ packet \in Packets /\ packet.about = n
    BY <1>1, EventFrames
  <2> QED
    BY <2>1 DEF FramesOf, Sender
<1>3. IsEnd(e) /\ d \in Seq(Decodable(Leaves)) /\ e.partial \in Partials(Leaves)
      /\ e = [partial |-> e.partial, decoded |-> d]
  BY LenProperties DEF Ends, IsEnd
<1>4. Whole(E, d, P) /\ Whole(E, d, R) /\ y \in P
  BY <1>1, FewerWhole DEF ServedBy, SendsFirst
<1>5. Stands(E, packet)
  BY <1>1, <1>2 DEF Stands
<1>6. y.frame = 1 => \A i \in 1 .. Len(d) : E[d[i].about].by = Sender(E, y) => d[i].about < n
  <2>1. \A i \in 1 .. Len(d) : E[d[i].about].by = Sender(E, y) => Before(FirstPlace(d[i].about), y)
    BY <1>4 DEF Whole
  <2> QED
    BY <2>1 DEF Before, FirstPlace
<1>7. ASSUME \A i \in 1 .. Len(d) : E[d[i].about].by = Sender(E, y) => d[i].about < n
      PROVE  LET g == Append(d, packet)
             IN  /\ Whole(E, g, R)
                 /\ \A i \in 1 .. Len(g) : (i \in 1 .. Len(d) /\ g[i] = d[i]) \/ g[i] = packet
  <2>1. packet.about = y.event
    BY <1>2
  <2> HIDE DEF d, packet
  <2> QED
    BY <1>1, <1>3, <1>4, <1>5, <1>7, <2>1, DecodesOne
<1>8. \A x \in Places : Half(E, e, TRUE, P, x) /\ Sender(E, x) = Sender(E, y) =>
        y = After(x)
  <2>1. ASSUME NEW x \in Places, Half(E, e, TRUE, P, x), Sender(E, x) = Sender(E, y)
        PROVE  y = After(x)
    <3>1. After(x) \in P /\ Before(x, y)
      BY <1>4, <2>1 DEF Half
    <3>2. /\ \A z \in P : z \in R \/ z = y
          /\ \A z \in R : Sender(E, z) = Sender(E, y) => Before(y, z)
      BY DEF SendsFirst
    <3>3. y \in Places /\ After(x) \in P /\ Sender(E, x) = Sender(E, y) /\ Before(x, y)
      BY <1>1, <2>1, <3>1
    <3>4. Sender(E, After(x)) = Sender(E, x)
      BY DEF Sender, After
    <3> QED
      BY <3>2, <3>3, <3>4 DEF Before, After, Places
  <2> QED
    BY <2>1
<1>9. \A x \in Places : After(x).event = x.event /\ After(x).frame = x.frame + 1
                        /\ Sender(E, After(x)) = Sender(E, x)
  BY DEF After, Sender
<1>10. ASSUME y.frame < Len(FramesOf(E, y)),
              f = [partial |-> PartialOf(packet, y.frame), decoded |-> d],
              \A i \in 1 .. Len(d) : E[d[i].about].by = Sender(E, y) => d[i].about < n
       PROVE  ServedBy(E, f, TRUE, R)
  <2>1. f.partial = PartialOf(packet, y.frame) /\ f.decoded = d
    BY <1>10
  <2> HIDE DEF f
  <2>2. Half(E, f, TRUE, R, y)
    BY <1>1, <1>10, <2>1 DEF Half
  <2> QED
    BY <1>1, <1>4, <2>1, <2>2 DEF ServedBy
<1>11. CASE y.frame = 1 /\ B = 0
  <2>1. f = [partial |-> e.partial, decoded |-> Append(d, packet)]
    BY <1>2, <1>3, <1>11, PutTextFrame
  <2>2. f.partial = e.partial /\ f.decoded = Append(d, packet)
    BY <2>1
  <2> HIDE DEF f
  <2>3. /\ Whole(E, f.decoded, R)
        /\ \A i \in 1 .. Len(f.decoded) :
              (i \in 1 .. Len(d) /\ f.decoded[i] = d[i]) \/ f.decoded[i] = packet
    <3> HIDE DEF d, packet
    <3> QED
      BY <1>6, <1>7, <1>11, <2>2
  <2>4. ASSUME NEW x \in Places, Half(E, e, TRUE, P, x) PROVE Half(E, f, TRUE, R, x)
    <3>1. Sender(E, x) # Sender(E, y)
      <4>1. x.frame \in 1 .. Len(FramesOf(E, x))
        BY <2>4 DEF Half, IsPlace
      <4>2. x.frame \in Nat /\ x.frame # 0
        BY <4>1 DEF Places
      <4>3. After(x).frame # y.frame
        BY <1>9, <1>11, <4>2
      <4>4. y # After(x)
        BY <4>3
      <4> QED
        BY <1>8, <2>4, <4>4
    <3>2. After(x) \in R
      BY <1>9, <2>4, <3>1 DEF Half, SendsFirst
    <3>3. ASSUME NEW i \in 1 .. Len(f.decoded), E[f.decoded[i].about].by = Sender(E, x)
          PROVE  f.decoded[i].about < x.event
      BY <1>2, <2>3, <2>4, <3>1, <3>3 DEF Half
    <3> QED
      BY <1>1, <2>2, <2>4, <3>2, <3>3 DEF Half
  <2> QED
    BY <2>2, <2>3, <2>4 DEF ServedBy, f
<1>12. CASE y.frame = 1 /\ B # 0
  <2>1. f = [partial |-> PartialOf(packet, y.frame), decoded |-> d]
    BY <1>2, <1>3, <1>12, PutTextFrame
  <2>2. y.frame < Len(FramesOf(E, y))
    BY <1>2, <1>12
  <2> HIDE DEF packet, d, n
  <2> QED
    BY <1>6, <1>10, <1>12, <2>1, <2>2
<1>13. CASE y.frame # 1 /\ e.partial = NoPacket
  <2>1. f = e
    <3>1. y.frame - 1 \in 1 .. B /\ (y.frame - 1) + 1 = y.frame
      BY <1>1, <1>2, <1>13
    <3>2. Encode(packet)[y.frame] = BinaryFrame(Buffers(packet.msg)[y.frame - 1])
      BY <1>2, <3>1, EncodeFrames DEF Packets
    <3> QED
      BY <1>2, <1>13, <3>2 DEF PutPayload, PutBinary, BinaryFrame
  <2> HIDE DEF f
  <2> QED
    BY <1>4, <1>13, <2>1 DEF ServedBy, f
<1>14. CASE y.frame # 1 /\ e.partial # NoPacket
  <2>1. PICK x \in Places : Half(E, e, TRUE, P, x)
    BY <1>14 DEF ServedBy
  <2>2. CASE Sender(E, x) # Sender(E, y)
    BY <1>14, <2>1, <2>2, ServedForeign
  <2>3. CASE Sender(E, x) = Sender(E, y) /\ Mixture(E, e.partial, x)
    BY <1>8, <1>14, <2>1, <2>3, ServedMixed
  <2>4. CASE Sender(E, x) = Sender(E, y) /\ e.partial = PartialOf(E[x.event].packet, x.frame)
    <3>1. y = After(x)
      BY <1>8, <2>1, <2>4
    <3>2. x.event = n /\ y.frame = x.frame + 1 /\ x.frame \in Nat
      BY <1>9, <2>1, <3>1 DEF Places
    <3>3. x.frame \in 1 .. B /\ e.partial = PartialOf(packet, x.frame)
      <4>1. x.frame \in 1 .. Len(FramesOf(E, x))
        BY <2>1 DEF Half, IsPlace
      <4> QED
        BY <1>1, <1>2, <2>4, <3>2, <4>1
    <3>4. f = IF x.frame < B
              THEN [partial |-> PartialOf(packet, y.frame), decoded |-> d]
              ELSE [partial |-> NoPacket, decoded |-> Append(d, packet)]
      BY <1>2, <1>3, <3>2, <3>3, PutBinaryFrame
    <3>5. \A i \in 1 .. Len(d) : E[d[i].about].by = Sender(E, y) => d[i].about < n
      BY <2>1, <2>4, <3>2 DEF Half
    <3>6. CASE x.frame < B
      <4>1. y.frame < Len(FramesOf(E, y))
            /\ f = [partial |-> PartialOf(packet, y.frame), decoded |-> d]
        BY <1>2, <3>2, <3>4, <3>6
      <4> HIDE DEF d, packet, n
      <4> QED
        BY <1>10, <3>5, <4>1
    <3>7. CASE ~(x.frame < B)
      <4>1. f.partial = NoPacket /\ f.decoded = Append(d, packet)
        BY <3>4, <3>7
      <4>2. Whole(E, Append(d, packet), R)
        <5> HIDE DEF d, packet, n
        <5> QED
          BY <1>7, <3>5
      <4> HIDE DEF f
      <4> QED
        BY <4>1, <4>2 DEF ServedBy, f
    <3> QED
      BY <3>6, <3>7
  <2>5. e.partial = PartialOf(E[x.event].packet, x.frame) \/ Mixture(E, e.partial, x)
    BY <2>1 DEF Half
  <2> QED
    BY <2>2, <2>3, <2>4, <2>5
<1> QED
  BY <1>2, <1>11, <1>12, <1>13, <1>14

(* A frame is lost without a connection, and a connection breaks.           *)
LEMMA ServedLess ==
    ASSUME NEW E, NEW e, NEW P, NEW R \in SUBSET P, NEW isOpen, ServedBy(E, e, isOpen, P)
    PROVE  ServedBy(E, e, FALSE, R)
<1>1. Whole(E, e.decoded, R)
  BY FewerWhole DEF ServedBy
<1>2. \A x \in Places : Half(E, e, isOpen, P, x) => Half(E, e, FALSE, R, x)
  BY DEF Half
<1> QED
  BY <1>1, <1>2 DEF ServedBy

(* A new connection: nothing is decoded.                                    *)
LEMMA ServedNew == ASSUME NEW E, NEW isOpen, NEW P PROVE ServedBy(E, NewEnd, isOpen, P)
<1>1. NewEnd.decoded = << >> /\ NewEnd.partial = NoPacket /\ Len(<< >>) = 0
  BY EmptySeq DEF NewEnd
<1> HIDE DEF NewEnd, NoPacket
<1> QED
  BY <1>1 DEF ServedBy, Whole

(* emit: the place of the first frame of a new event is after all others.   *)
LEMMA ServedEmit ==
    ASSUME NEW E, NEW F, Longer(E, F), NEW e, e.decoded \in Seq(Decodable(Leaves)),
           NEW isOpen, NEW P, \A x \in P : IsPlace(E, x), ServedBy(E, e, isOpen, P),
           NEW first \in Places, first.event = Len(E) + 1
    PROVE  ServedBy(F, e, isOpen, P \cup {first})
<1> DEFINE R == P \cup {first}
           d == e.decoded
<1>1. \A x : IsPlace(E, x) => Sender(F, x) = Sender(E, x) /\ x.event < first.event
  BY LongerPlaces DEF Longer, IsPlace
<1>2. ServedBy(F, e, isOpen, P)
  BY LongerServed
<1>3. \A i \in 1 .. Len(d) : d[i].about \in 1 .. Len(E) /\ d[i].about < first.event
  BY DEF ServedBy, Whole, Stands, Longer
<1>4. Whole(F, d, R)
  <2>1. \A i \in 1 .. Len(d) : Before(FirstPlace(d[i].about), first)
    BY <1>3 DEF Before, FirstPlace
  <2>2. Whole(F, d, P)
    BY <1>2 DEF ServedBy
  <2> HIDE DEF d
  <2> QED
    BY <2>1, <2>2 DEF Whole
<1>5. ASSUME NEW x \in Places, Half(E, e, isOpen, P, x) PROVE Before(x, first)
  BY <1>1, <1>5 DEF Half, Before
<1>6. ASSUME NEW x \in Places, Half(F, e, isOpen, P, x), Before(x, first)
      PROVE  Half(F, e, isOpen, R, x)
  BY <1>6 DEF Half
<1>7. \A x \in Places : Half(E, e, isOpen, P, x) => Half(F, e, isOpen, P, x)
  BY HalfLonger DEF ServedBy
<1> HIDE DEF R
<1>8. e.partial = NoPacket \/ \E x \in Places : Half(E, e, isOpen, P, x)
  BY DEF ServedBy
<1> QED
  BY <1>4, <1>5, <1>6, <1>7, <1>8 DEF ServedBy, R

(* A listener's packet comes whole, and from no thread of the application.  *)
LEMMA ServedListener ==
    ASSUME NEW E, NEW F, Longer(E, F), Events(F), NEW e \in Ends(Leaves),
           NEW isOpen, NEW P, \A x \in P : IsPlace(E, x) /\ Sender(E, x) \in Threads,
           ServedBy(E, e, isOpen, P),
           Len(F) = Len(E) + 1, F[Len(F)].by = Net
    PROVE  ServedBy(F, PutAll(e, Encode(F[Len(F)].packet)), isOpen, P)
<1> DEFINE n == Len(F)
           packet == F[n].packet
           d == e.decoded
           f == PutAll(e, Encode(packet))
<1>1. n \in 1 .. Len(F) /\ n \in Nat /\ Len(E) \in Nat /\ n = Len(E) + 1
  BY DEF Longer
<1>2. packet \in Packets /\ packet.about = n
  <2> DEFINE x == [event |-> n, frame |-> 1]
  <2>1. x \in Places /\ x.event = n
    BY <1>1 DEF Places
  <2> HIDE DEF x
  <2> QED
    BY <1>1, <2>1, EventFrames
<1>3. IsEnd(e) /\ d \in Seq(Decodable(Leaves))
  BY LenProperties DEF Ends, IsEnd
<1>4. /\ f.partial = e.partial \/ f.partial = NoPacket
      /\ f.decoded = Append(d, packet)
  BY <1>2, <1>3, EncodeRoundTrip
<1>5. /\ Len(d) \in Nat /\ Len(f.decoded) = Len(d) + 1
      /\ f.decoded[Len(d) + 1] = packet
      /\ \A i \in 1 .. Len(d) : f.decoded[i] = d[i]
  BY <1>3, <1>4, AppendProperties, LenProperties DEF IsEnd
<1> HIDE DEF f
<1>6. ServedBy(F, e, isOpen, P)
  BY LongerServed
<1>7. \A x \in P : Sender(F, x) # Net
  BY LongerPlaces, BoundsAssumption
<1>8. Whole(F, f.decoded, P)
  <2>1. Whole(F, d, P) /\ P \in SUBSET P
    BY <1>6 DEF ServedBy
  <2>2. \A i \in 1 .. Len(d) : d[i].about < n
    BY <1>1 DEF ServedBy, Whole, Stands
  <2>3. \A x \in P : Sender(F, x) = F[n].by => Before(FirstPlace(n), x)
    BY <1>7
  <2>4. Stands(F, packet)
    BY <1>1, <1>2 DEF Stands
  <2> HIDE DEF d, n, packet
  <2> QED
    BY <1>2, <1>3, <1>5, <2>1, <2>2, <2>3, <2>4, OneMoreWhole
<1>9. ASSUME NEW x \in Places, Half(F, e, isOpen, P, x), f.partial = e.partial
      PROVE  Half(F, f, isOpen, P, x)
  <2>1. Sender(F, x) # Net
    BY <1>9, BoundsAssumption DEF Half
  <2>2. \A i \in 1 .. Len(f.decoded) : i \in 1 .. Len(d) \/ i = Len(d) + 1
    BY <1>5
  <2>3. \A i \in 1 .. Len(f.decoded) :
            F[f.decoded[i].about].by = Sender(F, x) => f.decoded[i].about < x.event
    BY <1>2, <1>5, <1>9, <2>1, <2>2 DEF Half
  <2> QED
    BY <1>9, <2>3 DEF Half
<1> QED
  BY <1>4, <1>6, <1>8, <1>9 DEF ServedBy, f

(* There are places at which the frames that are pending make what the      *)
(* server has decoded go on.                                                *)
Served ==
    \E c, a :
        /\ Placed(emitted, posted, at, c, a)
        /\ ServedBy(emitted, server, open, Pending(at, c, a))

(* At first no frame is pending.                                            *)
LEMMA ServedInit == Init => Served
<1> SUFFICES ASSUME Init PROVE Served
  OBVIOUS
<1> DEFINE c == << >>
           a == [t \in Threads |-> [event |-> 0, frame |-> 0]]
<1>1. c \in Seq(Places) /\ Len(c) = 0 /\ a \in [Threads -> Places]
  BY EmptySeq DEF Places
<1>2. posted = << >> /\ Len(posted) = 0 /\ server = NewEnd
  BY EmptySeq DEF Init
<1>3. Busy(at) = {}
  BY DEF Init, Busy, Idle
<1> HIDE DEF c, a
<1>4. Pending(at, c, a) = {}
  BY <1>1, <1>3 DEF Pending
<1>5. Placed(emitted, posted, at, c, a)
  BY <1>1, <1>2, <1>3, <1>4 DEF Placed
<1>6. ServedBy(emitted, server, open, Pending(at, c, a))
  BY <1>2, ServedNew
<1> QED
  BY <1>5, <1>6 DEF Served

(* What is emitted are events.                                              *)
LEMMA EventsEmitted == Typed /\ Numbered => Events(emitted)
  BY DEF Typed, Numbered, Events

(* Only the frames of at matter.                                            *)
LEMMA SameFrames ==
    ASSUME NEW w, NEW v, \A t \in Threads : w[t].frames = v[t].frames,
           NEW E, NEW q, NEW c, NEW a, Placed(E, q, w, c, a)
    PROVE  Placed(E, q, v, c, a) /\ Pending(v, c, a) = Pending(w, c, a)
<1>1. Busy(w) = Busy(v) /\ \A t \in Busy(w) : w[t].frames = v[t].frames
  BY DEF Busy
<1>2. Pending(v, c, a) = Pending(w, c, a)
  BY <1>1 DEF Pending
<1> QED
  BY <1>1, <1>2 DEF Placed

(* Steps that change no frame and nothing of the server.                    *)
LEMMA ServedKept ==
    ASSUME Served, UNCHANGED <<emitted, posted, server, open>>,
           \A t \in Threads : at'[t].frames = at[t].frames
    PROVE  Served'
<1>1. PICK c, a : /\ Placed(emitted, posted, at, c, a)
                  /\ ServedBy(emitted, server, open, Pending(at, c, a))
  BY DEF Served
<1>2. Placed(emitted, posted, at', c, a) /\ Pending(at', c, a) = Pending(at, c, a)
  BY <1>1, SameFrames
<1>3. /\ Placed(emitted', posted', at', c, a)
      /\ ServedBy(emitted', server', open', Pending(at', c, a))
  BY <1>1, <1>2
<1> QED
  BY <1>3 DEF Served

(* emit: one more is emitted.                                               *)
LEMMA EmittedLonger ==
    ASSUME Typed, Typed', NEW event, emitted' = Append(emitted, event)
    PROVE  /\ Longer(emitted, emitted') /\ Len(emitted') = Len(emitted) + 1
           /\ Len(emitted) \in Nat /\ emitted'[Len(emitted) + 1] = event
<1> DEFINE S == [by : Someone, packet : Sendable(Leaves)]
<1>1. emitted \in Seq(S) /\ emitted' \in Seq(S)
  BY DEF Typed
<1> HIDE DEF S
<1>2. Len(emitted) \in Nat /\ Len(emitted') \in Nat
  BY <1>1, LenProperties
<1>3. /\ Len(Append(emitted, event)) = Len(emitted) + 1
      /\ \A i \in 1 .. Len(emitted) : Append(emitted, event)[i] = emitted[i]
      /\ Append(emitted, event)[Len(emitted) + 1] = event
  BY <1>1
<1> QED
  BY <1>2, <1>3 DEF Longer

(* emit of a thread keeps Served.                                           *)
LEMMA ServedEmits ==
    ASSUME NEW t \in Threads, Typed, Numbered, Typed', Numbered', Served, Emit(t)
    PROVE  Served'
<1>1. PICK packet \in Event(at[t].id) :
          /\ emitted' = Append(emitted, [by |-> t, packet |-> packet])
          /\ at' = [at EXCEPT ![t] = [id |-> NoId, frames |-> Encode(packet)]]
  BY DEF Emit
<1>2. /\ at[t].frames = << >> /\ posted' = posted /\ server' = server /\ open' = open
      /\ posted \in Seq(Frames(Leaves))
      /\ at \in [Someone -> [id : Int, frames : Seq(Frames(Leaves))]]
      /\ server.decoded \in Seq(Decodable(Leaves))
  BY DEF Emit, Typed, serverVars, Ends
<1> DEFINE N == Len(emitted)
<1>3. /\ Longer(emitted, emitted') /\ N \in Nat
      /\ Len(emitted') = N + 1 /\ emitted'[N + 1] = [by |-> t, packet |-> packet]
  BY <1>1, EmittedLonger
<1>4. Events(emitted')
  BY DEF Typed, Numbered, Events
<1>5. PICK c, a : /\ Placed(emitted, posted, at, c, a)
                  /\ ServedBy(emitted, server, open, Pending(at, c, a))
  BY DEF Served
<1> DEFINE first == FirstPlace(N + 1)
           b == Moved(a, t, first)
           P == Pending(at, c, a)
<1>6. /\ Placed(emitted', posted, at, c, a)
      /\ \A x \in P : IsPlace(emitted, x) /\ x.event <= N
  <2>1. \A x \in P : IsPlace(emitted, x)
    BY <1>5 DEF Placed
  <2> QED
    BY <1>3, <1>5, <2>1, LongerPlaced DEF IsPlace
<1>7. emitted'[N + 1].by = t /\ emitted'[N + 1].packet = packet
  BY <1>3
<1>8. StartsLast(emitted', N, at, at', t)
  BY <1>1, <1>2, <1>3, <1>7 DEF StartsLast, Someone
<1>9. Placed(emitted', posted, at', c, b) /\ Pending(at', c, b) = P \cup {first}
  BY <1>2, <1>3, <1>4, <1>6, <1>8, PlacedEmit
<1>10. ServedBy(emitted', server, open, P \cup {first})
  <2>1. first \in Places /\ first.event = Len(emitted) + 1
    BY <1>3 DEF Places, FirstPlace
  <2> HIDE DEF first, P
  <2>2. ServedBy(emitted, server, open, P)
    BY <1>5 DEF P
  <2> QED
    BY <1>2, <1>3, <1>6, <2>1, <2>2, ServedEmit
<1> HIDE DEF first, b, P
<1>11. /\ Placed(emitted', posted', at', c, b)
       /\ ServedBy(emitted', server', open', Pending(at', c, b))
  BY <1>2, <1>9, <1>10
<1> QED
  BY <1>11 DEF Served

(* on_encode keeps Served: a frame goes from its thread to those posted.    *)
LEMMA ServedOnEncode ==
    ASSUME NEW t \in Threads, Typed, Numbered, Served, OnEncode(t)
    PROVE  Served'
<1>1. /\ t \in Busy(at) /\ posted' = Append(posted, Head(at[t].frames))
      /\ at' = [at EXCEPT ![t].frames = Tail(@)]
      /\ UNCHANGED <<emitted, server, open>>
  BY DEF OnEncode, Busy, serverVars
<1>2. /\ posted \in Seq(Frames(Leaves)) /\ Events(emitted)
      /\ at \in [Someone -> [id : Int, frames : Seq(Frames(Leaves))]]
      /\ server.decoded \in Seq(Decodable(Leaves))
  BY EventsEmitted DEF Typed, Ends
<1>3. PICK c, a : /\ Placed(emitted, posted, at, c, a)
                  /\ ServedBy(emitted, server, open, Pending(at, c, a))
  BY DEF Served
<1> DEFINE b == Moved(a, t, After(a[t]))
           d == Append(c, a[t])
           P == Pending(at, c, a)
           R == Pending(at', d, b)
<1>10. DoesOne(at, at', t)
  BY <1>1, <1>2 DEF DoesOne, Someone
<1>4. /\ Placed(emitted, posted', at', d, b)
      /\ P \subseteq R
      /\ \A x \in R : x \in P \/ x = After(a[t])
      /\ a[t] \in P
  <2>1. /\ posted \in Seq(Frames(Leaves)) /\ Events(emitted)
        /\ Placed(emitted, posted, at, c, a)
    BY <1>2, <1>3
  <2>2. /\ Placed(emitted, Append(posted, Head(at[t].frames)), at', d, b)
        /\ P \subseteq R
        /\ \A x \in R : x \in P \/ x = After(a[t])
        /\ a[t] \in P
    BY <1>10, <2>1, PlacedOnEncode
  <2> QED
    BY <1>1, <2>2
<1>5. ServedBy(emitted, server, open, P)
  BY <1>3
<1>6. \A x \in P : x \in Places
  BY <1>3 DEF Placed, IsPlace
<1> HIDE DEF P, R, b, d
<1>7. \A y \in R : y \in P \/ \E z \in P : Sender(emitted, z) = Sender(emitted, y)
        /\ After(z) = y
  <2>1. Sender(emitted, After(a[t])) = Sender(emitted, a[t])
    BY DEF Sender, After
  <2> QED
    BY <1>4, <2>1
<1>8. ServedBy(emitted, server, open, R)
  BY <1>2, <1>4, <1>5, <1>6, <1>7, LaterServed
<1>9. /\ Placed(emitted', posted', at', d, b)
      /\ ServedBy(emitted', server', open', Pending(at', d, b))
  BY <1>1, <1>4, <1>8 DEF R
<1> QED
  BY <1>9 DEF Served

(* A sequence of one frame.                                                 *)
LEMMA PutOne ==
    ASSUME NEW end \in Ends(Leaves), NEW frame \in Frames(Leaves)
    PROVE  PutAll(end, <<frame>>) = PutPayload(end, frame)
<1> DEFINE s == <<frame>>
<1>1. s \in Seq(Frames(Leaves)) /\ s # << >> /\ Head(s) = frame /\ Tail(s) = << >>
  OBVIOUS
<1> HIDE DEF s
<1>2. PutAll(end, s) = PutAll(PutPayload(end, frame), << >>)
  BY <1>1, LeavesOk, PutAllFirst
<1>3. PutPayload(end, frame) \in Ends(Leaves)
  BY LeavesOk, PutPayloadType
<1>4. << >> \in Seq(Frames(Leaves))
  BY EmptySeq
<1>5. PutAll(PutPayload(end, frame), << >>) = PutPayload(end, frame)
  BY <1>3, <1>4, LeavesOk, PutAllType
<1> QED
  BY <1>2, <1>5 DEF s

(* send_impl keeps Served, with a connection and without.                   *)
LEMMA ServedSendImpl == Typed /\ Numbered /\ Served /\ SendImpl => Served'
<1> SUFFICES ASSUME Typed, Numbered, Served, SendImpl PROVE Served'
  OBVIOUS
<1>1. /\ posted # << >> /\ posted' = Tail(posted)
      /\ UNCHANGED <<emitted, at, open>>
  BY DEF SendImpl
<1>2. /\ posted \in Seq(Frames(Leaves)) /\ Events(emitted) /\ server \in Ends(Leaves)
      /\ open \in BOOLEAN
  BY EventsEmitted DEF Typed
<1>3. PICK c, a : /\ Placed(emitted, posted, at, c, a)
                  /\ ServedBy(emitted, server, open, Pending(at, c, a))
  BY DEF Served
<1> DEFINE d == Tail(c)
           P == Pending(at, c, a)
           R == Pending(at, d, a)
           y == c[1]
<1>4. /\ Placed(emitted, posted', at, d, a)
      /\ R \subseteq P /\ y \in P
      /\ \A x \in P : x \in R \/ x = y
      /\ \A x \in R : Sender(emitted, x) = Sender(emitted, y) => Before(y, x)
      /\ y.frame < Len(FramesOf(emitted, y)) => After(y) \in R
      /\ Head(posted) = FramesOf(emitted, y)[y.frame]
  BY <1>1, <1>2, <1>3, PlacedSend
<1>5. ServedBy(emitted, server, open, P) /\ \A x \in P : IsPlace(emitted, x)
        /\ Sender(emitted, x) \in Threads
  BY <1>3 DEF Placed
<1> HIDE DEF P, R, d, y
<1>6. ServedBy(emitted, server', open, R)
  <2>1. CASE open
    <3>1. server' = PutPayload(server, Head(posted))
      <4>1. server' = PutAll(server, <<Head(posted)>>)
        BY <2>1 DEF SendImpl, Write
      <4>2. Head(posted) \in Frames(Leaves)
        BY <1>1, <1>2, HeadTailProperties
      <4> QED
        BY <1>2, <4>1, <4>2, PutOne
    <3>2. open = TRUE
      BY <1>2, <2>1
    <3>3. SendsFirst(emitted, P, R, y)
      BY <1>4, <1>5 DEF SendsFirst
    <3>4. ServedBy(emitted, PutPayload(server, FramesOf(emitted, y)[y.frame]), TRUE, R)
      BY <1>2, <1>5, <3>2, <3>3, ServedSend
    <3> QED
      BY <1>4, <3>1, <3>2, <3>4
  <2>2. CASE ~open
    <3>1. open = FALSE /\ server' = server /\ R \in SUBSET P
      BY <1>2, <1>4, <2>2 DEF SendImpl
    <3> QED
      BY <1>5, <3>1, ServedLess
  <2> QED
    BY <2>1, <2>2
<1>7. /\ Placed(emitted', posted', at', d, a)
      /\ ServedBy(emitted', server', open', Pending(at', d, a))
  BY <1>1, <1>4, <1>6 DEF R
<1> QED
  BY <1>7 DEF Served

(* emit in a listener keeps Served: no thread's frames are mixed with its.  *)
LEMMA ServedListenerEmits ==
    Typed /\ Numbered /\ Typed' /\ Numbered' /\ Served /\ ListenerEmits => Served'
<1> SUFFICES ASSUME Typed, Numbered, Typed', Numbered', Served, ListenerEmits
    PROVE Served'
  OBVIOUS
<1>1. PICK packet \in Event(at[Net].id) :
          /\ emitted' = Append(emitted, [by |-> Net, packet |-> packet])
          /\ server' = PutAll(server, Encode(packet))
  BY DEF ListenerEmits, Write
<1>2. /\ UNCHANGED <<posted, open>> /\ server \in Ends(Leaves)
      /\ \A t \in Threads : at'[t].frames = at[t].frames
  <2>1. UNCHANGED <<posted, open>> /\ at' = [at EXCEPT ![Net] = Idle]
    BY DEF ListenerEmits
  <2>2. \A t \in Threads : t # Net /\ t \in DOMAIN at
    BY BoundsAssumption DEF Typed, Someone
  <2> QED
    BY <2>1, <2>2 DEF Typed
<1>3. /\ Longer(emitted, emitted') /\ Len(emitted') = Len(emitted) + 1
      /\ emitted'[Len(emitted')] = [by |-> Net, packet |-> packet]
  BY <1>1, EmittedLonger
<1>4. Events(emitted')
  BY DEF Typed, Numbered, Events
<1>5. PICK c, a : /\ Placed(emitted, posted, at, c, a)
                  /\ ServedBy(emitted, server, open, Pending(at, c, a))
  BY DEF Served
<1> DEFINE P == Pending(at, c, a)
<1>6. ServedBy(emitted, server, open, P) /\ \A x \in P : IsPlace(emitted, x)
        /\ Sender(emitted, x) \in Threads
  BY <1>5 DEF Placed
<1>7. Placed(emitted', posted, at', c, a) /\ Pending(at', c, a) = P
  <2>1. Placed(emitted', posted, at, c, a)
    BY <1>3, <1>5, LongerPlaced
  <2> QED
    BY <1>2, <2>1, SameFrames
<1> HIDE DEF P
<1>8. emitted'[Len(emitted')].by = Net /\ emitted'[Len(emitted')].packet = packet
  BY <1>3
<1>9. ServedBy(emitted', PutAll(server, Encode(emitted'[Len(emitted')].packet)), open, P)
  BY <1>2, <1>3, <1>4, <1>6, <1>8, ServedListener
<1>10. /\ Placed(emitted', posted', at', c, a)
       /\ ServedBy(emitted', server', open', Pending(at', c, a))
  BY <1>1, <1>2, <1>7, <1>8, <1>9
<1> QED
  BY <1>10 DEF Served

(* Every step keeps Served.                                                 *)
LEMMA ServedNext ==
    Typed /\ Numbered /\ Typed' /\ Numbered' /\ Served /\ [Next]_vars => Served'
<1> SUFFICES ASSUME Typed, Numbered, Typed', Numbered', Served, [Next]_vars PROVE Served'
  OBVIOUS
<1>1. PICK c, a : /\ Placed(emitted, posted, at, c, a)
                  /\ ServedBy(emitted, server, open, Pending(at, c, a))
  BY DEF Served
<1>2. CASE Connect
  <2>1. server' = NewEnd /\ UNCHANGED <<emitted, posted, at>>
    BY <1>2 DEF Connect, emitVars
  <2>2. /\ Placed(emitted', posted', at', c, a)
        /\ ServedBy(emitted', server', open', Pending(at', c, a))
    BY <1>1, <2>1, ServedNew
  <2> QED
    BY <2>2 DEF Served
<1>3. CASE Disconnect
  <2>1. open' = FALSE /\ UNCHANGED <<emitted, posted, at, server>>
    BY <1>3 DEF Disconnect, emitVars, serverVars
  <2>2. /\ Placed(emitted', posted', at', c, a)
        /\ ServedBy(emitted', server', open', Pending(at', c, a))
    BY <1>1, <2>1, ServedLess
  <2> QED
    BY <2>2 DEF Served
<1>4. ASSUME NEW t \in Threads \cup {Net}, ReadEventId(t) PROVE Served'
  <2>1. UNCHANGED <<emitted, posted, server, open>>
    BY <1>4 DEF ReadEventId, serverVars
  <2>2. \A s \in Threads : at'[s].frames = at[s].frames
    BY <1>4 DEF ReadEventId, Typed, Someone
  <2> QED
    BY <2>1, <2>2, ServedKept
<1>5. ASSUME NEW t \in Threads, Emit(t) PROVE Served'
  BY <1>5, ServedEmits
<1>6. ASSUME NEW t \in Threads, OnEncode(t) PROVE Served'
  BY <1>6, ServedOnEncode
<1>7. CASE UNCHANGED <<emitted, posted, server, open, at>>
  BY <1>7, ServedKept
<1>8. ServerAcks \/ ServerEmits => UNCHANGED <<emitted, posted, server, open, at>>
  BY DEF ServerAcks, ServerEmits, Send, emitVars
<1>9. Receive \/ ReceivePong \/ UNCHANGED vars => UNCHANGED <<emitted, posted, server,
        open, at>>
  BY DEF Receive, ReceivePong, vars, emitVars, serverVars
<1> QED
  BY <1>2, <1>3, <1>4, <1>5, <1>6, <1>7, <1>8, <1>9, ServedSendImpl,
     ServedListenerEmits DEF Next

-------------------------------------------------------------------------------
(****************************************************************************)
(* The inductive invariant.                                                 *)
(****************************************************************************)

(* The inductive invariant.                                                 *)
IInv ==
    /\ Typed
    /\ Stream
    /\ Numbered
    /\ Unique
    /\ Registered
    /\ Called
    /\ Answers
    /\ Delivered
    /\ Served

(* It holds at first,                                                       *)
LEMMA InvInit == Init => IInv
  BY TypedInit, StreamInit, NumberedInit, CallbacksInit, ServedInit DEF IInv

(* What the server has still to acknowledge was emitted.                    *)
LEMMA AskedEmitted == Typed /\ Served => Asked
<1> SUFFICES ASSUME Typed, Served, NEW packet \in asked
             PROVE  packet.about \in 1 .. Len(emitted) /\ packet.id = IdOf(packet.about)
  BY DEF Asked
<1>1. PICK c, a : ServedBy(emitted, server, open, Pending(at, c, a))
  BY DEF Served
<1>2. DOMAIN server.decoded = 1 .. Len(server.decoded)
  BY DEF Typed, Ends
<1>3. PICK i \in 1 .. Len(server.decoded) : packet = server.decoded[i]
  BY <1>2 DEF Typed, Range
<1>4. Stands(emitted, packet)
  BY <1>1, <1>3 DEF ServedBy, Whole
<1> QED
  BY <1>4 DEF Stands, IdOf

(* and every step keeps it.                                                 *)
LEMMA InvNext == IInv /\ [Next]_vars => IInv'
<1> SUFFICES ASSUME IInv, [Next]_vars PROVE IInv'
  OBVIOUS
<1>1. /\ Typed /\ Stream /\ Numbered /\ Unique /\ Registered /\ Called /\ Answers
      /\ Delivered /\ Served
  BY DEF IInv
<1>2. Asked
  BY <1>1, AskedEmitted
<1>3. Registered' /\ Called' /\ Answers' /\ Delivered'
  BY <1>1, <1>2, CallbacksNext
<1>4. acks \in [DOMAIN acks -> Int]
  <2>1. acks \in [DOMAIN acks -> 1 .. Len(emitted)] /\ 1 .. Len(emitted) \subseteq Int
    BY <1>1 DEF Registered
  <2> QED
    BY <2>1
<1>5. Typed'
  BY <1>1, <1>4, TypedNext
<1>6. Stream' /\ Numbered' /\ Unique'
  BY <1>1, StreamNext, NumberedNext
<1>7. Served'
  BY <1>1, <1>5, <1>6, ServedNext
<1> QED
  BY <1>3, <1>5, <1>6, <1>7 DEF IInv

(* The inductive invariant holds of every behaviour of the framing.         *)
THEOREM Invariance == Spec => []IInv
  BY InvInit, InvNext, PTL DEF Spec

(* The type of TypeOK is part of it.                                        *)
LEMMA InvTypeOK == IInv => TypeOK
<1> SUFFICES ASSUME IInv PROVE TypeOK
  OBVIOUS
<1>1. Typed /\ Numbered /\ Registered
  BY DEF IInv
<1>2. /\ Len(emitted) \in Nat /\ DOMAIN emitted = 1 .. Len(emitted)
      /\ Len(emitted) <= MaxPackets
  BY <1>1 DEF Typed
<1>3. nextId \in 1 .. MaxPackets + 1
  BY <1>1, <1>2, LeavesOk DEF Numbered
<1>4. Range(acks) \subseteq DOMAIN emitted
  BY <1>1, <1>2 DEF Registered, Range
<1>6. DOMAIN acks \subseteq 1 .. MaxPackets
  <2>1. DOMAIN acks \subseteq 1 .. Len(emitted)
    BY <1>1 DEF Registered
  <2> QED
    BY <1>2, <2>1, LeavesOk
<1>5. ASSUME NEW end \in {client, server}
      PROVE  /\ end.partial.frame.pending \in 0 .. MaxLeaves
             /\ \A i \in DOMAIN end.decoded : end.decoded[i].msg \in Messages
  <2>1. end \in Ends(Leaves)
    BY <1>1, <1>5 DEF Typed
  <2>2. end.partial \in Partials(Leaves) /\ end.decoded \in Seq(Decodable(Leaves))
    BY <2>1 DEF Ends
  <2>3. end.partial.frame.pending \in 0 .. MaxLeaves
    BY <2>2 DEF Partials, Texts
  <2>4. \A i \in DOMAIN end.decoded : end.decoded[i] \in Decodable(Leaves)
    BY <2>2, ElementOfSeq
  <2> QED
    BY <2>3, <2>4, LeavesOk DEF Decodable
<1> QED
  BY <1>1, <1>2, <1>3, <1>4, <1>5, <1>6 DEF Typed, TypeOK

(* TypeOK is an invariant, for any threads and bounds: no more ids are ever *)
(* given out than events, also when threads race for s_global_event_id,     *)
(* m_acks refers to events, and put_payload decodes only leaves it was      *)
(* given.                                                                   *)
THEOREM TypeCorrect == Spec => []TypeOK
  BY Invariance, InvTypeOK, PTL

(* What put_payload decodes on a connection is what the server sent on it,  *)
(* in order and blob by blob, wherever an earlier connection broke.         *)
THEOREM DecodesWhole == Spec => []DecodedWhole
<1>1. IInv => DecodedWhole
  BY StreamDecoded DEF IInv
<1> QED
  BY Invariance, <1>1, PTL

(* Once all frames of a connection have been given to put_payload, all      *)
(* packets are decoded and none is left partial.                            *)
THEOREM KeepsNothingBack == Spec => []NothingKeptBack
<1>1. IInv => NothingKeptBack
  BY StreamDecoded DEF IInv
<1> QED
  BY Invariance, <1>1, PTL

(* The server decodes events that were emitted, with their ids and once,    *)
(* those of a thread in order, though any number of threads post the frames *)
(* of their attachments one by one, and reconnections come in between; one  *)
(* that is not as emitted has an attachment of another thread.              *)
THEOREM ServesWhole == Spec => []ServedWhole
<1>1. IInv => ServedWhole
  <2> SUFFICES ASSUME IInv PROVE ServedWhole
    OBVIOUS
  <2>1. PICK c, a : ServedBy(emitted, server, open, Pending(at, c, a))
    BY DEF IInv, Served
  <2>2. Whole(emitted, server.decoded, Pending(at, c, a))
    BY <2>1 DEF ServedBy
  <2> DEFINE d == server.decoded
  <2>3. d \in Seq(Decodable(Leaves))
    BY DEF IInv, Typed, Ends
  <2>4. /\ DOMAIN d = 1 .. Len(d) /\ Len(d) \in Nat
        /\ \A i \in 1 .. Len(d) : d[i].about \in Int
    BY <2>3, DecodedAbout, LenProperties
  <2>5. ASSUME NEW i \in 1 .. Len(d), NEW j \in i + 1 .. Len(d)
        PROVE  /\ d[j].about # d[i].about
               /\ emitted[d[j].about].by = emitted[d[i].about].by =>
                    d[i].about < d[j].about
    <3>1. j \in 1 .. Len(d) /\ i < j
      BY <2>4
    <3>2. emitted[d[j].about].by = emitted[d[i].about].by => d[i].about < d[j].about
      BY <2>2, <3>1 DEF Whole
    <3> QED
      BY <2>4, <3>1, <3>2
  <2>6. ASSUME NEW i \in 1 .. Len(d)
        PROVE  /\ d[i].id = emitted[d[i].about].packet.id
               /\ d[i] = emitted[d[i].about].packet \/ MixedUp(d[i])
    <3>1. Stands(emitted, d[i])
      BY <2>2 DEF Whole
    <3>2. DOMAIN emitted = 1 .. Len(emitted)
      BY DEF IInv, Typed
    <3>3. (\E leaf \in Range(d[i].msg) : Foreign(emitted, leaf, d[i].about)) => MixedUp(d[i])
      BY <3>2 DEF Foreign, MixedUp
    <3> QED
      BY <3>1, <3>3 DEF Stands
  <2> HIDE DEF d
  <2>7. \A i \in DOMAIN d :
          /\ d[i].id = emitted[d[i].about].packet.id
          /\ d[i] = emitted[d[i].about].packet \/ MixedUp(d[i])
          /\ \A j \in i + 1 .. Len(d) :
                /\ d[j].about # d[i].about
                /\ emitted[d[j].about].by = emitted[d[i].about].by =>
                     d[i].about < d[j].about
    BY <2>4, <2>5, <2>6
  <2> QED
    BY <2>7 DEF ServedWhole, d
<1> QED
  BY Invariance, <1>1, PTL

(* A callback is called with an answer to its own event, and once; only     *)
(* when threads have raced for an id, it may be the answer to another event *)
(* of the same id.                                                          *)
THEOREM AnswersAsker == Spec => []AnswerToAsker
<1>1. IInv => AnswerToAsker
  <2> SUFFICES ASSUME IInv PROVE AnswerToAsker
    OBVIOUS
  <2>1. Called /\ DOMAIN called = 1 .. Len(called) /\ Unique /\ raced \in BOOLEAN
    BY DEF IInv, Typed
  <2>2. ASSUME NEW i \in 1 .. Len(called)
        PROVE  \/ called[i].event = called[i].answer
               \/ raced /\ IdOf(called[i].event) = IdOf(called[i].answer)
    <3>1. /\ called[i].event \in 1 .. Len(emitted) /\ called[i].answer \in 1 .. Len(emitted)
          /\ IdOf(called[i].event) # NoId /\ IdOf(called[i].event) = IdOf(called[i].answer)
      BY <2>1 DEF Called
    <3>2. ~raced => called[i].event = called[i].answer
      BY <2>1, <3>1 DEF Unique
    <3> QED
      BY <3>1, <3>2 DEF IdOf
  <2> QED
    BY <2>1, <2>2 DEF Called, AnswerToAsker
<1> QED
  BY Invariance, <1>1, PTL

(* When the answer to an event is decoded, the callback that emit           *)
(* registered was called: no answer comes before it is registered; when     *)
(* threads have raced for its id, it may be that of another event that got  *)
(* the same.                                                                *)
THEOREM CallsAnswered == Spec => []AnsweredIsCalled
<1>1. IInv => AnsweredIsCalled
  <2> SUFFICES ASSUME IInv PROVE AnsweredIsCalled
    OBVIOUS
  <2>1. /\ Typed /\ Stream /\ Delivered /\ Called /\ Answers /\ Unique
        /\ DOMAIN called = 1 .. Len(called)
        /\ DOMAIN client.decoded = 1 .. Len(client.decoded)
    BY DEF IInv, Typed, Ends
  <2>2. ASSUME NEW k \in 1 .. Len(client.decoded), client.decoded[k].id # NoId
        PROVE  \E i \in 1 .. Len(called) :
                  \/ called[i].event = client.decoded[k].about
                  \/ raced /\ IdOf(called[i].event) = client.decoded[k].id
    <3>1. PICK i \in 1 .. Len(called) : IdOf(called[i].event) = client.decoded[k].id
      BY <2>1, <2>2 DEF Delivered
    <3>2. /\ client.decoded[k].about \in 1 .. Len(emitted)
          /\ IdOf(client.decoded[k].about) = client.decoded[k].id
      <4>1. GoesOn(client.decoded, sent)
        BY <2>1, StreamDecoded
      <4>2. k \in 1 .. Len(sent) /\ sent[k] = client.decoded[k]
        BY <2>1, <4>1 DEF GoesOn, Typed, Ends
      <4> QED
        BY <2>1, <2>2, <4>2 DEF Answers
    <3>3. called[i].event \in 1 .. Len(emitted)
      BY <2>1 DEF Called
    <3>4. ~raced => called[i].event = client.decoded[k].about
      BY <2>1, <2>2, <3>1, <3>2, <3>3 DEF Unique
    <3> QED
      BY <3>1, <3>4 DEF IdOf
  <2> QED
    BY <2>1, <2>2 DEF AnsweredIsCalled, Range
<1> QED
  BY Invariance, <1>1, PTL
===============================================================================
