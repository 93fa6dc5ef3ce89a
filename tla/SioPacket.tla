-------------------------------- MODULE SioPacket --------------------------------
(***************************************************************************)
(* packet and packet_manager (sio_packet.cpp): a packet whose message has  *)
(* binary leaves is a text frame, in which each of them is a numbered      *)
(* placeholder, followed by a binary frame for each.  put_payload keeps    *)
(* the partial packet until its last attachment has come.                  *)
(*                                                                         *)
(* A packet has an id (of the event an ack is wanted for, or is given to;  *)
(* NoId for none), the number of the event it is about, which stands for   *)
(* its text, and a message: the sequence of its leaves, in the order       *)
(* accept_message and from_json visit them.  The JSON text itself and the  *)
(* namespace are left out.                                                 *)
(***************************************************************************)
EXTENDS Integers, Sequences, SequencesExt

CONSTANT MaxLeaves            \* bound: leaves of a message

ASSUME LeavesAssumption == MaxLeaves \in Nat

NoId == -1

\* A leaf: text, or a blob known by its number.
Text == 0
IsBlob(leaf) == leaf > 0

\* The kinds of message: where the blobs are.
Shapes == BoundedSeq(BOOLEAN, MaxLeaves)

\* A message of that kind; no two blobs of messages n and m # n are alike.
Message(n, shape) ==
    [i \in DOMAIN shape |-> IF shape[i] THEN (n - 1) * MaxLeaves + i ELSE Text]

-------------------------------------------------------------------------------
(***************************************************************************)
(* accept and encode.                                                      *)
(***************************************************************************)
Plain == -1

\* The blobs in the order accept_binary_message meets them.
Buffers(msg) == SelectSeq(msg, IsBlob)

\* What the text says of each leaf: a placeholder with the number of blobs
\* before it, or the leaf itself.
Json(msg) ==
    [i \in DOMAIN msg |->
        IF IsBlob(msg[i]) THEN Len(Buffers(SubSeq(msg, 1, i - 1))) ELSE Plain]

TextFrame(packet) ==
    [kind |-> "text", id |-> packet.id, about |-> packet.about,
     json |-> Json(packet.msg), pending |-> Len(Buffers(packet.msg))]

BinaryFrame(blob) == [kind |-> "binary", blob |-> blob]
Pong == [kind |-> "pong"]

\* Mutant: the attachments are handed over before the text.
Encode_TextLast(packet) ==
    [i \in DOMAIN Buffers(packet.msg) |-> BinaryFrame(Buffers(packet.msg)[i])]
        \o <<TextFrame(packet)>>

Encode(packet) ==
    <<TextFrame(packet)>>
        \o [i \in DOMAIN Buffers(packet.msg) |-> BinaryFrame(Buffers(packet.msg)[i])]

(***************************************************************************)
(* parse, parse_buffer and put_payload.  An end of the connection has its  *)
(* partial packet, a text frame with the buffers that have come, and the   *)
(* packets it has decoded.                                                 *)
(***************************************************************************)
NoPacket == [frame |-> [id |-> NoId, about |-> 0, json |-> << >>, pending |-> 0],
             buffers |-> << >>]
NewEnd == [partial |-> NoPacket, decoded |-> << >>]
Null == -1

\* from_json: a placeholder out of range is a null message.
FromJson(json, buffers) ==
    [i \in DOMAIN json |->
        IF json[i] = Plain THEN Text
        ELSE IF json[i] < Len(buffers) THEN buffers[json[i] + 1] ELSE Null]

Decoded(end, frame, buffers) ==
    Append(end.decoded, [id |-> frame.id, about |-> frame.about,
                         msg |-> FromJson(frame.json, buffers)])

\* A text frame: decoded at once, or kept for its attachments.
PutText(end, frame) ==
    IF frame.pending = 0
    THEN [end EXCEPT !.decoded = Decoded(end, frame, << >>)]
    ELSE [end EXCEPT !.partial =
             [frame |-> [id |-> frame.id, about |-> frame.about,
                         json |-> frame.json, pending |-> frame.pending],
              buffers |-> << >>]]

\* A binary frame: one attachment less, and decoded with the last of them; it
\* is dropped where no packet is partial.
PutBinary(end, frame) ==
    LET buffers == Append(end.partial.buffers, frame.blob)
        left == end.partial.frame.pending - 1
    IN  IF end.partial = NoPacket THEN end
        ELSE IF left > 0
        THEN [end EXCEPT !.partial = [frame |-> [@.frame EXCEPT !.pending = left],
                                      buffers |-> buffers]]
        ELSE [partial |-> NoPacket, decoded |-> Decoded(end, end.partial.frame, buffers)]

\* Any other frame is decoded by itself; a partial packet goes on waiting.
PutPayload(end, frame) ==
    IF frame.kind = "text" THEN PutText(end, frame)
    ELSE IF frame.kind = "binary" THEN PutBinary(end, frame)
    ELSE end

\* A sequence of frames, one after the other.
PutAll(end, frames) ==
    LET after[n \in 0 .. Len(frames)] ==
            IF n = 0 THEN end ELSE PutPayload(after[n - 1], frames[n])
    IN  after[Len(frames)]
===============================================================================
