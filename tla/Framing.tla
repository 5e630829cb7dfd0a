-------------------------------- MODULE Framing --------------------------------
(***************************************************************************)
(* One direction of a connection at the level of bytes: sendMsg() packs    *)
(* and writes messages, the socket delivers what was written in pieces,    *)
(* and recvMsg() of src/src/transport.cpp puts messages together again.    *)
(* Connection takes the stream to be a sequence of whole messages; this    *)
(* module says under which conditions it is.                               *)
(***************************************************************************)
EXTENDS Codec

CONSTANTS
    Messages,   \* what may be sent: records of a type and fields
    MaxSent,    \* bound: messages sent
    Frail       \* bound: only with these is the stream cut in a header, or the
                \* sender gone with bytes under way

ASSUME FramingAssumption ==
    /\ MaxSent \in Nat
    /\ Frail \subseteq Messages
    /\ \A m \in Messages, id \in 1..MaxSent :
          WellFormed([type |-> m.type, id |-> id, fields |-> m.fields])

VARIABLES
    sent,       \* history: the messages sent, with their ids
    written,    \* per message not fully delivered: its bytes still under way
    open,       \* the sender has not closed
    lost,       \* history: bytes that were written will not arrive
    stream,     \* delivered and not read
    data,       \* recvMsg()'s local buffer: what was received of a message
    got         \* what recvMsg() returned

vars == <<sent, written, open, lost, stream, data, got>>

ClosedMessage == [type |-> "closed", id |-> 0, fields |-> <<>>]

TypeOK ==
    /\ Len(sent) <= MaxSent
    /\ written \in Seq(Seq(Byte))
    /\ open \in BOOLEAN
    /\ lost \in BOOLEAN
    /\ stream \in Seq(Byte)
    /\ data \in Seq(Byte)
    /\ Len(data) # 1
    /\ \A i \in DOMAIN got : got[i].type \in DOMAIN TypeCode \cup {"null"}

Init ==
    /\ sent = <<>>
    /\ written = <<>>
    /\ open = TRUE
    /\ lost = FALSE
    /\ stream = <<>>
    /\ data = <<>>
    /\ got = <<>>

-----------------------------------------------------------------------------
(* The sender. *)

(* sendMsg() under the lock: the next id, getPacked(), and the bytes. *)
SendMsg(m) ==
    /\ open
    /\ Len(sent) < MaxSent
    /\ LET msg == [type |-> m.type, id |-> Len(sent) + 1, fields |-> m.fields] IN
          /\ sent' = Append(sent, msg)
          /\ written' = Append(written, GetPacked(msg))
    /\ UNCHANGED <<open, lost, stream, data, got>>

Close ==
    /\ open
    /\ open' = FALSE
    /\ UNCHANGED <<sent, written, lost, stream, data, got>>

Fragile == \A i \in DOMAIN sent : [type |-> sent[i].type, fields |-> sent[i].fields] \in Frail

(* The sender's machine is gone: what is under way does not arrive. *)
Die ==
    /\ open
    /\ written # <<>>
    /\ Fragile
    /\ open' = FALSE
    /\ lost' = TRUE
    /\ written' = <<>>
    /\ UNCHANGED <<sent, stream, data, got>>

-----------------------------------------------------------------------------
(* The socket: the next n bytes of a message arrive. *)

Pieces == {"message", "body", "header"}

Cut(bytes, where) ==
    CASE where = "message" -> Len(bytes)
      [] where = "body"    -> IF Len(bytes) > 14 THEN 13 ELSE Len(bytes)
      [] where = "header"  -> 1

Deliver(where) ==
    /\ written # <<>>
    /\ where = "header" => Fragile
    /\ LET bytes == Head(written)
           n     == Cut(bytes, where) IN
          /\ stream' = stream \o SubSeq(bytes, 1, n)
          /\ written' = IF n = Len(bytes) THEN Tail(written)
                        ELSE <<SubSeq(bytes, n + 1, Len(bytes))>> \o Tail(written)
    /\ UNCHANGED <<sent, open, lost, data, got>>

-----------------------------------------------------------------------------
(* recvMsg() *)

Take(n) == IF n < Len(stream) THEN n ELSE Len(stream)

Receives(n) ==
    /\ stream # <<>>
    /\ data' = data \o SubSeq(stream, 1, Take(n))
    /\ stream' = SubSeq(stream, Take(n) + 1, Len(stream))

(* Bound: once a byte of a header is lost the receiver takes any two bytes   *)
(* for a length; what it makes of them is left out.                          *)
InStep == ~Contains(got, NullMessage)

(* Broken: takes a header of one byte for a whole one. *)
ReadHeaderPartly ==
    /\ data = <<>> /\ InStep
    /\ Receives(2)
    /\ UNCHANGED <<sent, written, open, lost, got>>

(* The first recvBytes(), for two bytes. *)
ReadHeader ==
    /\ data = <<>> /\ InStep
    /\ Len(stream) >= 2
    /\ Receives(2)
    /\ UNCHANGED <<sent, written, open, lost, got>>

(* It returns one byte: "Failed to get header", and a null message. *)
ReadHalfHeader ==
    /\ data = <<>> /\ InStep
    /\ Len(stream) = 1
    /\ stream' = <<>>
    /\ got' = Append(got, NullMessage)
    /\ UNCHANGED <<sent, written, open, lost, data>>

(* Broken: a stream that ends before its first message is no end. *)
ReadClosedAfterMessage ==
    /\ data = <<>> /\ got # <<>>
    /\ stream = <<>> /\ written = <<>> /\ ~open
    /\ ~Contains(got, ClosedMessage)
    /\ got' = Append(got, ClosedMessage)
    /\ UNCHANGED <<sent, written, open, lost, stream, data>>

(* It returns 0: the closed message. *)
ReadClosed ==
    /\ data = <<>>
    /\ stream = <<>> /\ written = <<>> /\ ~open
    /\ ~Contains(got, ClosedMessage)
    /\ got' = Append(got, ClosedMessage)
    /\ UNCHANGED <<sent, written, open, lost, stream, data>>

DataLength == Unsigned(SubSeq(data, 1, 2))

(* Broken: does not read the padding. *)
TotalLengthUnpadded == DataLength

TotalLength == DataLength + ((-DataLength) % 8)

(* Again and again for the rest.  At the end of the stream recvBytes()       *)
(* returns 0 each time, and the loop goes round without a change.            *)
ReadRest ==
    /\ data # <<>>
    /\ Len(data) < TotalLength
    /\ Receives(TotalLength - Len(data))
    /\ UNCHANGED <<sent, written, open, lost, got>>

DecodeMsg ==
    /\ data # <<>>
    /\ Len(data) = TotalLength
    /\ got' = Append(got, Decode(SubSeq(data, 1, DataLength)))
    /\ data' = <<>>
    /\ UNCHANGED <<sent, written, open, lost, stream>>

RecvMsg == ReadHeader \/ ReadHalfHeader \/ ReadClosed \/ ReadRest \/ DecodeMsg

-----------------------------------------------------------------------------
Next ==
    \/ \E m \in Messages : SendMsg(m)
    \/ Close
    \/ Die
    \/ \E where \in Pieces : Deliver(where)
    \/ RecvMsg

Spec == Init /\ [][Next]_vars

(* When RecvMsg can happen: a byte to read, the end of the stream to report, *)
(* or a complete message to decode.                                          *)
CanReceive ==
    \/ stream # <<>> /\ InStep /\ (data # <<>> => Len(data) < TotalLength)
    \/ ENABLED ReadClosed
    \/ data # <<>> /\ Len(data) = TotalLength

(* What was written arrives, and the receive thread reads.  The second is    *)
(* WF_vars(RecvMsg), without making TLC decode to see what is enabled.       *)
FairSpec ==
    /\ Spec
    /\ WF_vars(\E where \in Pieces : Deliver(where))
    /\ []<>~CanReceive \/ []<><<RecvMsg>>_vars

-----------------------------------------------------------------------------
(* Properties. *)

(* What decode() makes of a message: a position report loses its tslc, which *)
(* packData() leaves out, and identity_required comes out as an identity.    *)
Expected(m) ==
    CASE m.type = "position_report" ->
            [m EXCEPT !.fields = [@ EXCEPT !.tslc = 0]]
      [] m.type = "identity_required" -> [m EXCEPT !.type = "identity"]
      [] OTHER -> m

(* The receiver gets the messages that were sent, field by field, in order:  *)
(* packData() and unpackData() of every type agree on alignment and widths,  *)
(* and as long as every header came whole recvMsg() does not lose its place  *)
(* in the stream, be the rest cut anywhere and the sender gone at any point: *)
(* it hands on no message it has only a part of.                             *)
InSync ==
    \A i \in DOMAIN got :
        (\A k \in 1..i : got[k] \notin {NullMessage, ClosedMessage})
            => i \in DOMAIN sent /\ got[i] = Expected(sent[i])

(* Every message sent is received, unless it did not arrive or a header was  *)
(* cut: recvMsg() waits for no byte too many.                                *)
AllReceived ==
    \A i \in 1..MaxSent :
        (i \in DOMAIN sent) ~> (i \in DOMAIN got \/ lost \/ ~InStep)

(* The stream ended inside a message. *)
Truncated == ~open /\ written = <<>> /\ stream = <<>> /\ data # <<>>

(* tests/connection.cpp:57: a receiver sees message_type_closed after the     *)
(* sender is gone.  The code does so, unless a header was cut or the stream  *)
(* ended inside a message: then recvMsg() reads for ever.                    *)
EndReported ==
    ~open ~> (Contains(got, ClosedMessage) \/ (lost /\ Truncated) \/ ~InStep)

===============================================================================
