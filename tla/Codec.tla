-------------------------------- MODULE Codec --------------------------------
(***************************************************************************)
(* The wire format (src/internal/etp/payload.go, frame.go, transport.go):  *)
(* what each encoder writes into a buffer, and what each decoder accepts.  *)
(*                                                                         *)
(* Every encoder and every decoder of the code is a straight run through   *)
(* the payload, so each is a table of its own here, in the order of the    *)
(* offsets it uses: the two tables of a message come from two functions of *)
(* the source and share nothing.  An encoder computes a size, takes that   *)
(* many bytes of a buffer that was used before, and writes some of them.   *)
(*                                                                         *)
(* A message is a function from the names of its fields to their values.   *)
(* A number is below 2^31 whatever its width.                              *)
(***************************************************************************)
EXTENDS Integers, Sequences, TLC, SequencesExt

U(name, width) == [is |-> "uint", name |-> name, width |-> width, in |-> {}]
OneOf(name, width, S) == [U(name, width) EXCEPT !.in = S]
Raw(name, width) == [is |-> "raw", name |-> name, width |-> width]
Str(name) == [is |-> "string", name |-> name]
Rest(name) == [is |-> "rest", name |-> name]
Many(name, items, optional) ==
    [is |-> "list", name |-> name, items |-> items, optional |-> optional]
\* Bytes that an encoder clears, that it does not touch, that a decoder wants 0
Clear(width) == [is |-> "clear", width |-> width]
Skip(width) == [is |-> "skip", width |-> width]
Zero(width) == [is |-> "zero", width |-> width]

PutUint(n, width) ==
    [i \in 1..width |-> IF width - i > 3 THEN 0 ELSE (n \div 256 ^ (width - i)) % 256]

Uint(bytes) ==
    LET value[i \in 0..Len(bytes)] == IF i = 0 THEN 0 ELSE 256 * value[i - 1] + bytes[i]
    IN  value[Len(bytes)]

Zeros(n) == [i \in 1..n |-> 0]
PutString(s) == PutUint(Len(s), 4) \o s

-----------------------------------------------------------------------------
(* Encoders: the size they compute, whether the buffer is made anew, and   *)
(* what they put into it.                                                  *)

TransferPart == <<Str("Field"), U("Index", 4), Str("Name"), U("TotalSize", 8),
                  U("ContentType", 4)>>
TransferField == <<Str("Key"), Str("Value")>>

EncodeHelloMessage ==
    [fixed |-> 40, fresh |-> TRUE,
     puts |-> <<U("Capabilities", 8), U("MaxFrameBytes", 4), U("MaxChunkSize", 4),
                U("MaxTransferBytes", 8), U("MaxInFlightChunks", 4),
                U("HeartbeatMillis", 4), Skip(4), Str("Role")>>]

EncodeTextMessageInto == [fixed |-> 4, fresh |-> FALSE, puts |-> <<Str("Text")>>]

EncodeEventMessageInto ==
    [fixed |-> 8, fresh |-> FALSE,
     puts |-> <<Str("Event"), Str("Data"), Many("Fields", TransferField, TRUE)>>]

\* Faulty: the reserved bytes keep what the buffer held
EncodeErrorMessageIntoDirty ==
    [fixed |-> 32, fresh |-> FALSE,
     puts |-> <<U("Code", 4), U("FrameType", 1), Skip(3), U("SchemaID", 4),
                U("RequestID", 8), U("TransferID", 8), Str("Message")>>]

EncodeErrorMessageInto ==
    [fixed |-> 32, fresh |-> FALSE,
     puts |-> <<U("Code", 4), U("FrameType", 1), Clear(3), U("SchemaID", 4),
                U("RequestID", 8), U("TransferID", 8), Str("Message")>>]

EncodeGoAwayInto ==
    [fixed |-> 32, fresh |-> FALSE,
     puts |-> <<U("ReasonCode", 4), U("Flags", 2), Clear(2), U("DrainTimeoutMillis", 4),
                U("LastAcceptedRequestID", 8), U("LastAcceptedTransferID", 8),
                Str("Message")>>]

EncodeCloseMessage ==
    [fixed |-> 12, fresh |-> TRUE,
     puts |-> <<U("ReasonCode", 4), U("Flags", 2), Skip(2), U("DrainTimeoutMillis", 4)>>]

EncodeWindowInto ==
    [fixed |-> 24, fresh |-> FALSE,
     puts |-> <<U("TransferID", 8), U("WindowBytes", 8), U("WindowChunks", 4),
                U("Flags", 2), Clear(2)>>]

EncodeTransferResumeInto ==
    [fixed |-> 24, fresh |-> FALSE,
     puts |-> <<U("TransferID", 8), U("ReceivedBytes", 8), U("NextChunk", 4), Str("Token")>>]

EncodeTransferStateMessageInto ==
    [fixed |-> 24, fresh |-> FALSE,
     puts |-> <<U("TransferID", 8), U("ReceivedBytes", 8), U("NextChunk", 4),
                U("Flags", 2), U("ReasonCode", 2)>>]

EncodeAuthRequestInto ==
    [fixed |-> 12, fresh |-> FALSE,
     puts |-> <<U("Method", 2), U("Flags", 2), U("AuthSchemaID", 4), Str("Payload")>>]

EncodeAuthAcceptInto == [fixed |-> 4, fresh |-> FALSE, puts |-> <<Str("UserID")>>]

EncodeAuthRejectInto ==
    [fixed |-> 8, fresh |-> FALSE,
     puts |-> <<U("StatusCode", 2), U("ReasonCode", 2), Str("Message")>>]

EncodeTransferBeginInto ==
    [fixed |-> 72, fresh |-> FALSE,
     puts |-> <<U("TotalSize", 8), U("ChunkSize", 4), U("ChunkCount", 4),
                U("ContentType", 4), U("Flags", 4), Raw("Checksum", 32), Str("Name"),
                Str("Event"), Str("Field"), U("Index", 4),
                Many("Parts", TransferPart, FALSE), Many("Fields", TransferField, TRUE)>>]

EncodeNack ==
    [fixed |-> 20, fresh |-> TRUE,
     puts |-> <<U("TransferID", 8), U("ChunkFrom", 4), U("ChunkTo", 4),
                U("ReasonCode", 2), U("Flags", 2)>>]

EncodeCancel ==
    [fixed |-> 12, fresh |-> TRUE,
     puts |-> <<U("TransferID", 8), U("ReasonCode", 2), U("Flags", 2)>>]

EncodeCancelAck ==
    [fixed |-> 16, fresh |-> TRUE, puts |-> <<U("TransferID", 8), U("Status", 1), Skip(7)>>]

EncodeAck ==
    [fixed |-> 24, fresh |-> TRUE,
     puts |-> <<U("TransferID", 8), U("ChunkFrom", 4), U("ChunkTo", 4),
                U("ReceivedBytes", 8)>>]

EncodeFrameInto ==
    [fixed |-> 40, fresh |-> FALSE,
     puts |-> <<U("Version", 1), U("FrameType", 1), U("Flags", 2), U("Priority", 1),
                U("HeaderLength", 1), U("ChannelID", 2), U("PayloadOffset", 2),
                U("HeaderFlags", 2), U("PayloadLength", 4), U("SchemaID", 4),
                U("RequestID", 8), U("TransferID", 8), U("ChunkID", 4), Rest("Payload")>>]

-----------------------------------------------------------------------------
(* Decoders: the length they ask for first, and what they read.            *)

\* Neither an unknown bit nor Immediate with Drain
CloseFlags == {f \in 0..15 : f % 4 # 3}

DecodeHelloMessage ==
    [least |-> 40,
     reads |-> <<U("Capabilities", 8), U("MaxFrameBytes", 4), U("MaxChunkSize", 4),
                 U("MaxTransferBytes", 8), U("MaxInFlightChunks", 4),
                 U("HeartbeatMillis", 4), Zero(4), Str("Role")>>]

DecodeTextMessage == [least |-> 4, reads |-> <<Str("Text")>>]

DecodeEventMessageView ==
    [least |-> 8,
     reads |-> <<Str("Event"), Str("Data"), Many("Fields", TransferField, TRUE)>>]

DecodeErrorMessageView ==
    [least |-> 32,
     reads |-> <<U("Code", 4), U("FrameType", 1), Zero(3), U("SchemaID", 4),
                 U("RequestID", 8), U("TransferID", 8), Str("Message")>>]

DecodeGoAwayView ==
    [least |-> 32,
     reads |-> <<U("ReasonCode", 4), OneOf("Flags", 2, CloseFlags), Zero(2),
                 U("DrainTimeoutMillis", 4), U("LastAcceptedRequestID", 8),
                 U("LastAcceptedTransferID", 8), Str("Message")>>]

DecodeCloseMessage ==
    [least |-> 12,
     reads |-> <<U("ReasonCode", 4), OneOf("Flags", 2, CloseFlags), Zero(2),
                 U("DrainTimeoutMillis", 4)>>]

DecodeWindow ==
    [least |-> 24,
     reads |-> <<U("TransferID", 8), U("WindowBytes", 8), U("WindowChunks", 4),
                 OneOf("Flags", 2, {1, 2}), Zero(2)>>]

DecodeTransferResumeView ==
    [least |-> 24,
     reads |-> <<U("TransferID", 8), U("ReceivedBytes", 8), U("NextChunk", 4), Str("Token")>>]

DecodeTransferStateMessage ==
    [least |-> 24,
     reads |-> <<U("TransferID", 8), U("ReceivedBytes", 8), U("NextChunk", 4),
                 U("Flags", 2), U("ReasonCode", 2)>>]

DecodeAuthRequestView ==
    [least |-> 12,
     reads |-> <<U("Method", 2), U("Flags", 2), U("AuthSchemaID", 4), Str("Payload")>>]

DecodeAuthAcceptView == [least |-> 4, reads |-> <<Str("UserID")>>]

DecodeAuthRejectView ==
    [least |-> 8, reads |-> <<U("StatusCode", 2), U("ReasonCode", 2), Str("Message")>>]

DecodeTransferBegin ==
    [least |-> 72,
     reads |-> <<U("TotalSize", 8), U("ChunkSize", 4), U("ChunkCount", 4),
                 U("ContentType", 4), U("Flags", 4), Raw("Checksum", 32), Str("Name"),
                 Str("Event"), Str("Field"), U("Index", 4),
                 Many("Parts", TransferPart, FALSE), Many("Fields", TransferField, TRUE)>>]

DecodeNack ==
    [least |-> 20,
     reads |-> <<U("TransferID", 8), U("ChunkFrom", 4), U("ChunkTo", 4),
                 OneOf("ReasonCode", 2, 1..7), OneOf("Flags", 2, {0})>>]

DecodeCancel ==
    [least |-> 12,
     reads |-> <<U("TransferID", 8), OneOf("ReasonCode", 2, 1..5), OneOf("Flags", 2, 0..3)>>]

DecodeCancelAck ==
    [least |-> 16, reads |-> <<U("TransferID", 8), OneOf("Status", 1, 1..3), Zero(7)>>]

DecodeAck ==
    [least |-> 24,
     reads |-> <<U("TransferID", 8), U("ChunkFrom", 4), U("ChunkTo", 4),
                 U("ReceivedBytes", 8)>>]

\* validateHeaderValues: any of First, Last, AckRequest and Control; the flags
\* of encrypted and compressed frames are known and refused
FrameFlags == {f \in 0..39 : f % 32 < 8}

DecodeFrameView ==
    [least |-> 40,
     reads |-> <<OneOf("Version", 1, {1}), OneOf("FrameType", 1, 1..23),
                 OneOf("Flags", 2, FrameFlags), OneOf("Priority", 1, 0..4),
                 OneOf("HeaderLength", 1, {40}), OneOf("ChannelID", 2, 0..4),
                 OneOf("PayloadOffset", 2, {40}), OneOf("HeaderFlags", 2, {0}),
                 U("PayloadLength", 4), U("SchemaID", 4), U("RequestID", 8),
                 U("TransferID", 8), U("ChunkID", 4), Rest("Payload")>>]

-----------------------------------------------------------------------------
(* Running a table.                                                        *)

PutOne(put, value) ==
    CASE put.is = "uint" -> PutUint(value, put.width)
      [] put.is = "string" -> PutString(value)
      [] put.is \in {"raw", "rest"} -> value

PutItem(items, item) ==
    FlattenSeq([i \in DOMAIN items |-> PutOne(items[i], item[items[i].name])])

PutMany(put, list) ==
    IF put.optional /\ list = <<>> THEN <<>>
    ELSE PutUint(Len(list), 4) \o FlattenSeq([i \in DOMAIN list |-> PutItem(put.items, list[i])])

\* transferFieldsPayloadSize64 and transferPartsPayloadSize64
ManySize(put, list) ==
    LET fixed == IF put.items = TransferPart THEN 24 ELSE 8
        strings == {i \in DOMAIN put.items : put.items[i].is = "string"}
        size[i \in 0..Len(list)] ==
            IF i = 0 THEN 4
            ELSE size[i - 1] + fixed
                 + SumFunctionOnSet([k \in strings |-> Len(list[i][put.items[k].name])], strings)
    IN  IF put.optional /\ list = <<>> THEN 0 ELSE size[Len(list)]

PayloadSize(enc, m) ==
    LET extra(put) == CASE put.is \in {"string", "rest"} -> Len(m[put.name])
                        [] put.is = "list" -> ManySize(put, m[put.name])
                        [] OTHER -> 0
    IN  enc.fixed + SumFunction([i \in DOMAIN enc.puts |-> extra(enc.puts[i])])

\* What the encoder leaves in its buffer: old[i] where it writes nothing
Encode(enc, m, dst) ==
    LET old == IF enc.fresh THEN [i \in DOMAIN dst |-> 0] ELSE dst
        out[i \in 0..Len(enc.puts)] ==
            IF i = 0 THEN <<>>
            ELSE LET put == enc.puts[i]
                     before == out[i - 1]
                     at == Len(before)
                 IN  before \o
                     CASE put.is = "clear" -> Zeros(put.width)
                       [] put.is = "skip" -> SubSeq(old, at + 1, at + put.width)
                       [] put.is = "list" -> PutMany(put, m[put.name])
                       [] OTHER -> PutOne(put, m[put.name])
        written == out[Len(enc.puts)]
    IN  [i \in 1..PayloadSize(enc, m) |-> IF i <= Len(written) THEN written[i] ELSE old[i]]

Refused == [ok |-> FALSE, pos |-> 0, got |-> <<>>]

Got(d, n, name, value) == [ok |-> TRUE, pos |-> d.pos + n, got |-> d.got @@ (name :> value)]

checkedPayloadEnd(payload, start, length) ==
    length <= Len(payload) - start

Next4(payload, pos) == Uint(SubSeq(payload, pos + 1, pos + 4))

ReadString(payload, d, name) ==
    LET n == Next4(payload, d.pos)
        from == d.pos + 4
    IN  IF from > Len(payload) \/ ~checkedPayloadEnd(payload, from, n) THEN Refused
        ELSE Got(d, 4 + n, name, SubSeq(payload, from + 1, from + n))

ReadBytes(payload, d, read) ==
    LET bytes == SubSeq(payload, d.pos + 1, d.pos + read.width)
        n == Uint(bytes)
    IN  CASE d.pos + read.width > Len(payload) -> Refused
          [] read.is = "zero" ->
                IF bytes = Zeros(read.width) THEN [d EXCEPT !.pos = @ + read.width] ELSE Refused
          [] read.is = "raw" -> Got(d, read.width, read.name, bytes)
          [] read.is = "uint" ->
                IF read.in # {} /\ n \notin read.in THEN Refused
                ELSE Got(d, read.width, read.name, n)

ReadOne(payload, d, read) ==
    IF ~d.ok THEN d
    ELSE IF read.is = "string" THEN ReadString(payload, d, read.name)
    ELSE ReadBytes(payload, d, read)

ReadItem(payload, pos, items) ==
    LET d[i \in 0..Len(items)] ==
            IF i = 0 THEN [ok |-> TRUE, pos |-> pos, got |-> <<>>]
            ELSE ReadOne(payload, d[i - 1], items[i])
    IN  d[Len(items)]

\* decodeTransferFields and decodeTransferParts
ReadMany(payload, d, read) ==
    LET limit == 1024
        least == IF read.items = TransferPart THEN 24 ELSE 8
        count == Next4(payload, d.pos)
        item[i \in 0..count] ==
            IF i = 0 THEN [ok |-> TRUE, pos |-> d.pos + 4, got |-> <<>>]
            ELSE LET before == item[i - 1]
                     next == ReadItem(payload, before.pos, read.items)
                 IN  IF before.ok /\ next.ok THEN [next EXCEPT !.got = Append(before.got, @)]
                     ELSE Refused
    IN  IF read.optional /\ d.pos = Len(payload) THEN Got(d, 0, read.name, <<>>)
        ELSE IF \/ d.pos + 4 > Len(payload) \/ count > limit
                \/ count * least > Len(payload) - d.pos - 4 THEN Refused
        ELSE IF ~item[count].ok THEN Refused
        ELSE Got(d, item[count].pos - d.pos, read.name, item[count].got)

ReadRest(payload, d, name) ==
    IF d.got.PayloadLength # Len(payload) - d.pos THEN Refused
    ELSE Got(d, d.got.PayloadLength, name, SubSeq(payload, d.pos + 1, Len(payload)))

\* The message, or Refused; nothing may be left over
Decode(dec, payload) ==
    LET d[i \in 0..Len(dec.reads)] ==
            LET read == dec.reads[i]
                before == d[i - 1]
            IN  IF i = 0 THEN [ok |-> Len(payload) >= dec.least, pos |-> 0, got |-> <<>>]
                ELSE IF ~before.ok THEN Refused
                ELSE CASE read.is = "list" -> ReadMany(payload, before, read)
                       [] read.is = "rest" -> ReadRest(payload, before, read.name)
                       [] OTHER -> ReadOne(payload, before, read)
        last == d[Len(dec.reads)]
    IN  IF last.ok /\ last.pos = Len(payload) THEN last ELSE Refused

-----------------------------------------------------------------------------
(* StreamTransport: frames on a byte stream, each after its length.  A     *)
(* write that fails, or a connection that ends, cuts the stream anywhere.  *)

HeaderSize == 40

SendFrame(frame) == PutUint(Len(frame), 4) \o frame

ReadFrame(stream, pos, maxFrame) ==
    LET n == Next4(stream, pos)
    IN  IF pos + 4 > Len(stream) THEN Refused
        ELSE IF n < HeaderSize \/ n > maxFrame \/ pos + 4 + n > Len(stream) THEN Refused
        ELSE [ok |-> TRUE, pos |-> pos + 4 + n, got |-> SubSeq(stream, pos + 5, pos + 4 + n)]

\* The frames the read loop gets from the stream before an error ends it
ReadFrames(stream, maxFrame) ==
    LET reads[i \in 0..Len(stream)] ==
            IF i = 0 THEN [ok |-> TRUE, pos |-> 0, got |-> <<>>]
            ELSE LET before == reads[i - 1]
                     next == ReadFrame(stream, before.pos, maxFrame)
                 IN  IF before.ok /\ next.ok
                     THEN [next EXCEPT !.got = Append(before.got, @)]
                     ELSE [before EXCEPT !.ok = FALSE]
    IN  reads[Len(stream) \div HeaderSize].got

-----------------------------------------------------------------------------
(* The messages checked: numbers that tell the fields apart, at both ends  *)
(* of what a decoder allows, strings of up to two bytes, lists of up to    *)
(* two.                                                                    *)

Codecs ==
    {<<EncodeHelloMessage, DecodeHelloMessage>>, <<EncodeTextMessageInto, DecodeTextMessage>>,
     <<EncodeEventMessageInto, DecodeEventMessageView>>,
     <<EncodeErrorMessageInto, DecodeErrorMessageView>>,
     <<EncodeGoAwayInto, DecodeGoAwayView>>, <<EncodeCloseMessage, DecodeCloseMessage>>,
     <<EncodeWindowInto, DecodeWindow>>,
     <<EncodeTransferResumeInto, DecodeTransferResumeView>>,
     <<EncodeTransferStateMessageInto, DecodeTransferStateMessage>>,
     <<EncodeAuthRequestInto, DecodeAuthRequestView>>,
     <<EncodeAuthAcceptInto, DecodeAuthAcceptView>>,
     <<EncodeAuthRejectInto, DecodeAuthRejectView>>,
     <<EncodeTransferBeginInto, DecodeTransferBegin>>, <<EncodeNack, DecodeNack>>,
     <<EncodeCancel, DecodeCancel>>, <<EncodeCancelAck, DecodeCancelAck>>,
     <<EncodeAck, DecodeAck>>}

Samples == [high : BOOLEAN, phase : 0..2, parts : 0..2]

SamplesOf(dec) ==
    {s \in Samples : s.parts = 0 \/ \E i \in DOMAIN dec.reads : dec.reads[i].is = "list"}

StringAt(i, s) == [k \in 1..(i + s.phase) % 3 |-> i + k]

SampleOne(read, i, s) ==
    CASE read.is = "string" -> StringAt(i, s)
      [] read.is = "raw" -> [k \in 1..read.width |-> k]
      [] read.is = "uint" ->
            IF read.in # {} THEN (IF s.high THEN Max(read.in) ELSE Min(read.in))
            ELSE IF ~s.high THEN 0
            ELSE IF read.width = 1 THEN i ELSE 256 * i + i + 1

SampleItem(items, n, s) ==
    LET names == {items[i].name : i \in DOMAIN items}
        index(name) == CHOOSE i \in DOMAIN items : items[i].name = name
    IN  [name \in names |-> SampleOne(items[index(name)], 20 * n + index(name), s)]

Sample(dec, s) ==
    LET fields == {i \in DOMAIN dec.reads : dec.reads[i].is # "zero"}
        names == {dec.reads[i].name : i \in fields}
        index(name) == CHOOSE i \in fields : dec.reads[i].name = name
        count(read) == IF read.optional THEN (s.parts + s.phase) % 3 ELSE s.parts
    IN  [name \in names |->
            LET read == dec.reads[index(name)]
            IN  IF read.is = "list"
                THEN [n \in 1..count(read) |-> SampleItem(read.items, n, s)]
                ELSE IF read.is = "rest" THEN StringAt(1, s)
                ELSE SampleOne(read, index(name), s)]

\* What a pooled buffer may hold from its last use
Dirty == [i \in 1..200 |-> 77]

WithoutFields(m) == IF "Fields" \in DOMAIN m THEN [m EXCEPT !.Fields = <<>>] ELSE m

\* Each payload decoder gives back what the encoder was given, whatever the
\* buffer held before; it takes no payload cut short, except one cut exactly
\* where the optional fields begin, and none with a byte too many
PayloadsDecode ==
    \A c \in Codecs : \A s \in SamplesOf(c[2]) :
        LET m == Sample(c[2], s)
            payload == Encode(c[1], m, Dirty)
            decoded(p) == Decode(c[2], p)
        IN  /\ decoded(payload).ok /\ decoded(payload).got = m
            /\ ~decoded(Append(payload, 0)).ok
            /\ \A n \in 0..Len(payload) - 1 :
                    LET cut == decoded(SubSeq(payload, 1, n))
                    IN  cut.ok => /\ cut.got = WithoutFields(m) /\ cut.got # m

\* EncodeFrameInto fills in four of the fields itself
FrameMessage(s) ==
    LET m == Sample(DecodeFrameView, s)
    IN  [m EXCEPT !.PayloadLength = Len(m.Payload)]

FramesOf(s, t) ==
    <<Encode(EncodeFrameInto, FrameMessage(s), Dirty),
      Encode(EncodeFrameInto, FrameMessage(t), Dirty)>>

\* Of two frames on a stream that is cut anywhere, the reader gets exactly the
\* ones that arrived whole, and decodes them to what was sent
StreamSplits ==
    \A s, t \in SamplesOf(DecodeFrameView) :
        LET frames == FramesOf(s, t)
            stream == SendFrame(frames[1]) \o SendFrame(frames[2])
            first == Len(frames[1]) + 4
        IN  /\ Decode(DecodeFrameView, frames[1]).got = FrameMessage(s)
            /\ \A n \in 0..Len(stream) :
                    ReadFrames(SubSeq(stream, 1, n), Len(stream)) =
                        SubSeq(frames, 1, IF n < first THEN 0 ELSE IF n < Len(stream) THEN 1 ELSE 2)

(***************************************************************************)
(* WireSound: what the encoders of payload.go and frame.go write, into     *)
(* buffers that still hold an earlier message, the decoders on the other   *)
(* side read back unchanged; a payload or a stream that is cut, or a       *)
(* payload with a byte too many, is never taken for another message, but   *)
(* for a payload cut exactly before its optional fields, which is one      *)
(* without them.                                                           *)
(***************************************************************************)
WireSound == PayloadsDecode /\ StreamSplits

=============================================================================
