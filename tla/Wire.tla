-------------------------------- MODULE Wire ---------------------------------
(***************************************************************************)
(* The wire format (OhageyWire.cpp) and the client's reading of replies in *)
(* it (OhageyEngineClient.cpp).                                            *)
(*                                                                         *)
(* A byte is a number, a message a sequence of bytes.  A text is its UTF-8 *)
(* bytes: the conversion from and to UTF-16 is Windows'.  What reads takes *)
(* what is left of the message, and gives what it read and what is left    *)
(* then, or Failed.                                                        *)
(***************************************************************************)
EXTENDS Integers, Sequences, FiniteSets
Seqs == INSTANCE SequencesExt

CONSTANTS
  Base,          \* 0x80 in the code: what a byte of a varint counts up to
  Ints,          \* 2^32: values of an integer
  Longs,         \* 2^64: values of a varint
  Ids,           \* the request ids that are answered
  Results,       \* what an engine may answer
  NewerResults   \* what an engine may that writes fields we do not know

ASSUME WidthsAssumption ==
  /\ Base \in Nat /\ Ints \in Nat /\ Longs \in Nat
  /\ 1 < Base /\ 9 < Ints /\ Ints % 2 = 0     \* 9 is the greatest field number in use
  /\ 9 * 8 + 7 < Longs /\ Ints <= Longs /\ Longs % Ints = 0

Byte == 0..(2 * Base - 1)

Varint          == 0
Fixed64         == 1
LengthDelimited == 2
Fixed32         == 5

-----------------------------------------------------------------------------
(* Writing.  Fields at their default are left out.                         *)

\* Mutant: > for >=.
SeptetsGreater[value \in Nat] ==
  IF value <= Base THEN <<value>>
  ELSE <<(value % Base) + Base>> \o SeptetsGreater[value \div Base]

\* The loop: what is below Base is the last byte.
Septets[value \in Nat] ==
  IF value < Base THEN <<value>>
  ELSE <<(value % Base) + Base>> \o Septets[value \div Base]

\* Mutant: of the loop.
WriteVarintGreater(value) == SeptetsGreater[value]

WriteVarint(value) == Septets[value]

WriteTag(field, type) == WriteVarint(field * 8 + type)

WriteUInt32(field, value) ==
  IF value = 0 THEN <<>> ELSE WriteTag(field, Varint) \o WriteVarint(value)

\* Sign-extended: a negative integer takes all the groups.
WriteInt32(field, value) ==
  IF value = 0 THEN <<>> ELSE WriteTag(field, Varint) \o WriteVarint(value % Longs)

WriteBool(field, value) == WriteUInt32(field, IF value THEN 1 ELSE 0)

WriteMessage(field, body) ==
  WriteTag(field, LengthDelimited) \o WriteVarint(Len(body)) \o body

WriteString(field, value) == IF value = <<>> THEN <<>> ELSE WriteMessage(field, value)

-----------------------------------------------------------------------------
(* Reading.                                                                *)
Failed          == [ok |-> FALSE]
Got(value, left) == [ok |-> TRUE, value |-> value, left |-> left]

From(bytes, i) == SubSeq(bytes, i, Len(bytes))

\* Mutant: as much as there is.
PastShort(bytes, size) ==
  LET n == IF size <= Len(bytes) THEN size ELSE Len(bytes)
  IN Got(SubSeq(bytes, 1, n), From(bytes, n + 1))

\* Require, and past it.
Past(bytes, size) ==
  IF size <= Len(bytes) THEN Got(SubSeq(bytes, 1, size), From(bytes, size + 1)) ELSE Failed

\* A byte that is not the last, and what the rest comes to.
More(byte, rest) ==
  IF rest.ok THEN Got((byte % Base) + Base * rest.value, rest.left) ELSE Failed

\* Bytes of the longest varint.
MaxSeptets == Len(WriteVarint(Longs - 1))

(* The loop: with no bytes left, or none that may belong to it, it fails.  *)
ReadSeptets[n \in 0..MaxSeptets] ==
  [bytes \in Seq(Byte) |->
     IF n = 0 \/ bytes = <<>> THEN Failed
     ELSE IF Head(bytes) < Base THEN Got(Head(bytes), Tail(bytes))
     ELSE More(Head(bytes), ReadSeptets[n - 1][Tail(bytes)])]

\* What does not fit in the last group is cut off.
Narrowed(read) == IF read.ok THEN Got(read.value % Longs, read.left) ELSE Failed

ReadVarint(bytes) == Narrowed(ReadSeptets[MaxSeptets][bytes])

UInt32(raw) == raw % Ints

Int32(raw) == IF UInt32(raw) < Ints \div 2 THEN UInt32(raw) ELSE UInt32(raw) - Ints

Counted(length) == IF length.ok THEN Past(length.left, length.value) ELSE Failed

ReadMessage(bytes) == Counted(ReadVarint(bytes))

\* Mutant: only what is known has a value.
ReadValueKnown(type, bytes) ==
  CASE type = Varint          -> ReadVarint(bytes)
    [] type = LengthDelimited -> ReadMessage(bytes)
    [] OTHER                  -> Failed

(* The value of a field, as SkipField goes past it: a field that is read   *)
(* takes as much.  Groups end the reading.                                 *)
ReadValue(type, bytes) ==
  CASE type = Varint          -> ReadVarint(bytes)
    [] type = LengthDelimited -> ReadMessage(bytes)
    [] type = Fixed64         -> Past(bytes, 8)
    [] type = Fixed32         -> Past(bytes, 4)
    [] OTHER                  -> Failed

FieldOf(raw, read) ==
  IF read.ok
  THEN Got([number |-> UInt32(raw \div 8), type |-> raw % 8, value |-> read.value], read.left)
  ELSE Failed

\* ReadTag: field 0 ends the reading.
FieldAfter(tag) ==
  IF tag.ok /\ UInt32(tag.value \div 8) # 0
  THEN FieldOf(tag.value, ReadValue(tag.value % 8, tag.left))
  ELSE Failed

ReadField(bytes) == FieldAfter(ReadVarint(bytes))

(* The loop of every message: all its fields, in order, and whether the    *)
(* end was reached.                                                        *)
Ahead(field, rest) ==
  IF field.ok THEN [rest[field.left] EXCEPT !.fields = <<field.value>> \o @]
              ELSE [ok |-> FALSE, fields |-> <<>>]

Fields[bytes \in Seq(Byte)] ==
  IF bytes = <<>> THEN [ok |-> TRUE, fields |-> <<>>] ELSE Ahead(ReadField(bytes), Fields)

Concat(parts) == Seqs!FlattenSeq(parts)

\* The values of one field, in order.
ValueOf(field, number, type) ==
  IF field.number = number /\ field.type = type THEN <<field.value>> ELSE <<>>

Values(fields, number, type) ==
  Concat([i \in DOMAIN fields |-> ValueOf(fields[i], number, type)])

\* A field that comes twice: the last counts.
Scalar(fields, number, type, default) ==
  LET values == Values(fields, number, type)
  IN IF values = <<>> THEN default ELSE Seqs!Last(values)

Integer(fields, number) == Int32(Scalar(fields, number, Varint, 0))
Flag(fields, number)    == Scalar(fields, number, Varint, 0) # 0
Text(fields, number)    == Scalar(fields, number, LengthDelimited, <<>>)

-----------------------------------------------------------------------------
(* The messages of a reply: what each parser makes of the bytes.           *)
Parsed(ok, value) == [ok |-> ok, value |-> value]

\* Nested messages: one that does not parse fails the whole.
AllOf(each) ==
  Parsed(\A i \in DOMAIN each : each[i].ok, [i \in DOMAIN each |-> each[i].value])

EachOf(bodies, Parse(_)) == AllOf([i \in DOMAIN bodies |-> Parse(bodies[i])])

Nested(fields, number, Parse(_)) == EachOf(Values(fields, number, LengthDelimited), Parse)

SegmentOf(m) == Parsed(m.ok, [text |-> Text(m.fields, 1), reading |-> Text(m.fields, 2)])

ParseSegment(bytes) == SegmentOf(Fields[bytes])

CandidateOf(m, segments) ==
  Parsed(m.ok /\ segments.ok,
         [text |-> Text(m.fields, 1), reading |-> Text(m.fields, 2),
          score |-> Integer(m.fields, 3), segments |-> segments.value])

CandidateIn(m) == CandidateOf(m, Nested(m.fields, 4, ParseSegment))

ParseCandidate(bytes) == CandidateIn(Fields[bytes])

ConvertOf(m, candidates) ==
  Parsed(m.ok /\ candidates.ok,
         [candidates |-> candidates.value, zenzaiUsed |-> Flag(m.fields, 2)])

ConvertIn(m) == ConvertOf(m, Nested(m.fields, 1, ParseCandidate))

ParseConvertResponse(bytes) == ConvertIn(Fields[bytes])

\* Success is not on the wire.
StatusOf(m) == Parsed(m.ok, Integer(m.fields, 1))

ParseStatusMessage(bytes) == StatusOf(Fields[bytes])

\* Exchange reads as far as the id, whatever comes after.
FirstOf(ids) == IF ids = <<>> THEN 0 ELSE UInt32(ids[1])

IdSeen(ids) == [sawId |-> ids # <<>>, replyId |-> FirstOf(ids)]

ReplyId(reply) == IdSeen(Values(Fields[reply].fields, 1, Varint))

\* The status of the last call stays if the reply has none.
CodeOf(statuses, lastStatus) == IF statuses = <<>> THEN lastStatus ELSE Seqs!Last(statuses)

(* A failure has no body; a success without one is no reply.  No engine    *)
(* sends two.                                                              *)
ResponseOf(ok, code, bodies) ==
  CASE ~ok                             -> [result |-> "BadResponse"]
    [] ok /\ code # 0                  -> [result |-> "Status", status |-> code]
    [] ok /\ code = 0 /\ bodies = <<>> -> [result |-> "BadResponse"]
    [] OTHER                           -> [result |-> "Ok", body |-> Seqs!Last(bodies)]

ResponseWith(m, status, body, lastStatus) ==
  ResponseOf(m.ok /\ status.ok /\ body.ok, CodeOf(status.value, lastStatus), body.value)

ResponseIn(m, lastStatus) ==
  ResponseWith(m, Nested(m.fields, 2, ParseStatusMessage),
               Nested(m.fields, 3, ParseConvertResponse), lastStatus)

ReadResponse(reply, lastStatus) == ResponseIn(Fields[reply], lastStatus)

-----------------------------------------------------------------------------
(* What the engine writes: SwiftProtobuf, in the order of the numbers.     *)
WriteSegment(s) == WriteString(1, s.text) \o WriteString(2, s.reading)

CandidateFields(c) ==
  <<WriteString(1, c.text), WriteString(2, c.reading), WriteInt32(3, c.score)>>
    \o [i \in DOMAIN c.segments |-> WriteMessage(4, WriteSegment(c.segments[i]))]

ResultFields(r) ==
  [i \in DOMAIN r.candidates |-> WriteMessage(1, Concat(CandidateFields(r.candidates[i])))]
    \o <<WriteBool(2, r.zenzaiUsed)>>

ReplyFields(id, code, result) ==
  <<WriteUInt32(1, id), WriteMessage(2, WriteInt32(1, code))>>
    \o (IF code = 0 THEN <<WriteMessage(3, Concat(ResultFields(result)))>> ELSE <<>>)

Texts      == Seq(Byte)
Segments   == [text : Texts, reading : Texts]
Scores     == (-(Ints \div 2))..((Ints \div 2) - 1)
Candidates == [text : Texts, reading : Texts, score : Scores, segments : Seq(Segments)]

\* Fields of a later engine: of each type, and a known number with another.
Unknown ==
  {WriteUInt32(9, 5), WriteMessage(7, <<1>>), WriteUInt32(1, 1), WriteTag(8, Fixed64) \o
   [i \in 1..8 |-> 2 * Base - 1], WriteTag(8, Fixed32) \o [i \in 1..4 |-> 0]}

\* One of them among the fields, in the place i.
With(fields, unknown, i) == Concat(Seqs!InsertAt(fields, i, unknown))

Gaps(fields) == 1..(Len(fields) + 1)

Sent(bytes, id, meant) == [bytes |-> bytes, id |-> id, meant |-> meant]

Whole(id, result) == Sent(Concat(ReplyFields(id, 0, result)), id, result)

\* With a field more in candidate k, in its place i.
NewerResult(r, unknown, k, i) ==
  Concat([ResultFields(r) EXCEPT
            ![k] = WriteMessage(1, With(CandidateFields(r.candidates[k]), unknown, i))])

\* A field more in the envelope, after the id, or in a candidate.
Newer(id, r, unknown) ==
  LET outer == ReplyFields(id, 0, r)
  IN {Sent(With(outer, unknown, i), id, r) : i \in Gaps(outer) \ {1}}
       \union UNION {
         {Sent(Concat([outer EXCEPT ![3] = WriteMessage(3, NewerResult(r, unknown, k, i))]), id, r) :
            i \in Gaps(CandidateFields(r.candidates[k]))} : k \in DOMAIN r.candidates}

Replies ==
  {Whole(id, r) : id \in Ids, r \in Results}
    \union UNION {Newer(id, r, unknown) : id \in Ids \ {0}, r \in NewerResults, unknown \in Unknown}

ASSUME RepliesAssumption ==
  /\ Ids \subseteq 0..(Ints - 1) /\ NewerResults \subseteq Results
  /\ Results \subseteq [candidates : Seq(Candidates), zenzaiUsed : BOOLEAN]
  /\ \A sent \in Replies : Len(sent.bytes) < Longs

\* What Exchange and ReadResponse find in bytes.
Read(bytes) == [id |-> ReplyId(bytes), reply |-> ReadResponse(bytes, 0)]

\* Mutant: the id is not compared.
CorrelatedAnyway(read, requestId) ==
  IF read.id.sawId THEN read.reply ELSE [result |-> "BadResponse"]

(* "Correlate before the caller sees anything": what a call with this id   *)
(* returns.  A reply without an id answers none.                           *)
Correlated(read, requestId) ==
  IF read.id.sawId /\ read.id.replyId = requestId THEN read.reply
                                                  ELSE [result |-> "BadResponse"]

UpTo(bytes) == {SubSeq(bytes, 1, n) : n \in 0..Len(bytes)}

\* Of all that may arrive.
Readings == [bytes \in UNION {UpTo(sent.bytes) : sent \in Replies} |-> Read(bytes)]

-----------------------------------------------------------------------------
VARIABLE arrived    \* a reply in the pipe: what was sent and how much of it came

Nothing == [sent |-> Whole(0, [candidates |-> <<>>, zenzaiUsed |-> FALSE]), size |-> 0]

WireInit == arrived = Nothing

\* The engine writes the whole of a reply.
Answer ==
  /\ arrived = Nothing
  /\ \E sent \in Replies : arrived' = [sent |-> sent, size |-> Len(sent.bytes)]

\* Less of it comes than was written.
CutShort ==
  /\ arrived.size = Len(arrived.sent.bytes)
  /\ \E n \in 0..(Len(arrived.sent.bytes) - 1) : arrived' = [arrived EXCEPT !.size = n]

\* Exchange: it is read and the pipe is free for the next.
Exchanged == arrived # Nothing /\ arrived' = Nothing

WireStep == Answer \/ CutShort \/ Exchanged

NoWire == UNCHANGED arrived

WireTypeOK == arrived.sent \in Replies \union {Nothing.sent} /\ arrived.size \in Nat

Reading == Readings[SubSeq(arrived.sent.bytes, 1, arrived.size)]

(* What the engine answers is what the call it answers returns, whatever  *)
(* is left out for being at its default and however wide the integers are: *)
(* candidates in their order, with their segments.  Fields this client     *)
(* does not know are passed over, at every place and every depth ("the     *)
(* whole point of being forward compatible", OhageyWire.h:71).  Only the   *)
(* answer to request 0, whose id is left out too, is refused.              *)
WholeIsRead ==
  arrived # Nothing /\ arrived.size = Len(arrived.sent.bytes) =>
    Correlated(Reading, arrived.sent.id) =
      IF arrived.sent.id = 0 THEN [result |-> "BadResponse"]
                             ELSE [result |-> "Ok", body |-> arrived.sent.meant]

(* A successful reply that was cut short anywhere is never taken for a     *)
(* success with fewer candidates, and whole or not never for the answer to *)
(* another request: "silently accepting it is how a user ends up with      *)
(* someone else's text" (OhageyEngineClient.cpp:340).                      *)
CutIsBad ==
  arrived # Nothing =>
    \A id \in Ids :
      \/ Correlated(Reading, id) = [result |-> "BadResponse"]
      \/ /\ id = arrived.sent.id
         /\ Correlated(Reading, id) = [result |-> "Ok", body |-> arrived.sent.meant]

(* What one side writes the other reads, across versions, whole or not at  *)
(* all, and under its own id.                                              *)
WireIsRead == WholeIsRead /\ CutIsBad
=============================================================================
