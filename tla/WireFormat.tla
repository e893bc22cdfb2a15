------------------------------ MODULE WireFormat ------------------------------
(***************************************************************************)
(* The bytes of the protocol: what the put_ functions of one end append to *)
(* a buffer and what the recv_ functions of the other make of them.  There *)
(* is no length in front of a message: a reader knows how long it is from  *)
(* the fields it expects, and from the counts it meets on the way.         *)
(*                                                                         *)
(* A string is the sequence of its bytes.  A uint32_t is held as the       *)
(* int32_t of the same bits and a uint64_t as its two halves, because the  *)
(* integers of TLC have 32 bits.                                           *)
(***************************************************************************)
EXTENDS Integers, Sequences, SequencesExt

Byte == 0..255
Bytes == Seq(Byte)

\* A uint16_t, in which a length or a side is sent, and an int32_t.
Word == 65536
Counts == 0..(Word - 1)
Int32 == (-(32767 * Word) - Word)..(32767 * Word + (Word - 1))

\* The kinds of field.  A list follows its own length, a grid its two sides; the
\* rows of both have a layout of their own, with lists in it but none in those.
\* UpTo(n) is a byte that the reader refuses above n; a Bool is 0 or 1 when
\* written, and whatever is not 0 when read.
U8 == [kind |-> "u8"]
U16 == [kind |-> "u16"]
U32 == [kind |-> "u32"]
I32 == [kind |-> "u32"]
U64 == [kind |-> "u64"]
Str == [kind |-> "string"]
Bool == [kind |-> "bool"]
UpTo(n) == [kind |-> "upto", last |-> n]
ListOf(length, layout) == [kind |-> "list", length |-> length, layout |-> layout]
GridOf(layout) == [kind |-> "grid", layout |-> layout]

-----------------------------------------------------------------------------
\* Writing.

PutU16(v) == <<v \div 256, v % 256>>
PutU32(v) == PutU16((v \div 65536) % 65536) \o PutU16(v % 65536)

PutScalar(field, v) ==
    CASE field.kind = "bool"   -> IF v THEN <<1>> ELSE <<0>>
      [] field.kind = "u16"    -> PutU16(v)
      [] field.kind = "u32"    -> PutU32(v)
      [] field.kind = "u64"    -> PutU32(v[1]) \o PutU32(v[2])
      [] field.kind = "string" -> PutU16(Len(v)) \o v
      [] OTHER                 -> <<v>>

\* A row is written field by field, a list or a grid row by row.
PutRow(PutOne(_, _), layout, values) ==
    FlattenSeq([i \in DOMAIN layout |-> PutOne(layout[i], values[i])])
PutRows(PutOne(_, _), layout, rows) ==
    FlattenSeq([i \in DOMAIN rows |-> PutRow(PutOne, layout, rows[i])])
PutField(PutOne(_, _), field, v) ==
    CASE field.kind = "list" -> PutScalar(field.length, Len(v)) \o PutRows(PutOne, field.layout, v)
      [] field.kind = "grid" -> PutU16(v.width) \o PutU16(v.height)
                                \o PutRows(PutOne, field.layout, v.cells)
      [] OTHER               -> PutScalar(field, v)

\* The fields of a row, and those of a message.
PutSimple(field, v) == PutField(PutScalar, field, v)
PutNested(field, v) == PutField(PutSimple, field, v)

\* What a layout makes of the values of its fields.
Put(layout, values) == PutRow(PutNested, layout, values)

\* A message is an opcode and its payload; layouts maps the opcodes to layouts.
PutMessage(layouts, m) == <<m.op>> \o Put(layouts[m.op], m.payload)
PutMessages(layouts, ms) == FlattenSeq([i \in DOMAIN ms |-> PutMessage(layouts, ms[i])])

-----------------------------------------------------------------------------
\* Reading: what was read and the bytes left; or the stream does not hold all of
\* it yet; or the reader throws.
Read(value, rest) == [status |-> "whole", value |-> value, rest |-> rest]
Short == [status |-> "short", value |-> <<>>, rest |-> <<>>]
Bad == [status |-> "bad", value |-> <<>>, rest |-> <<>>]

\* recvall of n bytes, all or nothing, made into a value.
Arrived(bytes, n) == Len(bytes) >= n
Recvall(bytes, n, value) ==
    IF Arrived(bytes, n) THEN Read(value, SubSeq(bytes, n + 1, Len(bytes))) ELSE Short

\* The int32_t of the four bytes after the first i.
Int32At(b, i) ==
    (IF b[i + 1] < 128 THEN b[i + 1] ELSE b[i + 1] - 256) * 16777216
        + 65536 * b[i + 2] + 256 * b[i + 3] + b[i + 4]

GetU8(bytes) == Recvall(bytes, 1, bytes[1])
GetU16(bytes) == Recvall(bytes, 2, 256 * bytes[1] + bytes[2])
GetU32(bytes) == Recvall(bytes, 4, Int32At(bytes, 0))
GetU64(bytes) == Recvall(bytes, 8, <<Int32At(bytes, 0), Int32At(bytes, 4)>>)
GetString(bytes) ==
    LET n == GetU16(bytes)
    IN IF n.status = "whole" THEN Recvall(n.rest, n.value, SubSeq(n.rest, 1, n.value)) ELSE n
GetUpTo(bytes, last) ==
    LET v == GetU8(bytes)
    IN IF v.status = "whole" /\ v.value > last THEN Bad ELSE v
GetBool(bytes) == Recvall(bytes, 1, bytes[1] # 0)

GetScalar(field, bytes) ==
    CASE field.kind = "u8"     -> GetU8(bytes)
      [] field.kind = "upto"   -> GetUpTo(bytes, field.last)
      [] field.kind = "bool"   -> GetBool(bytes)
      [] field.kind = "u16"    -> GetU16(bytes)
      [] field.kind = "u32"    -> GetU32(bytes)
      [] field.kind = "u64"    -> GetU64(bytes)
      [] OTHER                 -> GetString(bytes)

\* A reader is a function of the bytes.  Readers one after the other read their
\* values into a sequence; the first that cannot is the last that tries.
GetNext(got, reader) ==
    LET next == reader[got.rest]
    IN IF got.status # "whole" THEN got
       ELSE IF next.status # "whole" THEN next
       ELSE Read(Append(got.value, next.value), next.rest)
GetEach(readers, bytes) ==
    LET got[i \in 0..Len(readers)] ==
            IF i = 0 THEN Read(<<>>, bytes) ELSE GetNext(got[i - 1], readers[i])
    IN got[Len(readers)]

ScalarReader(field) == [bytes \in Bytes |-> GetScalar(field, bytes)]
RowReader(Reader(_), layout) ==
    [bytes \in Bytes |-> GetEach([i \in DOMAIN layout |-> Reader(layout[i])], bytes)]

\* A length, then as many rows.
ListReader(length, row) ==
    [bytes \in Bytes |->
        LET n == length[bytes]
        IN IF n.status = "whole" THEN GetEach([i \in 1..n.value |-> row], n.rest) ELSE n]

\* Width and height, then as many cells.
SidesReader == [bytes \in Bytes |-> GetEach(<<ScalarReader(U16), ScalarReader(U16)>>, bytes)]
GridReader(cell) ==
    [bytes \in Bytes |->
        LET sides == SidesReader[bytes]
            cells == GetEach([i \in 1..(sides.value[1] * sides.value[2]) |-> cell], sides.rest)
        IN IF sides.status # "whole" THEN sides
           ELSE IF cells.status # "whole" THEN cells
           ELSE Read([width |-> sides.value[1], height |-> sides.value[2], cells |-> cells.value],
                     cells.rest)]

FieldReader(Reader(_), field) ==
    CASE field.kind = "list" -> ListReader(ScalarReader(field.length), RowReader(Reader, field.layout))
      [] field.kind = "grid" -> GridReader(RowReader(Reader, field.layout))
      [] OTHER               -> ScalarReader(field)

SimpleReader(field) == FieldReader(ScalarReader, field)
NestedReader(field) == FieldReader(SimpleReader, field)

\* What a layout reads off the stream, field after field.
Get(layout, bytes) == RowReader(NestedReader, layout)[bytes]

-----------------------------------------------------------------------------
\* The values a field can hold: the type of the argument of its put_, and of a
\* string, a list or a grid what its length or its sides can count (the code throws
\* at a string, a list or a map that they cannot).
IsSequence(v) == Len(v) \in Nat /\ v = [i \in 1..Len(v) |-> v[i]]

FitsScalar(field, v) ==
    \/ field.kind = "u8" /\ v \in Byte
    \/ field.kind = "upto" /\ v \in 0..field.last /\ field.last \in Byte
    \/ field.kind = "bool" /\ v \in BOOLEAN
    \/ field.kind = "u16" /\ v \in Counts
    \/ field.kind = "u32" /\ v \in Int32
    \/ field.kind = "u64" /\ v = <<v[1], v[2]>> /\ v[1] \in Int32 /\ v[2] \in Int32
    \/ field.kind = "string" /\ v \in Bytes /\ Len(v) \in Counts

FitsRow(Fits(_, _), layout, values) ==
    /\ IsSequence(layout) /\ IsSequence(values) /\ Len(values) = Len(layout)
    /\ \A i \in 1..Len(layout) : Fits(layout[i], values[i])
FitsRows(Fits(_, _), layout, rows) ==
    IsSequence(rows) /\ \A i \in 1..Len(rows) : FitsRow(Fits, layout, rows[i])
FitsField(Fits(_, _), field, v) ==
    \/ /\ field.kind = "list"
       /\ field.length \in {U8, U16} /\ FitsScalar(field.length, Len(v))
       /\ FitsRows(Fits, field.layout, v)
    \/ /\ field.kind = "grid"
       /\ v = [width |-> v.width, height |-> v.height, cells |-> v.cells]
       /\ v.width \in Counts /\ v.height \in Counts /\ Len(v.cells) = v.width * v.height
       /\ FitsRows(Fits, field.layout, v.cells)
    \/ FitsScalar(field, v)

FitsSimple(field, v) == FitsField(FitsScalar, field, v)
FitsNested(field, v) == FitsField(FitsSimple, field, v)
Fits(layout, values) == FitsRow(FitsNested, layout, values)
===============================================================================
