------------------------------ MODULE Encodings ------------------------------
(* What LevelDB writes into its files and memtables: numbers of fixed and of  *)
(* variable length (util/coding.cc), batches of writes (WriteBatch), entries  *)
(* of the memtable, and version edits, the records of the manifest.           *)
(*                                                                            *)
(* A byte has DigitBits bits and one more that says whether a variable number *)
(* goes on; a number of "32 bits" has Bits32 of them, one of "64 bits" Bits64.*)
(* Keys, values and names are sequences of bytes.                             *)
(*                                                                            *)
(* And the checksum of LevelDB's log records and table blocks (util/crc32c.cc)*)
(* A register or a byte is the set of the bits that are 1, the lowest bit 0,  *)
(* so that exclusive or is symmetric difference. A register has four bytes,   *)
(* and a byte ByteBits bits: 8 in the code, where Poly is Castagnoli's.       *)
EXTENDS Integers, SequencesExt

CONSTANTS
    DigitBits,     \* 7 in the code
    Bits32, Bits64,
    NumLevels,     \* config::kNumLevels
    Strings,       \* the keys, values and names there are
    Numbers,       \* file numbers, sizes and sequence numbers
    MaxParts       \* bound: writes of a batch, entries of an edit

VARIABLES
    part,      \* which of the three is built: "batch", "edit" or "text"
    batch,     \* WriteBatch::rep_
    writes,    \* the writes that are in it
    edit,      \* VersionEdit
    text       \* digits for ConsumeDecimalNumber

encVars == <<part, batch, writes, edit, text>>

-----------------------------------------------------------------------------
(* Numbers *)

Digit == 2 ^ DigitBits
ByteValues == 2 * Digit
Limit32 == 2 ^ Bits32
Limit64 == 2 ^ Bits64

DigitsOf(bits) == (bits + DigitBits - 1) \div DigitBits
BytesOf(bits) == (bits + DigitBits) \div (DigitBits + 1)

\* Lowest byte first
EncodeFixed(value, bits) ==
    [i \in 1..BytesOf(bits) |-> (value \div ByteValues ^ (i - 1)) % ByteValues]

RECURSIVE DecodeFixed(_)
DecodeFixed(bytes) ==
    IF bytes = <<>> THEN 0 ELSE Head(bytes) + ByteValues * DecodeFixed(Tail(bytes))

RECURSIVE EncodeVarint(_)
EncodeVarint(v) ==
    IF v < Digit THEN <<v>> ELSE <<Digit + (v % Digit)>> \o EncodeVarint(v \div Digit)

RECURSIVE VarintLength(_)
VarintLength(v) == IF v < Digit THEN 1 ELSE 1 + VarintLength(v \div Digit)

\* What a Get returns: the value and what is left of the input.
Failed == [ok |-> FALSE]
Got(value, rest) == [ok |-> TRUE, value |-> value, rest |-> rest]
Behind(input, n) == SubSeq(input, n + 1, Len(input))

\* The last digit may have bits that do not fit; they are shifted out.
RECURSIVE VarintFrom(_, _, _, _)
VarintFrom(input, bits, shift, low) ==
    IF input = <<>> \/ shift >= bits THEN Failed
    ELSE IF Head(input) >= Digit
    THEN VarintFrom(Tail(input), bits, shift + DigitBits, low + (Head(input) - Digit) * 2 ^ shift)
    ELSE Got((low + Head(input) * 2 ^ shift) % 2 ^ bits, Tail(input))

GetVarint32(input) == VarintFrom(input, Bits32, 0, 0)
GetVarint64(input) == VarintFrom(input, Bits64, 0, 0)

LengthPrefixed(value) == EncodeVarint(Len(value)) \o value

SliceBehind(n) ==
    IF ~n.ok THEN Failed
    ELSE IF Len(n.rest) < n.value THEN Failed
    ELSE Got(SubSeq(n.rest, 1, n.value), Behind(n.rest, n.value))

GetLengthPrefixedSlice(input) == SliceBehind(GetVarint32(input))

GetOne(kind, input) ==
    CASE kind = "number" -> GetVarint64(input)
      [] kind = "slice" -> GetLengthPrefixedSlice(input)
      [] kind = "level" -> GetVarint32(input)

\* Several one behind the other: got and what follows it, if there is all of it.
RECURSIVE GetBehind(_, _, _)
GetBehind(got, kind, getters) ==
    IF ~got.ok THEN Failed
    ELSE IF kind = "level" /\ Last(got.value) >= NumLevels THEN Failed
    ELSE IF getters = <<>> THEN got
    ELSE LET one == GetOne(Head(getters), got.rest)
         IN GetBehind(IF one.ok THEN Got(Append(got.value, one.value), one.rest) ELSE Failed,
                      Head(getters), Tail(getters))

GetAll(input, getters) == GetBehind(Got(<<>>, input), "none", getters)

-----------------------------------------------------------------------------
(* WriteBatch: sequence number, count, and a record for each write            *)
(* [type, key, value], the value of a deletion <<>>.                          *)

TypeDeletion == 0
TypeValue == 1
BatchHeader == BytesOf(Bits64) + BytesOf(Bits32)

EmptyBatch == [i \in 1..BatchHeader |-> 0]

Sequence(b) == DecodeFixed(SubSeq(b, 1, BytesOf(Bits64)))
Count(b) == DecodeFixed(SubSeq(b, BytesOf(Bits64) + 1, BatchHeader))

WithSequence(b, n) == EncodeFixed(n, Bits64) \o Behind(b, BytesOf(Bits64))
WithCount(b, n) ==
    SubSeq(b, 1, BytesOf(Bits64)) \o EncodeFixed(n, Bits32) \o Behind(b, BatchHeader)

RecordOf(w) ==
    <<w.type>> \o LengthPrefixed(w.key)
    \o (IF w.type = TypeValue THEN LengthPrefixed(w.value) ELSE <<>>)

BatchPut(b, w) == WithCount(b, Count(b) + 1) \o RecordOf(w)

BatchAppend(b, source) ==
    WithCount(b, Count(b) + Count(source)) \o Behind(source, BatchHeader)

\* The records from input on, behind the calls of the handler that were made: those
\* before a bad record are.
Stopped(calls, ok) == [calls |-> calls, ok |-> ok]
Strings2(tag) == IF tag = TypeValue THEN <<"slice", "slice">> ELSE <<"slice">>

RECURSIVE Records(_, _), RecordThen(_, _, _)
Records(calls, input) ==
    IF input = <<>> THEN Stopped(calls, TRUE)
    ELSE IF Head(input) \notin {TypeValue, TypeDeletion} THEN Stopped(calls, FALSE)
    ELSE RecordThen(calls, Head(input), GetAll(Tail(input), Strings2(Head(input))))

RecordThen(calls, tag, strings) ==
    IF ~strings.ok THEN Stopped(calls, FALSE)
    ELSE Records(Append(calls, [type |-> tag, key |-> strings.value[1],
                                value |-> IF tag = TypeValue THEN strings.value[2] ELSE <<>>]),
                 strings.rest)

\* (Mutant: the count is not compared.)
IterateUncounted(b) ==
    IF Len(b) < BatchHeader THEN Stopped(<<>>, FALSE)
    ELSE Records(<<>>, Behind(b, BatchHeader))

CountedAs(n, all) == Stopped(all.calls, all.ok /\ Len(all.calls) = n)

\* WriteBatch::Iterate
Iterate(b) ==
    IF Len(b) < BatchHeader THEN Stopped(<<>>, FALSE)
    ELSE CountedAs(Count(b), Records(<<>>, Behind(b, BatchHeader)))

-----------------------------------------------------------------------------
(* The memtable: an entry is the bytes of its internal key and of its value.  *)

Tag(sequence, type) == EncodeFixed(sequence * ByteValues + type, Bits64)

MemEntry(sequence, w) ==
    LengthPrefixed(w.key \o Tag(sequence, w.type)) \o LengthPrefixed(w.value)

\* What Add takes from the arena for it
EncodedLen(w) ==
    LET key == Len(w.key) + BytesOf(Bits64)
    IN VarintLength(key) + key + VarintLength(Len(w.value)) + Len(w.value)

\* The entry, taken apart again
Parsed(key, value) ==
    [user |-> SubSeq(key, 1, Len(key) - BytesOf(Bits64)), value |-> value,
     tag |-> DecodeFixed(Behind(key, Len(key) - BytesOf(Bits64)))]

EntryOf(strings) == Parsed(strings.value[1], strings.value[2])

\* InsertInto: the writes of a batch, numbered from its sequence number on.
Numbered(calls, sequence) == {MemEntry(sequence + i - 1, calls[i]) : i \in DOMAIN calls}

Inserted(b) == Numbered(Iterate(b).calls, Sequence(b))

\* MemTable::Get: the first entry of the key from the sequence number down.
NoEntry == [found |-> FALSE]
Answer(entry) ==
    IF entry.tag % ByteValues = TypeDeletion THEN [found |-> TRUE, gone |-> TRUE]
    ELSE [found |-> TRUE, gone |-> FALSE, value |-> entry.value]

MemGet(table, key, sequence) ==
    LET entries == {EntryOf(GetAll(bytes, <<"slice", "slice">>)) : bytes \in table}
        seen == {e \in entries : e.user = key /\ e.tag \div ByteValues <= sequence}
    IN IF seen = {} THEN NoEntry
       ELSE Answer(CHOOSE e \in seen : \A o \in seen : o.tag <= e.tag)

-----------------------------------------------------------------------------
(* VersionEdit: a field that is not set is <<>>, one that is set <<value>>.   *)

NewEdit ==
    [comparator |-> <<>>, log |-> <<>>, prevLog |-> <<>>, next |-> <<>>, last |-> <<>>,
     pointers |-> <<>>, deleted |-> {}, new |-> <<>>]

\* Clear leaves the compaction pointers.
ClearEdit(e) == [NewEdit EXCEPT !.pointers = e.pointers]

\* Ordered as the std::set is
Smaller(a, b) == a[1] < b[1] \/ (a[1] = b[1] /\ a[2] < b[2])

Tagged(tag, bytes) == EncodeVarint(tag) \o bytes
Field(tag, values) == FlattenSeq([i \in DOMAIN values |-> Tagged(tag, EncodeVarint(values[i]))])

EncodeTo(e) ==
    LET deleted == SetToSortSeq(e.deleted, Smaller)
    IN FlattenSeq([i \in DOMAIN e.comparator |-> Tagged(1, LengthPrefixed(e.comparator[i]))])
       \o Field(2, e.log) \o Field(9, e.prevLog) \o Field(3, e.next) \o Field(4, e.last)
       \o FlattenSeq([i \in DOMAIN e.pointers |->
              Tagged(5, EncodeVarint(e.pointers[i][1]) \o LengthPrefixed(e.pointers[i][2]))])
       \o FlattenSeq([i \in DOMAIN deleted |->
              Tagged(6, EncodeVarint(deleted[i][1]) \o EncodeVarint(deleted[i][2]))])
       \o FlattenSeq([i \in DOMAIN e.new |->
              Tagged(7, EncodeVarint(e.new[i][1]) \o EncodeVarint(e.new[i][2])
                        \o EncodeVarint(e.new[i][3]) \o LengthPrefixed(e.new[i][4])
                        \o LengthPrefixed(e.new[i][5]))])

GettersOf(tag) ==
    CASE tag = 1 -> <<"slice">>
      [] tag \in {2, 3, 4, 9} -> <<"number">>
      [] tag = 5 -> <<"level", "slice">>
      [] tag = 6 -> <<"level", "number">>
      [] tag = 7 -> <<"level", "number", "number", "slice", "slice">>

WithField(e, tag, v) ==
    CASE tag = 1 -> [e EXCEPT !.comparator = v]
      [] tag = 2 -> [e EXCEPT !.log = v]
      [] tag = 3 -> [e EXCEPT !.next = v]
      [] tag = 4 -> [e EXCEPT !.last = v]
      [] tag = 5 -> [e EXCEPT !.pointers = Append(@, v)]
      [] tag = 6 -> [e EXCEPT !.deleted = @ \union {v}]
      [] tag = 7 -> [e EXCEPT !.new = Append(@, v)]
      [] tag = 9 -> [e EXCEPT !.prevLog = v]

\* [ok, edit]: the fields up to the end of the input, or to what is not one.
Decoded(e, ok) == [ok |-> ok, edit |-> e]

RECURSIVE DecodeFields(_, _), FieldThen(_, _), ValuesThen(_, _, _)
DecodeFields(e, input) ==
    IF input = <<>> THEN Decoded(e, TRUE) ELSE FieldThen(e, GetVarint32(input))

FieldThen(e, tag) ==
    IF ~tag.ok THEN Decoded(e, FALSE)
    ELSE IF tag.value \notin (1..7) \union {9} THEN Decoded(e, FALSE)
    ELSE ValuesThen(e, tag.value, GetAll(tag.rest, GettersOf(tag.value)))

ValuesThen(e, tag, values) ==
    IF ~values.ok THEN Decoded(e, FALSE)
    ELSE DecodeFields(WithField(e, tag, values.value), values.rest)

DecodeFrom(old, bytes) == DecodeFields(ClearEdit(old), bytes)

-----------------------------------------------------------------------------
(* ConsumeDecimalNumber, with which the numbers in file names are read; a     *)
(* character is a digit or 10.                                                *)

MaxNumber == Limit64 - 1

RECURSIVE NumberToString(_)
NumberToString(n) ==
    IF n < 10 THEN <<n>> ELSE Append(NumberToString(n \div 10), n % 10)

RECURSIVE Decimal(_, _)
Decimal(value, in) ==
    IF in = <<>> THEN Got(value, in)
    ELSE IF Head(in) = 10 THEN Got(value, in)
    ELSE IF value > MaxNumber \div 10
            \/ (value = MaxNumber \div 10 /\ Head(in) > MaxNumber % 10) THEN Failed
    ELSE Decimal(value * 10 + Head(in), Tail(in))

ConsumeDecimalNumber(in) ==
    LET d == Decimal(0, in)
    IN IF ~d.ok THEN Failed ELSE IF d.rest = in THEN Failed ELSE d

-----------------------------------------------------------------------------
EncInit ==
    /\ part \in {"batch", "edit", "text"}
    /\ batch = EmptyBatch /\ writes = <<>> /\ edit = NewEdit /\ text = <<>>

Batched(b, ws) ==
    /\ part = "batch" /\ batch' = b /\ writes' = ws
    /\ UNCHANGED <<part, edit, text>>

EncPut(w) ==
    /\ Len(writes) < MaxParts
    /\ Batched(BatchPut(batch, w), Append(writes, w))

\* WriteBatch::Append, here of the batch itself
EncAppend ==
    /\ 2 * Len(writes) <= MaxParts /\ writes # <<>>
    /\ Batched(BatchAppend(batch, batch), writes \o writes)

EncSetSequence(n) == Batched(WithSequence(batch, n), writes)

EncClear == Batched(EmptyBatch, <<>>)

EditParts(e) ==
    Len(e.comparator \o e.log \o e.prevLog \o e.next \o e.last)
    + Len(e.pointers) + Cardinality(e.deleted) + Len(e.new)

EncEdit(tag, v) ==
    /\ part = "edit"
    /\ EditParts(edit) <= MaxParts
    /\ edit' = WithField(edit, tag, v)
    /\ UNCHANGED <<part, batch, writes, text>>

EncCharacter(c) ==
    /\ part = "text" /\ Len(text) < 3
    /\ text' = Append(text, c)
    /\ UNCHANGED <<part, batch, writes, edit>>

Writes == [type : {TypeValue}, key : Strings, value : Strings]
          \union [type : {TypeDeletion}, key : Strings, value : {<<>>}]

EncNext ==
    \/ \E w \in Writes : EncPut(w)
    \/ EncAppend
    \/ \E n \in Numbers : EncSetSequence(n)
    \/ EncClear
    \/ \E tag \in {2, 3, 4, 9}, n \in Numbers : EncEdit(tag, <<n>>)
    \/ \E s \in Strings : EncEdit(1, <<s>>)
    \/ \E l \in {0, NumLevels - 1}, n \in Numbers, s \in Strings :
        EncEdit(5, <<l, s>>) \/ EncEdit(6, <<l, n>>) \/ EncEdit(7, <<l, n, n, s, s>>)
    \/ \E c \in 0..10 : EncCharacter(c)

EncSpec == EncInit /\ [][EncNext]_encVars

-----------------------------------------------------------------------------
Cut(bytes, n) == SubSeq(bytes, 1, n)

RECURSIVE Newest(_, _)
Newest(ws, key) ==
    IF ws = <<>> THEN [found |-> FALSE]
    ELSE LET w == ws[Len(ws)]
         IN IF w.key # key THEN Newest(Front(ws), key)
            ELSE IF w.type = TypeDeletion THEN [found |-> TRUE, gone |-> TRUE]
            ELSE [found |-> TRUE, gone |-> FALSE, value |-> w.value]

\* A batch gives back its writes, whose memtable then answers, at every sequence
\* number, with the last of them up to it. One that was cut off is never taken for
\* whole, and of its writes only the first are applied.
BatchKept ==
    /\ Iterate(batch) = Stopped(writes, TRUE)
    /\ \A s \in Strings, i \in 0..Len(writes) :
         MemGet(Inserted(batch), s, Sequence(batch) + i - 1) = Newest(Cut(writes, i), s)
    /\ \A i \in DOMAIN writes : EncodedLen(writes[i]) = Len(MemEntry(Sequence(batch), writes[i]))
    /\ \A n \in 0..(Len(batch) - 1) :
         \E it \in {Iterate(Cut(batch, n))} : ~it.ok /\ IsPrefix(it.calls, writes)

\* An edit gives back its fields; of one that was cut off, what decodes without error
\* is what is there.
EditKept ==
    \E bytes \in {EncodeTo(edit)} :
        /\ DecodeFrom(NewEdit, bytes) = Decoded(edit, TRUE)
        /\ \A n \in 0..Len(bytes) :
             \E d \in {DecodeFrom(NewEdit, Cut(bytes, n))} :
                 d.ok => EncodeTo(d.edit) = Cut(bytes, n)

RECURSIVE NumberIn(_, _)
NumberIn(value, digits) ==
    IF digits = <<>> THEN value ELSE NumberIn(value * 10 + Head(digits), Tail(digits))

\* The digits at the start of a text are its number, unless it is too large for 64 bits.
NumberRead ==
    LET stops == {i \in DOMAIN text : text[i] = 10} \union {Len(text) + 1}
        n == (CHOOSE i \in stops : \A j \in stops : i <= j) - 1
    IN \E value \in {NumberIn(0, Cut(text, n))}, d \in {ConsumeDecimalNumber(text)} :
        /\ d.ok = (n > 0 /\ value <= MaxNumber)
        /\ d.ok => d.value = value /\ d.rest = Behind(text, n)
        /\ d.ok => ConsumeDecimalNumber(NumberToString(value)).value = value

\* What was written is what is read again.
EncodingsMean ==
    /\ part = "batch" => BatchKept
    /\ part = "edit" => EditKept
    /\ part = "text" => NumberRead

-----------------------------------------------------------------------------
(* Checksums *)

CONSTANTS
    ByteBits,
    Poly,          \* the polynomial, its bits reversed
    MaskDelta,     \* kMaskDelta
    MaxData,       \* bound: bytes of the data
    MaxSet         \* bound: those of them that are not zero

VARIABLES
    crcData,       \* the data
    address        \* where it lies, from the last multiple of four on

crcVars == <<crcData, address>>

Word == 0..(4 * ByteBits - 1)
Byte == SUBSET (0..(ByteBits - 1))

Xor(a, b) == (a \ b) \union (b \ a)
ShiftRight(v, n) == {i - n : i \in {j \in v : j >= n}}
LowByte(v) == v \intersect (0..(ByteBits - 1))

RECURSIVE Divided(_, _)
Divided(v, bits) ==
    IF bits = 0 THEN v
    ELSE Divided(Xor(ShiftRight(v, 1), IF 0 \in v THEN Poly ELSE {}), bits - 1)

\* The tables: a register one byte on, and each byte of a register 16 bytes on.
kByteExtensionTable == [c \in Byte |-> Divided(c, ByteBits)]

kStrideExtensionTable ==
    [k \in 0..3 |-> [c \in Byte |->
        Divided({i + (3 - k) * ByteBits : i \in c}, 16 * ByteBits)]]

STEP1(l, byte) == Xor(kByteExtensionTable[Xor(LowByte(l), byte)], ShiftRight(l, ByteBits))

ReadUint32LE(bytes, s) ==
    UNION {{i + k * ByteBits : i \in bytes[4 * s + k + 1]} : k \in 0..3}

STEP4(crc, word) ==
    FoldLeft(LAMBDA x, k : Xor(x, kStrideExtensionTable[3 - k][LowByte(ShiftRight(crc, k * ByteBits))]),
             word, <<0, 1, 2, 3>>)

STEP4W(l, w) == FoldLeft(STEP1, Xor(w, l), <<{}, {}, {}, {}>>)

Behind4(bytes, n) == SubSeq(bytes, n + 1, Len(bytes))

\* (Mutant: the registers are not turned from word to word.)
RECURSIVE StridedInPlace(_, _)
StridedInPlace(crcs, bytes) ==
    IF Len(bytes) >= 16
    THEN StridedInPlace([s \in 1..4 |-> STEP4(crcs[s], ReadUint32LE(bytes, s - 1))],
                        Behind4(bytes, 16))
    ELSE IF Len(bytes) >= 4
    THEN StridedInPlace([crcs EXCEPT ![1] = STEP4(@, ReadUint32LE(bytes, 0))], Behind4(bytes, 4))
    ELSE FoldLeft(STEP1, FoldLeft(STEP4W, {}, crcs), bytes)

\* From 16 bytes on: four registers, each for every fourth word, over swaths of
\* 16 bytes and then word by word; and the last bytes one at a time.
RECURSIVE Strided(_, _)
Strided(crcs, bytes) ==
    IF Len(bytes) >= 16
    THEN Strided([s \in 1..4 |-> STEP4(crcs[s], ReadUint32LE(bytes, s - 1))], Behind4(bytes, 16))
    ELSE IF Len(bytes) >= 4
    THEN Strided(Tail(crcs) \o <<STEP4(crcs[1], ReadUint32LE(bytes, 0))>>, Behind4(bytes, 4))
    ELSE FoldLeft(STEP1, FoldLeft(STEP4W, {}, crcs), bytes)

Swathed(l, bytes) ==
    IF Len(bytes) < 16 THEN FoldLeft(STEP1, l, bytes)
    ELSE Strided([s \in 1..4 |-> Xor(ReadUint32LE(bytes, s - 1), IF s = 1 THEN l ELSE {})],
                 Behind4(bytes, 16))

\* The bytes up to the first address that is a multiple of four go one by one,
\* if that address is not behind the data.
Extend(crc, bytes, at) ==
    LET lead == (4 - (at % 4)) % 4
        n == IF lead <= Len(bytes) THEN lead ELSE 0
        l == FoldLeft(STEP1, Xor(crc, Word), SubSeq(bytes, 1, n))
    IN Xor(Swathed(l, Behind4(bytes, n)), Word)

Value(bytes, at) == Extend({}, bytes, at)

\* Mask turns the register by half its bits less one, and adds.
Limit == 2 ^ (4 * ByteBits)
Half == 2 * ByteBits
Mask(crc) ==
    (crc \div 2 ^ (Half - 1) + (crc % 2 ^ (Half - 1)) * 2 ^ (Half + 1) + MaskDelta) % Limit
Unmask(masked) ==
    LET rot == (masked + Limit - MaskDelta) % Limit
    IN rot \div 2 ^ (Half + 1) + (rot % 2 ^ (Half + 1)) * 2 ^ (Half - 1)

-----------------------------------------------------------------------------
CrcInit == crcData = <<>> /\ address \in 0..3

CrcAppend(byte) ==
    /\ Len(crcData) < MaxData
    /\ byte # {} => Cardinality({i \in DOMAIN crcData : crcData[i] # {}}) < MaxSet
    /\ crcData' = Append(crcData, byte)
    /\ UNCHANGED address

CrcNext == \E byte \in {{}, {0}, {ByteBits - 1}} : CrcAppend(byte)

CrcSpec == CrcInit /\ [][CrcNext]_crcVars

-----------------------------------------------------------------------------
\* The definition of the checksum: bit by bit, from a register of ones.
Remainder(bytes) ==
    Xor(FoldLeft(LAMBDA l, byte : Divided(Xor(l, byte), ByteBits), Word, bytes), Word)

AsNumber(v) == FoldSet(LAMBDA i, n : n + 2 ^ i, 0, v)

\* The checksum does not depend on where the data lies in memory, nor on the
\* pieces in which it is given: log records are extended with their type and
\* their fragment, tables with their block and its type. The masked form gives
\* the checksum back.
CrcMeans ==
    /\ Value(crcData, address) = Remainder(crcData)
    /\ \A n \in {1, 2, 17} \intersect DOMAIN crcData :
         Extend(Value(SubSeq(crcData, 1, n), address), Behind4(crcData, n), address + n)
            = Remainder(crcData)
    /\ Unmask(Mask(AsNumber(Remainder(crcData)))) = AsNumber(Remainder(crcData))
==============================================================================
