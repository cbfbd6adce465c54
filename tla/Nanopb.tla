------------------------------- MODULE Nanopb -------------------------------
(* nanopb, the C library that encodes the telemetry requests of the Firebase *)
(* pods and decodes the answers (Pods/nanopb), built as its xcconfig says:    *)
(* PB_ENABLE_MALLOC, PB_FIELD_32BIT, not PB_BUFFER_ONLY.                      *)
(*                                                                            *)
(* A message type is a sequence of fields (pb_field_t), a message a sequence  *)
(* of cells, one for each field: has is the has_ member (of a oneof: which_   *)
(* names this member; all members of one are static, or all pointers), v the  *)
(* data. A repeated field's data is a sequence, its count the length; a       *)
(* pointer's is Null or a block of the heap, with the data it points to. The  *)
(* addresses themselves (pData, pSize) are left out. Of an array of fixed     *)
(* size, has says how many entries arrived (fixed_count_size in the code).    *)
(*                                                                            *)
(* Widths: a byte on the wire has DigitBits bits and one that says whether    *)
(* more follow (7 + 1 in the code), an int32 has Size32 bytes and an int64    *)
(* Size64 (4 and 8). Realloc never fails.                                     *)
EXTENDS Integers, SequencesExt

CONSTANTS
    DigitBits, Size32, Size64,
    BytesHeader,    \* offset of the bytes of a pb_bytes_array_t
    MaxRequired,    \* PB_MAX_REQUIRED_FIELDS
    Null

ByteBits == DigitBits + 1
More == 2 ^ DigitBits
Bits(size) == size * ByteBits
Bits32 == Bits(Size32)
Bits64 == Bits(Size64)

-----------------------------------------------------------------------------
(* Field descriptions *)

LTypes == {"varint", "uvarint", "svarint", "fixed32", "fixed64",
           "bytes", "string", "submessage", "extension", "fixed_bytes"}

Packable(f) == f.l \in {"varint", "uvarint", "svarint", "fixed32", "fixed64"}

Text(f) == f.l \in {"string", "bytes"}

\* tag, data_size, array_size and ptr (the fields of a submessage, the default
\* of another type); counted: there is a has_, _count or which_ member; union:
\* the name of the oneof.
Field(tag, l, h, a, size) ==
    [tag |-> tag, l |-> l, h |-> h, a |-> a, size |-> size, max |-> 0,
     ptr |-> Null, counted |-> FALSE, union |-> Null]

Required(tag, l, size) == Field(tag, l, "required", "static", size)

Optional(tag, l, size) ==
    [Field(tag, l, "optional", "static", size) EXCEPT !.counted = TRUE]

\* proto3: without has_ member
Singular(tag, l, size) == Field(tag, l, "optional", "static", size)

Repeated(tag, l, size, max) ==
    [Field(tag, l, "repeated", "static", size) EXCEPT
        !.counted = TRUE, !.max = max]

FixedCount(tag, l, size, max) ==
    [Field(tag, l, "repeated", "static", size) EXCEPT !.max = max]

PointerField(tag, l, h, size) ==
    [Field(tag, l, h, "pointer", size) EXCEPT !.counted = (h = "repeated")]

CallbackField(tag, l) == Field(tag, l, "repeated", "callback", 0)

\* The placeholder for extensions: tag is where their range starts, exts the
\* fields the program registers there. Such a field has no has_ member and is
\* marked as required (PB_OPTEXT_STATIC).
Extensions(tag, exts) ==
    [Field(tag, "extension", "optional", "callback", 0) EXCEPT !.ptr = exts]

Oneof(union, a, tag, l, size) ==
    [Field(tag, l, "oneof", a, size) EXCEPT
        !.counted = TRUE, !.union = union]

Sub(f, fields) == [f EXCEPT !.ptr = fields]

IsFixedCount(f) == f.h = "repeated" /\ f.a = "static" /\ ~f.counted

-----------------------------------------------------------------------------
(* Results: whether the function returned true, the stream, and what it       *)
(* read or the data it changed.                                               *)

Done(s, v) == [ok |-> TRUE, s |-> s, v |-> v]
Fail(s, v) == [ok |-> FALSE, s |-> s, v |-> v]

\* Goes on with F, or returns false and leaves the data as it is.
Then(r, v, F(_)) == IF r.ok THEN F(r) ELSE Fail(r.s, v)

-----------------------------------------------------------------------------
(* Input streams: the bytes the state points to, bytes_left, and the heap.    *)

InputStream(bytes) == [rest |-> bytes, left |-> Len(bytes), heap |-> {}]

ReadBytes(s, n) ==
    IF s.left < n THEN Fail(s, <<>>)
    ELSE Done([s EXCEPT !.rest = SubSeq(@, n + 1, Len(@)), !.left = @ - n],
              SubSeq(s.rest, 1, n))

ReadByte(s) == Then(ReadBytes(s, 1), 0, LAMBDA r : Done(r.s, r.v[1]))

\* A byte beyond 32 bits may only repeat the sign.
ExtendsSign(result, byte, bitpos) ==
    \/ byte % More = 0
    \/ /\ result >= 2 ^ (Bits32 - 1)
       /\ byte = IF bitpos < Bits64 - 1 THEN 2 * More - 1 ELSE 1

RECURSIVE Varint32From(_, _, _)
Varint32From(s, result, bitpos) ==
    Then(ReadByte(s), 0, LAMBDA r :
        LET digit == r.v % More
            sum == IF bitpos >= Bits32 THEN result
                   ELSE (result + digit * 2 ^ bitpos) % 2 ^ Bits32
            splits == bitpos < Bits32 /\ bitpos + DigitBits > Bits32
        IN IF bitpos >= Bits32 /\ ~ExtendsSign(result, r.v, bitpos)
           THEN Fail(r.s, 0)
           ELSE IF r.v >= More
           THEN Varint32From(r.s, sum, bitpos + DigitBits)
           ELSE IF splits /\ digit >= 2 ^ (Bits32 - bitpos)
           THEN Fail(r.s, 0)
           ELSE Done(r.s, sum))

DecodeVarint32(s) == Varint32From(s, 0, 0)

RECURSIVE VarintFrom(_, _, _)
VarintFrom(s, result, bitpos) ==
    IF bitpos >= Bits64 THEN Fail(s, 0)
    ELSE Then(ReadByte(s), 0, LAMBDA r :
        LET sum == (result + (r.v % More) * 2 ^ bitpos) % 2 ^ Bits64
        IN IF r.v >= More THEN VarintFrom(r.s, sum, bitpos + DigitBits)
           ELSE Done(r.s, sum))

DecodeVarint(s) == VarintFrom(s, 0, 0)

\* The bytes of a varint, at most max of them.
RECURSIVE RawVarint(_, _, _)
RawVarint(s, max, bytes) ==
    IF max = 0 THEN Fail(s, bytes)
    ELSE Then(ReadByte(s), bytes, LAMBDA r :
        IF r.v >= More THEN RawVarint(r.s, max - 1, Append(bytes, r.v))
        ELSE Done(r.s, Append(bytes, r.v)))

SkipVarint(s) == RawVarint(s, s.left + 1, <<>>)

SkipString(s) == Then(DecodeVarint32(s), <<>>, LAMBDA r : ReadBytes(r.s, r.v))

SkipField(s, wiretype) ==
    CASE wiretype = 0 -> SkipVarint(s)
      [] wiretype = 1 -> ReadBytes(s, Size64)
      [] wiretype = 2 -> SkipString(s)
      [] wiretype = 5 -> ReadBytes(s, Size32)
      [] OTHER -> Fail(s, <<>>)

\* A zero tag ends the message.
DecodeTag(s) ==
    Then(DecodeVarint32(s), Null, LAMBDA r :
        Done(r.s, [tag |-> r.v \div 8, wiretype |-> r.v % 8,
                   eof |-> r.v = 0]))

\* The single value a callback is given, as a stream of its own.
RawBufferSize == (Bits64 + DigitBits - 1) \div DigitBits

ReadRawValue(s, wiretype) ==
    CASE wiretype = 0 -> RawVarint(s, RawBufferSize, <<>>)
      [] wiretype = 1 -> ReadBytes(s, Size64)
      [] wiretype = 5 -> ReadBytes(s, Size32)
      [] OTHER -> Fail(s, <<>>)

\* What is left of the substream is skipped, and the stream goes on behind it.
CloseSubstream(s, sub) ==
    Then(ReadBytes(sub, sub.left), Null, LAMBDA r :
        Done([s EXCEPT !.rest = r.s.rest, !.heap = r.s.heap], Null))

\* Decodes with F from a stream of the given length.
InSubstream(s, v, F(_)) ==
    Then(DecodeVarint32(s), v, LAMBDA r :
        IF r.s.left < r.v THEN Fail(r.s, v)
        ELSE LET got == F([r.s EXCEPT !.left = r.v])
                 end == CloseSubstream([r.s EXCEPT !.left = @ - r.v], got.s)
             IN [ok |-> end.ok /\ got.ok,
                 s |-> [end.s EXCEPT !.heap = got.s.heap], v |-> got.v])

-----------------------------------------------------------------------------
(* Defaults *)

Zero(f) == CASE f.l = "fixed_bytes" -> [i \in 1..f.size |-> 0]
             [] Text(f) -> <<>>
             [] OTHER -> 0

\* pb_field_set_to_default and pb_message_set_to_defaults: counts and has_ are
\* cleared, pointers set to NULL, callbacks kept.
RECURSIVE Defaults(_, _)
Defaults(fields, msg) ==
    [i \in DOMAIN fields |->
        LET f == fields[i]
            value == IF f.l = "submessage" THEN Defaults(f.ptr, msg[i].v)
                     ELSE IF f.ptr # Null THEN f.ptr ELSE Zero(f)
        IN CASE f.l = "extension" ->
                  LET Unset(x) == [x EXCEPT !.found = FALSE,
                          !.dest = Defaults(<<x.field>>, <<x.dest>>)[1]]
                  IN [msg[i] EXCEPT !.v = [k \in DOMAIN @ |-> Unset(@[k])]]
             [] f.a = "static" /\ f.h \in {"required", "optional"} ->
                  [has |-> FALSE, v |-> value]
             [] f.a = "static" /\ f.h = "repeated" ->
                  IF f.counted THEN [has |-> FALSE, v |-> <<>>] ELSE msg[i]
             [] f.a = "static" /\ f.h = "oneof" -> [msg[i] EXCEPT !.has = FALSE]
             [] f.a = "pointer" -> [has |-> FALSE, v |-> Null]
             [] OTHER -> msg[i]]

\* A structure all of whose bytes are zero.
RECURSIVE ZeroMessage(_)
ZeroMessage(fields) ==
    [i \in DOMAIN fields |->
        LET f == fields[i]
            item == IF f.l = "submessage" THEN ZeroMessage(f.ptr) ELSE Zero(f)
        IN [has |-> IF IsFixedCount(f) THEN 0 ELSE FALSE,
            v |-> CASE f.l = "extension" -> <<>>
                    [] f.a = "callback" \/ f.a = "pointer" -> Null
                    [] IsFixedCount(f) -> [k \in 1..f.max |-> item]
                    [] f.h = "repeated" -> <<>>
                    [] OTHER -> item]]

-----------------------------------------------------------------------------
(* The heap: the addresses of the allocated blocks *)

Realloc(s, block, to) ==
    LET fresh == CHOOSE n \in 1..(Cardinality(s.heap) + 1) : n \notin s.heap
        id == IF block = Null THEN fresh ELSE block.id
    IN Done([s EXCEPT !.heap = @ \union {id}], [id |-> id, to |-> to])

Free(heap, block) == IF block = Null THEN heap ELSE heap \ {block.id}

\* pb_release: everything the message points to, in the order of the fields.
RECURSIVE ReleaseField(_, _, _), ReleaseItems(_, _, _), ReleaseFrom(_, _, _, _)
ReleaseField(heap, f, cell) ==
    LET pointer == f.a = "pointer"
        data == IF pointer /\ cell.v # Null THEN cell.v.to ELSE cell.v
        items == CASE f.l = "extension" -> <<>>
                   [] cell.v = Null -> <<>>
                   [] f.h = "repeated" -> data
                   [] OTHER -> <<data>>
        inner == CASE f.l = "submessage" -> ReleaseItems(heap, f, items)
                   [] f.l = "extension" -> ReleaseItems(heap, f, cell.v)
                   [] pointer /\ f.h = "repeated" /\ Text(f) ->
                        [heap |-> FoldLeft(Free, heap, items), items |-> <<>>]
                   [] OTHER -> [heap |-> heap, items |-> items]
    IN IF f.h = "oneof" /\ ~cell.has THEN [heap |-> heap, cell |-> cell]
       ELSE IF pointer
       THEN [heap |-> Free(inner.heap, cell.v), cell |-> [cell EXCEPT !.v = Null]]
       ELSE [heap |-> inner.heap,
             cell |-> [cell EXCEPT !.v =
                 CASE f.l = "extension" \/ f.h = "repeated" -> inner.items
                   [] f.l = "submessage" -> inner.items[1]
                   [] OTHER -> @]]

\* The submessages, or the extensions, of one field.
ReleaseItems(heap, f, items) ==
    IF items = <<>> THEN [heap |-> heap, items |-> <<>>]
    ELSE LET x == Head(items)
             one == IF f.l = "extension"
                    THEN ReleaseField(heap, x.field, x.dest)
                    ELSE ReleaseFrom(heap, f.ptr, x, 1)
             more == ReleaseItems(one.heap, f, Tail(items))
         IN [heap |-> more.heap,
             items |-> <<IF f.l = "extension" THEN [x EXCEPT !.dest = one.cell]
                         ELSE one.msg>> \o more.items]

ReleaseFrom(heap, fields, msg, i) ==
    IF i > Len(fields) THEN [heap |-> heap, msg |-> msg]
    ELSE LET r == ReleaseField(heap, fields[i], msg[i])
         IN ReleaseFrom(r.heap, fields, [msg EXCEPT ![i] = r.cell], i + 1)

Release(heap, fields, msg) == ReleaseFrom(heap, fields, msg, 1)

-----------------------------------------------------------------------------
(* The decoders of the data types *)

RECURSIVE Little(_)
Little(bytes) ==
    IF bytes = <<>> THEN 0
    ELSE Head(bytes) + 2 ^ ByteBits * Little(Tail(bytes))

ToSigned(v, bits) ==
    LET low == v % 2 ^ bits
    IN IF low >= 2 ^ (bits - 1) THEN low - 2 ^ bits ELSE low

Unzigzag(v) == IF v % 2 = 1 THEN -(v \div 2) - 1 ELSE v \div 2

\* A number of 64 bits stored in size bytes: v, unless it is too large. Fields
\* of up to 32 bits take a signed number's lower half first.
Store(f, v) ==
    CASE f.l = "varint" ->
           LET wide == IF f.size = Size64 THEN ToSigned(v, Bits64)
                       ELSE ToSigned(v, Bits32)
           IN [ok |-> ToSigned(wide, Bits(f.size)) = wide,
               v |-> ToSigned(wide, Bits(f.size))]
      [] f.l = "uvarint" -> [ok |-> v < 2 ^ Bits(f.size), v |-> v % 2 ^ Bits(f.size)]
      [] f.l = "svarint" ->
           LET n == Unzigzag(v)
           IN [ok |-> ToSigned(n, Bits(f.size)) = n, v |-> ToSigned(n, Bits(f.size))]

\* pb_dec_varint, pb_dec_uvarint, pb_dec_svarint
DecodeInteger(s, f, old) ==
    Then(DecodeVarint(s), old, LAMBDA r :
        LET n == Store(f, r.v) IN [ok |-> n.ok, s |-> r.s, v |-> n.v])

DecodeFixed(s, size, old) ==
    Then(ReadBytes(s, size), old, LAMBDA r : Done(r.s, Little(r.v)))

\* Text of n bytes that needs size bytes of memory: the block of a pointer is
\* allocated before the bytes are read.
DecodeText(s, f, old, n, size) ==
    IF f.a = "pointer"
    THEN LET block == Realloc(s, old, <<>>)
         IN Then(ReadBytes(block.s, n), block.v, LAMBDA r :
                Done(r.s, [block.v EXCEPT !.to = r.v]))
    ELSE IF size > f.size THEN Fail(s, old)
    ELSE Then(ReadBytes(s, n), old, LAMBDA r : Done(r.s, r.v))

DecodeBytes(s, f, old) ==
    Then(DecodeVarint32(s), old, LAMBDA r :
        DecodeText(r.s, f, old, r.v, r.v + BytesHeader))

\* With room for the final zero; the sum has 32 bits.
DecodeString(s, f, old) ==
    Then(DecodeVarint32(s), old, LAMBDA r :
        LET size == (r.v + 1) % 2 ^ Bits32
        IN IF size < r.v THEN Fail(r.s, old)
           ELSE DecodeText(r.s, f, old, r.v, size))

DecodeFixedBytes(s, f, old) ==
    Then(DecodeVarint32(s), old, LAMBDA r :
        IF r.v = 0 THEN Done(r.s, Zero(f))
        ELSE IF r.v # f.size THEN Fail(r.s, old)
        ELSE Then(ReadBytes(r.s, f.size), old, LAMBDA b : Done(b.s, b.v)))

-----------------------------------------------------------------------------
(* Decoding fields and messages *)

RECURSIVE DecodeMessage(_, _, _, _)

\* New entries of an array start with the defaults; other submessages already
\* have them and are merged into.
DecodeSubmessage(s, f, old) ==
    InSubstream(s, old, LAMBDA sub :
        DecodeMessage(sub, f.ptr, old, f.h = "repeated"))

\* PB_DECODERS[PB_LTYPE(type)]
DecodeItem(s, f, old) ==
    CASE f.l \in {"varint", "uvarint", "svarint"} -> DecodeInteger(s, f, old)
      [] f.l = "fixed32" -> DecodeFixed(s, Size32, old)
      [] f.l = "fixed64" -> DecodeFixed(s, Size64, old)
      [] f.l = "bytes" -> DecodeBytes(s, f, old)
      [] f.l = "string" -> DecodeString(s, f, old)
      [] f.l = "submessage" -> DecodeSubmessage(s, f, old)
      [] f.l = "fixed_bytes" -> DecodeFixedBytes(s, f, old)

NewItem(f) == IF f.l = "submessage" THEN ZeroMessage(f.ptr) ELSE Zero(f)

\* The n-th entry of an array, counted or of fixed size.
Put(f, array, n, item) ==
    IF IsFixedCount(f) THEN [array EXCEPT ![n] = item] ELSE Append(array, item)

Counted(f, cell, array, count) ==
    [has |-> IF IsFixedCount(f) THEN count ELSE cell.has, v |-> array]

\* A packed array: v is [array, count]; a static one stops when it is full.
RECURSIVE PackedItems(_, _, _)
PackedItems(s, f, v) ==
    IF s.left = 0 \/ (f.a = "static" /\ v.count = f.max) THEN Done(s, v)
    ELSE Then(DecodeItem(s, f, 0), v, LAMBDA r :
        PackedItems(r.s, f, [array |-> Put(f, v.array, v.count + 1, r.v),
                             count |-> v.count + 1]))

DecodeStatic(s, wiretype, f, cell) ==
    LET count == IF IsFixedCount(f) THEN cell.has
                 ELSE IF f.h = "repeated" THEN Len(cell.v) ELSE 0
        set == [cell EXCEPT !.has = f.counted]
        empty == IF f.h = "oneof" /\ f.l = "submessage"
                 THEN Defaults(f.ptr, ZeroMessage(f.ptr)) ELSE cell.v
        got == CASE f.h # "repeated" -> DecodeItem(s, f, empty)
                 [] f.h = "repeated" /\ wiretype = 2 /\ Packable(f) ->
                      InSubstream(s, [array |-> cell.v, count |-> count],
                          LAMBDA sub :
                              LET r == PackedItems(sub, f,
                                           [array |-> cell.v, count |-> count])
                              IN [r EXCEPT !.ok = r.ok /\ r.s.left = 0])
                 [] f.h = "repeated" /\ count < f.max ->
                      DecodeItem(s, f, NewItem(f))
                 [] OTHER -> Fail(s, Null)
        packed == wiretype = 2 /\ Packable(f)
    IN CASE f.h # "repeated" -> [got EXCEPT !.v = [set EXCEPT !.v = got.v]]
         [] packed -> [got EXCEPT !.v = Counted(f, cell, got.v.array, got.v.count)]
         [] count < f.max ->
              [got EXCEPT !.v =
                  Counted(f, cell, Put(f, cell.v, count + 1, got.v), count + 1)]
         [] OTHER -> [got EXCEPT !.v = cell]

\* One item at the end of a pointer to one, or to an array of them.
DecodePointerOne(s, wiretype, f, cell) ==
    LET released == IF f.l = "submessage" /\ cell.v # Null
                    THEN ReleaseField(s.heap, f, [cell EXCEPT !.has = TRUE])
                    ELSE [heap |-> s.heap, cell |-> cell]
        from == [s EXCEPT !.heap = released.heap]
        new == IF f.l = "submessage"
               THEN Defaults(f.ptr, ZeroMessage(f.ptr)) ELSE Zero(f)
        block == Realloc(from, released.cell.v, new)
        got == IF Text(f) THEN DecodeItem(from, f, released.cell.v)
               ELSE DecodeItem(block.s, f, block.v.to)
    IN [got EXCEPT !.v = [has |-> TRUE,
            v |-> IF Text(f) THEN got.v ELSE [block.v EXCEPT !.to = got.v]]]

\* The array grows by one entry, or by those of a packed array.
DecodePointerArray(s, wiretype, f, cell) ==
    LET old == IF cell.v = Null THEN <<>> ELSE cell.v.to
        packed == wiretype = 2 /\ Packable(f)
        grown == Realloc(s, cell.v, old)
        got == IF packed
               THEN InSubstream(s, [array |-> old, count |-> Len(old)],
                   LAMBDA sub :
                       IF sub.left = 0
                       THEN Done(sub, [array |-> old, count |-> Len(old)])
                       ELSE PackedItems(Realloc(sub, cell.v, old).s, f,
                                [array |-> old, count |-> Len(old)]))
               ELSE DecodeItem(grown.s, f,
                        CASE Text(f) -> Null
                          [] f.l = "submessage" ->
                               Defaults(f.ptr, ZeroMessage(f.ptr))
                          [] OTHER -> 0)
        array == IF packed THEN got.v.array ELSE Append(old, got.v)
        allocated == grown.v.id \in got.s.heap
    IN [got EXCEPT !.v = [cell EXCEPT !.v =
            IF allocated THEN [grown.v EXCEPT !.to = array] ELSE @]]

DecodePointer(s, wiretype, f, cell) ==
    IF f.h = "repeated" THEN DecodePointerArray(s, wiretype, f, cell)
    ELSE DecodePointerOne(s, wiretype, f, cell)

\* The callback of a field keeps what it is given: a number, or all the bytes.
\* (No callback: v is Null.)
OnField(s, f, v) ==
    IF Packable(f) THEN Then(DecodeVarint(s), v, LAMBDA r : Done(r.s, Append(v, r.v)))
    ELSE Then(ReadBytes(s, s.left), v, LAMBDA r : Done(r.s, Append(v, r.v)))

RECURSIVE CallBack(_, _, _)
CallBack(s, f, v) ==
    Then(OnField(s, f, v), v, LAMBDA r :
        IF r.s.left = 0 THEN r ELSE CallBack(r.s, f, r.v))

DecodeCallback(s, wiretype, f, cell) ==
    LET got == CASE cell.v = Null ->
                      Then(SkipField(s, wiretype), Null, LAMBDA r : Done(r.s, Null))
                 [] wiretype = 2 ->
                      InSubstream(s, cell.v, LAMBDA sub : CallBack(sub, f, cell.v))
                 [] OTHER ->
                      Then(ReadRawValue(s, wiretype), cell.v, LAMBDA r :
                          LET c == OnField(InputStream(r.v), f, cell.v)
                          IN [c EXCEPT !.s = r.s])
    IN [got EXCEPT !.v = [cell EXCEPT !.v = got.v]]

\* A member of a oneof takes the place of the one there is, which is released.
ReleaseUnion(s, fields, msg, i) ==
    LET old == {j \in DOMAIN fields \ {i} :
                   fields[j].h = "oneof" /\ fields[j].union = fields[i].union
                   /\ msg[j].has}
        Gone(acc, j) ==
            LET r == ReleaseField(acc.s.heap, fields[j], acc.msg[j])
            IN [s |-> [acc.s EXCEPT !.heap = r.heap],
                msg |-> [acc.msg EXCEPT ![j] = [r.cell EXCEPT !.has = FALSE]]]
    IN IF fields[i].h # "oneof" THEN [s |-> s, msg |-> msg]
       ELSE FoldLeft(Gone, [s |-> s, msg |-> msg], SetToSeq(old))

DecodeField(s, wiretype, fields, msg, i) ==
    LET f == fields[i]
        from == ReleaseUnion(s, fields, msg, i)
        r == CASE f.a = "static" ->
                    DecodeStatic(from.s, wiretype, f, from.msg[i])
               [] f.a = "pointer" ->
                    DecodePointer(from.s, wiretype, f, from.msg[i])
               [] f.a = "callback" ->
                    DecodeCallback(from.s, wiretype, f, from.msg[i])
    IN [r EXCEPT !.v = [from.msg EXCEPT ![i] = r.v]]

\* The extensions in turn, until one has read the field.
RECURSIVE DecodeExtensions(_, _, _, _, _)
DecodeExtensions(s, tag, wiretype, exts, k) ==
    IF k > Len(exts) THEN Done(s, exts)
    ELSE IF exts[k].field.tag # tag
    THEN DecodeExtensions(s, tag, wiretype, exts, k + 1)
    ELSE LET r == DecodeField(s, wiretype, <<exts[k].field>>, <<exts[k].dest>>, 1)
             now == [exts EXCEPT ![k].found = TRUE, ![k].dest = r.v[1]]
         IN IF ~r.ok \/ r.s.left # s.left THEN [r EXCEPT !.v = now]
            ELSE DecodeExtensions(r.s, tag, wiretype, now, k + 1)

\* A field the message type does not have: an extension's, or skipped.
DecodeUnknown(s, fields, msg, tag, wiretype) ==
    LET places == {i \in DOMAIN fields :
                      fields[i].l = "extension" /\ tag >= fields[i].tag}
        i == CHOOSE i \in places : TRUE
        r == IF places = {} THEN Done(s, <<>>)
             ELSE DecodeExtensions(s, tag, wiretype, msg[i].v, 1)
        now == IF places = {} THEN msg ELSE [msg EXCEPT ![i].v = r.v]
    IN IF ~r.ok THEN Fail(r.s, now)
       ELSE IF r.s.left # s.left THEN Done(r.s, now)
       ELSE Then(SkipField(r.s, wiretype), now, LAMBDA k : Done(k.s, now))

RequiredFields(fields) == {i \in DOMAIN fields : fields[i].h = "required"}

Tracked(fields) ==
    {i \in RequiredFields(fields) :
        Cardinality({j \in RequiredFields(fields) : j < i}) < MaxRequired}

\* pb_field_iter_find: the field with the tag; never the extensions' placeholder
FieldsAt(fields, tag) ==
    {i \in DOMAIN fields : fields[i].tag = tag /\ fields[i].l # "extension"}

\* seen: the required fields so far; fixed: the array of fixed size that is
\* being received, 0 for none.
WholeArray(fields, msg, fixed) == fixed # 0 => msg[fixed].has = fields[fixed].max

\* pb_decode_noinit
RECURSIVE DecodeFields(_, _, _, _, _)
DecodeFields(s, fields, msg, seen, fixed) ==
    LET end == [ok |-> WholeArray(fields, msg, fixed) /\ Tracked(fields) \subseteq seen,
                s |-> s, v |-> msg]
    IN IF s.left = 0 THEN end
       ELSE Then(DecodeTag(s), msg, LAMBDA t :
           LET here == FieldsAt(fields, t.v.tag)
               i == CHOOSE i \in here : TRUE
               counts == IsFixedCount(fields[i])
               begins == counts /\ fixed # i
               r == DecodeField(t.s, t.v.wiretype, fields,
                        IF begins THEN [msg EXCEPT ![i].has = 0] ELSE msg, i)
               u == DecodeUnknown(t.s, fields, msg, t.v.tag, t.v.wiretype)
           IN CASE t.v.eof -> [end EXCEPT !.s = t.s]
                [] ~t.v.eof /\ here = {} ->
                     IF u.ok THEN DecodeFields(u.s, fields, u.v, seen, fixed) ELSE u
                [] ~t.v.eof /\ here # {} ->
                     IF begins /\ ~WholeArray(fields, msg, fixed) THEN Fail(t.s, msg)
                     ELSE IF ~r.ok THEN r
                     ELSE DecodeFields(r.s, fields, r.v, seen \union {i},
                              IF counts THEN i ELSE fixed))

\* (Mutant: a message that failed is handed back with its blocks.)
DecodeMessageKept(s, fields, msg, init) ==
    DecodeFields(s, fields, IF init THEN Defaults(fields, msg) ELSE msg, {}, 0)

\* pb_decode, or pb_decode_noinit: only the former releases what it allocated
\* when it fails.
DecodeMessage(s, fields, msg, init) ==
    LET from == IF init THEN Defaults(fields, msg) ELSE msg
        r == DecodeFields(s, fields, from, {}, 0)
        gone == Release(r.s.heap, fields, r.v)
    IN IF r.ok \/ ~init THEN r
       ELSE Fail([r.s EXCEPT !.heap = gone.heap], gone.msg)

DecodeDelimited(s, fields, msg, init) ==
    InSubstream(s, msg, LAMBDA sub : DecodeMessage(sub, fields, msg, init))

-----------------------------------------------------------------------------
(* Output streams: one that only counts (PB_OSTREAM_SIZING), or a buffer of   *)
(* max bytes.                                                                 *)

Sizing == [sizes |-> TRUE, out |-> <<>>, max |-> 0, written |-> 0]

Buffer(max) == [sizes |-> FALSE, out |-> <<>>, max |-> max, written |-> 0]

Write(s, bytes) ==
    IF s.sizes THEN Done([s EXCEPT !.written = @ + Len(bytes)], Null)
    ELSE IF s.written + Len(bytes) > s.max THEN Fail(s, Null)
    ELSE Done([s EXCEPT !.out = @ \o bytes, !.written = @ + Len(bytes)], Null)

\* One after the other, up to the first that fails.
And(r, F(_)) == IF r.ok THEN F(r.s) ELSE r

RECURSIVE VarintBytes(_)
VarintBytes(v) ==
    IF v < More THEN <<v>> ELSE <<(v % More) + More>> \o VarintBytes(v \div More)

EncodeVarint(s, v) == Write(s, VarintBytes(v))

Zigzag(v) == IF v < 0 THEN -2 * v - 1 ELSE 2 * v

EncodeSvarint(s, v) == EncodeVarint(s, Zigzag(v))

EncodeFixed(s, v, size) ==
    Write(s, [i \in 1..size |-> (v \div 2 ^ (ByteBits * (i - 1))) % 2 ^ ByteBits])

EncodeTag(s, wiretype, tag) == EncodeVarint(s, tag * 8 + wiretype)

Wiretype(f) ==
    CASE f.l \in {"varint", "uvarint", "svarint"} -> 0
      [] f.l = "fixed32" -> 5
      [] f.l = "fixed64" -> 1
      [] OTHER -> 2

EncodeTagForField(s, f) == EncodeTag(s, Wiretype(f), f.tag)

EncodeString(s, bytes) ==
    And(EncodeVarint(s, Len(bytes)), LAMBDA t : Write(t, bytes))

\* As far as the first zero, or the end of a static buffer.
CString(f, bytes) ==
    LET zeros == {i \in DOMAIN bytes : bytes[i] = 0}
        end == IF zeros = {} THEN Len(bytes)
               ELSE (CHOOSE i \in zeros : \A j \in zeros : i <= j) - 1
    IN SubSeq(bytes, 1,
           IF f.a = "pointer" \/ end <= f.size THEN end ELSE f.size)

RECURSIVE EncodeMessage(_, _, _)

\* Once to know the size and once to write; a callback must write the same.
EncodeSubmessage(s, fields, msg) ==
    LET sized == EncodeMessage(Sizing, fields, msg)
        size == sized.s.written
    IN IF ~sized.ok THEN Fail(s, Null)
       ELSE And(EncodeVarint(s, size), LAMBDA t :
           LET r == EncodeMessage(Buffer(size), fields, msg)
           IN IF t.sizes THEN Done([t EXCEPT !.written = @ + size], Null)
              ELSE IF t.written + size > t.max THEN Fail(t, Null)
              ELSE [ok |-> r.ok /\ r.s.written = size,
                    s |-> [t EXCEPT !.out = @ \o r.s.out,
                                    !.written = @ + r.s.written],
                    v |-> Null])

\* PB_ENCODERS[PB_LTYPE(type)]; a NULL text is an empty one.
EncodeItem(s, f, v) ==
    CASE f.l = "varint" -> EncodeVarint(s, v % 2 ^ Bits64)
      [] f.l = "uvarint" -> EncodeVarint(s, v)
      [] f.l = "svarint" -> EncodeSvarint(s, v)
      [] f.l = "fixed32" -> EncodeFixed(s, v, Size32)
      [] f.l = "fixed64" -> EncodeFixed(s, v, Size64)
      [] Text(f) /\ v = Null -> EncodeString(s, <<>>)
      [] f.l = "bytes" /\ v # Null ->
           IF f.a = "static" /\ Len(v) + BytesHeader > f.size THEN Fail(s, Null)
           ELSE EncodeString(s, v)
      [] f.l = "string" /\ v # Null -> EncodeString(s, CString(f, v))
      [] f.l = "submessage" -> EncodeSubmessage(s, f.ptr, v)
      [] f.l = "fixed_bytes" -> EncodeString(s, v)

EncodeTagged(s, f, v) ==
    And(EncodeTagForField(s, f), LAMBDA t : EncodeItem(t, f, v))

RECURSIVE EncodeItems(_, _, _)
EncodeItems(s, f, items) ==
    IF items = <<>> THEN Done(s, Null)
    ELSE And(EncodeItem(s, f, Head(items)), LAMBDA t : EncodeItems(t, f, Tail(items)))

\* Numbers are always packed. The entries of an array of texts are pointers.
EncodeArray(s, f, items) ==
    LET sized == EncodeItems(Sizing, f, items).s.written
        size == CASE f.l = "fixed32" -> Size32 * Len(items)
                  [] f.l = "fixed64" -> Size64 * Len(items)
                  [] OTHER -> sized
        Item(r, x) ==
            And(r, LAMBDA t : EncodeTagged(t, f,
                IF f.a = "pointer" /\ Text(f) /\ x # Null THEN x.to ELSE x))
    IN IF items = <<>> THEN Done(s, Null)
       ELSE IF f.a # "pointer" /\ Len(items) > f.max THEN Fail(s, Null)
       ELSE IF ~Packable(f) THEN FoldLeft(Item, Done(s, Null), items)
       ELSE And(And(EncodeTag(s, 2, f.tag), LAMBDA t : EncodeVarint(t, size)),
           LAMBDA t : IF t.sizes THEN Done([t EXCEPT !.written = @ + size], Null)
                      ELSE EncodeItems(t, f, items))

\* pb_check_proto3_default_value. An array of fixed size has no count: its
\* first entry is taken for it. (Of a pointer the code compares data_size bytes
\* of the address with zero.)
RECURSIVE IsDefault(_, _)
IsDefault(f, cell) ==
    CASE f.h = "required" -> FALSE
      [] IsFixedCount(f) -> cell.v[1] = 0
      [] f.h = "repeated" /\ f.a = "static" /\ f.counted -> cell.v = <<>>
      [] f.h = "repeated" /\ f.a = "pointer" -> cell.v = Null
      [] f.h \in {"oneof", "optional"} /\ f.counted -> ~cell.has
      [] f.h = "optional" /\ ~f.counted /\ f.a = "static" ->
           CASE f.l \in {"bytes", "fixed_bytes"} -> cell.v = <<>>
             [] f.l = "string" -> CString(f, cell.v) = <<>>
             [] f.l = "submessage" ->
                  \A i \in DOMAIN f.ptr : IsDefault(f.ptr[i], cell.v[i])
             [] OTHER -> cell.v = 0
      [] OTHER -> cell.v = Null

\* What a field's data are, behind its pointer.
Data(f, cell) ==
    IF f.a = "pointer" THEN (IF cell.v = Null THEN Null ELSE cell.v.to) ELSE cell.v

\* has_, or that the pointer is not NULL, or for proto3 that it is no default.
Present(f, cell) ==
    CASE f.h = "oneof" -> cell.has
      [] f.h # "oneof" /\ f.a = "pointer" -> cell.v # Null
      [] f.h = "optional" /\ f.a = "static" ->
           IF f.counted THEN cell.has ELSE ~IsDefault(f, cell)
      [] f.h = "required" /\ f.a = "static" -> TRUE

EncodeBasicField(s, f, cell) ==
    IF f.h = "repeated"
    THEN EncodeArray(s, f, IF cell.v = Null THEN <<>> ELSE Data(f, cell))
    ELSE IF Present(f, cell) THEN EncodeTagged(s, f, Data(f, cell))
    ELSE [Done(s, Null) EXCEPT !.ok = f.h # "required"]

\* The callback of a field writes each thing it has, with its tag.
EncodeCallbackField(s, f, cell) ==
    LET Item(r, x) == And(r, LAMBDA t : EncodeTagged(t, f, x))
    IN IF cell.v = Null THEN Done(s, Null)
       ELSE FoldLeft(Item, Done(s, Null), cell.v)

EncodeField(s, f, cell) ==
    IF f.a = "callback" THEN EncodeCallbackField(s, f, cell)
    ELSE EncodeBasicField(s, f, cell)

\* All registered extensions, found or not.
EncodeExtensions(s, exts) ==
    LET Item(r, x) == And(r, LAMBDA t : EncodeField(t, x.field, x.dest))
    IN FoldLeft(Item, Done(s, Null), exts)

EncodeMessage(s, fields, msg) ==
    LET One(r, i) ==
            And(r, LAMBDA t :
                IF fields[i].l = "extension" THEN EncodeExtensions(t, msg[i].v)
                ELSE EncodeField(t, fields[i], msg[i]))
    IN FoldLeft(One, Done(s, Null), [i \in 1..Len(fields) |-> i])

EncodeDelimited(s, fields, msg) == EncodeSubmessage(s, fields, msg)

EncodeNullTerminated(s, fields, msg) ==
    And(EncodeMessage(s, fields, msg), LAMBDA t : Write(t, <<0>>))

EncodedSize(fields, msg) == EncodeMessage(Sizing, fields, msg).s.written

-----------------------------------------------------------------------------
(* The messages of the telemetry, as nanopb's generator wrote them: what      *)
(* GoogleDataTransport sends and gets (cct.nanopb.h, cct.nanopb.c), and what  *)
(* FirebaseCoreDiagnostics says of the app (firebasecore.nanopb.h, .c). For   *)
(* each the values of its enumerations, the structure it is decoded into, how *)
(* one is initialized, and the description of its fields.                     *)
(*                                                                            *)
(* And how nanopb finds the member of a structure a field belongs to          *)
(* (pb_common.c): an iterator goes over the descriptions of the fields, which *)
(* only say how far a member is from the end of the one before (data_offset), *)
(* and how far its has_, _count or which_ is from it (size_offset).           *)
(*                                                                            *)
(* Messages on their way through nanopb: encoded the way                      *)
(* GDTCCTEncodeBatchedLogRequest does it (once to count, once into a buffer   *)
(* of that size), perhaps with fields of a newer schema in between and cut    *)
(* short, decoded the way GDTCCTDecodeLogResponse does it, and released. The  *)
(* state is what was sent; what the receiver makes of it follows from that.   *)

CONSTANT NewTag    \* a tag that no field here has, as of a newer version

\* Of each message its fields, its structure and what *_init_default says; and, of a
\* message whose header bounds its size, that size and the messages it bounds
CONSTANT Schemas    \* a sequence of [fields, struct, init, size, bounded]

VARIABLES schema, iter

layoutVars == <<schema, iter>>

-----------------------------------------------------------------------------
(* Enumerations *)

NetworkType == -1..17
MobileSubtype == (0..19) \union {100}
ClientType == {0, 15}
QosTier == 0..4
ConfigurationType == 0..2
BuildType == 0..3
ServiceType == (0..35) \ {4, 25}
PodName == 0..2
DeploymentType == 0..4

Least(S) == CHOOSE x \in S : \A y \in S : x <= y
Greatest(S) == CHOOSE x \in S : \A y \in S : y <= x

-----------------------------------------------------------------------------
(* PB_FIELD: tag, type, rules, allocation, and the fields of a submessage or  *)
(* the default of another type.                                               *)

LtypeMap(type) ==
    CASE type \in {"BOOL", "ENUM", "INT32", "INT64"} -> "varint"
      [] type \in {"UENUM", "UINT32", "UINT64"} -> "uvarint"
      [] type \in {"SINT32", "SINT64"} -> "svarint"
      [] type \in {"FIXED32", "SFIXED32", "FLOAT"} -> "fixed32"
      [] type \in {"FIXED64", "SFIXED64", "DOUBLE"} -> "fixed64"
      [] type = "BYTES" -> "bytes"
      [] type = "STRING" -> "string"
      [] type = "MESSAGE" -> "submessage"
      [] type = "EXTENSION" -> "extension"
      [] type = "FIXED_LENGTH_BYTES" -> "fixed_bytes"

\* Of what a pointer points to; a submessage has no size of its own here.
MemberSize(type) ==
    CASE type = "BOOL" -> 1
      [] type \in {"ENUM", "UENUM", "INT32", "UINT32", "SINT32"} -> Size32
      [] type \in {"INT64", "UINT64", "SINT64"} -> Size64
      [] type = "BYTES" -> BytesHeader + 1
      [] type = "MESSAGE" -> 0

PbField(tag, type, rules, allocation, ptr) ==
    LET l == LtypeMap(type)
        f == IF allocation = "POINTER" THEN PointerField(tag, l, rules, MemberSize(type))
             ELSE Optional(tag, l, MemberSize(type))
    IN [f EXCEPT !.ptr = ptr]

NetworkConnectionInfoFields ==
    <<PbField(1, "ENUM", "optional", "STATIC", Least(NetworkType)),
      PbField(2, "UENUM", "optional", "STATIC", 0)>>

LogEventFields ==
    <<PbField(1, "INT64", "optional", "STATIC", Null),
      PbField(6, "BYTES", "optional", "POINTER", Null),
      PbField(11, "INT32", "optional", "STATIC", Null),
      PbField(15, "SINT64", "optional", "STATIC", Null),
      PbField(17, "INT64", "optional", "STATIC", Null),
      PbField(23, "MESSAGE", "optional", "STATIC", NetworkConnectionInfoFields)>>

IosClientInfoFields ==
    [i \in 1..7 |-> PbField(<<3, 4, 5, 6, 7, 8, 11>>[i], "BYTES", "optional", "POINTER", Null)]

ClientInfoFields ==
    <<PbField(1, "UENUM", "optional", "STATIC", Null),
      PbField(4, "MESSAGE", "optional", "STATIC", IosClientInfoFields)>>

LogRequestFields ==
    <<PbField(1, "MESSAGE", "optional", "STATIC", ClientInfoFields),
      PbField(2, "INT32", "optional", "STATIC", Null),
      PbField(3, "MESSAGE", "repeated", "POINTER", LogEventFields),
      PbField(4, "INT64", "optional", "STATIC", Null),
      PbField(8, "INT64", "optional", "STATIC", Null),
      PbField(9, "UENUM", "optional", "STATIC", Least(QosTier))>>

BatchedLogRequestFields ==
    <<PbField(1, "MESSAGE", "repeated", "POINTER", LogRequestFields)>>

QosTierConfigurationFields ==
    <<PbField(2, "UENUM", "optional", "STATIC", Null),
      PbField(3, "INT32", "optional", "STATIC", 0)>>

QosTiersOverrideFields ==
    <<PbField(1, "MESSAGE", "repeated", "POINTER", QosTierConfigurationFields),
      PbField(2, "INT64", "optional", "STATIC", Null)>>

LogResponseFields ==
    <<PbField(1, "INT64", "optional", "STATIC", Null),
      PbField(3, "MESSAGE", "optional", "STATIC", QosTiersOverrideFields)>>

ICoreConfigurationFields ==
    LET TypeOf(tag) ==
            CASE tag \in {1, 7, 16, 20, 30} -> "UENUM"
              [] tag \in {9, 10, 12, 18, 19, 22, 24, 28, 31} -> "BYTES"
              [] tag \in {21, 27} -> "INT32"
              [] tag \in {25, 26, 29, 33, 36} -> "BOOL"
        Of(tag) == PbField(tag, TypeOf(tag), IF tag = 7 THEN "repeated" ELSE "optional",
                           IF tag = 7 \/ TypeOf(tag) = "BYTES" THEN "POINTER" ELSE "STATIC", Null)
        tags == <<1, 7, 9, 10, 12, 16, 18, 19, 20, 21, 22, 24, 25, 26, 27, 28, 29, 30, 31, 33, 36>>
    IN [i \in DOMAIN tags |-> Of(tags[i])]

-----------------------------------------------------------------------------
(* Structures: the members of each field, the has_ or _count before the value.*)
(* Sizes and alignments are those of arm64.                                   *)

CType(size, align) == [size |-> size, align |-> align]
Bool == CType(1, 1)
Int32 == CType(4, 4)
Int64 == CType(8, 8)
PbSize == CType(4, 4)
BytesArray == CType(8, 4)
PointerTo(type) == [size |-> 8, align |-> 8, to |-> type]

HasMember(type) == [flag |-> <<Bool>>, type |-> type, entries |-> 1, union |-> <<>>]
CountMember(type) == [flag |-> <<PbSize>>, type |-> type, entries |-> 1, union |-> <<>>]
Bare(type) == [flag |-> <<>>, type |-> type, entries |-> 1, union |-> <<>>]

RoundUp(n, align) == ((n + align - 1) \div align) * align

\* Where the next member goes that is not in a union with the one before, and how
\* far the structure reaches: a union as far as its largest member.
Placed(end, m) ==
    LET largest == IF m.union = <<>> THEN m.entries * m.type.size
                   ELSE Greatest({m.union[k].size : k \in DOMAIN m.union})
        aligned == IF m.union = <<>> THEN m.type.align
                   ELSE Greatest({m.union[k].align : k \in DOMAIN m.union})
        flagAt == IF m.flag = <<>> THEN end ELSE RoundUp(end, m.flag[1].align)
        at == RoundUp(flagAt + (IF m.flag = <<>> THEN 0 ELSE m.flag[1].size), aligned)
    IN [at |-> at, flagAt |-> IF m.flag = <<>> THEN at ELSE flagAt, end |-> at + largest,
        union |-> m.union]

\* The members one behind the other, those of one union at the same place.
Layout(struct) ==
    FoldLeft(LAMBDA placed, m :
                IF placed = <<>> THEN <<Placed(0, m)>>
                ELSE IF m.union # <<>> /\ m.union = Last(placed).union THEN Append(placed, Last(placed))
                ELSE Append(placed, Placed(Last(placed).end, m)),
             <<>>, struct)

StructType(struct) ==
    LET align == Greatest(UNION {{m.type.align} \union {m.union[k].align : k \in DOMAIN m.union}
                                    : m \in ToSet(struct)}
                          \union {m.flag[1].align : m \in {n \in ToSet(struct) : n.flag # <<>>}})
    IN CType(RoundUp(Layout(struct)[Len(struct)].end, align), align)

NetworkConnectionInfo == <<HasMember(Int32), HasMember(Int32)>>
LogEvent ==
    <<HasMember(Int64), Bare(PointerTo(BytesArray)), HasMember(Int32), HasMember(Int64), HasMember(Int64),
      HasMember(StructType(NetworkConnectionInfo))>>
IosClientInfo == [i \in 1..7 |-> Bare(PointerTo(BytesArray))]
ClientInfo == <<HasMember(Int32), HasMember(StructType(IosClientInfo))>>
LogRequest ==
    <<HasMember(StructType(ClientInfo)), HasMember(Int32), CountMember(PointerTo(StructType(LogEvent))),
      HasMember(Int64), HasMember(Int64), HasMember(Int32)>>
BatchedLogRequest == <<CountMember(PointerTo(StructType(LogRequest)))>>
QosTierConfiguration == <<HasMember(Int32), HasMember(Int32)>>
QosTiersOverride == <<CountMember(PointerTo(StructType(QosTierConfiguration))), HasMember(Int64)>>
LogResponse == <<HasMember(Int64), HasMember(StructType(QosTiersOverride))>>

ICoreConfiguration ==
    LET Bytes == Bare(PointerTo(BytesArray))
    IN <<HasMember(Int32), CountMember(PointerTo(Int32)), Bytes, Bytes, Bytes, HasMember(Int32), Bytes, Bytes,
         HasMember(Int32), HasMember(Int32), Bytes, Bytes, HasMember(Bool), HasMember(Bool), HasMember(Int32), Bytes,
         HasMember(Bool), HasMember(Int32), Bytes, HasMember(Bool), HasMember(Bool)>>

-----------------------------------------------------------------------------
(* Initializers (_init_default, _init_zero), and the sizes the headers state. *)

Unset(v) == [has |-> FALSE, v |-> v]

NetworkConnectionInfoInit == <<Unset(Least(NetworkType)), Unset(0)>>
NetworkConnectionInfoZero == <<Unset(Least(NetworkType)), Unset(Least(MobileSubtype))>>
LogEventInit == <<Unset(0), Unset(Null), Unset(0), Unset(0), Unset(0), Unset(NetworkConnectionInfoInit)>>
IosClientInfoInit == [i \in 1..7 |-> Unset(Null)]
ClientInfoInit == <<Unset(Least(ClientType)), Unset(IosClientInfoInit)>>
BatchedLogRequestInit == <<Unset(Null)>>
LogRequestInit ==
    <<Unset(ClientInfoInit), Unset(0), Unset(Null), Unset(0), Unset(0), Unset(Least(QosTier))>>
QosTierConfigurationInit == <<Unset(Least(QosTier)), Unset(0)>>
QosTiersOverrideInit == <<Unset(Null), Unset(0)>>
LogResponseInit == <<Unset(0), Unset(QosTiersOverrideInit)>>
ICoreConfigurationInit ==
    LET Zeroed(f) == CASE f.a = "pointer" -> Null
                     [] f.tag = 1 -> Least(ConfigurationType)
                     [] f.tag = 16 -> Least(PodName)
                     [] f.tag = 20 -> Least(ServiceType)
                     [] f.tag = 30 -> Least(DeploymentType)
                     [] OTHER -> 0
    IN [i \in 1..21 |-> Unset(Zeroed(ICoreConfigurationFields[i]))]

\* The longest varint has ten bytes in the code: a negative number.
LongestVarint == (Bits64 + DigitBits - 1) \div DigitBits
SizeWithTag(tag, bytes) == Len(VarintBytes(tag * 8)) + bytes

NetworkConnectionInfoSize ==
    SizeWithTag(1, LongestVarint) + SizeWithTag(2, Len(VarintBytes(Greatest(MobileSubtype))))
QosTierConfigurationSize ==
    SizeWithTag(2, Len(VarintBytes(Greatest(QosTier)))) + SizeWithTag(3, LongestVarint)

-----------------------------------------------------------------------------
(* Descriptions                                                               *)

\* pb_membersize: of an array its element, of a pointer itself
ItemSize(m, k) == IF m.union = <<>> THEN m.type.size ELSE m.union[k].size

\* Which member of its union the i-th field is.
IndexInUnion(struct, i) ==
    IF struct[i].union = <<>> THEN 1
    ELSE CHOOSE k \in 1..i : /\ \A j \in i - k + 1..i : struct[j].union = struct[i].union
                             /\ i = k \/ struct[i - k].union # struct[i].union

MemberBytes(struct, i) == struct[i].entries * ItemSize(struct[i], IndexInUnion(struct, i))

\* PB_DATAOFFSET_FIRST, OTHER, UNION
PbSizeMax == -1
Distance(struct, placed, i) ==
    IF i = 1 THEN placed[1].at
    ELSE IF IndexInUnion(struct, i) > 1 THEN PbSizeMax
    ELSE placed[i].at - placed[i - 1].at - MemberBytes(struct, i - 1)

DataOffset(struct, i) == Distance(struct, Layout(struct), i)

SizeOffset(struct, i) ==
    LET Delta(p) == p.flagAt - p.at
    IN IF struct[i].flag = <<>> THEN 0 ELSE Delta(Layout(struct)[i])

\* data_size: of what a pointer points to
DataSize(f, m, k) == IF f.a = "pointer" THEN m.type.to.size ELSE ItemSize(m, k)

-----------------------------------------------------------------------------
(* The iterator                                                               *)

Count == Len(schema.fields)
RequiredField(i) == schema.fields[i].h = "required"

PbIterBegin ==
    [pos |-> 1, required |-> 0, data |-> DataOffset(schema.struct, 1),
     size |-> DataOffset(schema.struct, 1) + SizeOffset(schema.struct, 1)]

\* (Mutant: a pointer counts as long as what it points to.)
PrevSizeOfTarget(f, m, size) ==
    IF f.a = "static" /\ f.h = "repeated" THEN size * m.entries ELSE size

PrevSize(f, m, size) ==
    IF f.a = "static" /\ f.h = "repeated" THEN size * m.entries
    ELSE IF f.a = "pointer" THEN 8 ELSE size

SizeAt(i) ==
    LET f == schema.fields[i]
        m == schema.struct[i]
    IN PrevSize(f, m, DataSize(f, m, IndexInUnion(schema.struct, i)))

\* To the next field, of whose member the offset is given
SteppedBy(it, offset) ==
    LET next == it.pos + 1
        data == it.data + SizeAt(it.pos) + offset
    IN IF /\ schema.fields[it.pos].h = "oneof" /\ schema.fields[next].h = "oneof"
          /\ offset = PbSizeMax
       THEN [it EXCEPT !.pos = next]
       ELSE [pos |-> next, data |-> data, size |-> data + SizeOffset(schema.struct, next),
             required |-> it.required + IF RequiredField(it.pos) THEN 1 ELSE 0]

\* At the end it is back at the beginning, and returns false.
PbIterNext(it) ==
    IF it.pos = Count THEN PbIterBegin
    ELSE SteppedBy(it, DataOffset(schema.struct, it.pos + 1))

\* Onward until the test holds or all fields were seen: where it stops then.
RECURSIVE Onward(_, _, _)
Onward(it, wanted, left) ==
    IF it.pos \in wanted THEN [found |-> TRUE, it |-> it]
    ELSE IF left = 0 THEN [found |-> FALSE, it |-> it]
    ELSE Onward(PbIterNext(it), wanted, left - 1)

PbIterFind(it, tag) ==
    Onward(it, {i \in 1..Count : schema.fields[i].tag = tag /\ schema.fields[i].l # "extension"},
           Count)

FindExtensionField(it) ==
    Onward(it, {i \in 1..Count : schema.fields[i].l = "extension"}, Count)

-----------------------------------------------------------------------------
\* Those of the fields, and one that none has
Tags == {schema.fields[i].tag : i \in 1..Count} \union {NewTag}

LayoutInit ==
    /\ \E i \in DOMAIN Schemas : schema = Schemas[i]
    /\ iter = PbIterBegin

LayoutNext ==
    /\ \/ iter' = PbIterNext(iter)
       \/ \E tag \in Tags : iter' = PbIterFind(iter, tag).it
       \/ iter' = FindExtensionField(iter).it
    /\ UNCHANGED schema

LayoutSpec == LayoutInit /\ [][LayoutNext]_layoutVars

-----------------------------------------------------------------------------
\* The iterator stands at the member of its field, and at the has_, _count or which_
\* member that belongs to it, wherever it came from, and knows how many required
\* fields there are before; a tag is found from anywhere if the message has it. And
\* no two members share a byte, except those of a union.
MembersFound ==
    LET placed == Layout(schema.struct)
        struct == schema.struct
    IN /\ iter.data = placed[iter.pos].at
       /\ struct[iter.pos].flag # <<>> => iter.size = placed[iter.pos].flagAt
       /\ iter.required = Cardinality({i \in 1..iter.pos - 1 : RequiredField(i)})
       /\ \A tag \in Tags :
            PbIterFind(iter, tag).found <=>
                \E i \in 1..Count : schema.fields[i].tag = tag /\ schema.fields[i].l # "extension"
       /\ \A i \in 2..Count :
            \/ struct[i].union # <<>> /\ struct[i].union = struct[i - 1].union
            \/ placed[i].flagAt >= placed[i - 1].at + MemberBytes(struct, i - 1)

\* The descriptions fit the structures: of a has_ or _count member the description
\* knows, the default of a field is in the initializer, and what is decoded starts from
\* that; no known message is longer than its header says.
SchemasFit ==
    /\ \A i \in 1..Count : schema.fields[i].counted <=> schema.struct[i].flag # <<>>
    /\ schema.init # Null => Defaults(schema.fields, ZeroMessage(schema.fields)) = schema.init
    /\ \A msg \in schema.bounded : EncodedSize(schema.fields, msg) <= schema.size

-----------------------------------------------------------------------------
(* Messages on their way *)

CONSTANTS
    Kinds,        \* message types: [fields, messages, frame]
    MaxMessages   \* bound: messages, and fields of a newer schema, in one stream

VARIABLES
    kind,
    sent,        \* [msg, newer]: a message, or (msg is Null) a field of the type newer
    received     \* whether the stream has come to its end

pbVars == <<kind, sent, received>>

-----------------------------------------------------------------------------
(* What a message means: the values of the tags it has. *)

Items(f, cell) ==
    LET data == Data(f, cell)
        Item(x) == IF f.a = "pointer" /\ Text(f) THEN x.to ELSE x
    IN IF cell.v = Null THEN <<>> ELSE [i \in DOMAIN data |-> Item(data[i])]

Has(f, cell) ==
    CASE f.h = "repeated" -> Items(f, cell) # <<>> /\ (IsFixedCount(f) => cell.has # 0)
      [] OTHER -> Present(f, cell)

\* The extensions of a message count as fields of their own, of which those it
\* has not found are left out.
Flat(fields) ==
    FlattenSeq([i \in DOMAIN fields |->
        IF fields[i].l = "extension"
        THEN [k \in DOMAIN fields[i].ptr |-> [fields[i].ptr[k] EXCEPT !.h = "optional"]]
        ELSE <<fields[i]>>])

FlatCells(fields, msg) ==
    FlattenSeq([i \in DOMAIN fields |->
        IF fields[i].l = "extension"
        THEN [k \in DOMAIN msg[i].v |-> [msg[i].v[k].dest EXCEPT !.has = msg[i].v[k].found]]
        ELSE <<msg[i]>>])

RECURSIVE Value(_, _)
Value(fields, msg) ==
    LET One(f, x) == CASE f.l = "submessage" -> Value(f.ptr, x)
                       [] f.l = "string" -> CString(f, x)
                       [] OTHER -> x
        there == {i \in DOMAIN fields : Has(fields[i], msg[i])}
        At(tag) == CHOOSE i \in there : fields[i].tag = tag
        Of(i) == IF fields[i].h = "repeated"
                 THEN LET items == Items(fields[i], msg[i])
                      IN [k \in DOMAIN items |-> One(fields[i], items[k])]
                 ELSE One(fields[i], Data(fields[i], msg[i]))
    IN [tag \in {fields[i].tag : i \in there} |-> Of(At(tag))]

FieldOf(fields, tag) == fields[CHOOSE i \in DOMAIN fields : fields[i].tag = tag]

\* Two messages one after the other are one: arrays are joined, submessages
\* within the structure merged, everything else is replaced.
RECURSIVE Merged(_, _, _)
Merged(fields, x, y) ==
    LET F(t) == FieldOf(fields, t)
        kept == {t \in DOMAIN x :
                    ~ \E u \in DOMAIN y \ {t} :
                        F(t).union # Null /\ F(u).union = F(t).union}
    IN [t \in kept \union DOMAIN y |->
           CASE t \notin DOMAIN y -> x[t]
             [] t \notin kept -> y[t]
             [] t \in kept \intersect DOMAIN y ->
                  CASE F(t).h = "repeated" -> x[t] \o y[t]
                    [] F(t).l = "submessage" /\ F(t).a = "static" /\ F(t).h # "oneof" ->
                         Merged(F(t).ptr, x[t], y[t])
                    [] OTHER -> y[t]]

\* What the structure has room for, and whether what it must have is there.
RECURSIVE Valid(_, _)
Valid(fields, x) ==
    /\ \A i \in DOMAIN fields : fields[i].h = "required" => fields[i].tag \in DOMAIN x
    /\ \A t \in DOMAIN x :
        LET f == FieldOf(fields, t)
        IN /\ f.h = "repeated" /\ f.a = "static" => Len(x[t]) <= f.max
           /\ IsFixedCount(f) => Len(x[t]) = f.max
           /\ f.l = "submessage" =>
                IF f.h = "repeated" THEN \A k \in DOMAIN x[t] : Valid(f.ptr, x[t][k])
                ELSE Valid(f.ptr, x[t])

\* The blocks a message points to, each as often as it does.
RECURSIVE Blocks(_, _)
Blocks(fields, msg) ==
    LET Of(f, cell) ==
            LET items == IF f.h = "repeated"
                         THEN (IF cell.v = Null THEN <<>> ELSE Data(f, cell))
                         ELSE <<Data(f, cell)>>
                here == IF f.a = "pointer" /\ cell.v # Null THEN <<cell.v.id>> ELSE <<>>
                texts == IF f.a = "pointer" /\ f.h = "repeated" /\ Text(f)
                         THEN [k \in DOMAIN items |-> items[k].id] ELSE <<>>
                inner == IF f.l = "submessage" /\ cell.v # Null
                         THEN FlattenSeq([k \in DOMAIN items |-> Blocks(f.ptr, items[k])])
                         ELSE <<>>
            IN IF f.h = "oneof" /\ ~cell.has THEN <<>> ELSE here \o texts \o inner
    IN FlattenSeq([i \in DOMAIN fields |-> Of(fields[i], msg[i])])

-----------------------------------------------------------------------------
\* A structure to decode into, its extensions registered (pb_extension_t).
Fresh(fields) ==
    [i \in DOMAIN fields |->
        IF fields[i].l = "extension"
        THEN [has |-> FALSE,
              v |-> [k \in DOMAIN fields[i].ptr |->
                        [field |-> fields[i].ptr[k], found |-> FALSE,
                         dest |-> ZeroMessage(<<fields[i].ptr[k]>>)[1]]]]
        ELSE ZeroMessage(fields)[i]]

\* The parts of the stream that a decoder takes one by one.
ChunksOf(fields, msg) ==
    LET Cells(f, cell) ==
            IF f.h = "repeated" /\ ~Packable(f) /\ cell.v # Null
            THEN [k \in DOMAIN Data(f, cell) |->
                     [cell EXCEPT !.v = IF f.a = "pointer"
                                        THEN [@ EXCEPT !.to = <<Data(f, cell)[k]>>]
                                        ELSE <<Data(f, cell)[k]>>]]
            ELSE IF Has(f, cell) THEN <<cell>> ELSE <<>>
        Of(f) == LET i == CHOOSE j \in DOMAIN fields : fields[j] = f
                     cells == Cells(f, msg[i])
                 IN [k \in DOMAIN cells |->
                        [value |-> Value(<<f>>, <<cells[k]>>),
                         size |-> EncodeField(Sizing,
                             IF IsFixedCount(f) /\ ~Packable(f)
                             THEN [f EXCEPT !.counted = TRUE] ELSE f,
                             cells[k]).s.written]]
    IN FlattenSeq([i \in DOMAIN fields |-> Of(fields[i])])

\* GDTCCTEncodeBatchedLogRequest, and the two other ways to frame a message
Framed(k, msg) ==
    LET size == EncodedSize(k.fields, msg)
    IN CASE k.frame = "plain" -> EncodeMessage(Buffer(size), k.fields, msg)
         [] k.frame = "delimited" ->
              EncodeDelimited(Buffer(EncodeDelimited(Sizing, k.fields, msg).s.written),
                              k.fields, msg)
         [] k.frame = "zero" ->
              EncodeNullTerminated(Buffer(size + 1), k.fields, msg)

\* Messages are only joined where what follows can be told apart: not those
\* with an array of fixed size, which has to come whole and once.
Joins(k) == k.frame = "plain" /\ \A i \in DOMAIN k.fields : ~IsFixedCount(k.fields[i])

\* A field of a newer version of the message type
NewerField(l) ==
    EncodeTagged(Buffer(MaxRequired), Field(NewTag, l, "required", "static", Size64),
                 IF l = "bytes" THEN <<1>> ELSE 2 * More).s.out

Bytes(x) == IF x.msg = Null THEN NewerField(x.newer) ELSE Framed(kind, x.msg).s.out

Chunks(x) ==
    IF x.msg = Null THEN <<[value |-> <<>>, size |-> Len(NewerField(x.newer))]>>
    ELSE ChunksOf(Flat(kind.fields), FlatCells(kind.fields, x.msg))

\* GDTCCTDecodeLogResponse
Decoded(bytes) ==
    IF kind.frame = "delimited"
    THEN DecodeDelimited(InputStream(bytes), kind.fields, Fresh(kind.fields), TRUE)
    ELSE DecodeMessage(InputStream(bytes), kind.fields, Fresh(kind.fields), TRUE)

-----------------------------------------------------------------------------
PbInit ==
    /\ kind \in Kinds
    /\ sent = <<>> /\ received = FALSE

PbSend(x) ==
    /\ ~received /\ Len(sent) < MaxMessages
    /\ sent' = Append(sent, x)
    /\ UNCHANGED <<kind, received>>

PbSendMessage(msg) ==
    /\ Joins(kind) \/ sent = <<>>
    /\ PbSend([msg |-> msg, newer |-> Null])

PbSendNewer(l) == kind.frame = "plain" /\ PbSend([msg |-> Null, newer |-> l])

PbReceive ==
    /\ ~received
    /\ received' = TRUE
    /\ UNCHANGED <<kind, sent>>

PbNext ==
    \/ \E msg \in kind.messages : PbSendMessage(msg)
    \/ \E l \in {"varint", "fixed32", "fixed64", "bytes"} : PbSendNewer(l)
    \/ PbReceive

-----------------------------------------------------------------------------
\* How many of the fields a decoder can have received whole, if the last bytes of the
\* stream are lost and it ends behind one.
WholeChunks(chunks, lost) ==
    LET Ends(k) == FoldLeft(LAMBDA n, c : n + c.size, 0, SubSeq(chunks, 1, k))
        end == Ends(Len(chunks)) + IF kind.frame = "zero" THEN 1 ELSE 0
    IN IF kind.frame = "delimited" THEN (IF lost = 0 /\ chunks # <<>> THEN {Len(chunks)} ELSE {})
       ELSE IF kind.frame = "zero" /\ lost = 0 THEN {Len(chunks)}
       ELSE {k \in 0..Len(chunks) : Ends(k) = end - lost}

Meaning(fields, chunks, k) ==
    FoldLeft(LAMBDA x, c : Merged(fields, x, c.value), <<>>, SubSeq(chunks, 1, k))

\* A decoded message owns every block of the heap exactly once, a refused or a
\* released one none.
OwnsBlocks(r) ==
    \E blocks \in {IF r.ok THEN Blocks(Flat(kind.fields), FlatCells(kind.fields, r.v)) ELSE <<>>} :
        /\ r.s.heap = ToSet(blocks) /\ IsInjective(blocks)
        /\ r.ok => Release(r.s.heap, kind.fields, r.v).heap = {}

\* What comes out of the decoder has the meaning of the fields that came in whole, if
\* the structure has room for them and nothing required is missing.
Understood(r, fields, meanings) ==
    /\ r.ok <=> \E x \in meanings : Valid(fields, x)
    /\ r.ok => Value(fields, FlatCells(kind.fields, r.v)) \in meanings

\* A message comes out of the decoder with the meaning it was sent with, and several
\* messages in one stream as one: a stream that ends between two fields, wherever it was
\* cut, is decoded to what these fields say; any other one is refused.
MessagesMean ==
    LET fields == Flat(kind.fields)
        wire == FlattenSeq([i \in DOMAIN sent |-> Bytes(sent[i])])
        chunks == FlattenSeq([i \in DOMAIN sent |-> Chunks(sent[i])])
    IN /\ \A i \in DOMAIN sent : sent[i].msg # Null => Framed(kind, sent[i].msg).ok
       /\ \A n \in 0..Len(wire) :
        LET whole == WholeChunks(chunks, Len(wire) - n)
        IN \E r \in {Decoded(SubSeq(wire, 1, n))} :
            /\ Understood(r, fields, {Meaning(fields, chunks, k) : k \in whole})
            /\ OwnsBlocks(r)

\* Every message that is received
MessagesReceived == [][received' => MessagesMean]_pbVars
=============================================================================
