------------------------------- MODULE Iterators -------------------------------
(* Keys and iterators. A slice is a sequence of bytes; a byte has ByteBits    *)
(* bits here (8 in the code), four of them a word of hash.cc (32 bits). The   *)
(* eight bytes that end an internal key, sequence number and type, are one    *)
(* element of the sequence.                                                   *)
(*                                                                            *)
(* The iterators a read of LevelDB is built from: over a sorted list (the     *)
(* memtable, the files of a level), over a block, over a file of blocks or a  *)
(* level of files (two levels), and over several of these merged. An iterator *)
(* is a record; Move(it, op, k) is the iterator after a call: "seek" (to k),  *)
(* "first", "last", "next", "prev". The cached key of IteratorWrapper is the  *)
(* one that Key gives.                                                        *)
EXTENDS Integers, SequencesExt, Bitwise

CONSTANTS
    ByteBits,
    MaxSequence    \* kMaxSequenceNumber

MaxByte == 2 ^ ByteBits - 1
Word == 2 ^ (4 * ByteBits)

-----------------------------------------------------------------------------
(* Slices and the order of their bytes *)

\* How many of the first bytes are the same.
Shared(a, b) ==
    LET n == IF Len(a) < Len(b) THEN Len(a) ELSE Len(b)
    IN CHOOSE i \in 0..n : /\ \A j \in 1..i : a[j] = b[j]
                           /\ i < n => a[i + 1] # b[i + 1]

Sign(x, y) == IF x < y THEN -1 ELSE IF x > y THEN 1 ELSE 0

\* memcmp of the common length, then the lengths
RECURSIVE Compare(_, _)
Compare(a, b) ==
    IF a = <<>> \/ b = <<>> THEN Sign(Len(a), Len(b))
    ELSE IF a[1] # b[1] THEN Sign(a[1], b[1])
    ELSE Compare(Tail(a), Tail(b))

\* The first i bytes, the last one plus one.
Incremented(key, i) == Append(SubSeq(key, 1, i - 1), key[i] + 1)

\* A short slice with start <= it < limit: i is the first byte that differs.
SeparatorAt(start, limit, i) ==
    IF i <= Len(start) /\ i <= Len(limit) /\ start[i] < MaxByte /\ start[i] + 1 < limit[i]
    THEN Incremented(start, i) ELSE start

FindShortestSeparator(start, limit) == SeparatorAt(start, limit, Shared(start, limit) + 1)

\* A short slice >= key
FindShortSuccessor(key) ==
    LET low == {i \in DOMAIN key : key[i] # MaxByte}
        i == CHOOSE i \in low : \A j \in low : i <= j
    IN IF low = {} THEN key ELSE Incremented(key, i)

-----------------------------------------------------------------------------
(* Internal keys *)

Deletion == 0
Value == 1

PackSequenceAndType(sequence, type) == sequence * 2 + type

InternalKey(user, sequence, type) ==
    Append(user, PackSequenceAndType(sequence, type))

\* The key to look for: all entries with this or a smaller sequence number
\* come behind it. (kValueTypeForSeek is kTypeValue.)
LookupKey(user, sequence) == InternalKey(user, sequence, Value)

ExtractUserKey(key) == SubSeq(key, 1, Len(key) - 1)

ParseInternalKey(key) ==
    [user |-> ExtractUserKey(key), sequence |-> Last(key) \div 2,
     type |-> Last(key) % 2]

\* User keys upwards, then sequence numbers and types downwards
InternalCompare(a, b) ==
    IF ExtractUserKey(a) = ExtractUserKey(b) THEN Sign(Last(b), Last(a))
    ELSE Compare(ExtractUserKey(a), ExtractUserKey(b))

\* The first internal key there can be of a user key
Earliest(short) == InternalKey(short, MaxSequence, Value)

\* A user key that became shorter but larger replaces the old one.
Shortened(key, short) ==
    LET user == ExtractUserKey(key)
    IN IF Len(short) < Len(user) /\ Compare(user, short) < 0
       THEN Earliest(short) ELSE key

InternalShortestSeparator(start, limit) ==
    Shortened(start, FindShortestSeparator(ExtractUserKey(start),
                                           ExtractUserKey(limit)))

InternalShortSuccessor(key) ==
    Shortened(key, FindShortSuccessor(ExtractUserKey(key)))

-----------------------------------------------------------------------------
(* The bloom filter: [bits, set, k], set of the positions that are one *)

HashFactor == 147    \* m, 0xc6a4a793 in the code

\* Multiplied, and its high bytes mixed into the low ones
Mixed(h, bytes) ==
    LET product == (h * HashFactor) % Word IN product ^^ (product \div 2 ^ (bytes * ByteBits))

RECURSIVE Little(_)
Little(bytes) ==
    IF bytes = <<>> THEN 0 ELSE Head(bytes) + 2 ^ ByteBits * Little(Tail(bytes))

RECURSIVE HashFrom(_, _)
HashFrom(data, h) ==
    IF Len(data) >= 4
    THEN HashFrom(SubSeq(data, 5, Len(data)), Mixed(h + Little(SubSeq(data, 1, 4)), 2))
    ELSE IF data = <<>> THEN h
    ELSE Mixed(h + Little(data), 3)

Hash(data, seed) == HashFrom(data, seed ^^ ((Len(data) * HashFactor) % Word))

BloomHash(key) == Hash(key, 2 ^ (4 * ByteBits - 1) + 5)

\* The k bits of a key: double hashing with the hash rotated by a bit more
\* than half a word.
ProbesFrom(h, k, bits) ==
    LET turn == 2 * ByteBits + 1
        delta == (h \div 2 ^ turn + h * 2 ^ (4 * ByteBits - turn)) % Word
    IN {((h + j * delta) % Word) % bits : j \in 0..(k - 1)}

Probes(key, k, bits) == ProbesFrom(BloomHash(key), k, bits)

ProbeCount(bitsPerKey) ==
    LET k == (bitsPerKey * 69) \div 100
    IN IF k < 1 THEN 1 ELSE IF k > 30 THEN 30 ELSE k

\* BloomFilterPolicy, of user keys
CreateFilter(keys, bitsPerKey) ==
    LET n == Len(keys) * bitsPerKey
        bits == IF n < 64 THEN 64 ELSE ((n + 7) \div 8) * 8
        k == ProbeCount(bitsPerKey)
    IN [bits |-> bits, k |-> k,
        set |-> UNION {Probes(keys[i], k, bits) : i \in DOMAIN keys}]

NoFilter == [bits |-> 0, k |-> 0, set |-> {}]

KeyMayMatch(key, filter) ==
    /\ filter.bits # 0
    /\ filter.k > 30 \/ Probes(key, filter.k, filter.bits) \subseteq filter.set

\* InternalFilterPolicy: the filter is over the user keys, so that it says the same of
\* all the entries of a key.
InternalCreateFilter(keys, bitsPerKey) ==
    CreateFilter([i \in DOMAIN keys |-> ExtractUserKey(keys[i])], bitsPerKey)

InternalKeyMayMatch(key, filter) == KeyMayMatch(ExtractUserKey(key), filter)

-----------------------------------------------------------------------------
(* Iterators *)

\* Without entries: NewErrorIterator, NewEmptyIterator
ErrorIterator(status) == [type |-> "error", status |-> status]
EmptyIterator == ErrorIterator("ok")

\* Over a sorted sequence of [key, value]; at is the key it stands at, <<>> if
\* it is not valid (a list may grow in the meantime).
ListIterator(list) == [type |-> "list", list |-> list, at |-> <<>>]

\* Over entries [shared, delta, value], restarts the first entry of each run;
\* next is where the entry behind the current one starts.
BlockIterator(block) ==
    [type |-> "block", entries |-> block.entries, restarts |-> block.restarts,
     current |-> Len(block.entries) + 1, run |-> Len(block.restarts),
     next |-> 1, key |-> <<>>, value |-> <<>>, status |-> "ok"]

\* Over what the values of the index stand for: blocks[value] is the iterator
\* the block function makes of it.
NoIterator == [type |-> "none"]
NoHandle == <<>>

TwoLevelIterator(index, blocks) ==
    [type |-> "two", index |-> index, data |-> NoIterator, handle |-> NoHandle,
     status |-> "ok", blocks |-> blocks]

MergingIterator(children) ==
    IF children = <<>> THEN EmptyIterator
    ELSE IF Len(children) = 1 THEN children[1]
    ELSE [type |-> "merge", children |-> children, current |-> 0, forward |-> TRUE]

-----------------------------------------------------------------------------
RECURSIVE Valid(_), Key(_), ValueAt(_), Status(_)

Valid(it) ==
    CASE it.type \in {"error", "none"} -> FALSE
      [] it.type = "list" -> it.at # <<>>
      [] it.type = "block" -> it.current <= Len(it.entries)
      [] it.type = "two" -> Valid(it.data)
      [] it.type = "merge" -> it.current # 0

Key(it) ==
    CASE it.type = "list" -> it.at
      [] it.type = "block" -> it.key
      [] it.type = "two" -> Key(it.data)
      [] it.type = "merge" -> Key(it.children[it.current])

ValueAt(it) ==
    CASE it.type = "list" ->
           LET i == CHOOSE i \in DOMAIN it.list : it.list[i].key = it.at
           IN it.list[i].value
      [] it.type = "block" -> it.value
      [] it.type = "two" -> ValueAt(it.data)
      [] it.type = "merge" -> ValueAt(it.children[it.current])

Status(it) ==
    CASE it.type \in {"none", "list"} -> "ok"
      [] it.type \in {"error", "block"} -> it.status
      [] it.type = "two" ->
           IF Status(it.index) # "ok" THEN Status(it.index)
           ELSE IF Status(it.data) # "ok" THEN Status(it.data) ELSE it.status
      [] it.type = "merge" ->
           LET bad == {i \in DOMAIN it.children : Status(it.children[i]) # "ok"}
           IN IF bad = {} THEN "ok"
              ELSE Status(it.children[CHOOSE i \in bad : \A j \in bad : i <= j])

-----------------------------------------------------------------------------
(* Lists *)

Reached(keys, at, op, k) ==
    CASE op = "seek" -> {x \in keys : InternalCompare(x, k) >= 0}
      [] op = "next" -> {x \in keys : InternalCompare(x, at) > 0}
      [] op = "prev" -> {x \in keys : InternalCompare(x, at) < 0}
      [] OTHER -> keys

Nearest(keys, side) ==
    IF keys = {} THEN <<>>
    ELSE CHOOSE x \in keys : \A y \in keys : x = y \/ InternalCompare(x, y) = side

MoveList(it, op, k) ==
    [it EXCEPT !.at = Nearest(Reached({it.list[i].key : i \in DOMAIN it.list}, @, op, k),
                              IF op \in {"seek", "next", "first"} THEN -1 ELSE 1)]

-----------------------------------------------------------------------------
(* Blocks *)

Entries(it) == Len(it.entries)

Restart(it, run) == it.restarts[run + 1]

\* CorruptionError, or the end
Invalid(it) == [it EXCEPT !.current = Entries(it) + 1, !.run = Len(it.restarts)]
Corrupt(it) ==
    [Invalid(it) EXCEPT !.status = "corruption", !.key = <<>>, !.value = <<>>,
                        !.next = Entries(it) + 1]

SeekToRestartPoint(it, run) ==
    [it EXCEPT !.key = <<>>, !.run = run, !.next = Restart(it, run)]

ParseNextKey(it) ==
    LET e == it.entries[it.next]
        runs == {r \in it.run..(Len(it.restarts) - 1) :
                    r = it.run \/ Restart(it, r) < it.next}
    IN IF it.next > Entries(it) THEN Invalid(it)
       ELSE IF Len(it.key) < e.shared THEN Corrupt(it)
       ELSE [it EXCEPT !.current = it.next, !.next = @ + 1,
                       !.key = SubSeq(@, 1, e.shared) \o e.delta,
                       !.value = e.value,
                       !.run = CHOOSE r \in runs : \A q \in runs : q <= r]

\* The last run that starts with a key before k.
RECURSIVE LastRun(_, _, _, _)
LastRun(it, k, left, right) ==
    LET mid == (left + right + 1) \div 2
        e == it.entries[Restart(it, mid)]
    IN IF left >= right THEN left
       ELSE IF e.shared # 0 THEN -1
       ELSE IF InternalCompare(e.delta, k) < 0 THEN LastRun(it, k, mid, right)
       ELSE LastRun(it, k, left, mid - 1)

RECURSIVE ParseTo(_, _), ParseUpTo(_, _)

\* From an entry on to the first key that is not before k
ParseTo(it, k) ==
    IF ~Valid(it) \/ InternalCompare(it.key, k) >= 0 THEN it ELSE ParseTo(ParseNextKey(it), k)

\* From an entry on to the last one before the one at limit
ParseUpTo(it, limit) ==
    IF ~Valid(it) \/ it.next >= limit THEN it ELSE ParseUpTo(ParseNextKey(it), limit)

FirstOfRun(it, run) == ParseNextKey(SeekToRestartPoint(it, run))

SeekInRun(it, k, run) == IF run < 0 THEN Corrupt(it) ELSE ParseTo(FirstOfRun(it, run), k)

BlockSeek(it, k) == SeekInRun(it, k, LastRun(it, k, 0, Len(it.restarts) - 1))

\* In the last run that begins before the current entry
BlockPrev(it) ==
    LET before == {r \in 0..it.run : r < Len(it.restarts) /\ Restart(it, r) < it.current}
    IN IF before = {} THEN Invalid(it)
       ELSE ParseUpTo(FirstOfRun(it, CHOOSE r \in before : \A q \in before : q <= r), it.current)

MoveBlock(it, op, k) ==
    CASE op = "seek" -> BlockSeek(it, k)
      [] op = "first" -> FirstOfRun(it, 0)
      [] op = "last" -> ParseUpTo(FirstOfRun(it, Len(it.restarts) - 1), Entries(it) + 1)
      [] op = "next" -> ParseNextKey(it)
      [] op = "prev" -> BlockPrev(it)

-----------------------------------------------------------------------------
RECURSIVE Move(_, _, _)

(* Two levels *)

\* The error of the data iterator that goes is kept.
SetDataIterator(it, data) ==
    [it EXCEPT !.data = data,
               !.status = IF @ = "ok" THEN Status(it.data) ELSE @]

InitDataBlock(it) ==
    IF ~Valid(it.index) THEN SetDataIterator(it, NoIterator)
    ELSE IF it.data # NoIterator /\ ValueAt(it.index) = it.handle THEN it
    ELSE SetDataIterator([it EXCEPT !.handle = ValueAt(it.index)], it.blocks[ValueAt(it.index)])

MoveData(it, op, k) ==
    IF it.data = NoIterator THEN it ELSE [it EXCEPT !.data = Move(it.data, op, k)]

\* To the next block with an entry: on means forward.
RECURSIVE SkipEmptyDataBlocks(_, _)
SkipEmptyDataBlocks(it, on) ==
    IF Valid(it.data) THEN it
    ELSE IF ~Valid(it.index) THEN SetDataIterator(it, NoIterator)
    ELSE SkipEmptyDataBlocks(
             MoveData(InitDataBlock(
                 [it EXCEPT !.index = Move(@, IF on THEN "next" ELSE "prev", <<>>)]),
                 IF on THEN "first" ELSE "last", <<>>), on)

MoveTwoLevel(it, op, k) ==
    LET at == IF op \in {"next", "prev"} THEN it
              ELSE InitDataBlock([it EXCEPT !.index = Move(@, op, k)])
    IN SkipEmptyDataBlocks(MoveData(at, op, k), op \in {"seek", "first", "next"})

(* Merging *)

\* FindSmallest (side -1) and FindLargest (1): of equal keys the first child is the
\* smallest and the last one the largest.
Beats(it, i, j, side) ==
    LET r == InternalCompare(Key(it.children[i]), Key(it.children[j]))
    IN IF r = 0 THEN Sign(i, j) \in {0, side} ELSE r = side

Extreme(it, there, side) ==
    IF there = {} THEN 0 ELSE CHOOSE i \in there : \A j \in there : Beats(it, i, j, side)

WithCurrent(it, side) ==
    [it EXCEPT !.current = Extreme(it, {i \in DOMAIN it.children : Valid(it.children[i])}, side)]

\* A child that is not the current one, behind the key or before it.
PastKey(at, key) ==
    IF Valid(at) /\ InternalCompare(Key(at), key) = 0 THEN Move(at, "next", <<>>) ELSE at

BeforeKey(at) == Move(at, IF Valid(at) THEN "prev" ELSE "last", <<>>)

\* (Mutant: the other children stay where they were.)
TurnedAlone(it, on) == [it EXCEPT !.forward = on]

\* The others are only placed when the direction changes.
Turned(it, on) ==
    LET Sought(i) == Move(it.children[i], "seek", Key(it))
        Placed(i) == IF i = it.current THEN it.children[i]
                     ELSE IF on THEN PastKey(Sought(i), Key(it)) ELSE BeforeKey(Sought(i))
    IN IF it.forward = on THEN it
       ELSE [it EXCEPT !.forward = on,
                       !.children = [i \in DOMAIN it.children |-> Placed(i)]]

\* Those children that a call moves: one to step, all to place them
Moved(it, which, op, k) ==
    [it EXCEPT !.children = [i \in DOMAIN @ |-> IF i \in which THEN Move(@[i], op, k) ELSE @[i]]]

MoveMerging(it, op, k) ==
    LET moved == IF op \in {"next", "prev"}
                 THEN Moved(Turned(it, op = "next"), {it.current}, op, k)
                 ELSE Moved([it EXCEPT !.forward = (op # "last")], DOMAIN it.children, op, k)
    IN WithCurrent(moved, IF op \in {"prev", "last"} THEN 1 ELSE -1)

Move(it, op, k) ==
    CASE it.type = "error" -> it
      [] it.type = "list" -> MoveList(it, op, k)
      [] it.type = "block" -> MoveBlock(it, op, k)
      [] it.type = "two" -> MoveTwoLevel(it, op, k)
      [] it.type = "merge" -> MoveMerging(it, op, k)
================================================================================
