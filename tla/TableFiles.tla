------------------------------ MODULE TableFiles ------------------------------
(* The sorted files of LevelDB (table/): a TableBuilder writes them block by  *)
(* block, a Table reads them again, with a filter that tells which keys need  *)
(* not be looked for and with blocks kept in a cache.                         *)
(*                                                                            *)
(* The bytes of a file are kept as what was written: a block is [at, size,    *)
(* entries, restarts, good], at its offset, good whether the checksum is that *)
(* of its contents. Sizes are those of the code, of a varint one byte. A      *)
(* block is stored as it is: the pod is built without Snappy, which WriteBlock*)
(* then finds unable to compress.                                             *)
EXTENDS Iterators

CONSTANTS
    TbKeys,         \* the internal keys that may be added
    TbOptions,      \* [restart, block, bits, cached, paranoid]
    FilterBase,     \* kFilterBase
    MaxEntries,     \* bound: entries of a table
    MaxDamage       \* bound: blocks whose bytes change

VARIABLES opts, tb, tfile, tr, tit,
    tref    \* where the list of all entries would be after the moves of tit

tbVars == <<opts, tb, tfile, tr, tit, tref>>

Fixed32Size == 4
TrailerSize == 5
FooterSize == 48
NoBlock == [at |-> 0, size |-> 0]

-----------------------------------------------------------------------------
(* BlockBuilder *)

EmptyBlock ==
    [entries |-> <<>>, restarts |-> <<1>>, counter |-> 0, last |-> <<>>, bytes |-> 0]

CurrentSizeEstimate(b) == b.bytes + (Len(b.restarts) + 1) * Fixed32Size

BlockAdd(b, interval, key, value) ==
    LET restarts == b.counter >= interval
        shared == IF restarts THEN 0 ELSE Shared(b.last, key)
        delta == SubSeq(key, shared + 1, Len(key))
    IN [entries |-> Append(b.entries, [shared |-> shared, delta |-> delta, value |-> value]),
        restarts |-> IF restarts THEN Append(b.restarts, Len(b.entries) + 1)
                     ELSE b.restarts,
        counter |-> IF restarts THEN 1 ELSE b.counter + 1,
        last |-> key, bytes |-> b.bytes + 3 + Len(delta) + Len(value)]

-----------------------------------------------------------------------------
(* FilterBlockBuilder: [keys, filters], one filter for each FilterBase bytes  *)
(* of the file. (The code keeps the filters in one string, and their offsets.)*)

EmptyFilter == [keys |-> <<>>, filters |-> <<>>]

GenerateFilter(fb, bits) ==
    [keys |-> <<>>,
     filters |-> Append(fb.filters, IF fb.keys = <<>> THEN NoFilter
                                    ELSE InternalCreateFilter(fb.keys, bits))]

\* (Mutant: a block that begins in the same part of the file has a filter anew.)
StartBlockAnew(fb, bits, offset) == GenerateFilter(fb, bits)

RECURSIVE StartBlock(_, _, _)
StartBlock(fb, bits, offset) ==
    IF offset \div FilterBase > Len(fb.filters)
    THEN StartBlock(GenerateFilter(fb, bits), bits, offset) ELSE fb

AddKey(fb, key) == [fb EXCEPT !.keys = Append(@, key)]

FinishFilter(fb, bits) == IF fb.keys = <<>> THEN fb ELSE GenerateFilter(fb, bits)

RECURSIVE FilterBytes(_)
FilterBytes(filters) ==
    IF filters = <<>> THEN Fixed32Size + 1
    ELSE (IF Head(filters).bits = 0 THEN 0 ELSE Head(filters).bits \div 8 + 1)
         + Fixed32Size + FilterBytes(Tail(filters))

\* FilterBlockReader: without a filter for the place, every key may match.
FilterMayMatch(filters, offset, key) ==
    LET i == offset \div FilterBase + 1
    IN i \in DOMAIN filters => InternalKeyMayMatch(key, filters[i])

-----------------------------------------------------------------------------
(* TableBuilder: tb.index and tb.data are blocks, handle the block that the   *)
(* index does not have yet, offset the length of the file so far.             *)

NoBuilder ==
    [index |-> EmptyBlock, data |-> EmptyBlock, filter |-> EmptyFilter, last |-> <<>>,
     pending |-> FALSE, handle |-> NoBlock, offset |-> 0, closed |-> FALSE,
     ok |-> TRUE, added |-> <<>>]

HandleOf(b) == <<b.at, b.size>>

\* WriteRawBlock: the contents, then type and checksum
Raw(offset, contents, size) ==
    [at |-> offset, size |-> size, contents |-> contents, good |-> TRUE]

WriteBlock(offset, b) == Raw(offset, b, CurrentSizeEstimate(b))

After(b) == b.at + b.size + TrailerSize

\* The index entry of the last block: a key not before its last, and before k.
WithIndexEntry(t, separator) ==
    IF ~t.pending THEN t
    ELSE [t EXCEPT !.index = BlockAdd(@, 1, separator, HandleOf(t.handle)),
                   !.pending = FALSE]

WithFilter(t, bits) ==
    IF bits = 0 THEN t ELSE [t EXCEPT !.filter = StartBlock(@, bits, t.offset)]

\* Flush, with the block that the file receives if it takes it
FlushedTo(t, block) ==
    [t EXCEPT !.data = EmptyBlock, !.pending = TRUE, !.handle = block, !.offset = After(block)]

Flushed(t, bits, fails) ==
    IF t.data.entries = <<>> THEN t
    ELSE IF fails THEN [t EXCEPT !.ok = FALSE, !.data = EmptyBlock]
    ELSE WithFilter(FlushedTo(t, WriteBlock(t.offset, t.data)), bits)

WithEntry(t, k, v) ==
    [t EXCEPT !.filter = IF opts.bits = 0 THEN @ ELSE AddKey(@, k),
              !.last = k, !.data = BlockAdd(@, opts.restart, k, v),
              !.added = Append(@, [key |-> k, value |-> v])]

\* TableBuilder::Add. The block is written when it is long enough.
TbAdd(k, v, fails) ==
    LET added == WithEntry(WithIndexEntry(tb, InternalShortestSeparator(tb.last, k)), k, v)
        full == CurrentSizeEstimate(added.data) >= opts.block
    IN /\ ~tb.closed /\ tb.ok /\ Len(tb.added) < MaxEntries
       /\ tb.added # <<>> => InternalCompare(k, tb.last) > 0
       /\ fails => full
       /\ tb' = IF full THEN Flushed(added, opts.bits, fails) ELSE added
       /\ tfile' = IF full /\ ~fails THEN Append(tfile, tb'.handle) ELSE tfile
       /\ UNCHANGED <<opts, tr, tit, tref>>

\* Footer::EncodeTo: the two handles, padded, and a magic number that no other file
\* ends with
Footer(offset, meta, index) ==
    [at |-> offset, size |-> FooterSize, good |-> TRUE,
     contents |-> [meta |-> HandleOf(meta), index |-> HandleOf(index)]]

\* Footer::DecodeFrom: the file is long enough and ends with a footer.
HasFooter(f) == f # <<>> /\ Last(f).size = FooterSize /\ Last(f).good

\* The index, behind the block that says where the filter is, and the footer
Ending(meta, index) == <<meta, index, Footer(After(index), meta, index)>>
EndingAt(offset, contents, index) ==
    LET meta == WriteBlock(offset, contents)
    IN Ending(meta, WriteBlock(After(meta), index))

\* What Finish writes behind the last block: the filter, if there is one, first.
LastBlocks(t, filter) ==
    IF opts.bits = 0 THEN EndingAt(t.offset, EmptyBlock, t.index)
    ELSE <<filter>> \o EndingAt(After(filter),
                               BlockAdd(EmptyBlock, opts.restart, <<0>>, HandleOf(filter)), t.index)

FilterBlock(t) == Raw(t.offset, t.filter.filters, FilterBytes(t.filter.filters))

\* Flush, the rest of the filter and the last entry of the index
Finished(t, bits) ==
    [WithIndexEntry(t, InternalShortSuccessor(t.last)) EXCEPT !.filter = FinishFilter(@, bits)]

\* TableBuilder::Finish
TbFinish ==
    LET t == Finished(Flushed(tb, opts.bits, FALSE), opts.bits)
    IN /\ ~tb.closed /\ tb.ok
       /\ tfile' = tfile
                   \o (IF t.offset > tb.offset THEN <<t.handle>> ELSE <<>>)
                   \o LastBlocks(t, FilterBlock(t))
       /\ tb' = [t EXCEPT !.closed = TRUE, !.offset = Last(tfile').at + FooterSize]
       /\ UNCHANGED <<opts, tr, tit, tref>>

\* Abandon: what there is of the file is no table.
TbAbandon ==
    /\ ~tb.closed
    /\ tb' = [tb EXCEPT !.closed = TRUE, !.ok = FALSE]
    /\ UNCHANGED <<opts, tfile, tr, tit, tref>>

-----------------------------------------------------------------------------
(* Table: tr.open, its footer, the index and the filters (Null without)       *)

NoTable == [open |-> FALSE, tried |-> FALSE, status |-> "ok", index |-> EmptyBlock,
            meta |-> 0, filters |-> [used |-> FALSE, of |-> <<>>], cache |-> <<>>]

\* ReadBlock with verify_checksums: the block, or corruption.
ReadBlock(f, handle) ==
    LET there == {i \in DOMAIN f : HandleOf(f[i]) = handle}
        b == f[CHOOSE i \in there : TRUE]
    IN IF there = {} THEN [ok |-> FALSE]
       ELSE [ok |-> b.good, contents |-> b.contents]

\* ReadMeta and ReadFilter: errors are not passed on, the table then works
\* without filter.
Filters(f, meta) ==
    LET m == ReadBlock(f, meta)
        r == ReadBlock(f, m.contents.entries[1].value)
    IN IF opts.bits = 0 \/ ~m.ok THEN [used |-> FALSE, of |-> <<>>]
       ELSE IF ~r.ok THEN [used |-> FALSE, of |-> <<>>]
       ELSE [used |-> TRUE, of |-> r.contents]

\* Table::Open of a file whose footer is the last thing in it
TrOpen ==
    LET footer == Last(tfile)
        index == ReadBlock(tfile, footer.contents.index)
    IN /\ tb.closed /\ ~tr.tried
       /\ tr' = IF ~HasFooter(tfile) \/ ~index.ok
                THEN [tr EXCEPT !.tried = TRUE, !.status = "corruption"]
                ELSE [tr EXCEPT !.tried = TRUE, !.open = TRUE,
                                !.index = index.contents,
                                !.meta = footer.contents.meta[1],
                                !.filters = Filters(tfile, footer.contents.meta)]
       /\ UNCHANGED <<opts, tb, tfile, tit, tref>>

InCache(offset) == \E i \in DOMAIN tr.cache : tr.cache[i].at = offset

\* BlockReader: the cached block, or the one in the file; a block whose bytes
\* are not what was written is an iterator with an error.
BlockReader(handle) ==
    LET cached == CHOOSE c \in ToSet(tr.cache) : c.at = handle[1]
        r == ReadBlock(tfile, handle)
    IN IF InCache(handle[1]) THEN BlockIterator(cached.contents)
       ELSE IF r.ok THEN BlockIterator(r.contents)
       ELSE ErrorIterator("corruption")

\* What BlockReader leaves in the cache
Caching(handle) ==
    LET r == ReadBlock(tfile, handle)
    IN IF ~opts.cached \/ InCache(handle[1]) \/ ~r.ok THEN tr.cache
       ELSE Append(tr.cache, [at |-> handle[1], contents |-> r.contents])

Handles == {e.value : e \in ToSet(tr.index.entries)}

NewTableIterator ==
    TwoLevelIterator(BlockIterator(tr.index), [h \in Handles |-> BlockReader(h)])

IndexSeek(k) == Move(BlockIterator(tr.index), "seek", k)

\* The filter says that the block of this place has no entry of the key.
Excluded(k, handle) == tr.filters.used /\ ~FilterMayMatch(tr.filters.of, handle[1], k)

\* InternalGet: the entry at or behind k in the block that may have it.
GetIn(at) ==
    [found |-> Valid(at), status |-> Status(at),
     key |-> IF Valid(at) THEN Key(at) ELSE <<>>, value |-> IF Valid(at) THEN ValueAt(at) ELSE <<>>]

GetAt(k, index) ==
    IF ~Valid(index) \/ Excluded(k, ValueAt(index)) THEN GetIn(EmptyIterator)
    ELSE GetIn(Move(BlockReader(ValueAt(index)), "seek", k))

InternalGet(k) == GetAt(k, IndexSeek(k))

OffsetAt(index) == IF Valid(index) THEN ValueAt(index)[1] ELSE tr.meta

ApproximateOffsetOf(k) == OffsetAt(IndexSeek(k))

\* A lookup leaves its block in the cache.
TrGet(k) ==
    /\ tr.open
    /\ \E index \in {IndexSeek(k)} :
        /\ Valid(index) /\ ~Excluded(k, ValueAt(index))
        /\ tr' = [tr EXCEPT !.cache = Caching(ValueAt(index))]
    /\ UNCHANGED <<opts, tb, tfile, tit, tref>>

\* The cache forgets a block.
TrEvict ==
    /\ tr.cache # <<>>
    /\ tr' = [tr EXCEPT !.cache = Tail(@)]
    /\ UNCHANGED <<opts, tb, tfile, tit, tref>>

\* The bytes of a block change on the way to the disk or on it.
TrDamage(i) ==
    /\ tb.closed /\ tb.ok
    /\ Cardinality({j \in DOMAIN tfile : ~tfile[j].good}) < MaxDamage
    /\ tfile' = [tfile EXCEPT ![i].good = FALSE]
    /\ UNCHANGED <<opts, tb, tr, tit, tref>>

\* An iterator of the table and its moves: it reads a block when it comes to it
\* and leaves it in the cache. One that is not valid can only be placed anew.
TrMove(op, k) ==
    LET from == IF tit = NoIterator THEN NewTableIterator
                ELSE [tit EXCEPT !.blocks = [h \in Handles |-> BlockReader(h)]]
    IN /\ tr.open
       /\ op \in {"next", "prev"} => Valid(tit)
       /\ \E to \in {Move(from, op, k)} :
            /\ tit' = [to EXCEPT !.blocks = <<>>]
            /\ tr' = IF to.data = NoIterator THEN tr
                     ELSE [tr EXCEPT !.cache = Caching(to.handle)]
       /\ tref' = Move(IF tit = NoIterator THEN ListIterator(tb.added) ELSE tref, op, k)
       /\ UNCHANGED <<opts, tb, tfile>>

TbInit ==
    /\ opts \in TbOptions
    /\ tb = NoBuilder /\ tfile = <<>> /\ tr = NoTable /\ tit = NoIterator
    /\ tref = NoIterator

TbNext ==
    \/ \E k \in TbKeys, fails \in BOOLEAN : TbAdd(k, <<Len(tb.added)>>, fails)
    \/ TbFinish
    \/ TbAbandon
    \/ TrOpen
    \/ \E k \in TbKeys : TrGet(k)
    \/ TrEvict
    \/ \E i \in DOMAIN tfile : TrDamage(i)
    \/ \E op \in {"seek", "first", "last", "next", "prev"} :
        \E k \in (IF op = "seek" THEN TbKeys ELSE {<<>>}) : TrMove(op, k)

TbSpec == TbInit /\ [][TbNext]_tbVars

-----------------------------------------------------------------------------
\* What was added to a table can be read from it. A lookup finds the first entry
\* at or behind the key, and misses none of its user key, whatever the filter
\* says; an iterator stands where one over the list of all entries would. Where a
\* block has changed, they report it or do not need the block, and a changed
\* filter only makes lookups slower.
TablesMean ==
    LET damaged == \E i \in DOMAIN tfile : ~tfile[i].good
        From(k) == {i \in DOMAIN tb.added : InternalCompare(tb.added[i].key, k) >= 0}
        First(k) == tb.added[CHOOSE i \in From(k) : \A j \in From(k) : i <= j]
        Read(k, r) ==
            /\ r.found => From(k) # {} /\ [key |-> r.key, value |-> r.value] = First(k)
            /\ ~r.found /\ r.status = "ok" /\ From(k) # {} =>
                 ExtractUserKey(First(k).key) # ExtractUserKey(k)
            /\ r.status # "ok" => damaged
    IN /\ tr.open =>
            /\ tb.ok
            /\ \A k \in TbKeys : Read(k, InternalGet(k))
            /\ \A k, l \in TbKeys : InternalCompare(k, l) < 0 =>
                 ApproximateOffsetOf(k) <= ApproximateOffsetOf(l)
       /\ tb.closed /\ tb.ok /\ tr.tried /\ ~tr.open => damaged
       /\ tit # NoIterator =>
            /\ Status(tit) # "ok" => damaged
            /\ Status(tit) = "ok" =>
                 /\ Valid(tit) = Valid(tref)
                 /\ Valid(tit) => Key(tit) = Key(tref) /\ ValueAt(tit) = ValueAt(tref)
=============================================================================
