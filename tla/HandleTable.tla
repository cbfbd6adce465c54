----------------------------- MODULE HandleTable -----------------------------
(* The hash table of LevelDB's cache (class HandleTable of util/cache.cc):    *)
(* buckets of handles chained by next_hash, and more buckets when there are   *)
(* more handles. A handle is [key, hash, id].                                 *)
EXTENDS Integers, SequencesExt

CONSTANTS
    HtKeys,      \* keys, numbers from 1 on
    HtHash,      \* the hash of each
    MinLength,   \* the buckets to begin with, 4 in the code
    MaxInserts   \* bound: handles made

VARIABLES
    ht,        \* [length, elems, list], list[b + 1] the chain of bucket b
    hmap,      \* the handle of each key that is there: what ht stands for
    hreturned  \* what the last call returned, and what it should

htVars == <<ht, hmap, hreturned>>

NoHandleThere == [key |-> 0, hash |-> 0, id |-> 0]

Bucket(hash, length) == hash % length

\* (Mutant: handles of one hash are not told apart by their keys.)
FindByHash(t, key, hash) ==
    LET chain == t.list[Bucket(hash, t.length) + 1]
        there == {i \in DOMAIN chain : chain[i].hash = hash}
    IN IF there = {} THEN Len(chain) + 1 ELSE CHOOSE i \in there : \A j \in there : i <= j

\* FindPointer: the place in its chain of the handle with the key, or the place
\* behind the last one.
FindPointer(t, key, hash) ==
    LET chain == t.list[Bucket(hash, t.length) + 1]
        there == {i \in DOMAIN chain : chain[i].hash = hash /\ chain[i].key = key}
    IN IF there = {} THEN Len(chain) + 1 ELSE CHOOSE i \in there : \A j \in there : i <= j

HtLookup(t, key, hash) ==
    LET chain == t.list[Bucket(hash, t.length) + 1]
        i == FindPointer(t, key, hash)
    IN IF i \in DOMAIN chain THEN chain[i] ELSE NoHandleThere

\* As many buckets as elements, a power of two times MinLength. Each handle is
\* put before those already in its new chain.
RECURSIVE NewLength(_, _)
NewLength(length, elems) == IF length >= elems THEN length ELSE NewLength(2 * length, elems)

Resize(t) ==
    LET length == NewLength(MinLength, t.elems)
        moved == Reverse(FlattenSeq(t.list))
    IN [t EXCEPT !.length = length,
                 !.list = [b \in 1..length |->
                     SelectSeq(moved, LAMBDA h : Bucket(h.hash, length) = b - 1)]]

EmptyTable == [length |-> MinLength, elems |-> 0, list |-> [b \in 1..MinLength |-> <<>>]]

\* Insert takes the place of the handle with the same key, which it returns.
HtInsert(h) ==
    LET b == Bucket(h.hash, ht.length) + 1
        i == FindPointer(ht, h.key, h.hash)
        old == HtLookup(ht, h.key, h.hash)
        new == IF i \in DOMAIN ht.list[b] THEN [ht.list[b] EXCEPT ![i] = h]
               ELSE Append(ht.list[b], h)
        put == [ht EXCEPT !.list[b] = new,
                          !.elems = IF old = NoHandleThere THEN @ + 1 ELSE @]
    IN /\ ht' = IF put.elems > put.length THEN Resize(put) ELSE put
       /\ hmap' = [hmap EXCEPT ![h.key] = h]
       /\ hreturned' = <<old, hmap[h.key]>>

HtRemove(key) ==
    LET b == Bucket(HtHash[key], ht.length) + 1
        i == FindPointer(ht, key, HtHash[key])
        old == HtLookup(ht, key, HtHash[key])
    IN /\ ht' = IF old = NoHandleThere THEN ht
                ELSE [ht EXCEPT !.list[b] = RemoveAt(@, i), !.elems = @ - 1]
       /\ hmap' = [hmap EXCEPT ![key] = NoHandleThere]
       /\ hreturned' = <<old, hmap[key]>>

HtInit ==
    /\ ht = EmptyTable
    /\ hmap = [k \in HtKeys |-> NoHandleThere]
    /\ hreturned = <<NoHandleThere, NoHandleThere>>

HtNext ==
    \/ \E k \in HtKeys, i \in 1..MaxInserts :
        /\ \A h \in ToSet(FlattenSeq(ht.list)) : h.id # i
        /\ HtInsert([key |-> k, hash |-> HtHash[k], id |-> i])
    \/ \E k \in HtKeys : HtRemove(k)

HtSpec == HtInit /\ [][HtNext]_htVars

-----------------------------------------------------------------------------
\* The table is a map: a lookup finds the handle put in last for the key, with
\* whatever other keys of the same hash or bucket and however often the buckets
\* were made anew, and each call returns the handle it takes out, which the cache
\* then drops its reference to: a handle is neither lost nor returned twice.
TableIsMap ==
    /\ hreturned[1] = hreturned[2]
    /\ \A k \in HtKeys : HtLookup(ht, k, HtHash[k]) = hmap[k]
    /\ ht.elems = Cardinality({k \in HtKeys : hmap[k] # NoHandleThere})
    /\ ht.elems = Len(FlattenSeq(ht.list)) /\ ht.elems <= ht.length
=============================================================================
