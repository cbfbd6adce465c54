------------------------------ MODULE FileCache ------------------------------
(* The open table files of LevelDB: TableCache opens them through the Env and *)
(* keeps them in a ShardedLRUCache, from which readers on several threads hold*)
(* handles. The cache works under its mutex, FindTable does not: two readers  *)
(* may both find a file missing and both open and insert it. The Env maps a   *)
(* file while Limiter lets it, then keeps a descriptor while the other Limiter*)
(* lets it, then opens the file at every read.                                *)
(*                                                                            *)
(* Entries are numbered in the order they are made. Every entry charges 1, as *)
(* TableCache's do. The hash table is the map that HandleTable shows it to be.*)
EXTENDS Integers, FiniteSets

CONSTANTS
    CacheFiles,   \* the numbers of the table files
    Readers,      \* threads
    ShardOf,      \* the part of the cache that the hash of each file picks
    Capacity,     \* entries each part may have
    Mmaps, Fds,   \* what the limiters allow
    MaxEntry      \* bound: entries made

ASSUME CacheAssumption ==
    /\ Capacity \in Nat /\ Mmaps \in Nat /\ Fds \in Nat /\ MaxEntry \in Nat
    /\ 0 \notin CacheFiles
    /\ DOMAIN ShardOf = CacheFiles
    /\ IsFiniteSet(Readers)

VARIABLES
    cached,   \* the entry of each file that the table has, or 0
    entry,    \* LRUHandle: [file, how, refs, inCache]; refs 0 is freed, or not made yet
    lru,      \* the order of the entries without a client: <<d, e>> for d older or e
    made,     \* entries made so far
    reader,   \* [step, file, entry, how]: where each reader is
    allowed,  \* [mmap, fd]: the acquires_allowed_ of the limiters
    files     \* the table files there are

fcVars == <<cached, entry, lru, made, reader, allowed, files>>

Ids == 1..MaxEntry

NoEntry == [file |-> 0, how |-> "none", refs |-> 0, inCache |-> FALSE]

ReaderAt(s, f, e) == [step |-> s, file |-> f, entry |-> e, how |-> "none"]
Idle == ReaderAt("idle", 0, 0)

-----------------------------------------------------------------------------
(* LRUCache *)

Usage(s) ==
    Cardinality({e \in Ids : entry[e].inCache /\ ShardOf[entry[e].file] = s})

Listed(list) == {p[1] : p \in list}

LRU_Remove(list, out) == {p \in list : p[1] \notin out /\ p[2] \notin out}

LRU_Append(list, e) == list \union {<<d, e>> : d \in Listed(list) \union {e}}

\* Ref: a client more. NewEntry has a client, and the cache if that has room for
\* any.
Referenced(e) == [entry EXCEPT ![e].refs = @ + 1]

NewEntry(file, how) ==
    [file |-> file, how |-> how,
     refs |-> IF Capacity > 0 THEN 2 ELSE 1, inCache |-> Capacity > 0]

\* Unref: with the cache's reference alone, the entry is one that may go.
Unreferenced(e) == [entry EXCEPT ![e].refs = @ - 1]

WithIdle(e, entries) ==
    IF entries[e].inCache /\ entries[e].refs = 1 THEN LRU_Append(lru, e) ELSE lru

\* (Mutant: the entry goes although a client has it.)
ErasedAtOnce(entries, out) ==
    [e \in Ids |-> IF e \in out THEN NoEntry ELSE entries[e]]

\* (Mutant: the cache's reference stays.)
ErasedKept(entries, out) ==
    [e \in Ids |-> IF e \in out THEN [entries[e] EXCEPT !.inCache = FALSE] ELSE entries[e]]

\* FinishErase of each: out of the lists and the table, and without the
\* reference of the cache. Entries without any reference are freed.
Erased(entries, out) ==
    [e \in Ids |-> IF e \in out
                   THEN [entries[e] EXCEPT !.inCache = FALSE, !.refs = @ - 1]
                   ELSE entries[e]]

Uncached(out) == [f \in CacheFiles |-> IF cached[f] \in out THEN 0 ELSE cached[f]]

\* The deleter closes the file of an entry that is freed: its permits return.
Returned(entries) ==
    LET Gone(how) == {e \in Ids : /\ entry[e].refs > 0 /\ entries[e].refs = 0
                                  /\ entry[e].how = how}
    IN [mmap |-> allowed.mmap + Cardinality(Gone("mmap")),
        fd |-> allowed.fd + Cardinality(Gone("fd"))]

\* Insert: the entry the table had for the file goes, then the oldest ones that
\* nobody has, until there are no more than Capacity.
Displaced(f) == {cached[f]} \ {0}

Oldest(f) ==
    LET rest == {e \in Listed(lru) \ Displaced(f) : ShardOf[entry[e].file] = ShardOf[f]}
        over == Usage(ShardOf[f]) + 1 - Cardinality(Displaced(f)) - Capacity
    IN {e \in rest : Cardinality({d \in rest : <<d, e>> \in lru}) <= over}

-----------------------------------------------------------------------------
(* TableCache *)

\* FindTable, the lookup: a hit takes a reference, a miss opens the file.
FcLookup(r, f) ==
    /\ reader[r].step = "idle" /\ f \in files
    /\ IF cached[f] # 0
       THEN /\ entry' = Referenced(cached[f])
            /\ lru' = LRU_Remove(lru, {cached[f]})
            /\ reader' = [reader EXCEPT ![r] = ReaderAt("holds", f, cached[f])]
       ELSE /\ reader' = [reader EXCEPT ![r] = ReaderAt("mmap", f, 0)]
            /\ UNCHANGED <<entry, lru>>
    /\ UNCHANGED <<cached, made, allowed, files>>

Lacking(kind) == IF kind = "mmap" THEN "no mmap" ELSE "no fd"

\* Limiter::Acquire takes a permit, and gives it back in another step if there
\* was none.
FcAcquire(r) ==
    LET kind == reader[r].step
    IN /\ kind \in {"mmap", "fd"}
       /\ allowed' = [allowed EXCEPT ![kind] = @ - 1]
       /\ reader' = [reader EXCEPT
              ![r] = IF allowed[kind] > 0 THEN [@ EXCEPT !.step = "open", !.how = kind]
                     ELSE [@ EXCEPT !.step = Lacking(kind)]]
       /\ UNCHANGED <<cached, entry, lru, made, files>>

FcGiveBack(r) ==
    LET kind == IF reader[r].step = "no mmap" THEN "mmap" ELSE "fd"
    IN /\ reader[r].step \in {"no mmap", "no fd"}
       /\ allowed' = [allowed EXCEPT ![kind] = @ + 1]
       /\ reader' = [reader EXCEPT ![r].step = IF kind = "mmap" THEN "fd" ELSE "open"]
       /\ UNCHANGED <<cached, entry, lru, made, files>>

\* The file cannot be mapped, or is no table: nothing is cached.
FcFails(r) ==
    LET how == reader[r].how
    IN /\ reader[r].step = "open"
       /\ allowed' = IF how = "none" THEN allowed ELSE [allowed EXCEPT ![how] = @ + 1]
       /\ reader' = [reader EXCEPT ![r] = Idle]
       /\ UNCHANGED <<cached, entry, lru, made, files>>

\* Table::Open, then Insert
FcInsert(r) ==
    LET f == reader[r].file
        e == made + 1
        out == IF Capacity > 0 THEN Displaced(f) \union Oldest(f) ELSE {}
        entries == Erased(entry, out)
    IN /\ reader[r].step = "open" /\ e \in Ids
       /\ made' = e
       /\ entry' = [entries EXCEPT ![e] = NewEntry(f, reader[r].how)]
       /\ cached' = IF Capacity > 0 THEN [Uncached(out) EXCEPT ![f] = e] ELSE cached
       /\ lru' = LRU_Remove(lru, out)
       /\ allowed' = Returned(entries)
       /\ reader' = [reader EXCEPT ![r] = ReaderAt("holds", f, e)]
       /\ UNCHANGED files

\* Release: after a Get, or when the iterator goes (UnrefEntry)
FcRelease(r) ==
    LET e == reader[r].entry
        entries == Unreferenced(e)
    IN /\ reader[r].step = "holds"
       /\ entry' = entries
       /\ lru' = WithIdle(e, entries)
       /\ allowed' = Returned(entries)
       /\ reader' = [reader EXCEPT ![r] = Idle]
       /\ UNCHANGED <<cached, made, files>>

\* DeleteObsoleteFiles: Evict, then the file. No reader is at it then: it would
\* have the version that has the file (PinnedFilesExist of LevelStore).
FcDelete(f) ==
    LET out == Displaced(f)
    IN /\ f \in files
       /\ \A r \in Readers : reader[r].file # f
       /\ files' = files \ {f}
       /\ entry' = Erased(entry, out)
       /\ cached' = Uncached(out)
       /\ lru' = LRU_Remove(lru, out)
       /\ allowed' = Returned(Erased(entry, out))
       /\ UNCHANGED <<made, reader>>

\* Prune, and ~LRUCache, which is called when there are no clients.
FcPrune ==
    LET out == Listed(lru)
    IN /\ lru # {}
       /\ entry' = Erased(entry, out)
       /\ cached' = Uncached(out)
       /\ lru' = {}
       /\ allowed' = Returned(Erased(entry, out))
       /\ UNCHANGED <<made, reader, files>>

FcInit ==
    /\ cached = [f \in CacheFiles |-> 0]
    /\ entry = [e \in Ids |-> NoEntry]
    /\ lru = {} /\ made = 0
    /\ reader = [r \in Readers |-> Idle]
    /\ allowed = [mmap |-> Mmaps, fd |-> Fds]
    /\ files = CacheFiles

FcNext ==
    \/ \E r \in Readers, f \in CacheFiles : FcLookup(r, f)
    \/ \E r \in Readers : FcAcquire(r) \/ FcGiveBack(r) \/ FcFails(r) \/ FcInsert(r)
                          \/ FcRelease(r)
    \/ \E f \in CacheFiles : FcDelete(f)
    \/ FcPrune

FcSpec == FcInit /\ [][FcNext]_fcVars

-----------------------------------------------------------------------------
Clients(e) == {r \in Readers : reader[r].entry = e}

\* A reader's table is not freed under it, and is that of the file it asked for,
\* however often the file was inserted again, displaced or evicted meanwhile.
HandlesAlive ==
    \A r \in Readers : reader[r].step = "holds" =>
        LET e == reader[r].entry
        IN entry[e].refs > 0 /\ entry[e].file = reader[r].file

Opening(kind) == {r \in Readers : reader[r].how = kind \/ reader[r].step = Lacking(kind)}

Opened(kind) == {e \in Ids : entry[e].refs > 0 /\ entry[e].how = kind}

\* No table is leaked: an entry lives as long as the cache or a client has it, the
\* cache has more than Capacity entries only as clients had them at the last insert,
\* none of a deleted file, and every permit of the limiters is one of an open file or of a
\* reader that is opening one.
FilesReturned ==
    /\ \A e \in Ids : entry[e].refs > 0 => entry[e].inCache \/ Clients(e) # {}
    /\ \A f \in CacheFiles : LET used == Usage(ShardOf[f])
                           IN used <= Capacity \/ used <= Cardinality(Readers)
    /\ \A f \in CacheFiles \ files : \A e \in Ids : entry[e].refs > 0 => entry[e].file # f
    /\ allowed.mmap = Mmaps - Cardinality(Opened("mmap")) - Cardinality(Opening("mmap"))
    /\ allowed.fd = Fds - Cardinality(Opened("fd")) - Cardinality(Opening("fd"))
=============================================================================
