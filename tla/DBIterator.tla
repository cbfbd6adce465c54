------------------------------ MODULE DBIterator ------------------------------
(* An iterator of the database (DBIter): what a read at a snapshot sees of    *)
(* the entries in the memtables, the files of level 0 and those of level 1,   *)
(* while the store goes on writing, switching memtables and compacting. The   *)
(* iterator of a table is a list here (TableFiles shows that it is one), a    *)
(* level a list of files that are opened as it comes to them.                 *)
EXTENDS Iterators

CONSTANTS
    DiKeys,      \* user keys
    MaxWrites    \* bound: entries written

VARIABLES
    store,   \* [mem, imm, zero, one, last]: the entries, and LastSequence
    dbit,    \* the DBIter
    cursor   \* where the snapshot would be read after the same moves

diVars == <<store, dbit, cursor>>

-----------------------------------------------------------------------------
(* The store *)

Sorted(entries) == SetToSortSeq(entries, LAMBDA a, b : InternalCompare(a.key, b.key) < 0)

Entry(user, sequence, type) ==
    [key |-> InternalKey(user, sequence, type), value |-> <<sequence>>]

\* The files of a level, one for each user key.
FilesOf(entries) ==
    LET users == {ExtractUserKey(e.key) : e \in entries}
        File(u) == Sorted({e \in entries : ExtractUserKey(e.key) = u})
    IN {File(u) : u \in users}

\* LevelFileNumIterator, with the largest key of a file as its key, and
\* GetFileIterator
NewConcatenatingIterator(entries) ==
    TwoLevelIterator(
        ListIterator(Sorted({[key |-> Last(f).key, value |-> f] : f \in FilesOf(entries)})),
        [f \in FilesOf(entries) |-> ListIterator(f)])

\* AddIterators: the files of level 0 one by one
AddIterators ==
    [i \in DOMAIN store.zero |-> ListIterator(Sorted(store.zero[i]))]
    \o (IF store.one = {} THEN <<>> ELSE <<NewConcatenatingIterator(store.one)>>)

NewInternalIterator ==
    MergingIterator(
        <<ListIterator(Sorted(store.mem))>>
        \o (IF store.imm = {} THEN <<>> ELSE <<ListIterator(Sorted(store.imm))>>)
        \o AddIterators)

-----------------------------------------------------------------------------
(* DBIter *)

\* live: the memtable it reads is still written to.
NewDBIterator(internal, sequence) ==
    [open |-> TRUE, iter |-> internal, sequence |-> sequence, forward |-> TRUE,
     valid |-> FALSE, savedKey |-> <<>>, savedValue |-> <<>>, live |-> TRUE]

Closed == [open |-> FALSE]

\* (Where forward, savedKey is without effect.)
DiKey(it) == IF it.forward THEN ExtractUserKey(Key(it.iter)) ELSE it.savedKey
DiValue(it) == IF it.forward THEN ValueAt(it.iter) ELSE it.savedValue

Stepped(it, op) == [it EXCEPT !.iter = Move(@, op, <<>>)]

Cleared(it) == [it EXCEPT !.savedKey = <<>>, !.savedValue = <<>>]

NotValid(it) == [it EXCEPT !.valid = FALSE, !.savedKey = <<>>]

\* To the first entry of another key than skip, if skipping, that the snapshot
\* sees and that is no deletion; a deletion hides what follows of its key.
RECURSIVE FindNextUserEntry(_, _, _)
FindNextUserEntry(it, skipping, skip) ==
    LET e == ParseInternalKey(Key(it.iter))
        seen == e.sequence <= it.sequence
        hides == seen /\ e.type = Deletion
        hidden == skipping /\ Compare(e.user, skip) <= 0
    IN IF ~Valid(it.iter) THEN NotValid(it)
       ELSE IF seen /\ e.type = Value /\ ~hidden
       THEN [it EXCEPT !.valid = TRUE, !.savedKey = <<>>]
       ELSE FindNextUserEntry(Stepped(it, "next"), skipping \/ hides,
                              IF hides THEN e.user ELSE skip)

\* Back over the entries of a key, oldest first: the last one the snapshot sees
\* is its value. type is that of the last one seen.
RECURSIVE FindPrev(_, _)
FindPrev(it, type) ==
    LET e == ParseInternalKey(Key(it.iter))
        seen == e.sequence <= it.sequence
        kept == IF ~seen THEN it
                ELSE IF e.type = Deletion THEN Cleared(it)
                ELSE [it EXCEPT !.savedKey = e.user, !.savedValue = ValueAt(it.iter)]
        now == IF seen THEN e.type ELSE type
        end == IF type = Deletion THEN [Cleared(it) EXCEPT !.valid = FALSE, !.forward = TRUE]
               ELSE [it EXCEPT !.valid = TRUE]
    IN IF ~Valid(it.iter) \/ (seen /\ type # Deletion /\ Compare(e.user, it.savedKey) < 0)
       THEN end
       ELSE FindPrev(Stepped(kept, "prev"), now)

FindPrevUserEntry(it) == FindPrev(it, Deletion)

\* The internal iterator stands before the entries of savedKey: first into them.
DiNext(it) ==
    LET turned == [it EXCEPT !.forward = TRUE,
                       !.iter = Move(@, IF Valid(@) THEN "next" ELSE "first", <<>>)]
        key == IF it.forward THEN ExtractUserKey(Key(it.iter)) ELSE it.savedKey
    IN FindNextUserEntry([(IF it.forward THEN it ELSE turned) EXCEPT !.savedKey = key], TRUE, key)

\* Back to before the entries of the key.
RECURSIVE BeforeUserKey(_, _)
BeforeUserKey(it, key) ==
    IF ~Valid(it.iter) THEN NotValid(Cleared(it))
    ELSE IF Compare(ExtractUserKey(Key(it.iter)), key) < 0
    THEN FindPrevUserEntry([it EXCEPT !.savedKey = key, !.forward = FALSE])
    ELSE BeforeUserKey(Stepped(it, "prev"), key)

DiPrev(it) ==
    IF it.forward THEN BeforeUserKey(it, ExtractUserKey(Key(it.iter)))
    ELSE FindPrevUserEntry(it)

\* DiSeek and DiSeekToFirst
DiPlace(it, op, target) ==
    FindNextUserEntry([Cleared(it) EXCEPT !.forward = TRUE, !.iter = Move(@, op, target)],
                      FALSE, <<>>)

DiSeekToLast(it) ==
    FindPrevUserEntry([Cleared(it) EXCEPT !.forward = FALSE, !.iter = Move(@, "last", <<>>)])

-----------------------------------------------------------------------------
(* What the snapshot has: the newest entry of each key that it sees, if that  *)
(* is a value.                                                                *)

Written(s) == s.mem \union s.imm \union s.one \union UNION ToSet(s.zero)

Visible(s, sequence) ==
    LET Of(u) == {e \in Written(s) : /\ ExtractUserKey(e.key) = u
                                      /\ ParseInternalKey(e.key).sequence <= sequence}
        Newest(u) == CHOOSE e \in Of(u) :
                         \A o \in Of(u) : InternalCompare(e.key, o.key) <= 0
        there == {u \in DiKeys : Of(u) # {} /\ ParseInternalKey(Newest(u).key).type = Value}
    IN [u \in there |-> Newest(u).value]

CursorMove(c, op, user) ==
    LET all == DOMAIN c.content
        reached == CASE op = "seek" -> {u \in all : Compare(u, user) >= 0}
                     [] op = "next" -> {u \in all : Compare(u, c.at) > 0}
                     [] op = "prev" -> {u \in all : Compare(u, c.at) < 0}
                     [] OTHER -> all
        side == IF op \in {"seek", "next", "first"} THEN -1 ELSE 1
    IN [c EXCEPT !.at = IF reached = {} THEN <<>>
                        ELSE CHOOSE u \in reached : \A w \in reached :
                                 u = w \/ Compare(u, w) = side]

-----------------------------------------------------------------------------
DiInit ==
    /\ store = [mem |-> {}, imm |-> {}, zero |-> <<>>, one |-> {}, last |-> 0]
    /\ dbit = Closed /\ cursor = [at |-> <<>>, content |-> <<>>]

\* An iterator reads the memtable it began with, also what is written to it.
LiveMem(it, mem) ==
    LET list == Sorted(mem)
    IN IF ~it.open THEN it
       ELSE IF ~it.live THEN it
       ELSE IF it.iter.type = "list" THEN [it EXCEPT !.iter.list = list]
       ELSE [it EXCEPT !.iter.children[1].list = list]

DiPut(user, type) ==
    LET mem == store.mem \union {Entry(user, store.last + 1, type)}
    IN /\ store.last < MaxWrites
       /\ store' = [store EXCEPT !.mem = mem, !.last = @ + 1]
       /\ dbit' = LiveMem(dbit, mem)
       /\ UNCHANGED cursor

\* MakeRoomForWrite: a full memtable becomes the immutable one.
DiSwitch ==
    /\ store.imm = {} /\ store.mem # {}
    /\ store' = [store EXCEPT !.imm = store.mem, !.mem = {}]
    /\ dbit' = IF dbit.open THEN [dbit EXCEPT !.live = FALSE] ELSE dbit
    /\ UNCHANGED cursor

\* CompactMemTable, and a compaction of level 0 into level 1
DiFlush ==
    /\ store.imm # {}
    /\ store' = [store EXCEPT !.zero = <<store.imm>> \o @, !.imm = {}]
    /\ UNCHANGED <<dbit, cursor>>

DiCompact ==
    /\ store.zero # <<>>
    /\ store' = [store EXCEPT !.one = @ \union UNION ToSet(store.zero), !.zero = <<>>]
    /\ UNCHANGED <<dbit, cursor>>

\* DBImpl::NewIterator, at the last sequence number or at a snapshot
DiOpen(sequence) ==
    /\ ~dbit.open
    /\ dbit' = NewDBIterator(NewInternalIterator, sequence)
    /\ cursor' = [at |-> <<>>, content |-> Visible(store, sequence)]
    /\ UNCHANGED store

DiMove(op, user) ==
    /\ dbit.open
    /\ op \in {"next", "prev"} => dbit.valid
    /\ dbit' = CASE op = "seek" -> DiPlace(dbit, op, LookupKey(user, dbit.sequence))
                 [] op = "first" -> DiPlace(dbit, op, <<>>)
                 [] op = "last" -> DiSeekToLast(dbit)
                 [] op = "next" -> DiNext(dbit)
                 [] op = "prev" -> DiPrev(dbit)
    /\ cursor' = CursorMove(cursor, op, user)
    /\ UNCHANGED store

DiNextState ==
    \/ \E u \in DiKeys, t \in {Value, Deletion} : DiPut(u, t)
    \/ DiSwitch
    \/ DiFlush
    \/ DiCompact
    \/ \E s \in 0..store.last : DiOpen(s)
    \/ \E op \in {"seek", "first", "last", "next", "prev"} :
        \E u \in (IF op = "seek" THEN DiKeys ELSE {<<>>}) : DiMove(op, u)

DiSpec == DiInit /\ [][DiNextState]_diVars

-----------------------------------------------------------------------------
\* An iterator shows the snapshot it was opened at, key by key in both
\* directions: no deleted key, no older value, nothing written later, whichever
\* files and memtables the entries are in and whatever is written meanwhile.
ShowsSnapshot ==
    dbit.open =>
        /\ dbit.valid = (cursor.at # <<>>)
        /\ dbit.valid => /\ DiKey(dbit) = cursor.at
                         /\ DiValue(dbit) = cursor.content[cursor.at]
=============================================================================
