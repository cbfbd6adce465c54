--------------------------------- MODULE CApi ---------------------------------
(* LevelDB's interface for C (db/c.cc) and what a database takes over and     *)
(* gives back of its options (SanitizeOptions, DBImpl): who frees what. The   *)
(* client keeps to the contract of c.h and db.h: it passes what it holds, and *)
(* destroys a thing after those that use it.                                  *)
(*                                                                            *)
(* A handle is a number, and the allocations it stands for are cells          *)
(* <<handle, part>>; the status of a call is whatever the database says.      *)
EXTENDS Integers, FiniteSets, FiniteSetsExt, Functions, TLC

CONSTANTS
    Kinds,         \* what the client creates: "options", "cache", ...
    MaxHandles,    \* bound: handles at a time
    MaxStrings     \* bound: results the client has not freed

VARIABLES
    handles,       \* what the client holds: [kind, uses, owns] by number
    errptr,        \* the number of the error message, 0 for NULL
    strings,       \* results of leveldb_get and the like
    cells,         \* what is allocated
    misused        \* cells freed or used that were not allocated

capiVars == <<handles, errptr, strings, cells, misused>>

\* Numbers nobody holds
NewNumber == CHOOSE n \in 1..MaxHandles : n \notin DOMAIN handles
NewString == CHOOSE n \in 1..MaxStrings : n \notin strings
NewMessage == IF errptr = 1 THEN 2 ELSE 1

Held(kinds) == {h \in DOMAIN handles : handles[h].kind \in kinds}
InUse(h) == \E o \in DOMAIN handles : h \in handles[o].uses

-----------------------------------------------------------------------------
(* The heap *)

Frees(gone, new) ==
    /\ cells' = (cells \ gone) \union new
    /\ misused' = misused \union (gone \ cells)

Uses(used) ==
    /\ misused' = misused \union (used \ cells)
    /\ UNCHANGED cells

\* What there is of a handle besides its own struct: the object it wraps. The
\* default environment is one for all, and a comparator or filter policy wraps the
\* client's state, which its destructor gives back.
Parts(kind) ==
    CASE kind \in {"db", "iterator", "snapshot", "cache"} -> {"struct", "rep"}
      [] kind \in {"comparator", "filter"} -> {"struct", "state"}
      [] kind = "bloom" -> {"struct", "rep_"}
      [] OTHER -> {"struct"}

Cells(h, kind) == {<<h, part>> : part \in Parts(kind)}
AllOf(h) == Cells(h, handles[h].kind)

Message(n) == {<<n, "message">>} \ {<<0, "message">>}

\* (Mutant: the old message is forgotten.)
FreedByErrorNone(old) == {}

\* SaveError frees the message there is.
FreedByError(old) == Message(old)

-----------------------------------------------------------------------------
\* SanitizeOptions: the cache of a database is the one of its options, or one of
\* its own; a log of information it makes itself, for this interface gives none.
CacheOf(opts) ==
    {<<c, "rep">> : c \in handles[opts].uses \intersect Held({"cache"})}
Made(opts, db) ==
    {<<db, "info_log">>} \union (IF CacheOf(opts) = {} THEN {<<db, "block_cache">>} ELSE {})

\* (Mutant: a database deletes the cache it was given.)
OwnedWithCache(opts, db) == Made(opts, db) \union CacheOf(opts)

\* What the database frees of these: owns_info_log_, owns_cache_
Owned(opts, db) == Made(opts, db)

-----------------------------------------------------------------------------
CrInit ==
    /\ handles = <<>> /\ errptr = 0 /\ strings = {}
    /\ cells = {} /\ misused = {}

Holds(h, handle) == handles' = (h :> handle) @@ handles
Room == Cardinality(DOMAIN handles) < MaxHandles

\* leveldb_options_create and its like
CrCreate(kind) ==
    /\ Room
    /\ Holds(NewNumber, [kind |-> kind, uses |-> {}, owns |-> {}])
    /\ Frees({}, Cells(NewNumber, kind))
    /\ UNCHANGED <<errptr, strings>>

\* leveldb_options_set_comparator and its like: a pointer is stored. (Of two
\* things of a kind the options keep the last.)
CrSet(opts, h) ==
    /\ handles[opts].kind = "options"
    /\ LET same == {o \in handles[opts].uses : handles[o].kind = handles[h].kind}
       IN handles' = [handles EXCEPT ![opts].uses = (@ \ same) \union {h}]
    /\ Uses({<<opts, "struct">>, <<h, "struct">>})
    /\ UNCHANGED <<errptr, strings>>

\* leveldb_open: the database keeps the pointers of the options, not the options.
CrOpen(opts) ==
    /\ handles[opts].kind = "options" /\ Room
    /\ LET db == NewNumber
       IN /\ Holds(db, [kind |-> "db", uses |-> handles[opts].uses, owns |-> Owned(opts, db)])
          /\ Frees({}, Cells(db, "db") \union Made(opts, db))
    /\ UNCHANGED <<errptr, strings>>

\* An operation fails: the error takes the place of the one there is. A database
\* that cannot be opened is deleted again, with what it made.
Error ==
    /\ errptr' = NewMessage
    /\ Frees(FreedByError(errptr), Message(NewMessage))
    /\ UNCHANGED <<handles, strings>>

CrOpenFails(opts) == handles[opts].kind = "options" /\ Error

\* leveldb_put, _delete, _write, leveldb_iter_get_error; leveldb_destroy_db and
\* leveldb_repair_db take options instead
Touched(h) == AllOf(h) \union UNION {{<<o, "struct">>} : o \in handles[h].uses} \union handles[h].owns

CrCall(h) ==
    /\ handles[h].kind \in {"db", "iterator", "options"}
    /\ Uses(Touched(h))
    /\ UNCHANGED <<handles, errptr, strings>>

\* leveldb_writebatch_put and the others of a batch
CrBatchCall(h) ==
    /\ handles[h].kind = "batch"
    /\ Uses(AllOf(h))
    /\ UNCHANGED <<handles, errptr, strings>>

CrCallFails(h) == handles[h].kind \in {"db", "iterator", "options"} /\ Error

\* leveldb_get, leveldb_property_value: a copy for the client, NULL when there is
\* nothing, which is no error
CrGet(db) ==
    /\ handles[db].kind = "db" /\ Cardinality(strings) < MaxStrings
    /\ strings' = strings \union {NewString}
    /\ Frees({}, {<<NewString, "string">>})
    /\ UNCHANGED <<handles, errptr>>

\* leveldb_create_iterator, leveldb_create_snapshot
CrCreateOn(kind, db) ==
    /\ handles[db].kind = "db" /\ Room
    /\ Holds(NewNumber, [kind |-> kind, uses |-> {db}, owns |-> {}])
    /\ Frees({}, Cells(NewNumber, kind))
    /\ UNCHANGED <<errptr, strings>>

\* leveldb_close, leveldb_release_snapshot, leveldb_iter_destroy,
\* leveldb_cache_destroy and the others
CrDestroy(h) ==
    /\ ~InUse(h)
    /\ handles' = Restrict(handles, DOMAIN handles \ {h})
    /\ Frees(AllOf(h) \union handles[h].owns, {})
    /\ UNCHANGED <<errptr, strings>>

\* leveldb_free
CrFree(s) ==
    /\ strings' = strings \ {s}
    /\ Frees({<<s, "string">>}, {})
    /\ UNCHANGED <<handles, errptr>>

CrFreeError ==
    /\ errptr # 0 /\ errptr' = 0
    /\ Frees(Message(errptr), {})
    /\ UNCHANGED <<handles, strings>>

CrNext ==
    \/ \E kind \in Kinds : CrCreate(kind)
    \/ \E opts \in Held({"options"}) :
        \/ \E h \in Held({"cache", "comparator", "bloom", "environment"}) : CrSet(opts, h)
        \/ CrOpen(opts) \/ CrOpenFails(opts)
    \/ \E h \in DOMAIN handles : CrCall(h) \/ CrCallFails(h) \/ CrBatchCall(h) \/ CrDestroy(h)
    \/ \E db \in Held({"db"}) :
        CrGet(db) \/ CrCreateOn("iterator", db) \/ CrCreateOn("snapshot", db)
    \/ \E s \in strings : CrFree(s)
    \/ CrFreeError

CrSpec == CrInit /\ [][CrNext]_capiVars

-----------------------------------------------------------------------------
\* A client that keeps to the contract never makes the library use or free what
\* is not there, in whatever order the rest is destroyed and however many
\* databases share a cache; and when it has given back all it held, nothing is
\* left, no error message that another one replaced either.
HeapBalanced ==
    /\ misused = {}
    /\ cells = UNION {AllOf(h) \union handles[h].owns : h \in DOMAIN handles}
               \union {<<s, "string">> : s \in strings} \union Message(errptr)
=============================================================================
