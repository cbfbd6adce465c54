# MobileSocialBlogApp in TLA+

A verification development for the iOS blog app in this repository and for the
C and C++ libraries that are vendored with it: TLA+ modules of what its
screens, their shared records, the database client under them, LevelDB and
nanopb do; TLC runs that check them on small instances; and proofs, checked by
TLAPS, that hold for every instance.

Paths of the app are relative to `src/MobileSocialBlogApp/MobileSocialBlogApp/`;
`Pods/` is `src/MobileSocialBlogApp/Pods/`, `Firebase/` is
`Pods/FirebaseDatabase/Firebase/Database/` and `leveldb/` is
`Pods/leveldb-library/`.

Contents: [the system](#the-system), [modules](#modules), [runs](#runs),
[fairness](#fairness), [proofs](#proofs), [what the checks say about the
code](#what-the-checks-say-about-the-code), [not modelled](#not-modelled),
[plan](#plan).

## The system

### The app

The app is built of screens (`UI/<Screen>`): a view controller, a presenter, a
services object and an injector each. All services use one `APIManager`
(`Managers/FirebaseAPIManager.swift`) over one client of the Firebase Realtime
Database. There is no server code: every rule of the app is enforced, if at
all, by the phones.

Five collections hold the shared state: `users` (keyed by user name), `posts`,
`comments`, `chats` and `sessions` (keyed by random ids). Every write is a
`setValue` of a whole record made from an object in memory; every read is a
permanent `observe(.value)` on a whole collection, whose events replace the
screen's array of objects. Nothing is a transaction, nothing is removed, and
no observer is ever cancelled.

| Part | State | Operations | Interacts through | Hard behaviour | What makes it correct |
|---|---|---|---|---|---|
| Shared records: `FirebaseAPIManager`, `Firebase/` | cache, write tree, unanswered puts, listen, connection | setValue, observe, events, completions, reconnect | the client's serial queue, the main queue, the connection | resending, refusals, echoes before answers, restart | versions never go back; completions in order; the newest write wins; screens converge |
| Voting: feed, profile, details | `Posts` objects, one shared by feed and details | upvote, downvote | whole posts | concurrent votes, stale objects, in-place changes | counters match voters; nobody's vote is forged; no loss without a race |
| Friends: discover, profile | `Users` objects, buttons' handlers, `userCount` | add, accept, cancel, update profile | two user records per tap | two writes per relation, stale profile, stale handlers | both halves agree; only the invited user accepts; the count stays in phase |
| Creating posts, images | the post being written, uploads under way, listings | post, upload, list images | Storage, posts | double completion, late rewrite of posts | a post ends with its image and its votes |
| Comments | rows, comment being written | comment, reply | comments | the row's index looked up in another list | a reply is filed under what was tapped |
| Accounts: sign-up, optional form, `Config` | cached users, saved user name | sign up, log in, log out | users, UserDefaults | name check on a cache, name saved before the answer | one account per name; a saved name has an account |
| Chat | cached chats and sessions | send, open session | chats, sessions | session created twice, equal message numbers | no message leaves its conversation; one session per pair |
| Screen loading | flags of each services object | retrieveAll, retrievedAll, appear | two or more collections | order of arrival | a screen acts on what it has only |

### The libraries in C and C++

LevelDB (pod 1.22) is linked by FirebaseDatabase (`APLevelDB.mm`,
`FLevelDBStorageEngine`), which opens it when persistence is enabled; the app
does not enable it today, so LevelDB is built into the program and dormant.
nanopb (0.3.9011, built with `PB_FIELD_32BIT`, `PB_NO_PACKED_STRUCTS` and
`PB_ENABLE_MALLOC`) encodes the telemetry of GoogleDataTransport and
FirebaseCoreDiagnostics. `fbase64.c` writes the key of the handshake of
FirebaseDatabase's WebSocket.

| Part | State | Operations | Interacts through | Hard behaviour | What makes it correct |
|---|---|---|---|---|---|
| Write path (`db_impl.cc`) | queue of writers, memtables, `bg_error_`, flags of the background thread | `Write`, `TEST_CompactMemTable`, background call, destructor | the mutex, two kinds of condition variables, the log | group commit with the mutex released, failed syncs, shutdown | what is acknowledged is logged, applied and synced as asked; nobody waits for ever |
| Memtable's skip list | nodes and links | `Insert`, searches, iterator | memory order only | readers without a lock | no reader sees memory that is not filled in, or skips a key |
| Versions and compactions (`version_set.cc`, `db_impl.cc`) | levels of files, snapshots, references | flush, pick and merge, `Get`, `CompactRange`, snapshots | the mutex, released while merging | a flush inside a merge, entries dropped at a snapshot | levels disjoint, reads answer from their state, background work ends |
| Files and recovery | `CURRENT`, manifests, logs, tables | open, log an edit, switch the log, delete | the file system | crashes and losses of power between any two steps | the database opens again with every promised write |
| Keys, blocks, tables, filters, iterators | builder, reader, caches | add, finish, open, seek, step | files, block cache | restarts, separators, wrapping offsets, turning round | a table is the list of what was added |
| Log | writer and reader positions | add, read, skip | files | records cut short, damaged bytes | what is read was written; what is not damaged is found |
| Caches, open files | LRU lists, handle tables, limits | lookup, insert, release, erase | reader threads | eviction under a reader | a handle's file stays open |
| POSIX environment | buffers, pages, names, locks, work queue | append, sync, rename, lock, schedule | the system | failed calls, loss of power, several processes | what Sync confirms survives; one user of a database |
| Codes, batches, edits, checksums, random numbers, histograms | none | encode, decode | bytes | widths, cut-off input | decoding undoes encoding |
| Memory and ownership, C interface | arena, statuses, cleanups, handles | allocate, copy, destroy | callers | errors that replace each other | each thing is freed once, by its owner |
| Repair, dump, destroy | directories | `RepairDB`, `DumpFile`, `DestroyDB` | files, the lock | ends of the process in between | no readable entry is lost |
| nanopb and its messages | fields, cells of memory, streams | encode, decode, release, iterate | heap | repeated and oneof fields decoded into used memory | a message arrives as it was sent; no block is lost or freed twice |
| base64 | none | encode, decode | text | padding, refused characters | decoding undoes encoding |

## Modules

### The app

    VersionedRecords      what the app may expect of the database (abstract)
      ^ implemented by
    RealtimeStore         one collection: devices, client queues, database
      ^ extended by
    PostVotes             posts: feed, profile and details vote
    Friends               users: discover and profile
    PostImages            posts: the form, uploads, listings, votes meanwhile
    Comments              comments: the details screen
    Chat                  chats and sessions
    Accounts              users: sign-up, optional form, log-in, log-out

    RealtimeStore_proofs, PostVotes_proofs, Friends_proofs   theorems
    MCRealtimeStore, MCPostVotes, MCFriends, MCScreens   values for the runs

**VersionedRecords.** Every record is a growing history of whole values, and
every device reads each record at some version that only moves forward until
its process ends.

**RealtimeStore.** One device is two threads and a connection. The variables
follow the code: `calls` is what the main thread dispatched to the client's
serial queue (`FIRDatabaseReference`, `FIRDatabaseQuery`), `events` what that
queue dispatched back (`FEventRaiser`); `puts` are the outstanding puts of
`FPersistentConnection`, `toAck` its deferred `putsToAck`, `listen` and
`observers` the listen and the registrations on it, `cache` the server cache
of the sync tree, and `View` lays the write tree over it. `up` and `down` are
the two directions of the socket; a lost connection empties both. `hist` is
the database, `subscribed` its side of the listen.

Actions are the turns of these loops: `SetValue` and `RetrieveAll` (calls of
`FirebaseAPIManager`), `HandleValue` and `HandleDone` (blocks on the main
queue), `RunPut`, `RunObserve`, `Connect`, `Disconnect`, `ReceiveData`,
`ReceiveListenOk`, `ReceiveDenial`, `ReceivePutDone` and `AckPut` (the client's
queue), and `ServerListen`, `ServerAccept`, `ServerReject`, `ServerDeny` (the
database, which may refuse a listen or revoke it later). `Restart` kills
the process at any moment: persistence is not enabled, so nothing pending
survives.

Facts of the code that the model keeps, because properties hang on them:

- a new connection sends the listen first, then every unanswered put in order
  (`restoreState`), so a put can be applied twice;
- an answered put leaves `puts` at once but the write tree only when no listen
  is waiting (`ackPuts`), and then its completion is posted;
- a value event is posted only when the complete view changes, or to a new
  observer of an already complete view;
- a second observer of the collection is answered from the cache;
- a refused or revoked listen takes the listener, every observer and the cached
  collection away (`removeListen`, `removeEventRegistration`); the app's observers
  have no cancel block, so the screens keep what they show.

Assumptions about the database, which is not in the repository: it serves one
connection in order; it sends an accepted write to every listener, the writer
included, before it answers the writer; it drops the old connection of a
device before it serves the new one. Not in the model: authentication of the
connection, order between different collections, hash-based listens.

Records are whole values with no inner structure here. A snapshot event goes
to all observers at once, as the client posts them in one turn of its queue.
Versions and `hist` are not in the code; they let properties compare ages.

**PostVotes.** A `Post` is the two lists of voters and the two counters, which
the code keeps separately. `lists` are the objects behind the feed and the
profile, replaced by each snapshot and changed in place by a tap. `detail` is
the object the details screen was opened with: the feed's own object until the
feed is refreshed, and its own copy of an old post after that, for
`FeedDetailsViewController.retrievedAllUpdateView` replaces comments only.
`sender` remembers which screen made a write, since the completion of a vote
in the details or the profile retrieves everything again and one in the feed
does not; a closed details screen has no delegate left. A tap on a row may
reach any post, because the row's index is looked up in the current list and
the order of that list is unspecified. An event for a new observer refreshes
all lists here, as if all screens had retrieved at that moment. Users are taken
as loaded, so that `user?.id` is there. Posts have all the fields that
`addPostsToApi` requires.

**Friends.** The collection is `users`. A tap changes the cached records of
both users in place and puts two writes. `attached` holds the tap handlers on
discover's cells: drawing adds one and removes none, and cells are reused for
any row, so a tap may run any of them, not only what the row says. `profile` is
the record the profile screen drew last; its users callback draws nothing
(`ProfileServices`, lines 79-86), so the record may be of any age when
`updateClicked` writes it back. `userCount` is discover's count of confirmed
writes. Lists of ids are sets: the code may append an id twice.

**PostImages.** The form keeps one post at a time; a post with an image is
written when its upload has succeeded, with a path of the phone as its url.
`uploads` are the completions to come of each upload, two of a failed one
(`putData`'s and the failure observer's). Every snapshot with such a post
starts a listing of storage, which captures the objects of the list and at its
end writes those posts whole, over whatever was voted in the meantime.

**Comments.** The table shows the comments of one post; the reply icon looks
its comment up by the row's index among the comments of all posts. The form
keeps the reply that was begun until a comment is confirmed.

**Chat.** A message is two writes: the message, numbered by the messages cached
at the time, and the session of the pair, found among the cached ones or made.

**Accounts.** The sign-up screen looks a name up among the users cached so far,
saves it as logged in, and writes the account; the object is handed to the
optional form and used again after a log-out. `online` is true or missing: nothing
stores false, so the branch of `loginClicked` for it is never taken and left out.

Ghosts (`raced`, `misfired`, `misled`, `lost`, `lapse`, and what was meant or
wished) record that a behaviour left the conditions under which the code keeps
its promise; the promise is then stated outside them. They are not in the code.

### LevelDB

    SnapshotStore         the contract of include/leveldb/db.h (abstract)
      ^ implemented by
    LevelStore            memtables, versions, compactions, snapshots, readers; its proofs
      uses LevelFiles     what version_set.cc computes on levels of files
    WriteQueue            Write, group commit, background thread, destructor
      ^ WriteQueue_proofs   theorems
    SkipList              the memtable's list under the C++ memory order; its proofs
    StoreFiles            CURRENT, manifests, logs, tables: crash and recovery
    Iterators             keys and their order; merging and two-level iterators
      extended by TableFiles (builder, reader, filters, block cache)
      and DBIterator      (what an iterator shows at a snapshot)
    BlockReads            ReadBlock over both kinds of file; who frees buffers
    LogFormat             writer and reader of the log
    HandleTable, FileCache    the cache's hash table; LRU, table cache, limits
    PosixFile, FileSystem, PosixEnv, Monitor
                          buffered files; rename and read; locks and background
                          work; mutex, condition variable, first-use objects
    Encodings, Samples    numbers, batches, edits, texts, crc32c; random, histogram
    Arena, Ownership, CApi    memory, statuses and cleanups, the C interface
    CacheArena_proofs         theorems of FileCache and Arena
    Repair, DumpFiles, DestroyDb

A write is one step in LevelStore; WriteQueue has its details, with the mutex
as `holder` and both kinds of condition variables modelled by their signals.
Between two steps of LevelStore's background thread the mutex is free exactly
where the code unlocks it. SkipList models memory as the sequence of the
writer's stores, and a reader by how much of it it has synchronised with.
StoreFiles keeps for each file how much of it is synced, and the directory with
its history since the last sync, any of which a loss of power may leave.
BlockReads covers the Snappy branch too, which this pod is built without.
The tables of `crc32c.cc` are modelled by the polynomial they are made from
(each entry was compared with the formula); bytes of formats have fewer bits
than eight, widths fewer bytes, as the constants of each module say.

### nanopb and base64

`Nanopb` has encoding, decoding, release and the streams, the schemas of the
messages that the app's pods send, their structs and field offsets, and the two
drivers that call nanopb. `Base64` is `fbase64.c` with its
two callers. `MCFormats` gives all these parts their values.

## Runs

Bounds count calls or failures of one device (of one process for
`MaxObservers`), of one thread or of one database; they are guards of the
actions that make them, or the cfg's CONSTRAINT.

| Run | Instance | Shows |
|---|---|---|
| `store_two_devices` | 2 devices, 1 record, 2 values, 1 write each; two drops or refused writes in all, or one restart or denied listen | `TypeOK`, `VersionsOrdered`, `AckedWriteCached`, `SettledAgree`, `ImplementsRecords` |
| `store_recover` | 1 device, 2 writes, a drop, a restart, a refused write, a denied listen, fair | `CompletionsInOrder`, `NewestWins`, `Converges`, `WritesEnd` |
| `votes_two_devices` | 2 users on 2 devices, 1 post, 1 write each, at most a restart each | `VotesConsistent`, `NoForgedVote`, `VotesSettle` |
| `friends_two_devices` | 2 users on 2 devices, an open request, 2 writes each, the first may restart after a tap | `OnlyInvitedAccepts`, `TapsPaired` |
| `screens` | chat on 2 phones; comments, images, accounts on one; failures of each | `ConversationKept`, `PostedAsMeant`, `AccountsKept` |
| `writes_live` | 2 threads, 2 calls each, an I/O error; a list of 3 keys with a reader; fair | `WritesKept`, `FailsAfterError`, `ReadsMemtable`, `NothingLate`, `AllReturn` |
| `levels_compacted` | 5 writes of 2 keys, 1 snapshot, 4 levels, 1 I/O error | `LevelsDisjoint`, `SizesMean`, `KeepsContract` |
| `levels_settle` | 3 writes, 2 charged reads, `CompactRange`, fair | `PinnedFilesExist`, `SettlesDown` |
| `levels_ranges` | 6 writes of 3 keys, `CompactRange` | finds `LevelsDisjoint` violated |
| `files_recovered` | 2 writes, 1 end of the process, 1 loss of power, 1 failed manifest write | `Openable`, `KeepsWrites` |
| `files_reused` | the same without the error, with `reuse_logs` and an unsynced manifest | finds `KeepsAcknowledged` violated |
| `formats` | one small instance of each remaining part of the libraries | `MessagesKept`, `TablesMean`, `ShowsSnapshot`, `Recovered`, `SyncedStays`, `LocksHold`, `CacheIsMap`, `HandlesAlive`, `CodesMean`, `MemoryKept`, `FreedOnce` |

`formats`, `screens` and `writes_live` hold several machines that never run
together: a variable `part` names the one that runs, and the others stay as they
are. Their instances are written in `MCFormats`, `MCScreens` and `MCWriteQueue`.

Why these bounds reach the interesting cases:

- *Store.* Two writes of one device are what a resend can reorder, a lost
  connection sends a put again, and a refusal needs a write before or behind it
  to reveal a stale view. Two drops or refusals meet in every order; a restart or a
  denied listen, after which a device begins anew, meets the other device's writes
  there and its own drop and refusal in `store_recover`. Denials stay out
  of the runs with votes and friends (`MaxDenials = 0`); their theorems hold for
  every bound. Two devices with a write each are enough for an echo
  to meet a pending write, for an answer to meet another device's update, and
  for a vote to overwrite a vote. The device symmetry of `store_two_devices` is
  sound: its devices differ in nothing and it checks no liveness.
- *Screens.* Each actor can act once while the other's action is under way and
  once after. The second phone of the chat is opened after the first has sent,
  comments are not followed after the user was misled nor accounts after a
  lapse, because nothing is promised from there on.
- *LevelDB.* Sizes are scaled down so that a flush, a move, a merge cut at the
  grandparents' limit and an expansion of the inputs all happen within a few
  writes (`MaxFileSize`, `GrandParentFactor`, `LevelOneSize`). Two threads are
  enough to join a group; a write buffer of nothing makes every write switch
  the memtable. Of files, one crash with one loss of power can separate any two
  steps, and the process that comes after it can be ended again.
- *Formats.* Bytes have a few bits and blocks a few bytes, so that each
  number's last value, one more than it, a block that is just full and a trailer
  that does not fit all occur.

`levels_compacted` has a snapshot and no reader, for a reader beside it leaves too
many states: that readers answer from the store as it was is shown by the snapshot,
which must stay readable through the same compactions, and that a reader's files stay
by `PinnedFilesExist` in `levels_settle`.

Deadlock is not checked: with its bounds used up a system of phones or of writers
may stop. Waiting for ever is what the liveness properties exclude.

## Fairness

`RealtimeStore!FairSpec` assumes weak fairness of each loop: the main queue and
the client's queue are serial dispatch queues that run what they hold,
`FPersistentConnection` reconnects on its own with a delay, and the database
serves a connection that stays. `LevelStore!FairSpec` and `WriteQueue!Fairness`
assume it of the background thread and of threads that are not blocked: a thread
that holds the mutex goes on, a free mutex is taken by somebody who wants it, and
a thread that was signalled wakes up. Nothing is assumed of users (they need not
tap), of callers (they need not call), of failures (they need not happen, and are
bounded, so they stop) or of the database's choice between accepting and refusing.

## Proofs

All proofs hold for any sets of devices, records and values and for any bounds.
Those about the store use `StoreAssumption` alone (the seed is a collection of
values, `NotLoaded` is not one, the bounds are naturals); those about votes use
`VotesAssumption` too (a finite set of users, one of them logged in on each
device, a seed whose votes are counted, values that include every post whose
counters match); those about friends use `FriendsAssumption` (the records of the
collection are people, one user is logged in on each device), `TapsStayPaired`
also `SeedMirrored` (the halves of the friendships agree at the beginning; new
accounts have none). Those about
LevelDB's write path hold for any threads, any
number of calls of each and any limits, under `WriteQueueAssumption` (the limits
are naturals, and `None` is no thread and no sequence of entries). Those about
the cache and the arena hold for any files, capacities, limits, block sizes and
alignments, and any finite number of readers; those about the skip list for any
set of positive keys, any maximal height and any readers (`Parameters`); those about
LevelDB's levels for any keys, sizes, numbers of levels (two or more), readers and
range calls (`LevelFilesAssumption`, `LevelStoreAssumption`).

| Theorem | In | States |
|---|---|---|
| `TypeCorrect` | RealtimeStore_proofs | `Spec => []TypeOK` |
| `VersionsStayOrdered` | RealtimeStore_proofs | `Spec => []VersionsOrdered` |
| `StoreImplementsRecords` | RealtimeStore_proofs | `Spec => ImplementsRecords`, with `seen <- cache` |
| `CompletionsStayInOrder` | RealtimeStore_proofs | `Spec => []CompletionsInOrder` |
| `NewestWriteWins` | RealtimeStore_proofs | `Spec => []NewestWins` |
| `SettledScreensAgree` | RealtimeStore_proofs | `Spec => []SettledAgree` |
| `AckedWritesAreCached` | RealtimeStore_proofs | `Spec => []AckedWriteCached` |
| `StoreInvariant` | RealtimeStore_proofs | `Spec => []StoreInv`, what the proofs about screens build on |
| `VotesUseStore` | PostVotes_proofs | `VotesSpec => Spec` |
| `VotesStayConsistent` | PostVotes_proofs | `VotesSpec => []VotesConsistent` |
| `VotesNotForged` | PostVotes_proofs | `VotesSpec => []NoForgedVote` |
| `VotesSettleDown` | PostVotes_proofs | `VotesSpec => []VotesSettle` |
| `FriendsInvariant` | Friends_proofs | `FriendsSpec => []FriendsInv`, the invariant behind the next one |
| `FriendsAreInvited` | Friends_proofs | `FriendsSpec => []OnlyInvitedAccepts` |
| `TapsInvariant` | Friends_proofs | `FriendsSpec => []TapsInv`, the invariant behind the next one |
| `TapsStayPaired` | Friends_proofs | `FriendsSpec => []TapsPaired` |
| `WriteInvariant` | WriteQueue_proofs | `Spec => []WriteInv`, the invariant behind the next three |
| `AckedWritesKept` | WriteQueue_proofs | `Spec => []WritesKept` |
| `WritesFailAfterError` | WriteQueue_proofs | `Spec => []FailsAfterError` |
| `NothingInsertedLate` | WriteQueue_proofs | `Spec => NothingLate` |
| `HandlesStayAlive` | CacheArena_proofs | `FcSpec => []HandlesAlive` |
| `FilesAreReturned` | CacheArena_proofs | `FcSpec => []FilesReturned` |
| `MemoryStaysKept` | CacheArena_proofs | `ArenaSpec => []MemoryKept` |
| `ReadersSafe` | SkipList | `Spec => [](InitializedBeforeRead /\ NothingSkipped)` |
| `MemtableReads` | MCWriteQueue | `MCSpec => []ReadsMemtable` |
| `LevelInvariant` | LevelStore | `Spec => []LevelInv`, the invariant behind the next one |
| `PinnedFilesStay` | LevelStore | `Spec => []PinnedFilesExist` |

*Types and versions.* `TypeOK` is not inductive: a snapshot is built by indexing
`hist` with the versions in the cache, which is a value only if no version is
ahead of the history. So the induction is on `Inductive == TypeOK /\
VersionsOrdered`. `VersionsOrdered` says that cache, messages on the way and
history form one ascending sequence for each device and record. It is kept
because the database appends the newest version to every `down`, data leaves
`down` at its head only, and a lost connection or a restart empties it. There is
one lemma per action for each half. The refinement follows: `Received` never
lowers a version, so `ReceiveData` maps to `CatchUp`, `ServerAccept` to `Apply`,
`Restart` to `Forget`, and every other action to a stutter.

*Order of completions.* All places a write of a device passes are one sequence of
ids, `Flow`: posted completions, answers to be acknowledged, unanswered puts,
calls. `Ordered` says that it ascends, that the puts on the wire are the tail of
the unanswered ones and the answers their head, in that order. A resend keeps it
because it sends all of them again on an empty wire.

*Newest write.* `Resends` adds what a device still owes for a record: if its last
write applied is not its newest accepted one, the newer one is still on the way
to the database behind it. Without the restart excluded in `NewestWins` this is
false, which TLC shows.

*Settled screens.* A screen is behind the database only while something is on its
way: the device is not subscribed or its data is in `down`, first the whole
collection if it has none (`Listening`), the
cache has changed but an event with it is posted or a write lies over it
(`Shows`), and a write that leaves the write tree was echoed into the cache
before, unless a denial ahead of the answer takes the cache away (`Echoes`, from the
order of data and answers in `down`). `StoreInv` is the
conjunction of all of these.

*Votes.* `VotesUseStore` is a step simulation: each action of PostVotes is an
action of the store with the value it writes, so `StoreInv` holds of the posts.
`VotesConsistent` and `NoForgedVote` are kept by `VotesGenuine`: every post
in a list, the details, a call, a put, a message or a snapshot gives users other
than the device's only votes that the history had. `VotesSettle` needs
`VotesInv`: a list differs from the last snapshot only where a call to that record
waits (`ListsShow`), and, as long as no tap raced and nothing was killed or
refused, an unserved tap is in the newest pending write, and a served one in the
newest version (`TapsArrive`). TLC checked these invariants before they were
proved: those of the store on the instances of `store_recover` (204 207 states)
and `store_two_devices` (with two mishaps of any kinds, 3 425 490 states), those of votes on two
devices with a write each and a restart (3 476 068 states).

*Friends.* What the database shows was written from what a screen held, long
after it was read, so `OnlyInvitedAccepts` is not inductive. `FriendsHonest` says
of every record that a device holds anywhere that its user may write it: each
friend in it was one before, or the user accepts an invitation that the database
had; and the user's own record has no invitation the database never had. It needs
`~ misfired`: a handler its row does not call for makes friends of nobody's
asking. Since histories only grow, a record stays one that may be written; and
all that the client and the database do is copy, which is proved once for any
set of values (`CopiesIn`, at the end of RealtimeStore_proofs). `updateUsers`
calls `setValue` twice in one step, so Friends does not implement the store's
specification step by step; the types, the order of the versions, which is
what `CopiesIn` needs, and the order of the writes are kept by both calls.

`TapsPaired` is about two records. `TapsMeant` names the collection that the
writes on their way lead to (`Meant`): where a device has open writes on a record
the newest of them says what the collection holds, where none is unserved the
database holds it already, and the halves of all relations in it agree. Without
`raced` the tapping screen holds that very collection (`ExpectedMeant`), and
every handler changes both halves (`TapMirrored`); each write that the database
applies only brings it nearer, resent ones too, because the older of two on a
record is never what decides (`MeansKept`). `InPhase` counts: the count is
the parity of the open writes that discover made, each known by its number; a
completion closes the oldest, a tap opens two, and with nothing refused every
answer is a success (`Accepted`). The number of places in the queues is the
number of numbers, by a bijection (`OpenCounted`). TLC checked `TapsInv`
before, on two devices with two writes each and a restart (4 207 206 states) and
on one device with four writes and a drop (378 489 states) or three, a drop and a
refusal (99 574 states).

*Write path.* The twenty-odd actions of WriteQueue have, for these properties,
seven effects: a thread moves on and nothing else changes (`Turn`), it joins the
queue (`Entered`), a leader has chosen its group (`GroupBuilt`), it has appended
to the log (`Logs`), it has inserted and published (`Publishes`), it hands its
status to the group and leaves (`Finishes`), or the step is none of a writer's
business (`Apart`: the background thread, a swap of memtables, the destructor).
Each action is shown to be one of them once, and each part of the invariant to
be kept by the seven. `WriteInv` has six parts. `QueueTypeOK` is the types.
`Lined`: a thread is in the queue once and exactly while it waits or leads, only
the first leads, and one thread at a time is past the mutex. `Grouped`: what a
leader may take along - a group that can still succeed has nobody who called
after an error, and no synced call under an unsynced leader. `Gathered`: the
batch to be logged is the batches of the queue up to the last writer, each once,
numbered from `LastSequence() + 1`. `Written`: what the log has of calls that are
queued (nothing, unless a group with them failed or is in it) and of calls that
returned success (one entry, applied, synced if asked for). `Numbered`: numbers
in log and memtables ascend, what is applied is logged, and the two differ only
after an error. `WritesKept` and `FailsAfterError` follow from it at once;
`NothingLate` needs, of every step, that what it inserts is above the published
number. `BuildBatchGroup` gathers with the recursive function `Members`, so that
what it returns can be proved by a least counterexample. TLC checked the parts
before: two threads with two calls each (674 677 states), three threads with one
(167 117 states).

*Open files and memory.* An entry of the cache stays open after its eviction
because it counts references: `Referred` says that the count is one for the cache
if it has the entry and one for each reader at it. With `Tabled` (the table has
each cached entry, under a file that exists) and `Aged` (the list has the cached
entries nobody reads, in one order) it gives `HandlesAlive` and most of
`FilesReturned`. The rest are counts: `Within` needs that Insert's loop takes as
many of the oldest as there are too many (`FirstOnes`: in a finite order, the
first n are n), `Permitted` that a freed file returns its permit. The list is an
order of entries, which can be proved about, and not a sequence. TLC checked the
invariant on two readers, four entries and capacities 0, 1 and 2 (209 312
states). For the arena, what is given of the current block lies before its
offset, and a new block is empty; that slop leads to an aligned address is a fact
about remainders (`SlopAligns`).

*Skip list.* The proofs stand in SkipList.tla, behind the specification. A reader
can have synchronised with any number of the writer's stores, so the invariant
speaks of every prefix of `stores`. `StoresOK` is about the stores alone: a link
leads to a node whose key and whose link of that level were written before it
(`Initialized`); only the first store of a link lacks the barrier (`FirstPlain`);
links of a node are written from below (`Downwards`), a descent therefore finds
them; after each store, what a node of a level links to is the next key of those
that the level has been linked to (`Ordered`); and a node with a link is linked
to (`Reached`), which a later insertion beside it needs. `LinkedKeeps` proves that
the two stores `Insert` makes on a level keep all of this and leave the next
level ready, and `LinkLevelsKeeps` takes it through the loop, a recursive function whose
values are shown to exist by a least counterexample. `Loaded` is the argument
about a load: whatever store it returns, the reader's floor then stands at or
behind it, what the link leads to is initialized there, and no key the reader
knew lies between. With it each turn of a search keeps `ReaderOK` (the node and
the link of the search are written, the keys that were known are still reached
from it) and ends in `Passes`. TLC checked
`SkipListInv` with one reader, three keys and two levels (142 409 states). The
run's theorem takes the list with its constants there; a step of the write path
leaves it alone.

*Pinned files.* The proofs stand in LevelStore.tla, behind the specification.
That every file a live version lists exists is not inductive: a compaction adds
its outputs to a version long after it wrote them, and it takes its inputs from a
version by four roads (a level's score, a file charged for seeks, a range, a
level's pointer). `LevelInv` says that a version lists finished files only, each as
it was written (`Proper`: on disk, and not in `pending_outputs_`), that what is being
written is pending and no version's, that a memtable's table holds the memtable,
and that readers and the merge hold versions that live. A level chosen by its score
has files and a level below it, and so has the file charged for a seek: only the
first of two files visited is charged, and above level 0 at most one file of a level
is visited (`VisitsAre`). `NextVersionOK` shows that an edit whose added files are
finished makes such a version again; `SetupIs` that whatever a compaction begins
with, the boundary files, the overlaps and the expansion are files of the two
levels; `DeletionKeeps` that what is deleted no version lists. The loops of
version_set.cc are recursive functions; `Recursion` and `Steps`, from the least
element of a set of numbers, show that their values exist and what holds of them.
That readers find their files is proved of every configuration, also of those in
which `LevelsDisjoint` fails. TLC checked `LevelInv` on the instances of
`levels_settle` (287 945 states) and `levels_compacted` (229 694).

Model-checked only: liveness (`Converges`, `WritesEnd`, `SettlesDown`,
`AllReturn`; tlapm has no rule for fairness that its back ends can use here),
and whatever rests on recursive operators, which tlapm cannot expand for its SMT
solver (Base64, DBIterator, Encodings, HandleTable, Iterators, LogFormat, Nanopb,
TableFiles and MCFormats, which combines them). Of LevelStore, `LevelsDisjoint` is
checked on one instance only, because `levels_ranges` refutes it with range
compactions, and `KeepsContract` and `SizesMean` rest on it. The screens of MCScreens,
StoreFiles and the other small parts of LevelDB have no theorems.

## What the checks say about the code

Where a property has a proviso, the run shows that it is needed:

- `NewestWins` needs `restarts = 0`: a kill between two resends can leave the
  older of two writes in the database.
- `VotesSettle` promises every vote only with `~ raced`, no kill and no refusal:
  a vote made on old data, or while another phone is writing the same post, may
  undo the other's vote. The counters then still match the lists
  (`VotesConsistent`), and nothing is invented (`NoForgedVote`).
- `TapsPaired` promises equal halves of a friendship without a race, a refusal
  and a kill: they are separate writes. A profile update from an old drawing
  counts as a race; it really does undo a friendship. And discover's count of
  confirmed writes is out of phase for good after one refusal.
- `OnlyInvitedAccepts` needs `~ misfired`: reused cells can run a handler that
  their row no longer calls for, also `acceptFriendClicked` for somebody who
  asked nothing.
- A proviso leaves out a case that the code gets wrong: where
  a hazard's bad outcome is what the code does (a refusal between two writes, a
  lapse, a race), the hazard's note in `PROJECT.json` says what is left of the
  promise. After a race of two first messages `ConversationKept` still says that
  every message is in a conversation of its pair and every conversation shows one
  of its own; `OnlyInvitedAccepts` holds after races, refusals and kills.
- `ConversationKept`, `PostedAsMeant` and `AccountsKept` need that the user acted
  on what had arrived (`raced`, `misled`, `lapse`) and that the form was not
  emptied or the upload completed twice (`lost`): two first messages make two
  sessions, a reply icon answers another row's comment when the post's comments
  are not the first of all, a name is taken again before the users have arrived, and the
  completion of a vote empties the post form.

Disagreements with what the repository says of itself, with their lines, are
`PROJECT.json`'s findings, all in LevelDB: with `reuse_logs` a synced write can be
lost (run `files_reused`); the first manifest is never synced before `CURRENT`
names it (`LossOfDescriptor`); a memtable flushed in the middle of a manual
compaction can make two files of a level overlap (run `levels_ranges`);
`manual_compaction_` may be null where a failed manual compaction ends; and the
null batch that forces a memtable out is swallowed when it joins a group.

`PROJECT.json` lists the hazards of the code, each at its line with the properties
that would catch it. Its map has one row for a definition and the lines it stands for;
a helper whose lines lie within those of the definition that uses it has none.

## Not modelled

- Dates and relative time: formatting by the system's calendar, for display only.
- Injectors, base classes, mock managers: no state; the mocks serve unit tests.
- Views, cells, storyboards, templates: nothing but pixels depends on them.
- Of `Firebase/`: merges, transactions, queries, onDisconnect writes and
  authentication, which the app does not use on its records; persistence, which
  it does not enable.
- Of LevelDB: `paranoid_checks`, the test hooks, platforms other than POSIX;
  manual range compactions are in LevelStore and not in WriteQueue.
- Of nanopb: extensions, which no message of the app has.
- The other pods (authentication, storage, analytics, session fetching, UI
  helpers): called for single requests and taken as external.

## Plan

Done: the inventory, all runs, and the proofs about the shared store, the votes,
friends, LevelDB's write path, its memtable's list, the files of its levels, its
cache of open files and its arena.

What can be proved next: `Openable` and `KeepsWrites` of StoreFiles, which need the
invariant about manifests and directories stated first and checked by TLC; and
`LevelsDisjoint` under the condition that no range is compacted, which needs what
the loops of version_set.cc find and leave out, not only that it is of the level.

The screens of MCScreens (posts with images, comments, chat, accounts) write to
the same store and would each need the simulation of PostVotes.
