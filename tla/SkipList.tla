------------------------------ MODULE SkipList ------------------------------
(***************************************************************************)
(* The skip list of LevelDB's memtable (Pods/leveldb-library/db/           *)
(* skiplist.h): one thread inserts (DBImpl::Write keeps a single writer at *)
(* the memtable), any number of threads search without a lock.             *)
(*                                                                         *)
(* What is hard here is the memory order, so the memory is modelled as the *)
(* sequence "stores" of the writer's stores.  A reader has a floor         *)
(* seen[r]: it has synchronised with every store up to it.  A load of a    *)
(* location returns the last store to it at or below the floor or any      *)
(* later one; when the store it returns was a release store, everything    *)
(* before it becomes visible too.  An insertion can therefore be appended  *)
(* in one step: a reader stands between its stores by its floor.           *)
(***************************************************************************)
EXTENDS Integers, Sequences, FiniteSets, WellFoundedInduction, TLAPS

CONSTANTS
  Keys,       \* the keys that can be inserted: numbers above head_
  MaxHeight,  \* kMaxHeight, 12 in the code
  Readers,    \* the threads that search
  Null        \* nullptr

head_ == 0    \* sorts before every key

\* What the constants may be.
Parameters ==
  /\ Keys \subseteq Nat \ {head_}
  /\ MaxHeight \in Nat \ {0}
  /\ Null \notin Int

Levels == 0 .. MaxHeight - 1

VARIABLES
  stores,   \* the stores of the writer, in program order
  seen,     \* per reader: the stores it has synchronised with
  search,   \* per reader: the operation under way
  node,     \* per reader: node_ of its iterator
  found     \* ghost, per reader: what its last operation returned

vars == <<stores, seen, search, node, found>>

-----------------------------------------------------------------------------
(* Memory.  A location is <<node, level>>, the pair of a node and its key  *)
(* field, or the height of the list.                                       *)

Link(n, level) == <<n, level>>
KeyField(n)    == <<n, -1>>
HeightField    == <<head_, MaxHeight>>

\* SetNext is a release store, NoBarrier_SetNext and the others are not.
\* (Mutant: a store without the barrier.)
SetNextRelaxed(n, level, x) ==
  [loc |-> Link(n, level), val |-> x, release |-> FALSE]
SetNext(n, level, x) == [loc |-> Link(n, level), val |-> x, release |-> TRUE]
NoBarrier_SetNext(n, level, x) ==
  [loc |-> Link(n, level), val |-> x, release |-> FALSE]

\* The value the writer itself reads: its last store to the location.
Latest(mem, loc) ==
  LET last == CHOOSE i \in DOMAIN mem :
                 /\ mem[i].loc = loc
                 /\ \A j \in DOMAIN mem : j > i => mem[j].loc # loc
  IN  mem[last].val

\* The stores a load of loc may return to a reader whose floor is f.
Loadable(loc, f) ==
  {i \in DOMAIN stores :
     /\ stores[i].loc = loc
     /\ \A j \in i + 1 .. f : stores[j].loc # loc}

\* The reader's floor after an acquire load that returned store i.
Acquired(f, i) == IF stores[i].release /\ i > f THEN i ELSE f

-----------------------------------------------------------------------------
(* The writer.                                                             *)

\* prev[level] of FindGreaterOrEqual as Insert calls it: the last node of
\* the level that is before the key.
Before(mem, key, level) ==
  LET onLevel == {n \in Keys : \E i \in DOMAIN mem :
                     mem[i].loc[2] = level /\ mem[i].val = n}
      earlier == {n \in onLevel : n < key}
  IN  IF earlier = {} THEN head_
      ELSE CHOOSE n \in earlier : \A m \in earlier : m <= n

\* The constructor: every level of head_ is empty, the height is one.
Constructed ==
  [l \in 1 .. MaxHeight |-> SetNext(head_, l - 1, Null)]
    \o <<[loc |-> HeightField, val |-> 1, release |-> FALSE]>>

\* NewNode: the key is a plain store; the links are not written.
NewNode(key) == <<[loc |-> KeyField(key), val |-> key, release |-> FALSE]>>

\* The two stores of one level: the node's own link, then the link to it.
Linked(mem, key, level) ==
  LET prev == Before(mem, key, level)
  IN  <<NoBarrier_SetNext(key, level, Latest(mem, Link(prev, level))),
        SetNext(prev, level, key)>>

\* The loop over the levels, from the lowest up.
LinkLevels(mem, key, height) ==
  LET upTo[l \in 0 .. height] ==
        IF l = 0 THEN mem
        ELSE upTo[l - 1] \o Linked(upTo[l - 1], key, l - 1)
  IN  upTo[height]

Height == Latest(stores, HeightField)

Inserted == {stores[i].val : i \in {j \in DOMAIN stores : stores[j].loc[2] = -1}}

\* Insert(key) with the height RandomHeight() drew.
Insert(key, height) ==
  /\ key \notin Inserted
  /\ LET raised == IF height > Height
                   THEN <<[loc |-> HeightField, val |-> height, release |-> FALSE]>>
                   ELSE <<>>
     IN  stores' = LinkLevels(stores \o raised \o NewNode(key), key, height)
  /\ UNCHANGED <<seen, search, node, found>>

-----------------------------------------------------------------------------
(* The readers.                                                            *)

Idle == [op |-> "idle", target |-> head_, x |-> head_, level |-> 0, known |-> {}]

\* What reader r is sure to have been inserted: linked at the lowest level
\* by a store at or below its floor.
Known(r) == {n \in Keys : \E i \in 1 .. seen[r] :
               stores[i].loc[2] = 0 /\ stores[i].val = n /\ stores[i].release}

\* The caller locks and unlocks the mutex: what the writer had done is seen.
Sync(r) ==
  /\ search[r].op = "idle"
  /\ seen' = [seen EXCEPT ![r] = Len(stores)]
  /\ UNCHANGED <<stores, search, node, found>>

\* A search starts at head_ on the top level of a height read without a
\* barrier: it may be a stale one.
Start(r, op, target) ==
  /\ search[r].op = "idle"
  /\ \E i \in Loadable(HeightField, seen[r]) :
       search' = [search EXCEPT ![r] =
                    [op |-> op, target |-> target, x |-> head_,
                     level |-> stores[i].val - 1, known |-> Known(r)]]
  /\ UNCHANGED <<stores, seen, node, found>>

Seek(r, target) == Start(r, "Seek", target)
Prev(r)         == node[r] # Null /\ Start(r, "Prev", node[r])
SeekToLast(r)   == Start(r, "SeekToLast", head_)

\* The iterator lands on n; the ghost remembers from where it searched.
Land(r, op, from, known, n) ==
  /\ node' = [node EXCEPT ![r] = n]
  /\ found' = [found EXCEPT ![r] = [op |-> op, from |-> from, known |-> known,
                                    result |-> n]]

\* Next and SeekToFirst follow one link of the lowest level.
StepFrom(r, op, n) ==
  /\ search[r].op = "idle"
  /\ \E i \in Loadable(Link(n, 0), seen[r]) :
       /\ seen' = [seen EXCEPT ![r] = Acquired(@, i)]
       /\ Land(r, op, n, Known(r), stores[i].val)
  /\ UNCHANGED <<stores, search>>

SeekToFirst(r) == StepFrom(r, "Next", head_)
NextEntry(r)       == node[r] # Null /\ StepFrom(r, "Next", node[r])

KeyIsAfterNode(key, n) == n # Null /\ n < key

\* One turn of a search loop: load the link of x at the level; go along it,
\* or down a level, or at the lowest level end on the node land gives for it.
Turn(r, along, land) ==
  LET s == search[r]
  IN \E i \in Loadable(Link(s.x, s.level), seen[r]) :
       LET next == stores[i].val
       IN /\ seen' = [seen EXCEPT ![r] = Acquired(@, i)]
          /\ \/ /\ next \in along
                /\ search' = [search EXCEPT ![r].x = next]
                /\ UNCHANGED <<node, found>>
             \/ /\ next \notin along /\ s.level > 0
                /\ search' = [search EXCEPT ![r].level = @ - 1]
                /\ UNCHANGED <<node, found>>
             \/ /\ next \notin along /\ s.level = 0
                /\ search' = [search EXCEPT ![r] = Idle]
                /\ Land(r, s.op, s.target, s.known, land[next])
          /\ UNCHANGED stores

\* The nodes the search for a key passes, and where it may end.
Passed(key) == {n \in Keys : KeyIsAfterNode(key, n)}
OnNext    == [n \in Keys \cup {Null} |-> n]
OnLast(x) == [n \in Keys \cup {Null} |-> x]

\* Prev and SeekToLast turn head_ into an invalid iterator.
OrNull(x) == IF x = head_ THEN Null ELSE x

\* Mutant: the level is not lowered.
FindWithoutDescent(r) ==
  /\ search[r].op = "Seek"
  /\ IF search[r].level = 0 THEN Turn(r, Passed(search[r].target), OnNext)
                            ELSE UNCHANGED vars

FindGreaterOrEqual(r) ==
  /\ search[r].op = "Seek"
  /\ Turn(r, Passed(search[r].target), OnNext)

FindLessThan(r) ==
  /\ search[r].op = "Prev"
  /\ Turn(r, Passed(search[r].target), OnLast(OrNull(search[r].x)))

FindLast(r) ==
  /\ search[r].op = "SeekToLast"
  /\ Turn(r, Keys, OnLast(OrNull(search[r].x)))

-----------------------------------------------------------------------------
Init ==
  /\ stores = Constructed
  /\ seen = [r \in Readers |-> Len(Constructed)]
  /\ search = [r \in Readers |-> Idle]
  /\ node = [r \in Readers |-> Null]
  /\ found = [r \in Readers |-> [op |-> "none"]]

Search(r) == FindGreaterOrEqual(r) \/ FindLessThan(r) \/ FindLast(r)

Next ==
  \/ \E key \in Keys, height \in 1 .. MaxHeight : Insert(key, height)
  \/ \E r \in Readers :
       \/ Sync(r) \/ SeekToFirst(r) \/ NextEntry(r) \/ Prev(r) \/ SeekToLast(r)
       \/ \E target \in Keys : Seek(r, target)
       \/ Search(r)

\* Only the loops of a search run by themselves.
Fairness == \A r \in Readers : WF_vars(Search(r))

Spec == Init /\ [][Next]_vars /\ Fairness

-----------------------------------------------------------------------------
(* Properties.                                                             *)

\* A reader never looks into memory the writer's initialisation of which it
\* has not synchronised with: neither the key of the node it stands on, nor
\* the link it is about to load (skiplist.h:151-164, "a fully initialized
\* version of the returned Node").
Written(r, loc) == \E i \in 1 .. seen[r] : stores[i].loc = loc

InitializedBeforeRead ==
  \A r \in Readers :
    /\ node[r] # Null => Written(r, KeyField(node[r])) /\ Written(r, Link(node[r], 0))
    /\ LET s == search[r]
       IN  s.op # "idle" => /\ s.x # head_ => Written(r, KeyField(s.x))
                            /\ Written(r, Link(s.x, s.level))

\* An iterator operation lands on the right side of where it started and
\* passes over no key the reader knew to be in the list when it began, with
\* however many insertions running beside it (skiplist.h:19-28).
NothingSkipped ==
  \A r \in Readers :
    LET f == found[r]
        end == f.result
    IN  /\ f.op = "Seek" =>
             /\ end # Null => end >= f.from
             /\ \A k \in f.known : k >= f.from => end # Null /\ end <= k
        /\ f.op = "Next" =>
             /\ end # Null => end > f.from
             /\ \A k \in f.known : k > f.from => end # Null /\ end <= k
        /\ f.op = "Prev" =>
             /\ end # Null => end < f.from
             /\ \A k \in f.known : k < f.from => end # Null /\ end >= k
        /\ f.op = "SeekToLast" => \A k \in f.known : end # Null /\ end >= k

\* Every search ends, though insertions go on beside it.
SearchEnds == \A r \in Readers : search[r].op # "idle" ~> search[r].op = "idle"

-----------------------------------------------------------------------------
(* Proofs.  Both invariants rest on what the stores are like, whoever reads *)
(* them: Initialized, FirstPlain and Downwards say what comes before a      *)
(* store, Ordered what the list of a level is after any number of stores,   *)
(* and Reached that a node with a link is linked to.  Insert keeps them     *)
(* level by level; a reader's floor stands anywhere between the stores.     *)

Store == [loc : (Keys \cup {head_}) \X (-1 .. MaxHeight),
          val : Nat \cup {Null}, release : BOOLEAN]

Stored(mem, loc, m) == \E i \in 1 .. m : mem[i].loc = loc

\* Some of the first m stores links to k on the level.
Points(mem, level, k, m) == \E i \in 1 .. m : mem[i].loc[2] = level /\ mem[i].val = k

\* A link leads to a node of which the key and the link of the level are written.
Initialized(mem) ==
  \A i \in DOMAIN mem : mem[i].loc[2] \in Levels /\ mem[i].val # Null =>
    /\ mem[i].val \in Keys
    /\ Stored(mem, KeyField(mem[i].val), i)
    /\ Stored(mem, Link(mem[i].val, mem[i].loc[2]), i)

\* Only the first store of a link goes without the barrier.
FirstPlain(mem) ==
  \A i \in DOMAIN mem, j \in DOMAIN mem :
    j < i /\ mem[i].loc[2] \in Levels /\ mem[j].loc = mem[i].loc => mem[i].release

\* The links of a node are written from the lowest level up.
Downwards(mem) ==
  \A i \in DOMAIN mem : mem[i].loc[2] \in Levels \ {0} =>
    Stored(mem, Link(mem[i].loc[1], mem[i].loc[2] - 1), i)

\* After the first m stores, what a node of a level links to is the next one.
Ordered(mem) ==
  \A m \in DOMAIN mem : \A i \in 1 .. m :
    mem[i].loc[2] \in Levels /\ (\A j \in i + 1 .. m : mem[j].loc # mem[i].loc) =>
      /\ mem[i].val # Null => mem[i].val > mem[i].loc[1]
      /\ \A k \in Keys : k > mem[i].loc[1] /\ Points(mem, mem[i].loc[2], k, m) =>
           mem[i].val # Null /\ mem[i].val <= k

\* What has a link on a level is on it.
Reached(mem) ==
  \A i \in DOMAIN mem : mem[i].loc[2] \in Levels /\ mem[i].loc[1] \in Keys =>
    Points(mem, mem[i].loc[2], mem[i].loc[1], Len(mem))

\* The list was constructed, its height is one a node may have, and a node's key
\* is its own.
Begun(mem) ==
  /\ Len(mem) > MaxHeight
  /\ \A level \in Levels : mem[level + 1].loc = Link(head_, level)
  /\ \A i \in DOMAIN mem : mem[i].loc = HeightField => mem[i].val \in 1 .. MaxHeight
  /\ \A i \in DOMAIN mem : mem[i].loc[2] = -1 => mem[i].val = mem[i].loc[1]

StoresOK(mem) ==
  /\ mem \in Seq(Store)
  /\ Begun(mem) /\ Initialized(mem) /\ FirstPlain(mem) /\ Downwards(mem)
  /\ Ordered(mem) /\ Reached(mem)

\* A set of numbers has a least one, and below a bound a greatest one.
LEMMA Least ==
  ASSUME NEW T, T \subseteq Nat, T # {}
  PROVE  \E m \in T : \A t \in T : m <= t
<1>1. PICK m \in T : \A t \in T : ~ (<<t, m>> \in OpToRel(<, Nat))
  BY NatLessThanWellFounded, WFMin
<1>2. \A t \in T : ~ (t < m)
  BY <1>1 DEF OpToRel
<1> QED
  BY <1>2

LEMMA Greatest ==
  ASSUME NEW b \in Nat, NEW T, T \subseteq 0 .. b, T # {}
  PROVE  \E m \in T : \A t \in T : t <= m
<1> DEFINE U == {b - t : t \in T}
<1>1. U \subseteq Nat /\ U # {}
  <2>1. \A t \in T : b - t \in Nat /\ b - t \in U
    OBVIOUS
  <2>2. \A u \in U : \E t \in T : u = b - t
    OBVIOUS
  <2> HIDE DEF U
  <2> QED BY <2>1, <2>2
<1> HIDE DEF U
<1>2. PICK u \in U : \A t \in U : u <= t
  BY <1>1, Least
<1>3. PICK m \in T : u = b - m
  BY DEF U
<1>4. \A t \in T : b - t \in U
  BY DEF U
<1> QED
  BY <1>2, <1>3, <1>4

\* The last store to a location.
LEMMA LatestIs ==
  ASSUME NEW mem \in Seq(Store), NEW loc, Stored(mem, loc, Len(mem))
  PROVE  \E i \in DOMAIN mem : /\ mem[i].loc = loc /\ Latest(mem, loc) = mem[i].val
                               /\ \A j \in i + 1 .. Len(mem) : mem[j].loc # loc
<1> DEFINE T == {i \in 1 .. Len(mem) : mem[i].loc = loc}
           P(i) == /\ mem[i].loc = loc
                   /\ \A j \in DOMAIN mem : j > i => mem[j].loc # loc
           last == CHOOSE i \in DOMAIN mem : P(i)
<1>1. PICK m \in T : \A t \in T : t <= m
  <2>1. T # {} /\ T \subseteq 0 .. Len(mem) /\ Len(mem) \in Nat
    BY DEF Stored
  <2> HIDE DEF T
  <2> QED BY <2>1, Greatest
<1>2. m \in DOMAIN mem /\ P(m)
  BY <1>1
<1>3. last \in DOMAIN mem /\ P(last)
  BY <1>2
<1>4. Latest(mem, loc) = mem[last].val
  BY DEF Latest
<1> HIDE DEF last
<1> QED
  BY <1>3, <1>4

\* The node before a key, on its level or the head.
LEMMA BeforeIs ==
  ASSUME Parameters, NEW mem \in Seq(Store), NEW key \in Keys, NEW level \in Levels
  PROVE  /\ Before(mem, key, level) \in Keys \cup {head_}
         /\ Before(mem, key, level) < key
         /\ Before(mem, key, level) # head_ =>
              Points(mem, level, Before(mem, key, level), Len(mem))
         /\ \A n \in Keys : n < key /\ Points(mem, level, n, Len(mem)) =>
              n <= Before(mem, key, level)
<1> DEFINE onLevel == {n \in Keys : \E i \in DOMAIN mem :
                         mem[i].loc[2] = level /\ mem[i].val = n}
           earlier == {n \in onLevel : n < key}
           P(n) == \A m \in earlier : m <= n
<1>1. /\ earlier \subseteq 0 .. key /\ key \in Nat /\ 0 < key
      /\ earlier \subseteq Keys
      /\ \A n \in Keys : n \in earlier <=> n < key /\ Points(mem, level, n, Len(mem))
  BY DEF Parameters, Points, head_
<1>2. Before(mem, key, level) = IF earlier = {} THEN head_ ELSE CHOOSE n \in earlier : P(n)
  BY DEF Before
<1> HIDE DEF earlier
<1>3. CASE earlier = {}
  BY <1>1, <1>2, <1>3 DEF head_
<1>4. CASE earlier # {}
  <2>1. PICK m \in earlier : P(m)
    BY <1>1, <1>4, Greatest
  <2>2. Before(mem, key, level) \in earlier /\ P(Before(mem, key, level))
    BY <2>1, <1>2, <1>4
  <2> QED BY <2>2, <1>1
<1> QED
  BY <1>3, <1>4

\* Before level l of a new node is linked: its key and the links below are written,
\* and no link of this or a higher level is its own or leads to it.
Ready(mem, key, level) ==
  /\ Stored(mem, KeyField(key), Len(mem))
  /\ level > 0 => Stored(mem, Link(key, level - 1), Len(mem))
  /\ \A i \in DOMAIN mem : mem[i].loc[2] \in level .. MaxHeight - 1 =>
       mem[i].loc[1] # key /\ mem[i].val # key

\* Linking a node on one level keeps what is said of the stores.
LEMMA LinkedKeeps ==
  ASSUME Parameters, NEW mem, StoresOK(mem), NEW key \in Keys, NEW level \in Levels,
         Ready(mem, key, level)
  PROVE  /\ StoresOK(mem \o Linked(mem, key, level))
         /\ Ready(mem \o Linked(mem, key, level), key, level + 1)
<1> DEFINE prev == Before(mem, key, level)
           n == Len(mem)
<1>0. /\ mem \in Seq(Store) /\ n \in Nat /\ DOMAIN mem = 1 .. n /\ n > MaxHeight
      /\ MaxHeight \in Nat /\ level \in Nat /\ level < MaxHeight
      /\ key \in Nat /\ key > 0 /\ Keys \subseteq Nat \ {0} /\ head_ = 0
      /\ Null \notin Int
  BY DEF StoresOK, Begun, Parameters, Levels, head_
<1>1. /\ prev \in Keys \cup {head_} /\ prev < key
      /\ prev # head_ => Points(mem, level, prev, n)
      /\ \A k \in Keys : k < key /\ Points(mem, level, k, n) => k <= prev
  BY <1>0, BeforeIs
<1> HIDE DEF prev
<1>2. Stored(mem, Link(prev, level), n)
  <2>1. CASE prev = head_
    BY <2>1, <1>0 DEF StoresOK, Begun, Stored
  <2>2. CASE prev # head_
    <3>1. PICK i \in 1 .. n : mem[i].loc[2] = level /\ mem[i].val = prev
      BY <2>2, <1>1 DEF Points
    <3>2. prev # Null
      BY <1>0, <1>1
    <3>3. Stored(mem, Link(prev, level), i)
      BY <3>1, <3>2, <1>0 DEF StoresOK, Initialized
    <3> QED BY <3>3, <3>1, <1>0 DEF Stored
  <2> QED BY <2>1, <2>2
<1>3. PICK p \in 1 .. n : /\ mem[p].loc = Link(prev, level)
                          /\ Latest(mem, Link(prev, level)) = mem[p].val
                          /\ \A j \in p + 1 .. n : mem[j].loc # Link(prev, level)
  BY <1>0, <1>2, LatestIs
<1>4. PICK next : next = mem[p].val
  OBVIOUS
<1>5. mem[p].loc[1] = prev /\ mem[p].loc[2] = level /\ level \in Levels
  BY <1>3 DEF Link
<1>6. next # Null => /\ next \in Keys /\ next > key /\ Points(mem, level, next, n)
                     /\ Stored(mem, KeyField(next), n) /\ Stored(mem, Link(next, level), n)
  <2> SUFFICES ASSUME next # Null PROVE /\ next \in Keys /\ next > key
                     /\ Points(mem, level, next, n)
                     /\ Stored(mem, KeyField(next), n) /\ Stored(mem, Link(next, level), n)
    OBVIOUS
  <2>1. next \in Keys /\ Stored(mem, KeyField(next), p) /\ Stored(mem, Link(next, level), p)
    BY <1>0, <1>4, <1>5 DEF StoresOK, Initialized
  <2>2. Points(mem, level, next, n)
    BY <1>4, <1>5 DEF Points
  <2>3. next > prev
    <3>1. \A j \in p + 1 .. n : mem[j].loc # mem[p].loc
      BY <1>3
    <3>2. mem[p].loc[2] \in Levels /\ n \in DOMAIN mem /\ p \in 1 .. n
      BY <1>0, <1>5
    <3> QED BY <3>1, <3>2, <1>4, <1>5 DEF StoresOK, Ordered
  <2>4. next # key
    BY <1>0, <1>4, <1>5 DEF Ready
  <2> QED BY <2>1, <2>2, <2>3, <2>4, <1>0, <1>1 DEF Stored
<1>7. \A k \in Keys : k > prev /\ Points(mem, level, k, n) => next # Null /\ next <= k
  <2>1. \A j \in p + 1 .. n : mem[j].loc # mem[p].loc
    BY <1>3
  <2>2. mem[p].loc[2] \in Levels /\ n \in DOMAIN mem /\ p \in 1 .. n
    BY <1>0, <1>5
  <2> QED BY <2>1, <2>2, <1>4, <1>5 DEF StoresOK, Ordered
<1>8. PICK mm : mm = mem \o Linked(mem, key, level)
  OBVIOUS
<1>9. /\ mm \in Seq(Store) /\ Len(mm) = n + 2 /\ DOMAIN mm = 1 .. n + 2
      /\ \A i \in 1 .. n : mm[i] = mem[i]
      /\ mm[n + 1].loc = Link(key, level) /\ mm[n + 1].val = next
      /\ mm[n + 2].loc = Link(prev, level) /\ mm[n + 2].val = key
      /\ mm[n + 2].release
  <2> DEFINE own == NoBarrier_SetNext(key, level, next)
             pub == SetNext(prev, level, key)
  <2>1. Linked(mem, key, level) = <<own, pub>>
    BY <1>3, <1>4 DEF Linked, prev
  <2>2. own \in Store /\ pub \in Store
    <3>1. next \in Nat \cup {Null} /\ key \in Nat \cup {Null}
      BY <1>0, <1>6
    <3>2. Link(key, level) \in (Keys \cup {head_}) \X (-1 .. MaxHeight)
      BY <1>0 DEF Link
    <3>3. Link(prev, level) \in (Keys \cup {head_}) \X (-1 .. MaxHeight)
      BY <1>0, <1>1 DEF Link
    <3> QED BY <3>1, <3>2, <3>3 DEF Store, NoBarrier_SetNext, SetNext
  <2>3. /\ own.loc = Link(key, level) /\ own.val = next
        /\ pub.loc = Link(prev, level) /\ pub.val = key /\ pub.release
    BY DEF NoBarrier_SetNext, SetNext
  <2> HIDE DEF own, pub
  <2> QED BY <1>0, <1>8, <2>1, <2>2, <2>3
<1>10. /\ Link(key, level)[1] = key /\ Link(key, level)[2] = level
       /\ Link(prev, level)[1] = prev /\ Link(prev, level)[2] = level
  BY DEF Link
<1>11. \A loc : \A m, m2 \in Int : m <= n /\ m <= m2 /\ Stored(mem, loc, m) => Stored(mm, loc, m2)
  BY <1>0, <1>9 DEF Stored
<1>12. \A v, k : \A m \in 1 .. n : Points(mm, v, k, m) <=> Points(mem, v, k, m)
  BY <1>0, <1>9 DEF Points
<1>13. \A v \in Levels, k \in Keys : Points(mm, v, k, n + 1) <=> Points(mem, v, k, n)
  <2>1. \A i \in 1 .. n + 1 : i \in 1 .. n \/ i = n + 1
    BY <1>0
  <2>2. Null \notin Keys
    <3>1. \A k \in Keys : k \in Int
      BY <1>0
    <3> QED BY <3>1, <1>0
  <2> QED BY <2>1, <2>2, <1>0, <1>6, <1>9, <1>10 DEF Points
<1>14. \A v \in Levels, k \in Keys :
         Points(mm, v, k, n + 2) <=> Points(mem, v, k, n) \/ (v = level /\ k = key)
  <2>1. \A i \in 1 .. n + 2 : i \in 1 .. n + 1 \/ i = n + 2
    BY <1>0
  <2>2. \A v, k : Points(mm, v, k, n + 2) <=> Points(mm, v, k, n + 1) \/ (v = level /\ k = key)
    BY <2>1, <1>0, <1>9, <1>10 DEF Points
  <2> QED BY <2>2, <1>13
<1>15. \A i \in 1 .. n + 2 : i \in 1 .. n \/ i = n + 1 \/ i = n + 2
  BY <1>0
<1> HIDE DEF n
<1>16. Begun(mm)
  <2>1. Link(key, level) # HeightField /\ Link(prev, level) # HeightField
    BY <1>0 DEF Link, HeightField
  <2>2. \A v \in Levels : v + 1 \in 1 .. n
    BY <1>0 DEF Levels
  <2>3. \A v \in Levels : mm[v + 1].loc = Link(head_, v)
    BY <2>2, <1>9 DEF StoresOK, Begun
  <2>4. \A i \in 1 .. n + 2 : mm[i].loc = HeightField => mm[i].val \in 1 .. MaxHeight
    <3> TAKE i \in 1 .. n + 2
    <3>1. CASE i \in 1 .. n
      BY <3>1, <1>0, <1>9 DEF StoresOK, Begun
    <3> QED BY <3>1, <2>1, <1>9, <1>15
  <2>5. \A i \in 1 .. n + 2 : mm[i].loc[2] = -1 => mm[i].val = mm[i].loc[1]
    <3> TAKE i \in 1 .. n + 2
    <3>1. CASE i \in 1 .. n
      BY <3>1, <1>0, <1>9 DEF StoresOK, Begun
    <3>2. level # -1
      BY <1>0
    <3> QED BY <3>1, <3>2, <1>9, <1>10, <1>15
  <2> QED BY <2>3, <2>4, <2>5, <1>0, <1>9 DEF Begun
<1>17. Initialized(mm)
  <2> SUFFICES ASSUME NEW i \in 1 .. n + 2, mm[i].loc[2] \in Levels, mm[i].val # Null
               PROVE  /\ mm[i].val \in Keys
                      /\ Stored(mm, KeyField(mm[i].val), i)
                      /\ Stored(mm, Link(mm[i].val, mm[i].loc[2]), i)
    BY <1>9 DEF Initialized
  <2>1. CASE i \in 1 .. n
    <3>1. /\ mem[i].val \in Keys
          /\ Stored(mem, KeyField(mem[i].val), i)
          /\ Stored(mem, Link(mem[i].val, mem[i].loc[2]), i)
      BY <2>1, <1>0, <1>9 DEF StoresOK, Initialized
    <3> QED BY <3>1, <2>1, <1>0, <1>9, <1>11
  <2>2. CASE i = n + 1
    <3>1. mm[i].val = next /\ mm[i].loc[2] = level
      BY <2>2, <1>9, <1>10
    <3>2. n \in Int /\ i \in Int /\ n <= n /\ n <= i
      BY <2>2, <1>0
    <3> QED BY <3>1, <3>2, <1>6, <1>11
  <2>3. CASE i = n + 2
    <3>1. mm[i].val = key /\ mm[i].loc[2] = level
      BY <2>3, <1>9, <1>10
    <3>2. n \in Int /\ i \in Int /\ n <= n /\ n <= i
      BY <2>3, <1>0
    <3>3. Stored(mm, KeyField(key), i)
      BY <3>2, <1>11 DEF Ready, n
    <3>4. Stored(mm, Link(key, level), i)
      BY <2>3, <1>0, <1>9 DEF Stored
    <3> QED BY <3>1, <3>3, <3>4
  <2> QED BY <2>1, <2>2, <2>3, <1>15
<1>18. FirstPlain(mm)
  <2> SUFFICES ASSUME NEW i \in 1 .. n + 2, NEW j \in 1 .. n + 2, j < i,
                      mm[i].loc[2] \in Levels, mm[j].loc = mm[i].loc
               PROVE  mm[i].release
    BY <1>9 DEF FirstPlain
  <2>1. CASE i \in 1 .. n
    <3>1. j \in 1 .. n
      BY <2>1, <1>0
    <3> QED BY <3>1, <2>1, <1>0, <1>9 DEF StoresOK, FirstPlain
  <2>2. CASE i = n + 1
    <3>1. j \in 1 .. n
      BY <2>2, <1>0
    <3>2. mem[j].loc[1] = key /\ mem[j].loc[2] = level
      BY <3>1, <2>2, <1>9, <1>10
    <3> QED BY <3>1, <3>2, <1>0 DEF Ready
  <2>3. CASE i = n + 2
    BY <2>3, <1>9
  <2> QED BY <2>1, <2>2, <2>3, <1>15
<1>19. Downwards(mm)
  <2> SUFFICES ASSUME NEW i \in 1 .. n + 2, mm[i].loc[2] \in Levels \ {0}
               PROVE  Stored(mm, Link(mm[i].loc[1], mm[i].loc[2] - 1), i)
    BY <1>9 DEF Downwards
  <2>1. CASE i \in 1 .. n
    <3>1. Stored(mem, Link(mem[i].loc[1], mem[i].loc[2] - 1), i)
      BY <2>1, <1>0, <1>9 DEF StoresOK, Downwards
    <3> QED BY <3>1, <2>1, <1>0, <1>9, <1>11
  <2>2. CASE i = n + 1
    <3>1. mm[i].loc[1] = key /\ mm[i].loc[2] = level /\ level > 0
      BY <2>2, <1>0, <1>9, <1>10
    <3>2. n \in Int /\ i \in Int /\ n <= n /\ n <= i
      BY <2>2, <1>0
    <3> QED BY <3>1, <3>2, <1>11 DEF Ready, n
  <2>3. CASE i = n + 2
    <3>1. mm[i].loc[1] = prev /\ mm[i].loc[2] = level /\ level > 0
      BY <2>3, <1>0, <1>9, <1>10
    <3>2. Stored(mem, Link(prev, level - 1), p)
      BY <3>1, <1>0, <1>5 DEF StoresOK, Downwards
    <3>3. p \in Int /\ i \in Int /\ p <= n /\ p <= i
      BY <2>3, <1>0
    <3> QED BY <3>1, <3>2, <3>3, <1>11
  <2> QED BY <2>1, <2>2, <2>3, <1>15
<1>20. Reached(mm)
  <2> SUFFICES ASSUME NEW i \in 1 .. n + 2, mm[i].loc[2] \in Levels, mm[i].loc[1] \in Keys
               PROVE  Points(mm, mm[i].loc[2], mm[i].loc[1], n + 2)
    BY <1>9 DEF Reached
  <2>1. CASE i \in 1 .. n
    <3>1. Points(mem, mem[i].loc[2], mem[i].loc[1], n)
      BY <2>1, <1>0, <1>9 DEF StoresOK, Reached, n
    <3> QED BY <3>1, <2>1, <1>9, <1>14
  <2>2. CASE i = n + 1
    BY <2>2, <1>9, <1>10, <1>14
  <2>3. CASE i = n + 2
    <3>1. prev # head_
      BY <2>3, <1>0, <1>9, <1>10
    <3> QED BY <3>1, <2>3, <1>1, <1>9, <1>10, <1>14
  <2> QED BY <2>1, <2>2, <2>3, <1>15
<1>21. Ordered(mm)
  <2> SUFFICES ASSUME NEW m \in 1 .. n + 2, NEW i \in 1 .. m, mm[i].loc[2] \in Levels,
                      \A j \in i + 1 .. m : mm[j].loc # mm[i].loc
               PROVE  /\ mm[i].val # Null => mm[i].val > mm[i].loc[1]
                      /\ \A k \in Keys : k > mm[i].loc[1] /\ Points(mm, mm[i].loc[2], k, m) =>
                           mm[i].val # Null /\ mm[i].val <= k
    BY <1>9 DEF Ordered
  <2>1. ASSUME i \in 1 .. n
        PROVE  \E q \in 1 .. n :
                 /\ q = (IF m \in 1 .. n THEN m ELSE n)
                 /\ mm[i].val # Null => mm[i].val > mm[i].loc[1]
                 /\ \A k \in Keys : k > mm[i].loc[1] /\ Points(mem, mm[i].loc[2], k, q) =>
                      mm[i].val # Null /\ mm[i].val <= k
    <3>1. PICK q : q = (IF m \in 1 .. n THEN m ELSE n)
      OBVIOUS
    <3>2. q \in 1 .. n /\ i \in 1 .. q /\ q <= m
      BY <3>1, <2>1, <1>0
    <3>3. \A j \in i + 1 .. q : mem[j].loc # mem[i].loc
      <4> TAKE j \in i + 1 .. q
      <4>1. j \in 1 .. n /\ j \in i + 1 .. m
        BY <3>2, <2>1, <1>0
      <4> QED BY <4>1, <2>1, <1>9
    <3>4. mem[i] = mm[i]
      BY <2>1, <1>9
    <3>5. /\ mem[i].val # Null => mem[i].val > mem[i].loc[1]
          /\ \A k \in Keys : k > mem[i].loc[1] /\ Points(mem, mem[i].loc[2], k, q) =>
               mem[i].val # Null /\ mem[i].val <= k
      <4>1. mem[i].loc[2] \in Levels
        BY <3>4
      <4> QED BY <4>1, <3>2, <3>3, <1>0 DEF StoresOK, Ordered
    <3> QED BY <3>1, <3>2, <3>4, <3>5
  <2>2. CASE m \in 1 .. n
    <3>1. i \in 1 .. n
      BY <2>2, <1>0
    <3> QED BY <3>1, <2>1, <2>2, <1>12
  <2>3. CASE i = n + 1
    <3>1. mm[i].loc[1] = key /\ mm[i].loc[2] = level /\ mm[i].val = next
      BY <2>3, <1>9, <1>10
    <3>2. m = n + 1 \/ m = n + 2
      BY <2>3, <1>0
    <3>3. ASSUME NEW k \in Keys, k > key, Points(mm, level, k, m)
          PROVE  next # Null /\ next <= k
      <4>1. Points(mem, level, k, n)
        BY <3>2, <3>3, <1>0, <1>13, <1>14
      <4>2. k > prev
        BY <3>3, <1>0, <1>1
      <4> QED BY <4>1, <4>2, <1>7
    <3> QED BY <3>1, <3>3, <1>6
  <2>4. CASE i = n + 2
    <3>1. mm[i].loc[1] = prev /\ mm[i].loc[2] = level /\ mm[i].val = key /\ m = n + 2
      BY <2>4, <1>0, <1>9, <1>10
    <3>2. ASSUME NEW k \in Keys, k > prev, Points(mm, level, k, m)
          PROVE  key # Null /\ key <= k
      <4>1. Points(mem, level, k, n) \/ k = key
        BY <3>1, <3>2, <1>14
      <4>2. key # Null /\ prev \in Nat /\ k \in Nat
        BY <1>0, <1>1
      <4>3. k < key => k <= prev
        BY <4>1, <4>2, <1>0, <1>1
      <4> QED BY <4>2, <4>3, <3>2, <1>0
    <3> QED BY <3>1, <3>2, <1>0, <1>1
  <2>5. CASE i \in 1 .. n /\ m \notin 1 .. n
    <3>1. /\ mm[i].val # Null => mm[i].val > mm[i].loc[1]
          /\ \A k \in Keys : k > mm[i].loc[1] /\ Points(mem, mm[i].loc[2], k, n) =>
               mm[i].val # Null /\ mm[i].val <= k
      BY <2>1, <2>5
    <3>2. m = n + 1 \/ m = n + 2
      BY <2>5, <1>0
    <3>3. ASSUME NEW k \in Keys, k > mm[i].loc[1], Points(mm, mm[i].loc[2], k, m)
          PROVE  mm[i].val # Null /\ mm[i].val <= k
      <4>1. CASE Points(mem, mm[i].loc[2], k, n)
        BY <4>1, <3>1, <3>3
      <4>2. CASE ~ Points(mem, mm[i].loc[2], k, n)
        <5>1. m = n + 2 /\ mm[i].loc[2] = level /\ k = key
          BY <4>2, <3>2, <3>3, <1>13, <1>14
        <5>2. mm[i].loc # Link(prev, level)
          <6>1. n + 2 \in i + 1 .. m
            BY <5>1, <2>5, <1>0
          <6> QED BY <6>1, <1>9
        <5>3. mm[i] = mem[i] /\ mem[i] \in Store
          BY <2>5, <1>0, <1>9
        <5>4. mm[i].loc[1] \in Keys \cup {head_} /\ mm[i].loc = <<mm[i].loc[1], level>>
          BY <5>1, <5>3 DEF Store
        <5>5. mm[i].loc[1] # prev
          BY <5>2, <5>4 DEF Link
        <5>6. mm[i].loc[1] < prev /\ prev # head_
          <6>1. CASE mm[i].loc[1] = head_
            BY <6>1, <5>5, <1>0, <1>1
          <6>2. CASE mm[i].loc[1] # head_
            <7>1. Points(mem, level, mm[i].loc[1], n)
              BY <6>2, <5>1, <5>3, <5>4, <2>5, <1>0 DEF StoresOK, Reached, n
            <7>2. mm[i].loc[1] \in Keys /\ mm[i].loc[1] < key
              BY <6>2, <5>1, <5>4, <3>3
            <7>3. mm[i].loc[1] <= prev
              BY <7>1, <7>2, <1>1
            <7>4. prev \in Nat
              BY <1>0, <1>1
            <7>5. \A u \in Keys : u \in Nat /\ u > 0
              BY <1>0
            <7>6. mm[i].loc[1] \in Nat /\ mm[i].loc[1] > 0
              BY <7>2, <7>5
            <7> QED BY <7>3, <7>4, <7>6, <5>5, <1>0
          <6> QED BY <6>1, <6>2
        <5>7. mm[i].val # Null /\ mm[i].val <= prev
          BY <5>1, <5>6, <3>1, <1>1
        <5>8. mm[i].val \in Nat /\ prev \in Nat
          BY <5>3, <5>7, <1>0, <1>1 DEF Store
        <5> QED BY <5>1, <5>7, <5>8, <1>0, <1>1
      <4> QED BY <4>1, <4>2
    <3> QED BY <3>1, <3>3
  <2>6. i \in 1 .. n \/ i = n + 1 \/ i = n + 2
    BY <1>0
  <2> QED BY <2>2, <2>3, <2>4, <2>5, <2>6
<1>22. Ready(mm, key, level + 1)
  <2>1. PICK v : v = level + 1
    OBVIOUS
  <2>2. Stored(mm, KeyField(key), Len(mm))
    <3>1. n \in Int /\ n + 2 \in Int /\ n <= n /\ n <= n + 2
      BY <1>0
    <3> QED BY <3>1, <1>9, <1>11 DEF Ready, n
  <2>3. Stored(mm, Link(key, v - 1), Len(mm))
    <3>1. v - 1 = level /\ n + 1 \in 1 .. n + 2
      BY <1>0, <2>1
    <3> QED BY <3>1, <1>9 DEF Stored
  <2>4. ASSUME NEW i \in DOMAIN mm, mm[i].loc[2] \in v .. MaxHeight - 1
        PROVE  mm[i].loc[1] # key /\ mm[i].val # key
    <3>1. i \in 1 .. n
      <4>1. level \notin v .. MaxHeight - 1
        BY <1>0, <2>1
      <4>2. mm[n + 1].loc[2] = level /\ mm[n + 2].loc[2] = level
        BY <1>9, <1>10
      <4>3. i \in 1 .. n + 2
        BY <1>9
      <4> QED BY <4>1, <4>2, <4>3, <2>4, <1>15
    <3>2. mem[i].loc[2] \in level .. MaxHeight - 1
      BY <3>1, <2>1, <2>4, <1>0, <1>9
    <3> QED BY <3>1, <3>2, <1>0, <1>9 DEF Ready
  <2>5. Ready(mm, key, v)
    BY <2>2, <2>3, <2>4 DEF Ready
  <2> QED BY <2>1, <2>5
<1> QED
  BY <1>8, <1>9, <1>16, <1>17, <1>18, <1>19, <1>20, <1>21, <1>22 DEF StoresOK

\* The loop over the levels.
Links(f, mem, key, height) ==
  f = [l \in 0 .. height |->
         IF l = 0 THEN mem ELSE f[l - 1] \o Linked(f[l - 1], key, l - 1)]

LEMMA LinksExist ==
  ASSUME NEW mem, NEW key, NEW height \in Nat
  PROVE  \E f : Links(f, mem, key, height)
<1> DEFINE T == {m \in Nat : ~ \E f : Links(f, mem, key, m)}
<1> SUFFICES ASSUME T # {} PROVE FALSE
  OBVIOUS
<1>1. PICK m \in T : \A t \in T : m <= t
  <2> HIDE DEF T
  <2>1. T \subseteq Nat
    BY DEF T
  <2> QED BY <2>1, Least
<1>2. CASE m = 0
  <2> DEFINE f == [l \in 0 .. 0 |-> mem]
  <2>1. Links(f, mem, key, 0)
    BY DEF Links
  <2> QED BY <2>1, <1>1, <1>2
<1>3. CASE m > 0
  <2>1. m - 1 \in Nat /\ m - 1 \notin T
    BY <1>1, <1>3
  <2>2. PICK f : Links(f, mem, key, m - 1)
    BY <2>1
  <2> DEFINE v == f[m - 1] \o Linked(f[m - 1], key, m - 1)
             g == [l \in 0 .. m |-> IF l = m THEN v ELSE f[l]]
  <2> HIDE DEF v
  <2>3. ASSUME NEW l \in 0 .. m
        PROVE  g[l] = IF l = 0 THEN mem ELSE g[l - 1] \o Linked(g[l - 1], key, l - 1)
    <3>1. CASE l = m
      <4>1. g[l - 1] = f[m - 1]
        BY <1>3, <3>1
      <4> QED BY <4>1, <3>1, <1>3 DEF v
    <3>2. CASE l < m
      <4>1. l \in 0 .. m - 1
        BY <3>2
      <4>2. f[l] = IF l = 0 THEN mem ELSE f[l - 1] \o Linked(f[l - 1], key, l - 1)
        BY <2>2, <4>1 DEF Links
      <4>3. l # 0 => g[l - 1] = f[l - 1]
        BY <3>2
      <4>4. g[l] = f[l]
        BY <3>2
      <4> HIDE DEF g
      <4> QED BY <4>2, <4>3, <4>4
    <3> QED BY <3>1, <3>2
  <2>4. Links(g, mem, key, m)
    <3>1. g = [l \in 0 .. m |-> g[l]]
      OBVIOUS
    <3> HIDE DEF g
    <3> QED BY <3>1, <2>3 DEF Links
  <2> QED BY <2>4, <1>1
<1> QED
  BY <1>1, <1>2, <1>3

LEMMA LinksAre ==
  ASSUME NEW mem, NEW key, NEW height \in Nat
  PROVE  \E f : Links(f, mem, key, height) /\ LinkLevels(mem, key, height) = f[height]
<1> DEFINE f == CHOOSE f : Links(f, mem, key, height)
<1>1. Links(f, mem, key, height)
  BY LinksExist
<1>2. LinkLevels(mem, key, height) = f[height]
  BY DEF LinkLevels, Links
<1> QED
  BY <1>1, <1>2

\* One sequence is the beginning of another.
Begins(mem, mm) ==
  Len(mem) <= Len(mm) /\ \A i \in 1 .. Len(mem) : mm[i] = mem[i]

\* The loop keeps what is said of the stores, and only adds to them.
LEMMA LinkLevelsKeeps ==
  ASSUME Parameters, NEW mem, StoresOK(mem), NEW key \in Keys, NEW height \in 1 .. MaxHeight,
         Ready(mem, key, 0)
  PROVE  /\ StoresOK(LinkLevels(mem, key, height))
         /\ Begins(mem, LinkLevels(mem, key, height))
<1>0. MaxHeight \in Nat /\ height \in Nat
  BY DEF Parameters
<1>1. PICK f : Links(f, mem, key, height) /\ LinkLevels(mem, key, height) = f[height]
  BY <1>0, LinksAre
<1> DEFINE Good(l) == StoresOK(f[l]) /\ Ready(f[l], key, l) /\ Begins(mem, f[l])
           T == {l \in 0 .. height : ~ Good(l)}
<1>2. Good(0)
  <2>1. f[0] = mem
    BY <1>0, <1>1 DEF Links
  <2>2. mem \in Seq(Store)
    BY DEF StoresOK
  <2> QED BY <2>1, <2>2 DEF Begins
<1>3. ASSUME NEW l \in 1 .. height, Good(l - 1)
      PROVE  Good(l)
  <2>1. l - 1 \in Levels /\ l - 1 + 1 = l
    BY <1>0 DEF Levels
  <2>2. PICK mm : mm = f[l - 1]
    OBVIOUS
  <2>3. f[l] = mm \o Linked(mm, key, l - 1)
    BY <1>0, <1>1, <2>2 DEF Links
  <2>4. StoresOK(mm) /\ Ready(mm, key, l - 1) /\ Begins(mem, mm)
    BY <1>3, <2>2
  <2>5. StoresOK(f[l]) /\ Ready(f[l], key, l - 1 + 1)
    BY <2>1, <2>3, <2>4, LinkedKeeps
  <2>6. Begins(mem, f[l])
    <3>1. mm \in Seq(Store) /\ mem \in Seq(Store)
      BY <2>4 DEF StoresOK
    <3>2. PICK A, s : s \in Seq(A) /\ s = Linked(mm, key, l - 1)
      <4> DEFINE prev == Before(mm, key, l - 1)
                 a == NoBarrier_SetNext(key, l - 1, Latest(mm, Link(prev, l - 1)))
                 b == SetNext(prev, l - 1, key)
      <4>1. Linked(mm, key, l - 1) = <<a, b>>
        BY DEF Linked
      <4> HIDE DEF a, b
      <4>2. <<a, b>> \in Seq({a, b})
        OBVIOUS
      <4> QED BY <4>1, <4>2
    <3>3. f[l] = mm \o s
      BY <2>3, <3>2
    <3> QED BY <3>1, <3>2, <3>3, <2>4 DEF Begins
  <2> QED BY <2>1, <2>5, <2>6
<1>4. T = {}
  <2> SUFFICES ASSUME T # {} PROVE FALSE
    OBVIOUS
  <2>1. PICK m \in T : \A t \in T : m <= t
    <3>1. T \subseteq Nat
      OBVIOUS
    <3> HIDE DEF T
    <3> QED BY <3>1, Least
  <2>2. m \in 1 .. height
    BY <1>2, <2>1
  <2>3. m - 1 \in 0 .. height /\ m - 1 \notin T
    BY <2>1, <2>2
  <2>4. Good(m - 1)
    BY <2>3
  <2>5. Good(m)
    <3> HIDE DEF Good
    <3> QED BY <2>2, <2>4, <1>3
  <2> QED BY <2>1, <2>5
<1> QED
  <2>1. height \in 0 .. height
    BY <1>0
  <2>2. Good(height)
    BY <2>1, <1>4
  <2> QED BY <2>2, <1>1

\* A store that is no link keeps what is said of the stores.
LEMMA OtherKeeps ==
  ASSUME Parameters, NEW mem, StoresOK(mem), NEW e \in Store, e.loc[2] \notin Levels,
         e.loc = HeightField => e.val \in 1 .. MaxHeight,
         e.loc[2] = -1 => e.val = e.loc[1]
  PROVE  StoresOK(mem \o <<e>>) /\ Begins(mem, mem \o <<e>>)
<1> DEFINE n == Len(mem)
<1>0. mem \in Seq(Store) /\ n \in Nat /\ DOMAIN mem = 1 .. n /\ MaxHeight \in Nat
  BY DEF StoresOK, Parameters
<1>1. PICK mm : mm = mem \o <<e>>
  OBVIOUS
<1>2. /\ mm \in Seq(Store) /\ Len(mm) = n + 1 /\ DOMAIN mm = 1 .. n + 1
      /\ \A i \in 1 .. n : mm[i] = mem[i]
      /\ mm[n + 1] = e
  BY <1>0, <1>1
<1>3. \A i \in 1 .. n + 1 : i \in 1 .. n \/ i = n + 1
  BY <1>0
<1>4. \A loc : \A m \in 1 .. n : Stored(mm, loc, m) <=> Stored(mem, loc, m)
  BY <1>0, <1>2 DEF Stored
<1>5. \A v \in Levels : \A k : \A m \in 1 .. n : Points(mm, v, k, m) <=> Points(mem, v, k, m)
  BY <1>0, <1>2 DEF Points
<1>6. \A v \in Levels : \A k : Points(mm, v, k, n + 1) <=> Points(mem, v, k, n)
  BY <1>0, <1>2, <1>3 DEF Points
<1>6a. n > MaxHeight
  BY DEF StoresOK, Begun
<1> HIDE DEF n
<1>7. Begun(mm)
  <2>1. \A v \in Levels : v + 1 \in 1 .. n
    BY <1>0, <1>6a DEF Levels
  <2>2. \A v \in Levels : mm[v + 1].loc = Link(head_, v)
    BY <2>1, <1>2 DEF StoresOK, Begun
  <2>3. \A i \in 1 .. n + 1 : mm[i].loc = HeightField => mm[i].val \in 1 .. MaxHeight
    BY <1>0, <1>2, <1>3 DEF StoresOK, Begun
  <2>4. \A i \in 1 .. n + 1 : mm[i].loc[2] = -1 => mm[i].val = mm[i].loc[1]
    BY <1>0, <1>2, <1>3 DEF StoresOK, Begun
  <2> QED BY <2>2, <2>3, <2>4, <1>0, <1>2, <1>6a DEF Begun
<1>8. \A i \in 1 .. n + 1 : mm[i].loc[2] \in Levels => i \in 1 .. n /\ mem[i].loc[2] \in Levels
  BY <1>2, <1>3
<1>9. Initialized(mm)
  BY <1>0, <1>2, <1>4, <1>8 DEF StoresOK, Initialized
<1>10. FirstPlain(mm)
  <2> SUFFICES ASSUME NEW i \in 1 .. n + 1, NEW j \in 1 .. n + 1, j < i,
                      mm[i].loc[2] \in Levels, mm[j].loc = mm[i].loc
               PROVE  mm[i].release
    BY <1>2 DEF FirstPlain
  <2>1. i \in 1 .. n /\ j \in 1 .. n
    BY <1>8
  <2> QED BY <2>1, <1>0, <1>2 DEF StoresOK, FirstPlain
<1>11. Downwards(mm)
  BY <1>0, <1>2, <1>4, <1>8 DEF StoresOK, Downwards
<1>12. Reached(mm)
  BY <1>0, <1>2, <1>6, <1>8 DEF StoresOK, Reached, n
<1>13. Ordered(mm)
  <2> SUFFICES ASSUME NEW m \in 1 .. n + 1, NEW i \in 1 .. m, mm[i].loc[2] \in Levels,
                      \A j \in i + 1 .. m : mm[j].loc # mm[i].loc
               PROVE  /\ mm[i].val # Null => mm[i].val > mm[i].loc[1]
                      /\ \A k \in Keys : k > mm[i].loc[1] /\ Points(mm, mm[i].loc[2], k, m) =>
                           mm[i].val # Null /\ mm[i].val <= k
    BY <1>2 DEF Ordered
  <2>1. i \in 1 .. n /\ mm[i] = mem[i]
    BY <1>0, <1>2, <1>8
  <2>2. PICK q : q = (IF m = n + 1 THEN n ELSE m)
    OBVIOUS
  <2>3. q \in 1 .. n /\ i \in 1 .. q /\ q <= m
    BY <2>1, <2>2, <1>0
  <2>4. \A j \in i + 1 .. q : mem[j].loc # mem[i].loc
    <3> TAKE j \in i + 1 .. q
    <3>1. j \in 1 .. n /\ j \in i + 1 .. m
      BY <2>3, <2>1, <1>0
    <3> QED BY <3>1, <2>1, <1>2
  <2>5. /\ mem[i].val # Null => mem[i].val > mem[i].loc[1]
        /\ \A k \in Keys : k > mem[i].loc[1] /\ Points(mem, mem[i].loc[2], k, q) =>
             mem[i].val # Null /\ mem[i].val <= k
    BY <2>1, <2>3, <2>4, <1>0 DEF StoresOK, Ordered
  <2>6. \A k : Points(mm, mem[i].loc[2], k, m) => Points(mem, mem[i].loc[2], k, q)
    <3>1. CASE m = n + 1
      BY <3>1, <2>1, <2>2, <1>6
    <3>2. CASE m # n + 1
      <4>1. m \in 1 .. n
        BY <3>2, <1>0
      <4> QED BY <4>1, <3>2, <2>1, <2>2, <1>5
    <3> QED BY <3>1, <3>2
  <2> QED BY <2>1, <2>5, <2>6
<1>14. Begins(mem, mm)
  BY <1>0, <1>2 DEF Begins, n
<1> QED
  BY <1>1, <1>2, <1>7, <1>9, <1>10, <1>11, <1>12, <1>13, <1>14 DEF StoresOK

\* The stores of the constructor.
LEMMA ConstructedOK ==
  ASSUME Parameters
  PROVE  StoresOK(Constructed) /\ Len(Constructed) = MaxHeight + 1
<1> DEFINE a == [l \in 1 .. MaxHeight |-> SetNext(head_, l - 1, Null)]
           h == [loc |-> HeightField, val |-> 1, release |-> FALSE]
           n == MaxHeight
<1>0. n \in Nat \ {0} /\ Null \notin Int /\ Keys \subseteq Nat \ {0} /\ head_ = 0
  BY DEF Parameters, head_
<1>1. \A l \in 1 .. n : /\ a[l].loc = Link(head_, l - 1) /\ a[l].val = Null /\ a[l].release
                        /\ a[l] \in Store
  <2> TAKE l \in 1 .. n
  <2>1. Link(head_, l - 1) \in (Keys \cup {head_}) \X (-1 .. MaxHeight)
    BY <1>0 DEF Link
  <2> QED BY <2>1 DEF SetNext, Store
<1>2. h \in Store
  <2>1. HeightField \in (Keys \cup {head_}) \X (-1 .. MaxHeight)
    BY <1>0 DEF HeightField
  <2> QED BY <2>1 DEF Store
<1>3. h.loc = HeightField /\ h.val = 1
  OBVIOUS
<1>4. a \in Seq(Store) /\ Len(a) = n
  BY <1>0, <1>1
<1>5. PICK mm : mm = a \o <<h>>
  OBVIOUS
<1>6. Constructed = mm
  BY <1>5 DEF Constructed
<1> HIDE DEF a, h
<1>7. /\ mm \in Seq(Store) /\ Len(mm) = n + 1 /\ DOMAIN mm = 1 .. n + 1
      /\ \A i \in 1 .. n : mm[i] = a[i]
      /\ mm[n + 1] = h
  BY <1>0, <1>2, <1>4, <1>5
<1>8. \A i \in 1 .. n : /\ mm[i].loc = Link(head_, i - 1) /\ mm[i].val = Null
                        /\ mm[i].loc[1] = head_ /\ mm[i].loc[2] = i - 1
  BY <1>1, <1>7 DEF Link
<1>9. mm[n + 1].loc = HeightField /\ mm[n + 1].val = 1 /\ mm[n + 1].loc[2] = n
  BY <1>3, <1>7 DEF HeightField
<1>10. \A i \in 1 .. n + 1 : i \in 1 .. n \/ i = n + 1
  BY <1>0
<1>11. \A i \in 1 .. n + 1 : mm[i].loc[2] \in Levels =>
         i \in 1 .. n /\ mm[i].val = Null /\ mm[i].loc[1] = head_ /\ mm[i].loc[2] = i - 1
  <2>1. n \notin Levels
    BY <1>0 DEF Levels
  <2> QED BY <2>1, <1>8, <1>9, <1>10
<1>12. \A i \in 1 .. n : Link(head_, i - 1) # HeightField
  BY <1>0 DEF Link, HeightField
<1>13. Begun(mm)
  <2>1. \A v \in Levels : v + 1 \in 1 .. n /\ v + 1 - 1 = v
    BY <1>0 DEF Levels
  <2>2. \A i \in 1 .. n + 1 : mm[i].loc[2] # -1
    BY <1>0, <1>8, <1>9, <1>10
  <2>3. ASSUME NEW v \in Levels
        PROVE  mm[v + 1].loc = Link(head_, v)
    <3>1. PICK i : i = v + 1
      OBVIOUS
    <3>2. i \in 1 .. n /\ i - 1 = v
      BY <3>1, <2>1, <1>0 DEF Levels
    <3>3. mm[i].loc = Link(head_, i - 1)
      BY <3>2, <1>8
    <3> QED BY <3>1, <3>2, <3>3
  <2>4. \A i \in 1 .. n + 1 : mm[i].loc = HeightField => mm[i].val \in 1 .. MaxHeight
    BY <1>0, <1>8, <1>9, <1>10, <1>12
  <2> QED BY <2>2, <2>3, <2>4, <1>0, <1>7 DEF Begun
<1>14. Initialized(mm)
  BY <1>7, <1>11 DEF Initialized
<1>15. FirstPlain(mm)
  <2> SUFFICES ASSUME NEW i \in 1 .. n + 1, NEW j \in 1 .. n + 1, j < i,
                      mm[i].loc[2] \in Levels, mm[j].loc = mm[i].loc
               PROVE  FALSE
    BY <1>7 DEF FirstPlain
  <2>1. mm[j].loc[2] \in Levels
    OBVIOUS
  <2>2. i - 1 = j - 1
    BY <2>1, <1>11
  <2> QED BY <2>2, <1>0
<1>16. Downwards(mm)
  <2> SUFFICES ASSUME NEW i \in 1 .. n + 1, mm[i].loc[2] \in Levels \ {0}
               PROVE  Stored(mm, Link(mm[i].loc[1], mm[i].loc[2] - 1), i)
    BY <1>7 DEF Downwards
  <2>1. i \in 1 .. n /\ mm[i].loc[1] = head_ /\ mm[i].loc[2] = i - 1 /\ i # 1
    BY <1>11
  <2>2. i - 1 \in 1 .. n /\ i - 1 \in 1 .. i
    BY <2>1, <1>0
  <2> QED BY <2>1, <2>2, <1>8 DEF Stored
<1>17. Reached(mm)
  <2>1. head_ \notin Keys
    BY <1>0
  <2> QED BY <2>1, <1>7, <1>11 DEF Reached
<1>18. Ordered(mm)
  <2> SUFFICES ASSUME NEW m \in 1 .. n + 1, NEW i \in 1 .. m, mm[i].loc[2] \in Levels
               PROVE  /\ mm[i].val = Null
                      /\ \A k \in Keys : ~ Points(mm, mm[i].loc[2], k, m)
    BY <1>7 DEF Ordered
  <2>1. i \in 1 .. n + 1
    BY <1>0
  <2>2. \A k \in Keys : k # Null
    <3>1. \A k \in Keys : k \in Int
      BY <1>0
    <3> QED BY <3>1, <1>0
  <2>3. \A j \in 1 .. m : j \in 1 .. n + 1
    BY <1>0
  <2> QED BY <2>1, <2>2, <2>3, <1>11 DEF Points
<1> QED
  BY <1>6, <1>7, <1>13, <1>14, <1>15, <1>16, <1>17, <1>18 DEF StoresOK

\* One sequence beginning another beginning a third.
LEMMA BeginsChain ==
  ASSUME NEW a \in Seq(Store), NEW b \in Seq(Store), NEW c \in Seq(Store),
         Begins(a, b), Begins(b, c)
  PROVE  Begins(a, c)
  BY DEF Begins

\* An insertion keeps what is said of the stores, and only adds to them.
LEMMA InsertKeeps ==
  ASSUME Parameters, StoresOK(stores), NEW key \in Keys, NEW height \in 1 .. MaxHeight,
         Insert(key, height)
  PROVE  StoresOK(stores') /\ Begins(stores, stores')
<1> DEFINE up == [loc |-> HeightField, val |-> height, release |-> FALSE]
           new == [loc |-> KeyField(key), val |-> key, release |-> FALSE]
           raised == IF height > Height THEN <<up>> ELSE <<>>
<1>0. /\ MaxHeight \in Nat \ {0} /\ Null \notin Int /\ Keys \subseteq Nat \ {0} /\ head_ = 0
      /\ stores \in Seq(Store)
  BY DEF Parameters, head_, StoresOK
<1>1. stores' = LinkLevels(stores \o raised \o <<new>>, key, height)
  BY DEF Insert, NewNode
<1>2. /\ up \in Store /\ up.loc = HeightField /\ up.loc[2] \notin Levels
      /\ up.val \in 1 .. MaxHeight /\ up.loc[2] # -1
  <2>1. HeightField \in (Keys \cup {head_}) \X (-1 .. MaxHeight)
    BY <1>0 DEF HeightField
  <2>2. HeightField[2] = MaxHeight
    BY DEF HeightField
  <2> QED BY <2>1, <2>2, <1>0 DEF Store, Levels
<1>3. /\ new \in Store /\ new.loc = KeyField(key) /\ new.val = key
      /\ new.loc[1] = key /\ new.loc[2] = -1
      /\ -1 \notin Levels /\ new.loc # HeightField
  <2>1. KeyField(key) \in (Keys \cup {head_}) \X (-1 .. MaxHeight)
    BY <1>0 DEF KeyField
  <2>2. KeyField(key)[1] = key /\ KeyField(key)[2] = -1 /\ KeyField(key) # HeightField
    BY <1>0 DEF KeyField, HeightField
  <2> QED BY <2>1, <2>2, <1>0 DEF Store, Levels
<1> HIDE DEF up, new
<1>4. PICK a : a = stores \o raised
  OBVIOUS
<1>5. StoresOK(a) /\ Begins(stores, a)
  <2>1. CASE height > Height
    <3>1. a = stores \o <<up>>
      BY <2>1, <1>4
    <3> QED BY <3>1, <1>2, OtherKeeps
  <2>2. CASE ~ (height > Height)
    <3>1. a = stores
      BY <2>2, <1>0, <1>4
    <3> QED BY <3>1, <1>0 DEF Begins
  <2> QED BY <2>1, <2>2
<1>6. PICK b : b = a \o <<new>>
  OBVIOUS
<1>7. StoresOK(b) /\ Begins(a, b)
  BY <1>3, <1>5, <1>6, OtherKeeps
<1>8. stores' = LinkLevels(b, key, height)
  BY <1>1, <1>4, <1>6
<1>9. \A i \in DOMAIN stores : stores[i].loc # KeyField(key)
  <2> SUFFICES ASSUME NEW i \in DOMAIN stores, stores[i].loc = KeyField(key) PROVE FALSE
    OBVIOUS
  <2>1. stores[i].loc[2] = -1 /\ stores[i].loc[1] = key
    BY DEF KeyField
  <2>2. stores[i].val = key
    BY <2>1 DEF StoresOK, Begun
  <2> QED BY <2>1, <2>2 DEF Insert, Inserted
<1>10. \A i \in DOMAIN stores : stores[i].loc[2] \in Levels =>
         stores[i].val # key /\ stores[i].loc[1] # key
  <2>0. DOMAIN stores = 1 .. Len(stores) /\ Len(stores) \in Nat /\ key # Null
    BY <1>0
  <2>1. \A i \in DOMAIN stores : stores[i].loc[2] \in Levels => stores[i].val # key
    <3> SUFFICES ASSUME NEW i \in DOMAIN stores, stores[i].loc[2] \in Levels,
                        stores[i].val = key
                 PROVE  FALSE
      OBVIOUS
    <3>1. Stored(stores, KeyField(key), i)
      BY <2>0 DEF StoresOK, Initialized
    <3>2. \A j \in 1 .. i : j \in DOMAIN stores
      BY <2>0
    <3> QED BY <3>1, <3>2, <1>9 DEF Stored
  <2>2. \A i \in DOMAIN stores : stores[i].loc[2] \in Levels => stores[i].loc[1] # key
    <3> SUFFICES ASSUME NEW i \in DOMAIN stores, stores[i].loc[2] \in Levels,
                        stores[i].loc[1] = key
                 PROVE  FALSE
      OBVIOUS
    <3>1. Points(stores, stores[i].loc[2], key, Len(stores))
      BY DEF StoresOK, Reached
    <3> QED BY <3>1, <2>0, <2>1 DEF Points
  <2> QED BY <2>1, <2>2
<1>11. Ready(b, key, 0)
  <2>0. /\ a \in Seq(Store) /\ b \in Seq(Store) /\ Len(b) = Len(a) + 1 /\ Len(a) \in Nat
        /\ DOMAIN a = 1 .. Len(a) /\ DOMAIN b = 1 .. Len(a) + 1
        /\ b[Len(a) + 1] = new
        /\ \A i \in 1 .. Len(a) : b[i] = a[i]
    BY <1>3, <1>5, <1>6 DEF StoresOK
  <2>1. Stored(b, KeyField(key), Len(b))
    BY <2>0, <1>3 DEF Stored
  <2>2. ASSUME NEW i \in 1 .. Len(a), a[i].loc[2] \in Levels
        PROVE  i \in DOMAIN stores /\ a[i] = stores[i]
    <3>1. CASE height > Height
      <4>1. a = stores \o <<up>>
        BY <3>1, <1>4
      <4>2. Len(a) = Len(stores) + 1 /\ a[Len(stores) + 1] = up
            /\ \A j \in 1 .. Len(stores) : a[j] = stores[j]
        BY <4>1, <1>0, <1>2
      <4>3. i # Len(stores) + 1
        BY <4>2, <2>2, <1>2
      <4> QED BY <4>2, <4>3, <1>0
    <3>2. CASE ~ (height > Height)
      <4>1. a = stores
        BY <3>2, <1>0, <1>4
      <4> QED BY <4>1, <2>0
    <3> QED BY <3>1, <3>2
  <2>3. \A i \in DOMAIN b : b[i].loc[2] \in 0 .. MaxHeight - 1 =>
          b[i].loc[1] # key /\ b[i].val # key
    <3> SUFFICES ASSUME NEW i \in 1 .. Len(a) + 1, b[i].loc[2] \in Levels
                 PROVE  b[i].loc[1] # key /\ b[i].val # key
      BY <2>0 DEF Levels
    <3>1. i \in 1 .. Len(a)
      BY <2>0, <1>3
    <3> QED BY <3>1, <2>0, <2>2, <1>10
  <2> QED BY <2>1, <2>3 DEF Ready
<1>12. StoresOK(stores') /\ Begins(b, stores')
  BY <1>7, <1>8, <1>11, LinkLevelsKeeps
<1> QED
  BY <1>5, <1>7, <1>12, BeginsChain DEF StoresOK

\* Readers.

Searching == [op : {"idle", "Seek", "Prev", "SeekToLast"}, target : Keys \cup {head_},
              x : Keys \cup {head_}, level : Levels, known : SUBSET Keys]

Landing == [op : {"none"}]
  \cup [op : {"Seek", "Next", "Prev", "SeekToLast"}, from : Keys \cup {head_},
        known : SUBSET Keys, result : Keys \cup {Null}]

\* What a reader with floor f has synchronised with: where its iterator stands, where
\* its search is, and what it knew when the search began.
ReaderOK(mem, f, n, s) ==
  /\ f \in MaxHeight + 1 .. Len(mem)
  /\ n # Null => Stored(mem, KeyField(n), f) /\ Stored(mem, Link(n, 0), f)
  /\ s.op # "idle" =>
       /\ s.x # head_ => Stored(mem, KeyField(s.x), f)
       /\ Stored(mem, Link(s.x, s.level), f)
       /\ s.op # "SeekToLast" => s.x < s.target
       /\ \A k \in s.known : Points(mem, 0, k, f)

\* NothingSkipped, of one operation.
Passes(f) ==
  /\ f.op = "Seek" =>
       /\ f.result # Null => f.result >= f.from
       /\ \A k \in f.known : k >= f.from => f.result # Null /\ f.result <= k
  /\ f.op = "Next" =>
       /\ f.result # Null => f.result > f.from
       /\ \A k \in f.known : k > f.from => f.result # Null /\ f.result <= k
  /\ f.op = "Prev" =>
       /\ f.result # Null => f.result < f.from
       /\ \A k \in f.known : k < f.from => f.result # Null /\ f.result >= k
  /\ f.op = "SeekToLast" => \A k \in f.known : f.result # Null /\ f.result >= k

SkipListInv ==
  /\ StoresOK(stores)
  /\ seen \in [Readers -> Nat] /\ search \in [Readers -> Searching]
  /\ node \in [Readers -> Keys \cup {Null}] /\ found \in [Readers -> Landing]
  /\ \A r \in Readers : ReaderOK(stores, seen[r], node[r], search[r])
  /\ \A r \in Readers : Passes(found[r])

\* What a reader may load.  Its floor then stands at or behind the store, what the
\* link leads to is initialized, and no key known to it lies between.
LEMMA Loaded ==
  ASSUME Parameters, StoresOK(stores), NEW f \in MaxHeight + 1 .. Len(stores),
         NEW x \in Keys \cup {head_}, NEW level \in Levels,
         Stored(stores, Link(x, level), f),
         NEW i \in Loadable(Link(x, level), f)
  PROVE  LET next == stores[i].val
             g    == Acquired(f, i)
         IN  /\ g \in f .. Len(stores)
             /\ next \in Keys \cup {Null}
             /\ next # Null => /\ next > x
                               /\ Stored(stores, KeyField(next), g)
                               /\ Stored(stores, Link(next, level), g)
             /\ \A k \in Keys : k > x /\ Points(stores, level, k, f) => next # Null /\ next <= k
<1> DEFINE next == stores[i].val
           g    == Acquired(f, i)
<1>0. /\ MaxHeight \in Nat \ {0} /\ stores \in Seq(Store) /\ Len(stores) \in Nat
      /\ DOMAIN stores = 1 .. Len(stores) /\ f \in Nat /\ f <= Len(stores)
  BY DEF Parameters, StoresOK
<1>1. /\ i \in 1 .. Len(stores) /\ stores[i].loc = Link(x, level)
      /\ stores[i].loc[1] = x /\ stores[i].loc[2] = level
      /\ \A j \in i + 1 .. f : stores[j].loc # Link(x, level)
  BY <1>0 DEF Loadable, Link
<1>2. i <= g /\ g \in f .. Len(stores)
  <2>1. CASE stores[i].release
    BY <2>1, <1>0, <1>1 DEF Acquired
  <2>2. CASE ~ stores[i].release
    <3>1. g = f
      BY <2>2 DEF Acquired
    <3>2. PICK j \in 1 .. f : stores[j].loc = Link(x, level)
      BY DEF Stored
    <3>3. j \in DOMAIN stores /\ i \in DOMAIN stores
      BY <1>0, <1>1, <3>2
    <3>4. ~ (j < i)
      BY <3>2, <3>3, <2>2, <1>1 DEF StoresOK, FirstPlain
    <3> QED BY <3>1, <3>2, <3>4, <1>0, <1>1
  <2> QED BY <2>1, <2>2
<1>3. g = f \/ g = i
  BY DEF Acquired
<1> HIDE DEF g
<1>4. g \in DOMAIN stores /\ i \in 1 .. g
  BY <1>0, <1>1, <1>2
<1>5. \A j \in i + 1 .. g : stores[j].loc # stores[i].loc
  BY <1>0, <1>1, <1>3
<1>6. /\ next # Null => next > x
      /\ \A k \in Keys : k > x /\ Points(stores, level, k, g) => next # Null /\ next <= k
  BY <1>1, <1>4, <1>5 DEF StoresOK, Ordered
<1>7. next # Null => /\ next \in Keys /\ Stored(stores, KeyField(next), i)
                     /\ Stored(stores, Link(next, level), i)
  BY <1>0, <1>1 DEF StoresOK, Initialized
<1>8. \A k : Points(stores, level, k, f) => Points(stores, level, k, g)
  BY <1>0, <1>2 DEF Points
<1>9. \A loc : Stored(stores, loc, i) => Stored(stores, loc, g)
  BY <1>0, <1>1, <1>2 DEF Stored
<1> QED
  BY <1>2, <1>6, <1>7, <1>8, <1>9 DEF g

\* A higher floor and more stores take nothing from a reader.
LEMMA ReaderKept ==
  ASSUME Parameters, NEW mem \in Seq(Store), NEW mm \in Seq(Store), Begins(mem, mm),
         NEW f \in Nat, NEW g \in f .. Len(mm), NEW n, NEW s, ReaderOK(mem, f, n, s)
  PROVE  ReaderOK(mm, g, n, s)
<1>1. /\ f \in MaxHeight + 1 .. Len(mem) /\ Len(mem) <= Len(mm)
      /\ Len(mem) \in Nat /\ Len(mm) \in Nat /\ \A i \in 1 .. Len(mem) : mm[i] = mem[i]
  BY DEF ReaderOK, Begins
<1>2. \A i \in 1 .. f : i \in 1 .. g /\ mm[i] = mem[i]
  BY <1>1
<1>3. \A loc : Stored(mem, loc, f) => Stored(mm, loc, g)
  BY <1>2 DEF Stored
<1>4. \A v, k : Points(mem, v, k, f) => Points(mm, v, k, g)
  BY <1>2 DEF Points
<1>5. g \in MaxHeight + 1 .. Len(mm)
  BY <1>1 DEF Parameters
<1> QED
  BY <1>3, <1>4, <1>5 DEF ReaderOK

\* What every reader finds at head_.
LEMMA HeadStored ==
  ASSUME Parameters, NEW mem, StoresOK(mem), NEW f \in MaxHeight + 1 .. Len(mem),
         NEW level \in Levels
  PROVE  Stored(mem, Link(head_, level), f)
<1>1. level + 1 \in 1 .. f
  BY DEF Parameters, Levels
<1> QED
  BY <1>1 DEF StoresOK, Begun, Stored

\* The level below is written too.
LEMMA BelowStored ==
  ASSUME Parameters, NEW mem, StoresOK(mem), NEW f \in 0 .. Len(mem),
         NEW x, NEW level \in Levels \ {0}, Stored(mem, Link(x, level), f)
  PROVE  Stored(mem, Link(x, level - 1), f)
<1>1. PICK i \in 1 .. f : mem[i].loc = Link(x, level)
  BY DEF Stored
<1>2. i \in DOMAIN mem /\ mem[i].loc[1] = x /\ mem[i].loc[2] = level
  BY <1>1 DEF StoresOK, Link
<1>3. Stored(mem, Link(x, level - 1), i)
  BY <1>2 DEF StoresOK, Downwards
<1> QED
  BY <1>1, <1>3 DEF Stored

LEMMA InitSkipList ==
  ASSUME Parameters, Init
  PROVE  SkipListInv
<1>1. MaxHeight \in Nat \ {0} /\ 0 \in Levels
  BY DEF Parameters, Levels
<1>2. PICK c : c = Constructed
  OBVIOUS
<1>3. StoresOK(c) /\ Len(c) = MaxHeight + 1
  BY <1>2, ConstructedOK
<1>4. stores = c /\ seen = [r \in Readers |-> MaxHeight + 1]
  BY <1>2, <1>3 DEF Init
<1>5. Idle \in Searching /\ Idle.op = "idle"
  BY <1>1 DEF Idle, Searching
<1>6. [op |-> "none"] \in Landing /\ Passes([op |-> "none"])
  BY DEF Landing, Passes
<1>7. seen \in [Readers -> Nat]
  BY <1>1, <1>4
<1>8. /\ search \in [Readers -> Searching]
      /\ node \in [Readers -> Keys \cup {Null}] /\ found \in [Readers -> Landing]
      /\ \A r \in Readers : Passes(found[r])
  BY <1>5, <1>6 DEF Init
<1>9. ASSUME NEW r \in Readers
      PROVE  ReaderOK(stores, seen[r], node[r], search[r])
  <2>1. seen[r] \in MaxHeight + 1 .. Len(stores) /\ node[r] = Null /\ search[r].op = "idle"
    BY <1>1, <1>3, <1>4, <1>5 DEF Init
  <2> QED BY <2>1 DEF ReaderOK
<1> QED
  BY <1>3, <1>4, <1>7, <1>8, <1>9 DEF SkipListInv

LEMMA StepInsert ==
  ASSUME Parameters, SkipListInv, NEW key \in Keys, NEW height \in 1 .. MaxHeight,
         Insert(key, height)
  PROVE  SkipListInv'
<1>1. StoresOK(stores') /\ Begins(stores, stores')
  BY InsertKeeps DEF SkipListInv
<1>2. UNCHANGED <<seen, search, node, found>>
  BY DEF Insert
<1>3. ASSUME NEW r \in Readers
      PROVE  ReaderOK(stores', seen[r], node[r], search[r])
  <2>1. stores \in Seq(Store) /\ stores' \in Seq(Store)
    BY <1>1 DEF SkipListInv, StoresOK
  <2>2. ReaderOK(stores, seen[r], node[r], search[r]) /\ seen[r] \in Nat
    BY DEF SkipListInv
  <2>3. seen[r] \in seen[r] .. Len(stores')
    BY <1>1, <2>1, <2>2 DEF Begins, ReaderOK, Parameters
  <2> QED BY <1>1, <2>1, <2>2, <2>3, ReaderKept
<1> QED
  BY <1>1, <1>2, <1>3 DEF SkipListInv

\* One reader moves: it is enough that its own part holds.
LEMMA OneReader ==
  ASSUME SkipListInv, NEW r \in Readers, UNCHANGED stores,
         NEW f \in Nat, seen' = [seen EXCEPT ![r] = f],
         NEW n \in Keys \cup {Null}, node' = [node EXCEPT ![r] = n],
         NEW s \in Searching, search' = [search EXCEPT ![r] = s],
         NEW l \in Landing, found' = [found EXCEPT ![r] = l],
         ReaderOK(stores, f, n, s), Passes(l)
  PROVE  SkipListInv'
<1>1. /\ seen' \in [Readers -> Nat] /\ search' \in [Readers -> Searching]
      /\ node' \in [Readers -> Keys \cup {Null}] /\ found' \in [Readers -> Landing]
  BY DEF SkipListInv
<1>2. ASSUME NEW q \in Readers
      PROVE  ReaderOK(stores, seen'[q], node'[q], search'[q]) /\ Passes(found'[q])
  <2>1. CASE q = r
    <3>1. seen'[q] = f /\ node'[q] = n /\ search'[q] = s /\ found'[q] = l
      BY <2>1 DEF SkipListInv
    <3> QED BY <3>1
  <2>2. CASE q # r
    <3>1. /\ seen'[q] = seen[q] /\ node'[q] = node[q] /\ search'[q] = search[q]
          /\ found'[q] = found[q]
      BY <2>2 DEF SkipListInv
    <3> QED BY <3>1 DEF SkipListInv
  <2> QED BY <2>1, <2>2
<1> QED
  BY <1>1, <1>2 DEF SkipListInv

\* A variable that stays is one of which a component gets its own value.
LEMMA Stays ==
  ASSUME NEW S, NEW f \in [Readers -> S], NEW r \in Readers
  PROVE  f = [f EXCEPT ![r] = f[r]]
  OBVIOUS

LEMMA StepSync ==
  ASSUME Parameters, SkipListInv, NEW r \in Readers, Sync(r)
  PROVE  SkipListInv'
<1>1. /\ stores \in Seq(Store) /\ Len(stores) \in Nat
      /\ seen[r] \in Nat /\ node[r] \in Keys \cup {Null} /\ search[r] \in Searching
      /\ found[r] \in Landing /\ Passes(found[r])
      /\ ReaderOK(stores, seen[r], node[r], search[r])
  BY DEF SkipListInv, StoresOK
<1>2. /\ seen' = [seen EXCEPT ![r] = Len(stores)] /\ UNCHANGED stores
      /\ node' = [node EXCEPT ![r] = node[r]]
      /\ search' = [search EXCEPT ![r] = search[r]]
      /\ found' = [found EXCEPT ![r] = found[r]]
  BY Stays DEF Sync, SkipListInv
<1>3. ReaderOK(stores, Len(stores), node[r], search[r])
  <2>1. Len(stores) \in seen[r] .. Len(stores) /\ Begins(stores, stores)
    BY <1>1 DEF ReaderOK, Begins, Parameters
  <2> QED BY <1>1, <2>1, ReaderKept
<1> QED
  BY <1>1, <1>2, <1>3, OneReader

\* What a reader knows at the beginning of an operation it knows.
LEMMA KnownPoints ==
  ASSUME NEW r
  PROVE  Known(r) \subseteq Keys /\ \A k \in Known(r) : Points(stores, 0, k, seen[r])
  BY DEF Known, Points

LEMMA StepStart ==
  ASSUME Parameters, SkipListInv, NEW r \in Readers, NEW op \in {"Seek", "Prev", "SeekToLast"},
         NEW target \in Keys \cup {head_}, op # "SeekToLast" => target \in Keys,
         Start(r, op, target)
  PROVE  SkipListInv'
<1>0. /\ MaxHeight \in Nat \ {0} /\ head_ = 0 /\ Keys \subseteq Nat \ {0}
  BY DEF Parameters, head_
<1>1. /\ StoresOK(stores) /\ stores \in Seq(Store) /\ Len(stores) \in Nat
      /\ seen[r] \in Nat /\ node[r] \in Keys \cup {Null} /\ search[r] \in Searching
      /\ found[r] \in Landing /\ Passes(found[r])
      /\ ReaderOK(stores, seen[r], node[r], search[r])
  BY DEF SkipListInv, StoresOK
<1>2. PICK i \in Loadable(HeightField, seen[r]) :
        search' = [search EXCEPT ![r] = [op |-> op, target |-> target, x |-> head_,
                                         level |-> stores[i].val - 1, known |-> Known(r)]]
  BY DEF Start
<1>3. PICK level : level = stores[i].val - 1
  OBVIOUS
<1>4. level \in Levels
  <2>1. i \in DOMAIN stores /\ stores[i].loc = HeightField
    BY DEF Loadable
  <2>2. stores[i].val \in 1 .. MaxHeight
    BY <1>1, <2>1 DEF StoresOK, Begun
  <2> QED BY <1>0, <1>3, <2>2 DEF Levels
<1>5. PICK s : s = [op |-> op, target |-> target, x |-> head_, level |-> level,
                    known |-> Known(r)]
  OBVIOUS
<1>6. s \in Searching
  BY <1>4, <1>5, KnownPoints DEF Searching
<1>7. ReaderOK(stores, seen[r], node[r], s)
  <2>1. seen[r] \in MaxHeight + 1 .. Len(stores)
    BY <1>1 DEF ReaderOK
  <2>2. Stored(stores, Link(head_, level), seen[r])
    BY <1>1, <1>4, <2>1, HeadStored
  <2>3. \A k \in Known(r) : Points(stores, 0, k, seen[r])
    BY KnownPoints
  <2>4. op # "SeekToLast" => head_ < target
    BY <1>0
  <2>5. s.op = op /\ s.x = head_ /\ s.level = level /\ s.target = target /\ s.known = Known(r)
    BY <1>5
  <2> QED BY <1>1, <2>1, <2>2, <2>3, <2>4, <2>5 DEF ReaderOK
<1>8. /\ seen' = [seen EXCEPT ![r] = seen[r]] /\ UNCHANGED stores
      /\ node' = [node EXCEPT ![r] = node[r]]
      /\ search' = [search EXCEPT ![r] = s]
      /\ found' = [found EXCEPT ![r] = found[r]]
  BY <1>2, <1>3, <1>5, Stays DEF Start, SkipListInv
<1> QED
  BY <1>1, <1>6, <1>7, <1>8, OneReader

LEMMA StepStepFrom ==
  ASSUME Parameters, SkipListInv, NEW r \in Readers, NEW n \in Keys \cup {head_},
         n # head_ => n = node[r], StepFrom(r, "Next", n)
  PROVE  SkipListInv'
<1>0. MaxHeight \in Nat \ {0} /\ 0 \in Levels
  BY DEF Parameters, Levels
<1>1. /\ StoresOK(stores) /\ stores \in Seq(Store) /\ Len(stores) \in Nat
      /\ seen[r] \in Nat /\ node[r] \in Keys \cup {Null} /\ search[r] \in Searching
      /\ search[r].op = "idle"
      /\ found[r] \in Landing /\ Passes(found[r])
      /\ ReaderOK(stores, seen[r], node[r], search[r])
      /\ seen[r] \in MaxHeight + 1 .. Len(stores)
  BY DEF SkipListInv, StoresOK, ReaderOK, StepFrom
<1>2. PICK i \in Loadable(Link(n, 0), seen[r]) :
        /\ seen' = [seen EXCEPT ![r] = Acquired(@, i)]
        /\ Land(r, "Next", n, Known(r), stores[i].val)
  BY DEF StepFrom
<1>3. PICK next, g : next = stores[i].val /\ g = Acquired(seen[r], i)
  OBVIOUS
<1>4. Stored(stores, Link(n, 0), seen[r])
  <2>1. CASE n = head_
    BY <2>1, <1>0, <1>1, HeadStored
  <2>2. CASE n # head_
    <3>1. Null \notin Keys
      <4>1. \A k \in Keys : k \in Int
        BY DEF Parameters
      <4> QED BY <4>1 DEF Parameters
    <3> QED BY <2>2, <3>1, <1>1 DEF ReaderOK
  <2> QED BY <2>1, <2>2
<1>5. /\ g \in seen[r] .. Len(stores)
      /\ next \in Keys \cup {Null}
      /\ next # Null => /\ next > n
                        /\ Stored(stores, KeyField(next), g)
                        /\ Stored(stores, Link(next, 0), g)
      /\ \A k \in Keys : k > n /\ Points(stores, 0, k, seen[r]) => next # Null /\ next <= k
  BY <1>0, <1>1, <1>3, <1>4, Loaded
<1>6. PICK l : l = [op |-> "Next", from |-> n, known |-> Known(r), result |-> next]
  OBVIOUS
<1>7. l \in Landing /\ Passes(l)
  <2>1. l.op = "Next" /\ l.from = n /\ l.known = Known(r) /\ l.result = next
    BY <1>6
  <2>2. l \in Landing
    BY <1>5, <1>6, KnownPoints DEF Landing
  <2>3. \A k \in Known(r) : k > n => next # Null /\ next <= k
    BY <1>5, KnownPoints
  <2> QED BY <1>5, <2>1, <2>2, <2>3 DEF Passes
<1>8. ReaderOK(stores, g, next, search[r])
  BY <1>0, <1>1, <1>5 DEF ReaderOK
<1>9. /\ seen' = [seen EXCEPT ![r] = g] /\ UNCHANGED stores
      /\ node' = [node EXCEPT ![r] = next]
      /\ search' = [search EXCEPT ![r] = search[r]]
      /\ found' = [found EXCEPT ![r] = l]
  BY <1>2, <1>3, <1>6, Stays DEF StepFrom, Land, SkipListInv
<1> QED
  <2>1. g \in Nat
    BY <1>1, <1>5
  <2> QED BY <2>1, <1>1, <1>5, <1>7, <1>8, <1>9, OneReader

\* A turn of a search.  What it may go along are keys; where it lands on the lowest
\* level depends on the kind of search.
LEMMA StepTurn ==
  ASSUME Parameters, SkipListInv, NEW r \in Readers, NEW along \in SUBSET Keys,
         NEW land \in [Keys \cup {Null} -> Keys \cup {Null}], Turn(r, along, land),
         search[r].op # "idle",
         search[r].op # "SeekToLast" => \A k \in along : k < search[r].target,
         \A next \in (Keys \cup {Null}) \ along :
           \A g \in seen[r] .. Len(stores) :
             /\ Stored(stores, Link(search[r].x, 0), seen[r])
             /\ next # Null => /\ next > search[r].x
                               /\ Stored(stores, KeyField(next), g)
                               /\ Stored(stores, Link(next, 0), g)
             /\ \A k \in search[r].known : k > search[r].x => next # Null /\ next <= k
             => /\ land[next] # Null => /\ Stored(stores, KeyField(land[next]), g)
                                        /\ Stored(stores, Link(land[next], 0), g)
                /\ Passes([op |-> search[r].op, from |-> search[r].target,
                           known |-> search[r].known, result |-> land[next]])
  PROVE  SkipListInv'
<1>0. MaxHeight \in Nat \ {0} /\ 0 \in Levels /\ head_ = 0 /\ head_ \notin Keys
  BY DEF Parameters, Levels, head_
<1>1. PICK s : s = search[r]
  OBVIOUS
<1>2. /\ StoresOK(stores) /\ stores \in Seq(Store) /\ Len(stores) \in Nat
      /\ seen[r] \in Nat /\ node[r] \in Keys \cup {Null} /\ s \in Searching
      /\ s.op \in {"Seek", "Prev", "SeekToLast"} /\ s.target \in Keys \cup {head_}
      /\ s.x \in Keys \cup {head_} /\ s.level \in Levels /\ s.known \in SUBSET Keys
      /\ found[r] \in Landing /\ Passes(found[r])
      /\ ReaderOK(stores, seen[r], node[r], s)
      /\ seen[r] \in MaxHeight + 1 .. Len(stores)
      /\ Stored(stores, Link(s.x, s.level), seen[r])
  BY <1>1 DEF SkipListInv, StoresOK, ReaderOK, Searching
<1>3. PICK i \in Loadable(Link(s.x, s.level), seen[r]) :
        /\ seen' = [seen EXCEPT ![r] = Acquired(@, i)]
        /\ \/ /\ stores[i].val \in along
              /\ search' = [search EXCEPT ![r].x = stores[i].val]
              /\ UNCHANGED <<node, found>>
           \/ /\ stores[i].val \notin along /\ s.level > 0
              /\ search' = [search EXCEPT ![r].level = @ - 1]
              /\ UNCHANGED <<node, found>>
           \/ /\ stores[i].val \notin along /\ s.level = 0
              /\ search' = [search EXCEPT ![r] = Idle]
              /\ Land(r, s.op, s.target, s.known, land[stores[i].val])
        /\ UNCHANGED stores
  BY <1>1 DEF Turn
<1>4. PICK next, g : next = stores[i].val /\ g = Acquired(seen[r], i)
  OBVIOUS
<1>5. /\ g \in seen[r] .. Len(stores)
      /\ next \in Keys \cup {Null}
      /\ next # Null => /\ next > s.x
                        /\ Stored(stores, KeyField(next), g)
                        /\ Stored(stores, Link(next, s.level), g)
      /\ \A k \in Keys : k > s.x /\ Points(stores, s.level, k, seen[r]) => next # Null /\ next <= k
  BY <1>0, <1>2, <1>4, Loaded
<1>6. ReaderOK(stores, g, node[r], s) /\ g \in Nat
  <2>1. Begins(stores, stores)
    BY <1>2 DEF Begins
  <2> QED BY <1>2, <1>5, <2>1, ReaderKept
<1>7. seen' = [seen EXCEPT ![r] = g] /\ UNCHANGED stores
  BY <1>3, <1>4 DEF SkipListInv
<1>7a. Null \notin Keys
  <2>1. \A k \in Keys : k \in Int
    BY DEF Parameters
  <2> QED BY <2>1 DEF Parameters
<1>8. CASE /\ next \in along
           /\ search' = [search EXCEPT ![r].x = next]
           /\ UNCHANGED <<node, found>>
  <2>1. PICK t : t = [s EXCEPT !.x = next]
    OBVIOUS
  <2>2. /\ t.op = s.op /\ t.target = s.target /\ t.x = next /\ t.level = s.level
        /\ t.known = s.known /\ t \in Searching
    BY <1>2, <1>8, <2>1 DEF Searching
  <2>3. ReaderOK(stores, g, node[r], t)
    BY <1>1, <1>5, <1>6, <1>7a, <1>8, <2>2 DEF ReaderOK
  <2>4. /\ node' = [node EXCEPT ![r] = node[r]]
        /\ search' = [search EXCEPT ![r] = t]
        /\ found' = [found EXCEPT ![r] = found[r]]
    BY <1>1, <1>8, <2>1, Stays DEF SkipListInv
  <2> QED BY <1>2, <1>6, <1>7, <2>2, <2>3, <2>4, OneReader
<1>9. CASE /\ next \notin along /\ s.level > 0
           /\ search' = [search EXCEPT ![r].level = @ - 1]
           /\ UNCHANGED <<node, found>>
  <2>1. PICK t : t = [s EXCEPT !.level = s.level - 1]
    OBVIOUS
  <2>2. s.level \in Levels \ {0} /\ s.level - 1 \in Levels
    BY <1>0, <1>2, <1>9 DEF Levels
  <2>3. /\ t.op = s.op /\ t.target = s.target /\ t.x = s.x /\ t.level = s.level - 1
        /\ t.known = s.known /\ t \in Searching
    BY <1>2, <2>1, <2>2 DEF Searching
  <2>4. ReaderOK(stores, g, node[r], t)
    <3>1. Stored(stores, Link(s.x, s.level), g) /\ g \in 0 .. Len(stores)
      BY <1>1, <1>2, <1>5, <1>6 DEF ReaderOK
    <3>2. Stored(stores, Link(s.x, s.level - 1), g)
      BY <3>1, <2>2, <1>2, BelowStored
    <3> QED BY <3>2, <1>6, <2>3 DEF ReaderOK
  <2>5. /\ node' = [node EXCEPT ![r] = node[r]]
        /\ search' = [search EXCEPT ![r] = t]
        /\ found' = [found EXCEPT ![r] = found[r]]
    BY <1>1, <1>9, <2>1, Stays DEF SkipListInv
  <2> QED BY <1>2, <1>6, <1>7, <2>3, <2>4, <2>5, OneReader
<1>10. CASE /\ next \notin along /\ s.level = 0
            /\ search' = [search EXCEPT ![r] = Idle]
            /\ Land(r, s.op, s.target, s.known, land[next])
  <2>1. PICK l : l = [op |-> s.op, from |-> s.target, known |-> s.known, result |-> land[next]]
    OBVIOUS
  <2>2. land[next] \in Keys \cup {Null}
    BY <1>5
  <2>3. \A k \in s.known : k > s.x => next # Null /\ next <= k
    BY <1>1, <1>2, <1>5, <1>10 DEF ReaderOK
  <2>4. /\ land[next] # Null => /\ Stored(stores, KeyField(land[next]), g)
                                /\ Stored(stores, Link(land[next], 0), g)
        /\ Passes(l)
    BY <1>1, <1>2, <1>5, <1>10, <2>1, <2>3
  <2>5. l \in Landing
    BY <1>2, <2>1, <2>2 DEF Landing
  <2>6. Idle \in Searching /\ Idle.op = "idle"
    BY <1>0 DEF Idle, Searching
  <2>7. ReaderOK(stores, g, land[next], Idle)
    BY <1>6, <2>4, <2>6 DEF ReaderOK
  <2>8. /\ node' = [node EXCEPT ![r] = land[next]] /\ found' = [found EXCEPT ![r] = l]
    BY <1>10, <2>1 DEF Land
  <2> QED BY <1>2, <1>6, <1>7, <1>10, <2>2, <2>4, <2>5, <2>6, <2>7, <2>8, OneReader
<1> QED
  BY <1>3, <1>4, <1>8, <1>9, <1>10

\* What is so of a reader in a search.
LEMMA InSearch ==
  ASSUME Parameters, SkipListInv, NEW r \in Readers, search[r].op # "idle"
  PROVE  LET s == search[r]
         IN  /\ s.x \in Keys \cup {head_} /\ s.target \in Keys \cup {head_}
             /\ s.known \in SUBSET Keys
             /\ s.op # "SeekToLast" => s.x < s.target
             /\ \A g \in seen[r] .. Len(stores) :
                  /\ s.x # head_ => Stored(stores, KeyField(s.x), g)
                  /\ Stored(stores, Link(s.x, 0), seen[r]) => Stored(stores, Link(s.x, 0), g)
             /\ Keys \subseteq Nat \ {0} /\ head_ = 0 /\ Null \notin Int /\ Null \notin Keys
<1>1. search[r] \in Searching /\ ReaderOK(stores, seen[r], node[r], search[r])
      /\ seen[r] \in Nat /\ Len(stores) \in Nat
  BY DEF SkipListInv, StoresOK
<1>2. Keys \subseteq Nat \ {0} /\ head_ = 0 /\ Null \notin Int
  BY DEF Parameters, head_
<1>3. Null \notin Keys
  <2>1. \A k \in Keys : k \in Int
    BY <1>2
  <2> QED BY <2>1, <1>2
<1>4. \A g \in seen[r] .. Len(stores) : \A loc : Stored(stores, loc, seen[r]) => Stored(stores, loc, g)
  BY <1>1 DEF Stored
<1> QED
  BY <1>1, <1>2, <1>3, <1>4 DEF Searching, ReaderOK

LEMMA StepFindGreaterOrEqual ==
  ASSUME Parameters, SkipListInv, NEW r \in Readers, FindGreaterOrEqual(r)
  PROVE  SkipListInv'
<1> DEFINE s == search[r]
           along == Passed(s.target)
<1>1. s.op = "Seek" /\ Turn(r, along, OnNext)
  BY DEF FindGreaterOrEqual
<1>2. along \in SUBSET Keys /\ OnNext \in [Keys \cup {Null} -> Keys \cup {Null}]
      /\ \A n \in Keys : n \in along <=> n < s.target
  BY <1>1, InSearch DEF Passed, KeyIsAfterNode, OnNext
<1>3. ASSUME NEW next \in (Keys \cup {Null}) \ along, NEW g \in seen[r] .. Len(stores),
             next # Null => /\ next > s.x
                            /\ Stored(stores, KeyField(next), g)
                            /\ Stored(stores, Link(next, 0), g),
             \A k \in s.known : k > s.x => next # Null /\ next <= k
      PROVE  /\ OnNext[next] # Null => /\ Stored(stores, KeyField(OnNext[next]), g)
                                       /\ Stored(stores, Link(OnNext[next], 0), g)
             /\ Passes([op |-> s.op, from |-> s.target, known |-> s.known,
                        result |-> OnNext[next]])
  <2>1. OnNext[next] = next
    BY <1>3 DEF OnNext
  <2>2. next # Null => next >= s.target
    BY <1>1, <1>2, <1>3, InSearch
  <2>3. ASSUME NEW k \in s.known, k >= s.target
        PROVE  next # Null /\ next <= k
    <3>1. k > s.x
      BY <1>1, <2>3, InSearch
    <3> QED BY <3>1, <1>3
  <2> QED BY <1>1, <1>3, <2>1, <2>2, <2>3 DEF Passes
<1> QED
  BY <1>1, <1>2, <1>3, StepTurn

LEMMA StepFindLessThan ==
  ASSUME Parameters, SkipListInv, NEW r \in Readers, FindLessThan(r)
  PROVE  SkipListInv'
<1> DEFINE s == search[r]
           along == Passed(s.target)
           end == OrNull(s.x)
<1>1. s.op = "Prev" /\ Turn(r, along, OnLast(end))
  BY DEF FindLessThan
<1>2. along \in SUBSET Keys /\ OnLast(end) \in [Keys \cup {Null} -> Keys \cup {Null}]
      /\ \A n \in Keys : n \in along <=> n < s.target
  BY <1>1, InSearch DEF Passed, KeyIsAfterNode, OnLast, OrNull
<1>3. ASSUME NEW next \in (Keys \cup {Null}) \ along, NEW g \in seen[r] .. Len(stores),
             Stored(stores, Link(s.x, 0), seen[r]),
             \A k \in s.known : k > s.x => next # Null /\ next <= k
      PROVE  /\ OnLast(end)[next] # Null => /\ Stored(stores, KeyField(OnLast(end)[next]), g)
                                            /\ Stored(stores, Link(OnLast(end)[next], 0), g)
             /\ Passes([op |-> s.op, from |-> s.target, known |-> s.known,
                        result |-> OnLast(end)[next]])
  <2>1. OnLast(end)[next] = end
    BY <1>3 DEF OnLast
  <2>2. end # Null => /\ end = s.x /\ s.x # head_ /\ s.x < s.target
                      /\ Stored(stores, KeyField(end), g) /\ Stored(stores, Link(end, 0), g)
    BY <1>1, <1>3, InSearch DEF OrNull
  <2>3. ASSUME NEW k \in s.known, k < s.target
        PROVE  end # Null /\ end >= k
    <3>1. ~ (k > s.x)
      <4> SUFFICES ASSUME k > s.x PROVE FALSE
        OBVIOUS
      <4>1. next # Null /\ next <= k /\ next \in Keys
        BY <1>3
      <4>2. next < s.target
        BY <4>1, <1>1, <2>3, InSearch
      <4> QED BY <4>1, <4>2, <1>2, <1>3
    <3>2. s.x >= k /\ s.x # head_
      BY <3>1, <1>1, <2>3, InSearch
    <3>3. end = s.x /\ s.x \in Keys
      BY <3>2, <1>1, InSearch DEF OrNull
    <3> QED BY <3>2, <3>3, <1>1, InSearch
  <2> HIDE DEF end
  <2> QED BY <1>1, <2>1, <2>2, <2>3 DEF Passes
<1> QED
  BY <1>1, <1>2, <1>3, StepTurn

LEMMA StepFindLast ==
  ASSUME Parameters, SkipListInv, NEW r \in Readers, FindLast(r)
  PROVE  SkipListInv'
<1> DEFINE s == search[r]
           end == OrNull(s.x)
<1>1. s.op = "SeekToLast" /\ Turn(r, Keys, OnLast(end))
  BY DEF FindLast
<1>2. OnLast(end) \in [Keys \cup {Null} -> Keys \cup {Null}]
  BY <1>1, InSearch DEF OnLast, OrNull
<1>3. ASSUME NEW next \in (Keys \cup {Null}) \ Keys, NEW g \in seen[r] .. Len(stores),
             Stored(stores, Link(s.x, 0), seen[r]),
             \A k \in s.known : k > s.x => next # Null /\ next <= k
      PROVE  /\ OnLast(end)[next] # Null => /\ Stored(stores, KeyField(OnLast(end)[next]), g)
                                            /\ Stored(stores, Link(OnLast(end)[next], 0), g)
             /\ Passes([op |-> s.op, from |-> s.target, known |-> s.known,
                        result |-> OnLast(end)[next]])
  <2>1. OnLast(end)[next] = end
    BY <1>3 DEF OnLast
  <2>2. end # Null => /\ end = s.x /\ s.x # head_
                      /\ Stored(stores, KeyField(end), g) /\ Stored(stores, Link(end, 0), g)
    BY <1>1, <1>3, InSearch DEF OrNull
  <2>3. ASSUME NEW k \in s.known
        PROVE  end # Null /\ end >= k
    <3>1. ~ (k > s.x)
      BY <1>3
    <3>2. s.x >= k /\ s.x # head_
      BY <3>1, <1>1, <2>3, InSearch
    <3>3. end = s.x /\ s.x \in Keys
      BY <3>2, <1>1, InSearch DEF OrNull
    <3> QED BY <3>2, <3>3, <1>1, InSearch
  <2> HIDE DEF end
  <2> QED BY <1>1, <2>1, <2>2, <2>3 DEF Passes
<1> QED
  BY <1>1, <1>2, <1>3, StepTurn

\* What holds of a state of the machine, and what every step keeps.
LEMMA NextSkipList ==
  ASSUME Parameters, SkipListInv, [Next]_vars
  PROVE  SkipListInv'
<1>0. Null \notin Keys /\ Keys \cap {head_} = {}
  <2>1. \A k \in Keys : k \in Int /\ k # head_
    BY DEF Parameters
  <2> QED BY <2>1 DEF Parameters
<1>1. CASE UNCHANGED vars
  BY <1>1 DEF vars, SkipListInv
<1>2. ASSUME NEW key \in Keys, NEW height \in 1 .. MaxHeight, Insert(key, height)
      PROVE  SkipListInv'
  BY <1>2, StepInsert
<1>3. ASSUME NEW r \in Readers, Sync(r) PROVE SkipListInv'
  BY <1>3, StepSync
<1>4. ASSUME NEW r \in Readers, SeekToFirst(r) PROVE SkipListInv'
  BY <1>4, StepStepFrom DEF SeekToFirst
<1>5. ASSUME NEW r \in Readers, NextEntry(r) PROVE SkipListInv'
  <2>1. node[r] \in Keys /\ StepFrom(r, "Next", node[r])
    BY <1>5 DEF NextEntry, SkipListInv
  <2> QED BY <2>1, StepStepFrom
<1>6. ASSUME NEW r \in Readers, Prev(r) PROVE SkipListInv'
  <2>1. node[r] \in Keys /\ Start(r, "Prev", node[r])
    BY <1>6 DEF Prev, SkipListInv
  <2> QED BY <2>1, StepStart
<1>7. ASSUME NEW r \in Readers, SeekToLast(r) PROVE SkipListInv'
  BY <1>7, StepStart DEF SeekToLast
<1>8. ASSUME NEW r \in Readers, NEW target \in Keys, Seek(r, target) PROVE SkipListInv'
  BY <1>8, StepStart DEF Seek
<1>9. ASSUME NEW r \in Readers, Search(r) PROVE SkipListInv'
  BY <1>9, StepFindGreaterOrEqual, StepFindLessThan, StepFindLast DEF Search
<1> QED
  BY <1>1, <1>2, <1>3, <1>4, <1>5, <1>6, <1>7, <1>8, <1>9 DEF Next

LEMMA SkipListInvImplies ==
  ASSUME SkipListInv
  PROVE  InitializedBeforeRead /\ NothingSkipped
<1>1. InitializedBeforeRead
  BY DEF SkipListInv, ReaderOK, InitializedBeforeRead, Written, Stored
<1>2. NothingSkipped
  BY DEF SkipListInv, Passes, NothingSkipped
<1> QED
  BY <1>1, <1>2

\* Whatever the keys, the heights drawn, the readers and the order in which stores
\* become visible to them: a reader of the list looks at nothing it has not seen
\* initialized (skiplist.h:151-164), and passes over no key it knew (19-28).
THEOREM ReadersSafe ==
  ASSUME Parameters
  PROVE  Spec => [](InitializedBeforeRead /\ NothingSkipped)
<1>1. Init => SkipListInv
  BY InitSkipList
<1>2. SkipListInv /\ [Next]_vars => SkipListInv'
  BY NextSkipList
<1>3. SkipListInv => InitializedBeforeRead /\ NothingSkipped
  BY SkipListInvImplies
<1> QED
  BY <1>1, <1>2, <1>3, PTL DEF Spec

=============================================================================
