-------------------------- MODULE PostVotes_proofs --------------------------
(***************************************************************************)
(* Proofs about the votes on posts: the screens of PostVotes over the      *)
(* shared records of RealtimeStore.                                        *)
(*                                                                         *)
(* VotesConsistent and NoForgedVote are not inductive: what is stored is   *)
(* what was shown, and what is shown is the database's view under the      *)
(* device's own writes. VotesGenuine says of every post, stored, shown,    *)
(* posted or on its way, that it is counted and that the votes of the      *)
(* others in it have been in the database before. With the store's         *)
(* invariants it is inductive, and it makes every write a value of the     *)
(* store: the screens implement Spec, and all that is proved of the store  *)
(* holds for them.                                                         *)
(*                                                                         *)
(* VotesSettle has two parts. For the lists, ListsShow: when no snapshot   *)
(* is posted, a list differs from the last one only in a record for which  *)
(* a call of setValue waits. When the call is taken the view changes, and  *)
(* is posted, unless it wrote what was shown already. For the taps,        *)
(* TapsArrive: as long as none raced and nothing was lost, only one device *)
(* has writes pending, each takes nobody else's vote back, and the newest  *)
(* on a post is what its user wants; and a wish is stored unless a write   *)
(* on its post is unserved. Resends (of RealtimeStore_proofs) is what      *)
(* makes a lost connection harmless there.                                 *)
(***************************************************************************)
EXTENDS PostVotes, RealtimeStore_proofs, FiniteSetTheorems

-----------------------------------------------------------------------------
(* Posts and taps *)

\* The lists hold posts for every key or nothing; the detail screen a post or nothing.
VotesTypeOK ==
  /\ lists \in [Device -> [Screen -> [Key -> Post] \cup {NotLoaded}]]
  /\ detail \in [Device -> {Closed} \cup Opened]

\* While the detail screen shares its post with the feed, both show the same.
SharedAt(d) ==
  detail[d].open /\ detail[d].shared =>
    lists[d]["feed"] # NotLoaded /\ lists[d]["feed"][detail[d].key] = detail[d].post

\* Version n of the post k in the history H.
StoredIn(H, k, n) == IF n = 0 THEN Seed[k] ELSE H[k][n].val

\* Some version of k up to n has u's vote v.
Known(H, k, n, u, v) == \E m \in 0..n : VoteOf(StoredIn(H, k, m), u) = v

\* A post that d may write: counted, and every other user's vote is one the database
\* has had for it.
Genuine(H, d, k, p) ==
  /\ p \in Post /\ Consistent(p)
  /\ \A u \in User \ {UserOf[d]} : Known(H, k, Len(H[k]), u, VoteOf(p, u))

\* Every version is counted, and takes the others' votes from an earlier one.
GenuineHistory(H) ==
  \A k \in Key : \A n \in DOMAIN H[k] :
    /\ H[k][n].val \in Post /\ Consistent(H[k][n].val)
    /\ \A u \in User \ {UserOf[H[k][n].by]} : Known(H, k, n - 1, u, VoteOf(H[k][n].val, u))

\* Every write of s is one that d may write.
GenuinePuts(H, d, s) == \A i \in DOMAIN s : s[i].op = "put" => Genuine(H, d, s[i].key, s[i].val)

\* ... every post of a collection,
GenuineAll(H, d, r) == \A k \in Key : Genuine(H, d, k, r[k])

\* ... every collection that is posted,
GenuineEvents(H, d, E) == \A i \in DOMAIN E : E[i].kind = "value" => GenuineAll(H, d, E[i].snap)

\* ... and every post on a screen.
GenuineScreens(H, d, L, D) ==
  /\ \A s \in Screen : L[s] # NotLoaded => GenuineAll(H, d, L[s])
  /\ D.open => Genuine(H, d, D.key, D.post)

\* What is between d's screens and the database.
QueuesGenuine(d) ==
  /\ GenuinePuts(hist, d, calls[d]) /\ GenuinePuts(hist, d, up[d])
  /\ GenuinePuts(hist, d, puts[d]) /\ GenuinePuts(hist, d, toAck[d])
  /\ GenuineEvents(hist, d, events[d])

\* What d's screens show.
ScreensGenuine(d) == GenuineScreens(hist, d, lists[d], detail[d])

\* Every post anywhere is counted, and has only votes that the database has had.
VotesGenuine ==
  /\ VotesTypeOK /\ GenuineHistory(hist)
  /\ \A d \in Device : SharedAt(d) /\ QueuesGenuine(d) /\ ScreensGenuine(d)

\* The sets of users are finite: a user more or less is one more or less.
LEMMA Finite ==
  ASSUME NEW V \in SUBSET User
  PROVE  /\ IsFiniteSet(V) /\ Cardinality(V) \in 0..Cardinality(User)
         /\ \A u \in V : Cardinality(V \ {u}) = Cardinality(V) - 1
         /\ \A u \in User \ V : Cardinality(V \cup {u}) = Cardinality(V) + 1
<1>1. IsFiniteSet(V) /\ Cardinality(V) <= Cardinality(User)
  BY VotesAssumption, FS_Subset
<1>2. Cardinality(V) \in Nat /\ Cardinality(User) \in Nat
  BY <1>1, VotesAssumption, FS_CardinalityType
<1>3. \A u \in V : Cardinality(V \ {u}) = Cardinality(V) - 1
  BY <1>1, FS_RemoveElement
<1>4. \A u \in User \ V : Cardinality(V \cup {u}) = Cardinality(V) + 1
  BY <1>1, FS_AddElement
<1> QED BY <1>1, <1>2, <1>3, <1>4

\* A tap keeps a post counted (upvoteTapped and downvoteTapped count what they move).
LEMMA TapTypes ==
  ASSUME NEW p \in Post, NEW u \in User, NEW q \in Tapped(p, u)
  PROVE  q \in Post /\ (Consistent(p) => Consistent(q))
<1>1. /\ p.up \in SUBSET User /\ p.down \in SUBSET User /\ p.upvotes \in Int /\ p.downvotes \in Int
      /\ p = [up |-> p.up, down |-> p.down, upvotes |-> p.upvotes, downvotes |-> p.downvotes]
  BY DEF Post
<1>2. CASE q = Upvote(p, u)
  <2>1. CASE u \in p.up
    <3>1. q = [up |-> p.up \ {u}, down |-> p.down, upvotes |-> p.upvotes - 1,
            downvotes |-> p.downvotes]
      BY <1>1, <1>2, <2>1 DEF Upvote
    <3>2. Cardinality(p.up \ {u}) = Cardinality(p.up) - 1
      BY <1>1, <2>1, Finite
    <3> QED BY <1>1, <3>1, <3>2 DEF Post, Consistent
  <2>2. CASE u \notin p.up /\ u \in p.down
    <3>1. q = [up |-> p.up \cup {u}, down |-> p.down \ {u}, upvotes |-> p.upvotes + 1,
            downvotes |-> p.downvotes - 1]
      BY <1>1, <1>2, <2>2 DEF Upvote
    <3>2. Cardinality(p.up \cup {u}) = Cardinality(p.up) + 1
            /\ Cardinality(p.down \ {u}) = Cardinality(p.down) - 1
      BY <1>1, <2>2, Finite
    <3> QED BY <1>1, <3>1, <3>2 DEF Post, Consistent
  <2>3. CASE u \notin p.up /\ u \notin p.down
    <3>1. q = [up |-> p.up \cup {u}, down |-> p.down, upvotes |-> p.upvotes + 1,
            downvotes |-> p.downvotes]
      BY <1>1, <1>2, <2>3 DEF Upvote
    <3>2. Cardinality(p.up \cup {u}) = Cardinality(p.up) + 1
      BY <1>1, <2>3, Finite
    <3> QED BY <1>1, <2>3, <3>1, <3>2 DEF Post, Consistent
  <2> QED BY <2>1, <2>2, <2>3
<1>3. CASE q = Downvote(p, u)
  <2>1. CASE u \in p.down
    <3>1. q = [up |-> p.up, down |-> p.down \ {u}, upvotes |-> p.upvotes,
            downvotes |-> p.downvotes - 1]
      BY <1>1, <1>3, <2>1 DEF Downvote
    <3>2. Cardinality(p.down \ {u}) = Cardinality(p.down) - 1
      BY <1>1, <2>1, Finite
    <3> QED BY <1>1, <3>1, <3>2 DEF Post, Consistent
  <2>2. CASE u \notin p.down /\ u \in p.up
    <3>1. q = [up |-> p.up \ {u}, down |-> p.down \cup {u}, upvotes |-> p.upvotes - 1,
            downvotes |-> p.downvotes + 1]
      BY <1>1, <1>3, <2>2 DEF Downvote
    <3>2. Cardinality(p.down \cup {u}) = Cardinality(p.down) + 1
            /\ Cardinality(p.up \ {u}) = Cardinality(p.up) - 1
      BY <1>1, <2>2, Finite
    <3> QED BY <1>1, <3>1, <3>2 DEF Post, Consistent
  <2>3. CASE u \notin p.down /\ u \notin p.up
    <3>1. q = [up |-> p.up, down |-> p.down \cup {u}, upvotes |-> p.upvotes,
            downvotes |-> p.downvotes + 1]
      BY <1>1, <1>3, <2>3 DEF Downvote
    <3>2. Cardinality(p.down \cup {u}) = Cardinality(p.down) + 1
      BY <1>1, <2>3, Finite
    <3> QED BY <1>1, <2>3, <3>1, <3>2 DEF Post, Consistent
  <2> QED BY <2>1, <2>2, <2>3
<1> QED BY <1>2, <1>3 DEF Tapped

\* A tap moves the vote of its user, and nobody else's.
LEMMA TapOthers ==
  ASSUME NEW p \in Post, NEW u \in User, NEW q \in Tapped(p, u)
  PROVE  /\ \A x \in User \ {u} : VoteOf(q, x) = VoteOf(p, x)
         /\ OthersIn(q, u) = OthersIn(p, u)
         /\ Consistent(p) => VoteOf(q, u) # VoteOf(p, u)
<1>1. PICK a, b : a = q.up /\ b = q.down
  OBVIOUS
<1>2. /\ p.up \in SUBSET User /\ p.down \in SUBSET User
      /\ \/ a = p.up \ {u} /\ b = p.down /\ u \in p.up
         \/ a = p.up \cup {u} /\ b = p.down \ {u} /\ u \notin p.up
         \/ a = p.up /\ b = p.down \ {u} /\ u \in p.down
         \/ a = p.up \ {u} /\ b = p.down \cup {u} /\ u \notin p.down
  <2>1. p.up \in SUBSET User /\ p.down \in SUBSET User
    BY DEF Post
  <2>2. CASE q = Upvote(p, u)
    BY <1>1, <2>1, <2>2 DEF Upvote, Post
  <2>3. CASE q = Downvote(p, u)
    BY <1>1, <2>1, <2>3 DEF Downvote, Post
  <2> QED BY <2>1, <2>2, <2>3 DEF Tapped
<1>3. \A x \in User \ {u} : VoteOf(q, x) = VoteOf(p, x)
  BY <1>1, <1>2 DEF VoteOf
<1>4. OthersIn(q, u) = OthersIn(p, u)
  BY <1>1, <1>2 DEF OthersIn
<1>5. Consistent(p) => VoteOf(q, u) # VoteOf(p, u)
  BY <1>1, <1>2 DEF VoteOf, Consistent
<1> QED BY <1>3, <1>4, <1>5

\* A counted post is a value of the store.
LEMMA PostIsValue ==
  ASSUME NEW p \in Post, Consistent(p)
  PROVE  p \in Value
<1>1. p.up \in SUBSET User /\ p.down \in SUBSET User
  BY DEF Post
<1>2. p.upvotes \in 0..Cardinality(User) /\ p.downvotes \in 0..Cardinality(User)
  BY <1>1, Finite DEF Consistent
<1>3. p \in [up: SUBSET User, down: SUBSET User, upvotes: 0..Cardinality(User),
        downvotes: 0..Cardinality(User)]
  BY <1>1, <1>2 DEF Post
<1> QED BY <1>3, VotesAssumption

\* A tap on a post that d may write gives another.
LEMMA TapGenuine ==
  ASSUME NEW H, NEW d \in Device, NEW k, NEW p, Genuine(H, d, k, p), NEW q \in Tapped(p, UserOf[d])
  PROVE  Genuine(H, d, k, q) /\ q \in Value
<1>1. UserOf[d] \in User
  BY VotesAssumption
<1>2. p \in Post /\ Consistent(p)
  BY DEF Genuine
<1>3. q \in Post /\ Consistent(q) /\ \A x \in User \ {UserOf[d]} : VoteOf(q, x) = VoteOf(p, x)
  BY <1>1, <1>2, TapTypes, TapOthers
<1> QED BY <1>3, PostIsValue DEF Genuine

\* The writes of a sequence, as it grows and shrinks.
LEMMA GenuineSequences ==
  ASSUME NEW H, NEW d, NEW S, NEW s \in Seq(S), NEW t \in Seq(S), NEW x \in S
  PROVE  /\ GenuinePuts(H, d, <<>>)
         /\ GenuinePuts(H, d, s) /\ (x.op = "put" => Genuine(H, d, x.key, x.val))
              => GenuinePuts(H, d, Append(s, x))
         /\ GenuinePuts(H, d, s) /\ GenuinePuts(H, d, t) => GenuinePuts(H, d, s \o t)
         /\ GenuinePuts(H, d, s) /\ s # <<>> => GenuinePuts(H, d, Tail(s))
         /\ GenuinePuts(H, d, s) /\ s # <<>> /\ Head(s).op = "put"
              => Genuine(H, d, Head(s).key, Head(s).val)
BY DEF GenuinePuts

\* ... and the events.
LEMMA GenuineEventSequences ==
  ASSUME NEW H, NEW d, NEW E \in Seq(Event), NEW F \in Seq(Event), NEW x \in Event
  PROVE  /\ GenuineEvents(H, d, <<>>)
         /\ GenuineEvents(H, d, E) /\ (x.kind = "value" => GenuineAll(H, d, x.snap))
              => GenuineEvents(H, d, Append(E, x))
         /\ GenuineEvents(H, d, E) /\ GenuineEvents(H, d, F) => GenuineEvents(H, d, E \o F)
         /\ GenuineEvents(H, d, E) /\ E # <<>> => GenuineEvents(H, d, Tail(E))
         /\ GenuineEvents(H, d, E) /\ E # <<>> /\ Head(E).kind = "value"
              => GenuineAll(H, d, Head(E).snap)
BY DEF GenuineEvents

\* A vote that the database has had stays had.
LEMMA KnownMore ==
  ASSUME NEW H \in [Key -> Seq(Write)], NEW j \in Key, NEW w \in Write, NEW k \in Key,
         NEW n \in Nat, n <= Len(H[k]), NEW u, NEW v, Known(H, k, n, u, v)
  PROVE  Known([H EXCEPT ![j] = Append(@, w)], k, n, u, v)
<1> DEFINE G == [H EXCEPT ![j] = Append(@, w)]
<1>1. PICK m \in 0..n : VoteOf(StoredIn(H, k, m), u) = v
  BY DEF Known
<1>2. H[k] \in Seq(Write) /\ (G[k] = H[k] \/ G[k] = Append(H[k], w))
  OBVIOUS
<1>3. m = 0 \/ m \in 1..Len(H[k])
  BY <1>1, <1>2
<1>4. m # 0 => G[k][m] = H[k][m]
  <2> HIDE DEF G
  <2> QED BY <1>2, <1>3
<1>5. StoredIn(G, k, m) = StoredIn(H, k, m)
  BY <1>4 DEF StoredIn
<1> QED BY <1>1, <1>5 DEF Known

\* ... and a post that may be written stays so.
LEMMA GenuineMore ==
  ASSUME NEW H \in [Key -> Seq(Write)], NEW j \in Key, NEW w \in Write, NEW d,
         NEW k \in Key, NEW p, Genuine(H, d, k, p)
  PROVE  Genuine([H EXCEPT ![j] = Append(@, w)], d, k, p)
<1> DEFINE G == [H EXCEPT ![j] = Append(@, w)]
<1>1. H[k] \in Seq(Write) /\ Len(H[k]) \in Nat /\ (G[k] = H[k] \/ G[k] = Append(H[k], w))
  OBVIOUS
<1>2. Len(G[k]) \in Nat /\ Len(H[k]) <= Len(G[k])
  <2> HIDE DEF G
  <2> QED BY <1>1
<1>3. \A u \in User \ {UserOf[d]} : Known(H, k, Len(H[k]), u, VoteOf(p, u))
  BY DEF Genuine
<1>4. \A u, v : Known(H, k, Len(H[k]), u, v) => Known(G, k, Len(H[k]), u, v)
  <2>1. Len(H[k]) \in Nat /\ Len(H[k]) <= Len(H[k])
    BY <1>1
  <2> QED BY <2>1, KnownMore
<1>5. \A u, v : Known(G, k, Len(H[k]), u, v) => Known(G, k, Len(G[k]), u, v)
  BY <1>1, <1>2 DEF Known
<1> HIDE DEF G
<1>6. Genuine(G, d, k, p)
  BY <1>3, <1>4, <1>5 DEF Genuine
<1> QED BY <1>6 DEF G

\* A write that its device may write is a version as good as the others.
LEMMA HistoryMore ==
  ASSUME NEW H \in [Key -> Seq(Write)], GenuineHistory(H), NEW j \in Key, NEW w \in Write,
         Genuine(H, w.by, j, w.val)
  PROVE  GenuineHistory([H EXCEPT ![j] = Append(@, w)])
<1> DEFINE G == [H EXCEPT ![j] = Append(@, w)]
<1> SUFFICES ASSUME NEW k \in Key, NEW n \in DOMAIN G[k]
             PROVE  /\ G[k][n].val \in Post /\ Consistent(G[k][n].val)
                    /\ \A u \in User \ {UserOf[G[k][n].by]} :
                          Known(G, k, n - 1, u, VoteOf(G[k][n].val, u))
  BY DEF GenuineHistory
<1>1. H[k] \in Seq(Write) /\ (G[k] = H[k] \/ (k = j /\ G[k] = Append(H[k], w)))
  OBVIOUS
<1>2. (n \in DOMAIN H[k] /\ G[k][n] = H[k][n]) \/ (k = j /\ n = Len(H[k]) + 1 /\ G[k][n] = w)
  <2> HIDE DEF G
  <2> QED BY <1>1
<1>3. CASE n \in DOMAIN H[k] /\ G[k][n] = H[k][n]
  <2>1. /\ G[k][n].val \in Post /\ Consistent(G[k][n].val)
        /\ \A u \in User \ {UserOf[G[k][n].by]} : Known(H, k, n - 1, u, VoteOf(G[k][n].val, u))
    BY <1>3 DEF GenuineHistory
  <2>2. n - 1 \in Nat /\ n - 1 <= Len(H[k])
    BY <1>1, <1>3
  <2>3. \A u, v : Known(H, k, n - 1, u, v) => Known(G, k, n - 1, u, v)
    BY <2>2, KnownMore
  <2> QED BY <2>1, <2>3
<1>4. CASE k = j /\ n = Len(H[k]) + 1 /\ G[k][n] = w
  <2>1. /\ w.val \in Post /\ Consistent(w.val)
        /\ \A u \in User \ {UserOf[w.by]} : Known(H, k, Len(H[k]), u, VoteOf(w.val, u))
    BY <1>4 DEF Genuine
  <2>2. n - 1 = Len(H[k]) /\ Len(H[k]) \in Nat /\ Len(H[k]) <= Len(H[k])
    BY <1>1, <1>4
  <2>3. \A u, v : Known(H, k, Len(H[k]), u, v) => Known(G, k, Len(H[k]), u, v)
    BY <2>2, KnownMore
  <2> HIDE DEF G
  <2> QED BY <1>4, <2>1, <2>2, <2>3
<1> QED BY <1>2, <1>3, <1>4

\* Any device may write what the database holds, or held.
LEMMA StoredGenuine ==
  ASSUME TypeOK, GenuineHistory(hist), NEW d, NEW k \in Key, NEW n \in Nat, n <= Len(hist[k])
  PROVE  Genuine(hist, d, k, Stored(k, n))
<1>1. Stored(k, n) = StoredIn(hist, k, n)
  BY DEF Stored, StoredIn
<1>2. hist[k] \in Seq(Write) /\ (n = 0 \/ n \in DOMAIN hist[k]) /\ n \in 0..Len(hist[k])
  BY DEF TypeOK
<1>3. Stored(k, n) \in Post /\ Consistent(Stored(k, n))
  BY <1>2, VotesAssumption DEF GenuineHistory, Stored
<1>4. \A u : Known(hist, k, Len(hist[k]), u, VoteOf(Stored(k, n), u))
  BY <1>1, <1>2 DEF Known
<1> QED BY <1>3, <1>4 DEF Genuine

\* A view of the cache under the device's own writes is one it may write.
LEMMA OverlayGenuine ==
  ASSUME TypeOK, GenuineHistory(hist), NEW d,
         NEW vers \in [Key -> Nat], \A k \in Key : vers[k] <= Len(hist[k]),
         NEW w \in Seq(Answered \cup Put), GenuinePuts(hist, d, w)
  PROVE  GenuineAll(hist, d, Overlay(vers, w))
<1> SUFFICES ASSUME NEW k \in Key PROVE Genuine(hist, d, k, Overlay(vers, w)[k])
  BY DEF GenuineAll
<1>1. CASE WritesTo(k, w) = {}
  <2>1. Genuine(hist, d, k, Stored(k, vers[k]))
    BY StoredGenuine
  <2> QED BY <1>1, <2>1 DEF Overlay
<1>2. CASE WritesTo(k, w) # {}
  <2>1. WritesTo(k, w) \in SUBSET (1..Len(w)) /\ Len(w) \in Nat
    BY LenProperties DEF WritesTo
  <2>2. PICK l \in WritesTo(k, w) : l = CHOOSE i \in WritesTo(k, w) : \A j \in WritesTo(k, w) : j <= i
    BY <1>2, <2>1, LastIndex
  <2>3. l \in DOMAIN w /\ w[l].op = "put" /\ w[l].key = k
    <3>1. l \in DOMAIN w /\ w[l].key = k
      BY <2>2 DEF WritesTo
    <3>2. w[l] \in Answered \cup Put
      BY <3>1, ElementOfSeq
    <3> QED BY <3>1, <3>2 DEF Answered, Put
  <2>4. Genuine(hist, d, k, w[l].val)
    BY <2>3 DEF GenuinePuts
  <2> QED BY <1>2, <2>2, <2>4 DEF Overlay
<1> QED BY <1>1, <1>2

\* ... and so is what is posted of it.
LEMMA ChangedGenuine ==
  ASSUME NEW d, NEW e, NEW view, GenuineAll(hist, e, view), NEW E \in Seq(Event),
         GenuineEvents(hist, e, E), view \in Snapshot
  PROVE  /\ E \o Changed(d, view) \in Seq(Event)
         /\ GenuineEvents(hist, e, E \o Changed(d, view))
<1>1. Changed(d, view) \in Seq(Event) /\ GenuineEvents(hist, e, Changed(d, view))
  <2>1. PICK x : x = [kind |-> "value", snap |-> view]
    OBVIOUS
  <2>2. x \in Event /\ GenuineAll(hist, e, x.snap)
    BY <2>1 DEF Event, ValueEv
  <2>3. <<x>> \in Seq(Event) /\ GenuineEvents(hist, e, <<x>>)
    BY <2>2 DEF GenuineEvents
  <2>4. <<>> \in Seq(Event) /\ GenuineEvents(hist, e, <<>>)
    BY DEF GenuineEvents
  <2>5. Changed(d, view) = <<x>> \/ Changed(d, view) = <<>>
    BY <2>1 DEF Changed
  <2>6. CASE Changed(d, view) = <<x>>
    BY <2>3, <2>6
  <2>7. CASE Changed(d, view) = <<>>
    BY <2>4, <2>7
  <2> QED BY <2>5, <2>6, <2>7
<1>2. PICK F \in Seq(Event) : F = Changed(d, view) /\ GenuineEvents(hist, e, F)
  BY <1>1
<1>3. E \o F \in Seq(Event) /\ GenuineEvents(hist, e, E \o F)
  BY <1>2 DEF GenuineEvents
<1> QED BY <1>2, <1>3

-----------------------------------------------------------------------------
(* Below the screens *)

\* The view of a cache under acknowledged and outstanding writes.
LEMMA ViewGenuine ==
  ASSUME Inductive, GenuineHistory(hist), NEW d, NEW c \in [Key -> Nat],
         \A k \in Key : c[k] <= Len(hist[k]),
         NEW s \in Seq(Answered), NEW t \in Seq(Put), GenuinePuts(hist, d, s), GenuinePuts(hist, d, t)
  PROVE  /\ Overlay(c, s \o t) \in Snapshot
         /\ GenuineAll(hist, d, Overlay(c, s \o t))
<1>1. s \o t \in Seq(Answered \cup Put) /\ GenuinePuts(hist, d, s \o t)
  <2>1. s \in Seq(Answered \cup Put) /\ t \in Seq(Answered \cup Put)
    BY SeqMonotonic
  <2> QED BY <2>1 DEF GenuinePuts
<1>2. TypeOK
  BY DEF Inductive
<1> QED BY <1>1, <1>2, OverlayGenuine, OverlaySnapshot, StoreAssumption

\* Another device moves.
LEMMA IdleQueues ==
  ASSUME NEW e \in Device, QueuesGenuine(e), hist' = hist, calls'[e] = calls[e], up'[e] = up[e],
         puts'[e] = puts[e], toAck'[e] = toAck[e], events'[e] = events[e]
  PROVE  QueuesGenuine(e)'
BY DEF QueuesGenuine

\* A call of observe carries no post.
LEMMA RetrieveAllGenuine ==
  ASSUME TypeOK, NEW d \in Device, NEW e \in Device, RetrieveAll(d), QueuesGenuine(e)
  PROVE  QueuesGenuine(e)'
<1>1. /\ hist' = hist /\ up' = up /\ puts' = puts /\ toAck' = toAck /\ events' = events
      /\ calls'[e] = IF e = d THEN Append(calls[e], Observe) ELSE calls[e]
  BY DEF RetrieveAll, TypeOK, net, client
<1>2. calls[e] \in Seq({Observe} \cup Put) /\ Observe.op # "put" /\ Observe \in {Observe} \cup Put
  BY QueueTypes DEF Observe
<1>3. GenuinePuts(hist, e, Append(calls[e], Observe))
  BY <1>2, GenuineSequences DEF QueuesGenuine
<1> QED BY <1>1, <1>3 DEF QueuesGenuine

\* A call becomes outstanding, and the changed view is posted.
LEMMA RunPutGenuine ==
  ASSUME Inductive, GenuineHistory(hist), NEW d \in Device, NEW e \in Device, RunPut(d),
         QueuesGenuine(e)
  PROVE  QueuesGenuine(e)'
<1>0. TypeOK
  BY DEF Inductive
<1>1. CASE e # d
  BY <1>0, <1>1, IdleQueues DEF RunPut, TypeOK
<1>2. CASE e = d
  <2> DEFINE p == Head(calls[e])
             view == Overlay(cache[e], toAck[e] \o Append(puts[e], p))
  <2>1. /\ hist' = hist /\ toAck' = toAck /\ calls[e] # <<>> /\ calls'[e] = Tail(calls[e])
        /\ puts'[e] = Append(puts[e], p) /\ (up'[e] = up[e] \/ up'[e] = Append(up[e], p))
        /\ events'[e] = events[e] \o Changed(e, view) /\ p # Observe
    BY <1>0, <1>2 DEF RunPut, TypeOK
  <2>2. p \in Put /\ p.op = "put" /\ Genuine(hist, e, p.key, p.val)
    <3>1. p \in {Observe} \cup Put
      BY <1>0, <2>1, QueueTypes, HeadTailProperties
    <3>2. p \in Put /\ p.op = "put"
      BY <2>1, <3>1 DEF Put
    <3> QED BY <1>0, <2>1, <3>2, QueueTypes, GenuineSequences DEF QueuesGenuine
  <2> HIDE DEF p
  <2>3. /\ GenuinePuts(hist, e, Append(puts[e], p)) /\ Append(puts[e], p) \in Seq(Put)
        /\ GenuinePuts(hist, e, Append(up[e], p)) /\ GenuinePuts(hist, e, Tail(calls[e]))
    BY <1>0, <2>1, <2>2, QueueTypes DEF QueuesGenuine, GenuinePuts
  <2>4. view \in Snapshot /\ GenuineAll(hist, e, view)
    BY <1>0, <2>3, QueueTypes, CacheCovered, ViewGenuine DEF QueuesGenuine
  <2> HIDE DEF view
  <2>5. GenuineEvents(hist, e, events'[e])
    BY <1>0, <2>1, <2>4, QueueTypes, ChangedGenuine DEF QueuesGenuine
  <2> QED BY <2>1, <2>3, <2>5 DEF QueuesGenuine
<1> QED BY <1>1, <1>2

\* A new observer is given the view.
LEMMA RunObserveGenuine ==
  ASSUME Inductive, GenuineHistory(hist), NEW d \in Device, NEW e \in Device, RunObserve(d),
         QueuesGenuine(e)
  PROVE  QueuesGenuine(e)'
<1>0. TypeOK
  BY DEF Inductive
<1>1. CASE e # d
  BY <1>0, <1>1, IdleQueues DEF RunObserve, TypeOK
<1>2. CASE e = d
  <2>1. PICK x : x = [kind |-> "value", snap |-> View(e)]
    OBVIOUS
  <2>2. /\ hist' = hist /\ toAck' = toAck /\ puts' = puts /\ calls[e] # <<>>
        /\ calls'[e] = Tail(calls[e])
        /\ (up'[e] = up[e] \/ up'[e] = Append(up[e], Listen))
        /\ (events'[e] = events[e] \/ events'[e] = Append(events[e], x))
    BY <1>0, <1>2, <2>1 DEF RunObserve, TypeOK
  <2>3. View(e) \in Snapshot /\ GenuineAll(hist, e, View(e))
    BY <1>0, QueueTypes, CacheCovered, ViewGenuine DEF QueuesGenuine, View
  <2>4. x \in Event /\ GenuineAll(hist, e, x.snap)
    BY <2>1, <2>3 DEF Event, ValueEv
  <2>5. GenuineEvents(hist, e, Append(events[e], x))
    BY <1>0, <2>4, QueueTypes, GenuineEventSequences DEF QueuesGenuine
  <2>6. GenuinePuts(hist, e, Append(up[e], Listen))
    <3>1. Listen.op # "put"
      BY DEF Listen
    <3> QED BY <1>0, <3>1, QueueTypes DEF QueuesGenuine, GenuinePuts
  <2>7. GenuinePuts(hist, e, Tail(calls[e]))
    BY <1>0, <2>2, QueueTypes DEF QueuesGenuine, GenuinePuts
  <2> QED BY <2>2, <2>5, <2>6, <2>7 DEF QueuesGenuine
<1> QED BY <1>1, <1>2

\* A new connection sends what is outstanding.
LEMMA ConnectGenuine ==
  ASSUME TypeOK, NEW d \in Device, NEW e \in Device, Connect(d), QueuesGenuine(e)
  PROVE  QueuesGenuine(e)'
<1>1. /\ hist' = hist /\ puts' = puts /\ toAck' = toAck /\ events' = events /\ calls' = calls
      /\ up'[e] = IF e = d THEN Restored(e) ELSE up[e]
  BY DEF Connect, TypeOK, client
<1>2. GenuinePuts(hist, e, Restored(e))
  <2>1. GenuinePuts(hist, e, <<>> \o puts[e]) /\ GenuinePuts(hist, e, <<Listen>> \o puts[e])
    <3>1. Listen.op # "put"
      BY DEF Listen
    <3> QED BY <3>1, QueueTypes DEF QueuesGenuine, GenuinePuts
  <2>2. CASE listen[e] = "none"
    BY <2>1, <2>2 DEF Restored
  <2>3. CASE listen[e] # "none"
    BY <2>1, <2>3 DEF Restored
  <2> QED BY <2>2, <2>3
<1> QED BY <1>1, <1>2 DEF QueuesGenuine

\* A lost connection loses what it carried.
LEMMA DisconnectGenuine ==
  ASSUME TypeOK, NEW d \in Device, NEW e \in Device, Disconnect(d), QueuesGenuine(e)
  PROVE  QueuesGenuine(e)'
<1>1. /\ hist' = hist /\ puts' = puts /\ toAck' = toAck /\ events' = events /\ calls' = calls
      /\ up'[e] = IF e = d THEN <<>> ELSE up[e]
  BY DEF Disconnect, TypeOK
<1> QED BY <1>1 DEF QueuesGenuine, GenuinePuts

\* Data changes the cache, and the view is posted.
LEMMA ReceiveDataGenuine ==
  ASSUME Inductive, GenuineHistory(hist), NEW d \in Device, NEW e \in Device, ReceiveData(d),
         QueuesGenuine(e)
  PROVE  QueuesGenuine(e)'
<1>0. TypeOK
  BY DEF Inductive
<1>1. CASE e # d
  BY <1>0, <1>1, IdleQueues DEF ReceiveData, TypeOK
<1>2. CASE e = d
  <2>1. PICK view : view = Overlay(Received(e, Head(down[e])), toAck[e] \o puts[e])
    OBVIOUS
  <2>2. PICK x : x = [kind |-> "value", snap |-> view]
    OBVIOUS
  <2>3. /\ hist' = hist /\ up' = up /\ puts' = puts /\ toAck' = toAck /\ calls' = calls
        /\ (events'[e] = events[e] \o Changed(e, view) \/ events'[e] = events[e] \o <<x>>)
        /\ cache'[e] = Received(e, Head(down[e]))
    BY <1>0, <1>2, <2>1, <2>2 DEF ReceiveData, TypeOK
  <2>4. view \in Snapshot /\ GenuineAll(hist, e, view)
    <3>1. Inductive'
      <4>1. Next
        BY <1>2 DEF Next, Infrastructure
      <4> QED BY <4>1, InductiveStep, StoreAssumption
    <3>2. cache'[e] \in [Key -> Nat] /\ \A k \in Key : cache'[e][k] <= Len(hist[k])
      <4>1. (cache[e] \in [Key -> Nat] /\ \A k \in Key : cache[e][k] <= Len(hist[k]))'
        BY <3>1 DEF Inductive, TypeOK, VersionsOrdered, InOrder
      <4> QED BY <2>3, <4>1
    <3> QED BY <1>0, <2>1, <2>3, <3>2, QueueTypes, ViewGenuine DEF QueuesGenuine
  <2>5. x \in Event /\ GenuineAll(hist, e, x.snap)
    BY <2>2, <2>4 DEF Event, ValueEv
  <2>6. GenuineEvents(hist, e, events[e] \o <<x>>)
    BY <1>0, <2>5, QueueTypes DEF QueuesGenuine, GenuineEvents
  <2>7. GenuineEvents(hist, e, events[e] \o Changed(e, view))
    BY <1>0, <2>4, QueueTypes, ChangedGenuine DEF QueuesGenuine
  <2> QED BY <2>3, <2>6, <2>7 DEF QueuesGenuine
<1> QED BY <1>1, <1>2

\* The answer to a listen carries no post, and neither does a denial.
LEMMA ReceiveListenOkGenuine ==
  ASSUME NEW d \in Device, NEW e \in Device, ReceiveListenOk(d) \/ ReceiveDenial(d),
         QueuesGenuine(e)
  PROVE  QueuesGenuine(e)'
BY DEF ReceiveListenOk, ReceiveDenial, QueuesGenuine

\* An answered write waits for its acknowledgement.
LEMMA ReceivePutDoneGenuine ==
  ASSUME TypeOK, Ordered, NEW d \in Device, NEW e \in Device, ReceivePutDone(d), QueuesGenuine(e)
  PROVE  QueuesGenuine(e)'
<1>1. CASE e # d
  BY <1>1, IdleQueues DEF ReceivePutDone, TypeOK
<1>2. CASE e = d
  <2>1. PICK p : p = Head(puts[e])
    OBVIOUS
  <2>2. PICK x : x = ToAck(p, Head(down[e]).ok)
    OBVIOUS
  <2>3. /\ hist' = hist /\ up' = up /\ events' = events /\ calls' = calls
        /\ puts[e] # <<>> /\ puts'[e] = Tail(puts[e]) /\ toAck'[e] = Append(toAck[e], x)
    BY <1>2, <2>1, <2>2, AnsweredFirst DEF ReceivePutDone
  <2>4. p \in Put
    BY <2>1, <2>3, QueueTypes, HeadTailProperties
  <2>5. Genuine(hist, e, p.key, p.val)
    BY <2>1, <2>3, <2>4, QueueTypes, GenuineSequences DEF QueuesGenuine, Put
  <2>6. Genuine(hist, e, x.key, x.val)
    BY <2>2, <2>5 DEF ToAck
  <2>7. GenuinePuts(hist, e, Append(toAck[e], x)) /\ GenuinePuts(hist, e, Tail(puts[e]))
    BY <2>3, <2>6, QueueTypes DEF QueuesGenuine, GenuinePuts
  <2> QED BY <2>3, <2>7 DEF QueuesGenuine
<1> QED BY <1>1, <1>2

\* An acknowledged write leaves the view, which is posted when it changes.
LEMMA AckPutGenuine ==
  ASSUME Inductive, GenuineHistory(hist), NEW d \in Device, NEW e \in Device, AckPut(d),
         QueuesGenuine(e)
  PROVE  QueuesGenuine(e)'
<1>0. TypeOK
  BY DEF Inductive
<1>1. CASE e # d
  BY <1>0, <1>1, IdleQueues DEF AckPut, TypeOK, net
<1>2. CASE e = d
  <2>1. PICK view : view = Overlay(cache[e], Tail(toAck[e]) \o puts[e])
    OBVIOUS
  <2>2. PICK x : x = [kind |-> "done", id |-> Head(toAck[e]).id, key |-> Head(toAck[e]).key,
               ok |-> Head(toAck[e]).ok]
    OBVIOUS
  <2>3. /\ hist' = hist /\ up' = up /\ puts' = puts /\ calls' = calls
        /\ toAck[e] # <<>> /\ toAck'[e] = Tail(toAck[e])
        /\ events'[e] = (events[e] \o Changed(e, view)) \o <<x>>
    BY <1>0, <1>2, <2>1, <2>2 DEF AckPut, TypeOK, net
  <2>4. Tail(toAck[e]) \in Seq(Answered) /\ GenuinePuts(hist, e, Tail(toAck[e]))
    BY <1>0, <2>3, QueueTypes DEF QueuesGenuine, GenuinePuts
  <2>5. view \in Snapshot /\ GenuineAll(hist, e, view)
    BY <1>0, <2>1, <2>4, QueueTypes, CacheCovered, ViewGenuine DEF QueuesGenuine
  <2>6. PICK F \in Seq(Event) : F = events[e] \o Changed(e, view) /\ GenuineEvents(hist, e, F)
    BY <1>0, <2>5, QueueTypes, ChangedGenuine DEF QueuesGenuine
  <2>7. x.kind # "value"
    BY <2>2
  <2>8. GenuineEvents(hist, e, F \o <<x>>)
    BY <2>6, <2>7 DEF GenuineEvents
  <2> QED BY <2>3, <2>4, <2>6, <2>8 DEF QueuesGenuine
<1> QED BY <1>1, <1>2

\* The database takes a message and stores nothing.
LEMMA ServerTakesGenuine ==
  ASSUME TypeOK, NEW d \in Device, NEW e \in Device, QueuesGenuine(e),
         ServerListen(d) \/ ServerReject(d) \/ ServerDeny(d)
  PROVE  QueuesGenuine(e)'
<1>1. /\ hist' = hist /\ puts' = puts /\ toAck' = toAck /\ events' = events /\ calls' = calls
      /\ (up'[e] = up[e] \/ (up[e] # <<>> /\ up'[e] = Tail(up[e])))
  BY DEF ServerListen, ServerReject, ServerDeny, TypeOK, client
<1>2. up[e] # <<>> => GenuinePuts(hist, e, Tail(up[e]))
  BY QueueTypes DEF QueuesGenuine, GenuinePuts
<1> QED BY <1>1, <1>2 DEF QueuesGenuine

-----------------------------------------------------------------------------
(* The screens *)

\* An accepted write becomes a version: it is one its device may write.
LEMMA ServerAcceptGenuine ==
  ASSUME TypeOK, VotesGenuine, NEW d \in Device, ServerAccept(d)
  PROVE  /\ GenuineHistory(hist')
         /\ \A e \in Device : QueuesGenuine(e)'
         /\ \A e \in Device, k \in Key : \A p : Genuine(hist, e, k, p) => Genuine(hist', e, k, p)
<1>1. PICK p : p = Head(up[d])
  OBVIOUS
<1>2. PICK w : w = [by |-> d, id |-> p.id, val |-> p.val]
  OBVIOUS
<1>3. /\ up[d] # <<>> /\ p # Listen /\ hist' = [hist EXCEPT ![p.key] = Append(@, w)]
      /\ puts' = puts /\ toAck' = toAck /\ events' = events /\ calls' = calls
      /\ up' = [up EXCEPT ![d] = Tail(@)]
  BY <1>1, <1>2 DEF ServerAccept, client
<1>4. p \in Put
  <2>1. p \in {Listen} \cup Put
    BY <1>1, <1>3, QueueTypes, HeadTailProperties
  <2> QED BY <1>3, <2>1
<1>5. w \in Write /\ p.key \in Key /\ hist \in [Key -> Seq(Write)]
  BY <1>2, <1>4 DEF Write, Put, TypeOK
<1>6. Genuine(hist, w.by, p.key, w.val)
  <2>1. p.op = "put"
    BY <1>4 DEF Put
  <2>2. GenuinePuts(hist, d, up[d])
    BY DEF VotesGenuine, QueuesGenuine
  <2>3. Genuine(hist, d, p.key, p.val)
    BY <1>1, <1>3, <2>1, <2>2, QueueTypes DEF GenuinePuts
  <2> QED BY <1>2, <2>3
<1>7. GenuineHistory(hist')
  BY <1>3, <1>5, <1>6, HistoryMore DEF VotesGenuine
<1>8. \A e \in Device, k \in Key : \A q : Genuine(hist, e, k, q) => Genuine(hist', e, k, q)
  BY <1>3, <1>5, GenuineMore
<1>9. ASSUME NEW e \in Device PROVE QueuesGenuine(e)'
  <2>1. QueuesGenuine(e) /\ (up'[e] = up[e] \/ (up[e] # <<>> /\ up'[e] = Tail(up[e])))
    BY <1>3 DEF VotesGenuine, TypeOK
  <2>2. up[e] # <<>> => GenuinePuts(hist, e, Tail(up[e]))
    BY <2>1, QueueTypes DEF QueuesGenuine, GenuinePuts
  <2>3. \A S, s : GenuinePuts(hist, e, s) /\ s \in Seq(S)
          /\ (\A x \in S : x.op = "put" => x.key \in Key) => GenuinePuts(hist', e, s)
    <3> SUFFICES ASSUME NEW S, NEW s \in Seq(S), GenuinePuts(hist, e, s),
                        \A x \in S : x.op = "put" => x.key \in Key,
                        NEW i \in DOMAIN s, s[i].op = "put"
                 PROVE  Genuine(hist', e, s[i].key, s[i].val)
      BY DEF GenuinePuts
    <3>1. s[i].key \in Key
      BY ElementOfSeq
    <3>2. Genuine(hist, e, s[i].key, s[i].val)
      BY DEF GenuinePuts
    <3> QED BY <1>8, <3>1, <3>2
  <2>4. /\ \A x \in {Observe} \cup Put : x.op = "put" => x.key \in Key
        /\ \A x \in {Listen} \cup Put : x.op = "put" => x.key \in Key
        /\ \A x \in Answered : x.op = "put" => x.key \in Key
    BY DEF Observe, Listen, Put, Answered
  <2>5. GenuinePuts(hist', e, calls[e]) /\ GenuinePuts(hist', e, puts[e])
          /\ GenuinePuts(hist', e, toAck[e])
    BY <2>1, <2>3, <2>4, QueueTypes DEF QueuesGenuine
  <2>6. GenuinePuts(hist', e, up'[e])
    <3>1. CASE up'[e] = up[e]
      BY <2>1, <2>3, <2>4, <3>1, QueueTypes DEF QueuesGenuine
    <3>2. CASE up[e] # <<>> /\ up'[e] = Tail(up[e])
      <4>1. Tail(up[e]) \in Seq({Listen} \cup Put)
        BY <3>2, QueueTypes, HeadTailProperties
      <4> QED BY <2>2, <2>3, <2>4, <3>2, <4>1
    <3> QED BY <2>1, <3>1, <3>2
  <2>7. GenuineEvents(hist', e, events[e])
    BY <1>8, <2>1 DEF QueuesGenuine, GenuineEvents, GenuineAll
  <2> QED BY <1>3, <2>5, <2>6, <2>7 DEF QueuesGenuine
<1> QED BY <1>7, <1>8, <1>9

\* What a detail screen is.
LEMMA DetailTypes ==
  ASSUME VotesTypeOK, NEW d \in Device
  PROVE  /\ detail[d].open \in BOOLEAN
         /\ detail[d].open => detail[d] \in Opened /\ detail[d].key \in Key
         /\ ~ detail[d].open => detail[d] = Closed
<1>1. CASE detail[d] = Closed
  BY <1>1 DEF Closed
<1>2. CASE detail[d] \in Opened
  BY <1>2 DEF Opened
<1> QED BY <1>1, <1>2 DEF VotesTypeOK

\* The data layer changes no vote.
LEMMA BelowGenuine ==
  ASSUME Inductive, Ordered, VotesGenuine, NEW d \in Device, DataLayer(d)
  PROVE  VotesGenuine'
<1>0. TypeOK /\ VotesTypeOK /\ GenuineHistory(hist)
  BY DEF Inductive, VotesGenuine
<1>1. lists' = lists /\ detail' = detail /\ VotesTypeOK'
  BY <1>0 DEF DataLayer, screens, VotesTypeOK
<1>2. ASSUME hist' = hist, \A e \in Device : QueuesGenuine(e)'
      PROVE  VotesGenuine'
  BY <1>0, <1>1, <1>2 DEF VotesGenuine, ScreensGenuine, SharedAt
<1>3. CASE ServerAccept(d)
  <2>1. ASSUME NEW e \in Device PROVE GenuineScreens(hist', e, lists[e], detail[e])
    <3>1. detail[e].open => detail[e].key \in Key
      BY <1>0, DetailTypes
    <3>2. GenuineScreens(hist, e, lists[e], detail[e])
      BY DEF VotesGenuine, ScreensGenuine
    <3> QED BY <1>0, <1>3, <3>1, <3>2, ServerAcceptGenuine DEF GenuineScreens, GenuineAll
  <2> QED BY <1>0, <1>1, <1>3, <2>1, ServerAcceptGenuine DEF VotesGenuine, ScreensGenuine, SharedAt
<1>4. CASE ~ ServerAccept(d)
  <2>1. \A e \in Device : QueuesGenuine(e)
    BY DEF VotesGenuine
  <2>2. CASE RetrieveAll(d)
    BY <1>0, <1>2, <2>1, <2>2, RetrieveAllGenuine DEF RetrieveAll
  <2>3. CASE RunPut(d)
    BY <1>0, <1>2, <2>1, <2>3, RunPutGenuine DEF RunPut
  <2>4. CASE RunObserve(d)
    BY <1>0, <1>2, <2>1, <2>4, RunObserveGenuine DEF RunObserve
  <2>5. CASE Connect(d)
    BY <1>0, <1>2, <2>1, <2>5, ConnectGenuine DEF Connect
  <2>6. CASE Disconnect(d)
    BY <1>0, <1>2, <2>1, <2>6, DisconnectGenuine DEF Disconnect
  <2>7. CASE ReceiveData(d)
    BY <1>0, <1>2, <2>1, <2>7, ReceiveDataGenuine DEF ReceiveData
  <2>8. CASE ReceiveListenOk(d) \/ ReceiveDenial(d)
    BY <1>0, <1>2, <2>1, <2>8, ReceiveListenOkGenuine DEF ReceiveListenOk, ReceiveDenial
  <2>9. CASE ReceivePutDone(d)
    BY <1>0, <1>2, <2>1, <2>9, ReceivePutDoneGenuine DEF ReceivePutDone
  <2>10. CASE AckPut(d)
    BY <1>0, <1>2, <2>1, <2>10, AckPutGenuine DEF AckPut
  <2>11. CASE ServerListen(d) \/ ServerReject(d) \/ ServerDeny(d)
    <3>1. hist' = hist
      BY <2>11 DEF ServerListen, ServerReject, ServerDeny
    <3> QED BY <1>0, <1>2, <2>1, <2>11, <3>1, ServerTakesGenuine
  <2> QED BY <1>4, <2>2, <2>3, <2>4, <2>5, <2>6, <2>7, <2>8, <2>9, <2>10, <2>11 DEF DataLayer, Below
<1> QED BY <1>3, <1>4

\* A screen's write is one its device may write.
LEMMA SetValueGenuine ==
  ASSUME TypeOK, NEW d \in Device, NEW k \in Key, NEW p, Genuine(hist, d, k, p), SetValue(d, k, p),
         NEW e \in Device, QueuesGenuine(e)
  PROVE  QueuesGenuine(e)'
<1>1. PICK x : x = [op |-> "put", id |-> issued[d] + 1, key |-> k, val |-> p]
  OBVIOUS
<1>2. /\ hist' = hist /\ up' = up /\ puts' = puts /\ toAck' = toAck /\ events' = events
      /\ calls'[e] = IF e = d THEN Append(calls[e], x) ELSE calls[e]
  BY <1>1 DEF SetValue, TypeOK, net, client
<1>3. e = d => GenuinePuts(hist, e, Append(calls[e], x))
  BY <1>1, QueueTypes DEF QueuesGenuine, GenuinePuts
<1> QED BY <1>2, <1>3 DEF QueuesGenuine

\* A tap on a list: what is shown and what is written.
LEMMA VoteOnListGenuine ==
  ASSUME Inductive, VotesGenuine, NEW d \in Device, NEW s \in Screen, NEW k \in Key,
         VoteOnList(d, s, k)
  PROVE  VotesGenuine' /\ \E v \in Value : SetValue(d, k, v)
<1>0. TypeOK /\ VotesTypeOK
  BY DEF Inductive, VotesGenuine
<1>1. PICK new \in Tapped(lists[d][s][k], UserOf[d]) :
         /\ AddPostsToApi(d, s, k, lists[d][s][k], new)
         /\ lists' = [lists EXCEPT ![d][s][k] = new]
  BY DEF VoteOnList
<1>2. detail' = detail /\ SetValue(d, k, new) /\ lists[d][s] # NotLoaded
  BY <1>1 DEF VoteOnList, AddPostsToApi
<1>3. Genuine(hist, d, k, lists[d][s][k])
  BY <1>2 DEF VotesGenuine, ScreensGenuine, GenuineScreens, GenuineAll
<1>4. Genuine(hist, d, k, new) /\ new \in Value /\ new \in Post
  BY <1>1, <1>3, TapGenuine DEF Genuine
<1>5. hist' = hist /\ \A e \in Device : QueuesGenuine(e)'
  BY <1>0, <1>2, <1>4, SetValueGenuine DEF VotesGenuine, SetValue
<1>6. VotesTypeOK'
  <2>1. lists[d][s] \in [Key -> Post]
    BY <1>0, <1>2 DEF VotesTypeOK
  <2>2. [lists[d][s] EXCEPT ![k] = new] \in [Key -> Post]
    BY <1>4, <2>1
  <2> QED BY <1>0, <1>1, <1>2, <2>2 DEF VotesTypeOK
<1>7. ASSUME NEW e \in Device PROVE ScreensGenuine(e)'
  <2>1. GenuineScreens(hist, e, lists[e], detail[e])
    BY DEF VotesGenuine, ScreensGenuine
  <2>2. \A t \in Screen : \/ lists'[e][t] = lists[e][t]
                          \/ e = d /\ t = s /\ lists'[e][t] = [lists[d][s] EXCEPT ![k] = new]
    BY <1>0, <1>1 DEF VotesTypeOK
  <2>3. e = d => GenuineAll(hist, e, [lists[d][s] EXCEPT ![k] = new])
    <3>1. lists[d][s] \in [Key -> Post] /\ (e = d => GenuineAll(hist, e, lists[d][s]))
      BY <1>0, <1>2, <2>1 DEF VotesTypeOK, GenuineScreens
    <3> QED BY <1>4, <3>1 DEF GenuineAll
  <2> QED BY <1>2, <1>5, <2>1, <2>2, <2>3 DEF ScreensGenuine, GenuineScreens
<1>8. ASSUME NEW e \in Device PROVE SharedAt(e)'
  <2>1. detail'[e] = detail[e] /\ (detail[e].open => lists'[e] = lists[e]) /\ SharedAt(e)
    BY <1>0, <1>1, <1>2 DEF VoteOnList, VotesTypeOK, VotesGenuine
  <2> QED BY <2>1 DEF SharedAt
<1> QED BY <1>2, <1>4, <1>5, <1>6, <1>7, <1>8 DEF VotesGenuine

\* A tap on the detail screen, which may share its post with the feed.
LEMMA VoteOnDetailGenuine ==
  ASSUME Inductive, VotesGenuine, NEW d \in Device, VoteOnDetail(d)
  PROVE  VotesGenuine' /\ \E k \in Key, v \in Value : SetValue(d, k, v)
<1>0. TypeOK /\ VotesTypeOK
  BY DEF Inductive, VotesGenuine
<1>1. PICK k : k = detail[d].key
  OBVIOUS
<1>2. PICK new \in Tapped(detail[d].post, UserOf[d]) :
         /\ AddPostsToApi(d, "detail", k, detail[d].post, new)
         /\ detail' = [detail EXCEPT ![d].post = new]
         /\ lists' = IF detail[d].shared THEN [lists EXCEPT ![d]["feed"][k] = new] ELSE lists
  BY <1>1 DEF VoteOnDetail
<1>3. SetValue(d, k, new) /\ detail[d].open /\ detail[d] \in Opened
  BY <1>0, <1>2 DEF VoteOnDetail, AddPostsToApi, VotesTypeOK, Closed
<1>4. k \in Key /\ Genuine(hist, d, k, detail[d].post)
  BY <1>1, <1>3 DEF VotesGenuine, ScreensGenuine, GenuineScreens, Opened
<1>5. Genuine(hist, d, k, new) /\ new \in Value /\ new \in Post
  BY <1>2, <1>4, TapGenuine DEF Genuine
<1>6. hist' = hist /\ \A e \in Device : QueuesGenuine(e)'
  BY <1>0, <1>3, <1>4, <1>5, SetValueGenuine DEF VotesGenuine, SetValue
<1>7. lists[d]["feed"] \in [Key -> Post] \cup {NotLoaded} /\ "feed" \in Screen
  BY <1>0, VotesAssumption DEF VotesTypeOK
<1>8. detail[d].shared => lists[d]["feed"] \in [Key -> Post]
  BY <1>3, <1>7 DEF VotesGenuine, SharedAt
<1>9. PICK D : D = [detail[d] EXCEPT !.post = new]
  OBVIOUS
<1>10. PICK L : L = [lists[d]["feed"] EXCEPT ![k] = new]
  OBVIOUS
<1>11. D \in Opened /\ D.open /\ D.key = k /\ D.post = new /\ D.shared = detail[d].shared
  BY <1>1, <1>3, <1>5, <1>9 DEF Opened
<1>12. detail[d].shared => L \in [Key -> Post] /\ L[k] = new
                           /\ \A j \in Key : j # k => L[j] = lists[d]["feed"][j]
  BY <1>4, <1>5, <1>8, <1>10
<1>13. detail' = [detail EXCEPT ![d] = D]
  BY <1>0, <1>2, <1>9 DEF VotesTypeOK
<1>14. \/ ~ detail[d].shared /\ lists' = lists
       \/ detail[d].shared /\ lists' = [lists EXCEPT ![d] = [lists[d] EXCEPT !["feed"] = L]]
  BY <1>0, <1>2, <1>7, <1>10 DEF VotesTypeOK
<1> HIDE DEF Opened
<1>15. VotesTypeOK'
  <2>1. detail' \in [Device -> {Closed} \cup Opened]
    BY <1>0, <1>11, <1>13 DEF VotesTypeOK
  <2>2. lists' \in [Device -> [Screen -> [Key -> Post] \cup {NotLoaded}]]
    <3>1. CASE lists' = lists
      BY <1>0, <3>1 DEF VotesTypeOK
    <3>2. CASE detail[d].shared /\ lists' = [lists EXCEPT ![d] = [lists[d] EXCEPT !["feed"] = L]]
      <4>1. [lists[d] EXCEPT !["feed"] = L] \in [Screen -> [Key -> Post] \cup {NotLoaded}]
        BY <1>0, <1>12, <3>2 DEF VotesTypeOK
      <4> QED BY <1>0, <3>2, <4>1 DEF VotesTypeOK
    <3> QED BY <1>14, <3>1, <3>2
  <2> QED BY <2>1, <2>2 DEF VotesTypeOK
<1>16. ASSUME NEW e \in Device PROVE ScreensGenuine(e)' /\ SharedAt(e)'
  <2>1. GenuineScreens(hist, e, lists[e], detail[e]) /\ SharedAt(e)
    BY DEF VotesGenuine, ScreensGenuine
  <2>2. CASE e # d
    <3>1. lists'[e] = lists[e] /\ detail'[e] = detail[e]
      BY <1>0, <1>13, <1>14, <2>2 DEF VotesTypeOK
    <3> QED BY <1>6, <2>1, <3>1 DEF ScreensGenuine, SharedAt
  <2>3. CASE e = d
    <3>1. detail'[e] = D
      BY <1>0, <1>13, <2>3 DEF VotesTypeOK
    <3>2. /\ \A t \in Screen : \/ lists'[e][t] = lists[e][t]
                               \/ detail[d].shared /\ t = "feed" /\ lists'[e][t] = L
          /\ detail[d].shared => lists'[e]["feed"] = L
      BY <1>0, <1>7, <1>14, <2>3 DEF VotesTypeOK
    <3>3. detail[d].shared => GenuineAll(hist, e, L) /\ L # NotLoaded
      <4> SUFFICES ASSUME detail[d].shared PROVE GenuineAll(hist, e, L) /\ L # NotLoaded
        OBVIOUS
      <4>1. lists[d]["feed"] # NotLoaded /\ GenuineAll(hist, e, lists[d]["feed"])
        BY <1>3, <1>7, <2>1, <2>3 DEF SharedAt, GenuineScreens
      <4>2. GenuineAll(hist, e, L)
        BY <1>5, <1>12, <2>3, <4>1 DEF GenuineAll
      <4>3. L # NotLoaded
        <5>1. L \in [Key -> Value]
          BY <1>12, <4>2, PostIsValue DEF GenuineAll, Genuine
        <5> QED BY <5>1, StoreAssumption DEF StoreAssumption
      <4> QED BY <4>2, <4>3
    <3>4. GenuineScreens(hist, e, lists'[e], D)
      BY <1>5, <1>11, <2>1, <2>3, <3>2, <3>3 DEF GenuineScreens
    <3>5. SharedAt(e)'
      BY <1>11, <1>12, <3>1, <3>2, <3>3 DEF SharedAt
    <3> QED BY <1>6, <3>1, <3>4, <3>5 DEF ScreensGenuine
  <2> QED BY <2>2, <2>3
<1> QED BY <1>3, <1>4, <1>5, <1>6, <1>15, <1>16 DEF VotesGenuine

\* The detail screen opens on the feed's own post.
LEMMA OpenDetailsGenuine ==
  ASSUME VotesGenuine, NEW d \in Device, NEW k \in Key, OpenDetails(d, k)
  PROVE  VotesGenuine'
<1>1. PICK D : D = [open |-> TRUE, key |-> k, post |-> lists[d]["feed"][k], shared |-> TRUE]
  OBVIOUS
<1>2. /\ detail' = [detail EXCEPT ![d] = D] /\ lists' = lists /\ lists[d]["feed"] # NotLoaded
      /\ UNCHANGED <<hist, calls, up, puts, toAck, events>>
  BY <1>1 DEF OpenDetails, vars, net, client
<1>3. "feed" \in Screen /\ VotesTypeOK
  BY VotesAssumption DEF VotesGenuine
<1>4. lists[d]["feed"] \in [Key -> Post] /\ lists[d]["feed"][k] \in Post
  BY <1>2, <1>3 DEF VotesTypeOK
<1>5. VotesTypeOK'
  <2>1. D \in Opened
    BY <1>1, <1>4 DEF Opened
  <2> QED BY <1>2, <1>3, <2>1 DEF VotesTypeOK
<1>6. ASSUME NEW e \in Device PROVE ScreensGenuine(e)' /\ SharedAt(e)' /\ QueuesGenuine(e)'
  <2>1. ScreensGenuine(e) /\ SharedAt(e) /\ QueuesGenuine(e)
          /\ detail'[e] = IF e = d THEN D ELSE detail[e]
    BY <1>2, <1>3 DEF VotesGenuine, VotesTypeOK
  <2>2. QueuesGenuine(e)'
    BY <1>2, <2>1, IdleQueues
  <2>3. CASE e # d
    BY <1>2, <2>1, <2>2, <2>3 DEF ScreensGenuine, SharedAt
  <2>4. CASE e = d
    <3>1. Genuine(hist, e, k, D.post)
      BY <1>1, <1>2, <1>3, <2>1, <2>4 DEF ScreensGenuine, GenuineScreens, GenuineAll
    <3>2. GenuineScreens(hist, e, lists[e], D)
      BY <1>1, <2>1, <3>1 DEF ScreensGenuine, GenuineScreens
    <3>3. SharedAt(e)'
      BY <1>1, <1>2, <2>1, <2>4 DEF SharedAt
    <3> QED BY <1>2, <2>1, <2>2, <2>4, <3>2, <3>3 DEF ScreensGenuine
  <2> QED BY <2>3, <2>4
<1> QED BY <1>2, <1>5, <1>6 DEF VotesGenuine

\* It closes.
LEMMA CloseDetailsGenuine ==
  ASSUME VotesGenuine, NEW d \in Device, CloseDetails(d)
  PROVE  VotesGenuine'
<1>1. /\ detail' = [detail EXCEPT ![d] = Closed] /\ lists' = lists
      /\ UNCHANGED <<hist, calls, up, puts, toAck, events>>
  BY DEF CloseDetails, vars, net, client
<1>2. VotesTypeOK /\ VotesTypeOK'
  BY <1>1 DEF VotesGenuine, VotesTypeOK
<1>3. ASSUME NEW e \in Device PROVE ScreensGenuine(e)' /\ SharedAt(e)' /\ QueuesGenuine(e)'
  <2>1. ScreensGenuine(e) /\ SharedAt(e) /\ QueuesGenuine(e)
          /\ detail'[e] = IF e = d THEN Closed ELSE detail[e]
    BY <1>1, <1>2 DEF VotesGenuine, VotesTypeOK
  <2>2. QueuesGenuine(e)'
    BY <1>1, <2>1, IdleQueues
  <2>3. ~ Closed.open
    BY DEF Closed
  <2> QED BY <1>1, <2>1, <2>2, <2>3 DEF ScreensGenuine, GenuineScreens, SharedAt
<1> QED BY <1>1, <1>2, <1>3 DEF VotesGenuine

\* The process starts again, with nothing loaded.
LEMMA RestartGenuine ==
  ASSUME TypeOK, VotesGenuine, NEW d \in Device, RestartScreens(d)
  PROVE  VotesGenuine'
<1>1. /\ hist' = hist
      /\ detail' = [detail EXCEPT ![d] = Closed]
      /\ lists' = [lists EXCEPT ![d] = [s \in Screen |-> NotLoaded]]
  BY DEF RestartScreens, Restart
<1>2. VotesTypeOK /\ VotesTypeOK'
  BY <1>1 DEF VotesGenuine, VotesTypeOK
<1>3. ASSUME NEW e \in Device PROVE ScreensGenuine(e)' /\ SharedAt(e)' /\ QueuesGenuine(e)'
  <2>1. ScreensGenuine(e) /\ SharedAt(e) /\ QueuesGenuine(e)
    BY DEF VotesGenuine
  <2>2. CASE e # d
    <3>1. /\ lists'[e] = lists[e] /\ detail'[e] = detail[e] /\ calls'[e] = calls[e] /\ up'[e] = up[e]
          /\ puts'[e] = puts[e] /\ toAck'[e] = toAck[e] /\ events'[e] = events[e]
      BY <1>1, <1>2, <2>2 DEF VotesTypeOK, RestartScreens, Restart, TypeOK
    <3> QED BY <1>1, <2>1, <3>1, IdleQueues DEF ScreensGenuine, SharedAt
  <2>3. CASE e = d
    <3>1. /\ lists'[e] = [s \in Screen |-> NotLoaded] /\ detail'[e] = Closed
          /\ calls'[e] = <<>> /\ up'[e] = <<>> /\ puts'[e] = <<>> /\ toAck'[e] = <<>>
          /\ events'[e] = <<>>
      BY <1>1, <1>2, <2>3 DEF VotesTypeOK, RestartScreens, Restart, TypeOK
    <3>2. QueuesGenuine(e)'
      BY <3>1 DEF QueuesGenuine, GenuinePuts, GenuineEvents
    <3> QED BY <3>1, <3>2 DEF ScreensGenuine, GenuineScreens, SharedAt, Closed
  <2> QED BY <2>2, <2>3
<1> QED BY <1>1, <1>2, <1>3 DEF VotesGenuine

\* The lists are replaced by what was retrieved; the detail screen keeps its post.
LEMMA RetrievedPostsGenuine ==
  ASSUME Inductive, VotesGenuine, NEW d \in Device, RetrievedPosts(d)
  PROVE  VotesGenuine'
<1>0. TypeOK /\ VotesTypeOK
  BY DEF Inductive, VotesGenuine
<1>1. PICK r : r = Head(events[d]).snap
  OBVIOUS
<1>2. PICK D : D = IF detail[d].open THEN [detail[d] EXCEPT !.shared = FALSE] ELSE detail[d]
  OBVIOUS
<1>3. /\ detail' = [detail EXCEPT ![d] = D]
      /\ lists' = [lists EXCEPT ![d] = [s \in Screen |-> r]]
      /\ events[d] # <<>> /\ Head(events[d]).kind = "value"
      /\ events' = [events EXCEPT ![d] = Tail(@)]
      /\ UNCHANGED <<hist, calls, up, puts, toAck>>
  BY <1>0, <1>1, <1>2 DEF RetrievedPosts, HandleValue, VotesTypeOK, net, client
<1>4. r \in Snapshot /\ GenuineAll(hist, d, r)
  <2>1. Head(events[d]) \in Event
    BY <1>0, <1>3, QueueTypes, HeadTailProperties
  <2>2. r \in Snapshot
    BY <1>1, <1>3, <2>1 DEF Event, ValueEv, DoneEv
  <2>3. GenuineEvents(hist, d, events[d])
    BY DEF VotesGenuine, QueuesGenuine
  <2> QED BY <1>0, <1>1, <1>3, <2>2, <2>3, QueueTypes DEF GenuineEvents
<1>5. r \in [Key -> Post]
  BY <1>4 DEF GenuineAll, Genuine, Snapshot
<1>6. /\ D \in {Closed} \cup Opened /\ ~ (D.open /\ D.shared)
      /\ D.open => detail[d].open /\ D.key = detail[d].key /\ D.post = detail[d].post
  <2>1. CASE detail[d].open
    BY <1>0, <1>2, <2>1, DetailTypes DEF Opened
  <2>2. CASE ~ detail[d].open
    BY <1>0, <1>2, <2>2, DetailTypes DEF Closed
  <2> QED BY <2>1, <2>2
<1>7. VotesTypeOK'
  BY <1>0, <1>3, <1>5, <1>6 DEF VotesTypeOK
<1>8. ASSUME NEW e \in Device PROVE ScreensGenuine(e)' /\ SharedAt(e)' /\ QueuesGenuine(e)'
  <2>1. ScreensGenuine(e) /\ SharedAt(e) /\ QueuesGenuine(e)
    BY DEF VotesGenuine
  <2>2. CASE e # d
    <3>1. lists'[e] = lists[e] /\ detail'[e] = detail[e] /\ events'[e] = events[e]
      BY <1>0, <1>3, <2>2 DEF VotesTypeOK, TypeOK
    <3> QED BY <1>3, <2>1, <3>1, IdleQueues DEF ScreensGenuine, SharedAt
  <2>3. CASE e = d
    <3>1. lists'[e] = [s \in Screen |-> r] /\ detail'[e] = D /\ events'[e] = Tail(events[e])
      BY <1>0, <1>3, <2>3 DEF VotesTypeOK, TypeOK
    <3>2. GenuineEvents(hist, e, Tail(events[e]))
      BY <1>0, <1>3, <2>1, <2>3, QueueTypes DEF QueuesGenuine, GenuineEvents
    <3>3. QueuesGenuine(e)'
      BY <1>3, <2>1, <3>1, <3>2 DEF QueuesGenuine
    <3>4. GenuineScreens(hist, e, [s \in Screen |-> r], D)
      BY <1>4, <1>6, <2>1, <2>3 DEF ScreensGenuine, GenuineScreens
    <3> QED BY <1>3, <1>6, <3>1, <3>3, <3>4 DEF ScreensGenuine, SharedAt
  <2> QED BY <2>2, <2>3
<1> QED BY <1>3, <1>7, <1>8 DEF VotesGenuine

\* A completion block changes no screen.
LEMMA UpdatedPostGenuine ==
  ASSUME TypeOK, VotesGenuine, NEW d \in Device, UpdatedPost(d)
  PROVE  VotesGenuine'
<1>1. /\ lists' = lists /\ detail' = detail
      /\ events[d] # <<>> /\ events' = [events EXCEPT ![d] = Tail(@)]
      /\ (calls' = calls \/ calls' = [calls EXCEPT ![d] = Append(@, Observe)])
      /\ UNCHANGED <<hist, up, puts, toAck>>
  BY DEF UpdatedPost, HandleDone, screens, net, client
<1>2. VotesTypeOK'
  BY <1>1 DEF VotesTypeOK, VotesGenuine
<1>3. ASSUME NEW e \in Device PROVE ScreensGenuine(e)' /\ SharedAt(e)' /\ QueuesGenuine(e)'
  <2>1. ScreensGenuine(e) /\ SharedAt(e) /\ QueuesGenuine(e)
    BY DEF VotesGenuine
  <2>2. GenuineEvents(hist, e, events'[e])
    <3>1. events'[e] = events[e] \/ (events[e] # <<>> /\ events'[e] = Tail(events[e]))
      BY <1>1 DEF TypeOK
    <3>2. events[e] # <<>> => GenuineEvents(hist, e, Tail(events[e]))
      BY <2>1, QueueTypes DEF QueuesGenuine, GenuineEvents
    <3> QED BY <2>1, <3>1, <3>2 DEF QueuesGenuine
  <2>3. GenuinePuts(hist, e, calls'[e])
    <3>1. calls'[e] = calls[e] \/ calls'[e] = Append(calls[e], Observe)
      BY <1>1 DEF TypeOK
    <3>2. Observe.op # "put"
      BY DEF Observe
    <3>3. GenuinePuts(hist, e, Append(calls[e], Observe))
      BY <2>1, <3>2, QueueTypes DEF QueuesGenuine, GenuinePuts
    <3> QED BY <2>1, <3>1, <3>3 DEF QueuesGenuine
  <2> QED BY <1>1, <2>1, <2>2, <2>3 DEF QueuesGenuine, ScreensGenuine, SharedAt
<1> QED BY <1>1, <1>2, <1>3 DEF VotesGenuine

\* The inductive invariant of VotesConsistent and NoForgedVote.
VotesInv == Inductive /\ Ordered /\ VotesGenuine

\* At the start there are the seeds only.
LEMMA VotesGenuineInit == VotesInit => VotesGenuine
<1> SUFFICES ASSUME VotesInit PROVE VotesGenuine
  OBVIOUS
<1>1. /\ hist = [k \in Key |-> <<>>]
      /\ lists = [d \in Device |-> [s \in Screen |-> NotLoaded]] /\ detail = [d \in Device |-> Closed]
      /\ \A d \in Device : calls[d] = <<>> /\ up[d] = <<>> /\ puts[d] = <<>> /\ toAck[d] = <<>>
           /\ events[d] = <<>>
  BY DEF VotesInit, Init
<1>2. VotesTypeOK
  BY <1>1 DEF VotesTypeOK
<1>3. GenuineHistory(hist)
  BY <1>1 DEF GenuineHistory
<1>4. ASSUME NEW d \in Device PROVE SharedAt(d) /\ QueuesGenuine(d) /\ ScreensGenuine(d)
  <2>1. /\ calls[d] = <<>> /\ up[d] = <<>> /\ puts[d] = <<>> /\ toAck[d] = <<>> /\ events[d] = <<>>
        /\ ~ detail[d].open /\ \A s \in Screen : lists[d][s] = NotLoaded
    BY <1>1 DEF Closed
  <2>2. QueuesGenuine(d)
    BY <2>1 DEF QueuesGenuine, GenuinePuts, GenuineEvents
  <2> QED BY <2>1, <2>2 DEF SharedAt, ScreensGenuine, GenuineScreens
<1> QED BY <1>2, <1>3, <1>4 DEF VotesGenuine

\* Every step of the screens is a step of the store, or none, and keeps votes genuine.
LEMMA VotesStep ==
  ASSUME VotesInv, [VotesNext]_votesVars
  PROVE  [Next]_vars /\ VotesGenuine'
<1>0. Inductive /\ Ordered /\ VotesGenuine /\ TypeOK
  BY DEF VotesInv, Inductive
<1>1. ASSUME NEW d \in Device, NEW s \in Screen, NEW k \in Key, VoteOnList(d, s, k)
      PROVE  [Next]_vars /\ VotesGenuine'
  BY <1>0, <1>1, VoteOnListGenuine DEF Next
<1>2. ASSUME NEW d \in Device, VoteOnDetail(d) PROVE [Next]_vars /\ VotesGenuine'
  BY <1>0, <1>2, VoteOnDetailGenuine DEF Next
<1>3. ASSUME NEW d \in Device, NEW k \in Key, OpenDetails(d, k) PROVE [Next]_vars /\ VotesGenuine'
  BY <1>0, <1>3, OpenDetailsGenuine DEF OpenDetails
<1>4. ASSUME NEW d \in Device, CloseDetails(d) PROVE [Next]_vars /\ VotesGenuine'
  BY <1>0, <1>4, CloseDetailsGenuine DEF CloseDetails
<1>5. ASSUME NEW d \in Device, RetrievedPosts(d) PROVE [Next]_vars /\ VotesGenuine'
  <2>1. Next
    BY <1>5 DEF RetrievedPosts, Next, Infrastructure
  <2> QED BY <1>0, <1>5, <2>1, RetrievedPostsGenuine
<1>6. ASSUME NEW d \in Device, UpdatedPost(d) PROVE [Next]_vars /\ VotesGenuine'
  <2>1. Next
    BY <1>6 DEF UpdatedPost, Next, Infrastructure
  <2> QED BY <1>0, <1>6, <2>1, UpdatedPostGenuine
<1>7. ASSUME NEW d \in Device, RestartScreens(d) PROVE [Next]_vars /\ VotesGenuine'
  <2>1. Next
    BY <1>7 DEF RestartScreens, Next, Mishap
  <2> QED BY <1>0, <1>7, <2>1, RestartGenuine
<1>8. ASSUME NEW d \in Device, DataLayer(d) PROVE [Next]_vars /\ VotesGenuine'
  <2>1. Next
    BY <1>8 DEF DataLayer, Below, Next, Infrastructure, Mishap
  <2> QED BY <1>0, <1>8, <2>1, BelowGenuine
<1>9. CASE UNCHANGED votesVars
  <2>1. UNCHANGED <<vars, hist, calls, up, puts, toAck, events, lists, detail>>
    BY <1>9 DEF votesVars, vars, net, client, screens
  <2> QED
    BY <1>0, <2>1 DEF VotesGenuine, VotesTypeOK, SharedAt, QueuesGenuine, ScreensGenuine
<1> QED BY <1>1, <1>2, <1>3, <1>4, <1>5, <1>6, <1>7, <1>8, <1>9 DEF VotesNext

\* VotesInv holds throughout.
THEOREM VotesInvariant == VotesSpec => []VotesInv
<1>1. VotesInit => VotesInv
  BY StoreAssumption, InductiveInit, OrderedInit, VotesGenuineInit DEF VotesInit, VotesInv
<1>2. VotesInv /\ [VotesNext]_votesVars => VotesInv'
  <2> SUFFICES ASSUME VotesInv, [VotesNext]_votesVars PROVE VotesInv'
    OBVIOUS
  <2>1. [Next]_vars /\ VotesGenuine' /\ Inductive /\ Ordered
    BY VotesStep DEF VotesInv
  <2>2. Inductive'
    BY <2>1, InductiveStep, StoreAssumption
  <2>3. Ordered'
    BY <2>1, <2>2, OrderedStep
  <2> QED BY <2>1, <2>2, <2>3 DEF VotesInv
<1> QED BY <1>1, <1>2, PTL DEF VotesSpec

\* The screens implement the store's specification: they write what it takes for
\* values, so all that RealtimeStore promises its clients holds for the posts.
THEOREM VotesUseStore == VotesSpec => Spec
<1>1. VotesInit => Init
  BY DEF VotesInit
<1>2. VotesInv /\ [VotesNext]_votesVars => [Next]_vars
  BY VotesStep
<1> QED BY <1>1, <1>2, VotesInvariant, PTL DEF VotesSpec, Spec

\* The two counts of a post are the sizes of its two lists of voters, in the database,
\* on every screen, in every collection that is posted and in every write on its way
\* (upvoteTapped and downvoteTapped change list and count together): for any devices,
\* users, posts and taps, and any lost connections, refusals and kills.
THEOREM VotesStayConsistent == VotesSpec => []VotesConsistent
<1>1. VotesInv => VotesConsistent
  <2> SUFFICES ASSUME VotesInv PROVE VotesConsistent
    OBVIOUS
  <2>1. TypeOK /\ VotesGenuine
    BY DEF VotesInv, Inductive
  <2>2. ASSUME NEW k \in Key, NEW n \in DOMAIN hist[k] PROVE Consistent(hist[k][n].val)
    BY <2>1 DEF VotesGenuine, GenuineHistory
  <2>3. ASSUME NEW d \in Device
        PROVE  /\ \A i \in DOMAIN calls[d] : calls[d][i] # Observe => Consistent(calls[d][i].val)
               /\ \A i \in DOMAIN puts[d] : Consistent(puts[d][i].val)
               /\ \A i \in DOMAIN toAck[d] : Consistent(toAck[d][i].val)
               /\ \A i \in DOMAIN events[d] : events[d][i].kind = "value" =>
                     \A k \in Key : Consistent(events[d][i].snap[k])
               /\ \A s \in Screen : lists[d][s] # NotLoaded =>
                     \A k \in Key : Consistent(lists[d][s][k])
               /\ detail[d].open => Consistent(detail[d].post)
    <3>1. QueuesGenuine(d) /\ ScreensGenuine(d)
      BY <2>1 DEF VotesGenuine
    <3>2. \A S, s : s \in Seq(S) => \A i \in DOMAIN s : s[i] \in S
      BY ElementOfSeq
    <3>3. /\ \A x \in {Observe} \cup Put : x # Observe => x.op = "put"
          /\ \A x \in Put \cup Answered : x.op = "put"
      BY DEF Put, Answered
    <3>4. \A i \in DOMAIN calls[d] : calls[d][i] # Observe => Consistent(calls[d][i].val)
      BY <2>1, <3>1, <3>2, <3>3, QueueTypes DEF QueuesGenuine, GenuinePuts, Genuine
    <3>5. \A i \in DOMAIN puts[d] : Consistent(puts[d][i].val)
      BY <2>1, <3>1, <3>2, <3>3, QueueTypes DEF QueuesGenuine, GenuinePuts, Genuine
    <3>6. \A i \in DOMAIN toAck[d] : Consistent(toAck[d][i].val)
      BY <2>1, <3>1, <3>2, <3>3, QueueTypes DEF QueuesGenuine, GenuinePuts, Genuine
    <3>7. \A i \in DOMAIN events[d] : events[d][i].kind = "value" =>
             \A k \in Key : Consistent(events[d][i].snap[k])
      BY <3>1 DEF QueuesGenuine, GenuineEvents, GenuineAll, Genuine
    <3>8. /\ \A s \in Screen : lists[d][s] # NotLoaded =>
                \A k \in Key : Consistent(lists[d][s][k])
          /\ detail[d].open => Consistent(detail[d].post)
      BY <3>1 DEF ScreensGenuine, GenuineScreens, GenuineAll, Genuine
    <3> QED BY <3>4, <3>5, <3>6, <3>7, <3>8
  <2> QED BY <2>2, <2>3 DEF VotesConsistent
<1> QED BY <1>1, VotesInvariant, PTL

\* A stored post holds no vote of another user than its writer that was not stored
\* before: a whole post is written (setValue of all its fields), and what it writes for
\* the others, stale as it may be, is what each of them had once chosen.
THEOREM VotesNotForged == VotesSpec => []NoForgedVote
<1>1. VotesInv => NoForgedVote
  <2> SUFFICES ASSUME VotesInv,
                      NEW k \in Key, NEW n \in DOMAIN hist[k],
                      NEW u \in User \ {UserOf[hist[k][n].by]}
               PROVE  \E m \in 0..(n - 1) : VoteOf(Stored(k, m), u) = VoteOf(hist[k][n].val, u)
    BY DEF NoForgedVote
  <2>1. Known(hist, k, n - 1, u, VoteOf(hist[k][n].val, u))
    BY DEF VotesInv, VotesGenuine, GenuineHistory
  <2> QED BY <2>1 DEF Known, StoredIn, Stored
<1> QED BY <1>1, VotesInvariant, PTL

-----------------------------------------------------------------------------
(* The lists *)

\* A call of setValue waits that writes something else than v to k.
Overtaken(C, k, v) == \E i \in Numbered(C) : C[i].key = k /\ C[i].val # v

\* The lists L against the last snapshot sh that they were given: with none posted, a
\* list of a client that has the collection differs from it only in a record that a
\* waiting call will write.
Listed(L, sh, sy, E, C) ==
  /\ \A s \in Screen : L[s] = NotLoaded <=> sh = NotLoaded
  /\ sy /\ Values(E) = {} /\ sh # NotLoaded =>
       \A s \in Screen, k \in Key : L[s][k] = sh[k] \/ Overtaken(C, k, sh[k])

\* The inductive invariant of ListsAgree.
ListsShow == \A d \in Device : Listed(lists[d], shown[d], synced[d], events[d], calls[d])

\* A call more, and the first call less.
LEMMA OvertakenMore ==
  ASSUME NEW C \in Seq(Calling), NEW x \in Calling, NEW k, NEW v
  PROVE  /\ Overtaken(C, k, v) => Overtaken(Append(C, x), k, v)
         /\ x # Observe /\ x.key = k /\ x.val # v => Overtaken(Append(C, x), k, v)
         /\ C # <<>> /\ Overtaken(C, k, v) =>
               \/ Overtaken(Tail(C), k, v)
               \/ Head(C) # Observe /\ Head(C).key = k /\ Head(C).val # v
<1>0. "id" \notin DOMAIN Observe
  BY DEF Observe
<1>1. ASSUME Overtaken(C, k, v) PROVE Overtaken(Append(C, x), k, v)
  <2>1. PICK i \in Numbered(C) : C[i].key = k /\ C[i].val # v
    BY <1>1 DEF Overtaken
  <2>2. i \in Numbered(Append(C, x)) /\ Append(C, x)[i] = C[i]
    BY <2>1 DEF Numbered
  <2> QED BY <2>1, <2>2 DEF Overtaken
<1>2. ASSUME x # Observe, x.key = k, x.val # v PROVE Overtaken(Append(C, x), k, v)
  <2>1. "id" \in DOMAIN x
    BY <1>2 DEF Calling, Put
  <2>2. Len(C) + 1 \in Numbered(Append(C, x)) /\ Append(C, x)[Len(C) + 1] = x
    BY <2>1 DEF Numbered
  <2> QED BY <1>2, <2>2 DEF Overtaken
<1>3. ASSUME C # <<>>, Overtaken(C, k, v)
      PROVE  \/ Overtaken(Tail(C), k, v)
             \/ Head(C) # Observe /\ Head(C).key = k /\ Head(C).val # v
  <2>1. PICK i \in Numbered(C) : C[i].key = k /\ C[i].val # v
    BY <1>3 DEF Overtaken
  <2>2. i \in 1..Len(C) /\ "id" \in DOMAIN C[i]
    BY <2>1 DEF Numbered
  <2>3. CASE i = 1
    BY <1>0, <1>3, <2>1, <2>2, <2>3
  <2>4. CASE i # 1
    <3>1. i - 1 \in Numbered(Tail(C)) /\ Tail(C)[i - 1] = C[i]
      BY <1>3, <2>2, <2>4 DEF Numbered
    <3> QED BY <2>1, <3>1 DEF Overtaken
  <2> QED BY <2>3, <2>4
<1> QED BY <1>1, <1>2, <1>3

\* At the start no list is loaded.
LEMMA ListsShowInit == VotesInit => ListsShow
<1> SUFFICES ASSUME VotesInit, NEW d \in Device
             PROVE  Listed(lists[d], shown[d], synced[d], events[d], calls[d])
  BY DEF ListsShow
<1>1. shown[d] = NotLoaded /\ events[d] = <<>> /\ \A s \in Screen : lists[d][s] = NotLoaded
  BY DEF VotesInit, Init
<1> QED BY <1>1 DEF Listed, Values

\* What is posted, when a changed view or an event is.
LEMMA ValuesMore ==
  ASSUME NEW d \in Device, TypeOK, NEW view, events[d] \o Changed(d, view) \in Seq(Event),
         NEW x \in Event
  PROVE  /\ Values(events[d] \o Changed(d, view)) = {} => Values(events[d]) = {}
         /\ Values(events[d] \o Changed(d, view)) # {} => Values(events[d]) # {} \/ synced[d]
         /\ synced[d] /\ view # View(d) => Values(events[d] \o Changed(d, view)) # {}
         /\ Values(Append(events[d], x)) = {} => Values(events[d]) = {}
         /\ Values(Append(events[d], x)) # {} => Values(events[d]) # {} \/ x.kind = "value"
         /\ x.kind = "value" => Values(Append(events[d], x)) # {}
<1>0. PICK E \in Seq(Event) : E = events[d]
  BY QueueTypes
<1>1. /\ \A i \in Values(Append(E, x)) : (i \in Values(E) /\ Append(E, x)[i] = E[i]) \/ i = Len(E) + 1
      /\ \A i \in Values(E) : i \in Values(Append(E, x)) /\ Append(E, x)[i] = E[i] /\ i \in 1..Len(E)
      /\ Len(E) + 1 \in Values(Append(E, x)) <=> x.kind = "value"
      /\ Append(E, x)[Len(E) + 1] = x /\ Len(E) \in Nat
  BY ValuesAppend
<1>2. PICK y : y = [kind |-> "value", snap |-> view]
  OBVIOUS
<1>3. Changed(d, view) = IF synced[d] /\ view # View(d) THEN <<y>> ELSE <<>>
  BY <1>2 DEF Changed
<1>4. CASE synced[d] /\ view # View(d)
  <2>1. E \o <<y>> \in Seq(Event) /\ Len(E) + 1 \in 1..Len(E \o <<y>>) /\ (E \o <<y>>)[Len(E) + 1] = y
    BY <1>0, <1>3, <1>4
  <2>2. Len(E) + 1 \in Values(E \o <<y>>)
    BY <1>2, <2>1 DEF Values
  <2> QED BY <1>0, <1>1, <1>3, <1>4, <2>2
<1>5. CASE ~ (synced[d] /\ view # View(d))
  <2>1. Changed(d, view) = <<>>
    BY <1>3, <1>5
  <2>2. E \o <<>> = E
    OBVIOUS
  <2>3. events[d] \o Changed(d, view) = events[d]
    BY <1>0, <2>1, <2>2
  <2> QED BY <1>0, <1>1, <1>5, <2>3
<1> QED BY <1>4, <1>5

\* The last write of a sequence is what a view shows.
LEMMA LastWritten ==
  ASSUME NEW vers, NEW S, NEW s \in Seq(S), NEW x \in S, x.key \in Key
  PROVE  Overlay(vers, Append(s, x))[x.key] = x.val
<1> DEFINE w == Append(s, x)
<1>1. /\ Len(w) \in WritesTo(x.key, w) /\ w[Len(w)] = x /\ Len(w) \in Nat
      /\ \A j \in WritesTo(x.key, w) : j \in 1..Len(w)
  BY DEF WritesTo
<1> HIDE DEF w
<1>2. Len(w) = CHOOSE i \in WritesTo(x.key, w) : \A j \in WritesTo(x.key, w) : j <= i
  <2>1. \A j \in WritesTo(x.key, w) : j <= Len(w)
    BY <1>1
  <2>2. \A i \in WritesTo(x.key, w) : (\A j \in WritesTo(x.key, w) : j <= i) => i = Len(w)
    <3> SUFFICES ASSUME NEW i \in WritesTo(x.key, w), \A j \in WritesTo(x.key, w) : j <= i
                 PROVE  i = Len(w)
      OBVIOUS
    <3>1. i \in 1..Len(w) /\ Len(w) <= i
      BY <1>1
    <3> QED BY <1>1, <3>1
  <2> QED BY <1>1, <2>1, <2>2
<1>3. Overlay(vers, w)[x.key] = w[Len(w)].val
  BY <1>1, <1>2 DEF Overlay
<1> QED BY <1>1, <1>3 DEF w

\* Nothing a list depends on changes; a call may be added.
LEMMA SameLists ==
  ASSUME NEW e \in Device, Listed(lists[e], shown[e], synced[e], events[e], calls[e]),
         lists'[e] = lists[e], shown'[e] = shown[e], synced'[e] = synced[e], events'[e] = events[e],
         calls'[e] = calls[e] \/ (TypeOK /\ \E x \in Calling : calls'[e] = Append(calls[e], x))
  PROVE  Listed(lists'[e], shown'[e], synced'[e], events'[e], calls'[e])
<1>1. CASE calls'[e] = calls[e]
  BY <1>1
<1>2. CASE TypeOK /\ \E x \in Calling : calls'[e] = Append(calls[e], x)
  <2>1. \A k, v : Overtaken(calls[e], k, v) => Overtaken(calls'[e], k, v)
    BY <1>2, QueueTypes, OvertakenMore DEF Calling
  <2> QED BY <2>1 DEF Listed
<1> QED BY <1>1, <1>2

\* The last of two sequences in a row.
LEMMA AppendLast ==
  ASSUME NEW S, NEW s \in Seq(S), NEW t \in Seq(S), NEW x \in S
  PROVE  s \o Append(t, x) = Append(s \o t, x)
OBVIOUS

\* A call leaves the queue: its post is what was last shown, or the view changes and is
\* posted.
LEMMA RunPutLists ==
  ASSUME Inductive, Shows, ListsShow, NEW d \in Device, RunPut(d), lists' = lists
  PROVE  ListsShow'
<1> SUFFICES ASSUME NEW e \in Device
             PROVE  Listed(lists'[e], shown'[e], synced'[e], events'[e], calls'[e])
  BY DEF ListsShow
<1>0. TypeOK /\ Listed(lists[e], shown[e], synced[e], events[e], calls[e])
  BY DEF Inductive, ListsShow
<1>1. lists'[e] = lists[e] /\ shown'[e] = shown[e] /\ synced'[e] = synced[e]
  BY DEF RunPut
<1>2. CASE e # d
  BY <1>0, <1>1, <1>2, SameLists DEF RunPut, TypeOK
<1>3. CASE e = d
  <2>1. PICK p : p = Head(calls[e])
    OBVIOUS
  <2>2. PICK view : view = Overlay(cache[e], toAck[e] \o Append(puts[e], p))
    OBVIOUS
  <2>3. /\ calls[e] # <<>> /\ calls'[e] = Tail(calls[e]) /\ p # Observe
        /\ events'[e] = events[e] \o Changed(e, view)
    BY <1>0, <1>3, <2>1, <2>2 DEF RunPut, TypeOK
  <2>4. calls[e] \in Seq(Calling) /\ p \in Put /\ p.key \in Key
    <3>1. calls[e] \in Seq(Calling) /\ p \in Calling
      BY <1>0, <2>1, <2>3, QueueTypes, HeadTailProperties DEF Calling
    <3> QED BY <2>3, <3>1 DEF Calling, Put
  <2>5. view[p.key] = p.val /\ view \in Snapshot
    <3>1. toAck[e] \o puts[e] \in Seq(Answered \cup Put) /\ p \in Answered \cup Put
      BY <1>0, <2>4, ShowTypes, PendingType
    <3>2. toAck[e] \o Append(puts[e], p) = Append(toAck[e] \o puts[e], p)
      <4>1. toAck[e] \in Seq(Answered \cup Put) /\ puts[e] \in Seq(Answered \cup Put)
        BY <1>0, QueueTypes, SeqMonotonic
      <4>2. \A t, u \in Seq(Answered \cup Put), x \in Answered \cup Put :
              t \o Append(u, x) = Append(t \o u, x)
        BY AppendLast
      <4> QED BY <3>1, <4>1, <4>2
    <3>3. PICK w \in Seq(Answered \cup Put) : w = toAck[e] \o puts[e]
      BY <3>1
    <3>4. Append(w, p) \in Seq(Answered \cup Put) /\ view = Overlay(cache[e], Append(w, p))
      BY <2>2, <3>1, <3>2, <3>3
    <3>5. p \in Answered \cup Put /\ p.key \in Key
      BY <2>4, <3>1
    <3>6. Overlay(cache[e], Append(w, p))[p.key] = p.val
      BY <3>5, LastWritten
    <3>7. view[p.key] = p.val
      BY <3>4, <3>6
    <3> QED BY <3>4, <3>7, ViewSnapshot
  <2>6. events'[e] \in Seq(Event)
    <3>1. synced[e] => events[e] \o Changed(e, view) \in Seq(Event)
      BY <1>0, <2>5, ShowingChanged DEF Shows, ShowsView
    <3>2. ~ synced[e] => Changed(e, view) = <<>>
      BY DEF Changed
    <3>3. events[e] \o <<>> = events[e] /\ events[e] \in Seq(Event)
      BY <1>0, QueueTypes
    <3> QED BY <2>3, <3>1, <3>2, <3>3
  <2>7. Values(events'[e]) = {} => Values(events[e]) = {} /\ (synced[e] => view = View(e))
    <3>1. \E x : x \in Event
      <4>1. [kind |-> "value", snap |-> view] \in Event
        BY <2>5 DEF Event, ValueEv
      <4> QED BY <4>1
    <3> QED BY <1>0, <2>3, <2>6, <3>1, ValuesMore
  <2>8. synced[e] /\ Values(events'[e]) = {} /\ shown[e] # NotLoaded => shown[e] = view
    BY <1>0, <2>7 DEF Listed, Shows, ShowsView, Showing
  <2>9. ASSUME synced[e], Values(events'[e]) = {}, shown[e] # NotLoaded, NEW s \in Screen, NEW k \in Key
        PROVE  lists[e][s][k] = shown[e][k] \/ Overtaken(calls'[e], k, shown[e][k])
    <3>1. lists[e][s][k] = shown[e][k] \/ Overtaken(calls[e], k, shown[e][k])
      BY <1>0, <2>7, <2>9 DEF Listed
    <3>2. ~ (p.key = k /\ p.val # shown[e][k])
      BY <2>5, <2>8, <2>9
    <3> QED BY <2>1, <2>3, <2>4, <3>1, <3>2, OvertakenMore
  <2> QED BY <1>0, <1>1, <2>7, <2>9 DEF Listed
<1> QED BY <1>2, <1>3

\* A new observer is given the view.
LEMMA RunObserveLists ==
  ASSUME Inductive, ListsShow, NEW d \in Device, RunObserve(d), lists' = lists
  PROVE  ListsShow'
<1> SUFFICES ASSUME NEW e \in Device
             PROVE  Listed(lists'[e], shown'[e], synced'[e], events'[e], calls'[e])
  BY DEF ListsShow
<1>0. TypeOK /\ Listed(lists[e], shown[e], synced[e], events[e], calls[e])
  BY DEF Inductive, ListsShow
<1>1. lists'[e] = lists[e] /\ shown'[e] = shown[e] /\ synced'[e] = synced[e]
  BY DEF RunObserve
<1>2. CASE e # d
  BY <1>0, <1>1, <1>2, SameLists DEF RunObserve, TypeOK
<1>3. CASE e = d
  <2>1. PICK x : x = [kind |-> "value", snap |-> View(e)]
    OBVIOUS
  <2>2. /\ calls[e] # <<>> /\ calls'[e] = Tail(calls[e]) /\ Head(calls[e]) = Observe
        /\ events'[e] = IF synced[e] THEN Append(events[e], x) ELSE events[e]
    BY <1>0, <1>3, <2>1 DEF RunObserve, TypeOK
  <2>3. \A k, v : Overtaken(calls[e], k, v) => Overtaken(calls'[e], k, v)
    <3>1. calls[e] \in Seq(Calling) /\ Observe \in Calling
      BY <1>0, QueueTypes DEF Calling
    <3> QED BY <2>2, <3>1, OvertakenMore
  <2>4. x \in Event /\ x.kind = "value"
    <3>1. View(e) \in Snapshot
      BY <1>0, ShowTypes, PendingType, ViewSnapshot DEF View
    <3> QED BY <2>1, <3>1 DEF Event, ValueEv
  <2>5. CASE synced[e]
    <3>1. Values(Append(events[e], x)) # {}
      <4>1. events[e] \in Seq(Event)
        BY <1>0, QueueTypes
      <4> QED BY <2>4, <4>1, ValuesAppend
    <3> QED BY <1>0, <1>1, <2>2, <2>5, <3>1 DEF Listed
  <2>6. CASE ~ synced[e]
    BY <1>0, <1>1, <2>2, <2>3, <2>6 DEF Listed
  <2> QED BY <2>5, <2>6
<1> QED BY <1>2, <1>3

\* More is posted.
LEMMA MoreEventsLists ==
  ASSUME TypeOK, NEW e \in Device, Listed(lists[e], shown[e], synced[e], events[e], calls[e]),
         lists'[e] = lists[e], shown'[e] = shown[e], calls'[e] = calls[e],
         NEW F, F \in Seq(Event), events'[e] = events[e] \o F,
         synced'[e] => synced[e] \/ Values(F) # {}
  PROVE  Listed(lists'[e], shown'[e], synced'[e], events'[e], calls'[e])
<1>1. events[e] \in Seq(Event)
  BY QueueTypes
<1>2. Values(events'[e]) = {} => Values(events[e]) = {}
  <2>1. \A i \in Values(events[e]) : i \in Values(events[e] \o F)
    BY <1>1 DEF Values
  <2> QED BY <2>1
<1>3. Values(events'[e]) = {} => Values(F) = {}
  <2>1. \A i \in Values(F) : Len(events[e]) + i \in Values(events[e] \o F)
    BY <1>1 DEF Values
  <2> QED BY <2>1
<1> QED BY <1>2, <1>3 DEF Listed

\* Data and acknowledgements post what changes.
LEMMA ClientLists ==
  ASSUME Inductive, ListsShow, NEW d \in Device, ReceiveData(d) \/ AckPut(d), lists' = lists
  PROVE  ListsShow'
<1> SUFFICES ASSUME NEW e \in Device
             PROVE  Listed(lists'[e], shown'[e], synced'[e], events'[e], calls'[e])
  BY DEF ListsShow
<1>0. TypeOK /\ Listed(lists[e], shown[e], synced[e], events[e], calls[e])
  BY DEF Inductive, ListsShow
<1>1. lists'[e] = lists[e] /\ shown'[e] = shown[e] /\ calls'[e] = calls[e]
  BY <1>0 DEF ReceiveData, AckPut, TypeOK
<1>2. CASE e # d
  BY <1>0, <1>1, <1>2, SameLists DEF ReceiveData, AckPut, TypeOK
<1>3. CASE e = d /\ ReceiveData(d)
  <2>1. Inductive'
    <3>1. Next
      BY <1>3 DEF Next, Infrastructure
    <3> QED BY <3>1, InductiveStep, StoreAssumption
  <2>2. PICK view : view = Overlay(Received(e, Head(down[e])), toAck[e] \o puts[e])
    OBVIOUS
  <2>3. PICK x : x = [kind |-> "value", snap |-> view]
    OBVIOUS
  <2>4. synced'[e] /\ events'[e] = events[e] \o (IF synced[e] THEN Changed(e, view) ELSE <<x>>)
    BY <1>0, <1>3, <2>2, <2>3 DEF ReceiveData, TypeOK
  <2>5. view \in Snapshot
    <3>1. cache'[e] = Received(e, Head(down[e])) /\ hist' = hist
      BY <1>0, <1>3 DEF ReceiveData, TypeOK
    <3>2. cache'[e] \in [Key -> Nat] /\ \A k \in Key : cache'[e][k] <= Len(hist[k])
      <4>1. (cache[e] \in [Key -> Nat] /\ \A k \in Key : cache[e][k] <= Len(hist[k]))'
        BY <2>1 DEF Inductive, TypeOK, VersionsOrdered, InOrder
      <4> QED BY <3>1, <4>1
    <3>3. toAck[e] \o puts[e] \in Seq(Answered \cup Put)
      BY <1>0, ShowTypes, PendingType
    <3> QED BY <1>0, <2>2, <3>1, <3>2, <3>3, OverlaySnapshot, StoreAssumption
  <2>6. Changed(e, view) \in Seq(Event) /\ <<x>> \in Seq(Event)
    <3>1. x \in Event
      BY <2>3, <2>5 DEF Event, ValueEv
    <3> QED BY <2>3, <3>1 DEF Changed
  <2>7. PICK F \in Seq(Event) :
           /\ F = IF synced[e] THEN Changed(e, view) ELSE <<x>>
           /\ synced[e] \/ Values(F) # {}
    <3>1. \A s : 1 \in DOMAIN s /\ s[1].kind = "value" => Values(s) # {}
      BY DEF Values
    <3>2. 1 \in DOMAIN <<x>> /\ <<x>>[1].kind = "value"
      BY <2>3
    <3>3. Values(<<x>>) # {}
      BY <3>1, <3>2
    <3>4. CASE synced[e]
      BY <2>6, <3>4
    <3>5. CASE ~ synced[e]
      BY <2>6, <3>3, <3>5
    <3> QED BY <3>4, <3>5
  <2> QED BY <1>0, <1>1, <2>4, <2>7, MoreEventsLists
<1>4. CASE e = d /\ AckPut(d)
  <2>1. PICK p : p = Head(toAck[e])
    OBVIOUS
  <2>2. PICK view : view = Overlay(cache[e], Tail(toAck[e]) \o puts[e])
    OBVIOUS
  <2>3. PICK x : x = [kind |-> "value", snap |-> view]
    OBVIOUS
  <2>4. PICK y : y = [kind |-> "done", id |-> p.id, key |-> p.key, ok |-> p.ok]
    OBVIOUS
  <2>5. /\ synced' = synced /\ toAck[e] # <<>>
        /\ events'[e] = (events[e] \o Changed(e, view)) \o <<y>>
    BY <1>0, <1>4, <2>1, <2>2, <2>4 DEF AckPut, TypeOK
  <2>6. y \in Event /\ y.kind # "value"
    <3>1. p \in Answered
      BY <1>0, <2>1, <2>5, QueueTypes, HeadTailProperties
    <3> QED BY <2>4, <3>1 DEF Answered, Event, DoneEv
  <2>7. view \in Snapshot
    <3>1. Tail(toAck[e]) \in Seq(Answered)
      BY <1>0, <2>5, QueueTypes
    <3>2. Tail(toAck[e]) \o puts[e] \in Seq(Answered \cup Put)
      BY <1>0, <3>1, QueueTypes, PendingType
    <3> QED BY <2>2, <3>2, ViewSnapshot
  <2>8. x \in Event /\ x.kind = "value"
    BY <2>3, <2>7 DEF Event, ValueEv
  <2>9. Changed(e, view) = IF synced[e] /\ view # View(e) THEN <<x>> ELSE <<>>
    BY <2>3 DEF Changed
  <2>10. CASE synced[e] /\ view # View(e)
    <3>1. PICK F \in Seq(Event) : F = <<x, y>>
      <4>1. <<x, y>> \in Seq(Event)
        BY <2>6, <2>8
      <4> QED BY <4>1
    <3>2. (events[e] \o <<x>>) \o <<y>> = events[e] \o <<x, y>>
      BY <1>0, <2>6, <2>8, QueueTypes
    <3>3. events'[e] = events[e] \o F
      BY <2>5, <2>9, <2>10, <3>1, <3>2
    <3> QED BY <1>0, <1>1, <2>5, <2>10, <3>3, MoreEventsLists
  <2>11. CASE ~ (synced[e] /\ view # View(e))
    <3>1. PICK F \in Seq(Event) : F = <<y>> /\ Values(F) = {}
      <4>1. <<y>> \in Seq(Event) /\ Values(<<y>>) = {}
        BY <2>6 DEF Values
      <4> QED BY <4>1
    <3>2. events[e] \o <<>> = events[e]
      BY <1>0, QueueTypes
    <3>3. events'[e] = events[e] \o F
      BY <2>5, <2>9, <2>11, <3>1, <3>2
    <3> QED BY <1>0, <1>1, <2>5, <3>1, <3>3, MoreEventsLists
  <2> QED BY <2>10, <2>11
<1> QED BY <1>2, <1>3, <1>4

\* Steps that post nothing.
LEMMA RestLists ==
  ASSUME TypeOK, ListsShow, NEW d \in Device, lists' = lists,
         \/ RetrieveAll(d) \/ Connect(d) \/ Disconnect(d) \/ ReceiveListenOk(d) \/ ReceivePutDone(d)
         \/ ReceiveDenial(d) \/ ServerListen(d) \/ ServerAccept(d) \/ ServerReject(d)
         \/ ServerDeny(d)
  PROVE  ListsShow'
<1> SUFFICES ASSUME NEW e \in Device
             PROVE  Listed(lists'[e], shown'[e], synced'[e], events'[e], calls'[e])
  BY DEF ListsShow
<1>1. Listed(lists[e], shown[e], synced[e], events[e], calls[e])
  BY DEF ListsShow
<1>2. shown' = shown /\ events' = events /\ (synced'[e] => synced[e])
  <2>1. shown' = shown /\ events' = events
    BY DEF RetrieveAll, Connect, Disconnect, ReceiveListenOk, ReceiveDenial, ReceivePutDone,
           ServerListen, ServerAccept, ServerReject, ServerDeny, client
  <2>2. CASE ReceiveDenial(d)
    BY <2>1, <2>2 DEF ReceiveDenial, TypeOK
  <2>3. CASE ~ ReceiveDenial(d)
    <3>1. synced' = synced
      BY <2>3 DEF RetrieveAll, Connect, Disconnect, ReceiveListenOk, ReceivePutDone,
             ServerListen, ServerAccept, ServerReject, ServerDeny, client
    <3> QED BY <2>1, <3>1
  <2> QED BY <2>2, <2>3
<1>3. calls'[e] = calls[e] \/ calls'[e] = Append(calls[e], Observe)
  BY DEF TypeOK, RetrieveAll, Connect, Disconnect, ReceiveListenOk, ReceiveDenial,
         ReceivePutDone, ServerListen, ServerAccept, ServerReject, ServerDeny
<1>4. Observe \in Calling
  BY DEF Calling
<1>5. Listed(lists[e], shown[e], synced[e], events[e], calls'[e])
  <2>1. \A k, v : Overtaken(calls[e], k, v) => Overtaken(calls'[e], k, v)
    <3>1. calls[e] \in Seq(Calling)
      BY QueueTypes DEF Calling
    <3>2. \A k, v : Overtaken(calls[e], k, v) => Overtaken(Append(calls[e], Observe), k, v)
      BY <1>4, <3>1, OvertakenMore
    <3> QED BY <1>3, <3>2
  <2> QED BY <1>1, <2>1 DEF Listed
<1> QED BY <1>2, <1>5 DEF Listed

\* The first event is handled.
LEMMA HandledValues ==
  ASSUME NEW E \in Seq(Event), E # <<>>
  PROVE  /\ Values(Tail(E)) # {} => Values(E) # {}
         /\ Head(E).kind = "value" => Values(E) # {}
         /\ Head(E).kind # "value" /\ Values(Tail(E)) = {} => Values(E) = {}
<1>1. \A i \in Values(Tail(E)) : i + 1 \in Values(E)
  BY DEF Values
<1>2. Head(E).kind = "value" => 1 \in Values(E)
  BY DEF Values
<1>3. \A i \in Values(E) : (i = 1 /\ Head(E).kind = "value") \/ i - 1 \in Values(Tail(E))
  BY DEF Values
<1> QED BY <1>1, <1>2, <1>3

\* A completion block replaces no list.
LEMMA UpdatedPostLists ==
  ASSUME TypeOK, ListsShow, NEW d \in Device, UpdatedPost(d)
  PROVE  ListsShow'
<1> SUFFICES ASSUME NEW e \in Device
             PROVE  Listed(lists'[e], shown'[e], synced'[e], events'[e], calls'[e])
  BY DEF ListsShow
<1>1. Listed(lists[e], shown[e], synced[e], events[e], calls[e])
  BY DEF ListsShow
<1>2. /\ lists' = lists /\ shown' = shown /\ synced' = synced
      /\ events[d] # <<>> /\ Head(events[d]).kind = "done"
      /\ events'[e] = IF e = d THEN Tail(events[e]) ELSE events[e]
      /\ calls'[e] = calls[e] \/ calls'[e] = Append(calls[e], Observe)
  BY SMTT(30) DEF UpdatedPost, HandleDone, TypeOK, screens, client
<1>3. \A k, v : Overtaken(calls[e], k, v) => Overtaken(calls'[e], k, v)
  <2>1. Observe \in Calling /\ calls[e] \in Seq(Calling)
    BY QueueTypes DEF Calling
  <2> QED BY <1>2, <2>1, OvertakenMore
<1>4. Values(events'[e]) = {} => Values(events[e]) = {}
  <2>1. events[e] \in Seq(Event)
    BY QueueTypes
  <2> QED BY <1>2, <2>1, HandledValues
<1> QED BY <1>1, <1>2, <1>3, <1>4 DEF Listed

\* A snapshot replaces all of them.
LEMMA RetrievedPostsLists ==
  ASSUME TypeOK, VotesTypeOK, ListsShow, NEW d \in Device, RetrievedPosts(d)
  PROVE  ListsShow'
<1> SUFFICES ASSUME NEW e \in Device
             PROVE  Listed(lists'[e], shown'[e], synced'[e], events'[e], calls'[e])
  BY DEF ListsShow
<1>1. Listed(lists[e], shown[e], synced[e], events[e], calls[e])
  BY DEF ListsShow
<1>2. PICK r : r = Head(events[d]).snap
  OBVIOUS
<1>3. /\ synced' = synced /\ calls' = calls
      /\ events[d] # <<>> /\ Head(events[d]).kind = "value"
      /\ events'[e] = IF e = d THEN Tail(events[e]) ELSE events[e]
      /\ shown'[e] = IF e = d THEN r ELSE shown[e]
      /\ lists'[e] = IF e = d THEN [s \in Screen |-> r] ELSE lists[e]
  BY <1>2 DEF RetrievedPosts, HandleValue, TypeOK, VotesTypeOK, client
<1>4. CASE e # d
  BY <1>1, <1>3, <1>4
<1>5. CASE e = d
  BY <1>3, <1>5 DEF Listed
<1> QED BY <1>4, <1>5

\* A new process has none.
LEMMA RestartLists ==
  ASSUME TypeOK, VotesTypeOK, ListsShow, NEW d \in Device, RestartScreens(d)
  PROVE  ListsShow'
<1> SUFFICES ASSUME NEW e \in Device
             PROVE  Listed(lists'[e], shown'[e], synced'[e], events'[e], calls'[e])
  BY DEF ListsShow
<1>1. Listed(lists[e], shown[e], synced[e], events[e], calls[e])
  BY DEF ListsShow
<1>2. CASE e # d
  <2>1. /\ lists'[e] = lists[e] /\ shown'[e] = shown[e] /\ synced'[e] = synced[e]
        /\ events'[e] = events[e] /\ calls'[e] = calls[e]
    BY <1>2 DEF RestartScreens, Restart, TypeOK, VotesTypeOK
  <2> QED BY <1>1, <2>1
<1>3. CASE e = d
  <2>1. lists'[e] = [s \in Screen |-> NotLoaded] /\ shown'[e] = NotLoaded /\ events'[e] = <<>>
    BY <1>3 DEF RestartScreens, Restart, TypeOK, VotesTypeOK
  <2> QED BY <2>1 DEF Listed, Values
<1> QED BY <1>2, <1>3

\* A tap changes lists in one record, and calls setValue with what they show then.
LEMMA TappedLists ==
  ASSUME NEW L, NEW M, NEW sh, NEW sy, NEW E, NEW C \in Seq(Calling), Listed(L, sh, sy, E, C),
         NEW x \in Put, NEW k \in Key, x.key = k,
         \A s \in Screen : \/ M[s] = L[s]
                           \/ /\ L[s] # NotLoaded /\ M[s] # NotLoaded
                              /\ \A j \in Key : M[s][j] = IF j = k THEN x.val ELSE L[s][j]
  PROVE  Listed(M, sh, sy, E, Append(C, x))
<1>1. x \in Calling /\ x # Observe
  BY DEF Calling, Put, Observe
<1>2. \A j, v : Overtaken(C, j, v) => Overtaken(Append(C, x), j, v)
  BY <1>1, OvertakenMore
<1>3. \A v : x.val # v => Overtaken(Append(C, x), k, v)
  BY <1>1, OvertakenMore
<1>4. \A s \in Screen : M[s] = NotLoaded <=> sh = NotLoaded
  BY DEF Listed
<1>5. ASSUME sy, Values(E) = {}, sh # NotLoaded, NEW s \in Screen, NEW j \in Key
      PROVE  M[s][j] = sh[j] \/ Overtaken(Append(C, x), j, sh[j])
  <2>1. L[s][j] = sh[j] \/ Overtaken(C, j, sh[j])
    BY <1>5 DEF Listed
  <2>2. CASE M[s][j] = L[s][j]
    BY <1>2, <2>1, <2>2
  <2>3. CASE j = k /\ M[s][j] = x.val
    BY <1>3, <2>3
  <2> QED BY <2>2, <2>3
<1> QED BY <1>4, <1>5 DEF Listed

\* The two kinds of taps.
LEMMA VoteLists ==
  ASSUME Inductive, VotesGenuine, VotesGenuine', ListsShow, NEW d \in Device,
         (\E s \in Screen, k \in Key : VoteOnList(d, s, k)) \/ VoteOnDetail(d)
  PROVE  ListsShow'
<1> SUFFICES ASSUME NEW e \in Device
             PROVE  Listed(lists'[e], shown'[e], synced'[e], events'[e], calls'[e])
  BY DEF ListsShow
<1>0. /\ TypeOK /\ VotesTypeOK /\ VotesTypeOK'
      /\ Listed(lists[e], shown[e], synced[e], events[e], calls[e])
  BY DEF Inductive, VotesGenuine, ListsShow
<1> DEFINE Moves(k, new) ==
        /\ SetValue(d, k, new)
        /\ \A t \in Screen :
             \/ lists'[d][t] = lists[d][t]
             \/ lists[d][t] # NotLoaded /\ lists'[d][t] = [lists[d][t] EXCEPT ![k] = new]
        /\ \A c \in Device \ {d} : lists'[c] = lists[c]
<1>1. PICK k \in Key, new \in Value : Moves(k, new)
  <2>1. CASE \E s \in Screen, k \in Key : VoteOnList(d, s, k)
    <3>1. PICK s \in Screen, k \in Key : VoteOnList(d, s, k)
      BY <2>1
    <3>2. PICK new \in Tapped(lists[d][s][k], UserOf[d]) :
             /\ AddPostsToApi(d, s, k, lists[d][s][k], new)
             /\ lists' = [lists EXCEPT ![d][s][k] = new]
      BY <3>1 DEF VoteOnList
    <3>3. SetValue(d, k, new) /\ lists[d][s] # NotLoaded
      BY <3>1, <3>2 DEF VoteOnList, AddPostsToApi
    <3>4. new \in Value
      <4>1. Genuine(hist, d, k, lists[d][s][k])
        BY <3>3 DEF VotesGenuine, ScreensGenuine, GenuineScreens, GenuineAll
      <4> QED BY <3>2, <4>1, TapGenuine
    <3>5. /\ \A t \in Screen : \/ lists'[d][t] = lists[d][t]
                               \/ t = s /\ lists'[d][t] = [lists[d][t] EXCEPT ![k] = new]
          /\ \A c \in Device \ {d} : lists'[c] = lists[c]
      BY <1>0, <3>2 DEF VotesTypeOK
    <3>6. Moves(k, new)
      BY <3>3, <3>5
    <3> QED BY <3>4, <3>6
  <2>2. CASE VoteOnDetail(d)
    <3>1. PICK k : k = detail[d].key
      OBVIOUS
    <3>2. PICK new \in Tapped(detail[d].post, UserOf[d]) :
             /\ AddPostsToApi(d, "detail", k, detail[d].post, new)
             /\ lists' = IF detail[d].shared THEN [lists EXCEPT ![d]["feed"][k] = new] ELSE lists
      BY <2>2, <3>1 DEF VoteOnDetail
    <3>3. SetValue(d, k, new) /\ detail[d].open /\ detail[d] \in Opened /\ k \in Key
            /\ "feed" \in Screen
      BY <1>0, <2>2, <3>1, <3>2, DetailTypes, VotesAssumption DEF VoteOnDetail, AddPostsToApi
    <3>4. new \in Value
      <4>1. Genuine(hist, d, k, detail[d].post)
        BY <3>1, <3>3 DEF VotesGenuine, ScreensGenuine, GenuineScreens
      <4> QED BY <3>2, <4>1, TapGenuine
    <3>5. detail[d].shared => lists[d]["feed"] # NotLoaded
      BY <3>3 DEF VotesGenuine, SharedAt
    <3>6. CASE ~ detail[d].shared
      <4>1. Moves(k, new)
        BY <3>2, <3>3, <3>6
      <4> QED BY <3>3, <3>4, <4>1
    <3>7. CASE detail[d].shared
      <4>1. /\ \A t \in Screen : \/ lists'[d][t] = lists[d][t]
                                 \/ t = "feed" /\ lists'[d][t] = [lists[d][t] EXCEPT ![k] = new]
            /\ \A c \in Device \ {d} : lists'[c] = lists[c]
        BY <1>0, <3>2, <3>7 DEF VotesTypeOK
      <4>2. Moves(k, new)
        BY <3>3, <3>5, <3>7, <4>1
      <4> QED BY <3>3, <3>4, <4>2
    <3> QED BY <3>6, <3>7, DetailTypes
  <2> QED BY <2>1, <2>2
<1>2. PICK x : x = [op |-> "put", id |-> issued[d] + 1, key |-> k, val |-> new]
  OBVIOUS
<1>3. /\ shown' = shown /\ synced' = synced /\ events' = events
      /\ calls'[e] = IF e = d THEN Append(calls[e], x) ELSE calls[e]
      /\ issued[d] < MaxWrites
  BY <1>0, <1>1, <1>2 DEF SetValue, TypeOK, client
<1>4. CASE e # d
  BY <1>0, <1>1, <1>3, <1>4
<1>5. CASE e = d
  <2>1. x \in Put /\ x.key = k /\ x.val = new
    <3>1. issued[d] + 1 \in WriteId
      <4>1. issued[d] \in 0..MaxWrites
        BY <1>0 DEF TypeOK
      <4> QED BY <1>3, <4>1, StoreAssumption DEF WriteId, StoreAssumption
    <3> QED BY <1>1, <1>2, <3>1 DEF Put
  <2>2. calls[e] \in Seq(Calling)
    BY <1>0, QueueTypes DEF Calling
  <2>3. \A t \in Screen : \/ lists'[e][t] = lists[e][t]
                          \/ /\ lists[e][t] # NotLoaded /\ lists'[e][t] # NotLoaded
                             /\ \A j \in Key : lists'[e][t][j] = IF j = k THEN x.val ELSE lists[e][t][j]
    <3> SUFFICES ASSUME NEW t \in Screen, lists[e][t] # NotLoaded,
                        lists'[e][t] = [lists[e][t] EXCEPT ![k] = new]
                 PROVE  /\ lists'[e][t] # NotLoaded
                        /\ \A j \in Key : lists'[e][t][j] = IF j = k THEN x.val ELSE lists[e][t][j]
      BY <1>1, <1>5
    <3>1. lists[e][t] \in [Key -> Post] /\ GenuineAll(hist, e, lists[e][t])
      BY <1>0 DEF VotesTypeOK, VotesGenuine, ScreensGenuine, GenuineScreens
    <3>2. lists[e][t] \in [Key -> Value]
      BY <3>1, PostIsValue DEF GenuineAll, Genuine
    <3>3. [lists[e][t] EXCEPT ![k] = new] \in [Key -> Value]
      BY <1>1, <3>2
    <3> QED BY <1>1, <2>1, <3>2, <3>3, StoreAssumption DEF StoreAssumption
  <2>4. Listed(lists'[e], shown[e], synced[e], events[e], Append(calls[e], x))
    BY <1>0, <2>1, <2>2, <2>3, TappedLists
  <2> QED BY <1>3, <1>5, <2>4
<1> QED BY <1>4, <1>5

\* No action makes a list differ without a call that waits.
LEMMA ListsShowStep ==
  ASSUME Inductive, Shows, VotesGenuine, VotesGenuine', ListsShow, [VotesNext]_votesVars
  PROVE  ListsShow'
<1>0. TypeOK /\ VotesTypeOK
  BY DEF Inductive, VotesGenuine
<1>1. ASSUME NEW d \in Device, (\E s \in Screen, k \in Key : VoteOnList(d, s, k)) \/ VoteOnDetail(d)
      PROVE  ListsShow'
  BY <1>1, VoteLists
<1>2. ASSUME NEW d \in Device, (\E k \in Key : OpenDetails(d, k)) \/ CloseDetails(d)
      PROVE  ListsShow'
  <2>1. UNCHANGED <<lists, shown, synced, events, calls>>
    BY <1>2 DEF OpenDetails, CloseDetails, vars, client
  <2> QED BY <2>1 DEF ListsShow
<1>3. ASSUME NEW d \in Device, RetrievedPosts(d) \/ UpdatedPost(d) \/ RestartScreens(d)
      PROVE ListsShow'
  BY <1>0, <1>3, RetrievedPostsLists, UpdatedPostLists, RestartLists
<1>4. ASSUME NEW d \in Device, DataLayer(d) PROVE ListsShow'
  <2>1. lists' = lists /\ Below(d)
    BY <1>4 DEF DataLayer, screens
  <2> QED BY <1>0, <2>1, RunPutLists, RunObserveLists, ClientLists, RestLists DEF Below
<1>5. CASE UNCHANGED votesVars
  <2>1. UNCHANGED <<lists, shown, synced, events, calls>>
    BY <1>5 DEF votesVars, vars, client, screens
  <2> QED BY <2>1 DEF ListsShow
<1> QED BY <1>1, <1>2, <1>3, <1>4, <1>5 DEF VotesNext

\* With nothing waiting the lists are the last snapshot, and that is the view.
LEMMA ListsShowAgree ==
  ASSUME StoreInv, VotesGenuine, ListsShow
  PROVE  ListsAgree
<1> SUFFICES ASSUME NEW d \in Device, Settled(d), NEW s \in Screen PROVE lists[d][s] = Server
  BY DEF ListsAgree
<1>1. TypeOK /\ VotesTypeOK
  BY DEF StoreInv, Inductive, VotesGenuine
<1>2. shown[d] = Server /\ synced[d]
  BY SettledShows DEF StoreInv
<1>3. Server \in [Key -> Value]
  <2>1. ASSUME NEW k \in Key PROVE Stored(k, Len(hist[k])) \in Value
    <3>1. hist[k] \in Seq(Write) /\ Len(hist[k]) \in Nat
      BY <1>1 DEF TypeOK
    <3> QED BY SMTT(30), <1>1, <3>1, StoredGenuine, PostIsValue DEF VotesGenuine, Genuine
  <2> QED BY <2>1 DEF Server
<1>4. shown[d] # NotLoaded
  BY <1>2, <1>3, StoreAssumption DEF StoreAssumption
<1>5. calls[d] = <<>> /\ Values(events[d]) = {} /\ \A k, v : ~ Overtaken(calls[d], k, v)
  BY DEF Settled, Values, Overtaken, Numbered
<1>6. lists[d][s] # NotLoaded /\ \A k \in Key : lists[d][s][k] = Server[k]
  BY <1>2, <1>4, <1>5 DEF ListsShow, Listed
<1>7. lists[d][s] \in [Key -> Post]
  BY <1>1, <1>6 DEF VotesTypeOK
<1> QED BY <1>3, <1>6, <1>7

-----------------------------------------------------------------------------
(* Votes on their way *)

\* No two taps raced, and nothing was lost or refused.
Calm == ~ raced /\ \A d \in Device : restarts[d] = 0 /\ refusals[d] = 0

\* Two posts have the same votes of all users but d's.
SameOthers(d, p, q) == \A u \in User \ {UserOf[d]} : VoteOf(p, u) = VoteOf(q, u)

\* A pending write of d takes nobody else's vote back, and the newest on a post is what
\* its user wants.
AsMeant(d) == \A p \in Pending(d) :
  /\ SameOthers(d, p.val, Server[p.key])
  /\ (\A q \in Pending(d) : q.key = p.key => q.id <= p.id)
       => VoteOf(p.val, UserOf[d]) = wish[UserOf[d]][p.key]

\* Only one device has writes pending.
Alone == \A d, e \in Device : Pending(d) # {} /\ Pending(e) # {} => d = e

\* A user's wish is in the database, unless a write on that post is unserved.
Arrived == \A u \in User, k \in Key :
  (\A d \in Device : UserOf[d] = u => \A p \in Unserved(d) : p.key # k)
    => VoteOf(Server[k], u) = wish[u][k]

\* What the users want.
WishOK == wish \in [User -> [Key -> {"up", "down", "none"}]]

\* The inductive invariant of NoRaceNoLoss.
TapsArrive == WishOK /\ (Calm => Alone /\ Arrived /\ \A d \in Device : AsMeant(d))

\* At the start users want what the seeds say.
LEMMA TapsArriveInit == VotesInit => TapsArrive
<1> SUFFICES ASSUME VotesInit PROVE TapsArrive
  OBVIOUS
<1>1. /\ hist = [k \in Key |-> <<>>] /\ wish = [u \in User |-> [k \in Key |-> VoteOf(Seed[k], u)]]
      /\ \A d \in Device : puts[d] = <<>> /\ calls[d] = <<>>
  BY DEF VotesInit, Init
<1>2. WishOK
  BY <1>1 DEF WishOK, VoteOf
<1>3. \A d \in Device : Pending(d) = {}
  <2>1. Writes(<<>>) = {}
    BY DEF Writes, Numbered
  <2> QED BY <1>1, <2>1 DEF Pending
<1>4. Alone /\ \A d \in Device : AsMeant(d)
  BY <1>3 DEF Alone, AsMeant
<1>5. Arrived
  <2>1. \A k \in Key : Server[k] = Seed[k]
    BY <1>1 DEF Server, Stored
  <2> QED BY <1>1, <2>1 DEF Arrived
<1> QED BY <1>2, <1>4, <1>5 DEF TapsArrive

\* A step that answers and stores nothing.
LEMMA KeepsArriving ==
  ASSUME TapsArrive, hist' = hist, wish' = wish, Calm' => Calm,
         \A e \in Device : Pending(e)' = Pending(e) /\ Unserved(e) \subseteq Unserved(e)'
  PROVE  TapsArrive'
<1>1. Server' = Server /\ WishOK'
  BY DEF Server, Stored, TapsArrive, WishOK
<1> SUFFICES ASSUME Calm' PROVE Alone' /\ Arrived' /\ \A d \in Device : AsMeant(d)'
  BY <1>1 DEF TapsArrive
<1>2. Alone /\ Arrived /\ \A d \in Device : AsMeant(d)
  BY DEF TapsArrive
<1>3. Alone'
  BY <1>2 DEF Alone
<1>4. Arrived'
  BY <1>1, <1>2 DEF Arrived
<1>5. \A d \in Device : AsMeant(d)'
  BY <1>1, <1>2 DEF AsMeant
<1> QED BY <1>3, <1>4, <1>5

\* An answered write is older than the others: the newest on its post stays the newest.
LEMMA ReceivePutDoneArrives ==
  ASSUME Inductive, Ordered, Resends, TapsArrive, NEW d \in Device, ReceivePutDone(d),
         UNCHANGED ghosts
  PROVE  TapsArrive'
<1>0. TypeOK
  BY DEF Inductive
<1>1. hist' = hist /\ wish' = wish /\ (Calm' => Calm) /\ calls' = calls /\ up' = up /\ conn' = conn
  BY DEF ReceivePutDone, ghosts, counts, Calm
<1>2. PICK p : p = Head(puts[d])
  OBVIOUS
<1>3. puts[d] # <<>> /\ puts'[d] = Tail(puts[d]) /\ conn[d] = "up"
        /\ \A e \in Device \ {d} : puts'[e] = puts[e]
  <2>1. \A e \in Device \ {d} : puts'[e] = puts[e]
    BY <1>0 DEF ReceivePutDone, TypeOK
  <2> QED BY <1>0, <2>1, AnsweredFirst
<1>4. \A e \in Device : Unserved(e)' = Unserved(e)
  BY <1>1, <1>3 DEF Unserved
<1>5. p \in Put /\ Writes(puts[d]) = Writes(Tail(puts[d])) \cup {p}
  <2>1. puts[d] \in Seq(Put)
    BY <1>0, QueueTypes
  <2>2. p \in Put
    BY <1>2, <1>3, <2>1, HeadTailProperties
  <2> QED BY <1>2, <1>3, <2>1, <2>2, Written
<1>6. \A q \in Writes(Tail(puts[d])) : p.id < q.id
  <2>1. puts[d] \in Seq(Put) /\ Ascending(puts[d])
    BY <1>0, QueueTypes DEF Ordered, OrderedAt, Flow
  <2>2. \A i \in Numbered(Tail(puts[d])) : i + 1 \in Numbered(puts[d])
          /\ Tail(puts[d])[i] = puts[d][i + 1] /\ i \in Nat \ {0}
    BY <1>3, <2>1 DEF Numbered
  <2>3. 1 \in Numbered(puts[d]) /\ puts[d][1] = p
    BY <1>2, <1>3, <1>5, <2>1, PutsNumbered DEF Numbered
  <2>4. \A i \in Numbered(Tail(puts[d])) : p.id < puts[d][i + 1].id
    BY <2>1, <2>2, <2>3 DEF Ascending
  <2> QED BY <2>2, <2>4 DEF Writes
<1>7. \A q \in Writes(calls[d]) : p.id < q.id
  <2>1. Before(puts[d], calls[d]) /\ p \in Writes(puts[d])
    BY <1>5 DEF Ordered, OrderedAt, Flow
  <2> QED BY <2>1 DEF Before, Writes
<1>8. /\ Pending(d)' \subseteq Pending(d) /\ Pending(d) = Pending(d)' \cup {p}
      /\ \A q \in Pending(d)' : p.id < q.id
      /\ \A e \in Device \ {d} : Pending(e)' = Pending(e)
  BY <1>1, <1>3, <1>5, <1>6, <1>7 DEF Pending
<1>9. Server' = Server /\ WishOK'
  BY <1>1 DEF Server, Stored, TapsArrive, WishOK
<1> SUFFICES ASSUME Calm' PROVE Alone' /\ Arrived' /\ \A e \in Device : AsMeant(e)'
  BY <1>9 DEF TapsArrive
<1>10. Alone /\ Arrived /\ \A e \in Device : AsMeant(e)
  BY <1>1 DEF TapsArrive
<1>11. Alone'
  <2>1. \A e \in Device : Pending(e)' # {} => Pending(e) # {}
    BY <1>8
  <2> QED BY <1>10, <2>1 DEF Alone
<1>12. Arrived'
  BY <1>1, <1>4, <1>9, <1>10 DEF Arrived
<1>13. ASSUME NEW e \in Device PROVE AsMeant(e)'
  <2>1. CASE e # d
    BY <1>1, <1>8, <1>9, <1>10, <2>1 DEF AsMeant
  <2>2. CASE e = d
    <3> SUFFICES ASSUME NEW q \in Pending(d)'
                 PROVE  /\ SameOthers(d, q.val, Server[q.key])
                        /\ (\A r \in Pending(d)' : r.key = q.key => r.id <= q.id)
                              => VoteOf(q.val, UserOf[d]) = wish[UserOf[d]][q.key]
      BY <1>1, <1>9, <2>2 DEF AsMeant, SameOthers
    <3>1. q \in Pending(d) /\ p.id < q.id /\ AsMeant(d)
      BY <1>8, <1>10
    <3>2. p.id <= q.id
      BY <1>0, <1>5, <3>1, PendingPuts, PutsNumbered
    <3>3. (\A r \in Pending(d)' : r.key = q.key => r.id <= q.id)
             => \A r \in Pending(d) : r.key = q.key => r.id <= q.id
      BY <1>8, <3>2
    <3> QED BY <3>1, <3>3 DEF AsMeant
  <2> QED BY <2>1, <2>2
<1> QED BY <1>11, <1>12, <1>13

\* Who voted but u.
LEMMA SameVotes ==
  ASSUME NEW p, NEW q, NEW u, OthersIn(p, u) = OthersIn(q, u)
  PROVE  \A v \in User \ {u} : VoteOf(p, v) = VoteOf(q, v)
<1>1. p.up \ {u} = q.up \ {u} /\ p.down \ {u} = q.down \ {u}
  BY DEF OthersIn
<1>2. \A v \in User \ {u} : (v \in p.up <=> v \in q.up) /\ (v \in p.down <=> v \in q.down)
  BY <1>1
<1> QED BY <1>2 DEF VoteOf

\* The database applies the oldest unserved write: it changes its user's vote alone.
LEMMA ServerAcceptArrives ==
  ASSUME Inductive, Ordered, Resends, TapsArrive, NEW d \in Device, ServerAccept(d), UNCHANGED ghosts
  PROVE  TapsArrive'
<1>0. TypeOK
  BY DEF Inductive
<1>1. wish' = wish /\ (Calm' => Calm) /\ calls' = calls /\ puts' = puts /\ conn' = conn
  BY DEF ServerAccept, ghosts, counts, Calm, client
<1>2. PICK p : p = Head(up[d])
  OBVIOUS
<1>3. /\ up[d] # <<>> /\ p # Listen /\ up'[d] = Tail(up[d]) /\ \A e \in Device \ {d} : up'[e] = up[e]
      /\ hist' = [hist EXCEPT ![p.key] = Append(@, [by |-> d, id |-> p.id, val |-> p.val])]
  BY <1>0, <1>2 DEF ServerAccept, TypeOK
<1>4. up[d] \in Seq(Sending) /\ conn[d] = "up" /\ p \in Put /\ "id" \in DOMAIN p /\ p.key \in Key
  <2>1. up[d] \in Seq(Sending)
    BY <1>0, ResendTypes
  <2>2. p \in Put
    BY <1>2, <1>3, <2>1, HeadTailProperties DEF Sending
  <2>3. conn[d] = "up"
    BY <1>0, <1>3 DEF Ordered, OrderedAt, TypeOK
  <2> QED BY <2>1, <2>2, <2>3, PutsNumbered
<1>5. Writes(up[d]) = Writes(Tail(up[d])) \cup {p}
  <2>1. p \in Sending
    BY <1>4 DEF Sending
  <2> QED BY <1>2, <1>3, <1>4, <2>1, Written
<1>6. /\ Unserved(d) = Unserved(d)' \cup {p} /\ p \in Pending(d)
      /\ \A e \in Device \ {d} : Unserved(e)' = Unserved(e)
      /\ \A e \in Device : Pending(e)' = Pending(e)
  <2>1. Unserved(d) = Unserved(d)' \cup {p}
    BY <1>1, <1>3, <1>4, <1>5 DEF Unserved
  <2>2. p \in Pending(d)
    BY <1>0, <2>1, UnservedPending
  <2> QED BY <1>1, <1>3, <2>1, <2>2 DEF Unserved, Pending
<1>7. \A k \in Key : Server'[k] = IF k = p.key THEN p.val ELSE Server[k]
  <2>1. ASSUME NEW k \in Key PROVE Server'[k] = IF k = p.key THEN p.val ELSE Server[k]
    <3>1. hist[k] \in Seq(Write)
      BY <1>0 DEF TypeOK
    <3>2. CASE k = p.key
      <4>1. PICK w : w = [by |-> d, id |-> p.id, val |-> p.val]
        OBVIOUS
      <4>2. w \in Write
        BY <1>4, <4>1 DEF Write, Put
      <4>3. hist'[k] = Append(hist[k], w)
        BY <1>0, <1>3, <3>2, <4>1 DEF TypeOK
      <4>4. Len(hist'[k]) # 0 /\ hist'[k][Len(hist'[k])] = w
        BY <3>1, <4>2, <4>3
      <4> QED BY <3>2, <4>1, <4>4 DEF Server, Stored
    <3>3. CASE k # p.key
      <4>1. hist'[k] = hist[k]
        BY <1>0, <1>3, <3>3 DEF TypeOK
      <4> QED BY <3>3, <4>1 DEF Server, Stored
    <3> QED BY <3>2, <3>3
  <2> QED BY <2>1
<1>8. WishOK'
  BY <1>1 DEF TapsArrive, WishOK
<1> SUFFICES ASSUME Calm' PROVE Alone' /\ Arrived' /\ \A e \in Device : AsMeant(e)'
  BY <1>8 DEF TapsArrive
<1>9. Alone /\ Arrived /\ \A e \in Device : AsMeant(e)
  BY <1>1 DEF TapsArrive
<1>10. SameOthers(d, p.val, Server[p.key])
  BY <1>6, <1>9 DEF AsMeant
<1>11. Alone'
  BY <1>6, <1>9 DEF Alone
<1>12. ASSUME NEW e \in Device PROVE AsMeant(e)'
  <2> SUFFICES ASSUME NEW q \in Pending(e)
               PROVE  /\ SameOthers(e, q.val, Server'[q.key])
                      /\ (\A r \in Pending(e) : r.key = q.key => r.id <= q.id)
                            => VoteOf(q.val, UserOf[e]) = wish[UserOf[e]][q.key]
    BY <1>1, <1>6 DEF AsMeant, SameOthers
  <2>1. e = d
    BY <1>6, <1>9 DEF Alone
  <2>2. SameOthers(d, q.val, Server[q.key]) /\ q.key \in Key
    BY <1>0, <1>9, <2>1, PendingPuts, PutsNumbered DEF AsMeant
  <2>3. SameOthers(e, q.val, Server'[q.key])
    BY <1>7, <1>10, <2>1, <2>2 DEF SameOthers
  <2> QED BY <1>9, <2>3 DEF AsMeant
<1>13. Arrived'
  <2> SUFFICES ASSUME NEW u \in User, NEW k \in Key,
                      \A e \in Device : UserOf[e] = u => \A q \in Unserved(e)' : q.key # k
               PROVE  VoteOf(Server'[k], u) = wish[u][k]
    BY <1>1 DEF Arrived
  <2>1. CASE k # p.key \/ UserOf[d] # u
    <3>1. \A e \in Device : UserOf[e] = u => \A q \in Unserved(e) : q.key # k
      BY <1>6, <2>1
    <3>2. VoteOf(Server[k], u) = wish[u][k]
      BY <1>9, <3>1 DEF Arrived
    <3>3. VoteOf(Server'[k], u) = VoteOf(Server[k], u)
      BY <1>7, <1>10, <2>1 DEF SameOthers
    <3> QED BY <3>2, <3>3
  <2>2. CASE k = p.key /\ UserOf[d] = u
    <3>1. \A q \in Pending(d) : q.key = p.key => q.id <= p.id
      <4> SUFFICES ASSUME NEW q \in Pending(d), q.key = p.key, p.id < q.id PROVE FALSE
        BY <1>0, <1>4, PendingPuts, PutsNumbered
      <4>1. p.id <= q.id /\ p.id # q.id
        BY <1>0, <1>4, PendingPuts, PutsNumbered
      <4>2. q \in Unserved(d)
        BY <1>0, <1>6, <4>1, UnservedPending
      <4>3. q \in Unserved(d)'
        BY <1>6, <4>1, <4>2
      <4> QED BY <2>2, <4>3
    <3>2. VoteOf(p.val, u) = wish[u][k]
      BY <1>6, <1>9, <2>2, <3>1 DEF AsMeant
    <3> QED BY <1>7, <2>2, <3>2
  <2> QED BY <2>1, <2>2
<1> QED BY <1>11, <1>12, <1>13

\* A tap that does not race is on a post whose other votes the database has.
LEMMA TapArrives ==
  ASSUME Inductive, Ordered, TapsArrive, NEW d \in Device, NEW s, NEW k \in Key, NEW old, NEW new,
         OthersIn(new, UserOf[d]) = OthersIn(old, UserOf[d]), new \in Value,
         AddPostsToApi(d, s, k, old, new)
  PROVE  TapsArrive'
<1>0. TypeOK /\ UserOf[d] \in User
  BY VotesAssumption DEF Inductive
<1>1. PICK x : x = [op |-> "put", id |-> issued[d] + 1, key |-> k, val |-> new]
  OBVIOUS
<1>2. /\ UNCHANGED <<hist, puts, up, conn, restarts, refusals>> /\ issued[d] < MaxWrites
      /\ calls'[d] = Append(calls[d], x) /\ \A e \in Device \ {d} : calls'[e] = calls[e]
      /\ wish' = [wish EXCEPT ![UserOf[d]][k] = VoteOf(new, UserOf[d])]
      /\ raced' = (raced \/ OthersIn(old, UserOf[d]) # OthersIn(Server[k], UserOf[d])
                         \/ \E e \in Device \ {d} : Busy(e))
  BY <1>0, <1>1 DEF AddPostsToApi, SetValue, TypeOK, net, client
<1>3. x \in Put /\ "id" \in DOMAIN x /\ x.key = k /\ x.val = new /\ x.id = issued[d] + 1
  <2>1. issued[d] + 1 \in WriteId
    <3>1. issued[d] \in 0..MaxWrites
      BY <1>0 DEF TypeOK
    <3> QED BY <1>2, <3>1, StoreAssumption DEF WriteId, StoreAssumption
  <2> QED BY <1>1, <2>1 DEF Put
<1>4. Writes(calls'[d]) = Writes(calls[d]) \cup {x}
  <2>1. calls[d] \in Seq(Calling) /\ x \in Calling
    BY <1>0, <1>3, QueueTypes DEF Calling
  <2> QED BY <1>2, <1>3, <2>1, Written
<1>5. /\ Pending(d)' = Pending(d) \cup {x} /\ Unserved(d)' = Unserved(d) \cup {x}
      /\ \A e \in Device \ {d} : Pending(e)' = Pending(e) /\ Unserved(e)' = Unserved(e)
  BY <1>2, <1>4 DEF Pending, Unserved
<1>6. \A q \in Pending(d) : q.id < x.id
  <2>1. Before(puts[d], NextId(issued[d])) /\ Before(calls[d], NextId(issued[d]))
    BY DEF Ordered, OrderedAt, Flow
  <2>2. 1 \in Numbered(NextId(issued[d])) /\ NextId(issued[d])[1].id = x.id
    BY <1>3 DEF NextId, Numbered
  <2> QED BY <2>1, <2>2 DEF Before, Pending, Writes
<1>7. wish \in [User -> [Key -> {"up", "down", "none"}]]
        /\ VoteOf(new, UserOf[d]) \in {"up", "down", "none"}
  BY DEF TapsArrive, WishOK, VoteOf
<1>8. /\ WishOK' /\ wish'[UserOf[d]][k] = VoteOf(new, UserOf[d])
      /\ \A u \in User, j \in Key : u # UserOf[d] \/ j # k => wish'[u][j] = wish[u][j]
  BY <1>0, <1>2, <1>7 DEF WishOK
<1>9. Server' = Server
  BY <1>2 DEF Server, Stored
<1> SUFFICES ASSUME Calm' PROVE Alone' /\ Arrived' /\ \A e \in Device : AsMeant(e)'
  BY <1>8 DEF TapsArrive
<1>10. /\ Calm /\ OthersIn(old, UserOf[d]) = OthersIn(Server[k], UserOf[d])
       /\ \A e \in Device \ {d} : ~ Busy(e)
  BY <1>2 DEF Calm
<1>11. Arrived /\ \A e \in Device : AsMeant(e)
  BY <1>10 DEF TapsArrive
<1>12. \A e \in Device \ {d} : Pending(e) = {}
  <2>1. Writes(<<>>) = {}
    BY DEF Writes, Numbered
  <2> QED BY <1>10, <2>1 DEF Busy, Pending
<1>13. Alone'
  BY <1>5, <1>12 DEF Alone
<1>14. ASSUME NEW e \in Device PROVE AsMeant(e)'
  <2>1. CASE e # d
    BY <1>5, <1>12, <2>1 DEF AsMeant
  <2>2. CASE e = d
    <3> SUFFICES ASSUME NEW q \in Pending(d)'
                 PROVE  /\ SameOthers(d, q.val, Server[q.key])
                        /\ (\A r \in Pending(d)' : r.key = q.key => r.id <= q.id)
                              => VoteOf(q.val, UserOf[d]) = wish'[UserOf[d]][q.key]
      BY <1>9, <2>2 DEF AsMeant, SameOthers
    <3>1. CASE q = x
      <4>1. SameOthers(d, new, Server[k])
        BY <1>0, <1>10, SameVotes DEF SameOthers
      <4> QED BY <1>3, <1>8, <3>1, <4>1
    <3>2. CASE q # x /\ q \in Pending(d)
      <4>1. q.id < x.id /\ q.key \in Key /\ q.id \in Nat /\ x.id \in Nat
        BY <1>0, <1>3, <1>6, <3>2, PendingPuts, PutsNumbered
      <4>2. q.key = k => ~ (x.id <= q.id)
        BY <4>1
      <4>3. q.key # k => wish'[UserOf[d]][q.key] = wish[UserOf[d]][q.key]
        BY <1>0, <1>8, <4>1
      <4>4. SameOthers(d, q.val, Server[q.key])
        BY <1>11, <3>2 DEF AsMeant
      <4> QED BY <1>3, <1>5, <1>11, <3>2, <4>2, <4>3, <4>4 DEF AsMeant
    <3> QED BY <1>5, <3>1, <3>2
  <2> QED BY <2>1, <2>2
<1>15. Arrived'
  <2> SUFFICES ASSUME NEW u \in User, NEW j \in Key,
                      \A e \in Device : UserOf[e] = u => \A q \in Unserved(e)' : q.key # j
               PROVE  VoteOf(Server[j], u) = wish'[u][j]
    BY <1>9 DEF Arrived
  <2>1. u # UserOf[d] \/ j # k
    BY <1>3, <1>5
  <2>2. \A e \in Device : UserOf[e] = u => \A q \in Unserved(e) : q.key # j
    BY <1>5
  <2> QED BY <1>8, <1>11, <2>1, <2>2 DEF Arrived
<1> QED BY <1>13, <1>14, <1>15

-----------------------------------------------------------------------------
(* The taps arrive *)

\* A kill or a refusal ends the calm.
LEMMA NotCalm ==
  ASSUME TypeOK, TapsArrive, wish' = wish, NEW d \in Device, Restart(d) \/ ServerReject(d)
  PROVE  TapsArrive'
<1>1. WishOK'
  BY DEF TapsArrive, WishOK
<1>2. restarts[d] \in Nat /\ refusals[d] \in Nat
  BY DEF TypeOK
<1>3. restarts'[d] = restarts[d] + 1 \/ refusals'[d] = refusals[d] + 1
  BY DEF TypeOK, Restart, ServerReject
<1>4. ~ Calm'
  BY <1>2, <1>3 DEF Calm
<1> QED BY <1>1, <1>4 DEF TapsArrive

\* No action loses a tap while it is calm.
LEMMA TapsArriveStep ==
  ASSUME StoreInv, VotesGenuine, TapsArrive, [VotesNext]_votesVars
  PROVE  TapsArrive'
<1>0. Inductive /\ TypeOK /\ Ordered /\ Resends /\ VotesTypeOK
  BY DEF StoreInv, Inductive, VotesGenuine
<1> DEFINE Quietly(d) ==
       \/ RetrieveAll(d) \/ HandleDone(d) \/ HandleValue(d) \/ RunPut(d) \/ RunObserve(d)
       \/ Connect(d) \/ Disconnect(d) \/ ReceiveData(d) \/ ReceiveListenOk(d)
            \/ ReceiveDenial(d) \/ AckPut(d) \/ ServerListen(d) \/ ServerDeny(d)
<1>1. ASSUME NEW d \in Device, Quietly(d), UNCHANGED ghosts PROVE TapsArrive'
  <2>1. \A e \in Device : Pending(e)' = Pending(e) /\ Unserved(e) \subseteq Unserved(e)'
    BY <1>0, <1>1, QuietPending
  <2>2. hist' = hist /\ restarts' = restarts /\ refusals' = refusals
    BY <1>1 DEF RetrieveAll, HandleDone, HandleValue, RunPut, RunObserve, Connect,
       Disconnect, ReceiveData, ReceiveListenOk, ReceiveDenial, AckPut, ServerListen,
       ServerDeny, counts
  <2>3. wish' = wish /\ (Calm' => Calm)
    BY <1>1, <2>2 DEF ghosts, Calm
  <2> QED BY <2>1, <2>2, <2>3, KeepsArriving
<1>2. ASSUME NEW d \in Device, NEW s \in Screen, NEW k \in Key, VoteOnList(d, s, k) PROVE TapsArrive'
  <2>1. PICK new \in Tapped(lists[d][s][k], UserOf[d]) : AddPostsToApi(d, s, k, lists[d][s][k], new)
    BY <1>2 DEF VoteOnList
  <2>2. Genuine(hist, d, k, lists[d][s][k])
    BY <1>2 DEF VoteOnList, VotesGenuine, ScreensGenuine, GenuineScreens, GenuineAll
  <2>3. new \in Value
    BY <2>1, <2>2, TapGenuine
  <2>4. OthersIn(new, UserOf[d]) = OthersIn(lists[d][s][k], UserOf[d])
    BY <2>1, <2>2, TapOthers, VotesAssumption DEF Genuine
  <2> QED BY <1>0, <2>1, <2>3, <2>4, TapArrives
<1>3. ASSUME NEW d \in Device, VoteOnDetail(d) PROVE TapsArrive'
  <2>1. PICK new \in Tapped(detail[d].post, UserOf[d]) :
           AddPostsToApi(d, "detail", detail[d].key, detail[d].post, new)
    BY <1>3 DEF VoteOnDetail
  <2>2. detail[d].key \in Key /\ Genuine(hist, d, detail[d].key, detail[d].post)
    BY <1>0, <1>3, DetailTypes DEF VoteOnDetail, VotesGenuine, ScreensGenuine, GenuineScreens
  <2>3. new \in Value
    BY <2>1, <2>2, TapGenuine
  <2>4. OthersIn(new, UserOf[d]) = OthersIn(detail[d].post, UserOf[d])
    BY <2>1, <2>2, TapOthers, VotesAssumption DEF Genuine
  <2> QED BY <1>0, <2>1, <2>2, <2>3, <2>4, TapArrives
<1>4. CASE UNCHANGED <<hist, puts, calls, up, conn, restarts, refusals, ghosts>>
  <2>1. \A e \in Device : Pending(e)' = Pending(e) /\ Unserved(e)' = Unserved(e)
    BY <1>4 DEF Pending, Unserved
  <2>2. wish' = wish /\ (Calm' => Calm)
    BY <1>4 DEF ghosts, Calm
  <2> QED BY <1>4, <2>1, <2>2, KeepsArriving
<1>5. ASSUME NEW d \in Device, (\E k \in Key : OpenDetails(d, k)) \/ CloseDetails(d) PROVE TapsArrive'
  BY <1>4, <1>5 DEF OpenDetails, CloseDetails, vars, net, client, counts
<1>6. ASSUME NEW d \in Device, RetrievedPosts(d) \/ UpdatedPost(d) PROVE TapsArrive'
  BY <1>1, <1>6 DEF RetrievedPosts, UpdatedPost
<1>7. ASSUME NEW d \in Device, RestartScreens(d) PROVE TapsArrive'
  BY <1>0, <1>7, NotCalm DEF RestartScreens, ghosts
<1>8. ASSUME NEW d \in Device, DataLayer(d) PROVE TapsArrive'
  <2>1. UNCHANGED ghosts /\ Below(d) /\ wish' = wish
    BY <1>8 DEF DataLayer, ghosts
  <2>2. CASE Quietly(d)
    BY <1>1, <2>1, <2>2
  <2>3. CASE ReceivePutDone(d)
    BY <1>0, <2>1, <2>3, ReceivePutDoneArrives
  <2>4. CASE ServerAccept(d)
    BY <1>0, <2>1, <2>4, ServerAcceptArrives
  <2>5. CASE ServerReject(d)
    BY <1>0, <2>1, <2>5, NotCalm
  <2> QED BY <2>1, <2>2, <2>3, <2>4, <2>5 DEF Below
<1>9. CASE UNCHANGED votesVars
  BY <1>4, <1>9 DEF votesVars, vars, net, client, counts
<1> QED BY <1>2, <1>3, <1>5, <1>6, <1>7, <1>8, <1>9 DEF VotesNext

\* With nothing pending every wish is stored.
LEMMA ArrivedNoLoss ==
  ASSUME StoreInv, TapsArrive
  PROVE  NoRaceNoLoss
<1> SUFFICES ASSUME NEW k \in Key, NEW u \in User, ~ raced,
                    \A d \in Device : ~ Busy(d) /\ restarts[d] = 0 /\ refusals[d] = 0
             PROVE  VoteOf(Server[k], u) = wish[u][k]
  BY DEF NoRaceNoLoss
<1>1. Arrived
  BY DEF TapsArrive, Calm
<1>2. \A d \in Device : Unserved(d) = {}
  <2>1. TypeOK /\ Ordered /\ Resends
    BY DEF StoreInv, Inductive
  <2>2. Writes(<<>>) = {}
    BY DEF Writes, Numbered
  <2>3. \A d \in Device : Pending(d) = {}
    BY <2>2 DEF Busy, Pending
  <2> QED BY <2>1, <2>3, UnservedPending
<1> QED BY <1>1, <1>2 DEF Arrived

\* When nothing is on its way, all lists of a device show the posts the database holds
\* (the lists are replaced by snapshots only, and a tap changes the shown post itself),
\* and every user's vote is stored as last tapped, if no tap raced another device's and
\* no process was killed and no write refused: for any devices, users, posts, taps and
\* lost connections.
THEOREM VotesSettleDown == VotesSpec => []VotesSettle
<1>1. VotesInit => ListsShow /\ TapsArrive
  BY ListsShowInit, TapsArriveInit
<1>2. /\ VotesInv /\ VotesInv' /\ StoreInv /\ ListsShow /\ TapsArrive /\ [VotesNext]_votesVars
      => ListsShow' /\ TapsArrive'
  BY ListsShowStep, TapsArriveStep DEF VotesInv, StoreInv
<1>3. VotesInv /\ StoreInv /\ ListsShow /\ TapsArrive => VotesSettle
  BY ListsShowAgree, ArrivedNoLoss DEF VotesInv, VotesSettle
<1> QED
  BY <1>1, <1>2, <1>3, VotesInvariant, VotesUseStore, StoreInvariant, PTL DEF VotesSpec
=============================================================================
