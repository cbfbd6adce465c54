--------------------------- MODULE Friends_proofs ---------------------------
(***************************************************************************)
(* Proofs about friend requests: the screens of Friends over the shared    *)
(* records of RealtimeStore.                                               *)
(*                                                                         *)
(* OnlyInvitedAccepts speaks of the database alone and is not inductive: a *)
(* record is written from what a screen holds, long after it was read.     *)
(* FriendsHonest says of every record that a device holds, in its screens, *)
(* its cache, its queues or on the wire, that its user may write it: each  *)
(* friend in it was one before, in the database, or the user accepts an    *)
(* invitation that the database had; and the invitations in the user's own *)
(* record are ones it had. It holds as long as every tap ran a handler its *)
(* row called for. Histories only grow, so what may be written once may be *)
(* written later, and what the client and the database do only copies      *)
(* records (CopiesIn of RealtimeStore_proofs).                             *)
(*                                                                         *)
(* TapsPaired says what the two records of a tap come to. TapsMeant names  *)
(* the collection that all open writes lead to: the newest open write of a *)
(* device on a record says what it holds, a record without an unserved     *)
(* write holds it in the database, and its halves agree. A tap on records  *)
(* that are not out of date changes it by one handler, which changes both  *)
(* halves; nothing else does. InPhase goes with discover's count: it is    *)
(* odd when an odd number of discover's writes is open, counted by their   *)
(* numbers, which the order of the writes (Ordered) keeps apart.           *)
(*                                                                         *)
(* updateUsers makes two calls of setValue in one step, which is no step   *)
(* of the store: the invariants of the store used here are the types, the  *)
(* order of the versions (Inductive), the order of the writes (Ordered)    *)
(* and what is resent (Resends), which those two calls keep.               *)
(***************************************************************************)
EXTENDS Friends, RealtimeStore_proofs, FiniteSetTheorems

-----------------------------------------------------------------------------
(* Honest records *)

\* The screens hold people, or nothing.
FriendsTypeOK ==
  /\ people \in [Device -> [User -> Person] \cup {NotLoaded}]
  /\ profile \in [Device -> Person \cup {NotDrawn}]
  /\ misfired \in BOOLEAN

\* Version n of the record of k in the history H.
VersionOf(H, k, n) == IF n = 0 THEN Seed[k] ELSE H[k][n].val

\* u was a friend in some version of k's record up to n.
WasFriend(H, k, n, u) == \E m \in 0..n : u \in VersionOf(H, k, m).friends

\* w had an invitation from u in some version of its record up to n.
WasInvited(H, w, n, u) == \E m \in 0..n : u \in VersionOf(H, w, m).invites

\* w is one of k and u, and had an invitation from the other: in its own record k up to
\* version n, or in the database.
Accepts(H, w, k, n, u) ==
  IF w = k THEN WasInvited(H, k, n, u) ELSE w = u /\ WasInvited(H, w, Len(H[w]), k)

\* A record of k that w may write: every friend was one already, or w accepts; and the
\* invitations in w's own record are ones it had.
Honest(H, w, k, p) ==
  /\ \A u \in p.friends : WasFriend(H, k, Len(H[k]), u) \/ Accepts(H, w, k, Len(H[k]), u)
  /\ k = w => \A u \in p.invites : WasInvited(H, w, Len(H[w]), u)

\* The records that w may write for each user.
Allowed(H, w) == [k \in User |-> {p \in Person : Honest(H, w, k, p)}]

\* Every version that made a friend was written by one that accepts.
HonestHistory(H) ==
  \A k \in User : \A n \in DOMAIN H[k] : \A u \in H[k][n].val.friends :
    WasFriend(H, k, n - 1, u) \/ Accepts(H, UserOf[H[k][n].by], k, n - 1, u)

\* What the screens of d hold besides: the discovered people and the drawn profile.
ScreensIn(V, d) ==
  /\ people[d] # NotLoaded => AllIn(V, people[d])
  /\ profile[d] # NotDrawn => profile[d] \in V[UserOf[d]]

\* As long as every tap was one that its row offered, all records are honest.
FriendsHonest ==
  ~ misfired =>
    /\ HonestHistory(hist)
    /\ \A d \in Device : HoldsIn(Allowed(hist, UserOf[d]), d) /\ ScreensIn(Allowed(hist, UserOf[d]), d)

\* The inductive invariant of OnlyInvitedAccepts.
FriendsInv == Inductive /\ FriendsTypeOK /\ FriendsHonest

\* A history as it grows.
Grown(H, j, w) == [H EXCEPT ![j] = Append(@, w)]

\* Versions stay what they were.
LEMMA VersionStays ==
  ASSUME NEW H \in [Key -> Seq(Write)], NEW j \in Key, NEW w \in Write, NEW k \in Key,
         NEW m \in 0..Len(H[k])
  PROVE  /\ VersionOf(Grown(H, j, w), k, m) = VersionOf(H, k, m)
         /\ m \in 0..Len(Grown(H, j, w)[k])
<1> DEFINE G == Grown(H, j, w)
<1>1. H[k] \in Seq(Write) /\ (G[k] = H[k] \/ G[k] = Append(H[k], w))
  BY DEF Grown
<1> HIDE DEF G
<1>2. m = 0 \/ m \in DOMAIN H[k]
  BY <1>1
<1>3. (m # 0 => G[k][m] = H[k][m]) /\ m \in 0..Len(G[k])
  BY <1>1, <1>2
<1> QED BY <1>3 DEF VersionOf, G

\* So who was a friend, or invited, was one for good.
LEMMA HadStays ==
  ASSUME NEW H \in [Key -> Seq(Write)], NEW j \in Key, NEW w \in Write, NEW u, NEW k \in Key
  PROVE  /\ \A n \in Nat : n <= Len(H[k]) /\ WasFriend(H, k, n, u) => WasFriend(Grown(H, j, w), k, n, u)
         /\ WasFriend(H, k, Len(H[k]), u) => WasFriend(Grown(H, j, w), k, Len(Grown(H, j, w)[k]), u)
         /\ \A n \in Nat : n <= Len(H[k]) /\ WasInvited(H, k, n, u) => WasInvited(Grown(H, j, w), k, n, u)
         /\ WasInvited(H, k, Len(H[k]), u) => WasInvited(Grown(H, j, w), k, Len(Grown(H, j, w)[k]), u)
<1>1. Len(H[k]) \in Nat
  OBVIOUS
<1>2. \A m \in 0..Len(H[k]) : /\ VersionOf(Grown(H, j, w), k, m) = VersionOf(H, k, m)
                              /\ m \in 0..Len(Grown(H, j, w)[k])
  BY VersionStays
<1>3. ASSUME NEW n \in Nat, n <= Len(H[k]), WasFriend(H, k, n, u)
      PROVE  WasFriend(Grown(H, j, w), k, n, u)
  <2>1. PICK m \in 0..n : u \in VersionOf(H, k, m).friends
    BY <1>3 DEF WasFriend
  <2>2. m \in 0..Len(H[k])
    BY <1>1, <1>3
  <2> QED BY <1>2, <2>1, <2>2 DEF WasFriend
<1>4. WasFriend(H, k, Len(H[k]), u) => WasFriend(Grown(H, j, w), k, Len(Grown(H, j, w)[k]), u)
  BY <1>2 DEF WasFriend
<1>5. ASSUME NEW n \in Nat, n <= Len(H[k]), WasInvited(H, k, n, u)
      PROVE  WasInvited(Grown(H, j, w), k, n, u)
  <2>1. PICK m \in 0..n : u \in VersionOf(H, k, m).invites
    BY <1>5 DEF WasInvited
  <2>2. m \in 0..Len(H[k])
    BY <1>1, <1>5
  <2> QED BY <1>2, <2>1, <2>2 DEF WasInvited
<1>6. WasInvited(H, k, Len(H[k]), u) => WasInvited(Grown(H, j, w), k, Len(Grown(H, j, w)[k]), u)
  BY <1>2 DEF WasInvited
<1> QED BY <1>3, <1>4, <1>5, <1>6

\* ... and a record that may be written may be written later.
LEMMA AllowedMore ==
  ASSUME NEW H \in [Key -> Seq(Write)], NEW j \in Key, NEW w \in Write, NEW a \in User, NEW k \in User
  PROVE  Allowed(H, a)[k] \subseteq Allowed(Grown(H, j, w), a)[k]
<1> DEFINE G == Grown(H, j, w)
<1> SUFFICES ASSUME NEW p \in Person, Honest(H, a, k, p) PROVE Honest(G, a, k, p)
  BY DEF Allowed
<1> HIDE DEF G
<1>1. \A u : WasFriend(H, k, Len(H[k]), u) => WasFriend(G, k, Len(G[k]), u)
  BY HadStays DEF User, G
<1>2. \A u : WasInvited(H, a, Len(H[a]), u) => WasInvited(G, a, Len(G[a]), u)
  BY HadStays DEF User, G
<1> QED BY <1>1, <1>2 DEF Honest, Accepts

\* An honest write is a version as good as the others.
LEMMA HistoryMore ==
  ASSUME NEW H \in [Key -> Seq(Write)], HonestHistory(H), NEW j \in Key, NEW w \in Write,
         UserOf[w.by] \in User, Honest(H, UserOf[w.by], j, w.val)
  PROVE  HonestHistory(Grown(H, j, w))
<1> DEFINE G == Grown(H, j, w)
<1> SUFFICES ASSUME NEW k \in User, NEW n \in DOMAIN G[k], NEW u \in G[k][n].val.friends
             PROVE  WasFriend(G, k, n - 1, u) \/ Accepts(G, UserOf[G[k][n].by], k, n - 1, u)
  BY DEF HonestHistory
<1>1. H[k] \in Seq(Write) /\ (G[k] = H[k] \/ (k = j /\ G[k] = Append(H[k], w)))
  BY DEF Grown, User
<1> HIDE DEF G
<1>2. (n \in DOMAIN H[k] /\ G[k][n] = H[k][n]) \/ (k = j /\ n = Len(H[k]) + 1 /\ G[k][n] = w)
  BY <1>1, SMTT(30)
<1>3. Len(H[k]) \in Nat /\ n - 1 \in Nat /\ n - 1 <= Len(H[k])
  BY <1>1, <1>2
<1>4. WasFriend(H, k, n - 1, u) \/ Accepts(H, UserOf[G[k][n].by], k, n - 1, u)
  <2>1. CASE n \in DOMAIN H[k] /\ G[k][n] = H[k][n]
    BY <2>1 DEF HonestHistory
  <2>2. CASE k = j /\ n = Len(H[k]) + 1 /\ G[k][n] = w
    <3>1. n - 1 = Len(H[k])
      BY <1>3, <2>2
    <3> QED BY <2>2, <3>1 DEF Honest
  <2> QED BY <1>2, <2>1, <2>2
<1>5. WasFriend(H, k, n - 1, u) => WasFriend(G, k, n - 1, u)
  BY <1>3, HadStays DEF User, G
<1>6. Accepts(H, UserOf[G[k][n].by], k, n - 1, u) => Accepts(G, UserOf[G[k][n].by], k, n - 1, u)
  <2>1. UserOf[G[k][n].by] \in User
    <3>1. G[k][n] \in Write
      BY <1>1, <1>2, ElementOfSeq
    <3> QED BY <3>1, FriendsAssumption DEF Write
  <2>2. WasInvited(H, k, n - 1, u) => WasInvited(G, k, n - 1, u)
    BY <1>3, HadStays DEF User, G
  <2>3. PICK b : b = UserOf[G[k][n].by]
    OBVIOUS
  <2>4. WasInvited(H, b, Len(H[b]), k) => WasInvited(G, b, Len(G[b]), k)
    BY <2>1, <2>3, HadStays DEF User, G
  <2> QED BY <2>2, <2>3, <2>4 DEF Accepts
<1> QED BY <1>4, <1>5, <1>6

\* Anybody may write what the database holds, or held.
LEMMA StoredAllowed ==
  ASSUME TypeOK, NEW a \in User
  PROVE  HistoryIn(Allowed(hist, a))
<1> SUFFICES ASSUME NEW k \in Key, NEW n \in Nat, n <= Len(hist[k])
             PROVE  Stored(k, n) \in Person /\ Honest(hist, a, k, Stored(k, n))
  BY DEF HistoryIn, Allowed, User
<1>1. Stored(k, n) = VersionOf(hist, k, n)
  BY DEF Stored, VersionOf
<1>2. hist[k] \in Seq(Write) /\ (n = 0 \/ n \in DOMAIN hist[k]) /\ n \in 0..Len(hist[k])
  BY DEF TypeOK
<1>3. Stored(k, n) \in Person
  <2>1. CASE n = 0
    BY <2>1, FriendsAssumption DEF Stored, User
  <2>2. CASE n # 0
    <3>1. hist[k][n] \in Write
      BY <1>2, <2>2, ElementOfSeq
    <3> QED BY <2>2, <3>1, FriendsAssumption DEF Stored, Write
  <2> QED BY <2>1, <2>2
<1>4. Honest(hist, a, k, Stored(k, n))
  BY <1>1, <1>2 DEF Honest, WasFriend, WasInvited
<1> QED BY <1>3, <1>4

-----------------------------------------------------------------------------
(* The steps *)

\* The types of the screens' state.
LEMMA PeopleTypes ==
  ASSUME NEW d \in Device
  PROVE  UserOf[d] \in User /\ User = Key /\ Snapshot = [User -> Person]
BY FriendsAssumption DEF User, Snapshot

\* A request or an invitation less; a friend more.
LEMMA PersonChanged ==
  ASSUME NEW p \in Person, NEW u
  PROVE  /\ Without(p, u) = [friends |-> p.friends, invites |-> p.invites \ {u},
                            requested |-> p.requested \ {u}]
         /\ Befriended(Without(p, u), u) =
              [friends |-> p.friends \cup {u}, invites |-> p.invites \ {u},
               requested |-> p.requested \ {u}]
<1>1. PICK f, i, r \in SUBSET User : p = [friends |-> f, invites |-> i, requested |-> r]
  BY DEF Person
<1>2. PICK q : q = Without(p, u)
  OBVIOUS
<1>3. q = [friends |-> f, invites |-> i \ {u}, requested |-> r \ {u}]
  BY <1>1, <1>2 DEF Without
<1>4. PICK t : t = Befriended(q, u)
  OBVIOUS
<1>5. t = [friends |-> f \cup {u}, invites |-> i \ {u}, requested |-> r \ {u}]
  BY <1>3, <1>4 DEF Befriended
<1> QED BY <1>1, <1>2, <1>3, <1>4, <1>5

\* A tap of a handler that the row offers keeps the two records honest.
LEMMA TapHonest ==
  ASSUME NEW H, NEW a \in User, NEW b \in User \ {a}, NEW r \in [User -> Person],
         AllIn(Allowed(H, a), r), NEW h \in Offers(r[a], b)
  PROVE  AllIn(Allowed(H, a), Tapped(h, r, a, b))
<1>1. \A k \in User : r[k] \in Person /\ Honest(H, a, k, r[k])
  BY DEF AllIn, Allowed, User
<1>2. \A k \in User : /\ r[k] = [friends |-> r[k].friends, invites |-> r[k].invites, requested |-> r[k].requested]
                      /\ r[k].friends \in SUBSET User /\ r[k].invites \in SUBSET User
                      /\ r[k].requested \in SUBSET User
  BY <1>1 DEF Person
<1> SUFFICES ASSUME NEW k \in User
             PROVE  Tapped(h, r, a, b)[k] \in Person /\ Honest(H, a, k, Tapped(h, r, a, b)[k])
  BY DEF AllIn, Allowed, User
<1>3. h \in {"add", "accept", "cancel"} /\ (h = "accept" => b \in r[a].invites)
  BY DEF Offers
<1>4. CASE h = "add"
  <2>1. Tapped(h, r, a, b) = AddFriend(r, a, b)
    BY <1>4 DEF Tapped
  <2>2. PICK q : q = AddFriend(r, a, b)[k]
    OBVIOUS
  <2>3. q \in Person /\ q.friends = r[k].friends /\ (k = a => q.invites = r[k].invites)
    BY <1>1, <1>2, <2>2 DEF AddFriend, Person
  <2> QED BY <1>1, <2>1, <2>2, <2>3 DEF Honest
<1>5. CASE h = "cancel"
  <2>1. Tapped(h, r, a, b) = CancelFriend(r, a, b)
    BY <1>5 DEF Tapped
  <2>2. PICK q : q = CancelFriend(r, a, b)[k]
    OBVIOUS
  <2>3. q \in Person /\ q.friends = r[k].friends /\ q.invites \subseteq r[k].invites
    <3>1. q = r[k] \/ \E u : q = Without(r[k], u)
      BY <2>2 DEF CancelFriend
    <3>2. \A u : Without(r[k], u) = [friends |-> r[k].friends, invites |-> r[k].invites \ {u},
                                    requested |-> r[k].requested \ {u}]
      BY <1>1, PersonChanged
    <3> QED BY <1>1, <1>2, <3>1, <3>2 DEF Person
  <2> QED BY <1>1, <2>1, <2>2, <2>3 DEF Honest
<1>6. CASE h = "accept"
  <2>1. Tapped(h, r, a, b) = AcceptFriend(r, a, b)
    BY <1>6 DEF Tapped
  <2>2. PICK q : q = AcceptFriend(r, a, b)[k]
    OBVIOUS
  <2>3. /\ q \in Person /\ q.invites \subseteq r[k].invites
        /\ q.friends \subseteq r[k].friends \cup (IF k = a THEN {b} ELSE IF k = b THEN {a} ELSE {})
    <3>1. \A u : Befriended(Without(r[k], u), u) =
                  [friends |-> r[k].friends \cup {u}, invites |-> r[k].invites \ {u},
                   requested |-> r[k].requested \ {u}]
      BY <1>1, PersonChanged
    <3>2. CASE k = a
      <4>1. q = Befriended(Without(r[k], b), b)
        BY <2>2, <3>2 DEF AcceptFriend
      <4> QED BY <1>2, <3>1, <3>2, <4>1 DEF Person
    <3>3. CASE k = b
      <4>1. q = Befriended(Without(r[k], a), a)
        BY <2>2, <3>3 DEF AcceptFriend
      <4> QED BY <1>2, <3>1, <3>3, <4>1 DEF Person
    <3>4. CASE k \notin {a, b}
      <4>1. q = r[k]
        BY <2>2, <3>4 DEF AcceptFriend
      <4> QED BY <1>1, <4>1
    <3> QED BY <3>2, <3>3, <3>4
  <2>4. Accepts(H, a, a, Len(H[a]), b) /\ Accepts(H, a, b, Len(H[b]), a)
    BY <1>1, <1>3, <1>6 DEF Honest, Accepts
  <2> QED BY <1>1, <2>1, <2>2, <2>3, <2>4 DEF Honest
<1> QED BY <1>3, <1>4, <1>5, <1>6

\* What the database and the client do keeps all that is under way honest, and the
\* history.
LEMMA CopiesHonest ==
  ASSUME FriendsInv, ~ misfired, NEW d \in Device, TypeOK',
         Below(d) \/ HandleValue(d) \/ HandleDone(d) \/ Restart(d)
  PROVE  /\ HonestHistory(hist')
         /\ \A e \in Device : HoldsIn(Allowed(hist, UserOf[e]), e)'
         /\ \A e \in Device, k \in User : Allowed(hist, UserOf[e])[k] \subseteq Allowed(hist', UserOf[e])[k]
<1>0. /\ Inductive /\ TypeOK /\ HonestHistory(hist) /\ hist \in [Key -> Seq(Write)]
      /\ \A e \in Device : HoldsIn(Allowed(hist, UserOf[e]), e)
  BY DEF FriendsInv, FriendsHonest, Inductive, TypeOK
<1>1. /\ HonestHistory(hist')
      /\ \A e \in Device, k \in User : Allowed(hist, UserOf[e])[k] \subseteq Allowed(hist', UserOf[e])[k]
  <2>1. CASE ServerAccept(d)
    <3>1. PICK p : p = Head(up[d])
      OBVIOUS
    <3>2. PICK w : w = [by |-> d, id |-> p.id, val |-> p.val]
      OBVIOUS
    <3>3. up[d] # <<>> /\ p # Listen /\ hist' = Grown(hist, p.key, w)
      BY <2>1, <3>1, <3>2 DEF ServerAccept, Grown
    <3>4. p \in Put
      <4>1. p \in {Listen} \cup Put
        BY <1>0, <3>1, <3>3, QueueTypes, HeadTailProperties
      <4> QED BY <3>3, <4>1
    <3>5. w \in Write /\ p.key \in Key /\ w.by = d /\ w.val = p.val
      BY <3>2, <3>4 DEF Write, Put
    <3>6. Honest(hist, UserOf[d], p.key, p.val)
      <4>1. WritesIn(Allowed(hist, UserOf[d]), up[d])
        BY <1>0 DEF HoldsIn
      <4>2. p.val \in Allowed(hist, UserOf[d])[p.key]
        BY <1>0, <3>1, <3>3, <3>4, <4>1, WriteKeys, QueueTypes DEF WritesIn
      <4> QED BY <3>5, <4>2 DEF Allowed, User
    <3>7. HonestHistory(Grown(hist, p.key, w))
      BY <1>0, <3>5, <3>6, HistoryMore, PeopleTypes
    <3>8. \A e \in Device, k \in User :
             Allowed(hist, UserOf[e])[k] \subseteq Allowed(Grown(hist, p.key, w), UserOf[e])[k]
      BY <1>0, <3>5, AllowedMore, PeopleTypes
    <3> QED BY <3>3, <3>7, <3>8
  <2>2. CASE ~ ServerAccept(d)
    <3>1. hist' = hist
      BY <2>2 DEF Below, HandleValue, HandleDone, Restart, RetrieveAll, RunPut, RunObserve,
         Connect, Disconnect, ReceiveData, ReceiveListenOk, ReceiveDenial, ReceivePutDone,
         AckPut, ServerListen, ServerReject, ServerDeny
    <3> QED BY <1>0, <3>1
  <2> QED BY <2>1, <2>2
<1>2. ASSUME NEW e \in Device PROVE HoldsIn(Allowed(hist, UserOf[e]), e)'
  <2>1. PICK V : V = Allowed(hist, UserOf[e])
    OBVIOUS
  <2>2. PICK W : W = Allowed(hist', UserOf[e])
    OBVIOUS
  <2>3. HistoryIn(V) /\ HoldsIn(V, e)
    BY <1>0, <2>1, StoredAllowed, PeopleTypes
  <2>4. HoldsIn(V, e)'
    BY <1>0, <2>3, CopiesIn
  <2>5. HoldsIn(W, e)'
    BY <1>1, <2>1, <2>2, <2>4, HoldsMore DEF User
  <2> QED BY <2>2, <2>5
<1> QED BY <1>1, <1>2

\* What the screens of e hold, when records that may be written may be written later.
LEMMA ScreensKept ==
  ASSUME NEW e \in Device, NEW V, NEW W, \A k \in User : V[k] \subseteq W[k], ScreensIn(V, e),
         people'[e] = people[e] \/ people'[e] = NotLoaded \/ AllIn(V, people'[e]),
         profile'[e] = profile[e] \/ profile'[e] = NotDrawn \/ profile'[e] \in V[UserOf[e]]
  PROVE  ScreensIn(W, e)'
<1>1. people'[e] # NotLoaded => AllIn(W, people'[e])
  BY DEF ScreensIn, AllIn, User
<1>2. profile'[e] # NotDrawn => profile'[e] \in W[UserOf[e]]
  BY PeopleTypes DEF ScreensIn
<1> QED BY <1>1, <1>2 DEF ScreensIn

\* All steps but taps and profile updates copy what there is.
LEMMA CopyStep ==
  ASSUME FriendsInv, NEW d \in Device, Inductive', FriendsTypeOK',
         Below(d) \/ HandleValue(d) \/ HandleDone(d) \/ Restart(d), misfired' = misfired,
         \A e \in Device :
            /\ \/ people'[e] = people[e] \/ people'[e] = NotLoaded
               \/ HandleValue(d) /\ e = d /\ people'[e] = Head(events[e]).snap
            /\ profile'[e] = profile[e] \/ profile'[e] = NotDrawn
  PROVE  FriendsInv'
<1> SUFFICES ASSUME ~ misfired PROVE FriendsHonest'
  BY DEF FriendsInv, FriendsHonest
<1>0. Inductive /\ TypeOK /\ TypeOK'
  BY DEF FriendsInv, Inductive
<1>1. /\ HonestHistory(hist')
      /\ \A e \in Device : HoldsIn(Allowed(hist, UserOf[e]), e)'
      /\ \A e \in Device, k \in User : Allowed(hist, UserOf[e])[k] \subseteq Allowed(hist', UserOf[e])[k]
  BY <1>0, CopiesHonest
<1>2. ASSUME NEW e \in Device PROVE ScreensIn(Allowed(hist, UserOf[e]), e)'
  <2>1. PICK V : V = Allowed(hist, UserOf[e])
    OBVIOUS
  <2>2. PICK W : W = Allowed(hist', UserOf[e])
    OBVIOUS
  <2>3. HoldsIn(V, e) /\ ScreensIn(V, e)
    BY <2>1 DEF FriendsInv, FriendsHonest
  <2>4. people'[e] = people[e] \/ people'[e] = NotLoaded \/ AllIn(V, people'[e])
    <3>1. CASE HandleValue(d) /\ e = d /\ people'[e] = Head(events[e]).snap
      <4>1. events[e] # <<>> /\ Head(events[e]).kind = "value"
        BY <3>1 DEF HandleValue
      <4>2. AllIn(V, Head(events[e]).snap)
        BY <1>0, <2>3, <4>1, QueueTypes DEF HoldsIn, EventsIn
      <4> QED BY <3>1, <4>2
    <3> QED BY <3>1
  <2>5. ScreensIn(W, e)'
    BY <1>1, <2>1, <2>2, <2>3, <2>4, ScreensKept
  <2> QED BY <2>2, <2>5
<1> QED BY <1>1, <1>2 DEF FriendsHonest

\* What a tap makes of two records are two records.
LEMMA TapPeople ==
  ASSUME NEW r \in [User -> Person], NEW a \in User, NEW b \in User \ {a}, NEW h \in Handler
  PROVE  Tapped(h, r, a, b) \in [User -> Person]
<1>1. PICK p : p = r[a] /\ p \in Person
  OBVIOUS
<1>2. PICK q : q = r[b] /\ q \in Person
  OBVIOUS
<1>3. CASE h = "add"
  <2>1. PICK s : s = [p EXCEPT !.requested = @ \cup {b}]
    OBVIOUS
  <2>2. PICK t : t = [q EXCEPT !.invites = @ \cup {a}]
    OBVIOUS
  <2>3. s \in Person /\ t \in Person
    BY <1>1, <1>2, <2>1, <2>2 DEF Person
  <2>4. AddFriend(r, a, b) = [r EXCEPT ![a] = s, ![b] = t]
    BY <1>1, <1>2, <2>1, <2>2 DEF AddFriend
  <2> QED BY <1>3, <2>3, <2>4 DEF Tapped
<1>4. CASE h = "cancel"
  <2>1. Without(p, b) \in Person /\ Without(q, a) \in Person
    BY <1>1, <1>2, PersonChanged DEF Person
  <2>2. CancelFriend(r, a, b) = [r EXCEPT ![a] = Without(p, b), ![b] = Without(q, a)]
    BY <1>1, <1>2 DEF CancelFriend
  <2> QED BY <1>4, <2>1, <2>2 DEF Tapped
<1>5. CASE h = "accept"
  <2>1. Befriended(Without(p, b), b) \in Person /\ Befriended(Without(q, a), a) \in Person
    BY <1>1, <1>2, PersonChanged DEF Person
  <2>2. AcceptFriend(r, a, b) = [r EXCEPT ![a] = Befriended(Without(p, b), b),
                                          ![b] = Befriended(Without(q, a), a)]
    BY <1>1, <1>2 DEF AcceptFriend
  <2> QED BY <1>5, <2>1, <2>2 DEF Tapped
<1> QED BY <1>3, <1>4, <1>5 DEF Handler

\* The two writes of a tap keep the queues' types: the one step that is no step of the store.
LEMMA UpdateUsersType ==
  ASSUME Inductive, NEW d \in Device, NEW r \in [User -> Person], NEW a \in User, NEW b \in User,
         UpdateUsers(d, r, a, b)
  PROVE  Inductive'
<1>1. TypeOK
  BY DEF Inductive
<1>2. PICK x : x = [op |-> "put", id |-> issued[d] + 1, key |-> a, val |-> r[a]]
  OBVIOUS
<1>3. PICK y : y = [op |-> "put", id |-> issued[d] + 2, key |-> b, val |-> r[b]]
  OBVIOUS
<1>4. /\ issued[d] \in Nat /\ issued[d] + 2 <= MaxWrites /\ MaxWrites \in Nat
      /\ issued' = [issued EXCEPT ![d] = issued[d] + 2]
      /\ calls' = [calls EXCEPT ![d] = @ \o <<x, y>>]
      /\ UNCHANGED <<hist, subscribed, up, down, conn, listen, observers, synced, cache, puts,
                     toAck, events, shown, drops, restarts, refusals, denials>>
  BY <1>1, <1>2, <1>3, QueueTypes, StoreAssumption DEF UpdateUsers, net, client
<1>5. x \in Put /\ y \in Put
  BY <1>2, <1>3, <1>4, FriendsAssumption DEF Put, WriteId, User
<1>6. calls' \in [Device -> Seq({Observe} \cup Put)]
  <2>1. calls \in [Device -> Seq({Observe} \cup Put)]
    BY <1>1 DEF TypeOK
  <2>2. PICK c : c = calls[d] \o <<x, y>>
    OBVIOUS
  <2>3. c \in Seq({Observe} \cup Put)
    BY <1>5, <2>1, <2>2
  <2>4. calls' = [calls EXCEPT ![d] = c]
    BY <1>4, <2>2
  <2> QED BY <2>1, <2>3, <2>4
<1>7. issued' \in [Device -> 0..MaxWrites]
  <2>1. issued \in [Device -> 0..MaxWrites]
    BY <1>1 DEF TypeOK
  <2> QED BY <1>4, <2>1
<1>8. TypeOK'
  BY <1>1, <1>4, <1>6, <1>7 DEF TypeOK
<1>9. VersionsOrdered'
  BY <1>4, Quiet DEF Inductive
<1> QED BY <1>8, <1>9 DEF Inductive

\* ... and their values.
LEMMA UpdateUsersIn ==
  ASSUME TypeOK, NEW V, NEW d \in Device, NEW r, NEW a, NEW b, UpdateUsers(d, r, a, b),
         NEW e \in Device, HoldsIn(V, e), e = d => r[a] \in V[a] /\ r[b] \in V[b]
  PROVE  HoldsIn(V, e)'
<1>1. PICK x : x = [op |-> "put", id |-> issued[d] + 1, key |-> a, val |-> r[a]]
  OBVIOUS
<1>2. PICK y : y = [op |-> "put", id |-> issued[d] + 2, key |-> b, val |-> r[b]]
  OBVIOUS
<1>3. /\ up' = up /\ puts' = puts /\ toAck' = toAck /\ events' = events /\ shown' = shown
      /\ calls'[e] = IF e = d THEN calls[e] \o <<x, y>> ELSE calls[e]
  BY <1>1, <1>2 DEF UpdateUsers, TypeOK, net, client
<1>4. e = d => WritesIn(V, calls[e] \o <<x, y>>)
  <2> SUFFICES ASSUME e = d PROVE WritesIn(V, calls[e] \o <<x, y>>)
    OBVIOUS
  <2>1. x.val \in V[x.key] /\ y.val \in V[y.key]
    BY <1>1, <1>2
  <2>2. WritesIn(V, <<x, y>>) /\ WritesIn(V, calls[e])
    BY <2>1 DEF WritesIn, HoldsIn
  <2>3. PICK t : t = <<x, y>>
    OBVIOUS
  <2>4. t \in Seq({x, y}) /\ WritesIn(V, t)
    BY <2>2, <2>3
  <2>5. WritesIn(V, calls[e] \o t)
    BY <2>2, <2>4, QueueTypes DEF WritesIn
  <2> QED BY <2>3, <2>5
<1> QED BY <1>3, <1>4 DEF HoldsIn

\* A tap writes what it makes of the two records.
LEMMA TapStep ==
  ASSUME FriendsInv, NEW d \in Device, NEW b \in User, NEW h \in Handler, TapButton(d, b, h)
  PROVE  FriendsInv'
<1>0. Inductive /\ TypeOK /\ FriendsTypeOK
  BY DEF FriendsInv, Inductive
<1>1. PICK a : a = UserOf[d]
  OBVIOUS
<1>2. PICK r : r = Tapped(h, people[d], a, b)
  OBVIOUS
<1>3. /\ people[d] # NotLoaded /\ b # a /\ a \in User
      /\ UpdateUsers(d, r, a, b)
      /\ people' = [people EXCEPT ![d] = r]
      /\ misfired' = (misfired \/ h \notin Offers(people[d][a], b))
      /\ profile' = profile
  BY <1>1, <1>2, PeopleTypes DEF TapButton
<1>4. people[d] \in [User -> Person] /\ r \in [User -> Person]
  <2>1. people[d] \in [User -> Person]
    BY <1>0, <1>3 DEF FriendsTypeOK
  <2> QED BY <1>2, <1>3, <2>1, TapPeople
<1>5. FriendsTypeOK'
  BY <1>0, <1>3, <1>4 DEF FriendsTypeOK
<1>6. Inductive'
  BY <1>0, <1>3, <1>4, UpdateUsersType
<1>7. ASSUME ~ misfired' PROVE FriendsHonest'
  <2>1. ~ misfired /\ h \in Offers(people[d][a], b) /\ FriendsHonest /\ hist' = hist
    BY <1>0, <1>3, <1>7 DEF FriendsInv, FriendsTypeOK, UpdateUsers
  <2>2. ASSUME NEW e \in Device
        PROVE  HoldsIn(Allowed(hist, UserOf[e]), e)' /\ ScreensIn(Allowed(hist, UserOf[e]), e)'
    <3>1. PICK V : V = Allowed(hist, UserOf[e])
      OBVIOUS
    <3>2. HoldsIn(V, e) /\ ScreensIn(V, e)
      BY <2>1, <3>1 DEF FriendsHonest
    <3>3. e = d => AllIn(V, r)
      <4> SUFFICES ASSUME e = d PROVE AllIn(V, r)
        OBVIOUS
      <4>1. AllIn(V, people[d])
        BY <1>3, <3>2 DEF ScreensIn
      <4> QED BY <1>1, <1>2, <1>3, <1>4, <2>1, <3>1, <4>1, TapHonest
    <3>4. e = d => r[a] \in V[a] /\ r[b] \in V[b]
      BY <1>3, <3>3 DEF AllIn, User
    <3>5. HoldsIn(V, e)'
      BY <1>0, <1>3, <3>2, <3>4, UpdateUsersIn
    <3>6. ScreensIn(V, e)'
      <4>1. people'[e] = people[e] \/ AllIn(V, people'[e])
        BY <1>0, <1>3, <3>3 DEF FriendsTypeOK
      <4> QED BY <1>3, <3>2, <4>1, ScreensKept
    <3> QED BY <2>1, <3>1, <3>5, <3>6
  <2> QED BY <2>1, <2>2 DEF FriendsHonest
<1> QED BY <1>5, <1>6, <1>7 DEF FriendsInv, FriendsHonest

\* The user's record is written as it was drawn.
LEMMA UpdateProfileStep ==
  ASSUME FriendsInv, NEW d \in Device, UpdateProfile(d)
  PROVE  FriendsInv'
<1>0. Inductive /\ TypeOK /\ FriendsTypeOK
  BY DEF FriendsInv, Inductive
<1>1. /\ profile[d] # NotDrawn /\ SetValue(d, UserOf[d], profile[d])
      /\ UNCHANGED <<people, profile, misfired>> /\ hist' = hist
  BY DEF UpdateProfile, SetValue
<1>2. profile[d] \in Value /\ UserOf[d] \in Key
  BY <1>0, <1>1, PeopleTypes, FriendsAssumption DEF FriendsTypeOK
<1>3. Inductive'
  <2>1. Next
    BY <1>1, <1>2 DEF Next
  <2> QED BY <1>0, <2>1, InductiveStep, StoreAssumption
<1>4. FriendsTypeOK'
  BY <1>0, <1>1 DEF FriendsTypeOK
<1>5. ASSUME ~ misfired' PROVE FriendsHonest'
  <2>1. FriendsHonest /\ ~ misfired
    BY <1>1, <1>5 DEF FriendsInv
  <2>2. ASSUME NEW e \in Device
        PROVE  HoldsIn(Allowed(hist, UserOf[e]), e)' /\ ScreensIn(Allowed(hist, UserOf[e]), e)'
    <3>1. PICK V : V = Allowed(hist, UserOf[e])
      OBVIOUS
    <3>2. HoldsIn(V, e) /\ ScreensIn(V, e)
      BY <2>1, <3>1 DEF FriendsHonest
    <3>3. HoldsIn(V, e)'
      <4>1. CASE e = d
        <5>1. profile[d] \in V[UserOf[d]]
          BY <1>1, <3>2, <4>1 DEF ScreensIn
        <5> QED BY <1>0, <1>1, <1>2, <3>2, <5>1, SetValueIn
      <4>2. CASE e # d
        <5>1. /\ calls'[e] = calls[e] /\ up' = up /\ puts' = puts /\ toAck' = toAck
              /\ events' = events /\ shown' = shown
          BY <1>0, <1>1, <4>2 DEF SetValue, TypeOK, net, client
        <5> QED BY <3>2, <5>1, IdleIn
      <4> QED BY <4>1, <4>2
    <3>4. ScreensIn(V, e)'
      BY <1>1, <3>2, ScreensKept
    <3> QED BY <1>1, <3>1, <3>3, <3>4
  <2> QED BY <1>1, <2>1, <2>2 DEF FriendsHonest
<1> QED BY <1>3, <1>4, <1>5 DEF FriendsInv, FriendsHonest

\* The profile is drawn from the last snapshot.
LEMMA DrawProfileStep ==
  ASSUME FriendsInv, NEW d \in Device, DrawProfile(d)
  PROVE  FriendsInv'
<1>0. Inductive /\ TypeOK /\ FriendsTypeOK
  BY DEF FriendsInv, Inductive
<1>1. /\ shown[d] # NotLoaded /\ profile' = [profile EXCEPT ![d] = shown[d][UserOf[d]]]
      /\ UNCHANGED <<vars, people, misfired>> /\ UNCHANGED <<hist, calls, up, puts, toAck, events, shown>>
  BY DEF DrawProfile, vars, net, client
<1>2. Inductive'
  BY <1>0, <1>1, InductiveStep, StoreAssumption
<1>3. shown[d][UserOf[d]] \in Person
  BY <1>0, <1>1, PeopleTypes DEF TypeOK
<1>4. FriendsTypeOK'
  BY <1>0, <1>1, <1>3 DEF FriendsTypeOK
<1>5. ASSUME ~ misfired' PROVE FriendsHonest'
  <2>1. FriendsHonest /\ ~ misfired
    BY <1>1, <1>5 DEF FriendsInv
  <2>2. ASSUME NEW e \in Device
        PROVE  HoldsIn(Allowed(hist, UserOf[e]), e)' /\ ScreensIn(Allowed(hist, UserOf[e]), e)'
    <3>1. PICK V : V = Allowed(hist, UserOf[e])
      OBVIOUS
    <3>2. HoldsIn(V, e) /\ ScreensIn(V, e)
      BY <2>1, <3>1 DEF FriendsHonest
    <3>3. HoldsIn(V, e)'
      BY <1>1, <3>2, IdleIn
    <3>4. profile'[e] = profile[e] \/ profile'[e] \in V[UserOf[e]]
      <4>1. CASE e = d
        <5>1. AllIn(V, shown[d])
          BY <1>1, <3>2, <4>1 DEF HoldsIn
        <5> QED BY <1>0, <1>1, <4>1, <5>1, PeopleTypes DEF AllIn, FriendsTypeOK
      <4>2. CASE e # d
        BY <1>0, <1>1, <4>2 DEF FriendsTypeOK
      <4> QED BY <4>1, <4>2
    <3>5. ScreensIn(V, e)'
      BY <1>1, <3>2, <3>4, ScreensKept
    <3> QED BY <1>1, <3>1, <3>3, <3>5
  <2> QED BY <1>1, <2>1, <2>2 DEF FriendsHonest
<1> QED BY <1>2, <1>4, <1>5 DEF FriendsInv, FriendsHonest

\* Every step keeps the invariant.
LEMMA FriendsStep ==
  ASSUME FriendsInv, [FriendsNext]_friendsVars
  PROVE  FriendsInv'
<1>0. Inductive /\ TypeOK /\ FriendsTypeOK
  BY DEF FriendsInv, Inductive
<1>1. ASSUME NEW d \in Device, RetrievedUsers(d) PROVE FriendsInv'
  <2>1. PICK r : r = Head(events[d]).snap
    OBVIOUS
  <2>2. /\ HandleValue(d) /\ people' = [people EXCEPT ![d] = r] /\ UNCHANGED <<profile, misfired>>
    BY <1>1, <2>1 DEF RetrievedUsers
  <2>3. Inductive'
    <3>1. Next
      BY <2>2 DEF Next, Infrastructure
    <3> QED BY <1>0, <3>1, InductiveStep, StoreAssumption
  <2>4. r \in [User -> Person]
    <3>1. events[d] # <<>> /\ Head(events[d]).kind = "value" /\ Head(events[d]) \in Event
      BY <1>0, <2>2, QueueTypes, HeadTailProperties DEF HandleValue
    <3> QED BY <2>1, <3>1, PeopleTypes DEF Event, ValueEv, DoneEv
  <2>5. FriendsTypeOK'
    BY <1>0, <2>2, <2>4 DEF FriendsTypeOK
  <2>6. \A e \in Device : people'[e] = people[e] \/ (e = d /\ people'[e] = Head(events[e]).snap)
    BY <1>0, <2>1, <2>2 DEF FriendsTypeOK
  <2> QED BY <2>2, <2>3, <2>5, <2>6, CopyStep
<1>2. ASSUME NEW d \in Device, NEW b \in User, NEW h \in Handler, TapButton(d, b, h) PROVE FriendsInv'
  BY <1>2, TapStep
<1>3. ASSUME NEW d \in Device, DrawProfile(d) PROVE FriendsInv'
  BY <1>3, DrawProfileStep
<1>4. ASSUME NEW d \in Device, UpdateProfile(d) PROVE FriendsInv'
  BY <1>4, UpdateProfileStep
<1>5. ASSUME NEW d \in Device, UpdatedUser(d) PROVE FriendsInv'
  <2>1. HandleDone(d) /\ UNCHANGED <<people, profile, misfired>>
    BY <1>5 DEF UpdatedUser
  <2>2. Inductive'
    <3>1. Next
      BY <2>1 DEF Next, Infrastructure
    <3> QED BY <1>0, <3>1, InductiveStep, StoreAssumption
  <2>3. FriendsTypeOK'
    BY <1>0, <2>1 DEF FriendsTypeOK
  <2> QED BY <2>1, <2>2, <2>3, CopyStep
<1>6. ASSUME NEW d \in Device, RestartScreens(d) PROVE FriendsInv'
  <2>1. /\ Restart(d) /\ misfired' = misfired
        /\ people' = [people EXCEPT ![d] = NotLoaded] /\ profile' = [profile EXCEPT ![d] = NotDrawn]
    BY <1>6 DEF RestartScreens
  <2>2. Inductive'
    <3>1. Next
      BY <2>1 DEF Next, Mishap
    <3> QED BY <1>0, <3>1, InductiveStep, StoreAssumption
  <2>3. FriendsTypeOK'
    BY <1>0, <2>1 DEF FriendsTypeOK
  <2>4. \A e \in Device : /\ people'[e] = people[e] \/ people'[e] = NotLoaded
                          /\ profile'[e] = profile[e] \/ profile'[e] = NotDrawn
    BY <1>0, <2>1 DEF FriendsTypeOK
  <2> QED BY <2>1, <2>2, <2>3, <2>4, CopyStep
<1>7. ASSUME NEW d \in Device, DataLayer(d) PROVE FriendsInv'
  <2>1. Below(d) /\ UNCHANGED <<people, profile, misfired>>
    BY <1>7 DEF DataLayer
  <2>2. Inductive'
    <3>1. Next
      BY <2>1 DEF Below, Next, Infrastructure, Mishap
    <3> QED BY <1>0, <3>1, InductiveStep, StoreAssumption
  <2>3. FriendsTypeOK'
    BY <1>0, <2>1 DEF FriendsTypeOK
  <2> QED BY <2>1, <2>2, <2>3, CopyStep
<1>8. CASE UNCHANGED friendsVars
  <2>1. UNCHANGED <<vars, hist, calls, up, puts, toAck, events, shown, people, profile, misfired>>
    BY <1>8 DEF friendsVars, vars, net, client
  <2>2. Inductive'
    BY <1>0, <2>1, InductiveStep, StoreAssumption
  <2> QED BY <2>1, <2>2 DEF FriendsInv, FriendsTypeOK, FriendsHonest, HoldsIn, ScreensIn
<1> QED BY <1>1, <1>2, <1>3, <1>4, <1>5, <1>6, <1>7, <1>8 DEF FriendsNext

\* The screens that show and change friends keep FriendsInv: with any people, devices and
\* bounds, what discover and profile hold and what is on its way from them to the database
\* is what their user may write.
THEOREM FriendsInvariant == FriendsSpec => []FriendsInv
<1>1. FriendsInit => FriendsInv
  <2> SUFFICES ASSUME FriendsInit PROVE FriendsInv
    OBVIOUS
  <2>1. Inductive
    BY StoreAssumption, InductiveInit DEF FriendsInit
  <2>2. /\ hist = [k \in Key |-> <<>>]
        /\ people = [d \in Device |-> NotLoaded] /\ profile = [d \in Device |-> NotDrawn] /\ misfired = FALSE
        /\ \A d \in Device : /\ calls[d] = <<>> /\ up[d] = <<>> /\ puts[d] = <<>> /\ toAck[d] = <<>>
                             /\ events[d] = <<>> /\ shown[d] = NotLoaded
    BY DEF FriendsInit, Init
  <2>3. FriendsTypeOK
    BY <2>2 DEF FriendsTypeOK
  <2>4. HonestHistory(hist)
    BY <2>2 DEF HonestHistory, User
  <2>5. \A V : \A d \in Device : HoldsIn(V, d) /\ ScreensIn(V, d)
    <3>1. \A V : WritesIn(V, <<>>) /\ EventsIn(V, <<>>)
      BY DEF WritesIn, EventsIn
    <3> QED BY <2>2, <3>1 DEF HoldsIn, ScreensIn
  <2> QED BY <2>1, <2>3, <2>4, <2>5 DEF FriendsInv, FriendsHonest
<1>2. FriendsInv /\ [FriendsNext]_friendsVars => FriendsInv'
  BY FriendsStep
<1> QED BY <1>1, <1>2, PTL DEF FriendsSpec

\* Only the invited user makes a friendship: the first version of a record with a new friend
\* was written by updateUsers on a device of one of the two, whom the other had invited; as
\* long as no tap ran a handler that its row did not call for (a button of a reused cell that
\* kept an earlier one).
THEOREM FriendsAreInvited == FriendsSpec => []OnlyInvitedAccepts
<1>1. FriendsInv => OnlyInvitedAccepts
  <2> SUFFICES ASSUME FriendsInv, ~ misfired, NEW k \in User, NEW n \in DOMAIN hist[k],
                      NEW x \in hist[k][n].val.friends, \A m \in 0..(n - 1) : x \notin Stored(k, m).friends
               PROVE  LET w == UserOf[hist[k][n].by]
                          other == IF w = k THEN x ELSE k
                      IN /\ w \in {k, x}
                         /\ \E m \in 0..(IF w = k THEN n - 1 ELSE Len(hist[w])) :
                               other \in Stored(w, m).invites
    BY DEF OnlyInvitedAccepts
  <2>1. \A j, m : Stored(j, m) = VersionOf(hist, j, m)
    BY DEF Stored, VersionOf
  <2>2. ~ WasFriend(hist, k, n - 1, x)
    BY <2>1 DEF WasFriend
  <2>3. Accepts(hist, UserOf[hist[k][n].by], k, n - 1, x)
    BY <2>2 DEF FriendsInv, FriendsHonest, HonestHistory
  <2> QED BY <2>1, <2>3 DEF Accepts, WasInvited
<1> QED BY <1>1, FriendsInvariant, PTL

-----------------------------------------------------------------------------
(* The two writes of a tap *)

\* updateUsers calls setValue twice, for the tapping user and for the other.
LEMMA UpdateUsersCalls ==
  ASSUME TypeOK, NEW d \in Device, NEW r \in [User -> Person], NEW a \in User, NEW b \in User,
         UpdateUsers(d, r, a, b)
  PROVE  \E x \in Put, y \in Put :
           /\ x.id = issued[d] + 1 /\ x.key = a /\ x.val = r[a]
           /\ y.id = issued[d] + 2 /\ y.key = b /\ y.val = r[b]
           /\ calls'[d] = Append(Append(calls[d], x), y) /\ issued'[d] = issued[d] + 2
           /\ \A e \in Device \ {d} : calls'[e] = calls[e] /\ issued'[e] = issued[e]
           /\ UNCHANGED <<hist, subscribed, up, down, conn, listen, observers, synced, cache, puts,
                          toAck, events, shown, drops, restarts, refusals>>
<1>1. PICK x : x = [op |-> "put", id |-> issued[d] + 1, key |-> a, val |-> r[a]]
  OBVIOUS
<1>2. PICK y : y = [op |-> "put", id |-> issued[d] + 2, key |-> b, val |-> r[b]]
  OBVIOUS
<1>3. /\ issued[d] \in Nat /\ issued[d] + 2 <= MaxWrites /\ MaxWrites \in Nat
      /\ issued'[d] = issued[d] + 2 /\ \A e \in Device \ {d} : issued'[e] = issued[e]
      /\ calls'[d] = calls[d] \o <<x, y>> /\ \A e \in Device \ {d} : calls'[e] = calls[e]
      /\ UNCHANGED <<hist, subscribed, up, down, conn, listen, observers, synced, cache, puts,
                     toAck, events, shown, drops, restarts, refusals>>
  BY <1>1, <1>2, QueueTypes, StoreAssumption DEF UpdateUsers, net, client, TypeOK
<1>4. x \in Put /\ y \in Put
  BY <1>1, <1>2, <1>3, FriendsAssumption DEF Put, WriteId, User
<1>5. calls[d] \o <<x, y>> = Append(Append(calls[d], x), y)
  <2>1. calls[d] \in Seq({Observe} \cup Put)
    BY QueueTypes
  <2> QED BY <2>1
<1>6. x.id = issued[d] + 1 /\ x.key = a /\ x.val = r[a] /\ y.id = issued[d] + 2 /\ y.key = b /\ y.val = r[b]
  BY <1>1, <1>2
<1> QED BY <1>3, <1>4, <1>5, <1>6

\* They have the greatest numbers.
LEMMA UpdateUsersOrdered ==
  ASSUME TypeOK, Ordered, NEW d \in Device, NEW r \in [User -> Person], NEW a \in User,
         NEW b \in User, UpdateUsers(d, r, a, b)
  PROVE  Ordered'
<1> SUFFICES ASSUME NEW e \in Device PROVE OrderedAt(e)'
  BY DEF Ordered
<1>1. OrderedAt(e)
  BY DEF Ordered
<1>2. PICK x \in Put, y \in Put :
         /\ x.id = issued[d] + 1 /\ y.id = issued[d] + 2
         /\ calls'[d] = Append(Append(calls[d], x), y) /\ issued'[d] = issued[d] + 2
         /\ \A f \in Device \ {d} : calls'[f] = calls[f] /\ issued'[f] = issued[f]
         /\ UNCHANGED <<events, toAck, puts, down, up, conn>>
  BY UpdateUsersCalls
<1>3. CASE e # d
  BY <1>1, <1>2, <1>3 DEF OrderedAt
<1>4. CASE e = d
  <2>1. PICK n : n = issued[d] + 1
    OBVIOUS
  <2>2. n \in Nat /\ x.id = issued[d] + 1 /\ y.id = n + 1 /\ issued'[d] = n + 1 /\ issued[d] \in Nat
    BY <1>2, <2>1, QueueTypes
  <2>3. PICK c : c = Append(calls[d], x)
    OBVIOUS
  <2>4. c \in Seq({Observe} \cup Put) /\ calls'[d] = Append(c, y)
    <3>1. calls[d] \in Seq({Observe} \cup Put)
      BY QueueTypes
    <3> QED BY <1>2, <2>3, <3>1
  <2>5. /\ Flow(events[d], toAck[d], puts[d], c, NextId(n))
        /\ Wire(down[d], up[d], c, NextId(n))
    BY <1>1, <1>4, <2>1, <2>2, <2>3, QueueTypes, SetFlow, SetWire DEF OrderedAt
  <2>6. /\ Flow(events[d], toAck[d], puts[d], calls'[d], NextId(n + 1))
        /\ Wire(down[d], up[d], calls'[d], NextId(n + 1))
    BY <2>2, <2>4, <2>5, QueueTypes, SetFlow, SetWire
  <2> QED BY <1>1, <1>2, <1>4, <2>2, <2>6 DEF OrderedAt
<1> QED BY <1>3, <1>4

\* They are newer than all that are applied.
LEMMA UpdateUsersResends ==
  ASSUME TypeOK, Resends, NEW d \in Device, NEW r \in [User -> Person], NEW a \in User,
         NEW b \in User, UpdateUsers(d, r, a, b)
  PROVE  Resends'
<1> SUFFICES ASSUME NEW e \in Device PROVE ResendsAt(e)'
  BY DEF Resends
<1>0. ResendsAt(e)
  BY DEF Resends
<1>1. PICK x \in Put, y \in Put :
         /\ x.id = issued[d] + 1 /\ y.id = issued[d] + 2
         /\ calls'[d] = Append(Append(calls[d], x), y) /\ issued'[d] = issued[d] + 2
         /\ \A f \in Device \ {d} : calls'[f] = calls[f] /\ issued'[f] = issued[f]
         /\ UNCHANGED <<up, puts, conn, restarts, refusals, hist>>
  BY UpdateUsersCalls
<1>2. CASE e # d
  BY <1>0, <1>1, <1>2, StillResends
<1>3. CASE e = d
  <2>1. PICK c : c = Append(Append(calls[d], x), y)
    OBVIOUS
  <2>2. \A i \in DOMAIN c : (i \in DOMAIN calls[d] /\ c[i] = calls[d][i]) \/ c[i] = x \/ c[i] = y
    <3>1. calls[d] \in Seq({Observe} \cup Put)
      BY QueueTypes
    <3> QED BY <2>1, <3>1
  <2>3. \A i \in Numbered(c) : (i \in Numbered(calls[d]) /\ c[i] = calls[d][i]) \/ c[i] = x \/ c[i] = y
    BY <2>2 DEF Numbered
  <2>4. ASSUME NEW q \in Key PROVE Older(hist[q], d, c, issued[d] + 2)
    <3>1. Older(hist[q], d, calls[d], issued[d])
      BY <1>0, <1>3 DEF ResendsAt
    <3>2. \A m \in By(hist[q], d) : hist[q][m].id \in Nat
      BY ResendTypes, HistIds
    <3>3. issued[d] \in Nat
      BY QueueTypes
    <3> QED BY <1>1, <2>3, <3>1, <3>2, <3>3 DEF Older
  <2>5. \A q \in Key : LatestAt(d, q)' <=> LatestAt(d, q)
    BY <1>1 DEF LatestAt
  <2> QED BY <1>0, <1>1, <1>3, <2>1, <2>4, <2>5 DEF ResendsAt
<1> QED BY <1>2, <1>3

-----------------------------------------------------------------------------
(* What the records come to *)

\* No write was made on old records, and nothing was lost or refused.
Calm == ~ raced /\ \A d \in Device : restarts[d] = 0 /\ refusals[d] = 0

\* The writes of d whose completion blocks are not posted.
Open(d) == Writes(toAck[d]) \cup Pending(d)

\* The newest of the writes in S on a record writes what R says.
Means(R, S) ==
  \A p \in S : (\A q \in S : q.key = p.key => q.id <= p.id) => p.val = R[p.key]

\* The database holds what R says, but for the records with a write unserved.
Landed(R) ==
  \A k \in User : (\A d \in Device : \A p \in Unserved(d) : p.key # k) => Server[k] = R[k]

\* The records that the open writes lead to.
Meant(R) == Mirrored(R) /\ Landed(R) /\ \A d \in Device : Means(R, Open(d))

\* The inductive invariant of RelationsMirrored.
TapsMeant == Calm => \E R : Meant(R)

\* Two writes that say the same.
Same(p, q) == p.id = q.id /\ p.key = q.key /\ p.val = q.val

\* The writes of two sequences.
LEMMA WritesJoined ==
  ASSUME NEW S, NEW T, NEW s \in Seq(S), NEW t \in Seq(T)
  PROVE  Writes(s \o t) = Writes(s) \cup Writes(t)
<1>1. PICK u : u = s \o t
  OBVIOUS
<1>2. /\ Len(s) \in Nat /\ Len(t) \in Nat /\ DOMAIN u = 1..(Len(s) + Len(t))
      /\ DOMAIN s = 1..Len(s) /\ DOMAIN t = 1..Len(t)
      /\ \A i \in 1..Len(s) : u[i] = s[i]
      /\ \A i \in 1..Len(t) : u[Len(s) + i] = t[i]
  BY <1>1
<1>3. \A i \in Numbered(s) : i \in Numbered(u) /\ u[i] = s[i]
  BY <1>2 DEF Numbered
<1>4. \A i \in Numbered(t) : Len(s) + i \in Numbered(u) /\ u[Len(s) + i] = t[i]
  BY <1>2 DEF Numbered
<1>5. \A i \in Numbered(u) : \/ i \in Numbered(s) /\ u[i] = s[i]
                             \/ i - Len(s) \in Numbered(t) /\ u[i] = t[i - Len(s)]
  <2> SUFFICES ASSUME NEW i \in Numbered(u)
               PROVE  \/ i \in Numbered(s) /\ u[i] = s[i]
                      \/ i - Len(s) \in Numbered(t) /\ u[i] = t[i - Len(s)]
    OBVIOUS
  <2>1. i \in 1..Len(s) \/ (i - Len(s) \in 1..Len(t) /\ i = Len(s) + (i - Len(s)))
    BY <1>2 DEF Numbered
  <2> QED BY <1>2, <2>1 DEF Numbered
<1>6. Writes(u) \subseteq Writes(s) \cup Writes(t)
  BY <1>5 DEF Writes
<1>7. Writes(s) \subseteq Writes(u) /\ Writes(t) \subseteq Writes(u)
  BY <1>3, <1>4 DEF Writes
<1> QED BY <1>1, <1>6, <1>7

\* What is open has a number and a record.
LEMMA OpenTypes ==
  ASSUME TypeOK, NEW d \in Device
  PROVE  /\ Writes(toAck[d]) \subseteq Answered
         /\ \A p \in Open(d) : p.id \in Nat /\ p.key \in Key /\ p \in Answered \cup Put
<1>1. Writes(toAck[d]) \subseteq Answered
  <2>1. toAck[d] \in Seq(Answered)
    BY QueueTypes
  <2>2. \A i \in DOMAIN toAck[d] : toAck[d][i] \in Answered
    BY <2>1
  <2> QED BY <2>2 DEF Writes, Numbered
<1>2. \A p \in Answered : p.id \in Nat /\ p.key \in Key
  BY DEF Answered, WriteId
<1> QED BY <1>1, <1>2, PendingPuts, PutsNumbered DEF Open

\* What was meant stays so if writes only leave that are older than the rest.
LEMMA MeansKept ==
  ASSUME NEW R, NEW S, NEW T, Means(R, S),
         \A q \in T : \E p \in S : Same(p, q),
         \A p \in S : (\E q \in T : Same(p, q)) \/ \A q \in T : p.id <= q.id
  PROVE  Means(R, T)
<1> SUFFICES ASSUME NEW q \in T, \A t \in T : t.key = q.key => t.id <= q.id
             PROVE  q.val = R[q.key]
  BY DEF Means
<1>1. PICK p \in S : Same(p, q)
  OBVIOUS
<1>2. \A s \in S : s.key = p.key => s.id <= p.id
  BY <1>1 DEF Same
<1> QED BY <1>1, <1>2 DEF Means, Same

\* A step that stores nothing.
LEMMA KeepsMeant ==
  ASSUME TapsMeant, hist' = hist, Calm' => Calm,
         \A e \in Device : Unserved(e) \subseteq Unserved(e)',
         \A e \in Device : \A R : Means(R, Open(e)) => Means(R, Open(e)')
  PROVE  TapsMeant'
<1> SUFFICES ASSUME Calm' PROVE \E R : Meant(R)'
  BY DEF TapsMeant
<1>1. PICK R : Meant(R)
  BY DEF TapsMeant
<1>2. Server' = Server
  BY DEF Server, Stored
<1>3. Landed(R)'
  <2> SUFFICES ASSUME NEW k \in User, \A d \in Device : \A p \in Unserved(d)' : p.key # k
               PROVE  Server[k] = R[k]
    BY <1>2 DEF Landed
  <2>1. \A d \in Device : \A p \in Unserved(d) : p.key # k
    OBVIOUS
  <2> QED BY <1>1, <2>1 DEF Meant, Landed
<1>4. \A e \in Device : Means(R, Open(e)')
  BY <1>1 DEF Meant
<1> QED BY <1>1, <1>3, <1>4 DEF Meant, Mirrored, Means

\* Steps that leave the open writes alone.
LEMMA QuietMeant ==
  ASSUME TypeOK, Resends, TapsMeant, NEW d \in Device, raced' = raced,
         \/ RetrieveAll(d) \/ HandleDone(d) \/ HandleValue(d) \/ RunPut(d) \/ RunObserve(d)
         \/ Connect(d) \/ Disconnect(d) \/ ReceiveData(d) \/ ReceiveListenOk(d)
         \/ ReceiveDenial(d) \/ ServerListen(d) \/ ServerDeny(d)
  PROVE  TapsMeant'
<1>1. \A e \in Device : Pending(e)' = Pending(e) /\ Unserved(e) \subseteq Unserved(e)'
  BY QuietPending
<1>2. hist' = hist /\ restarts' = restarts /\ refusals' = refusals /\ toAck' = toAck
  BY DEF RetrieveAll, HandleDone, HandleValue, RunPut, RunObserve, Connect,
     Disconnect, ReceiveData, ReceiveListenOk, ReceiveDenial, ServerListen, ServerDeny, counts, client
<1>3. Calm' => Calm
  BY <1>2 DEF Calm
<1>4. \A e \in Device : Open(e)' = Open(e)
  BY <1>1, <1>2 DEF Open
<1> QED BY <1>1, <1>2, <1>3, <1>4, KeepsMeant

\* The acknowledged write is the oldest open one.
LEMMA AckPutMeant ==
  ASSUME TypeOK, Ordered, Resends, TapsMeant, NEW d \in Device, raced' = raced, AckPut(d)
  PROVE  TapsMeant'
<1>1. \A e \in Device : Pending(e)' = Pending(e) /\ Unserved(e) \subseteq Unserved(e)'
  BY QuietPending
<1>2. /\ hist' = hist /\ restarts' = restarts /\ refusals' = refusals
      /\ toAck[d] # <<>> /\ toAck'[d] = Tail(toAck[d]) /\ \A e \in Device \ {d} : toAck'[e] = toAck[e]
  BY DEF AckPut, counts, TypeOK
<1>3. PICK p : p = Head(toAck[d])
  OBVIOUS
<1>4. p \in Answered /\ Writes(toAck[d]) = Writes(Tail(toAck[d])) \cup {p}
  <2>1. toAck[d] \in Seq(Answered)
    BY QueueTypes
  <2>2. p \in Answered /\ "id" \in DOMAIN p
    BY <1>2, <1>3, <2>1, HeadTailProperties, Numbers
  <2>3. Own(p) = {p}
    BY <2>2 DEF Own
  <2> QED BY <1>2, <1>3, <2>1, <2>2, <2>3, WritesOf
<1>5. /\ \A q \in Writes(Tail(toAck[d])) : p.id < q.id
      /\ \A q \in Pending(d) : p.id < q.id
  <2>1. toAck[d] \in Seq(Answered) /\ Ascending(toAck[d]) /\ Before(toAck[d], puts[d])
          /\ Before(toAck[d], calls[d])
    BY QueueTypes DEF Ordered, OrderedAt, Flow
  <2>2. \A i \in Numbered(Tail(toAck[d])) : i + 1 \in Numbered(toAck[d])
          /\ Tail(toAck[d])[i] = toAck[d][i + 1] /\ i \in Nat \ {0}
    BY <1>2, <2>1 DEF Numbered
  <2>3. 1 \in Numbered(toAck[d]) /\ toAck[d][1] = p
    BY <1>2, <1>3, <1>4, <2>1, Numbers DEF Numbered
  <2>4. \A i \in Numbered(Tail(toAck[d])) : p.id < toAck[d][i + 1].id
    BY <2>1, <2>2, <2>3 DEF Ascending
  <2>5. \A q \in Pending(d) : p.id < q.id
    BY <2>1, <2>3 DEF Before, Pending, Writes
  <2> QED BY <2>2, <2>4, <2>5 DEF Writes
<1>6. ASSUME NEW e \in Device, NEW R, Means(R, Open(e)) PROVE Means(R, Open(e)')
  <2>1. CASE e # d
    <3>1. Open(e)' = Open(e)
      BY <1>1, <1>2, <2>1 DEF Open
    <3> QED BY <1>6, <3>1
  <2>2. CASE e = d
    <3>1. Open(d) = Open(d)' \cup {p}
      BY <1>1, <1>2, <1>4 DEF Open
    <3>2. \A q \in Open(d)' : p.id < q.id
      BY <1>1, <1>2, <1>5 DEF Open
    <3>3. p.id \in Nat /\ \A q \in Open(d)' : q.id \in Nat
      BY <3>1, OpenTypes
    <3>4. \A q \in Open(d)' : p.id <= q.id
      BY <3>2, <3>3
    <3>5. \A q : Same(q, q)
      BY DEF Same
    <3> QED BY <1>6, <2>2, <3>1, <3>4, <3>5, MeansKept
  <2> QED BY <2>1, <2>2
<1>7. Calm' => Calm
  BY <1>2 DEF Calm
<1> QED BY <1>1, <1>2, <1>6, <1>7, KeepsMeant

\* The answered write stays open.
LEMMA ReceivePutDoneMeant ==
  ASSUME TypeOK, Ordered, TapsMeant, NEW d \in Device, raced' = raced, ReceivePutDone(d)
  PROVE  TapsMeant'
<1>1. /\ hist' = hist /\ restarts' = restarts /\ refusals' = refusals /\ calls' = calls
      /\ up' = up /\ conn' = conn
  BY DEF ReceivePutDone, counts
<1>2. PICK p : p = Head(puts[d])
  OBVIOUS
<1>3. PICK t : t = ToAck(p, Head(down[d]).ok)
  OBVIOUS
<1>4. /\ Head(down[d]) \in PutDone /\ puts[d] # <<>> /\ puts'[d] = Tail(puts[d]) /\ conn[d] = "up"
      /\ toAck'[d] = Append(toAck[d], t)
      /\ \A e \in Device \ {d} : puts'[e] = puts[e] /\ toAck'[e] = toAck[e]
  <2>1. \A e \in Device \ {d} : puts'[e] = puts[e] /\ toAck'[e] = toAck[e]
    BY DEF ReceivePutDone, TypeOK
  <2> QED BY <1>2, <1>3, <2>1, AnsweredFirst
<1>5. p \in Put /\ Writes(puts[d]) = Writes(Tail(puts[d])) \cup {p}
  <2>1. puts[d] \in Seq(Put)
    BY QueueTypes
  <2>2. p \in Put
    BY <1>2, <1>4, <2>1, HeadTailProperties
  <2> QED BY <1>2, <1>4, <2>1, <2>2, Written
<1>6. Same(p, t) /\ Writes(toAck'[d]) = Writes(toAck[d]) \cup {t}
  <2>1. Same(p, t) /\ t \in Answered
    BY <1>3, <1>4, <1>5 DEF Same, ToAck, Put, Answered, PutDone
  <2>2. "id" \in DOMAIN t /\ toAck[d] \in Seq(Answered)
    BY <2>1, Numbers, QueueTypes
  <2>3. Own(t) = {t}
    BY <2>2 DEF Own
  <2> QED BY <1>4, <2>1, <2>2, <2>3, WritesMore
<1>7. \A e \in Device : Unserved(e)' = Unserved(e)
  BY <1>1, <1>4 DEF Unserved
<1>8. ASSUME NEW e \in Device, NEW R, Means(R, Open(e)) PROVE Means(R, Open(e)')
  <2>1. CASE e # d
    <3>1. Open(e)' = Open(e)
      BY <1>1, <1>4, <2>1 DEF Open, Pending
    <3> QED BY <1>8, <3>1
  <2>2. CASE e = d
    <3>1. Open(d) \cup {t} = Open(d)' \cup {p} /\ p \in Open(d) /\ t \in Open(d)'
      BY <1>1, <1>4, <1>5, <1>6 DEF Open, Pending
    <3>2. \A q : Same(q, q)
      BY DEF Same
    <3> QED BY <1>6, <1>8, <2>2, <3>1, <3>2, MeansKept
  <2> QED BY <2>1, <2>2
<1>9. Calm' => Calm
  BY <1>1 DEF Calm
<1> QED BY <1>1, <1>7, <1>8, <1>9, KeepsMeant

\* The database's record after a write is that write.
LEMMA AppliedServer ==
  ASSUME TypeOK, NEW d \in Device, NEW p \in Put,
         hist' = [hist EXCEPT ![p.key] = Append(@, [by |-> d, id |-> p.id, val |-> p.val])]
  PROVE  \A k \in Key : Server'[k] = IF k = p.key THEN p.val ELSE Server[k]
<1> SUFFICES ASSUME NEW k \in Key PROVE Server'[k] = IF k = p.key THEN p.val ELSE Server[k]
  OBVIOUS
<1>1. hist[k] \in Seq(Write)
  BY DEF TypeOK
<1>2. CASE k = p.key
  <2>1. PICK w : w = [by |-> d, id |-> p.id, val |-> p.val]
    OBVIOUS
  <2>2. w \in Write
    BY <2>1 DEF Write, Put
  <2>3. hist'[k] = Append(hist[k], w)
    BY <1>2, <2>1 DEF TypeOK
  <2>4. Len(hist'[k]) # 0 /\ hist'[k][Len(hist'[k])] = w
    BY <1>1, <2>2, <2>3
  <2> QED BY <1>2, <2>1, <2>4 DEF Server, Stored
<1>3. CASE k # p.key
  <2>1. hist'[k] = hist[k]
    BY <1>3 DEF TypeOK
  <2> QED BY <1>3, <2>1 DEF Server, Stored
<1> QED BY <1>2, <1>3

\* The database applies the oldest unserved write: on its record it is the newest, or a
\* newer one is unserved.
LEMMA ServerAcceptMeant ==
  ASSUME TypeOK, Ordered, Resends, TapsMeant, NEW d \in Device, raced' = raced, ServerAccept(d)
  PROVE  TapsMeant'
<1>1. /\ (Calm' => Calm) /\ calls' = calls /\ puts' = puts /\ conn' = conn /\ toAck' = toAck
  BY DEF ServerAccept, counts, Calm, client
<1>2. PICK p : p = Head(up[d])
  OBVIOUS
<1>3. /\ up[d] # <<>> /\ p # Listen /\ up'[d] = Tail(up[d]) /\ \A e \in Device \ {d} : up'[e] = up[e]
      /\ hist' = [hist EXCEPT ![p.key] = Append(@, [by |-> d, id |-> p.id, val |-> p.val])]
  BY <1>2 DEF ServerAccept, TypeOK
<1>4. up[d] \in Seq(Sending) /\ conn[d] = "up" /\ p \in Put /\ p.key \in Key
  <2>1. up[d] \in Seq(Sending)
    BY ResendTypes
  <2>2. p \in Put
    BY <1>2, <1>3, <2>1, HeadTailProperties DEF Sending
  <2>3. conn[d] = "up"
    BY <1>3 DEF Ordered, OrderedAt, TypeOK
  <2> QED BY <2>1, <2>2, <2>3, PutsNumbered
<1>5. Writes(up[d]) = Writes(Tail(up[d])) \cup {p}
  <2>1. p \in Sending
    BY <1>4 DEF Sending
  <2> QED BY <1>2, <1>3, <1>4, <2>1, Written
<1>6. /\ Unserved(d) = Unserved(d)' \cup {p} /\ p \in Pending(d)
      /\ \A e \in Device \ {d} : Unserved(e)' = Unserved(e)
      /\ \A e \in Device : Pending(e)' = Pending(e) /\ Open(e)' = Open(e)
  <2>1. Unserved(d) = Unserved(d)' \cup {p}
    BY <1>1, <1>3, <1>4, <1>5 DEF Unserved
  <2>2. p \in Pending(d)
    BY <2>1, UnservedPending
  <2> QED BY <1>1, <1>3, <2>1, <2>2 DEF Unserved, Pending, Open
<1>7. \A k \in Key : Server'[k] = IF k = p.key THEN p.val ELSE Server[k]
  BY <1>3, <1>4, AppliedServer
<1> SUFFICES ASSUME Calm' PROVE \E R : Meant(R)'
  BY DEF TapsMeant
<1>8. PICK R : Meant(R)
  BY <1>1 DEF TapsMeant
<1>9. Landed(R)'
  <2> SUFFICES ASSUME NEW k \in User, \A e \in Device : \A q \in Unserved(e)' : q.key # k
               PROVE  Server'[k] = R[k]
    BY DEF Landed
  <2>1. CASE k # p.key
    <3>1. \A e \in Device : \A q \in Unserved(e) : q.key # k
      BY <1>6, <2>1
    <3> QED BY <1>7, <1>8, <2>1, <3>1 DEF Meant, Landed, User
  <2>2. CASE k = p.key
    <3>1. \A q \in Open(d) : q.key = p.key => q.id <= p.id
      <4> SUFFICES ASSUME NEW q \in Open(d), q.key = p.key, p.id < q.id PROVE FALSE
        BY <1>4, OpenTypes, PutsNumbered
      <4>1. p.id <= q.id /\ p.id # q.id
        BY <1>4, OpenTypes, PutsNumbered
      <4>2. CASE q \in Pending(d)
        <5>1. q \in Unserved(d)
          BY <1>6, <4>1, <4>2, UnservedPending
        <5>2. q \in Unserved(d)'
          BY <1>6, <4>1, <5>1
        <5> QED BY <2>2, <5>2
      <4>3. CASE q \in Writes(toAck[d])
        <5>1. Before(toAck[d], puts[d]) /\ Before(toAck[d], calls[d])
          BY DEF Ordered, OrderedAt, Flow
        <5>2. q.id < p.id
          BY <1>6, <4>3, <5>1 DEF Before, Pending, Writes
        <5> QED BY <1>4, <4>1, <5>2, OpenTypes, PutsNumbered
      <4> QED BY <4>2, <4>3 DEF Open
    <3>2. p.val = R[p.key]
      BY <1>6, <1>8, <3>1 DEF Meant, Means, Open
    <3> QED BY <1>7, <2>2, <3>2 DEF User
  <2> QED BY <2>1, <2>2
<1> QED BY <1>6, <1>8, <1>9 DEF Meant, Mirrored, Means

\* A device that is not busy has nothing open.
LEMMA NotBusy ==
  ASSUME TypeOK, Ordered, Resends, NEW d \in Device, ~ Busy(d)
  PROVE  Open(d) = {} /\ Pending(d) = {} /\ Unserved(d) = {}
<1>1. Writes(<<>>) = {}
  BY DEF Writes, Numbered
<1>2. Open(d) = {} /\ Pending(d) = {}
  BY <1>1 DEF Busy, Pending, Open
<1> QED BY <1>2, UnservedPending

\* If nobody else has writes on their way, what d expects is what was meant.
LEMMA ExpectedMeant ==
  ASSUME TypeOK, Ordered, Resends, NEW R, Meant(R), NEW d \in Device,
         \A e \in Device \ {d} : ~ Busy(e), NEW k \in User
  PROVE  Expected(d)[k] = R[k]
<1> DEFINE X == Answered \cup Put \cup {Observe}
           w == toAck[d] \o puts[d] \o calls[d]
           To == {i \in DOMAIN w : w[i].op = "put" /\ w[i].key = k}
<1>1. Expected(d)[k] = IF To = {} THEN Stored(k, Len(hist[k]))
                       ELSE w[CHOOSE i \in To : \A j \in To : j <= i].val
  BY DEF Expected, User
<1> HIDE DEF w, To
<1>2. /\ toAck[d] \in Seq(X) /\ puts[d] \in Seq(X) /\ calls[d] \in Seq(X)
      /\ toAck[d] \o puts[d] \in Seq(X) /\ w \in Seq(X)
  BY QueueTypes, SeqMonotonic, ConcatProperties DEF w
<1>3. Ascending(w)
  <2>1. /\ Ascending(toAck[d]) /\ Ascending(puts[d]) /\ Ascending(calls[d])
        /\ Before(toAck[d], puts[d]) /\ Before(toAck[d], calls[d]) /\ Before(puts[d], calls[d])
    BY DEF Ordered, OrderedAt, Flow
  <2> HIDE DEF X
  <2>2. Ascending(toAck[d] \o puts[d])
    BY <1>2, <2>1, Joined
  <2>3. Before(toAck[d] \o puts[d], calls[d])
    BY <1>2, <2>1, JoinedBefore
  <2> QED BY <1>2, <2>1, <2>2, <2>3, Joined DEF w
<1>4. Writes(w) = Open(d)
  <2> HIDE DEF X
  <2>1. Writes(toAck[d] \o puts[d]) = Writes(toAck[d]) \cup Writes(puts[d])
    BY <1>2, WritesJoined
  <2>2. \A s, t \in Seq(X) : Writes(s \o t) = Writes(s) \cup Writes(t)
    BY WritesJoined
  <2>3. Writes(w) = Writes(toAck[d] \o puts[d]) \cup Writes(calls[d])
    BY <1>2, <2>2 DEF w
  <2> QED BY <2>1, <2>3 DEF Open, Pending
<1>5. \A i \in DOMAIN w : w[i].op = "put" <=> i \in Numbered(w)
  <2>1. \A x \in X : x.op = "put" <=> "id" \in DOMAIN x
    BY DEF Answered, Put, Observe
  <2>2. \A i \in DOMAIN w : w[i] \in X
    BY <1>2, ElementOfSeq
  <2> QED BY <2>1, <2>2 DEF Numbered
<1>6. \A i \in To : i \in Numbered(w) /\ w[i] \in Open(d) /\ w[i].key = k
  BY <1>4, <1>5 DEF Writes, To
<1>7. \A q \in Open(d) : q.key = k => \E j \in To : q = w[j]
  BY <1>4, <1>5 DEF Writes, Numbered, To
<1>8. CASE To = {}
  <2>1. \A p \in Unserved(d) : p.key # k
    BY <1>7, <1>8, UnservedPending DEF Open
  <2>2. \A e \in Device \ {d} : Unserved(e) = {}
    BY NotBusy, UnservedPending
  <2>3. Server[k] = R[k]
    BY <2>1, <2>2 DEF Meant, Landed
  <2> QED BY <1>1, <1>8, <2>3 DEF Server, User
<1>9. CASE To # {}
  <2>1. \E i \in To : \A j \in To : j <= i
    <3>1. To \in SUBSET (1..Len(w)) /\ Len(w) \in Nat
      BY <1>2 DEF To
    <3> QED BY <1>9, <3>1, LastIndex
  <2>2. PICK i \in To : (\A j \in To : j <= i) /\ i = CHOOSE l \in To : \A j \in To : j <= l
    BY <2>1
  <2>3. ASSUME NEW q \in Open(d), q.key = k PROVE q.id <= w[i].id
    <3>1. PICK j \in To : q = w[j]
      BY <1>7, <2>3
    <3>2. i \in Nat /\ j \in Nat /\ j <= i /\ w[i].id \in Nat
      BY <1>2, <1>6, <2>2, OpenTypes DEF To
    <3>3. j < i => w[j].id < w[i].id
      BY <1>3, <1>6 DEF Ascending
    <3>4. q.id \in Nat
      BY OpenTypes
    <3> QED BY <3>1, <3>2, <3>3, <3>4
  <2>4. w[i].val = R[k]
    BY <1>6, <2>3 DEF Meant, Means
  <2> QED BY <1>1, <1>9, <2>2, <2>4
<1> QED BY <1>8, <1>9

\* New writes of what is now meant, of a device alone with its writes.
LEMMA WritesMeant ==
  ASSUME TypeOK, NEW R, Meant(R), NEW Q, Mirrored(Q), NEW d \in Device, NEW N \in SUBSET Put,
         Open(d)' = Open(d) \cup N, Unserved(d)' = Unserved(d) \cup N, hist' = hist,
         \A e \in Device \ {d} : Open(e)' = {} /\ Unserved(e)' = Unserved(e),
         \A n \in N : n.val = Q[n.key] /\ \A p \in Open(d) : p.id < n.id,
         \A k \in User : (\A n \in N : n.key # k) => Q[k] = R[k]
  PROVE  Meant(Q)'
<1>1. Server' = Server
  BY DEF Server, Stored
<1>2. Landed(Q)'
  <2> SUFFICES ASSUME NEW k \in User, \A e \in Device : \A p \in Unserved(e)' : p.key # k
               PROVE  Server[k] = Q[k]
    BY <1>1 DEF Landed
  <2>1. /\ \A e \in Device : \A p \in Unserved(e) : p.key # k
        /\ \A n \in N : n.key # k
    OBVIOUS
  <2> QED BY <2>1 DEF Meant, Landed
<1>3. ASSUME NEW p \in Open(d)', \A q \in Open(d)' : q.key = p.key => q.id <= p.id
      PROVE  p.val = Q[p.key]
  <2>1. CASE p \in N
    BY <2>1
  <2>2. CASE p \in Open(d)
    <3>0. p.id \in Nat /\ p.key \in User /\ \A n \in N : n.id \in Nat
      BY <2>2, OpenTypes, PutsNumbered DEF User
    <3>1. \A n \in N : n.key # p.key
      BY <1>3, <2>2, <3>0
    <3>2. \A q \in Open(d) : q.key = p.key => q.id <= p.id
      BY <1>3
    <3>3. p.val = R[p.key]
      BY <2>2, <3>2 DEF Meant, Means
    <3> QED BY <3>0, <3>1, <3>3
  <2> QED BY <2>1, <2>2
<1>4. \A e \in Device : Means(Q, Open(e)')
  BY <1>3 DEF Means
<1> QED BY <1>2, <1>4 DEF Meant, Mirrored, Means

\* Each handler changes both halves of a relation.
LEMMA TapMirrored ==
  ASSUME NEW r \in [User -> Person], Mirrored(r), NEW a \in User, NEW b \in User \ {a},
         NEW h \in Handler
  PROVE  /\ Mirrored(Tapped(h, r, a, b))
         /\ \A k \in User \ {a, b} : Tapped(h, r, a, b)[k] = r[k]
<1> DEFINE Pair(k, u) == (k = a /\ u = b) \/ (k = b /\ u = a)
<1>1. \A k \in User : r[k] \in Person
  OBVIOUS
<1>2. PICK p : p = r[a]
  OBVIOUS
<1>3. PICK q : q = r[b]
  OBVIOUS
<1>4. CASE h = "add"
  <2>1. PICK s : s = [p EXCEPT !.requested = @ \cup {b}]
    OBVIOUS
  <2>2. PICK t : t = [q EXCEPT !.invites = @ \cup {a}]
    OBVIOUS
  <2>3. PICK n : n = Tapped(h, r, a, b)
    OBVIOUS
  <2>4. n = [r EXCEPT ![a] = s, ![b] = t]
    BY <1>2, <1>3, <1>4, <2>1, <2>2, <2>3 DEF Tapped, AddFriend
  <2>5. /\ s.friends = p.friends /\ s.invites = p.invites /\ s.requested = p.requested \cup {b}
        /\ t.friends = q.friends /\ t.invites = q.invites \cup {a} /\ t.requested = q.requested
    BY <1>1, <1>2, <1>3, <2>1, <2>2 DEF Person
  <2>6. n[a] = s /\ n[b] = t /\ \A k \in User \ {a, b} : n[k] = r[k]
    BY <2>4
  <2>7. \A k \in User : \A u \in User :
           /\ u \in n[k].friends <=> u \in r[k].friends
           /\ u \in n[k].requested <=> u \in r[k].requested \/ (k = a /\ u = b)
           /\ u \in n[k].invites <=> u \in r[k].invites \/ (k = b /\ u = a)
    BY <1>2, <1>3, <2>5, <2>6
  <2>8. Mirrored(n)
    BY <2>7 DEF Mirrored
  <2> QED BY <2>3, <2>6, <2>8
<1>5. CASE h = "cancel"
  <2>1. PICK s : s = Without(p, b)
    OBVIOUS
  <2>2. PICK t : t = Without(q, a)
    OBVIOUS
  <2>3. PICK n : n = Tapped(h, r, a, b)
    OBVIOUS
  <2>4. n = [r EXCEPT ![a] = s, ![b] = t]
    BY <1>2, <1>3, <1>5, <2>1, <2>2, <2>3 DEF Tapped, CancelFriend
  <2>5. /\ s.friends = p.friends /\ s.invites = p.invites \ {b} /\ s.requested = p.requested \ {b}
        /\ t.friends = q.friends /\ t.invites = q.invites \ {a} /\ t.requested = q.requested \ {a}
    BY <1>1, <1>2, <1>3, <2>1, <2>2, PersonChanged
  <2>6. n[a] = s /\ n[b] = t /\ \A k \in User \ {a, b} : n[k] = r[k]
    BY <2>4
  <2>7. \A k \in User : \A u \in User :
           /\ u \in n[k].friends <=> u \in r[k].friends
           /\ u \in n[k].requested <=> u \in r[k].requested /\ ~ Pair(k, u)
           /\ u \in n[k].invites <=> u \in r[k].invites /\ ~ Pair(k, u)
    BY <1>2, <1>3, <2>5, <2>6
  <2>8. Mirrored(n)
    BY <2>7 DEF Mirrored
  <2> QED BY <2>3, <2>6, <2>8
<1>6. CASE h = "accept"
  <2>1. PICK s : s = Befriended(Without(p, b), b)
    OBVIOUS
  <2>2. PICK t : t = Befriended(Without(q, a), a)
    OBVIOUS
  <2>3. PICK n : n = Tapped(h, r, a, b)
    OBVIOUS
  <2>4. n = [r EXCEPT ![a] = s, ![b] = t]
    BY <1>2, <1>3, <1>6, <2>1, <2>2, <2>3 DEF Tapped, AcceptFriend
  <2>5. /\ s.friends = p.friends \cup {b} /\ s.invites = p.invites \ {b} /\ s.requested = p.requested \ {b}
        /\ t.friends = q.friends \cup {a} /\ t.invites = q.invites \ {a} /\ t.requested = q.requested \ {a}
    BY <1>1, <1>2, <1>3, <2>1, <2>2, PersonChanged
  <2>6. n[a] = s /\ n[b] = t /\ \A k \in User \ {a, b} : n[k] = r[k]
    BY <2>4
  <2>7. \A k \in User : \A u \in User :
           /\ u \in n[k].friends <=> u \in r[k].friends \/ Pair(k, u)
           /\ u \in n[k].requested <=> u \in r[k].requested /\ ~ Pair(k, u)
           /\ u \in n[k].invites <=> u \in r[k].invites /\ ~ Pair(k, u)
    BY <1>2, <1>3, <2>5, <2>6
  <2>8. Mirrored(n)
    BY <2>7 DEF Mirrored
  <2> QED BY <2>3, <2>6, <2>8
<1> QED BY <1>4, <1>5, <1>6 DEF Handler

\* What is open was numbered before.
LEMMA OpenIssued ==
  ASSUME TypeOK, Ordered, NEW d \in Device
  PROVE  \A p \in Open(d) : p.id < issued[d] + 1 /\ p.id < issued[d] + 2
<1>1. /\ Before(toAck[d], NextId(issued[d])) /\ Before(puts[d], NextId(issued[d]))
      /\ Before(calls[d], NextId(issued[d]))
  BY DEF Ordered, OrderedAt, Flow
<1>2. 1 \in Numbered(NextId(issued[d])) /\ NextId(issued[d])[1].id = issued[d] + 1
  BY DEF NextId, Numbered
<1>3. \A p \in Open(d) : p.id < issued[d] + 1
  BY <1>1, <1>2 DEF Before, Open, Pending, Writes
<1>4. issued[d] \in Nat /\ \A p \in Open(d) : p.id \in Nat
  BY QueueTypes, OpenTypes
<1> QED BY <1>3, <1>4

\* A tap on records that are not out of date writes both halves.
LEMMA TapMeant ==
  ASSUME FriendsInv, Ordered, Resends, TapsMeant, NEW d \in Device, NEW b \in User,
         NEW h \in Handler, TapButton(d, b, h)
  PROVE  TapsMeant'
<1>0. TypeOK /\ FriendsTypeOK
  BY DEF FriendsInv, Inductive
<1> SUFFICES ASSUME Calm' PROVE \E R : Meant(R)'
  BY DEF TapsMeant
<1>1. PICK a : a = UserOf[d]
  OBVIOUS
<1>2. PICK r : r = Tapped(h, people[d], a, b)
  OBVIOUS
<1>3. /\ people[d] # NotLoaded /\ b # a /\ a \in User /\ UpdateUsers(d, r, a, b)
      /\ raced' = (raced \/ OutOfDate(d, people[d]))
  BY <1>1, <1>2, PeopleTypes DEF TapButton
<1>4. people[d] \in [User -> Person] /\ r \in [User -> Person]
  <2>1. people[d] \in [User -> Person]
    BY <1>0, <1>3 DEF FriendsTypeOK
  <2> QED BY <1>2, <1>3, <2>1, TapPeople
<1>5. PICK x \in Put, y \in Put :
         /\ x.id = issued[d] + 1 /\ x.key = a /\ x.val = r[a]
         /\ y.id = issued[d] + 2 /\ y.key = b /\ y.val = r[b]
         /\ calls'[d] = Append(Append(calls[d], x), y)
         /\ \A e \in Device \ {d} : calls'[e] = calls[e]
         /\ UNCHANGED <<hist, up, conn, puts, toAck, restarts, refusals>>
  BY <1>0, <1>3, <1>4, UpdateUsersCalls
<1>6. /\ Calm /\ people[d] = Expected(d) /\ \A e \in Device \ {d} : ~ Busy(e)
  BY <1>3, <1>5 DEF Calm, OutOfDate
<1>7. PICK R : Meant(R)
  BY <1>6 DEF TapsMeant
<1>8. \A k \in User : people[d][k] = R[k]
  BY <1>0, <1>6, <1>7, ExpectedMeant
<1>9. Mirrored(r) /\ \A k \in User \ {a, b} : r[k] = R[k]
  <2>1. Mirrored(people[d])
    BY <1>7, <1>8 DEF Meant, Mirrored
  <2> QED BY <1>2, <1>3, <1>4, <1>8, <2>1, TapMirrored
<1>10. Open(d)' = Open(d) \cup {x, y} /\ Unserved(d)' = Unserved(d) \cup {x, y}
  <2>1. Writes(calls'[d]) = Writes(calls[d]) \cup {x, y}
    <3>1. calls[d] \in Seq(Calling) /\ x \in Calling /\ y \in Calling
      BY <1>0, QueueTypes DEF Calling
    <3>2. PICK c : c = Append(calls[d], x)
      OBVIOUS
    <3>3. c \in Seq(Calling) /\ Writes(c) = Writes(calls[d]) \cup {x}
      BY <3>1, <3>2, Written
    <3>4. Writes(Append(c, y)) = Writes(c) \cup {y}
      BY <3>1, <3>3, Written
    <3> QED BY <1>5, <3>2, <3>3, <3>4
  <2> QED BY <1>5, <2>1 DEF Open, Pending, Unserved
<1>11. \A e \in Device \ {d} : Open(e)' = {} /\ Unserved(e)' = Unserved(e)
  <2>1. \A e \in Device \ {d} : Open(e)' = Open(e) /\ Unserved(e)' = Unserved(e)
    BY <1>5 DEF Open, Pending, Unserved
  <2> QED BY <1>0, <1>6, <2>1, NotBusy
<1>12. \A p \in Open(d) : p.id < x.id /\ p.id < y.id
  BY <1>0, <1>5, OpenIssued
<1> DEFINE N == {x, y}
<1>13. \A n \in N : n.val = r[n.key] /\ \A p \in Open(d) : p.id < n.id
  BY <1>5, <1>12
<1>14. \A k \in User : (\A n \in N : n.key # k) => r[k] = R[k]
  BY <1>5, <1>9
<1>15. N \in SUBSET Put /\ Open(d)' = Open(d) \cup N /\ Unserved(d)' = Unserved(d) \cup N
  BY <1>10
<1> HIDE DEF N
<1>16. Meant(r)'
  BY <1>0, <1>5, <1>7, <1>9, <1>11, <1>13, <1>14, <1>15, WritesMeant
<1> QED BY <1>16

\* A profile that is not out of date writes what is meant already.
LEMMA UpdateProfileMeant ==
  ASSUME FriendsInv, Ordered, Resends, TapsMeant, NEW d \in Device, UpdateProfile(d)
  PROVE  TapsMeant'
<1>0. TypeOK /\ FriendsTypeOK
  BY DEF FriendsInv, Inductive
<1> SUFFICES ASSUME Calm' PROVE \E R : Meant(R)'
  BY DEF TapsMeant
<1>1. PICK a : a = UserOf[d]
  OBVIOUS
<1>2. PICK v : v = profile[d]
  OBVIOUS
<1>3. /\ v \in Value /\ a \in Key /\ SetValue(d, a, v)
      /\ raced' = (raced \/ OutOfDate(d, [Expected(d) EXCEPT ![a] = v]))
  BY <1>0, <1>1, <1>2, PeopleTypes, FriendsAssumption DEF UpdateProfile, FriendsTypeOK
<1>4. PICK x : x = [op |-> "put", id |-> issued[d] + 1, key |-> a, val |-> v]
  OBVIOUS
<1>5. /\ issued[d] < MaxWrites /\ calls'[d] = Append(calls[d], x)
      /\ \A e \in Device \ {d} : calls'[e] = calls[e]
      /\ UNCHANGED <<hist, up, conn, puts, toAck, restarts, refusals>>
  BY <1>0, <1>3, <1>4 DEF SetValue, TypeOK, net, client
<1>6. x \in Put /\ x.id = issued[d] + 1 /\ x.key = a /\ x.val = v
  <2>1. issued[d] + 1 \in WriteId
    <3>1. issued[d] \in 0..MaxWrites
      BY <1>0 DEF TypeOK
    <3> QED BY <1>5, <3>1, StoreAssumption DEF WriteId
  <2> QED BY <1>3, <1>4, <2>1 DEF Put
<1>7. /\ Calm /\ [Expected(d) EXCEPT ![a] = v] = Expected(d) /\ \A e \in Device \ {d} : ~ Busy(e)
  BY <1>3, <1>5 DEF Calm, OutOfDate
<1>8. PICK R : Meant(R)
  BY <1>7 DEF TapsMeant
<1>9. v = R[a]
  <2>1. Expected(d)[a] = R[a]
    BY <1>0, <1>3, <1>7, <1>8, ExpectedMeant DEF User
  <2>2. a \in DOMAIN Expected(d)
    BY <1>3 DEF Expected
  <2>3. [Expected(d) EXCEPT ![a] = v][a] = v
    BY <2>2
  <2>4. Expected(d)[a] = v
    BY <1>7, <2>3
  <2> QED BY <2>1, <2>4
<1>10. Open(d)' = Open(d) \cup {x} /\ Unserved(d)' = Unserved(d) \cup {x}
  <2>1. Writes(calls'[d]) = Writes(calls[d]) \cup {x}
    <3>1. calls[d] \in Seq(Calling) /\ x \in Calling
      BY <1>0, <1>6, QueueTypes DEF Calling
    <3> QED BY <1>5, <1>6, <3>1, Written
  <2> QED BY <1>5, <2>1 DEF Open, Pending, Unserved
<1>11. \A e \in Device \ {d} : Open(e)' = {} /\ Unserved(e)' = Unserved(e)
  <2>1. \A e \in Device \ {d} : Open(e)' = Open(e) /\ Unserved(e)' = Unserved(e)
    BY <1>5 DEF Open, Pending, Unserved
  <2> QED BY <1>0, <1>7, <2>1, NotBusy
<1> DEFINE N == {x}
<1>12. \A n \in N : n.val = R[n.key] /\ \A p \in Open(d) : p.id < n.id
  BY <1>0, <1>6, <1>9, OpenIssued
<1>13. N \in SUBSET Put /\ Open(d)' = Open(d) \cup N /\ Unserved(d)' = Unserved(d) \cup N
  BY <1>6, <1>10
<1>14. Mirrored(R)
  BY <1>8 DEF Meant
<1> HIDE DEF N
<1>15. Meant(R)'
  BY <1>0, <1>5, <1>8, <1>11, <1>12, <1>13, <1>14, WritesMeant
<1> QED BY <1>15

-----------------------------------------------------------------------------
(* The count of confirmed writes *)

\* The numbers of d's writes whose completion blocks have not run.
OpenIds(d) == {x.id : x \in Writes(events[d]) \cup Open(d)}

\* ... of those that discover made.
Discovered(d) == {n \in OpenIds(d) : sender[d][n] = "discover"}

\* What was answered was accepted.
Accepted(d) == \A x \in Writes(down[d]) \cup Writes(toAck[d]) \cup Writes(events[d]) : x.ok

\* Every write has a sender, and the count is odd when an odd number of discover's is open.
CountAt(d) ==
  /\ Len(sender[d]) = issued[d]
  /\ refusals[d] = 0 => Accepted(d) /\ userCount[d] = Cardinality(Discovered(d)) % 2

\* The inductive invariant of PairsInPhase.
InPhase ==
  /\ sender \in [Device -> Seq({"discover", "profile"})] /\ userCount \in [Device -> Nat]
  /\ \A d \in Device : CountAt(d)

\* One more element, of any kind.
LEMMA WritesAdded ==
  ASSUME NEW S, NEW s \in Seq(S), NEW x
  PROVE  Writes(s \o <<x>>) = Writes(s) \cup Own(x)
<1>1. PICK T : T = S \cup {x}
  OBVIOUS
<1>2. s \in Seq(T) /\ x \in T
  BY <1>1
<1>3. Writes(Append(s, x)) = Writes(s) \cup Own(x)
  BY <1>2, WritesMore
<1>4. Append(s, x) = s \o <<x>>
  BY <1>2
<1> QED BY <1>3, <1>4

\* A value has no number.
LEMMA ValueWrites ==
  ASSUME NEW S, NEW s \in Seq(S), NEW view, NEW v,
         v = <<>> \/ v = <<[kind |-> "value", snap |-> view]>>
  PROVE  Writes(s \o v) = Writes(s)
<1>1. PICK y : y = [kind |-> "value", snap |-> view]
  OBVIOUS
<1>2. "id" \notin DOMAIN y
  BY <1>1
<1>3. Own(y) = {}
  BY <1>2 DEF Own
<1>4. Writes(s \o <<y>>) = Writes(s)
  BY <1>3, WritesAdded
<1>5. s \o <<>> = s
  OBVIOUS
<1> QED BY <1>1, <1>4, <1>5

\* What a queue's tail holds it held.
LEMMA WritesTail ==
  ASSUME NEW S, NEW s \in Seq(S), s # <<>>
  PROVE  Writes(s) = Writes(Tail(s)) \cup Own(Head(s))
<1>1. Head(s) \in S
  BY HeadTailProperties
<1> QED BY <1>1, WritesOf

\* The client posts values besides completion blocks.
LEMMA EventWrites ==
  ASSUME TypeOK, NEW d \in Device, NEW e \in Device,
         \/ RetrieveAll(d) \/ HandleValue(d) \/ RunPut(d) \/ RunObserve(d) \/ Connect(d)
         \/ Disconnect(d) \/ ReceiveData(d) \/ ReceiveListenOk(d) \/ ReceivePutDone(d)
         \/ ReceiveDenial(d) \/ ServerListen(d) \/ ServerAccept(d) \/ ServerReject(d)
         \/ ServerDeny(d)
  PROVE  Writes(events'[e]) = Writes(events[e])
<1>0. events[e] \in Seq(Event)
  BY QueueTypes
<1>1. CASE events'[e] = events[e]
  BY <1>1
<1>2. CASE e = d /\ HandleValue(d)
  <2>1. events[e] # <<>> /\ events'[e] = Tail(events[e]) /\ Head(events[e]).kind = "value"
    BY <1>2 DEF HandleValue, TypeOK
  <2>2. Head(events[e]) \in Event
    BY <1>0, <2>1, HeadTailProperties
  <2>3. "id" \notin DOMAIN Head(events[e])
    BY <2>1, <2>2 DEF Event, ValueEv, DoneEv
  <2>4. Own(Head(events[e])) = {}
    BY <2>3 DEF Own
  <2>5. Writes(events[e]) = Writes(Tail(events[e])) \cup Own(Head(events[e]))
    BY <1>0, <2>1, WritesTail
  <2> QED BY <2>1, <2>4, <2>5
<1>3. ASSUME NEW view, NEW v, v = <<>> \/ v = <<[kind |-> "value", snap |-> view]>>,
             events'[e] = events[e] \o v
      PROVE  Writes(events'[e]) = Writes(events[e])
  BY <1>0, <1>3, ValueWrites
<1>4. CASE e = d /\ RunPut(d)
  <2>1. PICK view : events'[e] = events[e] \o Changed(e, view)
    BY <1>4 DEF RunPut, TypeOK
  <2>2. Changed(e, view) = <<>> \/ Changed(e, view) = <<[kind |-> "value", snap |-> view]>>
    BY DEF Changed
  <2> QED BY <1>3, <2>1, <2>2
<1>5. CASE e = d /\ ReceiveData(d)
  <2>1. PICK view : events'[e] = events[e] \o (IF synced[e] THEN Changed(e, view)
                                             ELSE <<[kind |-> "value", snap |-> view]>>)
    BY <1>5 DEF ReceiveData, TypeOK
  <2>2. Changed(e, view) = <<>> \/ Changed(e, view) = <<[kind |-> "value", snap |-> view]>>
    BY DEF Changed
  <2> QED BY <1>3, <2>1, <2>2
<1>6. CASE e = d /\ RunObserve(d)
  <2>1. PICK y : y = [kind |-> "value", snap |-> View(e)]
    OBVIOUS
  <2>2. events'[e] = events[e] \/ events'[e] = Append(events[e], y)
    BY <1>6, <2>1 DEF RunObserve, TypeOK
  <2>3. Append(events[e], y) = events[e] \o <<y>>
    BY <1>0
  <2> QED BY <1>3, <2>1, <2>2, <2>3
<1>7. CASE e # d
  <2>1. events'[e] = events[e]
    BY <1>7 DEF HandleValue, RetrieveAll, RunPut, RunObserve, Connect, Disconnect,
       ReceiveData, ReceiveListenOk, ReceiveDenial, ReceivePutDone, ServerListen, ServerAccept,
       ServerReject, ServerDeny, TypeOK
  <2> QED BY <2>1
<1> QED BY <1>1, <1>2, <1>4, <1>5, <1>6, <1>7 DEF RetrieveAll, Connect, Disconnect,
      ReceiveListenOk, ReceiveDenial, ReceivePutDone, ServerListen, ServerAccept, ServerReject,
      ServerDeny

\* A completion block is posted.
LEMMA DonePosted ==
  ASSUME NEW s \in Seq(Event), NEW d \in Device, NEW view, NEW p \in Answered,
         NEW x, x = [kind |-> "done", id |-> p.id, key |-> p.key, ok |-> p.ok]
  PROVE  Writes((s \o Changed(d, view)) \o <<x>>) = Writes(s) \cup {x}
<1>1. PICK y : y = [kind |-> "value", snap |-> view]
  OBVIOUS
<1>2. PICK v : v = Changed(d, view)
  OBVIOUS
<1>3. v = <<>> \/ v = <<y>>
  BY <1>1, <1>2 DEF Changed
<1>4. Writes(s \o v) = Writes(s)
  BY <1>1, <1>3, ValueWrites
<1>5. PICK t : t = s \o v
  OBVIOUS
<1>6. PICK S : S = Event \cup {y}
  OBVIOUS
<1>7. s \in Seq(S) /\ v \in Seq(S)
  <2>1. s \in Seq(S) /\ y \in S
    BY <1>6
  <2>2. v = <<>> \/ v = <<y>>
    BY <1>3
  <2>3. <<>> \in Seq(S) /\ <<y>> \in Seq(S)
    BY <2>1
  <2> QED BY <2>1, <2>2, <2>3
<1>8. t \in Seq(S)
  BY <1>5, <1>7
<1>9. Own(x) = {x}
  BY DEF Own
<1>10. Writes(t \o <<x>>) = Writes(t) \cup Own(x)
  BY <1>8, WritesAdded
<1> QED BY <1>2, <1>4, <1>5, <1>9, <1>10

\* An answered write leaves the outstanding ones with its answer's status.
LEMMA WriteAnswered ==
  ASSUME TypeOK, Ordered, NEW d \in Device, ReceivePutDone(d)
  PROVE  \E p \in Put, t \in Answered, m \in Writes(down[d]) :
           /\ t.id = p.id /\ t.ok = m.ok
           /\ Writes(puts[d]) = Writes(puts'[d]) \cup {p}
           /\ Writes(toAck'[d]) = Writes(toAck[d]) \cup {t}
           /\ down'[d] = Tail(down[d]) /\ down[d] # <<>> /\ calls' = calls /\ events' = events
           /\ \A e \in Device \ {d} : puts'[e] = puts[e] /\ toAck'[e] = toAck[e] /\ down'[e] = down[e]
<1>1. PICK p : p = Head(puts[d])
  OBVIOUS
<1>2. PICK m : m = Head(down[d])
  OBVIOUS
<1>3. PICK t : t = ToAck(p, m.ok)
  OBVIOUS
<1>4. /\ m \in PutDone /\ puts[d] # <<>> /\ puts'[d] = Tail(puts[d])
      /\ down[d] # <<>> /\ down'[d] = Tail(down[d]) /\ toAck'[d] = Append(toAck[d], t)
  BY <1>1, <1>2, <1>3, AnsweredFirst
<1>5. /\ calls' = calls /\ events' = events
      /\ \A e \in Device \ {d} : puts'[e] = puts[e] /\ toAck'[e] = toAck[e] /\ down'[e] = down[e]
  BY DEF ReceivePutDone, TypeOK
<1>6. p \in Put /\ Writes(puts[d]) = Writes(puts'[d]) \cup {p}
  <2>1. puts[d] \in Seq(Put)
    BY QueueTypes
  <2>2. p \in Put
    BY <1>1, <1>4, <2>1, HeadTailProperties
  <2> QED BY <1>1, <1>4, <2>1, <2>2, Written
<1>7. t.id = p.id /\ t.ok = m.ok /\ t \in Answered
  BY <1>3, <1>4, <1>6 DEF ToAck, Put, Answered, PutDone
<1>8. Writes(toAck'[d]) = Writes(toAck[d]) \cup {t}
  <2>1. "id" \in DOMAIN t /\ toAck[d] \in Seq(Answered)
    BY <1>7, Numbers, QueueTypes
  <2>2. Own(t) = {t}
    BY <2>1 DEF Own
  <2> QED BY <1>4, <1>7, <2>1, <2>2, WritesMore
<1>9. m \in Writes(down[d])
  <2>1. "id" \in DOMAIN m /\ down[d] \in Seq(Answer)
    BY <1>4, Numbers, QueueTypes
  <2>2. Writes(down[d]) = Writes(Tail(down[d])) \cup Own(m)
    BY <1>2, <1>4, <2>1, WritesTail
  <2> QED BY <2>1, <2>2 DEF Own
<1> QED BY <1>4, <1>5, <1>6, <1>7, <1>8, <1>9

\* An acknowledged one is posted with its status.
LEMMA WritePosted ==
  ASSUME TypeOK, NEW d \in Device, AckPut(d)
  PROVE  \E p \in Answered, x \in DoneEv :
           /\ x.id = p.id /\ x.ok = p.ok
           /\ Writes(toAck[d]) = Writes(toAck'[d]) \cup {p}
           /\ Writes(events'[d]) = Writes(events[d]) \cup {x}
           /\ puts' = puts /\ calls' = calls /\ down' = down
           /\ \A e \in Device \ {d} : toAck'[e] = toAck[e] /\ events'[e] = events[e]
<1>1. PICK p : p = Head(toAck[d])
  OBVIOUS
<1>2. PICK view : view = Overlay(cache[d], Tail(toAck[d]) \o puts[d])
  OBVIOUS
<1>3. PICK x : x = [kind |-> "done", id |-> p.id, key |-> p.key, ok |-> p.ok]
  OBVIOUS
<1>4. /\ toAck[d] # <<>> /\ toAck'[d] = Tail(toAck[d]) /\ puts' = puts /\ calls' = calls /\ down' = down
      /\ events'[d] = (events[d] \o Changed(d, view)) \o <<x>>
      /\ \A e \in Device \ {d} : toAck'[e] = toAck[e] /\ events'[e] = events[e]
  BY <1>1, <1>2, <1>3 DEF AckPut, TypeOK, net
<1>5. toAck[d] \in Seq(Answered) /\ events[d] \in Seq(Event)
  BY QueueTypes
<1>6. p \in Answered /\ "id" \in DOMAIN p
  BY <1>1, <1>4, <1>5, HeadTailProperties, Numbers
<1>7. Writes(toAck[d]) = Writes(toAck'[d]) \cup {p}
  <2>1. Own(p) = {p}
    BY <1>6 DEF Own
  <2>2. Writes(toAck[d]) = Writes(Tail(toAck[d])) \cup Own(Head(toAck[d]))
    BY <1>4, <1>5, WritesTail
  <2> QED BY <1>1, <1>4, <2>1, <2>2
<1>8. Writes(events'[d]) = Writes(events[d]) \cup {x}
  <2>1. \A s \in Seq(Event) : Writes((s \o Changed(d, view)) \o <<x>>) = Writes(s) \cup {x}
    BY <1>3, <1>6, DonePosted
  <2> QED BY <1>4, <1>5, <2>1
<1>9. x \in DoneEv /\ x.id = p.id /\ x.ok = p.ok
  BY <1>3, <1>6 DEF DoneEv, Answered
<1> QED BY <1>4, <1>6, <1>7, <1>8, <1>9

\* What the client and the database do leaves every write open.
LEMMA BelowIds ==
  ASSUME TypeOK, Ordered, Resends, NEW d \in Device, Below(d) \/ HandleValue(d), NEW e \in Device
  PROVE  OpenIds(e)' = OpenIds(e)
<1>1. ASSUME Writes(events'[e]) = Writes(events[e]), Open(e)' = Open(e)
      PROVE  OpenIds(e)' = OpenIds(e)
  BY <1>1 DEF OpenIds
<1>2. CASE \/ RetrieveAll(d) \/ HandleValue(d) \/ RunPut(d) \/ RunObserve(d) \/ Connect(d)
           \/ Disconnect(d) \/ ReceiveData(d) \/ ReceiveListenOk(d) \/ ReceiveDenial(d)
           \/ ServerListen(d) \/ ServerDeny(d)
  <2>1. Pending(e)' = Pending(e)
    BY <1>2, QuietPending
  <2>2. toAck' = toAck
    BY <1>2 DEF RetrieveAll, HandleValue, RunPut, RunObserve, Connect, Disconnect, ReceiveData,
       ReceiveListenOk, ReceiveDenial, ServerListen, ServerDeny, client
  <2>3. Writes(events'[e]) = Writes(events[e])
    BY <1>2, EventWrites
  <2> QED BY <1>1, <2>1, <2>2, <2>3 DEF Open
<1>3. CASE ServerAccept(d) \/ ServerReject(d)
  <2>1. calls' = calls /\ puts' = puts /\ toAck' = toAck
    BY <1>3 DEF ServerAccept, ServerReject, client
  <2>2. Writes(events'[e]) = Writes(events[e])
    BY <1>3, EventWrites
  <2> QED BY <1>1, <2>1, <2>2 DEF Open, Pending
<1>4. CASE ReceivePutDone(d)
  <2>1. PICK p \in Put, t \in Answered :
           /\ t.id = p.id /\ Writes(puts[d]) = Writes(puts'[d]) \cup {p}
           /\ Writes(toAck'[d]) = Writes(toAck[d]) \cup {t} /\ calls' = calls /\ events' = events
           /\ \A f \in Device \ {d} : puts'[f] = puts[f] /\ toAck'[f] = toAck[f]
    BY <1>4, WriteAnswered
  <2>2. CASE e # d
    <3>1. Open(e)' = Open(e) /\ events'[e] = events[e]
      BY <2>1, <2>2 DEF Open, Pending
    <3> QED BY <1>1, <3>1
  <2>3. CASE e = d
    <3>1. Open(d) \cup {t} = Open(d)' \cup {p} /\ p \in Open(d) /\ t \in Open(d)'
      BY <2>1 DEF Open, Pending
    <3> QED BY <2>1, <2>3, <3>1 DEF OpenIds
  <2> QED BY <2>2, <2>3
<1>5. CASE AckPut(d)
  <2>1. PICK p \in Answered, x \in DoneEv :
           /\ x.id = p.id /\ Writes(toAck[d]) = Writes(toAck'[d]) \cup {p}
           /\ Writes(events'[d]) = Writes(events[d]) \cup {x} /\ puts' = puts /\ calls' = calls
           /\ \A f \in Device \ {d} : toAck'[f] = toAck[f] /\ events'[f] = events[f]
    BY <1>5, WritePosted
  <2>2. CASE e # d
    BY <1>1, <2>1, <2>2 DEF Open, Pending
  <2>3. CASE e = d
    <3>1. Open(d) = Open(d)' \cup {p}
      BY <2>1 DEF Open, Pending
    <3> QED BY <2>1, <2>3, <3>1 DEF OpenIds
  <2> QED BY <2>2, <2>3
<1> QED BY <1>2, <1>3, <1>4, <1>5 DEF Below

\* The answers on their way down: a device without refusals gets no other than accepted ones.
LEMMA AnswersAccepted ==
  ASSUME TypeOK, Ordered, NEW d \in Device, Below(d) \/ HandleValue(d) \/ HandleDone(d),
         NEW e \in Device, refusals'[e] = 0
  PROVE  \A m \in Writes(down'[e]) : m \in Writes(down[e]) \/ m.ok
<1>0. down[e] \in Seq(Answer)
  BY QueueTypes
<1>1. CASE down'[e] = down[e]
  BY <1>1
<1>2. CASE down[e] # <<>> /\ down'[e] = Tail(down[e])
  BY <1>0, <1>2, WritesTail
<1>3. CASE e # d /\ ~ ServerAccept(d)
  <2>1. down'[e] = down[e]
    BY <1>3 DEF Below, HandleValue, HandleDone, RetrieveAll, RunPut, RunObserve, Connect, Disconnect,
       ReceiveData, ReceiveListenOk, ReceiveDenial, ReceivePutDone, AckPut, ServerListen,
       ServerReject, ServerDeny, TypeOK, net
  <2> QED BY <1>1, <2>1
<1>4. CASE \/ HandleValue(d) \/ HandleDone(d) \/ RetrieveAll(d) \/ RunPut(d) \/ RunObserve(d)
           \/ Connect(d) \/ AckPut(d)
  <2>1. down' = down
    BY <1>4 DEF HandleValue, HandleDone, RetrieveAll, RunPut, RunObserve, Connect, AckPut, net
  <2> QED BY <1>1, <2>1
<1>5. CASE e = d /\ (ReceiveData(d) \/ ReceiveListenOk(d) \/ ReceiveDenial(d) \/ ReceivePutDone(d))
  <2>1. down[e] # <<>> /\ down'[e] = Tail(down[e])
    BY <1>5 DEF ReceiveData, ReceiveListenOk, ReceiveDenial, ReceivePutDone, TypeOK
  <2> QED BY <1>2, <2>1
<1>6. CASE e = d /\ Disconnect(d)
  <2>1. down'[e] = <<>>
    BY <1>6 DEF Disconnect, TypeOK
  <2> QED BY <2>1 DEF Writes, Numbered
<1>7. CASE e = d /\ ServerListen(d)
  <2>1. PICK a : a = [op |-> "all", vers |-> [k \in Key |-> Len(hist[k])]]
    OBVIOUS
  <2>2. PICK s : s = down[e] \o <<a>>
    OBVIOUS
  <2>3. down'[e] = s \o <<ListenOk>> /\ s \in Seq(Answer \cup {a})
    <3>1. down'[e] = down[e] \o <<a, ListenOk>>
      BY <1>7, <2>1 DEF ServerListen, TypeOK
    <3>2. down[e] \in Seq(Answer \cup {a})
      BY <1>0
    <3> QED BY <2>2, <3>1, <3>2
  <2>4. Own(a) = {} /\ Own(ListenOk) = {}
    BY <2>1 DEF Own, ListenOk
  <2>5. Writes(s) = Writes(down[e])
    BY <1>0, <2>2, <2>4, WritesAdded
  <2>6. Writes(down'[e]) = Writes(s)
    <3>1. \A t \in Seq(Answer \cup {a}) : Writes(t \o <<ListenOk>>) = Writes(t) \cup Own(ListenOk)
      BY WritesAdded
    <3> QED BY <2>3, <2>4, <3>1
  <2> QED BY <2>5, <2>6
<1>8. CASE e = d /\ ServerReject(d)
  BY <1>8 DEF ServerReject, TypeOK
<1>10. CASE e = d /\ ServerDeny(d)
  <2>1. down'[e] = down[e] \o <<Denied>>
    BY <1>0, <1>10 DEF ServerDeny, TypeOK
  <2>2. Own(Denied) = {}
    BY DEF Own, Denied
  <2> QED BY <1>0, <2>1, <2>2, WritesAdded
<1>9. CASE ServerAccept(d)
  <2>1. PICK p : p = Head(up[d])
    OBVIOUS
  <2>2. PICK data : data = [op |-> "update", key |-> p.key, ver |-> Len(hist[p.key]) + 1]
    OBVIOUS
  <2>3. PICK done : done = [op |-> "putDone", id |-> p.id, ok |-> TRUE]
    OBVIOUS
  <2>4. PICK s : s = IF subscribed[e] THEN Append(down[e], data) ELSE down[e]
    OBVIOUS
  <2>5. down'[e] = s \o (IF e = d THEN <<done>> ELSE <<>>)
    BY <1>9, <2>1, <2>2, <2>3, <2>4 DEF ServerAccept
  <2>6. Own(data) = {} /\ Own(done) = {done} /\ done.ok
    BY <2>2, <2>3 DEF Own
  <2>7. s \in Seq(Answer \cup {data}) /\ Writes(s) = Writes(down[e])
    <3>1. down[e] \in Seq(Answer \cup {data})
      BY <1>0
    <3>2. Append(down[e], data) = down[e] \o <<data>> /\ Append(down[e], data) \in Seq(Answer \cup {data})
      BY <3>1
    <3>3. Writes(down[e] \o <<data>>) = Writes(down[e])
      BY <1>0, <2>6, WritesAdded
    <3> QED BY <2>4, <3>1, <3>2, <3>3
  <2>8. CASE e = d
    <3>1. Writes(s \o <<done>>) = Writes(s) \cup {done}
      BY <2>6, <2>7, WritesAdded
    <3> QED BY <2>5, <2>6, <2>7, <2>8, <3>1
  <2>9. CASE e # d
    <3>1. down'[e] = s
      BY <2>5, <2>7, <2>9
    <3> QED BY <2>7, <3>1
  <2> QED BY <2>8, <2>9
<1> QED BY <1>3, <1>4, <1>5, <1>6, <1>7, <1>8, <1>9, <1>10 DEF Below

\* ... so that its completion blocks succeed.
LEMMA BelowAccepted ==
  ASSUME TypeOK, Ordered, NEW d \in Device, Below(d) \/ HandleValue(d) \/ HandleDone(d),
         NEW e \in Device, refusals'[e] = 0, Accepted(e)
  PROVE  Accepted(e)'
<1>1. \A m \in Writes(down'[e]) : m.ok
  BY AnswersAccepted DEF Accepted
<1>2. \A m \in Writes(toAck'[e]) : m.ok
  <2>1. CASE ReceivePutDone(d)
    <3>1. PICK t \in Answered, m \in Writes(down[d]) :
             /\ t.ok = m.ok /\ Writes(toAck'[d]) = Writes(toAck[d]) \cup {t}
             /\ \A f \in Device \ {d} : toAck'[f] = toAck[f]
      BY <2>1, WriteAnswered
    <3>2. CASE e = d
      BY <3>1, <3>2 DEF Accepted
    <3>3. CASE e # d
      BY <3>1, <3>3 DEF Accepted
    <3> QED BY <3>2, <3>3
  <2>2. CASE AckPut(d)
    <3>1. PICK p \in Answered : /\ Writes(toAck[d]) = Writes(toAck'[d]) \cup {p}
                                /\ \A f \in Device \ {d} : toAck'[f] = toAck[f]
      BY <2>2, WritePosted
    <3> QED BY <3>1 DEF Accepted
  <2>3. CASE ~ ReceivePutDone(d) /\ ~ AckPut(d)
    <3>1. toAck' = toAck
      BY <2>3 DEF Below, HandleValue, HandleDone, RetrieveAll, RunPut, RunObserve, Connect, Disconnect,
         ReceiveData, ReceiveListenOk, ReceiveDenial, ServerListen, ServerAccept, ServerReject,
         ServerDeny, client
    <3> QED BY <3>1 DEF Accepted
  <2> QED BY <2>1, <2>2, <2>3
<1>3. \A m \in Writes(events'[e]) : m.ok
  <2>1. CASE AckPut(d)
    <3>1. PICK p \in Answered, x \in DoneEv :
             /\ x.ok = p.ok /\ Writes(toAck[d]) = Writes(toAck'[d]) \cup {p}
             /\ Writes(events'[d]) = Writes(events[d]) \cup {x}
             /\ \A f \in Device \ {d} : events'[f] = events[f]
      BY <2>1, WritePosted
    <3>2. CASE e = d
      BY <3>1, <3>2 DEF Accepted
    <3>3. CASE e # d
      BY <3>1, <3>3 DEF Accepted
    <3> QED BY <3>2, <3>3
  <2>2. CASE HandleDone(d)
    <3>1. events[d] # <<>> /\ events'[d] = Tail(events[d]) /\ \A f \in Device \ {d} : events'[f] = events[f]
      BY <2>2 DEF HandleDone, TypeOK
    <3>2. Writes(events'[d]) \subseteq Writes(events[d])
      <4>1. events[d] \in Seq(Event)
        BY QueueTypes
      <4> QED BY <3>1, <4>1, WritesTail
    <3> QED BY <3>1, <3>2 DEF Accepted
  <2>3. CASE ~ AckPut(d) /\ ~ HandleDone(d)
    <3>1. Writes(events'[e]) = Writes(events[e])
      BY <2>3, EventWrites DEF Below
    <3> QED BY <3>1 DEF Accepted
  <2> QED BY <2>1, <2>2, <2>3
<1> QED BY <1>1, <1>2, <1>3 DEF Accepted

\* ... and a completion block that runs closes its own, the oldest.
LEMMA HandleDoneIds ==
  ASSUME TypeOK, Ordered, NEW d \in Device, HandleDone(d), calls' = calls
  PROVE  /\ Head(events[d]) \in DoneEv /\ Head(events[d]) \in Writes(events[d])
         /\ Head(events[d]).id \in OpenIds(d)
         /\ OpenIds(d)' = OpenIds(d) \ {Head(events[d]).id}
         /\ \A e \in Device \ {d} : OpenIds(e)' = OpenIds(e)
<1>1. PICK p : p = Head(events[d])
  OBVIOUS
<1>2. /\ events[d] # <<>> /\ events'[d] = Tail(events[d]) /\ p.kind = "done"
      /\ \A e \in Device \ {d} : events'[e] = events[e]
      /\ puts' = puts /\ toAck' = toAck /\ calls' = calls
  BY <1>1 DEF HandleDone, TypeOK, client
<1>3. events[d] \in Seq(Event) /\ p \in DoneEv /\ "id" \in DOMAIN p
  <2>1. events[d] \in Seq(Event)
    BY QueueTypes
  <2>2. p \in Event
    BY <1>1, <1>2, <2>1, HeadTailProperties
  <2>3. p \in DoneEv
    BY <1>2, <2>2 DEF Event, ValueEv
  <2> QED BY <2>1, <2>3, Numbers
<1>4. Writes(events[d]) = Writes(Tail(events[d])) \cup {p}
  <2>1. Own(p) = {p} /\ p \in Event
    BY <1>3 DEF Own, Event
  <2>2. Writes(events[d]) = Writes(Tail(events[d])) \cup Own(Head(events[d]))
    BY <1>2, <1>3, WritesTail
  <2> QED BY <1>1, <2>1, <2>2
<1>5. \A e \in Device : Open(e)' = Open(e)
  BY <1>2 DEF Open, Pending
<1>6. \A q \in Writes(Tail(events[d])) \cup Open(d) : p.id < q.id
  <2>1. /\ Ascending(events[d]) /\ Before(events[d], toAck[d]) /\ Before(events[d], puts[d])
        /\ Before(events[d], calls[d])
    BY DEF Ordered, OrderedAt, Flow
  <2>2. \A i \in Numbered(Tail(events[d])) : i + 1 \in Numbered(events[d])
          /\ Tail(events[d])[i] = events[d][i + 1] /\ i \in Nat \ {0}
    BY <1>2, <1>3 DEF Numbered
  <2>3. 1 \in Numbered(events[d]) /\ events[d][1] = p
    BY <1>1, <1>2, <1>3 DEF Numbered
  <2>4. \A i \in Numbered(Tail(events[d])) : p.id < events[d][i + 1].id
    BY <2>1, <2>2, <2>3 DEF Ascending
  <2>5. \A q \in Writes(Tail(events[d])) : p.id < q.id
    BY <2>2, <2>4 DEF Writes
  <2>6. \A q \in Open(d) : p.id < q.id
    BY <2>1, <2>3 DEF Before, Open, Pending, Writes
  <2> QED BY <2>5, <2>6
<1>7. p.id \in Nat
  BY <1>3, Numbers
<1>8. \A q \in Writes(Tail(events[d])) \cup Open(d) : q.id # p.id
  BY <1>6, <1>7
<1>9. OpenIds(d)' = {x.id : x \in Writes(Tail(events[d])) \cup Open(d)}
  BY <1>2, <1>5 DEF OpenIds
<1>10. OpenIds(d) = {x.id : x \in Writes(Tail(events[d])) \cup Open(d)} \cup {p.id}
  BY <1>4 DEF OpenIds
<1>11. OpenIds(d)' = OpenIds(d) \ {p.id}
  BY <1>8, <1>9, <1>10
<1> QED BY <1>1, <1>2, <1>3, <1>4, <1>5, <1>10, <1>11 DEF OpenIds

\* The numbers of open writes have been given.
LEMMA OpenGiven ==
  ASSUME TypeOK, Ordered, NEW d \in Device
  PROVE  OpenIds(d) \subseteq 1..issued[d] /\ issued[d] \in Nat
<1>1. issued[d] \in Nat /\ events[d] \in Seq(Event)
  BY QueueTypes
<1>2. 1 \in Numbered(NextId(issued[d])) /\ NextId(issued[d])[1].id = issued[d] + 1
  BY DEF NextId, Numbered
<1>3. ASSUME NEW p \in Writes(events[d]) PROVE p.id \in 1..issued[d]
  <2>1. PICK i \in Numbered(events[d]) : p = events[d][i]
    BY DEF Writes
  <2>2. p \in Event /\ "id" \in DOMAIN p
    BY <1>1, <2>1, ElementOfSeq DEF Numbered
  <2>3. p.id \in WriteId
    BY <2>2 DEF Event, ValueEv, DoneEv
  <2>4. p.id < issued[d] + 1
    BY <1>2, <2>1 DEF Ordered, OrderedAt, Flow, Before
  <2> QED BY <1>1, <2>3, <2>4, StoreAssumption DEF WriteId
<1>4. ASSUME NEW p \in Open(d) PROVE p.id \in 1..issued[d]
  <2>1. p.id < issued[d] + 1 /\ p \in Answered \cup Put
    BY OpenIssued, OpenTypes
  <2>2. p.id \in WriteId
    BY <2>1 DEF Answered, Put
  <2> QED BY <1>1, <2>1, <2>2, StoreAssumption DEF WriteId
<1> QED BY <1>1, <1>3, <1>4 DEF OpenIds

\* So they can be counted.
LEMMA DiscoveredFinite ==
  ASSUME TypeOK, Ordered, NEW d \in Device
  PROVE  IsFiniteSet(Discovered(d)) /\ Cardinality(Discovered(d)) \in Nat
<1>1. IsFiniteSet(1..issued[d])
  BY OpenGiven, FS_Interval
<1>2. Discovered(d) \in SUBSET (1..issued[d])
  BY OpenGiven DEF Discovered
<1>3. IsFiniteSet(Discovered(d))
  BY <1>1, <1>2, FS_Subset
<1> QED BY <1>3, FS_CardinalityType

\* Two more or one less change the parity as updatedUsers counts.
LEMMA Parity ==
  /\ \A n \in Nat : n % 2 \in {0, 1} /\ (n + 2) % 2 = n % 2
  /\ \A n \in Nat : Counted((n + 1) % 2) = n % 2
<1>1. \A n \in Nat : n % 2 \in {0, 1} /\ (n + 2) % 2 = n % 2
  OBVIOUS
<1>2. ASSUME NEW n \in Nat PROVE Counted((n + 1) % 2) = n % 2
  <2>1. n % 2 \in {0, 1} /\ (n % 2 = 0 => (n + 1) % 2 = 1) /\ (n % 2 = 1 => (n + 1) % 2 = 0)
    OBVIOUS
  <2> QED BY <2>1 DEF Counted
<1> QED BY <1>1, <1>2

\* A step that neither makes nor completes writes.
LEMMA CountKept ==
  ASSUME NEW d \in Device, CountAt(d), OpenIds(d)' = OpenIds(d),
         sender'[d] = sender[d], userCount'[d] = userCount[d], issued'[d] = issued[d],
         refusals'[d] = 0 => refusals[d] = 0 /\ (Accepted(d) => Accepted(d)')
  PROVE  CountAt(d)'
<1>1. Discovered(d)' = Discovered(d)
  BY DEF Discovered
<1> QED BY <1>1 DEF CountAt

\* What discover's count and the writes say, step by step: the client and the database ...
LEMMA BelowInPhase ==
  ASSUME TypeOK, Ordered, Resends, InPhase, NEW d \in Device, Below(d) \/ HandleValue(d),
         sender' = sender, userCount' = userCount
  PROVE  InPhase'
<1> SUFFICES ASSUME NEW e \in Device PROVE CountAt(e)'
  BY DEF InPhase
<1>1. OpenIds(e)' = OpenIds(e)
  BY BelowIds
<1>2. issued' = issued
  BY DEF Below, HandleValue, RetrieveAll, RunPut, RunObserve, Connect, Disconnect, ReceiveData,
     ReceiveListenOk, ReceiveDenial, ReceivePutDone, AckPut, ServerListen, ServerAccept,
     ServerReject, ServerDeny, counts
<1>3. ASSUME refusals'[e] = 0 PROVE refusals[e] = 0
  <2>1. CASE ~ ServerReject(d)
    <3>1. refusals' = refusals
      BY <2>1 DEF Below, HandleValue, RetrieveAll, RunPut, RunObserve, Connect, Disconnect, ReceiveData,
         ReceiveListenOk, ReceiveDenial, ReceivePutDone, AckPut, ServerListen, ServerAccept,
         ServerDeny, counts
    <3> QED BY <1>3, <3>1
  <2>2. CASE ServerReject(d)
    BY <1>3, <2>2 DEF ServerReject, TypeOK
  <2> QED BY <2>1, <2>2
<1>4. refusals'[e] = 0 => (Accepted(e) => Accepted(e)')
  BY BelowAccepted
<1> QED BY <1>1, <1>2, <1>3, <1>4, CountKept DEF InPhase

\* ... a completion block ...
LEMMA DoneInPhase ==
  ASSUME TypeOK, Ordered, InPhase, NEW d \in Device, UpdatedUser(d)
  PROVE  InPhase'
<1>1. PICK p : p = Head(events[d])
  OBVIOUS
<1>2. HandleDone(d) /\ calls' = calls /\ sender' = sender
  BY DEF UpdatedUser
<1>3. issued' = issued /\ refusals' = refusals
  BY <1>2 DEF HandleDone, counts
<1>4. /\ p \in Writes(events[d]) /\ p.id \in OpenIds(d) /\ OpenIds(d)' = OpenIds(d) \ {p.id}
      /\ \A e \in Device \ {d} : OpenIds(e)' = OpenIds(e)
  BY <1>1, <1>2, HandleDoneIds
<1>5. userCount' = IF p.ok /\ sender[d][p.id] = "discover"
                   THEN [userCount EXCEPT ![d] = Counted(@)] ELSE userCount
  BY <1>1 DEF UpdatedUser
<1>6. sender' \in [Device -> Seq({"discover", "profile"})] /\ userCount' \in [Device -> Nat]
  BY <1>2, <1>5 DEF InPhase, Counted
<1>7. ASSUME NEW e \in Device, refusals'[e] = 0 PROVE Accepted(e) => Accepted(e)'
  BY <1>2, <1>7, BelowAccepted
<1>8. ASSUME NEW e \in Device \ {d} PROVE CountAt(e)'
  <2>1. userCount'[e] = userCount[e] /\ CountAt(e)
    BY <1>5 DEF InPhase
  <2> QED BY <1>2, <1>3, <1>4, <1>7, <2>1, CountKept
<1>9. CountAt(d)'
  <2>1. CountAt(d)
    BY DEF InPhase
  <2> SUFFICES ASSUME refusals'[d] = 0 PROVE Accepted(d)' /\ userCount'[d] = Cardinality(Discovered(d)') % 2
    BY <1>2, <1>3, <2>1 DEF CountAt, Discovered
  <2>2. Accepted(d) /\ userCount[d] = Cardinality(Discovered(d)) % 2
    BY <1>3, <2>1 DEF CountAt
  <2>3. p.ok
    BY <1>4, <2>2 DEF Accepted
  <2>4. CASE sender[d][p.id] = "discover"
    <3>1. p.id \in Discovered(d) /\ Discovered(d)' = Discovered(d) \ {p.id}
      BY <1>2, <1>4, <2>4 DEF Discovered
    <3>2. IsFiniteSet(Discovered(d)) /\ Cardinality(Discovered(d)) \in Nat
      BY DiscoveredFinite
    <3>3. Cardinality(Discovered(d)') = Cardinality(Discovered(d)) - 1
          /\ IsFiniteSet(Discovered(d)')
      BY <3>1, <3>2, FS_RemoveElement
    <3>4. Cardinality(Discovered(d)') \in Nat
      BY <3>3, FS_CardinalityType
    <3>5. userCount'[d] = Counted(userCount[d])
      BY <1>5, <2>3, <2>4 DEF InPhase
    <3>6. Cardinality(Discovered(d)) = Cardinality(Discovered(d)') + 1
      BY <3>2, <3>3
    <3> QED BY <1>7, <2>2, <3>4, <3>5, <3>6, Parity
  <2>5. CASE sender[d][p.id] # "discover"
    <3>1. Discovered(d)' = Discovered(d)
      BY <1>2, <1>4, <2>5 DEF Discovered
    <3>2. userCount'[d] = userCount[d]
      BY <1>5, <2>5
    <3> QED BY <1>7, <2>2, <3>1, <3>2
  <2> QED BY <2>4, <2>5
<1> QED BY <1>6, <1>8, <1>9 DEF InPhase

\* Writes that are called are the device's newest.
LEMMA CalledIds ==
  ASSUME NEW d \in Device, NEW N, Open(d)' = Open(d) \cup N, events'[d] = events[d]
  PROVE  OpenIds(d)' = OpenIds(d) \cup {n.id : n \in N}
BY DEF OpenIds

\* ... a tap ...
LEMMA TapInPhase ==
  ASSUME TypeOK, Ordered, InPhase, NEW d \in Device, NEW r \in [User -> Person], NEW a \in User,
         NEW b \in User, UpdateUsers(d, r, a, b), userCount' = userCount
  PROVE  InPhase'
<1>1. PICK x \in Put, y \in Put :
         /\ x.id = issued[d] + 1 /\ y.id = issued[d] + 2
         /\ calls'[d] = Append(Append(calls[d], x), y) /\ issued'[d] = issued[d] + 2
         /\ \A e \in Device \ {d} : calls'[e] = calls[e] /\ issued'[e] = issued[e]
         /\ UNCHANGED <<down, puts, toAck, events, refusals>>
  BY UpdateUsersCalls
<1>2. sender' = [sender EXCEPT ![d] = @ \o <<"discover", "discover">>]
  BY DEF UpdateUsers
<1>3. sender' \in [Device -> Seq({"discover", "profile"})]
  BY <1>2 DEF InPhase
<1>4. \A e \in Device : Accepted(e)' <=> Accepted(e)
  BY <1>1 DEF Accepted
<1>5. ASSUME NEW e \in Device \ {d} PROVE CountAt(e)'
  <2>1. OpenIds(e)' = OpenIds(e)
    BY <1>1 DEF OpenIds, Open, Pending
  <2>2. sender'[e] = sender[e] /\ CountAt(e)
    BY <1>2 DEF InPhase
  <2> QED BY <1>1, <1>4, <2>1, <2>2, CountKept
<1>6. CountAt(d)'
  <2>1. CountAt(d) /\ sender[d] \in Seq({"discover", "profile"})
    BY DEF InPhase
  <2>2. PICK n : n = issued[d]
    OBVIOUS
  <2>3. n \in Nat /\ Len(sender[d]) = n /\ OpenIds(d) \subseteq 1..n
    BY <2>1, <2>2, OpenGiven DEF CountAt
  <2>4. sender'[d] = sender[d] \o <<"discover", "discover">>
    BY <1>2 DEF InPhase
  <2>5. /\ Len(sender'[d]) = n + 2 /\ \A i \in 1..n : sender'[d][i] = sender[d][i]
        /\ sender'[d][n + 1] = "discover" /\ sender'[d][n + 2] = "discover"
    <3>1. PICK t : t = Append(sender[d], "discover")
      OBVIOUS
    <3>2. sender'[d] = Append(t, "discover")
      <4>1. \A s \in Seq({"discover", "profile"}) :
               s \o <<"discover", "discover">> = Append(Append(s, "discover"), "discover")
        OBVIOUS
      <4> QED BY <2>1, <2>4, <3>1, <4>1
    <3>3. /\ t \in Seq({"discover", "profile"}) /\ Len(t) = n + 1 /\ t[n + 1] = "discover"
          /\ \A i \in 1..n : t[i] = sender[d][i]
      BY <2>1, <2>3, <3>1
    <3> QED BY <2>3, <3>2, <3>3
  <2>6. OpenIds(d)' = OpenIds(d) \cup {n + 1, n + 2}
    <3>1. Writes(calls'[d]) = Writes(calls[d]) \cup {x, y}
      <4>1. calls[d] \in Seq(Calling) /\ x \in Calling /\ y \in Calling
        BY QueueTypes DEF Calling
      <4>2. PICK c : c = Append(calls[d], x)
        OBVIOUS
      <4>3. c \in Seq(Calling) /\ Writes(c) = Writes(calls[d]) \cup {x}
        BY <4>1, <4>2, Written
      <4>4. Writes(Append(c, y)) = Writes(c) \cup {y}
        BY <4>1, <4>3, Written
      <4> QED BY <1>1, <4>2, <4>3, <4>4
    <3>2. Open(d)' = Open(d) \cup {x, y}
      BY <1>1, <3>1 DEF Open, Pending
    <3>3. OpenIds(d)' = OpenIds(d) \cup {x.id, y.id}
      BY <1>1, <3>2 DEF OpenIds
    <3> QED BY <1>1, <2>2, <3>3
  <2>7. Discovered(d)' = (Discovered(d) \cup {n + 1}) \cup {n + 2}
    <3>1. \A i \in OpenIds(d) : sender'[d][i] = sender[d][i]
      BY <2>3, <2>5
    <3> QED BY <2>5, <2>6, <3>1 DEF Discovered
  <2>8. Cardinality(Discovered(d)') = Cardinality(Discovered(d)) + 2 /\ Cardinality(Discovered(d)) \in Nat
    <3>1. n + 1 \notin Discovered(d) /\ n + 2 \notin Discovered(d) \cup {n + 1}
      BY <2>3 DEF Discovered
    <3>2. IsFiniteSet(Discovered(d)) /\ Cardinality(Discovered(d)) \in Nat
      BY DiscoveredFinite
    <3>3. /\ IsFiniteSet(Discovered(d) \cup {n + 1})
          /\ Cardinality(Discovered(d) \cup {n + 1}) = Cardinality(Discovered(d)) + 1
      BY <3>1, <3>2, FS_AddElement
    <3>4. Cardinality(Discovered(d)') = Cardinality(Discovered(d) \cup {n + 1}) + 1
      BY <2>7, <3>1, <3>3, FS_AddElement, SMTT(30)
    <3> QED BY <3>2, <3>3, <3>4
  <2>9. Len(sender'[d]) = issued'[d]
    BY <1>1, <2>2, <2>5
  <2> SUFFICES ASSUME refusals'[d] = 0
               PROVE  Accepted(d)' /\ userCount'[d] = Cardinality(Discovered(d)') % 2
    BY <2>9 DEF CountAt
  <2>10. Accepted(d) /\ userCount[d] = Cardinality(Discovered(d)) % 2
    BY <1>1, <2>1 DEF CountAt
  <2> QED BY <1>4, <2>8, <2>10, Parity
<1> QED BY <1>3, <1>5, <1>6 DEF InPhase

\* ... an update of the profile ...
LEMMA ProfileInPhase ==
  ASSUME FriendsInv, Ordered, InPhase, NEW d \in Device, UpdateProfile(d)
  PROVE  InPhase'
<1>0. TypeOK /\ FriendsTypeOK
  BY DEF FriendsInv, Inductive
<1>1. PICK x : x = [op |-> "put", id |-> issued[d] + 1, key |-> UserOf[d], val |-> profile[d]]
  OBVIOUS
<1>2. /\ issued[d] < MaxWrites /\ calls'[d] = Append(calls[d], x) /\ issued'[d] = issued[d] + 1
      /\ \A e \in Device \ {d} : calls'[e] = calls[e] /\ issued'[e] = issued[e]
      /\ UNCHANGED <<down, puts, toAck, events, refusals>>
  BY <1>0, <1>1 DEF UpdateProfile, SetValue, TypeOK, net, client
<1>3. x \in Put /\ x.id = issued[d] + 1
  <2>1. profile[d] \in Value /\ UserOf[d] \in Key
    BY <1>0, PeopleTypes, FriendsAssumption DEF UpdateProfile, FriendsTypeOK
  <2>2. issued[d] + 1 \in WriteId
    <3>1. issued[d] \in 0..MaxWrites
      BY <1>0 DEF TypeOK
    <3> QED BY <1>2, <3>1, StoreAssumption DEF WriteId
  <2> QED BY <1>1, <2>1, <2>2 DEF Put
<1>4. sender' = [sender EXCEPT ![d] = Append(@, "profile")] /\ userCount' = userCount
  BY DEF UpdateProfile
<1>5. sender' \in [Device -> Seq({"discover", "profile"})]
  BY <1>4 DEF InPhase
<1>6. \A e \in Device : Accepted(e)' <=> Accepted(e)
  BY <1>2 DEF Accepted
<1>7. ASSUME NEW e \in Device \ {d} PROVE CountAt(e)'
  <2>1. OpenIds(e)' = OpenIds(e)
    BY <1>2 DEF OpenIds, Open, Pending
  <2>2. sender'[e] = sender[e] /\ CountAt(e)
    BY <1>4 DEF InPhase
  <2> QED BY <1>2, <1>4, <1>6, <2>1, <2>2, CountKept
<1>8. CountAt(d)'
  <2>1. CountAt(d) /\ sender[d] \in Seq({"discover", "profile"})
    BY DEF InPhase
  <2>2. PICK n : n = issued[d]
    OBVIOUS
  <2>3. n \in Nat /\ Len(sender[d]) = n /\ OpenIds(d) \subseteq 1..n
    BY <1>0, <2>1, <2>2, OpenGiven DEF CountAt
  <2>4. sender'[d] = Append(sender[d], "profile")
    BY <1>4 DEF InPhase
  <2>5. /\ Len(sender'[d]) = n + 1 /\ \A i \in 1..n : sender'[d][i] = sender[d][i]
        /\ sender'[d][n + 1] = "profile"
    BY <2>1, <2>3, <2>4
  <2>6. OpenIds(d)' = OpenIds(d) \cup {n + 1}
    <3>1. Writes(calls'[d]) = Writes(calls[d]) \cup {x}
      <4>1. calls[d] \in Seq(Calling) /\ x \in Calling
        BY <1>0, <1>3, QueueTypes DEF Calling
      <4> QED BY <1>2, <1>3, <4>1, Written
    <3>2. Open(d)' = Open(d) \cup {x}
      BY <1>2, <3>1 DEF Open, Pending
    <3>3. OpenIds(d)' = OpenIds(d) \cup {x.id}
      BY <1>2, <3>2 DEF OpenIds
    <3> QED BY <1>3, <2>2, <3>3
  <2>7. Discovered(d)' = Discovered(d)
    <3>1. \A i \in OpenIds(d) : sender'[d][i] = sender[d][i]
      BY <2>3, <2>5
    <3> QED BY <2>5, <2>6, <3>1 DEF Discovered
  <2>8. Len(sender'[d]) = issued'[d]
    BY <1>2, <2>2, <2>5
  <2> QED BY <1>2, <1>4, <1>6, <2>1, <2>7, <2>8 DEF CountAt
<1> QED BY <1>4, <1>5, <1>7, <1>8 DEF InPhase

\* ... and a new process, which counts from nothing.
LEMMA RestartInPhase ==
  ASSUME TypeOK, InPhase, NEW d \in Device, RestartScreens(d)
  PROVE  InPhase'
<1>1. /\ sender' = sender /\ userCount' = [userCount EXCEPT ![d] = 0]
      /\ issued' = issued /\ refusals' = refusals
      /\ calls'[d] = <<>> /\ puts'[d] = <<>> /\ toAck'[d] = <<>> /\ events'[d] = <<>> /\ down'[d] = <<>>
      /\ \A e \in Device \ {d} : /\ calls'[e] = calls[e] /\ puts'[e] = puts[e] /\ toAck'[e] = toAck[e]
                                 /\ events'[e] = events[e] /\ down'[e] = down[e]
  BY DEF RestartScreens, Restart, TypeOK
<1>2. userCount' \in [Device -> Nat] /\ userCount'[d] = 0
      /\ \A e \in Device \ {d} : userCount'[e] = userCount[e]
  BY <1>1 DEF InPhase
<1>3. ASSUME NEW e \in Device \ {d} PROVE CountAt(e)'
  <2>1. OpenIds(e)' = OpenIds(e) /\ (Accepted(e)' <=> Accepted(e))
    BY <1>1 DEF OpenIds, Open, Pending, Accepted
  <2> QED BY <1>1, <1>2, <2>1, CountKept DEF InPhase
<1>4. CountAt(d)'
  <2>1. Writes(<<>>) = {}
    BY DEF Writes, Numbered
  <2>2. OpenIds(d)' = {} /\ Accepted(d)'
    BY <1>1, <2>1 DEF OpenIds, Open, Pending, Accepted
  <2>3. Discovered(d)' = {}
    BY <2>2 DEF Discovered
  <2>4. Cardinality(Discovered(d)') % 2 = 0
    BY <2>3, FS_EmptySet
  <2> QED BY <1>1, <1>2, <2>2, <2>4 DEF CountAt, InPhase
<1> QED BY <1>1, <1>2, <1>3, <1>4 DEF InPhase

\* The open writes of discover, counted by their places in the queues.
LEMMA OpenCounted ==
  ASSUME TypeOK, Ordered, NEW d \in Device
  PROVE  Cardinality(OpenWrites(d)) = Cardinality(Discovered(d))
<1>1. PICK X : X = Event \cup Answered \cup Put \cup {Observe}
  OBVIOUS
<1>2. PICK P : P = Pipeline(d)
  OBVIOUS
<1>3. /\ events[d] \in Seq(X) /\ toAck[d] \in Seq(X) /\ puts[d] \in Seq(X) /\ calls[d] \in Seq(X)
  <2>1. Event \subseteq X /\ Answered \subseteq X /\ Put \subseteq X /\ {Observe} \cup Put \subseteq X
    BY <1>1
  <2> QED BY <2>1, QueueTypes, SeqMonotonic
<1>4. Ascending(P)
  BY <1>2, QueueTypes, FlowAscends DEF Ordered, OrderedAt, Pipeline
<1>5. Writes(P) = Writes(events[d]) \cup Open(d)
  <2>1. \A s, t \in Seq(X) : s \o t \in Seq(X) /\ Writes(s \o t) = Writes(s) \cup Writes(t)
    BY WritesJoined
  <2>2. PICK s : s = events[d] \o toAck[d]
    OBVIOUS
  <2>3. PICK t : t = s \o puts[d]
    OBVIOUS
  <2>4. s \in Seq(X) /\ Writes(s) = Writes(events[d]) \cup Writes(toAck[d])
    BY <1>3, <2>1, <2>2
  <2>5. t \in Seq(X) /\ Writes(t) = Writes(s) \cup Writes(puts[d])
    BY <1>3, <2>1, <2>3, <2>4
  <2>6. P = t \o calls[d] /\ Writes(t \o calls[d]) = Writes(t) \cup Writes(calls[d])
    BY <1>2, <1>3, <2>1, <2>2, <2>3, <2>5 DEF Pipeline
  <2> QED BY <2>4, <2>5, <2>6 DEF Open, Pending
<1>6. P \in Seq(X)
  BY <1>2, <1>3 DEF Pipeline
<1>7. OpenWrites(d) = {i \in Numbered(P) : sender[d][P[i].id] = "discover"}
  BY <1>2 DEF OpenWrites
<1>8. OpenIds(d) = {P[i].id : i \in Numbered(P)} /\ OpenIds(d) \subseteq Nat
  BY <1>5, OpenGiven DEF Writes, OpenIds
<1> DEFINE f == [i \in OpenWrites(d) |-> P[i].id]
<1>9. f \in [OpenWrites(d) -> Discovered(d)]
  BY <1>7, <1>8 DEF Discovered
<1>10. \A t \in Discovered(d) : \E s \in OpenWrites(d) : f[s] = t
  BY <1>7, <1>8 DEF Discovered
<1>11. ASSUME NEW i \in OpenWrites(d), NEW j \in OpenWrites(d), f[i] = f[j] PROVE i = j
  <2>1. i \in Numbered(P) /\ j \in Numbered(P) /\ P[i].id = P[j].id
    BY <1>7, <1>11
  <2>2. i \in Nat /\ j \in Nat
    BY <1>6, <2>1 DEF Numbered
  <2>3. P[i].id \in Nat
    BY <1>8, <2>1
  <2> QED BY <1>4, <2>1, <2>2, <2>3 DEF Ascending
<1>12. f \in Bijection(OpenWrites(d), Discovered(d))
  BY <1>9, <1>10, <1>11 DEF Bijection, Injection, Surjection, IsInjective
<1>13. ExistsBijection(OpenWrites(d), Discovered(d))
  BY <1>12 DEF ExistsBijection
<1>14. IsFiniteSet(OpenWrites(d))
  <2>1. Len(P) \in Nat /\ OpenWrites(d) \in SUBSET (1..Len(P))
    BY <1>6, <1>7 DEF Numbered
  <2>2. IsFiniteSet(1..Len(P))
    BY <2>1, FS_Interval
  <2> QED BY <2>1, <2>2, FS_Subset
<1> QED BY <1>13, <1>14, FS_Bijection

\* The inductive invariant of TapsPaired.
TapsInv == FriendsInv /\ Ordered /\ Resends /\ TapsMeant /\ InPhase

\* A step of the store that no screen takes part in.
LEMMA StoreStepOrdered ==
  ASSUME FriendsInv, FriendsInv', Ordered, Resends, [Next]_vars
  PROVE  Ordered' /\ Resends'
<1>1. Inductive /\ Inductive'
  BY DEF FriendsInv
<1> QED BY <1>1, OrderedStep, ResendsStep

\* Every step of the screens keeps the order of the writes ...
LEMMA TapsOrdered ==
  ASSUME FriendsInv, FriendsInv', Ordered, Resends, [FriendsNext]_friendsVars
  PROVE  Ordered' /\ Resends'
<1>0. TypeOK
  BY DEF FriendsInv, Inductive
<1>1. ASSUME NEW d \in Device, NEW b \in User, NEW h \in Handler, TapButton(d, b, h)
      PROVE  Ordered' /\ Resends'
  <2>1. people[d] \in [User -> Person] /\ UserOf[d] \in User /\ b # UserOf[d]
    BY <1>1, PeopleTypes DEF TapButton, FriendsInv, FriendsTypeOK
  <2>2. Tapped(h, people[d], UserOf[d], b) \in [User -> Person]
    BY <2>1, TapPeople
  <2>3. UpdateUsers(d, Tapped(h, people[d], UserOf[d], b), UserOf[d], b)
    BY <1>1 DEF TapButton
  <2> QED BY <1>0, <2>1, <2>2, <2>3, UpdateUsersOrdered, UpdateUsersResends
<1>2. ASSUME NEW d \in Device, UpdateProfile(d) PROVE Next
  <2>1. profile[d] \in Value /\ UserOf[d] \in Key /\ SetValue(d, UserOf[d], profile[d])
    BY <1>2, PeopleTypes, FriendsAssumption DEF UpdateProfile, FriendsInv, FriendsTypeOK
  <2> QED BY <2>1 DEF Next
<1>3. ASSUME NEW d \in Device,
             \/ RetrievedUsers(d) \/ UpdatedUser(d) \/ RestartScreens(d) \/ DataLayer(d)
      PROVE  Next
  BY <1>3 DEF RetrievedUsers, UpdatedUser, RestartScreens, DataLayer, Below, Next, Infrastructure, Mishap
<1>4. ASSUME NEW d \in Device, DrawProfile(d) PROVE UNCHANGED vars
  BY <1>4 DEF DrawProfile
<1>5. CASE UNCHANGED friendsVars
  BY <1>5, StoreStepOrdered DEF friendsVars
<1> QED BY <1>1, <1>2, <1>3, <1>4, <1>5, StoreStepOrdered DEF FriendsNext

\* ... and what was meant ...
LEMMA StepMeant ==
  ASSUME FriendsInv, Ordered, Resends, TapsMeant, [FriendsNext]_friendsVars
  PROVE  TapsMeant'
<1>0. TypeOK
  BY DEF FriendsInv, Inductive
<1>1. ASSUME UNCHANGED <<hist, restarts, refusals, raced, calls, up, conn, puts, toAck>>
      PROVE  TapsMeant'
  <2>1. \A e \in Device : Open(e)' = Open(e) /\ Unserved(e)' = Unserved(e)
    BY <1>1 DEF Open, Pending, Unserved
  <2>2. Calm' => Calm
    BY <1>1 DEF Calm
  <2> QED BY <1>1, <2>1, <2>2, KeepsMeant
<1>2. ASSUME NEW d \in Device, DrawProfile(d) \/ UNCHANGED friendsVars PROVE TapsMeant'
  <2>1. UNCHANGED vars /\ raced' = raced
    BY <1>2 DEF DrawProfile, friendsVars
  <2> QED BY <1>1, <2>1 DEF vars, net, client, counts
<1>3. ASSUME NEW d \in Device, RetrievedUsers(d) \/ UpdatedUser(d) PROVE TapsMeant'
  <2>1. (HandleValue(d) \/ HandleDone(d)) /\ raced' = raced
    BY <1>3 DEF RetrievedUsers, UpdatedUser
  <2> QED BY <1>0, <2>1, QuietMeant
<1>4. ASSUME NEW d \in Device, RestartScreens(d) PROVE TapsMeant'
  <2>1. restarts'[d] # 0
    BY <1>0, <1>4 DEF RestartScreens, Restart, TypeOK
  <2> QED BY <2>1 DEF TapsMeant, Calm
<1>5. ASSUME NEW d \in Device, DataLayer(d) PROVE TapsMeant'
  <2>1. Below(d) /\ raced' = raced
    BY <1>5 DEF DataLayer
  <2>2. CASE ServerReject(d)
    <3>1. refusals'[d] # 0
      BY <1>0, <2>2 DEF ServerReject, TypeOK
    <3> QED BY <3>1 DEF TapsMeant, Calm
  <2> QED BY <1>0, <2>1, <2>2, QuietMeant, AckPutMeant, ReceivePutDoneMeant, ServerAcceptMeant DEF Below
<1>6. ASSUME NEW d \in Device, NEW b \in User, NEW h \in Handler, TapButton(d, b, h) PROVE TapsMeant'
  BY <1>6, TapMeant
<1>7. ASSUME NEW d \in Device, UpdateProfile(d) PROVE TapsMeant'
  BY <1>7, UpdateProfileMeant
<1>8. CASE UNCHANGED friendsVars
  <2>1. UNCHANGED vars /\ raced' = raced
    BY <1>8 DEF friendsVars
  <2> QED BY <1>1, <2>1 DEF vars, net, client, counts
<1> QED BY <1>2, <1>3, <1>4, <1>5, <1>6, <1>7, <1>8 DEF FriendsNext

\* ... and the count.
LEMMA StepInPhase ==
  ASSUME FriendsInv, Ordered, Resends, InPhase, [FriendsNext]_friendsVars
  PROVE  InPhase'
<1>0. TypeOK
  BY DEF FriendsInv, Inductive
<1>1. ASSUME UNCHANGED <<vars, sender, userCount>> PROVE InPhase'
  <2>1. UNCHANGED <<events, toAck, puts, calls, down, issued, refusals, sender, userCount>>
    BY <1>1 DEF vars, net, client, counts
  <2>2. \A e \in Device : OpenIds(e)' = OpenIds(e) /\ (Accepted(e)' <=> Accepted(e))
    BY <2>1 DEF OpenIds, Open, Pending, Accepted
  <2>3. \A e \in Device : CountAt(e)'
    BY <2>1, <2>2, CountKept DEF InPhase
  <2> QED BY <2>1, <2>3 DEF InPhase
<1>2. ASSUME NEW d \in Device, RetrievedUsers(d) \/ DataLayer(d) PROVE InPhase'
  BY <1>0, <1>2, BelowInPhase DEF RetrievedUsers, DataLayer
<1>3. ASSUME NEW d \in Device, NEW b \in User, NEW h \in Handler, TapButton(d, b, h) PROVE InPhase'
  <2>1. people[d] \in [User -> Person] /\ UserOf[d] \in User /\ b # UserOf[d]
    BY <1>3, PeopleTypes DEF TapButton, FriendsInv, FriendsTypeOK
  <2>2. Tapped(h, people[d], UserOf[d], b) \in [User -> Person]
    BY <2>1, TapPeople
  <2>3. UpdateUsers(d, Tapped(h, people[d], UserOf[d], b), UserOf[d], b) /\ userCount' = userCount
    BY <1>3 DEF TapButton
  <2> QED BY <1>0, <2>1, <2>2, <2>3, TapInPhase
<1>4. ASSUME NEW d \in Device, DrawProfile(d) PROVE InPhase'
  BY <1>1, <1>4 DEF DrawProfile
<1>5. CASE UNCHANGED friendsVars
  BY <1>1, <1>5 DEF friendsVars
<1>6. ASSUME NEW d \in Device, UpdateProfile(d) PROVE InPhase'
  BY <1>6, ProfileInPhase
<1>7. ASSUME NEW d \in Device, UpdatedUser(d) PROVE InPhase'
  BY <1>0, <1>7, DoneInPhase
<1>8. ASSUME NEW d \in Device, RestartScreens(d) PROVE InPhase'
  BY <1>0, <1>8, RestartInPhase
<1> QED BY <1>2, <1>3, <1>4, <1>5, <1>6, <1>7, <1>8 DEF FriendsNext

\* It holds before anything is written.
LEMMA TapsInit ==
  FriendsInit => Ordered /\ Resends /\ TapsMeant /\ InPhase
<1> SUFFICES ASSUME FriendsInit PROVE Ordered /\ Resends /\ TapsMeant /\ InPhase
  OBVIOUS
<1>1. Ordered /\ Resends
  BY OrderedInit, ResendsInit DEF FriendsInit
<1>2. /\ \A d \in Device : /\ events[d] = <<>> /\ toAck[d] = <<>> /\ puts[d] = <<>> /\ calls[d] = <<>>
                           /\ down[d] = <<>> /\ issued[d] = 0 /\ sender[d] = <<>> /\ userCount[d] = 0
      /\ sender = [d \in Device |-> <<>>] /\ userCount = [d \in Device |-> 0]
      /\ hist = [k \in Key |-> <<>>]
  BY DEF FriendsInit, Init
<1>3. Writes(<<>>) = {}
  BY DEF Writes, Numbered
<1>4. \A d \in Device : Open(d) = {} /\ OpenIds(d) = {} /\ Accepted(d)
  BY <1>2, <1>3 DEF Open, Pending, OpenIds, Accepted
<1>5. TapsMeant
  <2>1. \A k \in User : Server[k] = Seed[k]
    BY <1>2 DEF Server, Stored, User
  <2>2. Meant(Seed)
    BY <1>4, <2>1, SeedMirrored DEF Meant, Landed, Means
  <2> QED BY <2>2 DEF TapsMeant
<1>6. InPhase
  <2>1. sender \in [Device -> Seq({"discover", "profile"})] /\ userCount \in [Device -> Nat]
    BY <1>2
  <2>2. \A d \in Device : Discovered(d) = {}
    BY <1>4 DEF Discovered
  <2>3. Cardinality({}) % 2 = 0
    BY FS_EmptySet
  <2>4. \A d \in Device : CountAt(d)
    BY <1>2, <1>4, <2>2, <2>3 DEF CountAt
  <2> QED BY <2>1, <2>4 DEF InPhase
<1> QED BY <1>1, <1>5, <1>6

\* The screens that show and change friends keep TapsInv: with any people, devices and bounds,
\* the records that the open writes lead to are mirrored, and the count goes with the writes.
THEOREM TapsInvariant == FriendsSpec => []TapsInv
<1>1. FriendsInit => Ordered /\ Resends /\ TapsMeant /\ InPhase
  BY TapsInit
<1>2. /\ FriendsInv /\ FriendsInv' /\ Ordered /\ Resends /\ TapsMeant /\ InPhase
      /\ [FriendsNext]_friendsVars
      => Ordered' /\ Resends' /\ TapsMeant' /\ InPhase'
  BY TapsOrdered, StepMeant, StepInPhase
<1>3. TapsInv <=> FriendsInv /\ Ordered /\ Resends /\ TapsMeant /\ InPhase
  BY DEF TapsInv
<1> QED BY <1>1, <1>2, <1>3, FriendsInvariant, PTL DEF FriendsSpec

\* The two writes of a tap belong together: once all is quiet both halves of every relation
\* agree in the database, if no write was made on old records, refused or lost with its
\* process; and updatedUsers tells the other screens to refresh after both writes of a tap.
THEOREM TapsStayPaired == FriendsSpec => []TapsPaired
<1>1. TapsInv => TapsPaired
  <2> SUFFICES ASSUME TapsInv PROVE TapsPaired
    OBVIOUS
  <2>0. TypeOK /\ Ordered /\ Resends /\ TapsMeant /\ InPhase
    BY DEF TapsInv, FriendsInv, Inductive
  <2>1. ASSUME ~ raced, \A d \in Device : ~ Busy(d) /\ restarts[d] = 0 /\ refusals[d] = 0
        PROVE  Mirrored(Server)
    <3>1. PICK R : Meant(R)
      BY <2>0, <2>1 DEF TapsMeant, Calm
    <3>2. \A d \in Device : Unserved(d) = {}
      BY <2>0, <2>1, NotBusy
    <3>3. \A k \in User : Server[k] = R[k]
      BY <3>1, <3>2 DEF Meant, Landed
    <3> QED BY <3>1, <3>3 DEF Meant, Mirrored
  <2>2. \A d \in Device : refusals[d] = 0 => userCount[d] = Cardinality(OpenWrites(d)) % 2
    BY <2>0, OpenCounted DEF InPhase, CountAt
  <2> QED BY <2>1, <2>2 DEF TapsPaired, RelationsMirrored, PairsInPhase
<1> QED BY <1>1, TapsInvariant, PTL
=============================================================================
