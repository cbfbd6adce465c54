------------------------ MODULE RealtimeStore_proofs ------------------------
(***************************************************************************)
(* Proofs about RealtimeStore, for any devices, records, values and bounds.*)
(*                                                                         *)
(* TypeOK alone is not inductive: a snapshot holds records only if every   *)
(* version in a cache, or on its way to one, exists in the database's      *)
(* history.  VersionsOrdered adds that, and the order of the versions on a *)
(* connection, which is also what makes a step of the client or of the     *)
(* database a step of VersionedRecords.                                    *)
(***************************************************************************)
EXTENDS RealtimeStore, SequenceTheorems, WellFoundedInduction, TLAPS

\* A non-empty set of positions has a last one.
LEMMA LastIndex ==
    ASSUME NEW n \in Nat, NEW S \in SUBSET (1..n), S # {}
    PROVE  \E i \in S : \A j \in S : j <= i
<1> DEFINE T == {n - i : i \in S}
<1>1. T # {} /\ T \subseteq Nat
  <2>1. ASSUME NEW i \in S PROVE n - i \in Nat
    <3>1. i \in 1..n
      OBVIOUS
    <3> QED BY <3>1
  <2>2. PICK i \in S : TRUE
    OBVIOUS
  <2>3. n - i \in T
    BY <2>2
  <2> QED BY <2>1, <2>3
<1>2. PICK m \in T : \A t \in T : ~ (<<t, m>> \in OpToRel(<, Nat))
  <2> HIDE DEF T
  <2> QED BY <1>1, NatLessThanWellFounded, WFMin
<1>3. PICK i \in S : m = n - i
  OBVIOUS
<1>4. \A j \in S : ~ (n - j < n - i)
  BY <1>1, <1>2, <1>3 DEF OpToRel
<1>5. \A j \in S : j <= i
  BY <1>4
<1> QED
  BY <1>3, <1>5

\* Every version up to the newest is a record.
LEMMA StoredValue ==
    ASSUME StoreAssumption, TypeOK, NEW k \in Key, NEW n \in Nat, n <= Len(hist[k])
    PROVE  Stored(k, n) \in Value
<1>1. CASE n = 0
  BY <1>1 DEF StoreAssumption, Stored
<1>2. CASE n # 0
  <2>1. hist[k] \in Seq(Write) /\ n \in 1..Len(hist[k])
    BY <1>2 DEF TypeOK
  <2>2. hist[k][n] \in Write
    BY <2>1, ElementOfSeq
  <2> QED
    BY <1>2, <2>2 DEF Stored, Write
<1> QED
  BY <1>1, <1>2

\* Writes laid over a cache that the history covers give a snapshot.
LEMMA OverlaySnapshot ==
    ASSUME StoreAssumption, TypeOK,
           NEW vers \in [Key -> Nat], \A k \in Key : vers[k] <= Len(hist[k]),
           NEW w \in Seq(Answered \cup Put)
    PROVE  Overlay(vers, w) \in Snapshot
<1> SUFFICES ASSUME NEW k \in Key
             PROVE  Overlay(vers, w)[k] \in Value
  BY DEF Overlay, Snapshot
<1>1. CASE WritesTo(k, w) = {}
  <2>1. Stored(k, vers[k]) \in Value
    BY StoredValue
  <2> QED BY <1>1, <2>1 DEF Overlay
<1>2. CASE WritesTo(k, w) # {}
  <2> DEFINE last == CHOOSE i \in WritesTo(k, w) : \A j \in WritesTo(k, w) : j <= i
  <2>1. WritesTo(k, w) \in SUBSET (1..Len(w)) /\ Len(w) \in Nat
    BY LenProperties DEF WritesTo
  <2>2. last \in WritesTo(k, w)
    BY <1>2, <2>1, LastIndex
  <2>3. w[last] \in Answered \cup Put
    BY <2>1, <2>2, ElementOfSeq
  <2>4. w[last].val \in Value
    BY <2>3 DEF Answered, Put
  <2> QED BY <1>2, <2>4 DEF Overlay
<1> QED
  BY <1>1, <1>2

\* Answered and unanswered writes, in one sequence.
LEMMA PendingType ==
    ASSUME NEW s \in Seq(Answered), NEW t \in Seq(Put)
    PROVE  s \o t \in Seq(Answered \cup Put)
<1>1. s \in Seq(Answered \cup Put) /\ t \in Seq(Answered \cup Put)
  BY SeqMonotonic
<1> QED
  BY <1>1, ConcatProperties

\* What a change of the view raises.
LEMMA ChangedType ==
    ASSUME NEW d, NEW view \in Snapshot
    PROVE  Changed(d, view) \in Seq(ValueEv \cup DoneEv)
BY DEF Changed, ValueEv

\* A data message leaves a version for every record.
LEMMA ReceivedType ==
    ASSUME TypeOK, NEW d \in Device, NEW m \in All \cup Update
    PROVE  Received(d, m) \in [Key -> Nat]
BY DEF TypeOK, Received, All, Update

\* Removing an answered write leaves writes.
LEMMA OutstandingType ==
    ASSUME TypeOK, NEW d \in Device, NEW i \in DOMAIN puts[d]
    PROVE  Outstanding(d, i) \in Seq(Put)
<1>1. puts[d] \in Seq(Put) /\ i \in 1..Len(puts[d]) /\ Len(puts[d]) \in Nat
  BY LenProperties DEF TypeOK
<1>2. SubSeq(puts[d], 1, i - 1) \in Seq(Put)
  <2>1. \A j \in 1..(i - 1) : puts[d][j] \in Put
    BY <1>1, ElementOfSeq
  <2> QED BY <1>1, <2>1, SubSeqProperties
<1>3. SubSeq(puts[d], i + 1, Len(puts[d])) \in Seq(Put)
  <2>1. \A j \in (i + 1)..Len(puts[d]) : puts[d][j] \in Put
    BY <1>1, ElementOfSeq
  <2> QED BY <1>1, <2>1, SubSeqProperties
<1> QED
  BY <1>2, <1>3, ConcatProperties DEF Outstanding

-----------------------------------------------------------------------------
\* TypeOK holds at first and is kept by every action.
LEMMA TypeInit == StoreAssumption /\ Init => TypeOK
BY DEF StoreAssumption, Init, TypeOK

LEMMA SetValueType ==
    ASSUME StoreAssumption, TypeOK, NEW d \in Device, NEW k \in Key, NEW v \in Value, SetValue(d, k, v)
    PROVE  TypeOK'
<1> DEFINE put == [op |-> "put", id |-> issued[d] + 1, key |-> k, val |-> v]
<1>1. issued' \in [Device -> 0..MaxWrites]
  BY DEF StoreAssumption, TypeOK, SetValue
<1>2. put \in Put
  BY DEF StoreAssumption, TypeOK, SetValue, Put, WriteId
<1>3. calls' \in [Device -> Seq({Observe} \cup Put)]
  <2>1. calls' = [calls EXCEPT ![d] = Append(@, put)]
    BY DEF SetValue
  <2> HIDE DEF put
  <2>2. Append(calls[d], put) \in Seq({Observe} \cup Put)
    BY <1>2 DEF TypeOK
  <2> QED
    BY <2>1, <2>2 DEF TypeOK
<1> QED
  BY <1>1, <1>3 DEF TypeOK, SetValue, net, client

LEMMA RetrieveAllType ==
    ASSUME TypeOK, NEW d \in Device, RetrieveAll(d)
    PROVE  TypeOK'
<1>1. Append(calls[d], Observe) \in Seq({Observe} \cup Put)
  BY DEF TypeOK
<1>2. calls' \in [Device -> Seq({Observe} \cup Put)]
  BY <1>1 DEF TypeOK, RetrieveAll
<1> QED
  BY <1>2 DEF TypeOK, RetrieveAll, net, client, counts

LEMMA HandleValueType ==
    ASSUME TypeOK, NEW d \in Device, HandleValue(d)
    PROVE  TypeOK'
<1>1. Head(events[d]) \in ValueEv \cup DoneEv /\ Tail(events[d]) \in Seq(ValueEv \cup DoneEv)
  BY HeadTailProperties DEF TypeOK, HandleValue
<1>2. Head(events[d]).snap \in Snapshot
  BY <1>1 DEF HandleValue, ValueEv, DoneEv
<1>3. shown' \in [Device -> Snapshot \cup {NotLoaded}]
  BY <1>2 DEF TypeOK, HandleValue
<1>4. events' \in [Device -> Seq(ValueEv \cup DoneEv)]
  BY <1>1 DEF TypeOK, HandleValue
<1> QED
  BY <1>3, <1>4 DEF TypeOK, HandleValue, net, client, counts

LEMMA HandleDoneType ==
    ASSUME TypeOK, NEW d \in Device, HandleDone(d)
    PROVE  TypeOK'
<1>1. Tail(events[d]) \in Seq(ValueEv \cup DoneEv)
  BY HeadTailProperties DEF TypeOK, HandleDone
<1>2. events' \in [Device -> Seq(ValueEv \cup DoneEv)]
  BY <1>1 DEF TypeOK, HandleDone
<1>3. calls' \in [Device -> Seq({Observe} \cup Put)]
  <2>1. Append(calls[d], Observe) \in Seq({Observe} \cup Put)
    BY DEF TypeOK
  <2> QED
    BY <2>1 DEF TypeOK, HandleDone
<1> QED
  BY <1>2, <1>3 DEF TypeOK, HandleDone, net, client, counts

LEMMA RunPutType ==
    ASSUME StoreAssumption, TypeOK, VersionsOrdered, NEW d \in Device, RunPut(d)
    PROVE  TypeOK'
<1> DEFINE p == Head(calls[d])
           view == Overlay(cache[d], toAck[d] \o Append(puts[d], p))
<1>1. p \in Put /\ Tail(calls[d]) \in Seq({Observe} \cup Put)
  BY HeadTailProperties DEF RunPut, TypeOK
<1>2. Append(puts[d], p) \in Seq(Put)
  BY <1>1 DEF TypeOK
<1>3. view \in Snapshot
  <2>1. toAck[d] \o Append(puts[d], p) \in Seq(Answered \cup Put)
    BY <1>2, PendingType DEF TypeOK
  <2> QED
    BY <2>1, OverlaySnapshot DEF TypeOK, VersionsOrdered, InOrder
<1>4. events' \in [Device -> Seq(ValueEv \cup DoneEv)]
  <2>1. events[d] \o Changed(d, view) \in Seq(ValueEv \cup DoneEv)
    BY <1>3, ChangedType, ConcatProperties DEF TypeOK
  <2> QED
    BY <2>1 DEF TypeOK, RunPut
<1>5. up' \in [Device -> Seq({Listen} \cup Put)]
  <2>1. Append(up[d], p) \in Seq({Listen} \cup Put)
    BY <1>1 DEF TypeOK
  <2> QED
    BY <2>1 DEF TypeOK, RunPut
<1>6. puts' \in [Device -> Seq(Put)] /\ calls' \in [Device -> Seq({Observe} \cup Put)]
  BY <1>1, <1>2 DEF TypeOK, RunPut
<1> QED
  BY <1>4, <1>5, <1>6 DEF TypeOK, RunPut, counts

\* The view of a device is a snapshot.
LEMMA ViewType ==
    ASSUME StoreAssumption, TypeOK, VersionsOrdered, NEW d \in Device
    PROVE  View(d) \in Snapshot
<1>1. toAck[d] \o puts[d] \in Seq(Answered \cup Put)
  BY PendingType DEF TypeOK
<1> QED
  BY <1>1, OverlaySnapshot DEF TypeOK, VersionsOrdered, InOrder, View

LEMMA RunObserveType ==
    ASSUME StoreAssumption, TypeOK, VersionsOrdered, NEW d \in Device, RunObserve(d)
    PROVE  TypeOK'
<1>1. calls' \in [Device -> Seq({Observe} \cup Put)]
  <2>1. Tail(calls[d]) \in Seq({Observe} \cup Put)
    BY HeadTailProperties DEF TypeOK, RunObserve
  <2> QED
    BY <2>1 DEF TypeOK, RunObserve
<1>2. up' \in [Device -> Seq({Listen} \cup Put)]
  <2>1. Append(up[d], Listen) \in Seq({Listen} \cup Put)
    BY DEF TypeOK
  <2> QED
    BY <2>1 DEF TypeOK, RunObserve
<1>3. events' \in [Device -> Seq(ValueEv \cup DoneEv)]
  <2> DEFINE e == [kind |-> "value", snap |-> View(d)]
  <2>1. e \in ValueEv
    BY ViewType DEF ValueEv
  <2>2. Append(events[d], e) \in Seq(ValueEv \cup DoneEv)
    <3> HIDE DEF e
    <3> QED BY <2>1 DEF TypeOK
  <2> HIDE DEF e
  <2>3. events' = [events EXCEPT ![d] = IF synced[d] THEN Append(@, e) ELSE @]
    BY DEF RunObserve, e
  <2> QED
    BY <2>2, <2>3 DEF TypeOK
<1>4. observers' \in [Device -> Nat]
  <2>1. observers' = [observers EXCEPT ![d] = observers[d] + 1]
    BY DEF RunObserve
  <2> QED
    BY <2>1 DEF TypeOK
<1>5. listen' \in [Device -> {"none", "waiting", "ok"}]
  <2>1. listen' = [listen EXCEPT ![d] = IF listen[d] = "none" THEN "waiting" ELSE listen[d]]
    BY DEF RunObserve
  <2> QED
    BY <2>1 DEF TypeOK
<1> QED
  BY <1>1, <1>2, <1>3, <1>4, <1>5 DEF TypeOK, RunObserve, counts

LEMMA ConnectType ==
    ASSUME TypeOK, NEW d \in Device, Connect(d)
    PROVE  TypeOK'
<1>1. Restored(d) \in Seq({Listen} \cup Put)
  <2>1. puts[d] \in Seq({Listen} \cup Put)
    BY SeqMonotonic DEF TypeOK
  <2>2. <<>> \in Seq({Listen} \cup Put) /\ <<Listen>> \in Seq({Listen} \cup Put)
    OBVIOUS
  <2> QED
    BY <2>1, <2>2, ConcatProperties DEF Restored
<1>2. up' \in [Device -> Seq({Listen} \cup Put)] /\ conn' \in [Device -> {"up", "down"}]
  BY <1>1 DEF TypeOK, Connect
<1> QED
  BY <1>2 DEF TypeOK, Connect, client, counts

LEMMA DisconnectType ==
    ASSUME TypeOK, NEW d \in Device, Disconnect(d)
    PROVE  TypeOK'
<1>1. /\ subscribed' \in [Device -> BOOLEAN]
      /\ conn' \in [Device -> {"up", "down"}]
  BY DEF TypeOK, Disconnect
<1>2. listen' \in [Device -> {"none", "waiting", "ok"}]
  BY DEF TypeOK, Disconnect
<1>3. up' \in [Device -> Seq({Listen} \cup Put)]
  BY EmptySeq DEF TypeOK, Disconnect
<1>4. down' \in [Device -> Seq({ListenOk, Denied} \cup All \cup Update \cup PutDone)]
  BY EmptySeq DEF TypeOK, Disconnect
<1>5. drops' \in [Device -> Nat]
  BY DEF TypeOK, Disconnect
<1> QED
  BY <1>1, <1>2, <1>3, <1>4, <1>5 DEF TypeOK, Disconnect

LEMMA RestartType ==
    ASSUME TypeOK, NEW d \in Device, Restart(d)
    PROVE  TypeOK'
<1>1. /\ subscribed' \in [Device -> BOOLEAN]
      /\ conn' \in [Device -> {"up", "down"}]
      /\ synced' \in [Device -> BOOLEAN]
  BY DEF TypeOK, Restart
<1>2. listen' \in [Device -> {"none", "waiting", "ok"}]
  BY DEF TypeOK, Restart
<1>3. observers' \in [Device -> Nat] /\ restarts' \in [Device -> Nat]
  BY DEF TypeOK, Restart
<1>4. cache' \in [Device -> [Key -> Nat]]
  BY DEF TypeOK, Restart
<1>5. /\ up' \in [Device -> Seq({Listen} \cup Put)]
      /\ down' \in [Device -> Seq({ListenOk, Denied} \cup All \cup Update \cup PutDone)]
  BY EmptySeq DEF TypeOK, Restart
<1>6. /\ puts' \in [Device -> Seq(Put)]
      /\ toAck' \in [Device -> Seq(Answered)]
      /\ calls' \in [Device -> Seq({Observe} \cup Put)]
      /\ events' \in [Device -> Seq(ValueEv \cup DoneEv)]
  BY EmptySeq DEF TypeOK, Restart
<1>7. shown' \in [Device -> Snapshot \cup {NotLoaded}]
  BY DEF TypeOK, Restart
<1> QED
  BY <1>1, <1>2, <1>3, <1>4, <1>5, <1>6, <1>7 DEF TypeOK, Restart

\* What the connection carries to a device.
Down == {ListenOk, Denied} \cup All \cup Update \cup PutDone

LEMMA ReceiveDataType ==
    ASSUME StoreAssumption, TypeOK, VersionsOrdered, NEW d \in Device, ReceiveData(d)
    PROVE  TypeOK'
<1> DEFINE m == Head(down[d])
           new == Received(d, m)
           view == Overlay(new, toAck[d] \o puts[d])
<1>1. m \in All \cup Update /\ Tail(down[d]) \in Seq(Down)
  BY HeadTailProperties DEF TypeOK, ReceiveData, Down, ListenOk, Denied, PutDone, All, Update
<1>2. new \in [Key -> Nat]
  BY <1>1, ReceivedType
<1>3. \A k \in Key : new[k] <= Len(hist[k])
  <2>1. m = down[d][1] /\ 1 \in DOMAIN down[d]
    BY DEF TypeOK, ReceiveData
  <2> SUFFICES ASSUME NEW k \in Key
               PROVE  new[k] <= Len(hist[k])
    OBVIOUS
  <2>2. Carries(m, k) => VersionIn(m, k) <= Len(hist[k])
    BY <2>1 DEF VersionsOrdered, InOrder
  <2>3. cache[d][k] <= Len(hist[k])
    BY DEF VersionsOrdered, InOrder
  <2> QED
    BY <1>1, <2>2, <2>3 DEF TypeOK, Received, Carries, VersionIn, All, Update
<1>4. view \in Snapshot
  <2>1. toAck[d] \o puts[d] \in Seq(Answered \cup Put)
    BY PendingType DEF TypeOK
  <2> HIDE DEF new
  <2> QED
    BY <1>2, <1>3, <2>1, OverlaySnapshot
<1>5. events' \in [Device -> Seq(ValueEv \cup DoneEv)]
  <2> DEFINE raised == IF synced[d] THEN Changed(d, view)
                       ELSE <<[kind |-> "value", snap |-> view]>>
  <2>1. raised \in Seq(ValueEv \cup DoneEv)
    <3> HIDE DEF view
    <3>1. Changed(d, view) \in Seq(ValueEv \cup DoneEv)
      BY <1>4, ChangedType
    <3> DEFINE e == [kind |-> "value", snap |-> view]
    <3>2. e \in ValueEv
      BY <1>4 DEF ValueEv
    <3>3. <<e>> \in Seq(ValueEv \cup DoneEv)
      <4> HIDE DEF e
      <4> QED BY <3>2
    <3>4. raised = IF synced[d] THEN Changed(d, view) ELSE <<e>>
      OBVIOUS
    <3> HIDE DEF raised, e
    <3> QED BY <3>1, <3>3, <3>4
  <2>2. events' = [events EXCEPT ![d] = @ \o raised]
    BY DEF ReceiveData
  <2> HIDE DEF raised
  <2>3. events[d] \o raised \in Seq(ValueEv \cup DoneEv)
    BY <2>1, ConcatProperties DEF TypeOK
  <2> QED
    BY <2>2, <2>3 DEF TypeOK
<1>6. /\ cache' \in [Device -> [Key -> Nat]]
      /\ synced' \in [Device -> BOOLEAN]
  BY <1>2 DEF TypeOK, ReceiveData
<1>7. down' \in [Device -> Seq(Down)]
  BY <1>1 DEF TypeOK, ReceiveData, Down
<1> QED
  BY <1>5, <1>6, <1>7 DEF TypeOK, ReceiveData, Down, counts

LEMMA ReceiveListenOkType ==
    ASSUME TypeOK, NEW d \in Device, ReceiveListenOk(d)
    PROVE  TypeOK'
<1>1. Tail(down[d]) \in Seq(Down)
  BY HeadTailProperties DEF TypeOK, ReceiveListenOk, Down
<1>2. /\ down' \in [Device -> Seq(Down)]
      /\ listen' \in [Device -> {"none", "waiting", "ok"}]
  BY <1>1 DEF TypeOK, ReceiveListenOk, Down
<1> QED
  BY <1>2 DEF TypeOK, ReceiveListenOk, Down, counts

LEMMA ReceiveDenialType ==
    ASSUME TypeOK, NEW d \in Device, ReceiveDenial(d)
    PROVE  TypeOK'
<1>1. Tail(down[d]) \in Seq(Down)
  BY HeadTailProperties DEF TypeOK, ReceiveDenial, Down
<1>2. /\ down' \in [Device -> Seq(Down)]
      /\ listen' \in [Device -> {"none", "waiting", "ok"}]
      /\ synced' \in [Device -> BOOLEAN]
  BY <1>1 DEF TypeOK, ReceiveDenial, Down
<1>3. observers' \in [Device -> Nat] /\ cache' \in [Device -> [Key -> Nat]]
  BY DEF TypeOK, ReceiveDenial
<1> QED
  BY <1>2, <1>3 DEF TypeOK, ReceiveDenial, Down, counts

LEMMA ReceivePutDoneType ==
    ASSUME TypeOK, NEW d \in Device, ReceivePutDone(d)
    PROVE  TypeOK'
<1>1. Head(down[d]) \in PutDone /\ Tail(down[d]) \in Seq(Down)
  <2>1. Head(down[d]) \in Down /\ Tail(down[d]) \in Seq(Down)
    BY HeadTailProperties DEF TypeOK, ReceivePutDone, Down
  <2> QED
    BY <2>1 DEF ReceivePutDone, Down, ListenOk, Denied, All, Update
<1>2. PICK i \in DOMAIN puts[d] :
        /\ puts' = [puts EXCEPT ![d] = Outstanding(d, i)]
        /\ toAck' = [toAck EXCEPT ![d] =
              Append(@, ToAck(puts[d][i], Head(down[d]).ok))]
  BY DEF ReceivePutDone
<1>3. puts' \in [Device -> Seq(Put)]
  BY <1>2, OutstandingType DEF TypeOK
<1>4. toAck' \in [Device -> Seq(Answered)]
  <2>1. puts[d][i] \in Put
    BY <1>2, ElementOfSeq, LenProperties DEF TypeOK
  <2>2. ToAck(puts[d][i], Head(down[d]).ok) \in Answered
    BY <1>1, <2>1 DEF ToAck, PutDone, Put, Answered
  <2>3. Append(toAck[d], ToAck(puts[d][i], Head(down[d]).ok)) \in Seq(Answered)
    BY <2>2, AppendProperties DEF TypeOK
  <2> QED
    BY <1>2, <2>3 DEF TypeOK
<1>5. down' \in [Device -> Seq(Down)]
  BY <1>1 DEF TypeOK, ReceivePutDone, Down
<1> QED
  BY <1>3, <1>4, <1>5 DEF TypeOK, ReceivePutDone, Down, counts

LEMMA AckPutType ==
    ASSUME StoreAssumption, TypeOK, VersionsOrdered, NEW d \in Device, AckPut(d)
    PROVE  TypeOK'
<1> DEFINE p == Head(toAck[d])
           view == Overlay(cache[d], Tail(toAck[d]) \o puts[d])
           done == [kind |-> "done", id |-> p.id, key |-> p.key, ok |-> p.ok]
<1>1. p \in Answered /\ Tail(toAck[d]) \in Seq(Answered)
  BY HeadTailProperties DEF TypeOK, AckPut
<1>2. view \in Snapshot
  <2>1. Tail(toAck[d]) \o puts[d] \in Seq(Answered \cup Put)
    BY <1>1, PendingType DEF TypeOK
  <2> QED
    BY <2>1, OverlaySnapshot DEF TypeOK, VersionsOrdered, InOrder
<1>3. done \in DoneEv
  BY <1>1 DEF Answered, DoneEv
<1>4. events' \in [Device -> Seq(ValueEv \cup DoneEv)]
  <2>1. events' = [events EXCEPT ![d] = (@ \o Changed(d, view)) \o <<done>>]
    BY DEF AckPut
  <2> HIDE DEF view, done
  <2>2. events[d] \o Changed(d, view) \in Seq(ValueEv \cup DoneEv)
    BY <1>2, ChangedType, ConcatProperties DEF TypeOK
  <2>3. <<done>> \in Seq(ValueEv \cup DoneEv)
    BY <1>3
  <2>4. (events[d] \o Changed(d, view)) \o <<done>> \in Seq(ValueEv \cup DoneEv)
    BY <2>2, <2>3, ConcatProperties
  <2> QED
    BY <2>1, <2>4 DEF TypeOK
<1>5. toAck' \in [Device -> Seq(Answered)]
  BY <1>1 DEF TypeOK, AckPut
<1> QED
  BY <1>4, <1>5 DEF TypeOK, AckPut, net, counts

LEMMA ServerListenType ==
    ASSUME TypeOK, NEW d \in Device, ServerListen(d)
    PROVE  TypeOK'
<1> DEFINE all == [op |-> "all", vers |-> [k \in Key |-> Len(hist[k])]]
<1>1. up' \in [Device -> Seq({Listen} \cup Put)]
  <2>1. Tail(up[d]) \in Seq({Listen} \cup Put)
    BY HeadTailProperties DEF TypeOK, ServerListen
  <2> QED
    BY <2>1 DEF TypeOK, ServerListen
<1>2. subscribed' \in [Device -> BOOLEAN]
  BY DEF TypeOK, ServerListen
<1>3. down' \in [Device -> Seq(Down)]
  <2>1. all \in All
    BY LenProperties DEF TypeOK, All
  <2>2. down' = [down EXCEPT ![d] = @ \o <<all, ListenOk>>]
    BY DEF ServerListen
  <2> HIDE DEF all
  <2>3. <<all, ListenOk>> \in Seq(Down)
    BY <2>1 DEF Down
  <2>4. down \in [Device -> Seq(Down)]
    BY DEF TypeOK, Down
  <2>5. down[d] \o <<all, ListenOk>> \in Seq(Down)
    BY <2>3, <2>4, ConcatProperties
  <2> QED
    BY <2>2, <2>4, <2>5
<1> QED
  BY <1>1, <1>2, <1>3 DEF TypeOK, ServerListen, Down, client, counts

LEMMA ServerAcceptType ==
    ASSUME TypeOK, NEW d \in Device, ServerAccept(d)
    PROVE  TypeOK'
<1> DEFINE p    == Head(up[d])
           data == [op |-> "update", key |-> p.key, ver |-> Len(hist[p.key]) + 1]
           done == [op |-> "putDone", id |-> p.id, ok |-> TRUE]
           w    == [by |-> d, id |-> p.id, val |-> p.val]
<1>1. p \in Put /\ Tail(up[d]) \in Seq({Listen} \cup Put)
  BY HeadTailProperties DEF TypeOK, ServerAccept
<1>2. up' \in [Device -> Seq({Listen} \cup Put)]
  BY <1>1 DEF TypeOK, ServerAccept
<1>3. hist' \in [Key -> Seq(Write)]
  <2>1. w \in Write
    BY <1>1 DEF Put, Write
  <2>2. hist' = [hist EXCEPT ![p.key] = Append(@, w)]
    BY DEF ServerAccept
  <2> HIDE DEF w
  <2>3. p.key \in Key
    BY <1>1 DEF Put
  <2>4. Append(hist[p.key], w) \in Seq(Write)
    BY <2>1, <2>3, AppendProperties DEF TypeOK
  <2> QED
    BY <2>2, <2>4 DEF TypeOK
<1>4. down' \in [Device -> Seq(Down)]
  <2>1. data \in Update
    <3>1. p.key \in Key
      BY <1>1 DEF Put
    <3>2. Len(hist[p.key]) \in Nat
      BY <3>1, LenProperties DEF TypeOK
    <3> QED
      BY <3>1, <3>2 DEF Update
  <2>2. done \in PutDone
    BY <1>1 DEF Put, PutDone
  <2>3. down' = [e \in Device |->
                (IF subscribed[e] THEN Append(down[e], data) ELSE down[e])
                   \o (IF e = d THEN <<done>> ELSE <<>>)]
    BY DEF ServerAccept
  <2> HIDE DEF data, done
  <2> SUFFICES ASSUME NEW e \in Device
               PROVE  down'[e] \in Seq(Down)
    BY <2>3
  <2>4. down[e] \in Seq(Down) /\ data \in Down /\ done \in Down
    BY <2>1, <2>2 DEF TypeOK, Down
  <2>5. Append(down[e], data) \in Seq(Down)
    BY <2>4, AppendProperties
  <2>6. <<done>> \in Seq(Down) /\ <<>> \in Seq(Down)
    BY <2>4
  <2> QED
    BY <2>3, <2>4, <2>5, <2>6, ConcatProperties
<1> QED
  BY <1>2, <1>3, <1>4 DEF TypeOK, ServerAccept, Down, client, counts

LEMMA ServerRejectType ==
    ASSUME TypeOK, NEW d \in Device, ServerReject(d)
    PROVE  TypeOK'
<1> DEFINE no == [op |-> "putDone", id |-> Head(up[d]).id, ok |-> FALSE]
<1>1. Head(up[d]) \in Put /\ Tail(up[d]) \in Seq({Listen} \cup Put)
  BY HeadTailProperties DEF TypeOK, ServerReject
<1>2. up' \in [Device -> Seq({Listen} \cup Put)]
  BY <1>1 DEF TypeOK, ServerReject
<1>3. refusals' \in [Device -> Nat]
  BY DEF TypeOK, ServerReject
<1>4. down' \in [Device -> Seq(Down)]
  <2>1. no \in PutDone
    BY <1>1 DEF Put, PutDone
  <2>2. down' = [down EXCEPT ![d] = Append(@, no)]
    BY DEF ServerReject
  <2> HIDE DEF no
  <2>3. down \in [Device -> Seq(Down)] /\ no \in Down
    BY <2>1 DEF TypeOK, Down
  <2>4. Append(down[d], no) \in Seq(Down)
    BY <2>3, AppendProperties
  <2> QED
    BY <2>2, <2>3, <2>4
<1> QED
  BY <1>2, <1>3, <1>4 DEF TypeOK, ServerReject, Down, client

LEMMA ServerDenyType ==
    ASSUME TypeOK, NEW d \in Device, ServerDeny(d)
    PROVE  TypeOK'
<1>1. up' \in [Device -> Seq({Listen} \cup Put)]
  <2>1. up[d] # <<>> => Tail(up[d]) \in Seq({Listen} \cup Put)
    BY HeadTailProperties DEF TypeOK
  <2> QED
    BY <2>1 DEF TypeOK, ServerDeny
<1>2. subscribed' \in [Device -> BOOLEAN] /\ denials' \in [Device -> Nat]
  BY DEF TypeOK, ServerDeny
<1>3. down' \in [Device -> Seq(Down)]
  <2>1. down \in [Device -> Seq(Down)] /\ Denied \in Down
    BY DEF TypeOK, Down
  <2>2. Append(down[d], Denied) \in Seq(Down)
    BY <2>1, AppendProperties
  <2> QED
    BY <2>1, <2>2 DEF ServerDeny
<1> QED
  BY <1>1, <1>2, <1>3 DEF TypeOK, ServerDeny, Down, client

-----------------------------------------------------------------------------
\* What the connection carries stays in order.  A message that carries a
\* record has a version of it.
LEMMA VersionType ==
    ASSUME NEW k \in Key, NEW m \in Down, Carries(m, k)
    PROVE  VersionIn(m, k) \in Nat
BY DEF Down, ListenOk, Denied, All, Update, PutDone, Carries, VersionIn

\* Order survives taking the first message,
LEMMA InOrderTail ==
    ASSUME NEW k \in Key, NEW s \in Seq(Down), s # <<>>, NEW old, NEW new,
           InOrder(k, old, s, new)
    PROVE  InOrder(k, old, Tail(s), new)
<1>1. /\ DOMAIN s = 1..Len(s) /\ Len(s) \in Nat
      /\ DOMAIN Tail(s) = 1..(Len(s) - 1)
      /\ \A i \in DOMAIN Tail(s) : i + 1 \in DOMAIN s /\ Tail(s)[i] = s[i + 1]
  BY HeadTailProperties, LenProperties
<1>2. ASSUME NEW i \in DOMAIN Tail(s), NEW j \in DOMAIN Tail(s), i < j
      PROVE  i + 1 < j + 1
  BY <1>1, <1>2
<1> QED
  BY <1>1, <1>2 DEF InOrder

\* taking it into the cache,
LEMMA InOrderReceive ==
    ASSUME NEW k \in Key, NEW s \in Seq(Down), s # <<>>, NEW old, NEW new,
           InOrder(k, old, s, new), Carries(Head(s), k)
    PROVE  InOrder(k, VersionIn(Head(s), k), Tail(s), new)
<1>1. /\ DOMAIN s = 1..Len(s) /\ Len(s) \in Nat /\ 1 \in DOMAIN s /\ Head(s) = s[1]
      /\ DOMAIN Tail(s) = 1..(Len(s) - 1)
      /\ \A i \in DOMAIN Tail(s) : i + 1 \in DOMAIN s /\ Tail(s)[i] = s[i + 1]
  BY HeadTailProperties, LenProperties
<1>2. ASSUME NEW i \in DOMAIN Tail(s), NEW j \in DOMAIN Tail(s), i < j
      PROVE  i + 1 < j + 1
  BY <1>1, <1>2
<1>3. \A i \in DOMAIN Tail(s) : 1 < i + 1
  BY <1>1
<1> QED
  BY <1>1, <1>2, <1>3 DEF InOrder

\* a longer history,
LEMMA InOrderGrow ==
    ASSUME NEW k \in Key, NEW s \in Seq(Down),
           NEW old \in Nat, NEW new \in Nat, NEW newer \in Nat, new <= newer,
           InOrder(k, old, s, new)
    PROVE  InOrder(k, old, s, newer)
<1>1. ASSUME NEW i \in DOMAIN s, Carries(s[i], k)
      PROVE  VersionIn(s[i], k) <= newer
  <2>1. VersionIn(s[i], k) \in Nat /\ VersionIn(s[i], k) <= new
    BY <1>1, VersionType, ElementOfSeq, LenProperties DEF InOrder
  <2> QED
    BY <2>1
<1>2. old <= newer
  BY DEF InOrder
<1> QED
  BY <1>1, <1>2 DEF InOrder

\* and a new last message that carries nothing or the newest version.
LEMMA InOrderAppend ==
    ASSUME NEW k \in Key, NEW s \in Seq(Down), NEW m \in Down,
           NEW old \in Nat, NEW new \in Nat, NEW newer \in Nat, new <= newer,
           InOrder(k, old, s, new),
           Carries(m, k) => VersionIn(m, k) = newer
    PROVE  InOrder(k, old, Append(s, m), newer)
<1> DEFINE t == Append(s, m)
<1>1. /\ DOMAIN s = 1..Len(s) /\ Len(s) \in Nat
      /\ DOMAIN t = 1..(Len(s) + 1)
      /\ \A i \in DOMAIN s : t[i] = s[i] /\ s[i] \in Down
      /\ t[Len(s) + 1] = m
  BY AppendProperties, LenProperties, ElementOfSeq
<1> HIDE DEF t
<1>2. ASSUME NEW i \in DOMAIN t, Carries(t[i], k)
      PROVE  VersionIn(t[i], k) \in Nat /\ old <= VersionIn(t[i], k) /\ VersionIn(t[i], k) <= newer
  <2>1. CASE i \in DOMAIN s
    BY <1>1, <1>2, <2>1, VersionType DEF InOrder
  <2>2. CASE i = Len(s) + 1
    BY <1>1, <1>2, <2>2 DEF InOrder
  <2> QED
    BY <1>1, <2>1, <2>2
<1>3. ASSUME NEW i \in DOMAIN t, NEW j \in DOMAIN t, i < j, Carries(t[i], k), Carries(t[j], k)
      PROVE  VersionIn(t[i], k) <= VersionIn(t[j], k)
  <2>1. i \in DOMAIN s
    BY <1>1, <1>3
  <2>2. CASE j \in DOMAIN s
    BY <1>1, <1>3, <2>1, <2>2 DEF InOrder
  <2>3. CASE j = Len(s) + 1
    BY <1>1, <1>2, <1>3, <2>1, <2>3
  <2> QED
    BY <1>1, <2>2, <2>3
<1>4. old <= newer
  BY DEF InOrder
<1> QED
  BY <1>2, <1>3, <1>4 DEF InOrder, t

\* The values the order is about.
LEMMA DownType ==
    ASSUME TypeOK, NEW d \in Device, NEW k \in Key
    PROVE  down[d] \in Seq(Down) /\ cache[d][k] \in Nat /\ Len(hist[k]) \in Nat
BY LenProperties DEF TypeOK, Down

\* A message without data is taken.
LEMMA ServeTailVersions ==
    ASSUME TypeOK, VersionsOrdered, NEW d \in Device, down[d] # <<>>,
           down' = [down EXCEPT ![d] = Tail(@)], UNCHANGED <<hist, cache>>
    PROVE  VersionsOrdered'
<1> SUFFICES ASSUME NEW e \in Device, NEW k \in Key
             PROVE  InOrder(k, cache[e][k], down'[e], Len(hist[k]))
  BY DEF VersionsOrdered
<1>1. InOrder(k, cache[e][k], down[e], Len(hist[k]))
  BY DEF VersionsOrdered
<1>2. InOrder(k, cache[d][k], Tail(down[d]), Len(hist[k]))
  BY DownType, InOrderTail DEF VersionsOrdered
<1> QED
  BY <1>1, <1>2 DEF TypeOK

\* A data message never takes a cache back, nor beyond the history.
LEMMA ReceiveDataVersions ==
    ASSUME TypeOK, VersionsOrdered, NEW d \in Device, ReceiveData(d)
    PROVE  /\ VersionsOrdered'
           /\ \A k \in Key : cache[d][k] <= cache'[d][k] /\ cache'[d][k] <= Len(hist[k])
<1> DEFINE m == Head(down[d])
<1>1. m \in All \cup Update /\ m = down[d][1] /\ 1 \in DOMAIN down[d]
  <2>1. m \in Down /\ m = down[d][1] /\ 1 \in DOMAIN down[d]
    BY HeadTailProperties, LenProperties DEF TypeOK, ReceiveData, Down
  <2> QED
    BY <2>1 DEF ReceiveData, Down, ListenOk, Denied, PutDone
<1>2. cache' = [cache EXCEPT ![d] = Received(d, m)] /\ down' = [down EXCEPT ![d] = Tail(@)]
      /\ down[d] # <<>> /\ hist' = hist
  BY DEF ReceiveData
<1>3. cache'[d] = Received(d, m)
  BY <1>2 DEF TypeOK
<1>4. ASSUME NEW k \in Key
      PROVE  cache'[d][k] = IF Carries(m, k) THEN VersionIn(m, k) ELSE cache[d][k]
  <2>1. cache[d] \in [Key -> Nat]
    BY DEF TypeOK
  <2> HIDE DEF m
  <2> QED
    BY <1>1, <1>3, <2>1 DEF Received, Carries, VersionIn, All, Update
<1>5. ASSUME NEW k \in Key
      PROVE  InOrder(k, cache'[d][k], Tail(down[d]), Len(hist[k]))
  <2>1. InOrder(k, cache[d][k], down[d], Len(hist[k])) /\ down[d] \in Seq(Down)
    BY DownType DEF VersionsOrdered
  <2>2. CASE Carries(m, k)
    BY <1>2, <1>4, <2>1, <2>2, InOrderReceive
  <2>3. CASE ~ Carries(m, k)
    BY <1>2, <1>4, <2>1, <2>3, InOrderTail
  <2> QED
    BY <2>2, <2>3
<1>6. VersionsOrdered'
  <2> SUFFICES ASSUME NEW e \in Device, NEW k \in Key
               PROVE  InOrder(k, cache'[e][k], down'[e], Len(hist[k]))
    BY <1>2 DEF VersionsOrdered
  <2>1. CASE e = d
    BY <1>2, <1>5, <2>1 DEF TypeOK
  <2>2. CASE e # d
    BY <1>2, <2>2 DEF TypeOK, VersionsOrdered
  <2> QED
    BY <2>1, <2>2
<1>7. ASSUME NEW k \in Key
      PROVE  cache[d][k] <= cache'[d][k] /\ cache'[d][k] <= Len(hist[k])
  <2>1. InOrder(k, cache[d][k], down[d], Len(hist[k]))
    BY DEF VersionsOrdered
  <2>2. cache[d][k] <= Len(hist[k]) /\ cache[d][k] \in Nat
    BY <2>1 DEF TypeOK, InOrder
  <2>3. Carries(m, k) => cache[d][k] <= VersionIn(m, k) /\ VersionIn(m, k) <= Len(hist[k])
    BY <1>1, <2>1 DEF InOrder
  <2> QED
    BY <1>4, <2>2, <2>3
<1> QED
  BY <1>6, <1>7

\* A lost connection or process takes its messages with it.
LEMMA DropVersions ==
    ASSUME TypeOK, VersionsOrdered, NEW d \in Device, Disconnect(d) \/ Restart(d)
    PROVE  VersionsOrdered'
<1> SUFFICES ASSUME NEW e \in Device, NEW k \in Key
             PROVE  InOrder(k, cache'[e][k], down'[e], Len(hist[k]))
  BY DEF VersionsOrdered, Disconnect, Restart
<1>1. CASE e = d
  <2>1. down'[e] = <<>>
    BY <1>1 DEF TypeOK, Disconnect, Restart
  <2>2. cache'[e][k] = cache[e][k] \/ cache'[e][k] = 0
    BY <1>1 DEF TypeOK, Disconnect, Restart
  <2>3. cache'[e][k] <= Len(hist[k])
    BY <2>2, DownType DEF VersionsOrdered, InOrder
  <2> QED
    BY <2>1, <2>3 DEF InOrder
<1>2. CASE e # d
  <2>1. down'[e] = down[e] /\ cache'[e] = cache[e]
    BY <1>2 DEF TypeOK, Disconnect, Restart
  <2> QED
    BY <2>1 DEF VersionsOrdered
<1> QED
  BY <1>1, <1>2

\* A denial takes the cache, and no data.
LEMMA ReceiveDenialVersions ==
    ASSUME TypeOK, VersionsOrdered, NEW d \in Device, ReceiveDenial(d)
    PROVE  VersionsOrdered'
<1>1. /\ down[d] # <<>> /\ down' = [down EXCEPT ![d] = Tail(@)] /\ hist' = hist
      /\ cache' = [cache EXCEPT ![d] = [k \in Key |-> 0]]
  BY DEF ReceiveDenial
<1> SUFFICES ASSUME NEW e \in Device, NEW k \in Key
             PROVE  InOrder(k, cache'[e][k], down'[e], Len(hist[k]))
  BY <1>1 DEF VersionsOrdered
<1>2. CASE e = d
  <2>1. InOrder(k, cache[d][k], Tail(down[d]), Len(hist[k]))
    BY <1>1, DownType, InOrderTail DEF VersionsOrdered
  <2>2. Tail(down[d]) \in Seq(Down) /\ Len(hist[k]) \in Nat
    BY <1>1, DownType, HeadTailProperties
  <2>3. \A i \in DOMAIN Tail(down[d]) :
          Carries(Tail(down[d])[i], k) => 0 <= VersionIn(Tail(down[d])[i], k)
    <3> SUFFICES ASSUME NEW i \in DOMAIN Tail(down[d]), Carries(Tail(down[d])[i], k)
                 PROVE  VersionIn(Tail(down[d])[i], k) \in Nat
      OBVIOUS
    <3>1. Tail(down[d])[i] \in Down
      BY <2>2, ElementOfSeq, LenProperties
    <3> QED
      BY <3>1, VersionType
  <2>4. InOrder(k, 0, Tail(down[d]), Len(hist[k]))
    BY <2>1, <2>2, <2>3 DEF InOrder
  <2>5. cache'[e][k] = 0 /\ down'[e] = Tail(down[d])
    BY <1>1, <1>2 DEF TypeOK
  <2> QED
    BY <2>4, <2>5
<1>3. CASE e # d
  BY <1>1, <1>3 DEF TypeOK, VersionsOrdered
<1> QED
  BY <1>2, <1>3

\* ... nor does the one that is sent.
LEMMA ServerDenyVersions ==
    ASSUME TypeOK, VersionsOrdered, NEW d \in Device, ServerDeny(d)
    PROVE  VersionsOrdered'
<1>1. /\ down' = [down EXCEPT ![d] = Append(@, Denied)]
      /\ hist' = hist /\ cache' = cache
  BY DEF ServerDeny, client
<1>2. Denied \in Down /\ \A k \in Key : ~ Carries(Denied, k)
  BY DEF Down, Carries, Denied
<1> SUFFICES ASSUME NEW e \in Device, NEW k \in Key
             PROVE  InOrder(k, cache[e][k], down'[e], Len(hist[k]))
  BY <1>1 DEF VersionsOrdered
<1>3. InOrder(k, cache[d][k], Append(down[d], Denied), Len(hist[k]))
  BY <1>2, DownType, InOrderAppend DEF VersionsOrdered
<1> QED
  BY <1>1, <1>3 DEF TypeOK, VersionsOrdered

\* The answer to a listen is the newest version of everything.
LEMMA ServerListenVersions ==
    ASSUME TypeOK, VersionsOrdered, NEW d \in Device, ServerListen(d)
    PROVE  VersionsOrdered'
<1> DEFINE all == [op |-> "all", vers |-> [k \in Key |-> Len(hist[k])]]
<1>1. /\ down' = [down EXCEPT ![d] = @ \o <<all, ListenOk>>]
      /\ hist' = hist /\ cache' = cache
  BY DEF ServerListen, client
<1>2. all \in Down /\ ListenOk \in Down
  BY LenProperties DEF TypeOK, Down, All
<1>3. \A k \in Key : Carries(all, k) /\ VersionIn(all, k) = Len(hist[k]) /\ ~ Carries(ListenOk, k)
  BY DEF Carries, VersionIn, ListenOk
<1> HIDE DEF all
<1>4. down[d] \o <<all, ListenOk>> = Append(Append(down[d], all), ListenOk)
  <2>1. down[d] \in Seq(Down)
    BY DEF TypeOK, Down
  <2> QED
    BY <1>2, <2>1
<1> SUFFICES ASSUME NEW e \in Device, NEW k \in Key
             PROVE  InOrder(k, cache[e][k], down'[e], Len(hist[k]))
  BY <1>1 DEF VersionsOrdered
<1>5. CASE e = d
  <2>1. InOrder(k, cache[d][k], Append(down[d], all), Len(hist[k]))
    BY <1>2, <1>3, DownType, InOrderAppend DEF VersionsOrdered
  <2>2. Append(down[d], all) \in Seq(Down)
    BY <1>2, DownType, AppendProperties
  <2>3. cache[d][k] \in Nat /\ Len(hist[k]) \in Nat /\ Len(hist[k]) <= Len(hist[k])
    BY DownType
  <2>4. InOrder(k, cache[d][k], Append(Append(down[d], all), ListenOk), Len(hist[k]))
    BY ONLY <1>2, <1>3, <2>1, <2>2, <2>3, k \in Key, InOrderAppend
  <2> QED
    BY <1>1, <1>4, <1>5, <2>4 DEF TypeOK
<1>6. CASE e # d
  BY <1>1, <1>6 DEF TypeOK, VersionsOrdered
<1> QED
  BY <1>5, <1>6

\* A refusal carries no version.
LEMMA ServerRejectVersions ==
    ASSUME TypeOK, VersionsOrdered, NEW d \in Device, ServerReject(d)
    PROVE  VersionsOrdered'
<1> DEFINE no == [op |-> "putDone", id |-> Head(up[d]).id, ok |-> FALSE]
<1>1. /\ down' = [down EXCEPT ![d] = Append(@, no)]
      /\ hist' = hist /\ cache' = cache
  BY DEF ServerReject, client
<1>2. no \in Down
  <2>1. Head(up[d]) \in Put
    BY HeadTailProperties DEF TypeOK, ServerReject
  <2> QED
    BY <2>1 DEF Put, Down, PutDone
<1>3. \A k \in Key : ~ Carries(no, k)
  BY DEF Carries
<1> HIDE DEF no
<1> SUFFICES ASSUME NEW e \in Device, NEW k \in Key
             PROVE  InOrder(k, cache[e][k], down'[e], Len(hist[k]))
  BY <1>1 DEF VersionsOrdered
<1>4. InOrder(k, cache[d][k], Append(down[d], no), Len(hist[k]))
  BY <1>2, <1>3, DownType, InOrderAppend DEF VersionsOrdered
<1> QED
  BY <1>1, <1>4 DEF TypeOK, VersionsOrdered

\* An accepted write is the newest version of its record.
LEMMA ServerAcceptVersions ==
    ASSUME TypeOK, VersionsOrdered, NEW d \in Device, ServerAccept(d)
    PROVE  VersionsOrdered'
<1> DEFINE p    == Head(up[d])
           data == [op |-> "update", key |-> p.key, ver |-> Len(hist[p.key]) + 1]
           done == [op |-> "putDone", id |-> p.id, ok |-> TRUE]
           w    == [by |-> d, id |-> p.id, val |-> p.val]
           sent(e) == IF subscribed[e] THEN Append(down[e], data) ELSE down[e]
<1>1. p \in Put /\ p.key \in Key /\ w \in Write
  <2>1. p \in Put
    BY HeadTailProperties DEF TypeOK, ServerAccept
  <2> QED
    BY <2>1 DEF Put, Write
<1>2. /\ down' = [e \in Device |-> sent(e) \o (IF e = d THEN <<done>> ELSE <<>>)]
      /\ hist' = [hist EXCEPT ![p.key] = Append(@, w)]
      /\ cache' = cache
  BY DEF ServerAccept, client
<1>3. data \in Down /\ done \in Down
  <2>1. Len(hist[p.key]) \in Nat
    BY <1>1, LenProperties DEF TypeOK
  <2> QED
    BY <1>1, <2>1 DEF Put, Down, Update, PutDone
<1>4. \A k \in Key : /\ ~ Carries(done, k)
                     /\ Carries(data, k) => k = p.key /\ VersionIn(data, k) = Len(hist[k]) + 1
  BY DEF Carries, VersionIn
<1>5. ASSUME NEW k \in Key
      PROVE  /\ Len(hist'[k]) = IF k = p.key THEN Len(hist[k]) + 1 ELSE Len(hist[k])
             /\ Len(hist[k]) \in Nat /\ Len(hist'[k]) \in Nat /\ Len(hist[k]) <= Len(hist'[k])
  <2> HIDE DEF p, w
  <2>1. hist[k] \in Seq(Write) /\ Len(hist[k]) \in Nat
    BY LenProperties DEF TypeOK
  <2>2. Len(Append(hist[k], w)) = Len(hist[k]) + 1
    BY <1>1, <2>1, AppendProperties
  <2>3. hist'[k] = IF k = p.key THEN Append(hist[k], w) ELSE hist[k]
    BY <1>1, <1>2 DEF TypeOK
  <2> QED
    BY <2>1, <2>2, <2>3
<1> HIDE DEF data, done, w
<1> SUFFICES ASSUME NEW e \in Device, NEW k \in Key
             PROVE  InOrder(k, cache[e][k], down'[e], Len(hist'[k]))
  BY <1>2 DEF VersionsOrdered
<1> HIDE DEF p
<1>6. /\ cache[e][k] \in Nat /\ down[e] \in Seq(Down)
      /\ InOrder(k, cache[e][k], down[e], Len(hist[k]))
  BY DownType DEF VersionsOrdered
<1>7. sent(e) \in Seq(Down) /\ InOrder(k, cache[e][k], sent(e), Len(hist'[k]))
  <2>1. CASE subscribed[e]
    <3>1. Append(down[e], data) \in Seq(Down)
      BY <1>3, <1>6, AppendProperties
    <3>2. Carries(data, k) => VersionIn(data, k) = Len(hist'[k])
      BY <1>4, <1>5
    <3>3. InOrder(k, cache[e][k], Append(down[e], data), Len(hist'[k]))
      BY <1>3, <1>5, <1>6, <3>2, InOrderAppend
    <3> QED
      BY <2>1, <3>1, <3>3
  <2>2. CASE ~ subscribed[e]
    BY <1>5, <1>6, <2>2, InOrderGrow
  <2> QED
    BY <2>1, <2>2
<1>8. CASE e = d
  <2>1. down'[e] = Append(sent(e), done)
    BY <1>2, <1>3, <1>7, <1>8, AppendIsConcat
  <2>2. Len(hist'[k]) \in Nat /\ Len(hist'[k]) <= Len(hist'[k])
    BY <1>5
  <2> HIDE DEF sent
  <2>3. InOrder(k, cache[e][k], Append(sent(e), done), Len(hist'[k]))
    BY <1>3, <1>4, <1>6, <1>7, <2>2, InOrderAppend
  <2> QED
    BY <2>1, <2>3
<1>9. CASE e # d
  <2>1. down'[e] = sent(e)
    BY <1>2, <1>7, <1>9, ConcatEmptySeq
  <2> QED
    BY <1>7, <2>1
<1> QED
  BY <1>8, <1>9

-----------------------------------------------------------------------------
Inductive == TypeOK /\ VersionsOrdered

LEMMA InductiveInit == StoreAssumption /\ Init => Inductive
<1> SUFFICES ASSUME StoreAssumption, Init PROVE VersionsOrdered
  BY TypeInit DEF Inductive
<1> QED
  BY DEF Init, VersionsOrdered, InOrder

\* Steps that touch neither history, caches nor connections.
LEMMA Quiet ==
    ASSUME VersionsOrdered, UNCHANGED <<hist, cache, down>>
    PROVE  VersionsOrdered'
BY DEF VersionsOrdered

\* Every action keeps both.
LEMMA InductiveStep ==
    ASSUME StoreAssumption, Inductive, [Next]_vars
    PROVE  Inductive'
<1> USE DEF Inductive
<1>1. ASSUME NEW d \in Device, NEW k \in Key, NEW v \in Value, SetValue(d, k, v)
      PROVE  Inductive'
  BY <1>1, SetValueType, Quiet DEF SetValue, net, client
<1>2. ASSUME NEW d \in Device, RetrieveAll(d)
      PROVE  Inductive'
  BY <1>2, RetrieveAllType, Quiet DEF RetrieveAll, net, client
<1>3. ASSUME NEW d \in Device, HandleValue(d)
      PROVE  Inductive'
  BY <1>3, HandleValueType, Quiet DEF HandleValue, net, client
<1>4. ASSUME NEW d \in Device, HandleDone(d)
      PROVE  Inductive'
  BY <1>4, HandleDoneType, Quiet DEF HandleDone, net, client
<1>5. ASSUME NEW d \in Device, RunPut(d)
      PROVE  Inductive'
  BY <1>5, RunPutType, Quiet DEF RunPut
<1>6. ASSUME NEW d \in Device, RunObserve(d)
      PROVE  Inductive'
  BY <1>6, RunObserveType, Quiet DEF RunObserve
<1>7. ASSUME NEW d \in Device, Connect(d)
      PROVE  Inductive'
  BY <1>7, ConnectType, Quiet DEF Connect, client
<1>8. ASSUME NEW d \in Device, ReceiveData(d)
      PROVE  Inductive'
  BY <1>8, ReceiveDataType, ReceiveDataVersions
<1>9. ASSUME NEW d \in Device, ReceiveListenOk(d)
      PROVE  Inductive'
  BY <1>9, ReceiveListenOkType, ServeTailVersions DEF ReceiveListenOk
<1>10. ASSUME NEW d \in Device, ReceivePutDone(d)
       PROVE  Inductive'
  BY <1>10, ReceivePutDoneType, ServeTailVersions DEF ReceivePutDone
<1>11. ASSUME NEW d \in Device, AckPut(d)
       PROVE  Inductive'
  BY <1>11, AckPutType, Quiet DEF AckPut, net
<1>12. ASSUME NEW d \in Device, ServerListen(d)
       PROVE  Inductive'
  BY <1>12, ServerListenType, ServerListenVersions
<1>13. ASSUME NEW d \in Device, ServerAccept(d)
       PROVE  Inductive'
  BY <1>13, ServerAcceptType, ServerAcceptVersions
<1>14. ASSUME NEW d \in Device, ServerReject(d)
       PROVE  Inductive'
  BY <1>14, ServerRejectType, ServerRejectVersions
<1>15. ASSUME NEW d \in Device, Disconnect(d)
       PROVE  Inductive'
  BY <1>15, DisconnectType, DropVersions
<1>16. ASSUME NEW d \in Device, Restart(d)
       PROVE  Inductive'
  BY <1>16, RestartType, DropVersions
<1>17. ASSUME NEW d \in Device, ReceiveDenial(d)
       PROVE  Inductive'
  BY <1>17, ReceiveDenialType, ReceiveDenialVersions
<1>18. ASSUME NEW d \in Device, ServerDeny(d)
       PROVE  Inductive'
  BY <1>18, ServerDenyType, ServerDenyVersions
<1>19. CASE UNCHANGED vars
  BY <1>19 DEF vars, net, client, counts, TypeOK, VersionsOrdered
<1> QED
  BY <1>1, <1>2, <1>3, <1>4, <1>5, <1>6, <1>7, <1>8, <1>9, <1>10, <1>11, <1>12,
     <1>13, <1>14, <1>15, <1>16, <1>17, <1>18, <1>19 DEF Next, Infrastructure, Mishap

\* The inductive invariant, for every run of the data layer.
THEOREM InductiveInvariant == Spec => []Inductive
<1>1. Init => Inductive
  BY StoreAssumption, InductiveInit
<1>2. Inductive /\ [Next]_vars => Inductive'
  BY StoreAssumption, InductiveStep
<1> QED
  BY <1>1, <1>2, PTL DEF Spec

\* Whatever the connections, kills and refusals, the client's queues, write
\* tree and snapshots hold writes and whole records: no screen is ever handed
\* a version that the database does not have.
THEOREM TypeCorrect == Spec => []TypeOK
<1>1. Inductive => TypeOK
  BY DEF Inductive
<1> QED
  BY <1>1, InductiveInvariant, PTL

\* What a connection carries is ordered and never ahead of the database.
THEOREM VersionsStayOrdered == Spec => []VersionsOrdered
<1>1. Inductive => VersionsOrdered
  BY DEF Inductive
<1> QED
  BY <1>1, InductiveInvariant, PTL

-----------------------------------------------------------------------------
\* The steps that VersionedRecords sees.
LEMMA ReceiveDataCatchesUp ==
    ASSUME Inductive, Inductive', NEW d \in Device, ReceiveData(d)
    PROVE  Records!CatchUp(d)
<1>1. cache' \in [Device -> [Key -> Nat]]
  BY DEF Inductive, TypeOK
<1>2. \A k \in Key : cache[d][k] <= cache'[d][k] /\ cache'[d][k] <= Len(hist[k])
  BY ReceiveDataVersions DEF Inductive
<1>3. (\A e \in Device \ {d} : cache'[e] = cache[e]) /\ hist' = hist
  BY DEF ReceiveData, Inductive, TypeOK
<1> QED
  BY <1>1, <1>2, <1>3 DEF Records!CatchUp

LEMMA ServerAcceptApplies ==
    ASSUME Inductive, NEW d \in Device, ServerAccept(d)
    PROVE  Records!Apply
<1> DEFINE p == Head(up[d])
           w == [by |-> d, id |-> p.id, val |-> p.val]
<1>1. p \in Put
  BY HeadTailProperties DEF Inductive, TypeOK, ServerAccept
<1>2. p.key \in Key /\ w \in Records!Write
  BY <1>1 DEF Put, WriteId, Records!Write
<1>3. hist' = [hist EXCEPT ![p.key] = Append(@, w)] /\ cache' = cache
  BY DEF ServerAccept, client
<1> HIDE DEF p, w
<1> QED
  BY <1>2, <1>3 DEF Records!Apply

\* Every other step is a stutter of VersionedRecords.
LEMMA StepRefines ==
    ASSUME Inductive, Inductive', [Next]_vars
    PROVE  [Records!Next]_(Records!vars)
<1> DEFINE Same == UNCHANGED <<hist, cache>>
<1>1. ASSUME NEW d \in Device, ReceiveData(d)
      PROVE  Records!Next
  BY <1>1, ReceiveDataCatchesUp DEF Records!Next
<1>2. ASSUME NEW d \in Device, ServerAccept(d)
      PROVE  Records!Next
  BY <1>2, ServerAcceptApplies DEF Records!Next
<1>3. ASSUME NEW d \in Device, Restart(d) \/ ReceiveDenial(d)
      PROVE  Records!Next
  BY <1>3 DEF Restart, ReceiveDenial, Records!Next, Records!Forget
<1>4. ASSUME NEW d \in Device, NEW k \in Key, NEW v \in Value, SetValue(d, k, v)
      PROVE  Same
  BY <1>4 DEF SetValue, client
<1>5. ASSUME NEW d \in Device,
             RetrieveAll(d) \/ HandleValue(d) \/ HandleDone(d) \/ RunPut(d)
               \/ RunObserve(d) \/ Connect(d) \/ Disconnect(d)
      PROVE  Same
  BY <1>5 DEF RetrieveAll, HandleValue, HandleDone, RunPut, RunObserve, Connect,
              Disconnect, client
<1>6. ASSUME NEW d \in Device,
             ReceiveListenOk(d) \/ ReceivePutDone(d) \/ AckPut(d)
               \/ ServerListen(d) \/ ServerReject(d) \/ ServerDeny(d)
      PROVE  Same
  BY <1>6 DEF ReceiveListenOk, ReceivePutDone, AckPut, ServerListen, ServerReject, ServerDeny,
              client
<1>7. CASE UNCHANGED vars
  BY <1>7 DEF vars, client, Records!vars
<1> QED
  BY <1>1, <1>2, <1>3, <1>4, <1>5, <1>6, <1>7
     DEF Next, Infrastructure, Mishap, Records!vars

\* The data layer implements VersionedRecords: each record has one history,
\* and the cache of a device only moves forward along it until its process
\* or its listening ends, through reconnections, resends and refusals.
THEOREM StoreImplementsRecords == Spec => ImplementsRecords
<1>1. Init => Records!Init
  BY DEF Init, Records!Init
<1>2. Inductive /\ Inductive' /\ [Next]_vars => [Records!Next]_(Records!vars)
  BY StepRefines
<1> QED
  BY <1>1, <1>2, InductiveInvariant, PTL DEF Spec, ImplementsRecords, Records!Spec

-----------------------------------------------------------------------------
(***************************************************************************)
(* The order of a device's writes.                                         *)
(*                                                                         *)
(* CompletionsInOrder is not inductive: that the answer which arrives is   *)
(* the one of the oldest outstanding write needs the order on the          *)
(* connection, and that every outstanding write, or its answer, is on a    *)
(* connection that is up. Ordered says so. Numbers, not positions, are     *)
(* compared: elements without a number (values, listens, data) lie         *)
(* anywhere between.                                                       *)
(*                                                                         *)
(* NewestWins is not inductive either: a resent older write may be the     *)
(* last one for a while. Resends says that then a newer one waits behind   *)
(* it, which holds because what is resent is everything unanswered, in     *)
(* order.                                                                  *)
(***************************************************************************)

-----------------------------------------------------------------------------
(* Sequences with numbers *)

\* Every number of s is less than every number of t.
Before(s, t) == \A i \in Numbered(s), j \in Numbered(t) : s[i].id < t[j].id

\* The number the device's next write will get, as a sequence.
NextId(n) == <<[id |-> n + 1]>>

\* The writes of a device on their way to their completion blocks: those posted
\* (E), answered (T), outstanding (P), called (C) and not yet made (N) follow one
\* another.
Flow(E, T, P, C, N) ==
  /\ Ascending(E) /\ Ascending(T) /\ Ascending(P) /\ Ascending(C)
  /\ Before(E, T) /\ Before(E, P) /\ Before(E, C) /\ Before(E, N)
  /\ Before(T, P) /\ Before(T, C) /\ Before(T, N)
  /\ Before(P, C) /\ Before(P, N) /\ Before(C, N)

\* The connection: the answers on their way down (D) are for older writes than
\* those on their way up (U), which are older than those not sent.
Wire(D, U, C, N) ==
  /\ Ascending(D) /\ Ascending(U)
  /\ Before(D, U) /\ Before(D, C) /\ Before(D, N) /\ Before(U, C) /\ Before(U, N)

\* Every outstanding write is on the connection, or its answer is.
Covered(P, D, U) ==
  \A i \in DOMAIN P : \/ \E j \in Numbered(D) : D[j].id = P[i].id
                      \/ \E j \in Numbered(U) : U[j].id = P[i].id

\* What is posted to the main thread, and what the database sends.
Event == ValueEv \cup DoneEv
Answer == {ListenOk, Denied} \cup All \cup Update \cup PutDone

\* A number greater than those before it may follow them.
LEMMA Extend ==
  ASSUME NEW S, NEW s \in Seq(S), NEW x \in S
  PROVE Ascending(s) /\ Before(s, <<x>>) => Ascending(Append(s, x))
BY DEF Ascending, Before, Numbered

\* What is before t, or behind it, with one more element.
LEMMA ExtendBefore ==
  ASSUME NEW S, NEW s \in Seq(S), NEW x \in S, NEW t
  PROVE /\ Before(s, t) /\ Before(<<x>>, t) => Before(Append(s, x), t)
        /\ Before(t, s) /\ Before(t, <<x>>) => Before(t, Append(s, x))
BY DEF Before, Numbered

\* The first element is before the others.
LEMMA Shift ==
  ASSUME NEW S, NEW s \in Seq(S), s # <<>>
  PROVE Ascending(s) => Ascending(Tail(s)) /\ Before(<<Head(s)>>, Tail(s))
BY DEF Ascending, Before, Numbered

\* What is before t, or behind it, without its first element.
LEMMA ShiftBefore ==
  ASSUME NEW S, NEW s \in Seq(S), s # <<>>, NEW t
  PROVE /\ Before(s, t) => Before(Tail(s), t) /\ Before(<<Head(s)>>, t)
        /\ Before(t, s) => Before(t, Tail(s)) /\ Before(t, <<Head(s)>>)
BY DEF Before, Numbered

\* Elements without a number may be added.
LEMMA Unnumbered ==
  ASSUME NEW S, NEW s \in Seq(S), NEW v \in Seq(S), Numbered(v) = {}
  PROVE Ascending(s) => Ascending(s \o v)
BY DEF Ascending, Numbered

\* ... and change nothing of what comes before what.
LEMMA UnnumberedBefore ==
  ASSUME NEW S, NEW s \in Seq(S), NEW v \in Seq(S), Numbered(v) = {}, NEW t
  PROVE /\ Before(s, t) => Before(s \o v, t)
        /\ Before(t, s) => Before(t, s \o v)
BY DEF Before, Numbered

\* Only the number decides what an element is before.
LEMMA SameId ==
  ASSUME NEW x, NEW y, "id" \in DOMAIN x, "id" \in DOMAIN y, x.id = y.id, NEW t
  PROVE /\ Before(<<x>>, t) => Before(<<y>>, t)
        /\ Before(t, <<x>>) => Before(t, <<y>>)
BY DEF Before, Numbered

\* What is before the next number is before the one after it.
LEMMA Fresh ==
  ASSUME NEW t, NEW n \in Nat, Before(t, NextId(n)), \A i \in Numbered(t) : t[i].id \in Nat
  PROVE Before(t, NextId(n + 1))
BY DEF Before, Numbered, NextId

\* What has a number, and what has none.
LEMMA Numbers ==
  /\ \A m \in Put \cup Answered \cup DoneEv \cup PutDone : "id" \in DOMAIN m /\ m.id \in Nat
  /\ \A m \in ValueEv \cup All \cup Update \cup {Listen, ListenOk, Denied, Observe} :
        "id" \notin DOMAIN m
<1>1. ASSUME NEW m \in Put PROVE "id" \in DOMAIN m /\ m.id \in Nat
  BY DEF Put, WriteId
<1>2. ASSUME NEW m \in Answered PROVE "id" \in DOMAIN m /\ m.id \in Nat
  BY DEF Answered, WriteId
<1>3. ASSUME NEW m \in DoneEv PROVE "id" \in DOMAIN m /\ m.id \in Nat
  BY DEF DoneEv, WriteId
<1>4. ASSUME NEW m \in PutDone PROVE "id" \in DOMAIN m /\ m.id \in Nat
  BY DEF PutDone, WriteId
<1>5. ASSUME NEW m \in ValueEv \cup All \cup Update \cup {Listen, ListenOk, Denied, Observe}
      PROVE  "id" \notin DOMAIN m
  BY DEF ValueEv, All, Update, Listen, ListenOk, Denied, Observe
<1> QED BY <1>1, <1>2, <1>3, <1>4, <1>5

\* The client takes a put from the calls to its outstanding writes.
LEMMA RunFlow ==
  ASSUME NEW E \in Seq(Event), NEW T \in Seq(Answered), NEW P \in Seq(Put),
    NEW C \in Seq({Observe} \cup Put), NEW N, C # <<>>, Head(C) \in Put, Flow(E,T,P,C,N)
  PROVE Flow(E,T,Append(P, Head(C)),Tail(C),N)
<1>1. Ascending(Append(P, Head(C))) /\ Ascending(Tail(C))
  BY Extend, Shift, ShiftBefore DEF Flow
<1>2. Before(E, Append(P, Head(C))) /\ Before(T, Append(P, Head(C))) 
  BY ExtendBefore, ShiftBefore DEF Flow
<1>3. Before(Append(P, Head(C)), Tail(C))
  BY ExtendBefore, Shift, ShiftBefore DEF Flow
<1>3a. Before(Append(P, Head(C)), N)
  BY ExtendBefore, Shift, ShiftBefore DEF Flow
<1>4. Before(E, Tail(C)) /\ Before(T, Tail(C)) /\ Before(Tail(C), N)
  BY ShiftBefore DEF Flow
<1> QED BY <1>1, <1>2, <1>3, <1>3a, <1>4 DEF Flow

\* A call of setValue is numbered on.
LEMMA SetFlow ==
  ASSUME NEW E \in Seq(Event), NEW T \in Seq(Answered), NEW P \in Seq(Put),
         NEW C \in Seq({Observe} \cup Put), NEW n \in Nat, NEW x \in Put, x.id = n + 1,
         Flow(E, T, P, C, NextId(n))
  PROVE  Flow(E, T, P, Append(C, x), NextId(n + 1))
<1> DEFINE N == NextId(n)
<1>1. Before(E, <<x>>) /\ Before(T, <<x>>) /\ Before(P, <<x>>) /\ Before(C, <<x>>)
  <2>1. \A t : Before(t, N) => Before(t, <<x>>)
    BY Numbers DEF Before, Numbered, NextId
  <2> QED BY <2>1 DEF Flow
<1>2. Ascending(Append(C, x))
  BY <1>1, Extend DEF Flow
<1>3. Before(E, Append(C, x)) /\ Before(T, Append(C, x)) /\ Before(P, Append(C, x))
  BY <1>1, ExtendBefore DEF Flow
<1>4. \A i \in Numbered(E) : E[i].id \in Nat
  BY Numbers DEF Event, Numbered
<1>5. \A i \in Numbered(T) : T[i].id \in Nat
  BY Numbers DEF Numbered
<1>6. \A i \in Numbered(P) : P[i].id \in Nat
  BY Numbers DEF Numbered
<1>7. \A i \in Numbered(C) : C[i].id \in Nat
  BY Numbers DEF Numbered
<1>8. Before(E, NextId(n + 1)) /\ Before(T, NextId(n + 1)) /\ Before(P, NextId(n + 1))
        /\ Before(C, NextId(n + 1))
  BY <1>4, <1>5, <1>6, <1>7, Fresh DEF Flow
<1>9. Before(<<x>>, NextId(n + 1))
  BY DEF Before, Numbered, NextId
<1>10. Before(Append(C, x), NextId(n + 1))
  BY <1>8, <1>9, ExtendBefore
<1> QED
  BY <1>2, <1>3, <1>8, <1>10 DEF Flow

\* ... and no connection knows its number yet.
LEMMA SetWire ==
  ASSUME NEW D \in Seq(Answer), NEW U \in Seq({Listen} \cup Put), NEW C \in Seq({Observe} \cup Put),
         NEW n \in Nat, NEW x \in Put, x.id = n + 1, Wire(D, U, C, NextId(n))
  PROVE  Wire(D, U, Append(C, x), NextId(n + 1))
<1>1. Before(D, <<x>>) /\ Before(U, <<x>>)
  <2>1. \A t : Before(t, NextId(n)) => Before(t, <<x>>)
    BY Numbers DEF Before, Numbered, NextId
  <2> QED BY <2>1 DEF Wire
<1>2. Before(D, Append(C, x)) /\ Before(U, Append(C, x))
  BY <1>1, ExtendBefore DEF Wire
<1>3. \A i \in Numbered(D) : D[i].id \in Nat
  BY Numbers DEF Answer, Numbered
<1>4. \A i \in Numbered(U) : U[i].id \in Nat
  BY Numbers DEF Numbered
<1>5. Before(D, NextId(n + 1)) /\ Before(U, NextId(n + 1))
  BY <1>3, <1>4, Fresh DEF Wire
<1> QED
  BY <1>2, <1>5 DEF Wire

\* A call of observe has no number.
LEMMA ObserveFlow ==
  ASSUME NEW E, NEW T, NEW P, NEW D, NEW U, NEW C \in Seq({Observe} \cup Put), NEW N,
         Flow(E, T, P, C, N), Wire(D, U, C, N)
  PROVE  Flow(E, T, P, Append(C, Observe), N) /\ Wire(D, U, Append(C, Observe), N)
<1>1. Numbered(<<Observe>>) = {}
  BY Numbers DEF Numbered
<1>2. \A t : Before(<<Observe>>, t) /\ Before(t, <<Observe>>)
  BY <1>1 DEF Before
<1>3. Ascending(Append(C, Observe))
  BY <1>2, Extend DEF Flow
<1>4. \A t : /\ Before(t, C) => Before(t, Append(C, Observe))
             /\ Before(C, t) => Before(Append(C, Observe), t)
  BY <1>2, ExtendBefore
<1> QED
  BY <1>3, <1>4 DEF Flow, Wire

\* Values are posted between the completion blocks.
LEMMA QuietFlow ==
  ASSUME NEW E \in Seq(Event), NEW T, NEW P, NEW C, NEW N, NEW v \in Seq(Event), Numbered(v) = {},
         Flow(E, T, P, C, N)
  PROVE  Flow(E \o v, T, P, C, N)
<1>1. Ascending(E \o v)
  BY Unnumbered DEF Flow
<1>2. Before(E \o v, T) /\ Before(E \o v, P) /\ Before(E \o v, C) /\ Before(E \o v, N)
  BY UnnumberedBefore DEF Flow
<1> QED
  BY <1>1, <1>2 DEF Flow

\* The main thread handles an event.
LEMMA HandleFlow ==
  ASSUME NEW E \in Seq(Event), E # <<>>, NEW T, NEW P, NEW C, NEW N, Flow(E, T, P, C, N)
  PROVE  Flow(Tail(E), T, P, C, N)
<1>1. Ascending(Tail(E))
  BY Shift DEF Flow
<1>2. Before(Tail(E), T) /\ Before(Tail(E), P) /\ Before(Tail(E), C) /\ Before(Tail(E), N)
  BY ShiftBefore DEF Flow
<1> QED
  BY <1>1, <1>2 DEF Flow

\* The client takes a call that may have a number.
LEMMA SkipFlow ==
  ASSUME NEW E, NEW T, NEW P, NEW D, NEW U, NEW C \in Seq({Observe} \cup Put), C # <<>>, NEW N,
         Flow(E, T, P, C, N), Wire(D, U, C, N)
  PROVE  Flow(E, T, P, Tail(C), N) /\ Wire(D, U, Tail(C), N)
<1>1. Ascending(Tail(C))
  BY Shift DEF Flow
<1>2. \A t : /\ Before(t, C) => Before(t, Tail(C))
             /\ Before(C, t) => Before(Tail(C), t)
  BY ShiftBefore
<1> QED
  BY <1>1, <1>2 DEF Flow, Wire

\* A put is sent.
LEMMA RunWire ==
  ASSUME NEW D \in Seq(Answer), NEW U \in Seq({Listen} \cup Put), NEW C \in Seq({Observe} \cup Put),
         NEW N, C # <<>>, Head(C) \in Put, Ascending(C), Before(C, N), Wire(D, U, C, N)
  PROVE  Wire(D, Append(U, Head(C)), Tail(C), N)
<1>1. Before(D, <<Head(C)>>) /\ Before(U, <<Head(C)>>) /\ Before(<<Head(C)>>, Tail(C))
        /\ Before(<<Head(C)>>, N)
  BY Shift, ShiftBefore DEF Wire
<1>2. Before(D, Tail(C)) /\ Before(U, Tail(C))
  BY ShiftBefore DEF Wire
<1>3. Ascending(Append(U, Head(C)))
  BY <1>1, Extend DEF Wire
<1>4. Before(D, Append(U, Head(C))) /\ Before(Append(U, Head(C)), Tail(C))
        /\ Before(Append(U, Head(C)), N)
  BY <1>1, <1>2, ExtendBefore DEF Wire
<1> QED
  BY <1>2, <1>3, <1>4 DEF Wire

\* The oldest outstanding write is answered.
LEMMA AnswerFlow ==
  ASSUME NEW E, NEW T \in Seq(Answered), NEW P \in Seq(Put), NEW C, NEW N, P # <<>>,
         NEW x \in Answered, x.id = Head(P).id, Flow(E, T, P, C, N)
  PROVE  Flow(E, Append(T, x), Tail(P), C, N)
<1>0. Head(P) \in Put
  OBVIOUS
<1>a. "id" \in DOMAIN x /\ "id" \in DOMAIN Head(P)
  BY <1>0, Numbers
<1>1. ASSUME NEW t
      PROVE  /\ Before(t, P) => Before(t, <<x>>) /\ Before(t, Tail(P))
             /\ Before(P, t) => Before(<<x>>, t) /\ Before(Tail(P), t)
  <2>1. /\ Before(t, P) => Before(t, Tail(P)) /\ Before(t, <<Head(P)>>)
        /\ Before(P, t) => Before(Tail(P), t) /\ Before(<<Head(P)>>, t)
    BY ShiftBefore
  <2>2. /\ Before(<<Head(P)>>, t) => Before(<<x>>, t)
        /\ Before(t, <<Head(P)>>) => Before(t, <<x>>)
    BY <1>a, SameId
  <2> QED BY <2>1, <2>2
<1>2. Before(<<x>>, Tail(P)) /\ Ascending(Tail(P))
  BY <1>0, Shift, SameId, Numbers DEF Flow
<1>3. Ascending(Append(T, x))
  BY <1>1, Extend DEF Flow
<1>4. Before(E, Append(T, x)) /\ Before(Append(T, x), Tail(P)) /\ Before(Append(T, x), C)
        /\ Before(Append(T, x), N)
  BY <1>1, <1>2, ExtendBefore DEF Flow
<1> QED
  BY <1>1, <1>2, <1>3, <1>4 DEF Flow

\* The oldest acknowledgement becomes a completion block.
LEMMA AckFlow ==
  ASSUME NEW E \in Seq(Event), NEW T \in Seq(Answered), NEW P, NEW C, NEW N, T # <<>>,
         NEW x \in DoneEv, x.id = Head(T).id, Flow(E, T, P, C, N)
  PROVE  Flow(Append(E, x), Tail(T), P, C, N)
<1>0. Head(T) \in Answered
  OBVIOUS
<1>a. "id" \in DOMAIN x /\ "id" \in DOMAIN Head(T)
  BY <1>0, Numbers
<1>1. ASSUME NEW t
      PROVE  /\ Before(t, T) => Before(t, <<x>>) /\ Before(t, Tail(T))
             /\ Before(T, t) => Before(<<x>>, t) /\ Before(Tail(T), t)
  <2>1. /\ Before(t, T) => Before(t, Tail(T)) /\ Before(t, <<Head(T)>>)
        /\ Before(T, t) => Before(Tail(T), t) /\ Before(<<Head(T)>>, t)
    BY ShiftBefore
  <2>2. /\ Before(<<Head(T)>>, t) => Before(<<x>>, t)
        /\ Before(t, <<Head(T)>>) => Before(t, <<x>>)
    BY <1>a, SameId
  <2> QED BY <2>1, <2>2
<1>2. Before(<<x>>, Tail(T)) /\ Ascending(Tail(T))
  BY <1>0, Shift, SameId, Numbers DEF Flow
<1>3. Ascending(Append(E, x))
  BY <1>1, Extend DEF Flow, Event
<1>4. Before(Append(E, x), Tail(T)) /\ Before(Append(E, x), P) /\ Before(Append(E, x), C)
        /\ Before(Append(E, x), N)
  BY <1>1, <1>2, ExtendBefore DEF Flow, Event
<1> QED
  BY <1>1, <1>2, <1>3, <1>4 DEF Flow

\* A message arrives.
LEMMA TakeWire ==
  ASSUME NEW D \in Seq(Answer), NEW U, NEW C, NEW N, D # <<>>, Wire(D, U, C, N)
  PROVE  Wire(Tail(D), U, C, N)
BY Shift, ShiftBefore DEF Wire

\* Messages without a number are sent down.
LEMMA QuietWire ==
  ASSUME NEW D \in Seq(Answer), NEW U, NEW C, NEW N, NEW v \in Seq(Answer), Numbered(v) = {},
         Wire(D, U, C, N)
  PROVE  Wire(D \o v, U, C, N)
BY Unnumbered, UnnumberedBefore DEF Wire

\* The database takes a message, and may answer it.
LEMMA ServeWire ==
  ASSUME NEW D \in Seq(Answer), NEW U \in Seq({Listen} \cup Put), NEW C, NEW N, U # <<>>,
         Wire(D, U, C, N)
  PROVE  /\ Wire(D, Tail(U), C, N)
         /\ \A x \in PutDone : Head(U) \in Put /\ x.id = Head(U).id =>
               Wire(Append(D, x), Tail(U), C, N)
<1>1. Wire(D, Tail(U), C, N)
  BY Shift, ShiftBefore DEF Wire
<1>2. ASSUME NEW x \in PutDone, Head(U) \in Put, x.id = Head(U).id
      PROVE  Wire(Append(D, x), Tail(U), C, N)
  <2>0. "id" \in DOMAIN x /\ "id" \in DOMAIN Head(U)
    BY <1>2, Numbers
  <2>1. Before(D, <<x>>) /\ Before(<<x>>, C) /\ Before(<<x>>, N) /\ Before(<<x>>, Tail(U))
    <3>1. /\ Before(D, <<Head(U)>>) /\ Before(<<Head(U)>>, C) /\ Before(<<Head(U)>>, N)
          /\ Before(<<Head(U)>>, Tail(U))
      BY Shift, ShiftBefore DEF Wire
    <3> QED BY <1>2, <2>0, <3>1, SameId
  <2>2. Ascending(Append(D, x))
    BY <2>1, Extend DEF Wire, Answer
  <2>3. Before(Append(D, x), Tail(U)) /\ Before(Append(D, x), C) /\ Before(Append(D, x), N)
    BY <1>1, <2>1, ExtendBefore DEF Wire, Answer
  <2> QED BY <1>1, <2>2, <2>3 DEF Wire
<1> QED BY <1>1, <1>2

\* What a new connection sends is in order, and covers the outstanding writes.
LEMMA RestoreWire ==
  ASSUME NEW D \in Seq(Answer), Numbered(D) = {}, NEW P \in Seq(Put), NEW C, NEW N,
         NEW U \in Seq({Listen} \cup Put), U = P \/ U = <<Listen>> \o P,
         Ascending(P), Before(P, C), Before(P, N)
  PROVE  Wire(D, U, C, N) /\ Covered(P, D, U)
<1>1. CASE U = P
  BY <1>1, Numbers DEF Wire, Covered, Ascending, Before, Numbered
<1>2. CASE U = <<Listen>> \o P
  <2>1. Len(U) = Len(P) + 1 /\ U[1] = Listen /\ \A i \in 1..Len(P) : U[i + 1] = P[i]
    BY <1>2
  <2>2. Numbered(U) = {i + 1 : i \in DOMAIN P}
    <3>1. \A i \in DOMAIN P : "id" \in DOMAIN P[i]
      BY Numbers
    <3>2. "id" \notin DOMAIN U[1]
      BY <2>1, Numbers
    <3>3. DOMAIN U = 1..(Len(P) + 1) /\ DOMAIN P = 1..Len(P) /\ Len(P) \in Nat
      BY <2>1
    <3>4. \A j \in DOMAIN U : "id" \in DOMAIN U[j] <=> j # 1
      <4>1. \A j \in DOMAIN U : j # 1 => j - 1 \in DOMAIN P /\ U[j] = P[j - 1]
        BY <2>1, <3>3
      <4> QED BY <3>1, <3>2, <4>1
    <3>5. Numbered(U) = {j \in DOMAIN U : j # 1}
      BY <3>4 DEF Numbered
    <3>6. {j \in DOMAIN U : j # 1} = {i + 1 : i \in DOMAIN P}
      <4>1. \A j \in DOMAIN U : j # 1 => j - 1 \in DOMAIN P /\ j = (j - 1) + 1
        BY <3>3
      <4>2. \A i \in DOMAIN P : i + 1 \in DOMAIN U /\ i + 1 # 1
        BY <3>3
      <4> QED BY <4>1, <4>2
    <3> QED BY <3>5, <3>6
  <2>3. Numbered(P) = DOMAIN P
    <3>1. \A i \in DOMAIN P : P[i] \in Put
      OBVIOUS
    <3> QED BY <3>1, Numbers DEF Numbered
  <2>4. \A i \in DOMAIN P : i \in Nat /\ U[i + 1] = P[i]
    BY <2>1
  <2>5. Ascending(U)
    <3> SUFFICES ASSUME NEW i \in DOMAIN P, NEW j \in DOMAIN P, i + 1 < j + 1
                 PROVE  U[i + 1].id < U[j + 1].id
      BY <2>2 DEF Ascending
    <3>1. i \in Nat /\ j \in Nat /\ i < j
      OBVIOUS
    <3> QED BY <2>3, <2>4, <3>1 DEF Ascending
  <2>7. ASSUME NEW t, Before(P, t) PROVE Before(U, t)
    BY SMTT(30), <2>2, <2>3, <2>4, <2>7 DEF Before
  <2>6. Covered(P, D, U)
    BY <2>2, <2>4 DEF Covered
  <2>8. \A t : Ascending(D) /\ Before(D, t)
    BY DEF Ascending, Before
  <2> QED BY <2>5, <2>6, <2>7, <2>8 DEF Wire
<1> QED BY <1>1, <1>2

\* The first answer on the connection is for the oldest outstanding write.
LEMMA FirstAnswered ==
  ASSUME NEW D \in Seq(Answer), NEW U \in Seq({Listen} \cup Put), NEW P \in Seq(Put), D # <<>>,
         Head(D) \in PutDone, NEW i \in DOMAIN P, P[i].id = Head(D).id,
         Ascending(P), Ascending(D), Before(D, U), Covered(P, D, U)
  PROVE  i = 1 /\ Covered(Tail(P), Tail(D), U)
<1>1. /\ DOMAIN P = 1..Len(P) /\ Len(P) \in Nat /\ Numbered(P) = DOMAIN P
      /\ \A j \in DOMAIN P : P[j].id \in Nat
  <2>1. DOMAIN P = 1..Len(P) /\ Len(P) \in Nat /\ \A j \in DOMAIN P : P[j] \in Put
    OBVIOUS
  <2>2. \A j \in DOMAIN P : "id" \in DOMAIN P[j] /\ P[j].id \in Nat
    BY <2>1, Numbers
  <2> QED BY <2>1, <2>2 DEF Numbered
<1>2. 1 \in Numbered(D) /\ D[1].id \in Nat /\ D[1] = Head(D) /\ Numbered(D) \subseteq Nat \ {0}
  BY Numbers DEF Numbered
<1>3. \A j \in Numbered(D) : j = 1 \/ D[1].id < D[j].id
  BY <1>2 DEF Ascending
<1>4. \A j \in Numbered(U) : D[1].id < U[j].id
  BY <1>2 DEF Before
<1>5. i = 1
  <2> SUFFICES ASSUME i # 1 PROVE FALSE
    OBVIOUS
  <2>1. 1 \in DOMAIN P /\ P[1].id < D[1].id
    BY SMTT(30), <1>1, <1>2 DEF Ascending
  <2>2. PICK q : (q \in Numbered(D) /\ D[q].id = P[1].id) \/ (q \in Numbered(U) /\ U[q].id = P[1].id)
    BY <2>1 DEF Covered
  <2> QED BY <1>1, <1>2, <1>3, <1>4, <2>1, <2>2
<1>6. ASSUME NEW j \in DOMAIN Tail(P)
      PROVE  \/ \E q \in Numbered(Tail(D)) : Tail(D)[q].id = Tail(P)[j].id
             \/ \E q \in Numbered(U) : U[q].id = Tail(P)[j].id
  <2>1. j + 1 \in DOMAIN P /\ j + 1 > 1 /\ Tail(P)[j] = P[j + 1]
    OBVIOUS
  <2>2. P[j + 1].id > D[1].id
    BY <1>1, <1>2, <1>5, <2>1 DEF Ascending
  <2>3. CASE \E q \in Numbered(U) : U[q].id = P[j + 1].id
    BY <2>1, <2>3
  <2>4. CASE \E q \in Numbered(D) : D[q].id = P[j + 1].id
    <3>1. PICK q \in Numbered(D) : D[q].id = P[j + 1].id
      BY <2>4
    <3>2. q # 1 /\ q \in DOMAIN D
      BY <1>1, <1>2, <2>1, <2>2, <3>1 DEF Numbered
    <3>3. q - 1 \in DOMAIN Tail(D) /\ Tail(D)[q - 1] = D[q]
      BY <3>2
    <3>4. q - 1 \in Numbered(Tail(D))
      BY <3>1, <3>3 DEF Numbered
    <3> QED BY <2>1, <3>1, <3>3, <3>4
  <2> QED BY <2>1, <2>3, <2>4 DEF Covered
<1> QED BY <1>5, <1>6 DEF Covered

\* What keeps the outstanding writes covered.
LEMMA CoveredAfter ==
  ASSUME NEW D \in Seq(Answer), NEW U \in Seq({Listen} \cup Put), NEW P, Covered(P, D, U)
  PROVE  /\ D # <<>> /\ Head(D) \notin PutDone => Covered(P, Tail(D), U)
         /\ \A v \in Seq(Answer) : Covered(P, D \o v, U)
         /\ U # <<>> /\ Head(U) = Listen => Covered(P, D, Tail(U))
         /\ \A x \in PutDone : U # <<>> /\ Head(U) \in Put /\ x.id = Head(U).id =>
               Covered(P, Append(D, x), Tail(U))
         /\ \A x \in {Listen} \cup Put : Covered(P, D, Append(U, x))
<1>1. ASSUME D # <<>>, Head(D) \notin PutDone PROVE Covered(P, Tail(D), U)
  <2>1. 1 \notin Numbered(D)
    BY <1>1, Numbers DEF Numbered, Answer
  <2>2. \A q \in Numbered(D) : q - 1 \in Numbered(Tail(D)) /\ Tail(D)[q - 1] = D[q]
    BY <1>1, <2>1 DEF Numbered
  <2> QED BY <2>2 DEF Covered
<1>2. ASSUME NEW v \in Seq(Answer) PROVE Covered(P, D \o v, U)
  <2>1. \A q \in Numbered(D) : q \in Numbered(D \o v) /\ (D \o v)[q] = D[q]
    BY DEF Numbered
  <2> QED BY <2>1 DEF Covered
<1>3. ASSUME U # <<>>, Head(U) = Listen PROVE Covered(P, D, Tail(U))
  <2>1. 1 \notin Numbered(U)
    BY <1>3, Numbers DEF Numbered
  <2>2. \A q \in Numbered(U) : q - 1 \in Numbered(Tail(U)) /\ Tail(U)[q - 1] = U[q]
    BY <1>3, <2>1 DEF Numbered
  <2> QED BY <2>2 DEF Covered
<1>4. ASSUME NEW x \in PutDone, U # <<>>, Head(U) \in Put, x.id = Head(U).id
      PROVE  Covered(P, Append(D, x), Tail(U))
  <2>1. \A q \in Numbered(D) : q \in Numbered(Append(D, x)) /\ Append(D, x)[q] = D[q]
    BY DEF Numbered
  <2>2. \A q \in Numbered(U) : q # 1 => q - 1 \in Numbered(Tail(U)) /\ Tail(U)[q - 1] = U[q]
    BY <1>4 DEF Numbered
  <2>3. /\ Len(D) + 1 \in Numbered(Append(D, x))
        /\ Append(D, x)[Len(D) + 1].id = U[1].id
    BY <1>4, Numbers DEF Numbered
  <2>4. ASSUME NEW i \in DOMAIN P, NEW q \in Numbered(U), U[q].id = P[i].id
        PROVE  \/ \E j \in Numbered(Append(D, x)) : Append(D, x)[j].id = P[i].id
               \/ \E j \in Numbered(Tail(U)) : Tail(U)[j].id = P[i].id
    BY <2>2, <2>3, <2>4
  <2>5. ASSUME NEW i \in DOMAIN P, NEW q \in Numbered(D), D[q].id = P[i].id
        PROVE  \E j \in Numbered(Append(D, x)) : Append(D, x)[j].id = P[i].id
    BY <2>1, <2>5
  <2> QED BY <2>4, <2>5 DEF Covered
<1>5. ASSUME NEW x \in {Listen} \cup Put PROVE Covered(P, D, Append(U, x))
  <2>1. \A q \in Numbered(U) : q \in Numbered(Append(U, x)) /\ Append(U, x)[q] = U[q]
    BY DEF Numbered
  <2> QED BY <2>1 DEF Covered
<1> QED BY <1>1, <1>2, <1>3, <1>4, <1>5

-----------------------------------------------------------------------------
\* What a device's queues and its connection hold, in the order of the numbers.
OrderedAt(d) ==
  /\ Flow(events[d], toAck[d], puts[d], calls[d], NextId(issued[d]))
  /\ Wire(down[d], up[d], calls[d], NextId(issued[d]))
  /\ conn[d] = "up" => Covered(puts[d], down[d], up[d])
  /\ conn[d] = "down" => up[d] = <<>> /\ Numbered(down[d]) = {}

\* The inductive invariant of CompletionsInOrder.
Ordered == \A d \in Device : OrderedAt(d)

\* The queues of a device hold what TypeOK says.
LEMMA QueueTypes ==
  ASSUME TypeOK, NEW d \in Device
  PROVE  /\ events[d] \in Seq(Event) /\ toAck[d] \in Seq(Answered) /\ puts[d] \in Seq(Put)
         /\ calls[d] \in Seq({Observe} \cup Put) /\ down[d] \in Seq(Answer)
         /\ up[d] \in Seq({Listen} \cup Put) /\ issued[d] \in Nat
BY StoreAssumption DEF TypeOK, Event, Answer, StoreAssumption

\* Nothing is in order with everything.
LEMMA Empty ==
  /\ Numbered(<<>>) = {} /\ Ascending(<<>>)
  /\ \A t : Before(<<>>, t) /\ Before(t, <<>>)
  /\ \A P, U : Covered(<<>>, P, U)
BY DEF Numbered, Ascending, Before, Covered

\* What is appended to the events.
LEMMA Appended ==
  ASSUME NEW S, NEW s \in Seq(S), NEW d, NEW view, s \o Changed(d, view) \in Seq(S)
  PROVE  Changed(d, view) \in Seq(S) /\ Numbered(Changed(d, view)) = {}
<1> DEFINE x == [kind |-> "value", snap |-> view]
<1>1. Changed(d, view) = <<>> \/ Changed(d, view) = <<x>>
  BY DEF Changed
<1>2. "id" \notin DOMAIN x
  OBVIOUS
<1> HIDE DEF x
<1>3. ASSUME s \o <<x>> \in Seq(S) PROVE x \in S
  <2>1. (s \o <<x>>)[Len(s) + 1] = x /\ Len(s \o <<x>>) = Len(s) + 1 /\ Len(s) \in Nat
    OBVIOUS
  <2>2. \A i \in 1..Len(s \o <<x>>) : (s \o <<x>>)[i] \in S
    BY <1>3, ElementOfSeq
  <2> QED BY <2>1, <2>2
<1> QED BY <1>1, <1>2, <1>3 DEF Numbered

\* At the start the queues are empty.
LEMMA OrderedInit == Init => Ordered
<1> SUFFICES ASSUME Init, NEW d \in Device PROVE OrderedAt(d)
  BY DEF Ordered
<1>1. /\ events[d] = <<>> /\ toAck[d] = <<>> /\ puts[d] = <<>> /\ calls[d] = <<>>
      /\ down[d] = <<>> /\ up[d] = <<>> /\ conn[d] = "down"
  BY DEF Init
<1>2. Flow(<<>>, <<>>, <<>>, <<>>, NextId(issued[d])) /\ Wire(<<>>, <<>>, <<>>, NextId(issued[d]))
  BY Empty DEF Flow, Wire
<1> QED BY <1>1, <1>2, Empty DEF OrderedAt

\* The new write has the greatest number.
LEMMA SetValueOrdered ==
  ASSUME TypeOK, Ordered, NEW d \in Device, NEW k \in Key, NEW v \in Value, SetValue(d, k, v)
  PROVE  Ordered'
<1> SUFFICES ASSUME NEW e \in Device PROVE OrderedAt(e)'
  BY DEF Ordered
<1>1. OrderedAt(e)
  BY DEF Ordered
<1>2. UNCHANGED <<events, toAck, puts, down, up, conn>>
  BY DEF SetValue, net, client
<1>3. CASE e # d
  <2>1. calls'[e] = calls[e] /\ issued'[e] = issued[e]
    BY <1>3 DEF SetValue, TypeOK
  <2> QED BY <1>1, <1>2, <2>1 DEF OrderedAt
<1>4. CASE e = d
  <2> DEFINE x == [op |-> "put", id |-> issued[d] + 1, key |-> k, val |-> v]
  <2>1. calls'[e] = Append(calls[e], x) /\ issued'[e] = issued[e] + 1
    BY <1>4 DEF SetValue, TypeOK
  <2>2. x \in Put /\ x.id = issued[e] + 1
    BY <1>4, StoreAssumption DEF StoreAssumption, TypeOK, SetValue, Put, WriteId
  <2> HIDE DEF x
  <2>3. Flow(events[e], toAck[e], puts[e], calls'[e], NextId(issued'[e]))
    BY <1>1, <2>1, <2>2, QueueTypes, SetFlow DEF OrderedAt
  <2>4. Wire(down[e], up[e], calls'[e], NextId(issued'[e]))
    BY <1>1, <2>1, <2>2, QueueTypes, SetWire DEF OrderedAt
  <2> QED BY <1>1, <1>2, <2>3, <2>4 DEF OrderedAt
<1> QED BY <1>3, <1>4

\* A call of observe disorders nothing.
LEMMA RetrieveAllOrdered ==
  ASSUME TypeOK, Ordered, NEW d \in Device, RetrieveAll(d)
  PROVE  Ordered'
<1> SUFFICES ASSUME NEW e \in Device PROVE OrderedAt(e)'
  BY DEF Ordered
<1>1. OrderedAt(e)
  BY DEF Ordered
<1>2. UNCHANGED <<events, toAck, puts, down, up, conn, issued>>
  BY DEF RetrieveAll, net, client, counts
<1>3. calls'[e] = calls[e] \/ calls'[e] = Append(calls[e], Observe)
  BY DEF RetrieveAll, TypeOK
<1>4. /\ Flow(events[e], toAck[e], puts[e], calls'[e], NextId(issued[e]))
      /\ Wire(down[e], up[e], calls'[e], NextId(issued[e]))
  BY <1>1, <1>3, QueueTypes, ObserveFlow DEF OrderedAt
<1> QED BY <1>1, <1>2, <1>4 DEF OrderedAt

\* The main thread takes the first event; it may observe again.
LEMMA HandleOrdered ==
  ASSUME TypeOK, Ordered, NEW d \in Device, HandleValue(d) \/ HandleDone(d)
  PROVE  Ordered'
<1> SUFFICES ASSUME NEW e \in Device PROVE OrderedAt(e)'
  BY DEF Ordered
<1>1. OrderedAt(e)
  BY DEF Ordered
<1>2. UNCHANGED <<toAck, puts, down, up, conn, issued>>
  BY DEF HandleValue, HandleDone, net, client, counts
<1>3. events'[e] = events[e] \/ (events[e] # <<>> /\ events'[e] = Tail(events[e]))
  BY DEF HandleValue, HandleDone, TypeOK
<1>4. calls'[e] = calls[e] \/ calls'[e] = Append(calls[e], Observe)
  BY DEF HandleValue, HandleDone, TypeOK
<1>5. /\ Flow(events[e], toAck[e], puts[e], calls'[e], NextId(issued[e]))
      /\ Wire(down[e], up[e], calls'[e], NextId(issued[e]))
  BY <1>1, <1>4, QueueTypes, ObserveFlow DEF OrderedAt
<1>6. Flow(events'[e], toAck[e], puts[e], calls'[e], NextId(issued[e]))
  BY <1>3, <1>5, QueueTypes, HandleFlow
<1> QED BY <1>1, <1>2, <1>5, <1>6 DEF OrderedAt

\* The put is the oldest of the calls, and newer than every outstanding write.
LEMMA RunPutOrdered ==
  ASSUME TypeOK, TypeOK', Ordered, NEW d \in Device, RunPut(d)
  PROVE  Ordered'
<1> SUFFICES ASSUME NEW e \in Device PROVE OrderedAt(e)'
  BY DEF Ordered
<1>1. OrderedAt(e)
  BY DEF Ordered
<1>2. UNCHANGED <<toAck, down, conn, issued>>
  BY DEF RunPut, counts
<1>3. CASE e # d
  <2>1. /\ events'[e] = events[e] /\ puts'[e] = puts[e] /\ calls'[e] = calls[e]
        /\ up'[e] = up[e]
    BY <1>3 DEF RunPut, TypeOK
  <2> QED BY <1>1, <1>2, <2>1 DEF OrderedAt
<1>4. CASE e = d
  <2> DEFINE v == Changed(e, Overlay(cache[e], toAck[e] \o Append(puts[e], Head(calls[e]))))
  <2>0. /\ calls[e] # <<>> /\ Head(calls[e]) \in Put /\ calls'[e] = Tail(calls[e])
        /\ puts'[e] = Append(puts[e], Head(calls[e]))
        /\ events'[e] = events[e] \o v
        /\ up'[e] = IF conn[e] = "up" THEN Append(up[e], Head(calls[e])) ELSE up[e]
    <3>1. calls[e] # <<>> /\ Head(calls[e]) \in Put
      BY <1>4, QueueTypes DEF RunPut
    <3>2. /\ calls' = [calls EXCEPT ![d] = Tail(@)]
          /\ puts' = [puts EXCEPT ![d] = Append(@, Head(calls[d]))]
          /\ up' = [up EXCEPT ![d] = IF conn[d] = "up" THEN Append(@, Head(calls[d])) ELSE @]
      BY DEF RunPut
    <3>3. events' = [events EXCEPT ![d] = @ \o v]
      BY <1>4 DEF RunPut
    <3> HIDE DEF v
    <3> QED BY <1>4, <3>1, <3>2, <3>3 DEF TypeOK
  <2>1. v \in Seq(Event) /\ Numbered(v) = {}
    <3>1. events'[e] \in Seq(Event) /\ events[e] \in Seq(Event)
      BY DEF TypeOK, Event
    <3> QED BY <2>0, <3>1, Appended
  <2> HIDE DEF v
  <2>3. Flow(events[e], toAck[e], puts'[e], calls'[e], NextId(issued[e]))
    BY <1>1, <2>0, QueueTypes, RunFlow DEF OrderedAt
  <2>4. Flow(events'[e], toAck[e], puts'[e], calls'[e], NextId(issued[e]))
    BY <2>0, <2>1, <2>3, QueueTypes, QuietFlow
  <2>5. Wire(down[e], up'[e], calls'[e], NextId(issued[e]))
    <3>1. /\ Ascending(calls[e]) /\ Before(calls[e], NextId(issued[e]))
          /\ Wire(down[e], up[e], calls[e], NextId(issued[e]))
      BY <1>1 DEF OrderedAt, Flow
    <3>2. Wire(down[e], Append(up[e], Head(calls[e])), Tail(calls[e]), NextId(issued[e]))
      BY <2>0, <3>1, QueueTypes, RunWire
    <3>3. Wire(down[e], up[e], Tail(calls[e]), NextId(issued[e]))
      BY <1>1, <2>0, QueueTypes, SkipFlow DEF OrderedAt
    <3> QED BY <2>0, <3>2, <3>3
  <2>6. ASSUME conn[e] = "up" PROVE Covered(puts'[e], down[e], up'[e])
    <3>1. up'[e] = Append(up[e], Head(calls[e])) /\ Covered(puts[e], down[e], up[e])
      BY <1>1, <2>0, <2>6 DEF OrderedAt
    <3>2. Covered(puts[e], down[e], up'[e])
      BY <2>0, <3>1, QueueTypes, CoveredAfter
    <3>3. Len(up[e]) + 1 \in Numbered(up'[e]) /\ up'[e][Len(up[e]) + 1].id = Head(calls[e]).id
      BY <2>0, <3>1, QueueTypes, Numbers DEF Numbered
    <3>4. \A i \in DOMAIN puts'[e] : \/ i \in DOMAIN puts[e] /\ puts'[e][i] = puts[e][i]
                                   \/ puts'[e][i] = Head(calls[e])
      BY <2>0, QueueTypes
    <3> QED BY <3>2, <3>3, <3>4 DEF Covered
  <2> QED BY <1>1, <1>2, <2>0, <2>4, <2>5, <2>6 DEF OrderedAt
<1> QED BY <1>3, <1>4

\* A listen is sent: it has no number.
LEMMA ListenWire ==
  ASSUME NEW D, NEW U \in Seq({Listen} \cup Put), NEW C, NEW N, Wire(D, U, C, N)
  PROVE  Wire(D, Append(U, Listen), C, N)
<1>1. Numbered(<<Listen>>) = {}
  BY Numbers DEF Numbered
<1>2. \A t : Before(<<Listen>>, t) /\ Before(t, <<Listen>>)
  BY <1>1 DEF Before
<1> QED BY <1>2, Extend, ExtendBefore DEF Wire

\* What is appended to a sequence of a set is of that set.
LEMMA LastOfMore ==
  ASSUME NEW S, NEW s \in Seq(S), NEW x, NEW w, w = <<x>> \/ w = <<>>, s \o w \in Seq(S)
  PROVE  w \in Seq(S)
<1>1. CASE w = <<x>>
  <2>1. (s \o <<x>>)[Len(s) + 1] = x /\ Len(s \o <<x>>) = Len(s) + 1 /\ Len(s) \in Nat
    OBVIOUS
  <2>2. x \in S
    BY <1>1, <2>1, ElementOfSeq
  <2> QED BY <1>1, <2>2
<1> QED BY <1>1

\* An observer's value and its listen have no number.
LEMMA RunObserveOrdered ==
  ASSUME Inductive, TypeOK, TypeOK', Ordered, NEW d \in Device, RunObserve(d)
  PROVE  Ordered'
<1> SUFFICES ASSUME NEW e \in Device PROVE OrderedAt(e)'
  BY DEF Ordered
<1>1. OrderedAt(e)
  BY DEF Ordered
<1>2. UNCHANGED <<toAck, puts, down, conn, issued>>
  BY DEF RunObserve, counts
<1>3. CASE e # d
  <2>1. events'[e] = events[e] /\ calls'[e] = calls[e] /\ up'[e] = up[e]
    BY <1>3 DEF RunObserve, TypeOK
  <2> QED BY <1>1, <1>2, <2>1 DEF OrderedAt
<1>4. CASE e = d
  <2> DEFINE x == [kind |-> "value", snap |-> View(e)]
             v == IF synced[e] THEN <<x>> ELSE <<>>
  <2>1. calls[e] # <<>> /\ calls'[e] = Tail(calls[e])
    BY <1>4 DEF RunObserve, TypeOK
  <2>2. x \in Event /\ "id" \notin DOMAIN x
    BY ViewType, StoreAssumption DEF Inductive, ValueEv, Event
  <2>3. v \in Seq(Event) /\ Numbered(v) = {} /\ events'[e] = events[e] \o v
    <3>1. events'[e] = IF synced[e] THEN Append(events[e], x) ELSE events[e]
      BY <1>4 DEF RunObserve, TypeOK
    <3> HIDE DEF x
    <3>2. CASE synced[e]
      <4>1. v = <<x>> /\ events'[e] = Append(events[e], x)
        BY <3>1, <3>2
      <4> HIDE DEF v
      <4> QED BY <2>2, <4>1, QueueTypes DEF Numbered
    <3>3. CASE ~ synced[e]
      <4>1. v = <<>> /\ events'[e] = events[e] /\ <<>> \in Seq(Event)
        BY <3>1, <3>3
      <4> HIDE DEF v
      <4> QED BY <4>1, QueueTypes, Empty
    <3> QED BY <3>2, <3>3
  <2> HIDE DEF v
  <2>4. up'[e] = up[e] \/ (conn[e] = "up" /\ up'[e] = Append(up[e], Listen))
    BY <1>4 DEF RunObserve, TypeOK
  <2>5. /\ Flow(events[e], toAck[e], puts[e], calls'[e], NextId(issued[e]))
        /\ Wire(down[e], up[e], calls'[e], NextId(issued[e]))
    BY <1>1, <2>1, QueueTypes, SkipFlow DEF OrderedAt
  <2>6. Flow(events'[e], toAck[e], puts[e], calls'[e], NextId(issued[e]))
    BY <2>3, <2>5, QueueTypes, QuietFlow
  <2>7. Wire(down[e], up'[e], calls'[e], NextId(issued[e]))
    BY <2>4, <2>5, QueueTypes, ListenWire
  <2>8. conn[e] = "up" => Covered(puts[e], down[e], up'[e])
    BY <1>1, <2>4, QueueTypes, CoveredAfter DEF OrderedAt
  <2> QED BY <1>1, <1>2, <2>4, <2>6, <2>7, <2>8 DEF OrderedAt
<1> QED BY <1>3, <1>4

\* A new connection sends every unanswered write again, in order.
LEMMA ConnectOrdered ==
  ASSUME TypeOK, TypeOK', Ordered, NEW d \in Device, Connect(d)
  PROVE  Ordered'
<1> SUFFICES ASSUME NEW e \in Device PROVE OrderedAt(e)'
  BY DEF Ordered
<1>1. OrderedAt(e)
  BY DEF Ordered
<1>2. UNCHANGED <<events, toAck, puts, calls, down, issued>>
  BY DEF Connect, client, counts
<1>3. CASE e # d
  <2>1. conn'[e] = conn[e] /\ up'[e] = up[e]
    BY <1>3 DEF Connect, TypeOK
  <2> QED BY <1>1, <1>2, <2>1 DEF OrderedAt
<1>4. CASE e = d
  <2>1. conn[e] = "down" /\ conn'[e] = "up" /\ up'[e] = Restored(e)
    BY <1>4 DEF Connect, TypeOK
  <2>2. up'[e] = puts[e] \/ up'[e] = <<Listen>> \o puts[e]
    <3>1. <<>> \o puts[e] = puts[e]
      BY QueueTypes
    <3> QED BY <2>1, <3>1 DEF Restored
  <2>3. up'[e] \in Seq({Listen} \cup Put)
    BY DEF TypeOK
  <2>4. Wire(down[e], up'[e], calls[e], NextId(issued[e])) /\ Covered(puts[e], down[e], up'[e])
    BY <1>1, <2>1, <2>2, <2>3, QueueTypes, RestoreWire DEF OrderedAt, Flow
  <2> QED BY <1>1, <1>2, <2>1, <2>4 DEF OrderedAt
<1> QED BY <1>3, <1>4

\* A lost connection takes both directions with it.
LEMMA DisconnectOrdered ==
  ASSUME TypeOK, Ordered, NEW d \in Device, Disconnect(d)
  PROVE  Ordered'
<1> SUFFICES ASSUME NEW e \in Device PROVE OrderedAt(e)'
  BY DEF Ordered
<1>1. OrderedAt(e)
  BY DEF Ordered
<1>2. UNCHANGED <<events, toAck, puts, calls, issued>>
  BY DEF Disconnect
<1>3. CASE e # d
  <2>1. conn'[e] = conn[e] /\ up'[e] = up[e] /\ down'[e] = down[e]
    BY <1>3 DEF Disconnect, TypeOK
  <2> QED BY <1>1, <1>2, <2>1 DEF OrderedAt
<1>4. CASE e = d
  <2>1. conn'[e] = "down" /\ up'[e] = <<>> /\ down'[e] = <<>>
    BY <1>4 DEF Disconnect, TypeOK
  <2>2. Wire(<<>>, <<>>, calls[e], NextId(issued[e]))
    BY Empty DEF Wire
  <2> QED BY <1>1, <1>2, <2>1, <2>2, Empty DEF OrderedAt
<1> QED BY <1>3, <1>4

\* A kill takes the device's queues; its next write is numbered on.
LEMMA RestartOrdered ==
  ASSUME TypeOK, Ordered, NEW d \in Device, Restart(d)
  PROVE  Ordered'
<1> SUFFICES ASSUME NEW e \in Device PROVE OrderedAt(e)'
  BY DEF Ordered
<1>1. OrderedAt(e)
  BY DEF Ordered
<1>3. CASE e # d
  <2>1. /\ conn'[e] = conn[e] /\ up'[e] = up[e] /\ down'[e] = down[e]
        /\ events'[e] = events[e] /\ toAck'[e] = toAck[e] /\ puts'[e] = puts[e]
    BY <1>3 DEF Restart, TypeOK
  <2>2. calls'[e] = calls[e] /\ issued' = issued
    BY <1>3 DEF Restart, TypeOK
  <2> QED BY <1>1, <2>1, <2>2 DEF OrderedAt
<1>4. CASE e = d
  <2>1. /\ conn'[e] = "down" /\ up'[e] = <<>> /\ down'[e] = <<>> /\ events'[e] = <<>>
        /\ toAck'[e] = <<>> /\ puts'[e] = <<>>
    BY <1>4 DEF Restart, TypeOK
  <2>2. calls'[e] = <<>>
    BY <1>4 DEF Restart, TypeOK
  <2>3. Flow(<<>>, <<>>, <<>>, <<>>, NextId(issued'[e])) /\ Wire(<<>>, <<>>, <<>>, NextId(issued'[e]))
    BY Empty DEF Flow, Wire
  <2> QED BY <2>1, <2>2, <2>3, Empty DEF OrderedAt
<1> QED BY <1>3, <1>4

\* Data and the answers to a listen have no number.
LEMMA ReceiveOrdered ==
  ASSUME TypeOK, TypeOK', Ordered, NEW d \in Device,
         ReceiveData(d) \/ ReceiveListenOk(d) \/ ReceiveDenial(d)
  PROVE  Ordered'
<1> SUFFICES ASSUME NEW e \in Device PROVE OrderedAt(e)'
  BY DEF Ordered
<1>1. OrderedAt(e)
  BY DEF Ordered
<1>2. UNCHANGED <<toAck, puts, calls, up, conn, issued>>
  BY DEF ReceiveData, ReceiveListenOk, ReceiveDenial, counts
<1>3. CASE e # d
  <2>1. events'[e] = events[e] /\ down'[e] = down[e]
    <3>1. CASE ReceiveData(d)
      BY <1>3, <3>1 DEF ReceiveData, TypeOK
    <3>2. CASE ReceiveListenOk(d) \/ ReceiveDenial(d)
      BY <1>3, <3>2 DEF ReceiveListenOk, ReceiveDenial, TypeOK
    <3> QED BY <3>1, <3>2
  <2> QED BY <1>1, <1>2, <2>1 DEF OrderedAt
<1>4. CASE e = d
  <2>1. /\ down[e] # <<>> /\ down'[e] = Tail(down[e])
        /\ Head(down[e]) \notin PutDone
    BY <1>4 DEF ReceiveData, ReceiveListenOk, ReceiveDenial, TypeOK, PutDone
  <2>2. Wire(down'[e], up[e], calls[e], NextId(issued[e]))
    BY <1>1, <2>1, QueueTypes, TakeWire DEF OrderedAt
  <2>3. conn[e] = "up" => Covered(puts[e], down'[e], up[e])
    BY <1>1, <2>1, QueueTypes, CoveredAfter DEF OrderedAt
  <2>4. Numbered(down[e]) = {} => Numbered(down'[e]) = {}
    BY <2>1, QueueTypes DEF Numbered
  <2>5. PICK v \in Seq(Event) : events'[e] = events[e] \o v /\ Numbered(v) = {}
    <3>1. CASE ReceiveListenOk(d) \/ ReceiveDenial(d)
      <4>1. events'[e] = events[e] \o <<>>
        BY <3>1, QueueTypes DEF ReceiveListenOk, ReceiveDenial
      <4>2. <<>> \in Seq(Event)
        OBVIOUS
      <4> QED BY <4>1, <4>2, Empty
    <3>2. CASE ReceiveData(d)
      <4> DEFINE view == Overlay(Received(d, Head(down[d])), toAck[d] \o puts[d])
                 x == [kind |-> "value", snap |-> view]
                 w == IF synced[d] THEN Changed(d, view) ELSE <<x>>
      <4>1. events' = [events EXCEPT ![d] = @ \o w]
        BY <3>2 DEF ReceiveData
      <4>2. (w = <<x>> \/ w = <<>>) /\ "id" \notin DOMAIN x
        BY DEF Changed
      <4> HIDE DEF w, x
      <4>3. events'[e] = events[e] \o w
        BY <1>4, <4>1 DEF TypeOK
      <4>4. events'[e] \in Seq(Event) /\ events[e] \in Seq(Event)
        BY DEF TypeOK, Event
      <4>5. w \in Seq(Event)
        BY <4>2, <4>3, <4>4, LastOfMore
      <4>6. Numbered(w) = {}
        BY <4>2 DEF Numbered
      <4> QED BY <4>3, <4>5, <4>6
    <3> QED BY <1>4, <3>1, <3>2
  <2>6. Flow(events'[e], toAck[e], puts[e], calls[e], NextId(issued[e]))
    BY <1>1, <2>5, QueueTypes, QuietFlow DEF OrderedAt
  <2> QED BY <1>1, <1>2, <2>2, <2>3, <2>4, <2>6 DEF OrderedAt
<1> QED BY <1>3, <1>4

\* The answer that arrives is the one of the oldest outstanding write.
LEMMA AnsweredFirst ==
  ASSUME TypeOK, Ordered, NEW e \in Device, ReceivePutDone(e)
  PROVE  /\ down[e] # <<>> /\ down'[e] = Tail(down[e]) /\ Head(down[e]) \in PutDone
         /\ conn[e] = "up" /\ Covered(Tail(puts[e]), Tail(down[e]), up[e])
         /\ puts[e] # <<>> /\ puts'[e] = Tail(puts[e]) /\ Head(puts[e]).id = Head(down[e]).id
         /\ toAck'[e] = Append(toAck[e], ToAck(Head(puts[e]), Head(down[e]).ok))
<1>0. OrderedAt(e)
  BY DEF Ordered
<1>1. /\ down[e] # <<>> /\ down'[e] = Tail(down[e]) /\ Head(down[e]).op = "putDone"
  BY DEF ReceivePutDone, TypeOK
<1>2. PICK i \in DOMAIN puts[e] :
         /\ puts[e][i].id = Head(down[e]).id
         /\ puts'[e] = Outstanding(e, i)
         /\ toAck'[e] = Append(toAck[e], ToAck(puts[e][i], Head(down[e]).ok))
  BY DEF ReceivePutDone, TypeOK
<1>3. Head(down[e]) \in PutDone
  <2>1. Head(down[e]) \in Answer
    BY <1>1, QueueTypes
  <2> QED BY <1>1, <2>1 DEF Answer, ListenOk, Denied, All, Update
<1>4. conn[e] = "up"
  <2>1. 1 \in Numbered(down[e])
    BY <1>1, <1>3, QueueTypes, Numbers DEF Numbered
  <2> QED BY <1>0, <2>1 DEF OrderedAt, TypeOK
<1>5. i = 1 /\ Covered(Tail(puts[e]), Tail(down[e]), up[e])
  <2>1. /\ Ascending(puts[e]) /\ Ascending(down[e]) /\ Before(down[e], up[e])
        /\ Covered(puts[e], down[e], up[e])
    BY <1>0, <1>4 DEF OrderedAt, Flow, Wire
  <2>2. /\ down[e] \in Seq(Answer) /\ up[e] \in Seq({Listen} \cup Put) /\ puts[e] \in Seq(Put)
    BY QueueTypes
  <2>3. i \in DOMAIN puts[e] /\ puts[e][i].id = Head(down[e]).id
    BY <1>2
  <2> QED BY <1>1, <1>3, <2>1, <2>2, <2>3, FirstAnswered
<1>6. puts[e] # <<>> /\ puts'[e] = Tail(puts[e]) /\ puts[e][i] = Head(puts[e])
  BY <1>2, <1>5, QueueTypes DEF Outstanding
<1> QED BY <1>1, <1>2, <1>3, <1>4, <1>5, <1>6

\* The answered write is the oldest outstanding one, and leaves them in order.
LEMMA ReceivePutDoneOrdered ==
  ASSUME TypeOK, TypeOK', Ordered, NEW d \in Device, ReceivePutDone(d)
  PROVE  Ordered'
<1> SUFFICES ASSUME NEW e \in Device PROVE OrderedAt(e)'
  BY DEF Ordered
<1>1. OrderedAt(e)
  BY DEF Ordered
<1>2. UNCHANGED <<events, calls, up, conn, issued>>
  BY DEF ReceivePutDone, counts
<1>3. CASE e # d
  <2>1. toAck'[e] = toAck[e] /\ puts'[e] = puts[e] /\ down'[e] = down[e]
    BY <1>3 DEF ReceivePutDone, TypeOK
  <2> QED BY <1>1, <1>2, <2>1 DEF OrderedAt
<1>4. CASE e = d
  <2> DEFINE x == ToAck(Head(puts[e]), Head(down[e]).ok)
  <2>1. /\ down[e] # <<>> /\ down'[e] = Tail(down[e]) /\ Head(down[e]) \in PutDone
        /\ conn[e] = "up" /\ Covered(puts'[e], down'[e], up[e])
        /\ puts[e] # <<>> /\ puts'[e] = Tail(puts[e]) /\ toAck'[e] = Append(toAck[e], x)
    BY <1>4, AnsweredFirst
  <2>2. x \in Answered /\ x.id = Head(puts[e]).id
    <3>1. Head(puts[e]) \in Put
      BY <2>1, QueueTypes
    <3> QED BY <2>1, <3>1 DEF ToAck, PutDone, Put, Answered
  <2> HIDE DEF x
  <2>3. Flow(events[e], toAck'[e], puts'[e], calls[e], NextId(issued[e]))
    BY <1>1, <2>1, <2>2, QueueTypes, AnswerFlow DEF OrderedAt
  <2>4. Wire(down'[e], up[e], calls[e], NextId(issued[e]))
    BY <1>1, <2>1, QueueTypes, TakeWire DEF OrderedAt
  <2> QED BY <1>1, <1>2, <2>1, <2>3, <2>4 DEF OrderedAt
<1> QED BY <1>3, <1>4

\* The completion block that is posted is the oldest acknowledgement's.
LEMMA AckPutOrdered ==
  ASSUME Inductive, TypeOK, TypeOK', Ordered, NEW d \in Device, AckPut(d)
  PROVE  Ordered'
<1> SUFFICES ASSUME NEW e \in Device PROVE OrderedAt(e)'
  BY DEF Ordered
<1>1. OrderedAt(e)
  BY DEF Ordered
<1>2. UNCHANGED <<puts, calls, down, up, conn, issued>>
  BY DEF AckPut, net, counts
<1>3. CASE e # d
  <2>1. toAck'[e] = toAck[e] /\ events'[e] = events[e]
    BY <1>3 DEF AckPut, TypeOK
  <2> QED BY <1>1, <1>2, <2>1 DEF OrderedAt
<1>4. CASE e = d
  <2> DEFINE p == Head(toAck[e])
             view == Overlay(cache[e], Tail(toAck[e]) \o puts[e])
             v == Changed(e, view)
             x == [kind |-> "done", id |-> p.id, key |-> p.key, ok |-> p.ok]
             y == [kind |-> "value", snap |-> view]
  <2>1. toAck[e] # <<>> /\ toAck'[e] = Tail(toAck[e])
    BY <1>4 DEF AckPut, TypeOK
  <2>2. events' = [events EXCEPT ![d] = (@ \o v) \o <<x>>]
    BY <1>4 DEF AckPut
  <2>3. x \in DoneEv /\ x.id = Head(toAck[e]).id
    <3>1. p \in Answered
      BY <2>1, QueueTypes
    <3> QED BY <3>1 DEF Answered, DoneEv
  <2>4. (v = <<y>> \/ v = <<>>) /\ "id" \notin DOMAIN y
    BY DEF Changed
  <2> HIDE DEF v, x, y
  <2>5. events'[e] = (events[e] \o v) \o <<x>>
    BY <1>4, <2>2 DEF TypeOK
  <2>6. v \in Seq(Event) /\ Numbered(v) = {}
    <3>1. Tail(toAck[e]) \o puts[e] \in Seq(Answered \cup Put)
      BY <2>1, QueueTypes, PendingType
    <3>2. view \in Snapshot
      BY <3>1, StoreAssumption, OverlaySnapshot DEF Inductive, TypeOK, VersionsOrdered, InOrder
    <3> HIDE DEF view
    <3>3. v \in Seq(Event)
      BY <3>2, ChangedType DEF v, Event
    <3> QED BY <2>4, <3>3 DEF Numbered
  <2>7. Flow(events[e] \o v, toAck[e], puts[e], calls[e], NextId(issued[e]))
    BY <1>1, <2>6, QueueTypes, QuietFlow DEF OrderedAt
  <2>8. events[e] \o v \in Seq(Event) /\ events'[e] = Append(events[e] \o v, x)
    <3>1. events[e] \in Seq(Event) /\ x \in Event
      BY <2>3, QueueTypes DEF Event
    <3> QED BY <2>5, <2>6, <3>1
  <2>9. Flow(events'[e], toAck'[e], puts[e], calls[e], NextId(issued[e]))
    BY <2>1, <2>3, <2>7, <2>8, QueueTypes, AckFlow
  <2> QED BY <1>1, <1>2, <2>9 DEF OrderedAt
<1> QED BY <1>3, <1>4

\* Serving a listen adds no number.
LEMMA ServerListenOrdered ==
  ASSUME TypeOK, TypeOK', Ordered, NEW d \in Device, ServerListen(d)
  PROVE  Ordered'
<1> SUFFICES ASSUME NEW e \in Device PROVE OrderedAt(e)'
  BY DEF Ordered
<1>1. OrderedAt(e)
  BY DEF Ordered
<1>2. UNCHANGED <<events, toAck, puts, calls, conn, issued>>
  BY DEF ServerListen, client, counts
<1>3. CASE e # d
  <2>1. up'[e] = up[e] /\ down'[e] = down[e]
    BY <1>3 DEF ServerListen, TypeOK
  <2> QED BY <1>1, <1>2, <2>1 DEF OrderedAt
<1>4. CASE e = d
  <2> DEFINE all == [op |-> "all", vers |-> [k \in Key |-> Len(hist[k])]]
             v == <<all, ListenOk>>
  <2>1. up[e] # <<>> /\ Head(up[e]) = Listen /\ up'[e] = Tail(up[e])
    BY <1>4 DEF ServerListen, TypeOK
  <2>2. down' = [down EXCEPT ![d] = @ \o v]
    BY DEF ServerListen
  <2>3. v \in Seq(Answer) /\ Numbered(v) = {}
    <3>1. all \in All
      BY LenProperties DEF TypeOK, All
    <3> HIDE DEF all
    <3>2. "id" \notin DOMAIN all /\ "id" \notin DOMAIN ListenOk
      BY <3>1, Numbers
    <3> QED BY <3>1, <3>2 DEF Answer, Numbered
  <2> HIDE DEF v
  <2>4. down'[e] = down[e] \o v
    BY <1>4, <2>2 DEF TypeOK
  <2>5. conn[e] = "up"
    BY <1>1, <2>1 DEF OrderedAt, TypeOK
  <2>6. Wire(down[e], up'[e], calls[e], NextId(issued[e])) /\ Covered(puts[e], down[e], up'[e])
    BY <1>1, <2>1, <2>5, QueueTypes, ServeWire, CoveredAfter DEF OrderedAt
  <2>7. up'[e] \in Seq({Listen} \cup Put)
    BY DEF TypeOK
  <2>8. Wire(down'[e], up'[e], calls[e], NextId(issued[e])) /\ Covered(puts[e], down'[e], up'[e])
    BY <2>3, <2>4, <2>6, <2>7, QueueTypes, QuietWire, CoveredAfter
  <2> QED BY <1>1, <1>2, <2>5, <2>8 DEF OrderedAt
<1> QED BY <1>3, <1>4

\* The database answers the oldest write on the connection; its data has no number.
LEMMA ServeOrdered ==
  ASSUME TypeOK, TypeOK', NEW e \in Device, OrderedAt(e),
         UNCHANGED <<events, toAck, puts, calls, conn, issued>>,
         up[e] # <<>>, Head(up[e]) \in Put, up'[e] = Tail(up[e]),
         NEW v \in Seq(Answer), Numbered(v) = {},
         NEW x \in PutDone, x.id = Head(up[e]).id,
         down'[e] = Append(down[e] \o v, x)
  PROVE  OrderedAt(e)'
<1>1. conn[e] = "up"
  BY DEF OrderedAt, TypeOK
<1>2. down[e] \o v \in Seq(Answer) /\ up'[e] \in Seq({Listen} \cup Put)
  BY QueueTypes, ConcatProperties DEF TypeOK
<1>3. /\ Wire(down[e] \o v, up[e], calls[e], NextId(issued[e]))
      /\ Covered(puts[e], down[e] \o v, up[e])
  BY <1>1, QueueTypes, QuietWire, CoveredAfter DEF OrderedAt
<1>4. Wire(down'[e], up'[e], calls[e], NextId(issued[e]))
  BY <1>2, <1>3, QueueTypes, ServeWire
<1>5. Covered(puts[e], down'[e], up'[e])
  BY <1>2, <1>3, QueueTypes, CoveredAfter
<1> QED BY <1>1, <1>4, <1>5 DEF OrderedAt

\* The database accepts the oldest write on a connection, and answers it.
LEMMA ServerAcceptOrdered ==
  ASSUME TypeOK, TypeOK', Ordered, NEW d \in Device, ServerAccept(d)
  PROVE  Ordered'
<1> SUFFICES ASSUME NEW e \in Device PROVE OrderedAt(e)'
  BY DEF Ordered
<1>1. OrderedAt(e)
  BY DEF Ordered
<1>2. UNCHANGED <<events, toAck, puts, calls, conn, issued>>
  BY DEF ServerAccept, client, counts
<1> DEFINE p    == Head(up[d])
           data == [op |-> "update", key |-> p.key, ver |-> Len(hist[p.key]) + 1]
           done == [op |-> "putDone", id |-> p.id, ok |-> TRUE]
           v    == IF subscribed[e] THEN <<data>> ELSE <<>>
<1>3. up[d] # <<>> /\ p \in Put
  BY QueueTypes DEF ServerAccept
<1>4. data \in Update /\ done \in PutDone /\ done.id = p.id
  <2>1. Len(hist[p.key]) \in Nat
    BY <1>3, LenProperties DEF TypeOK, Put
  <2> QED BY <1>3, <2>1 DEF Put, Update, PutDone
<1>5. down'[e] = (IF subscribed[e] THEN Append(down[e], data) ELSE down[e])
                   \o (IF e = d THEN <<done>> ELSE <<>>)
  BY DEF ServerAccept
<1>6. up'[e] = IF e = d THEN Tail(up[e]) ELSE up[e]
  BY DEF ServerAccept, TypeOK
<1> HIDE DEF p, data, done
<1>7. v \in Seq(Answer) /\ Numbered(v) = {}
  <2>1. data \in Answer /\ "id" \notin DOMAIN data
    BY <1>4, Numbers DEF Answer
  <2>2. CASE subscribed[e]
    <3>1. v = <<data>>
      BY <2>2
    <3> QED BY <2>1, <3>1 DEF Numbered
  <2>3. CASE ~ subscribed[e]
    <3>1. v = <<>>
      BY <2>3
    <3> QED BY <3>1, Empty
  <2> QED BY <2>2, <2>3
<1>8. down'[e] = (down[e] \o v) \o (IF e = d THEN <<done>> ELSE <<>>)
  <2> DEFINE sent == IF subscribed[e] THEN Append(down[e], data) ELSE down[e]
  <2>1. sent = down[e] \o v
    <3>1. down[e] \in Seq(Answer) /\ data \in Answer
      BY <1>4, QueueTypes DEF Answer
    <3>2. Append(down[e], data) = down[e] \o <<data>> /\ down[e] = down[e] \o <<>>
      BY <3>1
    <3> QED BY <3>2
  <2>2. down'[e] = sent \o (IF e = d THEN <<done>> ELSE <<>>)
    BY <1>5
  <2> HIDE DEF sent, v
  <2> QED BY <2>1, <2>2
<1> HIDE DEF v
<1>9. CASE e = d
  <2>1. down'[e] = Append(down[e] \o v, done)
    BY <1>4, <1>7, <1>8, <1>9, QueueTypes DEF Answer
  <2> QED BY <1>1, <1>2, <1>3, <1>4, <1>6, <1>7, <1>9, <2>1, ServeOrdered DEF p
<1>10. CASE e # d
  <2>1. down'[e] = down[e] \o v /\ up'[e] = up[e]
    BY <1>6, <1>7, <1>8, <1>10, QueueTypes
  <2>2. Wire(down'[e], up[e], calls[e], NextId(issued[e]))
    BY <1>1, <1>7, <2>1, QueueTypes, QuietWire DEF OrderedAt
  <2>3. conn[e] = "up" => Covered(puts[e], down'[e], up[e])
    BY <1>1, <1>7, <2>1, QueueTypes, CoveredAfter DEF OrderedAt
  <2>4. Numbered(down[e]) = {} => Numbered(down'[e]) = {}
    BY <1>7, <2>1, QueueTypes DEF Numbered
  <2> QED BY <1>1, <1>2, <2>1, <2>2, <2>3, <2>4 DEF OrderedAt
<1> QED BY <1>9, <1>10

\* The database refuses the oldest write on a connection.
LEMMA ServerRejectOrdered ==
  ASSUME TypeOK, TypeOK', Ordered, NEW d \in Device, ServerReject(d)
  PROVE  Ordered'
<1> SUFFICES ASSUME NEW e \in Device PROVE OrderedAt(e)'
  BY DEF Ordered
<1>1. OrderedAt(e)
  BY DEF Ordered
<1>2. UNCHANGED <<events, toAck, puts, calls, conn, issued>>
  BY DEF ServerReject, client
<1>3. CASE e # d
  <2>1. up'[e] = up[e] /\ down'[e] = down[e]
    BY <1>3 DEF ServerReject, TypeOK
  <2> QED BY <1>1, <1>2, <2>1 DEF OrderedAt
<1>4. CASE e = d
  <2> DEFINE x == [op |-> "putDone", id |-> Head(up[d]).id, ok |-> FALSE]
  <2>1. up[e] # <<>> /\ Head(up[e]) \in Put /\ up'[e] = Tail(up[e])
    <3>1. up[e] # <<>> /\ Head(up[e]) # Listen
      BY <1>4 DEF ServerReject
    <3>2. up'[e] = Tail(up[e])
      BY <1>4 DEF ServerReject, TypeOK
    <3> QED BY <3>1, <3>2, QueueTypes
  <2>2. x \in PutDone /\ x.id = Head(up[e]).id
    BY <1>4, <2>1 DEF Put, PutDone
  <2>3. down' = [down EXCEPT ![d] = Append(@, x)]
    BY DEF ServerReject
  <2> HIDE DEF x
  <2>4. down'[e] = Append(down[e] \o <<>>, x)
    BY <1>4, <2>3, QueueTypes DEF TypeOK
  <2>5. <<>> \in Seq(Answer)
    OBVIOUS
  <2> QED BY <1>1, <1>2, <2>1, <2>2, <2>4, <2>5, Empty, ServeOrdered
<1> QED BY <1>3, <1>4

\* Nor has the message that ends a listen.
LEMMA ServerDenyOrdered ==
  ASSUME TypeOK, TypeOK', Ordered, NEW d \in Device, ServerDeny(d)
  PROVE  Ordered'
<1> SUFFICES ASSUME NEW e \in Device PROVE OrderedAt(e)'
  BY DEF Ordered
<1>1. OrderedAt(e)
  BY DEF Ordered
<1>2. UNCHANGED <<events, toAck, puts, calls, conn, issued>>
  BY DEF ServerDeny, client
<1>3. CASE e # d
  <2>1. up'[e] = up[e] /\ down'[e] = down[e]
    BY <1>3 DEF ServerDeny, TypeOK
  <2> QED BY <1>1, <1>2, <2>1 DEF OrderedAt
<1>4. CASE e = d
  <2> DEFINE v == <<Denied>>
  <2>1. \/ up'[e] = up[e]
        \/ up[e] # <<>> /\ Head(up[e]) = Listen /\ up'[e] = Tail(up[e])
    BY <1>4 DEF ServerDeny, TypeOK
  <2>2. v \in Seq(Answer) /\ Numbered(v) = {}
    BY Numbers DEF Answer, Numbered
  <2>3. down' = [down EXCEPT ![d] = Append(@, Denied)]
    BY DEF ServerDeny
  <2>4. down'[e] = down[e] \o v
    <3>1. down'[e] = Append(down[e], Denied)
      BY <1>4, <2>3 DEF TypeOK
    <3>2. down[e] \in Seq(Answer) /\ Denied \in Answer
      BY QueueTypes DEF Answer
    <3> QED BY <3>1, <3>2
  <2> HIDE DEF v
  <2>5. /\ Wire(down[e], up'[e], calls[e], NextId(issued[e]))
        /\ conn[e] = "up" => Covered(puts[e], down[e], up'[e])
        /\ conn[e] = "down" => up'[e] = <<>>
    BY <1>1, <2>1, QueueTypes, ServeWire, CoveredAfter DEF OrderedAt
  <2>6. up'[e] \in Seq({Listen} \cup Put)
    BY DEF TypeOK
  <2>7. /\ Wire(down'[e], up'[e], calls[e], NextId(issued[e]))
        /\ conn[e] = "up" => Covered(puts[e], down'[e], up'[e])
    BY <2>2, <2>4, <2>5, <2>6, QueueTypes, QuietWire, CoveredAfter
  <2>8. Numbered(down[e]) = {} => Numbered(down'[e]) = {}
    BY <2>2, <2>4, QueueTypes DEF Numbered
  <2> QED BY <1>1, <1>2, <2>5, <2>7, <2>8 DEF OrderedAt
<1> QED BY <1>3, <1>4

\* No action disorders the queues.
LEMMA OrderedStep ==
  ASSUME Inductive, Inductive', Ordered, [Next]_vars
  PROVE  Ordered'
<1>0. TypeOK /\ TypeOK'
  BY DEF Inductive
<1>1. ASSUME NEW d \in Device, NEW k \in Key, NEW v \in Value, SetValue(d, k, v)
      PROVE  Ordered'
  BY <1>0, <1>1, SetValueOrdered
<1>2. ASSUME NEW d \in Device, RetrieveAll(d) PROVE Ordered'
  BY <1>0, <1>2, RetrieveAllOrdered
<1>3. ASSUME NEW d \in Device, HandleValue(d) \/ HandleDone(d) PROVE Ordered'
  BY <1>0, <1>3, HandleOrdered
<1>4. ASSUME NEW d \in Device, RunPut(d) PROVE Ordered'
  BY <1>0, <1>4, RunPutOrdered
<1>5. ASSUME NEW d \in Device, RunObserve(d) PROVE Ordered'
  BY <1>0, <1>5, RunObserveOrdered
<1>6. ASSUME NEW d \in Device, Connect(d) PROVE Ordered'
  BY <1>0, <1>6, ConnectOrdered
<1>7. ASSUME NEW d \in Device, ReceiveData(d) \/ ReceiveListenOk(d) \/ ReceiveDenial(d)
      PROVE  Ordered'
  BY <1>0, <1>7, ReceiveOrdered
<1>8. ASSUME NEW d \in Device, ReceivePutDone(d) PROVE Ordered'
  BY <1>0, <1>8, ReceivePutDoneOrdered
<1>9. ASSUME NEW d \in Device, AckPut(d) PROVE Ordered'
  BY <1>0, <1>9, AckPutOrdered
<1>10. ASSUME NEW d \in Device, ServerListen(d) PROVE Ordered'
  BY <1>0, <1>10, ServerListenOrdered
<1>11. ASSUME NEW d \in Device, ServerAccept(d) PROVE Ordered'
  BY <1>0, <1>11, ServerAcceptOrdered
<1>12. ASSUME NEW d \in Device, ServerReject(d) PROVE Ordered'
  BY <1>0, <1>12, ServerRejectOrdered
<1>13. ASSUME NEW d \in Device, Disconnect(d) PROVE Ordered'
  BY <1>0, <1>13, DisconnectOrdered
<1>14. ASSUME NEW d \in Device, Restart(d) PROVE Ordered'
  BY <1>0, <1>14, RestartOrdered
<1>15. ASSUME NEW d \in Device, ServerDeny(d) PROVE Ordered'
  BY <1>0, <1>15, ServerDenyOrdered
<1>16. CASE UNCHANGED vars
  BY <1>16 DEF vars, net, client, counts, Ordered, OrderedAt
<1> QED
  BY <1>1, <1>2, <1>3, <1>4, <1>5, <1>6, <1>7, <1>8, <1>9, <1>10, <1>11, <1>12,
     <1>13, <1>14, <1>15, <1>16 DEF Next, Infrastructure, Mishap

\* Two ascending sequences, one before the other.
LEMMA Joined ==
  ASSUME NEW S, NEW T, NEW s \in Seq(S), NEW t \in Seq(T), Ascending(s), Ascending(t), Before(s, t)
  PROVE  Ascending(s \o t)
BY DEF Ascending, Before, Numbered

\* Two sequences before a third.
LEMMA JoinedBefore ==
  ASSUME NEW S, NEW T, NEW s \in Seq(S), NEW t \in Seq(T), NEW u, Before(s, u), Before(t, u)
  PROVE  Before(s \o t, u)
BY DEF Before, Numbered

\* The flow of a device's writes is ascending as a whole.
LEMMA FlowAscends ==
  ASSUME NEW E \in Seq(Event), NEW T \in Seq(Answered), NEW P \in Seq(Put),
         NEW C \in Seq({Observe} \cup Put), NEW N, Flow(E, T, P, C, N)
  PROVE  Ascending(E \o T \o P \o C)
<1> DEFINE X == Event \cup Answered \cup Put \cup {Observe}
<1>1. E \in Seq(X) /\ T \in Seq(X) /\ P \in Seq(X) /\ C \in Seq(X)
  BY SeqMonotonic
<1> HIDE DEF X
<1>2. Ascending(E \o T) /\ Before(E \o T, P) /\ Before(E \o T, C) /\ E \o T \in Seq(X)
  BY <1>1, Joined, JoinedBefore, ConcatProperties DEF Flow
<1>3. Ascending(E \o T \o P) /\ Before(E \o T \o P, C) /\ E \o T \o P \in Seq(X)
  BY <1>1, <1>2, Joined, JoinedBefore, ConcatProperties DEF Flow
<1> QED BY <1>1, <1>3, Joined DEF Flow

\* The completion blocks of a device run in the order of its setValue calls, and a
\* write is in one place only: for any number of devices, writes, lost connections,
\* refusals and kills (FPersistentConnection resends its outstanding puts in order).
THEOREM CompletionsStayInOrder == Spec => []CompletionsInOrder
<1>1. Init => Ordered
  BY OrderedInit
<1>2. Inductive /\ Inductive' /\ Ordered /\ [Next]_vars => Ordered'
  BY OrderedStep
<1>3. Inductive /\ Ordered => CompletionsInOrder
  BY QueueTypes, FlowAscends DEF Inductive, Ordered, OrderedAt, CompletionsInOrder, Pipeline
<1> QED
  BY <1>1, <1>2, <1>3, InductiveInvariant, PTL DEF Spec

-----------------------------------------------------------------------------
(* Histories and the writes that wait *)

\* The writes of d in the history of a record.
By(h, d) == {n \in DOMAIN h : h[n].by = d}

\* Is the write q on the record k among the waiting ones?
Waits(s, k, q) == \E i \in Numbered(s) : s[i].id = q /\ s[i].key = k

\* A write that is applied, and newer than one that still waits, waits itself: it
\* will be applied again, after the older one.
Behind(h, d, k, s) ==
  \A n \in By(h, d), i \in Numbered(s) : s[i].id < h[n].id => Waits(s, k, h[n].id)

\* If the last applied write of d is not its newest applied one, the newest waits.
Newest(h, d, k, s) ==
  \A m, n \in By(h, d) :
     (\A l \in By(h, d) : l <= n) /\ h[n].id < h[m].id => Waits(s, k, h[m].id)

\* What is on the connection is outstanding.
Within(U, P) == \A i \in Numbered(U) : \E j \in DOMAIN P : P[j] = U[i]

\* What is applied is older than the calls, and has been issued.
Older(h, d, C, n) ==
  \A m \in By(h, d) : h[m].id <= n /\ \A i \in Numbered(C) : h[m].id < C[i].id

\* What travels up.
Sending == {Listen} \cup Put

\* The numbered messages on their way up are puts.
LEMMA SendingIds ==
  ASSUME NEW s \in Seq(Sending)
  PROVE  \A i \in Numbered(s) : i \in 1..Len(s) /\ s[i] \in Put /\ s[i].id \in Nat
BY Numbers DEF Sending, Numbered

\* The positions and numbers of a device's writes.
LEMMA HistIds ==
  ASSUME NEW h \in Seq(Write), NEW d
  PROVE  \A n \in By(h, d) : n \in 1..Len(h) /\ h[n].id \in Nat
<1>1. \A n \in By(h, d) : n \in 1..Len(h)
  BY DEF By
<1>2. \A n \in By(h, d) : h[n] \in Write
  BY <1>1, ElementOfSeq
<1> QED BY <1>1, <1>2 DEF Write, WriteId

\* What waits, when one more is sent.
LEMMA WaitsMore ==
  ASSUME NEW s \in Seq(Sending), NEW x \in Sending, NEW k, NEW q
  PROVE  /\ Waits(s, k, q) => Waits(Append(s, x), k, q)
         /\ x \in Put /\ x.id = q /\ x.key = k => Waits(Append(s, x), k, q)
<1>1. Len(s) + 1 \in DOMAIN Append(s, x) /\ Append(s, x)[Len(s) + 1] = x
  OBVIOUS
<1>2. \A i \in Numbered(s) : i \in Numbered(Append(s, x)) /\ Append(s, x)[i] = s[i]
  BY DEF Numbered
<1>3. x \in Put => Len(s) + 1 \in Numbered(Append(s, x))
  BY <1>1, Numbers DEF Numbered
<1> QED BY <1>1, <1>2, <1>3 DEF Waits

\* ... and when the first, another one, is taken.
LEMMA WaitsTail ==
  ASSUME NEW s \in Seq(Sending), s # <<>>, NEW k, NEW q, Waits(s, k, q),
         Head(s) = Listen \/ Head(s).id # q \/ Head(s).key # k
  PROVE  Waits(Tail(s), k, q)
<1>1. PICK i \in Numbered(s) : s[i].id = q /\ s[i].key = k
  BY DEF Waits
<1>2. i # 1 /\ i \in 1..Len(s) /\ "id" \in DOMAIN s[i]
  BY <1>1, Numbers DEF Numbered
<1>3. i - 1 \in Numbered(Tail(s)) /\ Tail(s)[i - 1] = s[i]
  BY <1>2 DEF Numbered
<1> QED BY <1>1, <1>3 DEF Waits

\* The numbered elements of a tail.
LEMMA TailNumbered ==
  ASSUME NEW S, NEW s \in Seq(S), s # <<>>, NEW i \in Numbered(Tail(s))
  PROVE  i + 1 \in Numbered(s) /\ Tail(s)[i] = s[i + 1] /\ i \in Nat /\ i >= 1
BY DEF Numbered

\* A put newer than all applied writes may follow.
LEMMA BehindAppend ==
  ASSUME NEW h \in Seq(Write), NEW d, NEW k, NEW s \in Seq(Sending), NEW x \in Sending,
         Behind(h, d, k, s), x \in Put => \A n \in By(h, d) : h[n].id <= x.id
  PROVE  Behind(h, d, k, Append(s, x))
<1> SUFFICES ASSUME NEW n \in By(h, d), NEW i \in Numbered(Append(s, x)),
                    Append(s, x)[i].id < h[n].id
             PROVE  Waits(Append(s, x), k, h[n].id)
  BY DEF Behind
<1>1. (i \in Numbered(s) /\ Append(s, x)[i] = s[i]) \/ (i = Len(s) + 1 /\ Append(s, x)[i] = x)
  BY DEF Numbered
<1>2. CASE i \in Numbered(s) /\ Append(s, x)[i] = s[i]
  BY <1>2, WaitsMore DEF Behind
<1>3. CASE i = Len(s) + 1 /\ Append(s, x)[i] = x
  <2>1. x \in Put
    BY <1>3, Numbers DEF Numbered, Sending
  <2> QED BY <1>3, <2>1, HistIds, Numbers
<1> QED BY <1>1, <1>2, <1>3

\* The waiting writes without the oldest.
LEMMA BehindTail ==
  ASSUME NEW h \in Seq(Write), NEW d, NEW k, NEW s \in Seq(Sending), s # <<>>,
         Ascending(s), Behind(h, d, k, s)
  PROVE  Behind(h, d, k, Tail(s))
<1> SUFFICES ASSUME NEW n \in By(h, d), NEW i \in Numbered(Tail(s)), Tail(s)[i].id < h[n].id
             PROVE  Waits(Tail(s), k, h[n].id)
  BY DEF Behind
<1>1. i + 1 \in Numbered(s) /\ Tail(s)[i] = s[i + 1] /\ i >= 1 /\ i \in Nat
  BY TailNumbered
<1>2. Waits(s, k, h[n].id)
  BY <1>1 DEF Behind
<1>3. Head(s) # Listen => 1 \in Numbered(s) /\ Head(s) = s[1]
  BY Numbers DEF Sending, Numbered
<1>4. Head(s) # Listen => Head(s).id # h[n].id
  BY <1>1, <1>3, SendingIds, HistIds DEF Ascending
<1> QED BY <1>2, <1>4, WaitsTail

\* A write to another record, or a listen, is taken.
LEMMA NewestTail ==
  ASSUME NEW h \in Seq(Write), NEW d, NEW k, NEW s \in Seq(Sending), s # <<>>,
         Head(s) = Listen \/ Head(s).key # k, Newest(h, d, k, s)
  PROVE  Newest(h, d, k, Tail(s))
BY WaitsTail DEF Newest

\* One more is sent.
LEMMA NewestAppend ==
  ASSUME NEW h \in Seq(Write), NEW d, NEW k, NEW s \in Seq(Sending), NEW x \in Sending,
         Newest(h, d, k, s)
  PROVE  Newest(h, d, k, Append(s, x))
BY WaitsMore DEF Newest

\* A write of the device is applied.
LEMMA ByAppend ==
  ASSUME NEW h \in Seq(Write), NEW d, NEW w \in Write
  PROVE  /\ \A n \in By(h, d) : Append(h, w)[n] = h[n]
         /\ By(Append(h, w), d) = IF w.by = d THEN By(h, d) \cup {Len(h) + 1} ELSE By(h, d)
         /\ Append(h, w)[Len(h) + 1] = w
BY DEF By

\* A write of another device is applied.
LEMMA OtherApplies ==
  ASSUME NEW h \in Seq(Write), NEW d, NEW w \in Write, w.by # d, NEW k, NEW s, NEW C, NEW n
  PROVE  /\ Behind(h, d, k, s) => Behind(Append(h, w), d, k, s)
         /\ Newest(h, d, k, s) => Newest(Append(h, w), d, k, s)
         /\ Older(h, d, C, n) => Older(Append(h, w), d, C, n)
<1> DEFINE g == Append(h, w)
<1>1. By(g, d) = By(h, d)
  BY ByAppend
<1>2. \A i \in By(h, d) : g[i] = h[i]
  BY DEF By
<1> HIDE DEF g
<1>3. Behind(h, d, k, s) => Behind(g, d, k, s)
  BY <1>1, <1>2 DEF Behind
<1>4. Newest(h, d, k, s) => Newest(g, d, k, s)
  BY <1>1, <1>2 DEF Newest
<1>5. Older(h, d, C, n) => Older(g, d, C, n)
  BY <1>1, <1>2 DEF Older
<1> QED BY <1>3, <1>4, <1>5 DEF g

\* The device's oldest write on the connection is applied: every newer one that
\* was applied before waits behind it.
LEMMA AppliesOwn ==
  ASSUME NEW h \in Seq(Write), NEW d, NEW k, NEW s \in Seq(Sending), s # <<>>, Head(s) \in Put,
         NEW P \in Seq(Put), Ascending(s), Within(s, P),
         Head(s).key = k, NEW w \in Write, w.by = d, w.id = Head(s).id,
         Behind(h, d, k, s), Behind(h, d, k, P)
  PROVE  /\ Behind(Append(h, w), d, k, Tail(s)) /\ Newest(Append(h, w), d, k, Tail(s))
         /\ Behind(Append(h, w), d, k, P) /\ Newest(Append(h, w), d, k, P)
<1> DEFINE g == Append(h, w)
<1>0. g \in Seq(Write) /\ P \in Seq(Sending)
  BY SeqMonotonic DEF Sending
<1>1. /\ \A n \in By(h, d) : g[n] = h[n] /\ n \in 1..Len(h)
      /\ By(g, d) = By(h, d) \cup {Len(h) + 1} /\ g[Len(h) + 1] = w /\ Len(h) \in Nat
  BY ByAppend, HistIds
<1>2. 1 \in Numbered(s) /\ s[1] = Head(s)
  BY Numbers DEF Numbered
<1>3. PICK j \in DOMAIN P : P[j] = Head(s)
  BY <1>2 DEF Within
<1>4. j \in Numbered(P)
  BY <1>3, Numbers DEF Numbered
<1> HIDE DEF g
<1>5. Behind(g, d, k, Tail(s))
  <2> SUFFICES ASSUME NEW n \in By(g, d), NEW i \in Numbered(Tail(s)), Tail(s)[i].id < g[n].id
               PROVE  Waits(Tail(s), k, g[n].id)
    BY DEF Behind
  <2>1. i + 1 \in Numbered(s) /\ Tail(s)[i] = s[i + 1] /\ i >= 1 /\ i \in Nat
    BY TailNumbered
  <2>2. n # Len(h) + 1
    BY <1>1, <1>2, <2>1, SendingIds DEF Ascending
  <2>3. n \in By(h, d) /\ g[n] = h[n]
    BY <1>1, <2>2
  <2> QED BY <2>3, BehindTail DEF Behind
<1>6. \A m \in By(h, d) : Head(s).id < h[m].id => Waits(s, k, h[m].id) /\ Waits(P, k, h[m].id)
  BY <1>2, <1>3, <1>4 DEF Behind
<1>7. \A m \in By(h, d) : Head(s).id < h[m].id => Waits(Tail(s), k, h[m].id)
  BY <1>2, <1>6, WaitsTail, SendingIds, HistIds
<1>8. \A m, n \in By(g, d) : (\A l \in By(g, d) : l <= n) => n = Len(h) + 1
  BY <1>1
<1>9. \A m \in By(g, d) : Head(s).id < g[m].id => m \in By(h, d) /\ g[m] = h[m]
  BY <1>1, <1>2, SendingIds
<1>10. Newest(g, d, k, Tail(s)) /\ Newest(g, d, k, P)
  BY <1>1, <1>6, <1>7, <1>8, <1>9 DEF Newest
<1>11. Behind(g, d, k, P)
  <2> SUFFICES ASSUME NEW n \in By(g, d), NEW i \in Numbered(P), P[i].id < g[n].id
               PROVE  Waits(P, k, g[n].id)
    BY DEF Behind
  <2>1. CASE n = Len(h) + 1
    BY <1>1, <1>3, <1>4, <2>1 DEF Waits
  <2>2. CASE n # Len(h) + 1
    BY <1>1, <2>2 DEF Behind
  <2> QED BY <2>1, <2>2
<1> QED BY <1>5, <1>10, <1>11 DEF g

\* ... and is older than the calls.
LEMMA AppliesOlder ==
  ASSUME NEW h \in Seq(Write), NEW d, NEW s \in Seq(Sending), s # <<>>, Head(s) \in Put,
         NEW C \in Seq({Observe} \cup Put), NEW n \in Nat, Before(s, C), Before(s, NextId(n)),
         NEW w \in Write, w.id = Head(s).id, Older(h, d, C, n)
  PROVE  Older(Append(h, w), d, C, n)
<1>1. 1 \in Numbered(s) /\ s[1] = Head(s) /\ s[1].id \in Nat
  BY Numbers DEF Numbered
<1>2. w.id <= n
  BY <1>1 DEF Before, NextId, Numbered
<1>3. \A i \in Numbered(C) : w.id < C[i].id
  BY <1>1 DEF Before
<1>4. ASSUME NEW m \in By(Append(h, w), d)
      PROVE  Append(h, w)[m] = w \/ (m \in By(h, d) /\ Append(h, w)[m] = h[m])
  BY DEF By
<1> DEFINE g == Append(h, w)
<1> HIDE DEF g
<1>5. \A m \in By(g, d) : g[m] = w \/ (m \in By(h, d) /\ g[m] = h[m])
  BY <1>4 DEF g
<1>6. \A m \in By(g, d) : g[m].id <= n /\ \A i \in Numbered(C) : g[m].id < C[i].id
  BY <1>2, <1>3, <1>5 DEF Older
<1> QED BY <1>6 DEF Older, g

\* The oldest outstanding write is answered: it is not on the connection again.
LEMMA AnsweredOlder ==
  ASSUME NEW D \in Seq(Answer), NEW U \in Seq(Sending), NEW P \in Seq(Put), P # <<>>, D # <<>>,
         Head(D) \in PutDone, Head(P).id = Head(D).id, Before(D, U)
  PROVE  /\ Head(P).id \in Nat
         /\ \A i \in Numbered(U) : U[i].id \in Nat /\ Head(P).id < U[i].id
<1>1. Head(P) \in Put
  OBVIOUS
<1>2. 1 \in Numbered(D) /\ D[1] = Head(D)
  BY Numbers DEF Numbered
<1> QED BY <1>1, <1>2, Numbers, SendingIds DEF Before

\* ... so that what is on the connection stays outstanding.
LEMMA AnswerWithin ==
  ASSUME NEW D \in Seq(Answer), NEW U \in Seq(Sending), NEW P \in Seq(Put), P # <<>>, D # <<>>,
         Head(D) \in PutDone, Head(P).id = Head(D).id, Before(D, U), Within(U, P)
  PROVE  Within(U, Tail(P))
<1> SUFFICES ASSUME NEW i \in Numbered(U)
             PROVE  \E j \in DOMAIN Tail(P) : Tail(P)[j] = U[i]
  BY DEF Within
<1>1. PICK j \in DOMAIN P : P[j] = U[i]
  BY DEF Within
<1>2. j # 1
  BY <1>1, AnsweredOlder
<1>3. j - 1 \in DOMAIN Tail(P) /\ Tail(P)[j - 1] = P[j]
  BY <1>2
<1> QED BY <1>1, <1>3

\* The answered write is waited for no longer.
LEMMA AnswerResends ==
  ASSUME NEW h \in Seq(Write), NEW d, NEW k, NEW D \in Seq(Answer), NEW U \in Seq(Sending),
         NEW P \in Seq(Put), P # <<>>, D # <<>>, Head(D) \in PutDone, Head(P).id = Head(D).id,
         Ascending(P), Before(D, U)
  PROVE  /\ Behind(h, d, k, P) => Behind(h, d, k, Tail(P))
         /\ Newest(h, d, k, P) /\ Newest(h, d, k, U) => Newest(h, d, k, Tail(P))
<1>1. P \in Seq(Sending)
  BY SeqMonotonic DEF Sending
<1>2. Behind(h, d, k, P) => Behind(h, d, k, Tail(P))
  BY <1>1, BehindTail
<1>3. \A q : Waits(U, k, q) /\ Waits(P, k, q) => Waits(Tail(P), k, q)
  <2> SUFFICES ASSUME NEW q, Waits(U, k, q), Waits(P, k, q) PROVE Waits(Tail(P), k, q)
    OBVIOUS
  <2>1. Head(P).id # q
    BY AnsweredOlder DEF Waits
  <2> QED BY <1>1, <2>1, WaitsTail
<1>4. Newest(h, d, k, P) /\ Newest(h, d, k, U) => Newest(h, d, k, Tail(P))
  BY <1>3 DEF Newest
<1> QED BY <1>2, <1>4

\* A new connection is given the outstanding writes.
LEMMA RestoreResends ==
  ASSUME NEW h, NEW d, NEW k, NEW P \in Seq(Put), NEW U \in Seq(Sending),
         U = P \/ U = <<Listen>> \o P
  PROVE  /\ Within(U, P)
         /\ Behind(h, d, k, P) => Behind(h, d, k, U)
         /\ Newest(h, d, k, P) => Newest(h, d, k, U)
<1>1. \A i \in Numbered(U) : \E j \in Numbered(P) : P[j] = U[i]
  <2> SUFFICES ASSUME NEW i \in Numbered(U) PROVE \E j \in Numbered(P) : P[j] = U[i]
    OBVIOUS
  <2>1. CASE U = P
    BY <2>1
  <2>2. CASE U = <<Listen>> \o P
    <3>1. U[1] = Listen /\ i \in 1..Len(U) /\ Len(U) = Len(P) + 1 /\ "id" \in DOMAIN U[i]
      BY <2>2 DEF Numbered
    <3>2. i # 1
      BY <3>1, Numbers
    <3>3. i - 1 \in DOMAIN P /\ P[i - 1] = U[i]
      BY <2>2, <3>1, <3>2
    <3> QED BY <3>1, <3>3 DEF Numbered
  <2> QED BY <2>1, <2>2
<1>2. \A j \in Numbered(P) : \E i \in Numbered(U) : U[i] = P[j]
  <2> SUFFICES ASSUME NEW j \in Numbered(P) PROVE \E i \in Numbered(U) : U[i] = P[j]
    OBVIOUS
  <2>1. CASE U = P
    BY <2>1
  <2>2. CASE U = <<Listen>> \o P
    <3>1. j \in 1..Len(P) /\ "id" \in DOMAIN P[j]
      BY DEF Numbered
    <3>2. j + 1 \in DOMAIN U /\ U[j + 1] = P[j]
      BY <2>2, <3>1
    <3> QED BY <3>1, <3>2 DEF Numbered
  <2> QED BY <2>1, <2>2
<1>3. \A q : Waits(P, k, q) => Waits(U, k, q)
  BY <1>2 DEF Waits
<1>4. Within(U, P)
  BY <1>1 DEF Within, Numbered
<1> QED BY <1>1, <1>3, <1>4 DEF Behind, Newest

\* What is left on the connection is outstanding.
LEMMA TailWithin ==
  ASSUME NEW U \in Seq(Sending), U # <<>>, NEW P, Within(U, P)
  PROVE  Within(Tail(U), P)
BY TailNumbered DEF Within

-----------------------------------------------------------------------------
(* Resending *)

\* The applied writes of d on k against those that wait to be sent or answered.
LatestAt(d, k) ==
  /\ Behind(hist[k], d, k, up[d]) /\ Behind(hist[k], d, k, puts[d])
  /\ Newest(hist[k], d, k, puts[d])
  /\ conn[d] = "up" => Newest(hist[k], d, k, up[d])

\* What resending may do to the records: as long as the process lived and nothing was
\* refused, an older write on top has a newer one waiting.
ResendsAt(d) ==
  /\ Within(up[d], puts[d])
  /\ \A k \in Key : Older(hist[k], d, calls[d], issued[d])
  /\ restarts[d] = 0 /\ refusals[d] = 0 => \A k \in Key : LatestAt(d, k)

\* The inductive invariant of NewestWins.
Resends == \A d \in Device : ResendsAt(d)

\* What a device's queues hold.
LEMMA ResendTypes ==
  ASSUME TypeOK, NEW d \in Device
  PROVE  /\ up[d] \in Seq(Sending) /\ puts[d] \in Seq(Put) /\ puts[d] \in Seq(Sending)
         /\ calls[d] \in Seq({Observe} \cup Put) /\ issued[d] \in Nat
         /\ down[d] \in Seq(Answer)
         /\ restarts[d] \in Nat /\ refusals[d] \in Nat
         /\ \A k \in Key : hist[k] \in Seq(Write)
<1>1. puts[d] \in Seq(Put)
  BY DEF TypeOK
<1>2. puts[d] \in Seq(Sending)
  BY <1>1, SeqMonotonic DEF Sending
<1> QED BY <1>1, <1>2, StoreAssumption DEF TypeOK, Sending, Answer, StoreAssumption

\* Nothing waits.
LEMMA EmptyResends ==
  /\ \A P : Within(<<>>, P)
  /\ \A h, e, k : Behind(h, e, k, <<>>)
BY Empty DEF Within, Behind

\* At the start nothing is applied.
LEMMA ResendsInit == Init => Resends
<1> SUFFICES ASSUME Init, NEW d \in Device PROVE ResendsAt(d)
  BY DEF Resends
<1>1. /\ puts[d] = <<>> /\ calls[d] = <<>> /\ up[d] = <<>> /\ \A k \in Key : hist[k] = <<>>
  BY DEF Init
<1>2. By(<<>>, d) = {}
  BY DEF By
<1>3. \A k \in Key : LatestAt(d, k) /\ Older(hist[k], d, calls[d], issued[d])
  BY <1>1, <1>2 DEF LatestAt, Behind, Newest, Older
<1> QED BY <1>1, <1>3, EmptyResends DEF ResendsAt

\* Steps that move nothing but events and answers, and may observe again.
LEMMA StillResends ==
  ASSUME TypeOK, NEW e \in Device, ResendsAt(e),
         UNCHANGED <<up[e], puts[e], conn[e], issued[e], restarts[e], refusals[e], hist>>,
         \/ calls'[e] = calls[e] \/ calls'[e] = Append(calls[e], Observe)
         \/ calls[e] # <<>> /\ calls'[e] = Tail(calls[e])
  PROVE  ResendsAt(e)'
<1>1. \A i \in Numbered(calls'[e]) : \E j \in Numbered(calls[e]) : calls'[e][i] = calls[e][j]
  <2>0. calls[e] \in Seq({Observe} \cup Put)
    BY ResendTypes
  <2>1. CASE calls'[e] = calls[e]
    BY <2>1
  <2>2. CASE calls'[e] = Append(calls[e], Observe)
    <3> DEFINE c == Append(calls[e], Observe)
    <3>1. \A i \in DOMAIN c : (i \in DOMAIN calls[e] /\ c[i] = calls[e][i]) \/ c[i] = Observe
      BY <2>0
    <3> HIDE DEF c
    <3>2. \A i \in Numbered(c) : i \in Numbered(calls[e]) /\ c[i] = calls[e][i]
      BY <3>1, Numbers DEF Numbered
    <3> QED BY <2>2, <3>2 DEF c
  <2>3. CASE calls[e] # <<>> /\ calls'[e] = Tail(calls[e])
    BY <2>0, <2>3, TailNumbered
  <2> QED BY <2>1, <2>2, <2>3
<1>2. \A k \in Key : Older(hist[k], e, calls'[e], issued[e])
  BY <1>1 DEF ResendsAt, Older
<1>3. \A k \in Key : LatestAt(e, k)' <=> LatestAt(e, k)
  BY DEF LatestAt
<1> QED BY <1>2, <1>3 DEF ResendsAt

\* Steps that apply, send and answer nothing.
LEMMA QuietResends ==
  ASSUME TypeOK, Resends, NEW d \in Device,
         \/ RetrieveAll(d) \/ HandleValue(d) \/ HandleDone(d) \/ ReceiveData(d)
         \/ ReceiveListenOk(d) \/ ReceiveDenial(d) \/ AckPut(d)
  PROVE  Resends'
<1> SUFFICES ASSUME NEW e \in Device PROVE ResendsAt(e)'
  BY DEF Resends
<1>1. UNCHANGED <<up, puts, conn, issued, restarts, refusals, hist>>
  BY DEF RetrieveAll, HandleValue, HandleDone, ReceiveData, ReceiveListenOk, ReceiveDenial,
         AckPut, net, client, counts
<1>2. calls'[e] = calls[e] \/ calls'[e] = Append(calls[e], Observe)
  BY DEF RetrieveAll, HandleValue, HandleDone, ReceiveData, ReceiveListenOk, ReceiveDenial,
         AckPut, TypeOK
<1> QED BY <1>1, <1>2, StillResends DEF Resends

\* The new write is newer than all that are applied.
LEMMA SetValueResends ==
  ASSUME TypeOK, Resends, NEW d \in Device, NEW k \in Key, NEW v \in Value, SetValue(d, k, v)
  PROVE  Resends'
<1> SUFFICES ASSUME NEW e \in Device PROVE ResendsAt(e)'
  BY DEF Resends
<1>0. ResendsAt(e)
  BY DEF Resends
<1>1. UNCHANGED <<up, puts, conn, restarts, refusals, hist>>
  BY DEF SetValue, net, client
<1>2. CASE e # d
  <2>1. calls'[e] = calls[e] /\ issued'[e] = issued[e]
    BY <1>2 DEF SetValue, TypeOK
  <2> QED BY <1>0, <1>1, <2>1, StillResends
<1>3. CASE e = d
  <2> DEFINE x == [op |-> "put", id |-> issued[d] + 1, key |-> k, val |-> v]
             c == Append(calls[e], x)
  <2>1. calls'[e] = c /\ issued'[e] = issued[e] + 1
    BY <1>3 DEF SetValue, TypeOK
  <2>2. x.id = issued[e] + 1 /\ issued[e] \in Nat /\ calls[e] \in Seq({Observe} \cup Put)
    BY <1>3, ResendTypes
  <2> HIDE DEF x
  <2>3. \A i \in DOMAIN c : (i \in DOMAIN calls[e] /\ c[i] = calls[e][i]) \/ c[i] = x
    BY <2>2
  <2> HIDE DEF c
  <2>4. \A i \in Numbered(c) : (i \in Numbered(calls[e]) /\ c[i] = calls[e][i]) \/ c[i] = x
    BY <2>3 DEF Numbered
  <2>5. ASSUME NEW q \in Key PROVE Older(hist[q], e, c, issued[e] + 1)
    <3>1. Older(hist[q], e, calls[e], issued[e])
      BY <1>0 DEF ResendsAt
    <3>2. \A m \in By(hist[q], e) : hist[q][m].id \in Nat
      BY ResendTypes, HistIds
    <3> QED BY <2>2, <2>4, <3>1, <3>2 DEF Older
  <2>6. \A q \in Key : LatestAt(e, q)' <=> LatestAt(e, q)
    BY <1>1 DEF LatestAt
  <2> QED BY <1>0, <1>1, <2>1, <2>5, <2>6 DEF ResendsAt
<1> QED BY <1>2, <1>3

\* It becomes outstanding, and is sent.
LEMMA RunPutResends ==
  ASSUME TypeOK, Resends, NEW d \in Device, RunPut(d)
  PROVE  Resends'
<1> SUFFICES ASSUME NEW e \in Device PROVE ResendsAt(e)'
  BY DEF Resends
<1>0. ResendsAt(e)
  BY DEF Resends
<1>1. UNCHANGED <<conn, issued, restarts, refusals, hist>>
  BY DEF RunPut, counts
<1>2. CASE e # d
  <2>1. calls'[e] = calls[e] /\ up'[e] = up[e] /\ puts'[e] = puts[e]
    BY <1>2 DEF RunPut, TypeOK
  <2> QED BY <1>0, <1>1, <2>1, StillResends
<1>3. CASE e = d
  <2> DEFINE x == Head(calls[e])
  <2>1. calls[e] # <<>> /\ x # Observe
    BY <1>3 DEF RunPut
  <2>2. /\ calls'[e] = Tail(calls[e]) /\ puts'[e] = Append(puts[e], x)
        /\ up'[e] = IF conn[e] = "up" THEN Append(up[e], x) ELSE up[e]
    BY <1>3 DEF RunPut, TypeOK
  <2>3. x \in Put /\ x \in Sending
    BY <2>1, ResendTypes DEF Sending
  <2>4. 1 \in Numbered(calls[e]) /\ calls[e][1] = x
    BY <2>1, <2>3, ResendTypes, Numbers DEF Numbered
  <2> HIDE DEF x
  <2>5. ASSUME NEW k \in Key
        PROVE  /\ Older(hist[k], e, calls'[e], issued[e])
               /\ \A n \in By(hist[k], e) : hist[k][n].id <= x.id
    <3>1. Older(hist[k], e, calls[e], issued[e])
      BY <1>0 DEF ResendsAt
    <3>2. \A i \in Numbered(calls'[e]) : i + 1 \in Numbered(calls[e]) /\ calls'[e][i] = calls[e][i + 1]
      BY <2>1, <2>2, ResendTypes, TailNumbered
    <3>3. \A n \in By(hist[k], e) : hist[k][n].id \in Nat
      BY ResendTypes, HistIds
    <3>4. x.id \in Nat
      BY <2>3, Numbers
    <3> QED BY <2>4, <3>1, <3>2, <3>3, <3>4 DEF Older
  <2>6. Within(up'[e], puts'[e])
    <3>1. \A j \in DOMAIN puts[e] : j \in DOMAIN puts'[e] /\ puts'[e][j] = puts[e][j]
      BY <2>2, <2>3, ResendTypes
    <3>2. \E j \in DOMAIN puts'[e] : puts'[e][j] = x
      <4>1. Len(puts[e]) + 1 \in DOMAIN puts'[e] /\ puts'[e][Len(puts[e]) + 1] = x
        BY <2>2, <2>3, ResendTypes
      <4> QED BY <4>1
    <3>3. \A i \in Numbered(up'[e]) : up'[e][i] = x \/ (i \in Numbered(up[e]) /\ up'[e][i] = up[e][i])
      BY <2>2, <2>3, ResendTypes DEF Numbered
    <3> QED BY <1>0, <3>1, <3>2, <3>3 DEF ResendsAt, Within
  <2>7. ASSUME NEW k \in Key, LatestAt(e, k) PROVE LatestAt(e, k)'
    <3>1. Behind(hist[k], e, k, puts'[e]) /\ Behind(hist[k], e, k, up'[e])
      BY <2>2, <2>3, <2>5, <2>7, ResendTypes, BehindAppend DEF LatestAt
    <3>2. Newest(hist[k], e, k, puts'[e])
      BY <2>2, <2>3, <2>7, ResendTypes, NewestAppend DEF LatestAt
    <3>3. conn[e] = "up" => Newest(hist[k], e, k, up'[e])
      BY <2>2, <2>3, <2>7, ResendTypes, NewestAppend DEF LatestAt
    <3> QED BY <1>1, <3>1, <3>2, <3>3 DEF LatestAt
  <2> QED BY <1>0, <1>1, <2>5, <2>6, <2>7 DEF ResendsAt
<1> QED BY <1>2, <1>3

\* A listen is sent.
LEMMA RunObserveResends ==
  ASSUME TypeOK, Resends, NEW d \in Device, RunObserve(d)
  PROVE  Resends'
<1> SUFFICES ASSUME NEW e \in Device PROVE ResendsAt(e)'
  BY DEF Resends
<1>0. ResendsAt(e)
  BY DEF Resends
<1>1. UNCHANGED <<puts, conn, issued, restarts, refusals, hist>>
  BY DEF RunObserve, counts
<1>2. calls'[e] = calls[e] \/ (calls[e] # <<>> /\ calls'[e] = Tail(calls[e]))
  BY DEF RunObserve, TypeOK
<1>3. up'[e] = up[e] \/ up'[e] = Append(up[e], Listen)
  BY DEF RunObserve, TypeOK
<1>4. CASE up'[e] = up[e]
  BY <1>0, <1>1, <1>2, <1>4, StillResends
<1>5. CASE up'[e] = Append(up[e], Listen)
  <2>0. Listen \in Sending /\ Listen \notin Put
    BY Numbers DEF Sending
  <2>1. Within(up'[e], puts[e])
    <3>1. \A i \in DOMAIN up'[e] : up'[e][i] = Listen \/ (i \in DOMAIN up[e] /\ up'[e][i] = up[e][i])
      BY <1>5, <2>0, ResendTypes
    <3>2. \A i \in Numbered(up'[e]) : i \in Numbered(up[e]) /\ up'[e][i] = up[e][i]
      BY <3>1, Numbers DEF Numbered
    <3> QED BY <1>0, <3>2 DEF ResendsAt, Within
  <2>2. ASSUME NEW k \in Key PROVE Older(hist[k], e, calls'[e], issued[e])
    <3>1. \A i \in Numbered(calls'[e]) : \E j \in Numbered(calls[e]) : calls'[e][i] = calls[e][j]
      BY <1>2, ResendTypes, TailNumbered
    <3> QED BY <1>0, <3>1 DEF ResendsAt, Older
  <2>3. ASSUME NEW k \in Key, LatestAt(e, k) PROVE LatestAt(e, k)'
    <3>1. Behind(hist[k], e, k, up'[e])
      BY <1>5, <2>0, <2>3, ResendTypes, BehindAppend DEF LatestAt
    <3>2. Newest(hist[k], e, k, up[e]) => Newest(hist[k], e, k, up'[e])
      BY <1>5, <2>0, ResendTypes, NewestAppend
    <3> QED BY <1>1, <2>3, <3>1, <3>2 DEF LatestAt
  <2> QED BY <1>0, <1>1, <2>1, <2>2, <2>3 DEF ResendsAt
<1> QED BY <1>3, <1>4, <1>5

\* A new connection sends every outstanding write again, applied or not.
LEMMA ConnectResends ==
  ASSUME TypeOK, TypeOK', Resends, NEW d \in Device, Connect(d)
  PROVE  Resends'
<1> SUFFICES ASSUME NEW e \in Device PROVE ResendsAt(e)'
  BY DEF Resends
<1>0. ResendsAt(e)
  BY DEF Resends
<1>1. UNCHANGED <<puts, calls, issued, restarts, refusals, hist>>
  BY DEF Connect, client, counts
<1>2. CASE e # d
  <2>1. up'[e] = up[e] /\ conn'[e] = conn[e]
    BY <1>2 DEF Connect, TypeOK
  <2> QED BY <1>0, <1>1, <2>1, StillResends
<1>3. CASE e = d
  <2>1. up'[e] = puts[e] \/ up'[e] = <<Listen>> \o puts[e]
    <3>1. up'[e] = Restored(e) /\ <<>> \o puts[e] = puts[e]
      BY <1>3, ResendTypes DEF Connect, TypeOK
    <3> QED BY <3>1 DEF Restored
  <2>2. up'[e] \in Seq(Sending) /\ puts[e] \in Seq(Put)
    BY DEF TypeOK, Sending
  <2>3. Within(up'[e], puts[e])
    BY <2>1, <2>2, RestoreResends
  <2>4. \A k \in Key : LatestAt(e, k) => LatestAt(e, k)'
    BY <1>1, <2>1, <2>2, RestoreResends DEF LatestAt
  <2> QED BY <1>0, <1>1, <2>3, <2>4 DEF ResendsAt
<1> QED BY <1>2, <1>3

\* A lost connection has applied what it has; a kill ends what is said of the device.
LEMMA DropResends ==
  ASSUME TypeOK, Resends, NEW d \in Device, Disconnect(d) \/ Restart(d)
  PROVE  Resends'
<1> SUFFICES ASSUME NEW e \in Device PROVE ResendsAt(e)'
  BY DEF Resends
<1>0. ResendsAt(e)
  BY DEF Resends
<1>1. UNCHANGED <<issued, refusals, hist>>
  BY DEF Disconnect, Restart
<1>2. CASE e # d
  <2>1. /\ up'[e] = up[e] /\ conn'[e] = conn[e] /\ puts'[e] = puts[e] /\ calls'[e] = calls[e]
        /\ restarts'[e] = restarts[e]
    BY <1>2 DEF Disconnect, Restart, TypeOK
  <2> QED BY <1>0, <1>1, <2>1, StillResends
<1>3. CASE e = d /\ Disconnect(d)
  <2>1. /\ up'[e] = <<>> /\ conn'[e] = "down" /\ puts'[e] = puts[e] /\ calls'[e] = calls[e]
        /\ restarts'[e] = restarts[e]
    BY <1>3 DEF Disconnect, TypeOK
  <2>2. \A k \in Key : LatestAt(e, k) => LatestAt(e, k)'
    BY <1>1, <2>1, EmptyResends DEF LatestAt
  <2> QED BY <1>0, <1>1, <2>1, <2>2, EmptyResends DEF ResendsAt
<1>4. CASE e = d /\ Restart(d)
  <2>1. up'[e] = <<>> /\ puts'[e] = <<>> /\ calls'[e] = <<>>
    BY <1>4 DEF Restart, TypeOK
  <2>2. restarts'[e] # 0
    <3>1. restarts'[e] = restarts[e] + 1
      BY <1>4 DEF Restart, TypeOK
    <3> QED BY <3>1, ResendTypes
  <2>3. \A k \in Key : Older(hist[k], e, <<>>, issued[e])
    BY <1>0, Empty DEF ResendsAt, Older
  <2> QED BY <1>1, <2>1, <2>2, <2>3, EmptyResends DEF ResendsAt
<1> QED BY <1>2, <1>3, <1>4

\* The oldest outstanding write is answered: no older one can be applied again.
LEMMA ReceivePutDoneResends ==
  ASSUME TypeOK, Ordered, Resends, NEW d \in Device, ReceivePutDone(d)
  PROVE  Resends'
<1> SUFFICES ASSUME NEW e \in Device PROVE ResendsAt(e)'
  BY DEF Resends
<1>0. ResendsAt(e)
  BY DEF Resends
<1>1. UNCHANGED <<up, calls, conn, issued, restarts, refusals, hist>>
  BY DEF ReceivePutDone, counts
<1>2. CASE e # d
  <2>1. puts'[e] = puts[e]
    BY <1>2 DEF ReceivePutDone, TypeOK
  <2> QED BY <1>0, <1>1, <2>1, StillResends
<1>3. CASE e = d
  <2>1. /\ puts'[e] = Tail(puts[e]) /\ puts[e] # <<>> /\ down[e] # <<>> /\ conn[e] = "up"
        /\ Head(down[e]) \in PutDone /\ Head(puts[e]).id = Head(down[e]).id
    BY <1>3, AnsweredFirst
  <2>2. Ascending(puts[e]) /\ Before(down[e], up[e])
    BY DEF Ordered, OrderedAt, Flow, Wire
  <2>3. Within(up[e], puts'[e])
    BY <1>0, <2>1, <2>2, ResendTypes, AnswerWithin DEF ResendsAt
  <2>4. ASSUME NEW k \in Key, LatestAt(e, k) PROVE LatestAt(e, k)'
    <3>1. Behind(hist[k], e, k, puts'[e]) /\ Newest(hist[k], e, k, puts'[e])
      BY <2>1, <2>2, <2>4, ResendTypes, AnswerResends DEF LatestAt
    <3> QED BY <1>1, <2>4, <3>1 DEF LatestAt
  <2> QED BY <1>0, <1>1, <2>3, <2>4 DEF ResendsAt
<1> QED BY <1>2, <1>3

\* Serving a listen, or ending one, applies nothing.
LEMMA ServerListenResends ==
  ASSUME TypeOK, Ordered, Resends, NEW d \in Device, ServerListen(d) \/ ServerDeny(d)
  PROVE  Resends'
<1> SUFFICES ASSUME NEW e \in Device PROVE ResendsAt(e)'
  BY DEF Resends
<1>0. ResendsAt(e)
  BY DEF Resends
<1>1. UNCHANGED <<puts, calls, conn, issued, restarts, refusals, hist>>
  BY DEF ServerListen, ServerDeny, client, counts
<1>2. CASE e # d
  <2>1. up'[e] = up[e]
    BY <1>2 DEF ServerListen, ServerDeny, TypeOK
  <2> QED BY <1>0, <1>1, <2>1, StillResends
<1>3. CASE e = d /\ up'[e] = up[e]
  <2>1. calls'[e] = calls[e]
    BY <1>1
  <2> QED BY <1>0, <1>1, <1>3, <2>1, StillResends
<1>4. CASE e = d /\ up'[e] # up[e]
  <2>1. up[e] # <<>> /\ Head(up[e]) = Listen /\ up'[e] = Tail(up[e])
    BY <1>4 DEF ServerListen, ServerDeny, TypeOK
  <2>2. Within(up'[e], puts[e])
    BY <1>0, <2>1, ResendTypes, TailWithin DEF ResendsAt
  <2>3. ASSUME NEW k \in Key, LatestAt(e, k) PROVE LatestAt(e, k)'
    <3>1. Behind(hist[k], e, k, up'[e])
      BY <2>1, <2>3, ResendTypes, BehindTail DEF LatestAt, Ordered, OrderedAt, Wire
    <3>2. Newest(hist[k], e, k, up[e]) => Newest(hist[k], e, k, up'[e])
      BY <2>1, ResendTypes, NewestTail
    <3> QED BY <1>1, <2>3, <3>1, <3>2 DEF LatestAt
  <2> QED BY <1>0, <1>1, <2>2, <2>3 DEF ResendsAt
<1> QED BY <1>2, <1>3, <1>4

\* A refused write is not applied: nothing more is said of the device.
LEMMA ServerRejectResends ==
  ASSUME TypeOK, Resends, NEW d \in Device, ServerReject(d)
  PROVE  Resends'
<1> SUFFICES ASSUME NEW e \in Device PROVE ResendsAt(e)'
  BY DEF Resends
<1>0. ResendsAt(e)
  BY DEF Resends
<1>1. UNCHANGED <<puts, calls, conn, issued, restarts, hist>>
  BY DEF ServerReject, client
<1>2. CASE e # d
  <2>1. up'[e] = up[e] /\ refusals'[e] = refusals[e]
    BY <1>2 DEF ServerReject, TypeOK
  <2> QED BY <1>0, <1>1, <2>1, StillResends
<1>3. CASE e = d
  <2>1. up[e] # <<>> /\ up'[e] = Tail(up[e]) /\ refusals'[e] = refusals[e] + 1
    BY <1>3 DEF ServerReject, TypeOK
  <2>2. Within(up'[e], puts[e])
    BY <1>0, <2>1, ResendTypes, TailWithin DEF ResendsAt
  <2> QED BY <1>0, <1>1, <2>1, <2>2, ResendTypes DEF ResendsAt
<1> QED BY <1>2, <1>3

\* The oldest write on a connection is applied, perhaps for the second time.
LEMMA ServerAcceptResends ==
  ASSUME TypeOK, Ordered, Resends, NEW d \in Device, ServerAccept(d)
  PROVE  Resends'
<1> SUFFICES ASSUME NEW e \in Device PROVE ResendsAt(e)'
  BY DEF Resends
<1>0. ResendsAt(e)
  BY DEF Resends
<1>1. UNCHANGED <<puts, calls, conn, issued, restarts, refusals>>
  BY DEF ServerAccept, client, counts
<1> DEFINE p == Head(up[d])
           w == [by |-> d, id |-> p.id, val |-> p.val]
<1>2. up[d] # <<>> /\ p \in Put /\ p.key \in Key
  <2>1. up[d] # <<>> /\ p # Listen
    BY DEF ServerAccept
  <2>2. p \in Put
    BY <2>1, ResendTypes DEF Sending
  <2> QED BY <2>1, <2>2 DEF Put
<1>3. w \in Write /\ w.by = d /\ w.id = p.id
  BY <1>2 DEF Put, Write
<1>4. hist' = [hist EXCEPT ![p.key] = Append(@, w)] /\ up' = [up EXCEPT ![d] = Tail(@)]
  BY DEF ServerAccept
<1> HIDE DEF p, w
<1>5. \A k \in Key : hist'[k] = IF k = p.key THEN Append(hist[k], w) ELSE hist[k]
  BY <1>2, <1>4 DEF TypeOK
<1>6. CASE e # d
  <2>1. up'[e] = up[e]
    BY <1>4, <1>6 DEF TypeOK
  <2>2. ASSUME NEW k \in Key
        PROVE  /\ Older(hist'[k], e, calls[e], issued[e])
               /\ LatestAt(e, k) => LatestAt(e, k)'
    <3>1. CASE k # p.key
      BY <1>0, <1>1, <1>5, <2>1, <3>1 DEF ResendsAt, LatestAt
    <3>2. CASE k = p.key
      <4>1. hist'[k] = Append(hist[k], w) /\ hist[k] \in Seq(Write) /\ w.by # e
        BY <1>3, <1>5, <1>6, <3>2, ResendTypes
      <4>2. Older(hist[k], e, calls[e], issued[e])
        BY <1>0 DEF ResendsAt
      <4> QED BY <1>1, <1>3, <2>1, <4>1, <4>2, OtherApplies DEF LatestAt
    <3> QED BY <3>1, <3>2
  <2> QED BY <1>0, <1>1, <2>1, <2>2 DEF ResendsAt
<1>7. CASE e = d
  <2>1. up[e] # <<>> /\ up'[e] = Tail(up[e]) /\ Head(up[e]) = p
    BY <1>2, <1>4, <1>7 DEF TypeOK, p
  <2>2. /\ Ascending(up[e]) /\ Before(up[e], calls[e]) /\ Before(up[e], NextId(issued[e]))
    BY DEF Ordered, OrderedAt, Wire
  <2>3. Within(up'[e], puts[e])
    BY <1>0, <2>1, ResendTypes, TailWithin DEF ResendsAt
  <2>4. Within(up[e], puts[e])
    BY <1>0 DEF ResendsAt
  <2>5. ASSUME NEW k \in Key
        PROVE  /\ Older(hist'[k], e, calls[e], issued[e])
               /\ LatestAt(e, k) => LatestAt(e, k)'
    <3>0. Older(hist[k], e, calls[e], issued[e])
      BY <1>0 DEF ResendsAt
    <3>1. CASE k # p.key
      <4>1. hist'[k] = hist[k]
        BY <1>5, <3>1
      <4>2. Behind(hist[k], e, k, up[e]) => Behind(hist[k], e, k, up'[e])
        BY <2>1, <2>2, ResendTypes, BehindTail
      <4>3. Newest(hist[k], e, k, up[e]) => Newest(hist[k], e, k, up'[e])
        BY <2>1, <3>1, ResendTypes, NewestTail
      <4> QED BY <1>1, <3>0, <4>1, <4>2, <4>3 DEF LatestAt
    <3>2. CASE k = p.key
      <4>1. /\ hist'[k] = Append(hist[k], w) /\ hist[k] \in Seq(Write) /\ w.by = e
            /\ w.id = Head(up[e]).id /\ Head(up[e]) \in Put /\ Head(up[e]).key = k
        BY <1>2, <1>3, <1>5, <1>7, <2>1, <3>2, ResendTypes
      <4>2. Older(hist'[k], e, calls[e], issued[e])
        BY <1>3, <2>1, <2>2, <3>0, <4>1, ResendTypes, AppliesOlder
      <4>3. ASSUME LatestAt(e, k)
            PROVE  /\ Behind(hist'[k], e, k, up'[e]) /\ Newest(hist'[k], e, k, up'[e])
                   /\ Behind(hist'[k], e, k, puts[e]) /\ Newest(hist'[k], e, k, puts[e])
        <5>1. Behind(hist[k], e, k, up[e]) /\ Behind(hist[k], e, k, puts[e])
          BY <4>3 DEF LatestAt
        <5>2. up[e] \in Seq(Sending) /\ puts[e] \in Seq(Put)
          BY ResendTypes
        <5> QED BY <1>3, <2>1, <2>2, <2>4, <4>1, <5>1, <5>2, AppliesOwn
      <4> QED BY <1>1, <4>2, <4>3 DEF LatestAt
    <3> QED BY <3>1, <3>2
  <2> QED BY <1>0, <1>1, <2>3, <2>5 DEF ResendsAt
<1> QED BY <1>6, <1>7

\* No action leaves an older write on top for good.
LEMMA ResendsStep ==
  ASSUME Inductive, Inductive', Ordered, Resends, [Next]_vars
  PROVE  Resends'
<1>0. TypeOK /\ TypeOK'
  BY DEF Inductive
<1>1. ASSUME NEW d \in Device, NEW k \in Key, NEW v \in Value, SetValue(d, k, v)
      PROVE  Resends'
  BY <1>0, <1>1, SetValueResends
<1>2. ASSUME NEW d \in Device,
             \/ RetrieveAll(d) \/ HandleValue(d) \/ HandleDone(d) \/ ReceiveData(d)
             \/ ReceiveListenOk(d) \/ ReceiveDenial(d) \/ AckPut(d)
      PROVE  Resends'
  BY <1>0, <1>2, QuietResends
<1>3. ASSUME NEW d \in Device, RunPut(d) PROVE Resends'
  BY <1>0, <1>3, RunPutResends
<1>4. ASSUME NEW d \in Device, RunObserve(d) PROVE Resends'
  BY <1>0, <1>4, RunObserveResends
<1>5. ASSUME NEW d \in Device, Connect(d) PROVE Resends'
  BY <1>0, <1>5, ConnectResends
<1>6. ASSUME NEW d \in Device, Disconnect(d) \/ Restart(d) PROVE Resends'
  BY <1>0, <1>6, DropResends
<1>7. ASSUME NEW d \in Device, ReceivePutDone(d) PROVE Resends'
  BY <1>0, <1>7, ReceivePutDoneResends
<1>8. ASSUME NEW d \in Device, ServerListen(d) \/ ServerDeny(d) PROVE Resends'
  BY <1>0, <1>8, ServerListenResends
<1>9. ASSUME NEW d \in Device, ServerAccept(d) PROVE Resends'
  BY <1>0, <1>9, ServerAcceptResends
<1>10. ASSUME NEW d \in Device, ServerReject(d) PROVE Resends'
  BY <1>0, <1>10, ServerRejectResends
<1>11. CASE UNCHANGED vars
  BY <1>11 DEF vars, net, client, counts, Resends, ResendsAt, LatestAt
<1> QED
  BY <1>1, <1>2, <1>3, <1>4, <1>5, <1>6, <1>7, <1>8, <1>9, <1>10, <1>11
     DEF Next, Infrastructure, Mishap

\* Once a device has no write outstanding on a record, the newest of its accepted
\* writes is the last of its writes there, however often the connection was lost
\* and the writes sent again (no kill, no refusal).
THEOREM NewestWriteWins == Spec => []NewestWins
<1>1. Init => Ordered /\ Resends
  BY OrderedInit, ResendsInit
<1>2. Inductive /\ Inductive' /\ Ordered /\ Resends /\ [Next]_vars => Ordered' /\ Resends'
  BY OrderedStep, ResendsStep
<1>3. Inductive /\ Resends => NewestWins
  <2> SUFFICES ASSUME Inductive, Resends, NEW d \in Device, NEW k \in Key,
                      restarts[d] = 0, refusals[d] = 0, WritesTo(k, puts[d]) = {},
                      NEW n \in DOMAIN hist[k], hist[k][n].by = d,
                      \A m \in DOMAIN hist[k] : m > n => hist[k][m].by # d,
                      NEW m \in 1..n, hist[k][m].by = d
               PROVE  hist[k][m].id <= hist[k][n].id
    BY DEF NewestWins
  <2>1. hist[k] \in Seq(Write)
    BY DEF Inductive, TypeOK
  <2>2. m \in By(hist[k], d) /\ n \in By(hist[k], d)
    BY <2>1 DEF By
  <2>3. \A l \in By(hist[k], d) : l \in Nat /\ l <= n
    BY <2>1 DEF By
  <2>4. ~ Waits(puts[d], k, hist[k][m].id)
    BY DEF Waits, WritesTo, Numbered
  <2>5. Newest(hist[k], d, k, puts[d])
    BY DEF Resends, ResendsAt, LatestAt
  <2>6. ~ (hist[k][n].id < hist[k][m].id)
    BY <2>2, <2>3, <2>4, <2>5 DEF Newest
  <2> QED BY <2>1, <2>2, <2>6, HistIds
<1> QED
  BY <1>1, <1>2, <1>3, InductiveInvariant, PTL DEF Spec

-----------------------------------------------------------------------------
(***************************************************************************)
(* What the screens are given: SettledAgree, when nothing is on its way,   *)
(* and AckedWriteCached, when a success block is called.                   *)
(*                                                                         *)
(* Listening: a client that has the collection stays subscribed, or its    *)
(* listen is the first thing the database gets on a connection, or it is   *)
(* about to be told that its listening has ended; so that Shows can say    *)
(* that the newest version of every record is in a listener's cache or on  *)
(* its way, and that the view, cache and pending writes, is what the       *)
(* screens show or the last snapshot posted to them.                       *)
(*                                                                         *)
(* The database sends an accepted write to its writer, if it listens,      *)
(* before the answer. Echoes follows the write from there: before an       *)
(* answer on the connection is handled, data with the write is, or the     *)
(* cache has it already; so an acknowledged write is in the cache, and so  *)
(* is a posted one. A writer that does not listen has no collection, or    *)
(* will be sent a whole one, which holds the write.                        *)
(***************************************************************************)

-----------------------------------------------------------------------------
(* What a connection carries *)

\* The data messages of a connection, and those with the whole collection.
Data(s) == {j \in DOMAIN s : s[j].op \in {"all", "update"}}
Alls(s) == {j \in DOMAIN s : s[j].op = "all"}

\* The first data is the whole collection.
Opens(s) == \E j \in Alls(s) : \A l \in Data(s) : j <= l

\* The end of the client's listening.
Denials(s) == {j \in DOMAIN s : s[j].op = "denied"}

\* Nothing but answers to puts, once the client's listening has ended.
Bare(s) == \A j \in DOMAIN s : s[j].op = "putDone" \/ \E i \in Denials(s) : j <= i

\* Is a listen on its way up?
Asked(s) == \E i \in DOMAIN s : s[i] = Listen

\* At most one listen is on its way up.
Once(s) == \A i, j \in DOMAIN s : s[i] = Listen /\ s[j] = Listen => i = j

\* A connection without a listener carries no data but what was sent before the
\* denial; a client that has the collection and is connected is subscribed, or its
\* listen is the first thing the database will get, or the denial is on its way;
\* and the first data of a process is the whole collection.
ListeningAt(d) ==
  /\ ~ subscribed[d] => Bare(down[d])
  /\ subscribed[d] => conn[d] = "up" /\ ~ Asked(up[d]) /\ Denials(down[d]) = {}
  /\ synced[d] /\ conn[d] = "up" /\ ~ subscribed[d] /\ Denials(down[d]) = {} =>
        up[d] # <<>> /\ Head(up[d]) = Listen
  /\ synced[d] \/ observers[d] > 0 => listen[d] # "none"
  /\ listen[d] # "none" /\ conn[d] = "up" /\ ~ subscribed[d] /\ Denials(down[d]) = {} =>
        Asked(up[d])
  /\ subscribed[d] \/ Asked(up[d]) \/ Denials(down[d]) # {} => listen[d] # "none"
  /\ ~ synced[d] /\ (subscribed[d] \/ Data(down[d]) # {}) => Opens(down[d])
  /\ Denials(down[d]) # {} => conn[d] = "up" /\ ~ Asked(up[d])
  /\ \A i, j \in Denials(down[d]) : i = j
  /\ Once(up[d])

\* What the subscription of every device is worth.
Listening == \A d \in Device : ListeningAt(d)

\* What is appended to a connection, and what leaves it.
LEMMA DataMore ==
  ASSUME NEW S, NEW s \in Seq(S), NEW v \in Seq(S)
  PROVE  /\ Data(s) \subseteq Data(s \o v) /\ Alls(s) \subseteq Alls(s \o v)
         /\ \A j \in Data(s \o v) :
               j \in Data(s) \/ (j > Len(s) /\ j - Len(s) \in Data(v) /\ (s \o v)[j] = v[j - Len(s)])
         /\ \A j \in Alls(s \o v) :
               j \in Alls(s) \/ (j > Len(s) /\ j - Len(s) \in Alls(v) /\ (s \o v)[j] = v[j - Len(s)])
         /\ \A j \in DOMAIN s : j \in DOMAIN (s \o v) /\ (s \o v)[j] = s[j] /\ j \in 1..Len(s)
BY DEF Data, Alls

\* ... and what leaves it.
LEMMA DataTail ==
  ASSUME NEW S, NEW s \in Seq(S), s # <<>>
  PROVE  /\ \A j \in Data(Tail(s)) : j + 1 \in Data(s) /\ Tail(s)[j] = s[j + 1] /\ j \in Nat /\ j >= 1
         /\ \A j \in Alls(Tail(s)) : j + 1 \in Alls(s) /\ Tail(s)[j] = s[j + 1] /\ j \in Nat /\ j >= 1
         /\ \A j \in Data(s) : j # 1 => j - 1 \in Data(Tail(s)) /\ Tail(s)[j - 1] = s[j] /\ j \in Nat /\ j >= 1
         /\ \A j \in Alls(s) : j # 1 => j - 1 \in Alls(Tail(s)) /\ Tail(s)[j - 1] = s[j] /\ j \in Nat /\ j >= 1
         /\ 1 \in Data(s) <=> Head(s).op \in {"all", "update"}
         /\ 1 \in Alls(s) <=> Head(s).op = "all"
         /\ Head(s) = s[1]
BY DEF Data, Alls

\* More is sent: the first data stays the first.
LEMMA OpensMore ==
  ASSUME NEW S, NEW s \in Seq(S), NEW v \in Seq(S)
  PROVE  /\ Opens(s) => Opens(s \o v)
         /\ Data(s) = {} /\ Opens(v) => Opens(s \o v)
<1> DEFINE t == s \o v
<1>1. /\ Data(s) \subseteq Data(t) /\ Alls(s) \subseteq Alls(t)
      /\ \A j \in Data(t) : j \in Data(s) \/ (j > Len(s) /\ j - Len(s) \in Data(v))
  BY DataMore
<1>2. Len(s) \in Nat /\ \A j \in Alls(s) : j \in 1..Len(s)
  BY DEF Alls
<1>3. \A j \in Alls(v) : j \in Nat /\ Len(s) + j \in Alls(t)
  BY DEF Alls
<1>4. \A j \in Data(v) : j \in Nat
  BY DEF Data
<1>5. \A j \in Data(t) : j \in Nat
  BY DEF Data
<1> HIDE DEF t
<1>6. Opens(s) => Opens(t)
  <2> SUFFICES ASSUME Opens(s) PROVE Opens(t)
    OBVIOUS
  <2>1. PICK j \in Alls(s) : \A l \in Data(s) : j <= l
    BY DEF Opens
  <2>2. \A l \in Data(t) : j <= l
    BY <1>1, <1>2, <1>5, <2>1
  <2> QED BY <1>1, <2>1, <2>2 DEF Opens
<1>7. Data(s) = {} /\ Opens(v) => Opens(t)
  <2> SUFFICES ASSUME Data(s) = {}, Opens(v) PROVE Opens(t)
    OBVIOUS
  <2>1. PICK j \in Alls(v) : \A l \in Data(v) : j <= l
    BY DEF Opens
  <2>2. \A l \in Data(t) : l - Len(s) \in Data(v)
    BY <1>1
  <2>3. \A l \in Data(t) : Len(s) + j <= l
    <3> SUFFICES ASSUME NEW l \in Data(t) PROVE Len(s) + j <= l
      OBVIOUS
    <3>1. j <= l - Len(s)
      BY <2>1, <2>2
    <3> QED BY <1>2, <1>3, <1>5, <3>1
  <2> QED BY <1>3, <2>3 DEF Opens
<1> QED BY <1>6, <1>7 DEF t

\* The first message arrives.
LEMMA OpensTail ==
  ASSUME NEW S, NEW s \in Seq(S), s # <<>>, Head(s).op \notin {"all", "update"}
  PROVE  /\ Opens(s) => Opens(Tail(s))
         /\ Data(s) = {} => Data(Tail(s)) = {}
<1> DEFINE t == Tail(s)
<1>1. /\ \A j \in Data(t) : j + 1 \in Data(s) /\ j \in Nat
      /\ \A j \in Alls(s) : j # 1 => j - 1 \in Alls(t) /\ j \in Nat
      /\ 1 \notin Alls(s)
  BY DataTail
<1> HIDE DEF t
<1>2. Data(s) = {} => Data(t) = {}
  BY <1>1
<1>3. ASSUME Opens(s) PROVE Opens(t)
  <2>1. PICK j \in Alls(s) : \A l \in Data(s) : j <= l
    BY <1>3 DEF Opens
  <2>2. j # 1 /\ j \in Nat /\ j - 1 \in Alls(t)
    BY <1>1, <2>1
  <2>3. \A l \in Data(t) : j - 1 <= l
    BY <1>1, <2>1, <2>2
  <2> QED BY <2>2, <2>3 DEF Opens
<1> QED BY <1>2, <1>3 DEF t

\* The first data, if it comes first, is the whole collection.
LEMMA OpensData ==
  ASSUME NEW S, NEW s \in Seq(S), s # <<>>, Head(s).op \in {"all", "update"}, Opens(s)
  PROVE  Head(s).op = "all"
<1>1. 1 \in Data(s) /\ \A j \in Alls(s) : j \in Nat /\ j >= 1
  BY DEF Data, Alls
<1>2. PICK j \in Alls(s) : \A l \in Data(s) : j <= l
  BY DEF Opens
<1>3. j = 1
  BY <1>1, <1>2
<1> QED BY <1>2, <1>3 DEF Alls

\* An empty connection carries nothing.
LEMMA NoData == Data(<<>>) = {} /\ Alls(<<>>) = {}
BY DEF Data, Alls

\* What a device's connection and client hold.
LEMMA ListeningTypes ==
  ASSUME TypeOK, NEW d \in Device
  PROVE  /\ up[d] \in Seq(Sending) /\ down[d] \in Seq(Answer) /\ observers[d] \in Nat
         /\ subscribed[d] \in BOOLEAN /\ synced[d] \in BOOLEAN
         /\ conn[d] \in {"up", "down"} /\ listen[d] \in {"none", "waiting", "ok"}
BY DEF TypeOK, Sending, Answer

\* A denial among what is appended to a connection.
LEMMA DenialsMore ==
  ASSUME NEW S, NEW s \in Seq(S), NEW v \in Seq(S)
  PROVE  /\ Denials(s) \subseteq Denials(s \o v)
         /\ \A j \in Denials(s \o v) :
               j \in Denials(s) \/ (j > Len(s) /\ j - Len(s) \in Denials(v))
         /\ \A j \in Denials(v) : j \in Nat /\ Len(s) + j \in Denials(s \o v)
         /\ Denials(v) = {} => Denials(s \o v) = Denials(s)
BY DEF Denials

\* ... and what is left of it.
LEMMA DenialsTail ==
  ASSUME NEW S, NEW s \in Seq(S), s # <<>>
  PROVE  /\ \A j \in Denials(Tail(s)) : j \in Nat /\ j >= 1 /\ j + 1 \in Denials(s)
         /\ \A j \in Denials(s) :
               j # 1 => j - 1 \in Denials(Tail(s)) /\ j \in Nat /\ j >= 1
         /\ 1 \in Denials(s) <=> Head(s).op = "denied"
BY DEF Denials

\* Answers to puts are no data, and no denial.
LEMMA Bareness ==
  /\ Bare(<<>>) /\ Denials(<<>>) = {}
  /\ \A s : Bare(s) /\ Denials(s) = {} => Data(s) = {} /\ Alls(s) = {}
BY DEF Bare, Data, Alls, Denials

\* More answers.
LEMMA BareMore ==
  ASSUME NEW S, NEW s \in Seq(S), NEW v \in Seq(S), Bare(s)
  PROVE  /\ Bare(v) => Bare(s \o v)
         /\ s # <<>> => Bare(Tail(s))
         /\ s # <<>> /\ Denials(s) = {} => Head(s).op = "putDone"
<1>1. ASSUME Bare(v) PROVE Bare(s \o v)
  <2> SUFFICES ASSUME NEW j \in DOMAIN (s \o v), (s \o v)[j].op # "putDone"
               PROVE  \E i \in Denials(s \o v) : j <= i
    BY DEF Bare
  <2>1. CASE j \in DOMAIN s
    <3>1. (s \o v)[j] = s[j]
      BY <2>1
    <3>2. PICK i \in Denials(s) : j <= i
      BY <2>1, <3>1 DEF Bare
    <3> QED BY <3>2, DenialsMore
  <2>2. CASE j \notin DOMAIN s
    <3>1. j \in Nat /\ j - Len(s) \in DOMAIN v /\ (s \o v)[j] = v[j - Len(s)] /\ Len(s) \in Nat
      BY <2>2
    <3>2. PICK i \in Denials(v) : j - Len(s) <= i
      BY <1>1, <3>1 DEF Bare
    <3>3. i \in Nat /\ Len(s) + i \in Denials(s \o v)
      BY DenialsMore
    <3>4. j <= Len(s) + i
      BY <3>1, <3>2, <3>3
    <3> QED BY <3>3, <3>4
  <2> QED BY <2>1, <2>2
<1>2. ASSUME s # <<>> PROVE Bare(Tail(s))
  <2> SUFFICES ASSUME NEW j \in DOMAIN Tail(s), Tail(s)[j].op # "putDone"
               PROVE  \E i \in Denials(Tail(s)) : j <= i
    BY DEF Bare
  <2>1. j \in Nat /\ j >= 1 /\ j + 1 \in DOMAIN s /\ Tail(s)[j] = s[j + 1]
    BY <1>2
  <2>2. PICK i \in Denials(s) : j + 1 <= i
    BY <2>1 DEF Bare
  <2>3. i \in Nat
    BY DEF Denials
  <2>4. i # 1 /\ j <= i - 1
    BY <2>1, <2>2, <2>3
  <2> QED BY <1>2, <2>4, DenialsTail
<1>3. ASSUME s # <<>>, Denials(s) = {} PROVE Head(s).op = "putDone"
  <2>1. 1 \in DOMAIN s /\ Head(s) = s[1]
    BY <1>3
  <2> QED BY <1>3, <2>1 DEF Bare
<1> QED BY <1>1, <1>2, <1>3

\* What the denial comes behind is all that a subscription has sent.
LEMMA BareDenied ==
  ASSUME NEW s \in Seq(Answer)
  PROVE  /\ Bare(Append(s, Denied)) /\ Denials(Append(s, Denied)) # {}
         /\ Denials(s) = {} =>
               \A i, j \in Denials(Append(s, Denied)) : i = j
<1>1. /\ Len(s) + 1 \in DOMAIN Append(s, Denied) /\ Append(s, Denied)[Len(s) + 1].op = "denied"
      /\ Len(s) \in Nat
      /\ \A j \in DOMAIN Append(s, Denied) :
            j \in Nat /\ j <= Len(s) + 1 /\ (j # Len(s) + 1 =>
               j \in DOMAIN s /\ Append(s, Denied)[j] = s[j])
  BY DEF Denied, Answer
<1>2. Len(s) + 1 \in Denials(Append(s, Denied))
  BY <1>1 DEF Denials
<1>3. Bare(Append(s, Denied))
  BY <1>1, <1>2 DEF Bare
<1>4. ASSUME Denials(s) = {}, NEW j \in Denials(Append(s, Denied)) PROVE j = Len(s) + 1
  BY <1>1, <1>4 DEF Denials
<1> QED BY <1>2, <1>3, <1>4

\* A message that is no denial leaves it on its way.
LEMMA StillDenied ==
  ASSUME NEW S, NEW s \in Seq(S), s # <<>>
  PROVE  /\ Head(s).op # "denied" => (Denials(Tail(s)) = {} <=> Denials(s) = {})
         /\ (\A i, j \in Denials(s) : i = j) =>
               /\ \A i, j \in Denials(Tail(s)) : i = j
               /\ Head(s).op = "denied" => Denials(Tail(s)) = {}
<1>1. /\ \A j \in Denials(Tail(s)) : j \in Nat /\ j >= 1 /\ j + 1 \in Denials(s)
      /\ \A j \in Denials(s) : j # 1 => j - 1 \in Denials(Tail(s)) /\ j \in Nat /\ j >= 1
      /\ 1 \in Denials(s) <=> Head(s).op = "denied"
  BY DenialsTail
<1>2. ASSUME \A i, j \in Denials(s) : i = j, NEW i \in Denials(Tail(s))
      PROVE  /\ \A j \in Denials(Tail(s)) : i = j
             /\ Head(s).op # "denied"
  <2>1. \A j \in Denials(Tail(s)) : i + 1 = j + 1 /\ i \in Nat /\ j \in Nat
    BY <1>1, <1>2
  <2>2. i + 1 # 1 /\ i + 1 \in Denials(s)
    BY <1>1
  <2> QED BY <1>1, <1>2, <2>1, <2>2
<1> QED BY <1>1, <1>2

\* At the start nobody listens.
LEMMA ListeningInit == Init => Listening
<1> SUFFICES ASSUME Init, NEW d \in Device PROVE ListeningAt(d)
  BY DEF Listening
<1>1. ~ Asked(<<>>) /\ Once(<<>>)
  BY DEF Asked, Once
<1>2. /\ ~ subscribed[d] /\ conn[d] = "down" /\ ~ synced[d] /\ observers[d] = 0
      /\ up[d] = <<>> /\ down[d] = <<>>
  BY DEF Init
<1> QED BY <1>1, <1>2, Bareness, NoData DEF ListeningAt

\* Steps that change nothing of the subscription.
LEMMA SameListening ==
  ASSUME NEW e \in Device, ListeningAt(e),
         UNCHANGED <<subscribed[e], down[e], conn[e], synced[e], up[e], observers[e], listen[e]>>
  PROVE  ListeningAt(e)'
BY DEF ListeningAt

\* What the main thread does, and an acknowledgement, leave the subscription alone.
LEMMA QuietListening ==
  ASSUME TypeOK, Listening, NEW d \in Device,
         \/ \E k \in Key, v \in Value : SetValue(d, k, v)
         \/ RetrieveAll(d) \/ HandleValue(d) \/ HandleDone(d) \/ AckPut(d)
  PROVE  Listening'
<1>1. UNCHANGED <<subscribed, down, conn, synced, up, observers, listen>>
  BY DEF SetValue, RetrieveAll, HandleValue, HandleDone, AckPut, net, client
<1> QED BY <1>1, SameListening DEF Listening

\* More is sent.
LEMMA SendListening ==
  ASSUME NEW s \in Seq(Sending), NEW x \in Sending
  PROVE  /\ s # <<>> /\ Head(s) = Listen => Append(s, x) # <<>> /\ Head(Append(s, x)) = Listen
         /\ Asked(Append(s, x)) <=> Asked(s) \/ x = Listen
         /\ Once(s) /\ (x # Listen \/ ~ Asked(s)) => Once(Append(s, x))
<1>1. \A i \in DOMAIN s : i \in DOMAIN Append(s, x) /\ Append(s, x)[i] = s[i]
  OBVIOUS
<1>2. Len(s) + 1 \in DOMAIN Append(s, x) /\ Append(s, x)[Len(s) + 1] = x
  OBVIOUS
<1>3. s # <<>> => Append(s, x) # <<>> /\ Head(Append(s, x)) = Head(s)
  OBVIOUS
<1>4. \A i \in DOMAIN Append(s, x) : i \in DOMAIN s \/ i = Len(s) + 1
  OBVIOUS
<1>5. Once(s) /\ (x # Listen \/ ~ Asked(s)) => Once(Append(s, x))
  BY <1>1, <1>2, <1>4 DEF Asked, Once
<1> QED BY <1>1, <1>2, <1>3, <1>4, <1>5 DEF Asked

\* The first message is taken from the connection.
LEMMA ServeListening ==
  ASSUME NEW s \in Seq(Sending), s # <<>>
  PROVE  /\ Asked(Tail(s)) => Asked(s)
         /\ Asked(s) /\ Head(s) # Listen => Asked(Tail(s))
         /\ Head(s) = Listen => Asked(s)
         /\ Once(s) => Once(Tail(s)) /\ (Head(s) = Listen => ~ Asked(Tail(s)))
<1>1. \A i \in DOMAIN Tail(s) : i + 1 \in DOMAIN s /\ Tail(s)[i] = s[i + 1]
  OBVIOUS
<1>2. \A i \in DOMAIN s : i # 1 => i - 1 \in DOMAIN Tail(s) /\ Tail(s)[i - 1] = s[i]
  OBVIOUS
<1>3. Head(s) = s[1] /\ 1 \in DOMAIN s
  OBVIOUS
<1>4. ASSUME Once(s)
      PROVE  Once(Tail(s)) /\ (Head(s) = Listen => ~ Asked(Tail(s)))
  <2>1. \A i \in DOMAIN Tail(s) : i \in Nat /\ i >= 1
    OBVIOUS
  <2>2. ASSUME NEW i \in DOMAIN Tail(s), NEW j \in DOMAIN Tail(s),
               Tail(s)[i] = Listen, Tail(s)[j] = Listen
        PROVE  i = j
    <3>1. i + 1 = j + 1
      BY <1>1, <1>4, <2>2 DEF Once
    <3> QED BY <2>1, <3>1
  <2>3. ASSUME Head(s) = Listen, NEW i \in DOMAIN Tail(s), Tail(s)[i] = Listen PROVE FALSE
    <3>1. i + 1 = 1
      BY <1>1, <1>3, <1>4, <2>3 DEF Once
    <3> QED BY <2>1, <3>1
  <2> QED BY <2>2, <2>3 DEF Once, Asked
<1> QED BY <1>1, <1>2, <1>3, <1>4 DEF Asked

\* A put is no listen, and no call of observe.
LEMMA NotListen == Listen \notin Put /\ Listen \in Sending /\ Observe \notin Put
BY Numbers DEF Sending

\* A put is sent behind the listen.
LEMMA RunPutListening ==
  ASSUME TypeOK, Listening, NEW d \in Device, RunPut(d)
  PROVE  Listening'
<1> SUFFICES ASSUME NEW e \in Device PROVE ListeningAt(e)'
  BY DEF Listening
<1>0. ListeningAt(e)
  BY DEF Listening
<1>1. UNCHANGED <<subscribed, down, conn, synced, observers, listen>>
  BY DEF RunPut
<1>2. up'[e] = up[e] \/ (up'[e] = Append(up[e], Head(calls[e])) /\ Head(calls[e]) \in Put)
  <2>1. calls[d] # <<>> /\ Head(calls[d]) # Observe => Head(calls[d]) \in Put
    BY SMTT(30) DEF TypeOK
  <2> QED BY <2>1 DEF RunPut, TypeOK
<1>3. CASE up'[e] = up[e]
  BY <1>0, <1>1, <1>3, SameListening
<1>4. CASE up'[e] = Append(up[e], Head(calls[e])) /\ Head(calls[e]) \in Put
  <2>1. /\ up[e] # <<>> /\ Head(up[e]) = Listen => up'[e] # <<>> /\ Head(up'[e]) = Listen
        /\ Asked(up'[e]) <=> Asked(up[e])
        /\ Once(up'[e])
    BY <1>0, <1>4, ListeningTypes, SendListening, NotListen DEF Sending, ListeningAt
  <2> QED BY <1>0, <1>1, <2>1 DEF ListeningAt
<1> QED BY <1>2, <1>3, <1>4

\* The first observer makes the client listen.
LEMMA RunObserveListening ==
  ASSUME TypeOK, Listening, NEW d \in Device, RunObserve(d)
  PROVE  Listening'
<1> SUFFICES ASSUME NEW e \in Device PROVE ListeningAt(e)'
  BY DEF Listening
<1>0. ListeningAt(e)
  BY DEF Listening
<1>1. UNCHANGED <<subscribed, down, conn, synced>>
  BY DEF RunObserve
<1>2. CASE e # d
  <2>1. up'[e] = up[e] /\ observers'[e] = observers[e] /\ listen'[e] = listen[e]
    BY <1>2 DEF RunObserve, TypeOK
  <2> QED BY <1>0, <1>1, <2>1, SameListening
<1>3. CASE e = d
  <2>1. listen'[e] # "none" /\ (listen[e] # "none" => listen'[e] = listen[e] /\ up'[e] = up[e])
    BY <1>3 DEF RunObserve, TypeOK
  <2>2. listen[e] = "none" /\ conn[e] = "up" => up'[e] = Append(up[e], Listen)
    BY <1>3 DEF RunObserve, TypeOK
  <2>3. CASE listen[e] # "none"
    BY <1>0, <1>1, <2>1, <2>3 DEF ListeningAt
  <2>4. CASE listen[e] = "none"
    <3>1. ~ synced[e] /\ ~ subscribed[e]
      BY <1>0, <2>4 DEF ListeningAt
    <3>2. ~ Asked(up[e]) /\ Denials(down[e]) = {}
      BY <1>0, <2>4 DEF ListeningAt
    <3>3. /\ conn[e] = "up" => Asked(up'[e])
          /\ Once(up'[e])
      <4>1. up'[e] = up[e] \/ up'[e] = Append(up[e], Listen)
        BY <1>3 DEF RunObserve, TypeOK
      <4>2. Once(up[e])
        BY <1>0 DEF ListeningAt
      <4> QED BY <2>2, <2>4, <3>2, <4>1, <4>2, ListeningTypes, SendListening, NotListen
    <3> QED BY <1>0, <1>1, <2>1, <3>1, <3>2, <3>3 DEF ListeningAt
  <2> QED BY <2>3, <2>4
<1> QED BY <1>2, <1>3

\* A new connection sends the listen first.
LEMMA ConnectListening ==
  ASSUME TypeOK, Listening, NEW d \in Device, Connect(d)
  PROVE  Listening'
<1> SUFFICES ASSUME NEW e \in Device PROVE ListeningAt(e)'
  BY DEF Listening
<1>0. ListeningAt(e)
  BY DEF Listening
<1>1. UNCHANGED <<subscribed, down, synced, observers, listen>>
  BY DEF Connect, client
<1>2. CASE e # d
  <2>1. up'[e] = up[e] /\ conn'[e] = conn[e]
    BY <1>2 DEF Connect, TypeOK
  <2> QED BY <1>0, <1>1, <2>1, SameListening
<1>3. CASE e = d
  <2>1. conn[e] = "down" /\ conn'[e] = "up" /\ up'[e] = Restored(e)
    BY <1>3 DEF Connect, TypeOK
  <2>2. listen[e] # "none" => up'[e] # <<>> /\ Head(up'[e]) = Listen /\ Asked(up'[e])
    <3>1. listen[e] # "none" => up'[e] = <<Listen>> \o puts[e]
      BY <2>1 DEF Restored
    <3> QED BY <3>1, ResendTypes DEF Asked
  <2>4. Asked(up'[e]) => listen[e] # "none"
    <3>1. listen[e] = "none" => up'[e] = puts[e]
      BY <2>1, ResendTypes DEF Restored
    <3>2. ~ Asked(puts[e])
      BY ResendTypes, NotListen DEF Asked
    <3> QED BY <3>1, <3>2
  <2>3. ~ subscribed[e] /\ Denials(down[e]) = {}
    BY <1>0, <2>1 DEF ListeningAt
  <2>5. Once(up'[e])
    <3>1. ~ Asked(puts[e]) /\ \A i \in DOMAIN puts[e] : puts[e][i] # Listen
      BY ResendTypes, NotListen DEF Asked
    <3>2. CASE up'[e] = puts[e]
      BY <3>1, <3>2 DEF Once
    <3>3. CASE up'[e] = <<Listen>> \o puts[e]
      <4>1. \A i \in DOMAIN up'[e] : i # 1 => i - 1 \in DOMAIN puts[e] /\ up'[e][i] = puts[e][i - 1]
        BY <3>3, ResendTypes
      <4> QED BY <3>1, <4>1 DEF Once
    <3>4. up'[e] = puts[e] \/ up'[e] = <<Listen>> \o puts[e]
      <4>1. up'[e] = Restored(e) /\ <<>> \o puts[e] = puts[e]
        BY <2>1, ResendTypes
      <4> QED BY <4>1 DEF Restored
    <3> QED BY <3>2, <3>3, <3>4
  <2> QED BY <1>0, <1>1, <2>1, <2>2, <2>3, <2>4, <2>5 DEF ListeningAt
<1> QED BY <1>2, <1>3

\* A lost connection loses the subscription; a kill everything.
LEMMA DropListening ==
  ASSUME TypeOK, Listening, NEW d \in Device, Disconnect(d) \/ Restart(d)
  PROVE  Listening'
<1> SUFFICES ASSUME NEW e \in Device PROVE ListeningAt(e)'
  BY DEF Listening
<1>0. ListeningAt(e)
  BY DEF Listening
<1>2. CASE e # d
  <2>1. /\ up'[e] = up[e] /\ conn'[e] = conn[e] /\ subscribed'[e] = subscribed[e]
        /\ down'[e] = down[e] /\ synced'[e] = synced[e]
    BY <1>2 DEF Disconnect, Restart, TypeOK
  <2>2. observers'[e] = observers[e] /\ listen'[e] = listen[e]
    BY <1>2 DEF Disconnect, Restart, TypeOK
  <2> QED BY <1>0, <2>1, <2>2, SameListening
<1>3. CASE e = d
  <2>1. conn'[e] = "down" /\ ~ subscribed'[e] /\ down'[e] = <<>> /\ up'[e] = <<>>
    BY <1>3 DEF Disconnect, Restart, TypeOK
  <2>2. synced'[e] \/ observers'[e] > 0 => listen'[e] # "none"
    <3>1. CASE Disconnect(d)
      <4>1. synced'[e] = synced[e] /\ observers'[e] = observers[e]
            /\ (listen[e] # "none" => listen'[e] # "none")
        BY <1>3, <3>1 DEF Disconnect, TypeOK
      <4> QED BY <1>0, <4>1 DEF ListeningAt
    <3>2. CASE Restart(d)
      BY <1>3, <3>2 DEF Restart, TypeOK
    <3> QED BY <3>1, <3>2
  <2>3. ~ Asked(<<>>) /\ Once(<<>>)
    BY DEF Asked, Once
  <2> QED BY <2>1, <2>2, <2>3, Bareness, NoData DEF ListeningAt
<1> QED BY <1>2, <1>3

\* The first data makes the client synced.
LEMMA ReceiveListening ==
  ASSUME TypeOK, Listening, NEW d \in Device,
         ReceiveData(d) \/ ReceiveListenOk(d) \/ ReceivePutDone(d)
  PROVE  Listening'
<1> SUFFICES ASSUME NEW e \in Device PROVE ListeningAt(e)'
  BY DEF Listening
<1>0. ListeningAt(e)
  BY DEF Listening
<1>1. UNCHANGED <<subscribed, up, conn, observers>>
  BY DEF ReceiveData, ReceiveListenOk, ReceivePutDone
<1>2. CASE e # d
  <2>1. down'[e] = down[e] /\ synced'[e] = synced[e] /\ listen'[e] = listen[e]
    BY <1>2 DEF ReceiveData, ReceiveListenOk, ReceivePutDone, TypeOK
  <2> QED BY <1>0, <1>1, <2>1, SameListening
<1>3. CASE e = d
  <2>1. down[e] # <<>> /\ down'[e] = Tail(down[e])
    BY <1>3 DEF ReceiveData, ReceiveListenOk, ReceivePutDone, TypeOK
  <2>2. /\ Bare(down[e]) => Bare(down'[e])
        /\ Bare(down[e]) /\ Denials(down[e]) = {} => Head(down[e]).op = "putDone"
    BY <2>1, ListeningTypes, BareMore
  <2>5. /\ Denials(down'[e]) = {} <=> Denials(down[e]) = {}
        /\ \A i, j \in Denials(down'[e]) : i = j
    <3>1. Head(down[e]).op # "denied"
      BY <1>3 DEF ReceiveData, ReceiveListenOk, ReceivePutDone
    <3>2. \A i, j \in Denials(down[e]) : i = j
      BY <1>0 DEF ListeningAt
    <3>3. down[e] \in Seq(Answer) /\ down[e] # <<>>
      BY <2>1, ListeningTypes
    <3>4. /\ Denials(Tail(down[e])) = {} <=> Denials(down[e]) = {}
          /\ \A i, j \in Denials(Tail(down[e])) : i = j
      BY <3>1, <3>2, <3>3, StillDenied
    <3> QED BY <2>1, <3>4
  <2>3. CASE ReceiveData(d)
    <3>1. synced'[e] /\ listen'[e] = listen[e] /\ Head(down[e]).op \in {"all", "update"}
      BY <1>3, <2>3 DEF ReceiveData, TypeOK
    <3>3. subscribed[e] \/ Denials(down[e]) # {}
      BY <1>0, <2>2, <3>1 DEF ListeningAt
    <3>4. listen[e] # "none"
      BY <1>0, <3>3 DEF ListeningAt
    <3> QED BY <1>0, <1>1, <2>2, <2>5, <3>1, <3>3, <3>4 DEF ListeningAt
  <2>4. CASE ReceiveListenOk(d) \/ ReceivePutDone(d)
    <3>1. synced'[e] = synced[e] /\ (listen'[e] = listen[e] \/ listen'[e] = "ok")
          /\ Head(down[e]).op \notin {"all", "update"}
      BY <1>3, <2>4 DEF ReceiveListenOk, ReceivePutDone, TypeOK
    <3>2. (Opens(down[e]) => Opens(down'[e])) /\ (Data(down[e]) = {} => Data(down'[e]) = {})
      BY <2>1, <3>1, ListeningTypes, OpensTail
    <3>3. listen[e] = "none" => listen'[e] = "none"
      <4>1. listen[e] = "none" => Head(down[e]).op = "putDone"
        BY <1>0, <2>2 DEF ListeningAt
      <4> QED BY <1>3, <2>4, <4>1 DEF ReceiveListenOk, ReceivePutDone
    <3> QED BY <1>0, <1>1, <2>2, <2>5, <3>1, <3>2, <3>3 DEF ListeningAt
  <2> QED BY <2>3, <2>4
<1> QED BY <1>2, <1>3

\* The denial arrives: the client has neither the collection nor a listener.
LEMMA ReceiveDenialListening ==
  ASSUME TypeOK, Listening, NEW d \in Device, ReceiveDenial(d)
  PROVE  Listening'
<1> SUFFICES ASSUME NEW e \in Device PROVE ListeningAt(e)'
  BY DEF Listening
<1>0. ListeningAt(e)
  BY DEF Listening
<1>1. UNCHANGED <<subscribed, up, conn>>
  BY DEF ReceiveDenial
<1>2. CASE e # d
  <2>1. /\ down'[e] = down[e] /\ synced'[e] = synced[e] /\ listen'[e] = listen[e]
        /\ observers'[e] = observers[e]
    BY <1>2 DEF ReceiveDenial, TypeOK
  <2> QED BY <1>0, <1>1, <2>1, SameListening
<1>3. CASE e = d
  <2>1. /\ down[e] # <<>> /\ down'[e] = Tail(down[e]) /\ Head(down[e]).op = "denied"
        /\ synced'[e] = FALSE /\ listen'[e] = "none" /\ observers'[e] = 0
    BY <1>3 DEF ReceiveDenial, TypeOK
  <2>2. 1 \in Denials(down[e])
    BY <2>1, ListeningTypes, DenialsTail
  <2>3. ~ subscribed[e] /\ ~ Asked(up[e]) /\ \A i, j \in Denials(down[e]) : i = j
    BY <1>0, <2>2 DEF ListeningAt
  <2>4. Denials(down'[e]) = {}
    BY <2>1, <2>3, ListeningTypes, StillDenied
  <2>5. Bare(down'[e])
    BY <1>0, <2>1, <2>3, ListeningTypes, BareMore DEF ListeningAt
  <2>6. Data(down'[e]) = {}
    BY <2>4, <2>5, Bareness
  <2> QED BY <1>0, <1>1, <2>1, <2>3, <2>4, <2>5, <2>6 DEF ListeningAt
<1> QED BY <1>2, <1>3

\* What a device receives when a write is accepted: the record if it listens, and
\* the answer if the write is its own.
LEMMA AcceptSends ==
  ASSUME TypeOK, NEW d \in Device, ServerAccept(d), NEW e \in Device
  PROVE  \E data \in Update, done \in PutDone :
            /\ up[d] # <<>> /\ Head(up[d]) \in Put
            /\ data = [op |-> "update", key |-> Head(up[d]).key,
                       ver |-> Len(hist[Head(up[d]).key]) + 1]
            /\ done = [op |-> "putDone", id |-> Head(up[d]).id, ok |-> TRUE]
            /\ subscribed[e] /\ e = d => down'[e] = down[e] \o <<data, done>>
            /\ subscribed[e] /\ e # d => down'[e] = down[e] \o <<data>>
            /\ ~ subscribed[e] /\ e = d => down'[e] = down[e] \o <<done>>
            /\ ~ subscribed[e] /\ e # d => down'[e] = down[e]
<1> DEFINE p    == Head(up[d])
           data == [op |-> "update", key |-> p.key, ver |-> Len(hist[p.key]) + 1]
           done == [op |-> "putDone", id |-> p.id, ok |-> TRUE]
<1>1. up[d] # <<>> /\ p \in Put
  BY ListeningTypes DEF ServerAccept, Sending
<1>2. data \in Update /\ done \in PutDone
  <2>1. Len(hist[p.key]) \in Nat
    BY <1>1, LenProperties DEF TypeOK, Put
  <2> QED BY <1>1, <2>1 DEF Put, Update, PutDone
<1>3. down'[e] = (IF subscribed[e] THEN Append(down[e], data) ELSE down[e])
                   \o (IF e = d THEN <<done>> ELSE <<>>)
  BY DEF ServerAccept
<1>4. down[e] \in Seq(Answer) /\ subscribed[e] \in BOOLEAN
  BY ListeningTypes
<1>5. data \in Answer /\ done \in Answer
  BY <1>2 DEF Answer
<1> HIDE DEF p, data, done
<1>6. Append(down[e], data) \o <<done>> = down[e] \o <<data, done>>
  BY <1>4, <1>5
<1>7. Append(down[e], data) \o <<>> = down[e] \o <<data>> /\ down[e] \o <<>> = down[e]
  BY <1>4, <1>5
<1>8. CASE subscribed[e]
  BY <1>1, <1>2, <1>3, <1>6, <1>7, <1>8 DEF p, data, done
<1>9. CASE ~ subscribed[e]
  BY <1>1, <1>2, <1>3, <1>6, <1>7, <1>9 DEF p, data, done
<1> QED BY <1>4, <1>8, <1>9

\* The database subscribes the device, and sends the whole collection first.
LEMMA ServerListenListening ==
  ASSUME TypeOK, Ordered, Listening, NEW d \in Device, ServerListen(d)
  PROVE  Listening'
<1> SUFFICES ASSUME NEW e \in Device PROVE ListeningAt(e)'
  BY DEF Listening
<1>0. ListeningAt(e)
  BY DEF Listening
<1>1. UNCHANGED <<conn, listen, observers, synced>>
  BY DEF ServerListen, client
<1>2. CASE e # d
  <2>1. up'[e] = up[e] /\ subscribed'[e] = subscribed[e] /\ down'[e] = down[e]
    BY <1>2 DEF ServerListen, TypeOK
  <2> QED BY <1>0, <1>1, <2>1, SameListening
<1>3. CASE e = d
  <2> DEFINE all == [op |-> "all", vers |-> [k \in Key |-> Len(hist[k])]]
             v == <<all, ListenOk>>
  <2>1. up[e] # <<>> /\ Head(up[e]) = Listen /\ up'[e] = Tail(up[e]) /\ subscribed'[e]
    BY <1>3 DEF ServerListen, TypeOK
  <2>2. down' = [down EXCEPT ![d] = @ \o v]
    BY DEF ServerListen
  <2>3. v \in Seq(Answer)
    <3>1. all \in All
      BY LenProperties DEF TypeOK, All
    <3> HIDE DEF all
    <3> QED BY <3>1 DEF Answer
  <2>4. Opens(v) /\ Denials(v) = {}
    BY DEF Opens, Alls, Data, ListenOk, Denials
  <2> HIDE DEF v
  <2>5. down'[e] = down[e] \o v
    BY <1>3, <2>2 DEF TypeOK
  <2>6. conn[e] = "up"
    BY <2>1, ListeningTypes DEF Ordered, OrderedAt
  <2>7. listen[e] # "none"
    BY <1>0, <2>1, ListeningTypes, ServeListening DEF ListeningAt
  <2>9. /\ Denials(down[e]) = {} /\ Once(up[e])
        /\ ~ subscribed[e]
    BY <1>0, <2>1, ListeningTypes, ServeListening DEF ListeningAt
  <2>10. Denials(down'[e]) = {} /\ ~ Asked(up'[e]) /\ Once(up'[e])
    BY <2>1, <2>3, <2>4, <2>5, <2>9, ListeningTypes, DenialsMore, ServeListening
  <2>8. Opens(down'[e])
    <3>1. Data(down[e]) = {}
      BY <1>0, <2>9, Bareness DEF ListeningAt
    <3> QED BY <2>3, <2>4, <2>5, <3>1, ListeningTypes, OpensMore
  <2> QED BY <1>0, <1>1, <2>1, <2>6, <2>7, <2>8, <2>10 DEF ListeningAt
<1> QED BY <1>2, <1>3

\* What the database appends without a listener is no data.
LEMMA AnswerListening ==
  ASSUME TypeOK, NEW e \in Device, ListeningAt(e),
         UNCHANGED <<subscribed[e], conn[e], listen[e], observers[e], synced[e]>>,
         NEW v \in Seq(Answer), down'[e] = down[e] \o v,
         ~ subscribed[e] => Bare(v), Denials(v) = {},
         \/ up'[e] = up[e]
         \/ up[e] # <<>> /\ Head(up[e]) # Listen /\ up'[e] = Tail(up[e])
  PROVE  ListeningAt(e)'
<1>1. Opens(down[e]) => Opens(down'[e])
  BY ListeningTypes, OpensMore
<1>2. Bare(down[e]) /\ Bare(v) => Bare(down'[e])
  BY ListeningTypes, BareMore
<1>3. Asked(up'[e]) <=> Asked(up[e])
  BY ListeningTypes, ServeListening
<1>6. Denials(down'[e]) = Denials(down[e])
  BY ListeningTypes, DenialsMore
<1>7. Once(up'[e])
  BY ListeningTypes, ServeListening DEF ListeningAt
<1>8. ~ subscribed[e] /\ Data(down[e]) = {} => Data(down'[e]) = {}
  <2>1. ~ subscribed[e] => Data(v) = {}
    BY Bareness
  <2> QED BY <2>1, ListeningTypes, DataMore
<1>9. ~ synced[e] /\ (subscribed[e] \/ Data(down'[e]) # {}) => Opens(down'[e])
  BY <1>1, <1>8 DEF ListeningAt
<1>4. CASE up'[e] = up[e]
  BY <1>2, <1>4, <1>6, <1>9 DEF ListeningAt
<1>5. CASE up[e] # <<>> /\ Head(up[e]) # Listen
  BY <1>2, <1>3, <1>5, <1>6, <1>7, <1>9 DEF ListeningAt
<1> QED BY <1>4, <1>5

\* Only listeners are sent the write.
LEMMA ServerAcceptListening ==
  ASSUME TypeOK, Listening, NEW d \in Device, ServerAccept(d)
  PROVE  Listening'
<1> SUFFICES ASSUME NEW e \in Device PROVE ListeningAt(e)'
  BY DEF Listening
<1>0. ListeningAt(e)
  BY DEF Listening
<1>1. UNCHANGED <<subscribed, conn, listen, observers, synced>>
  BY DEF ServerAccept, client
<1>2. \/ up'[e] = up[e]
      \/ up[e] # <<>> /\ Head(up[e]) # Listen /\ up'[e] = Tail(up[e])
  BY DEF ServerAccept, TypeOK
<1>3. PICK v \in Seq(Answer) : /\ down'[e] = down[e] \o v
                              /\ (~ subscribed[e] => Bare(v)) /\ Denials(v) = {}
  <2>1. PICK data \in Update, done \in PutDone :
            /\ subscribed[e] /\ e = d => down'[e] = down[e] \o <<data, done>>
            /\ subscribed[e] /\ e # d => down'[e] = down[e] \o <<data>>
            /\ ~ subscribed[e] /\ e = d => down'[e] = down[e] \o <<done>>
            /\ ~ subscribed[e] /\ e # d => down'[e] = down[e]
    BY AcceptSends
  <2>2. /\ <<data, done>> \in Seq(Answer) /\ <<data>> \in Seq(Answer)
        /\ <<done>> \in Seq(Answer) /\ <<>> \in Seq(Answer)
    BY DEF Answer
  <2>3. Bare(<<done>>) /\ Bare(<<>>)
    BY DEF Bare, PutDone
  <2>4. down[e] \o <<>> = down[e]
    BY ListeningTypes
  <2>5. /\ Denials(<<data, done>>) = {} /\ Denials(<<data>>) = {}
        /\ Denials(<<done>>) = {} /\ Denials(<<>>) = {}
    BY DEF Denials, PutDone, Update
  <2> QED BY <2>1, <2>2, <2>3, <2>4, <2>5, ListeningTypes
<1> QED BY <1>0, <1>1, <1>2, <1>3, AnswerListening

\* A refusal is an answer only.
LEMMA ServerRejectListening ==
  ASSUME TypeOK, Listening, NEW d \in Device, ServerReject(d)
  PROVE  Listening'
<1> SUFFICES ASSUME NEW e \in Device PROVE ListeningAt(e)'
  BY DEF Listening
<1>0. ListeningAt(e)
  BY DEF Listening
<1>1. UNCHANGED <<subscribed, conn, listen, observers, synced>>
  BY DEF ServerReject, client
<1>2. CASE e # d
  <2>1. up'[e] = up[e] /\ down'[e] = down[e]
    BY <1>2 DEF ServerReject, TypeOK
  <2> QED BY <1>0, <1>1, <2>1, SameListening
<1>3. CASE e = d
  <2> DEFINE x == [op |-> "putDone", id |-> Head(up[d]).id, ok |-> FALSE]
  <2>1. up[e] # <<>> /\ Head(up[e]) # Listen /\ up'[e] = Tail(up[e]) /\ Head(up[e]) \in Put
    BY <1>3, ListeningTypes DEF ServerReject, TypeOK, Sending
  <2>2. down' = [down EXCEPT ![d] = Append(@, x)]
    BY DEF ServerReject
  <2>3. x \in Answer /\ <<x>> \in Seq(Answer) /\ Bare(<<x>>) /\ Denials(<<x>>) = {}
    <3>1. x \in PutDone /\ x.op = "putDone"
      BY <1>3, <2>1 DEF Put, PutDone
    <3> HIDE DEF x
    <3> QED BY <3>1 DEF Answer, Bare, Denials
  <2> HIDE DEF x
  <2>4. down'[e] = down[e] \o <<x>>
    <3>1. down'[e] = Append(down[e], x)
      BY <1>3, <2>2 DEF TypeOK
    <3> QED BY <2>3, <3>1, ListeningTypes
  <2> QED BY <1>0, <1>1, <2>1, <2>3, <2>4, AnswerListening
<1> QED BY <1>2, <1>3

\* The database ends a client's listening, and tells it.
LEMMA ServerDenyListening ==
  ASSUME TypeOK, Ordered, Listening, NEW d \in Device, ServerDeny(d)
  PROVE  Listening'
<1> SUFFICES ASSUME NEW e \in Device PROVE ListeningAt(e)'
  BY DEF Listening
<1>0. ListeningAt(e)
  BY DEF Listening
<1>1. UNCHANGED <<conn, listen, observers, synced>>
  BY DEF ServerDeny, client
<1>2. CASE e # d
  <2>1. up'[e] = up[e] /\ subscribed'[e] = subscribed[e] /\ down'[e] = down[e]
    BY <1>2 DEF ServerDeny, TypeOK
  <2> QED BY <1>0, <1>1, <2>1, SameListening
<1>3. CASE e = d
  <2>1. /\ \/ up[e] # <<>> /\ Head(up[e]) = Listen /\ up'[e] = Tail(up[e])
           \/ subscribed[e] /\ up'[e] = up[e]
        /\ subscribed'[e] = FALSE /\ down'[e] = Append(down[e], Denied)
    BY <1>3 DEF ServerDeny, TypeOK
  <2>2. Denials(down[e]) = {} /\ listen[e] # "none"
    BY <1>0, <2>1, ListeningTypes, ServeListening DEF ListeningAt
  <2>3. ~ Asked(up'[e]) /\ Once(up'[e])
    BY <1>0, <2>1, ListeningTypes, ServeListening DEF ListeningAt
  <2>4. conn[e] = "up"
    BY <1>0, <2>1, ListeningTypes DEF Ordered, OrderedAt, ListeningAt
  <2>5. /\ Bare(down'[e]) /\ Denials(down'[e]) # {}
        /\ \A i, j \in Denials(down'[e]) : i = j
    BY <2>1, <2>2, ListeningTypes, BareDenied
  <2>6. ~ synced[e] /\ Data(down'[e]) # {} => Opens(down'[e])
    <3>1. <<Denied>> \in Seq(Answer) /\ down'[e] = down[e] \o <<Denied>>
      BY <2>1, ListeningTypes DEF Answer
    <3>2. Data(<<Denied>>) = {}
      BY DEF Data, Denied
    <3>3. Data(down'[e]) # {} => Data(down[e]) # {}
      BY <3>1, <3>2, ListeningTypes, DataMore
    <3>4. Opens(down[e]) => Opens(down'[e])
      BY <3>1, ListeningTypes, OpensMore
    <3> QED BY <1>0, <3>3, <3>4 DEF ListeningAt
  <2> QED BY <1>0, <1>1, <2>1, <2>2, <2>3, <2>4, <2>5, <2>6 DEF ListeningAt
<1> QED BY <1>2, <1>3

\* No action leaves a client without its listener.
LEMMA ListeningStep ==
  ASSUME Inductive, Ordered, Listening, [Next]_vars
  PROVE  Listening'
<1>0. TypeOK
  BY DEF Inductive
<1>1. ASSUME NEW d \in Device, \/ \E k \in Key, v \in Value : SetValue(d, k, v)
                               \/ RetrieveAll(d) \/ HandleValue(d) \/ HandleDone(d) \/ AckPut(d)
      PROVE  Listening'
  BY <1>0, <1>1, QuietListening
<1>2. ASSUME NEW d \in Device, RunPut(d) PROVE Listening'
  BY <1>0, <1>2, RunPutListening
<1>3. ASSUME NEW d \in Device, RunObserve(d) PROVE Listening'
  BY <1>0, <1>3, RunObserveListening
<1>4. ASSUME NEW d \in Device, Connect(d) PROVE Listening'
  BY <1>0, <1>4, ConnectListening
<1>5. ASSUME NEW d \in Device, Disconnect(d) \/ Restart(d) PROVE Listening'
  BY <1>0, <1>5, DropListening
<1>6. ASSUME NEW d \in Device, ReceiveData(d) \/ ReceiveListenOk(d) \/ ReceivePutDone(d)
      PROVE  Listening'
  BY <1>0, <1>6, ReceiveListening
<1>7. ASSUME NEW d \in Device, ServerListen(d) PROVE Listening'
  BY <1>0, <1>7, ServerListenListening
<1>8. ASSUME NEW d \in Device, ServerAccept(d) PROVE Listening'
  BY <1>0, <1>8, ServerAcceptListening
<1>9. ASSUME NEW d \in Device, ServerReject(d) PROVE Listening'
  BY <1>0, <1>9, ServerRejectListening
<1>10. ASSUME NEW d \in Device, ReceiveDenial(d) PROVE Listening'
  BY <1>0, <1>10, ReceiveDenialListening
<1>11. ASSUME NEW d \in Device, ServerDeny(d) PROVE Listening'
  BY <1>0, <1>11, ServerDenyListening
<1>12. CASE UNCHANGED vars
  BY <1>12 DEF vars, net, client, counts, Listening, ListeningAt
<1> QED
  BY <1>1, <1>2, <1>3, <1>4, <1>5, <1>6, <1>7, <1>8, <1>9, <1>10, <1>11, <1>12
     DEF Next, Infrastructure, Mishap

-----------------------------------------------------------------------------
(* What is posted and shown *)

\* Version n of k is on its way.
Delivers(D, k, n) == \E j \in DOMAIN D : Carries(D[j], k) /\ VersionIn(D[j], k) = n

\* The snapshots that are posted.
Values(E) == {i \in DOMAIN E : E[i].kind = "value"}

\* Once the posted snapshots E are handled, the screens that show s will show v.
Showing(E, s, v) ==
  /\ Values(E) = {} => s = v
  /\ \A i \in Values(E) : (\A j \in Values(E) : j <= i) => E[i].snap = v

\* The newest version of every record is in a listener's cache, or on its way to it.
Current(d) ==
  subscribed[d] => \A k \in Key : cache[d][k] = Len(hist[k]) \/ Delivers(down[d], k, Len(hist[k]))

\* A client that has the collection has posted its view.
ShowsView(d) == synced[d] => Showing(events[d], shown[d], View(d))

\* What the screens show, or are about to.
Shows == \A d \in Device : Current(d) /\ ShowsView(d)

\* More is sent.
LEMMA DeliversMore ==
  ASSUME NEW S, NEW s \in Seq(S), NEW v \in Seq(S), NEW k, NEW n
  PROVE  Delivers(s, k, n) \/ Delivers(v, k, n) => Delivers(s \o v, k, n)
<1>1. \A j \in DOMAIN s : j \in DOMAIN (s \o v) /\ (s \o v)[j] = s[j]
  OBVIOUS
<1>2. \A j \in DOMAIN v : Len(s) + j \in DOMAIN (s \o v) /\ (s \o v)[Len(s) + j] = v[j]
  OBVIOUS
<1> QED BY <1>1, <1>2 DEF Delivers

\* A message arrives.
LEMMA DeliversTail ==
  ASSUME NEW S, NEW s \in Seq(S), s # <<>>, NEW k, NEW n, Delivers(s, k, n)
  PROVE  (Carries(Head(s), k) /\ VersionIn(Head(s), k) = n) \/ Delivers(Tail(s), k, n)
<1>1. PICK j \in DOMAIN s : Carries(s[j], k) /\ VersionIn(s[j], k) = n
  BY DEF Delivers
<1>2. j = 1 => s[j] = Head(s)
  OBVIOUS
<1>3. j # 1 => j - 1 \in DOMAIN Tail(s) /\ Tail(s)[j - 1] = s[j]
  OBVIOUS
<1> QED BY <1>1, <1>2, <1>3 DEF Delivers

\* What the cache holds after a data message.
LEMMA ReceivedVersion ==
  ASSUME TypeOK, NEW d \in Device, NEW m \in Answer, m.op \in {"all", "update"}, NEW k \in Key
  PROVE  Received(d, m)[k] = IF Carries(m, k) THEN VersionIn(m, k) ELSE cache[d][k]
<1>1. CASE m.op = "all"
  BY <1>1 DEF Received, Carries, VersionIn
<1>2. CASE m.op = "update"
  BY <1>2 DEF Received, Carries, VersionIn, TypeOK
<1> QED BY <1>1, <1>2

\* What the screens were given, after another event.
LEMMA ValuesAppend ==
  ASSUME NEW E \in Seq(Event), NEW x \in Event
  PROVE  /\ \A i \in Values(Append(E, x)) : (i \in Values(E) /\ Append(E, x)[i] = E[i]) \/ i = Len(E) + 1
         /\ \A i \in Values(E) : i \in Values(Append(E, x)) /\ Append(E, x)[i] = E[i] /\ i \in 1..Len(E)
         /\ Len(E) + 1 \in Values(Append(E, x)) <=> x.kind = "value"
         /\ Append(E, x)[Len(E) + 1] = x /\ Len(E) \in Nat
BY DEF Values

\* A posted snapshot is what will be shown.
LEMMA ShowingMore ==
  ASSUME NEW E \in Seq(Event), NEW x \in Event, NEW s, NEW v
  PROVE  /\ x.kind # "value" /\ Showing(E, s, v) => Showing(Append(E, x), s, v)
         /\ x.kind = "value" => Showing(Append(E, x), s, x.snap)
<1> DEFINE F == Append(E, x)
<1>0. /\ \A i \in Values(F) : (i \in Values(E) /\ F[i] = E[i]) \/ i = Len(E) + 1
      /\ \A i \in Values(E) : i \in Values(F) /\ F[i] = E[i] /\ i \in 1..Len(E)
      /\ Len(E) + 1 \in Values(F) <=> x.kind = "value"
      /\ F[Len(E) + 1] = x /\ Len(E) \in Nat
  BY ValuesAppend
<1> HIDE DEF F
<1>1. ASSUME x.kind # "value", Showing(E, s, v) PROVE Showing(F, s, v)
  <2>1. Values(F) = Values(E) /\ \A i \in Values(E) : F[i] = E[i]
    BY <1>0, <1>1
  <2> QED BY <1>1, <2>1 DEF Showing
<1>2. ASSUME x.kind = "value" PROVE Showing(F, s, x.snap)
  <2>1. Len(E) + 1 \in Values(F)
    BY <1>0, <1>2
  <2>2. \A i \in Values(F) : (\A j \in Values(F) : j <= i) => i = Len(E) + 1
    BY <1>0, <2>1
  <2> QED BY <1>0, <2>1, <2>2 DEF Showing
<1> QED BY <1>1, <1>2 DEF F

\* The first event is handled.
LEMMA ValuesTail ==
  ASSUME NEW E \in Seq(Event), E # <<>>
  PROVE  /\ \A i \in Values(Tail(E)) : i + 1 \in Values(E) /\ Tail(E)[i] = E[i + 1] /\ i \in Nat /\ i >= 1
         /\ \A i \in Values(E) : i # 1 => i - 1 \in Values(Tail(E)) /\ Tail(E)[i - 1] = E[i]
         /\ \A i \in Values(E) : i \in Nat /\ i >= 1
         /\ 1 \in Values(E) <=> Head(E).kind = "value"
         /\ E[1] = Head(E)
BY DEF Values

\* ... and a snapshot in it is shown.
LEMMA ShowingLess ==
  ASSUME NEW E \in Seq(Event), E # <<>>, NEW s, NEW v, Showing(E, s, v)
  PROVE  /\ Head(E).kind # "value" => Showing(Tail(E), s, v)
         /\ Head(E).kind = "value" => Showing(Tail(E), Head(E).snap, v)
<1> DEFINE F == Tail(E)
<1>0. /\ \A i \in Values(F) : i + 1 \in Values(E) /\ F[i] = E[i + 1] /\ i \in Nat /\ i >= 1
      /\ \A i \in Values(E) : i # 1 => i - 1 \in Values(F) /\ F[i - 1] = E[i]
      /\ \A i \in Values(E) : i \in Nat /\ i >= 1
      /\ 1 \in Values(E) <=> Head(E).kind = "value"
      /\ E[1] = Head(E)
  BY ValuesTail
<1> HIDE DEF F
<1>1. ASSUME NEW i \in Values(F), \A j \in Values(F) : j <= i PROVE F[i].snap = v
  <2>1. i + 1 \in Values(E) /\ F[i] = E[i + 1] /\ i \in Nat /\ i >= 1
    BY <1>0
  <2>2. \A j \in Values(E) : j <= i + 1
    <3> SUFFICES ASSUME NEW j \in Values(E) PROVE j <= i + 1
      OBVIOUS
    <3>1. j # 1 => j - 1 <= i
      BY <1>0, <1>1
    <3> QED BY <1>0, <2>1, <3>1
  <2> QED BY <2>1, <2>2 DEF Showing
<1>2. CASE Values(F) = {}
  <2>1. \A i \in Values(E) : i = 1
    BY <1>0, <1>2
  <2>2. Head(E).kind # "value" => Values(E) = {}
    BY <1>0, <2>1
  <2>3. Head(E).kind = "value" => 1 \in Values(E) /\ \A j \in Values(E) : j <= 1
    BY <1>0, <2>1
  <2> QED BY <1>0, <1>2, <2>2, <2>3 DEF Showing, F
<1>3. CASE Values(F) # {}
  BY <1>1, <1>3 DEF Showing, F
<1> QED BY <1>2, <1>3

\* What a device's client holds.
LEMMA ShowTypes ==
  ASSUME TypeOK, NEW d \in Device
  PROVE  /\ down[d] \in Seq(Answer) /\ events[d] \in Seq(Event)
         /\ puts[d] \in Seq(Put) /\ toAck[d] \in Seq(Answered)
         /\ synced[d] \in BOOLEAN /\ subscribed[d] \in BOOLEAN
         /\ cache[d] \in [Key -> Nat] /\ \A k \in Key : Len(hist[k]) \in Nat
BY LenProperties DEF TypeOK, Answer, Event

\* A changed view is posted.
LEMMA ShowingChanged ==
  ASSUME TypeOK, NEW d \in Device, synced[d], Showing(events[d], shown[d], View(d)), NEW view \in Snapshot
  PROVE  /\ Showing(events[d] \o Changed(d, view), shown[d], view)
         /\ events[d] \o Changed(d, view) \in Seq(Event)
<1> DEFINE y == [kind |-> "value", snap |-> view]
<1>1. y \in Event /\ y.kind = "value" /\ y.snap = view
  BY DEF Event, ValueEv
<1>2. Changed(d, view) = IF view # View(d) THEN <<y>> ELSE <<>>
  BY DEF Changed
<1> HIDE DEF y
<1>3. CASE view # View(d)
  <2>1. events[d] \o Changed(d, view) = Append(events[d], y)
    BY <1>1, <1>2, <1>3, ShowTypes
  <2> QED BY <1>1, <2>1, ShowTypes, ShowingMore
<1>4. CASE view = View(d)
  <2>1. events[d] \o Changed(d, view) = events[d]
    BY <1>2, <1>4, ShowTypes
  <2> QED BY <1>4, <2>1, ShowTypes
<1> QED BY <1>3, <1>4

\* The view under an overlay that is as large and writes the same.
LEMMA SameOverlay ==
  ASSUME NEW vers, NEW S, NEW T, NEW w \in Seq(S), NEW u \in Seq(T), Len(u) = Len(w),
         \A i \in 1..Len(w) : u[i].key = w[i].key /\ u[i].val = w[i].val
  PROVE  Overlay(vers, u) = Overlay(vers, w)
<1>1. DOMAIN u = DOMAIN w /\ DOMAIN w = 1..Len(w)
  OBVIOUS
<1>2. \A k \in Key : WritesTo(k, u) = WritesTo(k, w)
  BY <1>1 DEF WritesTo
<1>3. ASSUME NEW k \in Key, WritesTo(k, w) # {}
      PROVE  u[CHOOSE i \in WritesTo(k, w) : \A j \in WritesTo(k, w) : j <= i].val
               = w[CHOOSE i \in WritesTo(k, w) : \A j \in WritesTo(k, w) : j <= i].val
  <2> DEFINE last == CHOOSE i \in WritesTo(k, w) : \A j \in WritesTo(k, w) : j <= i
  <2>1. WritesTo(k, w) \in SUBSET (1..Len(w)) /\ Len(w) \in Nat
    BY <1>1 DEF WritesTo
  <2>2. last \in WritesTo(k, w)
    BY <1>3, <2>1, LastIndex
  <2> QED BY <2>1, <2>2
<1>4. \A k \in Key : Overlay(vers, u)[k] = Overlay(vers, w)[k]
  BY <1>2, <1>3 DEF Overlay
<1> QED BY <1>4 DEF Overlay

\* At the start no client has the collection.
LEMMA ShowsInit == Init => Shows
BY DEF Init, Shows, Current, ShowsView

\* The view depends on the history, the cache and the pending writes only.
LEMMA SameView ==
  ASSUME NEW e \in Device, UNCHANGED <<hist, cache[e], toAck[e], puts[e]>>
  PROVE  View(e)' = View(e)
BY DEF View, Overlay, WritesTo, Stored

\* Steps that touch neither the collection nor what is shown of it.
LEMMA SameCurrent ==
  ASSUME NEW e \in Device, Current(e), UNCHANGED <<hist, subscribed[e], cache[e], down[e]>>
  PROVE  Current(e)'
BY DEF Current

\* ... and what is posted stays so.
LEMMA SameShown ==
  ASSUME NEW e \in Device, ShowsView(e),
         UNCHANGED <<hist, synced[e], cache[e], toAck[e], puts[e], events[e], shown[e]>>
  PROVE  ShowsView(e)'
<1>1. View(e)' = View(e)
  BY SameView
<1> QED BY <1>1 DEF ShowsView

\* Calls and connections change no view.
LEMMA QuietShows ==
  ASSUME TypeOK, Shows, NEW d \in Device,
         \/ \E k \in Key, v \in Value : SetValue(d, k, v)
         \/ RetrieveAll(d) \/ Connect(d)
  PROVE  Shows'
<1>1. UNCHANGED <<hist, subscribed, down, synced, cache, toAck, puts, events, shown>>
  BY DEF SetValue, RetrieveAll, Connect, net, client
<1> QED BY <1>1, SameCurrent, SameShown DEF Shows

\* The main thread shows the first snapshot.
LEMMA HandleShows ==
  ASSUME TypeOK, Shows, NEW d \in Device, HandleValue(d) \/ HandleDone(d)
  PROVE  Shows'
<1> SUFFICES ASSUME NEW e \in Device PROVE Current(e)' /\ ShowsView(e)'
  BY DEF Shows
<1>1. UNCHANGED <<hist, subscribed, down, synced, cache, toAck, puts>>
  BY DEF HandleValue, HandleDone, net, client
<1>2. Current(e)'
  BY <1>1, SameCurrent DEF Shows
<1>3. CASE e # d
  <2>1. events'[e] = events[e] /\ shown'[e] = shown[e]
    BY <1>3 DEF HandleValue, HandleDone, TypeOK
  <2> QED BY <1>1, <1>2, <2>1, SameShown DEF Shows
<1>4. CASE e = d
  <2>1. events[e] # <<>> /\ events'[e] = Tail(events[e])
    BY <1>4 DEF HandleValue, HandleDone, TypeOK
  <2>2. shown'[e] = IF Head(events[e]).kind = "value" THEN Head(events[e]).snap ELSE shown[e]
    BY <1>4 DEF HandleValue, HandleDone, TypeOK
  <2>3. synced[e] => Showing(events'[e], shown'[e], View(e))
    BY <2>1, <2>2, ShowTypes, ShowingLess DEF Shows, ShowsView
  <2>4. View(e)' = View(e) /\ synced'[e] = synced[e]
    BY <1>1, SameView
  <2> QED BY <1>2, <2>3, <2>4 DEF ShowsView
<1> QED BY <1>3, <1>4

\* What lies over a cache that the history covers is a snapshot.
LEMMA ViewSnapshot ==
  ASSUME Inductive, NEW d \in Device, NEW w \in Seq(Answered \cup Put)
  PROVE  Overlay(cache[d], w) \in Snapshot
BY StoreAssumption, OverlaySnapshot DEF Inductive, TypeOK, VersionsOrdered, InOrder

\* A write shows at once: a changed view is posted.
LEMMA RunPutShows ==
  ASSUME Inductive, Shows, NEW d \in Device, RunPut(d)
  PROVE  Shows'
<1> SUFFICES ASSUME NEW e \in Device PROVE Current(e)' /\ ShowsView(e)'
  BY DEF Shows
<1>0. TypeOK
  BY DEF Inductive
<1>1. UNCHANGED <<hist, subscribed, down, synced, cache, toAck, shown>>
  BY DEF RunPut
<1>2. Current(e)'
  BY <1>1, SameCurrent DEF Shows
<1>3. CASE e # d
  <2>1. events'[e] = events[e] /\ puts'[e] = puts[e]
    BY <1>0, <1>3 DEF RunPut, TypeOK
  <2> QED BY <1>1, <1>2, <2>1, SameShown DEF Shows
<1>4. CASE e = d
  <2> DEFINE view == Overlay(cache[e], toAck[e] \o Append(puts[e], Head(calls[e])))
  <2>a. Head(calls[e]) \in Put
    <3>1. calls[e] \in Seq({Observe} \cup Put) /\ calls[e] # <<>> /\ Head(calls[e]) # Observe
      BY <1>0, <1>4, QueueTypes DEF RunPut
    <3> QED BY <3>1
  <2>b. events'[e] = events[e] \o Changed(e, view)
    BY <1>0, <1>4 DEF RunPut, TypeOK
  <2>1. puts'[e] = Append(puts[e], Head(calls[e]))
    BY <1>0, <1>4 DEF RunPut, TypeOK
  <2>2. view \in Snapshot
    <3>1. Append(puts[e], Head(calls[e])) \in Seq(Put)
      BY <1>0, <2>a, ShowTypes
    <3>2. toAck[e] \o Append(puts[e], Head(calls[e])) \in Seq(Answered \cup Put)
      BY <1>0, <3>1, ShowTypes, PendingType
    <3> QED BY <3>2, ViewSnapshot
  <2>3. View(e)' = view
    BY <1>1, <2>1 DEF View, Overlay, WritesTo, Stored
  <2> HIDE DEF view
  <2>4. synced[e] => Showing(events'[e], shown[e], view)
    BY <1>0, <2>b, <2>2, ShowingChanged DEF Shows, ShowsView
  <2> QED BY <1>1, <1>2, <2>3, <2>4 DEF ShowsView
<1> QED BY <1>3, <1>4

\* A new observer is given the view.
LEMMA RunObserveShows ==
  ASSUME Inductive, Shows, NEW d \in Device, RunObserve(d)
  PROVE  Shows'
<1> SUFFICES ASSUME NEW e \in Device PROVE Current(e)' /\ ShowsView(e)'
  BY DEF Shows
<1>0. TypeOK
  BY DEF Inductive
<1>1. UNCHANGED <<hist, subscribed, down, synced, cache, toAck, puts, shown>>
  BY DEF RunObserve
<1>2. Current(e)'
  BY <1>1, SameCurrent DEF Shows
<1>3. CASE e # d \/ ~ synced[e]
  <2>1. events'[e] = events[e]
    BY <1>0, <1>3 DEF RunObserve, TypeOK
  <2> QED BY <1>1, <1>2, <2>1, SameShown DEF Shows
<1>4. CASE e = d /\ synced[e]
  <2> DEFINE x == [kind |-> "value", snap |-> View(e)]
  <2>1. events'[e] = Append(events[e], x)
    BY <1>0, <1>4 DEF RunObserve, TypeOK
  <2>2. View(e) \in Snapshot
    BY <1>0, ShowTypes, PendingType, ViewSnapshot DEF View
  <2>3. x \in Event /\ x.kind = "value" /\ x.snap = View(e)
    BY <2>2 DEF Event, ValueEv
  <2> HIDE DEF x
  <2>4. Showing(events'[e], shown[e], View(e))
    BY <1>0, <2>1, <2>3, ShowTypes, ShowingMore
  <2>5. View(e)' = View(e)
    BY <1>1, SameView
  <2> QED BY <1>1, <1>2, <2>4, <2>5 DEF ShowsView
<1> QED BY <1>3, <1>4

\* A lost connection changes no view; a killed process has none.
LEMMA DropShows ==
  ASSUME TypeOK, Shows, NEW d \in Device, Disconnect(d) \/ Restart(d)
  PROVE  Shows'
<1> SUFFICES ASSUME NEW e \in Device PROVE Current(e)' /\ ShowsView(e)'
  BY DEF Shows
<1>1. hist' = hist
  BY DEF Disconnect, Restart
<1>2. Current(e)'
  <2>1. CASE e = d
    <3>1. ~ subscribed'[e]
      BY <2>1 DEF Disconnect, Restart, TypeOK
    <3> QED BY <3>1 DEF Current
  <2>2. CASE e # d
    <3>1. subscribed'[e] = subscribed[e] /\ down'[e] = down[e] /\ cache'[e] = cache[e]
      BY <2>2 DEF Disconnect, Restart, TypeOK
    <3> QED BY <1>1, <3>1, SameCurrent DEF Shows
  <2> QED BY <2>1, <2>2
<1>3. ShowsView(e)'
  <2>1. CASE Disconnect(d)
    <3>1. UNCHANGED <<synced, cache, toAck, puts, events, shown>>
      BY <2>1 DEF Disconnect
    <3> QED BY <1>1, <3>1, SameShown DEF Shows
  <2>2. CASE Restart(d) /\ e = d
    <3>1. ~ synced'[e]
      BY <2>2 DEF Restart, TypeOK
    <3> QED BY <3>1 DEF ShowsView
  <2>3. CASE Restart(d) /\ e # d
    <3>1. /\ synced'[e] = synced[e] /\ cache'[e] = cache[e] /\ toAck'[e] = toAck[e]
          /\ puts'[e] = puts[e] /\ events'[e] = events[e] /\ shown'[e] = shown[e]
      BY <2>3 DEF Restart, TypeOK
    <3> QED BY <1>1, <3>1, SameShown DEF Shows
  <2> QED BY <2>1, <2>2, <2>3
<1> QED BY <1>2, <1>3

\* Messages other than data bring nothing, and take nothing away.
LEMMA TakeCurrent ==
  ASSUME TypeOK, NEW e \in Device, Current(e), UNCHANGED <<hist, subscribed[e], cache[e]>>,
         down[e] # <<>>, Head(down[e]).op \notin {"all", "update"}, down'[e] = Tail(down[e])
  PROVE  Current(e)'
<1>1. \A k \in Key : ~ Carries(Head(down[e]), k)
  BY DEF Carries
<1>2. \A k \in Key : Delivers(down[e], k, Len(hist[k])) => Delivers(down'[e], k, Len(hist[k]))
  BY <1>1, ShowTypes, DeliversTail
<1> QED BY <1>2 DEF Current

\* The answer to a listen changes no view.
LEMMA ReceiveListenOkShows ==
  ASSUME TypeOK, Shows, NEW d \in Device, ReceiveListenOk(d)
  PROVE  Shows'
<1> SUFFICES ASSUME NEW e \in Device PROVE Current(e)' /\ ShowsView(e)'
  BY DEF Shows
<1>1. UNCHANGED <<hist, subscribed, synced, cache, toAck, puts, events, shown>>
  BY DEF ReceiveListenOk
<1>2. ShowsView(e)'
  BY <1>1, SameShown DEF Shows
<1>3. CASE e # d
  <2>1. down'[e] = down[e]
    BY <1>3 DEF ReceiveListenOk, TypeOK
  <2> QED BY <1>1, <1>2, <2>1, SameCurrent DEF Shows
<1>4. CASE e = d
  <2>1. down[e] # <<>> /\ down'[e] = Tail(down[e]) /\ Head(down[e]).op \notin {"all", "update"}
    BY <1>4 DEF ReceiveListenOk, TypeOK
  <2> QED BY <1>1, <1>2, <2>1, TakeCurrent DEF Shows
<1> QED BY <1>3, <1>4

\* A denial ends the view; there is no listener any more.
LEMMA ReceiveDenialShows ==
  ASSUME TypeOK, Listening, Shows, NEW d \in Device, ReceiveDenial(d)
  PROVE  Shows'
<1> SUFFICES ASSUME NEW e \in Device PROVE Current(e)' /\ ShowsView(e)'
  BY DEF Shows
<1>1. UNCHANGED <<hist, subscribed, toAck, puts, events, shown>>
  BY DEF ReceiveDenial
<1>2. CASE e # d
  <2>1. down'[e] = down[e] /\ cache'[e] = cache[e] /\ synced'[e] = synced[e]
    BY <1>2 DEF ReceiveDenial, TypeOK
  <2> QED BY <1>1, <2>1, SameCurrent, SameShown DEF Shows
<1>3. CASE e = d
  <2>1. synced'[e] = FALSE /\ down[e] # <<>> /\ Head(down[e]).op = "denied"
    BY <1>3 DEF ReceiveDenial, TypeOK
  <2>2. 1 \in Denials(down[e])
    BY <2>1, ListeningTypes, DenialsTail
  <2>3. ~ subscribed'[e]
    BY <1>1, <2>2 DEF Listening, ListeningAt
  <2> QED BY <2>1, <2>3 DEF Current, ShowsView
<1> QED BY <1>2, <1>3

\* An answered write keeps its place among the pending ones.
LEMMA MovedAnswer ==
  ASSUME NEW T \in Seq(Answered), NEW P \in Seq(Put), P # <<>>, NEW x \in Answered,
         x.key = Head(P).key, x.val = Head(P).val
  PROVE  /\ T \o P \in Seq(Answered \cup Put)
         /\ Append(T, x) \o Tail(P) \in Seq(Answered \cup Put)
         /\ Len(Append(T, x) \o Tail(P)) = Len(T \o P)
         /\ \A i \in 1..Len(T \o P) :
               /\ (Append(T, x) \o Tail(P))[i].key = (T \o P)[i].key
               /\ (Append(T, x) \o Tail(P))[i].val = (T \o P)[i].val
<1> DEFINE w == T \o P
           u == Append(T, x) \o Tail(P)
<1>1. /\ Append(T, x) \in Seq(Answered) /\ Len(Append(T, x)) = Len(T) + 1
      /\ Tail(P) \in Seq(Put) /\ Len(Tail(P)) = Len(P) - 1 /\ Len(T) \in Nat /\ Len(P) \in Nat
  OBVIOUS
<1>2. w \in Seq(Answered \cup Put) /\ u \in Seq(Answered \cup Put)
  BY <1>1, PendingType
<1>3. Len(w) = Len(T) + Len(P) /\ Len(u) = Len(T) + Len(P)
  BY <1>1, ConcatProperties
<1>4. ASSUME NEW i \in 1..Len(T) PROVE u[i] = w[i]
  <2>1. Append(T, x)[i] = T[i]
    OBVIOUS
  <2> QED BY <1>1, <2>1, ConcatProperties
<1>5. u[Len(T) + 1] = x /\ w[Len(T) + 1] = Head(P)
  OBVIOUS
<1>6. ASSUME NEW i \in 1..Len(w), i > Len(T) + 1 PROVE u[i] = w[i]
  <2>1. w[i] = P[i - Len(T)]
    BY <1>3, <1>6, <1>1
  <2>2. u[i] = Tail(P)[i - (Len(T) + 1)]
    BY <1>3, <1>6, <1>1, ConcatProperties
  <2>3. Tail(P)[i - (Len(T) + 1)] = P[i - Len(T)]
    BY <1>1, <1>3, <1>6
  <2> QED BY <2>1, <2>2, <2>3
<1> HIDE DEF w, u
<1>7. \A i \in 1..Len(w) : i \in 1..Len(T) \/ i = Len(T) + 1 \/ i > Len(T) + 1
  BY <1>1, <1>3
<1>8. \A i \in 1..Len(w) : u[i].key = w[i].key /\ u[i].val = w[i].val
  BY <1>4, <1>5, <1>6, <1>7
<1> QED BY <1>2, <1>3, <1>8 DEF u, w

\* An answered write shows until it is acknowledged.
LEMMA ReceivePutDoneShows ==
  ASSUME TypeOK, Ordered, Shows, NEW d \in Device, ReceivePutDone(d)
  PROVE  Shows'
<1> SUFFICES ASSUME NEW e \in Device PROVE Current(e)' /\ ShowsView(e)'
  BY DEF Shows
<1>1. UNCHANGED <<hist, subscribed, synced, cache, events, shown>>
  BY DEF ReceivePutDone
<1>2. CASE e # d
  <2>1. down'[e] = down[e] /\ toAck'[e] = toAck[e] /\ puts'[e] = puts[e]
    BY <1>2 DEF ReceivePutDone, TypeOK
  <2> QED BY <1>1, <2>1, SameCurrent, SameShown DEF Shows
<1>3. CASE e = d
  <2> DEFINE x == ToAck(Head(puts[e]), Head(down[e]).ok)
  <2>1. /\ down[e] # <<>> /\ down'[e] = Tail(down[e]) /\ Head(down[e]) \in PutDone
        /\ puts[e] # <<>> /\ puts'[e] = Tail(puts[e]) /\ toAck'[e] = Append(toAck[e], x)
    BY <1>3, AnsweredFirst
  <2>2. Current(e)'
    <3>1. Head(down[e]).op \notin {"all", "update"}
      BY <2>1 DEF PutDone
    <3> QED BY <1>1, <2>1, <3>1, TakeCurrent DEF Shows
  <2>3. x \in Answered /\ x.key = Head(puts[e]).key /\ x.val = Head(puts[e]).val
    <3>1. Head(puts[e]) \in Put
      BY <2>1, ShowTypes
    <3> QED BY <2>1, <3>1 DEF ToAck, PutDone, Put, Answered
  <2> HIDE DEF x
  <2> DEFINE w == toAck[e] \o puts[e]
             u == Append(toAck[e], x) \o Tail(puts[e])
  <2>4. /\ w \in Seq(Answered \cup Put) /\ u \in Seq(Answered \cup Put) /\ Len(u) = Len(w)
        /\ \A i \in 1..Len(w) : u[i].key = w[i].key /\ u[i].val = w[i].val
    BY <2>1, <2>3, ShowTypes, MovedAnswer
  <2> HIDE DEF w, u
  <2>7. Overlay(cache[e], u) = Overlay(cache[e], w)
    BY <2>4, SameOverlay
  <2>8. View(e)' = View(e)
    <3>1. View(e)' = Overlay(cache[e], u)
      BY <1>1, <2>1 DEF View, Overlay, WritesTo, Stored, u
    <3> QED BY <2>7, <3>1 DEF View, w
  <2> QED BY <1>1, <2>2, <2>8 DEF Shows, ShowsView
<1> QED BY <1>2, <1>3

\* A write that leaves the write tree uncovers what the database sent.
LEMMA AckPutShows ==
  ASSUME Inductive, Shows, NEW d \in Device, AckPut(d)
  PROVE  Shows'
<1> SUFFICES ASSUME NEW e \in Device PROVE Current(e)' /\ ShowsView(e)'
  BY DEF Shows
<1>0. TypeOK
  BY DEF Inductive
<1>1. UNCHANGED <<hist, subscribed, down, synced, cache, puts, shown>>
  BY DEF AckPut, net
<1>2. Current(e)'
  BY <1>1, SameCurrent DEF Shows
<1>3. CASE e # d
  <2>1. toAck'[e] = toAck[e] /\ events'[e] = events[e]
    BY <1>0, <1>3 DEF AckPut, TypeOK
  <2> QED BY <1>1, <1>2, <2>1, SameShown DEF Shows
<1>4. CASE e = d
  <2> DEFINE p == Head(toAck[e])
             view == Overlay(cache[e], Tail(toAck[e]) \o puts[e])
             x == [kind |-> "done", id |-> p.id, key |-> p.key, ok |-> p.ok]
  <2>1. toAck[e] # <<>> /\ toAck'[e] = Tail(toAck[e])
    BY <1>0, <1>4 DEF AckPut, TypeOK
  <2>2. events' = [events EXCEPT ![d] = (@ \o Changed(e, view)) \o <<x>>]
    BY <1>4 DEF AckPut
  <2>3. x \in Event /\ x.kind # "value"
    <3>1. p \in Answered
      BY <1>0, <2>1, QueueTypes
    <3> QED BY <3>1 DEF Answered, DoneEv, Event
  <2> HIDE DEF x
  <2>4. view \in Snapshot
    <3>1. Tail(toAck[e]) \o puts[e] \in Seq(Answered \cup Put)
      BY <1>0, <2>1, ShowTypes, PendingType
    <3> QED BY <3>1, ViewSnapshot
  <2>5. View(e)' = view
    BY <1>1, <2>1 DEF View, Overlay, WritesTo, Stored
  <2> HIDE DEF view
  <2>6. events'[e] = (events[e] \o Changed(e, view)) \o <<x>>
    BY <1>0, <1>4, <2>2 DEF TypeOK
  <2>7. synced[e] => Showing(events'[e], shown[e], view)
    <3> SUFFICES ASSUME synced[e] PROVE Showing(events'[e], shown[e], view)
      OBVIOUS
    <3>1. /\ Showing(events[e] \o Changed(e, view), shown[e], view)
          /\ events[e] \o Changed(e, view) \in Seq(Event)
      BY <1>0, <2>4, ShowingChanged DEF Shows, ShowsView
    <3> DEFINE F == events[e] \o Changed(e, view)
    <3> HIDE DEF F
    <3>2. F \in Seq(Event) /\ events'[e] = F \o <<x>>
      BY <2>6, <3>1 DEF F
    <3>3. events'[e] = Append(F, x)
      BY <2>3, <3>2
    <3> QED BY <2>3, <3>1, <3>2, <3>3, ShowingMore DEF F
  <2> QED BY <1>1, <1>2, <2>5, <2>7 DEF ShowsView
<1> QED BY <1>3, <1>4

\* Every message that carries a record is at most as new as the history, and the
\* cache is at most as new as the message.
LEMMA NextVersion ==
  ASSUME Inductive, NEW d \in Device, down[d] # <<>>, NEW k \in Key, Carries(Head(down[d]), k)
  PROVE  /\ VersionIn(Head(down[d]), k) \in Nat
         /\ cache[d][k] <= VersionIn(Head(down[d]), k)
         /\ VersionIn(Head(down[d]), k) <= Len(hist[k])
<1>1. down[d] \in Seq(Down) /\ 1 \in DOMAIN down[d] /\ Head(down[d]) = down[d][1]
      /\ Head(down[d]) \in Down
  BY DownType DEF Inductive
<1>2. InOrder(k, cache[d][k], down[d], Len(hist[k]))
  BY DEF Inductive, VersionsOrdered
<1> QED BY <1>1, <1>2, VersionType DEF InOrder

\* The data at the head of the channel moves the cache on, to versions that the
\* history has.
LEMMA ReceivedView ==
  ASSUME Inductive, NEW d \in Device, ReceiveData(d)
  PROVE  /\ \A k \in Key :
              /\ Received(d, Head(down[d]))[k]
                   = IF Carries(Head(down[d]), k) THEN VersionIn(Head(down[d]), k) ELSE cache[d][k]
              /\ Received(d, Head(down[d]))[k] \in Nat
              /\ cache[d][k] <= Received(d, Head(down[d]))[k]
              /\ Received(d, Head(down[d]))[k] <= Len(hist[k])
         /\ Received(d, Head(down[d])) \in [Key -> Nat]
         /\ Overlay(Received(d, Head(down[d])), toAck[d] \o puts[d]) \in Snapshot
<1> DEFINE m == Head(down[d])
           new == Received(d, m)
<1>0. TypeOK
  BY DEF Inductive
<1>1. down[d] # <<>> /\ m.op \in {"all", "update"} /\ m \in Answer
  BY <1>0, ShowTypes DEF ReceiveData
<1>2. \A k \in Key : new[k] = IF Carries(m, k) THEN VersionIn(m, k) ELSE cache[d][k]
  BY <1>0, <1>1, ReceivedVersion
<1>3. \A k \in Key : new[k] \in Nat /\ cache[d][k] <= new[k] /\ new[k] <= Len(hist[k])
  <2> SUFFICES ASSUME NEW k \in Key
               PROVE  new[k] \in Nat /\ cache[d][k] <= new[k] /\ new[k] <= Len(hist[k])
    OBVIOUS
  <2>1. CASE Carries(m, k)
    BY <1>1, <1>2, <2>1, NextVersion
  <2>2. CASE ~ Carries(m, k)
    <3>1. cache[d][k] \in Nat /\ cache[d][k] <= Len(hist[k])
      BY <1>0, ShowTypes DEF Inductive, VersionsOrdered, InOrder
    <3> QED BY <1>2, <2>2, <3>1
  <2> QED BY <2>1, <2>2
<1>4. new \in [Key -> Nat]
  <2>1. m \in All \cup Update
    BY <1>1 DEF Answer, ListenOk, Denied, PutDone
  <2> QED BY <1>0, <2>1, ReceivedType
<1> HIDE DEF new
<1>5. Overlay(new, toAck[d] \o puts[d]) \in Snapshot
  <2>1. toAck[d] \o puts[d] \in Seq(Answered \cup Put)
    BY <1>0, ShowTypes, PendingType
  <2> QED BY <1>0, <1>3, <1>4, <2>1, StoreAssumption, OverlaySnapshot
<1> QED BY <1>2, <1>3, <1>4, <1>5 DEF new

\* Data changes the view, which is posted.
LEMMA ReceiveDataShows ==
  ASSUME Inductive, Shows, NEW d \in Device, ReceiveData(d)
  PROVE  Shows'
<1> SUFFICES ASSUME NEW e \in Device PROVE Current(e)' /\ ShowsView(e)'
  BY DEF Shows
<1>0. TypeOK
  BY DEF Inductive
<1>1. UNCHANGED <<hist, subscribed, toAck, puts, shown>>
  BY DEF ReceiveData
<1>2. CASE e # d
  <2>1. down'[e] = down[e] /\ cache'[e] = cache[e] /\ events'[e] = events[e] /\ synced'[e] = synced[e]
    BY <1>0, <1>2 DEF ReceiveData, TypeOK
  <2> QED BY <1>1, <2>1, SameCurrent, SameShown DEF Shows
<1>3. CASE e = d
  <2> DEFINE m == Head(down[e])
             new == Received(e, m)
             view == Overlay(new, toAck[e] \o puts[e])
             y == [kind |-> "value", snap |-> view]
  <2>1. /\ down[e] # <<>> /\ down'[e] = Tail(down[e]) /\ cache'[e] = new /\ synced'[e]
    BY <1>0, <1>3 DEF ReceiveData, TypeOK
  <2>2. events'[e] = events[e] \o (IF synced[e] THEN Changed(e, view) ELSE <<y>>)
    BY <1>0, <1>3 DEF ReceiveData, TypeOK
  <2>3. /\ \A k \in Key : /\ new[k] = IF Carries(m, k) THEN VersionIn(m, k) ELSE cache[e][k]
                          /\ new[k] \in Nat /\ cache[e][k] <= new[k] /\ new[k] <= Len(hist[k])
        /\ view \in Snapshot
    BY <1>3, ReceivedView
  <2> HIDE DEF m, new
  <2>4. Current(e)'
    <3> SUFFICES ASSUME subscribed[e], NEW k \in Key
                 PROVE  cache'[e][k] = Len(hist[k]) \/ Delivers(down'[e], k, Len(hist[k]))
      BY <1>1 DEF Current
    <3>1. Len(hist[k]) \in Nat /\ cache[e][k] \in Nat
      BY <1>0, ShowTypes
    <3>2. CASE cache[e][k] = Len(hist[k])
      BY <2>1, <2>3, <3>1, <3>2
    <3>3. CASE Delivers(down[e], k, Len(hist[k]))
      <4>1. (Carries(m, k) /\ VersionIn(m, k) = Len(hist[k])) \/ Delivers(down'[e], k, Len(hist[k]))
        BY <1>0, <2>1, <3>3, ShowTypes, DeliversTail DEF m
      <4> QED BY <2>1, <2>3, <4>1
    <3> QED BY <3>2, <3>3 DEF Shows, Current
  <2>5. View(e)' = view
    BY <1>1, <2>1 DEF View, Overlay, WritesTo, Stored
  <2>6. y \in Event /\ y.kind = "value" /\ y.snap = view
    BY <2>3 DEF Event, ValueEv
  <2> HIDE DEF view, y
  <2>7. Showing(events'[e], shown[e], view)
    <3>1. CASE synced[e]
      <4>1. events'[e] = events[e] \o Changed(e, view)
        BY <2>2, <3>1
      <4> QED BY <1>0, <2>3, <3>1, <4>1, ShowingChanged DEF Shows, ShowsView
    <3>2. CASE ~ synced[e]
      <4>1. events'[e] = Append(events[e], y)
        BY <1>0, <2>2, <2>6, <3>2, ShowTypes
      <4> QED BY <1>0, <2>6, <4>1, ShowTypes, ShowingMore
    <3> QED BY <3>1, <3>2
  <2> QED BY <1>1, <2>4, <2>5, <2>7 DEF ShowsView
<1> QED BY <1>2, <1>3

\* A new listener is sent the whole collection.
LEMMA ServerListenShows ==
  ASSUME TypeOK, Shows, NEW d \in Device, ServerListen(d)
  PROVE  Shows'
<1> SUFFICES ASSUME NEW e \in Device PROVE Current(e)' /\ ShowsView(e)'
  BY DEF Shows
<1>1. UNCHANGED <<hist, synced, cache, toAck, puts, events, shown>>
  BY DEF ServerListen, client
<1>2. ShowsView(e)'
  BY <1>1, SameShown DEF Shows
<1>3. CASE e # d
  <2>1. down'[e] = down[e] /\ subscribed'[e] = subscribed[e]
    BY <1>3 DEF ServerListen, TypeOK
  <2> QED BY <1>1, <1>2, <2>1, SameCurrent DEF Shows
<1>4. CASE e = d
  <2> DEFINE all == [op |-> "all", vers |-> [k \in Key |-> Len(hist[k])]]
             v == <<all, ListenOk>>
  <2>1. down' = [down EXCEPT ![d] = @ \o v]
    BY DEF ServerListen
  <2>2. v \in Seq(Answer)
    <3>1. all \in All
      BY LenProperties DEF TypeOK, All
    <3> HIDE DEF all
    <3> QED BY <3>1 DEF Answer
  <2>3. \A k \in Key : Delivers(v, k, Len(hist[k]))
    <3>1. 1 \in DOMAIN v /\ v[1] = all
      OBVIOUS
    <3>2. \A k \in Key : Carries(all, k) /\ VersionIn(all, k) = Len(hist[k])
      BY DEF Carries, VersionIn
    <3> HIDE DEF v, all
    <3> QED BY <3>1, <3>2 DEF Delivers
  <2> HIDE DEF v
  <2>4. down'[e] = down[e] \o v
    BY <1>4, <2>1 DEF TypeOK
  <2>5. \A k \in Key : Delivers(down'[e], k, Len(hist[k]))
    BY <2>2, <2>3, <2>4, ShowTypes, DeliversMore
  <2> QED BY <1>1, <1>2, <2>5 DEF Current
<1> QED BY <1>3, <1>4

\* An accepted write is sent to every listener, and changes no view by itself.
LEMMA ServerAcceptShows ==
  ASSUME Inductive, Shows, NEW d \in Device, ServerAccept(d)
  PROVE  Shows'
<1> SUFFICES ASSUME NEW e \in Device PROVE Current(e)' /\ ShowsView(e)'
  BY DEF Shows
<1>0. TypeOK
  BY DEF Inductive
<1>1. UNCHANGED <<subscribed, synced, cache, toAck, puts, events, shown>>
  BY DEF ServerAccept, client
<1> DEFINE p == Head(up[d])
           w == [by |-> d, id |-> p.id, val |-> p.val]
<1>2. p \in Put
  BY <1>0, ListeningTypes DEF ServerAccept, Sending
<1>3. hist' = [hist EXCEPT ![p.key] = Append(@, w)] /\ w \in Write /\ p.key \in Key
  BY <1>2 DEF ServerAccept, Put, Write
<1> HIDE DEF w
<1>4. ShowsView(e)'
  <2>1. \A l \in Key : cache[e][l] <= Len(hist[l])
    BY DEF Inductive, VersionsOrdered, InOrder
  <2>2. Overlay(cache[e], toAck[e] \o puts[e])' = Overlay(cache[e], toAck[e] \o puts[e])
    <3> DEFINE c == cache[e]  u == toAck[e] \o puts[e]
    <3>1. c' = c /\ u' = u /\ c \in [Key -> Nat]
      BY <1>0, <1>1, ShowTypes
    <3>2. \A l \in Key : Stored(l, c[l])' = Stored(l, c[l])
      <4> SUFFICES ASSUME NEW l \in Key PROVE Stored(l, c[l])' = Stored(l, c[l])
        OBVIOUS
      <4>1. c[l] \in Nat /\ c[l] <= Len(hist[l]) /\ hist[l] \in Seq(Write)
        BY <1>0, <2>1, <3>1 DEF TypeOK
      <4>2. hist'[l] = IF l = p.key THEN Append(hist[l], w) ELSE hist[l]
        BY <1>0, <1>3 DEF TypeOK
      <4>3. c[l] # 0 => hist'[l][c[l]] = hist[l][c[l]]
        BY <4>1, <4>2
      <4>4. c'[l] = c[l]
        BY <3>1
      <4> HIDE DEF c
      <4> QED BY <4>3, <4>4 DEF Stored
    <3> HIDE DEF c, u
    <3>3. Overlay(c, u)' = Overlay(c, u)
      BY <3>1, <3>2 DEF Overlay, WritesTo
    <3> QED BY <3>3 DEF c, u
  <2> QED BY <1>1, <2>2 DEF Shows, ShowsView, View
<1>5. Current(e)'
  <2> SUFFICES ASSUME subscribed[e], NEW k \in Key
               PROVE  cache[e][k] = Len(hist'[k]) \/ Delivers(down'[e], k, Len(hist'[k]))
    BY <1>1 DEF Current
  <2>1. PICK data \in Update, done \in PutDone :
          /\ data = [op |-> "update", key |-> p.key, ver |-> Len(hist[p.key]) + 1]
          /\ e = d => down'[e] = down[e] \o <<data, done>>
          /\ e # d => down'[e] = down[e] \o <<data>>
    BY <1>0, AcceptSends
  <2>2. CASE k = p.key
    <3>1. Len(hist'[k]) = Len(hist[k]) + 1
      <4>1. hist'[k] = Append(hist[k], w) /\ hist[k] \in Seq(Write)
        BY <1>0, <1>3, <2>2 DEF TypeOK
      <4> QED BY <1>3, <4>1
    <3>2. Carries(data, k) /\ VersionIn(data, k) = Len(hist'[k])
      BY <2>1, <2>2, <3>1 DEF Carries, VersionIn
    <3>3. Delivers(<<data>>, k, Len(hist'[k])) /\ Delivers(<<data, done>>, k, Len(hist'[k]))
      <4>1. 1 \in DOMAIN <<data>> /\ 1 \in DOMAIN <<data, done>> /\ <<data>>[1] = data /\ <<data, done>>[1] = data
        OBVIOUS
      <4> QED BY <3>2, <4>1 DEF Delivers
    <3>4. <<data>> \in Seq(Answer) /\ <<data, done>> \in Seq(Answer)
      BY DEF Answer
    <3> QED BY <1>0, <2>1, <3>3, <3>4, ShowTypes, DeliversMore
  <2>3. CASE k # p.key
    <3>1. hist'[k] = hist[k]
      BY <1>0, <1>3, <2>3 DEF TypeOK
    <3>2. <<data>> \in Seq(Answer) /\ <<data, done>> \in Seq(Answer)
      BY DEF Answer
    <3>3. Delivers(down[e], k, Len(hist[k])) => Delivers(down'[e], k, Len(hist[k]))
      BY <1>0, <2>1, <3>2, ShowTypes, DeliversMore
    <3> QED BY <3>1, <3>3 DEF Shows, Current
  <2> QED BY <2>2, <2>3
<1> QED BY <1>4, <1>5

\* A refusal changes no view yet.
LEMMA ServerRejectShows ==
  ASSUME TypeOK, Shows, NEW d \in Device, ServerReject(d)
  PROVE  Shows'
<1> SUFFICES ASSUME NEW e \in Device PROVE Current(e)' /\ ShowsView(e)'
  BY DEF Shows
<1>1. UNCHANGED <<hist, subscribed, synced, cache, toAck, puts, events, shown>>
  BY DEF ServerReject, client
<1>2. ShowsView(e)'
  BY <1>1, SameShown DEF Shows
<1>3. CASE e # d
  <2>1. down'[e] = down[e]
    BY <1>3 DEF ServerReject, TypeOK
  <2> QED BY <1>1, <1>2, <2>1, SameCurrent DEF Shows
<1>4. CASE e = d
  <2> DEFINE x == [op |-> "putDone", id |-> Head(up[d]).id, ok |-> FALSE]
  <2>1. down' = [down EXCEPT ![d] = Append(@, x)]
    BY DEF ServerReject
  <2>2. x \in Answer
    <3>1. Head(up[d]) \in Put
      BY ListeningTypes DEF ServerReject, Sending
    <3> QED BY <3>1 DEF Put, PutDone, Answer
  <2> HIDE DEF x
  <2>3. down'[e] = down[e] \o <<x>> /\ <<x>> \in Seq(Answer)
    <3>1. down'[e] = Append(down[e], x)
      BY <1>4, <2>1 DEF TypeOK
    <3> QED BY <2>2, <3>1, ShowTypes
  <2>4. \A k \in Key : Delivers(down[e], k, Len(hist[k])) => Delivers(down'[e], k, Len(hist[k]))
    BY <2>3, ShowTypes, DeliversMore
  <2> QED BY <1>1, <1>2, <2>4 DEF Shows, Current
<1> QED BY <1>3, <1>4

\* The database sends a client that it denies no more data.
LEMMA ServerDenyShows ==
  ASSUME TypeOK, Shows, NEW d \in Device, ServerDeny(d)
  PROVE  Shows'
<1> SUFFICES ASSUME NEW e \in Device PROVE Current(e)' /\ ShowsView(e)'
  BY DEF Shows
<1>1. UNCHANGED <<hist, synced, cache, toAck, puts, events, shown>>
  BY DEF ServerDeny, client
<1>2. ShowsView(e)'
  BY <1>1, SameShown DEF Shows
<1>3. CASE e # d
  <2>1. down'[e] = down[e] /\ subscribed'[e] = subscribed[e]
    BY <1>3 DEF ServerDeny, TypeOK
  <2> QED BY <1>1, <1>2, <2>1, SameCurrent DEF Shows
<1>4. CASE e = d
  <2>1. ~ subscribed'[e]
    BY <1>4 DEF ServerDeny, TypeOK
  <2> QED BY <1>2, <2>1 DEF Current
<1> QED BY <1>3, <1>4

\* No action changes a view without posting it.
LEMMA ShowsStep ==
  ASSUME Inductive, Ordered, Listening, Shows, [Next]_vars
  PROVE  Shows'
<1>0. TypeOK
  BY DEF Inductive
<1>1. ASSUME NEW d \in Device, \/ \E k \in Key, v \in Value : SetValue(d, k, v)
                               \/ RetrieveAll(d) \/ Connect(d)
      PROVE  Shows'
  BY <1>0, <1>1, QuietShows
<1>2. ASSUME NEW d \in Device, HandleValue(d) \/ HandleDone(d) PROVE Shows'
  BY <1>0, <1>2, HandleShows
<1>3. ASSUME NEW d \in Device, RunPut(d) PROVE Shows'
  BY <1>3, RunPutShows
<1>4. ASSUME NEW d \in Device, RunObserve(d) PROVE Shows'
  BY <1>4, RunObserveShows
<1>5. ASSUME NEW d \in Device, Disconnect(d) \/ Restart(d) PROVE Shows'
  BY <1>0, <1>5, DropShows
<1>6. ASSUME NEW d \in Device, ReceiveData(d) PROVE Shows'
  BY <1>6, ReceiveDataShows
<1>7. ASSUME NEW d \in Device, ReceiveListenOk(d) PROVE Shows'
  BY <1>0, <1>7, ReceiveListenOkShows
<1>8. ASSUME NEW d \in Device, ReceivePutDone(d) PROVE Shows'
  BY <1>0, <1>8, ReceivePutDoneShows
<1>9. ASSUME NEW d \in Device, AckPut(d) PROVE Shows'
  BY <1>9, AckPutShows
<1>10. ASSUME NEW d \in Device, ServerListen(d) PROVE Shows'
  BY <1>0, <1>10, ServerListenShows
<1>11. ASSUME NEW d \in Device, ServerAccept(d) PROVE Shows'
  BY <1>11, ServerAcceptShows
<1>12. ASSUME NEW d \in Device, ServerReject(d) PROVE Shows'
  BY <1>0, <1>12, ServerRejectShows
<1>13. ASSUME NEW d \in Device, ReceiveDenial(d) PROVE Shows'
  BY <1>0, <1>13, ReceiveDenialShows
<1>14. ASSUME NEW d \in Device, ServerDeny(d) PROVE Shows'
  BY <1>0, <1>14, ServerDenyShows
<1>15. CASE UNCHANGED vars
  <2>1. UNCHANGED <<hist, subscribed, down, synced, cache, toAck, puts, events, shown>>
    BY <1>15 DEF vars, net, client
  <2> QED BY <2>1, SameCurrent, SameShown DEF Shows
<1> QED
  BY <1>1, <1>2, <1>3, <1>4, <1>5, <1>6, <1>7, <1>8, <1>9, <1>10, <1>11, <1>12, <1>13,
     <1>14, <1>15 DEF Next, Infrastructure, Mishap

\* With nothing on its way the posted view is shown, and is the database's collection.
LEMMA SettledShows ==
  ASSUME Inductive, Listening, Shows, NEW d \in Device, Settled(d)
  PROVE  shown[d] = Server /\ synced[d]
<1>0. TypeOK
  BY DEF Inductive
<1>1. /\ observers[d] > 0 /\ conn[d] = "up" /\ up[d] = <<>> /\ down[d] = <<>>
      /\ puts[d] = <<>> /\ toAck[d] = <<>> /\ events[d] = <<>>
  BY DEF Settled
<1>2. /\ ~ Asked(<<>>) /\ ~ Opens(<<>>) /\ Values(<<>>) = {} /\ Denials(<<>>) = {}
      /\ \A k, n : ~ Delivers(<<>>, k, n)
  BY DEF Asked, Opens, Alls, Values, Denials, Delivers
<1>3. subscribed[d]
  BY <1>1, <1>2 DEF Listening, ListeningAt
<1>4. synced[d]
  BY <1>1, <1>2, <1>3 DEF Listening, ListeningAt
<1>5. shown[d] = Overlay(cache[d], <<>>)
  <2>1. <<>> \o <<>> = <<>>
    OBVIOUS
  <2>2. shown[d] = View(d)
    BY <1>1, <1>2, <1>4 DEF Shows, ShowsView, Showing
  <2> QED BY <1>1, <2>1, <2>2 DEF View
<1>6. \A k \in Key : WritesTo(k, <<>>) = {}
  BY DEF WritesTo
<1>7. \A k \in Key : cache[d][k] = Len(hist[k])
  BY <1>1, <1>2, <1>3 DEF Shows, Current
<1> QED BY <1>4, <1>5, <1>6, <1>7 DEF Overlay, Server

\* When nothing is on its way to or from a listening device, its screens show what the
\* database holds: after any lost connections, refused writes and kills, of any number
\* of devices (FSyncTree and FViewProcessor post every changed view).
THEOREM SettledScreensAgree == Spec => []SettledAgree
<1>1. Init => Ordered /\ Listening /\ Shows
  BY OrderedInit, ListeningInit, ShowsInit
<1>2. /\ Inductive /\ Inductive' /\ Ordered /\ Listening /\ Shows /\ [Next]_vars
      => Ordered' /\ Listening' /\ Shows'
  BY OrderedStep, ListeningStep, ShowsStep
<1>3. Inductive /\ Listening /\ Shows => SettledAgree
  BY SettledShows DEF SettledAgree
<1> QED
  BY <1>1, <1>2, <1>3, InductiveInvariant, PTL DEF Spec

-----------------------------------------------------------------------------
(* Where a write has come *)

\* One of the first v versions of a record, whose history is h, is the write i of d.
Applied(h, d, i, v) == \E n \in DOMAIN h : n <= v /\ h[n].by = d /\ h[n].id = i

\* The write is in the database, in a synced client's cache (at version c), and in
\* every whole collection on its way (D).
Assured(h, d, i, k, sy, c, D) ==
  /\ Applied(h, d, i, Len(h))
  /\ sy => Applied(h, d, i, c)
  /\ \A l \in Alls(D) : Applied(h, d, i, D[l].vers[k])

\* The write is in the cache, or in data before position j.
Reaches(h, d, i, k, c, D, j) ==
  \/ Applied(h, d, i, c)
  \/ \E l \in DOMAIN D : l < j /\ Carries(D[l], k) /\ Applied(h, d, i, VersionIn(D[l], k))

\* The same, once the client has handled the connection up to j, unless it was
\* denied before.
Awaited(h, d, i, k, sy, c, D, j) ==
  /\ Applied(h, d, i, Len(h))
  /\ \A l \in Alls(D) : j < l => Applied(h, d, i, D[l].vers[k])
  /\ (sy \/ \E l \in Alls(D) : l < j) /\ ~ (\E l \in Denials(D) : l < j) => Reaches(h, d, i, k, c, D, j)

\* Histories only grow.
LEMMA AppliedMore ==
  ASSUME NEW h \in Seq(Write), NEW d, NEW i
  PROVE  /\ \A v, w \in Nat : v <= w /\ Applied(h, d, i, v) => Applied(h, d, i, w)
         /\ \A x \in Write : \A v : Applied(h, d, i, v) => Applied(Append(h, x), d, i, v)
         /\ \A x \in Write : x.by = d /\ x.id = i => Applied(Append(h, x), d, i, Len(h) + 1)
<1>1. ASSUME NEW v \in Nat, NEW w \in Nat, v <= w, Applied(h, d, i, v) PROVE Applied(h, d, i, w)
  <2>1. PICK n \in DOMAIN h : n <= v /\ h[n].by = d /\ h[n].id = i
    BY <1>1 DEF Applied
  <2>2. n \in Nat
    OBVIOUS
  <2> QED BY <1>1, <2>1, <2>2 DEF Applied
<1>2. ASSUME NEW x \in Write, NEW v, Applied(h, d, i, v) PROVE Applied(Append(h, x), d, i, v)
  <2>1. \A n \in DOMAIN h : n \in DOMAIN Append(h, x) /\ Append(h, x)[n] = h[n]
    OBVIOUS
  <2> QED BY <1>2, <2>1 DEF Applied
<1>3. ASSUME NEW x \in Write, x.by = d, x.id = i PROVE Applied(Append(h, x), d, i, Len(h) + 1)
  <2>1. Len(h) + 1 \in DOMAIN Append(h, x) /\ Append(h, x)[Len(h) + 1] = x /\ Len(h) + 1 \in Nat
    OBVIOUS
  <2> QED BY <1>3, <2>1 DEF Applied
<1> QED BY <1>1, <1>2, <1>3

\* An answer's echo when a message that is no data leaves the connection.
LEMMA EchoTake ==
  ASSUME NEW h \in Seq(Write), NEW d, NEW i, NEW k, NEW sy \in BOOLEAN, NEW c,
         NEW D \in Seq(Answer), D # <<>>, Head(D).op \notin {"all", "update", "denied"}
  PROVE  /\ Assured(h, d, i, k, sy, c, D) => Assured(h, d, i, k, sy, c, Tail(D))
         /\ Awaited(h, d, i, k, sy, c, D, 1) => Assured(h, d, i, k, sy, c, Tail(D))
         /\ \A j \in DOMAIN D : j # 1 /\ Awaited(h, d, i, k, sy, c, D, j)
               => Awaited(h, d, i, k, sy, c, Tail(D), j - 1)
<1> DEFINE T == Tail(D)
<1>1. /\ \A l \in Alls(T) : l + 1 \in Alls(D) /\ T[l] = D[l + 1] /\ l \in Nat /\ l >= 1
      /\ \A l \in Alls(D) : l # 1
  BY DataTail
<1>2. /\ \A l \in DOMAIN D : l # 1 => l - 1 \in DOMAIN T /\ T[l - 1] = D[l]
      /\ D[1] = Head(D) /\ \A l \in DOMAIN D : l \in Nat /\ l >= 1
  OBVIOUS
<1>3. ~ Carries(Head(D), k)
  BY DEF Carries
<1>a. /\ \A l \in Denials(D) : l - 1 \in Denials(T) /\ l \in Nat /\ l >= 1
      /\ ~ (\E l \in Denials(D) : l < 1)
  BY DenialsTail
<1> HIDE DEF T
<1>4. Assured(h, d, i, k, sy, c, D) => Assured(h, d, i, k, sy, c, T)
  BY <1>1 DEF Assured
<1>5. ASSUME Awaited(h, d, i, k, sy, c, D, 1) PROVE Assured(h, d, i, k, sy, c, T)
  <2>1. \A l \in Alls(T) : Applied(h, d, i, T[l].vers[k])
    <3> SUFFICES ASSUME NEW l \in Alls(T) PROVE Applied(h, d, i, T[l].vers[k])
      OBVIOUS
    <3>1. l + 1 \in Alls(D) /\ T[l] = D[l + 1] /\ 1 < l + 1
      BY <1>1
    <3> QED BY <1>5, <3>1 DEF Awaited
  <2>2. sy => Applied(h, d, i, c)
    BY <1>2, <1>5, <1>a DEF Awaited, Reaches
  <2> QED BY <1>5, <2>1, <2>2 DEF Assured, Awaited
<1>6. ASSUME NEW j \in DOMAIN D, j # 1, Awaited(h, d, i, k, sy, c, D, j)
      PROVE  Awaited(h, d, i, k, sy, c, T, j - 1)
  <2>0. j \in Nat
    BY <1>2
  <2>1. \A l \in Alls(T) : j - 1 < l => Applied(h, d, i, T[l].vers[k])
    <3> SUFFICES ASSUME NEW l \in Alls(T), j - 1 < l PROVE Applied(h, d, i, T[l].vers[k])
      OBVIOUS
    <3>1. l + 1 \in Alls(D) /\ T[l] = D[l + 1] /\ j < l + 1
      BY <1>1, <2>0
    <3> QED BY <1>6, <3>1 DEF Awaited
  <2>2. (\E l \in Alls(T) : l < j - 1) => \E l \in Alls(D) : l < j
    <3> SUFFICES ASSUME NEW l \in Alls(T), l < j - 1 PROVE \E q \in Alls(D) : q < j
      OBVIOUS
    <3>1. l + 1 \in Alls(D) /\ l + 1 < j
      BY <1>1, <2>0
    <3> QED BY <3>1
  <2>3. Reaches(h, d, i, k, c, D, j) => Reaches(h, d, i, k, c, T, j - 1)
    <3> SUFFICES ASSUME NEW l \in DOMAIN D, l < j, Carries(D[l], k), Applied(h, d, i, VersionIn(D[l], k))
                 PROVE  Reaches(h, d, i, k, c, T, j - 1)
      BY DEF Reaches
    <3>1. l # 1
      BY <1>2, <1>3
    <3>2. l - 1 \in DOMAIN T /\ T[l - 1] = D[l] /\ l - 1 < j - 1
      BY <1>2, <2>0, <3>1
    <3> QED BY <3>2 DEF Reaches
  <2>4. (\E l \in Denials(D) : l < j) => \E l \in Denials(T) : l < j - 1
    <3> SUFFICES ASSUME NEW l \in Denials(D), l < j PROVE \E q \in Denials(T) : q < j - 1
      OBVIOUS
    <3>1. l - 1 \in Denials(T) /\ l - 1 < j - 1
      BY <1>a, <2>0
    <3> QED BY <3>1
  <2> QED BY <1>6, <2>1, <2>2, <2>3, <2>4 DEF Awaited
<1> QED BY <1>4, <1>5, <1>6 DEF T

\* ... and when data leaves it: the cache is as new as the data, and the first
\* data of a process is the whole collection.
LEMMA EchoData ==
  ASSUME NEW h \in Seq(Write), NEW d, NEW i, NEW k, NEW sy \in BOOLEAN, NEW c \in Nat, NEW c2 \in Nat,
         NEW D \in Seq(Answer), D # <<>>, c <= c2, ~ sy => Head(D).op = "all",
         Head(D).op \in {"all", "update"},
         c2 = IF Carries(Head(D), k) THEN VersionIn(Head(D), k) ELSE c
  PROVE  /\ Assured(h, d, i, k, sy, c, D) => Assured(h, d, i, k, TRUE, c2, Tail(D))
         /\ \A j \in DOMAIN D : D[j].op = "putDone" /\ Awaited(h, d, i, k, sy, c, D, j)
               => j # 1 /\ Awaited(h, d, i, k, TRUE, c2, Tail(D), j - 1)
<1> DEFINE T == Tail(D)
<1>1. /\ \A l \in Alls(T) : l + 1 \in Alls(D) /\ T[l] = D[l + 1] /\ l \in Nat /\ l >= 1
      /\ 1 \in Alls(D) <=> Head(D).op = "all"
  BY DataTail
<1>2. /\ \A l \in DOMAIN D : l # 1 => l - 1 \in DOMAIN T /\ T[l - 1] = D[l]
      /\ D[1] = Head(D) /\ \A l \in DOMAIN D : l \in Nat /\ l >= 1
  OBVIOUS
<1>3. Applied(h, d, i, c) => Applied(h, d, i, c2)
  BY AppliedMore
<1>a. \A l \in Denials(D) : l - 1 \in Denials(T) /\ l \in Nat /\ l >= 1
  BY DenialsTail
<1>4. Head(D).op = "all" => Carries(Head(D), k) /\ VersionIn(Head(D), k) = Head(D).vers[k]
  BY DEF Carries, VersionIn
<1> HIDE DEF T
<1>5. ASSUME Assured(h, d, i, k, sy, c, D) PROVE Assured(h, d, i, k, TRUE, c2, T)
  <2>1. Applied(h, d, i, c2)
    <3>1. CASE sy
      BY <1>3, <1>5, <3>1 DEF Assured
    <3>2. CASE ~ sy
      <4>1. 1 \in Alls(D) /\ D[1].vers[k] = c2
        BY <1>1, <1>2, <1>4, <3>2
      <4> QED BY <1>5, <4>1 DEF Assured
    <3> QED BY <3>1, <3>2
  <2>2. \A l \in Alls(T) : Applied(h, d, i, T[l].vers[k])
    BY <1>1, <1>5 DEF Assured
  <2> QED BY <1>5, <2>1, <2>2 DEF Assured
<1>6. ASSUME NEW j \in DOMAIN D, D[j].op = "putDone", Awaited(h, d, i, k, sy, c, D, j)
      PROVE  j # 1 /\ Awaited(h, d, i, k, TRUE, c2, T, j - 1)
  <2>0. j # 1 /\ j \in Nat /\ j >= 1
    BY <1>2, <1>6
  <2>1. \A l \in Alls(T) : j - 1 < l => Applied(h, d, i, T[l].vers[k])
    <3> SUFFICES ASSUME NEW l \in Alls(T), j - 1 < l PROVE Applied(h, d, i, T[l].vers[k])
      OBVIOUS
    <3>1. l + 1 \in Alls(D) /\ T[l] = D[l + 1] /\ j < l + 1
      BY <1>1, <2>0
    <3> QED BY <1>6, <3>1 DEF Awaited
  <2>2. sy \/ \E l \in Alls(D) : l < j
    <3>1. ~ sy => 1 \in Alls(D) /\ 1 < j
      BY <1>1, <2>0
    <3> QED BY <3>1
  <2>3. (\E l \in Denials(T) : l < j - 1) \/ Reaches(h, d, i, k, c, D, j)
    <3>1. (\E l \in Denials(D) : l < j) => \E l \in Denials(T) : l < j - 1
      <4> SUFFICES ASSUME NEW l \in Denials(D), l < j PROVE \E q \in Denials(T) : q < j - 1
        OBVIOUS
      <4>1. l - 1 \in Denials(T) /\ l - 1 < j - 1
        BY <1>a, <2>0
      <4> QED BY <4>1
    <3> QED BY <1>6, <2>2, <3>1 DEF Awaited
  <2>4. ASSUME Reaches(h, d, i, k, c, D, j) PROVE Reaches(h, d, i, k, c2, T, j - 1)
    <3>1. CASE Applied(h, d, i, c)
      BY <1>3, <3>1 DEF Reaches
    <3>2. ASSUME NEW l \in DOMAIN D, l < j, Carries(D[l], k), Applied(h, d, i, VersionIn(D[l], k))
          PROVE  Reaches(h, d, i, k, c2, T, j - 1)
      <4>1. CASE l = 1
        BY <1>2, <3>2, <4>1 DEF Reaches
      <4>2. CASE l # 1
        <5>1. l - 1 \in DOMAIN T /\ T[l - 1] = D[l] /\ l - 1 < j - 1
          BY <1>2, <2>0, <3>2, <4>2
        <5> QED BY <3>2, <5>1 DEF Reaches
      <4> QED BY <4>1, <4>2
    <3> QED BY <2>4, <3>1, <3>2 DEF Reaches
  <2> QED BY <1>6, <2>0, <2>1, <2>3, <2>4 DEF Awaited
<1> QED BY <1>5, <1>6 DEF T

\* ... and when the denial does: behind it are answers only.
LEMMA EchoDenied ==
  ASSUME NEW h \in Seq(Write), NEW d, NEW i, NEW k, NEW sy, NEW c, NEW c2,
         NEW D \in Seq(Answer), D # <<>>, Bare(Tail(D)), Denials(Tail(D)) = {}
  PROVE  /\ Assured(h, d, i, k, sy, c, D) => Assured(h, d, i, k, FALSE, c2, Tail(D))
         /\ \A j : Awaited(h, d, i, k, sy, c, D, j) => Awaited(h, d, i, k, FALSE, c2, Tail(D), j - 1)
<1>1. Alls(Tail(D)) = {}
  BY Bareness
<1> QED BY <1>1 DEF Assured, Awaited

\* The collections among more messages.
LEMMA AllsMore ==
  ASSUME NEW D \in Seq(Answer), NEW v \in Seq(Answer)
  PROVE  \A l \in Alls(D \o v) :
            l \in Alls(D) \/ (l > Len(D) /\ l - Len(D) \in Alls(v) /\ (D \o v)[l] = v[l - Len(D)])
BY DEF Alls

\* ... when the database sends more: a collection it sends holds the write.
LEMMA EchoSend ==
  ASSUME NEW h \in Seq(Write), NEW d, NEW i, NEW k, NEW sy \in BOOLEAN, NEW c,
         NEW D \in Seq(Answer), NEW v \in Seq(Answer), \A l \in Alls(v) : v[l].vers[k] = Len(h)
  PROVE  /\ Assured(h, d, i, k, sy, c, D) => Assured(h, d, i, k, sy, c, D \o v)
         /\ \A j \in DOMAIN D : Awaited(h, d, i, k, sy, c, D, j)
               => Awaited(h, d, i, k, sy, c, D \o v, j)
<1> DEFINE T == D \o v
<1>1. /\ \A l \in Alls(T) : l \in Alls(D) \/ (l > Len(D) /\ l - Len(D) \in Alls(v) /\ T[l] = v[l - Len(D)])
      /\ \A l \in DOMAIN D : l \in DOMAIN T /\ T[l] = D[l] /\ l \in 1..Len(D)
  <2>1. \A l \in Alls(T) : l \in Alls(D) \/ (l > Len(D) /\ l - Len(D) \in Alls(v) /\ T[l] = v[l - Len(D)])
    BY AllsMore
  <2>2. \A l \in DOMAIN D : l \in DOMAIN T /\ T[l] = D[l] /\ l \in 1..Len(D)
    OBVIOUS
  <2> QED BY <2>1, <2>2
<1>2. Alls(D) \subseteq DOMAIN D /\ Len(D) \in Nat
  BY DEF Alls
<1>a. \A l \in Alls(T) : l \in Nat
  BY DEF Alls
<1>b. Denials(D) \subseteq Denials(T)
  BY DenialsMore
<1> HIDE DEF T
<1>3. Assured(h, d, i, k, sy, c, D) => Assured(h, d, i, k, sy, c, T)
  BY <1>1, <1>2 DEF Assured
<1>4. ASSUME NEW j \in DOMAIN D, Awaited(h, d, i, k, sy, c, D, j)
      PROVE  Awaited(h, d, i, k, sy, c, T, j)
  <2>1. \A l \in Alls(T) : j < l => Applied(h, d, i, T[l].vers[k])
    BY <1>1, <1>2, <1>4 DEF Awaited
  <2>2. \A l \in Alls(T) : l < j => l \in Alls(D)
    BY <1>1, <1>2, <1>a
  <2>3. Reaches(h, d, i, k, c, D, j) => Reaches(h, d, i, k, c, T, j)
    BY <1>1 DEF Reaches
  <2> QED BY <1>4, <1>b, <2>1, <2>2, <2>3 DEF Awaited
<1> QED BY <1>3, <1>4 DEF T

\* ... when another write is applied to the record.
LEMMA EchoGrow ==
  ASSUME NEW h \in Seq(Write), NEW x \in Write, NEW d, NEW i, NEW k, NEW sy, NEW c, NEW D
  PROVE  /\ Assured(h, d, i, k, sy, c, D) => Assured(Append(h, x), d, i, k, sy, c, D)
         /\ \A j : Awaited(h, d, i, k, sy, c, D, j) => Awaited(Append(h, x), d, i, k, sy, c, D, j)
<1> DEFINE g == Append(h, x)
<1>0. g \in Seq(Write) /\ Len(g) = Len(h) + 1 /\ Len(h) \in Nat
  OBVIOUS
<1>1. /\ \A v : Applied(h, d, i, v) => Applied(g, d, i, v)
      /\ \A v, w \in Nat : v <= w /\ Applied(g, d, i, v) => Applied(g, d, i, w)
      /\ Len(g) = Len(h) + 1 /\ Len(h) \in Nat
  <2>1. \A v : Applied(h, d, i, v) => Applied(g, d, i, v)
    BY AppliedMore
  <2> HIDE DEF g
  <2>2. \A v, w \in Nat : v <= w /\ Applied(g, d, i, v) => Applied(g, d, i, w)
    BY <1>0, AppliedMore
  <2> QED BY <1>0, <2>1, <2>2
<1> HIDE DEF g
<1>2. Applied(h, d, i, Len(h)) => Applied(g, d, i, Len(g))
  BY <1>1
<1>3. \A j : Reaches(h, d, i, k, c, D, j) => Reaches(g, d, i, k, c, D, j)
  BY <1>1 DEF Reaches
<1>4. Assured(h, d, i, k, sy, c, D) => Assured(g, d, i, k, sy, c, D)
  BY <1>1, <1>2 DEF Assured
<1>5. \A j : Awaited(h, d, i, k, sy, c, D, j) => Awaited(g, d, i, k, sy, c, D, j)
  BY <1>1, <1>2, <1>3 DEF Awaited
<1> QED BY <1>4, <1>5 DEF g

\* ... when the connection is lost.
LEMMA EchoCut ==
  ASSUME NEW h, NEW d, NEW i, NEW k, NEW sy, NEW c, NEW D, Assured(h, d, i, k, sy, c, D)
  PROVE  Assured(h, d, i, k, sy, c, <<>>)
BY NoData DEF Assured

\* The write i of d on k has come back to the client.
Echoed(d, i, k) == Assured(hist[k], d, i, k, synced[d], cache[d][k], down[d])

\* ... or will have when position j of the connection is handled.
Echoing(d, i, k, j) == Awaited(hist[k], d, i, k, synced[d], cache[d][k], down[d], j)

\* Before an accepted write's answer arrives, its echo does.
AnswersEcho(d) ==
  \A j \in DOMAIN down[d], p \in DOMAIN puts[d] :
     down[d][j].op = "putDone" /\ down[d][j].ok /\ puts[d][p].id = down[d][j].id
       => Echoing(d, puts[d][p].id, puts[d][p].key, j)

\* An accepted write that waits for its acknowledgement has come back.
AcksEcho(d) ==
  \A j \in DOMAIN toAck[d] : toAck[d][j].ok => Echoed(d, toAck[d][j].id, toAck[d][j].key)

\* A success block that is posted has its write in the cache.
BlocksEcho(d) ==
  \A j \in DOMAIN events[d] :
     events[d][j].kind = "done" /\ events[d][j].ok => Echoed(d, events[d][j].id, events[d][j].key)

\* The inductive invariant of AckedWriteCached.
Echoes == \A d \in Device : AnswersEcho(d) /\ AcksEcho(d) /\ BlocksEcho(d)

\* At the start there is nothing to come back.
LEMMA EchoesInit == Init => Echoes
<1> SUFFICES ASSUME Init, NEW d \in Device PROVE AnswersEcho(d) /\ AcksEcho(d) /\ BlocksEcho(d)
  BY DEF Echoes
<1>1. down[d] = <<>> /\ toAck[d] = <<>> /\ events[d] = <<>>
  BY DEF Init
<1>2. DOMAIN <<>> = {}
  OBVIOUS
<1> QED BY <1>1, <1>2 DEF AnswersEcho, AcksEcho, BlocksEcho

\* What a device's client and the histories hold.
LEMMA EchoTypes ==
  ASSUME TypeOK, NEW d \in Device
  PROVE  /\ down[d] \in Seq(Answer) /\ events[d] \in Seq(Event)
         /\ puts[d] \in Seq(Put) /\ toAck[d] \in Seq(Answered)
         /\ synced[d] \in BOOLEAN /\ subscribed[d] \in BOOLEAN
         /\ \A k \in Key : cache[d][k] \in Nat /\ hist[k] \in Seq(Write) /\ Len(hist[k]) \in Nat
         /\ \A p \in DOMAIN puts[d] : puts[d][p].key \in Key /\ puts[d][p].id \in Nat
         /\ \A p \in DOMAIN toAck[d] : toAck[d][p].key \in Key
         /\ \A p \in DOMAIN events[d] : events[d][p].kind = "done" => events[d][p].key \in Key
<1>1. /\ down[d] \in Seq(Answer) /\ events[d] \in Seq(Event)
      /\ puts[d] \in Seq(Put) /\ toAck[d] \in Seq(Answered)
      /\ synced[d] \in BOOLEAN /\ subscribed[d] \in BOOLEAN
      /\ \A k \in Key : cache[d][k] \in Nat /\ hist[k] \in Seq(Write) /\ Len(hist[k]) \in Nat
  BY LenProperties DEF TypeOK, Answer, Event
<1>2. \A p \in DOMAIN puts[d] : puts[d][p].key \in Key /\ puts[d][p].id \in Nat
  <2>1. \A p \in DOMAIN puts[d] : puts[d][p] \in Put
    BY <1>1
  <2> QED BY <2>1 DEF Put, WriteId
<1>3. \A p \in DOMAIN toAck[d] : toAck[d][p].key \in Key
  <2>1. \A p \in DOMAIN toAck[d] : toAck[d][p] \in Answered
    BY <1>1
  <2> QED BY <2>1 DEF Answered
<1>4. \A p \in DOMAIN events[d] : events[d][p].kind = "done" => events[d][p].key \in Key
  <2>1. \A p \in DOMAIN events[d] : events[d][p] \in Event
    BY <1>1
  <2> QED BY <2>1 DEF Event, ValueEv, DoneEv
<1> QED BY <1>1, <1>2, <1>3, <1>4

\* What is kept of an echo when the channel and the cache are as they were.
LEMMA SameEcho ==
  ASSUME NEW e \in Device, NEW k, UNCHANGED <<hist, synced[e], cache[e], down[e]>>, NEW i
  PROVE  (Echoed(e, i, k)' <=> Echoed(e, i, k)) /\ \A j : Echoing(e, i, k, j)' <=> Echoing(e, i, k, j)
BY DEF Echoed, Echoing

\* Steps that leave channel and cache alone: new events say no success, new
\* outstanding writes have no answer yet.
LEMMA IdleEchoes ==
  ASSUME TypeOK, NEW e \in Device, AnswersEcho(e), AcksEcho(e), BlocksEcho(e),
         UNCHANGED <<hist, synced[e], cache[e], down[e]>>,
         \A p \in DOMAIN puts'[e] :
            \/ \E q \in DOMAIN puts[e] : puts'[e][p] = puts[e][q]
            \/ \A j \in DOMAIN down[e] : down[e][j].op = "putDone" => down[e][j].id # puts'[e][p].id,
         \A p \in DOMAIN toAck'[e] : \E q \in DOMAIN toAck[e] : toAck'[e][p] = toAck[e][q],
         \A p \in DOMAIN events'[e] :
            \/ \E q \in DOMAIN events[e] : events'[e][p] = events[e][q]
            \/ events'[e][p].kind = "value"
            \/ \E q \in DOMAIN toAck[e] : /\ events'[e][p].id = toAck[e][q].id
                                          /\ events'[e][p].key = toAck[e][q].key
                                          /\ events'[e][p].ok = toAck[e][q].ok
  PROVE  AnswersEcho(e)' /\ AcksEcho(e)' /\ BlocksEcho(e)'
<1>1. \A i, k, j : (Echoed(e, i, k)' <=> Echoed(e, i, k)) /\ (Echoing(e, i, k, j)' <=> Echoing(e, i, k, j))
  BY DEF Echoed, Echoing
<1>2. AnswersEcho(e)'
  <2> SUFFICES ASSUME NEW j \in DOMAIN down[e], NEW p \in DOMAIN puts'[e],
                      down[e][j].op = "putDone", down[e][j].ok, puts'[e][p].id = down[e][j].id
               PROVE  Echoing(e, puts'[e][p].id, puts'[e][p].key, j)
    BY <1>1 DEF AnswersEcho
  <2>1. PICK q \in DOMAIN puts[e] : puts'[e][p] = puts[e][q]
    OBVIOUS
  <2> QED BY <2>1 DEF AnswersEcho
<1>3. AcksEcho(e)'
  <2> SUFFICES ASSUME NEW p \in DOMAIN toAck'[e], toAck'[e][p].ok
               PROVE  Echoed(e, toAck'[e][p].id, toAck'[e][p].key)
    BY <1>1 DEF AcksEcho
  <2>1. PICK q \in DOMAIN toAck[e] : toAck'[e][p] = toAck[e][q]
    OBVIOUS
  <2> QED BY <2>1 DEF AcksEcho
<1>4. BlocksEcho(e)'
  <2> SUFFICES ASSUME NEW p \in DOMAIN events'[e], events'[e][p].kind = "done", events'[e][p].ok
               PROVE  Echoed(e, events'[e][p].id, events'[e][p].key)
    BY <1>1 DEF BlocksEcho
  <2>1. CASE \E q \in DOMAIN events[e] : events'[e][p] = events[e][q]
    BY <2>1 DEF BlocksEcho
  <2>2. CASE \E q \in DOMAIN toAck[e] : /\ events'[e][p].id = toAck[e][q].id
                                        /\ events'[e][p].key = toAck[e][q].key
                                        /\ events'[e][p].ok = toAck[e][q].ok
    <3>1. PICK q \in DOMAIN toAck[e] : /\ events'[e][p].id = toAck[e][q].id
                                       /\ events'[e][p].key = toAck[e][q].key
                                       /\ events'[e][p].ok = toAck[e][q].ok
      BY <2>2
    <3> QED BY <3>1 DEF AcksEcho
  <2> QED BY <2>1, <2>2
<1> QED BY <1>2, <1>3, <1>4

\* Steps that move no acknowledgement and add only values: what the channel does decides.
LEMMA MoreEchoes ==
  ASSUME TypeOK, NEW e \in Device, AcksEcho(e), BlocksEcho(e), toAck'[e] = toAck[e],
         \A p \in DOMAIN events'[e] :
            \/ \E q \in DOMAIN events[e] : events'[e][p] = events[e][q]
            \/ events'[e][p].kind = "value",
         \A i, k : k \in Key /\ Echoed(e, i, k) => Echoed(e, i, k)'
  PROVE  AcksEcho(e)' /\ BlocksEcho(e)'
<1>1. AcksEcho(e)'
  <2> SUFFICES ASSUME NEW p \in DOMAIN toAck'[e], toAck'[e][p].ok
               PROVE  Echoed(e, toAck[e][p].id, toAck[e][p].key)'
    BY DEF AcksEcho
  <2>1. Echoed(e, toAck[e][p].id, toAck[e][p].key) /\ toAck[e][p].key \in Key
    BY EchoTypes DEF AcksEcho
  <2>2. \A i, k : i = toAck[e][p].id /\ k = toAck[e][p].key => Echoed(e, i, k)'
    BY <2>1
  <2> QED BY <2>2
<1>2. BlocksEcho(e)'
  <2> SUFFICES ASSUME NEW p \in DOMAIN events'[e], events'[e][p].kind = "done", events'[e][p].ok
               PROVE  Echoed(e, events[e][p].id, events[e][p].key)'
    BY DEF BlocksEcho
  <2>0. PICK q \in DOMAIN events[e] : events'[e][p] = events[e][q]
    OBVIOUS
  <2>1. Echoed(e, events[e][q].id, events[e][q].key) /\ events[e][q].key \in Key
    BY <2>0, EchoTypes DEF BlocksEcho
  <2>2. \A i, k : i = events[e][q].id /\ k = events[e][q].key => Echoed(e, i, k)'
    BY <2>1
  <2> QED BY <2>0, <2>2
<1> QED BY <1>1, <1>2

\* The elements of a tail,
LEMMA TailFrom ==
  ASSUME NEW S, NEW s \in Seq(S), s # <<>>
  PROVE  \A p \in DOMAIN Tail(s) : \E q \in DOMAIN s : Tail(s)[p] = s[q]
<1>1. \A p \in DOMAIN Tail(s) : p + 1 \in DOMAIN s /\ Tail(s)[p] = s[p + 1]
  OBVIOUS
<1> QED BY <1>1

\* and those of two sequences in a row.
LEMMA ConcatFrom ==
  ASSUME NEW S, NEW s \in Seq(S), NEW v \in Seq(S)
  PROVE  \A p \in DOMAIN (s \o v) : \/ \E q \in DOMAIN s : (s \o v)[p] = s[q]
                                    \/ \E q \in DOMAIN v : (s \o v)[p] = v[q]
<1>1. \A p \in DOMAIN (s \o v) : \/ p \in DOMAIN s /\ (s \o v)[p] = s[p]
                                 \/ p - Len(s) \in DOMAIN v /\ (s \o v)[p] = v[p - Len(s)]
  OBVIOUS
<1> QED BY <1>1

\* A changed view is posted as a value.
LEMMA ChangedValue ==
  ASSUME NEW d \in Device, NEW view
  PROVE  \A q \in DOMAIN Changed(d, view) : Changed(d, view)[q].kind = "value"
<1>1. CASE synced[d] /\ view # View(d)
  BY <1>1 DEF Changed
<1>2. CASE ~ (synced[d] /\ view # View(d))
  BY <1>2 DEF Changed
<1> QED BY <1>1, <1>2

\* Calls, connections and handled events bring and take nothing.
LEMMA HandleEchoes ==
  ASSUME TypeOK, Echoes, NEW d \in Device,
         \/ \E k \in Key, v \in Value : SetValue(d, k, v)
         \/ RetrieveAll(d) \/ Connect(d) \/ HandleValue(d) \/ HandleDone(d)
  PROVE  Echoes'
<1> SUFFICES ASSUME NEW e \in Device PROVE AnswersEcho(e)' /\ AcksEcho(e)' /\ BlocksEcho(e)'
  BY DEF Echoes
<1>1. UNCHANGED <<hist, synced, cache, down, puts, toAck>>
  BY DEF SetValue, RetrieveAll, Connect, HandleValue, HandleDone, net, client
<1>2. \A p \in DOMAIN events'[e] : \E q \in DOMAIN events[e] : events'[e][p] = events[e][q]
  <2>1. events'[e] = events[e] \/ (events[e] # <<>> /\ events'[e] = Tail(events[e]))
    <3>1. CASE events' = events
      BY <3>1
    <3>2. CASE HandleValue(d) \/ HandleDone(d)
      BY <3>2 DEF HandleValue, HandleDone, TypeOK
    <3>3. ASSUME NEW k \in Key, NEW v \in Value, SetValue(d, k, v) PROVE events' = events
      BY <3>3 DEF SetValue
    <3>4. RetrieveAll(d) \/ Connect(d) => events' = events
      BY DEF RetrieveAll, Connect
    <3>5. events' = events \/ HandleValue(d) \/ HandleDone(d)
      <4>1. CASE \E k \in Key, v \in Value : SetValue(d, k, v)
        BY <3>3, <4>1
      <4>2. CASE RetrieveAll(d) \/ Connect(d)
        BY <3>4, <4>2
      <4> QED BY <4>1, <4>2
    <3> QED BY <3>1, <3>2, <3>5
  <2>2. CASE events'[e] = events[e]
    BY <2>2
  <2>3. CASE events[e] # <<>> /\ events'[e] = Tail(events[e])
    <3>1. \A p \in DOMAIN Tail(events[e]) : \E q \in DOMAIN events[e] : Tail(events[e])[p] = events[e][q]
      BY <2>3, EchoTypes, TailFrom
    <3> QED BY <2>3, <3>1
  <2> QED BY <2>1, <2>2, <2>3
<1> QED BY <1>1, <1>2, IdleEchoes DEF Echoes

\* A new outstanding write has no answer on its way.
LEMMA RunPutEchoes ==
  ASSUME Inductive, Ordered, Echoes, NEW d \in Device, RunPut(d)
  PROVE  Echoes'
<1> SUFFICES ASSUME NEW e \in Device PROVE AnswersEcho(e)' /\ AcksEcho(e)' /\ BlocksEcho(e)'
  BY DEF Echoes
<1>0. TypeOK
  BY DEF Inductive
<1>1. UNCHANGED <<hist, synced, cache, down, toAck>>
  BY DEF RunPut
<1>2. CASE e # d
  <2>1. puts'[e] = puts[e] /\ events'[e] = events[e]
    BY <1>0, <1>2 DEF RunPut, TypeOK
  <2> QED BY <1>0, <1>1, <2>1, IdleEchoes DEF Echoes
<1>3. CASE e = d
  <2> DEFINE x == Head(calls[e])
             view == Overlay(cache[e], toAck[e] \o Append(puts[e], x))
  <2>1. x \in Put /\ calls[e] # <<>>
    <3>1. calls[e] \in Seq({Observe} \cup Put) /\ calls[e] # <<>> /\ Head(calls[e]) # Observe
      BY <1>0, <1>3, QueueTypes DEF RunPut
    <3> QED BY <3>1
  <2>2. puts'[e] = Append(puts[e], x) /\ events'[e] = events[e] \o Changed(e, view)
    BY <1>0, <1>3 DEF RunPut, TypeOK
  <2>3. \A j \in DOMAIN down[e] : down[e][j].op = "putDone" => down[e][j].id # x.id
    <3>1. Before(down[e], calls[e])
      BY DEF Ordered, OrderedAt, Wire
    <3>2. 1 \in Numbered(calls[e]) /\ calls[e][1] = x
      BY <1>0, <2>1, QueueTypes, Numbers DEF Numbered
    <3> SUFFICES ASSUME NEW j \in DOMAIN down[e], down[e][j].op = "putDone" PROVE down[e][j].id # x.id
      OBVIOUS
    <3>3. down[e][j] \in PutDone
      <4>1. down[e][j] \in Answer
        BY <1>0, EchoTypes
      <4> QED BY <4>1 DEF Answer, ListenOk, Denied, All, Update
    <3>4. j \in Numbered(down[e]) /\ down[e][j].id \in Nat
      BY <3>3, Numbers DEF Numbered
    <3>5. down[e][j].id < calls[e][1].id
      BY <3>1, <3>2, <3>4 DEF Before
    <3> HIDE DEF x
    <3> QED BY <2>1, <3>2, <3>4, <3>5, Numbers
  <2>4. \A p \in DOMAIN puts'[e] : (\E q \in DOMAIN puts[e] : puts'[e][p] = puts[e][q]) \/ puts'[e][p] = x
    <3> HIDE DEF x
    <3>1. puts[e] \in Seq(Put)
      BY <1>0, EchoTypes
    <3>2. \A p \in DOMAIN Append(puts[e], x) : \/ p \in DOMAIN puts[e] /\ Append(puts[e], x)[p] = puts[e][p]
                                             \/ Append(puts[e], x)[p] = x
      BY <2>1, <3>1
    <3> QED BY <2>2, <3>2
  <2>5. \A p \in DOMAIN events'[e] :
            (\E q \in DOMAIN events[e] : events'[e][p] = events[e][q]) \/ events'[e][p].kind = "value"
    <3>1. toAck[e] \o Append(puts[e], x) \in Seq(Answered \cup Put)
      <4>1. Append(puts[e], x) \in Seq(Put)
        BY <1>0, <2>1, EchoTypes
      <4> QED BY <1>0, <4>1, EchoTypes, PendingType
    <3>2. view \in Snapshot
      BY <3>1, ViewSnapshot
    <3> HIDE DEF view
    <3>3. Changed(e, view) \in Seq(Event)
      BY <3>2, ChangedType DEF Event
    <3> QED BY <1>0, <2>2, <3>3, EchoTypes, ConcatFrom, ChangedValue
  <2> HIDE DEF x, view
  <2> QED BY <1>0, <1>1, <2>3, <2>4, <2>5, IdleEchoes DEF Echoes
<1> QED BY <1>2, <1>3

\* A new observer is given a value.
LEMMA RunObserveEchoes ==
  ASSUME Inductive, Echoes, NEW d \in Device, RunObserve(d)
  PROVE  Echoes'
<1> SUFFICES ASSUME NEW e \in Device PROVE AnswersEcho(e)' /\ AcksEcho(e)' /\ BlocksEcho(e)'
  BY DEF Echoes
<1>0. TypeOK
  BY DEF Inductive
<1>1. UNCHANGED <<hist, synced, cache, down, puts, toAck>>
  BY DEF RunObserve
<1> DEFINE x == [kind |-> "value", snap |-> View(e)]
<1>2. events'[e] = events[e] \/ events'[e] = events[e] \o <<x>>
  <2>1. events'[e] = events[e] \/ events'[e] = Append(events[e], x)
    BY <1>0 DEF RunObserve, TypeOK
  <2>2. x \in Event
    <3>1. View(e) \in Snapshot
      BY <1>0, EchoTypes, PendingType, ViewSnapshot DEF View
    <3> QED BY <3>1 DEF Event, ValueEv
  <2> HIDE DEF x
  <2> QED BY <1>0, <2>1, <2>2, EchoTypes
<1>3. <<x>> \in Seq(Event) /\ \A q \in DOMAIN <<x>> : <<x>>[q].kind = "value"
  <2>1. View(e) \in Snapshot
    BY <1>0, EchoTypes, PendingType, ViewSnapshot DEF View
  <2>2. x \in Event
    BY <2>1 DEF Event, ValueEv
  <2>3. x.kind = "value"
    OBVIOUS
  <2> HIDE DEF x
  <2> QED BY <2>2, <2>3
<1> HIDE DEF x
<1>4. \A p \in DOMAIN events'[e] :
         (\E q \in DOMAIN events[e] : events'[e][p] = events[e][q]) \/ events'[e][p].kind = "value"
  <2>1. CASE events'[e] = events[e]
    BY <2>1
  <2>2. CASE events'[e] = events[e] \o <<x>>
    <3>1. \A p \in DOMAIN (events[e] \o <<x>>) :
             \/ \E q \in DOMAIN events[e] : (events[e] \o <<x>>)[p] = events[e][q]
             \/ \E q \in DOMAIN <<x>> : (events[e] \o <<x>>)[p] = <<x>>[q]
      BY <1>0, <1>3, EchoTypes, ConcatFrom
    <3> QED BY <1>3, <2>2, <3>1
  <2> QED BY <1>2, <2>1, <2>2
<1> QED BY <1>0, <1>1, <1>4, IdleEchoes DEF Echoes

\* The completion block that is posted has the acknowledged write's number and status.
LEMMA AckPutEchoes ==
  ASSUME Inductive, Echoes, NEW d \in Device, AckPut(d)
  PROVE  Echoes'
<1> SUFFICES ASSUME NEW e \in Device PROVE AnswersEcho(e)' /\ AcksEcho(e)' /\ BlocksEcho(e)'
  BY DEF Echoes
<1>0. TypeOK
  BY DEF Inductive
<1>1. UNCHANGED <<hist, synced, cache, down, puts>>
  BY DEF AckPut, net
<1>2. CASE e # d
  <2>1. toAck'[e] = toAck[e] /\ events'[e] = events[e]
    BY <1>0, <1>2 DEF AckPut, TypeOK
  <2> QED BY <1>0, <1>1, <2>1, IdleEchoes DEF Echoes
<1>3. CASE e = d
  <2> DEFINE p == Head(toAck[e])
             view == Overlay(cache[e], Tail(toAck[e]) \o puts[e])
             x == [kind |-> "done", id |-> p.id, key |-> p.key, ok |-> p.ok]
  <2>1. toAck[e] # <<>> /\ toAck'[e] = Tail(toAck[e])
    BY <1>0, <1>3 DEF AckPut, TypeOK
  <2>2. events' = [events EXCEPT ![d] = (@ \o Changed(e, view)) \o <<x>>]
    BY <1>3 DEF AckPut
  <2>3. x \in Event /\ x.id = p.id /\ x.key = p.key /\ x.ok = p.ok
    <3>1. p \in Answered
      BY <1>0, <2>1, QueueTypes
    <3> QED BY <3>1 DEF Answered, DoneEv, Event
  <2>4. view \in Snapshot
    <3>1. Tail(toAck[e]) \o puts[e] \in Seq(Answered \cup Put)
      BY <1>0, <2>1, ShowTypes, PendingType
    <3> QED BY <3>1, ViewSnapshot
  <2>5. p = toAck[e][1] /\ 1 \in DOMAIN toAck[e]
    BY <1>0, <2>1, EchoTypes
  <2> HIDE DEF x, view, p
  <2>6. events'[e] = (events[e] \o Changed(e, view)) \o <<x>>
    BY <1>0, <1>3, <2>2 DEF TypeOK
  <2>7. Changed(e, view) \in Seq(Event) /\ events[e] \in Seq(Event) /\ <<x>> \in Seq(Event)
    BY <1>0, <2>3, <2>4, EchoTypes, ChangedType DEF Event
  <2>8. \A q \in DOMAIN (events[e] \o Changed(e, view)) :
           \/ \E r \in DOMAIN events[e] : (events[e] \o Changed(e, view))[q] = events[e][r]
           \/ (events[e] \o Changed(e, view))[q].kind = "value"
    BY <2>7, ConcatFrom, ChangedValue
  <2>9. \A q \in DOMAIN events'[e] :
           \/ \E r \in DOMAIN events[e] : events'[e][q] = events[e][r]
           \/ events'[e][q].kind = "value"
           \/ events'[e][q] = x
    <3> DEFINE F == events[e] \o Changed(e, view)
    <3>1. F \in Seq(Event)
      BY <2>7, ConcatProperties
    <3> HIDE DEF F
    <3>2. \A q \in DOMAIN (F \o <<x>>) : \/ \E r \in DOMAIN F : (F \o <<x>>)[q] = F[r]
                                        \/ (F \o <<x>>)[q] = x
      BY <2>3, <3>1
    <3> QED BY <2>6, <2>8, <3>2 DEF F
  <2>10. \A q \in DOMAIN toAck'[e] : \E r \in DOMAIN toAck[e] : toAck'[e][q] = toAck[e][r]
    BY <1>0, <2>1, EchoTypes, TailFrom
  <2>11. \A q \in DOMAIN events'[e] : events'[e][q] = x =>
            \E r \in DOMAIN toAck[e] : /\ events'[e][q].id = toAck[e][r].id
                                       /\ events'[e][q].key = toAck[e][r].key
                                       /\ events'[e][q].ok = toAck[e][r].ok
    BY <2>3, <2>5
  <2> QED BY <1>0, <1>1, <2>9, <2>10, <2>11, IdleEchoes DEF Echoes
<1> QED BY <1>2, <1>3

\* A lost connection takes what was on its way; the cache stays.
LEMMA DropEchoes ==
  ASSUME TypeOK, Echoes, NEW d \in Device, Disconnect(d) \/ Restart(d)
  PROVE  Echoes'
<1> SUFFICES ASSUME NEW e \in Device PROVE AnswersEcho(e)' /\ AcksEcho(e)' /\ BlocksEcho(e)'
  BY DEF Echoes
<1>1. hist' = hist
  BY DEF Disconnect, Restart
<1>2. CASE e # d
  <2>1. /\ synced'[e] = synced[e] /\ cache'[e] = cache[e] /\ down'[e] = down[e]
        /\ puts'[e] = puts[e] /\ toAck'[e] = toAck[e] /\ events'[e] = events[e]
    <3>1. CASE Disconnect(d)
      BY <1>2, <3>1 DEF Disconnect, TypeOK
    <3>2. CASE Restart(d)
      BY <1>2, <3>2 DEF Restart, TypeOK
    <3> QED BY <3>1, <3>2
  <2> QED BY <1>1, <2>1, IdleEchoes DEF Echoes
<1>3. CASE e = d /\ Restart(d)
  <2>1. down'[e] = <<>> /\ toAck'[e] = <<>> /\ events'[e] = <<>>
    BY <1>3 DEF Restart, TypeOK
  <2>2. DOMAIN <<>> = {}
    OBVIOUS
  <2> QED BY <2>1, <2>2 DEF AnswersEcho, AcksEcho, BlocksEcho
<1>4. CASE e = d /\ Disconnect(d)
  <2>1. /\ UNCHANGED <<synced, cache, puts, toAck, events>> /\ down'[e] = <<>>
    BY <1>4 DEF Disconnect, TypeOK
  <2>2. \A i, k : Echoed(e, i, k) => Echoed(e, i, k)'
    BY <1>1, <2>1, EchoCut DEF Echoed
  <2>3. AnswersEcho(e)'
    <3>1. DOMAIN <<>> = {}
      OBVIOUS
    <3> QED BY <2>1, <3>1 DEF AnswersEcho
  <2> QED BY <2>1, <2>2, <2>3, MoreEchoes DEF Echoes
<1> QED BY <1>2, <1>3, <1>4

\* The head of the channel is handled: an answer further on moves up.
LEMMA TakeAnswers ==
  ASSUME TypeOK, NEW e \in Device, AnswersEcho(e), down[e] # <<>>, down'[e] = Tail(down[e]),
         \A p \in DOMAIN puts'[e] : \E q \in DOMAIN puts[e] : puts'[e][p] = puts[e][q],
         \A i, k, j : k \in Key /\ j \in DOMAIN down[e] /\ j # 1 /\ down[e][j].op = "putDone"
                      /\ Echoing(e, i, k, j) => Echoing(e, i, k, j - 1)'
  PROVE  AnswersEcho(e)'
<1> SUFFICES ASSUME NEW j \in DOMAIN down'[e], NEW p \in DOMAIN puts'[e],
                    down'[e][j].op = "putDone", down'[e][j].ok, puts'[e][p].id = down'[e][j].id
             PROVE  Echoing(e, puts[e][p].id, puts[e][p].key, j)'
  BY DEF AnswersEcho
<1>1. j \in Nat /\ j >= 1 /\ j + 1 \in DOMAIN down[e] /\ down'[e][j] = down[e][j + 1]
  BY EchoTypes
<1>2. PICK q \in DOMAIN puts[e] : puts'[e][p] = puts[e][q]
  OBVIOUS
<1>3. Echoing(e, puts[e][q].id, puts[e][q].key, j + 1)
  BY <1>1, <1>2 DEF AnswersEcho
<1>4. PICK i, k : i = puts[e][q].id /\ k = puts[e][q].key
  OBVIOUS
<1>5. k \in Key /\ Echoing(e, i, k, j + 1)
  BY <1>3, <1>4, EchoTypes
<1>6. PICK l : l = j + 1 /\ l # 1 /\ l - 1 = j
  BY <1>1
<1>7. Echoing(e, i, k, l - 1)'
  BY <1>1, <1>5, <1>6
<1>8. Echoing(e, i, k, j)'
  BY <1>6, <1>7 DEF Echoing
<1> QED BY <1>2, <1>4, <1>8 DEF Echoing

\* Data arrives: what came before an answer is in the cache now.
LEMMA ReceiveDataEchoes ==
  ASSUME Inductive, Listening, Echoes, NEW d \in Device, ReceiveData(d)
  PROVE  Echoes'
<1> SUFFICES ASSUME NEW e \in Device PROVE AnswersEcho(e)' /\ AcksEcho(e)' /\ BlocksEcho(e)'
  BY DEF Echoes
<1>0. TypeOK
  BY DEF Inductive
<1>1. UNCHANGED <<hist, puts, toAck>>
  BY DEF ReceiveData
<1>2. CASE e # d
  <2>1. synced'[e] = synced[e] /\ cache'[e] = cache[e] /\ down'[e] = down[e] /\ events'[e] = events[e]
    BY <1>0, <1>2 DEF ReceiveData, TypeOK
  <2> QED BY <1>0, <1>1, <2>1, IdleEchoes DEF Echoes
<1>3. CASE e = d
  <2> DEFINE m == Head(down[e])
             new == Received(e, m)
             view == Overlay(new, toAck[e] \o puts[e])
             y == [kind |-> "value", snap |-> view]
             v == IF synced[e] THEN Changed(e, view) ELSE <<y>>
  <2>1. /\ down[e] # <<>> /\ m.op \in {"all", "update"} /\ down'[e] = Tail(down[e])
        /\ cache'[e] = new /\ synced'[e] = TRUE
    BY <1>0, <1>3 DEF ReceiveData, TypeOK
  <2>2. events'[e] = events[e] \o v
    BY <1>0, <1>3 DEF ReceiveData, TypeOK
  <2>3. m \in Answer
    BY <1>0, <2>1, EchoTypes
  <2>4. ~ synced[e] => m.op = "all"
    <3>1. Data(down[e]) # {}
      BY <1>0, <2>1, EchoTypes, DataTail
    <3> QED BY <1>0, <2>1, <3>1, EchoTypes, OpensData DEF Listening, ListeningAt
  <2>5. \A k \in Key : /\ new[k] = IF Carries(m, k) THEN VersionIn(m, k) ELSE cache[e][k]
                       /\ new[k] \in Nat /\ cache[e][k] <= new[k] /\ cache[e][k] \in Nat
    BY <1>0, <1>3, EchoTypes, ReceivedView
  <2>a. view \in Snapshot
    BY <1>3, ReceivedView
  <2>b. y \in Event /\ y.kind = "value"
    BY <2>a DEF Event, ValueEv
  <2> HIDE DEF new, view, y
  <2>c. v \in Seq(Event) /\ \A q \in DOMAIN v : v[q].kind = "value"
    <3>1. CASE synced[e]
      BY <2>a, <3>1, ChangedType, ChangedValue DEF Event
    <3>2. CASE ~ synced[e]
      BY <2>b, <3>2
    <3> QED BY <3>1, <3>2
  <2> HIDE DEF v
  <2>6. ASSUME NEW i, NEW k \in Key
        PROVE  /\ Echoed(e, i, k) => Echoed(e, i, k)'
               /\ \A j \in DOMAIN down[e] :
                     down[e][j].op = "putDone" /\ Echoing(e, i, k, j) => Echoing(e, i, k, j - 1)'
    <3> DEFINE h == hist[k]  D == down[e]  c == cache[e][k]  c2 == new[k]  sy == synced[e]
    <3>1. /\ h \in Seq(Write) /\ sy \in BOOLEAN /\ c \in Nat /\ c2 \in Nat /\ D \in Seq(Answer)
          /\ D # <<>> /\ c <= c2 /\ (~ sy => Head(D).op = "all") /\ Head(D).op \in {"all", "update"}
          /\ c2 = IF Carries(Head(D), k) THEN VersionIn(Head(D), k) ELSE c
      BY <1>0, <2>1, <2>4, <2>5, EchoTypes
    <3>2. /\ hist'[k] = h /\ synced'[e] = TRUE /\ cache'[e][k] = c2 /\ down'[e] = Tail(D)
      BY <1>1, <2>1
    <3> HIDE DEF h, D, c, c2, sy
    <3>3. /\ Assured(h, e, i, k, sy, c, D) => Assured(h, e, i, k, TRUE, c2, Tail(D))
          /\ \A j \in DOMAIN D : D[j].op = "putDone" /\ Awaited(h, e, i, k, sy, c, D, j)
               => j # 1 /\ Awaited(h, e, i, k, TRUE, c2, Tail(D), j - 1)
      BY <3>1, EchoData
    <3>4. Echoed(e, i, k) => Echoed(e, i, k)'
      BY <3>2, <3>3 DEF Echoed, h, D, c, sy
    <3>5. \A j \in DOMAIN D : D[j].op = "putDone" /\ Echoing(e, i, k, j) => Echoing(e, i, k, j - 1)'
      BY <3>2, <3>3 DEF Echoing, h, D, c, sy
    <3> QED BY <3>4, <3>5 DEF D
  <2> HIDE DEF m
  <2>7. \A p \in DOMAIN events'[e] : \/ \E q \in DOMAIN events[e] : events'[e][p] = events[e][q]
                                    \/ events'[e][p].kind = "value"
    BY <1>0, <2>2, <2>c, EchoTypes, ConcatFrom
  <2>8. AcksEcho(e)' /\ BlocksEcho(e)'
    BY <1>0, <1>1, <2>6, <2>7, MoreEchoes DEF Echoes
  <2>9. AnswersEcho(e)'
    <3>1. AnswersEcho(e) /\ down[e] # <<>> /\ down'[e] = Tail(down[e]) /\ puts'[e] = puts[e]
      BY <1>1, <2>1 DEF Echoes
    <3>2. \A p \in DOMAIN puts'[e] : \E q \in DOMAIN puts[e] : puts'[e][p] = puts[e][q]
      BY <3>1
    <3>3. \A i, k, j : k \in Key /\ j \in DOMAIN down[e] /\ j # 1 /\ down[e][j].op = "putDone"
                       /\ Echoing(e, i, k, j) => Echoing(e, i, k, j - 1)'
      <4> SUFFICES ASSUME NEW i, NEW k \in Key, NEW j \in DOMAIN down[e], j # 1,
                          down[e][j].op = "putDone", Echoing(e, i, k, j)
                   PROVE  Echoing(e, i, k, j - 1)'
        OBVIOUS
      <4> QED BY <2>6
    <3> QED BY <1>0, <3>1, <3>2, <3>3, TakeAnswers
  <2> QED BY <2>8, <2>9
<1> QED BY <1>2, <1>3

\* A message that is no data is taken from the channel.
LEMMA TakenEcho ==
  ASSUME TypeOK, NEW e \in Device, UNCHANGED <<hist, synced[e], cache[e]>>,
         down[e] # <<>>, down'[e] = Tail(down[e]), Head(down[e]).op \notin {"all", "update", "denied"},
         NEW i, NEW k \in Key
  PROVE  /\ Echoed(e, i, k) => Echoed(e, i, k)'
         /\ Echoing(e, i, k, 1) => Echoed(e, i, k)'
         /\ \A j \in DOMAIN down[e] : j # 1 /\ Echoing(e, i, k, j) => Echoing(e, i, k, j - 1)'
<1> DEFINE h == hist[k]  D == down[e]  c == cache[e][k]  sy == synced[e]
<1>1. /\ h \in Seq(Write) /\ sy \in BOOLEAN /\ D \in Seq(Answer)
      /\ D # <<>> /\ Head(D).op \notin {"all", "update", "denied"}
  BY EchoTypes
<1>2. hist'[k] = h /\ synced'[e] = sy /\ cache'[e][k] = c /\ down'[e] = Tail(D)
  OBVIOUS
<1> HIDE DEF h, D, c, sy
<1>3. /\ Assured(h, e, i, k, sy, c, D) => Assured(h, e, i, k, sy, c, Tail(D))
      /\ Awaited(h, e, i, k, sy, c, D, 1) => Assured(h, e, i, k, sy, c, Tail(D))
      /\ \A j \in DOMAIN D : j # 1 /\ Awaited(h, e, i, k, sy, c, D, j)
           => Awaited(h, e, i, k, sy, c, Tail(D), j - 1)
  BY <1>1, EchoTake
<1>4. /\ Echoed(e, i, k) => Echoed(e, i, k)'
      /\ Echoing(e, i, k, 1) => Echoed(e, i, k)'
  BY <1>2, <1>3 DEF Echoed, Echoing, h, D, c, sy
<1>5. \A j \in DOMAIN D : j # 1 /\ Echoing(e, i, k, j) => Echoing(e, i, k, j - 1)'
  BY <1>2, <1>3 DEF Echoing, h, D, c, sy
<1> QED BY <1>4, <1>5 DEF D

\* The answer to a listen arrives.
LEMMA ReceiveListenOkEchoes ==
  ASSUME TypeOK, Echoes, NEW d \in Device, ReceiveListenOk(d)
  PROVE  Echoes'
<1> SUFFICES ASSUME NEW e \in Device PROVE AnswersEcho(e)' /\ AcksEcho(e)' /\ BlocksEcho(e)'
  BY DEF Echoes
<1>1. UNCHANGED <<hist, synced, cache, puts, toAck, events>>
  BY DEF ReceiveListenOk
<1>2. CASE e # d
  <2>1. down'[e] = down[e]
    BY <1>2 DEF ReceiveListenOk, TypeOK
  <2> QED BY <1>1, <2>1, IdleEchoes DEF Echoes
<1>3. CASE e = d
  <2>1. down[e] # <<>> /\ down'[e] = Tail(down[e]) /\ Head(down[e]).op \notin {"all", "update", "denied"}
    BY <1>3 DEF ReceiveListenOk, TypeOK
  <2>2. ASSUME NEW i, NEW k \in Key
        PROVE  /\ Echoed(e, i, k) => Echoed(e, i, k)'
               /\ \A j \in DOMAIN down[e] : j # 1 /\ Echoing(e, i, k, j) => Echoing(e, i, k, j - 1)'
    BY <1>1, <2>1, TakenEcho
  <2>3. AnswersEcho(e)'
    <3>1. AnswersEcho(e) /\ puts'[e] = puts[e]
      BY <1>1 DEF Echoes
    <3>2. \A p \in DOMAIN puts'[e] : \E q \in DOMAIN puts[e] : puts'[e][p] = puts[e][q]
      BY <3>1
    <3>3. \A i, k, j : k \in Key /\ j \in DOMAIN down[e] /\ j # 1 /\ down[e][j].op = "putDone"
                       /\ Echoing(e, i, k, j) => Echoing(e, i, k, j - 1)'
      BY <2>2
    <3> QED BY <2>1, <3>1, <3>2, <3>3, TakeAnswers
  <2>4. \A i, k : k \in Key /\ Echoed(e, i, k) => Echoed(e, i, k)'
    BY <2>2
  <2> QED BY <1>1, <2>3, <2>4, MoreEchoes DEF Echoes
<1> QED BY <1>2, <1>3

\* The denial arrives: the client has no collection to miss the write.
LEMMA ReceiveDenialEchoes ==
  ASSUME TypeOK, Listening, Echoes, NEW d \in Device, ReceiveDenial(d)
  PROVE  Echoes'
<1> SUFFICES ASSUME NEW e \in Device PROVE AnswersEcho(e)' /\ AcksEcho(e)' /\ BlocksEcho(e)'
  BY DEF Echoes
<1>1. UNCHANGED <<hist, puts, toAck, events>>
  BY DEF ReceiveDenial
<1>2. CASE e # d
  <2>1. down'[e] = down[e] /\ synced'[e] = synced[e] /\ cache'[e] = cache[e]
    BY <1>2 DEF ReceiveDenial, TypeOK
  <2> QED BY <1>1, <2>1, IdleEchoes DEF Echoes
<1>3. CASE e = d
  <2>1. /\ down[e] # <<>> /\ down'[e] = Tail(down[e]) /\ Head(down[e]).op = "denied"
        /\ synced'[e] = FALSE
    BY <1>3 DEF ReceiveDenial, TypeOK
  <2>2. ~ subscribed[e] /\ Bare(down[e]) /\ \A i, j \in Denials(down[e]) : i = j
    <3>1. 1 \in Denials(down[e])
      BY <2>1, EchoTypes, DenialsTail
    <3> QED BY <3>1 DEF Listening, ListeningAt
  <2>3. Bare(Tail(down[e])) /\ Denials(Tail(down[e])) = {}
    BY <2>1, <2>2, EchoTypes, BareMore, StillDenied
  <2>4. ASSUME NEW i, NEW k \in Key
        PROVE  /\ Echoed(e, i, k) => Echoed(e, i, k)'
               /\ \A j : Echoing(e, i, k, j) => Echoing(e, i, k, j - 1)'
    <3> DEFINE h == hist[k]  D == down[e]  c == cache[e][k]  sy == synced[e]  c2 == cache'[e][k]
    <3>1. h \in Seq(Write) /\ D \in Seq(Answer) /\ D # <<>> /\ Bare(Tail(D)) /\ Denials(Tail(D)) = {}
      BY <2>1, <2>3, EchoTypes
    <3>2. hist'[k] = h /\ synced'[e] = FALSE /\ cache'[e][k] = c2 /\ down'[e] = Tail(D)
      BY <1>1, <2>1
    <3> HIDE DEF h, D, c, sy, c2
    <3>3. /\ Assured(h, e, i, k, sy, c, D) => Assured(h, e, i, k, FALSE, c2, Tail(D))
          /\ \A j : Awaited(h, e, i, k, sy, c, D, j) => Awaited(h, e, i, k, FALSE, c2, Tail(D), j - 1)
      BY <3>1, EchoDenied
    <3> QED BY <3>2, <3>3 DEF Echoed, Echoing, h, D, c, sy
  <2>5. AnswersEcho(e)'
    <3>1. AnswersEcho(e) /\ puts'[e] = puts[e]
      BY <1>1 DEF Echoes
    <3>2. \A p \in DOMAIN puts'[e] : \E q \in DOMAIN puts[e] : puts'[e][p] = puts[e][q]
      BY <3>1
    <3>3. \A i, k, j : k \in Key /\ j \in DOMAIN down[e] /\ j # 1 /\ down[e][j].op = "putDone"
                       /\ Echoing(e, i, k, j) => Echoing(e, i, k, j - 1)'
      BY <2>4
    <3> QED BY <2>1, <3>1, <3>2, <3>3, TakeAnswers
  <2>6. \A i, k : k \in Key /\ Echoed(e, i, k) => Echoed(e, i, k)'
    BY <2>4
  <2> QED BY <1>1, <2>5, <2>6, MoreEchoes DEF Echoes
<1> QED BY <1>2, <1>3

\* An answer arrives: everything the database sent before it is in the cache.
LEMMA ReceivePutDoneEchoes ==
  ASSUME TypeOK, Ordered, Echoes, NEW d \in Device, ReceivePutDone(d)
  PROVE  Echoes'
<1> SUFFICES ASSUME NEW e \in Device PROVE AnswersEcho(e)' /\ AcksEcho(e)' /\ BlocksEcho(e)'
  BY DEF Echoes
<1>1. UNCHANGED <<hist, synced, cache, events>>
  BY DEF ReceivePutDone
<1>2. CASE e # d
  <2>1. down'[e] = down[e] /\ puts'[e] = puts[e] /\ toAck'[e] = toAck[e]
    BY <1>2 DEF ReceivePutDone, TypeOK
  <2> QED BY <1>1, <2>1, IdleEchoes DEF Echoes
<1>3. CASE e = d
  <2> DEFINE p == Head(puts[e])  x == ToAck(p, Head(down[e]).ok)
  <2>1. /\ down[e] # <<>> /\ down'[e] = Tail(down[e]) /\ Head(down[e]) \in PutDone
        /\ puts[e] # <<>> /\ puts'[e] = Tail(puts[e]) /\ p.id = Head(down[e]).id
        /\ toAck'[e] = Append(toAck[e], x)
    BY <1>3, AnsweredFirst
  <2>2. /\ Head(down[e]).op = "putDone" /\ Head(down[e]).ok \in BOOLEAN
        /\ p = puts[e][1] /\ 1 \in DOMAIN puts[e] /\ 1 \in DOMAIN down[e] /\ Head(down[e]) = down[e][1]
    BY <2>1, EchoTypes DEF PutDone
  <2>3. x.id = p.id /\ x.key = p.key /\ x.ok = Head(down[e]).ok /\ p.key \in Key
    BY <2>2, EchoTypes DEF ToAck
  <2>4. x \in Answered
    <3>1. p \in Put
      BY <2>1, QueueTypes
    <3> QED BY <2>1, <3>1 DEF ToAck, PutDone, Put, Answered
  <2>5. ASSUME NEW i, NEW k \in Key
        PROVE  /\ Echoed(e, i, k) => Echoed(e, i, k)'
               /\ Echoing(e, i, k, 1) => Echoed(e, i, k)'
               /\ \A j \in DOMAIN down[e] : j # 1 /\ Echoing(e, i, k, j) => Echoing(e, i, k, j - 1)'
    BY <1>1, <2>1, <2>2, TakenEcho
  <2> HIDE DEF p, x
  <2>6. AnswersEcho(e)'
    <3>1. AnswersEcho(e)
      BY DEF Echoes
    <3>2. \A q \in DOMAIN puts'[e] : \E r \in DOMAIN puts[e] : puts'[e][q] = puts[e][r]
      BY <2>1, EchoTypes, TailFrom
    <3>3. \A i, k, j : k \in Key /\ j \in DOMAIN down[e] /\ j # 1 /\ down[e][j].op = "putDone"
                       /\ Echoing(e, i, k, j) => Echoing(e, i, k, j - 1)'
      BY <2>5
    <3> QED BY <2>1, <3>1, <3>2, <3>3, TakeAnswers
  <2>7. AcksEcho(e)'
    <3> SUFFICES ASSUME NEW q \in DOMAIN toAck'[e], toAck'[e][q].ok
                 PROVE  Echoed(e, toAck[e][q].id, toAck[e][q].key)'
      BY DEF AcksEcho
    <3>1. CASE q \in DOMAIN toAck[e] /\ toAck'[e][q] = toAck[e][q]
      <4>1. PICK i, k : i = toAck[e][q].id /\ k = toAck[e][q].key
        OBVIOUS
      <4>2. k \in Key /\ Echoed(e, i, k)
        BY <3>1, <4>1, EchoTypes DEF Echoes, AcksEcho
      <4>3. Echoed(e, i, k)'
        BY <2>5, <4>2
      <4> QED BY <3>1, <4>1, <4>3 DEF Echoed
    <3>2. CASE toAck'[e][q] = x
      <4>1. PICK i, k : i = p.id /\ k = p.key
        OBVIOUS
      <4>2. k \in Key /\ Echoing(e, i, k, 1)
        BY <2>1, <2>2, <2>3, <3>2, <4>1 DEF Echoes, AnswersEcho
      <4>3. Echoed(e, i, k)'
        BY <2>5, <4>2
      <4> QED BY <2>3, <3>2, <4>1, <4>3 DEF Echoed
    <3>3. (q \in DOMAIN toAck[e] /\ toAck'[e][q] = toAck[e][q]) \/ toAck'[e][q] = x
      BY <2>1, <2>4, EchoTypes
    <3> QED BY <3>1, <3>2, <3>3
  <2>8. BlocksEcho(e)'
    <3> SUFFICES ASSUME NEW q \in DOMAIN events[e], events[e][q].kind = "done", events[e][q].ok
                 PROVE  Echoed(e, events[e][q].id, events[e][q].key)'
      BY <1>1 DEF BlocksEcho
    <3>1. PICK i, k : i = events[e][q].id /\ k = events[e][q].key
      OBVIOUS
    <3>2. k \in Key /\ Echoed(e, i, k)
      BY <3>1, EchoTypes DEF Echoes, BlocksEcho
    <3>3. Echoed(e, i, k)'
      BY <2>5, <3>2
    <3> QED BY <1>1, <3>1, <3>3 DEF Echoed
  <2> QED BY <2>6, <2>7, <2>8
<1> QED BY <1>2, <1>3

\* The database sends more on a connection: what it said before stays said.
LEMMA SentEcho ==
  ASSUME TypeOK, NEW e \in Device, UNCHANGED <<hist, synced[e], cache[e]>>,
         NEW v \in Seq(Answer), down'[e] = down[e] \o v,
         NEW i, NEW k \in Key, \A l \in Alls(v) : v[l].vers[k] = Len(hist[k])
  PROVE  /\ Echoed(e, i, k) => Echoed(e, i, k)'
         /\ \A j \in DOMAIN down[e] : Echoing(e, i, k, j) => Echoing(e, i, k, j)'
<1> DEFINE h == hist[k]  D == down[e]  c == cache[e][k]  sy == synced[e]
<1>1. /\ h \in Seq(Write) /\ sy \in BOOLEAN /\ D \in Seq(Answer)
      /\ \A l \in Alls(v) : v[l].vers[k] = Len(h)
  BY EchoTypes
<1>2. hist'[k] = h /\ synced'[e] = sy /\ cache'[e][k] = c /\ down'[e] = D \o v
  OBVIOUS
<1> HIDE DEF h, D, c, sy
<1>3. /\ Assured(h, e, i, k, sy, c, D) => Assured(h, e, i, k, sy, c, D \o v)
      /\ \A j \in DOMAIN D : Awaited(h, e, i, k, sy, c, D, j) => Awaited(h, e, i, k, sy, c, D \o v, j)
  BY <1>1, EchoSend
<1> QED BY <1>2, <1>3 DEF Echoed, Echoing, h, D, c, sy

\* ... applied another write, of this or of another device, before.
LEMMA GrownEcho ==
  ASSUME TypeOK, NEW e \in Device, UNCHANGED <<synced[e], cache[e]>>,
         NEW v \in Seq(Answer), down'[e] = down[e] \o v, Alls(v) = {},
         NEW i, NEW k \in Key, NEW w \in Write,
         hist'[k] = hist[k] \/ hist'[k] = Append(hist[k], w)
  PROVE  /\ Echoed(e, i, k) => Echoed(e, i, k)'
         /\ \A j \in DOMAIN down[e] : Echoing(e, i, k, j) => Echoing(e, i, k, j)'
<1> DEFINE h == hist[k]  D == down[e]  c == cache[e][k]  sy == synced[e]
<1>1. h \in Seq(Write) /\ sy \in BOOLEAN /\ D \in Seq(Answer)
  BY EchoTypes
<1>2. /\ hist'[k] = h \/ hist'[k] = Append(h, w)
      /\ synced'[e] = sy /\ cache'[e][k] = c /\ down'[e] = D \o v
  OBVIOUS
<1> HIDE DEF h, D, c, sy
<1>3. PICK g \in Seq(Write) : g = hist'[k] /\ (g = h \/ g = Append(h, w))
  <2>1. Append(h, w) \in Seq(Write)
    BY <1>1
  <2>2. hist'[k] \in Seq(Write)
    BY <1>1, <1>2, <2>1
  <2> QED BY <1>2, <2>2
<1>4. /\ Assured(h, e, i, k, sy, c, D) => Assured(g, e, i, k, sy, c, D)
      /\ \A j : Awaited(h, e, i, k, sy, c, D, j) => Awaited(g, e, i, k, sy, c, D, j)
  <2>1. CASE g = h
    BY <2>1
  <2>2. CASE g = Append(h, w)
    BY <1>1, <2>2, EchoGrow
  <2> QED BY <1>3, <2>1, <2>2
<1>5. /\ Assured(g, e, i, k, sy, c, D) => Assured(g, e, i, k, sy, c, D \o v)
      /\ \A j \in DOMAIN D : Awaited(g, e, i, k, sy, c, D, j) => Awaited(g, e, i, k, sy, c, D \o v, j)
  BY <1>1, EchoSend
<1>6. /\ Assured(h, e, i, k, sy, c, D) => Assured(g, e, i, k, sy, c, D \o v)
      /\ \A j \in DOMAIN D : Awaited(h, e, i, k, sy, c, D, j) => Awaited(g, e, i, k, sy, c, D \o v, j)
  BY <1>4, <1>5
<1> QED BY <1>2, <1>3, <1>6 DEF Echoed, Echoing, h, D, c, sy

\* The answers among what is sent have their echo before them.
LEMMA SentAnswers ==
  ASSUME TypeOK, NEW e \in Device, AnswersEcho(e), puts'[e] = puts[e],
         NEW v \in Seq(Answer), down'[e] = down[e] \o v,
         \A i, k, j : k \in Key /\ j \in DOMAIN down[e] /\ Echoing(e, i, k, j) => Echoing(e, i, k, j)',
         \A l \in DOMAIN v, p \in DOMAIN puts[e] : \A i, k, j :
            v[l].op = "putDone" /\ v[l].ok /\ puts[e][p].id = v[l].id
              /\ i = v[l].id /\ k = puts[e][p].key /\ j = Len(down[e]) + l => Echoing(e, i, k, j)'
  PROVE  AnswersEcho(e)'
<1> SUFFICES ASSUME NEW j \in DOMAIN down'[e], NEW p \in DOMAIN puts[e],
                    down'[e][j].op = "putDone", down'[e][j].ok, puts[e][p].id = down'[e][j].id
             PROVE  Echoing(e, puts[e][p].id, puts[e][p].key, j)'
  BY DEF AnswersEcho
<1>1. PICK i, k : i = puts[e][p].id /\ k = puts[e][p].key
  OBVIOUS
<1>2. k \in Key
  BY <1>1, EchoTypes
<1>3. \/ j \in DOMAIN down[e] /\ down'[e][j] = down[e][j]
      \/ \E l \in DOMAIN v : j = Len(down[e]) + l /\ down'[e][j] = v[l]
  <2>1. \A q \in DOMAIN (down[e] \o v) :
            \/ q \in DOMAIN down[e] /\ (down[e] \o v)[q] = down[e][q]
            \/ q - Len(down[e]) \in DOMAIN v /\ (down[e] \o v)[q] = v[q - Len(down[e])]
               /\ q = Len(down[e]) + (q - Len(down[e]))
    BY EchoTypes
  <2> QED BY <2>1
<1>4. CASE j \in DOMAIN down[e] /\ down'[e][j] = down[e][j]
  <2>1. Echoing(e, i, k, j)
    BY <1>1, <1>4 DEF AnswersEcho
  <2>2. Echoing(e, i, k, j)'
    BY <1>2, <1>4, <2>1
  <2> QED BY <1>1, <2>2 DEF Echoing
<1>5. CASE \E l \in DOMAIN v : j = Len(down[e]) + l /\ down'[e][j] = v[l]
  <2>1. Echoing(e, i, k, j)'
    BY <1>1, <1>5
  <2> QED BY <1>1, <2>1 DEF Echoing
<1> QED BY <1>3, <1>4, <1>5

\* The database's echo and its answer go out together, the echo first.
LEMMA AcceptedEcho ==
  ASSUME NEW h \in Seq(Write), NEW w \in Write, NEW d, NEW i, w.by = d, w.id = i,
         NEW k, NEW sy, NEW c, NEW D \in Seq(Answer),
         NEW x \in Answer, x.op = "update", x.key = k, x.ver = Len(h) + 1,
         NEW y \in Answer, y.op = "putDone"
  PROVE  /\ Awaited(Append(h, w), d, i, k, sy, c, D \o <<x, y>>, Len(D) + 2)
         /\ Bare(D) /\ (~ sy \/ Denials(D) # {}) => Awaited(Append(h, w), d, i, k, sy, c, D \o <<y>>, Len(D) + 1)
<1>1. Applied(Append(h, w), d, i, Len(h) + 1) /\ Len(Append(h, w)) = Len(h) + 1
  BY AppliedMore
<1>2. Awaited(Append(h, w), d, i, k, sy, c, D \o <<x, y>>, Len(D) + 2)
  <2> DEFINE T == D \o <<x, y>>
  <2>1. /\ T \in Seq(Answer) /\ Len(T) = Len(D) + 2 /\ Len(D) \in Nat
        /\ Len(D) + 1 \in DOMAIN T /\ T[Len(D) + 1] = x
    OBVIOUS
  <2> HIDE DEF T
  <2>2. \A l \in Alls(T) : ~ (Len(D) + 2 < l)
    BY <2>1 DEF Alls
  <2>3. Carries(x, k) /\ VersionIn(x, k) = Len(h) + 1
    BY DEF Carries, VersionIn
  <2>4. Reaches(Append(h, w), d, i, k, c, T, Len(D) + 2)
    BY <1>1, <2>1, <2>3 DEF Reaches
  <2> QED BY <1>1, <2>2, <2>4 DEF Awaited, T
<1>3. ASSUME Bare(D), ~ sy \/ Denials(D) # {}
      PROVE  Awaited(Append(h, w), d, i, k, sy, c, D \o <<y>>, Len(D) + 1)
  <2> DEFINE T == D \o <<y>>
  <2>1. Bare(D \o <<y>>)
    <3>1. Bare(<<y>>) /\ <<y>> \in Seq(Answer)
      BY DEF Bare
    <3> QED BY <1>3, <3>1, BareMore
  <2>2. /\ \A l \in Alls(T) : ~ (Len(D) + 1 < l)
        /\ \A l \in Denials(D) : l < Len(D) + 1 /\ l \in Denials(T)
        /\ Denials(D) = {} => Denials(T) = {}
    BY DEF Alls, Denials
  <2> HIDE DEF T
  <2>3. CASE Denials(D) # {}
    <3>1. \E l \in Denials(T) : l < Len(D) + 1
      BY <2>2, <2>3
    <3> QED BY <1>1, <2>2, <3>1 DEF Awaited, T
  <2>4. CASE Denials(D) = {}
    <3>1. Alls(T) = {}
      BY <2>1, <2>2, <2>4, Bareness DEF T
    <3> QED BY <1>1, <1>3, <2>4, <3>1 DEF Awaited, T
  <2> QED BY <2>3, <2>4
<1> QED BY <1>2, <1>3

\* The collection the database sends holds every accepted write.
LEMMA ServerListenEchoes ==
  ASSUME TypeOK, Echoes, NEW d \in Device, ServerListen(d)
  PROVE  Echoes'
<1> SUFFICES ASSUME NEW e \in Device PROVE AnswersEcho(e)' /\ AcksEcho(e)' /\ BlocksEcho(e)'
  BY DEF Echoes
<1>1. UNCHANGED <<hist, synced, cache, puts, toAck, events>>
  BY DEF ServerListen, client
<1>2. CASE e # d
  <2>1. down'[e] = down[e]
    BY <1>2 DEF ServerListen, TypeOK
  <2> QED BY <1>1, <2>1, IdleEchoes DEF Echoes
<1>3. CASE e = d
  <2> DEFINE all == [op |-> "all", vers |-> [k \in Key |-> Len(hist[k])]]
  <2>1. all \in Answer /\ ListenOk \in Answer
    BY EchoTypes DEF All, Answer
  <2>2. /\ all.op = "all" /\ \A k \in Key : all.vers[k] = Len(hist[k])
        /\ ListenOk.op = "listenOk"
    BY DEF ListenOk
  <2>3. down'[e] = down[e] \o <<all, ListenOk>>
    BY <1>3 DEF ServerListen, TypeOK
  <2> HIDE DEF all
  <2>4. PICK v \in Seq(Answer) : v = <<all, ListenOk>>
    <3>1. <<all, ListenOk>> \in Seq(Answer)
      BY <2>1
    <3> QED BY <3>1
  <2>5. /\ \A l \in DOMAIN v : v[l].op # "putDone"
        /\ \A l \in Alls(v), k \in Key : v[l].vers[k] = Len(hist[k])
    BY <2>2, <2>4 DEF Alls
  <2>6. ASSUME NEW i, NEW k \in Key
        PROVE  /\ Echoed(e, i, k) => Echoed(e, i, k)'
               /\ \A j \in DOMAIN down[e] : Echoing(e, i, k, j) => Echoing(e, i, k, j)'
    BY <1>1, <2>3, <2>4, <2>5, SentEcho
  <2>7. AnswersEcho(e)'
    <3>1. AnswersEcho(e) /\ puts'[e] = puts[e] /\ down'[e] = down[e] \o v
      BY <1>1, <2>3, <2>4 DEF Echoes
    <3>2. \A i, k, j : k \in Key /\ j \in DOMAIN down[e] /\ Echoing(e, i, k, j) => Echoing(e, i, k, j)'
      BY <2>6
    <3> QED BY <2>5, <3>1, <3>2, SentAnswers
  <2>8. \A i, k : k \in Key /\ Echoed(e, i, k) => Echoed(e, i, k)'
    BY <2>6
  <2> QED BY <1>1, <2>7, <2>8, MoreEchoes DEF Echoes
<1> QED BY <1>2, <1>3

\* A refusal promises no echo.
LEMMA ServerRejectEchoes ==
  ASSUME TypeOK, Echoes, NEW d \in Device, ServerReject(d)
  PROVE  Echoes'
<1> SUFFICES ASSUME NEW e \in Device PROVE AnswersEcho(e)' /\ AcksEcho(e)' /\ BlocksEcho(e)'
  BY DEF Echoes
<1>1. UNCHANGED <<hist, synced, cache, puts, toAck, events>>
  BY DEF ServerReject, client
<1>2. CASE e # d
  <2>1. down'[e] = down[e]
    BY <1>2 DEF ServerReject, TypeOK
  <2> QED BY <1>1, <2>1, IdleEchoes DEF Echoes
<1>3. CASE e = d
  <2> DEFINE x == [op |-> "putDone", id |-> Head(up[d]).id, ok |-> FALSE]
  <2>1. down' = [down EXCEPT ![d] = Append(@, x)]
    BY DEF ServerReject
  <2>2. x \in Answer /\ x.op = "putDone" /\ ~ x.ok
    <3>1. Head(up[d]) \in Put
      BY ListeningTypes DEF ServerReject, Sending
    <3> QED BY <3>1 DEF Put, PutDone, Answer
  <2> HIDE DEF x
  <2>3. PICK v \in Seq(Answer) : v = <<x>>
    <3>1. <<x>> \in Seq(Answer)
      BY <2>2
    <3> QED BY <3>1
  <2>4. down'[e] = down[e] \o v
    <3>1. down'[e] = Append(down[e], x)
      BY <1>3, <2>1 DEF TypeOK
    <3>2. Append(down[e], x) = down[e] \o <<x>>
      <4>1. down[e] \in Seq(Answer)
        BY EchoTypes
      <4> QED BY <2>2, <4>1
    <3> QED BY <2>3, <3>1, <3>2
  <2>5. (\A l \in DOMAIN v : ~ v[l].ok) /\ Alls(v) = {}
    BY <2>2, <2>3 DEF Alls
  <2>6. ASSUME NEW i, NEW k \in Key
        PROVE  /\ Echoed(e, i, k) => Echoed(e, i, k)'
               /\ \A j \in DOMAIN down[e] : Echoing(e, i, k, j) => Echoing(e, i, k, j)'
    BY <1>1, <2>4, <2>5, SentEcho
  <2>7. AnswersEcho(e)'
    <3>1. AnswersEcho(e) /\ puts'[e] = puts[e]
      BY <1>1 DEF Echoes
    <3>2. \A i, k, j : k \in Key /\ j \in DOMAIN down[e] /\ Echoing(e, i, k, j) => Echoing(e, i, k, j)'
      BY <2>6
    <3> QED BY <2>4, <2>5, <3>1, <3>2, SentAnswers
  <2>8. \A i, k : k \in Key /\ Echoed(e, i, k) => Echoed(e, i, k)'
    BY <2>6
  <2> QED BY <1>1, <2>7, <2>8, MoreEchoes DEF Echoes
<1> QED BY <1>2, <1>3

\* The end of a client's listening is no data.
LEMMA ServerDenyEchoes ==
  ASSUME TypeOK, Echoes, NEW d \in Device, ServerDeny(d)
  PROVE  Echoes'
<1> SUFFICES ASSUME NEW e \in Device PROVE AnswersEcho(e)' /\ AcksEcho(e)' /\ BlocksEcho(e)'
  BY DEF Echoes
<1>1. UNCHANGED <<hist, synced, cache, puts, toAck, events>>
  BY DEF ServerDeny, client
<1>2. CASE e # d
  <2>1. down'[e] = down[e]
    BY <1>2 DEF ServerDeny, TypeOK
  <2> QED BY <1>1, <2>1, IdleEchoes DEF Echoes
<1>3. CASE e = d
  <2>1. Denied \in Answer /\ Denied.op = "denied"
    BY DEF Denied, Answer
  <2>2. PICK v \in Seq(Answer) : v = <<Denied>>
    <3>1. <<Denied>> \in Seq(Answer)
      BY <2>1
    <3> QED BY <3>1
  <2>3. down'[e] = down[e] \o v
    <3>1. down'[e] = Append(down[e], Denied)
      BY <1>3 DEF ServerDeny, TypeOK
    <3> QED BY <2>1, <2>2, <3>1, EchoTypes
  <2>4. (\A l \in DOMAIN v : v[l].op # "putDone") /\ Alls(v) = {}
    BY <2>1, <2>2 DEF Alls
  <2>5. ASSUME NEW i, NEW k \in Key
        PROVE  /\ Echoed(e, i, k) => Echoed(e, i, k)'
               /\ \A j \in DOMAIN down[e] : Echoing(e, i, k, j) => Echoing(e, i, k, j)'
    BY <1>1, <2>3, <2>4, SentEcho
  <2>6. AnswersEcho(e)'
    <3>1. AnswersEcho(e) /\ puts'[e] = puts[e]
      BY <1>1 DEF Echoes
    <3>2. \A i, k, j : k \in Key /\ j \in DOMAIN down[e] /\ Echoing(e, i, k, j) => Echoing(e, i, k, j)'
      BY <2>5
    <3> QED BY <2>3, <2>4, <3>1, <3>2, SentAnswers
  <2>7. \A i, k : k \in Key /\ Echoed(e, i, k) => Echoed(e, i, k)'
    BY <2>5
  <2> QED BY <1>1, <2>6, <2>7, MoreEchoes DEF Echoes
<1> QED BY <1>2, <1>3

\* An accepted write is sent to its writer before the answer.
LEMMA ServerAcceptEchoes ==
  ASSUME TypeOK, Ordered, Resends, Listening, Echoes, NEW d \in Device, ServerAccept(d)
  PROVE  Echoes'
<1> SUFFICES ASSUME NEW e \in Device PROVE AnswersEcho(e)' /\ AcksEcho(e)' /\ BlocksEcho(e)'
  BY DEF Echoes
<1>1. UNCHANGED <<subscribed, synced, cache, puts, toAck, events>>
  BY DEF ServerAccept, client
<1>2. PICK data \in Update, done \in PutDone :
            /\ up[d] # <<>> /\ Head(up[d]) \in Put
            /\ data = [op |-> "update", key |-> Head(up[d]).key,
                       ver |-> Len(hist[Head(up[d]).key]) + 1]
            /\ done = [op |-> "putDone", id |-> Head(up[d]).id, ok |-> TRUE]
            /\ subscribed[e] /\ e = d => down'[e] = down[e] \o <<data, done>>
            /\ subscribed[e] /\ e # d => down'[e] = down[e] \o <<data>>
            /\ ~ subscribed[e] /\ e = d => down'[e] = down[e] \o <<done>>
            /\ ~ subscribed[e] /\ e # d => down'[e] = down[e]
  BY AcceptSends
<1>3. PICK p \in Put : p = Head(up[d])
  BY <1>2
<1>4. PICK w \in Write : w = [by |-> d, id |-> p.id, val |-> p.val]
  BY DEF Write, Put
<1>5. /\ p.key \in Key /\ hist' = [hist EXCEPT ![p.key] = Append(@, w)] /\ w.by = d /\ w.id = p.id
  BY <1>3, <1>4 DEF ServerAccept, Put
<1>6. /\ hist'[p.key] = Append(hist[p.key], w)
      /\ \A k \in Key : hist'[k] = hist[k] \/ hist'[k] = Append(hist[k], w)
  BY <1>5 DEF TypeOK
<1>7. /\ data \in Answer /\ data.op = "update" /\ data.key = p.key /\ data.ver = Len(hist[p.key]) + 1
      /\ done \in Answer /\ done.op = "putDone" /\ done.id = p.id
  BY <1>2, <1>3 DEF Answer
<1>8. subscribed[e] \in BOOLEAN /\ down[e] \in Seq(Answer)
  BY EchoTypes
<1>9. PICK v \in Seq(Answer) :
         /\ v = IF e = d THEN IF subscribed[e] THEN <<data, done>> ELSE <<done>>
                ELSE IF subscribed[e] THEN <<data>> ELSE <<>>
  <2>1. /\ <<data, done>> \in Seq(Answer) /\ <<done>> \in Seq(Answer)
        /\ <<data>> \in Seq(Answer) /\ <<>> \in Seq(Answer)
    BY <1>7
  <2> QED BY <1>8, <2>1
<1>10. down'[e] = down[e] \o v
  <2>1. down[e] \o <<>> = down[e]
    BY <1>8
  <2> QED BY <1>2, <1>8, <1>9, <2>1
<1>11. Alls(v) = {}
  BY <1>7, <1>8, <1>9 DEF Alls
<1>12. ASSUME NEW i, NEW k \in Key
       PROVE  /\ Echoed(e, i, k) => Echoed(e, i, k)'
              /\ \A j \in DOMAIN down[e] : Echoing(e, i, k, j) => Echoing(e, i, k, j)'
  BY <1>1, <1>6, <1>10, <1>11, GrownEcho
<1>13. ASSUME NEW l \in DOMAIN v, NEW q \in DOMAIN puts[e], v[l].op = "putDone",
              puts[e][q].id = v[l].id, NEW j, j = Len(down[e]) + l
       PROVE  Echoing(e, p.id, p.key, j)' /\ v[l].id = p.id /\ puts[e][q].key = p.key
  <2>1. e = d /\ v[l] = done /\ l = IF subscribed[e] THEN 2 ELSE 1
    BY <1>7, <1>8, <1>9, <1>13
  <2>2. puts[e][q] = p
    <3>1. up[e][1] = p /\ 1 \in Numbered(up[e])
      BY <1>2, <1>3, <2>1, Numbers, ListeningTypes DEF Numbered
    <3>2. PICK r \in DOMAIN puts[e] : puts[e][r] = p
      BY <3>1 DEF Resends, ResendsAt, Within
    <3>3. puts[e] \in Seq(Put) /\ Ascending(puts[e])
      BY EchoTypes DEF Ordered, OrderedAt, Flow
    <3>4. puts[e][r].id = puts[e][q].id
      BY <1>7, <1>13, <2>1, <3>2
    <3>5. /\ q \in Numbered(puts[e]) /\ r \in Numbered(puts[e])
          /\ puts[e][q].id \in Nat /\ puts[e][r].id \in Nat /\ q \in Nat /\ r \in Nat
      BY <3>3, Numbers DEF Numbered
    <3>6. q = r
      BY <3>3, <3>4, <3>5 DEF Ascending
    <3> QED BY <3>2, <3>6
  <2>3. ~ subscribed[e] => Bare(down[e]) /\ (~ synced[e] \/ Denials(down[e]) # {})
    <3>1. conn[e] = "up"
      BY <1>2, <2>1 DEF Ordered, OrderedAt, TypeOK
    <3>2. Head(up[e]) # Listen
      BY <1>2, <2>1, NotListen
    <3> QED BY <3>1, <3>2 DEF Listening, ListeningAt
  <2> DEFINE h == hist[p.key]  c == cache[e][p.key]  sy == synced[e]  D == down[e]
  <2>4. h \in Seq(Write) /\ D \in Seq(Answer) /\ sy = synced[e]
    BY <1>5, EchoTypes
  <2>5. /\ hist'[p.key] = Append(h, w) /\ cache'[e][p.key] = c /\ synced'[e] = sy
        /\ down'[e] = D \o v /\ data.ver = Len(h) + 1 /\ j = Len(D) + l
        /\ ~ subscribed[e] => Bare(D) /\ (~ sy \/ Denials(D) # {})
    BY <1>1, <1>6, <1>7, <1>10, <1>13, <2>3
  <2> HIDE DEF h, c, sy, D
  <2>6. /\ Awaited(Append(h, w), e, p.id, p.key, sy, c, D \o <<data, done>>, Len(D) + 2)
        /\ Bare(D) /\ (~ sy \/ Denials(D) # {}) => Awaited(Append(h, w), e, p.id, p.key, sy, c, D \o <<done>>, Len(D) + 1)
    BY <1>5, <1>7, <2>1, <2>4, <2>5, AcceptedEcho
  <2>7. Awaited(Append(h, w), e, p.id, p.key, sy, c, D \o v, j)
    <3>1. CASE subscribed[e]
      BY <1>9, <2>1, <2>5, <2>6, <3>1
    <3>2. CASE ~ subscribed[e]
      BY <1>9, <2>1, <2>5, <2>6, <3>2
    <3> QED BY <1>8, <3>1, <3>2
  <2>8. Echoing(e, p.id, p.key, j)'
    BY <2>5, <2>7 DEF Echoing
  <2> QED BY <1>7, <2>1, <2>2, <2>8
<1>14. AnswersEcho(e)'
  <2>1. AnswersEcho(e) /\ puts'[e] = puts[e]
    BY <1>1 DEF Echoes
  <2>2. \A i, k, j : k \in Key /\ j \in DOMAIN down[e] /\ Echoing(e, i, k, j) => Echoing(e, i, k, j)'
    BY <1>12
  <2>3. \A l \in DOMAIN v, q \in DOMAIN puts[e] : \A i, k, j :
            v[l].op = "putDone" /\ v[l].ok /\ puts[e][q].id = v[l].id
              /\ i = v[l].id /\ k = puts[e][q].key /\ j = Len(down[e]) + l => Echoing(e, i, k, j)'
    BY <1>13
  <2> QED BY <1>10, <2>1, <2>2, <2>3, SentAnswers
<1>15. \A i, k : k \in Key /\ Echoed(e, i, k) => Echoed(e, i, k)'
  BY <1>12
<1> QED BY <1>1, <1>14, <1>15, MoreEchoes DEF Echoes

\* No action loses the echo of an accepted write.
LEMMA EchoesStep ==
  ASSUME Inductive, Ordered, Resends, Listening, Echoes, [Next]_vars
  PROVE  Echoes'
<1>0. TypeOK
  BY DEF Inductive
<1>1. ASSUME NEW d \in Device, \/ \E k \in Key, v \in Value : SetValue(d, k, v)
                               \/ RetrieveAll(d) \/ Connect(d) \/ HandleValue(d) \/ HandleDone(d)
      PROVE  Echoes'
  BY <1>0, <1>1, HandleEchoes
<1>2. ASSUME NEW d \in Device, RunPut(d) PROVE Echoes'
  BY <1>2, RunPutEchoes
<1>3. ASSUME NEW d \in Device, RunObserve(d) PROVE Echoes'
  BY <1>3, RunObserveEchoes
<1>4. ASSUME NEW d \in Device, Disconnect(d) \/ Restart(d) PROVE Echoes'
  BY <1>0, <1>4, DropEchoes
<1>5. ASSUME NEW d \in Device, ReceiveData(d) PROVE Echoes'
  BY <1>5, ReceiveDataEchoes
<1>6. ASSUME NEW d \in Device, ReceiveListenOk(d) PROVE Echoes'
  BY <1>0, <1>6, ReceiveListenOkEchoes
<1>7. ASSUME NEW d \in Device, ReceivePutDone(d) PROVE Echoes'
  BY <1>0, <1>7, ReceivePutDoneEchoes
<1>8. ASSUME NEW d \in Device, AckPut(d) PROVE Echoes'
  BY <1>8, AckPutEchoes
<1>9. ASSUME NEW d \in Device, ServerListen(d) PROVE Echoes'
  BY <1>0, <1>9, ServerListenEchoes
<1>10. ASSUME NEW d \in Device, ServerAccept(d) PROVE Echoes'
  BY <1>0, <1>10, ServerAcceptEchoes
<1>11. ASSUME NEW d \in Device, ServerReject(d) PROVE Echoes'
  BY <1>0, <1>11, ServerRejectEchoes
<1>12. ASSUME NEW d \in Device, ReceiveDenial(d) PROVE Echoes'
  BY <1>0, <1>12, ReceiveDenialEchoes
<1>13. ASSUME NEW d \in Device, ServerDeny(d) PROVE Echoes'
  BY <1>0, <1>13, ServerDenyEchoes
<1>14. CASE UNCHANGED vars
  <2> SUFFICES ASSUME NEW e \in Device PROVE AnswersEcho(e)' /\ AcksEcho(e)' /\ BlocksEcho(e)'
    BY DEF Echoes
  <2>1. UNCHANGED <<hist, down, synced, cache, toAck, puts, events>>
    BY <1>14 DEF vars, net, client
  <2> QED BY <1>0, <2>1, IdleEchoes DEF Echoes
<1> QED
  BY <1>1, <1>2, <1>3, <1>4, <1>5, <1>6, <1>7, <1>8, <1>9, <1>10, <1>11, <1>12, <1>13, <1>14
     DEF Next, Infrastructure, Mishap

\* What comes back is what a success block finds.
LEMMA BlocksCached ==
  ASSUME TypeOK, Echoes PROVE AckedWriteCached
<1> SUFFICES ASSUME NEW d \in Device, NEW i \in DOMAIN events[d],
                    events[d][i].kind = "done", events[d][i].ok, synced[d]
             PROVE  \E n \in 1..cache[d][events[d][i].key] :
                       /\ hist[events[d][i].key][n].by = d
                       /\ hist[events[d][i].key][n].id = events[d][i].id
  BY DEF AckedWriteCached
<1>1. PICK k, c : k = events[d][i].key /\ c = cache[d][k]
  OBVIOUS
<1>2. k \in Key /\ c \in Nat /\ hist[k] \in Seq(Write)
  BY <1>1, EchoTypes
<1>3. Applied(hist[k], d, events[d][i].id, c)
  BY <1>1 DEF Echoes, BlocksEcho, Echoed, Assured
<1>4. PICK n \in DOMAIN hist[k] : n <= c /\ hist[k][n].by = d /\ hist[k][n].id = events[d][i].id
  BY <1>3 DEF Applied
<1>5. n \in 1..c
  BY <1>2, <1>4
<1> QED BY <1>1, <1>4, <1>5

\* All of the store's invariants.
StoreInv == Inductive /\ Ordered /\ Resends /\ Listening /\ Shows /\ Echoes

\* Together they are inductive.
THEOREM StoreInvariant == Spec => []StoreInv
<1>1. Init => Ordered /\ Resends /\ Listening /\ Shows /\ Echoes
  BY OrderedInit, ResendsInit, ListeningInit, ShowsInit, EchoesInit
<1>2. /\ Inductive /\ Inductive' /\ Ordered /\ Resends /\ Listening /\ Shows /\ Echoes /\ [Next]_vars
      => Ordered' /\ Resends' /\ Listening' /\ Shows' /\ Echoes'
  BY OrderedStep, ResendsStep, ListeningStep, ShowsStep, EchoesStep
<1>3. Inductive /\ Ordered /\ Resends /\ Listening /\ Shows /\ Echoes <=> StoreInv
  BY DEF StoreInv
<1> QED
  BY <1>1, <1>2, <1>3, InductiveInvariant, PTL DEF Spec

\* A success block never runs on a synced device before the database's own echo of the
\* write is in the cache (the screens that read again on success read the write), for
\* any devices, lost connections and kills: the answer travels behind the data.
THEOREM AckedWritesAreCached == Spec => []AckedWriteCached
<1>1. StoreInv => AckedWriteCached
  BY BlocksCached DEF StoreInv, Inductive
<1> QED
  BY <1>1, StoreInvariant, PTL

-----------------------------------------------------------------------------
(* Where values come from. A screen writes values it has chosen; below it,    *)
(* values are only copied. So if V gives for each record the values that      *)
(* are stored or that the screens of d have written, all that d is given, has *)
(* under way or shows is in V, whatever the connections do. The modules of the *)
(* screens use this with a V of their own.                                    *)

\* The writes among s write values of V,
WritesIn(V, s) == \A i \in DOMAIN s : s[i].op = "put" => s[i].val \in V[s[i].key]

\* a collection holds such values,
AllIn(V, r) == \A k \in Key : r[k] \in V[k]

\* and so does each that is posted,
EventsIn(V, E) == \A i \in DOMAIN E : E[i].kind = "value" => AllIn(V, E[i].snap)

\* every version there has been,
HistoryIn(V) == \A k \in Key : \A n \in Nat : n <= Len(hist[k]) => Stored(k, n) \in V[k]

\* and all that is between d's screens and the database.
HoldsIn(V, d) ==
  /\ WritesIn(V, calls[d]) /\ WritesIn(V, up[d]) /\ WritesIn(V, puts[d]) /\ WritesIn(V, toAck[d])
  /\ EventsIn(V, events[d])
  /\ shown[d] # NotLoaded => AllIn(V, shown[d])

\* The versions in a cache exist.
LEMMA CacheCovered ==
  ASSUME Inductive, NEW d \in Device
  PROVE  cache[d] \in [Key -> Nat] /\ \A k \in Key : cache[d][k] <= Len(hist[k])
BY DEF Inductive, TypeOK, VersionsOrdered, InOrder

\* A write in a sequence has a key.
LEMMA WriteKeys ==
  /\ Observe.op # "put" /\ Listen.op # "put"
  /\ \A x \in Put \cup Answered : x.op = "put" /\ x.key \in Key
BY DEF Observe, Listen, Put, Answered

\* A view of stored values under the device's own writes is of such values.
LEMMA OverlayIn ==
  ASSUME NEW V, HistoryIn(V), NEW vers \in [Key -> Nat], \A k \in Key : vers[k] <= Len(hist[k]),
         NEW w \in Seq(Answered \cup Put), WritesIn(V, w)
  PROVE  AllIn(V, Overlay(vers, w))
<1> SUFFICES ASSUME NEW k \in Key PROVE Overlay(vers, w)[k] \in V[k]
  BY DEF AllIn
<1>1. CASE WritesTo(k, w) = {}
  <2>1. Stored(k, vers[k]) \in V[k]
    BY DEF HistoryIn
  <2> QED BY <1>1, <2>1 DEF Overlay
<1>2. CASE WritesTo(k, w) # {}
  <2>1. WritesTo(k, w) \in SUBSET (1..Len(w)) /\ Len(w) \in Nat
    BY LenProperties DEF WritesTo
  <2>2. PICK l \in WritesTo(k, w) : l = CHOOSE i \in WritesTo(k, w) : \A j \in WritesTo(k, w) : j <= i
    BY <1>2, <2>1, LastIndex
  <2>3. l \in DOMAIN w /\ w[l].op = "put" /\ w[l].key = k
    <3>1. l \in DOMAIN w /\ w[l].key = k
      BY <2>2 DEF WritesTo
    <3>2. w[l] \in Answered \cup Put
      BY <3>1, ElementOfSeq
    <3> QED BY <3>1, <3>2, WriteKeys
  <2>4. w[l].val \in V[k]
    BY <2>3 DEF WritesIn
  <2> QED BY <1>2, <2>2, <2>4 DEF Overlay
<1> QED BY <1>1, <1>2

\* The view of a cache under acknowledged and outstanding writes.
LEMMA ViewIn ==
  ASSUME Inductive, NEW V, HistoryIn(V), NEW c \in [Key -> Nat],
         \A k \in Key : c[k] <= Len(hist[k]),
         NEW s \in Seq(Answered), NEW t \in Seq(Put), WritesIn(V, s), WritesIn(V, t)
  PROVE  /\ Overlay(c, s \o t) \in Snapshot
         /\ AllIn(V, Overlay(c, s \o t))
<1>1. s \o t \in Seq(Answered \cup Put) /\ WritesIn(V, s \o t)
  <2>1. s \in Seq(Answered \cup Put) /\ t \in Seq(Answered \cup Put)
    BY SeqMonotonic
  <2> QED BY <2>1 DEF WritesIn
<1>2. TypeOK
  BY DEF Inductive
<1> QED BY <1>1, <1>2, OverlayIn, OverlaySnapshot, StoreAssumption

\* What is posted of such a view.
LEMMA ChangedIn ==
  ASSUME NEW V, NEW d, NEW view \in Snapshot, AllIn(V, view), NEW E \in Seq(Event), EventsIn(V, E)
  PROVE  /\ E \o Changed(d, view) \in Seq(Event)
         /\ EventsIn(V, E \o Changed(d, view))
         /\ EventsIn(V, E \o <<[kind |-> "value", snap |-> view]>>)
<1>1. PICK x : x = [kind |-> "value", snap |-> view]
  OBVIOUS
<1>2. x \in Event /\ AllIn(V, x.snap)
  BY <1>1 DEF Event, ValueEv
<1>3. E \o <<x>> \in Seq(Event) /\ EventsIn(V, E \o <<x>>)
  BY <1>2 DEF EventsIn
<1>4. E \o <<>> \in Seq(Event) /\ EventsIn(V, E \o <<>>)
  BY DEF EventsIn
<1>5. Changed(d, view) = <<x>> \/ Changed(d, view) = <<>>
  BY <1>1 DEF Changed
<1> QED BY <1>1, <1>3, <1>4, <1>5

\* Another device moves.
LEMMA IdleIn ==
  ASSUME NEW V, NEW e \in Device, HoldsIn(V, e), calls'[e] = calls[e], up'[e] = up[e],
         puts'[e] = puts[e], toAck'[e] = toAck[e], events'[e] = events[e], shown'[e] = shown[e]
  PROVE  HoldsIn(V, e)'
BY DEF HoldsIn

\* A call of observe carries no value.
LEMMA RetrieveAllIn ==
  ASSUME TypeOK, NEW V, NEW d \in Device, RetrieveAll(d), HoldsIn(V, d)
  PROVE  HoldsIn(V, d)'
<1>1. /\ up' = up /\ puts' = puts /\ toAck' = toAck /\ events' = events /\ shown' = shown
      /\ calls'[d] = Append(calls[d], Observe)
  BY DEF RetrieveAll, TypeOK, net, client
<1>2. WritesIn(V, Append(calls[d], Observe))
  BY WriteKeys, QueueTypes DEF HoldsIn, WritesIn
<1> QED BY <1>1, <1>2 DEF HoldsIn

\* The screen takes a snapshot, or a completion block runs.
LEMMA HandleIn ==
  ASSUME TypeOK, NEW V, NEW d \in Device, HandleValue(d) \/ HandleDone(d), HoldsIn(V, d)
  PROVE  HoldsIn(V, d)'
<1>1. /\ up' = up /\ puts' = puts /\ toAck' = toAck /\ events[d] # <<>>
      /\ events'[d] = Tail(events[d])
      /\ (calls'[d] = calls[d] \/ calls'[d] = Append(calls[d], Observe))
      /\ \/ shown'[d] = shown[d]
         \/ Head(events[d]).kind = "value" /\ shown'[d] = Head(events[d]).snap
  BY DEF HandleValue, HandleDone, TypeOK, net, client
<1>2. WritesIn(V, Append(calls[d], Observe))
  BY WriteKeys, QueueTypes DEF HoldsIn, WritesIn
<1>3. EventsIn(V, Tail(events[d]))
  BY <1>1, QueueTypes DEF HoldsIn, EventsIn
<1>4. Head(events[d]).kind = "value" => AllIn(V, Head(events[d]).snap)
  BY <1>1, QueueTypes DEF HoldsIn, EventsIn
<1>5. WritesIn(V, calls'[d]) /\ EventsIn(V, events'[d])
  BY <1>1, <1>2, <1>3 DEF HoldsIn
<1>6. shown'[d] # NotLoaded => AllIn(V, shown'[d])
  BY <1>1, <1>4 DEF HoldsIn
<1> QED BY <1>1, <1>5, <1>6 DEF HoldsIn

\* A call becomes outstanding, and the changed view is posted.
LEMMA RunPutIn ==
  ASSUME Inductive, NEW V, HistoryIn(V), NEW d \in Device, RunPut(d), HoldsIn(V, d)
  PROVE  HoldsIn(V, d)'
<1>0. TypeOK
  BY DEF Inductive
<1> DEFINE p == Head(calls[d])
           view == Overlay(cache[d], toAck[d] \o Append(puts[d], p))
<1>1. /\ toAck' = toAck /\ shown' = shown /\ calls[d] # <<>> /\ calls'[d] = Tail(calls[d])
      /\ puts'[d] = Append(puts[d], p) /\ (up'[d] = up[d] \/ up'[d] = Append(up[d], p))
      /\ events'[d] = events[d] \o Changed(d, view) /\ p # Observe
  BY <1>0 DEF RunPut, TypeOK
<1>2. p \in Put /\ p.val \in V[p.key]
  <2>1. p \in {Observe} \cup Put
    BY <1>0, <1>1, QueueTypes, HeadTailProperties
  <2>2. p \in Put /\ p.op = "put"
    BY <1>1, <2>1, WriteKeys
  <2> QED BY <1>0, <1>1, <2>2, QueueTypes DEF HoldsIn, WritesIn
<1> HIDE DEF p
<1>3. /\ WritesIn(V, Append(puts[d], p)) /\ Append(puts[d], p) \in Seq(Put)
      /\ WritesIn(V, Append(up[d], p)) /\ WritesIn(V, Tail(calls[d]))
  BY <1>0, <1>1, <1>2, QueueTypes DEF HoldsIn, WritesIn
<1>4. view \in Snapshot /\ AllIn(V, view)
  BY <1>0, <1>3, QueueTypes, CacheCovered, ViewIn DEF HoldsIn
<1> HIDE DEF view
<1>5. EventsIn(V, events'[d])
  BY <1>0, <1>1, <1>4, QueueTypes, ChangedIn DEF HoldsIn
<1> QED BY <1>1, <1>3, <1>5 DEF HoldsIn

\* A new observer is given the view.
LEMMA RunObserveIn ==
  ASSUME Inductive, NEW V, HistoryIn(V), NEW d \in Device, RunObserve(d), HoldsIn(V, d)
  PROVE  HoldsIn(V, d)'
<1>0. TypeOK
  BY DEF Inductive
<1>1. PICK x : x = [kind |-> "value", snap |-> View(d)]
  OBVIOUS
<1>2. /\ toAck' = toAck /\ puts' = puts /\ shown' = shown /\ calls[d] # <<>>
      /\ calls'[d] = Tail(calls[d])
      /\ (up'[d] = up[d] \/ up'[d] = Append(up[d], Listen))
      /\ (events'[d] = events[d] \/ events'[d] = Append(events[d], x))
  BY <1>0, <1>1 DEF RunObserve, TypeOK
<1>3. View(d) \in Snapshot /\ AllIn(V, View(d))
  BY <1>0, QueueTypes, CacheCovered, ViewIn DEF HoldsIn, View
<1>4. AllIn(V, x.snap)
  BY <1>1, <1>3
<1>5. EventsIn(V, Append(events[d], x))
  BY <1>0, <1>4, QueueTypes DEF HoldsIn, EventsIn
<1>6. WritesIn(V, Append(up[d], Listen))
  BY <1>0, WriteKeys, QueueTypes DEF HoldsIn, WritesIn
<1>7. WritesIn(V, Tail(calls[d]))
  BY <1>0, <1>2, QueueTypes DEF HoldsIn, WritesIn
<1> QED BY <1>2, <1>5, <1>6, <1>7 DEF HoldsIn

\* A new connection sends what is outstanding; a lost one loses what it carried.
LEMMA ConnectionIn ==
  ASSUME TypeOK, NEW V, NEW d \in Device, Connect(d) \/ Disconnect(d), HoldsIn(V, d)
  PROVE  HoldsIn(V, d)'
<1>1. /\ puts' = puts /\ toAck' = toAck /\ events' = events /\ calls' = calls /\ shown' = shown
      /\ (up'[d] = Restored(d) \/ up'[d] = <<>>)
  BY DEF Connect, Disconnect, TypeOK, client
<1>2. WritesIn(V, <<>>) /\ WritesIn(V, <<>> \o puts[d]) /\ WritesIn(V, <<Listen>> \o puts[d])
  BY WriteKeys, QueueTypes DEF HoldsIn, WritesIn
<1>3. Restored(d) = <<>> \o puts[d] \/ Restored(d) = <<Listen>> \o puts[d]
  BY DEF Restored
<1> QED BY <1>1, <1>2, <1>3 DEF HoldsIn

\* Data changes the cache, and the view is posted.
LEMMA ReceiveDataIn ==
  ASSUME Inductive, NEW V, HistoryIn(V), NEW d \in Device, ReceiveData(d), HoldsIn(V, d)
  PROVE  HoldsIn(V, d)'
<1>0. TypeOK
  BY DEF Inductive
<1>1. PICK view : view = Overlay(Received(d, Head(down[d])), toAck[d] \o puts[d])
  OBVIOUS
<1>2. /\ hist' = hist /\ up' = up /\ puts' = puts /\ toAck' = toAck /\ calls' = calls /\ shown' = shown
      /\ \/ events'[d] = events[d] \o Changed(d, view)
         \/ events'[d] = events[d] \o <<[kind |-> "value", snap |-> view]>>
      /\ cache'[d] = Received(d, Head(down[d]))
  BY <1>0, <1>1 DEF ReceiveData, TypeOK
<1>3. Inductive'
  <2>1. Next
    BY DEF Next, Infrastructure
  <2> QED BY <2>1, InductiveStep, StoreAssumption
<1>4. cache'[d] \in [Key -> Nat] /\ \A k \in Key : cache'[d][k] <= Len(hist[k])
  <2>1. (cache[d] \in [Key -> Nat] /\ \A k \in Key : cache[d][k] <= Len(hist[k]))'
    BY <1>3 DEF Inductive, TypeOK, VersionsOrdered, InOrder
  <2> QED BY <1>2, <2>1
<1>5. view \in Snapshot /\ AllIn(V, view)
  BY <1>0, <1>1, <1>2, <1>4, QueueTypes, ViewIn DEF HoldsIn
<1>6. EventsIn(V, events'[d])
  BY <1>0, <1>2, <1>5, QueueTypes, ChangedIn DEF HoldsIn
<1> QED BY <1>2, <1>6 DEF HoldsIn

\* An answered write waits for its acknowledgement.
LEMMA ReceivePutDoneIn ==
  ASSUME TypeOK, NEW V, NEW d \in Device, ReceivePutDone(d), HoldsIn(V, d)
  PROVE  HoldsIn(V, d)'
<1>1. PICK i \in DOMAIN puts[d] :
         /\ puts' = [puts EXCEPT ![d] = Outstanding(d, i)]
         /\ toAck' = [toAck EXCEPT ![d] = Append(@, ToAck(puts[d][i], Head(down[d]).ok))]
  BY DEF ReceivePutDone
<1>2. PICK x : x = ToAck(puts[d][i], Head(down[d]).ok)
  OBVIOUS
<1>3. /\ up' = up /\ events' = events /\ calls' = calls /\ shown' = shown
      /\ puts'[d] = Outstanding(d, i) /\ toAck'[d] = Append(toAck[d], x)
  BY <1>1, <1>2 DEF ReceivePutDone, TypeOK
<1>4. puts[d] \in Seq(Put) /\ puts[d][i] \in Put
  BY QueueTypes, ElementOfSeq
<1>5. x.val \in V[x.key]
  BY <1>2, <1>4, WriteKeys DEF HoldsIn, WritesIn, ToAck
<1>6. WritesIn(V, Append(toAck[d], x))
  BY <1>5, QueueTypes DEF HoldsIn, WritesIn
<1>7. WritesIn(V, Outstanding(d, i))
  <2>1. WritesIn(V, SubSeq(puts[d], 1, i - 1)) /\ WritesIn(V, SubSeq(puts[d], i + 1, Len(puts[d])))
    BY <1>4 DEF HoldsIn, WritesIn
  <2>2. /\ SubSeq(puts[d], 1, i - 1) \in Seq(Put)
        /\ SubSeq(puts[d], i + 1, Len(puts[d])) \in Seq(Put)
    BY <1>4
  <2>3. \A s, t \in Seq(Put) : WritesIn(V, s) /\ WritesIn(V, t) => WritesIn(V, s \o t)
    BY DEF WritesIn
  <2> QED BY <2>1, <2>2, <2>3 DEF Outstanding
<1> QED BY <1>3, <1>6, <1>7 DEF HoldsIn

\* An acknowledged write leaves the view, which is posted when it changes.
LEMMA AckPutIn ==
  ASSUME Inductive, NEW V, HistoryIn(V), NEW d \in Device, AckPut(d), HoldsIn(V, d)
  PROVE  HoldsIn(V, d)'
<1>0. TypeOK
  BY DEF Inductive
<1>1. PICK view : view = Overlay(cache[d], Tail(toAck[d]) \o puts[d])
  OBVIOUS
<1>2. PICK x : x = [kind |-> "done", id |-> Head(toAck[d]).id, key |-> Head(toAck[d]).key,
             ok |-> Head(toAck[d]).ok]
  OBVIOUS
<1>3. /\ up' = up /\ puts' = puts /\ calls' = calls /\ shown' = shown
      /\ toAck[d] # <<>> /\ toAck'[d] = Tail(toAck[d])
      /\ events'[d] = (events[d] \o Changed(d, view)) \o <<x>>
  BY <1>0, <1>1, <1>2 DEF AckPut, TypeOK, net
<1>4. Tail(toAck[d]) \in Seq(Answered) /\ WritesIn(V, Tail(toAck[d]))
  BY <1>0, <1>3, QueueTypes DEF HoldsIn, WritesIn
<1>5. view \in Snapshot /\ AllIn(V, view)
  BY <1>0, <1>1, <1>4, QueueTypes, CacheCovered, ViewIn DEF HoldsIn
<1>6. PICK F \in Seq(Event) : F = events[d] \o Changed(d, view) /\ EventsIn(V, F)
  BY <1>0, <1>5, QueueTypes, ChangedIn DEF HoldsIn
<1>7. x.kind # "value"
  BY <1>2
<1>8. EventsIn(V, F \o <<x>>)
  BY <1>6, <1>7 DEF EventsIn
<1> QED BY <1>3, <1>4, <1>6, <1>8 DEF HoldsIn

\* The database takes a message.
LEMMA ServeIn ==
  ASSUME TypeOK, NEW V, NEW d \in Device, HoldsIn(V, d),
         ServerListen(d) \/ ServerAccept(d) \/ ServerReject(d) \/ ServerDeny(d)
  PROVE  HoldsIn(V, d)'
<1>1. /\ puts' = puts /\ toAck' = toAck /\ events' = events /\ calls' = calls /\ shown' = shown
      /\ up'[d] = up[d] \/ (up[d] # <<>> /\ up'[d] = Tail(up[d]))
  BY DEF ServerListen, ServerAccept, ServerReject, ServerDeny, TypeOK, client
<1>2. up[d] # <<>> => WritesIn(V, Tail(up[d]))
  BY QueueTypes DEF HoldsIn, WritesIn
<1> QED BY <1>1, <1>2 DEF HoldsIn

\* A killed process holds nothing.
LEMMA RestartIn ==
  ASSUME TypeOK, NEW V, NEW d \in Device, Restart(d)
  PROVE  HoldsIn(V, d)'
<1>1. /\ calls'[d] = <<>> /\ up'[d] = <<>> /\ puts'[d] = <<>> /\ toAck'[d] = <<>>
      /\ events'[d] = <<>> /\ shown'[d] = NotLoaded
  BY DEF Restart, TypeOK
<1> QED BY <1>1 DEF HoldsIn, WritesIn, EventsIn

\* A screen writes a value of V.
LEMMA SetValueIn ==
  ASSUME TypeOK, NEW V, NEW d \in Device, NEW k \in Key, NEW v \in V[k], SetValue(d, k, v),
         NEW e \in Device, HoldsIn(V, e)
  PROVE  HoldsIn(V, e)'
<1>1. PICK x : x = [op |-> "put", id |-> issued[d] + 1, key |-> k, val |-> v]
  OBVIOUS
<1>2. /\ up' = up /\ puts' = puts /\ toAck' = toAck /\ events' = events /\ shown' = shown
      /\ calls'[e] = IF e = d THEN Append(calls[e], x) ELSE calls[e]
  BY <1>1 DEF SetValue, TypeOK, net, client
<1>3. WritesIn(V, Append(calls[e], x))
  BY <1>1, QueueTypes DEF HoldsIn, WritesIn
<1> QED BY <1>2, <1>3 DEF HoldsIn

\* Whatever happens below the screens, and whichever device moves, a device holds only
\* values of V.
LEMMA CopiesIn ==
  ASSUME Inductive, NEW V, HistoryIn(V), NEW d \in Device, NEW e \in Device, HoldsIn(V, e),
         Below(d) \/ HandleValue(d) \/ HandleDone(d) \/ Restart(d)
  PROVE  HoldsIn(V, e)'
<1>0. TypeOK
  BY DEF Inductive
<1>1. CASE e # d
  <2>1. /\ calls'[e] = calls[e] /\ up'[e] = up[e] /\ puts'[e] = puts[e] /\ toAck'[e] = toAck[e]
        /\ events'[e] = events[e] /\ shown'[e] = shown[e]
    BY <1>0, <1>1 DEF TypeOK, Below, HandleValue, HandleDone, Restart, RetrieveAll, RunPut, RunObserve,
       Connect, Disconnect, ReceiveData, ReceiveListenOk, ReceiveDenial, ReceivePutDone, AckPut,
       ServerListen, ServerAccept, ServerReject, ServerDeny, net, client
  <2> QED BY <2>1, IdleIn
<1>2. CASE e = d
  <2>1. CASE ReceiveListenOk(d) \/ ReceiveDenial(d)
    BY <1>2, <2>1 DEF ReceiveListenOk, ReceiveDenial, HoldsIn
  <2> QED BY <1>0, <1>2, <2>1, RetrieveAllIn, HandleIn, RunPutIn, RunObserveIn, ConnectionIn, ReceiveDataIn,
       ReceivePutDoneIn, AckPutIn, ServeIn, RestartIn DEF Below
<1> QED BY <1>1, <1>2

\* What holds values of V after a step holds values of every W with more of them.
LEMMA HoldsMore ==
  ASSUME TypeOK', NEW V, NEW W, \A k \in Key : V[k] \subseteq W[k], NEW d \in Device, HoldsIn(V, d)'
  PROVE  HoldsIn(W, d)'
<1> DEFINE Any == {Observe, Listen} \cup Put \cup Answered
<1>1. ASSUME NEW s \in Seq(Any), WritesIn(V, s) PROVE WritesIn(W, s)
  <2> SUFFICES ASSUME NEW i \in DOMAIN s, s[i].op = "put" PROVE s[i].val \in W[s[i].key]
    BY DEF WritesIn
  <2>1. s[i] \in Any
    BY ElementOfSeq
  <2>2. s[i].key \in Key
    BY <2>1, WriteKeys
  <2> QED BY <1>1, <2>2 DEF WritesIn
<1>2. calls'[d] \in Seq(Any) /\ up'[d] \in Seq(Any) /\ puts'[d] \in Seq(Any) /\ toAck'[d] \in Seq(Any)
  <2>1. /\ calls'[d] \in Seq({Observe} \cup Put) /\ up'[d] \in Seq({Listen} \cup Put)
        /\ puts'[d] \in Seq(Put) /\ toAck'[d] \in Seq(Answered)
    BY DEF TypeOK
  <2> QED BY <2>1, SeqMonotonic
<1>3. \A r : AllIn(V, r) => AllIn(W, r)
  BY DEF AllIn
<1> HIDE DEF Any
<1> QED BY <1>1, <1>2, <1>3 DEF HoldsIn, EventsIn
-----------------------------------------------------------------------------
(* Writes on their way *)

\* The writes of a sequence of calls or messages.
Writes(s) == {s[i] : i \in Numbered(s)}

\* The writes of d that were called and are not answered.
Pending(d) == Writes(puts[d]) \cup Writes(calls[d])

\* ... those of them that the database has not applied on this connection.
Unserved(d) == Writes(calls[d]) \cup Writes(IF conn[d] = "up" THEN up[d] ELSE puts[d])

\* The write that x is, if it is one.
Own(x) == {y \in {x} : "id" \in DOMAIN y}

\* The writes of a sequence, as it grows and shrinks.
LEMMA WritesOf ==
  ASSUME NEW S, NEW s \in Seq(S), NEW x \in S
  PROVE  /\ Writes(<<>>) = {}
         /\ s # <<>> => Writes(s) = Writes(Tail(s)) \cup Own(Head(s))
         /\ Writes(<<x>> \o s) = Writes(s) \cup Own(x)
         /\ Writes(s) \subseteq S
<1>1. Writes(<<>>) = {}
  BY DEF Writes, Numbered
<1>3. s # <<>> => Writes(s) = Writes(Tail(s)) \cup Own(Head(s))
  <2> SUFFICES ASSUME s # <<>>
               PROVE  Writes(s) = Writes(Tail(s)) \cup Own(Head(s))
    OBVIOUS
  <2>1. \A i \in Numbered(Tail(s)) : i + 1 \in Numbered(s) /\ Tail(s)[i] = s[i + 1]
    BY DEF Numbered
  <2>2. \A i \in Numbered(s) : \/ i - 1 \in Numbered(Tail(s)) /\ Tail(s)[i - 1] = s[i]
                               \/ s[i] = Head(s) /\ "id" \in DOMAIN Head(s)
    BY DEF Numbered
  <2>3. "id" \in DOMAIN Head(s) => 1 \in Numbered(s) /\ s[1] = Head(s)
    BY DEF Numbered
  <2>4. Writes(Tail(s)) \subseteq Writes(s)
    BY <2>1 DEF Writes
  <2>5. \A z \in Writes(s) : z \in Writes(Tail(s)) \/ (z = Head(s) /\ "id" \in DOMAIN Head(s))
    BY <2>2 DEF Writes
  <2>6. "id" \in DOMAIN Head(s) => Head(s) \in Writes(s)
    BY <2>3 DEF Writes
  <2> QED BY <2>4, <2>5, <2>6 DEF Own
<1>4. Writes(<<x>> \o s) = Writes(s) \cup Own(x)
  <2>1. \A i \in Numbered(s) : i + 1 \in Numbered(<<x>> \o s) /\ (<<x>> \o s)[i + 1] = s[i]
    BY DEF Numbered
  <2>2. \A i \in Numbered(<<x>> \o s) : \/ i - 1 \in Numbered(s) /\ (<<x>> \o s)[i] = s[i - 1]
                                        \/ (<<x>> \o s)[i] = x /\ "id" \in DOMAIN x
    BY DEF Numbered
  <2>3. "id" \in DOMAIN x => 1 \in Numbered(<<x>> \o s) /\ (<<x>> \o s)[1] = x
    BY DEF Numbered
  <2>4. Writes(s) \subseteq Writes(<<x>> \o s)
    BY <2>1 DEF Writes
  <2>5. \A z \in Writes(<<x>> \o s) : z \in Writes(s) \/ (z = x /\ "id" \in DOMAIN x)
    BY <2>2 DEF Writes
  <2>6. "id" \in DOMAIN x => x \in Writes(<<x>> \o s)
    BY <2>3 DEF Writes
  <2> QED BY <2>4, <2>5, <2>6 DEF Own
<1>5. Writes(s) \subseteq S
  BY DEF Writes, Numbered
<1> QED BY <1>1, <1>3, <1>4, <1>5

\* ... one more,
LEMMA WritesMore ==
  ASSUME NEW S, NEW s \in Seq(S), NEW x \in S
  PROVE  Writes(Append(s, x)) = Writes(s) \cup Own(x)
<1>1. \A i \in Numbered(s) : i \in Numbered(Append(s, x)) /\ Append(s, x)[i] = s[i]
  BY DEF Numbered
<1>2. \A i \in Numbered(Append(s, x)) : \/ i \in Numbered(s) /\ Append(s, x)[i] = s[i]
                                        \/ Append(s, x)[i] = x /\ "id" \in DOMAIN x
  BY DEF Numbered
<1>3. "id" \in DOMAIN x => Len(s) + 1 \in Numbered(Append(s, x)) /\ Append(s, x)[Len(s) + 1] = x
  BY DEF Numbered
<1> QED BY <1>1, <1>2, <1>3 DEF Writes, Own

\* A put has a number.
LEMMA PutsNumbered ==
  /\ \A x \in Put : "id" \in DOMAIN x /\ x # Observe /\ x # Listen /\ x.id \in Nat /\ x.key \in Key
  /\ "id" \notin DOMAIN Observe /\ "id" \notin DOMAIN Listen
BY StoreAssumption DEF Put, Observe, Listen, WriteId, StoreAssumption

\* ... what is no write adds none,
LEMMA NotWritten ==
  ASSUME NEW S, NEW s \in Seq(S), NEW x \in S, x = Observe \/ x = Listen
  PROVE  /\ Writes(Append(s, x)) = Writes(s)
         /\ s # <<>> /\ Head(s) = x => Writes(Tail(s)) = Writes(s)
         /\ Writes(<<x>> \o s) = Writes(s)
<1>1. Own(x) = {}
  BY PutsNumbered DEF Own
<1>2. Writes(Append(s, x)) = Writes(s) \cup Own(x)
  BY WritesMore
<1>3. s # <<>> => Writes(s) = Writes(Tail(s)) \cup Own(Head(s))
  BY WritesOf
<1>4. Writes(<<x>> \o s) = Writes(s) \cup Own(x)
  BY WritesOf
<1> QED BY <1>1, <1>2, <1>3, <1>4

\* ... and a write adds itself.
LEMMA Written ==
  ASSUME NEW S, NEW s \in Seq(S), NEW x \in S, x \in Put
  PROVE  /\ Writes(Append(s, x)) = Writes(s) \cup {x}
         /\ s # <<>> /\ Head(s) = x => Writes(s) = Writes(Tail(s)) \cup {x}
<1>1. Own(x) = {x}
  BY PutsNumbered DEF Own
<1>2. Writes(Append(s, x)) = Writes(s) \cup Own(x)
  BY WritesMore
<1>3. s # <<>> => Writes(s) = Writes(Tail(s)) \cup Own(Head(s))
  BY WritesOf
<1> QED BY <1>1, <1>2, <1>3

\* The calls to the data layer.
Calling == {Observe} \cup Put

\* What is pending is a put.
LEMMA PendingPuts ==
  ASSUME TypeOK, NEW d \in Device
  PROVE  /\ Writes(puts[d]) \subseteq Put /\ Writes(calls[d]) \subseteq Put
         /\ Writes(up[d]) \subseteq Put
         /\ Pending(d) \subseteq Put /\ Unserved(d) \subseteq Put
<1>1. \A s : s \in Seq({Observe} \cup Put) \/ s \in Seq({Listen} \cup Put) \/ s \in Seq(Put)
        => Writes(s) \subseteq Put
  <2>1. \A S, s, i : s \in Seq(S) /\ i \in Numbered(s) => s[i] \in S /\ "id" \in DOMAIN s[i]
    BY DEF Numbered
  <2>2. \A S, s : s \in Seq(S) => \A x \in Writes(s) : x \in S /\ "id" \in DOMAIN x
    BY <2>1 DEF Writes
  <2> QED BY <2>2, PutsNumbered
<1>2. Writes(puts[d]) \subseteq Put /\ Writes(calls[d]) \subseteq Put /\ Writes(up[d]) \subseteq Put
  BY <1>1, QueueTypes
<1> QED BY <1>2 DEF Pending, Unserved

\* What is on its way is pending; a pending write that follows one that waits waits too.
LEMMA UnservedPending ==
  ASSUME TypeOK, Ordered, Resends, NEW d \in Device
  PROVE  /\ Unserved(d) \subseteq Pending(d)
         /\ \A p, q \in Pending(d) : p.id = q.id => p = q
         /\ \A p \in Unserved(d), q \in Pending(d) : p.id <= q.id => q \in Unserved(d)
<1>1. /\ Ascending(puts[d]) /\ Ascending(calls[d]) /\ Before(puts[d], calls[d])
      /\ Before(down[d], up[d]) /\ Before(down[d], calls[d])
      /\ conn[d] = "up" => Covered(puts[d], down[d], up[d])
      /\ conn[d] # "up" => up[d] = <<>>
  BY DEF Ordered, OrderedAt, Flow, Wire, TypeOK
<1>2. Within(up[d], puts[d]) /\ puts[d] \in Seq(Put) /\ calls[d] \in Seq({Observe} \cup Put)
      /\ up[d] \in Seq({Listen} \cup Put) /\ down[d] \in Seq(Answer)
  BY QueueTypes DEF Resends, ResendsAt
<1>3. \A s : s \in Seq(Put) => Numbered(s) = DOMAIN s
  <2>1. \A s : s \in Seq(Put) => \A i \in DOMAIN s : s[i] \in Put
    BY ElementOfSeq
  <2> QED BY <2>1, PutsNumbered DEF Numbered
<1>4. Writes(up[d]) \subseteq Writes(puts[d])
  BY <1>2, <1>3 DEF Within, Writes
<1>5. Unserved(d) \subseteq Pending(d)
  BY <1>4 DEF Unserved, Pending
<1>6. \A p, q \in Pending(d) : p.id = q.id => p = q
  <2>1. \A s : s \in Seq(Put) \/ s \in Seq({Observe} \cup Put) =>
           /\ \A i \in Numbered(s) : i \in 1..Len(s) /\ s[i].id \in Nat
           /\ Len(s) \in Nat
    BY PutsNumbered DEF Numbered
  <2>2. \A s : (s \in Seq(Put) \/ s \in Seq({Observe} \cup Put)) /\ Ascending(s) =>
           \A p, q \in Writes(s) : p.id = q.id => p = q
    <3> SUFFICES ASSUME NEW s, s \in Seq(Put) \/ s \in Seq({Observe} \cup Put), Ascending(s),
                        NEW i \in Numbered(s), NEW j \in Numbered(s), s[i].id = s[j].id
                 PROVE  i = j
      BY DEF Writes
    <3>1. i \in 1..Len(s) /\ j \in 1..Len(s) /\ s[i].id \in Nat /\ s[j].id \in Nat /\ Len(s) \in Nat
      BY <2>1
    <3> QED BY <3>1 DEF Ascending
  <2>3. \A p \in Writes(puts[d]), q \in Writes(calls[d]) : p.id < q.id
    BY <1>1 DEF Before, Writes
  <2>4. \A p \in Pending(d) : p.id \in Nat
    BY PendingPuts, PutsNumbered
  <2> QED BY <1>1, <1>2, <2>2, <2>3, <2>4 DEF Pending
<1>7. ASSUME NEW p \in Unserved(d), NEW q \in Pending(d), p.id <= q.id PROVE q \in Unserved(d)
  <2>0. p.id \in Nat /\ q.id \in Nat
    BY PendingPuts, PutsNumbered
  <2>1. CASE q \in Writes(calls[d]) \/ conn[d] # "up"
    BY <2>1 DEF Unserved, Pending
  <2>2. CASE q \in Writes(puts[d]) /\ conn[d] = "up"
    <3>1. PICK i \in DOMAIN puts[d] : q = puts[d][i]
      BY <1>2, <1>3, <2>2 DEF Writes
    <3>2. CASE \E j \in Numbered(down[d]) : down[d][j].id = q.id
      <4>1. p \in Writes(calls[d]) \/ p \in Writes(up[d])
        BY <2>2 DEF Unserved
      <4>2. q.id < p.id
        BY <1>1, <3>2, <4>1 DEF Before, Writes
      <4> QED BY <1>7, <2>0, <4>2
    <3>3. CASE \E j \in Numbered(up[d]) : up[d][j].id = q.id
      <4>1. PICK r \in Writes(up[d]) : r.id = q.id
        BY <3>3 DEF Writes
      <4>2. r \in Pending(d)
        BY <1>4, <4>1 DEF Pending
      <4>3. r = q
        BY <1>6, <4>1, <4>2
      <4> QED BY <2>2, <4>1, <4>3 DEF Unserved
    <3> QED BY <1>1, <2>2, <3>1, <3>2, <3>3 DEF Covered
  <2> QED BY <2>1, <2>2 DEF Pending
<1> QED BY <1>5, <1>6, <1>7

\* The steps that answer, store and call no write: a lost connection makes the writes
\* that were applied on it unserved again.
LEMMA QuietPending ==
  ASSUME TypeOK, Resends, NEW d \in Device, NEW e \in Device,
         \/ RetrieveAll(d) \/ HandleDone(d) \/ HandleValue(d) \/ RunPut(d) \/ RunObserve(d)
         \/ Connect(d) \/ Disconnect(d) \/ ReceiveData(d) \/ ReceiveListenOk(d)
              \/ ReceiveDenial(d) \/ AckPut(d) \/ ServerListen(d) \/ ServerDeny(d)
  PROVE  Pending(e)' = Pending(e) /\ Unserved(e) \subseteq Unserved(e)'
<1>0. /\ puts[e] \in Seq(Put) /\ calls[e] \in Seq(Calling) /\ up[e] \in Seq(Sending)
      /\ conn[e] \in {"up", "down"}
  BY QueueTypes DEF Calling, Sending, TypeOK
<1>1. Observe \in Calling /\ Listen \in Sending /\ Put \subseteq Calling /\ Put \subseteq Sending
  BY DEF Calling, Sending
<1> DEFINE Same == Pending(e)' = Pending(e) /\ Unserved(e) \subseteq Unserved(e)'
<1>2. ASSUME calls'[e] = calls[e] \/ calls'[e] = Append(calls[e], Observe),
             puts'[e] = puts[e], up'[e] = up[e], conn'[e] = conn[e]
      PROVE  Same
  <2>0. Writes(Append(calls[e], Observe)) = Writes(calls[e])
    BY <1>0, <1>1, NotWritten
  <2>1. Writes(calls'[e]) = Writes(calls[e])
    BY <1>2, <2>0
  <2> QED BY <1>2, <2>1 DEF Pending, Unserved
<1>3. CASE e # d
  <2>1. calls'[e] = calls[e] /\ puts'[e] = puts[e] /\ up'[e] = up[e] /\ conn'[e] = conn[e]
    BY <1>3 DEF TypeOK, RetrieveAll, HandleDone, HandleValue, RunPut, RunObserve, Connect,
       Disconnect, ReceiveData, ReceiveListenOk, ReceiveDenial, AckPut, ServerListen, ServerDeny,
       net, client
  <2> QED BY <1>2, <2>1
<1>4. CASE RetrieveAll(d) \/ HandleDone(d) \/ HandleValue(d) \/ ReceiveData(d) \/ ReceiveListenOk(d)
             \/ ReceiveDenial(d) \/ AckPut(d)
  <2>1. /\ calls'[e] = calls[e] \/ calls'[e] = Append(calls[e], Observe)
        /\ puts'[e] = puts[e] /\ up'[e] = up[e] /\ conn'[e] = conn[e]
    BY <1>4 DEF TypeOK, RetrieveAll, HandleDone, HandleValue, ReceiveData, ReceiveListenOk, ReceiveDenial,
       AckPut, net, client
  <2> QED BY <1>2, <2>1
<1>5. CASE e = d /\ RunPut(d)
  <2>1. PICK p : p = Head(calls[e])
    OBVIOUS
  <2>2. /\ calls[e] # <<>> /\ p # Observe /\ calls'[e] = Tail(calls[e])
        /\ puts'[e] = Append(puts[e], p)
        /\ up'[e] = (IF conn[e] = "up" THEN Append(up[e], p) ELSE up[e]) /\ conn'[e] = conn[e]
    BY <1>5, <2>1 DEF TypeOK, RunPut
  <2>3. p \in Put /\ "id" \in DOMAIN p
    BY <1>0, <2>1, <2>2, HeadTailProperties, PutsNumbered DEF Calling
  <2>4. Writes(calls[e]) = Writes(Tail(calls[e])) \cup {p}
    BY <1>0, <1>1, <2>1, <2>2, <2>3, Written
  <2>5. Writes(Append(puts[e], p)) = Writes(puts[e]) \cup {p}
    BY <1>0, <2>3, Written
  <2>6. Writes(Append(up[e], p)) = Writes(up[e]) \cup {p}
    BY <1>0, <1>1, <2>3, Written
  <2> QED BY <1>0, <2>2, <2>4, <2>5, <2>6 DEF Pending, Unserved
<1>6. CASE e = d /\ RunObserve(d)
  <2>1. /\ calls[e] # <<>> /\ Head(calls[e]) = Observe /\ calls'[e] = Tail(calls[e])
        /\ puts'[e] = puts[e]
        /\ (up'[e] = up[e] \/ up'[e] = Append(up[e], Listen)) /\ conn'[e] = conn[e]
    BY <1>6 DEF TypeOK, RunObserve
  <2>2. Writes(calls[e]) = Writes(Tail(calls[e]))
    BY <1>0, <1>1, <2>1, NotWritten
  <2>3. Writes(Append(up[e], Listen)) = Writes(up[e])
    BY <1>0, <1>1, NotWritten
  <2> QED BY <2>1, <2>2, <2>3 DEF Pending, Unserved
<1>7. CASE e = d /\ Connect(d)
  <2>1. /\ conn[e] = "down" /\ conn'[e] = "up" /\ puts'[e] = puts[e] /\ calls'[e] = calls[e]
        /\ up'[e] = Restored(e)
    BY <1>7 DEF TypeOK, Connect, client
  <2>2. Writes(Restored(e)) = Writes(puts[e])
    <3>1. puts[e] \in Seq(Sending)
      BY ResendTypes
    <3>2. Writes(<<Listen>> \o puts[e]) = Writes(puts[e])
      BY <1>1, <3>1, NotWritten
    <3>3. <<>> \o puts[e] = puts[e]
      BY <1>0
    <3> QED BY <3>2, <3>3 DEF Restored
  <2> QED BY <2>1, <2>2 DEF Pending, Unserved
<1>8. CASE e = d /\ Disconnect(d)
  <2>1. /\ conn[e] = "up" /\ conn'[e] = "down" /\ puts'[e] = puts[e] /\ calls'[e] = calls[e]
    BY <1>8 DEF TypeOK, Disconnect
  <2>2. Writes(up[e]) \subseteq Writes(puts[e])
    <3>1. \A i \in DOMAIN puts[e] : i \in Numbered(puts[e])
      BY <1>0, PutsNumbered, ElementOfSeq DEF Numbered
    <3> QED BY <3>1 DEF Resends, ResendsAt, Within, Writes
  <2> QED BY <2>1, <2>2 DEF Pending, Unserved
<1>9. CASE e = d /\ (ServerListen(d) \/ ServerDeny(d))
  <2>1. /\ conn'[e] = conn[e] /\ puts'[e] = puts[e] /\ calls'[e] = calls[e]
        /\ up'[e] = up[e] \/ (up[e] # <<>> /\ Head(up[e]) = Listen /\ up'[e] = Tail(up[e]))
    BY <1>9 DEF TypeOK, ServerListen, ServerDeny, client
  <2>2. Writes(up[e]) = Writes(up'[e])
    BY <1>0, <1>1, <2>1, NotWritten
  <2> QED BY <2>1, <2>2 DEF Pending, Unserved
<1> QED BY <1>3, <1>4, <1>5, <1>6, <1>7, <1>8, <1>9
=============================================================================
