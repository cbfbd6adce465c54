---------------------------- MODULE RealtimeStore ----------------------------
(***************************************************************************)
(* The data layer under every screen: one collection of the Firebase       *)
(* Realtime Database as FirebaseAPIManager uses it.  Every write is a      *)
(* setValue of a whole record, every read a permanent value observer of    *)
(* the collection.  On a device the main thread hands its calls to the     *)
(* client's serial queue, which keeps the cache, the pending writes and    *)
(* the connection and posts events back to the main thread.                *)
(*                                                                         *)
(* A cached or transmitted record is named by its version, its position    *)
(* in the history of the record at the database, and a write by the number *)
(* its device gave it.  Versions and the history are not in the code: they *)
(* let the properties tell an old value from a new one.                    *)
(***************************************************************************)
EXTENDS Naturals, Sequences

CONSTANTS Device, Key, Value,
          Seed,          \* the collection before the behaviour starts
          NotLoaded,     \* a screen that has received no snapshot yet
          MaxWrites,     \* bound: setValue calls of a device
          MaxObservers,  \* bound: observe calls of a process
          MaxDrops,      \* bound: connections lost by a device
          MaxRestarts,   \* bound: times a device's process is killed
          MaxRefusals,   \* bound: writes of a device the database refuses
          MaxDenials     \* bound: times the database ends a device's listening

ASSUME StoreAssumption ==
    /\ Seed \in [Key -> Value]
    /\ NotLoaded \notin [Key -> Value]
    /\ MaxWrites \in Nat /\ MaxObservers \in Nat
    /\ MaxDrops \in Nat /\ MaxRestarts \in Nat
    /\ MaxRefusals \in Nat /\ MaxDenials \in Nat

VARIABLES
    hist,        \* database: the writes applied to each record, in order
    subscribed,  \* database: does the device's connection listen?
    up, down,    \* the two directions of a device's connection
    conn,        \* client: "up" or "down"
    listen,      \* client: "none", "waiting" for the answer, or "ok"
    observers,   \* client: registered value observers (the app removes none)
    synced,      \* client: has the collection been received once?
    cache,       \* client: version of each record the database last sent
    puts,        \* client: writes not yet answered, oldest first
    toAck,       \* client: answered writes still in the write tree
    calls,       \* main thread -> client queue
    events,      \* client queue -> main thread
    shown,       \* main thread: the last snapshot handed to the screens
    issued, drops, restarts, refusals, denials   \* per device (issued numbers the writes)

net    == <<up, down, conn>>
client == <<listen, observers, synced, cache, puts, toAck>>
counts == <<issued, drops, restarts, refusals, denials>>
vars   == <<hist, subscribed, net, client, calls, events, shown, counts>>

-----------------------------------------------------------------------------
\* The shapes of what travels.

WriteId   == 1..MaxWrites

Listen    == [op |-> "listen"]
Observe   == [op |-> "observe"]
Put       == [op: {"put"}, id: WriteId, key: Key, val: Value]
Answered  == [op: {"put"}, id: WriteId, key: Key, val: Value, ok: BOOLEAN]
Write     == [by: Device, id: WriteId, val: Value]

ListenOk  == [op |-> "listenOk"]
Denied    == [op |-> "denied"]
All       == [op: {"all"}, vers: [Key -> Nat]]
Update    == [op: {"update"}, key: Key, ver: Nat]
PutDone   == [op: {"putDone"}, id: WriteId, ok: BOOLEAN]

Snapshot  == [Key -> Value]
ValueEv   == [kind: {"value"}, snap: Snapshot]
DoneEv    == [kind: {"done"}, id: WriteId, key: Key, ok: BOOLEAN]

-----------------------------------------------------------------------------
\* The view of the collection: the cache under the pending writes.

Stored(k, n) == IF n = 0 THEN Seed[k] ELSE hist[k][n].val

Server == [k \in Key |-> Stored(k, Len(hist[k]))]

WritesTo(k, w) == {i \in DOMAIN w : w[i].key = k}

Overlay(vers, w) ==
    [k \in Key |->
        IF WritesTo(k, w) = {} THEN Stored(k, vers[k])
        ELSE w[CHOOSE i \in WritesTo(k, w) : \A j \in WritesTo(k, w) : j <= i].val]

View(d) == Overlay(cache[d], toAck[d] \o puts[d])

\* Mutant: no events while writes are pending.
ChangedQuietly(d, view) ==
    IF synced[d] /\ view # View(d) /\ toAck[d] \o puts[d] = <<>>
    THEN <<[kind |-> "value", snap |-> view]>> ELSE <<>>

\* A value event is raised only when a complete view changes.
Changed(d, view) ==
    IF synced[d] /\ view # View(d)
    THEN <<[kind |-> "value", snap |-> view]>> ELSE <<>>

\* ackPuts acknowledges every deferred write in one turn of the queue: until
\* it is through, nothing else runs there.
QueueFree(d) == toAck[d] = <<>> \/ listen[d] = "waiting"

\* Mutants: puts resent in dictionary order; listens or puts not restored.
RestoredUnsorted(d) ==
    (IF listen[d] = "none" THEN <<>> ELSE <<Listen>>)
        \o [i \in DOMAIN puts[d] |-> puts[d][Len(puts[d]) + 1 - i]]
RestoredNoListen(d) == puts[d]
RestoredNoPuts(d) == IF listen[d] = "none" THEN <<>> ELSE <<Listen>>

\* What a new connection sends: the listen, then every unanswered put in order.
Restored(d) == (IF listen[d] = "none" THEN <<>> ELSE <<Listen>>) \o puts[d]

\* Mutant: a server update under a pending write is not cached.
ReceivedShadowed(d, m) ==
    IF m.op = "all" THEN m.vers
    ELSE IF WritesTo(m.key, toAck[d] \o puts[d]) # {} THEN cache[d]
    ELSE [cache[d] EXCEPT ![m.key] = m.ver]

\* The server cache after a data message, whatever writes lie over it.
Received(d, m) ==
    IF m.op = "all" THEN m.vers ELSE [cache[d] EXCEPT ![m.key] = m.ver]

\* Mutant: an answered put stays among the outstanding ones.
OutstandingKept(d, i) == puts[d]

\* The outstanding puts without the one that was answered.
Outstanding(d, i) == SubSeq(puts[d], 1, i - 1) \o SubSeq(puts[d], i + 1, Len(puts[d]))

\* Mutant: the status of an answer is lost on the way to its acknowledgement.
ToAckNoStatus(p, ok) == p

ToAck(p, ok) == [op |-> "put", id |-> p.id, key |-> p.key, val |-> p.val, ok |-> ok]

-----------------------------------------------------------------------------
Init ==
    /\ hist = [k \in Key |-> <<>>]
    /\ subscribed = [d \in Device |-> FALSE]
    /\ up = [d \in Device |-> <<>>]
    /\ down = [d \in Device |-> <<>>]
    /\ conn = [d \in Device |-> "down"]
    /\ listen = [d \in Device |-> "none"]
    /\ observers = [d \in Device |-> 0]
    /\ synced = [d \in Device |-> FALSE]
    /\ cache = [d \in Device |-> [k \in Key |-> 0]]
    /\ puts = [d \in Device |-> <<>>]
    /\ toAck = [d \in Device |-> <<>>]
    /\ calls = [d \in Device |-> <<>>]
    /\ events = [d \in Device |-> <<>>]
    /\ shown = [d \in Device |-> NotLoaded]
    /\ issued = [d \in Device |-> 0]
    /\ drops = [d \in Device |-> 0]
    /\ restarts = [d \in Device |-> 0]
    /\ refusals = [d \in Device |-> 0]
    /\ denials = [d \in Device |-> 0]

-----------------------------------------------------------------------------
\* Main thread.

SetValue(d, k, v) ==
    /\ issued[d] < MaxWrites
    /\ issued' = [issued EXCEPT ![d] = @ + 1]
    /\ calls' = [calls EXCEPT ![d] =
          Append(@, [op |-> "put", id |-> issued[d] + 1, key |-> k, val |-> v])]
    /\ UNCHANGED <<hist, subscribed, net, client, events, shown, drops,
                   restarts, refusals, denials>>

\* Bounds the observers of a process, those not registered yet included.
CanObserve(d) ==
    /\ observers[d] < MaxObservers
    /\ \A i \in DOMAIN calls[d] : calls[d][i] # Observe

\* Has this process called retrieveAll? The observer may have been denied since.
Retrieving(d) ==
    observers[d] > 0 \/ denials[d] > 0 \/ \E i \in DOMAIN calls[d] : calls[d][i] = Observe

RetrieveAll(d) ==
    /\ CanObserve(d)
    /\ calls' = [calls EXCEPT ![d] = Append(@, Observe)]
    /\ UNCHANGED <<hist, subscribed, net, client, events, shown, counts>>

HandleValue(d) ==
    /\ events[d] # <<>> /\ Head(events[d]).kind = "value"
    /\ shown' = [shown EXCEPT ![d] = Head(events[d]).snap]
    /\ events' = [events EXCEPT ![d] = Tail(@)]
    /\ UNCHANGED <<hist, subscribed, net, client, calls, counts>>

\* The completion block of a setValue.  Some screens retrieve the collection
\* again, one of them after an error too; others do not.
HandleDone(d) ==
    /\ events[d] # <<>> /\ Head(events[d]).kind = "done"
    /\ events' = [events EXCEPT ![d] = Tail(@)]
    /\ \/ UNCHANGED calls
       \/ /\ CanObserve(d)
          /\ calls' = [calls EXCEPT ![d] = Append(@, Observe)]
    /\ UNCHANGED <<hist, subscribed, net, client, shown, counts>>

-----------------------------------------------------------------------------
\* Client queue.

RunPut(d) ==
    /\ QueueFree(d)
    /\ calls[d] # <<>> /\ Head(calls[d]) # Observe
    /\ LET p == Head(calls[d]) IN
       /\ puts' = [puts EXCEPT ![d] = Append(@, p)]
       /\ events' = [events EXCEPT ![d] = @ \o
             Changed(d, Overlay(cache[d], toAck[d] \o Append(puts[d], p)))]
       /\ up' = [up EXCEPT ![d] = IF conn[d] = "up" THEN Append(@, p) ELSE @]
    /\ calls' = [calls EXCEPT ![d] = Tail(@)]
    /\ UNCHANGED <<hist, subscribed, down, conn, listen, observers, synced,
                   cache, toAck, shown, counts>>

\* Only the first observer of the collection makes the client listen; a later
\* one is served from the cache.
RunObserve(d) ==
    /\ QueueFree(d)
    /\ calls[d] # <<>> /\ Head(calls[d]) = Observe
    /\ calls' = [calls EXCEPT ![d] = Tail(@)]
    /\ observers' = [observers EXCEPT ![d] = @ + 1]
    /\ listen' = [listen EXCEPT ![d] = IF @ = "none" THEN "waiting" ELSE @]
    /\ up' = [up EXCEPT ![d] = IF listen[d] = "none" /\ conn[d] = "up"
                               THEN Append(@, Listen) ELSE @]
    /\ events' = [events EXCEPT ![d] =
          IF synced[d] THEN Append(@, [kind |-> "value", snap |-> View(d)]) ELSE @]
    /\ UNCHANGED <<hist, subscribed, down, conn, synced, cache, puts, toAck,
                   shown, counts>>

Connect(d) ==
    /\ conn[d] = "down"
    /\ conn' = [conn EXCEPT ![d] = "up"]
    /\ up' = [up EXCEPT ![d] = Restored(d)]
    /\ UNCHANGED <<hist, subscribed, down, client, calls, events, shown, counts>>

Disconnect(d) ==
    /\ conn[d] = "up" /\ QueueFree(d) /\ drops[d] < MaxDrops
    /\ conn' = [conn EXCEPT ![d] = "down"]
    /\ up' = [up EXCEPT ![d] = <<>>]
    /\ down' = [down EXCEPT ![d] = <<>>]
    /\ subscribed' = [subscribed EXCEPT ![d] = FALSE]
    /\ listen' = [listen EXCEPT ![d] = IF @ = "none" THEN @ ELSE "waiting"]
    /\ drops' = [drops EXCEPT ![d] = @ + 1]
    /\ UNCHANGED <<hist, observers, synced, cache, puts, toAck, calls, events,
                   shown, issued, restarts, refusals, denials>>

\* Mutant: server messages are handled on a concurrent queue, in any order.
ReceiveDataUnordered(d) ==
    /\ QueueFree(d)
    /\ \E i \in DOMAIN down[d] :
          LET m    == down[d][i]
              view == Overlay(Received(d, m), toAck[d] \o puts[d])
          IN /\ m.op \in {"all", "update"}
             /\ cache' = [cache EXCEPT ![d] = Received(d, m)]
             /\ events' = [events EXCEPT ![d] = @ \o
                   IF synced[d] THEN Changed(d, view)
                   ELSE <<[kind |-> "value", snap |-> view]>>]
             /\ down' = [down EXCEPT ![d] =
                   SubSeq(@, 1, i - 1) \o SubSeq(@, i + 1, Len(@))]
    /\ synced' = [synced EXCEPT ![d] = TRUE]
    /\ UNCHANGED <<hist, subscribed, up, conn, listen, observers, puts, toAck,
                   calls, shown, counts>>

ReceiveData(d) ==
    /\ QueueFree(d)
    /\ down[d] # <<>> /\ Head(down[d]).op \in {"all", "update"}
    /\ LET new  == Received(d, Head(down[d]))
           view == Overlay(new, toAck[d] \o puts[d])
       IN /\ cache' = [cache EXCEPT ![d] = new]
          /\ events' = [events EXCEPT ![d] = @ \o
                IF synced[d] THEN Changed(d, view)
                ELSE <<[kind |-> "value", snap |-> view]>>]
    /\ synced' = [synced EXCEPT ![d] = TRUE]
    /\ down' = [down EXCEPT ![d] = Tail(@)]
    /\ UNCHANGED <<hist, subscribed, up, conn, listen, observers, puts, toAck,
                   calls, shown, counts>>

ReceiveListenOk(d) ==
    /\ QueueFree(d)
    /\ down[d] # <<>> /\ Head(down[d]).op = "listenOk"
    /\ listen' = [listen EXCEPT ![d] = "ok"]
    /\ down' = [down EXCEPT ![d] = Tail(@)]
    /\ UNCHANGED <<hist, subscribed, up, conn, observers, synced, cache, puts,
                   toAck, calls, events, shown, counts>>

\* The listen was refused, or is revoked: the listener goes, and with it every
\* observer and the cached collection.  No observer of the app has a cancel block,
\* so the screens are not told and keep what they show.
ReceiveDenial(d) ==
    /\ QueueFree(d)
    /\ down[d] # <<>> /\ Head(down[d]).op = "denied"
    /\ listen' = [listen EXCEPT ![d] = "none"]
    /\ observers' = [observers EXCEPT ![d] = 0]
    /\ synced' = [synced EXCEPT ![d] = FALSE]
    /\ cache' = [cache EXCEPT ![d] = [k \in Key |-> 0]]
    /\ down' = [down EXCEPT ![d] = Tail(@)]
    /\ UNCHANGED <<hist, subscribed, up, conn, puts, toAck, calls, events, shown, counts>>

\* The answer names its put; the write leaves the outstanding puts at once and
\* the write tree when AckPut runs.
ReceivePutDone(d) ==
    /\ QueueFree(d)
    /\ down[d] # <<>> /\ Head(down[d]).op = "putDone"
    /\ \E i \in DOMAIN puts[d] :
          /\ puts[d][i].id = Head(down[d]).id
          /\ puts' = [puts EXCEPT ![d] = Outstanding(d, i)]
          /\ toAck' = [toAck EXCEPT ![d] =
                Append(@, ToAck(puts[d][i], Head(down[d]).ok))]
    /\ down' = [down EXCEPT ![d] = Tail(@)]
    /\ UNCHANGED <<hist, subscribed, up, conn, listen, observers, synced, cache,
                   calls, events, shown, counts>>

\* The write leaves the write tree (accepted or not, the cache shows through)
\* and its completion block is posted.
AckPut(d) ==
    /\ toAck[d] # <<>> /\ listen[d] # "waiting"
    /\ LET p == Head(toAck[d]) IN
       events' = [events EXCEPT ![d] =
          (@ \o Changed(d, Overlay(cache[d], Tail(toAck[d]) \o puts[d])))
             \o <<[kind |-> "done", id |-> p.id, key |-> p.key, ok |-> p.ok]>>]
    /\ toAck' = [toAck EXCEPT ![d] = Tail(@)]
    /\ UNCHANGED <<hist, subscribed, net, listen, observers, synced, cache, puts,
                   calls, shown, counts>>

\* The process is killed and started again: persistence is not enabled, so the
\* cache and every write still pending are gone.
Restart(d) ==
    /\ restarts[d] < MaxRestarts
    /\ restarts' = [restarts EXCEPT ![d] = @ + 1]
    /\ subscribed' = [subscribed EXCEPT ![d] = FALSE]
    /\ up' = [up EXCEPT ![d] = <<>>]
    /\ down' = [down EXCEPT ![d] = <<>>]
    /\ conn' = [conn EXCEPT ![d] = "down"]
    /\ listen' = [listen EXCEPT ![d] = "none"]
    /\ observers' = [observers EXCEPT ![d] = 0]
    /\ synced' = [synced EXCEPT ![d] = FALSE]
    /\ cache' = [cache EXCEPT ![d] = [k \in Key |-> 0]]
    /\ puts' = [puts EXCEPT ![d] = <<>>]
    /\ toAck' = [toAck EXCEPT ![d] = <<>>]
    /\ calls' = [calls EXCEPT ![d] = <<>>]
    /\ events' = [events EXCEPT ![d] = <<>>]
    /\ shown' = [shown EXCEPT ![d] = NotLoaded]
    /\ UNCHANGED <<hist, issued, drops, refusals, denials>>

-----------------------------------------------------------------------------
\* The database (external): it serves each connection in order.

ServerListen(d) ==
    /\ up[d] # <<>> /\ Head(up[d]) = Listen
    /\ up' = [up EXCEPT ![d] = Tail(@)]
    /\ subscribed' = [subscribed EXCEPT ![d] = TRUE]
    /\ down' = [down EXCEPT ![d] = @ \o
          <<[op |-> "all", vers |-> [k \in Key |-> Len(hist[k])]], ListenOk>>]
    /\ UNCHANGED <<hist, conn, client, calls, events, shown, counts>>

\* An accepted write is sent to every listener, its writer included, before
\* the writer's answer.
ServerAccept(d) ==
    /\ up[d] # <<>> /\ Head(up[d]) # Listen
    /\ LET p    == Head(up[d])
           data == [op |-> "update", key |-> p.key, ver |-> Len(hist[p.key]) + 1]
           done == [op |-> "putDone", id |-> p.id, ok |-> TRUE]
       IN /\ hist' = [hist EXCEPT ![p.key] =
                Append(@, [by |-> d, id |-> p.id, val |-> p.val])]
          /\ down' = [e \in Device |->
                (IF subscribed[e] THEN Append(down[e], data) ELSE down[e])
                   \o (IF e = d THEN <<done>> ELSE <<>>)]
    /\ up' = [up EXCEPT ![d] = Tail(@)]
    /\ UNCHANGED <<subscribed, conn, client, calls, events, shown, counts>>

ServerReject(d) ==
    /\ up[d] # <<>> /\ Head(up[d]) # Listen
    /\ refusals[d] < MaxRefusals
    /\ refusals' = [refusals EXCEPT ![d] = @ + 1]
    /\ down' = [down EXCEPT ![d] =
          Append(@, [op |-> "putDone", id |-> Head(up[d]).id, ok |-> FALSE])]
    /\ up' = [up EXCEPT ![d] = Tail(@)]
    /\ UNCHANGED <<hist, subscribed, conn, client, calls, events, shown, issued,
                   drops, restarts, denials>>

\* A listen is refused, or an accepted one is revoked later.
ServerDeny(d) ==
    /\ denials[d] < MaxDenials
    /\ denials' = [denials EXCEPT ![d] = @ + 1]
    /\ \/ up[d] # <<>> /\ Head(up[d]) = Listen /\ up' = [up EXCEPT ![d] = Tail(@)]
       \/ subscribed[d] /\ UNCHANGED up
    /\ subscribed' = [subscribed EXCEPT ![d] = FALSE]
    /\ down' = [down EXCEPT ![d] = Append(@, Denied)]
    /\ UNCHANGED <<hist, conn, client, calls, events, shown, issued, drops, restarts, refusals>>

-----------------------------------------------------------------------------
\* What the queues and the database do by themselves.
Infrastructure(d) ==
    \/ HandleValue(d) \/ HandleDone(d)
    \/ RunPut(d) \/ RunObserve(d) \/ Connect(d)
    \/ ReceiveData(d) \/ ReceiveListenOk(d) \/ ReceiveDenial(d) \/ ReceivePutDone(d)
    \/ AckPut(d) \/ ServerListen(d) \/ ServerAccept(d) \/ ServerReject(d)

\* What happens to a device.
Mishap(d) == Disconnect(d) \/ Restart(d) \/ ServerDeny(d)

\* What goes on below the screens, for the modules that say what the screens do
\* with an event, a completion and a new process.
Below(d) ==
    \/ RetrieveAll(d) \/ RunPut(d) \/ RunObserve(d) \/ Connect(d) \/ Disconnect(d)
    \/ ReceiveData(d) \/ ReceiveListenOk(d) \/ ReceiveDenial(d) \/ ReceivePutDone(d)
    \/ AckPut(d) \/ ServerListen(d) \/ ServerAccept(d) \/ ServerReject(d) \/ ServerDeny(d)

\* The device has writes whose end it has not seen yet.
Busy(d) == calls[d] # <<>> \/ puts[d] # <<>> \/ toAck[d] # <<>>

\* The collection as it will be once the writes of d have arrived.
Expected(d) ==
    LET w     == toAck[d] \o puts[d] \o calls[d]
        To(k) == {i \in DOMAIN w : w[i].op = "put" /\ w[i].key = k}
    IN  [k \in Key |->
            IF To(k) = {} THEN Stored(k, Len(hist[k]))
            ELSE w[CHOOSE i \in To(k) : \A j \in To(k) : j <= i].val]

Next ==
    \E d \in Device :
        \/ \E k \in Key, v \in Value : SetValue(d, k, v)
        \/ RetrieveAll(d)
        \/ Infrastructure(d)
        \/ Mishap(d)

Spec == Init /\ [][Next]_vars

\* Serial queues, the main loop, the retrying connection and the database all
\* keep going; nothing is assumed of the user, of failures, rejections or denials.
Fairness ==
    \A d \in Device :
        /\ WF_vars(HandleValue(d) \/ HandleDone(d))
        /\ WF_vars(RunPut(d) \/ RunObserve(d))
        /\ WF_vars(Connect(d))
        /\ WF_vars(\/ ReceiveData(d) \/ ReceiveListenOk(d) \/ ReceiveDenial(d)
                  \/ ReceivePutDone(d))
        /\ WF_vars(AckPut(d))
        /\ WF_vars(ServerListen(d) \/ ServerAccept(d) \/ ServerReject(d))

FairSpec == Spec /\ Fairness
-----------------------------------------------------------------------------
\* Properties

\* Every queue, channel and counter holds what the code can put there.
TypeOK ==
    /\ hist \in [Key -> Seq(Write)]
    /\ subscribed \in [Device -> BOOLEAN]
    /\ up \in [Device -> Seq({Listen} \cup Put)]
    /\ down \in [Device -> Seq({ListenOk, Denied} \cup All \cup Update \cup PutDone)]
    /\ conn \in [Device -> {"up", "down"}]
    /\ listen \in [Device -> {"none", "waiting", "ok"}]
    /\ observers \in [Device -> Nat]
    /\ synced \in [Device -> BOOLEAN]
    /\ cache \in [Device -> [Key -> Nat]]
    /\ puts \in [Device -> Seq(Put)]
    /\ toAck \in [Device -> Seq(Answered)]
    /\ calls \in [Device -> Seq({Observe} \cup Put)]
    /\ events \in [Device -> Seq(ValueEv \cup DoneEv)]
    /\ shown \in [Device -> Snapshot \cup {NotLoaded}]
    /\ issued \in [Device -> 0..MaxWrites]
    /\ drops \in [Device -> Nat]
    /\ restarts \in [Device -> Nat]
    /\ refusals \in [Device -> Nat]
    /\ denials \in [Device -> Nat]

\* Through lost connections, resent writes, refused writes and restarts the
\* caches move along one history per record and never back: no device ever
\* sees an older record replace a newer one that the database sent it.
Records == INSTANCE VersionedRecords WITH seen <- cache
ImplementsRecords == Records!Spec

\* The versions on their way to a device continue what it has: each data
\* message is at least as new as the cache and as the messages before it, and
\* none is ahead of the database (the connection delivers in order, and a new
\* connection starts with the whole collection).
Carries(m, k)   == m.op = "all" \/ (m.op = "update" /\ m.key = k)
VersionIn(m, k) == IF m.op = "all" THEN m.vers[k] ELSE m.ver

InOrder(k, old, s, new) ==
    LET Data == {i \in DOMAIN s : Carries(s[i], k)} IN
    /\ old <= new
    /\ \A i \in Data : old <= VersionIn(s[i], k) /\ VersionIn(s[i], k) <= new
    /\ \A i, j \in Data : i < j => VersionIn(s[i], k) <= VersionIn(s[j], k)

VersionsOrdered ==
    \A d \in Device, k \in Key : InOrder(k, cache[d][k], down[d], Len(hist[k]))

\* A success block (addPosts' withCompletion with err == nil) never runs on a
\* synced device before the database's own echo of that write is in the
\* cache: the screens that re-read on success re-read a state with the write.
AckedWriteCached ==
    \A d \in Device : \A i \in DOMAIN events[d] :
        LET e == events[d][i] IN
        e.kind = "done" /\ e.ok /\ synced[d] =>
            \E n \in 1..cache[d][e.key] :
                hist[e.key][n].by = d /\ hist[e.key][n].id = e.id

\* Completion blocks run in the order of the setValue calls, each write has at
\* most one, and a write is never in two places at once, however often the
\* connection made the client send it again.  The writes carry a number, the
\* calls of observe and the values between them do not.
Numbered(s) == {i \in DOMAIN s : "id" \in DOMAIN s[i]}
Ascending(s) == \A i, j \in Numbered(s) : i < j => s[i].id < s[j].id

Pipeline(d) == events[d] \o toAck[d] \o puts[d] \o calls[d]

CompletionsInOrder == \A d \in Device : Ascending(Pipeline(d))

\* Resending after a lost connection may apply an old write again, but once
\* nothing is outstanding the device's newest accepted write is the one of its
\* writes that the record ends with (as long as its process lived and none of its
\* writes was refused: a kill between two resends can leave the older one).
NewestWins ==
    \A d \in Device, k \in Key :
        restarts[d] = 0 /\ refusals[d] = 0 /\ WritesTo(k, puts[d]) = {} =>
            \A n \in DOMAIN hist[k] :
                (hist[k][n].by = d /\ \A m \in DOMAIN hist[k] : m > n => hist[k][m].by # d)
                   => \A m \in 1..n : hist[k][m].by = d => hist[k][m].id <= hist[k][n].id

\* When nothing is on its way to or from a listening device, the snapshot its
\* screens were given last is what the database holds: a refused write, a lost
\* answer or a missed update leaves nothing behind.
Settled(d) ==
    /\ observers[d] > 0 /\ conn[d] = "up" /\ up[d] = <<>> /\ down[d] = <<>>
    /\ puts[d] = <<>> /\ toAck[d] = <<>> /\ calls[d] = <<>> /\ events[d] = <<>>

SettledAgree == \A d \in Device : Settled(d) => shown[d] = Server

\* Once the writes and the failures stop, every screen that listens ends up
\* with the database's records for good.
Converges == \A d \in Device : <>[](observers[d] > 0 => shown[d] = Server)

\* No write waits for ever: it is answered, whatever the connection does.
WritesEnd == \A d \in Device : (puts[d] # <<>>) ~> (puts[d] = <<>> /\ toAck[d] = <<>>)
=============================================================================
