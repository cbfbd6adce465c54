------------------------- MODULE WriteQueue_proofs -------------------------
(***************************************************************************)
(* Proofs about the write path, for any threads, calls, limits and I/O     *)
(* errors.                                                                 *)
(*                                                                         *)
(* Each action is first shown to be one of six effects, which say no more  *)
(* of a step than the invariant needs: a Turn of a thread that writes      *)
(* nothing, a call Entered, a group built, written (Logs), published and   *)
(* finished, and what happens Apart from the writers. The invariant is     *)
(* then shown through each effect, a part at a time.                       *)
(*                                                                         *)
(* WritesKept and FailsAfterError are not inductive: that the status a     *)
(* leader hands out is right for a member needs to know what the group is. *)
(* Lined says who is in the queue and that the first leads, Grouped what a *)
(* group may hold, Gathered that its batches are those of the queue up to  *)
(* its last writer, each once, Written what the log has of the queue's     *)
(* calls before and after the leader wrote, and Numbered how the numbers   *)
(* and what was applied follow the log.                                    *)
(***************************************************************************)
EXTENDS WriteQueue, TLAPS, WellFoundedInduction, SequenceTheorems, FiniteSetTheorems

-----------------------------------------------------------------------------
(* What Members picks *)

\* Every property of natural numbers that one has, a least one has: the
\* smallest member of a set.
LEMMA Least ==
    ASSUME NEW T, T \subseteq Nat, T # {}
    PROVE  \E m \in T : \A t \in T : m <= t
<1>1. PICK m \in T : \A t \in T : ~ (<<t, m>> \in OpToRel(<, Nat))
  BY NatLessThanWellFounded, WFMin
<1>2. \A t \in T : ~ (t < m)
  BY <1>1 DEF OpToRel
<1> QED
  BY <1>2

\* What Members adds up.
Collects(f, s, W, n) ==
    f = [k \in 0..n |->
           IF k = 0 THEN <<>>
           ELSE IF s[k] \in W THEN Append(f[k - 1], s[k]) ELSE f[k - 1]]

\* The function that Members is defined by exists, for every sequence and set.
LEMMA CollectsExists ==
    ASSUME NEW s, NEW W, NEW n \in Nat
    PROVE  \E f : Collects(f, s, W, n)
<1> DEFINE T == {m \in Nat : ~ \E f : Collects(f, s, W, m)}
<1> SUFFICES ASSUME T # {} PROVE FALSE
  OBVIOUS
<1>1. PICK m \in T : \A t \in T : m <= t
  <2> HIDE DEF T
  <2>1. T \subseteq Nat
    BY DEF T
  <2> QED BY <2>1, Least
<1>2. CASE m = 0
  <2> DEFINE f == [k \in 0..0 |-> <<>>]
  <2>1. Collects(f, s, W, 0)
    BY DEF Collects
  <2> QED BY <2>1, <1>1, <1>2
<1>3. CASE m > 0
  <2>1. m - 1 \in Nat /\ m - 1 \notin T
    BY <1>1, <1>3
  <2>2. PICK f : Collects(f, s, W, m - 1)
    BY <2>1
  <2> DEFINE v == IF s[m] \in W THEN Append(f[m - 1], s[m]) ELSE f[m - 1]
             g == [k \in 0..m |-> IF k = m THEN v ELSE f[k]]
  <2> HIDE DEF v
  <2>3. ASSUME NEW k \in 0..m
        PROVE  g[k] = IF k = 0 THEN <<>>
                      ELSE IF s[k] \in W THEN Append(g[k - 1], s[k]) ELSE g[k - 1]
    <3>1. CASE k = m
      <4>1. g[k - 1] = f[m - 1]
        BY <1>3, <3>1
      <4> QED BY <4>1, <3>1, <1>3 DEF v
    <3>2. CASE k < m
      <4>1. k \in 0..(m - 1)
        BY <3>2
      <4>2. f[k] = IF k = 0 THEN <<>>
                   ELSE IF s[k] \in W THEN Append(f[k - 1], s[k]) ELSE f[k - 1]
        BY <2>2, <4>1 DEF Collects
      <4>3. k # 0 => g[k - 1] = f[k - 1]
        BY <3>2
      <4>4. g[k] = f[k]
        BY <3>2
      <4> HIDE DEF g
      <4> QED BY <4>2, <4>3, <4>4
    <3> QED BY <3>1, <3>2
  <2>4. Collects(g, s, W, m)
    <3>1. g = [k \in 0..m |-> g[k]]
      OBVIOUS
    <3> HIDE DEF g
    <3> QED BY <3>1, <2>3 DEF Collects
  <2> QED BY <2>4, <1>1
<1> QED
  BY <1>1, <1>2, <1>3

\* ... and Members is its last value.
LEMMA MembersAre ==
    ASSUME NEW s, Len(s) \in Nat, NEW W
    PROVE  \E f : Collects(f, s, W, Len(s)) /\ Members(s, W) = f[Len(s)]
<1> DEFINE f == CHOOSE f : Collects(f, s, W, Len(s))
<1>1. Collects(f, s, W, Len(s))
  BY CollectsExists
<1>2. Members(s, W) = f[Len(s)]
  BY DEF Members, Collects
<1> QED
  BY <1>1, <1>2

\* What Members picks, and that it picks nothing twice.
LEMMA MembersOf ==
    ASSUME NEW T, NEW s \in Seq(T), NEW W
    PROVE  /\ Members(s, W) \in Seq(T)
           /\ \A i \in DOMAIN s : s[i] \in W =>
                \E j \in DOMAIN Members(s, W) : Members(s, W)[j] = s[i]
           /\ \A j \in DOMAIN Members(s, W) :
                \E i \in DOMAIN s : Members(s, W)[j] = s[i] /\ s[i] \in W
           /\ (\A i, j \in DOMAIN s : s[i] = s[j] => i = j) =>
                \A i, j \in DOMAIN Members(s, W) :
                   Members(s, W)[i] = Members(s, W)[j] => i = j
<1>1. PICK f : Collects(f, s, W, Len(s)) /\ Members(s, W) = f[Len(s)]
  BY MembersAre
<1> DEFINE Good(n) ==
      /\ f[n] \in Seq(T)
      /\ \A i \in 1..n : s[i] \in W => \E j \in DOMAIN f[n] : f[n][j] = s[i]
      /\ \A j \in DOMAIN f[n] : \E i \in 1..n : f[n][j] = s[i] /\ s[i] \in W
      /\ (\A i, j \in DOMAIN s : s[i] = s[j] => i = j) =>
           \A i, j \in DOMAIN f[n] : f[n][i] = f[n][j] => i = j
<1>2. \A n \in 0..Len(s) : Good(n)
  <2> DEFINE B == {n \in 0..Len(s) : ~ Good(n)}
  <2> SUFFICES ASSUME B # {} PROVE FALSE
    OBVIOUS
  <2>1. PICK m \in B : \A t \in B : m <= t
    <3>1. B \subseteq Nat
      OBVIOUS
    <3> HIDE DEF B
    <3> QED BY <3>1, Least
  <2>2. f[m] = IF m = 0 THEN <<>>
               ELSE IF s[m] \in W THEN Append(f[m - 1], s[m]) ELSE f[m - 1]
    BY <2>1, <1>1 DEF Collects
  <2>a. m \in 0..Len(s) /\ ~ Good(m) /\ \A t \in 0..Len(s) : t < m => Good(t)
    <3> HIDE DEF Good
    <3> QED BY <2>1
  <2>b. Len(s) \in Nat /\ DOMAIN s = 1..Len(s) /\ \A i \in 1..Len(s) : s[i] \in T
    OBVIOUS
  <2>3. CASE m = 0
    <3>1. f[0] = <<>>
      BY <2>2, <2>3
    <3>2. f[0] \in Seq(T) /\ DOMAIN f[0] = {} /\ 1..0 = {}
      BY <3>1
    <3>3. Good(0)
      BY <3>2
    <3> HIDE DEF Good
    <3> QED BY <2>a, <2>3, <3>3
  <2>4. CASE m > 0
    <3>1. m - 1 \in 0..Len(s) /\ m \in 1..Len(s) /\ Good(m - 1)
      <4> HIDE DEF Good
      <4> QED BY <2>a, <2>b, <2>4
    <3> DEFINE g == f[m - 1]
    <3>2. /\ g \in Seq(T)
          /\ \A i \in 1..(m - 1) : s[i] \in W => \E j \in DOMAIN g : g[j] = s[i]
          /\ \A j \in DOMAIN g : \E i \in 1..(m - 1) : g[j] = s[i] /\ s[i] \in W
          /\ (\A i, j \in DOMAIN s : s[i] = s[j] => i = j) =>
               \A i, j \in DOMAIN g : g[i] = g[j] => i = j
      BY <3>1
    <3>3. CASE s[m] \in W
      <4> DEFINE h == Append(g, s[m])
      <4>1. f[m] = h
        BY <2>2, <2>4, <3>3
      <4> HIDE DEF g
      <4>2. /\ h \in Seq(T) /\ Len(h) = Len(g) + 1
            /\ \A j \in 1..Len(g) : h[j] = g[j]
            /\ h[Len(g) + 1] = s[m]
        BY <3>1, <3>2
      <4> HIDE DEF h
      <4>a. /\ DOMAIN g = 1..Len(g) /\ DOMAIN h = 1..(Len(g) + 1) /\ Len(g) \in Nat
            /\ m \in Nat
        BY <3>2, <4>2, <2>a, <2>b
      <4>3. ASSUME NEW i \in 1..m, s[i] \in W
            PROVE  \E j \in DOMAIN h : h[j] = s[i]
        <5>1. CASE i = m
          BY <4>2, <4>a, <5>1
        <5>2. CASE i \in 1..(m - 1)
          <6>1. PICK j \in DOMAIN g : g[j] = s[i]
            BY <3>2, <5>2, <4>3
          <6> QED BY <6>1, <4>2, <4>a
        <5> QED BY <5>1, <5>2, <4>a
      <4>4. ASSUME NEW j \in DOMAIN h
            PROVE  \E i \in 1..m : h[j] = s[i] /\ s[i] \in W
        <5>1. CASE j = Len(g) + 1
          BY <4>2, <4>a, <5>1, <3>3, <3>1
        <5>2. CASE j \in 1..Len(g)
          <6>1. PICK i \in 1..(m - 1) : g[j] = s[i] /\ s[i] \in W
            BY <3>2, <5>2, <4>a
          <6> QED BY <6>1, <4>2, <4>a, <5>2
        <5> QED BY <5>1, <5>2, <4>a
      <4>5. (\A i, j \in DOMAIN s : s[i] = s[j] => i = j) =>
              \A i, j \in DOMAIN h : h[i] = h[j] => i = j
        <5> SUFFICES ASSUME \A i, j \in DOMAIN s : s[i] = s[j] => i = j,
                            NEW i \in DOMAIN h, NEW j \in DOMAIN h, h[i] = h[j]
                     PROVE  i = j
          OBVIOUS
        <5>1. ASSUME NEW k \in 1..Len(g) PROVE g[k] # s[m]
          <6>1. PICK l \in 1..(m - 1) : g[k] = s[l]
            BY <3>2, <4>a
          <6>2. l \in DOMAIN s /\ m \in DOMAIN s /\ l # m
            BY <3>1, <2>b
          <6> QED BY <6>1, <6>2
        <5>2. \A k, l \in 1..Len(g) : g[k] = g[l] => k = l
          BY <3>2, <4>a
        <5>3. CASE i \in 1..Len(g) /\ j \in 1..Len(g)
          BY <5>2, <5>3, <4>2
        <5>4. CASE i = Len(g) + 1 \/ j = Len(g) + 1
          BY <5>1, <5>4, <4>2, <4>a
        <5> QED BY <5>3, <5>4, <4>a
      <4>6. Good(m)
        BY <4>1, <4>2, <4>3, <4>4, <4>5
      <4> HIDE DEF Good
      <4> QED BY <4>6, <2>a
    <3>4. CASE s[m] \notin W
      <4>1. f[m] = g
        BY <2>2, <2>4, <3>4
      <4> HIDE DEF g
      <4>2. \A i \in 1..m : s[i] \in W => \E j \in DOMAIN g : g[j] = s[i]
        BY <3>1, <3>2, <3>4
      <4>3. \A j \in DOMAIN g : \E i \in 1..m : g[j] = s[i] /\ s[i] \in W
        BY <3>1, <3>2, <3>4
      <4>4. Good(m)
        BY <4>1, <4>2, <4>3, <3>2
      <4> HIDE DEF Good
      <4> QED BY <4>4, <2>a
    <3> QED BY <3>3, <3>4
  <2> QED BY <2>1, <2>3, <2>4
<1>3. Good(Len(s)) /\ DOMAIN s = 1..Len(s)
  <2>1. DOMAIN s = 1..Len(s) /\ Len(s) \in 0..Len(s)
    OBVIOUS
  <2> HIDE DEF Good
  <2> QED BY <1>2, <2>1
<1> QED
  BY <1>1, <1>3

-----------------------------------------------------------------------------
(* Steps of one thread *)

\* Where a thread may be.
Positions == {"out", "check", "cv", "wake", "room", "sleep", "slept", "bgwait",
              "bgwake", "group", "logging", "relock", "finish", "await", "awaiting"}

\* Where a thread stands when it leads the queue, and when it is in the queue at all.
Leading == {"room", "sleep", "slept", "bgwait", "bgwake", "group", "logging", "relock", "finish"}
Lining == Leading \cup {"check", "cv", "wake"}

\* ... and where it is committing a group.
Committing == {"logging", "relock", "finish"}

\* What the state is made of; the memtable being built is there.
QueueTypeOK ==
  /\ holder \in Threads \cup {None}
  /\ queue \in Seq(Threads)
  /\ th \in [Threads -> Writer]
  /\ mem \in Seq(Entry) /\ imm \in Seq(Entry) \cup {None} /\ flushed \in Seq(Entry)
  /\ logged \in Seq(Entry)
  /\ level0 \in Nat /\ synced \in Nat /\ lastSequence \in Nat /\ bgError \in BOOLEAN
  /\ bg = "building" => imm # None

\* What v and w have in common when only the place and the status may differ.
Alike(v, w) ==
  /\ v.call = w.call /\ v.req = w.req /\ v.done = w.done /\ v.last = w.last
  /\ v.group = w.group /\ v.syncError = w.syncError /\ v.late = w.late

\* A step that takes t to p with status o, and leaves the other threads alone.
Moved(t, p, o) ==
  /\ th' \in [Threads -> Writer]
  /\ th'[t].pc = p /\ th'[t].ok = o /\ Alike(th'[t], th[t])
  /\ \A u \in Threads \ {t} : th'[u] = th[u]

\* Changes of a writer's record.
LEMMA WriterMoves ==
    ASSUME NEW w \in Writer, NEW p \in Positions
    PROVE  /\ [w EXCEPT !.pc = p] \in Writer
           /\ [w EXCEPT !.pc = p].pc = p /\ [w EXCEPT !.pc = p].ok = w.ok
           /\ Alike([w EXCEPT !.pc = p], w)
BY DEF Writer, Positions, Alike

\* ... with the delay that a write may take once,
LEMMA WriterDelays ==
    ASSUME NEW w \in Writer, NEW p \in Positions, NEW d \in BOOLEAN
    PROVE  LET v == [w EXCEPT !.pc = p, !.delay = d]
           IN  v \in Writer /\ v.pc = p /\ v.ok = w.ok /\ Alike(v, w)
BY DEF Writer, Positions, Alike

\* ... and with the switch that a flush forces.
LEMMA WriterForces ==
    ASSUME NEW w \in Writer, NEW f \in BOOLEAN
    PROVE  LET v == [w EXCEPT !.force = f]
           IN  v \in Writer /\ v.pc = w.pc /\ v.ok = w.ok /\ Alike(v, w)
BY DEF Writer, Alike

\* The same of a step of t.
LEMMA MovedTo ==
    ASSUME th \in [Threads -> Writer], NEW t \in Threads, NEW v \in Writer,
           th' = [th EXCEPT ![t] = v], Alike(v, th[t])
    PROVE  Moved(t, v.pc, v.ok)
BY DEF Moved

\* ... when only its place changes,
LEMMA GoMoves ==
    ASSUME th \in [Threads -> Writer], NEW t \in Threads, NEW p \in Positions, Go(t, p)
    PROVE  Moved(t, p, th[t].ok)
<1> DEFINE v == [th[t] EXCEPT !.pc = p]
<1>1. v \in Writer /\ v.pc = p /\ v.ok = th[t].ok /\ Alike(v, th[t])
  BY WriterMoves
<1>2. th' = [th EXCEPT ![t] = v]
  BY DEF Go
<1> HIDE DEF v
<1> QED
  BY <1>1, <1>2, MovedTo

\* ... its place and its status,
LEMMA EndMoves ==
    ASSUME th \in [Threads -> Writer], NEW t \in Threads, NEW p \in Positions, NEW o \in BOOLEAN,
           th' = [th EXCEPT ![t].pc = p, ![t].ok = o]
    PROVE  Moved(t, p, o)
<1> DEFINE v == [th[t] EXCEPT !.pc = p, !.ok = o]
<1>1. v \in Writer /\ v.pc = p /\ v.ok = o /\ Alike(v, th[t])
  <2>1. PICK w \in Writer : w = th[t]
    OBVIOUS
  <2> QED BY <2>1 DEF Writer, Positions, Alike
<1>2. th' = [th EXCEPT ![t] = v]
  OBVIOUS
<1> HIDE DEF v
<1> QED
  BY <1>1, <1>2, MovedTo

\* ... its place and its delay,
LEMMA DelayMoves ==
    ASSUME th \in [Threads -> Writer], NEW t \in Threads, NEW p \in Positions, NEW d \in BOOLEAN,
           th' = [th EXCEPT ![t].pc = p, ![t].delay = d]
    PROVE  Moved(t, p, th[t].ok)
<1> DEFINE v == [th[t] EXCEPT !.pc = p, !.delay = d]
<1>1. v \in Writer /\ v.pc = p /\ v.ok = th[t].ok /\ Alike(v, th[t])
  BY WriterDelays
<1>2. th' = [th EXCEPT ![t] = v]
  OBVIOUS
<1> HIDE DEF v
<1> QED
  BY <1>1, <1>2, MovedTo

\* ... the forced switch,
LEMMA ForceMoves ==
    ASSUME th \in [Threads -> Writer], NEW t \in Threads, NEW f \in BOOLEAN,
           th' = [th EXCEPT ![t].force = f]
    PROVE  Moved(t, th[t].pc, th[t].ok)
<1> DEFINE v == [th[t] EXCEPT !.force = f]
<1>1. v \in Writer /\ v.pc = th[t].pc /\ v.ok = th[t].ok /\ Alike(v, th[t])
  BY WriterForces
<1>2. th' = [th EXCEPT ![t] = v]
  OBVIOUS
<1> HIDE DEF v
<1> QED
  BY <1>1, <1>2, MovedTo

\* ... or all that the head of the queue begins with.
LEMMA BeginMoves ==
    ASSUME th \in [Threads -> Writer], NEW t \in Threads, NEW p \in Positions,
           NEW f \in BOOLEAN, NEW d \in BOOLEAN,
           th' = [th EXCEPT ![t].pc = p, ![t].force = f, ![t].delay = d]
    PROVE  Moved(t, p, th[t].ok)
<1> DEFINE v == [th[t] EXCEPT !.pc = p, !.force = f, !.delay = d]
<1>1. v \in Writer /\ v.pc = p /\ v.ok = th[t].ok /\ Alike(v, th[t])
  <2>1. PICK w \in Writer : w = th[t]
    OBVIOUS
  <2> DEFINE x == [w EXCEPT !.pc = p]
             y == [x EXCEPT !.force = f]
             z == [y EXCEPT !.delay = d]
  <2>2. x \in Writer /\ x.pc = p /\ x.ok = w.ok /\ Alike(x, w)
    BY WriterMoves
  <2> HIDE DEF x
  <2>3. y \in Writer /\ y.pc = x.pc /\ y.ok = x.ok /\ Alike(y, x)
    BY <2>2, WriterForces
  <2> HIDE DEF y
  <2>4. z \in Writer /\ z.pc = y.pc /\ z.ok = y.ok /\ Alike(z, y)
    BY <2>3 DEF Writer, Alike
  <2>5. v = z
    BY <2>1 DEF x, y
  <2> HIDE DEF z
  <2> QED BY <2>1, <2>2, <2>3, <2>4, <2>5 DEF Alike
<1>2. th' = [th EXCEPT ![t] = v]
  OBVIOUS
<1> HIDE DEF v
<1> QED
  BY <1>1, <1>2, MovedTo

\* SignalAll only wakes threads that wait for the background thread.
Roused(v, w) ==
  /\ Alike(v, w) /\ v.ok = w.ok
  /\ \/ v.pc = w.pc
     \/ w.pc = "bgwait" /\ v.pc = "bgwake"
     \/ w.pc = "awaiting" /\ v.pc = "await"

\* Nothing else changes in SignalAll.
LEMMA SignalAllRouses ==
    ASSUME NEW f \in [Threads -> Writer]
    PROVE  /\ SignalAll(f) \in [Threads -> Writer]
           /\ \A u \in Threads : Roused(SignalAll(f)[u], f[u])
<1>1. ASSUME NEW u \in Threads
      PROVE  SignalAll(f)[u] \in Writer /\ Roused(SignalAll(f)[u], f[u])
  <2>1. f[u] \in Writer
    OBVIOUS
  <2>2. CASE f[u].pc = "bgwait"
    <3>1. SignalAll(f)[u] = [f[u] EXCEPT !.pc = "bgwake"]
      BY <2>2 DEF SignalAll
    <3>2. "bgwake" \in Positions
      BY DEF Positions
    <3> QED BY <2>1, <2>2, <3>1, <3>2, WriterMoves DEF Roused
  <2>3. CASE f[u].pc = "awaiting"
    <3>1. SignalAll(f)[u] = [f[u] EXCEPT !.pc = "await"]
      BY <2>3 DEF SignalAll
    <3>2. "await" \in Positions
      BY DEF Positions
    <3> QED BY <2>1, <2>3, <3>1, <3>2, WriterMoves DEF Roused
  <2>4. CASE f[u].pc # "bgwait" /\ f[u].pc # "awaiting"
    <3>1. SignalAll(f)[u] = f[u]
      BY <2>4 DEF SignalAll
    <3> QED BY <2>1, <3>1 DEF Roused, Alike
  <2> QED BY <2>2, <2>3, <2>4
<1>2. SignalAll(f) = [u \in Threads |-> SignalAll(f)[u]]
  BY DEF SignalAll
<1> QED
  BY <1>1, <1>2

-----------------------------------------------------------------------------
(* Turns that write nothing *)

\* A turn of t that neither logs nor leads a group: what it does to the rest.
Quiet ==
  /\ UNCHANGED <<queue, logVars>>
  /\ Applied' = Applied

\* What a step of t that writes nothing may do: t comes to p with status o.
Turn(t, p, o) ==
  /\ Moved(t, p, o) /\ Quiet /\ UNCHANGED bgError
  /\ \/ /\ At(t, "check") /\ th[t].done /\ p = Returned(t) /\ o = th[t].ok
        /\ holder = t /\ holder' = None
     \/ /\ At(t, "check") /\ ~ th[t].done /\ queue[1] = t /\ p = "room" /\ o = th[t].ok
        /\ holder = t /\ holder' = t
     \/ /\ At(t, "check") /\ ~ th[t].done /\ p = "cv" /\ o = th[t].ok
        /\ holder = t /\ holder' = None
     \/ /\ \/ At(t, "wake") /\ p = "check"
           \/ At(t, "slept") /\ p = "room"
           \/ At(t, "bgwake") /\ p = "room"
        /\ o = th[t].ok /\ holder = None /\ holder' = t
     \/ At(t, "sleep") /\ p = "slept" /\ o = th[t].ok /\ holder' = holder
     \/ /\ At(t, "room") /\ holder = t
        /\ \/ p = "finish" /\ ~ o /\ holder' = t
           \/ p \in {"sleep", "bgwait"} /\ o = th[t].ok /\ holder' = None
           \/ /\ ~ bgError /\ p = IF th[t].req.batch THEN "group" ELSE "finish"
              /\ o = th[t].ok /\ holder' = t
           \/ p = "room" /\ o = th[t].ok /\ holder' = t
     \/ /\ At(t, "await") /\ holder = None /\ holder' = None
        /\ p \in {"awaiting", "out"}


\* A switch of memtables and the commit of one move batches, and change none.
LEMMA SameApplied ==
    ASSUME QueueTypeOK,
           \/ UNCHANGED <<mem, imm, flushed>>
           \/ imm = None /\ imm' = mem /\ mem' = <<>> /\ flushed' = flushed
           \/ imm # None /\ imm' = None /\ mem' = mem /\ flushed' = flushed \o imm
    PROVE  Applied' = Applied
<1>1. CASE UNCHANGED <<mem, imm, flushed>>
  BY <1>1 DEF Applied, Immutable
<1>2. CASE imm = None /\ imm' = mem /\ mem' = <<>> /\ flushed' = flushed
  <2>1. mem # None /\ flushed \in Seq(Entry) /\ mem \in Seq(Entry)
    BY WriteQueueAssumption DEF QueueTypeOK
  <2>2. Applied' = (flushed \o mem) \o <<>> /\ Applied = (flushed \o <<>>) \o mem
    BY <1>2, <2>1 DEF Applied, Immutable
  <2>3. flushed \o <<>> = flushed /\ (flushed \o mem) \o <<>> = flushed \o mem
    BY <2>1
  <2> QED BY <2>2, <2>3
<1>3. CASE imm # None /\ imm' = None /\ mem' = mem /\ flushed' = flushed \o imm
  <2>1. flushed \in Seq(Entry) /\ imm \in Seq(Entry)
    BY <1>3 DEF QueueTypeOK
  <2>2. Applied' = ((flushed \o imm) \o <<>>) \o mem /\ Applied = (flushed \o imm) \o mem
    BY <1>3 DEF Applied, Immutable
  <2>3. (flushed \o imm) \o <<>> = flushed \o imm
    BY <2>1
  <2> QED BY <2>2, <2>3
<1> QED
  BY <1>1, <1>2, <1>3

\* The types at the start.
LEMMA InitType == Init => QueueTypeOK
<1> SUFFICES ASSUME Init PROVE QueueTypeOK
  OBVIOUS
<1>1. th \in [Threads -> Writer]
  <2>1. CASE Threads = {}
    BY <2>1 DEF Init
  <2>2. CASE Threads # {}
    <3>1. (CHOOSE t \in Threads : TRUE) \in Threads
      BY <2>2
    <3>2. 0 \in 0..Calls /\ <<>> \in Seq(Threads) /\ {} \in SUBSET (Threads \X Nat)
      BY WriteQueueAssumption
    <3> DEFINE w == [pc |-> "out", call |-> 0,
                 req |-> [batch |-> TRUE, sync |-> FALSE],
                 done |-> FALSE, ok |-> TRUE, force |-> FALSE, delay |-> FALSE,
                 last |-> CHOOSE t \in Threads : TRUE, group |-> <<>>,
                 syncError |-> FALSE, before |-> {}, late |-> FALSE]
    <3>3. w \in Writer
      BY <3>1, <3>2 DEF Writer, Request
    <3>4. th \in [Threads -> {w}]
      BY DEF Init
    <3> HIDE DEF w
    <3> QED BY <3>3, <3>4
  <2> QED BY <2>1, <2>2
<1>2. <<>> \in Seq(Entry) /\ <<>> \in Seq(Threads)
  OBVIOUS
<1> QED
  BY <1>1, <1>2 DEF Init, QueueTypeOK

\* A thread that looks at the queue.
LEMMA CheckTurnTurns ==
    ASSUME QueueTypeOK, NEW t \in Threads, CheckTurn(t)
    PROVE  QueueTypeOK' /\ \E p \in Positions, o \in BOOLEAN : Turn(t, p, o)
<1>1. /\ At(t, "check") /\ holder = t /\ Quiet /\ UNCHANGED <<bgError, memVars, logVars, queue, bg>>
  BY SameApplied DEF CheckTurn, Holds, Quiet, memVars
<1>2. th \in [Threads -> Writer] /\ th[t].ok \in BOOLEAN /\ th[t].req \in Request
  BY DEF QueueTypeOK, Writer
<1>3. CASE th[t].done /\ Go(t, Returned(t)) /\ holder' = None
  <2>1. Returned(t) \in Positions
    BY DEF Returned, Positions
  <2>2. Moved(t, Returned(t), th[t].ok)
    BY <1>2, <1>3, <2>1, GoMoves
  <2>3. Turn(t, Returned(t), th[t].ok)
    BY <1>1, <1>3, <2>2 DEF Turn
  <2>4. QueueTypeOK'
    BY <1>1, <1>3, <2>2 DEF QueueTypeOK, memVars, logVars, Moved
  <2> QED BY <2>1, <2>3, <2>4, <1>2
<1>4. CASE /\ ~th[t].done /\ queue[1] = t
           /\ th' = [th EXCEPT ![t].pc = "room", ![t].force = ~th[t].req.batch,
                               ![t].delay = th[t].req.batch]
           /\ UNCHANGED holder
  <2>1. "room" \in Positions /\ th[t].req.batch \in BOOLEAN
    BY <1>2 DEF Positions, Request
  <2>2. Moved(t, "room", th[t].ok)
    BY <1>2, <1>4, <2>1, BeginMoves
  <2>3. Turn(t, "room", th[t].ok)
    BY <1>1, <1>4, <2>2 DEF Turn
  <2>4. QueueTypeOK'
    BY <1>1, <1>4, <2>2 DEF QueueTypeOK, memVars, logVars, Moved
  <2> QED BY <2>1, <2>3, <2>4, <1>2
<1>5. CASE ~th[t].done /\ queue[1] # t /\ WaitTurn(t)
  <2>1. "cv" \in Positions
    BY DEF Positions
  <2>2. Moved(t, "cv", th[t].ok) /\ holder' = None
    BY <1>2, <1>5, <2>1, GoMoves DEF WaitTurn
  <2>3. Turn(t, "cv", th[t].ok)
    BY <1>1, <1>5, <2>2 DEF Turn
  <2>4. QueueTypeOK'
    BY <1>1, <2>2 DEF QueueTypeOK, memVars, logVars, Moved
  <2> QED BY <2>1, <2>3, <2>4, <1>2
<1> QED
  BY <1>3, <1>4, <1>5 DEF CheckTurn

\* A thread that comes back from a wait.
LEMMA TakeMutexTurns ==
    ASSUME QueueTypeOK, NEW t \in Threads, TakeMutex(t)
    PROVE  QueueTypeOK' /\ \E p \in Positions, o \in BOOLEAN : Turn(t, p, o)
<1>1. holder = None /\ holder' = t /\ Quiet /\ UNCHANGED <<bgError, memVars, logVars, queue, bg>>
  BY SameApplied DEF TakeMutex, Quiet, memVars
<1>2. th \in [Threads -> Writer] /\ th[t].ok \in BOOLEAN
  BY DEF QueueTypeOK, Writer
<1>3. PICK p \in Positions : Go(t, p) /\ (\/ At(t, "wake") /\ p = "check"
                                          \/ At(t, "slept") /\ p = "room"
                                          \/ At(t, "bgwake") /\ p = "room")
  BY DEF TakeMutex, Positions
<1>4. Moved(t, p, th[t].ok)
  BY <1>2, <1>3, GoMoves
<1>5. Turn(t, p, th[t].ok)
  BY <1>1, <1>3, <1>4 DEF Turn
<1>6. QueueTypeOK'
  BY <1>1, <1>4 DEF QueueTypeOK, memVars, logVars, Moved
<1> QED
  BY <1>2, <1>5, <1>6

\* A thread that wakes up from its delay.
LEMMA SleepTurns ==
    ASSUME QueueTypeOK, NEW t \in Threads, Sleep(t)
    PROVE  QueueTypeOK' /\ \E p \in Positions, o \in BOOLEAN : Turn(t, p, o)
<1>1. /\ At(t, "sleep") /\ holder' = holder /\ Quiet
      /\ UNCHANGED <<bgError, memVars, logVars, queue, bg>>
  BY SameApplied DEF Sleep, Quiet, memVars
<1>2. th \in [Threads -> Writer] /\ th[t].ok \in BOOLEAN /\ "slept" \in Positions
  BY DEF QueueTypeOK, Writer, Positions
<1>3. Moved(t, "slept", th[t].ok)
  BY <1>2, GoMoves DEF Sleep
<1>4. Turn(t, "slept", th[t].ok)
  BY <1>1, <1>3 DEF Turn
<1>5. QueueTypeOK'
  BY <1>1, <1>3 DEF QueueTypeOK, memVars, logVars, Moved
<1> QED
  BY <1>2, <1>4, <1>5

\* A thread that looks whether its flush is done.
LEMMA AwaitFlushTurns ==
    ASSUME QueueTypeOK, NEW t \in Threads, AwaitFlush(t)
    PROVE  QueueTypeOK' /\ \E p \in Positions, o \in BOOLEAN : Turn(t, p, o)
<1>1. /\ At(t, "await") /\ holder = None /\ holder' = None /\ Quiet
      /\ UNCHANGED <<bgError, memVars, logVars, queue, bg>>
  BY SameApplied DEF AwaitFlush, Quiet, memVars
<1>2. /\ th \in [Threads -> Writer] /\ th[t].ok \in BOOLEAN
      /\ "awaiting" \in Positions /\ "out" \in Positions
  BY DEF QueueTypeOK, Writer, Positions
<1>3. PICK p \in {"awaiting", "out"}, o \in BOOLEAN : Moved(t, p, o)
  <2>1. Go(t, "awaiting") => Moved(t, "awaiting", th[t].ok)
    BY <1>2, GoMoves
  <2>2. th' = [th EXCEPT ![t].pc = "out", ![t].ok = imm = None] => Moved(t, "out", imm = None)
    <3>1. (imm = None) \in BOOLEAN
      OBVIOUS
    <3> QED BY <1>2, <3>1, EndMoves
  <2> QED BY <2>1, <2>2, <1>2 DEF AwaitFlush
<1>4. Turn(t, p, o)
  BY <1>1, <1>3 DEF Turn
<1>5. QueueTypeOK'
  BY <1>1, <1>3 DEF QueueTypeOK, memVars, logVars, Moved
<1> QED
  BY <1>2, <1>3, <1>4, <1>5

\* A turn of the loop of MakeRoomForWrite.
LEMMA MakeRoomTurns ==
    ASSUME QueueTypeOK, NEW t \in Threads, MakeRoomForWrite(t)
    PROVE  QueueTypeOK' /\ \E p \in Positions, o \in BOOLEAN : Turn(t, p, o)
<1>1. /\ At(t, "room") /\ holder = t /\ UNCHANGED <<bgError, logVars, queue>>
  BY DEF MakeRoomForWrite, Holds
<1>2. /\ th \in [Threads -> Writer] /\ th[t].ok \in BOOLEAN /\ th[t].req.batch \in BOOLEAN
      /\ bgError \in BOOLEAN
  BY DEF QueueTypeOK, Writer, Request
<1>3. /\ "finish" \in Positions /\ "sleep" \in Positions /\ "group" \in Positions
      /\ "bgwait" \in Positions /\ "room" \in Positions
  BY DEF Positions
<1>4. ASSUME UNCHANGED <<memVars, bg>>, NEW p \in Positions, NEW o \in BOOLEAN, Moved(t, p, o),
             \/ p = "finish" /\ ~ o /\ holder' = t
             \/ p \in {"sleep", "bgwait"} /\ o = th[t].ok /\ holder' = None
             \/ /\ ~ bgError /\ p = IF th[t].req.batch THEN "group" ELSE "finish"
                /\ o = th[t].ok /\ holder' = t
      PROVE  QueueTypeOK' /\ Turn(t, p, o)
  <2>1. Quiet
    BY <1>1, <1>4, SameApplied DEF Quiet, memVars
  <2>2. Turn(t, p, o)
    BY <1>1, <1>4, <2>1 DEF Turn
  <2>3. QueueTypeOK'
    BY <1>1, <1>4 DEF QueueTypeOK, memVars, logVars, Moved
  <2> QED BY <2>2, <2>3
<1>5. CASE /\ Failed /\ th' = [th EXCEPT ![t].pc = "finish", ![t].ok = FALSE]
           /\ UNCHANGED <<holder, memVars, bg, failures>>
  <2>1. Moved(t, "finish", FALSE)
    BY <1>2, <1>3, <1>5, EndMoves
  <2> QED BY <1>1, <1>3, <1>4, <1>5, <2>1
<1>6. CASE /\ ~Failed /\ Delay(t) /\ th' = [th EXCEPT ![t].pc = "sleep", ![t].delay = FALSE]
           /\ holder' = None /\ UNCHANGED <<memVars, bg, failures>>
  <2>1. Moved(t, "sleep", th[t].ok)
    BY <1>2, <1>3, <1>6, DelayMoves
  <2> QED BY <1>2, <1>3, <1>4, <1>6, <2>1
<1>7. CASE /\ ~Failed /\ Go(t, IF th[t].req.batch THEN "group" ELSE "finish")
           /\ UNCHANGED <<holder, memVars, bg, failures>>
  <2> DEFINE p == IF th[t].req.batch THEN "group" ELSE "finish"
  <2>1. p \in Positions
    BY <1>3
  <2>2. Moved(t, p, th[t].ok)
    BY <1>2, <1>7, <2>1, GoMoves
  <2>3. p = IF th[t].req.batch THEN "group" ELSE "finish"
    OBVIOUS
  <2> HIDE DEF p
  <2> QED BY <1>1, <1>2, <1>4, <1>7, <2>1, <2>2, <2>3 DEF Failed
<1>8. CASE Go(t, "bgwait") /\ holder' = None /\ UNCHANGED <<memVars, bg, failures>>
  <2>1. Moved(t, "bgwait", th[t].ok)
    BY <1>2, <1>3, <1>8, GoMoves
  <2> QED BY <1>2, <1>3, <1>4, <1>8, <2>1
<1>9. CASE ~MustWait /\ SwitchMemTable(t) /\ UNCHANGED holder
  <2>1. CASE /\ imm' = mem /\ mem' = <<>> /\ th' = [th EXCEPT ![t].force = FALSE]
             /\ UNCHANGED <<level0, flushed, failures>>
    <3>1. imm = None
      BY <1>9 DEF MustWait
    <3>2. Quiet
      BY <1>1, <2>1, <3>1, SameApplied DEF Quiet
    <3>3. Moved(t, "room", th[t].ok)
      BY <1>1, <1>2, <2>1, ForceMoves DEF At
    <3>4. Turn(t, "room", th[t].ok)
      BY <1>1, <1>9, <3>2, <3>3 DEF Turn
    <3>5. imm' # None
      BY <2>1, WriteQueueAssumption DEF QueueTypeOK
    <3>6. QueueTypeOK'
      BY <1>1, <1>9, <2>1, <3>3, <3>5 DEF QueueTypeOK, logVars, Moved
    <3> QED BY <1>2, <1>3, <3>4, <3>6
  <2>2. CASE /\ th' = [th EXCEPT ![t].pc = "finish", ![t].ok = FALSE]
             /\ UNCHANGED <<memVars, bg>>
    <3>1. Moved(t, "finish", FALSE)
      BY <1>2, <1>3, <2>2, EndMoves
    <3> QED BY <1>1, <1>3, <1>4, <1>9, <2>2, <3>1
  <2> QED BY <1>9, <2>1, <2>2 DEF SwitchMemTable
<1> QED
  BY <1>5, <1>6, <1>7, <1>8, <1>9 DEF MakeRoomForWrite

-----------------------------------------------------------------------------
(* Calls, groups and the background thread *)

\* The steps of the background thread and of the destructor, and no step.
Apart ==
  /\ holder' = holder /\ Quiet
  /\ bgError => bgError'
  /\ bgError' # bgError => holder = None
  /\ \A u \in Threads : Roused(th'[u], th[u])

\* t joins the queue at its end.
Entered(t) ==
  /\ At(t, "out") /\ holder = None /\ holder' = t /\ queue' = Append(queue, t)
  /\ UNCHANGED <<logVars, bgError>> /\ Applied' = Applied
  /\ th'[t].pc = "check" /\ th'[t].call = th[t].call + 1 /\ ~ th'[t].done /\ th'[t].ok
  /\ ~ th'[t].syncError /\ th'[t].last = t /\ th'[t].late = bgError
  /\ \A u \in Threads \ {t} : th'[u] = th[u]

\* t and those behind it up to the n-th of the queue become a group.
GroupBuilt(t, n) ==
  /\ At(t, "group") /\ holder = t /\ holder' = None
  /\ Quiet /\ UNCHANGED bgError
  /\ \A i \in 2..n : th[queue[i]].req.sync => th[t].req.sync
  /\ th'[t].pc = "logging" /\ th'[t].last = queue[n]
  /\ th'[t].group = Members(SubSeq(queue, 1, n), {w \in Threads : th[w].req.batch})
  /\ th'[t].call = th[t].call /\ th'[t].req = th[t].req /\ th'[t].done = th[t].done
  /\ th'[t].ok = th[t].ok /\ th'[t].syncError = th[t].syncError /\ th'[t].late = th[t].late
  /\ \A u \in Threads \ {t} : th'[u] = th[u]


\* The call of Write.
LEMMA EnterEnters ==
    ASSUME QueueTypeOK, NEW t \in Threads, Enter(t)
    PROVE  QueueTypeOK' /\ Entered(t)
<1>1. PICK r \in Requests :
       th' = [th EXCEPT ![t] = [th[t] EXCEPT
                !.pc = "check", !.call = th[t].call + 1, !.req = r, !.done = FALSE,
                !.ok = TRUE, !.syncError = FALSE, !.group = <<>>, !.last = t,
                !.before = IF r.batch THEN {} ELSE {logged[i].id : i \in DOMAIN logged},
                !.late = bgError]]
  BY DEF Enter
<1>2. PICK b : b = IF r.batch THEN {} ELSE {logged[i].id : i \in DOMAIN logged}
  OBVIOUS
<1>3. b \in SUBSET (Threads \X Nat)
  <2>1. ASSUME NEW i \in DOMAIN logged PROVE logged[i].id \in Threads \X Nat
    <3>1. logged[i] \in Entry
      BY DEF QueueTypeOK
    <3> QED BY <3>1 DEF Entry
  <2> QED BY <1>2, <2>1
<1>4. /\ th[t] \in Writer /\ th[t].call + 1 \in 0..Calls /\ r \in Request
      /\ "check" \in Positions /\ bgError \in BOOLEAN
  <2>1. th[t] \in Writer
    BY DEF QueueTypeOK
  <2>2. th[t].call \in 0..Calls /\ th[t].call < Calls
    BY <2>1 DEF Enter, Writer
  <2> QED BY <2>1, <2>2, WriteQueueAssumption DEF Positions, QueueTypeOK
<1> DEFINE v == [th[t] EXCEPT
                !.pc = "check", !.call = th[t].call + 1, !.req = r, !.done = FALSE,
                !.ok = TRUE, !.syncError = FALSE, !.group = <<>>, !.last = t,
                !.before = b, !.late = bgError]
<1>5. th' = [th EXCEPT ![t] = v]
  BY <1>1, <1>2
<1>6. /\ v \in Writer /\ v.pc = "check" /\ v.call = th[t].call + 1 /\ ~ v.done /\ v.ok
      /\ ~ v.syncError /\ v.last = t /\ v.late = bgError
  <2> DEFINE w == [th[t] EXCEPT !.pc = "check", !.call = th[t].call + 1, !.req = r,
                                !.done = FALSE, !.ok = TRUE]
             x == [w EXCEPT !.syncError = FALSE, !.group = <<>>, !.last = t]
             y == [x EXCEPT !.before = b, !.late = bgError]
  <2>1. /\ w \in Writer /\ w.pc = "check" /\ w.call = th[t].call + 1 /\ w.req = r
        /\ ~ w.done /\ w.ok
    <3>1. PICK a \in Writer, c \in 0..Calls : a = th[t] /\ c = th[t].call + 1
      BY <1>4
    <3> QED BY <1>4, <3>1 DEF Writer, Positions
  <2>2. /\ x \in Writer /\ x.pc = w.pc /\ x.call = w.call /\ x.req = w.req
        /\ x.done = w.done /\ x.ok = w.ok
        /\ ~ x.syncError /\ x.group = <<>> /\ x.last = t
    <3> HIDE DEF w
    <3>1. <<>> \in Seq(Threads)
      OBVIOUS
    <3> QED BY <2>1, <3>1 DEF Writer
  <2>3. /\ y \in Writer /\ y.pc = x.pc /\ y.call = x.call /\ y.req = x.req
        /\ y.done = x.done /\ y.ok = x.ok /\ y.syncError = x.syncError
        /\ y.group = x.group /\ y.last = x.last /\ y.late = bgError
    <3> HIDE DEF w, x
    <3> QED BY <1>3, <1>4, <2>2 DEF Writer
  <2>4. v = y
    OBVIOUS
  <2> HIDE DEF w, x, y, v
  <2> QED BY <2>1, <2>2, <2>3, <2>4
<1> HIDE DEF v
<1>7. /\ th' \in [Threads -> Writer] /\ th'[t] = v
      /\ \A u \in Threads \ {t} : th'[u] = th[u]
  BY <1>5, <1>6 DEF QueueTypeOK
<1>8. queue' \in Seq(Threads)
  BY DEF QueueTypeOK, Enter
<1>9. QueueTypeOK'
  BY <1>7, <1>8 DEF QueueTypeOK, Enter, memVars, logVars
<1>10. Applied' = Applied
  BY SameApplied DEF Enter, memVars
<1> QED
  BY <1>6, <1>7, <1>9, <1>10 DEF Entered, Enter

\* The prefix that BuildBatchGroup chooses exists.
LEMMA GroupEnds ==
    ASSUME QueueTypeOK, NEW t \in Threads, queue # <<>>
    PROVE  /\ GroupEnd(t) \in DOMAIN queue
           /\ \A i \in 2..GroupEnd(t) : th[queue[i]].req.sync => th[t].req.sync
<1> DEFINE batches(n) == Cardinality({i \in 1 .. n : th[queue[i]].req.batch})
           takes(i) == /\ th[queue[i]].req.sync => th[t].req.sync
                       /\ th[queue[i]].req.batch => batches(i) <= MaxGroup
           Ends(n) == /\ \A i \in 2 .. n : takes(i)
                      /\ n = Len(queue) \/ ~takes(n + 1)
           T == {n \in 1..Len(queue) : n = Len(queue) \/ ~takes(n + 1)}
<1>1. Len(queue) \in Nat /\ Len(queue) # 0 /\ DOMAIN queue = 1..Len(queue)
  BY DEF QueueTypeOK
<1>2. PICK m \in T : \A n \in T : m <= n
  <2>1. T \subseteq Nat /\ Len(queue) \in T
    BY <1>1
  <2> HIDE DEF T
  <2> QED BY <2>1, Least
<1>3. m \in DOMAIN queue /\ Ends(m)
  <2>1. m \in 1..Len(queue) /\ (m = Len(queue) \/ ~takes(m + 1))
    BY <1>2
  <2>2. ASSUME NEW i \in 2..m PROVE takes(i)
    <3> HIDE DEF takes, T
    <3>0. m \in 1..Len(queue)
      BY <2>1
    <3>a. m \in Int /\ i \in Int /\ Len(queue) \in Int /\ 1 <= m /\ m <= Len(queue)
          /\ 2 <= i /\ i <= m
      BY <1>1, <3>0
    <3>1. i - 1 \in 1..Len(queue) /\ i - 1 < m /\ i - 1 # Len(queue) /\ (i - 1) + 1 = i
      BY <3>a
    <3>2. i - 1 \notin T
      BY <1>2, <3>1, <3>a
    <3>b. i - 1 \in 1..Len(queue) /\ i - 1 \notin T => takes((i - 1) + 1)
      BY DEF T
    <3> QED BY <3>1, <3>2, <3>b
  <2> HIDE DEF takes
  <2> QED BY <1>1, <2>1, <2>2
<1>4. GroupEnd(t) = CHOOSE n \in DOMAIN queue : Ends(n)
  BY DEF GroupEnd
<1>5. GroupEnd(t) \in DOMAIN queue /\ Ends(GroupEnd(t))
  <2> HIDE DEF Ends
  <2> QED BY <1>3, <1>4
<1> QED
  BY <1>5

\* BuildBatchGroup.
LEMMA BuildBuilds ==
    ASSUME QueueTypeOK, queue # <<>>, NEW t \in Threads, BuildBatchGroup(t)
    PROVE  QueueTypeOK' /\ \E n \in DOMAIN queue : GroupBuilt(t, n)
<1> DEFINE n == GroupEnd(t)
           taken == SubSeq(queue, 1, n)
           batch == {w \in Threads : th[w].req.batch}
           g == Members(taken, batch)
<1>1. n \in DOMAIN queue /\ \A i \in 2..n : th[queue[i]].req.sync => th[t].req.sync
  BY GroupEnds
<1>2. taken \in Seq(Threads) /\ Len(taken) = n /\ taken[Len(taken)] = queue[n]
  BY <1>1 DEF QueueTypeOK
<1>3. queue[n] \in Threads /\ g \in Seq(Threads)
  <2>1. queue[n] \in Threads
    BY <1>1 DEF QueueTypeOK
  <2> HIDE DEF taken, batch
  <2> QED BY <1>2, <2>1, MembersOf
<1> DEFINE v == [th[t] EXCEPT !.pc = "logging", !.last = queue[n], !.group = g]
<1>4. th' = [th EXCEPT ![t] = v]
  <2>1. th' = [th EXCEPT ![t].pc = "logging", ![t].last = taken[Len(taken)], ![t].group = g]
    BY DEF BuildBatchGroup
  <2> HIDE DEF taken, g, n
  <2> QED BY <1>2, <2>1 DEF QueueTypeOK
<1>5. /\ v \in Writer /\ v.pc = "logging" /\ v.last = queue[n] /\ v.group = g
      /\ v.call = th[t].call /\ v.req = th[t].req /\ v.done = th[t].done
      /\ v.ok = th[t].ok /\ v.syncError = th[t].syncError /\ v.late = th[t].late
  <2> HIDE DEF g, n
  <2>1. PICK w \in Writer : w = th[t]
    BY DEF QueueTypeOK
  <2> QED BY <1>3, <2>1 DEF Writer
<1> HIDE DEF v
<1>6. /\ th' \in [Threads -> Writer] /\ th'[t] = v
      /\ \A u \in Threads \ {t} : th'[u] = th[u]
  BY <1>4, <1>5 DEF QueueTypeOK
<1>7. Quiet
  BY SameApplied DEF BuildBatchGroup, Quiet, memVars
<1>8. QueueTypeOK'
  BY <1>6 DEF QueueTypeOK, BuildBatchGroup, memVars, logVars
<1>9. GroupBuilt(t, n)
  BY <1>1, <1>5, <1>6, <1>7 DEF GroupBuilt, BuildBatchGroup, Holds, logVars
<1> QED
  BY <1>1, <1>8, <1>9


\* The background thread wakes threads, and writes no batch.
LEMMA BackgroundRouses ==
    ASSUME QueueTypeOK, BackgroundStep
    PROVE  QueueTypeOK' /\ Apart
<1>1. holder = None /\ holder' = None /\ UNCHANGED <<queue, logVars, mem>>
  BY DEF BackgroundStep, BackgroundCall, CompactMemTable, CompactMemTableFirst,
         InstallCompactionResults, BackgroundDone, memVars
<1>2. /\ th' \in [Threads -> Writer]
      /\ \A u \in Threads : Roused(th'[u], th[u])
  <2>1. th' = th \/ th' = SignalAll(th)
    BY DEF BackgroundStep, BackgroundCall, CompactMemTable, CompactMemTableFirst,
           InstallCompactionResults, BackgroundDone, RecordBackgroundError,
           CommitMemTable, MemTableError
  <2>2. th \in [Threads -> Writer]
    BY DEF QueueTypeOK
  <2>3. CASE th' = th
    BY <2>2, <2>3 DEF Roused, Alike
  <2>4. CASE th' = SignalAll(th)
    BY <2>2, <2>4, SignalAllRouses
  <2> QED BY <2>1, <2>3, <2>4
<1>3. bgError' \in BOOLEAN /\ (bgError => bgError')
  BY DEF QueueTypeOK, BackgroundStep, BackgroundCall, CompactMemTable, CompactMemTableFirst,
         InstallCompactionResults, BackgroundDone, RecordBackgroundError,
         CommitMemTable, MemTableError
<1>4. /\ Applied' = Applied
      /\ imm' \in Seq(Entry) \cup {None} /\ flushed' \in Seq(Entry) /\ level0' \in Nat
      /\ bg' = "building" => imm' # None
  <2>1. CASE BackgroundCall
    <3>1. UNCHANGED <<mem, imm, flushed, level0>>
      BY <2>1 DEF BackgroundCall, memVars
    <3>2. bg' = "building" => imm # None
      BY <2>1 DEF BackgroundCall
    <3> QED BY <3>1, <3>2, SameApplied DEF QueueTypeOK
  <2>2. ASSUME CommitMemTable, imm # None, mem' = mem
        PROVE  /\ Applied' = Applied
               /\ imm' = None /\ flushed' \in Seq(Entry) /\ level0' \in Nat
    BY <2>2, SameApplied DEF CommitMemTable, QueueTypeOK
  <2>3. ASSUME MemTableError, mem' = mem
        PROVE  Applied' = Applied /\ UNCHANGED <<imm, flushed, level0>>
    BY <2>3, SameApplied DEF MemTableError
  <2>4. CASE CompactMemTable
    <3>1. imm # None /\ bg' = "done" /\ (CommitMemTable \/ MemTableError)
      BY <2>4 DEF CompactMemTable, QueueTypeOK
    <3> QED BY <1>1, <2>2, <2>3, <3>1 DEF QueueTypeOK
  <2>5. CASE CompactMemTableFirst
    <3>1. imm # None /\ bg' = "merging" /\ (CommitMemTable \/ MemTableError)
      BY <2>5 DEF CompactMemTableFirst
    <3> QED BY <1>1, <2>2, <2>3, <3>1 DEF QueueTypeOK
  <2>6. CASE InstallCompactionResults
    <3>1. UNCHANGED <<mem, imm, flushed>> /\ bg' = "done"
      BY <2>6 DEF InstallCompactionResults
    <3>2. level0' \in Nat
      BY <2>6 DEF InstallCompactionResults, QueueTypeOK
    <3> QED BY <3>1, <3>2, SameApplied DEF QueueTypeOK
  <2>7. CASE BackgroundDone
    <3>1. UNCHANGED <<mem, imm, flushed, level0>>
      BY <2>7 DEF BackgroundDone, memVars
    <3>2. bg' # "building"
      BY <2>7 DEF BackgroundDone, MaybeSchedule
    <3> QED BY <3>1, <3>2, SameApplied DEF QueueTypeOK
  <2> QED BY <2>1, <2>4, <2>5, <2>6, <2>7 DEF BackgroundStep
<1>5. QueueTypeOK'
  BY <1>1, <1>2, <1>3, <1>4 DEF QueueTypeOK, logVars
<1>6. Apart
  BY <1>1, <1>2, <1>3, <1>4 DEF Apart, Quiet
<1> QED
  BY <1>5, <1>6

\* The destructor, and no step, leave the writers alone.
LEMMA CloseLeaves ==
    ASSUME QueueTypeOK, Close \/ UNCHANGED vars
    PROVE  QueueTypeOK' /\ Apart
<1>1. /\ UNCHANGED <<holder, queue, th, mem, imm, flushed, level0, logged, synced,
                     lastSequence, bg, bgError>>
  BY DEF Close, memVars, logVars, vars
<1>2. Applied' = Applied
  BY <1>1, SameApplied
<1>3. \A u \in Threads : Roused(th'[u], th[u])
  BY <1>1 DEF Roused, Alike
<1> QED
  BY <1>1, <1>2, <1>3 DEF QueueTypeOK, Apart, Quiet, logVars

-----------------------------------------------------------------------------
(* Writing a group *)

\* What LogAndInsert does to the log and the memtable; a success applies what it logs.
Logs(t) ==
  /\ At(t, "logging") /\ holder' = holder /\ UNCHANGED <<queue, lastSequence, bgError>>
  /\ \A u \in Threads \ {t} : th'[u] = th[u]
  /\ th'[t].pc = "relock" /\ th'[t].call = th[t].call /\ th'[t].req = th[t].req
  /\ th'[t].done = th[t].done /\ th'[t].last = th[t].last /\ th'[t].group = th[t].group
  /\ th'[t].late = th[t].late
  /\ \/ /\ logged' = logged \o Record(t) /\ Applied' = Applied \o Record(t)
        /\ synced' = IF th[t].req.sync THEN Len(logged') ELSE synced
        /\ th'[t].ok = th[t].ok /\ th'[t].syncError = th[t].syncError
     \/ /\ UNCHANGED <<logged, synced>> /\ Applied' = Applied
        /\ ~ th'[t].ok /\ th'[t].syncError = th[t].syncError
     \/ /\ logged' = logged \o Record(t) /\ synced' = synced /\ Applied' = Applied
        /\ ~ th'[t].ok /\ th'[t].syncError

\* The group's numbers become visible; a failed sync becomes the background error.
Publishes(t) ==
  /\ At(t, "relock") /\ holder = None /\ holder' = t /\ UNCHANGED <<queue, logged, synced>>
  /\ Applied' = Applied
  /\ \A u \in Threads \ {t} : Roused(th'[u], th[u])
  /\ th'[t].pc = "finish" /\ Alike(th'[t], th[t]) /\ th'[t].ok = th[t].ok
  /\ bgError' = (bgError \/ th[t].syncError)
  /\ lastSequence' = lastSequence + Len(th[t].group)

\* Threads that wait for their turn may be woken.
Resumed(v, w) == v.pc = w.pc \/ (w.pc = "cv" /\ v.pc = "wake")

\* t's group, the first n of the queue, leaves with t's status.
Finishes(t, n) ==
  /\ At(t, "finish") /\ holder = t /\ holder' = None
  /\ queue[n] = th[t].last /\ queue' = SubSeq(queue, n + 1, Len(queue))
  /\ UNCHANGED <<logVars, bgError>> /\ Applied' = Applied
  /\ th'[t].pc = Returned(t) /\ th'[t].ok = th[t].ok /\ Alike(th'[t], th[t])
  /\ \A u \in Threads \ {t} :
       /\ Resumed(th'[u], th[u])
       /\ th'[u].call = th[u].call /\ th'[u].req = th[u].req /\ th'[u].last = th[u].last
       /\ th'[u].group = th[u].group /\ th'[u].syncError = th[u].syncError
       /\ th'[u].late = th[u].late
       /\ IF u \in {queue[i] : i \in 1..n} THEN th'[u].done /\ th'[u].ok = th[t].ok
          ELSE th'[u].done = th[u].done /\ th'[u].ok = th[u].ok


\* A group's records: one for each of its batches, numbered on from LastSequence().
LEMMA RecordType ==
    ASSUME QueueTypeOK, NEW t \in Threads
    PROVE  /\ Record(t) \in Seq(Entry) /\ Len(Record(t)) = Len(th[t].group)
           /\ \A i \in 1..Len(th[t].group) :
                Record(t)[i].id = Id(th[t].group[i]) /\ Record(t)[i].seq = lastSequence + i
<1>1. th[t].group \in Seq(Threads)
  <2>1. th[t] \in Writer
    BY DEF QueueTypeOK
  <2> QED BY <2>1 DEF Writer
<1>2. PICK g \in Seq(Threads) : g = th[t].group
  BY <1>1
<1>3. ASSUME NEW i \in DOMAIN g
      PROVE  [id |-> Id(g[i]), seq |-> lastSequence + i] \in Entry
  <2>1. g[i] \in Threads /\ i \in Nat
    BY <1>2
  <2>2. th[g[i]] \in Writer
    BY <2>1 DEF QueueTypeOK
  <2>3. th[g[i]].call \in Nat
    BY <2>2, WriteQueueAssumption DEF Writer
  <2> QED BY <2>1, <2>3 DEF Id, Entry, QueueTypeOK
<1>4. Record(t) = [i \in 1..Len(g) |-> [id |-> Id(g[i]), seq |-> lastSequence + i]]
  BY <1>2 DEF Record
<1>5. Len(g) \in Nat /\ DOMAIN g = 1..Len(g)
  BY <1>2
<1> DEFINE F(i) == [id |-> Id(g[i]), seq |-> lastSequence + i]
<1>6. \A i \in 1..Len(g) : F(i) \in Entry /\ F(i).id = Id(g[i]) /\ F(i).seq = lastSequence + i
  BY <1>3, <1>5
<1>7. Record(t) = [i \in 1..Len(g) |-> F(i)]
  BY <1>4
<1> HIDE DEF F
<1>8. Record(t) \in Seq(Entry) /\ Len(Record(t)) = Len(g)
  BY <1>5, <1>6, <1>7, IsASeq
<1>9. \A i \in 1..Len(g) : Record(t)[i] = F(i)
  BY <1>7
<1> QED
  BY <1>2, <1>6, <1>8, <1>9

\* AddRecord, Sync and InsertInto.
LEMMA LogLogs ==
    ASSUME QueueTypeOK, NEW t \in Threads, LogAndInsert(t)
    PROVE  QueueTypeOK' /\ Logs(t)
<1>1. /\ At(t, "logging") /\ holder' = holder /\ UNCHANGED <<queue, lastSequence, bgError>>
      /\ UNCHANGED <<imm, level0, flushed, bg>>
  BY DEF LogAndInsert
<1>2. PICK r \in Seq(Entry) : r = Record(t)
  BY RecordType
<1>3. PICK w \in Writer : w = th[t]
  BY DEF QueueTypeOK
<1>4. ASSUME NEW v \in Writer, th' = [th EXCEPT ![t] = v], v.pc = "relock",
             v.call = w.call, v.req = w.req, v.done = w.done, v.last = w.last,
             v.group = w.group, v.late = w.late
      PROVE  /\ th' \in [Threads -> Writer] /\ th'[t] = v
             /\ \A u \in Threads \ {t} : th'[u] = th[u]
             /\ th'[t].pc = "relock" /\ th'[t].call = th[t].call /\ th'[t].req = th[t].req
             /\ th'[t].done = th[t].done /\ th'[t].last = th[t].last
             /\ th'[t].group = th[t].group /\ th'[t].late = th[t].late
  BY <1>3, <1>4 DEF QueueTypeOK
<1>5. CASE /\ logged' = logged \o Record(t)
           /\ synced' = IF th[t].req.sync THEN Len(logged') ELSE synced
           /\ mem' = mem \o Record(t)
           /\ Go(t, "relock")
  <2> DEFINE v == [w EXCEPT !.pc = "relock"]
  <2>1. /\ v \in Writer /\ v.pc = "relock" /\ v.ok = w.ok /\ Alike(v, w)
    BY WriterMoves DEF Positions
  <2>2. th' = [th EXCEPT ![t] = v]
    BY <1>3, <1>5 DEF Go
  <2> HIDE DEF v
  <2>3. logged' \in Seq(Entry) /\ mem' \in Seq(Entry) /\ synced' \in Nat
    <3>1. logged \o r \in Seq(Entry) /\ mem \o r \in Seq(Entry) /\ Len(logged \o r) \in Nat
      BY DEF QueueTypeOK
    <3> QED BY <1>2, <1>5, <3>1 DEF QueueTypeOK
  <2>4. Applied' = Applied \o r
    <3>1. Immutable \in Seq(Entry) /\ flushed \in Seq(Entry) /\ mem \in Seq(Entry)
      BY DEF Immutable, QueueTypeOK
    <3>2. Immutable' = Immutable
      BY <1>1 DEF Immutable
    <3>3. Applied' = (flushed \o Immutable) \o (mem \o r)
      BY <1>1, <1>2, <1>5, <3>2 DEF Applied
    <3>4. Applied = (flushed \o Immutable) \o mem
      BY DEF Applied
    <3>5. flushed \o Immutable \in Seq(Entry)
      BY <3>1, ConcatProperties
    <3>6. PICK x \in Seq(Entry) : x = flushed \o Immutable
      BY <3>5
    <3>7. x \o (mem \o r) = (x \o mem) \o r
      BY <3>1, ConcatAssociative
    <3> QED BY <3>3, <3>4, <3>6, <3>7
  <2>5. QueueTypeOK'
    BY <1>1, <1>4, <2>1, <2>2, <2>3 DEF QueueTypeOK, Alike
  <2>6. Logs(t)
    BY <1>1, <1>2, <1>3, <1>4, <1>5, <2>1, <2>2, <2>4 DEF Logs, Alike
  <2> QED BY <2>5, <2>6
<1>6. CASE /\ th' = [th EXCEPT ![t].pc = "relock", ![t].ok = FALSE]
           /\ UNCHANGED <<logged, synced, mem>>
  <2> DEFINE v == [w EXCEPT !.pc = "relock", !.ok = FALSE]
  <2>1. /\ v \in Writer /\ v.pc = "relock" /\ ~ v.ok /\ Alike(v, w)
    BY DEF Writer, Alike
  <2>2. th' = [th EXCEPT ![t] = v]
    BY <1>3, <1>6
  <2> HIDE DEF v
  <2>3. Applied' = Applied
    BY <1>1, <1>6, SameApplied
  <2>4. QueueTypeOK'
    BY <1>1, <1>4, <1>6, <2>1, <2>2 DEF QueueTypeOK, Alike
  <2>5. Logs(t)
    BY <1>1, <1>3, <1>4, <1>6, <2>1, <2>2, <2>3 DEF Logs, Alike
  <2> QED BY <2>4, <2>5
<1>7. CASE /\ logged' = logged \o Record(t)
           /\ th' = [th EXCEPT ![t].pc = "relock", ![t].ok = FALSE, ![t].syncError = TRUE]
           /\ UNCHANGED <<synced, mem>>
  <2> DEFINE v == [w EXCEPT !.pc = "relock", !.ok = FALSE, !.syncError = TRUE]
  <2>1. /\ v \in Writer /\ v.pc = "relock" /\ ~ v.ok /\ v.syncError
        /\ v.call = w.call /\ v.req = w.req /\ v.done = w.done /\ v.last = w.last
        /\ v.group = w.group /\ v.late = w.late
    BY DEF Writer
  <2>2. th' = [th EXCEPT ![t] = v]
    BY <1>3, <1>7
  <2> HIDE DEF v
  <2>3. Applied' = Applied
    BY <1>1, <1>7, SameApplied
  <2>4. logged' \in Seq(Entry)
    BY <1>2, <1>7 DEF QueueTypeOK
  <2>5. QueueTypeOK'
    BY <1>1, <1>4, <1>7, <2>1, <2>2, <2>4 DEF QueueTypeOK
  <2>6. Logs(t)
    BY <1>1, <1>3, <1>4, <1>7, <2>1, <2>2, <2>3 DEF Logs
  <2> QED BY <2>5, <2>6
<1> QED
  BY <1>5, <1>6, <1>7 DEF LogAndInsert

\* SetLastSequence.
LEMMA PublishPublishes ==
    ASSUME QueueTypeOK, NEW t \in Threads, Publish(t)
    PROVE  QueueTypeOK' /\ Publishes(t)
<1>1. /\ At(t, "relock") /\ holder = None /\ holder' = t
      /\ UNCHANGED <<queue, mem, imm, level0, flushed, logged, synced, bg>>
      /\ lastSequence' = lastSequence + Len(th[t].group)
  BY DEF Publish, memVars
<1>2. th \in [Threads -> Writer] /\ th[t].group \in Seq(Threads) /\ th[t].syncError \in BOOLEAN
  <2>1. th \in [Threads -> Writer] /\ th[t] \in Writer
    BY DEF QueueTypeOK
  <2> QED BY <2>1 DEF Writer
<1>3. PICK f \in [Threads -> Writer] :
        /\ \A u \in Threads : Roused(f[u], th[u])
        /\ th' = [f EXCEPT ![t].pc = "finish"]
  <2>1. \A u \in Threads : Roused(th[u], th[u])
    BY DEF Roused, Alike
  <2>2. th' = [th EXCEPT ![t].pc = "finish"] \/ th' = [SignalAll(th) EXCEPT ![t].pc = "finish"]
    BY DEF Publish, Go
  <2> QED BY <1>2, <2>1, <2>2, SignalAllRouses
<1>4. f[t].pc = "relock" /\ Alike(f[t], th[t]) /\ f[t].ok = th[t].ok
  BY <1>1, <1>3 DEF Roused, At
<1> DEFINE v == [f[t] EXCEPT !.pc = "finish"]
<1>5. v \in Writer /\ v.pc = "finish" /\ v.ok = f[t].ok /\ Alike(v, f[t])
  <2>1. PICK w \in Writer : w = f[t]
    OBVIOUS
  <2> QED BY <2>1, WriterMoves DEF Positions
<1>6. th' = [f EXCEPT ![t] = v]
  BY <1>3
<1> HIDE DEF v
<1>7. /\ th' \in [Threads -> Writer] /\ th'[t] = v
      /\ \A u \in Threads \ {t} : th'[u] = f[u]
  BY <1>5, <1>6
<1>8. bgError' = (bgError \/ th[t].syncError)
  <2>1. bgError \in BOOLEAN
    BY DEF QueueTypeOK
  <2>2. CASE th[t].syncError
    BY <1>2, <2>1, <2>2 DEF Publish
  <2>3. CASE ~ th[t].syncError
    BY <1>2, <2>1, <2>3 DEF Publish
  <2> QED BY <2>2, <2>3
<1>9. Applied' = Applied
  BY <1>1, SameApplied
<1>10. lastSequence' \in Nat /\ bgError' \in BOOLEAN
  BY <1>1, <1>2, <1>8 DEF QueueTypeOK
<1>11. QueueTypeOK'
  BY <1>1, <1>7, <1>10 DEF QueueTypeOK
<1>12. \A u \in Threads \ {t} : Roused(th'[u], th[u])
  BY <1>3, <1>7
<1>13. th'[t].pc = "finish" /\ Alike(th'[t], th[t]) /\ th'[t].ok = th[t].ok
  BY <1>4, <1>5, <1>7 DEF Alike
<1>14. Publishes(t)
  BY <1>1, <1>8, <1>9, <1>12, <1>13 DEF Publishes
<1> QED
  BY <1>11, <1>14

-----------------------------------------------------------------------------
(* The end of a group *)

\* The group leaves the queue, when its last writer is in it.
LEMMA FinishFinishes ==
    ASSUME QueueTypeOK, NEW t \in Threads, Finish(t),
           \E i \in DOMAIN queue : queue[i] = th[t].last
    PROVE  QueueTypeOK' /\ \E n \in DOMAIN queue : Finishes(t, n)
<1> DEFINE n == CHOOSE i \in DOMAIN queue : queue[i] = th[t].last
           group == {queue[i] : i \in 1 .. n}
           rest == SubSeq(queue, n + 1, Len(queue))
           Told(w) == IF w \in group /\ w # t
                      THEN [th[w] EXCEPT !.done = TRUE, !.ok = th[t].ok,
                                         !.pc = IF @ = "cv" THEN "wake" ELSE @]
                      ELSE th[w]
           told == [w \in Threads |-> Told(w)]
<1>1. n \in DOMAIN queue /\ queue[n] = th[t].last
  OBVIOUS
<1>2. /\ At(t, "finish") /\ holder = t /\ holder' = None
      /\ UNCHANGED <<mem, imm, level0, flushed, logged, synced, lastSequence, bg, bgError>>
      /\ queue' = rest
      /\ th' = [NewHead(told, rest) EXCEPT ![t].pc = Returned(t)]
  BY DEF Finish, Holds, memVars, logVars
<1> HIDE DEF n
<1>3. rest \in Seq(Threads)
  BY <1>1 DEF QueueTypeOK
<1>4. \A w \in Threads : th[w] \in Writer
  BY DEF QueueTypeOK
\* What a writer is told.
<1> DEFINE Others(w, v) ==
             /\ Resumed(v, th[w])
             /\ v.call = th[w].call /\ v.req = th[w].req /\ v.last = th[w].last
             /\ v.group = th[w].group /\ v.syncError = th[w].syncError
             /\ v.late = th[w].late
             /\ IF w \in group THEN v.done /\ v.ok = th[t].ok
                ELSE v.done = th[w].done /\ v.ok = th[w].ok
<1>5. ASSUME NEW w \in Threads, w # t
      PROVE  Told(w) \in Writer /\ Others(w, Told(w))
  <2> HIDE DEF group
  <2>1. CASE w \in group
    <3>1. PICK x \in Writer, o \in BOOLEAN, p \in Positions :
            x = th[w] /\ o = th[t].ok /\ p = IF x.pc = "cv" THEN "wake" ELSE x.pc
      BY <1>4 DEF Writer, Positions
    <3> DEFINE v == [x EXCEPT !.done = TRUE, !.ok = o, !.pc = p]
    <3>2. Told(w) = v
      BY <1>5, <2>1, <3>1
    <3>3. /\ v \in Writer /\ v.pc = p /\ v.done /\ v.ok = o
          /\ v.call = x.call /\ v.req = x.req /\ v.last = x.last
          /\ v.group = x.group /\ v.syncError = x.syncError /\ v.late = x.late
      BY DEF Writer, Positions
    <3> HIDE DEF v, Told
    <3>4. Resumed(v, th[w])
      BY <3>1, <3>3 DEF Resumed
    <3> QED BY <2>1, <3>1, <3>2, <3>3, <3>4
  <2>2. CASE w \notin group
    <3>1. Told(w) = th[w]
      BY <2>2
    <3> HIDE DEF Told
    <3>2. Resumed(th[w], th[w])
      BY DEF Resumed
    <3> QED BY <1>4, <2>2, <3>1, <3>2
  <2> QED BY <2>1, <2>2
<1>6. Told(t) = th[t]
  OBVIOUS
<1> HIDE DEF Told, group
<1>7. told \in [Threads -> Writer]
  BY <1>4, <1>5, <1>6
\* The new head is woken.
<1> DEFINE f == NewHead(told, rest)
<1>8. /\ f \in [Threads -> Writer] /\ f[t] = th[t]
      /\ \A w \in Threads \ {t} : Others(w, f[w])
  <2>1. /\ told[t] = th[t]
        /\ \A w \in Threads \ {t} : told[w] \in Writer /\ Others(w, told[w])
    BY <1>5, <1>6
  <2> HIDE DEF told, rest
  <2>2. CASE f = told
    BY <1>7, <2>1, <2>2
  <2>3. CASE f # told
    <3> DEFINE h == rest[1]
    <3>1. rest # <<>> /\ told[h].pc = "cv" /\ f = [told EXCEPT ![h].pc = "wake"]
      BY <2>3 DEF NewHead, Signal
    <3>2. h \in Threads
      BY <1>3, <3>1
    <3>3. h # t
      BY <1>2, <2>1, <3>1 DEF At
    <3> DEFINE v == [told[h] EXCEPT !.pc = "wake"]
    <3>4. /\ v \in Writer /\ v.pc = "wake" /\ v.ok = told[h].ok /\ Alike(v, told[h])
      <4>1. PICK x \in Writer : x = told[h]
        BY <1>7, <3>2
      <4>2. "wake" \in Positions
        BY DEF Positions
      <4> QED BY <4>1, <4>2, WriterMoves
    <3>5. f = [told EXCEPT ![h] = v]
      BY <3>1
    <3> HIDE DEF v, h, f
    <3>6. f \in [Threads -> Writer] /\ f[h] = v /\ \A w \in Threads \ {h} : f[w] = told[w]
      BY <1>7, <3>2, <3>4, <3>5
    <3>7. Others(h, v)
      <4>1. Others(h, told[h]) /\ told[h].pc = "cv"
        BY <2>1, <3>1, <3>2, <3>3 DEF h
      <4> QED BY <3>4, <4>1 DEF Alike, Resumed
    <3> HIDE DEF Others
    <3> QED BY <2>1, <3>2, <3>3, <3>6, <3>7
  <2> QED BY <2>2, <2>3
<1> HIDE DEF f, told
<1> DEFINE v == [f[t] EXCEPT !.pc = Returned(t)]
<1>9. /\ v \in Writer /\ v.pc = Returned(t) /\ v.ok = th[t].ok /\ Alike(v, th[t])
  <2>1. PICK x \in Writer : x = f[t] /\ x = th[t]
    BY <1>8
  <2>2. PICK p \in Positions : p = Returned(t)
    BY DEF Returned, Positions
  <2> QED BY <2>1, <2>2, WriterMoves
<1>10. th' = [f EXCEPT ![t] = v]
  BY <1>2 DEF f
<1> HIDE DEF v
<1>11. /\ th' \in [Threads -> Writer] /\ th'[t] = v
       /\ \A w \in Threads \ {t} : th'[w] = f[w]
  BY <1>8, <1>9, <1>10
<1>12. Applied' = Applied
  BY <1>2, SameApplied
<1>13. QueueTypeOK'
  BY <1>2, <1>3, <1>11 DEF QueueTypeOK
<1>14. \A w \in Threads \ {t} : Others(w, th'[w])
  <2> HIDE DEF Others
  <2> QED BY <1>8, <1>11
<1>15. Finishes(t, n)
  BY <1>1, <1>2, <1>9, <1>11, <1>12, <1>14 DEF Finishes, group, logVars
<1> QED
  BY <1>1, <1>13, <1>15

-----------------------------------------------------------------------------
(* The queue *)

\* A thread is in the queue once,
Distinct == \A i, j \in DOMAIN queue : queue[i] = queue[j] => i = j

\* ... it is on its way to its turn or leads, and has not been served,
Queued == \A i \in DOMAIN queue : th[queue[i]].pc \in Lining /\ ~ th[queue[i]].done

\* ... a thread on its way that has not been served is in the queue,
Waiting == \A t \in Threads :
  (th[t].pc \in Lining /\ ~ th[t].done) => \E i \in DOMAIN queue : queue[i] = t

\* ... who leads is the first,
FirstLeads == \A t \in Threads : (th[t].pc \in Leading) => (queue # <<>> /\ queue[1] = t)

\* ... and the mutex is held where the code between two waits holds it.
Exclusive == \A t \in Threads :
  (holder = t) <=> (th[t].pc \in {"check", "room", "group", "finish"})

\* The queue of writers.
Lined == Distinct /\ Queued /\ Waiting /\ FirstLeads /\ Exclusive

\* The queue is empty at the start.
LEMMA InitLined == Init => Lined
<1> SUFFICES ASSUME Init PROVE Lined
  OBVIOUS
<1>1. \A t \in Threads : th[t].pc = "out"
  BY DEF Init
<1>2. queue = <<>> /\ DOMAIN queue = {}
  BY DEF Init
<1>3. holder \notin Threads
  BY WriteQueueAssumption DEF Init
<1> QED
  BY <1>1, <1>2, <1>3
     DEF Lined, Distinct, Queued, Waiting, FirstLeads, Exclusive, Lining, Leading

\* What a queue is made of.
LEMMA QueueDomain ==
    ASSUME QueueTypeOK
    PROVE  /\ Len(queue) \in Nat /\ DOMAIN queue = 1..Len(queue)
           /\ \A i \in DOMAIN queue : queue[i] \in Threads
           /\ queue # <<>> => 1 \in DOMAIN queue
BY DEF QueueTypeOK

\* The queue stays in line through a turn,
LEMMA TurnLined ==
    ASSUME QueueTypeOK, Lined, NEW t \in Threads, NEW p, NEW o, Turn(t, p, o)
    PROVE  Lined'
<1>1. /\ queue' = queue
      /\ th'[t].pc = p /\ th'[t].done = th[t].done
      /\ \A u \in Threads \ {t} : th'[u] = th[u]
  BY DEF Turn, Moved, Quiet, Alike
<1>2. \A i \in DOMAIN queue : queue[i] \in Threads
  BY QueueDomain
<1>3. None \notin Threads
  BY WriteQueueAssumption
<1>4. th[t].pc \in Lining /\ ~ th[t].done => p \in Lining
  BY DEF Turn, At, Lining, Leading
<1>5. p \in Lining /\ ~ th[t].done => th[t].pc \in Lining
  BY DEF Turn, At, Lining, Leading, Returned
<1>6. p \in Leading => queue # <<>> /\ queue[1] = t
  <2>1. CASE th[t].pc \in Leading
    BY <2>1 DEF Lined, FirstLeads
  <2>2. CASE th[t].pc \notin Leading /\ p \in Leading
    <3>1. th[t].pc = "check" /\ ~ th[t].done /\ queue[1] = t
      BY <2>2 DEF Turn, At, Leading, Returned
    <3>2. \E i \in DOMAIN queue : queue[i] = t
      BY <3>1 DEF Lined, Waiting, Lining
    <3> QED BY <3>1, <3>2, QueueDomain
  <2> QED BY <2>1, <2>2
<1>7. Distinct' /\ Queued' /\ Waiting' /\ FirstLeads'
  <2>1. Distinct'
    BY <1>1 DEF Lined, Distinct
  <2>2. Queued'
    BY <1>1, <1>2, <1>4 DEF Lined, Queued
  <2>3. Waiting'
    BY <1>1, <1>5 DEF Lined, Waiting
  <2>4. FirstLeads'
    BY <1>1, <1>6 DEF Lined, FirstLeads
  <2> QED BY <2>1, <2>2, <2>3, <2>4
<1>8. Exclusive'
  <2>1. \/ holder' = holder /\ ((p \in {"check", "room", "group", "finish"}) <=>
                              (th[t].pc \in {"check", "room", "group", "finish"}))
        \/ holder = t /\ holder' = None /\ p \notin {"check", "room", "group", "finish"}
        \/ holder = None /\ holder' = t /\ p \in {"check", "room", "group", "finish"}
    BY DEF Turn, At, Returned
  <2> QED BY <1>1, <1>3, <2>1 DEF Lined, Exclusive
<1> QED
  BY <1>7, <1>8 DEF Lined

\* ... a call,
LEMMA EnteredLined ==
    ASSUME QueueTypeOK, Lined, NEW t \in Threads, Entered(t)
    PROVE  Lined'
<1>1. /\ th[t].pc = "out" /\ holder = None /\ holder' = t /\ queue' = Append(queue, t)
      /\ th'[t].pc = "check" /\ ~ th'[t].done
      /\ \A u \in Threads \ {t} : th'[u] = th[u]
  BY DEF Entered, At
<1>2. /\ Len(queue) \in Nat /\ DOMAIN queue = 1..Len(queue)
      /\ DOMAIN queue' = 1..(Len(queue) + 1) /\ queue'[Len(queue) + 1] = t
      /\ \A i \in 1..Len(queue) : queue'[i] = queue[i] /\ queue[i] \in Threads
  BY <1>1 DEF QueueTypeOK
<1>3. \A i \in DOMAIN queue : queue[i] # t
  BY <1>1 DEF Lined, Queued, Lining, Leading
<1>4. None \notin Threads
  BY WriteQueueAssumption
<1>5. Distinct'
  BY <1>2, <1>3 DEF Lined, Distinct
<1>6. Queued'
  BY <1>1, <1>2, <1>3 DEF Lined, Queued, Lining
<1>7. Waiting'
  <2> SUFFICES ASSUME NEW u \in Threads, th'[u].pc \in Lining, ~ th'[u].done
               PROVE  \E i \in DOMAIN queue' : queue'[i] = u
    BY DEF Waiting
  <2>1. CASE u = t
    BY <1>2, <2>1
  <2>2. CASE u # t
    <3>1. PICK i \in DOMAIN queue : queue[i] = u
      BY <1>1, <2>2 DEF Lined, Waiting
    <3> QED BY <1>2, <3>1
  <2> QED BY <2>1, <2>2
<1>8. FirstLeads'
  <2> SUFFICES ASSUME NEW u \in Threads, th'[u].pc \in Leading
               PROVE  queue' # <<>> /\ queue'[1] = u
    BY DEF FirstLeads
  <2>1. u # t
    BY <1>1 DEF Leading
  <2>2. queue # <<>> /\ queue[1] = u
    BY <1>1, <2>1 DEF Lined, FirstLeads
  <2>3. 1 \in 1..Len(queue)
    BY <2>2, QueueDomain
  <2> QED BY <1>2, <2>2, <2>3
<1>9. Exclusive'
  BY <1>1, <1>4 DEF Lined, Exclusive
<1> QED
  BY <1>5, <1>6, <1>7, <1>8, <1>9 DEF Lined

\* A step that changes no place but within the leaders, and keeps the queue.
LEMMA LeaderLined ==
    ASSUME QueueTypeOK, Lined, NEW t \in Threads, queue' = queue,
           th[t].pc \in Leading, th'[t].pc \in Leading, th'[t].done = th[t].done,
           \A u \in Threads \ {t} : Roused(th'[u], th[u])
    PROVE  Distinct' /\ Queued' /\ Waiting' /\ FirstLeads'
<1>1. \A u \in Threads :
        /\ th'[u].done = th[u].done
        /\ (th'[u].pc \in Lining) <=> (th[u].pc \in Lining)
        /\ (th'[u].pc \in Leading) <=> (th[u].pc \in Leading)
  BY DEF Roused, Alike, Lining, Leading
<1>2. \A i \in DOMAIN queue : queue[i] \in Threads
  BY QueueDomain
<1>3. Distinct'
  BY DEF Lined, Distinct
<1>4. Queued'
  BY <1>1, <1>2 DEF Lined, Queued
<1>5. Waiting'
  BY <1>1 DEF Lined, Waiting
<1>6. FirstLeads'
  BY <1>1 DEF Lined, FirstLeads
<1> QED
  BY <1>3, <1>4, <1>5, <1>6

\* ... a group,
LEMMA BuiltLined ==
    ASSUME QueueTypeOK, Lined, NEW t \in Threads, NEW n, GroupBuilt(t, n)
    PROVE  Lined'
<1>1. /\ th[t].pc = "group" /\ holder = t /\ holder' = None /\ queue' = queue
      /\ th'[t].pc = "logging" /\ th'[t].done = th[t].done
      /\ \A u \in Threads \ {t} : th'[u] = th[u]
  BY DEF GroupBuilt, At, Quiet
<1>2. \A u \in Threads \ {t} : Roused(th'[u], th[u])
  BY <1>1 DEF Roused, Alike
<1>3. Distinct' /\ Queued' /\ Waiting' /\ FirstLeads'
  BY <1>1, <1>2, LeaderLined DEF Leading
<1>4. None \notin Threads
  BY WriteQueueAssumption
<1>5. Exclusive'
  BY <1>1, <1>4 DEF Lined, Exclusive
<1> QED
  BY <1>3, <1>5 DEF Lined

\* ... its writing,
LEMMA LogsLined ==
    ASSUME QueueTypeOK, Lined, NEW t \in Threads, Logs(t)
    PROVE  Lined'
<1>1. /\ th[t].pc = "logging" /\ holder' = holder /\ queue' = queue
      /\ th'[t].pc = "relock" /\ th'[t].done = th[t].done
      /\ \A u \in Threads \ {t} : th'[u] = th[u]
  BY DEF Logs, At
<1>2. \A u \in Threads \ {t} : Roused(th'[u], th[u])
  BY <1>1 DEF Roused, Alike
<1>3. Distinct' /\ Queued' /\ Waiting' /\ FirstLeads'
  BY <1>1, <1>2, LeaderLined DEF Leading
<1>4. Exclusive'
  BY <1>1 DEF Lined, Exclusive
<1> QED
  BY <1>3, <1>4 DEF Lined

\* ... its publication,
LEMMA PublishesLined ==
    ASSUME QueueTypeOK, Lined, NEW t \in Threads, Publishes(t)
    PROVE  Lined'
<1>1. /\ th[t].pc = "relock" /\ holder = None /\ holder' = t /\ queue' = queue
      /\ th'[t].pc = "finish" /\ th'[t].done = th[t].done
      /\ \A u \in Threads \ {t} : Roused(th'[u], th[u])
  BY DEF Publishes, At, Alike
<1>2. Distinct' /\ Queued' /\ Waiting' /\ FirstLeads'
  BY <1>1, LeaderLined DEF Leading
<1>3. None \notin Threads
  BY WriteQueueAssumption
<1>4. Exclusive'
  BY <1>1, <1>3 DEF Lined, Exclusive, Roused
<1> QED
  BY <1>2, <1>4 DEF Lined

\* ... a step of the background thread,
LEMMA ApartLined ==
    ASSUME QueueTypeOK, Lined, Apart
    PROVE  Lined'
<1>1. holder' = holder /\ queue' = queue /\ \A u \in Threads : Roused(th'[u], th[u])
  BY DEF Apart, Quiet
<1>2. \A u \in Threads :
        /\ th'[u].done = th[u].done
        /\ (th'[u].pc \in Lining) <=> (th[u].pc \in Lining)
        /\ (th'[u].pc \in Leading) <=> (th[u].pc \in Leading)
        /\ (th'[u].pc \in {"check", "room", "group", "finish"})
             <=> (th[u].pc \in {"check", "room", "group", "finish"})
  BY <1>1 DEF Roused, Alike, Lining, Leading
<1>3. \A i \in DOMAIN queue : queue[i] \in Threads
  BY QueueDomain
<1>4. Distinct'
  BY <1>1 DEF Lined, Distinct
<1>5. Queued'
  BY <1>1, <1>2, <1>3 DEF Lined, Queued
<1>6. Waiting'
  BY <1>1, <1>2 DEF Lined, Waiting
<1>7. FirstLeads'
  BY <1>1, <1>2 DEF Lined, FirstLeads
<1>8. Exclusive'
  BY <1>1, <1>2 DEF Lined, Exclusive
<1> QED
  BY <1>4, <1>5, <1>6, <1>7, <1>8 DEF Lined

\* What is left of the queue when the first n have gone.
LEMMA RestOfQueue ==
    ASSUME QueueTypeOK, NEW n \in DOMAIN queue, queue' = SubSeq(queue, n + 1, Len(queue))
    PROVE  /\ Len(queue) \in Nat /\ n \in 1..Len(queue)
           /\ DOMAIN queue' = 1..(Len(queue) - n)
           /\ \A i \in DOMAIN queue' : i + n \in DOMAIN queue /\ queue'[i] = queue[i + n]
           /\ \A i \in DOMAIN queue : i > n => i - n \in DOMAIN queue' /\ queue'[i - n] = queue[i]
<1>1. Len(queue) \in Nat /\ n \in 1..Len(queue) /\ DOMAIN queue = 1..Len(queue)
  BY DEF QueueTypeOK
<1>2. /\ Len(queue') = Len(queue) - n /\ DOMAIN queue' = 1..Len(queue')
      /\ \A i \in 1..Len(queue') : queue'[i] = queue[i + n]
  BY <1>1 DEF QueueTypeOK
<1> QED
  BY <1>1, <1>2

\* ... and its end: the first n leave, and the rest moves up.
LEMMA FinishesLined ==
    ASSUME QueueTypeOK, Lined, NEW t \in Threads, NEW n \in DOMAIN queue, Finishes(t, n)
    PROVE  Lined'
<1>1. /\ th[t].pc = "finish" /\ holder = t /\ holder' = None
      /\ th'[t].pc \in {"out", "await"}
  BY DEF Finishes, At, Returned
<1>2. queue' = SubSeq(queue, n + 1, Len(queue))
  BY DEF Finishes
<1>3. \A u \in Threads \ {t} :
        /\ Resumed(th'[u], th[u])
        /\ u \in {queue[i] : i \in 1..n} => th'[u].done
        /\ u \notin {queue[i] : i \in 1..n} => th'[u].done = th[u].done
  BY DEF Finishes
<1>4. queue # <<>> /\ queue[1] = t
  BY <1>1 DEF Lined, FirstLeads, Leading
<1>5. None \notin Threads
  BY WriteQueueAssumption
<1>6. /\ Len(queue) \in Nat /\ n \in 1..Len(queue)
      /\ DOMAIN queue' = 1..(Len(queue) - n)
      /\ \A i \in DOMAIN queue' : i + n \in DOMAIN queue /\ queue'[i] = queue[i + n]
      /\ \A i \in DOMAIN queue : i > n => i - n \in DOMAIN queue' /\ queue'[i - n] = queue[i]
  BY <1>2, RestOfQueue
<1>7. /\ DOMAIN queue = 1..Len(queue)
      /\ \A i \in DOMAIN queue : queue[i] \in Threads
  BY QueueDomain
<1>8. ASSUME NEW i \in DOMAIN queue'
      PROVE  /\ queue'[i] \in Threads \ {t}
             /\ queue'[i] \notin {queue[j] : j \in 1..n}
             /\ th[queue'[i]].pc \in Lining /\ ~ th[queue'[i]].done
  <2>1. i + n \in DOMAIN queue /\ queue'[i] = queue[i + n] /\ i + n > n
    BY <1>6
  <2>2. \A j \in 1..n : j \in DOMAIN queue /\ queue[j] # queue[i + n]
    BY <2>1, <1>6, <1>7 DEF Lined, Distinct
  <2>3. 1 \in 1..n
    BY <1>6
  <2> QED BY <2>1, <2>2, <2>3, <1>4, <1>7 DEF Lined, Queued
<1>9. Distinct'
  <2> SUFFICES ASSUME NEW i \in DOMAIN queue', NEW j \in DOMAIN queue', queue'[i] = queue'[j]
               PROVE  i = j
    BY DEF Distinct
  <2>1. i + n \in DOMAIN queue /\ j + n \in DOMAIN queue /\ queue[i + n] = queue[j + n]
    BY <1>6
  <2>2. i + n = j + n
    BY <2>1 DEF Lined, Distinct
  <2> QED BY <1>6, <2>2
<1>10. Queued'
  <2> SUFFICES ASSUME NEW i \in DOMAIN queue'
               PROVE  th'[queue'[i]].pc \in Lining /\ ~ th'[queue'[i]].done
    BY DEF Queued
  <2> QED BY <1>3, <1>8 DEF Resumed, Lining
<1>11. Waiting'
  <2> SUFFICES ASSUME NEW u \in Threads, th'[u].pc \in Lining, ~ th'[u].done
               PROVE  \E i \in DOMAIN queue' : queue'[i] = u
    BY DEF Waiting
  <2>1. u # t
    BY <1>1 DEF Lining, Leading
  <2>2. u \notin {queue[i] : i \in 1..n} /\ ~ th[u].done /\ th[u].pc \in Lining
    BY <1>3, <2>1 DEF Resumed, Lining
  <2>3. PICK i \in DOMAIN queue : queue[i] = u
    BY <2>2 DEF Lined, Waiting
  <2>4. i > n
    BY <2>2, <2>3, <1>6, <1>7
  <2> QED BY <1>6, <2>3, <2>4
<1>12. FirstLeads'
  <2> SUFFICES ASSUME NEW u \in Threads, th'[u].pc \in Leading PROVE FALSE
    BY DEF FirstLeads
  <2>1. u # t
    BY <1>1 DEF Leading
  <2>2. th[u].pc \in Leading
    BY <1>3, <2>1 DEF Resumed, Leading
  <2> QED BY <1>4, <2>1, <2>2 DEF Lined, FirstLeads
<1>13. Exclusive'
  BY <1>1, <1>3, <1>5 DEF Lined, Exclusive, Resumed
<1> QED
  BY <1>9, <1>10, <1>11, <1>12, <1>13 DEF Lined

-----------------------------------------------------------------------------
(* Groups *)

\* A call that came after an error knows of an error,
Late == \A t \in Threads : th[t].late => bgError

\* ... no group is built after one,
Builds == \A t \in Threads : th[t].pc = "group" => ~ bgError

\* ... a thread that has built no group is its own last writer,
OwnLast == \A t \in Threads : (th[t].pc \in Lining \ Committing) => th[t].last = t

\* ... the last writer of a group is in the queue,
Ends == \A t \in Threads :
  (th[t].pc \in Committing) => \E n \in DOMAIN queue : queue[n] = th[t].last

\* ... nobody in a group that may succeed came after an error, or wants a sync
\* that the leader does not do,
Together == \A t \in Threads : (th[t].pc \in Committing /\ th[t].ok) =>
  \A n \in DOMAIN queue : queue[n] = th[t].last =>
    \A i \in 1..n : /\ ~ th[queue[i]].late
                    /\ th[queue[i]].req.sync => th[t].req.sync

\* ... only flushes wait for the memtable, and none that came after an error,
Compacts == \A t \in Threads :
  (th[t].pc \in {"await", "awaiting"}) => (~ th[t].late /\ ~ th[t].req.batch)

\* ... and no call that came after an error was told it succeeded.
Told == \A t \in Threads : ((th[t].done \/ th[t].pc = "out") /\ th[t].late) => ~ th[t].ok

\* What a group may hold.
Grouped == Late /\ Builds /\ OwnLast /\ Ends /\ Together /\ Compacts /\ Told

\* There is no group at the start.
LEMMA InitGrouped == Init => Grouped
<1> SUFFICES ASSUME Init PROVE Grouped
  OBVIOUS
<1>1. \A t \in Threads : th[t].pc = "out" /\ ~ th[t].late
  BY DEF Init
<1> QED
  BY <1>1 DEF Grouped, Late, Builds, OwnLast, Ends, Together, Compacts, Told, Lining, Leading,
              Committing

\* The thread at the front leads, and no other does.
LEMMA OneLeads ==
    ASSUME QueueTypeOK, Lined, NEW t \in Threads, NEW u \in Threads,
           th[t].pc \in Leading, th[u].pc \in Leading
    PROVE  u = t
BY DEF Lined, FirstLeads

\* Groups stay what they may be through a turn,
LEMMA TurnGrouped ==
    ASSUME QueueTypeOK, Lined, Grouped, NEW t \in Threads, NEW p, NEW o, Turn(t, p, o)
    PROVE  Grouped'
<1>1. /\ queue' = queue /\ bgError' = bgError
      /\ th'[t].pc = p /\ th'[t].ok = o /\ Alike(th'[t], th[t])
      /\ \A u \in Threads \ {t} : th'[u] = th[u]
  BY DEF Turn, Moved, Quiet
<1>2. \A u \in Threads :
        /\ th'[u].late = th[u].late /\ th'[u].req = th[u].req /\ th'[u].last = th[u].last
        /\ th'[u].done = th[u].done
  BY <1>1 DEF Alike
<1>3. \A i \in DOMAIN queue : queue[i] \in Threads
  BY QueueDomain
<1>4. Late'
  BY <1>1, <1>2 DEF Grouped, Late
<1>5. Builds'
  BY <1>1 DEF Grouped, Builds, Turn, At, Returned
<1>6. OwnLast'
  <2>1. p \in Lining \ Committing => th[t].pc \in Lining \ Committing
    BY DEF Turn, At, Lining, Leading, Committing, Returned
  <2> QED BY <1>1, <1>2, <2>1 DEF Grouped, OwnLast
<1>7. ASSUME p \in Committing
      PROVE  /\ th[t].pc = "room" /\ p = "finish" /\ th[t].last = t
             /\ 1 \in DOMAIN queue /\ queue[1] = t
             /\ o => ~ bgError
  <2>1. th[t].pc = "room" /\ p = "finish" /\ (o => ~ bgError)
    BY <1>7 DEF Turn, At, Committing, Returned
  <2>2. th[t].last = t /\ queue # <<>> /\ queue[1] = t
    BY <2>1 DEF Grouped, OwnLast, Lined, FirstLeads, Leading, Lining, Committing
  <2> QED BY <2>1, <2>2, QueueDomain
<1>8. Ends'
  <2> SUFFICES ASSUME NEW u \in Threads, th'[u].pc \in Committing
               PROVE  \E n \in DOMAIN queue : queue[n] = th[u].last
    BY <1>1, <1>2 DEF Ends
  <2>1. CASE u = t
    BY <1>1, <1>7, <2>1
  <2>2. CASE u # t
    BY <1>1, <2>2 DEF Grouped, Ends
  <2> QED BY <2>1, <2>2
<1>9. Together'
  <2> SUFFICES ASSUME NEW u \in Threads, th'[u].pc \in Committing, th'[u].ok,
                      NEW n \in DOMAIN queue, queue[n] = th[u].last, NEW i \in 1..n
               PROVE  ~ th[queue[i]].late /\ (th[queue[i]].req.sync => th[u].req.sync)
    <3>1. \A n \in DOMAIN queue : \A i \in 1..n : queue[i] \in Threads
      BY <1>3, QueueDomain
    <3> QED BY <1>1, <1>2, <3>1 DEF Together
  <2>1. CASE u = t
    <3>1. n = 1 /\ i = 1
      BY <1>1, <1>7, <2>1 DEF Lined, Distinct
    <3> QED BY <1>1, <1>7, <2>1, <3>1 DEF Grouped, Late
  <2>2. CASE u # t
    BY <1>1, <2>2 DEF Grouped, Together
  <2> QED BY <2>1, <2>2
<1>10. Compacts'
  <2>1. p \in {"await", "awaiting"} => ~ th[t].late /\ ~ th[t].req.batch
    <3>1. CASE th[t].pc = "await"
      BY <3>1 DEF Grouped, Compacts
    <3>2. CASE th[t].pc # "await" /\ p \in {"await", "awaiting"}
      <4>1. th[t].done /\ ~ th[t].req.batch /\ th[t].ok
        BY <3>2 DEF Turn, At, Returned
      <4> QED BY <4>1 DEF Grouped, Told
    <3> QED BY <3>1, <3>2
  <2> QED BY <1>1, <1>2, <2>1 DEF Grouped, Compacts
<1>11. Told'
  <2>1. ASSUME th[t].done \/ p = "out", th[t].late
        PROVE  ~ o
    <3>1. o = th[t].ok \/ ~ o \/ th[t].pc = "await"
      BY DEF Turn, At
    <3>2. th[t].pc # "await"
      BY <2>1 DEF Grouped, Compacts
    <3>3. p = "out" => th[t].done
      BY <3>2 DEF Turn, At
    <3> QED BY <2>1, <3>1, <3>2, <3>3 DEF Grouped, Told
  <2> QED BY <1>1, <1>2, <2>1 DEF Grouped, Told
<1> QED
  BY <1>4, <1>5, <1>6, <1>8, <1>9, <1>10, <1>11 DEF Grouped

\* ... a call, which joins behind every group,
LEMMA EnteredGrouped ==
    ASSUME QueueTypeOK, Lined, Grouped, NEW t \in Threads, Entered(t)
    PROVE  Grouped'
<1>1. /\ th[t].pc = "out" /\ holder = None /\ queue' = Append(queue, t) /\ bgError' = bgError
      /\ th'[t].pc = "check" /\ ~ th'[t].done /\ th'[t].late = bgError /\ th'[t].last = t
      /\ \A u \in Threads \ {t} : th'[u] = th[u]
  BY DEF Entered, At
<1>2. /\ Len(queue) \in Nat /\ DOMAIN queue = 1..Len(queue)
      /\ DOMAIN queue' = 1..(Len(queue) + 1) /\ queue'[Len(queue) + 1] = t
      /\ \A i \in 1..Len(queue) : queue'[i] = queue[i] /\ queue[i] \in Threads
  BY <1>1 DEF QueueTypeOK
<1>3. \A i \in DOMAIN queue : queue[i] # t
  BY <1>1 DEF Lined, Queued, Lining, Leading
<1>4. Late'
  BY <1>1 DEF Grouped, Late
<1>5. Builds'
  BY <1>1 DEF Grouped, Builds
<1>6. OwnLast'
  BY <1>1 DEF Grouped, OwnLast
<1>7. Ends'
  BY <1>1, <1>2 DEF Grouped, Ends, Committing
<1>8. Together'
  <2> SUFFICES ASSUME NEW u \in Threads, th'[u].pc \in Committing, th'[u].ok,
                      NEW n \in DOMAIN queue', queue'[n] = th'[u].last, NEW i \in 1..n
               PROVE  /\ ~ th'[queue'[i]].late
                      /\ th'[queue'[i]].req.sync => th'[u].req.sync
    BY DEF Together
  <2>1. u # t /\ th'[u] = th[u]
    BY <1>1 DEF Committing
  <2>2. PICK m \in DOMAIN queue : queue[m] = th[u].last
    BY <2>1 DEF Grouped, Ends
  <2>3. n = m
    BY <1>2, <1>3, <2>1, <2>2 DEF Lined, Distinct
  <2>4. i \in DOMAIN queue /\ queue'[i] = queue[i] /\ queue[i] \in Threads \ {t}
    BY <1>2, <1>3, <2>3
  <2>5. ~ th[queue[i]].late /\ (th[queue[i]].req.sync => th[u].req.sync)
    BY <2>1, <2>2, <2>3 DEF Grouped, Together
  <2> QED BY <1>1, <2>1, <2>4, <2>5
<1>9. Compacts'
  BY <1>1 DEF Grouped, Compacts
<1>10. Told'
  BY <1>1 DEF Grouped, Told
<1> QED
  BY <1>4, <1>5, <1>6, <1>7, <1>8, <1>9, <1>10 DEF Grouped

\* ... a group built where there is no error, up to a sync it does not do,
LEMMA BuiltGrouped ==
    ASSUME QueueTypeOK, Lined, Grouped, NEW t \in Threads, NEW n \in DOMAIN queue,
           GroupBuilt(t, n)
    PROVE  Grouped'
<1>1. /\ th[t].pc = "group" /\ queue' = queue /\ bgError' = bgError
      /\ th'[t].pc = "logging" /\ th'[t].last = queue[n]
      /\ th'[t].req = th[t].req /\ th'[t].done = th[t].done /\ th'[t].late = th[t].late
      /\ \A i \in 2..n : th[queue[i]].req.sync => th[t].req.sync
      /\ \A u \in Threads \ {t} : th'[u] = th[u]
  BY DEF GroupBuilt, At, Quiet
<1>2. /\ Len(queue) \in Nat /\ DOMAIN queue = 1..Len(queue)
      /\ \A i \in DOMAIN queue : queue[i] \in Threads
  BY QueueDomain
<1>3. ~ bgError /\ queue # <<>> /\ queue[1] = t
  BY <1>1 DEF Grouped, Builds, Lined, FirstLeads, Leading
<1>4. \A u \in Threads : ~ th'[u].late /\ th'[u].req = th[u].req
  BY <1>1, <1>3 DEF Grouped, Late
<1>5. Late' /\ Builds'
  BY <1>1, <1>3, <1>4 DEF Grouped, Late, Builds
<1>6. OwnLast'
  BY <1>1 DEF Grouped, OwnLast, Committing
<1>7. Ends'
  BY <1>1 DEF Grouped, Ends
<1>8. Together'
  <2> SUFFICES ASSUME NEW u \in Threads, th'[u].pc \in Committing,
                      NEW m \in DOMAIN queue, queue[m] = th'[u].last, NEW i \in 1..m
               PROVE  ~ th'[queue[i]].late /\ (th'[queue[i]].req.sync => th'[u].req.sync)
    BY <1>1 DEF Together
  <2>1. u = t
    <3>1. u # t => th[u].pc \in Committing
      BY <1>1
    <3> QED BY <1>1, <3>1, OneLeads DEF Leading, Committing
  <2>2. m = n
    BY <1>1, <2>1 DEF Lined, Distinct
  <2>3. i \in DOMAIN queue /\ queue[i] \in Threads /\ (i = 1 \/ i \in 2..n)
    BY <1>2, <2>2
  <2>4. th[queue[i]].req.sync => th[t].req.sync
    BY <1>1, <1>3, <2>3
  <2> QED BY <1>4, <2>1, <2>3, <2>4
<1>9. Compacts'
  BY <1>1 DEF Grouped, Compacts
<1>10. Told'
  BY <1>4 DEF Told
<1> QED
  BY <1>5, <1>6, <1>7, <1>8, <1>9, <1>10 DEF Grouped

\* A step that leaves the calls, the queue and the places of its groups alone.
LEMMA KeptGrouped ==
    ASSUME QueueTypeOK, Lined, Grouped, queue' = queue, bgError => bgError', Builds',
           \A u \in Threads :
             /\ th'[u].late = th[u].late /\ th'[u].req = th[u].req
             /\ th'[u].last = th[u].last /\ th'[u].done = th[u].done
             /\ th'[u].ok => th[u].ok
             /\ (th'[u].pc \in Committing) <=> (th[u].pc \in Committing)
             /\ (th'[u].pc \in Lining) <=> (th[u].pc \in Lining)
             /\ (th'[u].pc \in {"await", "awaiting"}) <=> (th[u].pc \in {"await", "awaiting"})
             /\ th'[u].pc = "out" => th[u].pc = "out"
    PROVE  Grouped'
<1>1. \A n \in DOMAIN queue : \A i \in 1..n : queue[i] \in Threads
  BY QueueDomain
<1>2. Late'
  BY DEF Grouped, Late
<1>3. OwnLast'
  BY DEF Grouped, OwnLast
<1>4. Ends'
  BY DEF Grouped, Ends
<1>5. Together'
  BY <1>1 DEF Grouped, Together
<1>6. Compacts'
  BY DEF Grouped, Compacts
<1>7. Told'
  BY DEF Grouped, Told
<1> QED
  BY <1>2, <1>3, <1>4, <1>5, <1>6, <1>7 DEF Grouped

\* ... its writing,
LEMMA LogsGrouped ==
    ASSUME QueueTypeOK, Lined, Grouped, NEW t \in Threads, Logs(t)
    PROVE  Grouped'
<1>1. /\ th[t].pc = "logging" /\ th'[t].pc = "relock" /\ queue' = queue /\ bgError' = bgError
      /\ th'[t].late = th[t].late /\ th'[t].req = th[t].req /\ th'[t].last = th[t].last
      /\ th'[t].done = th[t].done /\ (th'[t].ok => th[t].ok)
      /\ \A u \in Threads \ {t} : th'[u] = th[u]
  BY DEF Logs, At
<1>2. Builds'
  BY <1>1 DEF Grouped, Builds
<1> QED
  BY <1>1, <1>2, KeptGrouped DEF Committing, Lining, Leading

\* ... its publication: nobody is building while bg_error_ is set,
LEMMA PublishesGrouped ==
    ASSUME QueueTypeOK, Lined, Grouped, NEW t \in Threads, Publishes(t)
    PROVE  Grouped'
<1>1. /\ th[t].pc = "relock" /\ th'[t].pc = "finish" /\ queue' = queue /\ (bgError => bgError')
      /\ holder = None /\ th'[t].ok = th[t].ok /\ Alike(th'[t], th[t])
      /\ \A u \in Threads \ {t} : Roused(th'[u], th[u])
  BY DEF Publishes, At
<1>2. \A u \in Threads : th[u].pc # "group"
  BY <1>1, WriteQueueAssumption DEF Lined, Exclusive
<1>3. Builds'
  BY <1>1, <1>2 DEF Builds, Roused
<1> QED
  BY <1>1, <1>3, KeptGrouped DEF Committing, Lining, Leading, Roused, Alike

\* ... a step of the background thread, which needs the mutex for that too,
LEMMA ApartGrouped ==
    ASSUME QueueTypeOK, Lined, Grouped, Apart
    PROVE  Grouped'
<1>1. /\ queue' = queue /\ (bgError => bgError')
      /\ bgError' # bgError => holder = None
      /\ \A u \in Threads : Roused(th'[u], th[u])
  BY DEF Apart, Quiet
<1>2. Builds'
  <2> SUFFICES ASSUME NEW u \in Threads, th'[u].pc = "group" PROVE bgError' = bgError /\ ~ bgError
    BY DEF Builds
  <2>1. th[u].pc = "group"
    BY <1>1 DEF Roused
  <2>2. holder # None
    BY <2>1, WriteQueueAssumption DEF Lined, Exclusive
  <2> QED BY <1>1, <2>1, <2>2 DEF Grouped, Builds
<1> QED
  BY <1>1, <1>2, KeptGrouped DEF Committing, Lining, Leading, Roused, Alike

\* ... and its end: the status of the leader is right for every member.
LEMMA FinishesGrouped ==
    ASSUME QueueTypeOK, Lined, Grouped, NEW t \in Threads, NEW n \in DOMAIN queue,
           Finishes(t, n)
    PROVE  Grouped'
<1>1. /\ th[t].pc = "finish" /\ bgError' = bgError /\ queue[n] = th[t].last
      /\ th'[t].pc = Returned(t) /\ th'[t].ok = th[t].ok /\ Alike(th'[t], th[t])
      /\ \A u \in Threads \ {t} :
           /\ Resumed(th'[u], th[u]) /\ th'[u].req = th[u].req
           /\ th'[u].last = th[u].last /\ th'[u].late = th[u].late
           /\ IF u \in {queue[i] : i \in 1..n} THEN th'[u].done /\ th'[u].ok = th[t].ok
              ELSE th'[u].done = th[u].done /\ th'[u].ok = th[u].ok
  BY DEF Finishes, At
<1>2. /\ Len(queue) \in Nat /\ DOMAIN queue = 1..Len(queue)
      /\ queue # <<>> /\ queue[1] = t
  BY <1>1, QueueDomain DEF Lined, FirstLeads, Leading
<1>3. th[t].ok => \A i \in 1..n : ~ th[queue[i]].late
  BY <1>1 DEF Grouped, Together, Committing
<1>4. th[t].ok => ~ th[t].late
  <2>1. 1 \in 1..n
    BY <1>2
  <2> QED BY <1>2, <1>3, <2>1
<1>5. ~ th[t].done
  BY <1>2, QueueDomain DEF Lined, Queued
<1>6. ASSUME NEW u \in Threads PROVE th'[u].pc \notin Committing
  <2>1. CASE u = t
    BY <1>1, <2>1 DEF Returned, Committing
  <2>2. CASE u # t
    <3>1. th[u].pc \notin Leading
      BY <1>1, <2>2, OneLeads DEF Leading
    <3> QED BY <1>1, <2>2, <3>1 DEF Resumed, Leading, Committing
  <2> QED BY <2>1, <2>2
<1>7. Late'
  BY <1>1 DEF Grouped, Late, Alike
<1>8. Builds'
  BY <1>1 DEF Grouped, Builds, Returned, Resumed
<1>9. OwnLast'
  <2>1. ASSUME NEW u \in Threads \ {t}, th'[u].pc \in Lining \ Committing
        PROVE  th[u].pc \in Lining \ Committing
    BY <1>1, <2>1 DEF Resumed, Lining, Committing
  <2> QED BY <1>1, <2>1 DEF Grouped, OwnLast, Returned, Lining, Leading
<1>10. Ends' /\ Together'
  BY <1>6 DEF Ends, Together
<1>11. Compacts'
  BY <1>1, <1>4 DEF Grouped, Compacts, Returned, Resumed, Alike
<1>12. Told'
  <2> SUFFICES ASSUME NEW u \in Threads, th'[u].done \/ th'[u].pc = "out", th'[u].late, th'[u].ok
               PROVE  FALSE
    BY DEF Told
  <2>1. CASE u = t
    BY <1>1, <1>4, <2>1 DEF Alike
  <2>2. CASE u # t /\ u \in {queue[i] : i \in 1..n}
    BY <1>1, <1>3, <2>2
  <2>3. CASE u # t /\ u \notin {queue[i] : i \in 1..n}
    BY <1>1, <2>3 DEF Grouped, Told, Resumed
  <2> QED BY <2>1, <2>2, <2>3
<1> QED
  BY <1>7, <1>8, <1>9, <1>10, <1>11, <1>12 DEF Grouped

-----------------------------------------------------------------------------
(* What a group holds *)

\* The group of t is the batches of the first n of the queue, each once.
Batches(t, n) ==
  /\ \A i \in 1..n : th[queue[i]].req.batch =>
       \E j \in DOMAIN th[t].group : th[t].group[j] = queue[i]
  /\ \A j \in DOMAIN th[t].group :
       \E i \in 1..n : th[t].group[j] = queue[i] /\ th[queue[i]].req.batch
  /\ \A i, j \in DOMAIN th[t].group : th[t].group[i] = th[t].group[j] => i = j

\* It stays so until it has been written.
Gathered == \A t \in Threads : th[t].pc = "logging" =>
  \A n \in DOMAIN queue : queue[n] = th[t].last => Batches(t, n)

\* Nobody is writing at the start.
LEMMA InitGathered == Init => Gathered
BY DEF Init, Gathered

\* What matters to a group of the first n of the queue.
LEMMA SameBatches ==
    ASSUME QueueTypeOK, NEW t \in Threads, NEW n \in DOMAIN queue, Batches(t, n),
           th'[t].group = th[t].group,
           \A i \in 1..n : queue'[i] = queue[i],
           \A i \in 1..n : th'[queue[i]].req = th[queue[i]].req
    PROVE  Batches(t, n)'
BY DEF Batches

\* BuildBatchGroup gathers the batches up to the last writer.
LEMMA BuiltGathered ==
    ASSUME QueueTypeOK, Lined, Gathered, NEW t \in Threads, NEW n \in DOMAIN queue,
           GroupBuilt(t, n)
    PROVE  Gathered'
<1> DEFINE W == {w \in Threads : th[w].req.batch}
           s == SubSeq(queue, 1, n)
<1>1. /\ th[t].pc = "group" /\ queue' = queue /\ th'[t].last = queue[n]
      /\ th'[t].group = Members(s, W) /\ th'[t].req = th[t].req
      /\ \A u \in Threads \ {t} : th'[u] = th[u]
  BY DEF GroupBuilt, At, Quiet
<1>2. /\ s \in Seq(Threads) /\ DOMAIN s = 1..n
      /\ \A i \in 1..n : i \in DOMAIN queue /\ s[i] = queue[i] /\ queue[i] \in Threads
  BY DEF QueueTypeOK
<1> HIDE DEF s
<1>3. \A i, j \in DOMAIN s : s[i] = s[j] => i = j
  BY <1>2 DEF Lined, Distinct
<1> HIDE DEF W
<1>4. /\ \A i \in DOMAIN s : s[i] \in W =>
            \E j \in DOMAIN Members(s, W) : Members(s, W)[j] = s[i]
      /\ \A j \in DOMAIN Members(s, W) :
            \E i \in DOMAIN s : Members(s, W)[j] = s[i] /\ s[i] \in W
      /\ \A i, j \in DOMAIN Members(s, W) :
            Members(s, W)[i] = Members(s, W)[j] => i = j
  BY <1>2, <1>3, MembersOf
<1>5. \A i \in 1..n : (s[i] \in W) <=> th'[queue'[i]].req.batch
  BY <1>1, <1>2 DEF W
<1>6. PICK g : g = Members(s, W)
  OBVIOUS
<1>7. Batches(t, n)'
  BY <1>1, <1>2, <1>4, <1>5, <1>6 DEF Batches
<1>8. ASSUME NEW u \in Threads, th'[u].pc = "logging" PROVE u = t
  <2>1. u # t => th[u].pc = "logging"
    BY <1>1, <1>8
  <2> QED BY <1>1, <2>1, OneLeads DEF Leading
<1>9. \A m \in DOMAIN queue : queue[m] = queue[n] => m = n
  BY DEF Lined, Distinct
<1> QED
  BY <1>1, <1>7, <1>8, <1>9 DEF Gathered

\* A call joins behind.
LEMMA EnteredGathered ==
    ASSUME QueueTypeOK, Lined, Grouped, Gathered, NEW t \in Threads, Entered(t)
    PROVE  Gathered'
<1>1. /\ th[t].pc = "out" /\ queue' = Append(queue, t) /\ th'[t].pc = "check"
      /\ \A u \in Threads \ {t} : th'[u] = th[u]
  BY DEF Entered, At
<1>2. /\ Len(queue) \in Nat /\ DOMAIN queue = 1..Len(queue)
      /\ DOMAIN queue' = 1..(Len(queue) + 1) /\ queue'[Len(queue) + 1] = t
      /\ \A i \in 1..Len(queue) : queue'[i] = queue[i] /\ queue[i] \in Threads
  BY <1>1 DEF QueueTypeOK
<1>3. \A i \in DOMAIN queue : queue[i] # t
  BY <1>1 DEF Lined, Queued, Lining, Leading
<1> SUFFICES ASSUME NEW u \in Threads, th'[u].pc = "logging",
                    NEW n \in DOMAIN queue', queue'[n] = th'[u].last
             PROVE  Batches(u, n)'
  BY DEF Gathered
<1>4. u # t /\ th'[u] = th[u]
  BY <1>1
<1>5. PICK m \in DOMAIN queue : queue[m] = th[u].last
  BY <1>4 DEF Grouped, Ends, Committing
<1>6. n = m
  BY <1>2, <1>3, <1>4, <1>5 DEF Lined, Distinct
<1>7. \A i \in 1..n : queue'[i] = queue[i] /\ queue[i] \in Threads \ {t}
  BY <1>2, <1>3, <1>6
<1>8. Batches(u, n)
  BY <1>4, <1>5, <1>6 DEF Gathered
<1> QED
  BY <1>1, <1>4, <1>6, <1>7, <1>8, SameBatches

\* Steps that keep the queue and begin no logging.
LEMMA KeptGathered ==
    ASSUME QueueTypeOK, Gathered, queue' = queue,
           \A u \in Threads :
             /\ th'[u].pc = "logging" => th[u].pc = "logging"
             /\ th'[u].req = th[u].req /\ th'[u].last = th[u].last
             /\ th'[u].group = th[u].group
    PROVE  Gathered'
<1> SUFFICES ASSUME NEW u \in Threads, th'[u].pc = "logging",
                    NEW n \in DOMAIN queue, queue[n] = th'[u].last
             PROVE  Batches(u, n)'
  BY DEF Gathered
<1>1. Batches(u, n)
  BY DEF Gathered
<1>2. \A i \in 1..n : queue[i] \in Threads
  BY QueueDomain
<1> QED
  BY <1>1, <1>2, SameBatches

\* A turn leaves the group that is being written,
LEMMA TurnGathered ==
    ASSUME QueueTypeOK, Gathered, NEW t \in Threads, NEW p, NEW o, Turn(t, p, o)
    PROVE  Gathered'
<1>1. /\ queue' = queue /\ th'[t].pc = p /\ Alike(th'[t], th[t])
      /\ \A u \in Threads \ {t} : th'[u] = th[u]
  BY DEF Turn, Moved, Quiet
<1>2. p # "logging"
  BY DEF Turn, At, Returned
<1> QED
  BY <1>1, <1>2, KeptGathered DEF Alike

\* ... no other is written,
LEMMA LogsGathered ==
    ASSUME QueueTypeOK, Gathered, NEW t \in Threads, Logs(t)
    PROVE  Gathered'
<1>1. /\ queue' = queue /\ th'[t].pc = "relock" /\ th'[t].req = th[t].req
      /\ th'[t].last = th[t].last /\ th'[t].group = th[t].group
      /\ \A u \in Threads \ {t} : th'[u] = th[u]
  BY DEF Logs
<1> QED
  BY <1>1, KeptGathered

\* ... or published,
LEMMA PublishesGathered ==
    ASSUME QueueTypeOK, Gathered, NEW t \in Threads, Publishes(t)
    PROVE  Gathered'
<1>1. /\ queue' = queue /\ th'[t].pc = "finish" /\ Alike(th'[t], th[t])
      /\ \A u \in Threads \ {t} : Roused(th'[u], th[u])
  BY DEF Publishes
<1> QED
  BY <1>1, KeptGathered DEF Alike, Roused

\* ... the background thread leaves it,
LEMMA ApartGathered ==
    ASSUME QueueTypeOK, Gathered, Apart
    PROVE  Gathered'
<1>1. queue' = queue /\ \A u \in Threads : Roused(th'[u], th[u])
  BY DEF Apart, Quiet
<1> QED
  BY <1>1, KeptGathered DEF Alike, Roused

\* ... and none ends while one is being written.
LEMMA FinishesGathered ==
    ASSUME QueueTypeOK, Lined, NEW t \in Threads, NEW n \in DOMAIN queue, Finishes(t, n)
    PROVE  Gathered'
<1>1. /\ th[t].pc = "finish" /\ th'[t].pc = Returned(t)
      /\ \A u \in Threads \ {t} : Resumed(th'[u], th[u])
  BY DEF Finishes, At
<1>2. ASSUME NEW u \in Threads PROVE th'[u].pc # "logging"
  <2>1. u # t => th[u].pc # "logging"
    BY <1>1, OneLeads DEF Leading
  <2> QED BY <1>1, <2>1 DEF Resumed, Returned
<1> QED
  BY <1>2 DEF Gathered

\* What the log and the tables hold of one call.
Once(s, x) == \E i \in DOMAIN s : \A j \in DOMAIN s : (s[j].id = x) <=> (j = i)

\* What is in s once, and not in r, is in both together once,
LEMMA OnceStays ==
    ASSUME NEW s \in Seq(Entry), NEW r \in Seq(Entry), NEW x,
           Once(s, x), \A j \in DOMAIN r : r[j].id # x
    PROVE  Once(s \o r, x)
<1>1. PICK i \in DOMAIN s : \A j \in DOMAIN s : (s[j].id = x) <=> (j = i)
  BY DEF Once
<1>2. /\ Len(s) \in Nat /\ Len(r) \in Nat /\ DOMAIN s = 1..Len(s) /\ DOMAIN r = 1..Len(r)
      /\ DOMAIN (s \o r) = 1..(Len(s) + Len(r))
      /\ \A j \in 1..Len(s) : (s \o r)[j] = s[j]
      /\ \A j \in (Len(s) + 1)..(Len(s) + Len(r)) :
           (s \o r)[j] = r[j - Len(s)] /\ j - Len(s) \in 1..Len(r)
  OBVIOUS
<1>3. PICK q : q = s \o r
  OBVIOUS
<1>4. i \in DOMAIN q
  BY <1>2, <1>3
<1>5. ASSUME NEW j \in DOMAIN q PROVE (q[j].id = x) <=> (j = i)
  <2>1. CASE j \in 1..Len(s)
    BY <1>1, <1>2, <1>3, <2>1
  <2>2. CASE j \in (Len(s) + 1)..(Len(s) + Len(r))
    BY <1>1, <1>2, <1>3, <2>2
  <2> QED BY <1>2, <1>3, <2>1, <2>2
<1> QED
  BY <1>3, <1>4, <1>5 DEF Once

\* ... and so is what is in r once and not in s.
LEMMA OnceCome ==
    ASSUME NEW s \in Seq(Entry), NEW r \in Seq(Entry), NEW x,
           Once(r, x), \A j \in DOMAIN s : s[j].id # x
    PROVE  Once(s \o r, x)
<1>1. PICK i \in DOMAIN r : \A j \in DOMAIN r : (r[j].id = x) <=> (j = i)
  BY DEF Once
<1>2. /\ Len(s) \in Nat /\ Len(r) \in Nat /\ DOMAIN s = 1..Len(s) /\ DOMAIN r = 1..Len(r)
      /\ DOMAIN (s \o r) = 1..(Len(s) + Len(r))
      /\ \A j \in 1..Len(s) : (s \o r)[j] = s[j]
      /\ \A j \in (Len(s) + 1)..(Len(s) + Len(r)) :
           (s \o r)[j] = r[j - Len(s)] /\ j - Len(s) \in 1..Len(r)
  OBVIOUS
<1>3. PICK q : q = s \o r
  OBVIOUS
<1>4. i + Len(s) \in DOMAIN q
  BY <1>2, <1>3
<1>5. ASSUME NEW j \in DOMAIN q PROVE (q[j].id = x) <=> (j = i + Len(s))
  <2>1. CASE j \in 1..Len(s)
    BY <1>1, <1>2, <1>3, <2>1
  <2>2. CASE j \in (Len(s) + 1)..(Len(s) + Len(r))
    <3>1. (q[j].id = x) <=> (j - Len(s) = i)
      BY <1>1, <1>2, <1>3, <2>2
    <3> QED BY <1>1, <1>2, <2>2, <3>1
  <2> QED BY <1>2, <1>3, <2>1, <2>2
<1> QED
  BY <1>3, <1>4, <1>5 DEF Once

\* The ids of a group's records are those of its members, each once.
LEMMA RecordIds ==
    ASSUME QueueTypeOK, NEW t \in Threads, NEW u \in Threads
    PROVE  /\ (\A j \in DOMAIN th[t].group : th[t].group[j] # u) =>
                \A j \in DOMAIN Record(t) : Record(t)[j].id # Id(u)
           /\ (/\ \E j \in DOMAIN th[t].group : th[t].group[j] = u
               /\ \A i, j \in DOMAIN th[t].group : th[t].group[i] = th[t].group[j] => i = j)
              => Once(Record(t), Id(u))
<1>1. PICK r : r = Record(t)
  OBVIOUS
<1>2. th[t].group \in Seq(Threads)
  <2>1. th[t] \in Writer
    BY DEF QueueTypeOK
  <2> QED BY <2>1 DEF Writer
<1>3. PICK g \in Seq(Threads) : g = th[t].group
  BY <1>2
<1>4. /\ DOMAIN r = DOMAIN g /\ \A i \in DOMAIN g : r[i].id = Id(g[i]) /\ g[i] \in Threads
  <2>1. Len(g) \in Nat /\ DOMAIN g = 1..Len(g) /\ \A i \in DOMAIN g : g[i] \in Threads
    BY <1>3
  <2>2. r \in Seq(Entry) /\ Len(r) = Len(g) /\ \A i \in 1..Len(g) : r[i].id = Id(g[i])
    BY <1>1, <1>3, RecordType
  <2>3. DOMAIN r = 1..Len(r)
    BY <2>2
  <2> QED BY <2>1, <2>2, <2>3
<1>5. \A v \in Threads : Id(v) = Id(u) => v = u
  BY DEF Id
<1>6. (\A j \in DOMAIN g : g[j] # u) => \A j \in DOMAIN r : r[j].id # Id(u)
  BY <1>4, <1>5
<1>7. (/\ \E j \in DOMAIN g : g[j] = u
       /\ \A i, j \in DOMAIN g : g[i] = g[j] => i = j) => Once(r, Id(u))
  <2> SUFFICES ASSUME NEW i \in DOMAIN g, g[i] = u,
                      \A k, j \in DOMAIN g : g[k] = g[j] => k = j
               PROVE  Once(r, Id(u))
    OBVIOUS
  <2>1. \A j \in DOMAIN r : (r[j].id = Id(u)) <=> (j = i)
    BY <1>4, <1>5
  <2> QED BY <1>4, <2>1 DEF Once
<1> QED
  BY <1>1, <1>3, <1>6, <1>7

-----------------------------------------------------------------------------
(* What is kept *)

\* A batch is in the log once, applied once, and synced if that was asked for.
KeptIn(l, a, s, x, sync) ==
  /\ Once(l, x) /\ Once(a, x)
  /\ sync => \E i \in DOMAIN l : i <= s /\ l[i].id = x

\* The batch of u's call is kept.
Kept(u) == KeptIn(logged, Applied, synced, Id(u), th[u].req.sync)

\* Where a thread is that has written, or given up writing, its group.
Wrote == {"relock", "finish"}

\* Nothing in the log is of a call not made yet,
Past == \A i \in DOMAIN logged : logged[i].id[2] <= th[logged[i].id[1]].call

\* ... a batch whose call was told of success is kept,
Acknowledged == \A t \in Threads :
  (th[t].call > 0 /\ th[t].req.batch /\ th[t].ok /\ (th[t].done \/ th[t].pc = "out")) => Kept(t)

\* ... nothing of a queued call is in the log, but of those the leader has written,
Unwritten == \A i \in DOMAIN queue : Id(queue[i]) \in Ids(logged) =>
  \E t \in Threads, n \in DOMAIN queue :
    th[t].pc \in Wrote /\ queue[n] = th[t].last /\ i <= n

\* ... whose batches are kept if it is about to tell of success.
GroupKept == \A t \in Threads : (th[t].pc \in Wrote /\ th[t].ok) =>
  \A n \in DOMAIN queue : queue[n] = th[t].last =>
    \A i \in 1..n : th[queue[i]].req.batch => Kept(queue[i])

\* What the log and the tables hold of the calls.
Written == Past /\ Acknowledged /\ Unwritten /\ GroupKept

\* The log is empty at the start.
LEMMA InitWritten == Init => Written
<1> SUFFICES ASSUME Init PROVE Written
  OBVIOUS
<1>1. \A t \in Threads : th[t].pc = "out" /\ th[t].call = 0
  BY DEF Init
<1>2. DOMAIN logged = {} /\ DOMAIN queue = {}
  BY DEF Init
<1> QED
  BY <1>1, <1>2 DEF Written, Past, Acknowledged, Unwritten, GroupKept, Wrote

\* The types that the records of the log need.
LEMMA LogTypes ==
    ASSUME QueueTypeOK
    PROVE  /\ \A u \in Threads : th[u].call \in Nat
           /\ \A i \in DOMAIN logged : logged[i].id[1] \in Threads /\ logged[i].id[2] \in Nat
<1>1. \A u \in Threads : th[u].call \in Nat
  BY WriteQueueAssumption DEF QueueTypeOK, Writer
<1>2. \A i \in DOMAIN logged : logged[i].id \in Threads \X Nat
  <2>1. \A i \in DOMAIN logged : logged[i] \in Entry
    BY DEF QueueTypeOK
  <2> QED BY <2>1 DEF Entry
<1> QED
  BY <1>1, <1>2

\* Steps that write nothing.
LEMMA StillPast ==
    ASSUME QueueTypeOK, Past, logged' = logged,
           \A u \in Threads : th'[u].call = th[u].call
    PROVE  Past'
BY LogTypes DEF Past

\* ... they keep what was kept.
LEMMA StillKept ==
    ASSUME NEW u \in Threads, UNCHANGED logVars, Applied' = Applied,
           th'[u].call = th[u].call, th'[u].req = th[u].req
    PROVE  Kept(u)' <=> Kept(u)
<1>1. Id(u)' = Id(u)
  BY DEF Id
<1> QED
  BY <1>1 DEF Kept, logVars

\* A turn writes nothing, and tells of no success that was none,
LEMMA TurnWritten ==
    ASSUME QueueTypeOK, Lined, Grouped, Written, NEW t \in Threads, NEW p, NEW o, Turn(t, p, o)
    PROVE  Written'
<1>1. /\ queue' = queue /\ UNCHANGED logVars /\ Applied' = Applied
      /\ th'[t].pc = p /\ th'[t].ok = o /\ Alike(th'[t], th[t])
      /\ \A u \in Threads \ {t} : th'[u] = th[u]
  BY DEF Turn, Moved, Quiet
<1>2. \A u \in Threads :
        /\ th'[u].call = th[u].call /\ th'[u].req = th[u].req /\ th'[u].last = th[u].last
        /\ th'[u].done = th[u].done
        /\ Id(u)' = Id(u) /\ (Kept(u)' <=> Kept(u))
  <2>1. \A u \in Threads :
          /\ th'[u].call = th[u].call /\ th'[u].req = th[u].req /\ th'[u].last = th[u].last
          /\ th'[u].done = th[u].done
    BY <1>1 DEF Alike
  <2> QED BY <1>1, <2>1, StillKept DEF Id
<1>3. \A i \in DOMAIN queue : queue[i] \in Threads
  BY QueueDomain
<1>4. Past'
  BY <1>1, <1>2, StillPast DEF Written, logVars
<1>5. Acknowledged'
  <2>1. ASSUME th[t].done \/ p = "out", th[t].req.batch, o
        PROVE  th[t].ok /\ (th[t].done \/ th[t].pc = "out")
    <3>1. o = th[t].ok \/ ~ o \/ th[t].pc = "await"
      BY DEF Turn, At
    <3>2. th[t].pc # "await"
      BY <2>1 DEF Grouped, Compacts
    <3>3. p = "out" => th[t].done
      BY <3>2 DEF Turn, At
    <3> QED BY <2>1, <3>1, <3>2, <3>3
  <2> QED BY <1>1, <1>2, <2>1 DEF Written, Acknowledged
<1>6. th[t].pc \notin Wrote
  BY DEF Turn, At, Wrote
<1>7. Unwritten'
  <2> SUFFICES ASSUME NEW i \in DOMAIN queue, Id(queue[i]) \in Ids(logged)
               PROVE  \E u \in Threads, n \in DOMAIN queue :
                        th'[u].pc \in Wrote /\ queue[n] = th'[u].last /\ i <= n
    BY <1>1, <1>2, <1>3 DEF Unwritten, Ids, logVars
  <2>1. PICK u \in Threads, n \in DOMAIN queue :
          th[u].pc \in Wrote /\ queue[n] = th[u].last /\ i <= n
    BY DEF Written, Unwritten
  <2>2. u # t
    BY <1>6, <2>1
  <2> QED BY <1>1, <2>1, <2>2
<1>8. GroupKept'
  <2> SUFFICES ASSUME NEW u \in Threads, th'[u].pc \in Wrote, th'[u].ok,
                      NEW n \in DOMAIN queue, queue[n] = th[u].last, NEW i \in 1..n,
                      th[queue[i]].req.batch
               PROVE  Kept(queue[i])
    <3>1. \A n \in DOMAIN queue : \A i \in 1..n : queue[i] \in Threads
      BY <1>3, QueueDomain
    <3> QED BY <1>1, <1>2, <3>1 DEF GroupKept
  <2>1. CASE u = t
    <3>1. th[t].pc = "room" /\ p = "finish" /\ ~ th[t].req.batch
      BY <1>1, <2>1 DEF Turn, At, Wrote, Returned
    <3>2. th[t].last = t /\ queue # <<>> /\ queue[1] = t
      BY <3>1 DEF Grouped, OwnLast, Lined, FirstLeads, Leading, Lining, Committing
    <3>3. n = 1 /\ i = 1
      BY <2>1, <3>2, QueueDomain DEF Lined, Distinct
    <3> QED BY <3>1, <3>2, <3>3
  <2>2. CASE u # t
    BY <1>1, <2>2 DEF Written, GroupKept
  <2> QED BY <2>1, <2>2
<1> QED
  BY <1>4, <1>5, <1>7, <1>8 DEF Written

\* ... a new call is not in the log,
LEMMA EnteredWritten ==
    ASSUME QueueTypeOK, Lined, Grouped, Written, NEW t \in Threads, Entered(t)
    PROVE  Written'
<1>1. /\ th[t].pc = "out" /\ queue' = Append(queue, t) /\ th'[t].pc = "check"
      /\ UNCHANGED logVars /\ Applied' = Applied
      /\ th'[t].call = th[t].call + 1 /\ ~ th'[t].done
      /\ \A u \in Threads \ {t} : th'[u] = th[u]
  BY DEF Entered, At
<1>2. /\ Len(queue) \in Nat /\ DOMAIN queue = 1..Len(queue)
      /\ DOMAIN queue' = 1..(Len(queue) + 1) /\ queue'[Len(queue) + 1] = t
      /\ \A i \in 1..Len(queue) : queue'[i] = queue[i] /\ queue[i] \in Threads
  BY <1>1 DEF QueueTypeOK
<1>3. \A i \in DOMAIN queue : queue[i] # t
  BY <1>1 DEF Lined, Queued, Lining, Leading
<1>4. \A u \in Threads \ {t} : Id(u)' = Id(u) /\ (Kept(u)' <=> Kept(u))
  BY <1>1, StillKept DEF Id
<1>5. Past'
  <2> SUFFICES ASSUME NEW i \in DOMAIN logged
               PROVE  logged[i].id[2] <= th'[logged[i].id[1]].call
    BY <1>1 DEF Past, logVars
  <2>1. /\ logged[i].id[1] \in Threads /\ logged[i].id[2] \in Nat
        /\ th[logged[i].id[1]].call \in Nat
    BY LogTypes
  <2>2. logged[i].id[2] <= th[logged[i].id[1]].call
    BY DEF Written, Past
  <2> QED BY <1>1, <2>1, <2>2
<1>6. Acknowledged'
  BY <1>1, <1>4 DEF Written, Acknowledged
<1>7. Id(t)' \notin Ids(logged)
  <2> SUFFICES ASSUME NEW i \in DOMAIN logged, logged[i].id = <<t, th[t].call + 1>>
               PROVE  FALSE
    BY <1>1 DEF Id, Ids
  <2>1. logged[i].id[1] = t /\ logged[i].id[2] = th[t].call + 1
    OBVIOUS
  <2>2. th[t].call + 1 <= th[t].call
    BY <2>1 DEF Written, Past
  <2> QED BY <2>2, LogTypes
<1>8. Unwritten'
  <2> SUFFICES ASSUME NEW i \in DOMAIN queue', Id(queue[i])' \in Ids(logged)
               PROVE  \E u \in Threads, n \in DOMAIN queue' :
                        th'[u].pc \in Wrote /\ queue'[n] = th'[u].last /\ i <= n
    BY <1>1 DEF Unwritten, Ids, logVars
  <2>1. i \in DOMAIN queue /\ queue'[i] = queue[i] /\ queue[i] \in Threads \ {t}
    BY <1>2, <1>3, <1>7 DEF Id
  <2>2. Id(queue[i]) \in Ids(logged)
    BY <1>1, <2>1 DEF Id
  <2>3. PICK u \in Threads, n \in DOMAIN queue :
          th[u].pc \in Wrote /\ queue[n] = th[u].last /\ i <= n
    BY <2>1, <2>2 DEF Written, Unwritten
  <2>4. u # t
    BY <1>1, <2>3 DEF Wrote
  <2> QED BY <1>1, <1>2, <2>3, <2>4
<1>9. GroupKept'
  <2> SUFFICES ASSUME NEW u \in Threads, th'[u].pc \in Wrote, th'[u].ok,
                      NEW n \in DOMAIN queue', queue'[n] = th'[u].last, NEW i \in 1..n,
                      th'[queue'[i]].req.batch, NEW w, w = queue'[i]
               PROVE  Kept(w)'
    BY DEF GroupKept
  <2>1. u # t /\ th'[u] = th[u]
    BY <1>1 DEF Wrote
  <2>2. PICK m \in DOMAIN queue : queue[m] = th[u].last
    BY <2>1 DEF Grouped, Ends, Wrote, Committing
  <2>3. n = m
    BY <1>2, <1>3, <2>1, <2>2 DEF Lined, Distinct
  <2>4. i \in DOMAIN queue /\ w = queue[i] /\ w \in Threads \ {t}
    BY <1>2, <1>3, <2>3
  <2>5. Kept(w)
    BY <1>1, <2>1, <2>2, <2>3, <2>4 DEF Written, GroupKept
  <2> QED BY <1>4, <2>4, <2>5
<1> QED
  BY <1>5, <1>6, <1>8, <1>9 DEF Written

\* Steps that write nothing, keep the queue, and take no thread to or from a write.
LEMMA KeptWritten ==
    ASSUME QueueTypeOK, Written, queue' = queue, UNCHANGED <<logged, synced>>,
           Applied' = Applied,
           \A u \in Threads :
             /\ th'[u].call = th[u].call /\ th'[u].req = th[u].req
             /\ th'[u].last = th[u].last /\ th'[u].done = th[u].done
             /\ th'[u].ok = th[u].ok
             /\ (th'[u].pc \in Wrote) <=> (th[u].pc \in Wrote)
             /\ th'[u].pc = "out" => th[u].pc = "out"
    PROVE  Written'
<1>1. \A u \in Threads : Id(u)' = Id(u)
  BY DEF Id
<1>2. \A u \in Threads : Kept(u)' <=> Kept(u)
  BY <1>1 DEF Kept
<1>3. \A n \in DOMAIN queue : \A i \in 1..n : queue[i] \in Threads
  BY QueueDomain
<1>4. Past'
  BY StillPast DEF Written
<1>5. Acknowledged'
  BY <1>2 DEF Written, Acknowledged
<1>6. Unwritten'
  BY <1>1, QueueDomain DEF Written, Unwritten, Ids
<1>7. GroupKept'
  BY <1>2, <1>3 DEF Written, GroupKept
<1> QED
  BY <1>4, <1>5, <1>6, <1>7 DEF Written

\* ... a group is built of calls that are not in the log,
LEMMA BuiltWritten ==
    ASSUME QueueTypeOK, Lined, Written, NEW t \in Threads, NEW n \in DOMAIN queue,
           GroupBuilt(t, n)
    PROVE  Written'
<1>1. /\ th[t].pc = "group" /\ queue' = queue /\ UNCHANGED <<logged, synced>>
      /\ Applied' = Applied /\ th'[t].pc = "logging"
      /\ th'[t].call = th[t].call /\ th'[t].req = th[t].req /\ th'[t].done = th[t].done
      /\ th'[t].ok = th[t].ok
      /\ \A u \in Threads \ {t} : th'[u] = th[u]
  BY DEF GroupBuilt, At, Quiet, logVars
<1>2. ASSUME NEW u \in Threads PROVE th[u].pc \notin Wrote
  BY <1>1, OneLeads DEF Leading, Wrote
<1>3. ASSUME NEW u \in Threads PROVE th'[u].pc \notin Wrote
  BY <1>1, <1>2 DEF Wrote
<1>4. \A u \in Threads : Id(u)' = Id(u) /\ (Kept(u)' <=> Kept(u))
  <2>1. \A u \in Threads : Id(u)' = Id(u)
    BY <1>1 DEF Id
  <2> QED BY <1>1, <2>1 DEF Kept
<1>5. Past'
  BY <1>1, StillPast DEF Written
<1>6. Acknowledged'
  BY <1>1, <1>4 DEF Written, Acknowledged
<1>7. \A i \in DOMAIN queue : Id(queue[i]) \notin Ids(logged)
  BY <1>2 DEF Written, Unwritten
<1>8. Unwritten'
  BY <1>1, <1>4, <1>7, QueueDomain DEF Unwritten, Ids
<1>9. GroupKept'
  BY <1>3 DEF GroupKept
<1> QED
  BY <1>5, <1>6, <1>8, <1>9 DEF Written

\* ... publishing writes nothing,
LEMMA PublishesWritten ==
    ASSUME QueueTypeOK, Written, NEW t \in Threads, Publishes(t)
    PROVE  Written'
<1>1. /\ th[t].pc = "relock" /\ th'[t].pc = "finish" /\ queue' = queue
      /\ UNCHANGED <<logged, synced>> /\ Applied' = Applied
      /\ th'[t].ok = th[t].ok /\ Alike(th'[t], th[t])
      /\ \A u \in Threads \ {t} : Roused(th'[u], th[u])
  BY DEF Publishes, At
<1> QED
  BY <1>1, KeptWritten DEF Wrote, Roused, Alike

\* ... nor does the background thread,
LEMMA ApartWritten ==
    ASSUME QueueTypeOK, Written, Apart
    PROVE  Written'
<1>1. /\ queue' = queue /\ UNCHANGED <<logged, synced>> /\ Applied' = Applied
      /\ \A u \in Threads : Roused(th'[u], th[u])
  BY DEF Apart, Quiet, logVars
<1> QED
  BY <1>1, KeptWritten DEF Wrote, Roused, Alike

\* ... and the end of a group tells what is true, and leaves unwritten calls.
LEMMA FinishesWritten ==
    ASSUME QueueTypeOK, Lined, Written, NEW t \in Threads, NEW n \in DOMAIN queue,
           Finishes(t, n)
    PROVE  Written'
<1>1. /\ th[t].pc = "finish" /\ queue[n] = th[t].last
      /\ queue' = SubSeq(queue, n + 1, Len(queue))
      /\ UNCHANGED logVars /\ Applied' = Applied
      /\ th'[t].pc = Returned(t) /\ th'[t].ok = th[t].ok /\ Alike(th'[t], th[t])
      /\ \A u \in Threads \ {t} :
           /\ Resumed(th'[u], th[u])
           /\ th'[u].call = th[u].call /\ th'[u].req = th[u].req
           /\ IF u \in {queue[i] : i \in 1..n} THEN th'[u].done /\ th'[u].ok = th[t].ok
              ELSE th'[u].done = th[u].done /\ th'[u].ok = th[u].ok
  BY DEF Finishes, At
<1>2. /\ Len(queue) \in Nat /\ DOMAIN queue = 1..Len(queue) /\ queue # <<>> /\ queue[1] = t
      /\ \A i \in DOMAIN queue : queue[i] \in Threads
  BY <1>1, QueueDomain DEF Lined, FirstLeads, Leading
<1>3. \A u \in Threads : th'[u].call = th[u].call /\ th'[u].req = th[u].req
  BY <1>1 DEF Alike
<1>4. \A u \in Threads : Id(u)' = Id(u) /\ (Kept(u)' <=> Kept(u))
  BY <1>1, <1>3, StillKept DEF Id
<1>5. Past'
  BY <1>1, <1>3, StillPast DEF Written, logVars
<1>6. th[t].ok => \A i \in 1..n : th[queue[i]].req.batch => Kept(queue[i])
  BY <1>1 DEF Written, GroupKept, Wrote
<1>7. Acknowledged'
  <2> SUFFICES ASSUME NEW u \in Threads, th[u].call > 0, th[u].req.batch, th'[u].ok,
                      th'[u].done \/ th'[u].pc = "out"
               PROVE  Kept(u)
    BY <1>3, <1>4 DEF Acknowledged
  <2>1. CASE u \in {queue[i] : i \in 1..n}
    <3>1. th[t].ok
      BY <1>1, <2>1
    <3> QED BY <1>6, <2>1, <3>1
  <2>2. CASE u \notin {queue[i] : i \in 1..n}
    <3>1. u # t
      <4>1. 1 \in 1..n
        BY <1>2
      <4> QED BY <1>2, <2>2, <4>1
    <3>2. th[u].ok /\ (th[u].done \/ th[u].pc = "out")
      BY <1>1, <2>2, <3>1 DEF Resumed
    <3> QED BY <3>2 DEF Written, Acknowledged
  <2> QED BY <2>1, <2>2
<1>8. /\ DOMAIN queue' = 1..(Len(queue) - n)
      /\ \A i \in DOMAIN queue' : i + n \in DOMAIN queue /\ queue'[i] = queue[i + n]
  BY <1>1, RestOfQueue
<1>9. Unwritten'
  <2> SUFFICES ASSUME NEW i \in DOMAIN queue', Id(queue[i])' \in Ids(logged)
               PROVE  FALSE
    BY <1>1 DEF Unwritten, Ids, logVars
  <2>1. i + n \in DOMAIN queue /\ queue'[i] = queue[i + n] /\ queue[i + n] \in Threads
        /\ i \in 1..(Len(queue) - n)
    BY <1>2, <1>8
  <2>2. Id(queue[i + n]) \in Ids(logged)
    <3>1. Id(queue[i])' = Id(queue[i + n])
      BY <1>3, <2>1 DEF Id
    <3> QED BY <3>1
  <2>3. PICK u \in Threads, m \in DOMAIN queue :
          th[u].pc \in Wrote /\ queue[m] = th[u].last /\ i + n <= m
    BY <2>1, <2>2 DEF Written, Unwritten
  <2>4. u = t
    BY <1>1, <2>3, OneLeads DEF Leading, Wrote
  <2>5. m = n
    BY <1>1, <2>3, <2>4 DEF Lined, Distinct
  <2> QED BY <1>2, <2>1, <2>3, <2>5
<1>10. GroupKept'
  <2> SUFFICES ASSUME NEW u \in Threads, th'[u].pc \in Wrote PROVE FALSE
    BY DEF GroupKept
  <2>1. u # t => th[u].pc \in Wrote
    BY <1>1 DEF Resumed, Wrote
  <2>2. u = t
    BY <1>1, <2>1, OneLeads DEF Leading, Wrote
  <2> QED BY <1>1, <2>2 DEF Returned, Wrote
<1> QED
  BY <1>5, <1>7, <1>9, <1>10 DEF Written

-----------------------------------------------------------------------------
(* Numbers *)

\* The numbers grow along s.
Ascending(s) == \A i, j \in DOMAIN s : i < j => s[i].seq < s[j].seq

\* What was applied is in the log,
Held == \A i \in DOMAIN Applied : \E j \in DOMAIN logged : logged[j] = Applied[i]

\* ... numbers above LastSequence() are of the group about to be published,
Bounded == \A i \in DOMAIN logged :
  \/ logged[i].seq <= lastSequence
  \/ \E t \in Threads : th[t].pc = "relock" /\ logged[i].seq <= lastSequence + Len(th[t].group)

\* ... what the log has beyond what was applied is from a failed sync,
Doubted == Ids(logged) # Ids(Applied) => bgError \/ \E t \in Threads : th[t].syncError

\* ... and a failed sync is bg_error_ as soon as its thread has the mutex again.
Pending == \A t \in Threads : th[t].syncError => bgError \/ th[t].pc = "relock"

\* The numbers of the log, and what was applied of it.
Numbered == Ascending(logged) /\ Ascending(Applied) /\ Held /\ Bounded /\ Doubted /\ Pending

\* What was applied is a sequence of entries.
LEMMA AppliedType ==
    ASSUME QueueTypeOK
    PROVE  Applied \in Seq(Entry)
<1>1. Immutable \in Seq(Entry)
  BY DEF QueueTypeOK, Immutable
<1> QED
  BY <1>1 DEF QueueTypeOK, Applied

\* Both are empty at the start.
LEMMA InitNumbered == Init => Numbered
<1> SUFFICES ASSUME Init PROVE Numbered
  OBVIOUS
<1>1. logged = <<>> /\ Applied = <<>> /\ \A t \in Threads : ~ th[t].syncError
  BY DEF Init, Applied, Immutable
<1>2. DOMAIN logged = {} /\ DOMAIN Applied = {}
  BY <1>1
<1> QED
  BY <1>1, <1>2 DEF Numbered, Ascending, Held, Bounded, Doubted, Pending

\* Sequences that follow each other.
LEMMA AscendingOn ==
    ASSUME NEW s \in Seq(Entry), NEW r \in Seq(Entry), NEW b \in Nat,
           Ascending(s), \A i \in DOMAIN s : s[i].seq <= b,
           \A i \in 1..Len(r) : r[i].seq = b + i
    PROVE  Ascending(s \o r)
<1>1. PICK q : q = s \o r
  OBVIOUS
<1>2. /\ Len(s) \in Nat /\ Len(r) \in Nat /\ DOMAIN s = 1..Len(s) /\ DOMAIN r = 1..Len(r)
      /\ DOMAIN q = 1..(Len(s) + Len(r))
      /\ \A j \in 1..Len(s) : q[j] = s[j]
      /\ \A j \in (Len(s) + 1)..(Len(s) + Len(r)) :
           q[j] = r[j - Len(s)] /\ j - Len(s) \in 1..Len(r)
  BY <1>1
<1>3. \A j \in 1..Len(s) : s[j].seq \in Nat
  <2>1. \A j \in 1..Len(s) : s[j] \in Entry
    OBVIOUS
  <2> QED BY <2>1 DEF Entry
<1>4. \A j \in (Len(s) + 1)..(Len(s) + Len(r)) : q[j].seq = b + (j - Len(s))
  BY <1>2
<1> SUFFICES ASSUME NEW i \in DOMAIN q, NEW j \in DOMAIN q, i < j PROVE q[i].seq < q[j].seq
  BY <1>1 DEF Ascending
<1>5. CASE j \in 1..Len(s)
  <2>1. i \in 1..Len(s)
    BY <1>2, <1>5
  <2> QED BY <1>2, <1>5, <2>1 DEF Ascending
<1>6. CASE j \in (Len(s) + 1)..(Len(s) + Len(r)) /\ i \in 1..Len(s)
  <2>1. q[i].seq <= b /\ q[i].seq \in Nat
    BY <1>2, <1>3, <1>6
  <2>2. q[j].seq = b + (j - Len(s)) /\ j - Len(s) \in Nat /\ j - Len(s) >= 1
    BY <1>2, <1>4, <1>6
  <2> QED BY <2>1, <2>2
<1>7. CASE j \in (Len(s) + 1)..(Len(s) + Len(r)) /\ i \in (Len(s) + 1)..(Len(s) + Len(r))
  BY <1>2, <1>4, <1>7
<1> QED
  BY <1>2, <1>5, <1>6, <1>7

\* The parts of a concatenation.
LEMMA Parts ==
    ASSUME NEW s \in Seq(Entry), NEW r \in Seq(Entry)
    PROVE  /\ \A i \in DOMAIN s : i \in DOMAIN (s \o r) /\ (s \o r)[i] = s[i]
           /\ \A i \in DOMAIN r : \E j \in DOMAIN (s \o r) : (s \o r)[j] = r[i]
           /\ \A j \in DOMAIN (s \o r) :
                \/ j \in DOMAIN s /\ (s \o r)[j] = s[j]
                \/ \E i \in DOMAIN r : (s \o r)[j] = r[i]
           /\ Ids(s \o r) = Ids(s) \cup Ids(r)
<1>1. PICK q : q = s \o r
  OBVIOUS
<1>2. /\ Len(s) \in Nat /\ Len(r) \in Nat /\ DOMAIN s = 1..Len(s) /\ DOMAIN r = 1..Len(r)
      /\ DOMAIN q = 1..(Len(s) + Len(r))
      /\ \A j \in 1..Len(s) : q[j] = s[j]
      /\ \A j \in (Len(s) + 1)..(Len(s) + Len(r)) :
           q[j] = r[j - Len(s)] /\ j - Len(s) \in 1..Len(r)
      /\ \A i \in 1..Len(r) : q[i + Len(s)] = r[i] /\ i + Len(s) \in 1..(Len(s) + Len(r))
  BY <1>1
<1>3. \A i \in DOMAIN s : i \in DOMAIN q /\ q[i] = s[i]
  BY <1>2
<1>4. \A i \in DOMAIN r : \E j \in DOMAIN q : q[j] = r[i]
  BY <1>2
<1>5. ASSUME NEW j \in DOMAIN q
      PROVE  (j \in DOMAIN s /\ q[j] = s[j]) \/ \E i \in DOMAIN r : q[j] = r[i]
  <2>1. CASE j \in 1..Len(s)
    BY <1>2, <2>1
  <2>2. CASE j \in (Len(s) + 1)..(Len(s) + Len(r))
    BY <1>2, <2>2
  <2> QED BY <1>2, <2>1, <2>2
<1>6. Ids(q) = Ids(s) \cup Ids(r)
  <2>1. ASSUME NEW x \in Ids(q) PROVE x \in Ids(s) \cup Ids(r)
    <3>1. PICK j \in DOMAIN q : x = q[j].id
      BY <2>1 DEF Ids
    <3>2. CASE j \in DOMAIN s /\ q[j] = s[j]
      BY <3>1, <3>2 DEF Ids
    <3>3. CASE \E i \in DOMAIN r : q[j] = r[i]
      BY <3>1, <3>3 DEF Ids
    <3> QED BY <1>5, <3>2, <3>3
  <2>2. ASSUME NEW x \in Ids(s) PROVE x \in Ids(q)
    <3>1. PICK i \in DOMAIN s : x = s[i].id
      BY <2>2 DEF Ids
    <3> QED BY <1>3, <3>1 DEF Ids
  <2>3. ASSUME NEW x \in Ids(r) PROVE x \in Ids(q)
    <3>1. PICK i \in DOMAIN r : x = r[i].id
      BY <2>3 DEF Ids
    <3>2. PICK j \in DOMAIN q : q[j] = r[i]
      BY <1>4
    <3> QED BY <3>1, <3>2 DEF Ids
  <2> QED BY <2>1, <2>2, <2>3
<1> QED
  BY <1>1, <1>3, <1>4, <1>5, <1>6

\* Steps that write and publish nothing.
LEMMA KeptNumbered ==
    ASSUME QueueTypeOK, Numbered, UNCHANGED logVars, Applied' = Applied, bgError => bgError',
           \A u \in Threads :
             /\ th'[u].pc = "relock" <=> th[u].pc = "relock"
             /\ th[u].pc = "relock" => th'[u].group = th[u].group
             /\ th'[u].syncError => th[u].syncError
             /\ th[u].syncError => th'[u].syncError \/ bgError'
    PROVE  Numbered'
<1>1. Ascending(logged)' /\ Ascending(Applied)'
  BY DEF Numbered, Ascending, logVars
<1>2. Held'
  BY DEF Numbered, Held, logVars
<1>3. Bounded'
  BY DEF Numbered, Bounded, logVars
<1>4. Doubted'
  BY DEF Numbered, Doubted, Ids, logVars
<1>5. Pending'
  BY DEF Numbered, Pending
<1> QED
  BY <1>1, <1>2, <1>3, <1>4, <1>5 DEF Numbered

\* A turn changes no number,
LEMMA TurnNumbered ==
    ASSUME QueueTypeOK, Numbered, NEW t \in Threads, NEW p, NEW o, Turn(t, p, o)
    PROVE  Numbered'
<1>1. /\ UNCHANGED logVars /\ Applied' = Applied /\ bgError' = bgError
      /\ th'[t].pc = p /\ Alike(th'[t], th[t])
      /\ \A u \in Threads \ {t} : th'[u] = th[u]
  BY DEF Turn, Moved, Quiet
<1>2. th[t].pc # "relock" /\ p # "relock"
  BY DEF Turn, At, Returned
<1> QED
  BY <1>1, <1>2, KeptNumbered DEF Alike

\* ... nor does a call, which forgets a failed sync only where bg_error_ has it,
LEMMA EnteredNumbered ==
    ASSUME QueueTypeOK, Numbered, NEW t \in Threads, Entered(t)
    PROVE  Numbered'
<1>1. /\ UNCHANGED logVars /\ Applied' = Applied /\ bgError' = bgError
      /\ th[t].pc = "out" /\ th'[t].pc = "check" /\ ~ th'[t].syncError
      /\ \A u \in Threads \ {t} : th'[u] = th[u]
  BY DEF Entered, At
<1>2. th[t].syncError => bgError
  BY <1>1 DEF Numbered, Pending
<1> QED
  BY <1>1, <1>2, KeptNumbered

\* ... a group that is built,
LEMMA BuiltNumbered ==
    ASSUME QueueTypeOK, Numbered, NEW t \in Threads, NEW n, GroupBuilt(t, n)
    PROVE  Numbered'
<1>1. /\ UNCHANGED logVars /\ Applied' = Applied /\ bgError' = bgError
      /\ th[t].pc = "group" /\ th'[t].pc = "logging" /\ th'[t].syncError = th[t].syncError
      /\ \A u \in Threads \ {t} : th'[u] = th[u]
  BY DEF GroupBuilt, At, Quiet
<1> QED
  BY <1>1, KeptNumbered

\* ... a step of the background thread,
LEMMA ApartNumbered ==
    ASSUME QueueTypeOK, Numbered, Apart
    PROVE  Numbered'
<1>1. /\ UNCHANGED logVars /\ Applied' = Applied /\ (bgError => bgError')
      /\ \A u \in Threads : Roused(th'[u], th[u])
  BY DEF Apart, Quiet
<1> QED
  BY <1>1, KeptNumbered DEF Roused, Alike

\* ... or the end of a group.
LEMMA FinishesNumbered ==
    ASSUME QueueTypeOK, Numbered, NEW t \in Threads, NEW n, Finishes(t, n)
    PROVE  Numbered'
<1>1. /\ UNCHANGED logVars /\ Applied' = Applied /\ bgError' = bgError
      /\ th[t].pc = "finish" /\ th'[t].pc = Returned(t) /\ Alike(th'[t], th[t])
      /\ \A u \in Threads \ {t} :
           /\ Resumed(th'[u], th[u])
           /\ th'[u].group = th[u].group /\ th'[u].syncError = th[u].syncError
  BY DEF Finishes, At
<1>2. th'[t].pc # "relock"
  BY <1>1 DEF Returned
<1> QED
  BY <1>1, <1>2, KeptNumbered DEF Resumed, Alike

\* LastSequence() reaches the numbers of the group.
LEMMA PublishesNumbered ==
    ASSUME QueueTypeOK, Lined, Numbered, NEW t \in Threads, Publishes(t)
    PROVE  Numbered'
<1>1. /\ th[t].pc = "relock" /\ th'[t].pc = "finish" /\ UNCHANGED <<logged, synced>>
      /\ Applied' = Applied /\ Alike(th'[t], th[t])
      /\ \A u \in Threads \ {t} : Roused(th'[u], th[u])
      /\ bgError' = (bgError \/ th[t].syncError)
      /\ lastSequence' = lastSequence + Len(th[t].group)
  BY DEF Publishes, At
<1>2. Len(th[t].group) \in Nat
  <2>1. th[t].group \in Seq(Threads)
    BY DEF QueueTypeOK, Writer
  <2> QED BY <2>1
<1>3. Ascending(logged)' /\ Ascending(Applied)'
  BY <1>1 DEF Numbered, Ascending
<1>4. Held'
  BY <1>1 DEF Numbered, Held
<1>5. Bounded'
  <2> SUFFICES ASSUME NEW i \in DOMAIN logged PROVE logged[i].seq <= lastSequence'
    BY <1>1 DEF Bounded
  <2>1. logged[i].seq \in Nat /\ lastSequence \in Nat
    <3>1. logged[i] \in Entry /\ lastSequence \in Nat
      BY DEF QueueTypeOK
    <3> QED BY <3>1 DEF Entry
  <2>2. \/ logged[i].seq <= lastSequence
        \/ \E u \in Threads : th[u].pc = "relock" /\ logged[i].seq <= lastSequence + Len(th[u].group)
    BY DEF Numbered, Bounded
  <2>3. \A u \in Threads : th[u].pc = "relock" => u = t
    BY <1>1, OneLeads DEF Leading
  <2> QED BY <1>1, <1>2, <2>1, <2>2, <2>3
<1>6. /\ bgError => bgError'
      /\ th[t].syncError => bgError'
      /\ \A u \in Threads : th'[u].syncError = th[u].syncError
      /\ \A u \in Threads \ {t} : th[u].pc # "relock"
  <2>1. \A u \in Threads \ {t} : th[u].pc # "relock"
    BY <1>1, OneLeads DEF Leading
  <2> QED BY <1>1, <2>1 DEF Roused, Alike
<1>7. Doubted' /\ Pending'
  <2>1. Doubted'
    BY <1>1, <1>6 DEF Numbered, Doubted, Ids
  <2>2. Pending'
    BY <1>6 DEF Numbered, Pending
  <2> QED BY <2>1, <2>2
<1> QED
  BY <1>3, <1>4, <1>5, <1>6, <1>7 DEF Numbered

\* A group's numbers follow those of the log.
LEMMA LogsNumbered ==
    ASSUME QueueTypeOK, Lined, Numbered, NEW t \in Threads, Logs(t)
    PROVE  Numbered'
<1>1. /\ th[t].pc = "logging" /\ th'[t].pc = "relock" /\ th'[t].group = th[t].group
      /\ UNCHANGED <<lastSequence, bgError>>
      /\ \A u \in Threads \ {t} : th'[u] = th[u]
  BY DEF Logs, At
<1>2. PICK r : r = Record(t)
  OBVIOUS
<1>3. /\ r \in Seq(Entry) /\ Len(r) = Len(th[t].group) /\ Len(r) \in Nat
      /\ \A i \in 1..Len(r) : r[i].seq = lastSequence + i
      /\ DOMAIN r = 1..Len(r)
  BY <1>2, RecordType
<1>4. logged \in Seq(Entry) /\ Applied \in Seq(Entry) /\ lastSequence \in Nat
  BY AppliedType DEF QueueTypeOK
<1>5. PICK l \in Seq(Entry), a \in Seq(Entry) : l = logged /\ a = Applied
  BY <1>4
<1>6. \A i \in DOMAIN l : l[i].seq <= lastSequence /\ l[i].seq \in Nat
  <2> TAKE i \in DOMAIN l
  <2>1. \A u \in Threads : th[u].pc # "relock"
    BY <1>1, OneLeads DEF Leading
  <2>2. l[i].seq <= lastSequence
    BY <1>5, <2>1 DEF Numbered, Bounded
  <2>3. l[i] \in Entry
    OBVIOUS
  <2> QED BY <2>2, <2>3 DEF Entry
<1>7. \A i \in DOMAIN a : \E j \in DOMAIN l : l[j] = a[i]
  BY <1>5 DEF Numbered, Held
<1>8. \A i \in DOMAIN a : a[i].seq <= lastSequence
  BY <1>6, <1>7
<1>9. Ascending(l) /\ Ascending(a) /\ Ascending(l \o r) /\ Ascending(a \o r)
  <2>1. Ascending(l) /\ Ascending(a)
    BY <1>5 DEF Numbered
  <2> QED BY <2>1, <1>3, <1>4, <1>6, <1>8, AscendingOn
<1>10. \/ logged' = l \o r /\ Applied' = a \o r /\ th'[t].syncError = th[t].syncError
       \/ logged' = l /\ Applied' = a /\ th'[t].syncError = th[t].syncError
       \/ logged' = l \o r /\ Applied' = a /\ th'[t].syncError
  BY <1>2, <1>5 DEF Logs
<1>11. (logged' = l \/ logged' = l \o r) /\ (Applied' = a \/ Applied' = a \o r)
  BY <1>10
<1>a. /\ \A i \in DOMAIN l : i \in DOMAIN (l \o r) /\ (l \o r)[i] = l[i]
      /\ \A i \in DOMAIN r : \E j \in DOMAIN (l \o r) : (l \o r)[j] = r[i]
      /\ \A j \in DOMAIN (l \o r) :
           \/ j \in DOMAIN l /\ (l \o r)[j] = l[j]
           \/ \E i \in DOMAIN r : (l \o r)[j] = r[i]
      /\ Ids(l \o r) = Ids(l) \cup Ids(r)
  BY <1>3, Parts
<1>b. /\ \A j \in DOMAIN (a \o r) :
           \/ j \in DOMAIN a /\ (a \o r)[j] = a[j]
           \/ \E i \in DOMAIN r : (a \o r)[j] = r[i]
      /\ Ids(a \o r) = Ids(a) \cup Ids(r)
  BY <1>3, Parts
<1>12. Ascending(logged)' /\ Ascending(Applied)'
  <2>1. Ascending(logged') /\ Ascending(Applied')
    BY <1>9, <1>11
  <2> QED BY <2>1 DEF Ascending
<1>13. Held'
  <2> SUFFICES ASSUME NEW i \in DOMAIN Applied' PROVE \E j \in DOMAIN logged' : logged'[j] = Applied'[i]
    BY DEF Held
  <2>1. ASSUME NEW x, \E j \in DOMAIN l : l[j] = x PROVE \E j \in DOMAIN logged' : logged'[j] = x
    BY <1>11, <1>a, <2>1
  <2>2. CASE Applied' = a
    BY <1>7, <2>1, <2>2
  <2>3. CASE Applied' = a \o r /\ logged' = l \o r
    <3>1. \/ i \in DOMAIN a /\ Applied'[i] = a[i]
          \/ \E k \in DOMAIN r : Applied'[i] = r[k]
      BY <1>b, <2>3
    <3>2. CASE i \in DOMAIN a /\ Applied'[i] = a[i]
      BY <1>7, <2>1, <3>2
    <3>3. CASE \E k \in DOMAIN r : Applied'[i] = r[k]
      BY <1>a, <2>3, <3>3
    <3> QED BY <3>1, <3>2, <3>3
  <2> QED BY <1>10, <2>2, <2>3
<1>14. Bounded'
  <2> SUFFICES ASSUME NEW i \in DOMAIN logged'
               PROVE  logged'[i].seq <= lastSequence + Len(r)
    BY <1>1, <1>3 DEF Bounded
  <2>1. (i \in DOMAIN l /\ logged'[i] = l[i]) \/ \E k \in DOMAIN r : logged'[i] = r[k]
    BY <1>11, <1>a
  <2>2. CASE i \in DOMAIN l /\ logged'[i] = l[i]
    BY <1>3, <1>4, <1>6, <2>2
  <2>3. CASE \E k \in DOMAIN r : logged'[i] = r[k]
    <3>1. PICK k \in 1..Len(r) : logged'[i] = r[k]
      BY <1>3, <2>3
    <3> QED BY <1>3, <1>4, <3>1
  <2> QED BY <2>1, <2>2, <2>3
<1>15. Doubted'
  <2>1. Doubted' <=> (Ids(logged') # Ids(Applied') =>
                        bgError' \/ \E u \in Threads : th'[u].syncError)
    BY DEF Doubted, Ids
  <2>2. CASE th'[t].syncError
    BY <2>1, <2>2
  <2>3. CASE th'[t].syncError = th[t].syncError
             /\ (\/ logged' = l \o r /\ Applied' = a \o r
                 \/ logged' = l /\ Applied' = a)
    <3>1. Ids(l) = Ids(a) => Ids(logged') = Ids(Applied')
      BY <1>a, <1>b, <2>3
    <3>2. Ids(l) # Ids(a) => bgError \/ \E u \in Threads : th[u].syncError
      BY <1>5 DEF Numbered, Doubted
    <3> QED BY <1>1, <2>1, <2>3, <3>1, <3>2
  <2> QED BY <1>10, <2>2, <2>3
<1>16. Pending'
  BY <1>1 DEF Numbered, Pending
<1> QED
  BY <1>12, <1>13, <1>14, <1>15, <1>16 DEF Numbered

-----------------------------------------------------------------------------
(* Writing keeps what it should *)

\* A call outside the group is not in its records, a batch of the group is there once.
LEMMA LogsWritten ==
    ASSUME QueueTypeOK, Lined, Grouped, Gathered, Numbered, Written, NEW t \in Threads, Logs(t)
    PROVE  Written'
<1>1. /\ th[t].pc = "logging" /\ th'[t].pc = "relock" /\ queue' = queue
      /\ th'[t].call = th[t].call /\ th'[t].req = th[t].req
      /\ th'[t].done = th[t].done /\ th'[t].last = th[t].last
      /\ th'[t].group = th[t].group
      /\ \A u \in Threads \ {t} : th'[u] = th[u]
  BY DEF Logs, At
<1>2. \A u \in Threads : th'[u].call = th[u].call /\ th'[u].req = th[u].req /\ Id(u)' = Id(u)
  BY <1>1 DEF Id
<1>3. /\ Len(queue) \in Nat /\ DOMAIN queue = 1..Len(queue) /\ queue # <<>> /\ queue[1] = t
      /\ \A i \in DOMAIN queue : queue[i] \in Threads
  BY <1>1, QueueDomain DEF Lined, FirstLeads, Leading
<1>4. PICK n \in DOMAIN queue : queue[n] = th[t].last
  BY <1>1 DEF Grouped, Ends, Committing
<1>5. Batches(t, n)
  BY <1>1, <1>4 DEF Gathered
<1>6. PICK r \in Seq(Entry) : r = Record(t)
  BY RecordType
<1>7. PICK l \in Seq(Entry), a \in Seq(Entry) : l = logged /\ a = Applied
  BY AppliedType DEF QueueTypeOK
<1>8. \/ /\ logged' = l \o r /\ Applied' = a \o r /\ th'[t].ok = th[t].ok
         /\ synced' = IF th[t].req.sync THEN Len(logged') ELSE synced
      \/ logged' = l /\ Applied' = a /\ synced' = synced /\ ~ th'[t].ok
      \/ logged' = l \o r /\ Applied' = a /\ synced' = synced /\ ~ th'[t].ok
  BY <1>6, <1>7 DEF Logs
<1>9. ASSUME NEW u \in Threads, \A i \in 1..n : queue[i] # u
      PROVE  \A j \in DOMAIN r : r[j].id # Id(u)
  <2>1. \A j \in DOMAIN th[t].group : th[t].group[j] # u
    BY <1>5, <1>9 DEF Batches
  <2> QED BY <1>6, <2>1, RecordIds
<1>10. ASSUME NEW i \in 1..n, th[queue[i]].req.batch
       PROVE  Once(r, Id(queue[i]))
  <2>1. \E j \in DOMAIN th[t].group : th[t].group[j] = queue[i]
    BY <1>5, <1>10 DEF Batches
  <2>2. \A k, j \in DOMAIN th[t].group : th[t].group[k] = th[t].group[j] => k = j
    BY <1>5 DEF Batches
  <2>3. queue[i] \in Threads
    BY <1>3
  <2> QED BY <1>6, <2>1, <2>2, <2>3, RecordIds
<1>11. ASSUME NEW i \in DOMAIN queue
       PROVE  /\ \A j \in DOMAIN l : l[j].id # Id(queue[i])
              /\ \A j \in DOMAIN a : a[j].id # Id(queue[i])
  <2>1. \A u \in Threads : th[u].pc \notin Wrote
    BY <1>1, OneLeads DEF Leading, Wrote
  <2>2. Id(queue[i]) \notin Ids(logged)
    BY <2>1 DEF Written, Unwritten
  <2>3. \A j \in DOMAIN l : l[j].id # Id(queue[i])
    BY <1>7, <2>2 DEF Ids
  <2>4. \A j \in DOMAIN a : \E k \in DOMAIN l : l[k] = a[j]
    BY <1>7 DEF Numbered, Held
  <2> QED BY <2>3, <2>4
<1>a. /\ \A i \in DOMAIN l : i \in DOMAIN (l \o r) /\ (l \o r)[i] = l[i]
      /\ \A j \in DOMAIN (l \o r) :
           \/ j \in DOMAIN l /\ (l \o r)[j] = l[j]
           \/ \E i \in DOMAIN r : (l \o r)[j] = r[i]
      /\ Ids(l \o r) = Ids(l) \cup Ids(r)
  BY Parts
<1>b. \A i \in DOMAIN r : r[i].id[2] <= th[r[i].id[1]].call
  <2>1. /\ Len(r) = Len(th[t].group) /\ DOMAIN r = 1..Len(r)
        /\ \A i \in 1..Len(th[t].group) : r[i].id = Id(th[t].group[i])
    BY <1>6, RecordType
  <2>2. \A i \in 1..Len(th[t].group) : th[t].group[i] \in Threads
    BY DEF QueueTypeOK, Writer
  <2>3. \A v \in Threads : Id(v)[2] <= th[Id(v)[1]].call
    BY LogTypes DEF Id
  <2> QED BY <2>1, <2>2, <2>3
<1>12. Past'
  <2> SUFFICES ASSUME NEW i \in DOMAIN logged'
               PROVE  logged'[i].id[2] <= th'[logged'[i].id[1]].call
    BY DEF Past
  <2>1. logged' = l \/ logged' = l \o r
    BY <1>8
  <2>2. (i \in DOMAIN l /\ logged'[i] = l[i]) \/ \E k \in DOMAIN r : logged'[i] = r[k]
    BY <1>a, <2>1
  <2>3. CASE i \in DOMAIN l /\ logged'[i] = l[i]
    <3>1. l[i].id[2] <= th[l[i].id[1]].call /\ l[i].id[1] \in Threads
      BY <1>7, <2>3, LogTypes DEF Written, Past
    <3> QED BY <1>2, <2>3, <3>1
  <2>4. CASE \E k \in DOMAIN r : logged'[i] = r[k]
    <3>1. PICK k \in DOMAIN r : logged'[i] = r[k]
      BY <2>4
    <3>2. r[k].id[1] \in Threads
      <4>1. r[k] \in Entry
        OBVIOUS
      <4> QED BY <4>1 DEF Entry
    <3> QED BY <1>b, <1>2, <3>1, <3>2
  <2> QED BY <2>2, <2>3, <2>4
<1>13. ASSUME NEW u \in Threads, Kept(u), \A i \in 1..n : queue[i] # u
       PROVE  Kept(u)'
  <2>1. PICK x : x = Id(u)
    OBVIOUS
  <2>2. Once(l, x) /\ Once(a, x) /\ (th[u].req.sync => \E i \in DOMAIN l : i <= synced /\ l[i].id = x)
    BY <1>7, <1>13, <2>1 DEF Kept, KeptIn
  <2>3. \A j \in DOMAIN r : r[j].id # x
    BY <1>9, <1>13, <2>1
  <2>4. Once(l \o r, x) /\ Once(a \o r, x)
    BY <2>2, <2>3, OnceStays
  <2>5. Once(logged', x) /\ Once(Applied', x)
    BY <1>8, <2>2, <2>4
  <2>6. th[u].req.sync => \E i \in DOMAIN logged' : i <= synced' /\ logged'[i].id = x
    <3> SUFFICES ASSUME NEW i \in DOMAIN l, i <= synced, l[i].id = x
                 PROVE  \E k \in DOMAIN logged' : k <= synced' /\ logged'[k].id = x
      BY <2>2
    <3>1. i \in DOMAIN logged' /\ logged'[i].id = x
      BY <1>8, <1>a
    <3>2. synced' = synced \/ (logged' = l \o r /\ synced' = Len(l \o r))
      BY <1>8
    <3>3. i <= Len(l \o r)
      <4>1. l \o r \in Seq(Entry) /\ i \in DOMAIN (l \o r)
        BY <1>a
      <4> QED BY <4>1
    <3> QED BY <3>1, <3>2, <3>3
  <2>7. Kept(u)' <=> KeptIn(logged', Applied', synced', x, th[u].req.sync)
    BY <1>2, <2>1 DEF Kept
  <2> QED BY <2>5, <2>6, <2>7 DEF KeptIn
<1>14. Acknowledged'
  <2> SUFFICES ASSUME NEW u \in Threads, th'[u].call > 0, th'[u].req.batch, th'[u].ok,
                      th'[u].done \/ th'[u].pc = "out"
               PROVE  Kept(u)'
    BY DEF Acknowledged
  <2>1. u # t
    BY <1>1, <1>3 DEF Lined, Queued
  <2>2. \A i \in 1..n : queue[i] # u
    <3>1. \A i \in 1..n : i \in DOMAIN queue
      BY <1>3
    <3> QED BY <1>1, <2>1, <3>1 DEF Lined, Queued, Lining, Leading
  <2>3. Kept(u)
    BY <1>1, <2>1 DEF Written, Acknowledged
  <2> QED BY <1>13, <2>2, <2>3
<1>15. Unwritten'
  <2> SUFFICES ASSUME NEW i \in DOMAIN queue, Id(queue[i]) \in Ids(logged')
               PROVE  i <= n
    <3>1. \A i \in DOMAIN queue : Id(queue[i])' = Id(queue[i])
      BY <1>1, <1>2, <1>3 DEF Id
    <3> QED BY <1>1, <1>4, <3>1 DEF Unwritten, Wrote, Ids
  <2> SUFFICES ASSUME i > n PROVE FALSE
    BY <1>3
  <2>1. \A k \in 1..n : queue[k] # queue[i]
    BY <1>3 DEF Lined, Distinct
  <2>2. \A j \in DOMAIN r : r[j].id # Id(queue[i])
    BY <1>3, <1>9, <2>1
  <2>3. Id(queue[i]) \notin Ids(r) /\ Id(queue[i]) \notin Ids(l)
    BY <1>11, <2>2 DEF Ids
  <2> QED BY <1>8, <1>a, <2>3
<1>16. GroupKept'
  <2> SUFFICES ASSUME NEW u \in Threads, th'[u].pc \in Wrote, th'[u].ok,
                      NEW m \in DOMAIN queue, queue[m] = th'[u].last, NEW i \in 1..m,
                      NEW w, w = queue[i], th[w].req.batch
               PROVE  Kept(w)'
    <3>1. \A m \in DOMAIN queue : \A i \in 1..m : queue[i] \in Threads
      BY <1>3
    <3> QED BY <1>1, <1>2, <3>1 DEF GroupKept
  <2>1. u = t
    <3>1. u # t => th[u].pc \in Wrote
      BY <1>1
    <3> QED BY <1>1, <3>1, OneLeads DEF Leading, Wrote
  <2>2. m = n
    BY <1>1, <1>4, <2>1 DEF Lined, Distinct
  <2>3. i \in 1..n /\ i \in DOMAIN queue /\ w \in Threads
    BY <1>3, <2>2
  <2>4. PICK x : x = Id(w)
    OBVIOUS
  <2>5. Once(r, x) /\ (\A j \in DOMAIN l : l[j].id # x) /\ (\A j \in DOMAIN a : a[j].id # x)
    BY <1>10, <1>11, <2>3, <2>4
  <2>6. Once(l \o r, x) /\ Once(a \o r, x)
    BY <2>5, OnceCome
  <2>7. /\ logged' = l \o r /\ Applied' = a \o r /\ th[t].ok
        /\ synced' = IF th[t].req.sync THEN Len(logged') ELSE synced
    BY <1>8, <2>1
  <2>8. th[w].req.sync => \E j \in DOMAIN logged' : j <= synced' /\ logged'[j].id = x
    <3> SUFFICES ASSUME th[w].req.sync
                 PROVE  \E j \in DOMAIN logged' : j <= synced' /\ logged'[j].id = x
      OBVIOUS
    <3>1. th[t].req.sync
      BY <1>1, <1>4, <2>3, <2>7 DEF Grouped, Together, Committing
    <3>2. synced' = Len(l \o r)
      BY <2>7, <3>1
    <3>3. PICK j \in DOMAIN (l \o r) : (l \o r)[j].id = x
      BY <2>6 DEF Once
    <3>4. j <= Len(l \o r)
      <4>1. l \o r \in Seq(Entry)
        OBVIOUS
      <4> QED BY <4>1, <3>3
    <3> QED BY <2>7, <3>2, <3>3, <3>4
  <2>9. Kept(w)' <=> KeptIn(logged', Applied', synced', x, th[w].req.sync)
    BY <1>2, <2>3, <2>4 DEF Kept
  <2> QED BY <2>6, <2>7, <2>8, <2>9 DEF KeptIn
<1> QED
  BY <1>12, <1>14, <1>15, <1>16 DEF Written

-----------------------------------------------------------------------------
(* The invariant and the theorems *)

\* The inductive invariant of the write path.
WriteInv == QueueTypeOK /\ Lined /\ Grouped /\ Gathered /\ Written /\ Numbered

\* It holds at the start,
LEMMA InitWrite == Init => WriteInv
BY InitType, InitLined, InitGrouped, InitGathered, InitWritten, InitNumbered DEF WriteInv

\* ... after a call,
LEMMA EnterWrite ==
    ASSUME WriteInv, NEW t \in Threads, Enter(t)
    PROVE  WriteInv'
BY EnterEnters, EnteredLined, EnteredGrouped, EnteredGathered, EnteredWritten, EnteredNumbered
   DEF WriteInv

\* ... after a turn,
LEMMA TurnWrite ==
    ASSUME WriteInv, NEW t \in Threads,
           QueueTypeOK' /\ \E p \in Positions, o \in BOOLEAN : Turn(t, p, o)
    PROVE  WriteInv'
<1>1. PICK p \in Positions, o \in BOOLEAN : Turn(t, p, o)
  OBVIOUS
<1> QED
  BY <1>1, TurnLined, TurnGrouped, TurnGathered, TurnWritten, TurnNumbered DEF WriteInv

\* ... after BuildBatchGroup,
LEMMA BuildWrite ==
    ASSUME WriteInv, NEW t \in Threads, BuildBatchGroup(t)
    PROVE  WriteInv'
<1>1. queue # <<>>
  BY DEF WriteInv, Lined, FirstLeads, Leading, BuildBatchGroup, Holds, At
<1>2. QueueTypeOK' /\ \E n \in DOMAIN queue : GroupBuilt(t, n)
  BY <1>1, BuildBuilds DEF WriteInv
<1>3. PICK n \in DOMAIN queue : GroupBuilt(t, n)
  BY <1>2
<1> QED
  BY <1>2, <1>3, BuiltLined, BuiltGrouped, BuiltGathered, BuiltWritten, BuiltNumbered
     DEF WriteInv

\* ... after LogAndInsert,
LEMMA LogWrite ==
    ASSUME WriteInv, NEW t \in Threads, LogAndInsert(t)
    PROVE  WriteInv'
BY LogLogs, LogsLined, LogsGrouped, LogsGathered, LogsWritten, LogsNumbered DEF WriteInv

\* ... after Publish,
LEMMA PublishWrite ==
    ASSUME WriteInv, NEW t \in Threads, Publish(t)
    PROVE  WriteInv'
BY PublishPublishes, PublishesLined, PublishesGrouped, PublishesGathered, PublishesWritten,
   PublishesNumbered DEF WriteInv

\* ... after Finish,
LEMMA FinishWrite ==
    ASSUME WriteInv, NEW t \in Threads, Finish(t)
    PROVE  WriteInv'
<1>1. \E i \in DOMAIN queue : queue[i] = th[t].last
  BY DEF WriteInv, Grouped, Ends, Committing, Finish, Holds, At
<1>2. QueueTypeOK' /\ \E n \in DOMAIN queue : Finishes(t, n)
  BY <1>1, FinishFinishes DEF WriteInv
<1>3. PICK n \in DOMAIN queue : Finishes(t, n)
  BY <1>2
<1> QED
  BY <1>2, <1>3, FinishesLined, FinishesGrouped, FinishesGathered, FinishesWritten,
     FinishesNumbered DEF WriteInv

\* ... after a step of the background thread or the destructor,
LEMMA ApartWrite ==
    ASSUME WriteInv, QueueTypeOK', Apart
    PROVE  WriteInv'
BY ApartLined, ApartGrouped, ApartGathered, ApartWritten, ApartNumbered DEF WriteInv

\* ... and so after every step.
LEMMA StepWrite == WriteInv /\ [Next]_vars => WriteInv'
<1> SUFFICES ASSUME WriteInv, [Next]_vars PROVE WriteInv'
  OBVIOUS
<1>1. QueueTypeOK
  BY DEF WriteInv
<1>2. CASE BackgroundStep
  BY <1>1, <1>2, BackgroundRouses, ApartWrite
<1>3. CASE Close \/ UNCHANGED vars
  BY <1>1, <1>3, CloseLeaves, ApartWrite
<1>4. ASSUME NEW t \in Threads, Enter(t) PROVE WriteInv'
  BY <1>4, EnterWrite
<1>5. ASSUME NEW t \in Threads, WriterStep(t) PROVE WriteInv'
  <2>1. CASE CheckTurn(t)
    BY <1>1, <2>1, CheckTurnTurns, TurnWrite
  <2>2. CASE TakeMutex(t)
    BY <1>1, <2>2, TakeMutexTurns, TurnWrite
  <2>3. CASE Sleep(t)
    BY <1>1, <2>3, SleepTurns, TurnWrite
  <2>4. CASE MakeRoomForWrite(t)
    BY <1>1, <2>4, MakeRoomTurns, TurnWrite
  <2>5. CASE BuildBatchGroup(t)
    BY <2>5, BuildWrite
  <2>6. CASE LogAndInsert(t)
    BY <2>6, LogWrite
  <2>7. CASE Publish(t)
    BY <2>7, PublishWrite
  <2>8. CASE Finish(t)
    BY <2>8, FinishWrite
  <2>9. CASE AwaitFlush(t)
    BY <1>1, <2>9, AwaitFlushTurns, TurnWrite
  <2> QED BY <1>5, <2>1, <2>2, <2>3, <2>4, <2>5, <2>6, <2>7, <2>8, <2>9 DEF WriterStep
<1> QED
  BY <1>2, <1>3, <1>4, <1>5 DEF Next

-----------------------------------------------------------------------------
\* What the invariant says of a call that has returned.
LEMMA OneRecord ==
    ASSUME NEW s, NEW x, Once(s, x)
    PROVE  Cardinality({i \in DOMAIN s : s[i].id = x}) = 1
<1>1. PICK i \in DOMAIN s : \A j \in DOMAIN s : (s[j].id = x) <=> (j = i)
  BY DEF Once
<1>2. {j \in DOMAIN s : s[j].id = x} = {i}
  BY <1>1
<1> QED
  BY <1>2, FS_Singleton

\* It says that acknowledged writes are kept,
LEMMA WriteKeeps == WriteInv => WritesKept
<1> SUFFICES ASSUME WriteInv PROVE AckedOnce /\ AppliedFollowsLog
  BY DEF WritesKept
<1>1. AckedOnce
  <2> SUFFICES ASSUME NEW t \in Threads, Acked(t)
               PROVE  /\ Cardinality({i \in DOMAIN logged : logged[i].id = Id(t)}) = 1
                      /\ Cardinality({i \in DOMAIN Applied : Applied[i].id = Id(t)}) = 1
                      /\ th[t].req.sync => \E i \in 1 .. synced : logged[i].id = Id(t)
    BY DEF AckedOnce
  <2>1. Kept(t)
    BY DEF WriteInv, Written, Acknowledged, Acked, At
  <2>2. Once(logged, Id(t)) /\ Once(Applied, Id(t))
    BY <2>1 DEF Kept, KeptIn
  <2>3. th[t].req.sync => \E i \in DOMAIN logged : i <= synced /\ logged[i].id = Id(t)
    BY <2>1 DEF Kept, KeptIn
  <2>4. \A i \in DOMAIN logged : i <= synced => i \in 1..synced
    <3>1. logged \in Seq(Entry) /\ synced \in Nat
      BY DEF WriteInv, QueueTypeOK
    <3> QED BY <3>1
  <2> QED BY <2>2, <2>3, <2>4, OneRecord
<1>2. AppliedFollowsLog
  <2>1. Ids(Applied) \subseteq Ids(logged)
    BY DEF WriteInv, Numbered, Held, Ids
  <2> QED BY <2>1 DEF WriteInv, Numbered, Ascending, Doubted, AppliedFollowsLog
<1> QED
  BY <1>1, <1>2

\* ... and that calls made after an error fail.
LEMMA WriteFails == WriteInv => FailsAfterError
BY DEF WriteInv, Grouped, Told, FailsAfterError, At

\* WriteInv holds throughout.
THEOREM WriteInvariant == Spec => []WriteInv
<1> QED
  BY InitWrite, StepWrite, PTL DEF Spec

\* A write that returned success is in the log once, in a memtable or table once, and
\* synced if it asked for that; the memtables and tables follow the log (the leader
\* hands its status to the whole group, db_impl.cc:1239): for any number of threads,
\* calls, limits and I/O errors.
THEOREM AckedWritesKept == Spec => []WritesKept
<1> QED
  BY WriteInvariant, WriteKeeps, PTL

\* A call of Write made after an error was recorded never returns success, whoever
\* leads its group (db_impl.cc:1227-1231): for any threads, calls, limits and errors.
THEOREM WritesFailAfterError == Spec => []FailsAfterError
<1> QED
  BY WriteInvariant, WriteFails, PTL

-----------------------------------------------------------------------------

\* What a step may do to the memtable.
LEMMA MemGrows ==
    ASSUME QueueTypeOK, [Next]_vars
    PROVE  \/ mem' = mem \/ mem' = <<>>
           \/ \E t \in Threads : mem' = mem \o Record(t)
<1>1. CASE BackgroundStep
  BY <1>1 DEF BackgroundStep, BackgroundCall, CompactMemTable, CompactMemTableFirst,
              InstallCompactionResults, BackgroundDone, memVars
<1>2. CASE Close \/ UNCHANGED vars
  BY <1>2 DEF Close, memVars, vars
<1>3. ASSUME NEW t \in Threads, Enter(t) PROVE mem' = mem
  BY <1>3 DEF Enter, memVars
<1>4. ASSUME NEW t \in Threads, WriterStep(t)
      PROVE  mem' = mem \/ mem' = <<>> \/ mem' = mem \o Record(t)
  <2>1. CASE CheckTurn(t) \/ TakeMutex(t) \/ Sleep(t) \/ BuildBatchGroup(t) \/ AwaitFlush(t)
    BY <2>1 DEF CheckTurn, TakeMutex, Sleep, BuildBatchGroup, AwaitFlush, memVars
  <2>2. CASE MakeRoomForWrite(t)
    BY <2>2 DEF MakeRoomForWrite, SwitchMemTable, memVars
  <2>3. CASE LogAndInsert(t)
    BY <2>3 DEF LogAndInsert
  <2>4. CASE Publish(t) \/ Finish(t)
    BY <2>4 DEF Publish, Finish, memVars
  <2> QED BY <1>4, <2>1, <2>2, <2>3, <2>4 DEF WriterStep
<1> QED
  BY <1>1, <1>2, <1>3, <1>4 DEF Next

\* New entries have numbers above LastSequence().
LEMMA InsertsAbove ==
    ASSUME QueueTypeOK, [Next]_vars, NEW i \in DOMAIN mem'
    PROVE  mem'[i] \in {mem[j] : j \in DOMAIN mem} \/ mem'[i].seq > lastSequence
<1>1. CASE mem' = mem
  BY <1>1
<1>2. CASE mem' = <<>>
  BY <1>2
<1>3. ASSUME NEW t \in Threads, mem' = mem \o Record(t)
      PROVE  mem'[i] \in {mem[j] : j \in DOMAIN mem} \/ mem'[i].seq > lastSequence
  <2>1. PICK r \in Seq(Entry) : r = Record(t)
    BY RecordType
  <2>2. /\ mem \in Seq(Entry) /\ lastSequence \in Nat
        /\ DOMAIN r = 1..Len(r) /\ Len(r) = Len(th[t].group)
        /\ \A k \in 1..Len(th[t].group) : r[k].seq = lastSequence + k
    BY <2>1, RecordType DEF QueueTypeOK
  <2>3. (i \in DOMAIN mem /\ mem'[i] = mem[i]) \/ \E k \in DOMAIN r : mem'[i] = r[k]
    <3>1. \A j \in DOMAIN (mem \o r) :
             \/ j \in DOMAIN mem /\ (mem \o r)[j] = mem[j]
             \/ \E k \in DOMAIN r : (mem \o r)[j] = r[k]
      BY <2>2, Parts
    <3> QED BY <1>3, <2>1, <3>1
  <2>4. CASE i \in DOMAIN mem /\ mem'[i] = mem[i]
    BY <2>4
  <2>5. CASE \E k \in DOMAIN r : mem'[i] = r[k]
    <3>1. PICK k \in 1..Len(r) : mem'[i] = r[k]
      BY <2>2, <2>5
    <3>2. mem'[i].seq = lastSequence + k
      BY <2>2, <3>1
    <3> QED BY <2>2, <3>2
  <2> QED BY <2>3, <2>4, <2>5
<1> QED
  BY <1>1, <1>2, <1>3, MemGrows

\* Nothing is ever inserted in the memtable at a number a reader may already read at:
\* for any threads, calls, limits and errors (Write numbers a group from
\* LastSequence() + 1 and publishes the numbers after inserting).
THEOREM NothingInsertedLate == Spec => NothingLate
<1>1. WriteInv /\ [Next]_vars =>
        [\A i \in DOMAIN mem' : mem'[i] \in {mem[j] : j \in DOMAIN mem}
                                \/ mem'[i].seq > lastSequence]_vars
  BY InsertsAbove DEF WriteInv
<1> QED
  BY <1>1, WriteInvariant, PTL DEF Spec, NothingLate
=============================================================================
