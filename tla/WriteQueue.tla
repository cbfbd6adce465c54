----------------------------- MODULE WriteQueue -----------------------------
(***************************************************************************)
(* The write path of LevelDB (Pods/leveldb-library/db/db_impl.cc): threads *)
(* that call DBImpl::Write line up in writers_, the one at the front logs  *)
(* and applies the batches of several of them, makes room by switching to  *)
(* a new memtable, and waits for the background thread when it must.       *)
(*                                                                         *)
(* "holder" is mutex_.  A step of a thread that holds it is one passage of *)
(* the code up to the next wait, unlock or loop turn; the condition        *)
(* variables are modelled with their signals, so that a lost wake-up would *)
(* show as a thread that waits for ever.                                   *)
(***************************************************************************)
EXTENDS Integers, Sequences, FiniteSets

CONSTANTS
  Threads,            \* the threads that call the database
  Requests,           \* what a call may ask for, see Request
  Calls,              \* bound: calls made by each thread
  WriteBufferSize,    \* options_.write_buffer_size, in batches
  MaxGroup,           \* the size limit of a batch group, in batches
  CompactionTrigger,  \* config::kL0_CompactionTrigger
  SlowdownTrigger,    \* config::kL0_SlowdownWritesTrigger
  StopTrigger,        \* config::kL0_StopWritesTrigger
  Failures,           \* bound: I/O errors
  None                \* nobody holds the mutex; no memtable

\* A call of Write with a batch, or of CompactMemTable (a null batch).
Request == [batch : BOOLEAN, sync : BOOLEAN]

\* A batch in the log or in a memtable: whose call it is of, and its number.
Entry == [id : Threads \X Nat, seq : Nat]

ASSUME WriteQueueAssumption ==
  /\ Requests \subseteq Request
  /\ Calls \in Nat /\ Failures \in Nat
  /\ WriteBufferSize \in Nat /\ MaxGroup \in Nat \ {0}
  /\ CompactionTrigger \in Nat \ {0}
  /\ SlowdownTrigger \in Nat /\ StopTrigger \in Nat
  /\ CompactionTrigger <= StopTrigger
  /\ None \notin Threads \cup Seq(Entry)

VARIABLES
  holder,         \* mutex_
  queue,          \* writers_
  th,             \* per thread: where it is in its call, see Writer
  mem, imm,       \* the batches of mem_; those of imm_, or None
  level0,         \* number of files at level 0
  logged,         \* ghost: the batches in the logs, in order, see Record
  synced,         \* ghost: how many of them an fsync has reached
  lastSequence,   \* versions_->LastSequence()
  flushed,        \* ghost: the batches that went to a table
  bg,             \* where the background thread is
  bgError,        \* ~bg_error_.ok()
  closing,        \* where the destructor is
  failures        \* I/O errors so far

vars == <<holder, queue, th, mem, imm, level0, logged, synced, lastSequence,
          flushed, bg, bgError, closing, failures>>

\* DBImpl::Writer, and the locals of Write and MakeRoomForWrite.
Writer ==
  [pc : {"out", "check", "cv", "wake", "room", "sleep", "slept", "bgwait",
         "bgwake", "group", "logging", "relock", "finish", "await", "awaiting"},
   call : 0 .. Calls, req : Request, done : BOOLEAN, ok : BOOLEAN,
   force : BOOLEAN, delay : BOOLEAN, last : Threads,
   group : Seq(Threads), syncError : BOOLEAN,
   before : SUBSET (Threads \X Nat), late : BOOLEAN]  \* ghosts of the call

Id(t) == <<t, th[t].call>>

At(t, pc) == th[t].pc = pc
Holds(t, pc) == At(t, pc) /\ holder = t
Go(t, pc) == th' = [th EXCEPT ![t].pc = pc]

logVars == <<logged, synced, lastSequence>>
memVars == <<mem, imm, level0, flushed>>

-----------------------------------------------------------------------------
(* Signals.  A waiter that is signalled still has to take the mutex.       *)

\* background_work_finished_signal_.SignalAll(): wakes the threads that wait
\* for room or for a flush, and the destructor.
SignalAll(threads) ==
  [t \in Threads |->
     CASE threads[t].pc = "bgwait"   -> [threads[t] EXCEPT !.pc = "bgwake"]
       [] threads[t].pc = "awaiting" -> [threads[t] EXCEPT !.pc = "await"]
       [] OTHER -> threads[t]]

Woken(c) == IF c = "waiting" THEN "woken" ELSE c

\* RecordBackgroundError: the first error is kept and everyone is woken.
RecordBackgroundError ==
  /\ bgError' = TRUE
  /\ th' = IF bgError THEN th ELSE SignalAll(th)
  /\ closing' = IF bgError THEN closing ELSE Woken(closing)

\* w.cv.Signal()
Signal(threads, t) ==
  IF threads[t].pc = "cv" THEN [threads EXCEPT ![t].pc = "wake"] ELSE threads

NewHead(threads, rest) ==
  IF rest = <<>> THEN threads ELSE Signal(threads, rest[1])

\* MaybeScheduleCompaction: background_compaction_scheduled_ and Schedule.
MaybeSchedule(b, i, l0) ==
  IF b = "idle" /\ closing = "open" /\ ~bgError
       /\ (i # None \/ l0 >= CompactionTrigger)
  THEN "scheduled" ELSE b

-----------------------------------------------------------------------------
(* Write.                                                                  *)

\* The call: take the mutex and join the queue.
Enter(t) ==
  /\ At(t, "out") /\ th[t].call < Calls
  /\ holder = None /\ closing = "open"
  /\ holder' = t
  /\ queue' = Append(queue, t)
  /\ \E r \in Requests :
       th' = [th EXCEPT ![t] = [th[t] EXCEPT
                !.pc = "check", !.call = th[t].call + 1, !.req = r, !.done = FALSE,
                !.ok = TRUE, !.syncError = FALSE, !.group = <<>>, !.last = t,
                !.before = IF r.batch THEN {} ELSE {logged[i].id : i \in DOMAIN logged},
                !.late = bgError]]
  /\ UNCHANGED <<memVars, logVars, bg, bgError, failures, closing>>

\* Write returns; CompactMemTable goes on if it did so with success.
Returned(t) == IF th[t].req.batch \/ ~th[t].ok THEN "out" ELSE "await"

WaitTurn(t) == Go(t, "cv") /\ holder' = None

\* while (!w.done && &w != writers_.front()) w.cv.Wait();
CheckTurn(t) ==
  /\ Holds(t, "check")
  /\ \/ /\ th[t].done
        /\ Go(t, Returned(t))
        /\ holder' = None
     \/ /\ ~th[t].done /\ queue[1] = t
        /\ th' = [th EXCEPT ![t].pc = "room", ![t].force = ~th[t].req.batch,
                            ![t].delay = th[t].req.batch]
        /\ UNCHANGED holder
     \/ /\ ~th[t].done /\ queue[1] # t
        /\ WaitTurn(t)
  /\ UNCHANGED <<queue, memVars, logVars, bg, bgError, failures, closing>>

\* A waiting or sleeping thread goes on where it was.
TakeMutex(t) ==
  /\ holder = None
  /\ holder' = t
  /\ \/ At(t, "wake") /\ Go(t, "check")
     \/ At(t, "slept") /\ Go(t, "room")
     \/ At(t, "bgwake") /\ Go(t, "room")
  /\ UNCHANGED <<queue, memVars, logVars, bg, bgError, failures, closing>>

Sleep(t) ==
  /\ At(t, "sleep")
  /\ Go(t, "slept")
  /\ UNCHANGED <<holder, queue, memVars, logVars, bg, bgError, failures, closing>>

\* An earlier error is yielded.  (Mutant: only when there is no room.)
FailedIfFull == bgError /\ imm # None
Failed == bgError

\* Each write is delayed at most once when level 0 is nearly full.
Delay(t) == th[t].delay /\ level0 >= SlowdownTrigger

HasRoom(t) == ~th[t].force /\ Len(mem) <= WriteBufferSize

MustWait == imm # None \/ level0 >= StopTrigger

\* The new log and the new memtable; the old one is to be compacted.
SwitchMemTable(t) ==
  \/ /\ imm' = mem /\ mem' = <<>>
     /\ th' = [th EXCEPT ![t].force = FALSE]
     /\ bg' = MaybeSchedule(bg, mem, level0)
     /\ UNCHANGED <<level0, flushed, failures>>
  \/ /\ failures < Failures                          \* NewWritableFile fails
     /\ failures' = failures + 1
     /\ th' = [th EXCEPT ![t].pc = "finish", ![t].ok = FALSE]
     /\ UNCHANGED <<memVars, bg>>

\* One turn of the loop of MakeRoomForWrite.
MakeRoomForWrite(t) ==
  /\ Holds(t, "room")
  /\ \/ /\ Failed
        /\ th' = [th EXCEPT ![t].pc = "finish", ![t].ok = FALSE]
        /\ UNCHANGED <<holder, memVars, bg, failures>>
     \/ /\ ~Failed /\ Delay(t)
        /\ th' = [th EXCEPT ![t].pc = "sleep", ![t].delay = FALSE]
        /\ holder' = None
        /\ UNCHANGED <<memVars, bg, failures>>
     \/ /\ ~Failed /\ ~Delay(t) /\ HasRoom(t)
        /\ Go(t, IF th[t].req.batch THEN "group" ELSE "finish")
        /\ UNCHANGED <<holder, memVars, bg, failures>>
     \/ /\ ~Failed /\ ~Delay(t) /\ ~HasRoom(t) /\ MustWait
        /\ Go(t, "bgwait")
        /\ holder' = None
        /\ UNCHANGED <<memVars, bg, failures>>
     \/ /\ ~Failed /\ ~Delay(t) /\ ~HasRoom(t) /\ ~MustWait
        /\ SwitchMemTable(t)
        /\ UNCHANGED holder
  /\ UNCHANGED <<queue, logVars, bgError, closing>>

\* The prefix of the queue BuildBatchGroup takes: up to the first writer that
\* wants a sync the leader does not do, or whose batch makes the group too big.
\* (Mutant: a sync write joins any leader.)
GroupEndAnySync(t) ==
  LET batches(n) == Cardinality({i \in 1 .. n : th[queue[i]].req.batch})
  IN  CHOOSE n \in DOMAIN queue :
        /\ batches(n) <= MaxGroup \/ n = 1
        /\ n = Len(queue) \/ batches(n + 1) > MaxGroup
GroupEnd(t) ==
  LET batches(n) == Cardinality({i \in 1 .. n : th[queue[i]].req.batch})
      takes(i) == /\ th[queue[i]].req.sync => th[t].req.sync
                  /\ th[queue[i]].req.batch => batches(i) <= MaxGroup
  IN  CHOOSE n \in DOMAIN queue :
        /\ \A i \in 2 .. n : takes(i)
        /\ n = Len(queue) \/ ~takes(n + 1)

\* The members of s that are in W, in their order.
Members(s, W) ==
  LET members[n \in 0 .. Len(s)] ==
        IF n = 0 THEN <<>>
        ELSE IF s[n] \in W THEN Append(members[n - 1], s[n]) ELSE members[n - 1]
  IN  members[Len(s)]

BuildBatchGroup(t) ==
  /\ Holds(t, "group")
  /\ LET taken == SubSeq(queue, 1, GroupEnd(t))
     IN th' = [th EXCEPT ![t].pc = "logging", ![t].last = taken[Len(taken)],
                 ![t].group = Members(taken, {w \in Threads : th[w].req.batch})]
  /\ holder' = None
  /\ UNCHANGED <<queue, memVars, logVars, bg, bgError, failures, closing>>

\* (Mutant: the first batch gets a number already published.)
RecordFromLast(t) ==
  [i \in DOMAIN th[t].group |->
     [id |-> Id(th[t].group[i]), seq |-> lastSequence + i - 1]]

\* What the group's batches become in the log: their numbers follow
\* LastSequence() in the order of the group.
Record(t) ==
  [i \in DOMAIN th[t].group |->
     [id |-> Id(th[t].group[i]), seq |-> lastSequence + i]]

\* Without the mutex: AddRecord, Sync when the leader asks for it, InsertInto.
LogAndInsert(t) ==
  /\ At(t, "logging")
  /\ \/ /\ logged' = logged \o Record(t)
        /\ synced' = IF th[t].req.sync THEN Len(logged') ELSE synced
        /\ mem' = mem \o Record(t)
        /\ Go(t, "relock")
        /\ UNCHANGED failures
     \/ /\ failures < Failures                      \* AddRecord fails
        /\ failures' = failures + 1
        /\ th' = [th EXCEPT ![t].pc = "relock", ![t].ok = FALSE]
        /\ UNCHANGED <<logged, synced, mem>>
     \/ /\ failures < Failures /\ th[t].req.sync    \* Sync fails
        /\ failures' = failures + 1
        /\ logged' = logged \o Record(t)
        /\ th' = [th EXCEPT ![t].pc = "relock", ![t].ok = FALSE, ![t].syncError = TRUE]
        /\ UNCHANGED <<synced, mem>>
  /\ UNCHANGED <<holder, queue, imm, level0, flushed, lastSequence, bg, bgError, closing>>

\* Under the mutex again: RecordBackgroundError after a failed sync, and the
\* numbers of the group become visible.
Publish(t) ==
  /\ At(t, "relock") /\ holder = None
  /\ holder' = t
  /\ IF th[t].syncError
     THEN /\ bgError' = TRUE
          /\ th' = [(IF bgError THEN th ELSE SignalAll(th)) EXCEPT ![t].pc = "finish"]
     ELSE Go(t, "finish") /\ UNCHANGED bgError
  /\ lastSequence' = lastSequence + Len(th[t].group)
  /\ UNCHANGED <<queue, memVars, logged, synced, bg, closing, failures>>

\* Every writer of the group leaves the queue with the leader's status, the
\* new head is signalled, the leader returns.
Finish(t) ==
  /\ Holds(t, "finish")
  /\ LET n == CHOOSE i \in DOMAIN queue : queue[i] = th[t].last
         group == {queue[i] : i \in 1 .. n}
         rest == SubSeq(queue, n + 1, Len(queue))
         told == [w \in Threads |->
                    IF w \in group /\ w # t
                    THEN [th[w] EXCEPT !.done = TRUE, !.ok = th[t].ok,
                                       !.pc = IF @ = "cv" THEN "wake" ELSE @]
                    ELSE th[w]]
     IN /\ queue' = rest
        /\ th' = [NewHead(told, rest) EXCEPT ![t].pc = Returned(t)]
  /\ holder' = None
  /\ UNCHANGED <<memVars, logVars, bg, bgError, failures, closing>>

\* TEST_CompactMemTable after its Write: while imm_ is there and no error has
\* been recorded, wait.
AwaitFlush(t) ==
  /\ At(t, "await") /\ holder = None
  /\ IF imm # None /\ ~bgError
     THEN Go(t, "awaiting")
     ELSE th' = [th EXCEPT ![t].pc = "out", ![t].ok = imm = None]
  /\ UNCHANGED <<holder, queue, memVars, logVars, bg, bgError, failures, closing>>

-----------------------------------------------------------------------------
(* The background thread: BackgroundCall, the memtable's compaction and a  *)
(* compaction of level 0.  Both do their I/O without the mutex.            *)

BackgroundCall ==
  /\ bg = "scheduled" /\ holder = None
  /\ bg' = IF bgError \/ closing # "open" THEN "done"
           ELSE IF imm # None THEN "building"
           ELSE IF level0 >= CompactionTrigger THEN "merging" ELSE "done"
  /\ UNCHANGED <<holder, queue, th, memVars, logVars, bgError, closing, failures>>

\* CompactMemTable commits: imm_ is a table of level 0, or of the level
\* PickLevelForMemTableOutput names, or of none if it is empty.
CommitMemTable ==
  /\ closing = "open"
  /\ imm' = None /\ flushed' = flushed \o imm
  /\ level0' \in IF imm = <<>> THEN {level0} ELSE {level0, level0 + 1}
  /\ UNCHANGED <<bgError, failures>>

\* It fails: for an I/O error, or because the database is being deleted.
MemTableError ==
  /\ \/ failures < Failures /\ failures' = failures + 1
     \/ closing # "open" /\ UNCHANGED failures
  /\ RecordBackgroundError
  /\ UNCHANGED <<imm, flushed, level0>>

CompactMemTable ==
  /\ bg = "building" /\ holder = None
  /\ bg' = "done"
  /\ \/ CommitMemTable /\ UNCHANGED <<th, closing>>
     \/ MemTableError
  /\ UNCHANGED <<holder, queue, mem, logVars>>

\* DoCompactionWork stops between two keys for a memtable that has filled up
\* meanwhile, and wakes the writers.
CompactMemTableFirst ==
  /\ bg = "merging" /\ holder = None /\ imm # None
  /\ \/ CommitMemTable /\ th' = SignalAll(th) /\ UNCHANGED closing
     \/ MemTableError
  /\ UNCHANGED <<holder, queue, mem, bg, logVars>>

\* InstallCompactionResults: level-0 files it began with are gone.
InstallCompactionResults ==
  /\ bg = "merging" /\ holder = None
  /\ \/ /\ \E n \in 1 .. level0 : level0' = level0 - n
        /\ UNCHANGED <<th, bgError, closing, failures>>
     \/ /\ \/ failures < Failures /\ failures' = failures + 1
           \/ closing # "open" /\ UNCHANGED failures
        /\ RecordBackgroundError
        /\ UNCHANGED level0
  /\ bg' = "done"
  /\ UNCHANGED <<holder, queue, mem, imm, flushed, logVars>>

\* The end of BackgroundCall: schedule again if there is work, wake everyone.
BackgroundDone ==
  /\ bg = "done" /\ holder = None
  /\ bg' = MaybeSchedule("idle", imm, level0)
  /\ th' = SignalAll(th)
  /\ closing' = Woken(closing)
  /\ UNCHANGED <<holder, queue, memVars, logVars, bgError, failures>>

\* The destructor, called when no other call is under way: it waits for the
\* background thread.
Close ==
  /\ holder = None
  /\ \/ closing = "open" /\ \A t \in Threads : At(t, "out")
     \/ closing = "woken"
  /\ closing' = IF bg = "idle" THEN "closed" ELSE "waiting"
  /\ UNCHANGED <<holder, queue, th, memVars, logVars, bg, bgError, failures>>

-----------------------------------------------------------------------------
Init ==
  /\ holder = None /\ queue = <<>>
  /\ th \in [Threads -> {[pc |-> "out", call |-> 0,
                 req |-> [batch |-> TRUE, sync |-> FALSE],
                 done |-> FALSE, ok |-> TRUE, force |-> FALSE, delay |-> FALSE,
                 last |-> CHOOSE t \in Threads : TRUE, group |-> <<>>,
                 syncError |-> FALSE, before |-> {}, late |-> FALSE]}]
  /\ mem = <<>> /\ imm = None /\ level0 = 0 /\ flushed = <<>>
  /\ logged = <<>> /\ synced = 0 /\ lastSequence = 0
  /\ bg = "idle" /\ bgError = FALSE /\ closing = "open" /\ failures = 0

WriterStep(t) ==
  \/ CheckTurn(t) \/ TakeMutex(t) \/ Sleep(t) \/ MakeRoomForWrite(t)
  \/ BuildBatchGroup(t) \/ LogAndInsert(t) \/ Publish(t) \/ Finish(t)
  \/ AwaitFlush(t)

BackgroundStep ==
  \/ BackgroundCall \/ CompactMemTable \/ CompactMemTableFirst
  \/ InstallCompactionResults \/ BackgroundDone

Next ==
  \/ \E t \in Threads : Enter(t) \/ WriterStep(t)
  \/ BackgroundStep
  \/ Close

\* Threads that have begun go on, the background thread runs, a destructor
\* that has begun goes on; nobody has to make a call.
Fairness == /\ WF_vars(BackgroundStep)
            /\ \A t \in Threads : WF_vars(WriterStep(t))
            /\ WF_vars(closing = "woken" /\ Close)

Spec == Init /\ [][Next]_vars /\ Fairness

-----------------------------------------------------------------------------
(* Properties.                                                             *)

Ids(s) == {s[i].id : i \in DOMAIN s}
Immutable == IF imm = None THEN <<>> ELSE imm
Applied == flushed \o Immutable \o mem

\* Thread t's last call wrote a batch and returned success.
Acked(t) == At(t, "out") /\ th[t].call > 0 /\ th[t].req.batch /\ th[t].ok

\* A write that returned success is in the log once, in a memtable or table
\* once, and if it asked for a sync everything up to it has been synced
\* (Write hands the leader's status to the whole group, db_impl.cc:1239).
AckedOnce ==
  \A t \in Threads : Acked(t) =>
    /\ Cardinality({i \in DOMAIN logged : logged[i].id = Id(t)}) = 1
    /\ Cardinality({i \in DOMAIN Applied : Applied[i].id = Id(t)}) = 1
    /\ th[t].req.sync => \E i \in 1 .. synced : logged[i].id = Id(t)

\* What the memtables and tables hold is what the log holds, in its order,
\* but for batches whose sync failed; numbers grow along the log.
AppliedFollowsLog ==
  /\ \A i, j \in DOMAIN logged : i < j => logged[i].seq < logged[j].seq
  /\ \A i, j \in DOMAIN Applied : i < j => Applied[i].seq < Applied[j].seq
  /\ Ids(Applied) \subseteq Ids(logged)
  /\ Ids(logged) # Ids(Applied) =>
       bgError \/ \E t \in Threads : th[t].syncError

\* A write that returned is in the log and applied, in the log's order.
WritesKept == AckedOnce /\ AppliedFollowsLog

\* A failed sync leaves the log in doubt, so every later write must fail
\* (db_impl.cc:1227-1231).
FailsAfterError ==
  \A t \in Threads : At(t, "out") /\ th[t].call > 0 /\ th[t].late => ~th[t].ok

\* Readers read at LastSequence(): nothing is ever inserted at or below it,
\* so what a snapshot shows does not change.
NothingLate ==
  [][\A i \in DOMAIN mem' : mem'[i] \in {mem[j] : j \in DOMAIN mem}
                            \/ mem'[i].seq > lastSequence]_vars

\* Every call returns, and the destructor ends.
CallsReturn ==
  /\ \A t \in Threads : ~At(t, "out") ~> At(t, "out")
  /\ closing = "waiting" ~> closing = "closed"

=============================================================================
