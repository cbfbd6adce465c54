------------------------------- MODULE PosixEnv -------------------------------
(* Two services of the Env LevelDB runs on (PosixEnv of util/env_posix.cc):   *)
(* the lock file that keeps a database to one user, and the thread that does  *)
(* the background work. Their calls come from several threads.                *)
(*                                                                            *)
(* The operating system's record locks belong to a process, and all it has on *)
(* a file go when it closes any descriptor of the file: closing is modelled   *)
(* with that.                                                                 *)
EXTENDS Integers, Sequences, FiniteSets

CONSTANTS
    EnvThreads,     \* callers
    ProcessOf,      \* the process of each
    MaxWork,        \* bound: work items scheduled
    MaxLocks        \* bound: calls of LockFile

VARIABLES
    lockPc,     \* where a thread is in LockFile or UnlockFile
    owner,      \* the processes that have the record lock: one or none
    lockTable,  \* locked_files_ of each process: whether the file is in it
    lockCalls,
    disturbed,  \* a process closed the file while another of its threads used it
    work,       \* background_work_queue_
    worker,     \* the background thread: none, ready, waiting, woken, or running
    scheduled, ran

lockVars == <<lockPc, owner, lockTable, lockCalls, disturbed>>
workVars == <<work, worker, scheduled, ran>>
envVars == <<lockPc, owner, lockTable, lockCalls, disturbed, work, worker, scheduled, ran>>

Processes == {ProcessOf[t] : t \in EnvThreads}

-----------------------------------------------------------------------------
(* LockFile and UnlockFile *)

\* Any descriptor of the file that a process closes ends its record lock.
Closes(t) ==
    /\ owner' = owner \ {ProcessOf[t]}
    /\ disturbed' = (disturbed \/ \E u \in EnvThreads \ {t} :
                       ProcessOf[u] = ProcessOf[t] /\ lockPc[u] \notin {"idle", "opened"})

LkOpen(t) ==
    /\ lockPc[t] = "idle" /\ lockCalls < MaxLocks
    /\ lockCalls' = lockCalls + 1
    /\ lockPc' = [lockPc EXCEPT ![t] = "opened"]
    /\ UNCHANGED <<disturbed, owner, lockTable, workVars>>

\* (Mutant: the threads of a process are not kept apart.)
LkInsertAny(t) ==
    /\ lockPc[t] = "opened"
    /\ lockTable' = [lockTable EXCEPT ![ProcessOf[t]] = TRUE]
    /\ lockPc' = [lockPc EXCEPT ![t] = "inserted"]
    /\ UNCHANGED <<owner, disturbed, lockCalls, workVars>>

\* locks_.Insert: already held by the process, or go on to fcntl.
LkInsert(t) ==
    /\ lockPc[t] = "opened"
    /\ lockTable' = [lockTable EXCEPT ![ProcessOf[t]] = TRUE]
    /\ IF lockTable[ProcessOf[t]]
       THEN lockPc' = [lockPc EXCEPT ![t] = "idle"] /\ Closes(t)
       ELSE lockPc' = [lockPc EXCEPT ![t] = "inserted"] /\ UNCHANGED <<owner, disturbed>>
    /\ UNCHANGED <<lockCalls, workVars>>

\* LockOrUnlock(fd, true): another process may have the lock, or it may fail.
LkSetLock(t) ==
    /\ lockPc[t] = "inserted"
    /\ \/ /\ owner \subseteq {ProcessOf[t]}
          /\ owner' = {ProcessOf[t]} /\ lockPc' = [lockPc EXCEPT ![t] = "holds"]
          /\ UNCHANGED disturbed
       \/ lockPc' = [lockPc EXCEPT ![t] = "failed"] /\ Closes(t)
    /\ UNCHANGED <<lockTable, lockCalls, workVars>>

LkFailed(t) ==
    /\ lockPc[t] = "failed"
    /\ lockTable' = [lockTable EXCEPT ![ProcessOf[t]] = FALSE]
    /\ lockPc' = [lockPc EXCEPT ![t] = "idle"]
    /\ UNCHANGED <<disturbed, owner, lockCalls, workVars>>

\* UnlockFile: the record lock, the table, the descriptor. When fcntl fails it
\* returns at once, and the lock stays in the table with its descriptor open.
LkUnlock(t) ==
    /\ lockPc[t] = "holds"
    /\ \/ owner' = owner \ {ProcessOf[t]} /\ lockPc' = [lockPc EXCEPT ![t] = "unlocked"]
       \/ lockPc' = [lockPc EXCEPT ![t] = "idle"] /\ UNCHANGED owner
    /\ UNCHANGED <<disturbed, lockTable, lockCalls, workVars>>

LkRemove(t) ==
    /\ lockPc[t] = "unlocked"
    /\ lockTable' = [lockTable EXCEPT ![ProcessOf[t]] = FALSE]
    /\ lockPc' = [lockPc EXCEPT ![t] = "removed"]
    /\ UNCHANGED <<disturbed, owner, lockCalls, workVars>>

LkClose(t) ==
    /\ lockPc[t] = "removed"
    /\ Closes(t)
    /\ lockPc' = [lockPc EXCEPT ![t] = "idle"]
    /\ UNCHANGED <<lockTable, lockCalls, workVars>>

\* A process ends: the system closes its descriptors. (Nothing changes when it has
\* no lock and none of its threads is about to.)
LkExit(p) ==
    /\ lockTable[p] \/ \E t \in EnvThreads : ProcessOf[t] = p /\ lockPc[t] # "idle"
    /\ owner' = owner \ {p}
    /\ lockTable' = [lockTable EXCEPT ![p] = FALSE]
    /\ lockPc' = [t \in EnvThreads |-> IF ProcessOf[t] = p THEN "idle" ELSE lockPc[t]]
    /\ UNCHANGED <<disturbed, lockCalls, workVars>>

-----------------------------------------------------------------------------
(* Schedule and BackgroundThreadMain: each step holds the mutex. *)

\* (Mutant: the thread is only woken for what comes behind other work.)
SignalledBehind == IF worker = "waiting" /\ work # <<>> THEN "woken" ELSE worker

Signalled == IF worker = "waiting" /\ work = <<>> THEN "woken" ELSE worker

\* From any thread, also from the work that is running.
BgSchedule ==
    /\ scheduled < MaxWork
    /\ scheduled' = scheduled + 1
    /\ work' = Append(work, scheduled + 1)
    /\ worker' = IF worker = "none" THEN "ready" ELSE Signalled
    /\ UNCHANGED <<ran, lockVars>>

BgTake ==
    /\ worker \in {"ready", "woken"}
    /\ IF work = <<>> THEN worker' = "waiting" /\ UNCHANGED <<work, ran>>
       ELSE worker' = "running" /\ work' = Tail(work) /\ ran' = Append(ran, Head(work))
    /\ UNCHANGED <<scheduled, lockVars>>

\* Wait may also return without a signal.
BgWakes ==
    /\ worker = "waiting"
    /\ worker' = "woken"
    /\ UNCHANGED <<work, scheduled, ran, lockVars>>

BgDone ==
    /\ worker = "running"
    /\ worker' = "ready"
    /\ UNCHANGED <<work, scheduled, ran, lockVars>>

-----------------------------------------------------------------------------
EnvInit ==
    /\ lockPc = [t \in EnvThreads |-> "idle"]
    /\ owner = {} /\ lockTable = [p \in Processes |-> FALSE] /\ lockCalls = 0
    /\ disturbed = FALSE
    /\ work = <<>> /\ worker = "none" /\ scheduled = 0 /\ ran = <<>>

EnvNext ==
    \/ \E t \in EnvThreads :
        \/ LkOpen(t) \/ LkInsert(t) \/ LkSetLock(t) \/ LkFailed(t)
        \/ LkUnlock(t) \/ LkRemove(t) \/ LkClose(t)
    \/ \E p \in Processes : LkExit(p)
    \/ BgSchedule
    \/ BgTake
    \/ BgWakes
    \/ BgDone

EnvSpec == EnvInit /\ [][EnvNext]_envVars

-----------------------------------------------------------------------------
\* One thread of a process at a time has the lock of the database. It is the only
\* one of all processes, and the system knows of it, until the process closes a
\* second descriptor of the file, as LockFile does when it finds the lock taken.
LockExclusive ==
    LET holders == {t \in EnvThreads : lockPc[t] = "holds"}
    IN /\ \A t, u \in holders : ProcessOf[t] = ProcessOf[u] => t = u
       /\ ~disturbed => /\ Cardinality(holders) <= 1
                        /\ \A t \in holders : owner = {ProcessOf[t]}

\* Work is done once, in the order it was scheduled in, and none is forgotten: the
\* background thread does not wait while there is some.
WorkServed ==
    /\ ran \o work = [i \in 1..scheduled |-> i]
    /\ work # <<>> => worker \in {"ready", "woken", "running"}
=============================================================================
