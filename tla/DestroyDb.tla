------------------------------ MODULE DestroyDb ------------------------------
(* Destroying a database (DestroyDB of db_impl.cc) while other processes open *)
(* and close it: how the lock file keeps them apart, and what is left of the  *)
(* directory. Each process does one thing after the other. Calls of the file  *)
(* system are atomic; the lock is fcntl's, on the file a process has opened,  *)
(* whatever its name is by then. A process may end at any time.               *)
EXTENDS Integers, FiniteSets

CONSTANTS
    DbProcesses,
    MaxLockFiles    \* bound: how often LOCK is created

VARIABLES
    dir,        \* whether the directory exists
    children,   \* its files, LOCK left out
    lockFile,   \* the file called LOCK, 0 if there is none
    locked,     \* file -> the process that has the lock, or None
    made,       \* how many files were called LOCK
    pc,
    fd,         \* the LOCK a process has opened, or 0
    listed,     \* what GetChildren found, less what it has looked at
    torn        \* a file called LOCK was deleted that another process had opened

ddVars == <<dir, children, lockFile, locked, made, pc, fd, listed, torn>>

None == "none"
DbFiles == {"CURRENT", "table"}

-----------------------------------------------------------------------------
(* PosixEnv                                                                   *)

Goto(p, where) == pc' = [pc EXCEPT ![p] = where]

\* open with O_CREAT
OpenLock(p) ==
    LET file == IF lockFile = 0 THEN made + 1 ELSE lockFile
    IN /\ dir
       /\ lockFile = 0 => made < MaxLockFiles
       /\ lockFile' = file /\ made' = IF lockFile = 0 THEN file ELSE made
       /\ fd' = [fd EXCEPT ![p] = file]

Unlock(p) ==
    /\ locked' = [f \in DOMAIN locked |-> IF locked[f] = p THEN None ELSE locked[f]]
    /\ fd' = [fd EXCEPT ![p] = 0]

DdEnd(p) ==
    /\ pc[p] # "idle"
    /\ Unlock(p) /\ Goto(p, "idle")
    /\ listed' = [listed EXCEPT ![p] = {}]
    /\ UNCHANGED <<dir, children, lockFile, made, torn>>

-----------------------------------------------------------------------------
(* DB::Open, DBImpl::Recover                                                  *)

DdCreateDir(p) ==
    /\ pc[p] = "idle"
    /\ dir' = TRUE
    /\ Goto(p, "opening")
    /\ UNCHANGED <<children, lockFile, locked, made, fd, listed, torn>>

DdOpenLock(p) ==
    /\ pc[p] \in {"opening", "destroying"}
    /\ \/ OpenLock(p) /\ Goto(p, IF pc[p] = "opening" THEN "locking" ELSE "takes")
       \/ ~dir /\ Goto(p, "idle") /\ UNCHANGED <<lockFile, made, fd>>
    /\ UNCHANGED <<dir, children, locked, listed, torn>>

\* Another process may have it: then the call fails.
DdLock(p) ==
    /\ pc[p] \in {"locking", "takes"}
    /\ IF locked[fd[p]] = None
       THEN /\ locked' = [locked EXCEPT ![fd[p]] = p]
            /\ Goto(p, IF pc[p] = "locking" THEN "recovering" ELSE "deletes")
            /\ UNCHANGED fd
       ELSE Goto(p, "idle") /\ fd' = [fd EXCEPT ![p] = 0] /\ UNCHANGED locked
    /\ UNCHANGED <<dir, children, lockFile, made, listed, torn>>

\* NewDB, or what there is; the directory may be gone, or a table it needs.
DdRecover(p) ==
    /\ pc[p] = "recovering"
    /\ \/ /\ dir /\ "CURRENT" \notin children
          /\ children' = (children \union {"CURRENT"}) \ {"table"}
          /\ Goto(p, "open") /\ UNCHANGED <<locked, fd>>
       \/ /\ dir /\ DbFiles \subseteq children
          /\ Goto(p, "open") /\ UNCHANGED <<children, locked, fd>>
       \/ /\ ~dir \/ "CURRENT" \in children
          /\ Unlock(p) /\ Goto(p, "idle") /\ UNCHANGED children
    /\ UNCHANGED <<dir, lockFile, made, listed, torn>>

DdWrite(p) ==
    /\ pc[p] = "open" /\ dir
    /\ children' = children \union {"table"}
    /\ UNCHANGED <<dir, lockFile, locked, made, pc, fd, listed, torn>>

-----------------------------------------------------------------------------
(* DestroyDB                                                                  *)

GetChildren == children \union IF lockFile = 0 THEN {} ELSE {"LOCK"}

\* Of a directory that does not exist it is done.
DdGetChildren(p) ==
    /\ pc[p] = "idle" /\ dir
    /\ listed' = [listed EXCEPT ![p] = GetChildren]
    /\ Goto(p, "destroying")
    /\ UNCHANGED <<dir, children, lockFile, locked, made, fd, torn>>

\* (Mutant: the lock file is deleted with the others.)
WantedAll(name) == name \in DbFiles \union {"LOCK"}

\* ParseFileName knows it, and it is not the lock.
Wanted(name) == name \in DbFiles

Unlinked(p, name) ==
    IF name = "LOCK"
    THEN /\ lockFile' = 0
         /\ torn' = (torn \/ \E q \in DbProcesses \ {p} : lockFile # 0 /\ fd[q] = lockFile)
         /\ UNCHANGED children
    ELSE children' = children \ {name} /\ UNCHANGED <<lockFile, torn>>

DdDeleteFile(p) ==
    /\ pc[p] = "deletes"
    /\ \E name \in listed[p] :
        /\ listed' = [listed EXCEPT ![p] = @ \ {name}]
        /\ IF Wanted(name) THEN Unlinked(p, name) ELSE UNCHANGED <<children, lockFile, torn>>
    /\ UNCHANGED <<dir, locked, made, pc, fd>>

DdUnlock(p) ==
    /\ pc[p] = "deletes" /\ listed[p] = {}
    /\ Unlock(p) /\ Goto(p, "unlocked")
    /\ UNCHANGED <<dir, children, lockFile, made, listed, torn>>

DdDeleteLock(p) ==
    /\ pc[p] = "unlocked"
    /\ Unlinked(p, "LOCK") /\ Goto(p, "emptied")
    /\ UNCHANGED <<dir, locked, made, fd, listed>>

\* Fails if there are other files.
DdDeleteDir(p) ==
    /\ pc[p] = "emptied"
    /\ dir' = (dir /\ (children # {} \/ lockFile # 0))
    /\ Goto(p, "idle")
    /\ UNCHANGED <<children, lockFile, locked, made, fd, listed, torn>>

-----------------------------------------------------------------------------
DdInit ==
    /\ dir = TRUE
    /\ children \in {{"CURRENT", "table"}, {"CURRENT", "table", "other"}}
    /\ lockFile = 1 /\ made = 1
    /\ locked = [f \in 1..MaxLockFiles |-> None]
    /\ pc = [p \in DbProcesses |-> "idle"]
    /\ fd = [p \in DbProcesses |-> 0]
    /\ listed = [p \in DbProcesses |-> {}]
    /\ torn = FALSE

DdNext ==
    \E p \in DbProcesses :
        \/ DdCreateDir(p) \/ DdOpenLock(p) \/ DdLock(p) \/ DdRecover(p) \/ DdWrite(p) \/ DdEnd(p)
        \/ DdGetChildren(p) \/ DdDeleteFile(p) \/ DdUnlock(p) \/ DdDeleteLock(p) \/ DdDeleteDir(p)

DdSpec == DdInit /\ [][DdNext]_ddVars

-----------------------------------------------------------------------------
\* One process at a time has the database open or takes it away, and one that has it
\* open keeps its files: unless a destruction deleted LOCK, which it does after it
\* has given the lock up, while another process had that file open already. The
\* lock of a database that is open is then on a file without a name, and the next
\* process makes a new one. What is not a file of the database is never deleted.
OpenKept ==
    /\ ~torn =>
        /\ Cardinality({p \in DbProcesses : pc[p] \in {"recovering", "open", "deletes"}}) <= 1
        /\ \A p \in DbProcesses : pc[p] = "open" => dir /\ "CURRENT" \in children
    /\ ~dir => children = {} /\ lockFile = 0
=============================================================================
