------------------------------- MODULE Monitor -------------------------------
(* What LevelDB's threads share (port_stdcxx.h, mutexlock.h, no_destructor.h, *)
(* the end of env_posix.cc): a mutex that is held from a MutexLock to the end *)
(* of its block, a condition variable, and two objects made on their first    *)
(* use and never destroyed, the Env and the comparator. std::mutex and        *)
(* std::condition_variable are external: an unlock by a thread that does not  *)
(* have the mutex is undefined, a wait may end without a signal.              *)
EXTENDS Integers, FiniteSets

CONSTANTS
    Producers, Consumers,
    MaxItems,       \* bounds what waits to be consumed
    FileLimits      \* what getrlimit may say, and what a test may set

VARIABLES
    owner,          \* who has the mutex, or Nobody
    waiting,        \* the threads in std::condition_variable::wait
    at,             \* where each thread is
    items,          \* what the mutex protects
    misused,        \* an unlock by a thread that does not have the mutex
    statics,        \* the objects made on first use: "none", "live" or "destroyed"
    limit,          \* g_open_read_only_file_limit, -1: not known
    fdLimit,        \* the limit of the Env's limiter
    exiting         \* the program runs its static destructors

monVars == <<owner, waiting, at, items, misused, statics, limit, fdLimit, exiting>>

Threads == Producers \union Consumers
Nobody == "nobody"
Statics == {"env", "comparator"}

Goes(t, where) == at' = [at EXCEPT ![t] = where]

-----------------------------------------------------------------------------
(* Objects made on first use                                                  *)

\* A test sets the limit before there is an Env (AssertEnvNotInitialized).
SetReadOnlyFDLimit ==
    /\ statics["env"] = "none"
    /\ limit' \in FileLimits
    /\ UNCHANGED <<owner, waiting, at, items, misused, statics, fdLimit, exiting>>

MaxOpenFiles == IF limit >= 0 THEN {limit} ELSE FileLimits

\* A static in a function: one thread makes it, the others wait for it.
Default(t) ==
    /\ at[t] = "started" /\ statics["env"] = "none"
    /\ \E n \in MaxOpenFiles : limit' = n /\ fdLimit' = n
    /\ statics' = [statics EXCEPT !["env"] = "live"]
    /\ UNCHANGED <<owner, waiting, at, items, misused, exiting>>

BytewiseComparator(t) ==
    /\ at[t] = "started" /\ statics["comparator"] = "none"
    /\ statics' = [statics EXCEPT !["comparator"] = "live"]
    /\ UNCHANGED <<owner, waiting, at, items, misused, limit, fdLimit, exiting>>

Begin(t) ==
    /\ at[t] = "started" /\ \A s \in Statics : statics[s] # "none"
    /\ Goes(t, "outside")
    /\ UNCHANGED <<owner, waiting, items, misused, statics, limit, fdLimit, exiting>>

\* (Mutant: the object in the storage is destroyed with it.)
StaticDestroyed(state) == IF state = "live" THEN "destroyed" ELSE state

\* Only the storage goes (~SingletonEnv and ~NoDestructor are trivial).
StaticAtExit(state) == state

\* The program exits while its detached threads run on.
Exit ==
    /\ ~exiting
    /\ exiting' = TRUE
    /\ statics' = [s \in Statics |-> StaticAtExit(statics[s])]
    /\ UNCHANGED <<owner, waiting, at, items, misused, limit, fdLimit>>

-----------------------------------------------------------------------------
(* Mutex, MutexLock, CondVar                                                  *)

Lock(t) ==
    /\ at[t] = "outside" /\ owner = Nobody
    /\ owner' = t /\ Goes(t, "inside")
    /\ UNCHANGED <<waiting, items, misused, statics, limit, fdLimit, exiting>>

Unlocked(t) ==
    /\ misused' = (misused \/ owner # t)
    /\ owner' = Nobody

\* The end of the block, however it is left.
Unlock(t) ==
    /\ at[t] = "leaving"
    /\ Unlocked(t) /\ Goes(t, "outside")
    /\ UNCHANGED <<waiting, items, statics, limit, fdLimit, exiting>>

\* cv_.wait gives the mutex up and waits, in one step.
Wait(t) ==
    /\ t \in Consumers /\ at[t] = "inside" /\ items = 0
    /\ Unlocked(t)
    /\ waiting' = waiting \union {t} /\ Goes(t, "waiting")
    /\ UNCHANGED <<items, statics, limit, fdLimit, exiting>>

\* Signalled, or not. It has the mutex again before cv_.wait returns.
Wake(t) ==
    /\ at[t] = "waiting" /\ owner = Nobody
    /\ owner' = t
    /\ waiting' = waiting \ {t} /\ Goes(t, "woken")
    /\ UNCHANGED <<items, misused, statics, limit, fdLimit, exiting>>

\* (Mutant: the unique_lock still has the mutex at the end of Wait.)
Unlocks(t) == Unlocked(t)

\* lock.release()
Releases(t) == UNCHANGED <<owner, misused>>

WaitReturns(t) ==
    /\ at[t] = "woken"
    /\ Releases(t) /\ Goes(t, "inside")
    /\ UNCHANGED <<waiting, items, statics, limit, fdLimit, exiting>>

Signal ==
    \/ waiting = {} /\ UNCHANGED waiting
    \/ \E t \in waiting : waiting' = waiting \ {t}
SignalAll == waiting' = {}

Produce(t) ==
    /\ t \in Producers /\ at[t] = "inside" /\ items < MaxItems
    /\ items' = items + 1
    /\ Signal \/ SignalAll
    /\ Goes(t, "leaving")
    /\ UNCHANGED <<owner, misused, statics, limit, fdLimit, exiting>>

Consume(t) ==
    /\ t \in Consumers /\ at[t] = "inside" /\ items > 0
    /\ items' = items - 1 /\ Goes(t, "leaving")
    /\ UNCHANGED <<owner, waiting, misused, statics, limit, fdLimit, exiting>>

-----------------------------------------------------------------------------
MonInit ==
    /\ owner = Nobody /\ waiting = {} /\ items = 0 /\ misused = FALSE
    /\ at = [t \in Threads |-> "started"]
    /\ statics = [s \in Statics |-> "none"]
    /\ limit = -1 /\ fdLimit = -1 /\ exiting = FALSE

MonNext ==
    \/ SetReadOnlyFDLimit
    \/ Exit
    \/ \E t \in Threads :
        \/ Default(t) \/ BytewiseComparator(t) \/ Begin(t) \/ Lock(t) \/ Unlock(t)
        \/ Wait(t) \/ Wake(t) \/ WaitReturns(t) \/ Produce(t) \/ Consume(t)

MonSpec == MonInit /\ [][MonNext]_monVars

-----------------------------------------------------------------------------
\* A thread has the mutex from its MutexLock to the end of the block, the time it
\* waited left out, so two are never inside at once; when there is something to
\* consume, not all consumers wait unsignalled; and what a thread uses is there,
\* also while the program exits, with the limit a test has set.
HeldInside ==
    /\ ~misused
    /\ \A t \in Threads : at[t] \in {"inside", "woken", "leaving"} => owner = t
    /\ items > 0 /\ owner = Nobody /\ Consumers # {} => waiting # Consumers
    /\ \A t \in Threads : at[t] # "started" => \A s \in Statics : statics[s] = "live"
    /\ statics["env"] # "none" => fdLimit = limit
=============================================================================
