--------------------------- MODULE SnapshotStore ---------------------------
(***************************************************************************)
(* What LevelDB promises (include/leveldb/db.h): a map from keys to values *)
(* that is written one key at a time, snapshots that never change, and     *)
(* reads that answer from the state at their start or from a snapshot.     *)
(* The value a write puts is its number, so that all values differ.        *)
(***************************************************************************)
EXTENDS Integers, Sequences, SequencesExt

CONSTANTS Keys, Readers, Absent

VARIABLES
  writes,     \* number of writes so far
  store,      \* the value of each key
  snapshots,  \* the store as it was at each GetSnapshot not yet released
  views       \* per reader: the store it reads, or Absent

vars == <<writes, store, snapshots, views>>

Contents == [Keys -> (1..writes) \cup {Absent}]

Init ==
  /\ writes = 0
  /\ store = [k \in Keys |-> Absent]
  /\ snapshots = << >>
  /\ views = [r \in Readers |-> Absent]

\* Put and Delete: one key takes another value, or none.
Write ==
  /\ writes' = writes + 1
  /\ \E k \in Keys, value \in {writes', Absent} : store' = [store EXCEPT ![k] = value]
  /\ UNCHANGED <<snapshots, views>>

GetSnapshot ==
  /\ snapshots' = Append(snapshots, store)
  /\ UNCHANGED <<writes, store, views>>

ReleaseSnapshot(i) ==
  /\ snapshots' = RemoveAt(snapshots, i)
  /\ UNCHANGED <<writes, store, views>>

\* A read starts on the store or on a snapshot, and ends.
StartRead(r, view) ==
  /\ views[r] = Absent
  /\ views' = [views EXCEPT ![r] = view]
  /\ UNCHANGED <<writes, store, snapshots>>

EndRead(r) ==
  /\ views[r] # Absent
  /\ views' = [views EXCEPT ![r] = Absent]
  /\ UNCHANGED <<writes, store, snapshots>>

Next ==
  \/ Write
  \/ GetSnapshot
  \/ \E i \in DOMAIN snapshots : ReleaseSnapshot(i)
  \/ \E r \in Readers : \E view \in {store} \cup Range(snapshots) : StartRead(r, view)
  \/ \E r \in Readers : EndRead(r)

Spec == Init /\ [][Next]_vars

=============================================================================
