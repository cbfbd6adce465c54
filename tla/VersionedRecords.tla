-------------------------- MODULE VersionedRecords --------------------------
(***************************************************************************)
(* What the app may expect of the shared database, with no connection,     *)
(* queue or cache in sight: every record is a growing history of whole     *)
(* values (each write replaces the record), and every device reads each    *)
(* record at some version, moving only forward while its process lives.    *)
(* RealtimeStore implements this module.                                   *)
(***************************************************************************)
EXTENDS Naturals, Sequences

CONSTANTS Device,   \* the phones running the app
          Key,      \* the records of one collection (posts, users, ...)
          Value,    \* what a record can hold
          MaxWrites \* how many writes a device makes

VARIABLES hist,     \* hist[k]: the writes the database applied to k, in order
          seen      \* seen[d][k]: how many of them device d has read

vars == <<hist, seen>>

Write == [by: Device, id: 1..MaxWrites, val: Value]

Init ==
    /\ hist = [k \in Key |-> <<>>]
    /\ seen = [d \in Device |-> [k \in Key |-> 0]]

\* The database applies one more write to one record.
Apply ==
    /\ \E k \in Key : \E w \in Write : hist' = [hist EXCEPT ![k] = Append(@, w)]
    /\ UNCHANGED seen

\* A device catches up with the history, record by record, never beyond it.
CatchUp(d) ==
    /\ seen' \in [Device -> [Key -> Nat]]
    /\ \A k \in Key : seen[d][k] <= seen'[d][k] /\ seen'[d][k] <= Len(hist[k])
    /\ \A e \in Device \ {d} : seen'[e] = seen[e]
    /\ UNCHANGED hist

\* The process of a device ends, or it may not read any more; nothing it read survives.
Forget(d) ==
    /\ seen' = [seen EXCEPT ![d] = [k \in Key |-> 0]]
    /\ UNCHANGED hist

Next == Apply \/ \E d \in Device : CatchUp(d) \/ Forget(d)

Spec == Init /\ [][Next]_vars
=============================================================================
