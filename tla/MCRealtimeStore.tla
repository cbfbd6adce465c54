--------------------------- MODULE MCRealtimeStore ---------------------------
(* RealtimeStore on a few devices, one or two records and two values. *)
EXTENDS RealtimeStore, TLC

CONSTANTS d1, d2, a, b

SeedA == [k \in Key |-> a]

DeviceSymmetry == Permutations(Device)

\* Bound: at most two mishaps befall the devices together, or a single one that
\* takes a collection away.
Emptied(d) == restarts[d] + denials[d]
Mishaps(d) == drops[d] + refusals[d] + Emptied(d)

TwoMishaps ==
    \A d, e \in Device : d # e =>
        /\ Mishaps(d) + Mishaps(e) <= 2
        /\ Emptied(d) + Emptied(e) > 0 => Mishaps(d) + Mishaps(e) = 1
=============================================================================
