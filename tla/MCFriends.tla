------------------------------ MODULE MCFriends ------------------------------
(* Friends for two or three users with one or two phones. *)
EXTENDS Friends, TLC

CONSTANTS d1, d2, u1, u2, u3

UserOfDevice == [d \in Device |-> IF d = d1 THEN u1 ELSE u2]

AnyPerson == Person

Nobody == [friends |-> {}, invites |-> {}, requested |-> {}]

Strangers == [u \in User |-> Nobody]

\* u2 has asked u1.
Invited ==
    [Strangers EXCEPT ![u1].invites = {u2}, ![u2].requested = {u1}]

\* Bound: only the first phone is killed, and after a tap (before one it is a phone
\* that was not yet started).
OneRestarts == restarts[d2] = 0 /\ (restarts[d1] > 0 => issued[d1] > 0)
=============================================================================
