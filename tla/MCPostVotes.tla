----------------------------- MODULE MCPostVotes -----------------------------
(* PostVotes for two users, each with a phone. *)
EXTENDS PostVotes, TLC

CONSTANTS d1, d2, u1, u2

UserOfDevice == [d \in Device |-> IF d = d1 THEN u1 ELSE u2]

\* u2 has already voted for the posts.
SeedVoted == [k \in Key |-> [up |-> {u2}, down |-> {}, upvotes |-> 1, downvotes |-> 0]]

AnyPost == Post
=============================================================================
