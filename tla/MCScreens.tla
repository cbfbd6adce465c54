------------------------------ MODULE MCScreens ------------------------------
(* The screens that do not run together, each over a store of its own: part   *)
(* names the one that runs.                                                   *)
EXTENDS Naturals, Sequences, FiniteSets, TLC

CONSTANTS d1, d2, u1, u2, Absent, NoKey, NotLoaded

VARIABLES
    part,
    hist, subscribed, up, down, conn, listen, observers, synced, cache, puts, toAck,
    calls, events, shown, issued, drops, restarts, refusals, denials,
    x1, x2, x3, x4, x5, x6, x7, x8, x9, x10

storeVars == <<hist, subscribed, up, down, conn, listen, observers, synced, cache, puts,
               toAck, calls, events, shown, issued, drops, restarts, refusals, denials>>

Empty(x) == x = 0

-----------------------------------------------------------------------------
UserOfDevice == [d \in {d1, d2} |-> IF d = d1 THEN u1 ELSE u2]

ChatKeys == ({"chat"} \X {d1, d2} \X {1}) \cup ({"session"} \X {d1, d2} \X {2})

Ch == INSTANCE Chat WITH
    Device <- {d1, d2}, Key <- ChatKeys, Value <- {}, Seed <- [k \in ChatKeys |-> Absent],
    MaxWrites <- 2, MaxObservers <- 1, MaxDrops <- 1, MaxRestarts <- 1, MaxRefusals <- 1, MaxDenials <- 0,
    User <- {u1, u2}, UserOf <- UserOfDevice,
    allChats <- x1, allSessions <- x2, sentBy <- x3, raced <- x4

\* A comment of the post and one of another, both by others, on one phone.
Row1 == <<"comment", d2, 1>>
Row2 == <<"comment", d2, 2>>
CommentKeys == {Row1, Row2} \cup ({"comment"} \X {d1} \X (1..2))
Commented == [k \in CommentKeys |->
    IF k = Row1 THEN [commentedTo |-> "p", replyTo |-> NoKey]
    ELSE IF k = Row2 THEN [commentedTo |-> "q", replyTo |-> NoKey] ELSE Absent]

Co == INSTANCE Comments WITH
    Device <- {d1}, Key <- CommentKeys, Value <- {}, Seed <- Commented,
    MaxWrites <- 2, MaxObservers <- 1, MaxDrops <- 0, MaxRestarts <- 0, MaxRefusals <- 1, MaxDenials <- 0,
    Post <- {"p", "q"}, OfPost <- [d \in {d1} |-> "p"], 
    allComments <- x1, comments <- x2, usersLoaded <- x3, newComment <- x4, commenting <- x5,
    meant <- x6, sent <- x7, misled <- x8

\* One phone; a post by another user.
PostKeys == {<<d2, 1>>} \cup ({d1} \X (1..2))
Posted == [k \in PostKeys |-> IF k[1] = d2 THEN [url |-> "default", voted |-> FALSE] ELSE Absent]

Pi == INSTANCE PostImages WITH
    Device <- {d1}, Key <- PostKeys, Value <- {}, Seed <- Posted,
    MaxWrites <- 4, MaxObservers <- 1, MaxDrops <- 0, MaxRestarts <- 0, MaxRefusals <- 0, MaxDenials <- 0,
    MaxPosts <- 2, MaxVotes <- 2, MaxListings <- 2,
    allPosts <- x1, form <- x2, picked <- x3, uploads <- x4, stored <- x5, listings <- x6,
    made <- x7, lost <- x8, votes <- x9, raced <- x10

\* One phone; u2 has an account that never logged in.
SignedUp == [n \in {u1, u2} |->
    IF n = u2 THEN [name |-> u2, id |-> <<d2, 1>>, online |-> FALSE, form |-> NoKey] ELSE Absent]

Ac == INSTANCE Accounts WITH
    Device <- {d1}, Key <- {u1, u2}, Value <- {}, Seed <- SignedUp,
    MaxWrites <- 3, MaxObservers <- 2, MaxDrops <- 0, MaxRestarts <- 1, MaxRefusals <- 1, MaxDenials <- 0,
    NoName <- NoKey, NoId <- NoKey,
    allUsers <- x1, user <- x2, cachedAs <- x3, saved <- x4, screens <- x5, allowed <- x6,
    sender <- x7, lapse <- x8

Init ==
    \/ part = "chat" /\ Ch!ChatInit /\ x5 = 0 /\ x6 = 0 /\ x7 = 0 /\ x8 = 0 /\ x9 = 0 /\ x10 = 0
    \/ part = "comments" /\ Co!CommentsInit /\ x9 = 0 /\ x10 = 0
    \/ part = "images" /\ Pi!ImagesInit
    \/ part = "accounts" /\ Ac!AccountsInit /\ x9 = 0 /\ x10 = 0

Next ==
    /\ \/ part = "chat" /\ Ch!ChatNext /\ UNCHANGED <<x5, x6, x7, x8, x9, x10>>
       \/ part = "comments" /\ Co!CommentsNext /\ UNCHANGED <<x9, x10>>
       \/ part = "images" /\ Pi!ImagesNext
       \/ part = "accounts" /\ Ac!AccountsNext /\ UNCHANGED <<x9, x10>>
    /\ UNCHANGED part

vars == <<part, storeVars, x1, x2, x3, x4, x5, x6, x7, x8, x9, x10>>

Spec == Init /\ [][Next]_vars

-----------------------------------------------------------------------------
\* Properties: those of the part that runs.

\* No message is lost from its conversation, and without a race a pair has one
\* session that shows its newest message (sendChatClicked).
ConversationKept == part = "chat" => Ch!ConversationKept

\* What was tapped on the feed and the details reaches the database as it was
\* meant: a reply under its comment, a post with its image, a vote unspoilt.
PostedAsMeant ==
    /\ part = "comments" => Co!RepliesReach /\ Co!RowsOfPost
    /\ part = "images" => Pi!PostsArrive /\ Pi!UrlsStored /\ Pi!VotesStay

\* Nobody signs up over an account, and who is logged in has one (signupClicked).
AccountsKept == part = "accounts" => Ac!AccountsKept

\* Bounds on two phones: the second is opened when the first has loaded and sent a
\* message, its user waits for the chats, and while both have writes on their way,
\* the first has had no answer. Connections are lost, writes refused and processes
\* killed on the first phone while the second is off.
\* Comments are not followed further when the user was misled, nor accounts after
\* a lapse; the tabs are left after at most three screens.
Off(d) == ~ synced[d] /\ conn[d] = "down" /\ calls[d] = <<>>

Undisturbed(d) == drops[d] = 0 /\ refusals[d] = 0 /\ restarts[d] = 0

Bounds ==
    /\ part = "chat" =>
        /\ Off(d2) \/ (synced[d1] /\ issued[d1] = 2)
        /\ Off(d2) \/ Undisturbed(d1)
        /\ Undisturbed(d2)
        /\ issued[d2] > 0 => shown[d2] # NotLoaded
        /\ Ch!Busy(d1) /\ Ch!Busy(d2) => toAck[d1] = <<>> /\ Len(calls[d1]) + Len(puts[d1]) = 2
    /\ part = "comments" => ~ x8[d1]
    /\ part = "accounts" => ~ x8[d1] /\ Len(x5[d1]) <= 3
=============================================================================
