------------------------------ MODULE PostVotes ------------------------------
(***************************************************************************)
(* Voting on posts.  Every screen that lists posts (the feed, the profile) *)
(* keeps Posts objects made from the last snapshot; the details screen     *)
(* keeps the very object of the feed's list it was opened with.  A tap     *)
(* changes the object in place and writes the whole record back, whatever  *)
(* has happened to the record meanwhile.                                   *)
(***************************************************************************)
EXTENDS RealtimeStore, Integers, FiniteSets

CONSTANTS User,
          UserOf,   \* the user logged in on each device
          Screen    \* the screens with a list of posts: "feed", "profile"

Post == [up: SUBSET User, down: SUBSET User, upvotes: Int, downvotes: Int]

\* The counters of a post agree with the lists of voters, and nobody is in both.
Consistent(p) ==
    /\ p.upvotes = Cardinality(p.up) /\ p.downvotes = Cardinality(p.down)
    /\ p.up \cap p.down = {}

\* The records of the collection are posts, the first ones with the votes counted.
ASSUME VotesAssumption ==
    /\ IsFiniteSet(User) /\ UserOf \in [Device -> User]
    /\ Screen \subseteq {"feed", "profile"} /\ "feed" \in Screen
    /\ Seed \in [Key -> Post] /\ \A k \in Key : Consistent(Seed[k])
    /\ [up: SUBSET User, down: SUBSET User, upvotes: 0..Cardinality(User),
        downvotes: 0..Cardinality(User)] \subseteq Value

VARIABLES
    lists,   \* the Posts objects of each screen's list
    detail,  \* the details screen: closed, or a post; is it the feed's object?
    sender,  \* the screen that made each write, by number
    wish,    \* ghost: what each user's last tap on each post asked for
    raced    \* ghost: was a tap ever made while another device's were unsettled?

screens == <<lists, detail, sender>>
ghosts  == <<wish, raced>>
votesVars == <<vars, screens, ghosts>>

Closed == [open |-> FALSE]
Opened == [open: {TRUE}, key: Key, post: Post, shared: BOOLEAN]

-----------------------------------------------------------------------------
\* Mutants: the list of voters starts anew; a moved vote is still counted.
UpvoteNewList(p, u) ==
    IF u \in p.up THEN [p EXCEPT !.up = @ \ {u}, !.upvotes = @ - 1]
    ELSE [p EXCEPT !.up = {u}, !.upvotes = 1]
DownvoteStillCounted(p, u) ==
    IF u \in p.down
    THEN [p EXCEPT !.down = @ \ {u}, !.downvotes = @ - 1]
    ELSE [p EXCEPT !.down = @ \cup {u}, !.downvotes = @ + 1, !.up = @ \ {u}]

\* A tap on one's own vote takes it back; a tap on the other moves it.
Upvote(p, u) ==
    IF u \in p.up
    THEN [p EXCEPT !.up = @ \ {u}, !.upvotes = @ - 1]
    ELSE [p EXCEPT !.up = @ \cup {u}, !.upvotes = @ + 1,
                   !.down = @ \ {u},
                   !.downvotes = IF u \in p.down THEN @ - 1 ELSE @]

Downvote(p, u) ==
    IF u \in p.down
    THEN [p EXCEPT !.down = @ \ {u}, !.downvotes = @ - 1]
    ELSE [p EXCEPT !.down = @ \cup {u}, !.downvotes = @ + 1,
                   !.up = @ \ {u},
                   !.upvotes = IF u \in p.up THEN @ - 1 ELSE @]

Tapped(p, u) == {Upvote(p, u), Downvote(p, u)}

VoteOf(p, u) ==
    IF u \in p.up THEN "up" ELSE IF u \in p.down THEN "down" ELSE "none"

-----------------------------------------------------------------------------
\* Others' votes in a post.
OthersIn(p, u) == <<p.up \ {u}, p.down \ {u}>>

VotesInit ==
    /\ Init
    /\ lists = [d \in Device |-> [s \in Screen |-> NotLoaded]]
    /\ detail = [d \in Device |-> Closed]
    /\ sender = [d \in Device |-> <<>>]
    /\ wish = [u \in User |-> [k \in Key |-> VoteOf(Seed[k], u)]]
    /\ raced = FALSE

\* Mutant: the record is sent as it was before the tap.
AddPostsToApiEarly(d, s, k, old, new) ==
    /\ SetValue(d, k, old)
    /\ sender' = [sender EXCEPT ![d] = Append(@, s)]
    /\ wish' = [wish EXCEPT ![UserOf[d]][k] = VoteOf(new, UserOf[d])]
    /\ UNCHANGED raced

\* addPostsToApi: the whole record, as the tapped object has it now.
AddPostsToApi(d, s, k, old, new) ==
    /\ SetValue(d, k, new)
    /\ sender' = [sender EXCEPT ![d] = Append(@, s)]
    /\ wish' = [wish EXCEPT ![UserOf[d]][k] = VoteOf(new, UserOf[d])]
    /\ raced' = (raced \/ OthersIn(old, UserOf[d]) # OthersIn(Server[k], UserOf[d])
                       \/ \E e \in Device \ {d} : Busy(e))

\* A tap on a row of a list; a pushed details screen covers the lists.
VoteOnList(d, s, k) ==
    /\ lists[d][s] # NotLoaded /\ ~ detail[d].open
    /\ \E new \in Tapped(lists[d][s][k], UserOf[d]) :
          /\ AddPostsToApi(d, s, k, lists[d][s][k], new)
          /\ lists' = [lists EXCEPT ![d][s][k] = new]
    /\ UNCHANGED detail

\* A tap on the details screen.  While the feed still holds the object the
\* details were opened with, the feed's post changes too.
VoteOnDetail(d) ==
    /\ detail[d].open
    /\ LET k == detail[d].key IN
       \E new \in Tapped(detail[d].post, UserOf[d]) :
          /\ AddPostsToApi(d, "detail", k, detail[d].post, new)
          /\ detail' = [detail EXCEPT ![d].post = new]
          /\ lists' = IF detail[d].shared
                      THEN [lists EXCEPT ![d]["feed"][k] = new] ELSE lists

OpenDetails(d, k) ==
    /\ ~ detail[d].open /\ lists[d]["feed"] # NotLoaded
    /\ detail' = [detail EXCEPT ![d] =
          [open |-> TRUE, key |-> k, post |-> lists[d]["feed"][k], shared |-> TRUE]]
    /\ UNCHANGED <<vars, lists, sender, ghosts>>

\* The popped screen is gone before its writes complete: their completions
\* find no delegate.
CloseDetails(d) ==
    /\ detail[d].open
    /\ detail' = [detail EXCEPT ![d] = Closed]
    /\ sender' = [sender EXCEPT ![d] =
          [i \in DOMAIN @ |-> IF @[i] = "detail" THEN "gone" ELSE @[i]]]
    /\ UNCHANGED <<vars, lists, ghosts>>

\* A snapshot replaces the lists' objects; the details keep theirs.
RetrievedPosts(d) ==
    /\ HandleValue(d)
    /\ lists' = [lists EXCEPT ![d] = [s \in Screen |-> Head(events[d]).snap]]
    /\ detail' = [detail EXCEPT ![d] =
          IF @.open THEN [@ EXCEPT !.shared = FALSE] ELSE @]
    /\ UNCHANGED <<sender, ghosts>>

\* addPosts' completion: the details and the profile, while they are there,
\* retrieve everything again on success; the feed does not.
UpdatedPost(d) ==
    /\ HandleDone(d)
    /\ LET e == Head(events[d]) IN
       (calls' # calls) <=> (e.ok /\ sender[d][e.id] \in {"detail", "profile"} /\ CanObserve(d))
    /\ UNCHANGED <<screens, ghosts>>

\* A new process starts on no screen; its writes are numbered on.
RestartScreens(d) ==
    /\ Restart(d)
    /\ lists' = [lists EXCEPT ![d] = [s \in Screen |-> NotLoaded]]
    /\ detail' = [detail EXCEPT ![d] = Closed]
    /\ UNCHANGED <<sender, ghosts>>

DataLayer(d) ==
    /\ Below(d)
    /\ UNCHANGED <<screens, ghosts>>

VotesNext ==
    \E d \in Device :
        \/ \E s \in Screen, k \in Key : VoteOnList(d, s, k)
        \/ VoteOnDetail(d)
        \/ \E k \in Key : OpenDetails(d, k)
        \/ CloseDetails(d)
        \/ RetrievedPosts(d) \/ UpdatedPost(d) \/ RestartScreens(d)
        \/ DataLayer(d)

VotesSpec == VotesInit /\ [][VotesNext]_votesVars
-----------------------------------------------------------------------------
\* Properties

\* The counters of a post always agree with the lists of voters, and nobody
\* is in both lists: in the database, in every queue, cache and screen, after
\* any mix of votes from any screens of any devices.
VotesConsistent ==
    /\ \A k \in Key : \A n \in DOMAIN hist[k] : Consistent(hist[k][n].val)
    /\ \A d \in Device :
          /\ \A i \in DOMAIN calls[d] : calls[d][i] # Observe => Consistent(calls[d][i].val)
          /\ \A i \in DOMAIN puts[d] : Consistent(puts[d][i].val)
          /\ \A i \in DOMAIN toAck[d] : Consistent(toAck[d][i].val)
          /\ \A i \in DOMAIN events[d] : events[d][i].kind = "value" =>
                \A k \in Key : Consistent(events[d][i].snap[k])
          /\ \A s \in Screen : lists[d][s] # NotLoaded =>
                \A k \in Key : Consistent(lists[d][s][k])
          /\ detail[d].open => Consistent(detail[d].post)

\* A device's write changes nobody else's vote to anything it never was: what
\* it says of the other users stood in the record before.  It may be old.
NoForgedVote ==
    \A k \in Key : \A n \in DOMAIN hist[k] : \A u \in User \ {UserOf[hist[k][n].by]} :
        \E m \in 0..(n - 1) : VoteOf(Stored(k, m), u) = VoteOf(hist[k][n].val, u)

\* When a device is settled, every list on it shows the posts as the database
\* has them, whichever screen's object the votes changed in place.
ListsAgree ==
    \A d \in Device : Settled(d) =>
        \A s \in Screen : lists[d][s] = Server

\* As long as no tap was made on out of date votes or while another device was
\* writing, every user's last tap is what the database ends up with.
NoRaceNoLoss ==
    \A k \in Key, u \in User :
        /\ ~ raced /\ \A d \in Device : ~ Busy(d) /\ restarts[d] = 0 /\ refusals[d] = 0
        => VoteOf(Server[k], u) = wish[u][k]

\* What a settled phone shows and what the database ends up with.
VotesSettle == ListsAgree /\ NoRaceNoLoss
=============================================================================
