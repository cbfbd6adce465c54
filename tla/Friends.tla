------------------------------- MODULE Friends -------------------------------
(***************************************************************************)
(* Friend requests.  A friendship is kept twice, once in the record of     *)
(* each user.  The discover screen changes both cached objects in place    *)
(* and writes both records back, one after the other; the profile screen   *)
(* writes the user's own record back as it was when the profile was last   *)
(* drawn.  A row's button keeps every tap handler it was ever drawn with,  *)
(* and rows share their cells.                                             *)
(*                                                                         *)
(* The collection is users and Key is User.  The lists of ids are sets: an *)
(* id that the code appends twice is one member here.                      *)
(***************************************************************************)
EXTENDS RealtimeStore, FiniteSets

CONSTANTS UserOf   \* the user logged in on each device

User == Key

Handler == {"add", "accept", "cancel"}

Person == [friends: SUBSET User, invites: SUBSET User, requested: SUBSET User]

\* The values of the collection are people.
ASSUME FriendsAssumption ==
    /\ Value = Person
    /\ UserOf \in [Device -> User]
    /\ Seed \in [User -> Person]

\* The halves of every relation between two people agree.
Mirrored(r) ==
    \A a, b \in User :
        /\ b \in r[a].friends <=> a \in r[b].friends
        /\ b \in r[a].requested <=> a \in r[b].invites

\* They do at the beginning.
ASSUME SeedMirrored == Mirrored(Seed)

VARIABLES
    people,     \* discover: the Users objects of the last snapshot
    attached,   \* discover: the handlers on the cells' buttons
    userCount,  \* discover: writes confirmed since both of a tap were
    profile,    \* profile: the user's own record when it was last drawn
    sender,     \* the screen that made each write, by number
    misfired,   \* ghost: did a tap run a handler its row did not call for?
    raced       \* ghost: was a write made on records already out of date?

friendsVars == <<vars, people, attached, userCount, profile, sender, misfired, raced>>

NotDrawn == [drawn |-> FALSE]

-----------------------------------------------------------------------------
\* Each handler changes the two records at once: a is the tapping user.
Without(p, u) == [p EXCEPT !.invites = @ \ {u}, !.requested = @ \ {u}]

Befriended(p, u) == [p EXCEPT !.friends = @ \cup {u}]

CancelFriend(r, a, b) ==
    [r EXCEPT ![a] = Without(@, b), ![b] = Without(@, a)]

\* Mutant: the other's request stays open.
AcceptFriendOneSided(r, a, b) ==
    [r EXCEPT ![a] = Befriended(Without(@, b), b), ![b] = Befriended(@, a)]

AcceptFriend(r, a, b) ==
    [r EXCEPT ![a] = Befriended(Without(@, b), b),
              ![b] = Befriended(Without(@, a), a)]

AddFriend(r, a, b) ==
    [r EXCEPT ![a].requested = @ \cup {b}, ![b].invites = @ \cup {a}]

Tapped(h, r, a, b) ==
    CASE h = "add"    -> AddFriend(r, a, b)
      [] h = "accept" -> AcceptFriend(r, a, b)
      [] h = "cancel" -> CancelFriend(r, a, b)

\* Mutant: the request and the invitation are mistaken for each other.
OffersSwapped(p, b) ==
    IF b \in p.friends THEN {}
    ELSE IF b \in p.requested THEN {"accept", "cancel"}
    ELSE IF b \in p.invites THEN {"cancel"} ELSE {"add"}

\* The handlers that the row of b gets when p is looking.
Offers(p, b) ==
    IF b \in p.friends THEN {}
    ELSE IF b \in p.invites THEN {"accept", "cancel"}
    ELSE IF b \in p.requested THEN {"cancel"} ELSE {"add"}

\* The count after one more confirmed write; both of a tap make it start anew.
Counted(c) == IF c + 1 = 2 THEN 0 ELSE c + 1

-----------------------------------------------------------------------------
OutOfDate(d, r) ==
    r # Expected(d) \/ \E e \in Device \ {d} : Busy(e)

FriendsInit ==
    /\ Init
    /\ people = [d \in Device |-> NotLoaded]
    /\ attached = [d \in Device |-> {}]
    /\ userCount = [d \in Device |-> 0]
    /\ profile = [d \in Device |-> NotDrawn]
    /\ sender = [d \in Device |-> <<>>]
    /\ misfired = FALSE /\ raced = FALSE

\* A snapshot replaces the objects and draws the rows, on cells that keep
\* their earlier handlers.
RetrievedUsers(d) ==
    /\ HandleValue(d)
    /\ LET r  == Head(events[d]).snap
           me == UserOf[d]
       IN /\ people' = [people EXCEPT ![d] = r]
          /\ attached' = [attached EXCEPT ![d] =
                @ \cup UNION {Offers(r[me], b) : b \in User \ {me}}]
    /\ UNCHANGED <<userCount, profile, sender, misfired, raced>>

\* updateUsers: both records, the tapping user's first.
UpdateUsers(d, r, a, b) ==
    LET put(i, u) == [op |-> "put", id |-> issued[d] + i, key |-> u, val |-> r[u]] IN
    /\ issued[d] + 2 <= MaxWrites
    /\ issued' = [issued EXCEPT ![d] = @ + 2]
    /\ calls' = [calls EXCEPT ![d] = @ \o <<put(1, a), put(2, b)>>]
    /\ sender' = [sender EXCEPT ![d] = @ \o <<"discover", "discover">>]
    /\ UNCHANGED <<hist, subscribed, net, client, events, shown, drops,
                   restarts, refusals, denials>>

TapButton(d, b, h) ==
    /\ people[d] # NotLoaded /\ h \in attached[d] /\ b # UserOf[d]
    /\ LET a == UserOf[d]
           r == Tapped(h, people[d], a, b)
       IN /\ UpdateUsers(d, r, a, b)
          /\ people' = [people EXCEPT ![d] = r]
          /\ misfired' = (misfired \/ h \notin Offers(people[d][a], b))
    /\ raced' = (raced \/ OutOfDate(d, people[d]))
    /\ UNCHANGED <<attached, userCount, profile>>

\* The profile takes the user's record when posts or comments arrive; a change
\* of the users alone does not draw it again.
DrawProfile(d) ==
    /\ shown[d] # NotLoaded
    /\ profile' = [profile EXCEPT ![d] = shown[d][UserOf[d]]]
    /\ UNCHANGED <<vars, people, attached, userCount, sender, misfired, raced>>

\* updateClicked: the form's fields with the rest of the record as drawn.
UpdateProfile(d) ==
    /\ profile[d] # NotDrawn
    /\ SetValue(d, UserOf[d], profile[d])
    /\ sender' = [sender EXCEPT ![d] = Append(@, "profile")]
    /\ raced' = (raced \/ OutOfDate(d, [Expected(d) EXCEPT ![UserOf[d]] = profile[d]]))
    /\ UNCHANGED <<people, attached, userCount, profile, misfired>>

\* addUser's completion retrieves nothing; discover counts its successes.
UpdatedUser(d) ==
    /\ HandleDone(d) /\ UNCHANGED calls
    /\ LET e == Head(events[d]) IN
       userCount' = IF e.ok /\ sender[d][e.id] = "discover"
                    THEN [userCount EXCEPT ![d] = Counted(@)] ELSE userCount
    /\ UNCHANGED <<people, attached, profile, sender, misfired, raced>>

RestartScreens(d) ==
    /\ Restart(d)
    /\ people' = [people EXCEPT ![d] = NotLoaded]
    /\ attached' = [attached EXCEPT ![d] = {}]
    /\ userCount' = [userCount EXCEPT ![d] = 0]
    /\ profile' = [profile EXCEPT ![d] = NotDrawn]
    /\ UNCHANGED <<sender, misfired, raced>>

DataLayer(d) ==
    /\ Below(d)
    /\ UNCHANGED <<people, attached, userCount, profile, sender, misfired, raced>>

FriendsNext ==
    \E d \in Device :
        \/ RetrievedUsers(d)
        \/ \E b \in User, h \in Handler : TapButton(d, b, h)
        \/ DrawProfile(d) \/ UpdateProfile(d)
        \/ UpdatedUser(d) \/ RestartScreens(d)
        \/ DataLayer(d)

FriendsSpec == FriendsInit /\ [][FriendsNext]_friendsVars
-----------------------------------------------------------------------------
\* Properties

\* The two halves of every relation agree in the database once all is quiet, if
\* no write was made on old records, refused, or lost with its process: two
\* separate writes per tap, lost connections and resending do not split them.
RelationsMirrored ==
    /\ ~ raced
    /\ \A d \in Device : ~ Busy(d) /\ restarts[d] = 0 /\ refusals[d] = 0
    => Mirrored(Server)

\* Only the invited user makes a friendship: the first version of a record with
\* a new friend was written by one of the two, and the database has a version of
\* the writer's record with an invitation from the other; of the record written,
\* if that is the writer's own, an earlier version. It holds for the handlers
\* that the rows call for.
OnlyInvitedAccepts ==
    ~ misfired =>
    \A k \in User : \A n \in DOMAIN hist[k] : \A x \in hist[k][n].val.friends :
        (\A m \in 0..(n - 1) : x \notin Stored(k, m).friends) =>
            LET w == UserOf[hist[k][n].by]
                other == IF w = k THEN x ELSE k
            IN /\ w \in {k, x}
               /\ \E m \in 0..(IF w = k THEN n - 1 ELSE Len(hist[w])) :
                     other \in Stored(w, m).invites

\* updatedUsers tells the other screens to refresh when both writes of one tap
\* are confirmed, not one write each of two taps: while no write was refused,
\* the count is odd exactly when an odd number of discover's writes is open.
OpenWrites(d) ==
    {i \in Numbered(Pipeline(d)) : sender[d][Pipeline(d)[i].id] = "discover"}

PairsInPhase ==
    \A d \in Device :
        refusals[d] = 0 => userCount[d] = Cardinality(OpenWrites(d)) % 2

\* The two writes of a tap belong together, in the database and in the count.
TapsPaired == RelationsMirrored /\ PairsInPhase
=============================================================================
