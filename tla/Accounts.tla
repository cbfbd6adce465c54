-------------------------------- MODULE Accounts --------------------------------
(***************************************************************************)
(* Signing up, logging in and out.  Accounts are records under the user's  *)
(* name; the sign-up screen looks a name up among the users it has cached  *)
(* so far, saves it as logged in, and writes the account.  One object is   *)
(* signed up, handed to the optional form and signed up again after a      *)
(* logout: log-in makes it the very object of the cached list, which then  *)
(* changes with it.                                                        *)
(*                                                                         *)
(* Passwords fit and photos are left out; online is true or missing.       *)
(***************************************************************************)
EXTENDS RealtimeStore

CONSTANTS NoName,     \* no user is logged in
          NoId,       \* an account object that was not signed up yet
          Absent      \* no record under this key

Name == Key

\* The id of an account is drawn when it is signed up, its form has been filled
\* in for the account of that id.
Account(Id) == [name: Name \cup {NoName}, id: Id, online: BOOLEAN, form: Id]

VARIABLES
    allUsers,   \* the cached objects by the key they came with, or none yet
    user,       \* the sign-up screen's object
    cachedAs,   \* the cached object that user is, or none
    saved,      \* UserDefaults: the name logged in
    screens,    \* the screens over the sign-up screen
    allowed,    \* does the optional form take an update?
    sender,     \* the screen that made each write, by number
    lapse       \* ghost: was a tap made on old users, or before the last was answered?

sessionVars == <<allUsers, user, cachedAs, saved, screens, allowed, sender>>
accountVars == <<vars, sessionVars, lapse>>

Blank == [name |-> NoName, id |-> NoId, online |-> FALSE, form |-> NoId]

Top(d) == IF screens[d] = <<>> THEN "signup" ELSE screens[d][Len(screens[d])]

On(s, d) == \E i \in DOMAIN screens[d] : screens[d][i] = s

Cached(d) == IF allUsers[d] = NotLoaded THEN {} ELSE {k \in Name : allUsers[d][k] # Absent}

\* Mutant: only accounts that have logged in are looked at.
UsernameExistsOnline(d, n) == \E k \in Cached(d) : allUsers[d][k].name = n /\ allUsers[d][k].online

UsernameExists(d, n) == \E k \in Cached(d) : allUsers[d][k].name = n

-----------------------------------------------------------------------------
AccountsInit ==
    /\ Init
    /\ allUsers = [d \in Device |-> NotLoaded]
    /\ user = [d \in Device |-> Blank]
    /\ cachedAs = [d \in Device |-> NoName]
    /\ saved = [d \in Device |-> NoName]
    /\ screens = [d \in Device |-> <<>>]
    /\ allowed = [d \in Device |-> FALSE]
    /\ sender = [d \in Device |-> <<>>]
    /\ lapse = [d \in Device |-> FALSE]

\* The object changes wherever it is held.
Becomes(d, new) ==
    /\ user' = [user EXCEPT ![d] = new]
    /\ allUsers' = IF cachedAs[d] = NoName THEN allUsers
                   ELSE [allUsers EXCEPT ![d][cachedAs[d]] = new]

\* addUserToApi: the whole account, under its name.
AddUser(d, screen, new) ==
    /\ SetValue(d, new.name, new)
    /\ sender' = [sender EXCEPT ![d] = Append(@, screen)]

\* The cached users are what the database has, or will have with this phone's writes.
Stale(d) == Busy(d) \/ allUsers[d] # Expected(d)

SignupClicked(d, n) ==
    /\ Top(d) = "signup" /\ ~ UsernameExists(d, n)
    /\ LET new == [user[d] EXCEPT !.name = n, !.id = <<d, issued[d] + 1>>] IN
       Becomes(d, new) /\ AddUser(d, "signup", new)
    /\ saved' = [saved EXCEPT ![d] = n]
    /\ lapse' = [lapse EXCEPT ![d] = @ \/ Stale(d)]
    /\ UNCHANGED <<cachedAs, screens, allowed>>

\* A first log-in leads to the optional form, a later one writes the account.
LoginClicked(d, n) ==
    \E k \in Cached(d) :
        LET new == [allUsers[d][k] EXCEPT !.online = TRUE] IN
        /\ Top(d) = "signup" /\ allUsers[d][k].name = n
        /\ saved' = [saved EXCEPT ![d] = n]
        /\ user' = [user EXCEPT ![d] = new]
        /\ cachedAs' = [cachedAs EXCEPT ![d] = k]
        /\ allUsers' = [allUsers EXCEPT ![d][k] = new]
        /\ IF allUsers[d][k].online
           THEN AddUser(d, "signup", new) /\ UNCHANGED <<screens, allowed>>
           ELSE /\ screens' = [screens EXCEPT ![d] = Append(@, "optional")]
                /\ allowed' = [allowed EXCEPT ![d] = FALSE]
                /\ UNCHANGED <<vars, sender>>
        /\ lapse' = [lapse EXCEPT ![d] = @ \/ Stale(d)]

\* The sign-up screen's account is written: on to the optional form, once.
AddedUser(d) ==
    /\ HandleDone(d)
    /\ Head(events[d]).ok /\ sender[d][Head(events[d]).id] = "signup"
    /\ screens' = [screens EXCEPT ![d] =
          Append(@, IF user[d].online THEN "main" ELSE "optional")]
    /\ allowed' = [allowed EXCEPT ![d] = @ /\ user[d].online]
    /\ Becomes(d, [user[d] EXCEPT !.online = TRUE])
    /\ UNCHANGED <<cachedAs, saved, sender, lapse>>

UpdateClicked(d) ==
    /\ Top(d) = "optional" /\ allowed[d]
    /\ LET new == [user[d] EXCEPT !.form = user[d].id] IN
       Becomes(d, new) /\ AddUser(d, "optional", new)
    /\ UNCHANGED <<cachedAs, saved, screens, allowed, lapse>>

UpdatedUser(d) ==
    /\ HandleDone(d)
    /\ Head(events[d]).ok /\ sender[d][Head(events[d]).id] = "optional"
    /\ allowed' = [allowed EXCEPT ![d] = FALSE]
    /\ screens' = [screens EXCEPT ![d] = Append(@, "main")]
    /\ UNCHANGED <<allUsers, user, cachedAs, saved, sender, lapse>>

\* An error, or the completion of a screen that is gone.
NotAdded(d) ==
    /\ HandleDone(d) /\ UNCHANGED calls
    /\ ~ Head(events[d]).ok \/ sender[d][Head(events[d]).id] = "gone"
    /\ UNCHANGED <<sessionVars, lapse>>

\* New objects; the form is ready for an update, again if it was done.
RetrievedUsers(d) ==
    /\ HandleValue(d)
    /\ allUsers' = [allUsers EXCEPT ![d] = Head(events[d]).snap]
    /\ cachedAs' = [cachedAs EXCEPT ![d] = NoName]
    /\ allowed' = [allowed EXCEPT ![d] = On("optional", d)]
    /\ UNCHANGED <<user, saved, screens, sender, lapse>>

\* One screen is popped; the completions of a form that is gone find no delegate.
Popped(d) ==
    /\ screens' = [screens EXCEPT ![d] = SubSeq(@, 1, Len(@) - 1)]
    /\ sender' = [sender EXCEPT ![d] =
          [i \in DOMAIN @ |-> IF Top(d) = "optional" /\ @[i] = "optional" THEN "gone" ELSE @[i]]]
    /\ UNCHANGED <<vars, allUsers, user, cachedAs, allowed, lapse>>

Logout(d) ==
    /\ Top(d) = "main"
    /\ saved' = [saved EXCEPT ![d] = NoName]
    /\ Popped(d)

Back(d) == Top(d) = "optional" /\ Popped(d) /\ UNCHANGED saved

\* A saved name leads to the tabs at once, whether its account exists or not.
RestartApp(d) ==
    /\ Restart(d)
    /\ allUsers' = [allUsers EXCEPT ![d] = NotLoaded]
    /\ user' = [user EXCEPT ![d] = Blank]
    /\ cachedAs' = [cachedAs EXCEPT ![d] = NoName]
    /\ screens' = [screens EXCEPT ![d] = IF saved[d] = NoName THEN <<>> ELSE <<"main">>]
    /\ allowed' = [allowed EXCEPT ![d] = FALSE]
    /\ UNCHANGED <<saved, sender, lapse>>

AccountsNext ==
    \E d \in Device :
        \/ \E n \in Name : SignupClicked(d, n) \/ LoginClicked(d, n)
        \/ AddedUser(d) \/ UpdateClicked(d) \/ UpdatedUser(d) \/ NotAdded(d)
        \/ RetrievedUsers(d) \/ Logout(d) \/ Back(d) \/ RestartApp(d)
        \/ Below(d) /\ UNCHANGED <<sessionVars, lapse>>

-----------------------------------------------------------------------------
\* Properties

\* A name keeps its account: nobody signs up over it, and no rewriting undoes its
\* form, unless a tap was made on old users or before the last was answered.
Careful == \A d \in Device : ~ lapse[d]

NamesKept ==
    Careful => \A k \in Name : \A n \in DOMAIN hist[k] :
        LET before == Stored(k, n - 1)
            after  == hist[k][n].val
        IN before # Absent =>
              /\ after.id = before.id
              /\ before.form = before.id => after.form = after.id

\* When all is written, the name saved is that of an account, the one the sign-up
\* screen holds, unless a write was refused or lost with its process.
SavedExists ==
    Careful => \A d \in Device :
        ~ Busy(d) /\ saved[d] # NoName /\ refusals[d] = 0 /\ restarts[d] = 0 =>
            Server[saved[d]] # Absent /\ Server[saved[d]].id = user[d].id

AccountsKept == NamesKept /\ SavedExists
=============================================================================
