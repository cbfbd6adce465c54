---------------------------------- MODULE Chat ----------------------------------
(***************************************************************************)
(* Chat.  A message is two separate writes: the message itself, with the   *)
(* number of messages cached as its number, and the session of the pair,   *)
(* which the list of chats shows: the one found among the cached sessions, *)
(* or a new one.  The chats and the sessions are collections of their own, *)
(* kept here as keys of two kinds; ids are drawn at random, so no two      *)
(* records that are created have the same.                                 *)
(***************************************************************************)
EXTENDS RealtimeStore, FiniteSets

CONSTANTS User,
          UserOf,   \* the user logged in on each device
          Absent    \* no record under this key

ChatKey    == {k \in Key : k[1] = "chat"}
SessionKey == {k \in Key : k[1] = "session"}

\* The id drawn for the record that is written with number i.
NewId(kind, d, i) == <<kind, d, i>>

\* A text is named by the message it was first sent in.
ChatMessage == [from: User, to: User, msgId: Nat]
ChatSession == [userIds: SUBSET User, author: User, message: ChatKey]

VARIABLES
    allChats,      \* the messages of the last snapshot, or none yet
    allSessions,   \* the sessions of the last snapshot, changed in place
    sentBy,        \* the kind of each write, by number
    raced          \* ghost: was a message sent on chats or sessions out of date?

chatVars == <<vars, allChats, allSessions, sentBy, raced>>

Only(kind, snap) == [k \in {i \in Key : i[1] = kind} |-> snap[k]]

Present(r) == {k \in DOMAIN r : r[k] # Absent}

-----------------------------------------------------------------------------
ChatInit ==
    /\ Init
    /\ allChats = [d \in Device |-> NotLoaded]
    /\ allSessions = [d \in Device |-> NotLoaded]
    /\ sentBy = [d \in Device |-> <<>>]
    /\ raced = FALSE

\* The observers of both collections hear of a new snapshot; at first, one of
\* the two may have to wait for its own.
RetrievedChats(d) ==
    /\ HandleValue(d)
    /\ LET chats    == Only("chat", Head(events[d]).snap)
           sessions == Only("session", Head(events[d]).snap)
       IN \/ /\ allChats' = [allChats EXCEPT ![d] = chats]
             /\ allSessions' = [allSessions EXCEPT ![d] = sessions]
          \/ /\ allSessions[d] = NotLoaded
             /\ allChats' = [allChats EXCEPT ![d] = chats]
             /\ UNCHANGED allSessions
          \/ /\ allChats[d] = NotLoaded
             /\ allSessions' = [allSessions EXCEPT ![d] = sessions]
             /\ UNCHANGED allChats
    /\ UNCHANGED <<sentBy, raced>>

\* The other collection's first snapshot.
RetrievedRest(d) ==
    /\ shown[d] # NotLoaded
    /\ NotLoaded \in {allChats[d], allSessions[d]}
    /\ allChats' = [allChats EXCEPT ![d] = Only("chat", shown[d])]
    /\ allSessions' = [allSessions EXCEPT ![d] = Only("session", shown[d])]
    /\ UNCHANGED <<vars, sentBy, raced>>

\* The number that a message gets.
Counted(d) == IF allChats[d] = NotLoaded THEN 0 ELSE Cardinality(Present(allChats[d]))

\* The cached sessions of the pair.
Sessions(d, pair) ==
    IF allSessions[d] = NotLoaded THEN {}
    ELSE {k \in Present(allSessions[d]) : pair \subseteq allSessions[d][k].userIds}

\* Mutant: the session is written before its message.
SendBothSwapped(d, chat, msg, session, new) ==
    /\ issued[d] + 2 <= MaxWrites
    /\ issued' = [issued EXCEPT ![d] = @ + 2]
    /\ calls' = [calls EXCEPT ![d] = @ \o
          <<[op |-> "put", id |-> issued[d] + 1, key |-> session, val |-> new],
            [op |-> "put", id |-> issued[d] + 2, key |-> chat, val |-> msg]>>]
    /\ sentBy' = [sentBy EXCEPT ![d] = @ \o <<"session", "chat">>]
    /\ UNCHANGED <<hist, subscribed, net, client, events, shown, drops, restarts,
                   refusals, denials>>

\* sendChat, then sendSession.
SendBoth(d, chat, msg, session, new) ==
    /\ issued[d] + 2 <= MaxWrites
    /\ issued' = [issued EXCEPT ![d] = @ + 2]
    /\ calls' = [calls EXCEPT ![d] = @ \o
          <<[op |-> "put", id |-> issued[d] + 1, key |-> chat, val |-> msg],
            [op |-> "put", id |-> issued[d] + 2, key |-> session, val |-> new]>>]
    /\ sentBy' = [sentBy EXCEPT ![d] = @ \o <<"chat", "session">>]
    /\ UNCHANGED <<hist, subscribed, net, client, events, shown, drops, restarts,
                   refusals, denials>>

\* Neither the screen's lists nor another device leave anything to be seen.
UpToDate(d) ==
    /\ allChats[d] = Only("chat", Expected(d))
    /\ allSessions[d] = Only("session", Expected(d))
    /\ \A e \in Device \ {d} : ~ Busy(e)

\* The screen has retrieved everything since it was loaded, and may have none of
\* it yet. A cached session is changed in place; a new one is not cached before
\* its snapshot comes.
SendChat(d, to) ==
    LET me   == UserOf[d]
        chat == NewId("chat", d, issued[d] + 1)
        msg  == [from |-> me, to |-> to, msgId |-> Counted(d)]
        new  == [userIds |-> {me, to}, author |-> me, message |-> chat]
    IN /\ to # me /\ Retrieving(d)
       /\ \/ /\ Sessions(d, {me, to}) = {}
             /\ SendBoth(d, chat, msg, NewId("session", d, issued[d] + 2), new)
             /\ UNCHANGED allSessions
          \/ \E k \in Sessions(d, {me, to}) :
                LET s == [allSessions[d][k] EXCEPT !.author = me, !.message = chat] IN
                /\ SendBoth(d, chat, msg, k, s)
                /\ allSessions' = [allSessions EXCEPT ![d][k] = s]
       /\ raced' = (raced \/ ~ UpToDate(d))
       /\ UNCHANGED allChats

\* A session's completion retrieves everything again, after an error too.
AddedChat(d) ==
    /\ HandleDone(d)
    /\ (calls' # calls) <=> (sentBy[d][Head(events[d]).id] = "session" /\ CanObserve(d))
    /\ UNCHANGED <<allChats, allSessions, sentBy, raced>>

RestartChat(d) ==
    /\ Restart(d)
    /\ allChats' = [allChats EXCEPT ![d] = NotLoaded]
    /\ allSessions' = [allSessions EXCEPT ![d] = NotLoaded]
    /\ UNCHANGED <<sentBy, raced>>

ChatNext ==
    \E d \in Device :
        \/ \E to \in User : SendChat(d, to)
        \/ RetrievedChats(d) \/ RetrievedRest(d) \/ AddedChat(d) \/ RestartChat(d)
        \/ Below(d) /\ UNCHANGED <<allChats, allSessions, sentBy, raced>>

-----------------------------------------------------------------------------
\* Properties

Chats    == Only("chat", Server)
Talks    == Only("session", Server)
Quiet    == \A d \in Device : ~ Busy(d) /\ restarts[d] = 0 /\ refusals[d] = 0

\* A version of a session is never in the database without the message it
\* shows, whatever connection was lost between the two writes.
MessageFirst ==
    \A k \in SessionKey : \A n \in DOMAIN hist[k] :
        refusals[hist[k][n].by] = 0 => Chats[hist[k][n].val.message] # Absent

\* As long as every message was sent on the chats and sessions as they were, a
\* pair has one session and messages have numbers of their own, and once all is
\* quiet the session shows the pair's newest message and who sent it.
NewestOf(pair) ==
    CHOOSE k \in Present(Chats) :
        /\ {Chats[k].from, Chats[k].to} = pair
        /\ \A j \in Present(Chats) :
              {Chats[j].from, Chats[j].to} = pair => Chats[j].msgId <= Chats[k].msgId

OneConversation ==
    ~ raced =>
        /\ \A i, j \in Present(Talks) : Talks[i].userIds = Talks[j].userIds => i = j
        /\ \A i, j \in Present(Chats) : Chats[i].msgId = Chats[j].msgId => i = j
        /\ Quiet => \A k \in Present(Talks) :
              LET newest == NewestOf(Talks[k].userIds) IN
              Talks[k].message = newest /\ Talks[k].author = Chats[newest].from

\* Also after a race: once all is quiet every message is in a conversation of its
\* pair, and every conversation shows a message of its own pair.
PairOf(k) == {Chats[k].from, Chats[k].to}

NoneLeftOut ==
    Quiet =>
        /\ \A j \in Present(Chats) : \E k \in Present(Talks) : Talks[k].userIds = PairOf(j)
        /\ \A k \in Present(Talks) : PairOf(Talks[k].message) = Talks[k].userIds

ConversationKept == MessageFirst /\ OneConversation /\ NoneLeftOut
=============================================================================
