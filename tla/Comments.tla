-------------------------------- MODULE Comments --------------------------------
(***************************************************************************)
(* Comments and replies on the details screen of one post.  The table      *)
(* shows the comments of that post only; the reply icon of a row looks its *)
(* comment up by the row's index among the comments of all posts.  The     *)
(* form keeps the reply that was begun until a comment is confirmed.       *)
(***************************************************************************)
EXTENDS RealtimeStore, FiniteSets

CONSTANTS Post,
          OfPost,   \* the post whose details each device shows
          NoKey,    \* no comment
          Absent    \* no record under this key

Comment == [commentedTo: Post, replyTo: Key \cup {NoKey}]

VARIABLES
    allComments,  \* the comments of the last snapshot in the order of its keys, or none yet
    comments,     \* the rows: the post's comments when the table was last filled
    usersLoaded,  \* have the users arrived?
    newComment,   \* the reply that was begun: none, or its id and target
    commenting,   \* is the form open?
    meant,        \* ghost: the target the user has in mind
    sent,         \* ghost: the target meant by each comment that was posted
    misled        \* ghost: could the user not know what the form would do?

form      == <<newComment, commenting>>
ghosts    == <<meant, sent, misled>>
commentVars == <<vars, allComments, comments, usersLoaded, form, ghosts>>

None == [begun |-> FALSE]

Present(snap) == {k \in Key : snap[k] # Absent}

\* NSDictionary.allKeys promises no order.
Orders(S) == {s \in [1..Cardinality(S) -> S] : \A i, j \in DOMAIN s : s[i] = s[j] => i = j}

CommentsFromPost(d, snap, all) ==
    LET OfThis(k) == snap[k].commentedTo = OfPost[d] IN SelectSeq(all, OfThis)

Fresh(d) == <<"comment", d, issued[d] + 1>>

-----------------------------------------------------------------------------
\* The feed hands its comments of the post on to the details.
CommentsInit ==
    /\ Init
    /\ allComments = [d \in Device |-> NotLoaded]
    /\ \E all \in Orders(Present(Seed)) :
          comments = [d \in Device |-> CommentsFromPost(d, Seed, all)]
    /\ usersLoaded = [d \in Device |-> FALSE]
    /\ newComment = [d \in Device |-> None]
    /\ commenting = [d \in Device |-> FALSE]
    /\ meant = [d \in Device |-> NoKey]
    /\ sent = [d \in Device |-> <<>>]
    /\ misled = [d \in Device |-> FALSE]

\* The rows follow once users and comments are there.
RetrievedComments(d) ==
    /\ HandleValue(d)
    /\ LET snap == Head(events[d]).snap IN
       \E all \in Orders(Present(snap)) :
          /\ allComments' = [allComments EXCEPT ![d] = all]
          /\ comments' = [comments EXCEPT ![d] =
                IF usersLoaded[d] THEN CommentsFromPost(d, snap, all) ELSE @]
    /\ UNCHANGED <<usersLoaded, form, ghosts>>

RetrievedUsers(d) ==
    /\ ~ usersLoaded[d]
    /\ usersLoaded' = [usersLoaded EXCEPT ![d] = TRUE]
    /\ comments' = [comments EXCEPT ![d] =
          IF allComments[d] = NotLoaded THEN @
          ELSE CommentsFromPost(d, shown[d], allComments[d])]
    /\ UNCHANGED <<vars, allComments, form, ghosts>>

ShowOrHideComment(d) == commenting' = [commenting EXCEPT ![d] = ~ @]

\* The button under the post: what is posted then is meant for the post, but a
\* reply begun before is still there.
CommentClicked(d) ==
    /\ ShowOrHideComment(d)
    /\ meant' = [meant EXCEPT ![d] = IF commenting[d] THEN @ ELSE NoKey]
    /\ misled' = [misled EXCEPT ![d] = @ \/ (~ commenting[d] /\ meant[d] # NoKey)]
    /\ UNCHANGED <<vars, allComments, comments, usersLoaded, newComment, sent>>

\* A row's reply icon, of the row's index among the comments of all posts; it
\* closes a form that is open.
ReplyClicked(d, row) ==
    /\ allComments[d] # NotLoaded /\ row \in DOMAIN comments[d]
    /\ newComment' = [newComment EXCEPT ![d] =
          [begun |-> TRUE, id |-> Fresh(d), replyTo |-> allComments[d][row]]]
    /\ ShowOrHideComment(d)
    /\ meant' = [meant EXCEPT ![d] = comments[d][row]]
    /\ misled' = [misled EXCEPT ![d] =
          @ \/ allComments[d][row] # comments[d][row] \/ commenting[d]]
    /\ UNCHANGED <<vars, allComments, comments, usersLoaded, sent>>

\* A comment gets a new id each time; a reply has had its id since it was begun.
Composed(d) ==
    IF newComment[d].begun
    THEN [id |-> newComment[d].id,
          val |-> [commentedTo |-> OfPost[d], replyTo |-> newComment[d].replyTo]]
    ELSE [id |-> Fresh(d), val |-> [commentedTo |-> OfPost[d], replyTo |-> NoKey]]

\* The form shows no sign that a comment is on its way.
PostClicked(d) ==
    /\ commenting[d] /\ Retrieving(d)
    /\ SetValue(d, Composed(d).id, Composed(d).val)
    /\ sent' = [sent EXCEPT ![d] = Append(@, [id |-> Composed(d).id, replyTo |-> meant[d]])]
    /\ UNCHANGED <<allComments, comments, usersLoaded, form, meant, misled>>

\* Mutant: the reply stays begun.
ForgottenNever(d) == newComment[d]

\* The reply that is left when a comment was confirmed.
Forgotten(d) == None

\* Every success forgets the reply and closes the form, or opens it when the
\* user has closed it meanwhile.
AddedComments(d) ==
    /\ HandleDone(d) /\ UNCHANGED calls
    /\ LET e == Head(events[d]) IN
       IF e.ok
       THEN /\ newComment' = [newComment EXCEPT ![d] = Forgotten(d)]
            /\ ShowOrHideComment(d)
            /\ meant' = [meant EXCEPT ![d] = NoKey]
            /\ misled' = [misled EXCEPT ![d] =
                  @ \/ ~ commenting[d] \/ meant[d] # sent[d][e.id].replyTo]
       ELSE UNCHANGED <<form, meant, misled>>
    /\ UNCHANGED <<allComments, comments, usersLoaded, sent>>

CommentsNext ==
    \E d \in Device :
        \/ RetrievedComments(d) \/ RetrievedUsers(d)
        \/ CommentClicked(d) \/ PostClicked(d) \/ AddedComments(d)
        \/ \E row \in 1..Cardinality(Key) : ReplyClicked(d, row)
        \/ Below(d) /\ UNCHANGED <<allComments, comments, usersLoaded, form, ghosts>>

-----------------------------------------------------------------------------
\* Properties

\* Whatever is posted answers the comment, or the post, that the user meant, as
\* long as the details show the only post with comments, no form is closed over a
\* reply or a comment on its way, and no other reply is begun before that.
RepliesReach ==
    \A d \in Device : ~ misled[d] =>
        \A k \in Key : \A n \in DOMAIN hist[k] :
            hist[k][n].by = d => hist[k][n].val.replyTo = sent[d][hist[k][n].id].replyTo

\* The rows are this post's comments, and after the last event all of them.
RowsOfPost ==
    \A d \in Device :
        /\ Settled(d) /\ usersLoaded[d] =>
              {comments[d][i] : i \in DOMAIN comments[d]}
                 = {k \in Present(Server) : Server[k].commentedTo = OfPost[d]}
        /\ allComments[d] # NotLoaded /\ usersLoaded[d] =>
              Len(comments[d]) <= Len(allComments[d])
=============================================================================
