------------------------------- MODULE PostImages -------------------------------
(***************************************************************************)
(* Posts with images.  The form keeps one post at a time.  A post with an  *)
(* image is written when an upload has succeeded, with a path of the phone *)
(* as its url; every snapshot with such a post starts a listing of the     *)
(* images in storage, which at its end writes the posts it captured back   *)
(* with their real urls.  A vote on a post changes the object of the list, *)
(* which a listing may share, and its completion is handled as a new       *)
(* post's.                                                                 *)
(***************************************************************************)
EXTENDS RealtimeStore, FiniteSets

CONSTANTS Absent,      \* no record under this key
          MaxPosts,    \* bound: posts made on a device
          MaxVotes,    \* bound: votes on a device
          MaxListings  \* bound: listings under way

\* voted: by the user of the phone.
Url   == {"default", "path", "stored"}
Post  == [url: Url, voted: BOOLEAN]

VARIABLES
    allPosts,   \* the objects of the last snapshot, or none yet
    form,       \* the post of the form: none, or its id, url and author
    picked,     \* the image: "none", "data", or "sent" (its path is still there)
    uploads,    \* ids of the images on their way to storage
    stored,     \* storage (external): ids of the images it has
    listings,   \* the posts each listing captured; do they still share the list's objects?
    made,       \* ghost: the posts whose Post button was tapped
    lost,       \* ghost: was a post in the form dropped or left unsent?
    votes,      \* ghost: number of votes, and the last one on each post
    raced       \* ghost: was an older capture of a post about when it was voted on?

postVars  == <<allPosts, form, picked, uploads, stored, listings>>
ghosts    == <<made, lost, votes, raced>>
imageVars == <<vars, postVars, ghosts>>

None == [has |-> FALSE]

Present(snap) == {k \in Key : snap[k] # Absent}

NotUploaded(snap) == {k \in Present(snap) : snap[k].url = "path"}

Orders(S) == {s \in [1..Cardinality(S) -> S] : \A i, j \in DOMAIN s : s[i] = s[j] => i = j}

-----------------------------------------------------------------------------
ImagesInit ==
    /\ Init
    /\ allPosts = [d \in Device |-> NotLoaded]
    /\ form = [d \in Device |-> None]
    /\ picked = [d \in Device |-> "none"]
    /\ uploads = [d \in Device |-> {}]
    /\ stored = {}
    /\ listings = [d \in Device |-> <<>>]
    /\ made = [d \in Device |-> {}]
    /\ lost = [d \in Device |-> FALSE]
    /\ votes = [d \in Device |-> [count |-> 0, last |-> [k \in Key |-> FALSE]]]
    /\ raced = [d \in Device |-> FALSE]

\* addPostsToApi sends nothing without an author, who is known once the users and
\* the posts have arrived.
AddPost(d, p) ==
    IF p.author THEN SetValue(d, p.id, [url |-> p.url, voted |-> FALSE])
    ELSE UNCHANGED vars

DidSelect(d) ==
    /\ picked[d] # "data"
    /\ picked' = [picked EXCEPT ![d] = "data"]
    /\ UNCHANGED <<vars, allPosts, form, uploads, stored, listings, ghosts>>

\* A new post replaces the one in the form, sent or not.
PostClicked(d) ==
    LET id == <<d, Cardinality(made[d]) + 1>>
        p  == [has |-> TRUE, id |-> id, url |-> "default", author |-> allPosts[d] # NotLoaded]
    IN /\ Cardinality(made[d]) < MaxPosts /\ Retrieving(d)
       /\ form' = [form EXCEPT ![d] = p]
       /\ IF picked[d] = "data"
          THEN uploads' = [uploads EXCEPT ![d] = @ \cup {id}] /\ UNCHANGED vars
          ELSE AddPost(d, p) /\ UNCHANGED uploads
       /\ made' = [made EXCEPT ![d] = @ \cup {id}]
       /\ lost' = [lost EXCEPT ![d] = @ \/ ~ p.author \/ uploads[d] # {}]
       /\ UNCHANGED <<allPosts, picked, stored, listings, votes, raced>>

\* An upload succeeded: the post that the form has now is sent, once more if it
\* has been sent before.
UploadedImage(d, id) ==
    /\ id \in uploads[d]
    /\ uploads' = [uploads EXCEPT ![d] = @ \ {id}]
    /\ stored' = stored \cup {id}
    /\ picked' = [picked EXCEPT ![d] = "sent"]
    /\ IF form[d].has
       THEN /\ form' = [form EXCEPT ![d].url = "path"]
            /\ AddPost(d, form'[d])
            /\ raced' = [raced EXCEPT ![d] = @ \/ votes[d].last[form[d].id]]
       ELSE UNCHANGED <<vars, form, raced>>
    /\ UNCHANGED <<allPosts, listings, made, lost, votes>>

\* A failure completes twice, with nothing done either time.
UploadFailed(d, id) ==
    /\ id \in uploads[d]
    /\ uploads' = [uploads EXCEPT ![d] = @ \ {id}]
    /\ lost' = [lost EXCEPT ![d] = TRUE]
    /\ UNCHANGED <<vars, allPosts, form, picked, stored, listings, made, votes, raced>>

\* A snapshot: new objects, and a listing when some have a path for a url.
RetrievedPosts(d) ==
    /\ HandleValue(d)
    /\ LET snap == Head(events[d]).snap
           kept == [i \in DOMAIN listings[d] |-> [listings[d][i] EXCEPT !.shared = FALSE]]
       IN /\ allPosts' = [allPosts EXCEPT ![d] = snap]
          /\ IF NotUploaded(snap) = {}
             THEN listings' = [listings EXCEPT ![d] = kept] /\ UNCHANGED raced
             ELSE /\ Len(listings[d]) < MaxListings
                  /\ listings' = [listings EXCEPT ![d] = Append(kept,
                        [posts |-> [k \in NotUploaded(snap) |-> snap[k]], shared |-> TRUE])]
                  /\ raced' = [raced EXCEPT ![d] = @ \/ \E k \in NotUploaded(snap) :
                        snap[k].voted # Expected(d)[k].voted]
    /\ UNCHANGED <<form, picked, uploads, stored, made, lost, votes>>

\* The calls that write the captured posts that have an image.
Rewrites(d, posts, order) ==
    [i \in DOMAIN order |->
        [op |-> "put", id |-> issued[d] + i, key |-> order[i],
         val |-> [posts[order[i]] EXCEPT !.url = "stored"]]]

\* Mutant: all captured posts are taken for uploaded.
FoundAll(posts) == DOMAIN posts

\* The captured posts whose id is in the url of an image.
Found(posts) == DOMAIN posts \cap stored

\* The urls are fetched one by one, and when the last is there all found posts are
\* written; without any image the listing does not end.
ListedImages(d, i) ==
    LET posts == listings[d][i].posts
        found == Found(posts)
    IN /\ stored # {}
       /\ issued[d] + Cardinality(found) <= MaxWrites
       /\ \E order \in Orders(found) :
             calls' = [calls EXCEPT ![d] = @ \o Rewrites(d, posts, order)]
       /\ issued' = [issued EXCEPT ![d] = @ + Cardinality(found)]
       /\ allPosts' = IF listings[d][i].shared
                      THEN [allPosts EXCEPT ![d] = [k \in Key |->
                              IF k \in found THEN [@[k] EXCEPT !.url = "stored"] ELSE @[k]]]
                      ELSE allPosts
       /\ listings' = [listings EXCEPT ![d] = SubSeq(@, 1, i - 1) \o SubSeq(@, i + 1, Len(@))]
       /\ UNCHANGED <<hist, subscribed, net, client, events, shown, drops, restarts, refusals,
                      denials, form, picked, uploads, stored, ghosts>>

\* A vote on a row writes the row's object.
Voted(d, k) ==
    /\ allPosts[d] # NotLoaded /\ k \in Present(allPosts[d]) /\ votes[d].count < MaxVotes
    /\ LET new == [allPosts[d][k] EXCEPT !.voted = ~ @] IN
       /\ SetValue(d, k, new)
       /\ allPosts' = [allPosts EXCEPT ![d][k] = new]
       /\ listings' = [listings EXCEPT ![d] = [i \in DOMAIN @ |->
             IF @[i].shared /\ k \in DOMAIN @[i].posts
             THEN [@[i] EXCEPT !.posts[k] = new] ELSE @[i]]]
       /\ votes' = [votes EXCEPT ![d] =
             [count |-> @.count + 1, last |-> [@.last EXCEPT ![k] = new.voted]]]
    /\ raced' = [raced EXCEPT ![d] = @
          \/ allPosts[d][k].voted # Expected(d)[k].voted
          \/ \E i \in DOMAIN listings[d] : ~ listings[d][i].shared /\ k \in DOMAIN listings[d][i].posts]
    /\ UNCHANGED <<form, picked, uploads, stored, made, lost>>

\* Any post that was written, voted on or listed empties the form.
AddedPost(d) ==
    /\ HandleDone(d) /\ UNCHANGED calls
    /\ form' = IF Head(events[d]).ok THEN [form EXCEPT ![d] = None] ELSE form
    /\ lost' = [lost EXCEPT ![d] = @ \/ (Head(events[d]).ok /\ uploads[d] # {})]
    /\ UNCHANGED <<allPosts, picked, uploads, stored, listings, made, votes, raced>>

ImagesNext ==
    \E d \in Device :
        \/ DidSelect(d) \/ PostClicked(d)
        \/ \E id \in Key : UploadedImage(d, id) \/ UploadFailed(d, id) \/ Voted(d, id)
        \/ RetrievedPosts(d) \/ AddedPost(d)
        \/ \E i \in DOMAIN listings[d] : ListedImages(d, i)
        \/ Below(d) /\ UNCHANGED <<postVars, ghosts>>

-----------------------------------------------------------------------------
\* Properties

Idle(d) == ~ Busy(d) /\ refusals[d] = 0

\* A post whose button was tapped gets into the database, unless its author was not
\* known, its upload failed, or while an image was uploaded another post was tapped
\* or any write of a post was confirmed.
PostsArrive ==
    \A d \in Device :
        Idle(d) /\ uploads[d] = {} /\ ~ lost[d] => made[d] \subseteq Present(Server)

\* A url of storage is only ever given to a post whose image is there.
UrlsStored ==
    \A k \in Key : \A n \in DOMAIN hist[k] : hist[k][n].val.url = "stored" => k \in stored

\* The rewriting of posts undoes no vote, unless a listing captured a post before
\* the phone's own votes on it were in, or a second upload sent it anew.
VotesStay ==
    \A d \in Device :
        Idle(d) /\ ~ raced[d] =>
            \A k \in Present(Server) : Server[k].voted = votes[d].last[k]
=============================================================================
