---------------------------- MODULE MessageStore ----------------------------
(***************************************************************************)
(* The server's side of sending a message (backend/src/messages.ts): one   *)
(* request handler per POST, each of whose database calls is a step of its *)
(* own, so that retries of one message run between each other's steps; and *)
(* the edits, deletions and expiry that change a stored row meanwhile.     *)
(*                                                                         *)
(* One sender and one conversation.  Every POST of a message carries the   *)
(* same message_nonce, so the message stands for its nonce.  A POST makes  *)
(* its row's id itself (randomUUID): posts are numbered in the order they  *)
(* arrive, and the number is the id of the row the POST may insert.        *)
(***************************************************************************)
EXTENDS Naturals, Sequences, FiniteSets

CONSTANTS
    Message,       \* what the sender writes; the nonces
    Poster,        \* who calls the API: see Outbox
    Disappearing,  \* the messages sent with expires_in
    Quota,         \* stored rows a sender may have (10,000)
    MaxPost,       \* bound: POSTs in a behaviour
    MaxChange      \* bound: edits and deletions in a behaviour

ASSUME StoreAssumption ==
    /\ Disappearing \subseteq Message
    /\ Quota \in Nat
    /\ MaxPost \in Nat
    /\ MaxChange \in Nat

VARIABLES
    posts,    \* the POSTs so far, each with the row it inserted
    changes,  \* the edits and deletions that have selected their row
    changed   \* how many there were

storeVars == <<posts, changes, changed>>

PostId == 1..MaxPost
Nobody == 0

(* "restored" is a row marked deleted that holds an edit's payload. *)
Row == {"none", "sent", "edited", "blank", "restored", "gone"}
Waiting == {"received", "counted", "new", "conflict", "inserted"}
Post == [msg : Message, by : Poster, pc : Waiting \cup {"answered", "refused", "failed"},
         answer : PostId \cup {Nobody}, row : Row]
Change == [row : PostId, kind : {"edit", "delete"}]

StoreTypeOK ==
    /\ posts \in Seq(Post) /\ Len(posts) <= MaxPost
    /\ changes \subseteq Change
    /\ changed \in 0..MaxChange

StoreInit ==
    /\ posts = <<>>
    /\ changes = {}
    /\ changed = 0

Rows == {p \in DOMAIN posts : posts[p].row \notin {"none", "gone"}}

(* The row the nonce finds: an edit's payload and '{}' carry none. *)
Holders(m) == {p \in Rows : posts[p].msg = m /\ posts[p].row = "sent"}

Stored(m) == \E p \in DOMAIN posts : posts[p].msg = m /\ posts[p].row # "none"

-----------------------------------------------------------------------------
(* A request reaches the handler. *)
CanPost == Len(posts) < MaxPost

NewPost(m, by) ==
    [msg |-> m, by |-> by, pc |-> "received", answer |-> Nobody,
     row |-> "none"]

Receive(m, by) ==
    /\ CanPost
    /\ posts' = Append(posts, NewPost(m, by))

At(p, pc) == p \in DOMAIN posts /\ posts[p].pc = pc
Goto(p, pc) == posts' = [posts EXCEPT ![p].pc = pc]

Answer(p, id) == posts' = [posts EXCEPT ![p].pc = "answered", ![p].answer = id]

(* The sender may be muted, or removed from the conversation, at any time. *)
(* The quota counts deleted rows, and before the nonce is looked up.       *)
Refuse(p) ==
    /\ At(p, "received")
    /\ Goto(p, "refused")
    /\ UNCHANGED <<changes, changed>>

CheckQuota(p) ==
    /\ At(p, "received")
    /\ Goto(p, IF Cardinality(Rows) >= Quota THEN "refused" ELSE "counted")
    /\ UNCHANGED <<changes, changed>>

FindDuplicate(p) ==
    /\ At(p, "counted")
    /\ IF Holders(posts[p].msg) = {}
       THEN Goto(p, "new")
       ELSE \E id \in Holders(posts[p].msg) : Answer(p, id)
    /\ UNCHANGED <<changes, changed>>

(* Mutant: no unique index.                                                 *)
InsertUnindexed(p) ==
    /\ At(p, "new")
    /\ posts' = [posts EXCEPT ![p].pc = "inserted", ![p].row = "sent"]
    /\ UNCHANGED <<changes, changed>>

(* INSERT; the unique index on the nonce refuses a second row. *)
Insert(p) ==
    /\ At(p, "new")
    /\ IF Holders(posts[p].msg) = {}
       THEN posts' = [posts EXCEPT ![p].pc = "inserted", ![p].row = "sent"]
       ELSE Goto(p, "conflict")
    /\ UNCHANGED <<changes, changed>>

FindAgain(p) ==
    /\ At(p, "conflict")
    /\ IF Holders(posts[p].msg) = {}
       THEN Goto(p, "failed")
       ELSE \E id \in Holders(posts[p].msg) : Answer(p, id)
    /\ UNCHANGED <<changes, changed>>

(* The room tells the other members.  A call after INSERT may throw: the   *)
(* row stays and the answer is a 500.                                      *)
Broadcast(p) ==
    /\ At(p, "inserted")
    /\ Answer(p, p) \/ Goto(p, "failed")
    /\ UNCHANGED <<changes, changed>>

HandlePost(p) ==
    \/ Refuse(p) \/ CheckQuota(p) \/ FindDuplicate(p)
    \/ Insert(p) \/ FindAgain(p) \/ Broadcast(p)

-----------------------------------------------------------------------------
(* PATCH and DELETE: the row is selected if it is not deleted, and written  *)
(* by a later statement that does not look at deleted_at again.             *)
FindForChange(p, kind) ==
    /\ changed < MaxChange
    /\ p \in DOMAIN posts /\ posts[p].row \in {"sent", "edited"}
    /\ changes' = changes \cup {[row |-> p, kind |-> kind]}
    /\ changed' = changed + 1
    /\ UNCHANGED posts

AfterEdit(row) ==
    CASE row \in {"sent", "edited"} -> "edited"
      [] row \in {"blank", "restored"} -> "restored"
      [] OTHER -> row

AfterDelete(row) == IF row = "gone" THEN row ELSE "blank"

WriteChange(c) ==
    /\ c \in changes
    /\ changes' = changes \ {c}
    /\ posts' = [posts EXCEPT ![c.row].row =
                    IF c.kind = "edit" THEN AfterEdit(@) ELSE AfterDelete(@)]
    /\ UNCHANGED changed

(* Maintenance deletes the rows whose time is up. *)
Expire(p) ==
    /\ p \in Rows /\ posts[p].msg \in Disappearing
    /\ posts' = [posts EXCEPT ![p].row = "gone"]
    /\ UNCHANGED <<changes, changed>>

StoreNext ==
    \/ \E p \in PostId :
          \/ HandlePost(p) \/ Expire(p)
          \/ \E kind \in {"edit", "delete"} : FindForChange(p, kind)
    \/ \E c \in changes : WriteChange(c)

-----------------------------------------------------------------------------
(* However its retries interleave, a message has one row as it was sent: a  *)
(* second row is only made when the first was edited, deleted or expired.   *)
StoredOnce ==
    \A p, q \in DOMAIN posts :
        /\ p # q
        /\ posts[p].msg = posts[q].msg
        /\ {posts[p].row, posts[q].row} \cap {"none"} = {}
        => "sent" \notin {posts[p].row} \cap {posts[q].row}

(* And an answer names a row of the message it answers, and while that row   *)
(* is as it was sent, every other answer about the message names it too.     *)
AnswersHold ==
    /\ StoredOnce
    /\ \A p \in DOMAIN posts : posts[p].pc = "answered" =>
          LET id == posts[p].answer IN
          /\ id \in DOMAIN posts
          /\ posts[id].row # "none"
          /\ posts[id].msg = posts[p].msg
          /\ posts[id].row = "sent" =>
                \A q \in DOMAIN posts :
                    /\ posts[q].pc = "answered"
                    /\ posts[q].msg = posts[p].msg
                    /\ posts[q].answer # id
                    => posts[posts[q].answer].row # "sent"
=============================================================================
