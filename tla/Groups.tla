------------------------------- MODULE Groups -------------------------------
(***************************************************************************)
(* A group conversation: its members, their roles and their muting on the  *)
(* server (src/backend/src/groups.ts, messages.ts), and the sender keys of *)
(* its members' pages (src/web/src/crypto/group-session-manager.ts,        *)
(* src/shared/sender-keys.ts).                                             *)
(*                                                                         *)
(* A member has one sender key, whose chain is never replaced, so that a   *)
(* message key is its sender and an iteration.  Texts, notes and files are *)
(* encrypted for one other member; GIFs and edits under the sender key.    *)
(***************************************************************************)
EXTENDS Integers, Sequences, FiniteSets

CONSTANTS Users,
          Creator,
          Pages,           \* the members whose page is open
          Moderations,     \* moderation requests under way at once
          MaxPosted,         \* bound: messages stored
          MaxKey,          \* bound: messages encrypted under one sender key
          MaxEvents        \* bound: moderations, departures, reloads, requests
                           \* lost, encryptions that throw

ASSUME GroupAssumption ==
    /\ Creator \in Users
    /\ Pages \subseteq Users
    /\ {MaxPosted, MaxKey, MaxEvents} \subseteq Nat

VARIABLES
    role,        \* conversation_members; "none" without a row
    muted,       \* members whose muted_until lies ahead
    moderation,  \* requests of handleGroups under way
    members,     \* the member list each page goes by
    own,         \* ownKeyCache: the iteration of one's own key
    ownSaved,    \* the iteration in IndexedDB
    given,       \* distributedTo: whom the page believes to have its key
    encrypting,        \* groupEncrypt and the request that follows, for each page
    posted,       \* messages the server stores, in its order
    trouble,     \* was a post refused, or a request lost?
    events       \* events so far

server == <<role, muted, moderation>>
keys == <<own, ownSaved, given>>
groupVars == <<server, members, keys, encrypting, posted, trouble, events>>

Rank == [owner |-> 4, admin |-> 3, moderator |-> 2, member |-> 1]

NoKey == -1
Quiet == [step |-> "none", by |-> Creator, target |-> Creator, op |-> "kick",
          actor |-> "none"]
AtRest == [step |-> "idle", key |-> NoKey, to |-> {}, left |-> {}]

Member(u) == role[u] # "none"

Event == events < MaxEvents /\ events' = events + 1

-----------------------------------------------------------------------------
(* handleGroups: two lookups, then one statement.  The dialog offers no     *)
(* operation on oneself.                                                    *)
Operations == {"admin", "moderator", "member", "kick", "mute", "unmute"}

Promotes(op) == op \in {"admin", "moderator", "member"}

Moderate(q, by, target, op) ==
    /\ moderation[q].step = "none" /\ by # target /\ Event
    /\ moderation' = [moderation EXCEPT ![q] =
           [step |-> "asked", by |-> by, target |-> target, op |-> op, actor |-> "none"]]
    /\ UNCHANGED <<role, muted>>

MayAsk(actor, op) ==
    IF Promotes(op) THEN actor \in {"owner", "admin"} ELSE actor \notin {"none", "member"}

GetActor(q) ==
    LET m == moderation[q] IN
    /\ m.step = "asked"
    /\ moderation' = [moderation EXCEPT ![q] =
           IF MayAsk(role[m.by], m.op) THEN [m EXCEPT !.step = "known", !.actor = role[m.by]]
           ELSE Quiet]
    /\ UNCHANGED <<role, muted, events>>

CanActOn(actor, target) == Rank[actor] > Rank[target]

(* Mutant: any admin makes admins. *)
MayActFreely(actor, target, op) ==
    /\ target \notin {"none", "owner"}
    /\ Promotes(op) \/ CanActOn(actor, target)

(* "Only owner can create admins". *)
MayAct(actor, target, op) ==
    /\ target \notin {"none", "owner"}
    /\ IF Promotes(op) THEN ~(actor = "admin" /\ op = "admin") ELSE CanActOn(actor, target)

GetTarget(q) ==
    LET m == moderation[q] IN
    /\ m.step = "known"
    /\ moderation' = [moderation EXCEPT ![q] =
           IF MayAct(m.actor, role[m.target], m.op) THEN [m EXCEPT !.step = "allowed"]
           ELSE Quiet]
    /\ UNCHANGED <<role, muted, events>>

(* An UPDATE or DELETE by conversation and user: of nothing, if the member  *)
(* has left.  The signal to rotate sender keys is handled by no client.     *)
Write(q) ==
    LET m == moderation[q] IN
    /\ m.step = "allowed"
    /\ moderation' = [moderation EXCEPT ![q] = Quiet]
    /\ role' = [role EXCEPT ![m.target] =
           IF ~Member(m.target) THEN @ ELSE IF Promotes(m.op) THEN m.op
           ELSE IF m.op = "kick" THEN "none" ELSE @]
    /\ muted' = IF m.op = "mute" /\ Member(m.target) THEN muted \cup {m.target}
                ELSE IF m.op \in {"kick", "unmute"} THEN muted \ {m.target} ELSE muted
    /\ UNCHANGED events

(* DELETE /api/messages/conversations/:id *)
Leave(u) ==
    /\ Member(u) /\ Event
    /\ role' = [role EXCEPT ![u] = "none"]
    /\ muted' = muted \ {u}
    /\ UNCHANGED moderation

Governance ==
    /\ \/ \E q \in Moderations, by, target \in Users, op \in Operations :
              Moderate(q, by, target, op)
       \/ \E q \in Moderations : GetActor(q) \/ GetTarget(q) \/ Write(q)
       \/ \E u \in Users : Leave(u)
    /\ UNCHANGED <<members, keys, encrypting, posted, trouble>>

-----------------------------------------------------------------------------
(* POST /api/messages: membership and muting are checked.  req() never      *)
(* throws: a refused or a lost request looks like an answered one.          *)
PostMessage(u, m) ==
    \/ /\ Member(u) /\ u \notin muted /\ Len(posted) < MaxPosted
       /\ posted' = Append(posted, m)
       /\ UNCHANGED <<trouble, events>>
    \/ /\ ~Member(u) \/ u \in muted
       /\ trouble' = TRUE
       /\ UNCHANGED <<posted, events>>
    \/ Event /\ trouble' = TRUE /\ UNCHANGED posted

(* conv.members, as last listed. *)
LoadConversations(u) ==
    /\ Member(u) /\ members[u] # {v \in Users : Member(v)} /\ encrypting[u] = AtRest
    /\ members' = [members EXCEPT ![u] = {v \in Users : Member(v)}]
    /\ UNCHANGED <<server, keys, encrypting, posted, trouble, events>>

(* sendMessageHandler, forwardTo, the recorders, showFileUpload: the first  *)
(* other member is the recipient, in a group as well.                       *)
SendText(u) ==
    /\ encrypting[u] = AtRest
    /\ \E v \in members[u] \ {u} : PostMessage(u, [kind |-> "text", from |-> u, to |-> {v}, n |-> 0])
    /\ UNCHANGED <<server, members, keys, encrypting>>

(* sendGifMessage, startEditMessage: groupEncrypt.  getOrCreateOwnKey takes *)
(* the key from memory or IndexedDB or makes one; ensureDistributed looks   *)
(* for members without it.                                                  *)
OwnKey(u) == IF own[u] # NoKey THEN own[u] ELSE IF ownSaved[u] # NoKey THEN ownSaved[u] ELSE 0

GroupEncrypt(u) ==
    /\ encrypting[u] = AtRest /\ members[u] \ {u} # {} /\ OwnKey(u) < MaxKey
    /\ own' = [own EXCEPT ![u] = OwnKey(u)]
    /\ ownSaved' = [ownSaved EXCEPT ![u] = IF @ = NoKey THEN OwnKey(u) ELSE @]
    /\ encrypting' = [encrypting EXCEPT ![u] =
           [step |-> "giving", key |-> OwnKey(u), to |-> members[u] \ {u},
            left |-> members[u] \ ({u} \cup given[u])]]
    /\ UNCHANGED <<server, members, given, posted, trouble, events>>

Given(u, v) == encrypting' = [encrypting EXCEPT ![u].left = @ \ {v}]

(* Mutant: senderKeyEncrypt mutates its key, as its comment says, before it *)
(* is handed out.                                                           *)
DistributeMutatedKey(u, v) ==
    /\ encrypting[u].step = "giving" /\ v \in encrypting[u].left
    /\ Given(u, v)
    /\ given' = [given EXCEPT ![u] = @ \cup {v}]
    /\ PostMessage(u, [kind |-> "key", from |-> u, to |-> {v}, n |-> encrypting[u].key + 1])
    /\ UNCHANGED <<server, members, own, ownSaved>>

(* distributeKeyToMember: one message of the group for each member. *)
DistributeKeyToMember(u, v) ==
    /\ encrypting[u].step = "giving" /\ v \in encrypting[u].left
    /\ Given(u, v)
    /\ given' = [given EXCEPT ![u] = @ \cup {v}]
    /\ PostMessage(u, [kind |-> "key", from |-> u, to |-> {v}, n |-> encrypting[u].key])
    /\ UNCHANGED <<server, members, own, ownSaved>>

(* encryptMessage throws: tried again with the next message. *)
NotDistributed(u, v) ==
    /\ encrypting[u].step = "giving" /\ v \in encrypting[u].left
    /\ Event /\ Given(u, v)
    /\ trouble' = TRUE
    /\ UNCHANGED <<server, members, keys, posted>>

(* senderKeyEncrypt, then ownKeyCache. *)
SenderKeyEncrypt(u) ==
    /\ encrypting[u].step = "giving" /\ encrypting[u].left = {}
    /\ own' = [own EXCEPT ![u] = encrypting[u].key + 1]
    /\ encrypting' = [encrypting EXCEPT ![u].step = "saving"]
    /\ UNCHANGED <<server, members, ownSaved, given, posted, trouble, events>>

(* Mutant: the advanced key stays in memory. *)
KeyNotSaved(u) ==
    /\ encrypting[u].step = "saving"
    /\ encrypting' = [encrypting EXCEPT ![u].step = "posting"]
    /\ UNCHANGED <<server, members, keys, posted, trouble, events>>

SaveOwnKey(u) ==
    /\ encrypting[u].step = "saving"
    /\ ownSaved' = [ownSaved EXCEPT ![u] = own[u]]
    /\ encrypting' = [encrypting EXCEPT ![u].step = "posting"]
    /\ UNCHANGED <<server, members, own, given, posted, trouble, events>>

SendGif(u) ==
    /\ encrypting[u].step = "posting"
    /\ encrypting' = [encrypting EXCEPT ![u] = AtRest]
    /\ PostMessage(u, [kind |-> "gif", from |-> u, to |-> encrypting[u].to, n |-> encrypting[u].key])
    /\ UNCHANGED <<server, members, keys>>

(* distributedTo is in memory only. *)
ReloadPage(u) ==
    /\ own[u] # NoKey /\ Event
    /\ own' = [own EXCEPT ![u] = NoKey]
    /\ given' = [given EXCEPT ![u] = {}]
    /\ encrypting' = [encrypting EXCEPT ![u] = AtRest]
    /\ UNCHANGED <<server, members, ownSaved, posted, trouble>>

-----------------------------------------------------------------------------
(* createConversation: the creator is an admin, and nobody an owner. *)
GroupsInit ==
    /\ role = [u \in Users |-> IF u = Creator THEN "admin" ELSE "member"]
    /\ muted = {}
    /\ moderation = [q \in Moderations |-> Quiet]
    /\ members = [u \in Pages |-> Users]
    /\ own = [u \in Pages |-> NoKey] /\ ownSaved = own
    /\ given = [u \in Pages |-> {}]
    /\ encrypting = [u \in Pages |-> AtRest]
    /\ posted = <<>>
    /\ trouble = FALSE /\ events = 0

Page(u) ==
    \/ LoadConversations(u) \/ SendText(u) \/ GroupEncrypt(u)
    \/ \E v \in Users : DistributeKeyToMember(u, v) \/ NotDistributed(u, v)
    \/ SenderKeyEncrypt(u) \/ SaveOwnKey(u) \/ SendGif(u) \/ ReloadPage(u)

GroupsNext == Governance \/ \E u \in Pages : Page(u)

GroupsSpec == GroupsInit /\ [][GroupsNext]_groupVars

-----------------------------------------------------------------------------
(* "owner: single creator; cannot be demoted" (groups.ts:12).  The code     *)
(* makes the creator an admin, and still nobody demotes, kicks or mutes     *)
(* him, however the requests of the others and promotions among them        *)
(* interleave: his row changes when he leaves, and only then.               *)
CreatorKeepsRole ==
    [][/\ role'[Creator] # role[Creator] => role'[Creator] = "none" /\ UNCHANGED moderation
       /\ Creator \notin muted']_groupVars

(* "Update stored key": no two messages of the group are encrypted with     *)
(* one key, though pages reload in the middle of a call and requests are    *)
(* lost (groupEncrypt, one call of a page at a time).                       *)
UniqueGroupKeys ==
    \A i, j \in DOMAIN posted :
        posted[i].kind = "gif" /\ posted[j].kind = "gif" /\ posted[i].from = posted[j].from
            /\ posted[i].n = posted[j].n => i = j

(* Before a message is stored, every member its sender lists has been sent  *)
(* a key that leads to it, unless a request was lost or refused             *)
(* (ensureDistributed; a sender key goes forward only).                     *)
KeysPrecedeMessages ==
    ~trouble =>
        \A i \in DOMAIN posted : posted[i].kind = "gif" =>
            \A v \in posted[i].to : \E j \in 1 .. i - 1 :
                /\ posted[j].kind = "key" /\ posted[j].from = posted[i].from
                /\ posted[j].to = {v} /\ posted[j].n <= posted[i].n

(* A message of the group has a key of its own, and those it is for have it *)
(* before the message.                                                      *)
MessagesHaveKeys == UniqueGroupKeys /\ KeysPrecedeMessages
=============================================================================
