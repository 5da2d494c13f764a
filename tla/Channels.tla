------------------------------ MODULE Channels ------------------------------
(***************************************************************************)
(* A channel: its subscribers and posts on the server                      *)
(* (src/backend/src/channels.ts), the channel key its admin generates and  *)
(* hands out in envelopes (src/web/src/crypto/channel-keys.ts), and the    *)
(* pages that read and write it (src/web/src/channels/channels.ts).  Every *)
(* key has version 1.                                                      *)
(***************************************************************************)
EXTENDS Scheduled

CONSTANTS Creator,
          Subscribers,
          Device,          \* the devices of each user
          SignOuts,        \* the devices that may be signed out
          Dialogs,         \* clicks on Create and Post under way on one page
          PendingLimit,    \* LIMIT of keys/pending, 200 in the code
          ListLimit,       \* limit of the request for the posts, 50 in the code
          MaxKey,          \* bound: keys generated
          MaxEvents,       \* bound: subscriptions given up, reloads, sign-outs,
                           \* requests lost, cancellations, overlapping clicks
          OverlapWeight    \* bound: the events a click during another counts for

Users == {Creator} \cup Subscribers

Devices == UNION {Device[u] : u \in Users}

Owner(d) == CHOOSE u \in Users : d \in Device[u]

ASSUME ChannelAssumption ==
    /\ \A u, v \in Users : u # v => Device[u] \cap Device[v] = {}
    /\ "load" \notin Dialogs /\ IsFiniteSet(Dialogs)
    /\ {PendingLimit, ListLimit, MaxKey, MaxEvents, OverlapWeight} \subseteq Nat

VARIABLES
    made,        \* is there a channel?
    role,        \* conversation_members; "none" without a row
    count,       \* channels.subscriber_count
    envelope,    \* the key in each user's envelope
    sealed,      \* the key each post's ciphertext is under
    store,       \* the channel key in each device's IndexedDB
    page,        \* on each device: the page that loads the channel, and the
                 \* handlers of the dialogs that create it or post
    share,       \* distributeChannelKeyToPending
    shown,       \* the posts the page shows as text
    generated,   \* keys generated so far
    crossed,     \* dialogs that found no key while another of the device had
                 \* found none and not saved one yet
    events       \* events so far

channelTables == <<made, role, count, envelope, sealed>>
channelPages == <<store, page, share, shown, generated, crossed>>
channelVars == <<rowVars, channelTables, channelPages, events>>

NoKey == 0
Idle == [at |-> "idle", key |-> NoKey, is |-> "none"]
NoShare == [at |-> "idle", key |-> NoKey, to |-> {}]
Threads == {"load"} \cup Dialogs
Blank == [w \in Threads |-> Idle]

Member(u) == role[u] # "none"
IsAdmin(u) == role[u] \notin {"none", "member"}

Event == events < MaxEvents /\ events' = events + 1

Overlap == events + OverlapWeight <= MaxEvents /\ events' = events + OverlapWeight

(* A request is lost, or answered. *)
Reach(lost) == IF lost THEN Event ELSE UNCHANGED events

GoesOn(d, w, thread) == page' = [page EXCEPT ![d][w] = thread]

(* Clicks are alike: which of the idle handlers takes one does not matter. *)
Free(d, w) == page[d][w] = Idle /\ w = CHOOSE v \in Dialogs : page[d][v] = Idle

-----------------------------------------------------------------------------
(* The server's handlers, each one statement after the check of the role.   *)

(* Three inserts; the creator is made admin by the last, if the request     *)
(* comes that far.                                                          *)
InsertChannel(whole) ==
    /\ made' = TRUE
    /\ role' = IF whole THEN [role EXCEPT ![Creator] = "admin"] ELSE role

(* A request that throws, or whose answer is lost, generates no key; a post  *)
(* then finds none.                                                         *)
CreateChannel(d, w) ==
    /\ d \in Device[Creator] /\ ~made /\ Free(d, w)
    /\ \/ InsertChannel(TRUE) /\ GoesOn(d, w, [Idle EXCEPT !.at = "generate", !.is = "create"])
       \/ (\E whole \in BOOLEAN : InsertChannel(whole)) /\ UNCHANGED page
    /\ UNCHANGED <<rowVars, count, envelope, sealed, store, share, shown>>
    /\ UNCHANGED <<generated, crossed, events>>

(* INSERT OR IGNORE, then the count; a button shown by a page that is out of *)
(* date subscribes a member again.                                          *)
Subscribe(u) ==
    /\ made
    /\ IF Member(u) THEN Event ELSE UNCHANGED events
    /\ role' = [role EXCEPT ![u] = IF Member(u) THEN @ ELSE "member"]
    /\ count' = count + 1
    /\ UNCHANGED <<rowVars, made, envelope, sealed, channelPages>>

Unsubscribe(u) ==
    /\ made /\ Event
    /\ role' = [role EXCEPT ![u] = "none"]
    /\ count' = Max({0, count - 1})
    /\ UNCHANGED <<rowVars, made, envelope, sealed, channelPages>>

(* POST /channels/:id/keys: INSERT OR REPLACE by recipient and version. *)
Upload(by, to, key) ==
    envelope' = [u \in Users |-> IF IsAdmin(by) /\ u \in to THEN key ELSE envelope[u]]

(* Mutant: every member is pending, whether given an envelope or not. *)
PendingMembers == {u \in Users : Member(u)}

(* GET keys/pending: members without an envelope. *)
Pending == {u \in Users : Member(u) /\ envelope[u] = NoKey}

(* GET keys/me *)
OwnEnvelope(u) == IF Member(u) THEN envelope[u] ELSE NoKey

-----------------------------------------------------------------------------
(* Mutant: the server is asked also for a key that is stored. *)
NeverLocal(d) == NoKey

Local(d) == store[d]

With(w) == IF w = "load" THEN "ready" ELSE "encrypt"
Without(w) == IF w = "load" THEN "ready" ELSE "generate"

(* The dialogs of a device that found no key and have not saved one yet. *)
Missing(d) == {w \in Dialogs : page[d][w].at \in {"ask", "generate"}}

(* getChannelKey: the stored key, ...                                       *)
GetChannelKey(d, w, is) ==
    /\ GoesOn(d, w, [Idle EXCEPT !.at = IF Local(d) # NoKey THEN With(w) ELSE "ask", !.is = is])
    /\ crossed' = IF Local(d) = NoKey /\ w \in Dialogs /\ Missing(d) # {}
                  THEN crossed + 1 ELSE crossed

(* openChannelDetail, loadChannelPosts *)
Open(d) ==
    /\ made /\ page[d].load = Idle /\ share[d] = NoShare
    /\ GetChannelKey(d, "load", IF IsAdmin(Owner(d)) THEN "admin" ELSE "reader")
    /\ UNCHANGED <<rowVars, channelTables, store, share, shown, generated, events>>

(* A click on Post or Schedule in showPostDialog; the button stays enabled   *)
(* while earlier clicks are under way.                                      *)
StartPost(d, w) ==
    /\ IsAdmin(Owner(d)) /\ Free(d, w)
    /\ \E p \in Posts : Fresh(p)
    /\ IF \E v \in Dialogs : page[d][v] # Idle THEN Overlap ELSE UNCHANGED events
    /\ GetChannelKey(d, w, "post")
    /\ UNCHANGED <<rowVars, channelTables, store, share, shown, generated>>

(* ... or the one in one's own envelope (GET keys/me), ...                  *)
AskKey(d, w, lost) ==
    LET key == IF lost THEN NoKey ELSE OwnEnvelope(Owner(d)) IN
    /\ page[d][w].at = "ask" /\ Reach(lost)
    /\ GoesOn(d, w, IF key = NoKey THEN [page[d][w] EXCEPT !.at = Without(w)]
                    ELSE [page[d][w] EXCEPT !.at = "unwrap", !.key = key])
    /\ UNCHANGED <<rowVars, channelTables, store, share, shown, generated, crossed>>

(* ... which is stored without looking again, as is a generated one.        *)
SaveChannelKey(d, w) ==
    /\ page[d][w].at = "unwrap"
    /\ store' = [store EXCEPT ![d] = page[d][w].key]
    /\ GoesOn(d, w, [page[d][w] EXCEPT !.at = With(w), !.key = NoKey])
    /\ UNCHANGED <<rowVars, channelTables, share, shown, generated, crossed, events>>

(* generateAndUploadChannelKey: saved first, then uploaded to oneself. *)
Generate(d, w) ==
    /\ page[d][w].at = "generate" /\ generated < MaxKey
    /\ generated' = generated + 1
    /\ store' = [store EXCEPT ![d] = generated']
    /\ GoesOn(d, w, [page[d][w] EXCEPT !.at = "upload", !.key = generated'])
    /\ UNCHANGED <<rowVars, channelTables, share, shown, crossed, events>>

UploadOwn(d, w, lost) ==
    LET dialog == page[d][w] IN
    /\ dialog.at = "upload" /\ Reach(lost)
    /\ IF lost THEN UNCHANGED envelope ELSE Upload(Owner(d), {Owner(d)}, dialog.key)
    /\ GoesOn(d, w, IF dialog.is = "create" THEN Idle
                    ELSE [dialog EXCEPT !.at = "encrypt", !.key = NoKey])
    /\ UNCHANGED <<rowVars, made, role, count, sealed, store, share, shown, generated, crossed>>

EncryptPost(d, w) ==
    /\ page[d][w].at = "encrypt"
    /\ GoesOn(d, w, [page[d][w] EXCEPT !.at = "send", !.key = store[d]])
    /\ UNCHANGED <<rowVars, channelTables, store, share, shown, generated, crossed, events>>

(* POST /post stores the message, POST /schedule the row. *)
Publish(p, key) ==
    /\ Fresh(p)
    /\ stored' = [stored EXCEPT ![p] = <<key>>]
    /\ UNCHANGED <<row, runs, throws>>

(* A text is not sent also when its time is not filled in. *)
SendPost(d, w, p, lost) ==
    LET dialog == page[d][w] IN
    /\ dialog.at = "send" /\ Reach(lost)
    /\ IF lost \/ ~IsAdmin(Owner(d)) \/ ~Fresh(p)
       THEN UNCHANGED <<rowVars, sealed>>
       ELSE /\ Schedule(p) \/ Publish(p, dialog.key)
            /\ sealed' = [sealed EXCEPT ![p] = dialog.key]
    /\ GoesOn(d, w, Idle)
    /\ UNCHANGED <<made, role, count, envelope, store, share, shown, generated, crossed>>

(* The admin's page shares the key while it lists the posts. *)
StartShare(d) ==
    /\ page[d].load.at = "ready"
    /\ GoesOn(d, "load", [page[d].load EXCEPT !.at = "list"])
    /\ share' = [share EXCEPT ![d] = IF page[d].load.is = "admin" /\ store[d] # NoKey
                                     THEN [at |-> "ask", key |-> store[d], to |-> {}] ELSE NoShare]
    /\ UNCHANGED <<rowVars, channelTables, store, shown, generated, crossed, events>>

StoredPosts == {p \in Posts : stored[p] # <<>>}

(* There are more rows than one request lists. *)
Overfull == MapThenSumSet(LAMBDA p : Len(stored[p]), Posts) > ListLimit

(* A post under another key than the stored one is a placeholder. *)
DecryptPost(d, p) == store[d] # NoKey /\ Head(stored[p]) = store[d]

(* The newest posts, whichever they are. *)
ListPosts(d, lost) ==
    /\ page[d].load.at = "list" /\ Reach(lost)
    /\ \E newest \in IF Overfull THEN {S \in SUBSET StoredPosts : Cardinality(S) <= ListLimit}
                      ELSE {StoredPosts} :
           shown' = [shown EXCEPT ![d] =
               IF lost \/ ~Member(Owner(d)) THEN {}
               ELSE {p \in newest : DecryptPost(d, p)}]
    /\ GoesOn(d, "load", Idle)
    /\ UNCHANGED <<rowVars, channelTables, store, share, generated, crossed>>

AskPending(d, lost) ==
    /\ share[d].at = "ask" /\ Reach(lost)
    /\ \E to \in kSubset(Min({PendingLimit, Cardinality(Pending)}), Pending) :
           share' = [share EXCEPT ![d] = IF lost \/ ~IsAdmin(Owner(d)) \/ to = {} THEN NoShare
                                         ELSE [@ EXCEPT !.at = "upload", !.to = to]]
    /\ UNCHANGED <<rowVars, channelTables, store, page, shown, generated, crossed>>

ShareKey(d, lost) ==
    /\ share[d].at = "upload" /\ Reach(lost)
    /\ IF lost THEN UNCHANGED envelope ELSE Upload(Owner(d), share[d].to, share[d].key)
    /\ share' = [share EXCEPT ![d] = NoShare]
    /\ UNCHANGED <<rowVars, made, role, count, sealed, store, page, shown, generated, crossed>>

Reload(d) ==
    /\ <<page[d], share[d]>> # <<Blank, NoShare>> /\ Event
    /\ page' = [page EXCEPT ![d] = Blank]
    /\ share' = [share EXCEPT ![d] = NoShare]
    /\ shown' = [shown EXCEPT ![d] = {}]
    /\ UNCHANGED <<rowVars, channelTables, store, generated, crossed>>

(* Signing out clears the secure store and reloads. *)
SignOut(d) ==
    /\ d \in SignOuts /\ store[d] # NoKey /\ Event
    /\ store' = [store EXCEPT ![d] = NoKey]
    /\ page' = [page EXCEPT ![d] = Blank]
    /\ share' = [share EXCEPT ![d] = NoShare]
    /\ shown' = [shown EXCEPT ![d] = {}]
    /\ UNCHANGED <<rowVars, channelTables, generated, crossed>>

-----------------------------------------------------------------------------
CancelPost(p) ==
    /\ IsAdmin(Creator)
    /\ Cancel(p) /\ Event
    /\ UNCHANGED <<channelTables, channelPages>>

Tick(p) == TimeComes(p) /\ UNCHANGED <<channelTables, channelPages, events>>

(* A run that selects nothing changes nothing. *)
Maintenance(r) ==
    /\ runs[r] = Resting => \E p \in Posts : Selects(p)
    /\ RunStep(r, sealed)
    /\ UNCHANGED <<channelTables, channelPages, events>>

MaintenanceThrows(r) == Throw(r) /\ Event /\ UNCHANGED <<channelTables, channelPages>>

ChannelsInit ==
    /\ ScheduledInit
    /\ made = FALSE
    /\ role = [u \in Users |-> "none"]
    /\ count = 0
    /\ envelope = [u \in Users |-> NoKey]
    /\ sealed = [i \in Items |-> NoKey]
    /\ store = [d \in Devices |-> NoKey]
    /\ page = [d \in Devices |-> Blank]
    /\ share = [d \in Devices |-> NoShare]
    /\ shown = [d \in Devices |-> {}]
    /\ generated = 0 /\ crossed = 0 /\ events = 0

PageStep(d) ==
    \E lost \in BOOLEAN :
       \/ \E w \in Threads : AskKey(d, w, lost)
       \/ \E w \in Dialogs : UploadOwn(d, w, lost)
       \/ \E w \in Dialogs, p \in Posts : SendPost(d, w, p, lost)
       \/ ListPosts(d, lost)

LocalStep(d) ==
    \/ \E w \in Threads : SaveChannelKey(d, w)
    \/ \E w \in Dialogs : Generate(d, w) \/ EncryptPost(d, w)
    \/ StartShare(d)

ShareStep(d) == \E lost \in BOOLEAN : AskPending(d, lost) \/ ShareKey(d, lost)

ChannelsNext ==
    \/ \E d \in Devices :
          \/ Open(d)
          \/ \E w \in Dialogs : CreateChannel(d, w) \/ StartPost(d, w)
          \/ PageStep(d) \/ LocalStep(d) \/ ShareStep(d)
          \/ Reload(d) \/ SignOut(d)
    \/ \E u \in Users : Subscribe(u) \/ Unsubscribe(u)
    \/ \E p \in Posts : CancelPost(p) \/ Tick(p)
    \/ \E r \in Runs : Maintenance(r) \/ MaintenanceThrows(r)

(* Users come back to the channel, and what a page began goes on.  Nobody    *)
(* has to post or to subscribe; the maintenance task is Scheduled's.         *)
ChannelsFairness ==
    \A d \in Devices :
        /\ WF_channelVars(Open(d) \/ PageStep(d) \/ LocalStep(d))
        /\ WF_channelVars(ShareStep(d))

ChannelsSpec == ChannelsInit /\ [][ChannelsNext]_channelVars /\ ChannelsFairness

-----------------------------------------------------------------------------
(* One key wraps, opens and seals: with one device of the admin that is not  *)
(* signed out, whichever requests are lost and wherever the page is          *)
(* reloaded, a further key comes only from a dialog that looked the key up   *)
(* while another was between finding none and saving one (the Post handler   *)
(* of channels.ts has no guard).                                             *)
OneChannelKey ==
    Cardinality(({envelope[u] : u \in Users} \cup {store[d] : d \in Devices}
                 \cup {sealed[p] : p \in Posts}) \ {NoKey}) <= 1 + crossed

(* Who subscribes before or after a post, and stays, gets to read it while   *)
(* the channel has its admin and the post is among those listed: envelopes   *)
(* are handed out PendingLimit at a time, by a page that finds the others    *)
(* later, and also after a sign-out.  Under two keys some posts stay closed. *)
SubscribersRead ==
    \A d \in Devices, p \in Posts :
        (stored[p] # <<>> /\ Member(Owner(d)) /\ IsAdmin(Creator))
            ~> (p \in shown[d] \/ ~Member(Owner(d)) \/ ~IsAdmin(Creator)
                \/ Overfull \/ crossed > 0)
=============================================================================
