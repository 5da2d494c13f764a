--------------------------- MODULE Conversations ----------------------------
(***************************************************************************)
(* The direct conversations of some people (src/backend/src/messages.ts,   *)
(* handleMessages): how they are created, each member's row with its       *)
(* settings, pinned messages; and the list of conversations that the page  *)
(* of one of them, Me, keeps and patches (src/web/src/chat/chat.ts).       *)
(*                                                                         *)
(* D1 runs one statement or batch at a time.  A handler that looks before  *)
(* it writes does so in two steps, and other requests come between.        *)
(***************************************************************************)
EXTENDS Naturals, FiniteSets

CONSTANTS People,
          Me,
          Chats,         \* what randomUUID() returns, used once
          Requests,      \* requests under way at once
          Options,       \* chat themes, notification modes
          Plain,         \* the choice of a new row
          None,
          MaxAsks        \* bound: requests

ASSUME ConversationAssumption ==
    /\ Me \in People /\ Plain \in Options
    /\ Chats \subseteq Nat /\ None \notin Chats
    /\ IsFiniteSet(Requests) /\ MaxAsks \in Nat

VARIABLES
    between,     \* conversations: the two it was created for, {} without a row
    rowOf,       \* conversation_members: for each chat and user, NoRow without one
    pins,        \* chats with a row in pinned_messages
    request,     \* the requests under way
    list,        \* state.conversations: for each chat what it holds, NoEntry without
    active,      \* state.activeConversationId
    pane,        \* the conversation the chat view was drawn for
    wanted,      \* <<chat, user>> for which deleteConversation was called
    crossed,     \* did requests of the page overlap, or one of them fail?
    asks         \* requests so far

tables == <<between, rowOf, pins>>
shownVars == <<list, active, pane>>
convVars == <<tables, request, shownVars, wanted, crossed, asks>>

NoRow == [member |-> FALSE, archived |-> FALSE, pinned |-> FALSE, theme |-> Plain, mode |-> Plain]
NewRow == [NoRow EXCEPT !.member = TRUE]
NoEntry == [listed |-> FALSE, pinned |-> FALSE, theme |-> Plain, mode |-> Plain]
NoRequest == [op |-> "none", by |-> Me, chat |-> None, with |-> Me, choice |-> Plain,
              step |-> "none", ok |-> TRUE, saw |-> FALSE, orphan |-> FALSE,
              answer |-> [c \in Chats |-> NoEntry]]

ConversationsInit ==
    /\ between = [c \in Chats |-> {}]
    /\ rowOf = [c \in Chats |-> [u \in People |-> NoRow]]
    /\ pins = {}
    /\ request = [q \in Requests |-> NoRequest]
    /\ list = [c \in Chats |-> NoEntry]
    /\ active = None /\ pane = None
    /\ wanted = {} /\ crossed = FALSE /\ asks = 0

Listed(c) == c \in Chats /\ list[c].listed

Busy == {q \in Requests : request[q] # NoRequest /\ request[q].by = Me}

(* The conversations two people share. *)
Shared(u, v) == {c \in Chats : rowOf[c][u].member /\ rowOf[c][v].member}

-----------------------------------------------------------------------------
(* Requests: the buttons of the list (createConversation in the dialog,      *)
(* initSwipeActions, pull to refresh) and those of the pane (the menus of    *)
(* modes and themes, pinned messages).                                       *)
ListOps == {"pin", "archive", "leave"}
PaneOps == {"theme", "mode", "mark", "unpin"}

Offered(r) ==
    /\ r.op = "create" => r.with # r.by
    /\ r.op \in ListOps => \/ r.by = Me /\ Listed(r.chat)
                           \/ r.by # Me /\ r.op = "leave" /\ rowOf[r.chat][r.by].member
    /\ r.op \in PaneOps => r.by = Me /\ pane = r.chat /\ (r.op = "unpin" => pane \in pins)

Ask(q, r) ==
    /\ request[q] = NoRequest /\ asks < MaxAsks /\ Offered(r)
    /\ request' = [request EXCEPT ![q] = r]
    /\ wanted' = IF r.op = "leave" THEN wanted \cup {<<r.chat, r.by>>} ELSE wanted
    /\ crossed' = (crossed \/ (r.by = Me /\ Busy # {}))
    /\ asks' = asks + 1
    /\ UNCHANGED <<tables, shownVars>>

(* Mutant: a conversation the other one began is not looked for. *)
ExistingOfMine(u, v) == {c \in Shared(u, v) : \E r \in Requests : request[r].by = v}

(* The SELECT of createConversation. *)
Existing(u, v) == Shared(u, v)

Saw(q, flag) == request' = [request EXCEPT ![q].step = "looked", ![q].saw = flag]
Answered(q, r) == request' = [request EXCEPT ![q] = [r EXCEPT !.step = "answered"]]

(* createConversation: the first conversation with both is answered, or one  *)
(* is inserted with the rows of both, in one batch.                         *)
LookForConversation(q) ==
    LET r == request[q]
        there == Existing(r.by, r.with)
    IN
    /\ r.op = "create" /\ r.step = "asked"
    /\ \/ \E c \in there : Answered(q, [r EXCEPT !.chat = c])
       \/ there = {} /\ Saw(q, FALSE)
    /\ UNCHANGED <<tables, shownVars, wanted, crossed, asks>>

InsertConversation(q) ==
    LET r == request[q] IN
    /\ r.op = "create" /\ r.step = "looked"
    /\ \E c \in Chats :
           /\ {b \in Chats : between[b] = {}} \cap 1 .. c = {c}    \* ids in order
           /\ between' = [between EXCEPT ![c] = {r.by, r.with}]
           /\ rowOf' = [rowOf EXCEPT ![c] = [u \in People |-> IF u \in {r.by, r.with} THEN NewRow
                                                          ELSE NoRow]]
           /\ Answered(q, [r EXCEPT !.chat = c])
    /\ UNCHANGED <<pins, shownVars, wanted, crossed, asks>>

(* The routes pin and archive read a flag and write its opposite; the answer *)
(* is what was written.  Without a row they answer 403, read as no flag.    *)
Flag(r) == IF r.op = "pin" THEN rowOf[r.chat][r.by].pinned ELSE rowOf[r.chat][r.by].archived

ReadFlag(q) ==
    LET r == request[q] IN
    /\ r.op \in {"pin", "archive"} /\ r.step = "asked"
    /\ IF rowOf[r.chat][r.by].member THEN Saw(q, Flag(r))
       ELSE Answered(q, [r EXCEPT !.saw = TRUE])
    /\ UNCHANGED <<tables, shownVars, wanted, crossed, asks>>

Update(c, u, new) == rowOf' = [rowOf EXCEPT ![c][u] = IF @.member THEN new ELSE @]

WriteFlag(q) ==
    LET r == request[q]
        old == rowOf[r.chat][r.by]
    IN
    /\ r.op \in {"pin", "archive"} /\ r.step = "looked"
    /\ Update(r.chat, r.by, IF r.op = "pin" THEN [old EXCEPT !.pinned = ~r.saw]
                            ELSE [old EXCEPT !.archived = ~r.saw])
    /\ Answered(q, r)
    /\ UNCHANGED <<between, pins, shownVars, wanted, crossed, asks>>

(* The routes theme and notification-mode *)
SetChoice(q) ==
    LET r == request[q]
        old == rowOf[r.chat][r.by]
    IN
    /\ r.op \in {"theme", "mode"} /\ r.step = "asked"
    /\ Update(r.chat, r.by, IF r.op = "theme" THEN [old EXCEPT !.theme = r.choice]
                            ELSE [old EXCEPT !.mode = r.choice])
    /\ Answered(q, r)
    /\ UNCHANGED <<between, pins, shownVars, wanted, crossed, asks>>

(* pin/:msgId, for a member. *)
PinMessage(q) ==
    LET r == request[q] IN
    /\ r.op = "mark" /\ r.step = "asked"
    /\ pins' = IF rowOf[r.chat][r.by].member THEN pins \cup {r.chat} ELSE pins
    /\ Answered(q, r)
    /\ UNCHANGED <<between, rowOf, shownVars, wanted, crossed, asks>>

(* DELETE .../conversations/:id.  The route is not anchored, and comes before *)
(* the one that unpins a message, DELETE .../conversations/:id/pin/:msgId.  *)
DeleteMembership(q) ==
    LET r == request[q] IN
    /\ r.op \in {"leave", "unpin"} /\ r.step = "asked"
    /\ rowOf' = [rowOf EXCEPT ![r.chat][r.by] = NoRow]
    /\ Answered(q, r)
    /\ UNCHANGED <<between, pins, shownVars, wanted, crossed, asks>>

(* listConversations: the modes are not in the answer. *)
Entry(c) ==
    LET mine == rowOf[c][Me] IN
    IF mine.member /\ ~mine.archived
    THEN [listed |-> TRUE, pinned |-> mine.pinned, theme |-> mine.theme, mode |-> Plain]
    ELSE NoEntry

ListConversations(q) ==
    /\ request[q].op = "list" /\ request[q].step = "asked"
    /\ Answered(q, [request[q] EXCEPT !.answer = [c \in Chats |-> Entry(c)]])
    /\ UNCHANGED <<tables, shownVars, wanted, crossed, asks>>

Server ==
    \E q \in Requests :
        \/ LookForConversation(q) \/ InsertConversation(q) \/ ReadFlag(q) \/ WriteFlag(q)
        \/ SetChoice(q) \/ PinMessage(q) \/ DeleteMembership(q) \/ ListConversations(q)

(* Lost on the way, or its answer is: req() answers for it, without data,    *)
(* which reads as a flag that is not set.                                   *)
Fail(q) ==
    /\ request[q].step \in {"asked", "answered"} /\ request[q].ok
    /\ request' = [request EXCEPT ![q].step = "answered", ![q].ok = FALSE, ![q].saw = TRUE]
    /\ crossed' = (crossed \/ request[q].by = Me)
    /\ UNCHANGED <<tables, shownVars, wanted, asks>>

-----------------------------------------------------------------------------
(* The page.  openConversation returns before it draws the pane of a         *)
(* conversation that is not in the list.                                    *)
Open(c, entries) ==
    /\ active' = c
    /\ pane' = IF entries[c].listed THEN c ELSE pane

OpenConversation(c) ==
    /\ Listed(c) /\ Open(c, list)
    /\ UNCHANGED <<tables, request, list, wanted, crossed, asks>>

Back ==
    /\ pane # None
    /\ active' = None /\ pane' = None
    /\ UNCHANGED <<tables, request, list, wanted, crossed, asks>>

(* Another tab of the app was shown: renderChats draws everything anew. *)
RenderChats ==
    /\ pane # None
    /\ pane' = None
    /\ UNCHANGED <<tables, request, list, active, wanted, crossed, asks>>

Done(q) == request' = [request EXCEPT ![q] = NoRequest]

(* The menus patch the object they found in the list when they were opened;  *)
(* it is no longer there if the list was replaced meanwhile.                *)
Orphaned(q) ==
    [p \in Requests |-> IF p = q THEN NoRequest
                        ELSE IF request[p].op \in {"theme", "mode"}
                             THEN [request[p] EXCEPT !.orphan = TRUE] ELSE request[p]]

Created(q) ==
    /\ request[q].op = "create" /\ request[q].step = "answered"
    /\ request' = [request EXCEPT ![q] =
           IF request[q].by = Me /\ request[q].ok
           THEN [NoRequest EXCEPT !.op = "list", !.step = "asked", !.chat = request[q].chat]
           ELSE NoRequest]
    /\ UNCHANGED <<tables, shownVars, wanted, crossed, asks>>

(* Refreshed; after a creation its conversation is opened. *)
ListAnswered(q) ==
    LET r == request[q] IN
    /\ r.op = "list" /\ r.step = "answered"
    /\ IF r.ok THEN list' = r.answer /\ request' = Orphaned(q)
       ELSE UNCHANGED list /\ Done(q)
    /\ IF r.ok /\ r.chat # None THEN Open(r.chat, r.answer) ELSE UNCHANGED <<active, pane>>
    /\ UNCHANGED <<tables, wanted, crossed, asks>>

(* Mutant: only the pane forgets the conversation. *)
DroppedFromPane(c) ==
    /\ active' = IF active = c THEN None ELSE active
    /\ UNCHANGED <<list, pane>>

Dropped(c) ==
    /\ list' = [list EXCEPT ![c] = NoEntry]
    /\ active' = IF active = c THEN None ELSE active
    /\ UNCHANGED pane

(* The pin of the answer, if the conversation is still listed. *)
Patch(r) ==
    /\ list' = [list EXCEPT ![r.chat].pinned = IF Listed(r.chat) THEN ~r.saw ELSE @]
    /\ UNCHANGED <<active, pane>>

(* An archived conversation is dropped from the list, and one that was left, *)
(* whatever the answer is.                                                  *)
Patched(q) ==
    LET r == request[q] IN
    /\ r.by = Me /\ r.step = "answered" /\ r.op \in ListOps \cup PaneOps
    /\ CASE r.op = "pin" -> Patch(r)
         [] r.op = "leave" \/ (r.op = "archive" /\ ~r.saw) -> Dropped(r.chat)
         [] r.op \in {"theme", "mode"} /\ ~r.orphan /\ Listed(r.chat) ->
              /\ list' = [list EXCEPT ![r.chat] =
                     IF r.op = "theme" THEN [@ EXCEPT !.theme = r.choice]
                     ELSE [@ EXCEPT !.mode = r.choice]]
              /\ UNCHANGED <<active, pane>>
         [] OTHER -> UNCHANGED shownVars
    /\ Done(q)
    /\ UNCHANGED <<tables, wanted, crossed, asks>>

OtherAnswered(q) ==
    /\ request[q].by # Me /\ request[q].op = "leave" /\ request[q].step = "answered"
    /\ Done(q)
    /\ UNCHANGED <<tables, shownVars, wanted, crossed, asks>>

-----------------------------------------------------------------------------
Asked(op, by, c, v, choice) ==
    [NoRequest EXCEPT !.op = op, !.by = by, !.chat = c, !.with = v, !.choice = choice,
                      !.step = "asked"]

Asks(q) ==
    \/ \E u, v \in People : Ask(q, Asked("create", u, None, v, Plain))
    \/ Ask(q, Asked("list", Me, None, Me, Plain))
    \/ \E u \in People, c \in Chats : Ask(q, Asked("leave", u, c, Me, Plain))
    \/ \E op \in {"pin", "archive", "mark", "unpin"}, c \in Chats :
           Ask(q, Asked(op, Me, c, Me, Plain))
    \/ \E op \in {"theme", "mode"}, c \in Chats, choice \in Options :
           Ask(q, Asked(op, Me, c, Me, choice))

ThePage ==
    \/ \E q \in Requests : Asks(q) \/ Created(q) \/ ListAnswered(q) \/ Patched(q) \/ Fail(q)
                           \/ OtherAnswered(q)
    \/ \E c \in Chats : OpenConversation(c)
    \/ Back \/ RenderChats

ConversationsNext == Server \/ ThePage

ConversationsSpec == ConversationsInit /\ [][ConversationsNext]_convVars

-----------------------------------------------------------------------------
(* Two people share no more direct conversations than requests were under    *)
(* way at once: a second one comes from two requests that looked before      *)
(* either inserted, and from nothing else, whoever leaves and begins anew    *)
(* (createConversation).                                                     *)
NoMoreThanOverlapped ==
    \A u, v \in People : u # v => Cardinality(Shared(u, v)) <= Cardinality(Requests)

(* Used one request at a time, with none lost, the page agrees with the      *)
(* tables though its list is patched and seldom asked for.  What is listed   *)
(* is a conversation of this user, with the pin and the theme stored for it  *)
(* (a conversation in which a message was unpinned is none of his any more), *)
(* and the pane is that of the active conversation, so that what is typed is *)
(* sent there: or the active one is not listed, and nothing is sent          *)
(* (renderConversationsList, openConversation, sendMessageHandler).          *)
PageAgrees ==
    ~crossed =>
        /\ Busy = {} =>
              \A c \in Chats : Listed(c) =>
                  \/ [list[c] EXCEPT !.mode = Plain] = Entry(c)
                  \/ ~rowOf[c][Me].member /\ <<c, Me>> \notin wanted /\ c \in pins
        /\ Listed(active) /\ pane # None => pane = active

(* "DELETE /api/messages/conversations/:id/pin/:msgId - unpin"               *)
(* (messages.ts:257): a member stays a member until he asks to leave.        *)
MembersStay ==
    \A c \in Chats : \A u \in between[c] : rowOf[c][u].member \/ <<c, u>> \in wanted
=============================================================================
