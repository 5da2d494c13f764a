-------------------------- MODULE ConversationView --------------------------
(***************************************************************************)
(* The messages area of the web client (src/web/src/chat/chat.ts): the     *)
(* lists of messages the page holds, the rows drawn from them, and what    *)
(* draws them: histories, socket events, decryptions that end later, the   *)
(* menu of a message.                                                      *)
(*                                                                         *)
(* A list is a JavaScript array: a handler that took it before an await    *)
(* goes on with it though a new one has replaced it, so each chat has all  *)
(* its arrays here and the number of the one in state.messages.  Files,    *)
(* GIFs and vault items are Media: their content replaces the text         *)
(* element.  Expiry, date separators and receipts are left out.            *)
(***************************************************************************)
EXTENDS Naturals, Sequences, FiniteSets, SequencesExt, FiniteSetsExt

CONSTANTS Chats,
          Messages,
          ChatOf,        \* the chat of each message
          Own,           \* messages of the page's user
          Local,         \* ids the page makes up for what it sends
          Media,
          Reactors,      \* users who react; Me is the page's
          Me,
          Glyphs,        \* what a chip shows
          None,
          Loads,         \* requests of a history under way at once
          MaxLists,      \* bound: arrays of a chat
          MaxRows,       \* bound: rows, also those no longer drawn
          MaxEvents      \* bound: deletions, edits, reactions, failures

ASSUME ViewAssumption == ChatOf \in [Messages -> Chats] /\ MaxRows \in Nat

VARIABLES
    sent,        \* on the server: the messages of each chat, oldest first
    unsaid,      \* stored, but their broadcast has not come
    erased,      \* deleted on the server
    opened,      \* chats whose socket has been asked for
    active,      \* state.activeConversationId
    arrays,      \* of each chat
    current,     \* state.messages: the number of an array, 0 without one
    area,        \* the rows of #messages-area, in order
    drawn,       \* history: the array drawn last
    cached,      \* plaintextCache
    jobs,        \* decryptQueue: the decryptions of each chat's histories
    handlers,    \* socket events being decrypted
    loads,       \* api.getMessages
    deleting,    \* api.deleteMessage
    saves,       \* rows whose edit is being saved
    viewEvents

server == <<sent, unsaid, erased>>
background == <<jobs, handlers, loads, deleting, saves>>
viewVars == <<server, opened, active, arrays, current, area, drawn, cached, background,
              viewEvents>>

NoArray == [chat |-> None, number |-> 0]
NoLoad == [chat |-> None, step |-> "idle", answer |-> <<>>]

Something == viewEvents < MaxEvents /\ viewEvents' = viewEvents + 1

ViewInit ==
    /\ sent = [c \in Chats |-> <<>>] /\ unsaid = {} /\ erased = {}
    /\ opened = {} /\ active = None
    /\ arrays = [c \in Chats |-> <<>>] /\ current = [c \in Chats |-> 0]
    /\ area = <<>> /\ drawn = NoArray
    /\ cached = {}
    /\ jobs = [c \in Chats |-> <<>>]
    /\ handlers = {} /\ deleting = {} /\ saves = {}
    /\ loads = [l \in Loads |-> NoLoad]
    /\ viewEvents = 0

-----------------------------------------------------------------------------
(* renderMessages: a row is reused where one bears the item's id, and moves  *)
(* behind the rows placed so far; rows of other ids are removed.            *)
NoTags == [u \in Reactors |-> None]
NoChips == [g \in Glyphs |-> 0]

Item(m, form) == [m |-> m, form |-> form, deleted |-> FALSE]

Numbers == 1 .. MaxRows

Free == Numbers \ ({r.no : r \in Range(area)} \cup saves
                     \cup UNION {{j.no : j \in Range(jobs[c])} : c \in Chats})

(* The numbers of a set, each once, from the least to the greatest. *)
InOrder(S) ==
    CHOOSE f \in [1 .. Cardinality(S) -> S] :
        \A i, k \in 1 .. Cardinality(S) : i < k => f[i] < f[k]

(* existingNodes: the last row of each id. *)
Node(rows, m) ==
    LET is == {i \in DOMAIN rows : rows[i].m = m} IN IF is = {} THEN {} ELSE {rows[Max(is)]}

Ids(items) == {items[i].m : i \in DOMAIN items}

Shown(item) == item.form = "plain" \/ item.m \in cached

NewRow(no, item) ==
    [no |-> no, m |-> item.m,
     bubble |-> IF item.deleted THEN "deleted"
                ELSE IF Shown(item) /\ item.m \in Media THEN "media" ELSE "text",
     face |-> IF Shown(item) THEN "content" ELSE "waiting",
     tags |-> NoTags, chips |-> NoChips]

(* The deletion replaces what is in the bubble, the reactions too. *)
Deleted(r) == [r EXCEPT !.bubble = "deleted", !.tags = NoTags, !.chips = NoChips]

Unknown(items) == {i \in DOMAIN items : Node(area, items[i].m) = {}}

(* Mutant: a row that exists is not moved. *)
PlacesWhereTheyAre(items) ==
    LET known == {i \in DOMAIN items \ Unknown(items) :
                      \A k \in DOMAIN items : items[k].m = items[i].m => k <= i}
        rank(i) == CHOOSE a \in DOMAIN area : area[a] \in Node(area, items[i].m)
    IN  SetToSortSeq(known, LAMBDA i, k : rank(i) < rank(k)) \o InOrder(Unknown(items))

(* The items that leave a row, in the rows' order: of items with one id, the *)
(* last one moves the row that exists.                                      *)
Places(items) ==
    InOrder({i \in DOMAIN items :
                 i \in Unknown(items) \/ \A k \in DOMAIN items : items[k].m = items[i].m => k <= i})

NumberOf(items, i) == InOrder(Free)[Cardinality({k \in Unknown(items) : k <= i})]

RowOf(items, i) ==
    IF i \in Unknown(items) THEN NewRow(NumberOf(items, i), items[i])
    ELSE LET r == CHOOSE r \in Node(area, items[i].m) : TRUE IN
         IF \E k \in DOMAIN items : items[k].m = r.m /\ items[k].deleted THEN Deleted(r) ELSE r

(* A second row of an id is no node: it stays behind the others. *)
Leftover ==
    LET at == InOrder({i \in DOMAIN area : area[i] \notin Node(area, area[i].m)}) IN
    [n \in DOMAIN at |-> area[at[n]]]

NewJobs(items) ==
    LET waiting == {i \in Unknown(items) : ~Shown(items[i]) /\ ~items[i].deleted}
        order == InOrder(waiting)
    IN  [n \in DOMAIN order |->
            [no |-> NumberOf(items, order[n]), m |-> items[order[n]].m,
             form |-> items[order[n]].form]]

RenderMessages(c, number, items) ==
    IF active = None THEN UNCHANGED <<area, drawn, jobs>>
    ELSE /\ Cardinality(Unknown(items)) <= Cardinality(Free)
         /\ area' = [n \in DOMAIN Places(items) |-> RowOf(items, Places(items)[n])]
                      \o Leftover
         /\ drawn' = [chat |-> c, number |-> number]
         /\ jobs' = [jobs EXCEPT ![c] = @ \o NewJobs(items)]

(* An array changes, perhaps becomes the one in state.messages, and is drawn. *)
Redraw(c, number, items, becomes) ==
    /\ number <= MaxLists
    /\ arrays' = [arrays EXCEPT ![c] =
           IF number > Len(@) THEN Append(@, items) ELSE [@ EXCEPT ![number] = items]]
    /\ current' = IF becomes THEN [current EXCEPT ![c] = number] ELSE current
    /\ RenderMessages(c, number, items)

-----------------------------------------------------------------------------
(* The server: POST, DELETE by another page, both broadcast when stored.    *)
Store(m) ==
    /\ m \notin Local /\ m \notin Range(sent[ChatOf[m]])
    /\ sent' = [sent EXCEPT ![ChatOf[m]] = Append(@, m)]
    /\ unsaid' = unsaid \cup {m}
    /\ UNCHANGED <<erased, opened, active, arrays, current, area, drawn, cached, background,
                   viewEvents>>

Unheard(m) ==
    /\ m \in unsaid
    /\ unsaid' = unsaid \ {m}
    /\ UNCHANGED <<sent, erased, opened, active, arrays, current, area, drawn, cached,
                   background, viewEvents>>

(* The socket event "message": the array is taken before the decryption. *)
HearMessage(m) ==
    /\ m \in unsaid /\ ChatOf[m] \in opened
    /\ unsaid' = unsaid \ {m}
    /\ handlers' = handlers \cup {[m |-> m, kind |-> "message", number |-> current[ChatOf[m]]]}
    /\ UNCHANGED <<sent, erased, opened, active, arrays, current, area, drawn, cached, jobs,
                   loads, deleting, saves, viewEvents>>

ShowMessage(h) ==
    LET c == ChatOf[h.m]
        number == IF h.number = 0 THEN Len(arrays[c]) + 1 ELSE h.number
        items == IF h.number = 0 THEN <<>> ELSE arrays[c][number]
    IN
    /\ h \in handlers /\ h.kind = "message"
    /\ handlers' = handlers \ {h}
    /\ Redraw(c, number, Append(items, Item(h.m, "plain")), TRUE)
    /\ UNCHANGED <<server, opened, active, cached, loads, deleting, saves, viewEvents>>

Find(items, m) == CHOOSE i \in DOMAIN items : items[i].m = m /\ \A k \in 1 .. i - 1 : items[k].m # m

Listed(m) ==
    LET n == current[ChatOf[m]] IN n # 0 /\ m \in Ids(arrays[ChatOf[m]][n])

(* message_edit, for a message that is listed.  The payload is written into  *)
(* the item: its text stays as drawn, and cannot be decrypted again.        *)
HearEdit(m) ==
    /\ m \in Range(sent[ChatOf[m]]) \ erased /\ ChatOf[m] \in opened /\ Listed(m)
    /\ Something
    /\ handlers' = handlers \cup {[m |-> m, kind |-> "edit", number |-> current[ChatOf[m]]]}
    /\ UNCHANGED <<server, opened, active, arrays, current, area, drawn, cached, jobs, loads,
                   deleting, saves>>

ShowEdit(h) ==
    LET c == ChatOf[h.m]
        items == arrays[c][h.number]
        i == Find(items, h.m)
    IN
    /\ h \in handlers /\ h.kind = "edit"
    /\ handlers' = handlers \ {h}
    /\ Redraw(c, h.number,
              [items EXCEPT ![i].form = IF @ = "plain" THEN "plain" ELSE "spoilt"], FALSE)
    /\ UNCHANGED <<server, opened, active, cached, loads, deleting, saves, viewEvents>>

MarkDeleted(m) ==
    LET c == ChatOf[m]
        items == arrays[c][current[c]]
    IN  IF Listed(m) THEN Redraw(c, current[c], [items EXCEPT ![Find(items, m)].deleted = TRUE], FALSE)
        ELSE UNCHANGED <<arrays, current, area, drawn, jobs>>

(* DELETE, and the event message_delete if the page hears it. *)
Erase(m) ==
    /\ m \in Range(sent[ChatOf[m]]) \ erased /\ Something
    /\ erased' = erased \cup {m}
    /\ \/ ChatOf[m] \in opened /\ MarkDeleted(m)
       \/ UNCHANGED <<arrays, current, area, drawn, jobs>>
    /\ UNCHANGED <<sent, unsaid, opened, active, cached, handlers, loads, deleting, saves>>

-----------------------------------------------------------------------------
(* openConversation; the pane's old rows are thrown away. *)
OpenConversation(c, l) ==
    /\ loads[l] = NoLoad /\ Something
    /\ active' = c /\ area' = <<>> /\ drawn' = NoArray
    /\ loads' = [loads EXCEPT ![l] = [chat |-> c, step |-> "asked", answer |-> <<>>]]
    /\ UNCHANGED <<server, opened, arrays, current, cached, jobs, handlers, deleting, saves>>

(* The back button removes the area. *)
Back ==
    /\ active # None
    /\ active' = None /\ area' = <<>> /\ drawn' = NoArray
    /\ UNCHANGED <<server, opened, arrays, current, cached, background, viewEvents>>

(* getMessages: newest first; a deleted row has no header. *)
History(c) ==
    [i \in DOMAIN sent[c] |->
        LET m == Reverse(sent[c])[i] IN
        [m |-> m, form |-> IF m \in erased THEN "plain" ELSE "cipher", deleted |-> m \in erased]]

Answer(l) ==
    /\ loads[l].step = "asked"
    /\ loads' = [loads EXCEPT ![l].step = "answered", ![l].answer = History(loads[l].chat)]
    /\ UNCHANGED <<server, opened, active, arrays, current, area, drawn, cached, jobs, handlers,
                   deleting, saves, viewEvents>>

(* loadMessages, then connectWebSocket.  What is answered is drawn whatever  *)
(* chat is shown by then.                                                   *)
LoadMessages(l) ==
    LET c == loads[l].chat IN
    /\ loads[l].step = "answered"
    /\ loads' = [loads EXCEPT ![l] = NoLoad]
    /\ opened' = opened \cup {c}
    /\ Redraw(c, Len(arrays[c]) + 1, loads[l].answer, TRUE)
    /\ UNCHANGED <<server, active, cached, handlers, deleting, saves, viewEvents>>

LoadFails(l) ==
    /\ loads[l].step = "asked" /\ Something
    /\ loads' = [loads EXCEPT ![l] = NoLoad]
    /\ opened' = opened \cup {loads[l].chat}
    /\ UNCHANGED <<server, active, arrays, current, area, drawn, cached, jobs, handlers,
                   deleting, saves>>

(* sendMessageHandler, sendGifMessage: encrypted, the message is listed.    *)
SendMessage(m) ==
    LET c == ChatOf[m]
        n == current[c]
    IN
    /\ m \in Local /\ c \in opened
    /\ \A k \in DOMAIN arrays[c] : m \notin Ids(arrays[c][k])
    /\ Redraw(c, IF n = 0 THEN Len(arrays[c]) + 1 ELSE n,
              Append(IF n = 0 THEN <<>> ELSE arrays[c][n], Item(m, "plain")), TRUE)
    /\ UNCHANGED <<server, opened, active, cached, handlers, loads, deleting, saves, viewEvents>>

RowNo(no) == {i \in DOMAIN area : area[i].no = no}

(* Mutant: the content is written over whatever the bubble shows. *)
WriteAnyway(r, shown) ==
    [r EXCEPT !.bubble = IF shown = "content" /\ r.m \in Media THEN "media" ELSE "text",
              !.face = shown]

(* applyDecryptedContent, renderFileMessage and renderVaultItem: into the    *)
(* text element, if the bubble still has one.                               *)
ApplyDecryptedContent(r, shown) ==
    IF r.bubble # "text" THEN r
    ELSE [r EXCEPT !.bubble = IF shown = "content" /\ r.m \in Media THEN "media" ELSE "text",
                   !.face = shown]

(* The decryptions of a chat's histories run one after another, and draw in  *)
(* the row they were started for.                                           *)
Decrypt(c, ok) ==
    LET job == Head(jobs[c]) IN
    /\ jobs[c] # <<>> /\ (ok => job.form = "cipher")
    /\ jobs' = [jobs EXCEPT ![c] = Tail(@)]
    /\ cached' = IF ok THEN cached \cup {job.m} ELSE cached
    /\ area' = [i \in DOMAIN area |->
           IF i \in RowNo(job.no)
           THEN ApplyDecryptedContent(area[i], IF ok THEN "content" ELSE "failed") ELSE area[i]]
    /\ UNCHANGED <<server, opened, active, arrays, current, drawn, handlers, loads, deleting,
                   saves, viewEvents>>

-----------------------------------------------------------------------------
(* The menu of a message.  A refused request is answered like any other.    *)
First(m) == {i \in DOMAIN area : area[i].m = m /\ \A k \in 1 .. i - 1 : area[k].m # m}

MenuDelete(r) ==
    /\ r.m \in Own \cup Local /\ r.bubble # "deleted" /\ Something
    /\ deleting' = deleting \cup {r.m}
    /\ UNCHANGED <<server, opened, active, arrays, current, area, drawn, cached, jobs, handlers,
                   loads, saves>>

DeleteAnswered(m) ==
    /\ m \in deleting
    /\ deleting' = deleting \ {m}
    /\ MarkDeleted(m)
    /\ UNCHANGED <<server, opened, active, cached, handlers, loads, saves, viewEvents>>

(* startEditMessage: a text area takes the place of the text element. *)
StartEdit(m) ==
    /\ m \in Own \cup Local /\ Something
    /\ \E i \in First(m) : area[i].bubble = "text" /\ area' = [area EXCEPT ![i].bubble = "input"]
    /\ UNCHANGED <<server, opened, active, arrays, current, drawn, cached, background>>

(* Escape, or a text that is empty or has not changed *)
CancelEdit(i) ==
    /\ area[i].bubble = "input"
    /\ area' = [area EXCEPT ![i].bubble = "text"]
    /\ UNCHANGED <<server, opened, active, arrays, current, drawn, cached, background, viewEvents>>

(* saveEdit, on Enter and when the text area loses the focus. *)
SaveEdit(i) ==
    /\ area[i].bubble = "input" /\ area[i].no \notin saves
    /\ saves' = saves \cup {area[i].no}
    /\ UNCHANGED <<server, opened, active, arrays, current, area, drawn, cached, jobs, handlers,
                   loads, deleting, viewEvents>>

(* The text element returns where the text area is, if it is anywhere. *)
EditSaved(no, ok) ==
    /\ no \in saves
    /\ saves' = saves \ {no}
    /\ area' = [i \in DOMAIN area |->
           IF i \in RowNo(no) /\ area[i].bubble \in {"input", "text"}
           THEN [area[i] EXCEPT !.bubble = "text", !.face = IF ok THEN "content" ELSE @]
           ELSE area[i]]
    /\ UNCHANGED <<server, opened, active, arrays, current, drawn, cached, jobs, handlers, loads,
                   deleting, viewEvents>>

(* updateReactionUI: the user's tag goes, and counts down its chip; then the *)
(* new one comes.                                                           *)
Untagged(r, u) ==
    IF r.tags[u] = None THEN r
    ELSE [r EXCEPT !.tags[u] = None, !.chips[r.tags[u]] = @ - 1]

Tagged(r, u, g) ==
    LET without == Untagged(r, u) IN
    IF g = None THEN without ELSE [without EXCEPT !.tags[u] = g, !.chips[g] = @ + 1]

(* An event "reaction", in the page's own case with the ciphertext for a     *)
(* glyph; the answer to reactToMsg; a click on one's own chip, removed.     *)
UpdateReactionUI(m, u, g) ==
    /\ g = None => u = Me
    /\ Something
    /\ \E i \in First(m) :
           /\ area[i].bubble # "deleted"
           /\ area' = [area EXCEPT ![i] = Tagged(@, u, g)]
    /\ UNCHANGED <<server, opened, active, arrays, current, drawn, cached, background>>

-----------------------------------------------------------------------------
Menu ==
    \/ \E i \in DOMAIN area : MenuDelete(area[i]) \/ CancelEdit(i) \/ SaveEdit(i)
    \/ \E m \in Messages : StartEdit(m) \/ DeleteAnswered(m)
    \/ \E no \in saves, ok \in BOOLEAN : EditSaved(no, ok)
    \/ \E m \in Messages, u \in Reactors, g \in Glyphs \cup {None} : UpdateReactionUI(m, u, g)

Socket ==
    \/ \E m \in Messages : Store(m) \/ Unheard(m) \/ HearMessage(m) \/ HearEdit(m) \/ Erase(m)
    \/ \E h \in handlers : ShowMessage(h) \/ ShowEdit(h)

Pane ==
    \/ \E c \in Chats, l \in Loads : OpenConversation(c, l)
    \/ \E l \in Loads : Answer(l) \/ LoadMessages(l) \/ LoadFails(l)
    \/ \E m \in Messages : SendMessage(m)
    \/ \E c \in Chats, ok \in BOOLEAN : Decrypt(c, ok)
    \/ Back

ViewNext == Menu \/ Socket \/ Pane

ViewSpec == ViewInit /\ [][ViewNext]_viewVars

-----------------------------------------------------------------------------
(* A row that says its message was deleted says so for as long as it is     *)
(* there: decryptions and edits under way when the deletion came write      *)
(* nothing into it (renderMessages, applyDecryptedContent, saveEdit).       *)
DeletedStaysDeleted ==
    [][\A i \in DOMAIN area, k \in DOMAIN area' :
           area[i].no = area'[k].no /\ area[i].m = area'[k].m /\ area[i].bubble = "deleted"
               => area'[k] = area[i]]_viewVars

(* However the lists grow, are replaced and are drawn over one another, the  *)
(* first rows are those of the array drawn last, in its order, each once    *)
(* (the reuse of rows in renderMessages), unless that holds an id twice.    *)
RowsFollowTheList ==
    drawn # NoArray =>
        LET items == arrays[drawn.chat][drawn.number] IN
        \/ \E i, k \in DOMAIN items : i # k /\ items[i].m = items[k].m
        \/ /\ Len(area) >= Len(items)
           /\ \A i \in DOMAIN items : area[i].m = items[i].m
=============================================================================
