---------------------------- MODULE ServerProofs ----------------------------
(***************************************************************************)
(* What the server's tables promise, and the pages that fill them, for any *)
(* number of people, chats, requests and pages: direct conversations       *)
(* (Conversations), meetings (Meetings), groups (Groups), the messages     *)
(* that are sent and queued (Outbox).                                      *)
(***************************************************************************)
EXTENDS Groups, Conversations, Meetings, Outbox, LeastElement, SequenceTheorems,
        FiniteSetTheorems, TLAPS

-----------------------------------------------------------------------------
(* Conversations: the types of a request and of the tables.                 *)
RequestOps == {"none", "create", "list"} \cup ListOps \cup PaneOps

MemberRow == [member : BOOLEAN, archived : BOOLEAN, pinned : BOOLEAN, theme : Options, mode : Options]
ListEntry == [listed : BOOLEAN, pinned : BOOLEAN, theme : Options, mode : Options]
AnyRequest ==
    [op : RequestOps, by : People, chat : Chats \cup {None}, with : People, choice : Options,
     step : {"none", "asked", "looked", "answered"}, ok : BOOLEAN, saw : BOOLEAN, orphan : BOOLEAN,
     answer : [Chats -> ListEntry]]

Request == {r \in AnyRequest : r.op \in ListOps \cup PaneOps => r.chat \in Chats}

ConversationsTypeOK ==
    /\ between \in [Chats -> SUBSET People]
    /\ rowOf \in [Chats -> [People -> MemberRow]]
    /\ pins \subseteq Chats
    /\ request \in [Requests -> Request]
    /\ list \in [Chats -> ListEntry]
    /\ active \in Chats \cup {None} /\ pane \in Chats \cup {None}
    /\ wanted \subseteq Chats \X People
    /\ crossed \in BOOLEAN

LEMMA NothingTyped ==
    NoRow \in MemberRow /\ NewRow \in MemberRow /\ NoEntry \in ListEntry /\ NoRequest \in Request
BY ConversationAssumption
   DEF NoRow, NewRow, NoEntry, NoRequest, MemberRow, ListEntry, Request, AnyRequest, RequestOps,
       ListOps, PaneOps

LEMMA EntryTyped ==
    ASSUME ConversationsTypeOK, NEW c \in Chats
    PROVE  Entry(c) \in ListEntry
BY ConversationAssumption, NothingTyped DEF ConversationsTypeOK, Entry, MemberRow, ListEntry

(* What the handlers change of a request.                                   *)
LEMMA RequestChanges ==
    ASSUME NEW r \in Request
    PROVE  /\ r.by \in People /\ r.with \in People /\ r.choice \in Options
           /\ r.chat \in Chats \cup {None} /\ r.answer \in [Chats -> ListEntry]
           /\ r.saw \in BOOLEAN /\ r.ok \in BOOLEAN /\ r.orphan \in BOOLEAN
           /\ r.op \in ListOps \cup PaneOps => r.chat \in Chats
           /\ \A s \in {"asked", "looked", "answered"} : [r EXCEPT !.step = s] \in Request
           /\ \A b \in BOOLEAN : [r EXCEPT !.saw = b] \in Request
           /\ [r EXCEPT !.ok = FALSE] \in Request
           /\ [r EXCEPT !.orphan = TRUE] \in Request
           /\ \A c \in Chats : [r EXCEPT !.chat = c] \in Request
           /\ \A e \in [Chats -> ListEntry] : [r EXCEPT !.answer = e] \in Request
BY DEF Request, AnyRequest

LEMMA AskedTyped ==
    \A op \in RequestOps, u \in People, v \in People, c \in Chats \cup {None}, choice \in Options :
        (op \in ListOps \cup PaneOps => c \in Chats) =>
            \E r \in Request :
               /\ r = Asked(op, u, c, v, choice)
               /\ r.op = op /\ r.by = u /\ r.chat = c /\ r.with = v /\ r.choice = choice
               /\ r.step = "asked" /\ r.ok = TRUE /\ r.orphan = FALSE
<1> SUFFICES ASSUME NEW op \in RequestOps, NEW u \in People, NEW v \in People,
                    NEW c \in Chats \cup {None}, NEW choice \in Options,
                    op \in ListOps \cup PaneOps => c \in Chats
             PROVE  \E r \in Request :
                       /\ r = Asked(op, u, c, v, choice)
                       /\ r.op = op /\ r.by = u /\ r.chat = c /\ r.with = v /\ r.choice = choice
                       /\ r.step = "asked" /\ r.ok = TRUE /\ r.orphan = FALSE
  OBVIOUS
<1> DEFINE r == Asked(op, u, c, v, choice)
<1>1. NoRequest \in AnyRequest
  BY NothingTyped DEF Request
<1>2. r.op = op /\ r.by = u /\ r.chat = c /\ r.with = v /\ r.choice = choice /\ r.step = "asked"
  BY <1>1 DEF Asked, AnyRequest
<1>3. r.ok = TRUE /\ r.orphan = FALSE
  BY DEF Asked, NoRequest
<1>4. r \in AnyRequest
  BY <1>1 DEF Asked, AnyRequest
<1> QED
  BY <1>2, <1>3, <1>4 DEF Request

LEMMA SawTyped ==
    ASSUME request \in [Requests -> Request], NEW q \in Requests, NEW flag \in BOOLEAN, Saw(q, flag)
    PROVE  /\ request' \in [Requests -> Request]
           /\ request' = [request EXCEPT ![q] = [request[q] EXCEPT !.step = "looked", !.saw = flag]]
<1>1. [[request[q] EXCEPT !.step = "looked"] EXCEPT !.saw = flag] \in Request
  BY RequestChanges
<1>2. request' = [request EXCEPT ![q] = [[request[q] EXCEPT !.step = "looked"] EXCEPT !.saw = flag]]
  BY DEF Saw
<1> QED
  BY <1>1, <1>2

LEMMA AnsweredTyped ==
    ASSUME request \in [Requests -> Request], NEW q \in Requests, NEW r \in Request, Answered(q, r)
    PROVE  request' \in [Requests -> Request]
BY RequestChanges DEF Answered

LEMMA ConversationsInitTyped == ConversationsInit => ConversationsTypeOK
<1> SUFFICES ASSUME ConversationsInit PROVE ConversationsTypeOK
  OBVIOUS
<1>1. between \in [Chats -> SUBSET People] /\ rowOf \in [Chats -> [People -> MemberRow]]
  BY NothingTyped DEF ConversationsInit
<1>2. request \in [Requests -> Request] /\ list \in [Chats -> ListEntry]
  BY NothingTyped DEF ConversationsInit
<1> QED
  BY <1>1, <1>2 DEF ConversationsInit, ConversationsTypeOK

(* A request that starts.                                                   *)
LEMMA AsksTyped ==
    ASSUME NEW q \in Requests, Asks(q)
    PROVE  \E op \in RequestOps, u, v \in People, c \in Chats \cup {None}, choice \in Options :
              /\ op \in ListOps \cup PaneOps => c \in Chats
              /\ op \in {"create", "list"} => c = None
              /\ u # Me => op \in {"create", "leave"}
              /\ Ask(q, Asked(op, u, c, v, choice))
BY ConversationAssumption DEF Asks, RequestOps, ListOps, PaneOps

LEMMA ConversationsTyped ==
    ASSUME ConversationsTypeOK, [ConversationsNext]_convVars
    PROVE  ConversationsTypeOK'
<1> USE DEF ConversationsTypeOK, tables, shownVars
<1>1. CASE UNCHANGED convVars
  BY <1>1 DEF convVars
<1>2. ASSUME NEW q \in Requests, Asks(q) PROVE ConversationsTypeOK'
  <2>1. PICK op \in RequestOps, u \in People, v \in People, c \in Chats \cup {None}, choice \in Options :
           /\ op \in ListOps \cup PaneOps => c \in Chats
           /\ Ask(q, Asked(op, u, c, v, choice))
    BY <1>2, AsksTyped
  <2>2. PICK r \in Request : /\ r = Asked(op, u, c, v, choice)
                             /\ r.op = op /\ r.chat = c /\ r.by = u
    <3>1. op \in ListOps \cup PaneOps => c \in Chats
      BY <2>1
    <3> QED
      BY <3>1, AskedTyped, SMT
  <2> QED
    <3>1. request' = [request EXCEPT ![q] = r]
      BY <2>1, <2>2 DEF Ask
    <3>2a. request' \in [Requests -> Request]
      BY <2>2, <3>1
    <3>2b. r.op = "leave" => <<r.chat, r.by>> \in Chats \X People
      BY <2>1, <2>2 DEF ListOps
    <3>2c. wanted' \subseteq Chats \X People
      BY <2>1, <2>2, <3>2b DEF Ask
    <3>2. crossed' \in BOOLEAN
      BY <2>1 DEF Ask
    <3> QED
      BY <2>1, <3>2a, <3>2c, <3>2 DEF Ask
<1>3. ASSUME NEW q \in Requests, LookForConversation(q) PROVE ConversationsTypeOK'
  <2>1. request' \in [Requests -> Request]
    BY <1>3, RequestChanges, SawTyped, AnsweredTyped DEF LookForConversation, Existing, Shared
  <2> QED
    BY <1>3, <2>1 DEF LookForConversation
<1>4. ASSUME NEW q \in Requests, InsertConversation(q) PROVE ConversationsTypeOK'
  <2>1. PICK c \in Chats :
           /\ between' = [between EXCEPT ![c] = {request[q].by, request[q].with}]
           /\ rowOf' = [rowOf EXCEPT ![c] =
                  [u \in People |-> IF u \in {request[q].by, request[q].with} THEN NewRow ELSE NoRow]]
           /\ Answered(q, [request[q] EXCEPT !.chat = c])
    BY <1>4 DEF InsertConversation
  <2>2. request' \in [Requests -> Request]
    BY <2>1, RequestChanges, AnsweredTyped
  <2>3. between' \in [Chats -> SUBSET People] /\ rowOf' \in [Chats -> [People -> MemberRow]]
    <3> DEFINE both == {request[q].by, request[q].with}
               rows == [u \in People |-> IF u \in both THEN NewRow ELSE NoRow]
    <3>1. request[q] \in Request
      OBVIOUS
    <3>2. both \in SUBSET People
      BY <3>1, RequestChanges
    <3>3. rows \in [People -> MemberRow]
      BY NothingTyped
    <3>4. between' = [between EXCEPT ![c] = both] /\ rowOf' = [rowOf EXCEPT ![c] = rows]
      BY <2>1
    <3> HIDE DEF both, rows
    <3> QED
      BY <3>2, <3>3, <3>4
  <2> QED
    BY <1>4, <2>2, <2>3 DEF InsertConversation
<1>5. ASSUME NEW q \in Requests, ReadFlag(q) PROVE ConversationsTypeOK'
  <2>1. Flag(request[q]) \in BOOLEAN
    BY <1>5, RequestChanges DEF ReadFlag, Flag, MemberRow, ListOps
  <2> QED
    BY <1>5, <2>1, RequestChanges, SawTyped, AnsweredTyped DEF ReadFlag
<1>6. ASSUME NEW q \in Requests, NEW new \in MemberRow, NEW c \in Chats, NEW u \in People,
             Update(c, u, new)
      PROVE  rowOf' \in [Chats -> [People -> MemberRow]]
  BY <1>6 DEF Update
<1>7. ASSUME NEW q \in Requests, WriteFlag(q) PROVE ConversationsTypeOK'
  <2> DEFINE r == request[q]
             old == rowOf[r.chat][r.by]
  <2>1. r.chat \in Chats /\ r.by \in People /\ r.saw \in BOOLEAN /\ r \in Request
    BY <1>7, RequestChanges DEF WriteFlag, ListOps
  <2>1a. old \in MemberRow /\ (~r.saw) \in BOOLEAN
    BY <2>1
  <2>2. \A o \in MemberRow, b \in BOOLEAN :
           [o EXCEPT !.pinned = b] \in MemberRow /\ [o EXCEPT !.archived = b] \in MemberRow
    BY DEF MemberRow
  <2> HIDE DEF old
  <2>3. rowOf' \in [Chats -> [People -> MemberRow]]
    BY <1>6, <1>7, <2>1, <2>1a, <2>2 DEF WriteFlag, old
  <2> QED
    BY <1>7, <2>1, <2>3, RequestChanges DEF WriteFlag, Answered
<1>8. ASSUME NEW q \in Requests, SetChoice(q) PROVE ConversationsTypeOK'
  <2> DEFINE r == request[q]
             old == rowOf[r.chat][r.by]
  <2>1. r.chat \in Chats /\ r.by \in People /\ r \in Request /\ old \in MemberRow /\ r.choice \in Options
    BY <1>8, RequestChanges DEF SetChoice, PaneOps
  <2>2. [old EXCEPT !.theme = r.choice] \in MemberRow /\ [old EXCEPT !.mode = r.choice] \in MemberRow
    BY <2>1 DEF MemberRow
  <2>3. rowOf' \in [Chats -> [People -> MemberRow]]
    BY <1>6, <1>8, <2>1, <2>2 DEF SetChoice
  <2> QED
    BY <1>8, <2>1, <2>3, RequestChanges DEF SetChoice, Answered
<1>9. ASSUME NEW q \in Requests, PinMessage(q) PROVE ConversationsTypeOK'
  BY <1>9, RequestChanges DEF PinMessage, Answered, PaneOps
<1>10. ASSUME NEW q \in Requests, DeleteMembership(q) PROVE ConversationsTypeOK'
  BY <1>10, NothingTyped, RequestChanges DEF DeleteMembership, Answered, ListOps, PaneOps
<1>11. ASSUME NEW q \in Requests, ListConversations(q) PROVE ConversationsTypeOK'
  <2>1. [c \in Chats |-> Entry(c)] \in [Chats -> ListEntry]
    BY EntryTyped
  <2> QED
    BY <1>11, <2>1, RequestChanges DEF ListConversations, Answered
<1>12. ASSUME NEW q \in Requests, Fail(q) PROVE ConversationsTypeOK'
  <2>1. [[[request[q] EXCEPT !.step = "answered"] EXCEPT !.ok = FALSE] EXCEPT !.saw = TRUE] \in Request
    BY RequestChanges
  <2>2. request' = [request EXCEPT ![q] =
           [[[request[q] EXCEPT !.step = "answered"] EXCEPT !.ok = FALSE] EXCEPT !.saw = TRUE]]
    BY <1>12 DEF Fail
  <2> QED
    BY <1>12, <2>1, <2>2 DEF Fail
<1>13. ASSUME NEW q \in Requests, Created(q) PROVE ConversationsTypeOK'
  <2>1. \A c \in Chats \cup {None} :
           [NoRequest EXCEPT !.op = "list", !.step = "asked", !.chat = c] \in Request
    BY NothingTyped DEF Request, AnyRequest, RequestOps, ListOps, PaneOps
  <2> QED
    BY <1>13, <2>1, NothingTyped, RequestChanges DEF Created
<1>14. ASSUME NEW q \in Requests, ListAnswered(q) PROVE ConversationsTypeOK'
  <2>1. request' \in [Requests -> Request]
    <3>1. Orphaned(q) \in [Requests -> Request]
      BY NothingTyped, RequestChanges DEF Orphaned
    <3> QED
      BY <1>14, <3>1, NothingTyped DEF ListAnswered, Done
  <2> QED
    BY <1>14, <2>1, RequestChanges DEF ListAnswered, Open
<1>15. ASSUME NEW q \in Requests, Patched(q) PROVE ConversationsTypeOK'
  <2> DEFINE r == request[q]
  <2>1. request' \in [Requests -> Request]
    BY <1>15, NothingTyped DEF Patched, Done
  <2>2. r.chat \in Chats /\ r.choice \in Options /\ r.saw \in BOOLEAN
    BY <1>15, RequestChanges DEF Patched
  <2>3. \A e \in ListEntry : /\ [e EXCEPT !.pinned = ~r.saw] \in ListEntry
                             /\ [e EXCEPT !.theme = r.choice] \in ListEntry
                             /\ [e EXCEPT !.mode = r.choice] \in ListEntry
    BY <2>2 DEF ListEntry
  <2>4. CASE Patch(r)
    <3>1. \/ list' = [list EXCEPT ![r.chat] = [list[r.chat] EXCEPT !.pinned = ~r.saw]]
          \/ list' = [list EXCEPT ![r.chat] = [list[r.chat] EXCEPT !.pinned = list[r.chat].pinned]]
      BY <2>4 DEF Patch
    <3>2. [list[r.chat] EXCEPT !.pinned = list[r.chat].pinned] \in ListEntry
      BY <2>2 DEF ListEntry
    <3>3. list' \in [Chats -> ListEntry]
      <4>1. list[r.chat] \in ListEntry
        BY <2>2
      <4>2. PICK e \in ListEntry : list' = [list EXCEPT ![r.chat] = e]
        BY <2>3, <3>1, <3>2, <4>1
      <4> QED
        BY <2>2, <4>2
    <3> QED
      BY <1>15, <2>1, <2>4, <3>3 DEF Patched, Patch
  <2>5. CASE Dropped(r.chat)
    BY <1>15, <2>1, <2>2, <2>5, NothingTyped DEF Patched, Dropped
  <2>6. CASE /\ list' = [list EXCEPT ![r.chat] = IF r.op = "theme" THEN [@ EXCEPT !.theme = r.choice]
                                               ELSE [@ EXCEPT !.mode = r.choice]]
             /\ UNCHANGED <<active, pane>>
    BY <1>15, <2>1, <2>2, <2>3, <2>6 DEF Patched
  <2>7. CASE UNCHANGED shownVars
    BY <1>15, <2>1, <2>7 DEF Patched
  <2> QED
    BY <1>15, <2>4, <2>5, <2>6, <2>7 DEF Patched
<1>16. ASSUME NEW q \in Requests, OtherAnswered(q) PROVE ConversationsTypeOK'
  BY <1>16, NothingTyped DEF OtherAnswered, Done
<1>17. ASSUME NEW c \in Chats, OpenConversation(c) PROVE ConversationsTypeOK'
  BY <1>17 DEF OpenConversation, Open
<1>18. CASE Back \/ RenderChats
  BY <1>18 DEF Back, RenderChats
<1> QED
  BY <1>1, <1>2, <1>3, <1>4, <1>5, <1>7, <1>8, <1>9, <1>10, <1>11, <1>12, <1>13, <1>14, <1>15,
     <1>16, <1>17, <1>18 DEF ConversationsNext, Server, ThePage
-----------------------------------------------------------------------------
(* Two people: the conversations they share and the requests that looked for *)
(* one in vain are together no more than there are requests.                *)
Looked(u, v) ==
    {q \in Requests : request[q].op = "create" /\ request[q].step = "looked"
                      /\ {request[q].by, request[q].with} = {u, v}}

Overlapped(u, v) ==
    /\ IsFiniteSet(Shared(u, v))
    /\ Cardinality(Shared(u, v)) + Cardinality(Looked(u, v)) <= Cardinality(Requests)

OverlapInv == ConversationsTypeOK /\ \A u, v \in People : u # v => Overlapped(u, v)

(* What most steps do: no request begins to insert, no row begins.          *)
NoNewLook ==
    \A p \in Requests :
        request'[p].op = "create" /\ request'[p].step = "looked" => request'[p] = request[p]

NoNewRow == \A c \in Chats, u \in People : rowOf'[c][u].member => rowOf[c][u].member

LEMMA CountsFall ==
    ASSUME NEW S, NEW L, NEW S2, NEW L2, NEW n \in Nat, IsFiniteSet(S), IsFiniteSet(L),
           S2 \subseteq S, L2 \subseteq L, Cardinality(S) + Cardinality(L) <= n
    PROVE  IsFiniteSet(S2) /\ Cardinality(S2) + Cardinality(L2) <= n
<1>1. IsFiniteSet(S2) /\ Cardinality(S2) <= Cardinality(S)
  BY FS_Subset
<1>2. IsFiniteSet(L2) /\ Cardinality(L2) <= Cardinality(L)
  BY FS_Subset
<1> QED
  BY <1>1, <1>2, FS_CardinalityType

LEMMA LookedFinite ==
    ASSUME NEW u, NEW v
    PROVE  /\ IsFiniteSet(Looked(u, v)) /\ Cardinality(Looked(u, v)) <= Cardinality(Requests)
           /\ Cardinality(Requests) \in Nat
<1>1. Looked(u, v) \subseteq Requests
  BY DEF Looked
<1> QED
  BY <1>1, FS_Subset, FS_CardinalityType, ConversationAssumption

LEMMA QuietKeepsOverlaps ==
    ASSUME OverlapInv, NoNewLook, NoNewRow
    PROVE  \A u, v \in People : u # v => Overlapped(u, v)'
<1> SUFFICES ASSUME NEW u \in People, NEW v \in People, u # v PROVE Overlapped(u, v)'
  OBVIOUS
<1>1. Shared(u, v)' \subseteq Shared(u, v)
  BY DEF NoNewRow, Shared
<1>2. Looked(u, v)' \subseteq Looked(u, v)
  BY DEF NoNewLook, Looked
<1>3. Overlapped(u, v)
  BY DEF OverlapInv
<1> QED
  BY <1>1, <1>2, <1>3, CountsFall, LookedFinite DEF Overlapped

(* A step on one request that leaves the others alone.                      *)
LEMMA OneRequest ==
    ASSUME ConversationsTypeOK, NEW q \in Requests, NEW r,
           request' = [request EXCEPT ![q] = r], r.op # "create" \/ r.step # "looked"
    PROVE  NoNewLook
BY DEF ConversationsTypeOK, NoNewLook

LEMMA AnsweredIsQuiet ==
    ASSUME ConversationsTypeOK, NEW q \in Requests, NEW r \in Request, Answered(q, r)
    PROVE  NoNewLook
BY OneRequest DEF Answered, Request, AnyRequest

LEMMA DoneIsQuiet ==
    ASSUME ConversationsTypeOK, NEW q \in Requests, Done(q)
    PROVE  NoNewLook
BY OneRequest DEF Done, NoRequest

LEMMA UpdateIsQuiet ==
    ASSUME ConversationsTypeOK, NEW c \in Chats, NEW u \in People, NEW new \in MemberRow, Update(c, u, new)
    PROVE  NoNewRow
BY DEF ConversationsTypeOK, Update, NoNewRow

LEMMA RowsShrink ==
    ASSUME ConversationsTypeOK, NEW q \in Requests,
           WriteFlag(q) \/ SetChoice(q) \/ PinMessage(q) \/ DeleteMembership(q)
    PROVE  NoNewRow
<1> DEFINE r == request[q]
           old == rowOf[r.chat][r.by]
<1>1. r.op \in ListOps \cup PaneOps
  BY DEF WriteFlag, SetChoice, PinMessage, DeleteMembership, ListOps, PaneOps
<1>2. r.chat \in Chats /\ r.by \in People /\ r.choice \in Options /\ (~r.saw) \in BOOLEAN
  BY <1>1, RequestChanges DEF ConversationsTypeOK
<1>3. CASE WriteFlag(q) \/ SetChoice(q)
  <2>1. old \in MemberRow
    BY <1>2 DEF ConversationsTypeOK
  <2>2. \A o \in MemberRow, b \in BOOLEAN, choice \in Options :
           /\ [o EXCEPT !.pinned = b] \in MemberRow /\ [o EXCEPT !.archived = b] \in MemberRow
           /\ [o EXCEPT !.theme = choice] \in MemberRow /\ [o EXCEPT !.mode = choice] \in MemberRow
    BY DEF MemberRow
  <2>3. \E new \in MemberRow : Update(r.chat, r.by, new)
    <3> HIDE DEF old
    <3> QED
      BY <1>2, <1>3, <2>1, <2>2 DEF WriteFlag, SetChoice, old
  <2> QED
    BY <1>2, <2>3, UpdateIsQuiet
<1>4. CASE PinMessage(q)
  BY <1>4 DEF PinMessage, NoNewRow
<1>5. CASE DeleteMembership(q)
  BY <1>2, <1>5 DEF DeleteMembership, NoNewRow, NoRow, ConversationsTypeOK
<1> QED
  BY <1>3, <1>4, <1>5

LEMMA OverlapStep ==
    ASSUME OverlapInv, [ConversationsNext]_convVars
    PROVE  OverlapInv'
<1> USE DEF tables, shownVars
<1>a. ConversationsTypeOK
  BY DEF OverlapInv
<1>b. ConversationsTypeOK'
  BY <1>a, ConversationsTyped
<1>c. ASSUME UNCHANGED rowOf PROVE NoNewRow
  BY <1>c DEF NoNewRow
<1>d. ASSUME NoNewLook, NoNewRow PROVE OverlapInv'
  BY <1>b, <1>d, QuietKeepsOverlaps DEF OverlapInv
<1>e. \A q \in Requests : request[q] \in Request
  BY <1>a DEF ConversationsTypeOK
<1>1. CASE UNCHANGED convVars
  BY <1>1, <1>c, <1>d DEF convVars, NoNewLook
<1>2. ASSUME NEW q \in Requests, Asks(q) PROVE OverlapInv'
  <2>1. PICK op \in RequestOps, u \in People, v \in People, c \in Chats \cup {None}, choice \in Options :
           /\ op \in ListOps \cup PaneOps => c \in Chats
           /\ Ask(q, Asked(op, u, c, v, choice))
    BY <1>2, AsksTyped
  <2>2. Asked(op, u, c, v, choice).step = "asked"
    BY <2>1, NothingTyped DEF Asked, NoRequest
  <2> QED
    BY <1>a, <1>c, <1>d, <2>1, <2>2, OneRequest DEF Ask
<1>3. ASSUME NEW q \in Requests, LookForConversation(q) PROVE OverlapInv'
  <2> DEFINE r == request[q]
  <2>1. CASE \E c \in Existing(r.by, r.with) : Answered(q, [r EXCEPT !.chat = c])
    <3>1. NoNewLook
      BY <1>a, <1>e, <2>1, RequestChanges, AnsweredIsQuiet DEF Existing, Shared
    <3> QED
      BY <1>3, <1>c, <1>d, <3>1 DEF LookForConversation
  <2>2. CASE Existing(r.by, r.with) = {} /\ Saw(q, FALSE)
    <3>1. /\ request' = [request EXCEPT ![q] = [request[q] EXCEPT !.step = "looked", !.saw = FALSE]]
          /\ rowOf' = rowOf
      BY <1>3, <1>a, <2>2, SawTyped DEF LookForConversation, ConversationsTypeOK
    <3>2. ASSUME NEW u \in People, NEW v \in People, u # v PROVE Overlapped(u, v)'
      <4>1. Shared(u, v)' = Shared(u, v)
        BY <3>1 DEF Shared
      <4>2. IsFiniteSet(Shared(u, v)) /\ Cardinality(Shared(u, v)) \in Nat
        BY <3>2, FS_CardinalityType DEF OverlapInv, Overlapped
      <4>3. CASE {r.by, r.with} = {u, v}
        <5>1. Shared(u, v) = {}
          BY <1>e, <2>2, <4>3, RequestChanges DEF Existing, Shared
        <5>2. Looked(u, v)' \subseteq Requests
          BY DEF Looked
        <5> QED
          BY <4>1, <5>1, <5>2, FS_EmptySet, FS_Subset, FS_CardinalityType, ConversationAssumption
             DEF Overlapped
      <4>4. CASE {r.by, r.with} # {u, v}
        <5>1. \A p \in Requests : p # q => request'[p] = request[p]
          BY <1>a, <3>1 DEF ConversationsTypeOK
        <5>2. request'[q].by = r.by /\ request'[q].with = r.with
          BY <1>a, <1>e, <3>1 DEF ConversationsTypeOK, Request, AnyRequest
        <5>3. Looked(u, v)' \subseteq Looked(u, v)
          BY <4>4, <5>1, <5>2 DEF Looked
        <5>4. Overlapped(u, v)
          BY <3>2 DEF OverlapInv
        <5> QED
          BY <4>1, <4>2, <5>3, <5>4, CountsFall, LookedFinite DEF Overlapped
      <4> QED
        BY <4>3, <4>4
    <3> QED
      BY <1>b, <3>2 DEF OverlapInv
  <2> QED
    BY <1>3, <2>1, <2>2 DEF LookForConversation
<1>4. ASSUME NEW q \in Requests, InsertConversation(q) PROVE OverlapInv'
  <2> DEFINE r == request[q]
             both == {r.by, r.with}
  <2>1. PICK c \in Chats :
           /\ rowOf' = [rowOf EXCEPT ![c] = [u \in People |-> IF u \in both THEN NewRow ELSE NoRow]]
           /\ Answered(q, [r EXCEPT !.chat = c])
    BY <1>4 DEF InsertConversation
  <2>2. /\ request'[q].step = "answered" /\ \A p \in Requests : p # q => request'[p] = request[p]
        /\ NoNewLook
    <3>1. [r EXCEPT !.chat = c] \in Request
      BY <1>e, RequestChanges
    <3> QED
      BY <1>a, <2>1, <3>1, AnsweredIsQuiet DEF Answered, ConversationsTypeOK, Request, AnyRequest
  <2>3. r.op = "create" /\ r.step = "looked"
    BY <1>4 DEF InsertConversation
  <2>4. \A b \in Chats : b # c => rowOf'[b] = rowOf[b]
    BY <1>a, <2>1 DEF ConversationsTypeOK
  <2>5. \A u \in People : rowOf'[c][u].member => u \in both
    BY <1>a, <2>1 DEF ConversationsTypeOK, NoRow
  <2>6. ASSUME NEW u \in People, NEW v \in People, u # v PROVE Overlapped(u, v)'
    <3>1. Overlapped(u, v) /\ Cardinality(Shared(u, v)) \in Nat /\ IsFiniteSet(Looked(u, v))
          /\ Cardinality(Looked(u, v)) \in Nat /\ Cardinality(Requests) \in Nat
      BY <2>6, LookedFinite, FS_CardinalityType DEF OverlapInv, Overlapped
    <3>2. CASE both = {u, v}
      <4>1. Shared(u, v)' \subseteq Shared(u, v) \cup {c}
        BY <2>4 DEF Shared
      <4>2. Looked(u, v)' \subseteq Looked(u, v) \ {q}
        BY <2>2 DEF NoNewLook, Looked
      <4>3. q \in Looked(u, v)
        BY <2>3, <3>2 DEF Looked
      <4>4. IsFiniteSet(Shared(u, v) \cup {c})
            /\ Cardinality(Shared(u, v) \cup {c}) <= Cardinality(Shared(u, v)) + 1
        <5>1. IsFiniteSet(Shared(u, v))
          BY <3>1 DEF Overlapped
        <5>2. /\ IsFiniteSet(Shared(u, v) \cup {c})
              /\ Cardinality(Shared(u, v) \cup {c}) \in
                    {Cardinality(Shared(u, v)), Cardinality(Shared(u, v)) + 1}
          BY <5>1, FS_AddElement
        <5> QED
          BY <3>1, <5>2
      <4>5. IsFiniteSet(Looked(u, v) \ {q})
            /\ Cardinality(Looked(u, v) \ {q}) = Cardinality(Looked(u, v)) - 1
        BY <3>1, <4>3, FS_RemoveElement
      <4>6. Cardinality(Shared(u, v) \cup {c}) \in Nat /\ Cardinality(Looked(u, v) \ {q}) \in Nat
        BY <4>4, <4>5, FS_CardinalityType
      <4>7. Cardinality(Shared(u, v) \cup {c}) + Cardinality(Looked(u, v) \ {q}) <= Cardinality(Requests)
        BY <3>1, <4>4, <4>5, <4>6 DEF Overlapped
      <4> QED
        BY <3>1, <4>1, <4>2, <4>4, <4>5, <4>7, CountsFall DEF Overlapped
    <3>3. CASE both # {u, v}
      <4>1. ~(u \in both /\ v \in both)
        BY <2>6, <3>3
      <4>2. Shared(u, v)' \subseteq Shared(u, v)
        BY <2>4, <2>5, <4>1 DEF Shared
      <4>3. Looked(u, v)' \subseteq Looked(u, v)
        BY <2>2 DEF NoNewLook, Looked
      <4> QED
        BY <3>1, <4>2, <4>3, CountsFall DEF Overlapped
    <3> QED
      BY <3>2, <3>3
  <2> QED
    BY <1>b, <2>6 DEF OverlapInv
<1>5. ASSUME NEW q \in Requests, ReadFlag(q) PROVE OverlapInv'
  <2>1. request[q].op # "create" /\ rowOf' = rowOf
    BY <1>5 DEF ReadFlag
  <2>2. CASE Saw(q, Flag(request[q]))
    <3> DEFINE new == [[request[q] EXCEPT !.step = "looked"] EXCEPT !.saw = Flag(request[q])]
    <3>1. request' = [request EXCEPT ![q] = new]
      BY <2>2 DEF Saw
    <3>2. new.op # "create"
      BY <1>e, <2>1 DEF Request, AnyRequest
    <3> HIDE DEF new
    <3> QED
      BY <1>a, <1>c, <1>d, <2>1, <3>1, <3>2, OneRequest
  <2>3. CASE Answered(q, [request[q] EXCEPT !.saw = TRUE])
    BY <1>a, <1>c, <1>d, <1>e, <2>1, <2>3, RequestChanges, AnsweredIsQuiet
  <2> QED
    BY <1>5, <2>2, <2>3 DEF ReadFlag
<1>6. ASSUME NEW q \in Requests, WriteFlag(q) \/ SetChoice(q) \/ PinMessage(q) \/ DeleteMembership(q)
      PROVE  OverlapInv'
  <2>1. Answered(q, request[q])
    BY <1>6 DEF WriteFlag, SetChoice, PinMessage, DeleteMembership
  <2> QED
    BY <1>6, <1>a, <1>d, <1>e, <2>1, AnsweredIsQuiet, RowsShrink
<1>9. ASSUME NEW q \in Requests, ListConversations(q) PROVE OverlapInv'
  <2>1. [c \in Chats |-> Entry(c)] \in [Chats -> ListEntry]
    BY <1>a, EntryTyped
  <2>2. [request[q] EXCEPT !.answer = [c \in Chats |-> Entry(c)]] \in Request
    BY <1>e, <2>1, RequestChanges
  <2> QED
    BY <1>9, <1>a, <1>c, <1>d, <2>2, AnsweredIsQuiet DEF ListConversations
<1>10. ASSUME NEW q \in Requests, Fail(q) PROVE OverlapInv'
  <2>1. request' = [request EXCEPT ![q] =
           [[[request[q] EXCEPT !.step = "answered"] EXCEPT !.ok = FALSE] EXCEPT !.saw = TRUE]]
    BY <1>10 DEF Fail
  <2>2. [[[request[q] EXCEPT !.step = "answered"] EXCEPT !.ok = FALSE] EXCEPT !.saw = TRUE].step = "answered"
    BY <1>e DEF Request, AnyRequest
  <2> QED
    BY <1>10, <1>a, <1>c, <1>d, <2>1, <2>2, OneRequest DEF Fail
<1>11. ASSUME NEW q \in Requests, Created(q) PROVE OverlapInv'
  <2>1. \E r : request' = [request EXCEPT ![q] = r] /\ r.step # "looked"
    <3> DEFINE new == [NoRequest EXCEPT !.op = "list", !.step = "asked", !.chat = request[q].chat]
    <3>1. new.step = "asked" /\ NoRequest.step = "none"
      BY DEF NoRequest
    <3>2. \/ request' = [request EXCEPT ![q] = new]
          \/ request' = [request EXCEPT ![q] = NoRequest]
      BY <1>11 DEF Created
    <3> QED
      BY <3>1, <3>2
  <2> QED
    BY <1>11, <1>a, <1>c, <1>d, <2>1, OneRequest DEF Created
<1>12. ASSUME NEW q \in Requests, ListAnswered(q) PROVE OverlapInv'
  <2>1. CASE request' = Orphaned(q)
    <3>1. NoNewLook
      BY <1>e, <2>1 DEF Orphaned, NoNewLook, NoRequest, Request, AnyRequest
    <3> QED
      BY <1>12, <1>c, <1>d, <3>1 DEF ListAnswered
  <2>2. CASE Done(q)
    BY <1>12, <1>a, <1>c, <1>d, <2>2, DoneIsQuiet DEF ListAnswered
  <2> QED
    BY <1>12, <2>1, <2>2 DEF ListAnswered
<1>13. ASSUME NEW q \in Requests, Patched(q) \/ OtherAnswered(q) PROVE OverlapInv'
  BY <1>13, <1>a, <1>c, <1>d, DoneIsQuiet DEF Patched, OtherAnswered
<1>14. ASSUME \/ \E c \in Chats : OpenConversation(c)
              \/ Back \/ RenderChats
       PROVE  OverlapInv'
  <2>1. UNCHANGED <<request, rowOf>>
    BY <1>14 DEF OpenConversation, Back, RenderChats
  <2> QED
    BY <1>c, <1>d, <2>1 DEF NoNewLook
<1> QED
  BY <1>1, <1>2, <1>3, <1>4, <1>5, <1>6, <1>9, <1>10, <1>11, <1>12, <1>13, <1>14
     DEF ConversationsNext, Server, ThePage

LEMMA OverlapInit == ConversationsInit => OverlapInv
<1> SUFFICES ASSUME ConversationsInit PROVE OverlapInv
  OBVIOUS
<1>1. ConversationsTypeOK
  BY ConversationsInitTyped
<1>2. ASSUME NEW u \in People, NEW v \in People PROVE Overlapped(u, v)
  <2>1. Shared(u, v) = {} /\ Looked(u, v) = {}
    BY DEF ConversationsInit, Shared, Looked, NoRow, NoRequest
  <2> QED
    BY <2>1, FS_EmptySet, FS_CardinalityType, ConversationAssumption DEF Overlapped
<1> QED
  BY <1>1, <1>2 DEF OverlapInv

(* Two people share at most as many direct conversations as there can be     *)
(* requests at once, for any number of either (createConversation looks     *)
(* before it inserts).                                                      *)
THEOREM NoMoreThanOverlappedHolds == ConversationsSpec => []NoMoreThanOverlapped
<1>1. OverlapInv => NoMoreThanOverlapped
  <2> SUFFICES ASSUME OverlapInv, NEW u \in People, NEW v \in People, u # v
               PROVE  Cardinality(Shared(u, v)) <= Cardinality(Requests)
    BY DEF NoMoreThanOverlapped
  <2>1. Overlapped(u, v) /\ Cardinality(Shared(u, v)) \in Nat /\ Cardinality(Looked(u, v)) \in Nat
        /\ Cardinality(Requests) \in Nat
    BY LookedFinite, FS_CardinalityType DEF OverlapInv, Overlapped
  <2> QED
    BY <2>1 DEF Overlapped
<1> QED
  BY <1>1, OverlapInit, OverlapStep, PTL DEF ConversationsSpec

-----------------------------------------------------------------------------
(* The page of Me.  The conversations that anything names have been created. *)
Exists(d) == between[d] # {}

RequestExists(r) ==
    /\ r.op \in ListOps \cup PaneOps => Exists(r.chat)
    /\ r.op = "create" /\ r.step = "answered" /\ r.ok => r.chat \in Chats /\ Exists(r.chat)
    /\ r.op = "list" /\ r.chat # None => Exists(r.chat)
    /\ \A d \in Chats : r.answer[d].listed => Exists(d)
    /\ r.by # Me => r.op \in {"create", "leave"}

NamedExist ==
    /\ \A d \in Chats, u \in People : rowOf[d][u].member => Exists(d)
    /\ \A d \in Chats, u \in People : <<d, u>> \in wanted => Exists(d)
    /\ \A d \in Chats : list[d].listed => Exists(d)
    /\ pane # None => Exists(pane)
    /\ \A q \in Requests : RequestExists(request[q])

(* Steps on one request: the others stay, and of this one little changes.   *)
Others(q) == \A p \in Requests : p # q => request'[p] = request[p]

Kept(s, r) == s.op = r.op /\ s.by = r.by /\ s.choice = r.choice /\ s.ok = r.ok /\ s.orphan = r.orphan

LEMMA SawFields ==
    ASSUME ConversationsTypeOK, NEW q \in Requests, NEW flag \in BOOLEAN, Saw(q, flag)
    PROVE  /\ Others(q) /\ Kept(request'[q], request[q])
           /\ request'[q].chat = request[q].chat /\ request'[q].answer = request[q].answer
           /\ request'[q].step = "looked" /\ request'[q].saw = flag
<1>1. request[q] \in Request /\ request \in [Requests -> Request]
  BY DEF ConversationsTypeOK
<1>2. request' = [request EXCEPT ![q] = [request[q] EXCEPT !.step = "looked", !.saw = flag]]
  BY <1>1, SawTyped
<1> QED
  BY <1>1, <1>2 DEF Others, Kept, Request, AnyRequest

LEMMA AnsweredFields ==
    ASSUME ConversationsTypeOK, NEW q \in Requests, NEW r \in Request, Answered(q, r)
    PROVE  /\ Others(q) /\ Kept(request'[q], r)
           /\ request'[q].chat = r.chat /\ request'[q].answer = r.answer
           /\ request'[q].step = "answered" /\ request'[q].saw = r.saw
BY DEF ConversationsTypeOK, Answered, Others, Kept, Request, AnyRequest

LEMMA DoneFields ==
    ASSUME ConversationsTypeOK, NEW q \in Requests, Done(q)
    PROVE  Others(q) /\ request'[q] = NoRequest
BY DEF ConversationsTypeOK, Done, Others

(* What no step undoes.                                                     *)
LEMMA NamesKept ==
    ASSUME ConversationsTypeOK, NamedExist, NEW q \in Requests, Others(q),
           \A d \in Chats : Exists(d) => Exists(d)',
           \A d \in Chats, u \in People : rowOf'[d][u].member => rowOf[d][u].member \/ Exists(d)',
           \A d \in Chats, u \in People : <<d, u>> \in wanted' => <<d, u>> \in wanted \/ Exists(d)',
           \A d \in Chats : list'[d].listed => list[d].listed \/ Exists(d)',
           pane' \in {None, pane} \/ (pane' \in Chats /\ Exists(pane)'),
           RequestExists(request[q])'
    PROVE  NamedExist'
<1>1. ASSUME NEW p \in Requests, p # q PROVE RequestExists(request[p])'
  <2>1. RequestExists(request[p]) /\ request'[p] = request[p] /\ request[p] \in Request
    BY <1>1 DEF NamedExist, Others, ConversationsTypeOK
  <2> QED
    BY <2>1 DEF RequestExists, Request, AnyRequest
<1>2. \A p \in Requests : RequestExists(request[p])'
  BY <1>1
<1>3. pane' # None => Exists(pane)'
  BY DEF NamedExist, ConversationsTypeOK, Exists
<1> QED
  BY <1>2, <1>3 DEF NamedExist

LEMMA NamedExistInit == ConversationsInit => NamedExist
BY ConversationAssumption
   DEF ConversationsInit, NamedExist, RequestExists, NoRequest, NoRow, NoEntry, ListOps, PaneOps

(* What the answer of a request for one conversation changes of the list.   *)
LEMMA PatchesShown ==
    ASSUME ConversationsTypeOK, NEW q \in Requests, Patched(q)
    PROVE  LET r == request[q]
               d == request[q].chat
           IN
           /\ UNCHANGED <<between, rowOf, pins, wanted, crossed, pane>> /\ Done(q)
           /\ r.by = Me /\ r.step = "answered" /\ r.op \in ListOps \cup PaneOps /\ d \in Chats
           /\ \A b \in Chats : b # d => list'[b] = list[b]
           /\ list'[d].listed => list[d].listed
           /\ \/ /\ r.op = "leave" \/ (r.op = "archive" /\ ~r.saw)
                 /\ ~list'[d].listed
                 /\ active' = IF active = d THEN None ELSE active
              \/ /\ active' = active
                 /\ \/ ~list'[d].listed
                    \/ r.op = "pin" /\ list'[d] = [list[d] EXCEPT !.pinned = ~r.saw]
                    \/ r.op = "theme" /\ list'[d] = [list[d] EXCEPT !.theme = r.choice]
                    \/ r.op = "mode" /\ list'[d] = [list[d] EXCEPT !.mode = r.choice]
                    \/ /\ list'[d] = list[d]
                       /\ \/ r.op \in {"mark", "unpin"} \/ (r.op = "archive" /\ r.saw)
                          \/ r.op \in {"theme", "mode"} /\ r.orphan
<1> DEFINE r == request[q]
           d == r.chat
<1>1. /\ UNCHANGED <<between, rowOf, pins, wanted, crossed>> /\ Done(q)
      /\ r.by = Me /\ r.step = "answered" /\ r.op \in ListOps \cup PaneOps
  BY DEF Patched, tables
<1>2. d \in Chats /\ r.choice \in Options /\ (~r.saw) \in BOOLEAN /\ r.saw \in BOOLEAN /\ list[d] \in ListEntry
  BY <1>1, RequestChanges DEF ConversationsTypeOK
<1>3. \A e \in ListEntry, b \in BOOLEAN, choice \in Options :
         /\ [e EXCEPT !.pinned = b].listed = e.listed
         /\ [e EXCEPT !.theme = choice].listed = e.listed
         /\ [e EXCEPT !.mode = choice].listed = e.listed
  BY DEF ListEntry
<1>4. ASSUME NEW e, list' = [list EXCEPT ![d] = e]
      PROVE  list'[d] = e /\ \A b \in Chats : b # d => list'[b] = list[b]
  BY <1>2, <1>4 DEF ConversationsTypeOK
<1>5. CASE r.op = "pin"
  <2>1. Patch(r)
    BY <1>5 DEF Patched
  <2>2. CASE list[d].listed
    <3>1. list' = [list EXCEPT ![d] = [list[d] EXCEPT !.pinned = ~r.saw]] /\ UNCHANGED <<active, pane>>
      BY <1>2, <2>1, <2>2 DEF Patch, Listed
    <3> QED
      BY <1>1, <1>2, <1>4, <1>5, <2>2, <3>1
  <2>3. CASE ~list[d].listed
    <3>1. list' = [list EXCEPT ![d] = [list[d] EXCEPT !.pinned = list[d].pinned]] /\ UNCHANGED <<active, pane>>
      BY <1>2, <2>1, <2>3 DEF Patch, Listed
    <3>2. ~[list[d] EXCEPT !.pinned = list[d].pinned].listed
      BY <1>2, <2>3 DEF ListEntry
    <3> QED
      BY <1>1, <1>2, <1>4, <1>5, <3>1, <3>2
  <2> QED
    BY <2>2, <2>3
<1>6. CASE r.op = "leave" \/ (r.op = "archive" /\ ~r.saw)
  <2>1. Dropped(d)
    BY <1>6 DEF Patched
  <2> QED
    <3>1. /\ list' = [list EXCEPT ![d] = NoEntry] /\ ~NoEntry.listed
          /\ active' = (IF active = d THEN None ELSE active) /\ UNCHANGED pane
      BY <2>1 DEF Dropped, NoEntry
    <3> QED
      BY <1>1, <1>2, <1>4, <1>6, <3>1
<1>7. CASE r.op \in {"theme", "mode"} /\ ~r.orphan /\ list[d].listed
  <2>1. /\ list' = [list EXCEPT ![d] = IF r.op = "theme" THEN [list[d] EXCEPT !.theme = r.choice]
                                       ELSE [list[d] EXCEPT !.mode = r.choice]]
        /\ UNCHANGED <<active, pane>>
    BY <1>2, <1>7 DEF Patched, Listed
  <2> QED
    BY <1>1, <1>2, <1>3, <1>4, <1>7, <2>1
<1>8. CASE \/ r.op \in {"mark", "unpin"} \/ (r.op = "archive" /\ r.saw)
           \/ r.op \in {"theme", "mode"} /\ (r.orphan \/ ~list[d].listed)
  <2>1. UNCHANGED shownVars
    BY <1>2, <1>8 DEF Patched, Listed
  <2> QED
    BY <1>1, <1>2, <1>8, <2>1 DEF shownVars
<1> QED
  BY <1>1, <1>2, <1>5, <1>6, <1>7, <1>8 DEF ListOps, PaneOps

LEMMA NamedExistStep ==
    ASSUME ConversationsTypeOK, NamedExist, [ConversationsNext]_convVars
    PROVE  NamedExist'
<1> USE DEF tables, shownVars
<1>a. ConversationsTypeOK'
  BY ConversationsTyped
<1>b. \A q \in Requests : request[q] \in Request /\ RequestExists(request[q])
  BY DEF ConversationsTypeOK, NamedExist
<1>c. ASSUME UNCHANGED between PROVE \A d \in Chats : Exists(d) => Exists(d)'
  BY <1>c DEF Exists
<1>d. RequestExists(NoRequest)'
  BY DEF RequestExists, NoRequest, NoEntry, ListOps, PaneOps
<1>1. CASE UNCHANGED convVars
  BY <1>1 DEF convVars, NamedExist, RequestExists, Exists
<1>2. ASSUME NEW q \in Requests, Asks(q) PROVE NamedExist'
  <2>1. PICK op \in RequestOps, u \in People, v \in People, d \in Chats \cup {None}, choice \in Options :
           /\ op \in ListOps \cup PaneOps => d \in Chats
           /\ op \in {"create", "list"} => d = None
           /\ u # Me => op \in {"create", "leave"}
           /\ Ask(q, Asked(op, u, d, v, choice))
    BY <1>2, AsksTyped
  <2>2. PICK r \in Request : /\ r = Asked(op, u, d, v, choice) /\ r.op = op /\ r.by = u /\ r.chat = d
                             /\ r.step = "asked"
    <3>1. op \in ListOps \cup PaneOps => d \in Chats
      BY <2>1
    <3> QED
      BY <3>1, AskedTyped, SMT
  <2>3. /\ request' = [request EXCEPT ![q] = r] /\ Offered(r)
        /\ wanted' = IF op = "leave" THEN wanted \cup {<<d, u>>} ELSE wanted
        /\ UNCHANGED <<between, rowOf, list, pane>>
    BY <2>1, <2>2 DEF Ask
  <2>4. Others(q) /\ request'[q] = r
    BY <2>3 DEF Others, ConversationsTypeOK
  <2>5. op \in ListOps \cup PaneOps => Exists(d)
    <3>1. CASE op \in ListOps
      <4>1. list[d].listed \/ rowOf[d][u].member
        BY <2>2, <2>3, <3>1 DEF Offered, Listed, ListOps
      <4> QED
        BY <2>1, <3>1, <4>1 DEF NamedExist
    <3>2. CASE op \in PaneOps
      <4>1. pane = d /\ d \in Chats
        BY <2>1, <2>2, <2>3, <3>2 DEF Offered, ListOps, PaneOps
      <4> QED
        BY <4>1, ConversationAssumption DEF NamedExist
    <3> QED
      BY <3>1, <3>2
  <2>6. r.answer = [b \in Chats |-> NoEntry]
    BY <2>2 DEF Asked, NoRequest
  <2>7. \A b \in Chats, w \in People : <<b, w>> \in wanted' => <<b, w>> \in wanted \/ Exists(b)'
    BY <2>3, <2>5 DEF ListOps, Exists
  <2>8. RequestExists(request[q])'
    BY <2>1, <2>2, <2>3, <2>4, <2>5, <2>6 DEF RequestExists, Exists, NoEntry
  <2> QED
    BY <1>c, <2>3, <2>4, <2>7, <2>8, NamesKept
<1>3. ASSUME NEW q \in Requests, LookForConversation(q) PROVE NamedExist'
  <2> DEFINE r == request[q]
  <2>1. CASE \E d \in Existing(r.by, r.with) : Answered(q, [r EXCEPT !.chat = d])
    <3>1. PICK d \in Chats : d \in Existing(r.by, r.with) /\ Answered(q, [r EXCEPT !.chat = d])
      BY <2>1 DEF Existing, Shared
    <3>2. Exists(d)
      BY <1>b, <3>1, RequestChanges DEF NamedExist, Existing, Shared
    <3>3. [r EXCEPT !.chat = d] \in Request
      BY <1>b, RequestChanges
    <3>4. /\ Others(q) /\ request'[q].chat = d /\ request'[q].op = r.op /\ request'[q].by = r.by
          /\ request'[q].answer = r.answer
      BY <1>b, <3>1, <3>3, AnsweredFields DEF Kept, Request, AnyRequest
    <3>5. UNCHANGED <<between, rowOf, list, pane, wanted>> /\ r.op = "create"
      BY <1>3 DEF LookForConversation
    <3>6. RequestExists(request[q])'
      BY <1>b, <3>2, <3>4, <3>5 DEF RequestExists, Exists, ListOps, PaneOps
    <3> QED
      BY <1>c, <3>4, <3>5, <3>6, NamesKept
  <2>2. CASE Saw(q, FALSE)
    <3>1. UNCHANGED <<between, rowOf, list, pane, wanted>> /\ r.op = "create"
      BY <1>3 DEF LookForConversation
    <3>2. RequestExists(request[q])'
      BY <1>b, <2>2, <3>1, SawFields DEF RequestExists, Exists, Kept, ListOps, PaneOps
    <3> QED
      BY <1>c, <2>2, <3>1, <3>2, SawFields, NamesKept
  <2> QED
    BY <1>3, <2>1, <2>2 DEF LookForConversation
<1>4. ASSUME NEW q \in Requests, InsertConversation(q) PROVE NamedExist'
  <2> DEFINE r == request[q]
             both == {r.by, r.with}
  <2>1. PICK d \in Chats :
           /\ between' = [between EXCEPT ![d] = both]
           /\ rowOf' = [rowOf EXCEPT ![d] = [u \in People |-> IF u \in both THEN NewRow ELSE NoRow]]
           /\ Answered(q, [r EXCEPT !.chat = d])
    BY <1>4 DEF InsertConversation
  <2>2. [r EXCEPT !.chat = d] \in Request
    BY <1>b, RequestChanges
  <2>3. /\ Others(q) /\ request'[q].chat = d /\ request'[q].op = r.op /\ request'[q].by = r.by
        /\ request'[q].answer = r.answer
    BY <1>b, <2>1, <2>2, AnsweredFields DEF Kept, Request, AnyRequest
  <2>4. UNCHANGED <<list, pane, wanted>> /\ r.op = "create"
    BY <1>4 DEF InsertConversation
  <2>5. Exists(d)' /\ \A b \in Chats : Exists(b) => Exists(b)'
    BY <2>1 DEF Exists, ConversationsTypeOK
  <2>6. \A b \in Chats, u \in People : rowOf'[b][u].member => rowOf[b][u].member \/ Exists(b)'
    BY <2>1, <2>5 DEF ConversationsTypeOK
  <2>7. RequestExists(request[q])'
    BY <1>b, <2>3, <2>4, <2>5 DEF RequestExists, ListOps, PaneOps
  <2> QED
    BY <2>3, <2>4, <2>5, <2>6, <2>7, NamesKept
<1>5. ASSUME NEW q \in Requests, ReadFlag(q) PROVE NamedExist'
  <2> DEFINE r == request[q]
  <2>1. UNCHANGED <<between, rowOf, list, pane, wanted>> /\ r.op \in {"pin", "archive"}
    BY <1>5 DEF ReadFlag
  <2>2. Flag(r) \in BOOLEAN /\ [r EXCEPT !.saw = TRUE] \in Request
    BY <1>b, <2>1, RequestChanges DEF Flag, MemberRow, ListOps, ConversationsTypeOK
  <2>3. /\ Others(q) /\ request'[q].chat = r.chat /\ request'[q].op = r.op /\ request'[q].by = r.by
        /\ request'[q].answer = r.answer
    <3>1. CASE Saw(q, Flag(r))
      BY <2>2, <3>1, SawFields DEF Kept
    <3>2. CASE Answered(q, [r EXCEPT !.saw = TRUE])
      BY <1>b, <2>2, <3>2, AnsweredFields DEF Kept, Request, AnyRequest
    <3> QED
      BY <1>5, <3>1, <3>2 DEF ReadFlag
  <2>4. RequestExists(request[q])'
    BY <1>b, <2>1, <2>3 DEF RequestExists, Exists, ListOps
  <2> QED
    BY <1>c, <2>1, <2>3, <2>4, NamesKept
<1>6. ASSUME NEW q \in Requests, WriteFlag(q) \/ SetChoice(q) \/ PinMessage(q) \/ DeleteMembership(q)
      PROVE  NamedExist'
  <2> DEFINE r == request[q]
  <2>1. /\ UNCHANGED <<between, list, pane, wanted>> /\ r.op \in ListOps \cup PaneOps
        /\ Answered(q, r)
    BY <1>6 DEF WriteFlag, SetChoice, PinMessage, DeleteMembership, ListOps, PaneOps
  <2>2. NoNewRow
    BY <1>6, RowsShrink
  <2>3. RequestExists(request[q])'
    BY <1>b, <2>1, AnsweredFields DEF RequestExists, Exists, Kept, ListOps, PaneOps
  <2> QED
    BY <1>b, <1>c, <2>1, <2>2, <2>3, AnsweredFields, NamesKept DEF NoNewRow
<1>7. ASSUME NEW q \in Requests, ListConversations(q) PROVE NamedExist'
  <2> DEFINE r == request[q]
             entries == [d \in Chats |-> Entry(d)]
  <2>1. /\ UNCHANGED <<between, rowOf, list, pane, wanted>> /\ r.op = "list"
        /\ Answered(q, [r EXCEPT !.answer = entries])
    BY <1>7 DEF ListConversations
  <2>2. entries \in [Chats -> ListEntry] /\ \A d \in Chats : entries[d].listed => Exists(d)
    BY EntryTyped, ConversationAssumption DEF NamedExist, Entry, NoEntry
  <2> HIDE DEF entries
  <2>3. [r EXCEPT !.answer = entries] \in Request
    BY <1>b, <2>2, RequestChanges
  <2>4. /\ Others(q) /\ request'[q].chat = r.chat /\ request'[q].op = r.op /\ request'[q].by = r.by
        /\ request'[q].answer = entries
    BY <1>b, <2>1, <2>3, AnsweredFields DEF Kept, Request, AnyRequest
  <2>5. RequestExists(request[q])'
    BY <1>b, <2>1, <2>2, <2>4 DEF RequestExists, Exists, ListOps, PaneOps
  <2> QED
    BY <1>c, <2>1, <2>4, <2>5, NamesKept
<1>8. ASSUME NEW q \in Requests, Fail(q) PROVE NamedExist'
  <2> DEFINE r == request[q]
  <2>1. /\ UNCHANGED <<between, rowOf, list, pane, wanted>>
        /\ request' = [request EXCEPT ![q] =
              [[[r EXCEPT !.step = "answered"] EXCEPT !.ok = FALSE] EXCEPT !.saw = TRUE]]
    BY <1>8 DEF Fail
  <2>2. /\ Others(q) /\ request'[q].chat = r.chat /\ request'[q].op = r.op /\ request'[q].by = r.by
        /\ request'[q].answer = r.answer /\ request'[q].ok = FALSE
    BY <1>b, <2>1 DEF Others, ConversationsTypeOK, Request, AnyRequest
  <2>3. RequestExists(request[q])'
    BY <1>b, <2>1, <2>2 DEF RequestExists, Exists
  <2> QED
    BY <1>c, <2>1, <2>2, <2>3, NamesKept
<1>9. ASSUME NEW q \in Requests, Created(q) PROVE NamedExist'
  <2> DEFINE r == request[q]
             new == [NoRequest EXCEPT !.op = "list", !.step = "asked", !.chat = r.chat]
  <2>1. /\ UNCHANGED <<between, rowOf, list, pane, wanted>> /\ r.op = "create" /\ r.step = "answered"
        /\ \/ request' = [request EXCEPT ![q] = new] /\ r.ok
           \/ request' = [request EXCEPT ![q] = NoRequest]
    BY <1>9 DEF Created
  <2>2. /\ new.op = "list" /\ new.chat = r.chat /\ new.by = Me
        /\ new.answer = [d \in Chats |-> NoEntry]
    BY DEF NoRequest
  <2> HIDE DEF new
  <2>3. Others(q)
    BY <2>1 DEF Others, ConversationsTypeOK
  <2>4. RequestExists(request[q])'
    <3>1. CASE request' = [request EXCEPT ![q] = NoRequest]
      BY <1>d, <3>1 DEF ConversationsTypeOK
    <3>2. CASE request' = [request EXCEPT ![q] = new] /\ r.ok
      <4>1. request'[q] = new /\ Exists(r.chat)
        BY <1>b, <2>1, <3>2 DEF RequestExists, ConversationsTypeOK
      <4> QED
        BY <2>1, <2>2, <4>1 DEF RequestExists, Exists, NoEntry, ListOps, PaneOps
    <3> QED
      BY <2>1, <3>1, <3>2
  <2> QED
    BY <1>c, <2>1, <2>3, <2>4, NamesKept
<1>10. ASSUME NEW q \in Requests, ListAnswered(q) PROVE NamedExist'
  <2> DEFINE r == request[q]
  <2>1. UNCHANGED <<between, rowOf, wanted>> /\ r.op = "list"
    BY <1>10 DEF ListAnswered
  <2>2. \A d \in Chats : Exists(d)' <=> Exists(d)
    BY <2>1 DEF Exists
  <2>3. \A d \in Chats : list'[d].listed => Exists(d)'
    BY <1>10, <1>b, <2>2 DEF ListAnswered, RequestExists, NamedExist
  <2>4. pane' # None => Exists(pane)'
    <3>1. CASE pane' = pane
      BY <2>1, <3>1 DEF NamedExist, Exists
    <3>2. CASE r.chat # None /\ Open(r.chat, r.answer)
      <4>1. r.chat \in Chats /\ r.answer \in [Chats -> ListEntry]
        BY <1>b, <3>2, RequestChanges
      <4> QED
        BY <1>b, <2>1, <3>1, <3>2, <4>1 DEF Open, RequestExists, Exists
    <3> QED
      BY <1>10, <3>1, <3>2 DEF ListAnswered
  <2>5. \A p \in Requests : RequestExists(request[p])'
    <3>1. CASE request' = Orphaned(q)
      <4>1. ASSUME NEW p \in Requests PROVE RequestExists(request[p])'
        <5>1. CASE request'[p] = NoRequest
          BY <1>d, <5>1
        <5>2. CASE request'[p] \in {request[p], [request[p] EXCEPT !.orphan = TRUE]}
          <6>1. /\ request'[p].op = request[p].op /\ request'[p].chat = request[p].chat
                /\ request'[p].step = request[p].step /\ request'[p].ok = request[p].ok
                /\ request'[p].by = request[p].by /\ request'[p].answer = request[p].answer
            BY <1>b, <5>2 DEF Request, AnyRequest
          <6> QED
            BY <1>b, <2>1, <6>1 DEF RequestExists, Exists
        <5> QED
          BY <3>1, <5>1, <5>2 DEF Orphaned
      <4> QED
        BY <4>1
    <3>2. CASE Done(q)
      <4>1. Others(q) /\ request'[q] = NoRequest
        BY <3>2, DoneFields
      <4> QED
        BY <1>b, <1>d, <2>1, <4>1 DEF Others, RequestExists, Exists
    <3> QED
      BY <1>10, <3>1, <3>2 DEF ListAnswered
  <2> QED
    BY <2>1, <2>2, <2>3, <2>4, <2>5 DEF NamedExist
<1>11. ASSUME NEW q \in Requests, Patched(q) \/ OtherAnswered(q) PROVE NamedExist'
  <2>1. /\ UNCHANGED <<between, rowOf, wanted>> /\ Done(q) /\ UNCHANGED pane
        /\ \A d \in Chats : list'[d].listed => list[d].listed
    BY <1>11, PatchesShown DEF OtherAnswered
  <2>2. Others(q) /\ request'[q] = NoRequest
    BY <2>1, DoneFields
  <2> QED
    BY <1>c, <1>d, <2>1, <2>2, NamesKept
<1>12. ASSUME \/ \E d \in Chats : OpenConversation(d)
              \/ Back \/ RenderChats
       PROVE  NamedExist'
  <2>1. UNCHANGED <<between, rowOf, wanted, list, request>>
    BY <1>12 DEF OpenConversation, Back, RenderChats
  <2>2. pane' # None => Exists(pane)'
    BY <1>12, <2>1 DEF OpenConversation, Back, RenderChats, Open, Listed, NamedExist, Exists
  <2> QED
    BY <2>1, <2>2 DEF NamedExist, RequestExists, Exists
<1> QED
  BY <1>1, <1>2, <1>3, <1>4, <1>5, <1>6, <1>7, <1>8, <1>9, <1>10, <1>11, <1>12
     DEF ConversationsNext, Server, ThePage

(* What PageAgrees asks of a conversation that is shown as e. *)
Excused(d) == ~rowOf[d][Me].member /\ <<d, Me>> \notin wanted /\ d \in pins
Shows(e, row) == row.member /\ ~row.archived /\ e.pinned = row.pinned /\ e.theme = row.theme
AgreesAs(d, e) == Shows(e, rowOf[d][Me]) \/ Excused(d)
Agrees(d) == list[d].listed => AgreesAs(d, list[d])

(* Not listed, now or in any later answer. *)
Gone(d) == Exists(d) /\ (~rowOf[d][Me].member \/ rowOf[d][Me].archived)

ListPending(r) ==
    r.op = "list" /\ r.step = "answered" =>
        /\ \A d \in Chats : r.answer[d].listed => Shows(r.answer[d], rowOf[d][Me]) /\ <<d, Me>> \notin wanted
        /\ r.chat # None /\ ~r.answer[r.chat].listed => Gone(r.chat)

FlagPending(r) ==
    /\ r.op = "archive" /\ r.step # "answered" => list[r.chat].listed
    /\ r.op = "archive" /\ r.step = "looked" => ~r.saw
    /\ r.op = "archive" /\ r.step = "answered" /\ r.saw => Agrees(r.chat)
    /\ r.op = "pin" /\ r.step = "answered" /\ list[r.chat].listed =>
          AgreesAs(r.chat, [list[r.chat] EXCEPT !.pinned = ~r.saw])

PanePending(r) ==
    /\ r.op \in {"mark", "mode"} => Agrees(r.chat)
    /\ r.op = "theme" /\ r.step = "answered" /\ list[r.chat].listed =>
          AgreesAs(r.chat, [list[r.chat] EXCEPT !.theme = r.choice])
    /\ r.op = "unpin" => r.chat \in pins
    /\ r.op = "unpin" /\ r.step = "answered" /\ list[r.chat].listed => Excused(r.chat)

Pending(r) ==
    /\ r.ok /\ ~r.orphan
    /\ \A d \in Chats : r.op \in ListOps \cup PaneOps => d = r.chat \/ Agrees(d)
    /\ r.op \notin ListOps \cup PaneOps => \A d \in Chats : Agrees(d)
    /\ r.op \in {"pin", "archive"} \cup PaneOps /\ r.step # "answered" => Agrees(r.chat)
    /\ ListPending(r) /\ FlagPending(r) /\ PanePending(r)

Leaving(d) == \E q \in Busy : request[q].op = "leave" /\ request[q].chat = d
AskedToLeave(d) == \E q \in Busy : request[q].op = "leave" /\ request[q].chat = d /\ request[q].step = "asked"

PaneFollows ==
    pane # None /\ active # None => pane = active \/ (~list[active].listed /\ Gone(active))

OneByOne ==
    /\ \A p, q \in Busy : p = q
    /\ \A q \in Busy : Pending(request[q])
    /\ Busy = {} => \A d \in Chats : Agrees(d)
    /\ \A d \in Chats : <<d, Me>> \in wanted =>
          /\ list[d].listed => Leaving(d)
          /\ rowOf[d][Me].member => AskedToLeave(d)
    /\ PaneFollows

PageInv == NamedExist /\ (~crossed => OneByOne)

LEMMA AgreementIs ==
    ASSUME ConversationsTypeOK, NEW d \in Chats, NEW e \in ListEntry, e.listed
    PROVE  AgreesAs(d, e) <=> [e EXCEPT !.mode = Plain] = Entry(d) \/ Excused(d)
<1>1. rowOf[d][Me] \in MemberRow
  BY ConversationAssumption DEF ConversationsTypeOK
<1>2. [e EXCEPT !.mode = Plain] =
          [listed |-> TRUE, pinned |-> e.pinned, theme |-> e.theme, mode |-> Plain]
  <2>1. e.listed = TRUE /\ DOMAIN e = {"listed", "pinned", "theme", "mode"}
    BY DEF ListEntry
  <2>2. e = [listed |-> TRUE, pinned |-> e.pinned, theme |-> e.theme, mode |-> e.mode]
    BY <2>1 DEF ListEntry
  <2>3. /\ DOMAIN [e EXCEPT !.mode = Plain] = {"listed", "pinned", "theme", "mode"}
        /\ [e EXCEPT !.mode = Plain].listed = TRUE
        /\ [e EXCEPT !.mode = Plain].pinned = e.pinned
        /\ [e EXCEPT !.mode = Plain].theme = e.theme
        /\ [e EXCEPT !.mode = Plain].mode = Plain
        /\ [e EXCEPT !.mode = Plain] \in ListEntry
    BY <2>1, ConversationAssumption DEF ListEntry
  <2> DEFINE p == [e EXCEPT !.mode = Plain]
  <2> HIDE DEF p
  <2>4. p = [listed |-> TRUE, pinned |-> e.pinned, theme |-> e.theme, mode |-> Plain]
    <3>1. /\ p.listed = TRUE /\ p.pinned = e.pinned /\ p.theme = e.theme /\ p.mode = Plain
          /\ p \in ListEntry
      BY <2>3 DEF p
    <3>2. p = [listed |-> p.listed, pinned |-> p.pinned, theme |-> p.theme, mode |-> p.mode]
      BY <3>1 DEF ListEntry
    <3> QED
      BY <3>1, <3>2, Zenon
  <2> QED
    BY <2>4 DEF p
<1>3. CASE rowOf[d][Me].member /\ ~rowOf[d][Me].archived
  <2>1. Entry(d) = [listed |-> TRUE, pinned |-> rowOf[d][Me].pinned,
                    theme |-> rowOf[d][Me].theme, mode |-> Plain]
    BY <1>3 DEF Entry
  <2>2. [e EXCEPT !.mode = Plain] = Entry(d) <=>
            e.pinned = rowOf[d][Me].pinned /\ e.theme = rowOf[d][Me].theme
    <3> DEFINE p == [e EXCEPT !.mode = Plain]
               m == Entry(d)
    <3>1. p.pinned = e.pinned /\ p.theme = e.theme
      BY <1>2
    <3>2. m.pinned = rowOf[d][Me].pinned /\ m.theme = rowOf[d][Me].theme
      BY <2>1
    <3>3. p = m => e.pinned = rowOf[d][Me].pinned /\ e.theme = rowOf[d][Me].theme
      BY <3>1, <3>2, Zenon
    <3>4. e.pinned = rowOf[d][Me].pinned /\ e.theme = rowOf[d][Me].theme => p = m
      BY <1>2, <2>1, Zenon
    <3> QED
      BY <3>3, <3>4
  <2> QED
    BY <1>3, <2>2 DEF AgreesAs, Shows
<1>4. CASE ~(rowOf[d][Me].member /\ ~rowOf[d][Me].archived)
  <2>1. ~Entry(d).listed
    BY <1>4 DEF Entry, NoEntry
  <2> QED
    BY <1>2, <1>4, <2>1 DEF AgreesAs, Shows
<1> QED
  BY <1>3, <1>4

(* Steps that leave the rows of Me alone.                                   *)
MyRowsKept ==
    /\ \A d \in Chats : Exists(d) => Exists(d)' /\ rowOf'[d][Me] = rowOf[d][Me]
    /\ \A d \in Chats : <<d, Me>> \in wanted' <=> <<d, Me>> \in wanted
    /\ pins \subseteq pins'

LEMMA KeptRows ==
    ASSUME MyRowsKept, NEW d \in Chats, Exists(d)
    PROVE  /\ \A e : AgreesAs(d, e) => AgreesAs(d, e)'
           /\ Excused(d) => Excused(d)'
           /\ Gone(d) => Gone(d)'
BY DEF MyRowsKept, AgreesAs, Excused, Gone

LEMMA AgreesKept ==
    ASSUME NamedExist, MyRowsKept, UNCHANGED list, NEW d \in Chats, Agrees(d)
    PROVE  Agrees(d)'
BY KeptRows DEF Agrees, NamedExist

LEMMA PendingKept ==
    ASSUME NamedExist, MyRowsKept, UNCHANGED list, NEW r \in Request, RequestExists(r), Pending(r)
    PROVE  Pending(r)'
<1>1. r.op \in ListOps \cup PaneOps => r.chat \in Chats /\ Exists(r.chat)
  BY RequestChanges DEF RequestExists
<1>2. r.chat \in Chats \cup {None}
  BY RequestChanges
<1>3. ListPending(r)'
  <2> SUFFICES ASSUME r.op = "list", r.step = "answered"
               PROVE  /\ \A d \in Chats : r.answer[d].listed =>
                            Shows(r.answer[d], rowOf'[d][Me]) /\ <<d, Me>> \notin wanted'
                      /\ r.chat # None /\ ~r.answer[r.chat].listed => Gone(r.chat)'
    BY DEF ListPending
  <2>1. \A d \in Chats : r.answer[d].listed => Exists(d)
    BY DEF RequestExists
  <2>2. r.chat # None => r.chat \in Chats /\ Exists(r.chat)
    BY <1>2 DEF RequestExists
  <2> QED
    BY <2>1, <2>2, KeptRows DEF Pending, ListPending, MyRowsKept
<1>4. FlagPending(r)'
  BY <1>1, KeptRows, AgreesKept DEF Pending, FlagPending, ListOps
<1>5. PanePending(r)'
  BY <1>1, KeptRows, AgreesKept DEF Pending, PanePending, PaneOps, MyRowsKept
<1> QED
  BY <1>1, <1>3, <1>4, <1>5, AgreesKept DEF Pending, ListOps, PaneOps

LEMMA PaneKept ==
    ASSUME ConversationsTypeOK, NamedExist, MyRowsKept, UNCHANGED shownVars, PaneFollows
    PROVE  PaneFollows'
<1>1. active # None => active \in Chats
  BY DEF ConversationsTypeOK
<1> QED
  BY <1>1, KeptRows DEF PaneFollows, shownVars, Gone

(* What the others do.                                                      *)
LEMMA ElsewhereKeeps ==
    ASSUME ConversationsTypeOK, ConversationsTypeOK', NamedExist, OneByOne, MyRowsKept,
           UNCHANGED list, Busy' = Busy, \A q \in Busy : request'[q] = request[q],
           \A d \in Chats : rowOf'[d][Me].member => rowOf[d][Me].member \/ <<d, Me>> \notin wanted,
           PaneFollows'
    PROVE  OneByOne'
<1>1. \A q \in Busy : request[q] \in Request /\ RequestExists(request[q])
  BY DEF Busy, NamedExist, ConversationsTypeOK
<1>3. ASSUME NEW q \in Busy' PROVE Pending(request[q])'
  <2>1. PICK r \in Request : r = request[q] /\ request'[q] = r
    BY <1>1, <1>3
  <2>2. Pending(r)'
    BY <1>1, <1>3, <2>1, PendingKept DEF OneByOne
  <2> QED
    BY <2>1, <2>2 DEF Pending, ListPending, FlagPending, PanePending
<1>4. Busy' = {} => \A d \in Chats : Agrees(d)'
  BY AgreesKept DEF OneByOne
<1>5. \A d \in Chats : <<d, Me>> \in wanted' =>
          /\ list'[d].listed => Leaving(d)'
          /\ rowOf'[d][Me].member => AskedToLeave(d)'
  BY DEF OneByOne, MyRowsKept, Leaving, AskedToLeave
<1> QED
  BY <1>3, <1>4, <1>5 DEF OneByOne

(* What a step on the one request of Me comes to.                           *)
LEMMA MineKeeps ==
    ASSUME OneByOne, NEW q \in Requests, Busy \subseteq {q}, Busy' \subseteq {q},
           q \in Busy' => Pending(request[q])',
           q \notin Busy' => \A d \in Chats : Agrees(d)',
           \A d \in Chats : <<d, Me>> \in wanted' =>
               /\ list'[d].listed => Leaving(d)'
               /\ rowOf'[d][Me].member => AskedToLeave(d)',
           PaneFollows'
    PROVE  OneByOne'
BY DEF OneByOne

LEMMA OthersStep ==
    ASSUME ConversationsTypeOK, ConversationsTypeOK', NamedExist, OneByOne, MyRowsKept, UNCHANGED shownVars,
           NEW q \in Requests, Others(q), q \notin Busy, q \notin Busy',
           \A d \in Chats : rowOf'[d][Me].member => rowOf[d][Me].member \/ <<d, Me>> \notin wanted
    PROVE  OneByOne'
<1>1. Busy' = Busy /\ \A p \in Busy : request'[p] = request[p]
  BY DEF Busy, Others
<1>2. PaneFollows'
  BY PaneKept DEF OneByOne
<1> QED
  BY <1>1, <1>2, ElsewhereKeeps DEF shownVars

(* A creation, from its first look to the list that is asked for after it.  *)
LEMMA CreatingStep ==
    ASSUME ConversationsTypeOK, NamedExist, OneByOne, MyRowsKept, UNCHANGED shownVars,
           NEW q \in Requests, Others(q), q \in Busy, request[q].op = "create",
           request'[q].op = "create" \/ (request'[q].op = "list" /\ request'[q].step = "asked"),
           request'[q].ok, ~request'[q].orphan,
           \A d \in Chats : rowOf'[d][Me].member => rowOf[d][Me].member \/ <<d, Me>> \notin wanted
    PROVE  OneByOne'
<1>1. Busy \subseteq {q} /\ Busy' \subseteq {q}
  BY DEF OneByOne, Others, Busy
<1>2. \A d \in Chats : Agrees(d)
  BY DEF OneByOne, Pending, ListOps, PaneOps
<1>3. \A d \in Chats : Agrees(d)'
  BY <1>2, AgreesKept DEF shownVars
<1>4. Pending(request[q])'
  BY <1>3 DEF Pending, ListPending, FlagPending, PanePending, ListOps, PaneOps
<1>5. \A d \in Chats : ~Leaving(d) /\ ~AskedToLeave(d)
  BY <1>1 DEF Leaving, AskedToLeave
<1>6. \A d \in Chats : <<d, Me>> \in wanted' => ~list'[d].listed /\ ~rowOf'[d][Me].member
  BY <1>5 DEF OneByOne, MyRowsKept, shownVars
<1>7. PaneFollows'
  BY PaneKept DEF OneByOne
<1> QED
  BY <1>1, <1>3, <1>4, <1>6, <1>7, MineKeeps

(* A request of Me writes the row of its conversation.                      *)
MyRowsElsewhere(c) ==
    /\ \A d \in Chats : d # c => rowOf'[d][Me] = rowOf[d][Me]
    /\ UNCHANGED <<between, wanted>> /\ pins \subseteq pins'

LEMMA AgreesElsewhere ==
    ASSUME NEW c \in Chats, MyRowsElsewhere(c), UNCHANGED list, NEW d \in Chats, d # c
    PROVE  (Agrees(d) => Agrees(d)') /\ (Gone(d) => Gone(d)')
BY DEF MyRowsElsewhere, Agrees, AgreesAs, Excused, Gone, Exists

LEMMA RowWritten ==
    ASSUME ConversationsTypeOK, NEW c \in Chats, NEW new, Update(c, Me, new)
    PROVE  /\ \A d \in Chats : d # c => rowOf'[d][Me] = rowOf[d][Me]
           /\ rowOf'[c][Me] = IF rowOf[c][Me].member THEN new ELSE rowOf[c][Me]
<1>1. Me \in People /\ rowOf \in [Chats -> [People -> MemberRow]]
  BY ConversationAssumption DEF ConversationsTypeOK
<1> QED
  BY <1>1 DEF Update

(* The server answers a request of Me about a conversation: what is still   *)
(* to be shown for that conversation.                                       *)
LEMMA AnsweringStep ==
    ASSUME ConversationsTypeOK, NamedExist, OneByOne, NEW q \in Requests, Others(q), q \in Busy,
           Kept(request'[q], request[q]), NEW c \in Chats, request[q].chat = c, request'[q].chat = c,
           request[q].op \in {"pin", "archive"} \cup PaneOps, request[q].step # "answered",
           MyRowsElsewhere(c), UNCHANGED shownVars,
           FlagPending(request[q])', PanePending(request[q])',
           request'[q].step # "answered" => Agrees(c)',
           rowOf'[c][Me].member => rowOf[c][Me].member,
           request[q].op = "archive" \/ (Gone(c) => Gone(c)')
    PROVE  OneByOne'
<1> DEFINE r == request[q]
<1>1. Busy \subseteq {q} /\ Busy' \subseteq {q}
  BY DEF OneByOne, Others, Busy
<1>3. \A d \in Chats : d # c => Agrees(d)'
  BY AgreesElsewhere DEF OneByOne, Pending, ListOps, PaneOps, shownVars
<1>4. Pending(request[q])'
  <2>1. request'[q].chat = c /\ (request'[q].step # "answered" => Agrees(request[q].chat)')
    BY DEF Agrees, AgreesAs, Excused
  <2> QED
    BY <1>3, <2>1 DEF OneByOne, Pending, ListPending, Kept, ListOps, PaneOps
<1>5. \A d \in Chats : ~Leaving(d) /\ ~AskedToLeave(d)
  BY <1>1 DEF Leaving, AskedToLeave, PaneOps
<1>6. \A d \in Chats : <<d, Me>> \in wanted' => ~list'[d].listed /\ ~rowOf'[d][Me].member
  BY <1>5 DEF OneByOne, MyRowsElsewhere, shownVars
<1>7. PaneFollows'
  <2> SUFFICES ASSUME pane # None, active # None, pane # active
               PROVE  ~list[active].listed /\ Gone(active)'
    BY DEF PaneFollows, shownVars
  <2>1. active \in Chats /\ ~list[active].listed /\ Gone(active)
    BY DEF OneByOne, PaneFollows, ConversationsTypeOK
  <2>2. CASE active = c
    <3>1. r.op # "archive"
      BY <2>1, <2>2 DEF OneByOne, Pending, FlagPending
    <3> QED
      BY <2>1, <2>2, <3>1 DEF Gone, Exists, shownVars
  <2>3. CASE active # c
    BY <2>1, <2>3, AgreesElsewhere DEF shownVars
  <2> QED
    BY <2>2, <2>3
<1>8. q \in Busy'
  <2>1. NoRequest.op = "none" /\ request'[q].op # "none" /\ request'[q].by = Me
    BY DEF NoRequest, Kept, PaneOps, Busy
  <2> QED
    BY <2>1 DEF Busy
<1> QED
  BY <1>1, <1>4, <1>6, <1>7, <1>8, MineKeeps

LEMMA OneByOneStep ==
    ASSUME ConversationsTypeOK, NamedExist, [ConversationsNext]_convVars,
           ~crossed => OneByOne, ~crossed'
    PROVE  OneByOne'
<1> USE DEF tables, shownVars
<1>a. ConversationsTypeOK'
  BY ConversationsTyped
<1>b. \A q \in Requests : request[q] \in Request /\ RequestExists(request[q])
  BY DEF ConversationsTypeOK, NamedExist
<1>c. ASSUME UNCHANGED <<between, rowOf, pins, wanted>> PROVE MyRowsKept
  BY <1>c DEF MyRowsKept, Exists
<1>d. ASSUME UNCHANGED crossed PROVE OneByOne
  BY <1>d
<1>e. ASSUME NEW q \in Requests, request[q].op # "none" PROVE q \in Busy <=> request[q].by = Me
  BY <1>e DEF Busy, NoRequest
<1>f. ASSUME NEW q \in Requests, request'[q].op # "none" PROVE q \in Busy' <=> request'[q].by = Me
  BY <1>f DEF Busy, NoRequest
<1>g. NoRequest.op = "none"
  BY DEF NoRequest
<1>1. CASE UNCHANGED convVars
  BY <1>1 DEF convVars, OneByOne, Pending, ListPending, FlagPending, PanePending, Agrees, AgreesAs,
     Excused, Gone, Exists, Leaving, AskedToLeave, PaneFollows, Busy
<1>3. ASSUME NEW q \in Requests, LookForConversation(q) PROVE OneByOne'
  <2> DEFINE r == request[q]
  <2>1. /\ UNCHANGED <<between, rowOf, pins, list, active, pane, wanted, crossed>>
        /\ r.op = "create"
    BY <1>3 DEF LookForConversation
  <2>2. Others(q) /\ Kept(request'[q], r)
    <3>1. CASE \E d \in Existing(r.by, r.with) : Answered(q, [r EXCEPT !.chat = d])
      <4>1. PICK d \in Chats : Answered(q, [r EXCEPT !.chat = d])
        BY <3>1 DEF Existing, Shared
      <4>2. [r EXCEPT !.chat = d] \in Request
        BY <1>b, RequestChanges
      <4> QED
        BY <1>b, <4>1, <4>2, AnsweredFields DEF Kept, Request, AnyRequest
    <3>2. CASE Saw(q, FALSE)
      BY <3>2, SawFields
    <3> QED
      BY <1>3, <3>1, <3>2 DEF LookForConversation
  <2>3. MyRowsKept /\ OneByOne
    BY <2>1, <1>c, <1>d
  <2>4. CASE q \in Busy
    BY <2>1, <2>2, <2>3, <2>4, CreatingStep DEF Kept, OneByOne, Pending
  <2>5. CASE q \notin Busy
    BY <1>a, <1>e, <1>f, <2>1, <2>2, <2>3, <2>5, OthersStep DEF Kept
  <2> QED
    BY <2>4, <2>5
<1>4. ASSUME NEW q \in Requests, InsertConversation(q) PROVE OneByOne'
  <2> DEFINE r == request[q]
             both == {r.by, r.with}
  <2>1. PICK d \in Chats :
           /\ {b \in Chats : between[b] = {}} \cap 1 .. d = {d}
           /\ between' = [between EXCEPT ![d] = both]
           /\ rowOf' = [rowOf EXCEPT ![d] = [u \in People |-> IF u \in both THEN NewRow ELSE NoRow]]
           /\ Answered(q, [r EXCEPT !.chat = d])
    BY <1>4 DEF InsertConversation
  <2>2. ~Exists(d)
    BY <2>1 DEF Exists
  <2>3. /\ UNCHANGED <<pins, list, active, pane, wanted, crossed>> /\ r.op = "create"
    BY <1>4 DEF InsertConversation
  <2>4. [r EXCEPT !.chat = d] \in Request
    BY <1>b, RequestChanges
  <2>5. Others(q) /\ Kept(request'[q], r)
    BY <1>b, <2>1, <2>4, AnsweredFields DEF Kept, Request, AnyRequest
  <2>6. \A b \in Chats : b # d => rowOf'[b] = rowOf[b] /\ between'[b] = between[b]
    BY <2>1 DEF ConversationsTypeOK
  <2>7. MyRowsKept /\ OneByOne
    BY <1>d, <2>2, <2>3, <2>6 DEF MyRowsKept, Exists
  <2>8. \A b \in Chats : rowOf'[b][Me].member => rowOf[b][Me].member \/ <<b, Me>> \notin wanted
    BY <2>2, <2>6, ConversationAssumption DEF NamedExist
  <2>9. CASE q \in Busy
    BY <2>3, <2>5, <2>7, <2>8, <2>9, CreatingStep DEF Kept, OneByOne, Pending
  <2>10. CASE q \notin Busy
    BY <1>a, <1>e, <1>f, <2>3, <2>5, <2>7, <2>8, <2>10, OthersStep DEF Kept
  <2> QED
    BY <2>9, <2>10
<1>5. ASSUME NEW q \in Requests, ReadFlag(q) PROVE OneByOne'
  <2> DEFINE r == request[q]
  <2>1. /\ UNCHANGED <<between, rowOf, pins, list, active, pane, wanted, crossed>>
        /\ r.op \in {"pin", "archive"} /\ r.step = "asked"
    BY <1>5 DEF ReadFlag
  <2>2. q \in Busy /\ OneByOne /\ r.by = Me
    BY <1>b, <1>d, <1>e, <2>1 DEF RequestExists
  <2>3. Flag(r) \in BOOLEAN /\ [r EXCEPT !.saw = TRUE] \in Request
    BY <1>b, <2>1, RequestChanges DEF Flag, MemberRow, ListOps, ConversationsTypeOK
  <2>c. PICK c \in Chats : c = r.chat
    BY <1>b, <2>1, RequestChanges DEF ListOps
  <2>4. Agrees(c) /\ (r.op = "archive" => list[c].listed)
    BY <2>1, <2>2, <2>c DEF OneByOne, Pending, FlagPending
  <2>5. MyRowsElsewhere(c)
    BY <2>1 DEF MyRowsElsewhere
  <2>6. Agrees(c)' /\ (Gone(c) => Gone(c)') /\ (rowOf'[c][Me].member => rowOf[c][Me].member)
    BY <2>1, <2>4 DEF Agrees, AgreesAs, Excused, Gone, Exists
  <2>7. CASE rowOf[c][Me].member
    <3>1. Saw(q, Flag(r))
      BY <1>5, <2>2, <2>7, <2>c DEF ReadFlag
    <3>2. /\ Others(q) /\ Kept(request'[q], r) /\ request'[q].chat = c
          /\ request'[q].step = "looked" /\ request'[q].saw = Flag(r)
      BY <2>3, <2>c, <3>1, SawFields
    <3>3. r.op = "archive" => ~Flag(r)
      BY <2>2, <2>4, <2>7, <2>c DEF Agrees, AgreesAs, Shows, Excused, Flag
    <3>4. FlagPending(request[q])' /\ PanePending(request[q])'
      BY <2>1, <2>4, <3>2, <3>3 DEF FlagPending, PanePending, Kept, PaneOps
    <3> QED
      BY <2>1, <2>2, <2>5, <2>6, <2>c, <3>2, <3>4, AnsweringStep
  <2>8. CASE ~rowOf[c][Me].member
    <3>1. Answered(q, [r EXCEPT !.saw = TRUE])
      BY <1>5, <2>2, <2>8, <2>c DEF ReadFlag
    <3>2. /\ Others(q) /\ Kept(request'[q], r) /\ request'[q].chat = c
          /\ request'[q].step = "answered" /\ request'[q].saw
      BY <1>b, <2>3, <2>c, <3>1, AnsweredFields DEF Kept, Request, AnyRequest
    <3>3. list'[c].listed => Excused(c)'
      BY <2>1, <2>4, <2>8 DEF Agrees, AgreesAs, Shows, Excused
    <3>4. FlagPending(request[q])' /\ PanePending(request[q])'
      BY <2>1, <2>6, <3>2, <3>3 DEF FlagPending, PanePending, Kept, Agrees, AgreesAs, Excused, PaneOps
    <3> QED
      BY <2>1, <2>2, <2>5, <2>6, <2>c, <3>2, <3>4, AnsweringStep
  <2> QED
    BY <2>7, <2>8
<1>6. ASSUME NEW q \in Requests, WriteFlag(q) PROVE OneByOne'
  <2> DEFINE r == request[q]
  <2>0. r.op \in {"pin", "archive"}
    BY <1>6 DEF WriteFlag
  <2>c. PICK c \in Chats : c = r.chat
    BY <1>b, <2>0, RequestChanges DEF ListOps
  <2> DEFINE old == rowOf[c][Me]
             new == IF r.op = "pin" THEN [old EXCEPT !.pinned = ~r.saw] ELSE [old EXCEPT !.archived = ~r.saw]
  <2>1. /\ UNCHANGED <<between, pins, list, active, pane, wanted, crossed>>
        /\ r.op \in {"pin", "archive"} /\ r.step = "looked" /\ Answered(q, r)
    BY <1>6 DEF WriteFlag
  <2>2. q \in Busy /\ OneByOne /\ r.by = Me
    BY <1>b, <1>d, <1>e, <2>1 DEF RequestExists
  <2>3. r \in Request /\ old \in MemberRow /\ (~r.saw) \in BOOLEAN
    BY <1>b, RequestChanges, ConversationAssumption DEF ConversationsTypeOK
  <2>4. Agrees(c) /\ (r.op = "archive" => ~r.saw)
    BY <2>1, <2>2, <2>c DEF OneByOne, Pending, FlagPending
  <2>5. Update(c, Me, new)
    BY <1>6, <2>2, <2>c DEF WriteFlag
  <2>6. /\ r.op = "pin" => /\ new.pinned = ~r.saw /\ new.archived = old.archived /\ new.theme = old.theme
        /\ new.member = old.member
    BY <2>1, <2>3 DEF MemberRow
  <2>7. /\ \A d \in Chats : d # c => rowOf'[d][Me] = rowOf[d][Me]
        /\ rowOf'[c][Me] = IF old.member THEN new ELSE old
    <3> HIDE DEF new
    <3> QED
      BY <2>3, <2>5, RowWritten
  <2>8. /\ Others(q) /\ Kept(request'[q], r) /\ request'[q].chat = c
        /\ request'[q].step = "answered" /\ request'[q].saw = r.saw
    BY <2>1, <2>3, <2>c, AnsweredFields
  <2>9. MyRowsElsewhere(c) /\ (rowOf'[c][Me].member => rowOf[c][Me].member)
    BY <2>1, <2>6, <2>7 DEF MyRowsElsewhere
  <2>10. r.op = "pin" /\ list[c].listed =>
            Excused(c)' \/ Shows([list[c] EXCEPT !.pinned = ~r.saw], rowOf'[c][Me])
    <3> SUFFICES ASSUME r.op = "pin", list[c].listed
                 PROVE  Excused(c)' \/ Shows([list[c] EXCEPT !.pinned = ~r.saw], rowOf'[c][Me])
      OBVIOUS
    <3>1. list[c] \in ListEntry
      BY <2>3 DEF ConversationsTypeOK
    <3>2. /\ [list[c] EXCEPT !.pinned = ~r.saw].pinned = ~r.saw
          /\ [list[c] EXCEPT !.pinned = ~r.saw].theme = list[c].theme
      BY <3>1 DEF ListEntry
    <3> HIDE DEF new
    <3>3. CASE Excused(c)
      BY <2>1, <2>7, <3>3 DEF Excused
    <3>4. CASE Shows(list[c], old)
      BY <2>1, <2>6, <2>7, <3>2, <3>4 DEF Shows
    <3> QED
      BY <2>4, <3>3, <3>4 DEF Agrees, AgreesAs
  <2>11. FlagPending(request[q])' /\ PanePending(request[q])'
    BY <2>1, <2>4, <2>8, <2>10 DEF FlagPending, PanePending, Kept, PaneOps, AgreesAs, Excused
  <2>12. r.op = "archive" \/ (Gone(c) => Gone(c)')
    <3> HIDE DEF new
    <3> QED
      BY <2>1, <2>6, <2>7 DEF Gone, Exists
  <2> QED
    BY <2>1, <2>2, <2>c, <2>8, <2>9, <2>11, <2>12, AnsweringStep
<1>7. ASSUME NEW q \in Requests, SetChoice(q) PROVE OneByOne'
  <2> DEFINE r == request[q]
  <2>1. /\ UNCHANGED <<between, pins, list, active, pane, wanted, crossed>>
        /\ r.op \in {"theme", "mode"} /\ r.step = "asked" /\ Answered(q, r)
    BY <1>7 DEF SetChoice
  <2>2. q \in Busy /\ OneByOne /\ r.by = Me
    BY <1>b, <1>d, <1>e, <2>1 DEF RequestExists
  <2>c. PICK c \in Chats : c = r.chat
    BY <1>b, <2>1, RequestChanges DEF PaneOps
  <2> DEFINE old == rowOf[c][Me]
             new == IF r.op = "theme" THEN [old EXCEPT !.theme = r.choice] ELSE [old EXCEPT !.mode = r.choice]
  <2>3. r \in Request /\ old \in MemberRow /\ r.choice \in Options
    <3>1. r \in Request /\ r.choice \in Options
      BY <1>b, RequestChanges
    <3>2. old \in MemberRow
      BY ConversationAssumption DEF ConversationsTypeOK
    <3> QED
      BY <3>1, <3>2
  <2>4. Agrees(c)
    BY <2>1, <2>2, <2>c DEF OneByOne, Pending, PaneOps
  <2>5. Update(c, Me, new)
    BY <1>7, <2>2, <2>c DEF SetChoice
  <2>6. /\ new.pinned = old.pinned /\ new.archived = old.archived /\ new.member = old.member
        /\ IF r.op = "theme" THEN new.theme = r.choice ELSE new.theme = old.theme
    BY <2>1, <2>3 DEF MemberRow
  <2>7. /\ \A d \in Chats : d # c => rowOf'[d][Me] = rowOf[d][Me]
        /\ rowOf'[c][Me] = IF old.member THEN new ELSE old
    <3> HIDE DEF new
    <3> QED
      BY <2>5, RowWritten
  <2> HIDE DEF new
  <2>8. /\ Others(q) /\ Kept(request'[q], r) /\ request'[q].chat = c /\ request'[q].step = "answered"
    BY <2>1, <2>3, <2>c, AnsweredFields
  <2>9. MyRowsElsewhere(c) /\ (rowOf'[c][Me].member => rowOf[c][Me].member) /\ (Gone(c) => Gone(c)')
    BY <2>1, <2>6, <2>7 DEF MyRowsElsewhere, Gone, Exists
  <2>10. list[c].listed => Excused(c) \/ Shows(list[c], old)
    BY <2>4 DEF Agrees, AgreesAs
  <2>11. Excused(c) => Excused(c)'
    BY <2>1, <2>7 DEF Excused
  <2>12. r.op = "mode" /\ list[c].listed => Excused(c)' \/ Shows(list[c], rowOf'[c][Me])
    BY <2>6, <2>7, <2>10, <2>11 DEF Shows
  <2>13. r.op = "theme" /\ list[c].listed =>
            Excused(c)' \/ Shows([list[c] EXCEPT !.theme = r.choice], rowOf'[c][Me])
    <3>1. list[c] \in ListEntry
      BY DEF ConversationsTypeOK
    <3>2. /\ [list[c] EXCEPT !.theme = r.choice].pinned = list[c].pinned
          /\ [list[c] EXCEPT !.theme = r.choice].theme = r.choice
      BY <3>1 DEF ListEntry
    <3> QED
      BY <2>6, <2>7, <2>10, <2>11, <3>2 DEF Shows
  <2>14. FlagPending(request[q])' /\ PanePending(request[q])'
    BY <2>1, <2>8, <2>12, <2>13 DEF FlagPending, PanePending, Kept, Agrees, AgreesAs, Excused
  <2> QED
    BY <2>1, <2>2, <2>c, <2>8, <2>9, <2>14, AnsweringStep DEF PaneOps
<1>8. ASSUME NEW q \in Requests, PinMessage(q) PROVE OneByOne'
  <2> DEFINE r == request[q]
  <2>1. /\ UNCHANGED <<between, rowOf, list, active, pane, wanted, crossed>> /\ pins \subseteq pins'
        /\ r.op = "mark" /\ r.step = "asked" /\ Answered(q, r)
    BY <1>8 DEF PinMessage
  <2>2. q \in Busy /\ OneByOne /\ r.by = Me
    BY <1>b, <1>d, <1>e, <2>1 DEF RequestExists
  <2>3. PICK c \in Chats : c = r.chat
    BY <1>b, <2>1, RequestChanges DEF PaneOps
  <2>4. /\ Others(q) /\ Kept(request'[q], r) /\ request'[q].chat = c /\ request'[q].step = "answered"
    BY <1>b, <2>1, <2>3, AnsweredFields
  <2>5. MyRowsElsewhere(c) /\ (Gone(c) => Gone(c)')
    BY <2>1 DEF MyRowsElsewhere, Gone, Exists
  <2>6. Agrees(c)
    BY <2>1, <2>2, <2>3 DEF OneByOne, Pending, PaneOps
  <2>7. FlagPending(request[q])' /\ PanePending(request[q])'
    BY <2>1, <2>4, <2>6 DEF FlagPending, PanePending, Kept, Agrees, AgreesAs, Excused
  <2> QED
    BY <2>1, <2>2, <2>3, <2>4, <2>5, <2>7, AnsweringStep DEF PaneOps
<1>9. ASSUME NEW q \in Requests, DeleteMembership(q) PROVE OneByOne'
  <2> DEFINE r == request[q]
  <2>1. /\ UNCHANGED <<between, pins, list, active, pane, wanted, crossed>>
        /\ r.op \in {"leave", "unpin"} /\ r.step = "asked" /\ Answered(q, r)
        /\ rowOf' = [rowOf EXCEPT ![r.chat][r.by] = NoRow]
    BY <1>9 DEF DeleteMembership
  <2>2. PICK c \in Chats : c = r.chat
    BY <1>b, <2>1, RequestChanges DEF ListOps, PaneOps
  <2>3. /\ Others(q) /\ Kept(request'[q], r) /\ request'[q].chat = c /\ request'[q].step = "answered"
    BY <1>b, <2>1, <2>2, AnsweredFields
  <2>4. OneByOne
    BY <1>d, <2>1
  <2>5. CASE r.by # Me
    <3>1. \A d \in Chats : rowOf'[d][Me] = rowOf[d][Me]
      BY <2>1, <2>5, ConversationAssumption DEF ConversationsTypeOK
    <3>2. MyRowsKept
      BY <2>1, <3>1 DEF MyRowsKept, Exists
    <3> QED
      BY <1>a, <1>e, <1>f, <2>1, <2>3, <2>4, <2>5, <3>1, <3>2, OthersStep DEF Kept
  <2>6. CASE r.by = Me
    <3>1. /\ \A d \in Chats : d # c => rowOf'[d][Me] = rowOf[d][Me]
          /\ ~rowOf'[c][Me].member
      BY <2>1, <2>2, <2>6, ConversationAssumption DEF ConversationsTypeOK, NoRow
    <3>2. MyRowsElsewhere(c) /\ (Gone(c) => Gone(c)')
      BY <2>1, <3>1 DEF MyRowsElsewhere, Gone, Exists
    <3>3. q \in Busy /\ Busy \subseteq {q} /\ q \in Busy' /\ Busy' \subseteq {q}
      BY <1>e, <1>f, <2>1, <2>3, <2>4, <2>6 DEF Kept, OneByOne, Others, Busy
    <3>4. CASE r.op = "unpin"
      <4>1. <<c, Me>> \in wanted => ~list[c].listed
        BY <2>4, <3>3, <3>4 DEF OneByOne, Leaving
      <4>2. list[c].listed => Excused(c)'
        BY <2>1, <2>2, <2>4, <3>1, <3>3, <3>4, <4>1 DEF OneByOne, Pending, PanePending, Excused
      <4>3. FlagPending(request[q])' /\ PanePending(request[q])'
        BY <2>1, <2>2, <2>3, <2>4, <3>3, <3>4, <4>2
           DEF FlagPending, PanePending, Kept, Excused, OneByOne, Pending
      <4> QED
        BY <2>1, <2>2, <2>3, <2>4, <3>1, <3>2, <3>3, <3>4, <4>3, AnsweringStep DEF PaneOps
    <3>5. CASE r.op = "leave"
      <4>1. \A d \in Chats : d # c => Agrees(d)'
        BY <2>1, <2>2, <2>4, <3>2, <3>3, <3>5, AgreesElsewhere DEF OneByOne, Pending, ListOps
      <4>2. Pending(request[q])'
        BY <2>1, <2>3, <2>4, <3>3, <3>5, <4>1
           DEF OneByOne, Pending, ListPending, FlagPending, PanePending, Kept, ListOps, PaneOps
      <4>3. \A d \in Chats : <<d, Me>> \in wanted' =>
               /\ list'[d].listed => Leaving(d)'
               /\ rowOf'[d][Me].member => AskedToLeave(d)'
        <5>1. ASSUME NEW d \in Chats, Leaving(d) PROVE d = c /\ Leaving(d)'
          BY <2>2, <2>3, <3>3, <3>5, <5>1 DEF Leaving, Kept
        <5>2. ASSUME NEW d \in Chats, AskedToLeave(d) PROVE d = c
          BY <2>2, <3>3, <5>2 DEF AskedToLeave
        <5> QED
          BY <2>1, <2>4, <3>1, <5>1, <5>2 DEF OneByOne
      <4>4. PaneFollows'
        <5> SUFFICES ASSUME pane # None, active # None, pane # active
                     PROVE  ~list[active].listed /\ Gone(active)'
          BY <2>1 DEF PaneFollows
        <5>1. active \in Chats /\ ~list[active].listed /\ Gone(active)
          BY <2>4 DEF OneByOne, PaneFollows, ConversationsTypeOK
        <5> QED
          BY <2>1, <3>1, <5>1 DEF Gone, Exists
      <4> QED
        BY <2>4, <3>3, <4>2, <4>3, <4>4, MineKeeps
    <3> QED
      BY <2>1, <3>4, <3>5
  <2> QED
    BY <2>5, <2>6
<1>10. ASSUME NEW q \in Requests, ListConversations(q) PROVE OneByOne'
  <2> DEFINE r == request[q]
             entries == [d \in Chats |-> Entry(d)]
  <2>1. /\ UNCHANGED <<between, rowOf, pins, list, active, pane, wanted, crossed>> /\ r.op = "list"
        /\ Answered(q, [r EXCEPT !.answer = entries])
    BY <1>10 DEF ListConversations
  <2>2. entries \in [Chats -> ListEntry]
    BY EntryTyped
  <2>3. \A d \in Chats : /\ entries[d].listed => Shows(entries[d], rowOf[d][Me])
                         /\ ~entries[d].listed => ~rowOf[d][Me].member \/ rowOf[d][Me].archived
    BY DEF Entry, NoEntry, Shows
  <2> HIDE DEF entries
  <2>4. [r EXCEPT !.answer = entries] \in Request
    BY <1>b, <2>2, RequestChanges
  <2>5. /\ Others(q) /\ Kept(request'[q], r) /\ request'[q].chat = r.chat /\ request'[q].answer = entries
    BY <1>b, <2>1, <2>4, AnsweredFields DEF Kept, Request, AnyRequest
  <2>6. q \in Busy /\ OneByOne
    BY <1>b, <1>d, <1>e, <2>1 DEF RequestExists
  <2>7. Busy \subseteq {q} /\ Busy' \subseteq {q} /\ q \in Busy'
    BY <1>f, <2>1, <2>5, <2>6 DEF Kept, OneByOne, Others, Busy
  <2>8. \A d \in Chats : ~Leaving(d) /\ ~AskedToLeave(d)
    BY <2>1, <2>7 DEF Leaving, AskedToLeave
  <2>9. \A d \in Chats : Agrees(d)'
    BY <2>1, <2>6 DEF OneByOne, Pending, Agrees, AgreesAs, Excused, ListOps, PaneOps
  <2>10. \A d \in Chats : entries[d].listed => <<d, Me>> \notin wanted
    BY <2>3, <2>6, <2>8 DEF OneByOne, Shows
  <2>11. ListPending(request[q])'
    <3>1. r.chat # None => r.chat \in Chats /\ Exists(r.chat)
      BY <1>b, <2>1, RequestChanges DEF RequestExists
    <3> QED
      BY <2>1, <2>3, <2>5, <2>10, <3>1 DEF ListPending, Gone, Exists
  <2>12. Pending(request[q])'
    BY <2>1, <2>5, <2>6, <2>9, <2>11
       DEF OneByOne, Pending, FlagPending, PanePending, Kept, ListOps, PaneOps
  <2>13. \A d \in Chats : <<d, Me>> \in wanted' => ~list'[d].listed /\ ~rowOf'[d][Me].member
    BY <2>1, <2>6, <2>8 DEF OneByOne
  <2>14. PaneFollows'
    BY <2>1, <2>6 DEF OneByOne, PaneFollows, Gone, Exists
  <2> QED
    BY <2>6, <2>7, <2>12, <2>13, <2>14, MineKeeps
<1>11. ASSUME NEW q \in Requests, Fail(q) PROVE OneByOne'
  <2> DEFINE r == request[q]
  <2>1. /\ UNCHANGED <<between, rowOf, pins, list, active, pane, wanted>> /\ r.by # Me /\ ~crossed
        /\ request' = [request EXCEPT ![q] =
              [[[r EXCEPT !.step = "answered"] EXCEPT !.ok = FALSE] EXCEPT !.saw = TRUE]]
    BY <1>11 DEF Fail
  <2>2. Others(q) /\ request'[q].by = r.by
    BY <1>b, <2>1 DEF Others, ConversationsTypeOK, Request, AnyRequest
  <2>3. q \notin Busy /\ q \notin Busy'
    BY <2>1, <2>2 DEF Busy
  <2> QED
    BY <1>a, <1>c, <2>1, <2>2, <2>3, OthersStep
<1>12. ASSUME NEW q \in Requests, Created(q) PROVE OneByOne'
  <2> DEFINE r == request[q]
             new == [NoRequest EXCEPT !.op = "list", !.step = "asked", !.chat = r.chat]
  <2>1. /\ UNCHANGED <<between, rowOf, pins, list, active, pane, wanted, crossed>>
        /\ r.op = "create" /\ r.step = "answered"
        /\ request' = [request EXCEPT ![q] = IF r.by = Me /\ r.ok THEN new ELSE NoRequest]
    BY <1>12 DEF Created
  <2>2. new.op = "list" /\ new.step = "asked" /\ new.ok /\ ~new.orphan
    BY DEF NoRequest
  <2> HIDE DEF new
  <2>3. Others(q) /\ request'[q] = IF r.by = Me /\ r.ok THEN new ELSE NoRequest
    BY <2>1 DEF Others, ConversationsTypeOK
  <2>4. OneByOne /\ MyRowsKept
    BY <1>c, <1>d, <2>1
  <2>5. CASE r.by = Me
    <3>1. q \in Busy
      BY <1>e, <2>1, <2>5
    <3>2. r.ok
      BY <2>4, <3>1 DEF OneByOne, Pending
    <3> QED
      BY <2>1, <2>2, <2>3, <2>4, <2>5, <3>1, <3>2, CreatingStep
  <2>6. CASE r.by # Me
    <3>1. q \notin Busy /\ q \notin Busy'
      BY <2>3, <2>6 DEF Busy
    <3> QED
      BY <1>a, <2>1, <2>3, <2>4, <3>1, OthersStep
  <2> QED
    BY <2>5, <2>6
<1>13. ASSUME NEW q \in Requests, ListAnswered(q) PROVE OneByOne'
  <2> DEFINE r == request[q]
  <2>1. /\ UNCHANGED <<between, rowOf, pins, wanted, crossed>> /\ r.op = "list" /\ r.step = "answered"
    BY <1>13 DEF ListAnswered
  <2>2. q \in Busy /\ OneByOne /\ Pending(r) /\ Busy \subseteq {q}
    BY <1>b, <1>d, <1>e, <2>1 DEF RequestExists, OneByOne
  <2>3. /\ list' = r.answer /\ request' = Orphaned(q)
        /\ IF r.chat # None THEN Open(r.chat, r.answer) ELSE UNCHANGED <<active, pane>>
    BY <1>13, <2>2 DEF ListAnswered, Pending
  <2>4. Busy' = {}
    <3>1. ASSUME NEW p \in Requests, p # q PROVE p \notin Busy'
      <4>1. request[p] = NoRequest \/ request[p].by # Me
        BY <2>2, <3>1 DEF Busy
      <4>2. request'[p] = NoRequest \/ request'[p].by # Me
        <5>1. [request[p] EXCEPT !.orphan = TRUE].by = request[p].by
          BY <1>b DEF Request, AnyRequest
        <5> QED
          BY <1>g, <2>3, <3>1, <4>1, <5>1 DEF Orphaned
      <4> QED
        BY <4>2 DEF Busy
    <3>2. request'[q] = NoRequest
      BY <2>3 DEF Orphaned
    <3> QED
      BY <3>1, <3>2 DEF Busy
  <2>5. \A d \in Chats : r.answer[d].listed => Shows(r.answer[d], rowOf[d][Me]) /\ <<d, Me>> \notin wanted
    BY <2>1, <2>2 DEF Pending, ListPending
  <2>6. \A d \in Chats : Agrees(d)'
    BY <2>1, <2>3, <2>5 DEF Agrees, AgreesAs
  <2>7. \A d \in Chats : <<d, Me>> \in wanted' => ~list'[d].listed /\ ~rowOf'[d][Me].member
    <3>1. \A d \in Chats : ~AskedToLeave(d)
      BY <2>1, <2>2 DEF AskedToLeave
    <3> QED
      BY <2>1, <2>2, <2>3, <2>5, <3>1 DEF OneByOne
  <2>8. PaneFollows'
    <3>1. CASE r.chat # None
      BY <2>1, <2>2, <2>3, <3>1 DEF Open, Pending, ListPending, PaneFollows, Gone, Exists
    <3>2. CASE r.chat = None
      <4> SUFFICES ASSUME pane # None, active # None, pane # active
                   PROVE  ~list'[active].listed /\ Gone(active)'
        BY <2>3, <3>2 DEF PaneFollows
      <4>1. active \in Chats /\ Gone(active)
        BY <2>2 DEF OneByOne, PaneFollows, ConversationsTypeOK
      <4>2. ~r.answer[active].listed
        BY <2>5, <4>1 DEF Gone, Shows
      <4> QED
        BY <2>1, <2>3, <3>2, <4>1, <4>2 DEF Gone, Exists
    <3> QED
      BY <3>1, <3>2
  <2> QED
    BY <2>2, <2>4, <2>6, <2>7, <2>8, MineKeeps
<1>14. ASSUME NEW q \in Requests, Patched(q) PROVE OneByOne'
  <2> DEFINE r == request[q]
  <2>1. /\ UNCHANGED <<between, rowOf, pins, wanted, crossed, pane>> /\ Done(q)
        /\ r.by = Me /\ r.step = "answered" /\ r.op \in ListOps \cup PaneOps /\ r.chat \in Chats
    BY <1>14, PatchesShown
  <2>c. PICK c \in Chats : c = r.chat
    BY <2>1
  <2>2. q \in Busy /\ OneByOne /\ Pending(r) /\ Busy \subseteq {q}
    BY <1>d, <1>e, <2>1 DEF OneByOne, ListOps, PaneOps
  <2>3. Others(q) /\ request'[q] = NoRequest
    BY <2>1, DoneFields
  <2>4. Busy' = {}
    BY <2>2, <2>3 DEF Busy, Others
  <2>5. /\ \A d \in Chats : d # c => list'[d] = list[d]
        /\ list'[c].listed => list[c].listed
        /\ \/ /\ r.op = "leave" \/ (r.op = "archive" /\ ~r.saw)
              /\ ~list'[c].listed
              /\ active' = IF active = c THEN None ELSE active
           \/ /\ active' = active
              /\ \/ ~list'[c].listed
                 \/ r.op = "pin" /\ list'[c] = [list[c] EXCEPT !.pinned = ~r.saw]
                 \/ r.op = "theme" /\ list'[c] = [list[c] EXCEPT !.theme = r.choice]
                 \/ r.op = "mode" /\ list'[c] = [list[c] EXCEPT !.mode = r.choice]
                 \/ /\ list'[c] = list[c]
                    /\ \/ r.op \in {"mark", "unpin"} \/ (r.op = "archive" /\ r.saw)
                       \/ r.op \in {"theme", "mode"} /\ r.orphan
    BY <1>14, <2>c, PatchesShown
  <2>6. \A d \in Chats : d # c => Agrees(d)'
    BY <2>1, <2>2, <2>5, <2>c DEF Pending, Agrees, AgreesAs, Excused
  <2>7. Agrees(c)'
    <3> SUFFICES ASSUME list'[c].listed PROVE AgreesAs(c, list'[c])
      BY <2>1 DEF Agrees, AgreesAs, Excused
    <3>1. list[c].listed /\ list[c] \in ListEntry
      BY <2>5 DEF ConversationsTypeOK
    <3>2. [list[c] EXCEPT !.mode = r.choice].pinned = list[c].pinned
          /\ [list[c] EXCEPT !.mode = r.choice].theme = list[c].theme
      BY <3>1 DEF ListEntry
    <3>3. CASE r.op = "pin" /\ list'[c] = [list[c] EXCEPT !.pinned = ~r.saw]
      BY <2>1, <2>2, <2>c, <3>1, <3>3 DEF Pending, FlagPending
    <3>4. CASE r.op = "theme" /\ list'[c] = [list[c] EXCEPT !.theme = r.choice]
      BY <2>1, <2>2, <2>c, <3>1, <3>4 DEF Pending, PanePending
    <3>5. CASE r.op = "mode" /\ list'[c] = [list[c] EXCEPT !.mode = r.choice]
      <4>1. AgreesAs(c, list[c])
        BY <2>2, <2>c, <3>1, <3>5 DEF Pending, PanePending, Agrees
      <4> QED
        BY <3>2, <3>5, <4>1 DEF AgreesAs, Shows
    <3>6. CASE list'[c] = list[c] /\ (r.op \in {"mark", "unpin"} \/ (r.op = "archive" /\ r.saw))
      BY <2>1, <2>2, <2>c, <3>1, <3>6 DEF Pending, PanePending, FlagPending, Agrees, AgreesAs
    <3>7. ~r.orphan
      BY <2>2 DEF Pending
    <3> QED
      BY <2>5, <3>3, <3>4, <3>5, <3>6, <3>7
  <2>8. \A d \in Chats : <<d, Me>> \in wanted' => ~list'[d].listed /\ ~rowOf'[d][Me].member
    <3> SUFFICES ASSUME NEW d \in Chats, <<d, Me>> \in wanted
                 PROVE  ~list'[d].listed /\ ~rowOf[d][Me].member
      BY <2>1
    <3>1. ~AskedToLeave(d)
      BY <2>1, <2>2 DEF AskedToLeave
    <3>2. list[d].listed => r.op = "leave" /\ d = c
      BY <2>2, <2>c DEF OneByOne, Leaving
    <3> QED
      BY <2>2, <2>5, <3>1, <3>2 DEF OneByOne
  <2>9. PaneFollows'
    <3> SUFFICES ASSUME pane # None, active' # None, pane # active'
                 PROVE  ~list'[active'].listed /\ Gone(active)'
      BY <2>1 DEF PaneFollows
    <3>1. active' = active /\ active \in Chats
      BY <2>5 DEF ConversationsTypeOK
    <3>2. ~list[active].listed /\ Gone(active)
      BY <2>2, <3>1 DEF OneByOne, PaneFollows
    <3> QED
      BY <2>1, <2>5, <3>1, <3>2 DEF Gone, Exists
  <2> QED
    BY <2>2, <2>4, <2>6, <2>7, <2>8, <2>9, MineKeeps
<1>15. ASSUME NEW q \in Requests, OtherAnswered(q) PROVE OneByOne'
  <2>1. /\ UNCHANGED <<between, rowOf, pins, list, active, pane, wanted, crossed>> /\ Done(q)
        /\ request[q].by # Me
    BY <1>15 DEF OtherAnswered
  <2>2. Others(q) /\ request'[q] = NoRequest
    BY <2>1, DoneFields
  <2>3. q \notin Busy /\ q \notin Busy'
    BY <2>1, <2>2 DEF Busy
  <2> QED
    BY <1>a, <1>c, <1>d, <2>1, <2>2, <2>3, OthersStep
<1>16. ASSUME \/ \E d \in Chats : OpenConversation(d)
              \/ Back \/ RenderChats
       PROVE  OneByOne'
  <2>1. UNCHANGED <<between, rowOf, pins, list, request, wanted, crossed>>
    BY <1>16 DEF OpenConversation, Back, RenderChats
  <2>2. OneByOne
    BY <1>d, <2>1
  <2>3. PaneFollows'
    BY <1>16 DEF OpenConversation, Back, RenderChats, Open, Listed, PaneFollows
  <2>4. MyRowsKept /\ Busy' = Busy
    BY <1>c, <2>1 DEF Busy
  <2> QED
    BY <1>a, <2>1, <2>2, <2>3, <2>4, ElsewhereKeeps
<1>17. ASSUME NEW q \in Requests, Asks(q) PROVE OneByOne'
  <2>1. PICK op \in RequestOps, u \in People, v \in People, d \in Chats \cup {None}, choice \in Options :
           /\ op \in ListOps \cup PaneOps => d \in Chats
           /\ op \in {"create", "list"} => d = None
           /\ u # Me => op \in {"create", "leave"}
           /\ Ask(q, Asked(op, u, d, v, choice))
    BY <1>17, AsksTyped
  <2>2. PICK r \in Request :
           /\ r = Asked(op, u, d, v, choice) /\ r.op = op /\ r.by = u /\ r.chat = d /\ r.choice = choice
           /\ r.step = "asked" /\ r.ok /\ ~r.orphan
    <3>1. op \in ListOps \cup PaneOps => d \in Chats
      BY <2>1
    <3> QED
      BY <3>1, AskedTyped, SMT
  <2>3. /\ request[q] = NoRequest /\ request' = [request EXCEPT ![q] = r] /\ Offered(r)
        /\ wanted' = IF op = "leave" THEN wanted \cup {<<d, u>>} ELSE wanted
        /\ crossed' = (crossed \/ (u = Me /\ Busy # {}))
        /\ UNCHANGED <<between, rowOf, pins, list, active, pane>>
    BY <2>1, <2>2 DEF Ask
  <2>4. Others(q) /\ request'[q] = r /\ q \notin Busy
    BY <2>3 DEF Others, Busy, ConversationsTypeOK
  <2>5. ~crossed /\ OneByOne /\ (u = Me => Busy = {})
    BY <2>3
  <2>6. CASE u # Me
    <3>1. MyRowsKept /\ q \notin Busy'
      BY <2>2, <2>3, <2>4, <2>6 DEF MyRowsKept, Exists, Busy
    <3> QED
      BY <1>a, <2>3, <2>4, <2>5, <3>1, OthersStep
  <2>7. CASE u = Me
    <3>1. Busy = {} /\ Busy' \subseteq {q}
      BY <2>4, <2>5, <2>7 DEF Busy, Others
    <3>2. q \in Busy'
      BY <2>2, <2>4, <2>7, <1>g DEF Busy, NoRequest
    <3>3. \A b \in Chats : Agrees(b)
      BY <2>5, <3>1 DEF OneByOne
    <3>4. \A b \in Chats : (op = "leave" => b # d) => Agrees(b)'
      BY <2>3, <2>7, <3>3 DEF Agrees, AgreesAs, Excused
    <3>5. /\ op = "archive" => list[d].listed
          /\ op = "unpin" => d \in pins
      BY <2>2, <2>3, <2>7 DEF Offered, Listed, ListOps, PaneOps
    <3>6. Pending(request[q])'
      <4>1. op \in {"pin", "archive"} \cup PaneOps => Agrees(d)'
        BY <2>1, <3>4 DEF ListOps, PaneOps
      <4>2. FlagPending(request[q])' /\ PanePending(request[q])' /\ ListPending(request[q])'
        BY <2>2, <2>3, <2>4, <3>5, <4>1
           DEF FlagPending, PanePending, ListPending, Agrees, AgreesAs, Excused, PaneOps
      <4>3. request'[q].op \in {"pin", "archive"} \cup PaneOps => Agrees(request[q].chat)'
        BY <2>2, <2>4, <4>1 DEF Agrees, AgreesAs, Excused
      <4> QED
        BY <2>1, <2>2, <2>4, <3>4, <4>2, <4>3 DEF Pending, ListOps, PaneOps
    <3>7. \A b \in Chats : <<b, Me>> \in wanted' =>
              /\ list'[b].listed => Leaving(b)'
              /\ rowOf'[b][Me].member => AskedToLeave(b)'
      <4>1. \A b \in Chats : ~Leaving(b) /\ ~AskedToLeave(b)
        BY <3>1 DEF Leaving, AskedToLeave
      <4>2. op = "leave" => Leaving(d)' /\ AskedToLeave(d)'
        BY <2>2, <2>4, <3>2 DEF Leaving, AskedToLeave
      <4> QED
        BY <2>3, <2>5, <2>7, <4>1, <4>2 DEF OneByOne
    <3>8. PaneFollows'
      BY <2>3, <2>5 DEF OneByOne, PaneFollows, Gone, Exists
    <3> QED
      BY <2>5, <3>1, <3>2, <3>6, <3>7, <3>8, MineKeeps
  <2> QED
    BY <2>6, <2>7
<1> QED
  BY <1>1, <1>3, <1>4, <1>5, <1>6, <1>7, <1>8, <1>9, <1>10, <1>11, <1>12, <1>13, <1>14, <1>15, <1>16, <1>17
     DEF ConversationsNext, Server, ThePage

LEMMA PageInvStep ==
    ASSUME ConversationsTypeOK, PageInv, [ConversationsNext]_convVars
    PROVE  ConversationsTypeOK' /\ PageInv'
BY ConversationsTyped, NamedExistStep, OneByOneStep DEF PageInv

LEMMA PageInvInit == ConversationsInit => ConversationsTypeOK /\ PageInv
<1> SUFFICES ASSUME ConversationsInit PROVE ConversationsTypeOK /\ PageInv
  OBVIOUS
<1>1. Busy = {} /\ \A d \in Chats : ~list[d].listed
  BY DEF ConversationsInit, Busy, NoEntry
<1>2. OneByOne
  BY <1>1 DEF OneByOne, Agrees, PaneFollows, ConversationsInit
<1> QED
  BY <1>2, ConversationsInitTyped, NamedExistInit DEF PageInv

(* Used one request at a time, the page of any user agrees with the tables   *)
(* of any number of people and conversations, though its list is patched    *)
(* and the others' requests come between (renderConversationsList,          *)
(* openConversation).                                                       *)
THEOREM PageAgreesHolds == ConversationsSpec => []PageAgrees
<1>1. ConversationsTypeOK /\ PageInv => PageAgrees
  <2> SUFFICES ASSUME ConversationsTypeOK, PageInv, ~crossed PROVE PageAgrees
    BY DEF PageAgrees
  <2>1. OneByOne
    BY DEF PageInv
  <2>2. ASSUME Busy = {}, NEW c \in Chats, Listed(c)
        PROVE  \/ [list[c] EXCEPT !.mode = Plain] = Entry(c)
               \/ ~rowOf[c][Me].member /\ <<c, Me>> \notin wanted /\ c \in pins
    <3>1. list[c].listed /\ list[c] \in ListEntry /\ AgreesAs(c, list[c])
      BY <2>1, <2>2 DEF OneByOne, Agrees, Listed, ConversationsTypeOK
    <3> QED
      BY <3>1, AgreementIs DEF Excused
  <2>3. Listed(active) /\ pane # None => pane = active
    BY <2>1, ConversationAssumption DEF OneByOne, PaneFollows, Listed
  <2> QED
    BY <2>2, <2>3 DEF PageAgrees
<1> QED
  BY <1>1, PageInvInit, PageInvStep, PTL DEF ConversationsSpec

-----------------------------------------------------------------------------
(* Meetings: a join that has taken its seat keeps it, one that is about to   *)
(* tell the room has written the status, and the room's host has a seat.    *)
JoinState == [next : {"none", "seat", "status", "room"}, by : Attendees,
              role : Roles \cup {"participant"}]
Presence == [in : BOOLEAN, role : Roles \cup {"none", "host", "participant"}, hand : BOOLEAN]
RoomState == [status : {"scheduled", "live", "ended"}, host : SUBSET Attendees, locked : BOOLEAN,
              people : [Attendees -> Presence]]

MeetingsTypeOK ==
    /\ meeting \in {"none", "scheduled", "live"}
    /\ seat \in [Attendees -> Roles \cup {"none", "host", "participant"}]
    /\ joining \in [Joins -> JoinState]
    /\ room \in RoomState

JoinsGoInOrder ==
    \A j \in Joins :
        /\ joining[j].next \in {"status", "room"} => seat[joining[j].by] # "none"
        /\ joining[j].next = "room" => meeting = "live"

RoomFollowsRows ==
    /\ \A u \in room.host : seat[u] # "none"
    /\ room.status = "live" => meeting = "live" /\ room.host # {}

MeetingsInv == MeetingsTypeOK /\ JoinsGoInOrder /\ RoomFollowsRows

LEMMA ProceedTyped ==
    ASSUME joining \in [Joins -> JoinState], NEW j \in Joins, joining[j].next # "none", Proceed(j)
    PROVE  /\ joining' \in [Joins -> JoinState]
           /\ \A i \in Joins : i # j => joining'[i] = joining[i]
           /\ joining[j].next = "room" => joining'[j].next = "none"
           /\ joining[j].next # "room" =>
                 /\ joining'[j].next = NextStep[joining[j].next]
                 /\ joining'[j].by = joining[j].by
<1> DEFINE old == joining[j]
           new == IF NextStep[old.next] = "none" THEN NoJoin
                  ELSE [old EXCEPT !.next = NextStep[old.next]]
<1>1. joining' = [joining EXCEPT ![j] = new]
  BY DEF Proceed
<1>2. old.next \in {"seat", "status", "room"} /\ old \in JoinState
  BY DEF JoinState
<1>3. NextStep[old.next] \in {"status", "room", "none"} /\ (NextStep[old.next] = "none" <=> old.next = "room")
  BY <1>2 DEF NextStep
<1>4. new \in JoinState
  BY <1>2, <1>3, MeetingAssumption DEF NoJoin, JoinState
<1>5. /\ old.next = "room" => new.next = "none"
      /\ old.next # "room" => new.next = NextStep[old.next] /\ new.by = old.by
  BY <1>2, <1>3 DEF NoJoin, JoinState
<1> HIDE DEF new
<1> QED
  BY <1>1, <1>4, <1>5

LEMMA EnteredTyped ==
    ASSUME MeetingsTypeOK, NEW u \in Attendees
    PROVE  Entered(u, "none") \in [Attendees -> Presence]
BY DEF Entered, Present, Presence, MeetingsTypeOK, RoomState

LEMMA MeetingsInvInit == MeetingsInit => MeetingsInv
<1> SUFFICES ASSUME MeetingsInit PROVE MeetingsInv
  OBVIOUS
<1>1. Absent \in Presence /\ NoJoin \in JoinState
  BY MeetingAssumption DEF Absent, Presence, NoJoin, JoinState
<1>2. MeetingsTypeOK
  BY <1>1, MeetingAssumption DEF MeetingsInit, MeetingsTypeOK, RoomState
<1> QED
  BY <1>2 DEF MeetingsInit, MeetingsInv, JoinsGoInOrder, RoomFollowsRows, NoJoin

LEMMA MeetingsInvStep ==
    ASSUME MeetingsInv, [MeetingsNext]_meetingVars
    PROVE  MeetingsInv'
<1> USE DEF MeetingsInv, MeetingsTypeOK
<1>1. CASE UNCHANGED meetingVars
  BY <1>1 DEF meetingVars, JoinsGoInOrder, RoomFollowsRows
<1>2. CASE CreateMeeting
  <2>1. /\ meeting = "none" /\ meeting' = "scheduled" /\ UNCHANGED <<joining, room>>
        /\ seat' = [seat EXCEPT ![Host] = "host"] \/ seat' = seat
    BY <1>2 DEF CreateMeeting
  <2>2. seat' \in [Attendees -> Roles \cup {"none", "host", "participant"}]
    BY <2>1, MeetingAssumption
  <2>3. \A u \in Attendees : seat[u] # "none" => seat'[u] # "none"
    BY <2>1, MeetingAssumption
  <2>4. JoinsGoInOrder'
    BY <2>1, <2>3 DEF JoinsGoInOrder, JoinState
  <2> QED
    BY <2>1, <2>2, <2>3, <2>4 DEF RoomFollowsRows, RoomState
<1>3. ASSUME NEW j \in Joins, NEW u \in Attendees, NEW r \in Roles, Join(j, u, r) PROVE MeetingsInv'
  <2> DEFINE new == [next |-> "seat", by |-> u, role |-> r]
  <2>1. new \in JoinState
    BY DEF JoinState
  <2>2. joining' = [joining EXCEPT ![j] = new] /\ new.next = "seat" /\ UNCHANGED <<meeting, seat, room>>
    BY <1>3 DEF Join
  <2> HIDE DEF new
  <2> QED
    BY <2>1, <2>2 DEF JoinsGoInOrder, RoomFollowsRows
<1>4. ASSUME NEW j \in Joins, TakeSeat(j) PROVE MeetingsInv'
  <2>1. /\ joining[j].next = "seat" /\ seat' = [seat EXCEPT ![joining[j].by] = joining[j].role]
        /\ Proceed(j) /\ UNCHANGED <<meeting, room>>
        /\ joining[j].by \in Attendees /\ joining[j].role \in Roles \cup {"participant"}
    BY <1>4 DEF TakeSeat, JoinState
  <2>2. /\ seat' \in [Attendees -> Roles \cup {"none", "host", "participant"}]
        /\ seat'[joining[j].by] # "none"
        /\ \A u \in Attendees : seat[u] # "none" => seat'[u] # "none"
    BY <2>1, MeetingAssumption
  <2>3. /\ joining' \in [Joins -> JoinState] /\ \A i \in Joins : i # j => joining'[i] = joining[i]
        /\ joining'[j].next = "status" /\ joining'[j].by = joining[j].by
    BY <2>1, ProceedTyped DEF NextStep
  <2>4. JoinsGoInOrder'
    BY <2>1, <2>2, <2>3 DEF JoinsGoInOrder, JoinState
  <2> QED
    BY <2>1, <2>2, <2>3, <2>4 DEF RoomFollowsRows, RoomState
<1>5. ASSUME NEW j \in Joins, GoLive(j) PROVE MeetingsInv'
  <2>1. /\ joining[j].next = "status" /\ meeting' = "live" /\ Proceed(j) /\ UNCHANGED <<seat, room>>
    BY <1>5 DEF GoLive
  <2>2. /\ joining' \in [Joins -> JoinState] /\ \A i \in Joins : i # j => joining'[i] = joining[i]
        /\ joining'[j].next = "room" /\ joining'[j].by = joining[j].by
    BY <2>1, ProceedTyped DEF NextStep
  <2> QED
    BY <2>1, <2>2 DEF JoinsGoInOrder, RoomFollowsRows
<1>6. ASSUME NEW j \in Joins, TellRoom(j) PROVE MeetingsInv'
  <2> DEFINE u == joining[j].by
             there == Present(joining[j].role)
             host == IF room.host = {} THEN {u} ELSE room.host
             people == [room.people EXCEPT ![u] = there]
  <2>1. /\ joining[j].next = "room" /\ Proceed(j) /\ UNCHANGED <<meeting, seat>>
        /\ u \in Attendees /\ seat[u] # "none" /\ meeting = "live"
    BY <1>6 DEF TellRoom, JoinsGoInOrder, JoinState
  <2>2. there \in Presence
    BY DEF Present, Presence, JoinState
  <2>3. people \in [Attendees -> Presence]
    BY <2>1, <2>2 DEF RoomState
  <2>4. host \in SUBSET Attendees /\ host # {} /\ \A v \in host : seat[v] # "none"
    BY <2>1 DEF RoomState, RoomFollowsRows
  <2>5. room' = [[[room EXCEPT !.status = "live"] EXCEPT !.host = host] EXCEPT !.people = people]
    BY <1>6 DEF TellRoom, RoomState
  <2> HIDE DEF people, host
  <2>6. room' \in RoomState /\ room'.host = host
    BY <2>3, <2>4, <2>5 DEF RoomState
  <2>7. /\ joining' \in [Joins -> JoinState] /\ \A i \in Joins : i # j => joining'[i] = joining[i]
        /\ joining'[j].next = "none"
    BY <2>1, ProceedTyped
  <2> QED
    BY <2>1, <2>4, <2>6, <2>7 DEF JoinsGoInOrder, RoomFollowsRows
<1>7. ASSUME NEW j \in Joins, JoinFails(j) PROVE MeetingsInv'
  <2>1. NoJoin \in JoinState /\ NoJoin.next = "none"
    BY MeetingAssumption DEF NoJoin, JoinState
  <2> QED
    BY <1>7, <2>1 DEF JoinFails, JoinsGoInOrder, RoomFollowsRows
<1>8. ASSUME NEW u \in Attendees, NEW v \in Attendees,
             NEW event \in HostOnly \cup {"leave", "raise", "lower", "other"}, RoomEvent(u, event, v)
      PROVE  MeetingsInv'
  <2> DEFINE here == Entered(u, "none")
  <2>1. here \in [Attendees -> Presence]
    BY EnteredTyped
  <2>2. \A w \in Attendees : Without(here, w) \in [Attendees -> Presence]
    BY <2>1 DEF Without, Absent, Presence
  <2>3. \A b \in BOOLEAN : [here EXCEPT ![u] = [here[u] EXCEPT !.hand = b]] \in [Attendees -> Presence]
    <3>1. \A b \in BOOLEAN, p \in Presence : [p EXCEPT !.hand = b] \in Presence
      BY DEF Presence
    <3> HIDE DEF here
    <3> QED
      BY <2>1, <3>1
  <2>4. UNCHANGED <<meeting, seat, joining>>
    BY <1>8 DEF RoomEvent
  <2>5. \E people \in [Attendees -> Presence], status \in {"ended", room.status}, locked \in BOOLEAN :
           room' = [[[room EXCEPT !.people = people] EXCEPT !.status = status] EXCEPT !.locked = locked]
    <3>1. /\ room.status \in {"ended", room.status} /\ room.locked \in BOOLEAN
          /\ \A people : [[[room EXCEPT !.people = people] EXCEPT !.status = room.status]
                             EXCEPT !.locked = room.locked] = [room EXCEPT !.people = people]
      BY DEF RoomState
    <3>2. CASE event = "leave"
      <4> DEFINE left == Without(here, u)
                 status == IF \A w \in Attendees : ~left[w].in THEN "ended" ELSE room.status
      <4>1. room' = [[room EXCEPT !.people = left] EXCEPT !.status = status]
        BY <1>8, <3>2 DEF RoomEvent, RoomState
      <4>2. left \in [Attendees -> Presence] /\ status \in {"ended", room.status}
        BY <2>2
      <4> HIDE DEF left, status, here
      <4>3. room' = [[[room EXCEPT !.people = left] EXCEPT !.status = status] EXCEPT !.locked = room.locked]
        BY <4>1 DEF RoomState
      <4> QED
        BY <3>1, <4>2, <4>3
    <3>3. CASE event \in {"raise", "lower"}
      <4>1. PICK b \in BOOLEAN : room' = [room EXCEPT !.people = [here EXCEPT ![u] = [here[u] EXCEPT !.hand = b]]]
        BY <1>8, <3>3 DEF RoomEvent
      <4> DEFINE raised == [here EXCEPT ![u] = [here[u] EXCEPT !.hand = b]]
      <4>2. raised \in [Attendees -> Presence] /\ room' = [room EXCEPT !.people = raised]
        BY <2>3, <4>1
      <4> HIDE DEF raised
      <4> QED
        BY <3>1, <4>2
    <3>4. CASE event \in {"lock", "unlock"}
      <4>1. room' = [[room EXCEPT !.people = here] EXCEPT !.locked = (event = "lock")]
        BY <1>8, <3>4 DEF RoomEvent
      <4> HIDE DEF here
      <4>2. (event = "lock") \in BOOLEAN
        OBVIOUS
      <4>3. room' = [[[room EXCEPT !.people = here] EXCEPT !.status = room.status] EXCEPT !.locked = (event = "lock")]
        BY <4>1 DEF RoomState
      <4> QED
        BY <2>1, <3>1, <4>2, <4>3
    <3>5. CASE event \in {"remove", "deny"}
      <4>1. room' = [room EXCEPT !.people = Without(here, v)]
        BY <1>8, <3>5 DEF RoomEvent
      <4> HIDE DEF here
      <4> QED
        BY <2>2, <3>1, <4>1
    <3>6. CASE event \notin {"leave", "raise", "lower", "lock", "unlock", "remove", "deny"}
      <4>1. room' = [room EXCEPT !.people = here]
        BY <1>8, <3>6 DEF RoomEvent
      <4> HIDE DEF here
      <4> QED
        BY <2>1, <3>1, <4>1
    <3> QED
      BY <3>2, <3>3, <3>4, <3>5, <3>6
  <2>6. room' \in RoomState /\ room'.host = room.host /\ (room'.status = "live" => room.status = "live")
    BY <2>5 DEF RoomState
  <2> QED
    BY <2>4, <2>6 DEF JoinsGoInOrder, RoomFollowsRows
<1> QED
  BY <1>1, <1>2, <1>3, <1>4, <1>5, <1>6, <1>7, <1>8 DEF MeetingsNext

(* While the room of a meeting is live its row says so and its host has a    *)
(* seat, for any number of people and joins (handleMeetings writes the row   *)
(* before it tells the room).                                               *)
THEOREM LiveIsListedHolds == MeetingsSpec => []LiveIsListed
<1>1. MeetingsInv => LiveIsListed
  BY DEF MeetingsInv, RoomFollowsRows, LiveIsListed
<1> QED
  BY <1>1, MeetingsInvInit, MeetingsInvStep, PTL DEF MeetingsSpec

-----------------------------------------------------------------------------
(* Groups: the roles.  Nobody is ever an owner, only the creator an admin,   *)
(* and what may be written spares him.                                      *)
Ranks == {"admin", "moderator", "member", "none"}

ModerationTypeOK ==
    /\ role \in [Users -> Ranks]
    /\ muted \subseteq Users
    /\ moderation \in [Moderations ->
           [step : {"none", "asked", "known", "allowed"}, by : Users, target : Users,
            op : Operations, actor : Ranks]]

Harmless(m) ==
    /\ m.step # "none" => m.by # m.target
    /\ m.step = "known" => MayAsk(m.actor, m.op) /\ (m.actor = "admin" => m.by = Creator)
    /\ m.step = "allowed" => m.target # Creator /\ m.op # "admin"

CreatorInv ==
    /\ ModerationTypeOK
    /\ role[Creator] \in {"admin", "none"} /\ Creator \notin muted
    /\ \A u \in Users : role[u] = "admin" => u = Creator
    /\ \A q \in Moderations : Harmless(moderation[q])

LEMMA CreatorInvInit == GroupsInit => CreatorInv
BY GroupAssumption DEF GroupsInit, CreatorInv, ModerationTypeOK, Ranks, Harmless, Quiet, Operations

(* The two lookups spare the creator, since only his own row says admin.    *)
LEMMA AllowedSparesCreator ==
    ASSUME CreatorInv, NEW m \in [step : {"known"}, by : Users, target : Users,
                                  op : Operations, actor : Ranks],
           Harmless(m), MayAct(m.actor, role[m.target], m.op)
    PROVE  m.target # Creator /\ m.op # "admin"
<1>1. m.actor = "admin" => m.by = Creator /\ m.target # Creator
  BY DEF Harmless
<1>2. role[m.target] \in Ranks /\ m.actor \in Ranks
  BY DEF CreatorInv, ModerationTypeOK
<1>3. CASE Promotes(m.op)
  <2>1. m.actor = "admin"
    BY <1>2, <1>3 DEF Harmless, MayAsk, Ranks
  <2> QED
    BY <1>1, <1>3, <2>1 DEF MayAct
<1>4. CASE ~Promotes(m.op)
  <2>1. m.target = Creator => role[m.target] \in {"admin", "none"}
    BY DEF CreatorInv
  <2>2. m.op # "admin"
    BY <1>4 DEF Promotes
  <2>3. m.actor \in {"admin", "moderator"} /\ CanActOn(m.actor, role[m.target]) /\ role[m.target] # "none"
    BY <1>2, <1>4 DEF Harmless, MayAsk, MayAct, Ranks
  <2>4. role[m.target] = "admin" => m.actor # "moderator"
    BY <2>3 DEF CanActOn, Rank
  <2> QED
    BY <1>1, <2>1, <2>2, <2>3, <2>4
<1> QED
  BY <1>3, <1>4

LEMMA CreatorInvStep ==
    ASSUME CreatorInv, [GroupsNext]_groupVars
    PROVE  /\ CreatorInv'
           /\ role'[Creator] # role[Creator] => role'[Creator] = "none" /\ UNCHANGED moderation
<1> USE DEF ModerationTypeOK
<1>0. Creator \in Users
  BY GroupAssumption
<1>1. CASE UNCHANGED server
  BY <1>1 DEF CreatorInv, server
<1>2. ASSUME NEW q \in Moderations, NEW by \in Users, NEW target \in Users, NEW op \in Operations,
             Moderate(q, by, target, op)
      PROVE  CreatorInv' /\ role' = role
  BY <1>2 DEF Moderate, CreatorInv, Harmless, Ranks
<1>3. ASSUME NEW q \in Moderations, GetActor(q) PROVE CreatorInv' /\ role' = role
  <2> DEFINE m == moderation[q]
  <2>1. role[m.by] \in Ranks /\ m.by # m.target /\ (role[m.by] = "admin" => m.by = Creator)
    BY <1>3 DEF GetActor, CreatorInv, Harmless
  <2>2. CASE MayAsk(role[m.by], m.op)
    <3>1. moderation' = [moderation EXCEPT ![q] = [m EXCEPT !.step = "known", !.actor = role[m.by]]]
      BY <1>3, <2>2 DEF GetActor
    <3>2. moderation'[q].step = "known" /\ moderation'[q].actor = role[m.by] /\ moderation'[q].by = m.by
          /\ moderation'[q].target = m.target /\ moderation'[q].op = m.op
      BY <3>1 DEF CreatorInv
    <3>3. Harmless(moderation'[q])
      BY <2>1, <2>2, <3>2 DEF Harmless
    <3>4. \A p \in Moderations : p # q => moderation'[p] = moderation[p]
      BY <3>1 DEF CreatorInv
    <3>5. moderation' \in [Moderations ->
              [step : {"none", "asked", "known", "allowed"}, by : Users, target : Users,
               op : Operations, actor : Ranks]]
      BY <2>1, <3>1 DEF CreatorInv
    <3> QED
      BY <1>3, <3>3, <3>4, <3>5 DEF GetActor, CreatorInv, Harmless
  <2>3. CASE ~MayAsk(role[m.by], m.op)
    <3>1. moderation' = [moderation EXCEPT ![q] = Quiet]
      BY <1>3, <2>3 DEF GetActor
    <3> QED
      BY <1>0, <1>3, <3>1 DEF GetActor, CreatorInv, Harmless, Quiet, Operations, Ranks
  <2> QED
    BY <2>2, <2>3
<1>4. ASSUME NEW q \in Moderations, GetTarget(q) PROVE CreatorInv' /\ role' = role
  <2> DEFINE m == moderation[q]
  <2>2. CASE MayAct(m.actor, role[m.target], m.op)
    <3>1. moderation' = [moderation EXCEPT ![q] = [m EXCEPT !.step = "allowed"]]
      BY <1>4, <2>2 DEF GetTarget
    <3>2. m.target # Creator /\ m.op # "admin" /\ m.by # m.target
      <4>1. m \in [step : {"known"}, by : Users, target : Users, op : Operations, actor : Ranks]
            /\ Harmless(m)
        BY <1>4 DEF GetTarget, CreatorInv
      <4> QED
        BY <2>2, <4>1, AllowedSparesCreator DEF Harmless
    <3> QED
      BY <1>4, <3>1, <3>2 DEF GetTarget, CreatorInv, Harmless
  <2>3. CASE ~MayAct(m.actor, role[m.target], m.op)
    <3>1. moderation' = [moderation EXCEPT ![q] = Quiet]
      BY <1>4, <2>3 DEF GetTarget
    <3> QED
      BY <1>0, <1>4, <3>1 DEF GetTarget, CreatorInv, Harmless, Quiet, Operations, Ranks
  <2> QED
    BY <2>2, <2>3
<1>5. ASSUME NEW q \in Moderations, Write(q) PROVE CreatorInv' /\ role'[Creator] = role[Creator]
  <2> DEFINE m == moderation[q]
  <2>1. m.target # Creator /\ m.op # "admin" /\ m.target \in Users /\ m.op \in Operations
    BY <1>5 DEF Write, CreatorInv, Harmless
  <2>2. PICK new \in Ranks : role' = [role EXCEPT ![m.target] = new]
                             /\ (new = "admin" => role[m.target] = "admin")
    BY <1>5, <2>1 DEF Write, CreatorInv, Promotes, Ranks
  <2>3. muted' \subseteq Users /\ Creator \notin muted'
    BY <1>5, <2>1 DEF Write, CreatorInv
  <2>4. role'[Creator] = role[Creator] /\ role' \in [Users -> Ranks]
    BY <1>0, <2>1, <2>2 DEF CreatorInv
  <2>5. \A u \in Users : role'[u] = "admin" => u = Creator
    BY <2>1, <2>2 DEF CreatorInv
  <2>6. moderation' = [moderation EXCEPT ![q] = Quiet]
    BY <1>5 DEF Write
  <2>7. /\ moderation' \in [Moderations ->
              [step : {"none", "asked", "known", "allowed"}, by : Users, target : Users,
               op : Operations, actor : Ranks]]
        /\ \A p \in Moderations : Harmless(moderation'[p])
    BY <1>0, <2>6 DEF CreatorInv, Harmless, Quiet, Operations, Ranks
  <2> QED
    BY <2>3, <2>4, <2>5, <2>7 DEF CreatorInv, Harmless
<1>6. ASSUME NEW u \in Users, Leave(u)
      PROVE  CreatorInv' /\ (role'[Creator] # role[Creator] => role'[Creator] = "none" /\ UNCHANGED moderation)
  BY <1>0, <1>6 DEF Leave, CreatorInv, Ranks
<1>7. ASSUME NEW u \in Pages, Page(u) PROVE UNCHANGED server
  BY <1>7 DEF Page, LoadConversations, SendText, GroupEncrypt, DistributeKeyToMember, NotDistributed,
     SenderKeyEncrypt, SaveOwnKey, SendGif, ReloadPage
<1>8. CASE Governance
  BY <1>2, <1>3, <1>4, <1>5, <1>6, <1>8 DEF Governance
<1> QED
  BY <1>1, <1>7, <1>8 DEF GroupsNext, groupVars, server

(* "owner: single creator; cannot be demoted": nobody demotes, kicks or      *)
(* mutes the creator of a group, for any number of members and of requests   *)
(* that interleave (handleGroups).                                          *)
THEOREM CreatorKeepsRoleHolds == GroupsSpec => CreatorKeepsRole
<1>1. CreatorInv /\ [GroupsNext]_groupVars => CreatorInv'
  BY CreatorInvStep
<1>2. CreatorInv /\ CreatorInv' /\ [GroupsNext]_groupVars =>
        [/\ role'[Creator] # role[Creator] => role'[Creator] = "none" /\ UNCHANGED moderation
         /\ Creator \notin muted']_groupVars
  BY CreatorInvStep DEF CreatorInv
<1> QED
  BY <1>1, <1>2, CreatorInvInit, PTL DEF GroupsSpec, CreatorKeepsRole

-----------------------------------------------------------------------------
(* Groups: the sender keys.  A chain's next key is the one in IndexedDB, or, *)
(* between saving it and posting, the one before.                           *)
GroupPost == [kind : {"text", "key", "gif"}, from : Pages, to : SUBSET Users, n : Nat]
Turn == [step : {"idle", "giving", "saving", "posting"}, key : Nat \cup {NoKey},
         to : SUBSET Users, left : SUBSET Users]

SenderKeysTypeOK ==
    /\ own \in [Pages -> Nat \cup {NoKey}] /\ ownSaved \in [Pages -> Nat \cup {NoKey}]
    /\ members \in [Pages -> SUBSET Users] /\ given \in [Pages -> SUBSET Users]
    /\ encrypting \in [Pages -> Turn]
    /\ posted \in Seq(GroupPost)
    /\ trouble \in BOOLEAN

NextKey(u) == IF encrypting[u].step = "posting" THEN encrypting[u].key ELSE ownSaved[u]

KeyOrder(u) ==
    /\ encrypting[u].step = "idle" /\ own[u] # NoKey => own[u] = ownSaved[u]
    /\ encrypting[u].step # "idle" => encrypting[u].key # NoKey
    /\ encrypting[u].step = "giving" => own[u] = encrypting[u].key /\ ownSaved[u] = own[u]
    /\ encrypting[u].step = "saving" => own[u] = encrypting[u].key + 1 /\ ownSaved[u] = encrypting[u].key
    /\ encrypting[u].step = "posting" => own[u] = encrypting[u].key + 1 /\ ownSaved[u] = own[u]
    /\ given[u] # {} => own[u] # NoKey

Leads(m, u, v, n) == m.kind = "key" /\ m.from = u /\ m.to = {v} /\ m.n <= n
HasKey(u, v, n) == \E j \in 1 .. Len(posted) : Leads(posted[j], u, v, n)

(* Whom the page believes to have its key.                                  *)
Reached(u) ==
    /\ \A v \in given[u] : HasKey(u, v, own[u])
    /\ encrypting[u].step = "giving" =>
          \A v \in encrypting[u].to : v \in encrypting[u].left \/ v \in given[u]
    /\ encrypting[u].step \in {"saving", "posting"} =>
          \A v \in encrypting[u].to : HasKey(u, v, encrypting[u].key)

GifsBehind ==
    \A i \in DOMAIN posted : posted[i].kind = "gif" => posted[i].n < NextKey(posted[i].from)

KeysInv ==
    /\ SenderKeysTypeOK
    /\ \A u \in Pages : KeyOrder(u) /\ (~trouble => Reached(u))
    /\ GifsBehind /\ MessagesHaveKeys

LEMMA KeysInvInit == GroupsInit => KeysInv
<1> SUFFICES ASSUME GroupsInit PROVE KeysInv
  OBVIOUS
<1>1. SenderKeysTypeOK
  <2>1. own \in [Pages -> Nat \cup {NoKey}] /\ ownSaved \in [Pages -> Nat \cup {NoKey}]
        /\ given \in [Pages -> SUBSET Users] /\ trouble \in BOOLEAN
    BY DEF GroupsInit
  <2>4. posted \in Seq(GroupPost)
    BY DEF GroupsInit
  <2>2. members \in [Pages -> SUBSET Users]
    BY DEF GroupsInit
  <2>3. encrypting \in [Pages -> Turn]
    BY DEF GroupsInit, Turn, AtRest
  <2> QED
    BY <2>1, <2>2, <2>3, <2>4 DEF SenderKeysTypeOK
<1>2. \A u \in Pages : KeyOrder(u) /\ Reached(u)
  BY DEF GroupsInit, AtRest, NoKey, KeyOrder, Reached
<1>3. DOMAIN posted = {}
  BY DEF GroupsInit
<1>4. GifsBehind /\ MessagesHaveKeys
  BY <1>3 DEF GifsBehind, MessagesHaveKeys, UniqueGroupKeys, KeysPrecedeMessages
<1> QED
  BY <1>1, <1>2, <1>4 DEF KeysInv

(* The messages stored after a request: those before, or one more.          *)
LEMMA PostedMore ==
    ASSUME SenderKeysTypeOK, NEW u \in Pages, NEW m \in GroupPost, PostMessage(u, m)
    PROVE  /\ posted' \in Seq(GroupPost) /\ trouble' \in BOOLEAN /\ (trouble => trouble')
           /\ posted' = Append(posted, m) \/ (posted' = posted /\ trouble')
<1>1. posted' = Append(posted, m) \/ posted' = posted
  BY DEF PostMessage
<1>2. posted' \in Seq(GroupPost)
  BY <1>1 DEF SenderKeysTypeOK
<1>3. trouble' = trouble \/ trouble' = TRUE
  BY DEF PostMessage
<1>4. posted' = posted => trouble'
  <2>1. Append(posted, m) # posted
    BY DEF SenderKeysTypeOK
  <2> QED
    BY <2>1 DEF PostMessage
<1> QED
  BY <1>1, <1>2, <1>3, <1>4 DEF SenderKeysTypeOK

(* Messages stay where they are.                                            *)
LEMMA StoredStay ==
    ASSUME SenderKeysTypeOK, NEW m \in GroupPost, posted' = posted \/ posted' = Append(posted, m)
    PROVE  /\ \A i \in DOMAIN posted : i \in Nat /\ i \in DOMAIN posted' /\ posted'[i] = posted[i]
                                     /\ posted[i] \in GroupPost
           /\ \A i \in DOMAIN posted' : i \in DOMAIN posted \/ posted'[i] = m
           /\ DOMAIN posted = 1 .. Len(posted) /\ DOMAIN posted' = 1 .. Len(posted')
<1>1. CASE posted' = posted
  BY <1>1 DEF SenderKeysTypeOK
<1>2. CASE posted' = Append(posted, m)
  BY <1>2 DEF SenderKeysTypeOK
<1> QED
  BY <1>1, <1>2

LEMMA HasKeyStays ==
    ASSUME SenderKeysTypeOK, NEW m \in GroupPost, posted' = posted \/ posted' = Append(posted, m),
           NEW u \in Pages, NEW v \in Users, NEW n \in Int, NEW k \in Int, n <= k, HasKey(u, v, n)
    PROVE  HasKey(u, v, k)'
<1>1. PICK j \in 1 .. Len(posted) : Leads(posted[j], u, v, n)
  BY DEF HasKey
<1>2. posted[j] \in GroupPost
  BY DEF SenderKeysTypeOK
<1>3. j \in 1 .. Len(posted') /\ posted'[j] = posted[j]
  BY StoredStay
<1>4. Leads(posted[j], u, v, k)
  BY <1>1, <1>2 DEF Leads, GroupPost
<1> QED
  BY <1>3, <1>4 DEF HasKey

(* Nothing but a GIF changes what is asked of GIFs.                         *)
LEMMA MessagesKept ==
    ASSUME KeysInv, SenderKeysTypeOK', NEW m \in GroupPost, m.kind # "gif",
           posted' = posted \/ posted' = Append(posted, m), trouble => trouble',
           \A w \in Pages : NextKey(w) <= NextKey(w)'
    PROVE  GifsBehind' /\ MessagesHaveKeys'
<1>1. \A i \in DOMAIN posted' : posted'[i].kind = "gif" => i \in DOMAIN posted /\ posted'[i] = posted[i]
  BY StoredStay DEF KeysInv
<1>2. \A i \in DOMAIN posted : posted'[i] = posted[i] /\ posted[i] \in GroupPost /\ i \in Nat
  BY StoredStay DEF KeysInv
<1>3. \A w \in Pages : NextKey(w) \in Int /\ NextKey(w)' \in Int
  BY DEF KeysInv, SenderKeysTypeOK, NextKey, Turn, NoKey
<1>4. GifsBehind'
  <2> SUFFICES ASSUME NEW i \in DOMAIN posted', posted'[i].kind = "gif"
               PROVE  posted'[i].n < NextKey(posted[i].from)'
    BY DEF GifsBehind
  <2>1. PICK e \in GroupPost : e = posted[i] /\ e = posted'[i] /\ i \in DOMAIN posted
    BY <1>1, <1>2
  <2>2. e.from \in Pages /\ e.n \in Nat
    BY DEF GroupPost
  <2>3. e.n < NextKey(e.from)
    BY <2>1 DEF KeysInv, GifsBehind
  <2>4. e.n < NextKey(e.from)'
    BY <1>3, <2>2, <2>3
  <2> QED
    BY <2>1, <2>4
<1>5. UniqueGroupKeys'
  BY <1>1 DEF KeysInv, MessagesHaveKeys, UniqueGroupKeys
<1>6. KeysPrecedeMessages'
  <2> SUFFICES ASSUME ~trouble, NEW i \in DOMAIN posted', posted'[i].kind = "gif", NEW v \in posted'[i].to
               PROVE  \E j \in 1 .. i - 1 :
                         /\ posted'[j].kind = "key" /\ posted'[j].from = posted'[i].from
                         /\ posted'[j].to = {v} /\ posted'[j].n <= posted'[i].n
    BY DEF KeysPrecedeMessages
  <2>1. i \in DOMAIN posted /\ posted'[i] = posted[i] /\ i \in Nat
    BY <1>1, <1>2
  <2>2. PICK j \in 1 .. i - 1 : /\ posted[j].kind = "key" /\ posted[j].from = posted[i].from
                                /\ posted[j].to = {v} /\ posted[j].n <= posted[i].n
    BY <2>1 DEF KeysInv, MessagesHaveKeys, KeysPrecedeMessages
  <2>3. posted'[j] = posted[j]
    <3>1. j \in DOMAIN posted
      BY <2>1 DEF KeysInv, SenderKeysTypeOK
    <3> QED
      BY <3>1, <1>2
  <2> QED
    BY <2>1, <2>2, <2>3
<1> QED
  BY <1>4, <1>5, <1>6 DEF MessagesHaveKeys

(* A page whose keys a step leaves alone.                                   *)
LEMMA ReachedKept ==
    ASSUME KeysInv, NEW m \in GroupPost, NEW w \in Pages,
           posted' = posted \/ posted' = Append(posted, m), trouble => trouble',
           own'[w] = own[w], ownSaved'[w] = ownSaved[w], given'[w] = given[w], encrypting'[w] = encrypting[w]
    PROVE  KeyOrder(w)' /\ (~trouble' => Reached(w)')
<1>1. KeyOrder(w)'
  BY DEF KeysInv, KeyOrder
<1>2. ASSUME ~trouble' PROVE Reached(w)'
  <2>1. Reached(w) /\ KeyOrder(w)
    BY <1>2 DEF KeysInv
  <2>2. /\ given[w] \subseteq Users /\ own[w] \in Int /\ encrypting[w].key \in Int
        /\ encrypting[w].to \subseteq Users
    BY DEF KeysInv, SenderKeysTypeOK, Turn, NoKey
  <2>3. \A v \in given[w] : HasKey(w, v, own[w])'
    <3> TAKE v \in given[w]
    <3>1. HasKey(w, v, own[w]) /\ v \in Users /\ SenderKeysTypeOK
      BY <2>1, <2>2 DEF Reached, KeysInv
    <3>2. PICK k \in Int : k = own[w] /\ k = own'[w]
      BY <2>2
    <3>3. HasKey(w, v, k)'
      BY <2>2, <3>1, <3>2, HasKeyStays
    <3> QED
      BY <3>2, <3>3 DEF HasKey
  <2>4. encrypting[w].step \in {"saving", "posting"} =>
          \A v \in encrypting[w].to : HasKey(w, v, encrypting[w].key)'
    <3> SUFFICES ASSUME encrypting[w].step \in {"saving", "posting"}, NEW v \in encrypting[w].to
                 PROVE  HasKey(w, v, encrypting[w].key)'
      OBVIOUS
    <3>1. HasKey(w, v, encrypting[w].key) /\ v \in Users /\ SenderKeysTypeOK
      BY <2>1, <2>2 DEF Reached, KeysInv
    <3>2. PICK k \in Int : k = encrypting[w].key /\ k = encrypting'[w].key
      BY <2>2
    <3>3. HasKey(w, v, k)'
      BY <2>2, <3>1, <3>2, HasKeyStays
    <3> QED
      BY <3>2, <3>3 DEF HasKey
  <2> QED
    BY <2>1, <2>3, <2>4 DEF Reached
<1> QED
  BY <1>1, <1>2

OnlyOf(u) ==
    \A w \in Pages : w # u => /\ own'[w] = own[w] /\ ownSaved'[w] = ownSaved[w]
                              /\ given'[w] = given[w] /\ encrypting'[w] = encrypting[w]

(* A step of one page that posts no GIF.                                    *)
LEMMA PageStep ==
    ASSUME KeysInv, SenderKeysTypeOK', NEW m \in GroupPost, m.kind # "gif", NEW u \in Pages, OnlyOf(u),
           posted' = posted \/ posted' = Append(posted, m), trouble => trouble',
           KeyOrder(u)', ~trouble' => Reached(u)', NextKey(u) <= NextKey(u)'
    PROVE  KeysInv'
<1>1. \A w \in Pages : KeyOrder(w)' /\ (~trouble' => Reached(w)')
  BY ReachedKept DEF OnlyOf
<1>2. \A w \in Pages : NextKey(w) <= NextKey(w)'
  <2>1. \A w \in Pages : NextKey(w) \in Int
    BY DEF KeysInv, SenderKeysTypeOK, NextKey, Turn, NoKey
  <2> QED
    BY <2>1 DEF OnlyOf, NextKey
<1>3. GifsBehind' /\ MessagesHaveKeys'
  BY <1>2, MessagesKept
<1> QED
  BY <1>1, <1>3 DEF KeysInv

(* Nothing is posted.                                                       *)
LEMMA SilentStep ==
    ASSUME KeysInv, SenderKeysTypeOK', NEW u \in Pages, OnlyOf(u), UNCHANGED posted, trouble => trouble',
           KeyOrder(u)', ~trouble' => Reached(u)', NextKey(u) <= NextKey(u)'
    PROVE  KeysInv'
<1>1. PICK m \in GroupPost : m.kind # "gif"
  <2> DEFINE m == [kind |-> "text", from |-> u, to |-> {}, n |-> 0]
  <2>1. m \in GroupPost /\ m.kind # "gif"
    BY DEF GroupPost
  <2> QED
    BY <2>1
<1> QED
  BY <1>1, PageStep

LEMMA SilentHasKey ==
    ASSUME SenderKeysTypeOK, UNCHANGED posted, NEW u \in Pages, NEW v \in Users, NEW n \in Int,
           NEW k \in Int, n <= k, HasKey(u, v, n)
    PROVE  HasKey(u, v, k)'
<1>1. [kind |-> "text", from |-> u, to |-> {}, n |-> 0] \in GroupPost
  BY DEF GroupPost
<1> QED
  BY <1>1, HasKeyStays

(* What the calls change of a page's turn.                                  *)
LEMMA TurnChanges ==
    ASSUME NEW t \in Turn
    PROVE  /\ t.step \in {"idle", "giving", "saving", "posting"} /\ t.key \in Nat \cup {NoKey}
           /\ t.to \subseteq Users /\ t.left \subseteq Users
           /\ \A s \in {"idle", "giving", "saving", "posting"} :
                 [t EXCEPT !.step = s] \in Turn /\ [t EXCEPT !.step = s].step = s
                 /\ [t EXCEPT !.step = s].key = t.key /\ [t EXCEPT !.step = s].to = t.to
BY DEF Turn

LEMMA KeysInvStep ==
    ASSUME KeysInv, [GroupsNext]_groupVars
    PROVE  KeysInv'
<1> USE DEF server, keys
<1>1. CASE UNCHANGED <<members, keys, encrypting, posted, trouble>>
  BY <1>1 DEF KeysInv, SenderKeysTypeOK, KeyOrder, Reached, HasKey, GifsBehind, NextKey, MessagesHaveKeys,
     UniqueGroupKeys, KeysPrecedeMessages
<1>2. ASSUME NEW u \in Pages, LoadConversations(u) PROVE KeysInv'
  <2>1. members' \in [Pages -> SUBSET Users]
    BY <1>2 DEF LoadConversations, KeysInv, SenderKeysTypeOK
  <2> QED
    BY <1>2, <2>1 DEF LoadConversations, KeysInv, SenderKeysTypeOK, KeyOrder, Reached, HasKey, GifsBehind,
       NextKey, MessagesHaveKeys, UniqueGroupKeys, KeysPrecedeMessages
<1>t. /\ SenderKeysTypeOK /\ KeysInv
      /\ \A u \in Pages : /\ own[u] \in Nat \cup {NoKey} /\ ownSaved[u] \in Nat \cup {NoKey}
                          /\ members[u] \subseteq Users /\ given[u] \subseteq Users
                          /\ encrypting[u] \in Turn /\ KeyOrder(u)
  BY DEF KeysInv, SenderKeysTypeOK
<1>3. ASSUME NEW u \in Pages, SendText(u) PROVE KeysInv'
  <2>1. PICK v \in members[u] : PostMessage(u, [kind |-> "text", from |-> u, to |-> {v}, n |-> 0])
    BY <1>3 DEF SendText
  <2>2. PICK m \in GroupPost : m = [kind |-> "text", from |-> u, to |-> {v}, n |-> 0]
    BY <1>t DEF GroupPost
  <2>3. /\ posted' \in Seq(GroupPost) /\ trouble' \in BOOLEAN /\ (trouble => trouble')
        /\ posted' = Append(posted, m) \/ posted' = posted
    BY <1>t, <2>1, <2>2, PostedMore
  <2>4. UNCHANGED <<members, keys, encrypting>>
    BY <1>3 DEF SendText
  <2>5. SenderKeysTypeOK'
    BY <1>t, <2>3, <2>4 DEF SenderKeysTypeOK
  <2>6. KeyOrder(u)' /\ (~trouble' => Reached(u)')
    BY <2>3, <2>4, ReachedKept
  <2>7. OnlyOf(u) /\ m.kind # "gif" /\ NextKey(u) <= NextKey(u)'
    BY <1>t, <2>2, <2>4 DEF OnlyOf, NextKey, Turn, NoKey
  <2> QED
    BY <2>3, <2>5, <2>6, <2>7, PageStep
<1>4. ASSUME NEW u \in Pages, GroupEncrypt(u) PROVE KeysInv'
  <2>0. PICK k : k = OwnKey(u)
    OBVIOUS
  <2> DEFINE t == [step |-> "giving", key |-> k, to |-> members[u] \ {u},
                   left |-> members[u] \ ({u} \cup given[u])]
  <2>1. k \in Nat /\ (own[u] # NoKey => k = own[u]) /\ encrypting[u].step = "idle"
        /\ (IF ownSaved[u] = NoKey THEN k ELSE ownSaved[u]) = k
    BY <1>4, <1>t, <2>0 DEF OwnKey, GroupEncrypt, AtRest, NoKey, KeyOrder
  <2>2. t \in Turn /\ t.step = "giving" /\ t.key = k /\ t.to = members[u] \ {u}
        /\ t.left = members[u] \ ({u} \cup given[u])
    BY <1>t, <2>1 DEF Turn
  <2>3. /\ own' = [own EXCEPT ![u] = k] /\ ownSaved' = [ownSaved EXCEPT ![u] = k]
        /\ encrypting' = [encrypting EXCEPT ![u] = t]
        /\ UNCHANGED <<members, given, posted, trouble>>
    BY <1>4, <2>0, <2>1 DEF GroupEncrypt
  <2> HIDE DEF t
  <2>4. SenderKeysTypeOK' /\ OnlyOf(u)
    BY <1>t, <2>1, <2>2, <2>3 DEF SenderKeysTypeOK, OnlyOf
  <2>5. own'[u] = k /\ ownSaved'[u] = k /\ encrypting'[u] = t
    BY <2>3 DEF KeysInv, SenderKeysTypeOK
  <2>6. KeyOrder(u)'
    BY <2>1, <2>2, <2>5 DEF KeyOrder, NoKey
  <2>7. ASSUME ~trouble' PROVE Reached(u)'
    <3>1. \A v \in given[u] : HasKey(u, v, k)'
      <4> TAKE v \in given[u]
      <4>1. HasKey(u, v, k) /\ v \in Users
        BY <1>t, <2>1, <2>3, <2>7 DEF KeysInv, Reached, KeyOrder
      <4> QED
        BY <1>t, <2>1, <2>3, <4>1, SilentHasKey
    <3> QED
      BY <2>2, <2>3, <2>5, <3>1 DEF Reached, HasKey
  <2>8. NextKey(u) <= NextKey(u)'
    BY <1>t, <2>1, <2>2, <2>5 DEF NextKey, NoKey
  <2> QED
    BY <2>3, <2>4, <2>6, <2>7, <2>8, SilentStep
<1>5. ASSUME NEW u \in Pages, NEW v \in Users, DistributeKeyToMember(u, v) PROVE KeysInv'
  <2> DEFINE t == [encrypting[u] EXCEPT !.left = @ \ {v}]
  <2>1. encrypting[u].step = "giving" /\ encrypting[u].key \in Nat /\ own[u] = encrypting[u].key
    BY <1>5, <1>t DEF DistributeKeyToMember, KeyOrder, Turn, NoKey
  <2>2. PICK m \in GroupPost : m = [kind |-> "key", from |-> u, to |-> {v}, n |-> encrypting[u].key]
    BY <2>1 DEF GroupPost
  <2>3. /\ posted' \in Seq(GroupPost) /\ trouble' \in BOOLEAN /\ (trouble => trouble')
        /\ posted' = Append(posted, m) \/ (posted' = posted /\ trouble')
    BY <1>t, <1>5, <2>2, PostedMore DEF DistributeKeyToMember
  <2>4. t \in Turn /\ t.step = "giving" /\ t.key = encrypting[u].key /\ t.to = encrypting[u].to
        /\ t.left = encrypting[u].left \ {v}
    BY <1>t, <2>1 DEF Turn
  <2>5. /\ encrypting' = [encrypting EXCEPT ![u] = t] /\ given' = [given EXCEPT ![u] = @ \cup {v}]
        /\ UNCHANGED <<members, own, ownSaved>>
    BY <1>5 DEF DistributeKeyToMember, Given
  <2> HIDE DEF t
  <2>6. SenderKeysTypeOK' /\ OnlyOf(u)
    BY <1>t, <2>3, <2>4, <2>5 DEF SenderKeysTypeOK, OnlyOf
  <2>7. encrypting'[u] = t /\ given'[u] = given[u] \cup {v}
    BY <2>5 DEF KeysInv, SenderKeysTypeOK
  <2>8. KeyOrder(u)' /\ m.kind # "gif" /\ NextKey(u) <= NextKey(u)'
    BY <1>t, <2>1, <2>2, <2>4, <2>5, <2>7 DEF KeyOrder, NextKey, NoKey
  <2>9. ASSUME ~trouble' PROVE Reached(u)'
    <3>1. PICK k \in Nat : k = own[u] /\ own'[u] = k
      BY <2>1, <2>5
    <3>2. Reached(u) /\ posted' = Append(posted, m)
      BY <2>3, <2>9 DEF KeysInv
    <3>3. HasKey(u, v, k)'
      <4>1. posted'[Len(posted')] = m /\ Len(posted') \in 1 .. Len(posted')
        BY <1>t, <3>2 DEF SenderKeysTypeOK
      <4>2. Leads(m, u, v, k)
        BY <2>1, <2>2, <3>1 DEF Leads
      <4> QED
        BY <4>1, <4>2 DEF HasKey
    <3>4. \A w \in given[u] : HasKey(u, w, k)'
      <4> TAKE w \in given[u]
      <4>1. HasKey(u, w, k) /\ w \in Users
        BY <1>t, <3>1, <3>2 DEF Reached
      <4> QED
        BY <1>t, <2>3, <4>1, HasKeyStays
    <3>5. \A w \in given'[u] : HasKey(u, w, own[u])'
      BY <2>7, <3>1, <3>3, <3>4 DEF HasKey
    <3>6. \A w \in encrypting'[u].to : w \in encrypting'[u].left \/ w \in given'[u]
      BY <2>1, <2>4, <2>7, <3>2 DEF Reached
    <3> QED
      BY <2>4, <2>7, <3>5, <3>6 DEF Reached
  <2> QED
    BY <2>3, <2>6, <2>8, <2>9, PageStep
<1>6. ASSUME NEW u \in Pages, NEW v \in Users, NotDistributed(u, v) PROVE KeysInv'
  <2> DEFINE t == [encrypting[u] EXCEPT !.left = @ \ {v}]
  <2>1. encrypting[u].step = "giving"
    BY <1>6 DEF NotDistributed
  <2>2. t \in Turn /\ t.step = "giving" /\ t.key = encrypting[u].key
    BY <1>t, <2>1 DEF Turn
  <2>3. /\ encrypting' = [encrypting EXCEPT ![u] = t]
        /\ trouble' = TRUE /\ UNCHANGED <<members, own, ownSaved, given, posted>>
    BY <1>6 DEF NotDistributed, Given
  <2> HIDE DEF t
  <2>4. SenderKeysTypeOK' /\ OnlyOf(u)
    BY <1>t, <2>2, <2>3 DEF SenderKeysTypeOK, OnlyOf
  <2>5. encrypting'[u] = t
    BY <2>3 DEF KeysInv, SenderKeysTypeOK
  <2>6. KeyOrder(u)' /\ NextKey(u) <= NextKey(u)'
    BY <1>t, <2>1, <2>2, <2>3, <2>5 DEF KeyOrder, NextKey, NoKey
  <2> QED
    BY <2>3, <2>4, <2>6, SilentStep
<1>7. ASSUME NEW u \in Pages, SenderKeyEncrypt(u) PROVE KeysInv'
  <2> DEFINE t == [encrypting[u] EXCEPT !.step = "saving"]
  <2>1. encrypting[u].step = "giving" /\ encrypting[u].left = {} /\ encrypting[u].key \in Nat
        /\ own[u] = encrypting[u].key /\ ownSaved[u] = own[u]
    BY <1>7, <1>t DEF SenderKeyEncrypt, KeyOrder, Turn, NoKey
  <2>2. t \in Turn /\ t.step = "saving" /\ t.key = encrypting[u].key /\ t.to = encrypting[u].to
    BY <1>t, TurnChanges
  <2>3. /\ encrypting' = [encrypting EXCEPT ![u] = t]
        /\ own' = [own EXCEPT ![u] = encrypting[u].key + 1]
        /\ UNCHANGED <<members, ownSaved, given, posted, trouble>>
    BY <1>7 DEF SenderKeyEncrypt
  <2> HIDE DEF t
  <2>4. SenderKeysTypeOK' /\ OnlyOf(u)
    BY <1>t, <2>1, <2>2, <2>3 DEF SenderKeysTypeOK, OnlyOf
  <2>5. encrypting'[u] = t /\ own'[u] = own[u] + 1
    BY <2>1, <2>3 DEF KeysInv, SenderKeysTypeOK
  <2>6. KeyOrder(u)' /\ NextKey(u) <= NextKey(u)'
    BY <1>t, <2>1, <2>2, <2>3, <2>5 DEF KeyOrder, NextKey, NoKey
  <2>7. ASSUME ~trouble' PROVE Reached(u)'
    <3>1. PICK k \in Nat : k = own[u] /\ own'[u] = k + 1 /\ t.key = k
      BY <2>1, <2>2, <2>5
    <3>2. Reached(u)
      BY <2>3, <2>7 DEF KeysInv
    <3>3. \A v \in given[u] : HasKey(u, v, k)' /\ HasKey(u, v, k + 1)'
      <4> TAKE v \in given[u]
      <4>1. HasKey(u, v, k) /\ v \in Users
        BY <1>t, <3>1, <3>2 DEF Reached
      <4> QED
        BY <1>t, <2>3, <4>1, SilentHasKey
    <3>4. \A v \in t.to : v \in given[u]
      BY <2>1, <2>2, <3>2 DEF Reached
    <3> QED
      BY <2>2, <2>3, <2>5, <3>1, <3>3, <3>4 DEF Reached, HasKey
  <2> QED
    BY <2>3, <2>4, <2>6, <2>7, SilentStep
<1>8. ASSUME NEW u \in Pages, SaveOwnKey(u) PROVE KeysInv'
  <2> DEFINE t == [encrypting[u] EXCEPT !.step = "posting"]
  <2>1. encrypting[u].step = "saving" /\ encrypting[u].key \in Nat
        /\ own[u] = encrypting[u].key + 1 /\ ownSaved[u] = encrypting[u].key
    BY <1>8, <1>t DEF SaveOwnKey, KeyOrder, Turn, NoKey
  <2>2. t \in Turn /\ t.step = "posting" /\ t.key = encrypting[u].key /\ t.to = encrypting[u].to
    BY <1>t, TurnChanges
  <2>3. /\ encrypting' = [encrypting EXCEPT ![u] = t]
        /\ ownSaved' = [ownSaved EXCEPT ![u] = own[u]]
        /\ UNCHANGED <<members, own, given, posted, trouble>>
    BY <1>8 DEF SaveOwnKey
  <2> HIDE DEF t
  <2>4. SenderKeysTypeOK' /\ OnlyOf(u)
    BY <1>t, <2>1, <2>2, <2>3 DEF SenderKeysTypeOK, OnlyOf
  <2>5. encrypting'[u] = t /\ ownSaved'[u] = own[u]
    BY <2>1, <2>3 DEF KeysInv, SenderKeysTypeOK
  <2>6. KeyOrder(u)' /\ NextKey(u) <= NextKey(u)'
    BY <1>t, <2>1, <2>2, <2>3, <2>5 DEF KeyOrder, NextKey, NoKey
  <2>7. ASSUME ~trouble' PROVE Reached(u)'
    <3>1. Reached(u)
      BY <2>3, <2>7 DEF KeysInv
    <3> QED
      BY <2>1, <2>2, <2>3, <2>5, <3>1 DEF Reached, HasKey
  <2> QED
    BY <2>3, <2>4, <2>6, <2>7, SilentStep
<1>9. ASSUME NEW u \in Pages, ReloadPage(u) PROVE KeysInv'
  <2>1. AtRest \in Turn /\ AtRest.step = "idle"
    BY DEF AtRest, Turn
  <2>2. /\ own' = [own EXCEPT ![u] = NoKey] /\ given' = [given EXCEPT ![u] = {}]
        /\ encrypting' = [encrypting EXCEPT ![u] = AtRest]
        /\ UNCHANGED <<members, ownSaved, posted, trouble>>
    BY <1>9 DEF ReloadPage
  <2>3. SenderKeysTypeOK' /\ OnlyOf(u)
    BY <1>t, <2>1, <2>2 DEF SenderKeysTypeOK, OnlyOf
  <2>4. encrypting'[u] = AtRest /\ own'[u] = NoKey /\ given'[u] = {}
    BY <2>2 DEF KeysInv, SenderKeysTypeOK
  <2>5. KeyOrder(u)' /\ Reached(u)'
    BY <2>1, <2>4 DEF KeyOrder, Reached
  <2>6. NextKey(u) <= NextKey(u)'
    BY <1>t, <2>1, <2>2, <2>4 DEF KeyOrder, NextKey, NoKey, Turn
  <2> QED
    BY <2>2, <2>3, <2>5, <2>6, SilentStep
<1>10. ASSUME NEW u \in Pages, SendGif(u) PROVE KeysInv'
  <2>1. encrypting[u].step = "posting" /\ encrypting[u].key \in Nat /\ encrypting[u].to \subseteq Users
        /\ own[u] = encrypting[u].key + 1 /\ ownSaved[u] = own[u] /\ NextKey(u) = encrypting[u].key
    BY <1>10, <1>t DEF SendGif, KeyOrder, Turn, NoKey, NextKey
  <2>2. PICK m \in GroupPost :
           /\ m = [kind |-> "gif", from |-> u, to |-> encrypting[u].to, n |-> encrypting[u].key]
           /\ m.kind = "gif" /\ m.from = u /\ m.n = encrypting[u].key /\ m.to = encrypting[u].to
    <3> DEFINE g == [kind |-> "gif", from |-> u, to |-> encrypting[u].to, n |-> encrypting[u].key]
    <3>1. g \in GroupPost
      BY <2>1 DEF GroupPost
    <3>2. g.kind = "gif" /\ g.from = u /\ g.n = encrypting[u].key /\ g.to = encrypting[u].to
      OBVIOUS
    <3> QED
      BY <3>1, <3>2
  <2>3. /\ posted' \in Seq(GroupPost) /\ trouble' \in BOOLEAN /\ (trouble => trouble')
        /\ posted' = Append(posted, m) \/ (posted' = posted /\ trouble')
    BY <1>t, <1>10, <2>2, PostedMore DEF SendGif
  <2>4. AtRest \in Turn /\ AtRest.step = "idle"
    BY DEF AtRest, Turn
  <2>5. encrypting' = [encrypting EXCEPT ![u] = AtRest] /\ UNCHANGED <<members, own, ownSaved, given>>
    BY <1>10 DEF SendGif
  <2>6. SenderKeysTypeOK' /\ OnlyOf(u) /\ encrypting'[u] = AtRest
    BY <1>t, <2>3, <2>4, <2>5 DEF SenderKeysTypeOK, OnlyOf
  <2>7. KeyOrder(u)'
    BY <1>t, <2>1, <2>4, <2>5, <2>6 DEF KeyOrder
  <2>8. ASSUME ~trouble' PROVE Reached(u)'
    <3>1. PICK k \in Nat : k = own[u] /\ own'[u] = k
      BY <2>1, <2>5
    <3>2. \A v \in given[u] : HasKey(u, v, k)'
      <4> TAKE v \in given[u]
      <4>1. HasKey(u, v, k) /\ v \in Users
        BY <1>t, <2>3, <2>8, <3>1 DEF KeysInv, Reached
      <4> QED
        BY <1>t, <2>3, <4>1, HasKeyStays
    <3> QED
      BY <2>4, <2>5, <2>6, <3>1, <3>2 DEF Reached, HasKey
  <2>9. CASE posted' = posted /\ trouble'
    <3>1. NextKey(u) <= NextKey(u)'
      BY <2>1, <2>4, <2>5, <2>6 DEF NextKey
    <3> QED
      BY <2>3, <2>6, <2>7, <2>8, <2>9, <3>1, SilentStep
  <2>10. CASE posted' = Append(posted, m)
    <3> DEFINE l == Len(posted) + 1
    <3>1. /\ DOMAIN posted = 1 .. Len(posted) /\ Len(posted) \in Nat
          /\ DOMAIN posted' = 1 .. l /\ posted'[l] = m
      BY <1>t, <2>10 DEF SenderKeysTypeOK
    <3>2. \A i \in DOMAIN posted : posted'[i] = posted[i] /\ posted[i] \in GroupPost
      BY <1>t, <2>10, StoredStay
    <3>3. \A i \in DOMAIN posted' : i \in DOMAIN posted \/ i = l
      BY <3>1
    <3>4. \A w \in Pages : NextKey(w) \in Int /\ NextKey(w)' \in Int /\ NextKey(w) <= NextKey(w)'
      <4>1. \A w \in Pages : NextKey(w) \in Int /\ NextKey(w)' \in Int
        BY <1>t, <2>6 DEF SenderKeysTypeOK, NextKey, Turn, NoKey
      <4> QED
        BY <2>1, <2>4, <2>5, <2>6, <4>1 DEF NextKey, OnlyOf
    <3>5. ASSUME NEW i \in DOMAIN posted, posted[i].kind = "gif"
          PROVE  posted[i].n < NextKey(posted[i].from) /\ posted[i].n \in Nat /\ posted[i].from \in Pages
      BY <3>2, <3>5 DEF KeysInv, GifsBehind, GroupPost
    <3>6. GifsBehind'
      <4> SUFFICES ASSUME NEW i \in DOMAIN posted', posted'[i].kind = "gif"
                   PROVE  posted'[i].n < NextKey(posted[i].from)'
        BY DEF GifsBehind
      <4>1. CASE i \in DOMAIN posted
        <5>1. PICK e \in GroupPost : e = posted[i] /\ e = posted'[i]
          BY <3>2, <4>1
        <5>2. e.n < NextKey(e.from) /\ e.n \in Nat /\ e.from \in Pages
          BY <3>5, <4>1, <5>1
        <5>3. e.n < NextKey(e.from)'
          BY <3>4, <5>2
        <5> QED
          BY <5>1, <5>3
      <4>2. CASE i = l
        <5>1. m.n < NextKey(u)'
          BY <2>1, <2>2, <2>4, <2>5, <2>6 DEF NextKey
        <5> QED
          BY <2>2, <3>1, <4>2, <5>1
      <4> QED
        BY <3>3, <4>1, <4>2
    <3>7. UniqueGroupKeys'
      <4>1. ASSUME NEW i \in DOMAIN posted, posted[i].kind = "gif", posted[i].from = u
            PROVE  posted[i].n # m.n
        BY <2>1, <2>2, <3>5, <4>1
      <4> QED
        BY <2>2, <3>1, <3>2, <3>3, <4>1 DEF KeysInv, MessagesHaveKeys, UniqueGroupKeys
    <3>8. KeysPrecedeMessages'
      <4> SUFFICES ASSUME ~trouble', NEW i \in DOMAIN posted', posted'[i].kind = "gif", NEW v \in posted'[i].to
                   PROVE  \E j \in 1 .. i - 1 :
                             /\ posted'[j].kind = "key" /\ posted'[j].from = posted'[i].from
                             /\ posted'[j].to = {v} /\ posted'[j].n <= posted'[i].n
        BY DEF KeysPrecedeMessages
      <4>1. CASE i \in DOMAIN posted
        <5>1. PICK j \in 1 .. i - 1 : /\ posted[j].kind = "key" /\ posted[j].from = posted[i].from
                                      /\ posted[j].to = {v} /\ posted[j].n <= posted[i].n
          BY <2>3, <3>2, <4>1 DEF KeysInv, MessagesHaveKeys, KeysPrecedeMessages
        <5>2. j \in DOMAIN posted
          BY <3>1, <4>1
        <5> QED
          BY <3>2, <4>1, <5>1, <5>2
      <4>2. CASE i = l
        <5>1. HasKey(u, v, encrypting[u].key)
          BY <2>1, <2>2, <2>3, <3>1, <4>2 DEF KeysInv, Reached
        <5>2. PICK j \in 1 .. Len(posted) : Leads(posted[j], u, v, encrypting[u].key)
          BY <5>1 DEF HasKey
        <5> QED
          BY <2>2, <3>1, <3>2, <4>2, <5>2 DEF Leads
      <4> QED
        BY <3>3, <4>1, <4>2
    <3>9. \A w \in Pages : KeyOrder(w)' /\ (~trouble' => Reached(w)')
      BY <2>3, <2>6, <2>7, <2>8, ReachedKept DEF OnlyOf
    <3> QED
      BY <2>6, <3>6, <3>7, <3>8, <3>9 DEF KeysInv, MessagesHaveKeys
  <2> QED
    BY <2>3, <2>9, <2>10
<1>11. CASE Governance
  BY <1>1, <1>11 DEF Governance
<1> QED
  BY <1>1, <1>2, <1>3, <1>4, <1>5, <1>6, <1>7, <1>8, <1>9, <1>10, <1>11 DEF GroupsNext, groupVars, Page

(* Every message of a group has a sender key of its own, and whoever it is   *)
(* for was sent that key before, for any number of members, of pages that    *)
(* reload in the middle of a call and of requests that are lost              *)
(* (groupEncrypt, ensureDistributed).                                       *)
THEOREM MessagesHaveKeysHolds == GroupsSpec => []MessagesHaveKeys
<1>1. KeysInv => MessagesHaveKeys
  BY DEF KeysInv
<1> QED
  BY <1>1, KeysInvInit, KeysInvStep, PTL DEF GroupsSpec

-----------------------------------------------------------------------------
(* Outbox: a message is stored once, its answers name that row, the worker *)
(* drops nothing unsent and a queued message is kept until it was tried.   *)

(* Before its INSERT a request has no row, after it it has one.             *)
RowFollowsPc ==
    \A p \in DOMAIN posts :
        /\ posts[p].pc \in {"received", "counted", "new", "conflict"} => posts[p].row = "none"
        /\ posts[p].pc = "inserted" => posts[p].row # "none"

(* An edit or deletion under way has selected a row.                        *)
ChangesSelectRows ==
    \A c \in changes : c.row \in DOMAIN posts /\ posts[c.row].row # "none"

AnswersNameRows ==
    \A p \in DOMAIN posts : posts[p].pc = "answered" =>
        /\ posts[p].answer \in DOMAIN posts
        /\ posts[posts[p].answer].row # "none"
        /\ posts[posts[p].answer].msg = posts[p].msg

(* The unique index: a nonce finds one row.                                 *)
OneHolder ==
    \A p, q \in DOMAIN posts :
        /\ posts[p].msg = posts[q].msg
        /\ posts[p].row = "sent" /\ posts[q].row = "sent"
        => p = q

StoreInv ==
    /\ StoreTypeOK
    /\ RowFollowsPc
    /\ ChangesSelectRows
    /\ AnswersNameRows
    /\ OneHolder

(* No step takes back a request, what it carries or that it had a row.      *)
PostsGrow ==
    \A p \in DOMAIN posts :
        /\ p \in DOMAIN posts'
        /\ posts'[p].msg = posts[p].msg
        /\ posts'[p].by = posts[p].by
        /\ posts[p].row # "none" => posts'[p].row # "none"

-----------------------------------------------------------------------------
(* The invariant says what the run checks of the store.                     *)
LEMMA InvariantSuffices == StoreInv => StoredOnce /\ AnswersHold
<1> SUFFICES ASSUME StoreInv PROVE StoredOnce /\ AnswersHold
  OBVIOUS
<1>1. StoredOnce
  BY DEF StoreInv, OneHolder, StoredOnce
<1>2. AnswersHold
  <2> SUFFICES ASSUME NEW p \in DOMAIN posts, posts[p].pc = "answered"
               PROVE  LET id == posts[p].answer IN
                      /\ id \in DOMAIN posts
                      /\ posts[id].row # "none"
                      /\ posts[id].msg = posts[p].msg
                      /\ posts[id].row = "sent" =>
                            \A q \in DOMAIN posts :
                                /\ posts[q].pc = "answered"
                                /\ posts[q].msg = posts[p].msg
                                /\ posts[q].answer # id
                                => posts[posts[q].answer].row # "sent"
    BY <1>1 DEF AnswersHold
  <2>1. \A q \in DOMAIN posts : posts[q].pc = "answered" =>
           /\ posts[q].answer \in DOMAIN posts
           /\ posts[posts[q].answer].row # "none"
           /\ posts[posts[q].answer].msg = posts[q].msg
    BY DEF StoreInv, AnswersNameRows
  <2> QED
    BY <2>1 DEF StoreInv, OneHolder
<1> QED
  BY <1>1, <1>2

(* A step that writes one request's record, in one of the ways the handlers *)
(* do, preserves the invariant.                                             *)
LEMMA UpdatePost ==
    ASSUME StoreInv,
           NEW p \in DOMAIN posts,
           posts' \in Seq(Post), Len(posts') = Len(posts),
           \A q \in DOMAIN posts \ {p} : posts'[q] = posts[q],
           posts'[p].msg = posts[p].msg,
           posts'[p].by = posts[p].by,
           posts[p].row # "none" => posts'[p].row # "none",
           posts'[p].pc \in {"received", "counted", "new", "conflict"} => posts'[p].row = "none",
           posts'[p].pc = "inserted" => posts'[p].row # "none",
           posts'[p].row = "sent" /\ posts[p].row # "sent" => Holders(posts[p].msg) = {},
           posts'[p].pc = "answered" =>
               \/ posts[p].pc = "answered" /\ posts'[p].answer = posts[p].answer
               \/ posts'[p].answer \in Holders(posts[p].msg)
               \/ posts'[p].answer = p /\ posts'[p].row # "none",
           changes' \subseteq Change, changed' \in 0..MaxChange,
           \A c \in changes' : c.row \in DOMAIN posts /\ posts[c.row].row # "none"
    PROVE  StoreInv' /\ PostsGrow
<1>1. DOMAIN posts' = DOMAIN posts
  BY DEF StoreInv, StoreTypeOK
<1>2. PostsGrow
  BY <1>1 DEF PostsGrow
<1>3. StoreTypeOK'
  BY DEF StoreInv, StoreTypeOK
<1>4. RowFollowsPc'
  BY <1>1 DEF StoreInv, RowFollowsPc
<1>5. ChangesSelectRows'
  BY <1>1, <1>2 DEF ChangesSelectRows, PostsGrow
<1>6. AnswersNameRows'
  <2> SUFFICES ASSUME NEW q \in DOMAIN posts, posts'[q].pc = "answered"
               PROVE  /\ posts'[q].answer \in DOMAIN posts
                      /\ posts'[posts'[q].answer].row # "none"
                      /\ posts'[posts'[q].answer].msg = posts'[q].msg
    BY <1>1 DEF AnswersNameRows
  <2>1. CASE posts[q].pc = "answered" /\ posts'[q].answer = posts[q].answer
    BY <2>1, <1>2 DEF StoreInv, AnswersNameRows, PostsGrow
  <2>2. CASE q = p /\ posts'[p].answer \in Holders(posts[p].msg)
    BY <2>2, <1>2 DEF Holders, Rows, PostsGrow
  <2>3. CASE q = p /\ posts'[p].answer = p /\ posts'[p].row # "none"
    BY <2>3
  <2> QED
    BY <2>1, <2>2, <2>3
<1>7. OneHolder'
  <2> SUFFICES ASSUME NEW q \in DOMAIN posts, NEW r \in DOMAIN posts,
                      posts'[q].msg = posts'[r].msg,
                      posts'[q].row = "sent", posts'[r].row = "sent"
               PROVE  q = r
    BY <1>1 DEF OneHolder
  <2>1. \A s \in DOMAIN posts : posts[s].row = "sent" => s \in Holders(posts[s].msg)
    BY DEF Holders, Rows
  <2>2. posts[q].msg = posts[r].msg
    BY <1>2 DEF PostsGrow
  <2>3. CASE posts[q].row = "sent" /\ posts[r].row = "sent"
    BY <2>2, <2>3 DEF StoreInv, OneHolder
  <2>4. CASE posts[q].row # "sent"
    BY <2>1, <2>2, <2>4
  <2>5. CASE posts[r].row # "sent"
    BY <2>1, <2>2, <2>5
  <2> QED
    BY <2>3, <2>4, <2>5
<1> QED
  BY <1>2, <1>3, <1>4, <1>5, <1>6, <1>7 DEF StoreInv

(* The record a handler's step writes is a Post in the place of the old.    *)
LEMMA WritePost ==
    ASSUME StoreInv, NEW p \in DOMAIN posts, NEW rec \in Post,
           posts' = [posts EXCEPT ![p] = rec]
    PROVE  /\ posts' \in Seq(Post) /\ Len(posts') = Len(posts)
           /\ posts'[p] = rec
           /\ \A q \in DOMAIN posts \ {p} : posts'[q] = posts[q]
<1>1. posts \in Seq(Post)
  BY DEF StoreInv, StoreTypeOK
<1> HIDE DEF Post
<1> QED
  BY <1>1

(* The records the steps write.                                             *)
LEMMA GotoRecord ==
    ASSUME NEW post \in Post, NEW pc \in Waiting \cup {"answered", "refused", "failed"}
    PROVE  LET rec == [post EXCEPT !.pc = pc] IN
           /\ rec \in Post
           /\ rec.msg = post.msg /\ rec.by = post.by /\ rec.row = post.row
           /\ rec.answer = post.answer /\ rec.pc = pc
BY DEF Post

(* An answer changes what the request says, not its row.                    *)
LEMMA AnswerRecord ==
    ASSUME NEW post \in Post, NEW id \in PostId
    PROVE  LET rec == [post EXCEPT !.pc = "answered", !.answer = id] IN
           /\ rec \in Post
           /\ rec.msg = post.msg /\ rec.by = post.by /\ rec.row = post.row
           /\ rec.answer = id /\ rec.pc = "answered"
BY DEF Post

(* A row changes under its request.                                         *)
LEMMA RowRecord ==
    ASSUME NEW post \in Post, NEW row \in Row
    PROVE  LET rec == [post EXCEPT !.row = row] IN
           /\ rec \in Post
           /\ rec.msg = post.msg /\ rec.by = post.by /\ rec.row = row
           /\ rec.answer = post.answer /\ rec.pc = post.pc
BY DEF Post

(* The parts of UpdatePost's conditions that no handler's step disturbs.    *)
LEMMA StoreFacts ==
    ASSUME StoreInv
    PROVE  /\ posts \in Seq(Post) /\ DOMAIN posts \subseteq PostId
           /\ \A p \in DOMAIN posts : posts[p] \in Post
           /\ changes \subseteq Change /\ changed \in 0..MaxChange
           /\ \A c \in changes : c.row \in DOMAIN posts /\ posts[c.row].row # "none"
<1>1. posts \in Seq(Post) /\ Len(posts) \in Nat /\ Len(posts) <= MaxPost /\ MaxPost \in Nat
  BY StoreAssumption DEF StoreInv, StoreTypeOK
<1>2. DOMAIN posts = 1..Len(posts)
  BY <1>1
<1>3. DOMAIN posts \subseteq PostId
  BY <1>1, <1>2 DEF PostId
<1>4. \A p \in DOMAIN posts : posts[p] \in Post
  BY <1>1, <1>2
<1> QED
  BY <1>1, <1>3, <1>4 DEF StoreInv, StoreTypeOK, ChangesSelectRows

(* A step of one request's handler.                                         *)
LEMMA HandlePostStep ==
    ASSUME StoreInv, NEW p \in PostId, HandlePost(p)
    PROVE  StoreInv' /\ PostsGrow
<1>1. p \in DOMAIN posts /\ posts[p].pc \in Waiting
  BY DEF HandlePost, Refuse, CheckQuota, FindDuplicate, Insert, FindAgain, Broadcast, At, Waiting
<1>2. posts[p] \in Post /\ UNCHANGED <<changes, changed>>
  BY <1>1, StoreFacts
     DEF HandlePost, Refuse, CheckQuota, FindDuplicate, Insert, FindAgain, Broadcast
<1>3. ASSUME NEW pc \in {"counted", "new", "conflict", "refused", "failed"},
             posts[p].pc \in {"received", "counted", "new", "conflict"} \/ pc = "failed",
             Goto(p, pc)
      PROVE  StoreInv' /\ PostsGrow
  <2> DEFINE rec == [posts[p] EXCEPT !.pc = pc]
  <2>1. posts' = [posts EXCEPT ![p] = rec]
    BY <1>3 DEF Goto
  <2>2. /\ rec \in Post
        /\ rec.msg = posts[p].msg /\ rec.by = posts[p].by /\ rec.row = posts[p].row
        /\ rec.answer = posts[p].answer /\ rec.pc = pc
    BY <1>2, GotoRecord DEF Waiting
  <2> HIDE DEF rec
  <2>3. /\ posts' \in Seq(Post) /\ Len(posts') = Len(posts)
        /\ posts'[p] = rec
        /\ \A q \in DOMAIN posts \ {p} : posts'[q] = posts[q]
    BY <1>1, <2>1, <2>2, WritePost
  <2>4. posts[p].pc \in {"received", "counted", "new", "conflict"} => posts[p].row = "none"
    BY <1>1 DEF StoreInv, RowFollowsPc
  <2> QED
    BY <1>1, <1>2, <1>3, <2>2, <2>3, <2>4, StoreFacts, UpdatePost
<1>4. ASSUME NEW id \in PostId,
             id \in Holders(posts[p].msg) \/ (id = p /\ posts[p].row # "none"),
             Answer(p, id)
      PROVE  StoreInv' /\ PostsGrow
  <2> DEFINE rec == [posts[p] EXCEPT !.pc = "answered", !.answer = id]
  <2>1. posts' = [posts EXCEPT ![p] = rec]
    BY <1>4 DEF Answer
  <2>2. /\ rec \in Post
        /\ rec.msg = posts[p].msg /\ rec.by = posts[p].by /\ rec.row = posts[p].row
        /\ rec.answer = id /\ rec.pc = "answered"
    BY <1>2, AnswerRecord
  <2> HIDE DEF rec
  <2>3. /\ posts' \in Seq(Post) /\ Len(posts') = Len(posts)
        /\ posts'[p] = rec
        /\ \A q \in DOMAIN posts \ {p} : posts'[q] = posts[q]
    BY <1>1, <2>1, <2>2, WritePost
  <2> QED
    BY <1>1, <1>2, <1>4, <2>2, <2>3, StoreFacts, UpdatePost
<1>5. CASE Refuse(p)
  BY <1>3, <1>5 DEF Refuse, At
<1>6. CASE CheckQuota(p)
  BY <1>3, <1>6 DEF CheckQuota, At
<1>7. \A id \in Holders(posts[p].msg) : id \in PostId
  BY StoreFacts DEF Holders, Rows
<1>8. CASE FindDuplicate(p)
  <2>1. CASE Holders(posts[p].msg) = {}
    <3>1. posts[p].pc = "counted" /\ Goto(p, "new")
      BY <1>8, <2>1 DEF FindDuplicate, At
    <3> QED
      BY <1>3, <3>1
  <2>2. CASE Holders(posts[p].msg) # {}
    <3>1. PICK id \in Holders(posts[p].msg) : Answer(p, id)
      BY <1>8, <2>2 DEF FindDuplicate
    <3>2. id \in PostId
      BY <1>7
    <3> QED
      BY <1>4, <3>1, <3>2
  <2> QED
    BY <2>1, <2>2
<1>9. CASE FindAgain(p)
  <2>1. CASE Holders(posts[p].msg) = {}
    <3>1. posts[p].pc = "conflict" /\ Goto(p, "failed")
      BY <1>9, <2>1 DEF FindAgain, At
    <3> QED
      BY <1>3, <3>1
  <2>2. CASE Holders(posts[p].msg) # {}
    <3>1. PICK id \in Holders(posts[p].msg) : Answer(p, id)
      BY <1>9, <2>2 DEF FindAgain
    <3>2. id \in PostId
      BY <1>7
    <3> QED
      BY <1>4, <3>1, <3>2
  <2> QED
    BY <2>1, <2>2
<1>10. CASE Broadcast(p)
  <2>1. posts[p].row # "none"
    BY <1>1, <1>10 DEF Broadcast, At, StoreInv, RowFollowsPc
  <2> QED
    BY <1>3, <1>4, <1>10, <2>1 DEF Broadcast
<1>11. CASE Insert(p)
  <2>1. CASE Holders(posts[p].msg) # {}
    BY <1>3, <1>11, <2>1 DEF Insert, At
  <2>2. CASE Holders(posts[p].msg) = {}
    <3> DEFINE mid == [posts[p] EXCEPT !.pc = "inserted"]
               rec == [mid EXCEPT !.row = "sent"]
    <3>1. posts' = [posts EXCEPT ![p] = rec]
      BY <1>11, <2>2 DEF Insert
    <3>2. /\ mid \in Post
          /\ mid.msg = posts[p].msg /\ mid.by = posts[p].by
          /\ mid.answer = posts[p].answer /\ mid.pc = "inserted"
      BY <1>2, GotoRecord DEF Waiting
    <3> HIDE DEF mid
    <3>3. /\ rec \in Post
          /\ rec.msg = posts[p].msg /\ rec.by = posts[p].by /\ rec.row = "sent"
          /\ rec.answer = posts[p].answer /\ rec.pc = "inserted"
      BY <3>2, RowRecord DEF Row
    <3> HIDE DEF rec
    <3>4. /\ posts' \in Seq(Post) /\ Len(posts') = Len(posts)
          /\ posts'[p] = rec
          /\ \A q \in DOMAIN posts \ {p} : posts'[q] = posts[q]
      BY <1>1, <3>1, <3>3, WritePost
    <3> QED
      BY <1>1, <1>2, <2>2, <3>3, <3>4, StoreFacts, UpdatePost
  <2> QED
    BY <2>1, <2>2
<1> QED
  BY <1>5, <1>6, <1>8, <1>9, <1>10, <1>11 DEF HandlePost

(* The row a change or the maintenance task writes was there before, and it *)
(* is not made to look as it was sent.                                      *)
LEMMA WriteRow ==
    ASSUME StoreInv, NEW p \in DOMAIN posts, posts[p].row # "none",
           NEW row \in Row \ {"none", "sent"},
           posts' = [posts EXCEPT ![p].row = row],
           changes' \subseteq changes, UNCHANGED changed
    PROVE  StoreInv' /\ PostsGrow
<1> DEFINE rec == [posts[p] EXCEPT !.row = row]
<1>1. posts[p] \in Post
  BY StoreFacts
<1>2. /\ rec \in Post
      /\ rec.msg = posts[p].msg /\ rec.by = posts[p].by /\ rec.row = row
      /\ rec.answer = posts[p].answer /\ rec.pc = posts[p].pc
  BY <1>1, RowRecord
<1>3. posts' = [posts EXCEPT ![p] = rec]
  OBVIOUS
<1> HIDE DEF rec
<1>4. /\ posts' \in Seq(Post) /\ Len(posts') = Len(posts)
      /\ posts'[p] = rec
      /\ \A q \in DOMAIN posts \ {p} : posts'[q] = posts[q]
  BY <1>2, <1>3, WritePost
<1>5. posts[p].pc \notin {"received", "counted", "new", "conflict"}
  BY DEF StoreInv, RowFollowsPc
<1>6. \A c \in changes' : c \in Change /\ c.row \in DOMAIN posts /\ posts[c.row].row # "none"
  BY StoreFacts
<1> QED
  BY <1>2, <1>4, <1>5, <1>6, StoreFacts, UpdatePost

(* The edits, the deletions and the maintenance task.                       *)
LEMMA StoreStep ==
    ASSUME StoreInv, StoreNext
    PROVE  StoreInv' /\ PostsGrow
<1>1. ASSUME NEW p \in PostId, HandlePost(p)
      PROVE  StoreInv' /\ PostsGrow
  BY <1>1, HandlePostStep
<1>2. ASSUME NEW p \in PostId, Expire(p)
      PROVE  StoreInv' /\ PostsGrow
  <2>1. p \in DOMAIN posts /\ posts[p].row # "none"
    BY <1>2 DEF Expire, Rows
  <2>2. "gone" \in Row \ {"none", "sent"}
    BY DEF Row
  <2> QED
    BY <1>2, <2>1, <2>2, WriteRow DEF Expire
<1>3. ASSUME NEW p \in PostId, NEW kind \in {"edit", "delete"}, FindForChange(p, kind)
      PROVE  StoreInv' /\ PostsGrow
  <2>1. p \in DOMAIN posts /\ posts[p].row # "none" /\ UNCHANGED posts
    BY <1>3 DEF FindForChange
  <2>2. [row |-> p, kind |-> kind] \in Change
    BY DEF Change
  <2>3. \A c \in changes' : c \in Change /\ c.row \in DOMAIN posts /\ posts[c.row].row # "none"
    BY <1>3, <2>1, <2>2, StoreFacts DEF FindForChange
  <2>4. changed' \in 0..MaxChange
    BY <1>3, StoreFacts, StoreAssumption DEF FindForChange
  <2> QED
    BY <2>1, <2>3, <2>4
       DEF StoreInv, StoreTypeOK, RowFollowsPc, ChangesSelectRows, AnswersNameRows, OneHolder, PostsGrow
<1>4. ASSUME NEW c \in changes, WriteChange(c)
      PROVE  StoreInv' /\ PostsGrow
  <2> DEFINE old == posts[c.row].row
             row == IF c.kind = "edit" THEN AfterEdit(old) ELSE AfterDelete(old)
  <2>1. c.row \in DOMAIN posts /\ old # "none" /\ posts[c.row] \in Post
    BY StoreFacts
  <2>2. old \in Row
    BY <2>1 DEF Post
  <2>3. row \in Row \ {"none", "sent"}
    BY <2>1, <2>2 DEF AfterEdit, AfterDelete, Row
  <2>4. posts' = [posts EXCEPT ![c.row].row = row]
    BY <1>4 DEF WriteChange
  <2>5. changes' \subseteq changes /\ UNCHANGED changed
    BY <1>4 DEF WriteChange
  <2> HIDE DEF row
  <2> QED
    BY <2>1, <2>3, <2>4, <2>5, WriteRow
<1> QED
  BY <1>1, <1>2, <1>3, <1>4 DEF StoreNext

(* A request arrives.                                                       *)
LEMMA ReceiveStep ==
    ASSUME StoreInv, NEW m \in Message, NEW by \in Poster, Receive(m, by),
           UNCHANGED <<changes, changed>>
    PROVE  StoreInv' /\ PostsGrow
<1> DEFINE new == NewPost(m, by)
           n == Len(posts)
<1>1. new \in Post /\ new.pc = "received" /\ new.row = "none"
  BY DEF NewPost, Post, Waiting, Row, Nobody
<1>2. posts \in Seq(Post) /\ n \in Nat /\ n < MaxPost
  BY StoreFacts DEF Receive, CanPost
<1>3. posts' = Append(posts, new)
  BY DEF Receive
<1> HIDE DEF new
<1>4. /\ posts' \in Seq(Post) /\ Len(posts') = n + 1 /\ posts'[n + 1] = new
      /\ \A q \in DOMAIN posts : posts'[q] = posts[q]
  BY <1>1, <1>2, <1>3
<1>5. DOMAIN posts = 1..n /\ DOMAIN posts' = DOMAIN posts \cup {n + 1}
  BY <1>2, <1>4
<1>6. PostsGrow
  BY <1>4, <1>5 DEF PostsGrow
<1>7. StoreTypeOK'
  BY <1>2, <1>4, StoreAssumption DEF StoreInv, StoreTypeOK
<1>8. RowFollowsPc' /\ ChangesSelectRows' /\ AnswersNameRows' /\ OneHolder'
  <2>1. RowFollowsPc'
    BY <1>1, <1>4, <1>5 DEF StoreInv, RowFollowsPc
  <2>2. ChangesSelectRows'
    BY <1>4, <1>5 DEF StoreInv, ChangesSelectRows
  <2>3. AnswersNameRows'
    BY <1>1, <1>4, <1>5 DEF StoreInv, AnswersNameRows
  <2>4. OneHolder'
    BY <1>1, <1>4, <1>5 DEF StoreInv, OneHolder
  <2> QED
    BY <2>1, <2>2, <2>3, <2>4
<1> QED
  BY <1>6, <1>7, <1>8 DEF StoreInv

-----------------------------------------------------------------------------
(* What a flush is trying, or has tried, was posted by a flush.             *)
FlushesPosted ==
    \A r \in Run :
        runs[r].step \in {"posting", "removing"} => Flushed(Head(runs[r].pending))

WorkerPosted == worker.post # Nobody => worker.post \in DOMAIN posts

Inv ==
    /\ TypeOK
    /\ IsFiniteSet(saved)
    /\ StoreInv
    /\ FlushesPosted
    /\ WorkerPosted
    /\ QueuedIsKept

(* What was posted or stored stays so.                                      *)
LEMMA GrowthKeeps ==
    ASSUME PostsGrow, NEW m
    PROVE  /\ Flushed(m) => Flushed(m)'
           /\ Stored(m) => Stored(m)'
BY DEF PostsGrow, Flushed, Stored

(* Taking one element out of a sequence.                                    *)
LEMMA RemoveFirstType ==
    ASSUME NEW S, NEW s \in Seq(S), NEW e
    PROVE  RemoveFirst(s, e) \in Seq(S)
<1> SUFFICES ASSUME \E i \in 1..Len(s) : s[i] = e
             PROVE  RemoveAt(s, SelectInSeq(s, LAMBDA v : v = e)) \in Seq(S)
  BY DEF RemoveFirst
<1> DEFINE I == {i \in 1..Len(s) : s[i] = e}
           k == Min(I)
<1>1. I \in SUBSET Nat /\ I # {}
  OBVIOUS
<1>2. k \in 1..Len(s)
  BY <1>1, MinIsMember
<1>3. SelectInSeq(s, LAMBDA v : v = e) = k
  BY <1>1 DEF SelectInSeq
<1> HIDE DEF I, k
<1>4. SubSeq(s, 1, k - 1) \in Seq(S) /\ SubSeq(s, k + 1, Len(s)) \in Seq(S)
  BY <1>2, SubSeqProperties
<1> QED
  BY <1>3, <1>4, ConcatProperties DEF RemoveAt

(* The order of a finite set of messages is a sequence of them.             *)
LEMMA SetToSeqsType ==
    ASSUME NEW S, NEW T \in SUBSET S, IsFiniteSet(T), NEW s \in SetToSeqs(T)
    PROVE  s \in Seq(S)
<1>1. Cardinality(T) \in Nat
  BY FS_CardinalityType
<1>2. s \in [1..Cardinality(T) -> S]
  BY DEF SetToSeqs
<1> QED
  BY <1>1, <1>2

(* The initial state.                                                       *)
LEMMA InvInit == Init => Inv
<1> SUFFICES ASSUME Init PROVE Inv
  OBVIOUS
<1>1. StoreTypeOK
  BY StoreAssumption DEF Init, StoreInit, StoreTypeOK
<1>2. TypeOK
  BY <1>1, OutboxAssumption DEF Init, TypeOK, Idle, Resting
<1>3. IsFiniteSet(saved)
  BY FS_EmptySet DEF Init
<1>4. StoreInv
  BY <1>1 DEF Init, StoreInit, StoreInv, RowFollowsPc, ChangesSelectRows, AnswersNameRows, OneHolder
<1>5. FlushesPosted /\ WorkerPosted /\ QueuedIsKept
  BY DEF Init, Idle, Resting, FlushesPosted, WorkerPosted, QueuedIsKept
<1> QED
  BY <1>2, <1>3, <1>4, <1>5 DEF Inv

(* The server's part of every step.                                         *)
LEMMA StoreSide ==
    ASSUME Inv, [Next]_vars
    PROVE  StoreInv' /\ PostsGrow
<1>1. CASE StoreNext
  BY <1>1, StoreStep DEF Inv
<1>2. CASE UNCHANGED storeVars
  BY <1>2 DEF Inv, StoreInv, StoreTypeOK, RowFollowsPc, ChangesSelectRows, AnswersNameRows,
              OneHolder, PostsGrow, storeVars
<1>3. CASE \E m \in Message, by \in Poster : Receive(m, by) /\ UNCHANGED <<changes, changed>>
  BY <1>3, ReceiveStep DEF Inv
<1>4. ASSUME NEW m \in Message,
             Send(m) \/ SendResolves(m) \/ SendThrows(m) \/ PersistQueueItem(m) \/ WorkerPosts(m)
      PROVE  StoreInv' /\ PostsGrow
  <2>1. "composer" \in Poster /\ "worker" \in Poster
    BY OutboxAssumption
  <2> QED
    BY <1>2, <1>3, <1>4, <2>1 DEF Send, SendResolves, SendThrows, PersistQueueItem, WorkerPosts
<1>5. ASSUME NEW r \in Run,
             Flush(r) \/ FlushPosts(r) \/ FlushResolves(r) \/ FlushThrows(r) \/ RemoveQueueItem(r)
      PROVE  StoreInv' /\ PostsGrow
  <2>1. CASE FlushPosts(r)
    <3>1. Head(runs[r].pending) \in Message
      <4>1. runs[r].pending \in Seq(Message) /\ runs[r].pending # <<>>
        BY <2>1 DEF FlushPosts, Inv, TypeOK
      <4> QED
        BY <4>1
    <3>2. "flush" \in Poster
      BY OutboxAssumption
    <3> QED
      BY <1>3, <2>1, <3>1, <3>2 DEF FlushPosts
  <2>2. CASE ~FlushPosts(r)
    BY <1>2, <1>5, <2>2 DEF Flush, FlushResolves, FlushThrows, RemoveQueueItem
  <2> QED
    BY <2>1, <2>2
<1>6. CASE Sync \/ WorkerAnswered \/ WorkerStops \/ Reload
  BY <1>2, <1>6 DEF Sync, WorkerAnswered, WorkerStops, Reload
<1>7. CASE UNCHANGED vars
  BY <1>2, <1>7 DEF vars
<1> QED
  BY <1>1, <1>4, <1>5, <1>6, <1>7 DEF Next

(* A request that arrives has an id.                                        *)
LEMMA LastPostType ==
    ASSUME StoreInv, NEW m \in Message, NEW by \in Poster, Receive(m, by)
    PROVE  LastPost \in PostId /\ LastPost \in DOMAIN posts'
<1>1. posts \in Seq(Post) /\ Len(posts) < MaxPost
  BY StoreFacts DEF Receive, CanPost
<1>2. posts' \in Seq(Post) /\ Len(posts') = Len(posts) + 1
  <2>1. NewPost(m, by) \in Post
    BY DEF NewPost, Post, Waiting, Row, Nobody
  <2> HIDE DEF NewPost
  <2> QED
    BY <1>1, <2>1 DEF Receive
<1> QED
  BY <1>1, <1>2, StoreAssumption DEF LastPost, PostId

(* A flush's list is emptied with its last item.                            *)
LEMMA RunType ==
    ASSUME TypeOK, NEW r \in Run, runs[r].step # "idle"
    PROVE  /\ runs[r].pending \in Seq(Message) /\ runs[r].pending # <<>>
           /\ Head(runs[r].pending) \in Message
           /\ Tail(runs[r].pending) \in Seq(Message)
<1>1. runs[r].pending \in Seq(Message) /\ runs[r].pending # <<>>
  BY DEF TypeOK
<1> QED
  BY <1>1

RunRecord ==
    [step : {"idle", "next", "posting", "removing"},
     pending : Seq(Message), post : PostId \cup {Nobody}]

(* What writing two of its fields makes of a flush.                         *)
LEMMA RunTakes ==
    ASSUME NEW x \in RunRecord, NEW a, NEW b
    PROVE  [x EXCEPT !.step = a, !.pending = b] = [step |-> a, pending |-> b, post |-> x.post]
<1> DEFINE y == [x EXCEPT !.step = a]
<1>1. y = [step |-> a, pending |-> x.pending, post |-> x.post]
  BY DEF RunRecord
<1>2. [y EXCEPT !.pending = b] = [step |-> a, pending |-> b, post |-> x.post]
  <2> HIDE DEF y
  <2> QED
    BY <1>1
<1> QED
  BY <1>2, Zenon

(* The same for the fields a request sets.                                  *)
LEMMA RunAwaits ==
    ASSUME NEW x \in RunRecord, NEW a, NEW b
    PROVE  [x EXCEPT !.step = a, !.post = b] = [step |-> a, pending |-> x.pending, post |-> b]
<1> DEFINE y == [x EXCEPT !.step = a]
<1>1. y = [step |-> a, pending |-> x.pending, post |-> x.post]
  BY DEF RunRecord
<1>2. [y EXCEPT !.post = b] = [step |-> a, pending |-> x.pending, post |-> b]
  <2> HIDE DEF y
  <2> QED
    BY <1>1
<1> QED
  BY <1>2, Zenon

(* A step of one flush keeps the flushes well formed.                       *)
LEMMA RunsType ==
    ASSUME TypeOK, NEW r \in Run, NEW run \in RunRecord,
           run.pending = <<>> <=> run.step = "idle",
           runs' = [runs EXCEPT ![r] = run]
    PROVE  /\ runs' \in [Run -> RunRecord]
           /\ \A s \in Run : runs'[s].pending = <<>> <=> runs'[s].step = "idle"
<1>1. runs \in [Run -> RunRecord] /\ \A s \in Run : runs[s].pending = <<>> <=> runs[s].step = "idle"
  BY DEF TypeOK, RunRecord
<1> HIDE DEF RunRecord
<1> QED
  BY <1>1

(* Every step of a flush is such a step.                                    *)
LEMMA FlushType ==
    ASSUME Inv, NEW r \in Run,
           Flush(r) \/ FlushPosts(r) \/ FlushResolves(r) \/ FlushThrows(r) \/ RemoveQueueItem(r)
    PROVE  /\ runs' \in [Run -> RunRecord]
           /\ \A s \in Run : runs'[s].pending = <<>> <=> runs'[s].step = "idle"
<1>1. TypeOK /\ StoreInv
  BY DEF Inv
<1>2. runs[r] \in RunRecord /\ queue \in Seq(Message)
  BY <1>1 DEF TypeOK, RunRecord
<1>3. CASE Flush(r)
  <2> DEFINE run == [step |-> "next", pending |-> queue, post |-> runs[r].post]
  <2>1. run \in RunRecord /\ run.pending # <<>> /\ run.step # "idle"
    BY <1>2, <1>3 DEF RunRecord, Flush
  <2>2. runs' = [runs EXCEPT ![r] = run]
    <3>1. [runs[r] EXCEPT !.step = "next", !.pending = queue] = run
      BY <1>2, RunTakes
    <3>2. runs' = [runs EXCEPT ![r] = [runs[r] EXCEPT !.step = "next", !.pending = queue]]
      BY <1>1, <1>3 DEF Flush, TypeOK
    <3> QED
      BY <3>1, <3>2, Zenon
  <2> HIDE DEF run
  <2> QED
    BY <1>1, <2>1, <2>2, RunsType
<1>4. CASE FlushPosts(r)
  <2> DEFINE run == [step |-> "posting", pending |-> runs[r].pending, post |-> LastPost]
  <2>1. runs[r].step = "next" /\ Receive(Head(runs[r].pending), "flush") /\ "flush" \in Poster
    BY <1>4, OutboxAssumption DEF FlushPosts
  <2>2. LastPost \in PostId /\ runs[r].pending # <<>>
    BY <1>1, <2>1, RunType, LastPostType
  <2>3. run \in RunRecord /\ run.pending # <<>> /\ run.step # "idle"
    BY <1>2, <2>2 DEF RunRecord
  <2>4. runs' = [runs EXCEPT ![r] = run]
    <3>1. [runs[r] EXCEPT !.step = "posting", !.post = LastPost] = run
      BY <1>2, RunAwaits
    <3>2. runs' = [runs EXCEPT ![r] = [runs[r] EXCEPT !.step = "posting", !.post = LastPost]]
      BY <1>1, <1>4 DEF FlushPosts, TypeOK
    <3> QED
      BY <3>1, <3>2, Zenon
  <2> HIDE DEF run
  <2> QED
    BY <1>1, <2>3, <2>4, RunsType
<1>5. CASE FlushResolves(r)
  <2> DEFINE run == [step |-> "removing", pending |-> runs[r].pending, post |-> Nobody]
  <2>1. runs[r].pending # <<>>
    BY <1>1, <1>5, RunType DEF FlushResolves
  <2>2. run \in RunRecord /\ run.pending # <<>> /\ run.step # "idle"
    BY <1>2, <2>1 DEF RunRecord
  <2>3. runs' = [runs EXCEPT ![r] = run]
    <3>1. [runs[r] EXCEPT !.step = "removing", !.post = Nobody] = run
      BY <1>2, RunAwaits
    <3>2. runs' = [runs EXCEPT ![r] = [runs[r] EXCEPT !.step = "removing", !.post = Nobody]]
      BY <1>1, <1>5 DEF FlushResolves, TypeOK
    <3> QED
      BY <3>1, <3>2, Zenon
  <2> HIDE DEF run
  <2> QED
    BY <1>1, <2>2, <2>3, RunsType
<1>6. Idle \in RunRecord /\ Idle.pending = <<>> /\ Idle.step = "idle"
  BY DEF Idle, RunRecord
<1>7. CASE FlushThrows(r)
  BY <1>1, <1>6, <1>7, RunsType DEF FlushThrows
<1>8. CASE RemoveQueueItem(r)
  <2> DEFINE rest == Tail(runs[r].pending)
             next == [step |-> "next", pending |-> rest, post |-> Nobody]
  <2>1. rest \in Seq(Message)
    BY <1>1, <1>8, RunType DEF RemoveQueueItem
  <2>2. next \in RunRecord /\ next.pending = rest /\ next.step # "idle"
    BY <2>1 DEF RunRecord
  <2>3. runs' = [runs EXCEPT ![r] = IF rest = <<>> THEN Idle ELSE next]
    BY <1>8 DEF RemoveQueueItem
  <2> HIDE DEF rest, next
  <2>4. CASE rest = <<>>
    BY <1>1, <1>6, <2>3, <2>4, RunsType
  <2>5. CASE rest # <<>>
    BY <1>1, <2>2, <2>3, <2>5, RunsType
  <2> QED
    BY <2>4, <2>5
<1> QED
  BY <1>3, <1>4, <1>5, <1>7, <1>8

(* Every step preserves type correctness.                                   *)
LEMMA TypeStep ==
    ASSUME Inv, [Next]_vars
    PROVE  TypeOK' /\ IsFiniteSet(saved)'
<1>1. StoreTypeOK' /\ TypeOK /\ StoreInv /\ IsFiniteSet(saved)
  BY StoreSide DEF Inv, StoreInv
<1>2. CASE UNCHANGED clientVars
  BY <1>1, <1>2 DEF TypeOK, clientVars
<1>3. ASSUME NEW m \in Message, Send(m)
      PROVE  TypeOK' /\ IsFiniteSet(saved)'
  <2>1. LastPost \in PostId
    BY <1>1, <1>3, LastPostType, OutboxAssumption DEF Send
  <2> HIDE DEF LastPost
  <2> QED
    BY <1>1, <1>3, <2>1 DEF Send, TypeOK
<1>4. ASSUME NEW m \in Message, SendResolves(m)
      PROVE  TypeOK' /\ IsFiniteSet(saved)'
  BY <1>1, <1>4 DEF SendResolves, TypeOK
<1>5. ASSUME NEW m \in Message, SendThrows(m)
      PROVE  TypeOK' /\ IsFiniteSet(saved)'
  <2>1. Append(queue, m) \in Seq(Message)
    BY <1>1 DEF TypeOK
  <2> QED
    BY <1>1, <1>5, <2>1 DEF SendThrows, TypeOK
<1>6. ASSUME NEW m \in Message, PersistQueueItem(m)
      PROVE  TypeOK' /\ IsFiniteSet(saved)'
  <2>1. IsFiniteSet(saved')
    BY <1>1, <1>6, FS_AddElement DEF PersistQueueItem
  <2> QED
    BY <1>1, <1>6, <2>1 DEF PersistQueueItem, TypeOK
<1>7. ASSUME NEW m \in Message, WorkerPosts(m)
      PROVE  TypeOK' /\ IsFiniteSet(saved)'
  <2>1. LastPost \in PostId
    BY <1>1, <1>7, LastPostType, OutboxAssumption DEF WorkerPosts
  <2> HIDE DEF LastPost
  <2> QED
    BY <1>1, <1>7, <2>1 DEF WorkerPosts, TypeOK
<1>8. ASSUME NEW r \in Run,
             Flush(r) \/ FlushPosts(r) \/ FlushResolves(r) \/ FlushThrows(r) \/ RemoveQueueItem(r)
      PROVE  TypeOK' /\ IsFiniteSet(saved)'
  <2>1. /\ runs' \in [Run -> RunRecord]
        /\ \A s \in Run : runs'[s].pending = <<>> <=> runs'[s].step = "idle"
    BY <1>8, FlushType
  <2>2. queue' \in Seq(Message)
    <3>1. CASE FlushResolves(r)
      BY <1>1, <3>1, RemoveFirstType DEF FlushResolves, TypeOK
    <3>2. CASE ~FlushResolves(r)
      BY <1>1, <1>8, <3>2 DEF Flush, FlushPosts, FlushThrows, RemoveQueueItem, TypeOK
    <3> QED
      BY <3>1, <3>2
  <2>3. saved' \subseteq Message /\ IsFiniteSet(saved')
    <3>1. CASE RemoveQueueItem(r)
      BY <1>1, <3>1, FS_RemoveElement DEF RemoveQueueItem, TypeOK
    <3>2. CASE ~RemoveQueueItem(r)
      BY <1>1, <1>8, <3>2 DEF Flush, FlushPosts, FlushThrows, FlushResolves, TypeOK
    <3> QED
      BY <3>1, <3>2
  <2>4. UNCHANGED <<composer, call, persisting, worker, reloads>>
    BY <1>8 DEF Flush, FlushPosts, FlushThrows, FlushResolves, RemoveQueueItem
  <2> QED
    BY <1>1, <2>1, <2>2, <2>3, <2>4 DEF TypeOK, RunRecord
<1>9. CASE Sync
  BY <1>1, <1>9 DEF Sync, TypeOK
<1>10. CASE WorkerAnswered
  <2>1. IsFiniteSet(saved')
    BY <1>1, <1>10, FS_RemoveElement DEF WorkerAnswered
  <2>2. saved' \subseteq saved
    BY <1>10 DEF WorkerAnswered
  <2>3. worker' \in [items : SUBSET Message, post : PostId \cup {Nobody}]
    BY <1>1, <1>10 DEF WorkerAnswered, TypeOK, Nobody
  <2>4. UNCHANGED <<composer, call, queue, persisting, runs, reloads>>
    BY <1>10 DEF WorkerAnswered
  <2> QED
    BY <1>1, <2>1, <2>2, <2>3, <2>4 DEF TypeOK
<1>11. CASE WorkerStops
  BY <1>1, <1>11 DEF WorkerStops, Resting, TypeOK
<1>12. CASE Reload
  <2>1. queue' \in Seq(Message)
    BY <1>1, <1>12, SetToSeqsType DEF Reload, TypeOK
  <2>2. reloads' \in 0..MaxReload
    BY <1>1, <1>12, OutboxAssumption DEF Reload, TypeOK
  <2>3. composer' \in [Message -> {"new", "posting", "resolved", "queued", "left"}]
    BY <1>1, <1>12 DEF Reload, TypeOK
  <2>4. /\ runs' \in [Run -> RunRecord]
        /\ \A s \in Run : runs'[s].pending = <<>> <=> runs'[s].step = "idle"
    BY <1>12 DEF Reload, Idle, RunRecord
  <2>5. persisting' = {} /\ UNCHANGED <<call, saved, worker>>
    BY <1>12 DEF Reload
  <2> QED
    BY <1>1, <2>1, <2>2, <2>3, <2>4, <2>5 DEF TypeOK, RunRecord
<1>13. CASE UNCHANGED vars
  BY <1>2, <1>13 DEF vars, clientVars
<1> QED
  BY <1>2, <1>3, <1>4, <1>5, <1>6, <1>7, <1>8, <1>9, <1>10, <1>11, <1>12, <1>13 DEF Next

(* A flush has posted m by the end of the step.                             *)
FlushedNext(m) == \E p \in DOMAIN posts' : posts'[p].by = "flush" /\ posts'[p].msg = m

(* Only the flush that posts or goes on changes what a flush is trying.     *)
LEMMA FlushesPostedStep ==
    ASSUME Inv, [Next]_vars
    PROVE  FlushesPosted'
<1>1. \A m : Flushed(m) => FlushedNext(m)
  BY StoreSide DEF PostsGrow, Flushed, FlushedNext
<1>2. TypeOK /\ StoreInv /\ FlushesPosted
  BY DEF Inv
<1>3. CASE UNCHANGED runs
  <2> SUFFICES ASSUME NEW r \in Run, runs'[r].step \in {"posting", "removing"}
               PROVE  FlushedNext(Head(runs'[r].pending))
    BY DEF FlushesPosted, Flushed, FlushedNext
  <2> QED
    BY <1>1, <1>2, <1>3 DEF FlushesPosted
<1>4. ASSUME NEW r \in Run, NEW run, runs' = [runs EXCEPT ![r] = run],
             run.step \in {"posting", "removing"} => FlushedNext(Head(run.pending))
      PROVE  FlushesPosted'
  <2> SUFFICES ASSUME NEW s \in Run, runs'[s].step \in {"posting", "removing"}
               PROVE  FlushedNext(Head(runs'[s].pending))
    BY DEF FlushesPosted, Flushed, FlushedNext
  <2>1. CASE s = r
    <3>1. runs'[s] = run
      BY <1>2, <1>4, <2>1 DEF TypeOK
    <3> QED
      BY <1>4, <3>1
  <2>2. CASE s # r
    <3>1. runs'[s] = runs[s]
      BY <1>2, <1>4, <2>2 DEF TypeOK
    <3> QED
      BY <1>1, <1>2, <3>1 DEF FlushesPosted
  <2> QED
    BY <2>1, <2>2
<1>5. ASSUME NEW r \in Run, Flush(r)
      PROVE  FlushesPosted'
  <2> DEFINE run == [runs[r] EXCEPT !.step = "next", !.pending = queue]
  <2>1. runs[r] \in RunRecord
    BY <1>2 DEF TypeOK, RunRecord
  <2>2. run.step = "next"
    BY <2>1, RunTakes
  <2>3. runs' = [runs EXCEPT ![r] = run]
    BY <1>2, <1>5 DEF Flush, TypeOK
  <2> HIDE DEF run
  <2> QED
    BY <1>4, <2>2, <2>3
<1>6. ASSUME NEW r \in Run, FlushPosts(r)
      PROVE  FlushesPosted'
  <2> DEFINE m == Head(runs[r].pending)
             run == [runs[r] EXCEPT !.step = "posting", !.post = LastPost]
  <2>1. runs[r] \in RunRecord
    BY <1>2 DEF TypeOK, RunRecord
  <2>2. run.pending = runs[r].pending
    BY <2>1, RunAwaits
  <2>3. runs' = [runs EXCEPT ![r] = run]
    BY <1>2, <1>6 DEF FlushPosts, TypeOK
  <2>4. m \in Message /\ "flush" \in Poster
    BY <1>2, <1>6, RunType, OutboxAssumption DEF FlushPosts
  <2>5. Receive(m, "flush")
    BY <1>6 DEF FlushPosts
  <2>6. NewPost(m, "flush") \in Post
    BY <2>4 DEF NewPost, Post, Waiting, Row, Nobody
  <2>7. posts' = Append(posts, NewPost(m, "flush")) /\ posts \in Seq(Post)
    BY <1>2, <2>5, StoreFacts DEF Receive
  <2>8. LastPost \in DOMAIN posts'
    BY <1>2, <2>4, <2>5, LastPostType
  <2> HIDE DEF m
  <2>9. posts'[LastPost] = NewPost(m, "flush")
    <3> HIDE DEF NewPost
    <3> QED
      BY <2>6, <2>7 DEF LastPost
  <2>10. posts'[LastPost].by = "flush" /\ posts'[LastPost].msg = m
    BY <2>9 DEF NewPost
  <2>11. FlushedNext(m)
    BY <2>8, <2>10 DEF FlushedNext
  <2>12. FlushedNext(Head(run.pending))
    BY <2>2, <2>11, Zenon DEF m
  <2> HIDE DEF run
  <2> QED
    BY <1>4, <2>3, <2>12
<1>7. ASSUME NEW r \in Run, FlushResolves(r)
      PROVE  FlushesPosted'
  <2> DEFINE run == [runs[r] EXCEPT !.step = "removing", !.post = Nobody]
  <2>1. runs[r] \in RunRecord
    BY <1>2 DEF TypeOK, RunRecord
  <2>2. run.pending = runs[r].pending
    BY <2>1, RunAwaits
  <2>3. runs' = [runs EXCEPT ![r] = run]
    BY <1>2, <1>7 DEF FlushResolves, TypeOK
  <2>4. Flushed(Head(runs[r].pending))
    BY <1>2, <1>7 DEF FlushResolves, FlushesPosted
  <2>6. FlushedNext(Head(run.pending))
    BY <1>1, <2>2, <2>4, Zenon
  <2> HIDE DEF run
  <2> QED
    BY <1>4, <2>3, <2>6
<1>8. Idle.step = "idle"
  BY DEF Idle
<1>9. ASSUME NEW r \in Run, FlushThrows(r)
      PROVE  FlushesPosted'
  BY <1>4, <1>8, <1>9 DEF FlushThrows
<1>10. ASSUME NEW r \in Run, RemoveQueueItem(r)
       PROVE  FlushesPosted'
  <2> DEFINE next == [step |-> "next", pending |-> Tail(runs[r].pending), post |-> Nobody]
             run == IF Tail(runs[r].pending) = <<>> THEN Idle ELSE next
  <2>1. run.step \notin {"posting", "removing"}
    BY <1>8
  <2>2. runs' = [runs EXCEPT ![r] = run]
    BY <1>10 DEF RemoveQueueItem
  <2> HIDE DEF run
  <2> QED
    BY <1>4, <2>1, <2>2
<1>11. CASE Reload
  BY <1>8, <1>11 DEF Reload, FlushesPosted
<1>12. CASE UNCHANGED clientVars \/ UNCHANGED vars
  BY <1>3, <1>12 DEF clientVars, vars
<1>13. ASSUME NEW m \in Message,
              Send(m) \/ SendResolves(m) \/ SendThrows(m) \/ PersistQueueItem(m) \/ WorkerPosts(m)
       PROVE  FlushesPosted'
  BY <1>3, <1>13 DEF Send, SendResolves, SendThrows, PersistQueueItem, WorkerPosts
<1>14. CASE Sync \/ WorkerAnswered \/ WorkerStops
  BY <1>3, <1>14 DEF Sync, WorkerAnswered, WorkerStops
<1> QED
  BY <1>5, <1>6, <1>7, <1>9, <1>10, <1>11, <1>12, <1>13, <1>14 DEF Next

(* The request the worker waits for has arrived.                            *)
LEMMA WorkerPostedStep ==
    ASSUME Inv, [Next]_vars
    PROVE  WorkerPosted'
<1>1. PostsGrow /\ TypeOK /\ StoreInv /\ WorkerPosted
  BY StoreSide DEF Inv
<1>2. CASE worker'.post = worker.post
  BY <1>1, <1>2 DEF PostsGrow, WorkerPosted
<1>3. CASE worker'.post = Nobody
  BY <1>3 DEF WorkerPosted
<1>4. ASSUME NEW m \in Message, WorkerPosts(m)
      PROVE  WorkerPosted'
  <2>1. LastPost \in DOMAIN posts'
    BY <1>1, <1>4, LastPostType, OutboxAssumption DEF WorkerPosts
  <2>2. worker'.post = LastPost
    BY <1>1, <1>4 DEF WorkerPosts, TypeOK
  <2> QED
    BY <2>1, <2>2 DEF WorkerPosted
<1>5. CASE Sync
  BY <1>1, <1>2, <1>5 DEF Sync, TypeOK
<1>6. CASE WorkerAnswered \/ WorkerStops
  BY <1>3, <1>6 DEF WorkerAnswered, WorkerStops, Resting
<1>7. CASE UNCHANGED worker
  BY <1>2, <1>7
<1> QED
  BY <1>4, <1>5, <1>6, <1>7
     DEF Next, vars, clientVars, Send, SendResolves, SendThrows, PersistQueueItem,
         Flush, FlushPosts, FlushResolves, FlushThrows, RemoveQueueItem, Reload

(* What the worker deletes was stored: its answer names a row.              *)
LEMMA WorkerDeletesStored ==
    ASSUME Inv, WorkerAnswered, NEW m \in saved \ saved'
    PROVE  Stored(m)
<1> DEFINE p == worker.post
<1>1. m = posts[p].msg /\ posts[p].pc = "answered" /\ p # Nobody
  BY DEF WorkerAnswered
<1>2. p \in DOMAIN posts
  BY <1>1 DEF Inv, WorkerPosted
<1>3. /\ posts[p].answer \in DOMAIN posts
      /\ posts[posts[p].answer].row # "none"
      /\ posts[posts[p].answer].msg = posts[p].msg
  BY <1>1, <1>2 DEF Inv, StoreInv, AnswersNameRows
<1> HIDE DEF p
<1> QED
  BY <1>1, <1>3 DEF Stored

(* A flush removes what it has posted, the worker what is stored; a reload  *)
(* that loses what was not written yet makes the composer forget it.        *)
LEMMA QueuedIsKeptStep ==
    ASSUME Inv, [Next]_vars
    PROVE  QueuedIsKept'
<1> SUFFICES ASSUME NEW m \in Message, composer'[m] = "queued"
             PROVE  m \in saved' \cup persisting' \/ Flushed(m)' \/ Stored(m)'
  BY DEF QueuedIsKept
<1>1. (Flushed(m) => Flushed(m)') /\ (Stored(m) => Stored(m)')
  BY StoreSide, GrowthKeeps
<1>2. TypeOK /\ StoreInv /\ FlushesPosted /\ QueuedIsKept
  BY DEF Inv
<1>3. CASE composer[m] = "queued" /\ saved \cup persisting \subseteq saved' \cup persisting'
  BY <1>1, <1>2, <1>3 DEF QueuedIsKept
<1>4. ASSUME NEW r \in Run, RemoveQueueItem(r)
      PROVE  m \in saved' \cup persisting' \/ Flushed(m)' \/ Stored(m)'
  <2>1. CASE m = Head(runs[r].pending)
    BY <1>1, <1>2, <1>4, <2>1 DEF RemoveQueueItem, FlushesPosted
  <2>2. CASE m # Head(runs[r].pending)
    BY <1>1, <1>2, <1>4, <2>2 DEF RemoveQueueItem, QueuedIsKept
  <2> QED
    BY <2>1, <2>2
<1>5. CASE WorkerAnswered
  <2>1. CASE m \in saved \ saved'
    BY <1>1, <1>5, <2>1, WorkerDeletesStored
  <2>2. CASE m \notin saved \ saved'
    BY <1>1, <1>2, <1>5, <2>2 DEF WorkerAnswered, QueuedIsKept
  <2> QED
    BY <2>1, <2>2
<1>6. CASE Reload
  <2>1. composer[m] = "queued" /\ m \notin persisting /\ saved' = saved
    BY <1>2, <1>6 DEF Reload, TypeOK
  <2> QED
    BY <1>1, <1>2, <2>1 DEF QueuedIsKept
<1>7. ASSUME NEW n \in Message, SendThrows(n)
      PROVE  m \in saved' \cup persisting' \/ Flushed(m)' \/ Stored(m)'
  <2>1. CASE m = n
    BY <1>7, <2>1 DEF SendThrows
  <2>2. CASE m # n
    BY <1>2, <1>3, <1>7, <2>2 DEF SendThrows, TypeOK
  <2> QED
    BY <2>1, <2>2
<1>8. ASSUME NEW n \in Message, Send(n) \/ SendResolves(n)
      PROVE  m \in saved' \cup persisting' \/ Flushed(m)' \/ Stored(m)'
  BY <1>2, <1>3, <1>8 DEF Send, SendResolves, TypeOK
<1>9. ASSUME NEW n \in Message, PersistQueueItem(n) \/ WorkerPosts(n)
      PROVE  m \in saved' \cup persisting' \/ Flushed(m)' \/ Stored(m)'
  BY <1>3, <1>9 DEF PersistQueueItem, WorkerPosts
<1>10. ASSUME NEW r \in Run, Flush(r) \/ FlushPosts(r) \/ FlushResolves(r) \/ FlushThrows(r)
       PROVE  m \in saved' \cup persisting' \/ Flushed(m)' \/ Stored(m)'
  BY <1>3, <1>10 DEF Flush, FlushPosts, FlushResolves, FlushThrows
<1>11. CASE Sync \/ WorkerStops
  BY <1>3, <1>11 DEF Sync, WorkerStops
<1>12. CASE UNCHANGED clientVars \/ UNCHANGED vars
  BY <1>3, <1>12 DEF clientVars, vars
<1> QED
  BY <1>4, <1>5, <1>6, <1>7, <1>8, <1>9, <1>10, <1>11, <1>12 DEF Next

(* The invariant is inductive.                                              *)
LEMMA InvStep == Inv /\ [Next]_vars => Inv'
BY StoreSide, TypeStep, FlushesPostedStep, WorkerPostedStep, QueuedIsKeptStep DEF Inv

(* It holds in every state of the specification.                            *)
LEMMA Invariance == Spec => []Inv
BY InvInit, InvStep, PTL DEF Spec

-----------------------------------------------------------------------------
(* The store and the client stay in their types.                            *)
THEOREM TypeCorrect == Spec => []TypeOK
<1>1. Inv => TypeOK
  BY DEF Inv
<1> QED
  BY <1>1, Invariance, PTL

(* However the composer, the flushes and the worker repeat a message, it    *)
(* has one row as it was sent.                                              *)
THEOREM MessagesAreStoredOnce == Spec => []StoredOnce
<1>1. Inv => StoredOnce
  BY InvariantSuffices DEF Inv
<1> QED
  BY <1>1, Invariance, PTL

(* Every answer names a row of its message, and the same one as long as     *)
(* that row is as it was sent.                                              *)
THEOREM AnswersAgree == Spec => []AnswersHold
<1>1. Inv => AnswersHold
  BY InvariantSuffices DEF Inv
<1> QED
  BY <1>1, Invariance, PTL

(* A queued message is on disk, or about to be, until a flush has posted it *)
(* or it is stored.                                                         *)
THEOREM QueueIsKept == Spec => []QueuedIsKept
<1>1. Inv => QueuedIsKept
  BY DEF Inv
<1> QED
  BY <1>1, Invariance, PTL

(* The service worker deletes only what is stored.                          *)
THEOREM WorkerIsSafe == Spec => WorkerKeepsUnsent
<1>1. Inv /\ [Next]_vars => [worker' # worker => \A m \in saved \ saved' : Stored(m)]_vars
  <2> SUFFICES ASSUME Inv, Next, worker' # worker, NEW m \in saved \ saved'
               PROVE  Stored(m)
    OBVIOUS
  <2>1. CASE WorkerAnswered
    BY <2>1, WorkerDeletesStored
  <2>2. CASE ~WorkerAnswered
    BY <2>2
       DEF Next, clientVars, Send, SendResolves, SendThrows, PersistQueueItem, WorkerPosts,
           Flush, FlushPosts, FlushResolves, FlushThrows, RemoveQueueItem,
           Sync, WorkerStops, Reload
  <2> QED
    BY <2>1, <2>2
<1> QED
  BY <1>1, Invariance, PTL DEF Spec, WorkerKeepsUnsent

=============================================================================
