----------------------------- MODULE RoomPages ------------------------------
(***************************************************************************)
(* Pages of the web client that show the conversation of a ChatRoom: how   *)
(* connectWebSocket of src/web/src/chat/chat.ts opens, loses and reopens   *)
(* their socket.  Two tabs of a browser share a device and so replace each *)
(* other's socket.                                                         *)
(*                                                                         *)
(* The delay of a reconnect is not modelled, so its attempt counter isn't; *)
(* nor is the open event, which flushes the queue (module Outbox).         *)
(***************************************************************************)
EXTENDS ChatRoom

CONSTANTS Pages, DeviceOf, None

ASSUME PageAssumption ==
    DeviceOf \in [Pages -> Devices] /\ Sockets \subseteq Nat /\ None \notin Sockets \cup Pages

VARIABLES
    watching,   \* the page has the conversation open
    loading,    \* openConversation calls that await loadMessages
    asking,     \* connectWebSocket calls that await their first, second ticket
    timers,     \* reconnects scheduled
    ws,         \* state.ws
    side,       \* the page's end of each socket
    page,       \* the page that created it
    gaveUp      \* "Please refresh", since the conversation was last opened

pageVars == <<watching, loading, asking, timers, ws, side, page, gaveUp>>
vars == <<roomVars, pageVars>>

Init ==
    /\ RoomInit
    /\ watching = [p \in Pages |-> FALSE]
    /\ loading = [p \in Pages |-> 0]
    /\ asking = [p \in Pages |-> <<0, 0>>]
    /\ timers = [p \in Pages |-> 0]
    /\ ws = [p \in Pages |-> None]
    /\ side = [s \in Sockets |-> "free"]
    /\ page = [s \in Sockets |-> None]
    /\ gaveUp = [p \in Pages |-> FALSE]

Free(s) == side[s] = "free" /\ room[s] = "none"

(* connectWebSocket up to its first await *)
ConnectWebSocket(p) ==
    /\ side' = IF ws[p] = None THEN side ELSE [side EXCEPT ![ws[p]] = "closed"]
    /\ ws' = [ws EXCEPT ![p] = None]
    /\ asking' = [asking EXCEPT ![p][1] = @ + 1]

(* openConversation, also of the conversation that is open *)
OpenConversation(p) ==
    /\ Outside
    /\ watching' = [watching EXCEPT ![p] = TRUE]
    /\ gaveUp' = [gaveUp EXCEPT ![p] = FALSE]
    /\ loading' = [loading EXCEPT ![p] = @ + 1]
    /\ UNCHANGED <<asking, timers, ws, side, page>>

MessagesLoaded(p) ==
    /\ loading[p] > 0
    /\ loading' = [loading EXCEPT ![p] = @ - 1]
    /\ ConnectWebSocket(p)
    /\ UNCHANGED <<roomVars, watching, timers, page, gaveUp>>

(* The back button. *)
Back(p) ==
    /\ watching[p]
    /\ watching' = [watching EXCEPT ![p] = FALSE]
    /\ UNCHANGED <<roomVars, loading, asking, timers, ws, side, page, gaveUp>>

(* A ticket arrives: new WebSocket. *)
Ticket(p, n) ==
    /\ asking[p][n] > 0
    /\ asking' = [asking EXCEPT ![p][n] = @ - 1]
    /\ \E s \in Sockets :
           /\ Free(s) /\ \A r \in Sockets : Free(r) => s <= r
           /\ ws' = [ws EXCEPT ![p] = s]
           /\ side' = [side EXCEPT ![s] = "connecting"]
           /\ page' = [page EXCEPT ![s] = p]
    /\ UNCHANGED <<roomVars, watching, loading, timers, gaveUp>>

(* Mutant: the request of a ticket is not retried. *)
NotRetried(p, n) ==
    /\ asking[p][n] > 0 /\ Outside
    /\ asking' = [asking EXCEPT ![p][n] = @ - 1]
    /\ UNCHANGED <<watching, loading, timers, ws, side, page, gaveUp>>

NoTicket(p, n) ==
    /\ asking[p][n] > 0 /\ Outside
    /\ asking' = [asking EXCEPT ![p] = IF n = 1 THEN <<@[1] - 1, @[2] + 1>> ELSE <<@[1], @[2] - 1>>]
    /\ gaveUp' = [gaveUp EXCEPT ![p] = @ \/ n = 2]
    /\ UNCHANGED <<watching, loading, timers, ws, side, page>>

(* The socket is accepted by the room, or is not. *)
Connected(s) ==
    /\ side[s] = "connecting"
    /\ Accept(s, DeviceOf[page[s]])
    /\ side' = [side EXCEPT ![s] = "open"]
    /\ UNCHANGED <<watching, loading, asking, timers, ws, page, gaveUp>>

Lost(s) ==
    /\ side[s] \in {"connecting", "open"} /\ Outside
    /\ side' = [side EXCEPT ![s] = "closed"]
    /\ UNCHANGED <<watching, loading, asking, timers, ws, page, gaveUp>>

(* The close event of the page: whichever socket it is of, state.ws is      *)
(* cleared and a reconnect scheduled.                                       *)
Closed(s) ==
    LET p == page[s] IN
    /\ side[s] = "closed" \/ (side[s] = "open" /\ room[s] # "open")
    /\ side' = [side EXCEPT ![s] = "free"]
    /\ ws' = [ws EXCEPT ![p] = None]
    /\ timers' = [timers EXCEPT ![p] = @ + 1]
    /\ page' = [page EXCEPT ![s] = None]
    /\ UNCHANGED <<roomVars, watching, loading, asking, gaveUp>>

Reconnect(p) ==
    /\ timers[p] > 0
    /\ timers' = [timers EXCEPT ![p] = @ - 1]
    /\ IF watching[p] /\ ws[p] = None THEN ConnectWebSocket(p) ELSE UNCHANGED <<side, ws, asking>>
    /\ UNCHANGED <<roomVars, watching, loading, page, gaveUp>>

(* The room's event, once either side has closed. *)
Ended(s) == (side[s] # "open" \/ room[s] = "closing") /\ SocketEnds(s) /\ UNCHANGED pageVars

(* Typing events and receipts; the frames stand for those of the Android    *)
(* client, which sends them here while its inbox is not connected.          *)
Send(s) ==
    /\ side[s] = "open"
    /\ HandleMessage(s) \/ \E kind \in Kinds, size \in Sizes : HandleFrame(s, kind, size)
    /\ UNCHANGED pageVars

Next ==
    \/ \E p \in Pages :
           \/ OpenConversation(p) \/ MessagesLoaded(p) \/ Back(p) \/ Reconnect(p)
           \/ \E n \in 1..2 : Ticket(p, n) \/ NoTicket(p, n)
    \/ \E s \in Sockets : Connected(s) \/ Lost(s) \/ Closed(s) \/ Ended(s) \/ Send(s)
    \/ (Hibernate \/ Tick) /\ UNCHANGED pageVars

(* Requests are answered, connections made, close events delivered and      *)
(* timers fire.  A ticket never waits for a socket, so that it does for one *)
(* of the few here is made up for by strong fairness.                       *)
Fairness ==
    /\ \A p \in Pages :
           /\ WF_vars(MessagesLoaded(p)) /\ WF_vars(Reconnect(p))
           /\ \A n \in 1..2 : SF_vars(Ticket(p, n))
    /\ \A s \in Sockets : WF_vars(Connected(s)) /\ WF_vars(Closed(s)) /\ WF_vars(Ended(s))

Spec == Init /\ [][Next]_vars /\ Fairness

-----------------------------------------------------------------------------
Live(p) == \E s \in Sockets : page[s] = p /\ side[s] = "open" /\ room[s] = "open"

(* A page that keeps the conversation open is connected again and again,    *)
(* though its sockets are lost, cut off or replaced by another tab's, or    *)
(* the close event of an old socket clears the new one; unless two ticket   *)
(* requests of one attempt failed and the page said so.                     *)
StaysConnected ==
    \A p \in Pages : []<>(~watching[p] \/ gaveUp[p] \/ Live(p))
=============================================================================
