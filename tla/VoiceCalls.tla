----------------------------- MODULE VoiceCalls -----------------------------
(***************************************************************************)
(* One-to-one calls: src/web/src/calls/calls.ts over the user inboxes of   *)
(* src/backend/src/durable-objects/UserInbox.ts.  Every handler of         *)
(* calls.ts is an async function; what it does up to its first await and   *)
(* what it does after it are separate steps, and between the two any other *)
(* handler of the same page may run.                                       *)
(*                                                                         *)
(* Each user has one conversation with each other user, so conversationId  *)
(* is abstracted to `conv`, whether it is set.  Video follows the voice    *)
(* path step for step and is not told apart from it.                       *)
(***************************************************************************)
EXTENDS Naturals, FiniteSets, Bags

CONSTANTS Devices,     \* browser pages, each logged in to one account
          Users,
          UserOf,      \* the account of each device
          CallIds,     \* what randomId() returns; each is used once
          Null,
          MaxClicks,   \* acceptances of one call under way at once
          MaxTrouble   \* races and faults of a behaviour

ASSUME CallAssumption ==
    /\ UserOf \in [Devices -> Users]
    /\ CallIds \subseteq Nat /\ Null \notin CallIds \cup Users \cup Devices
    /\ MaxTrouble \in Nat /\ MaxClicks \in Nat

VARIABLES
    call,      \* callState of each page
    tasks,     \* its suspended async functions, a bag
    mics,      \* how many VoiceWS hold the microphone
    sock,      \* the inbox socket: its generation and whether it is open
    net,       \* signaling messages between the sockets, a bag, unordered
    \* what the properties speak of
    caller,    \* the device that created each call
    accepted,  \* the calls each device accepted before a race
    left,      \* the call each device is in though the other side hung up
    races,     \* events that found a function of their page suspended
    faults     \* socket losses and failed encryptions

vars == <<call, tasks, mics, sock, net, caller, accepted, left, races,
          faults>>

Task(kind, c, u, conv, ws) ==
    [kind |-> kind, id |-> c, peer |-> u, conv |-> conv, ws |-> ws]

One(x) == SetToBag({x})

DevicesOf(u) == {d \in Devices : UserOf[d] = u}

(* readyState === OPEN of the socket of generation ws *)
Open(d, ws) == sock[d].open /\ sock[d].gen = ws

Awaiting(d) == tasks[d] # EmptyBag

(* An event loop turn of d that is not the resumption of a function; it is  *)
(* a race when it finds one suspended.                                      *)
Event(d) ==
    IF Awaiting(d) THEN races + faults < MaxTrouble /\ races' = races + 1
    ELSE UNCHANGED races

-----------------------------------------------------------------------------
(* UserInbox: a message goes to every device of its target and is echoed   *)
(* to the sender's other devices.                                          *)
Routed(d, type, c, u, conv) ==
    SetToBag({[type |-> type, id |-> c, from |-> UserOf[d], conv |-> conv,
               to |-> e] :
              e \in DevicesOf(u) \cup (DevicesOf(UserOf[d]) \ {d})})

(* ws.send: what is sent on a socket that has closed is discarded. *)
Sent(d, ws, type, c, u, conv) ==
    IF Open(d, ws) /\ u # Null THEN Routed(d, type, c, u, conv) ELSE EmptyBag

(* What endCall leaves of the state k: the socket.                          *)
IdleCall(k) ==
    [id |-> Null, conv |-> FALSE, peer |-> Null, status |-> "idle", voice |-> Null,
     ws |-> k.ws]

(* VoiceWS.stop of the one the page holds.                                  *)
Stopped(d, k) == [mics EXCEPT ![d] = IF k.voice # Null THEN @ - 1 ELSE @]

(* endCall on the state k, with `rest` the other suspended functions.       *)
EndCall(d, k, notify, rest) ==
    LET tells == notify /\ k.id # Null /\ k.conv /\ Open(d, k.ws) IN
    /\ tasks' = [tasks EXCEPT ![d] =
           IF tells THEN rest (+) One(Task("bye", k.id, k.peer, FALSE, 0)) ELSE rest]
    /\ mics' = Stopped(d, k)
    /\ call' = [call EXCEPT ![d] = IdleCall(k)]
    /\ left' = [e \in Devices |->
           IF e = d THEN {}
           ELSE IF tells /\ call[e].id = k.id /\ UserOf[e] = k.peer THEN {k.id}
           ELSE left[e]]

(* The status becomes connected and startVoiceWS runs up to getUserMedia. *)
Connect(d, rest) ==
    LET k == call[d] IN
    /\ call' = [call EXCEPT ![d].status = "connected"]
    /\ tasks' = [tasks EXCEPT ![d] =
           IF k.voice = Null /\ k.id # Null
           THEN rest (+) One(Task("mic", k.id, Null, FALSE, 0)) ELSE rest]

Add(d, t) == tasks' = [tasks EXCEPT ![d] = @ (+) One(t)]
Fault == races + faults < MaxTrouble /\ faults' = faults + 1

-----------------------------------------------------------------------------
(* The caller. *)
StartOutgoingCall(d, u, c) ==
    /\ \A b \in CallIds : b < c => caller[b] # Null    \* ids in order
    /\ call[d].status = "idle" /\ sock[d].open
    /\ u # UserOf[d] /\ caller[c] = Null
    /\ caller' = [caller EXCEPT ![c] = d]
    /\ call' = [call EXCEPT ![d] =
           [@ EXCEPT !.id = c, !.conv = TRUE, !.peer = u, !.status = "outgoing",
                     !.ws = sock[d].gen]]
    /\ Add(d, Task("offer", c, u, TRUE, sock[d].gen))
    /\ Event(d)
    /\ UNCHANGED <<mics, sock, net, accepted, left, faults>>

(* encryptSignaling reads conversationId again once it has encrypted. *)
OfferEncrypted(d, t) ==
    /\ t.kind = "offer"
    /\ net' = net (+) Sent(d, t.ws, "call_offer", t.id, t.peer, call[d].conv)
    /\ tasks' = [tasks EXCEPT ![d] = @ (-) One(t)]
    /\ UNCHANGED <<call, mics, left, faults>>

HandleCallAnswer(d, m) ==
    /\ m.type = "call_answer"
    /\ Add(d, Task("answer", m.id, Null, FALSE, 0))
    /\ net' = net (-) One(m)

(* Mutant: the answer is not compared with the current call.                *)
AnyCallAnswered(d, t) ==
    /\ t.kind = "answer"
    /\ Connect(d, tasks[d] (-) One(t))
    /\ UNCHANGED <<net, mics, left, faults>>

CallAnswered(d, t) ==
    /\ t.kind = "answer"
    /\ LET rest == tasks[d] (-) One(t) IN
       IF call[d].id = t.id THEN Connect(d, rest)
       ELSE tasks' = [tasks EXCEPT ![d] = rest] /\ UNCHANGED call
    /\ UNCHANGED <<net, mics, left, faults>>

-----------------------------------------------------------------------------
(* Mutant: a busy page does not answer.                                     *)
NoBusy(d, m) == EmptyBag

(* A page that is not idle answers at once and in the clear.                *)
Busy(d, m) == Sent(d, sock[d].gen, "call_end", m.id, m.from, TRUE)

(* The callee.                                                              *)
HandleIncomingCallOffer(d, m) ==
    /\ m.type = "call_offer"
    /\ IF call[d].status # "idle"
       THEN net' = (net (-) One(m)) (+) Busy(d, m) /\ UNCHANGED tasks
       ELSE /\ Add(d, Task("ring", m.id, m.from, m.conv, sock[d].gen))
            /\ net' = net (-) One(m)

(* After decryptSignaling the state is written without a second look. *)
Ring(d, t) ==
    /\ t.kind = "ring"
    /\ call' = [call EXCEPT ![d] =
           [@ EXCEPT !.id = t.id, !.conv = t.conv, !.peer = t.peer,
                     !.status = "incoming", !.ws = t.ws]]
    /\ tasks' = [tasks EXCEPT ![d] = @ (-) One(t)]
    /\ UNCHANGED <<net, mics, left, faults>>

(* The 30 s timer of a ring fires once, and only while that call rings does *)
(* it do anything: it is armed exactly as long as the call is incoming.     *)
RingTimeout(d) ==
    /\ call[d].status = "incoming"
    /\ EndCall(d, call[d], TRUE, tasks[d])
    /\ Event(d)
    /\ UNCHANGED <<sock, net, caller, accepted, faults>>

(* acceptCall up to the await; a second click may come before it is over. *)
AcceptCall(d) ==
    /\ call[d].status = "incoming" /\ call[d].id # Null
    /\ LET t == Task("accept", call[d].id, call[d].peer, TRUE, 0) IN
       /\ BagIn(t, tasks[d]) => tasks[d][t] < MaxClicks
       /\ IF call[d].conv
          THEN Add(d, t) /\ UNCHANGED <<call, mics, left>>
          ELSE EndCall(d, call[d], TRUE, tasks[d])
    /\ Event(d)
    /\ accepted' = IF races' > 0 THEN accepted
                   ELSE [accepted EXCEPT ![d] = @ \cup {call[d].id}]
    /\ UNCHANGED <<sock, net, caller, faults>>

CallAccepted(d, t) ==
    /\ t.kind = "accept"
    /\ net' = net (+) Sent(d, call[d].ws, "call_answer", t.id, t.peer, TRUE)
    /\ Connect(d, tasks[d] (-) One(t))
    /\ UNCHANGED <<mics, left, faults>>

-----------------------------------------------------------------------------
(* Either side. *)
HangUp(d) ==
    /\ call[d].id # Null
    /\ EndCall(d, call[d], TRUE, tasks[d])
    /\ Event(d)
    /\ UNCHANGED <<sock, net, caller, accepted, faults>>

(* endCall's notification, encrypted after the state was reset. *)
EndEncrypted(d, t) ==
    /\ t.kind = "bye"
    /\ net' = net (+) Sent(d, call[d].ws, "call_end", t.id, t.peer, TRUE)
    /\ tasks' = [tasks EXCEPT ![d] = @ (-) One(t)]
    /\ UNCHANGED <<call, mics, left, faults>>

HandleCallEnd(d, m) ==
    /\ m.type = "call_end"
    /\ Add(d, Task("end", m.id, Null, FALSE, 0))
    /\ net' = net (-) One(m)

(* Mutant: a page that still rings does not hear that the caller is gone.   *)
ConnectedCallEnded(d, t) ==
    /\ t.kind = "end"
    /\ LET rest == tasks[d] (-) One(t) IN
       IF call[d].id = t.id /\ call[d].status = "connected"
       THEN EndCall(d, call[d], FALSE, rest)
       ELSE tasks' = [tasks EXCEPT ![d] = rest] /\ UNCHANGED <<call, mics, left>>
    /\ UNCHANGED <<net, faults>>

CallEnded(d, t) ==
    /\ t.kind = "end"
    /\ LET rest == tasks[d] (-) One(t) IN
       IF call[d].id = t.id THEN EndCall(d, call[d], FALSE, rest)
       ELSE /\ tasks' = [tasks EXCEPT ![d] = rest]
            /\ UNCHANGED <<call, mics, left>>
    /\ UNCHANGED <<net, faults>>

(* startVoiceWS after getUserMedia: the page keeps the VoiceWS whatever has *)
(* become of the call.                                                      *)
MicrophoneOn(d, t) ==
    /\ t.kind = "mic"
    /\ call' = [call EXCEPT ![d].voice = t.id]
    /\ mics' = [mics EXCEPT ![d] = @ + 1]
    /\ tasks' = [tasks EXCEPT ![d] = @ (-) One(t)]
    /\ UNCHANGED <<net, left, faults>>

(* handleMediaError: no microphone, or encryptSignaling threw. *)
Failed(d, t) ==
    /\ \/ t.kind = "mic" /\ UNCHANGED faults
       \/ t.kind \in {"offer", "accept"} /\ Fault
    /\ EndCall(d, IF t.kind = "mic" THEN [call[d] EXCEPT !.voice = Null]
                  ELSE call[d], TRUE, tasks[d] (-) One(t))
    /\ UNCHANGED net

(* The rejection of endCall's encryptSignaling is not handled. *)
EndNotSent(d, t) ==
    /\ t.kind = "bye" /\ Fault
    /\ tasks' = [tasks EXCEPT ![d] = @ (-) One(t)]
    /\ UNCHANGED <<net, call, mics, left>>

(* A suspended function of d runs to its end. *)
Resume(d, t) ==
    /\ \/ OfferEncrypted(d, t) \/ CallAnswered(d, t) \/ Ring(d, t)
       \/ CallAccepted(d, t) \/ EndEncrypted(d, t) \/ CallEnded(d, t)
       \/ MicrophoneOn(d, t) \/ Failed(d, t) \/ EndNotSent(d, t)
    /\ UNCHANGED <<sock, caller, accepted, races>>

-----------------------------------------------------------------------------
(* The page's inbox listener (app.ts) dispatches a message. *)
Deliver(d, m) ==
    /\ m.to = d /\ sock[d].open
    /\ \/ HandleIncomingCallOffer(d, m)
       \/ HandleCallAnswer(d, m)
       \/ HandleCallEnd(d, m)
    /\ Event(d)
    /\ UNCHANGED <<call, mics, sock, caller, accepted, left, faults>>

(* The fan-out finds no open socket of d: nothing is kept for later. *)
NotDelivered(d, m) ==
    /\ m.to = d /\ ~sock[d].open
    /\ net' = net (-) One(m)
    /\ UNCHANGED <<call, tasks, mics, sock, caller, accepted, left,
                   races, faults>>

(* A socket closes; what was on its way to d is lost with it, or had not    *)
(* reached the socket yet.                                                  *)
SocketLost(d) ==
    /\ sock[d].open /\ Fault
    /\ sock' = [sock EXCEPT ![d].open = FALSE]
    /\ \/ UNCHANGED net
       \/ net' = [m \in {n \in BagToSet(net) : n.to # d} |-> net[m]]
    /\ UNCHANGED <<call, tasks, mics, caller, accepted, left, races>>

(* scheduleReconnect and connectInbox; callState.ws keeps the old socket. *)
ConnectInbox(d) ==
    /\ ~sock[d].open
    /\ sock' = [sock EXCEPT ![d] = [gen |-> @.gen + 1, open |-> TRUE]]
    /\ UNCHANGED <<call, tasks, mics, net, caller, accepted, left,
                   races, faults>>

-----------------------------------------------------------------------------
Init ==
    /\ call = [d \in Devices |->
           [id |-> Null, conv |-> FALSE, peer |-> Null, status |-> "idle",
            voice |-> Null, ws |-> 0]]
    /\ tasks = [d \in Devices |-> EmptyBag]
    /\ mics = [d \in Devices |-> 0]
    /\ sock = [d \in Devices |-> [gen |-> 1, open |-> TRUE]]
    /\ net = EmptyBag
    /\ caller = [c \in CallIds |-> Null]
    /\ accepted = [d \in Devices |-> {}]
    /\ left = [d \in Devices |-> {}]
    /\ races = 0 /\ faults = 0

Resumption(d) ==
    \/ \E t \in BagToSet(tasks[d]) : Resume(d, t)
    \/ RingTimeout(d)

Reception(d) == \E m \in BagToSet(net) : Deliver(d, m) \/ NotDelivered(d, m)

Next ==
    \E d \in Devices :
        \/ \E u \in Users, c \in CallIds : StartOutgoingCall(d, u, c)
        \/ AcceptCall(d) \/ HangUp(d)
        \/ SocketLost(d) \/ ConnectInbox(d)
        \/ Resumption(d) \/ Reception(d)

(* Promises settle, timers fire, sockets deliver and reconnect; what users  *)
(* do, and what fails, is up to them.                                       *)
Spec ==
    /\ Init /\ [][Next]_vars
    /\ \A d \in Devices :
          WF_vars(Resumption(d)) /\ WF_vars(Reception(d)) /\ WF_vars(ConnectInbox(d))

-----------------------------------------------------------------------------
(* Somebody accepted call i on page d: the callee there, or, if d placed   *)
(* it, the callee on some device.                                          *)
Accepted(d, i) ==
    IF caller[i] = d THEN \E e \in DevicesOf(call[d].peer) : i \in accepted[e]
    ELSE i \in accepted[d]

(* As long as no event falls between two halves of a handler, a page shows *)
(* "connected" only for a call that was accepted, and holds one microphone *)
(* for that call and none otherwise (handleCallAnswer, acceptCall,         *)
(* startVoiceWS, endCall).                                                 *)
MicrophoneMeansAccepted ==
    races = 0 => \A d \in Devices :
        /\ call[d].status = "connected" => call[d].id # Null /\ Accepted(d, call[d].id)
        /\ \/ mics[d] = 0 /\ call[d].voice = Null
           \/ /\ mics[d] = 1 /\ call[d].voice = call[d].id
              /\ call[d].status = "connected"

(* However handlers interleave and sockets fail, no page rings for ever    *)
(* (the 30 s timer of handleIncomingCallOffer).  Without a fault, and with *)
(* no event between two halves of a handler, an outgoing call comes to an  *)
(* answer or an end too, though the caller has no timer of its own: the    *)
(* callee answers, declines, is busy or times out (startOutgoingCall).     *)
CallsAreResolved ==
    \A d \in Devices :
        /\ []<>(call[d].status # "incoming")
        /\ []<>(call[d].status # "outgoing" \/ races + faults > 0)

(* However handlers interleave, without a fault a page that was in a call  *)
(* when the other side hung up leaves it (endCall, handleCallEnd).         *)
HangUpIsHeard ==
    \A d \in Devices : []<>(call[d].id \notin left[d] \/ faults > 0)

=============================================================================
