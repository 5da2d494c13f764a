------------------------------ MODULE ChatRoom ------------------------------
(***************************************************************************)
(* The Durable Object of one conversation                                  *)
(* (src/backend/src/durable-objects/ChatRoom.ts): its sockets, what it     *)
(* announces of its members' presence, and the two sliding windows, of     *)
(* relayed messages and of media frames, that it keeps in memory for each  *)
(* user.  Clients are arbitrary: a socket sends and ends at any time.      *)
(*                                                                         *)
(* Which members a relayed message goes to changes nothing here; receipts  *)
(* are not stored, the web client encrypts the id they would name.         *)
(***************************************************************************)
EXTENDS Integers, Sequences, FiniteSets

CONSTANTS Devices, Users,
          UserOf,       \* the account a device is logged in to
          Sockets,      \* connections, reused once both ends are done
          Kinds,        \* of media frames, "audio" and "video"
          Sizes,        \* lengths of the base64 frames sent
          Window,       \* the second both windows cover, 1000 ms
          Idle,         \* how long the room is idle before it hibernates
          Limit,        \* messages of a user in the window, 30
          MaxFps,       \* frames in the window that a frame of a kind may join
          MaxFrame,     \* length of a frame of a kind
          MaxBytes,     \* MAX_BYTES_PER_SEC
          MaxTime,      \* bound of the clock
          MaxEvents     \* bound: what members do and what fails

ASSUME RoomAssumption ==
    /\ UserOf \in [Devices -> Users]
    /\ Sizes \subseteq Nat /\ MaxFps \in [Kinds -> Nat] /\ MaxFrame \in [Kinds -> Nat]
    /\ Window \in Nat /\ Idle \in Nat /\ Idle >= Window
    /\ Limit \in Nat \ {0} /\ MaxBytes \in Nat
    /\ MaxTime \in Nat /\ MaxEvents \in Nat

VARIABLES
    room,             \* the room's end of each socket
    device,           \* its attachment: the device it was accepted for
    announced,        \* the last presence broadcast of each user
    msgRateWindow,    \* when the user's recent messages were relayed
    mediaRateWindow,  \* when their recent frames were, and the bytes counted
    now,              \* the clock
    events,           \* what members did and what failed so far
    \* what the properties speak of
    relayed,          \* all messages relayed since a socket of the user ended
    framed            \* and all frames, with the bytes relayed before and up to each

roomVars == <<room, device, announced, msgRateWindow, mediaRateWindow, now, events,
              relayed, framed>>

NoFrames == [t |-> <<>>, bytes |-> 0]

RoomInit ==
    /\ room = [s \in Sockets |-> "none"]
    /\ device \in [Sockets -> Devices]
    /\ \A s, r \in Sockets : device[s] = device[r]
    /\ announced = [u \in Users |-> "nothing"]
    /\ msgRateWindow = [u \in Users |-> <<>>]
    /\ mediaRateWindow = [u \in Users |-> NoFrames]
    /\ now = 0 /\ events = 0
    /\ relayed = [u \in Users |-> <<>>]
    /\ framed = [u \in Users |-> <<>>]

windows == <<msgRateWindow, mediaRateWindow, relayed, framed>>

Event == events < MaxEvents /\ events' = events + 1

-----------------------------------------------------------------------------
(* handleWebSocket, which the router reaches with a ticket's user who is a  *)
(* member.                                                                  *)
Accept(s, d) ==
    /\ room[s] = "none"
    /\ room' = [r \in Sockets |->
           IF r = s THEN "open"
           ELSE IF room[r] = "open" /\ device[r] = d THEN "closing" ELSE room[r]]
    /\ device' = [device EXCEPT ![s] = d]
    /\ announced' = [announced EXCEPT ![UserOf[d]] = "online"]
    /\ UNCHANGED <<windows, now, events>>

(* Mutant: a socket that errs is not announced. *)
EndsQuietly(s) ==
    LET u == UserOf[device[s]] IN
    /\ room[s] # "none"
    /\ room' = [room EXCEPT ![s] = "none"]
    /\ msgRateWindow' = [msgRateWindow EXCEPT ![u] = <<>>]
    /\ mediaRateWindow' = [mediaRateWindow EXCEPT ![u] = NoFrames]
    /\ relayed' = [relayed EXCEPT ![u] = <<>>]
    /\ framed' = [framed EXCEPT ![u] = <<>>]
    /\ UNCHANGED <<device, announced, now, events>>

(* webSocketClose and webSocketError.                                       *)
SocketEnds(s) ==
    LET u == UserOf[device[s]] IN
    /\ room[s] # "none"
    /\ room' = [room EXCEPT ![s] = "none"]
    /\ msgRateWindow' = [msgRateWindow EXCEPT ![u] = <<>>]
    /\ mediaRateWindow' = [mediaRateWindow EXCEPT ![u] = NoFrames]
    /\ announced' = [announced EXCEPT ![u] = "offline"]
    /\ relayed' = [relayed EXCEPT ![u] = <<>>]
    /\ framed' = [framed EXCEPT ![u] = <<>>]
    /\ UNCHANGED <<device, now, events>>

(* Mutant: a message of exactly a second ago is dropped. *)
EvictEarly(times) ==
    LET start == CHOOSE k \in 0..Len(times) :
                     /\ \A i \in 1..k : now - times[i] >= Window
                     /\ k < Len(times) => now - times[k + 1] < Window
    IN SubSeq(times, start + 1, Len(times))

(* What remains of a window: its head is dropped while that is older than a *)
(* second.                                                                  *)
Evict(times) ==
    LET start == CHOOSE k \in 0..Len(times) :
                     /\ \A i \in 1..k : now - times[i] > Window
                     /\ k < Len(times) => now - times[k + 1] <= Window
    IN SubSeq(times, start + 1, Len(times))

(* handleMessage for a message that is not a media frame.                   *)
HandleMessage(s) ==
    LET u == UserOf[device[s]]
        recent == Evict(msgRateWindow[u])
        allowed == Len(recent) < Limit
    IN
    /\ room[s] # "none" /\ Event
    /\ msgRateWindow' = [msgRateWindow EXCEPT ![u] =
           IF allowed THEN Append(recent, now) ELSE recent]
    /\ relayed' = [relayed EXCEPT ![u] = IF allowed THEN Append(@, now) ELSE @]
    /\ UNCHANGED <<room, device, announced, mediaRateWindow, framed, now>>

Bytes(size) == (size * 3) \div 4

(* Mutant: one frame more. *)
AllowsOneMore(win, kind, size) ==
    /\ size <= MaxFrame[kind]
    /\ Len(win.t) <= MaxFps[kind]
    /\ win.bytes + Bytes(size) <= MaxBytes

AllowMediaFrame(win, kind, size) ==
    /\ size <= MaxFrame[kind]
    /\ Len(win.t) < MaxFps[kind]
    /\ win.bytes + Bytes(size) <= MaxBytes

(* handleMessage for a frame. *)
HandleFrame(s, kind, size) ==
    LET u == UserOf[device[s]]
        t == Evict(mediaRateWindow[u].t)
        bytes == IF t = <<>> THEN 0 ELSE mediaRateWindow[u].bytes
        allowed == AllowMediaFrame([t |-> t, bytes |-> bytes], kind, size)
        relayedBytes == IF framed[u] = <<>> THEN 0 ELSE framed[u][Len(framed[u])].upto
    IN
    /\ room[s] # "none" /\ Event
    /\ mediaRateWindow' = [mediaRateWindow EXCEPT ![u] =
           IF allowed THEN [t |-> Append(t, now), bytes |-> bytes + Bytes(size)]
           ELSE [t |-> t, bytes |-> bytes]]
    /\ framed' = [framed EXCEPT ![u] =
           IF allowed THEN Append(@, [at |-> now, kind |-> kind, from |-> relayedBytes,
                                      upto |-> relayedBytes + Bytes(size)]) ELSE @]
    /\ room' = IF allowed THEN room ELSE [room EXCEPT ![s] = "closing"]
    /\ UNCHANGED <<device, announced, msgRateWindow, relayed, now>>

(* The runtime evicts an idle room from memory and keeps its sockets; the   *)
(* constructor finds the windows empty.                                     *)
Hibernate ==
    /\ \A u \in Users : \A i \in DOMAIN msgRateWindow[u] : now - msgRateWindow[u][i] > Idle
    /\ \A u \in Users : \A i \in DOMAIN mediaRateWindow[u].t :
           now - mediaRateWindow[u].t[i] > Idle
    /\ msgRateWindow' = [u \in Users |-> <<>>]
    /\ mediaRateWindow' = [u \in Users |-> NoFrames]
    /\ UNCHANGED <<room, device, announced, now, events, relayed, framed>>

(* Time that passes while nothing was relayed is not counted.               *)
Tick ==
    /\ \E u \in Users : relayed[u] # <<>> \/ framed[u] # <<>>
    /\ now < MaxTime /\ now' = now + 1
    /\ UNCHANGED <<room, device, announced, windows, events>>

(* What a member does, or what fails, without the room.                     *)
Outside == Event /\ UNCHANGED <<room, device, announced, windows, now>>

RoomNext ==
    \/ \E s \in Sockets :
           \/ \E d \in Devices : Accept(s, d)
           \/ SocketEnds(s)
           \/ HandleMessage(s)
           \/ \E kind \in Kinds, size \in Sizes : HandleFrame(s, kind, size)
    \/ Hibernate
    \/ Tick
    \/ Outside

RoomSpec == RoomInit /\ [][RoomNext]_roomVars

-----------------------------------------------------------------------------
(* While no socket of a user ends, of any Limit + 1 messages of theirs that *)
(* are relayed one after the other the last comes more than a second after  *)
(* the first, whichever sockets they use and though the room hibernates.    *)
RelayedWithinLimit ==
    \A u \in Users : \A i \in DOMAIN relayed[u] :
        i + Limit \in DOMAIN relayed[u] =>
            relayed[u][i + Limit] - relayed[u][i] > Window

(* And of the frames relayed within a second, as many as the last one's     *)
(* kind may join and no more bytes than MAX_BYTES_PER_SEC.                  *)
FramesWithinLimit ==
    \A u \in Users : \A i, j \in DOMAIN framed[u] :
        LET f == framed[u] IN
        i <= j /\ f[j].at - f[i].at <= Window =>
            /\ j - i < MaxFps[f[j].kind]
            /\ f[j].upto - f[i].from <= MaxBytes

(* A user none of whose sockets is left is last announced offline: no       *)
(* replaced socket, loss or limit leaves a departed member online.          *)
GoneIsOffline ==
    \A u \in Users :
        (\A s \in Sockets : room[s] # "none" => UserOf[device[s]] # u)
            => announced[u] # "online"
=============================================================================
