------------------------------ MODULE Meetings ------------------------------
(***************************************************************************)
(* A scheduled meeting: its rows in D1 (src/backend/src/meetings.ts) and   *)
(* its room, a durable object that stores one record                       *)
(* (src/backend/src/durable-objects/MeetingState.ts).  A request writes    *)
(* the rows and then tells the room; it can end in between.                *)
(*                                                                         *)
(* The id is a random one, so that nobody joins before it was given out.   *)
(* The input gate of a durable object lets no event in while one awaits    *)
(* the storage.  The lobby flag of a join never reaches the room.          *)
(***************************************************************************)
EXTENDS Naturals, FiniteSets

CONSTANTS Attendees,
          Host,          \* creates the meeting
          Roles,         \* what a join may ask for
          Joins,         \* joins under way at once
          MaxMeets       \* bound: joins and events

ASSUME MeetingAssumption == Host \in Attendees /\ "none" \notin Roles /\ MaxMeets \in Nat

VARIABLES
    meeting,   \* meetings: the status, "none" without a row
    seat,      \* meeting_participants: the role of each, "none" without a row
    joining,   \* the join requests: the statement that is next
    room,      \* the durable object's record
    met        \* joins and events so far

meetingVars == <<meeting, seat, joining, room, met>>

NoJoin == [next |-> "none", by |-> Host, role |-> "participant"]

Absent == [in |-> FALSE, role |-> "none", hand |-> FALSE]
Present(role) == [in |-> TRUE, role |-> role, hand |-> FALSE]

MeetingsInit ==
    /\ meeting = "none"
    /\ seat = [u \in Attendees |-> "none"]
    /\ joining = [j \in Joins |-> NoJoin]
    /\ room = [status |-> "scheduled", host |-> {}, locked |-> FALSE,
               people |-> [u \in Attendees |-> Absent]]
    /\ met = 0

Meet == met < MaxMeets /\ met' = met + 1

(* POST /api/meetings: two inserts; the second may be missing. *)
CreateMeeting ==
    /\ meeting = "none"
    /\ meeting' = "scheduled"
    /\ \/ seat' = [seat EXCEPT ![Host] = "host"] /\ UNCHANGED met
       \/ UNCHANGED seat /\ Meet
    /\ UNCHANGED <<joining, room>>

(* POST join; the page's joinMeeting, from a link. *)
Join(j, u, role) ==
    /\ meeting # "none" /\ joining[j] = NoJoin /\ Meet
    /\ joining' = [joining EXCEPT ![j] = [next |-> "seat", by |-> u, role |-> role]]
    /\ UNCHANGED <<meeting, seat, room>>

(* Mutant: the room is told before the status is written. *)
ToldEarly == [seat |-> "room", room |-> "status", status |-> "none"]

NextStep == [seat |-> "status", status |-> "room", room |-> "none"]

Proceed(j) ==
    LET next == NextStep[joining[j].next] IN
    joining' = [joining EXCEPT ![j] = IF next = "none" THEN NoJoin ELSE [@ EXCEPT !.next = next]]

(* The upsert overwrites the role and the state of the lobby. *)
TakeSeat(j) ==
    /\ joining[j].next = "seat"
    /\ seat' = [seat EXCEPT ![joining[j].by] = joining[j].role]
    /\ Proceed(j)
    /\ UNCHANGED <<meeting, room, met>>

GoLive(j) ==
    /\ joining[j].next = "status"
    /\ meeting' = "live"
    /\ Proceed(j)
    /\ UNCHANGED <<seat, room, met>>

(* applyEvent: every event adds its actor to the room, also one who left or  *)
(* was removed; the host of the room is the first who joins.                *)
Entered(u, role) ==
    IF room.people[u].in THEN room.people
    ELSE [room.people EXCEPT ![u] = Present(IF role # "none" THEN role
                                            ELSE IF u \in room.host THEN "host" ELSE "participant")]

TellRoom(j) ==
    LET u == joining[j].by IN
    /\ joining[j].next = "room"
    /\ room' = [room EXCEPT !.status = "live",
                            !.host = IF @ = {} THEN {u} ELSE @,
                            !.people[u] = Present(joining[j].role)]
    /\ Proceed(j)
    /\ UNCHANGED <<meeting, seat, met>>

JoinFails(j) ==
    /\ joining[j] # NoJoin
    /\ joining' = [joining EXCEPT ![j] = NoJoin]
    /\ UNCHANGED <<meeting, seat, room, met>>

HostOnly == {"lock", "unlock", "remove", "admit", "deny"}

Without(people, u) == [people EXCEPT ![u] = Absent]

(* POST event: some events are for the host of the row, nobody has to have   *)
(* joined.  The rows are not written: their status never becomes "ended".   *)
(* A join sent as an event would leave them behind; no client sends one.    *)
RoomEvent(u, event, target) ==
    LET here == Entered(u, "none")
        left == Without(here, u)
    IN
    /\ meeting # "none" /\ Meet
    /\ event \in HostOnly => u = Host
    /\ room' = CASE event = "leave" ->
                      [room EXCEPT !.people = left,
                                   !.status = IF \A v \in Attendees : ~left[v].in THEN "ended" ELSE @]
                 [] event = "raise" -> [room EXCEPT !.people = [here EXCEPT ![u].hand = TRUE]]
                 [] event = "lower" -> [room EXCEPT !.people = [here EXCEPT ![u].hand = FALSE]]
                 [] event \in {"lock", "unlock"} ->
                      [room EXCEPT !.people = here, !.locked = (event = "lock")]
                 [] event \in {"remove", "deny"} -> [room EXCEPT !.people = Without(here, target)]
                 [] OTHER -> [room EXCEPT !.people = here]
    /\ UNCHANGED <<meeting, seat, joining>>

MeetingsNext ==
    \/ CreateMeeting
    \/ \E j \in Joins :
          \/ \E u \in Attendees, role \in Roles : Join(j, u, role)
          \/ TakeSeat(j) \/ GoLive(j) \/ TellRoom(j) \/ JoinFails(j)
    \/ \E u, v \in Attendees, event \in HostOnly \cup {"leave", "raise", "lower", "other"} :
           RoomEvent(u, event, v)

MeetingsSpec == MeetingsInit /\ [][MeetingsNext]_meetingVars

-----------------------------------------------------------------------------
(* The rows follow the room: while it is live the meeting is listed as live, *)
(* and its host, the first who joined, has a seat, whichever joins ended     *)
(* half way (the order of the statements in the join of handleMeetings).    *)
LiveIsListed ==
    room.status = "live" =>
        /\ meeting = "live"
        /\ room.host # {} /\ \A u \in room.host : seat[u] # "none"
=============================================================================
