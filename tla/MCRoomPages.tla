---------------------------- MODULE MCRoomPages -----------------------------
(***************************************************************************)
(* An open conversation, for TLC: the room's sockets with the pages that   *)
(* use them, and the notes and files that are sent over HTTP.  They share  *)
(* no state; a behaviour is one of one part.                               *)
(***************************************************************************)
EXTENDS RoomPages, Media, TLC

CONSTANTS p1, p2, d1, u1, f1

Tabs == [p \in Pages |-> d1]
OneUser == d1 :> u1
Fps == "audio" :> 2 @@ "video" :> 1
FrameLength == "audio" :> 8 @@ "video" :> 4

VARIABLE part

RoomsInit == part \in {"sockets", "media"} /\ Init /\ MediaInit

RoomsNext ==
    \/ part = "sockets" /\ Next /\ UNCHANGED <<mediaVars, part>>
    \/ part = "media" /\ MediaNext /\ UNCHANGED <<vars, part>>

(* The fairness of each part. *)
RoomsFairness ==
    /\ \A p \in Pages :
          /\ WF_vars(part = "sockets" /\ MessagesLoaded(p))
          /\ WF_vars(part = "sockets" /\ Reconnect(p))
          /\ \A n \in 1..2 : SF_vars(part = "sockets" /\ Ticket(p, n))
    /\ \A s \in Sockets :
          /\ WF_vars(part = "sockets" /\ Connected(s))
          /\ WF_vars(part = "sockets" /\ Closed(s))
          /\ WF_vars(part = "sockets" /\ Ended(s))
    /\ \A n \in Notes : WF_mediaVars(part = "media" /\ (AutoStop(n) \/ StopEvent(n)))

RoomsSpec == RoomsInit /\ [][RoomsNext]_<<vars, mediaVars, part>> /\ RoomsFairness
=============================================================================
