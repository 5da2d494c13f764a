------------------------------ MODULE MCServer ------------------------------
(***************************************************************************)
(* Instances of the server's parts that share no table, with the pages     *)
(* that use them, for TLC: a group, direct conversations, a meeting.  A    *)
(* behaviour is one of one part.                                           *)
(***************************************************************************)
EXTENDS Groups, Conversations, Meetings, TLC

CONSTANTS c, u1, u2, q1, q2

Everyone == {c, u1, u2}

(* Requests are interchangeable. *)
Interchange == Permutations({q1, q2})

VARIABLE part

ServerInit ==
    /\ part \in {"group", "conversations", "meeting"}
    /\ GroupsInit /\ ConversationsInit /\ MeetingsInit

Only(p, next) == part = p /\ next /\ UNCHANGED part

ServerNext ==
    \/ Only("group", GroupsNext) /\ UNCHANGED <<convVars, meetingVars>>
    \/ Only("conversations", ConversationsNext) /\ UNCHANGED <<groupVars, meetingVars>>
    \/ Only("meeting", MeetingsNext) /\ UNCHANGED <<groupVars, convVars>>

ServerSpec ==
    ServerInit /\ [][ServerNext]_<<groupVars, convVars, meetingVars, part>>
=============================================================================
