----------------------------- MODULE MCSending -----------------------------
(***************************************************************************)
(* The two halves of a sending page, for TLC: the calls that encrypt and   *)
(* decrypt, and the queue of the messages that are to be posted.  They     *)
(* share no state; a behaviour is one of one half.                         *)
(***************************************************************************)
EXTENDS Outbox, SessionCalls

CONSTANTS m1, r1, r2

Posters == {"composer", "flush", "worker"}
Parties == {us, them}

VARIABLE half

SendingInit == half \in {"calls", "queue"} /\ Init /\ CallsInit

SendingNext ==
    \/ half = "calls" /\ CallsNext /\ UNCHANGED <<vars, half>>
    \/ half = "queue" /\ Next /\ UNCHANGED <<callVars, half>>

SendingSpec == SendingInit /\ [][SendingNext]_<<vars, callVars, half>>
=============================================================================
