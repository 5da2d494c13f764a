--------------------------- MODULE MessageChannel ---------------------------
(***************************************************************************)
(* What a direct conversation promises its two parties, without keys,      *)
(* sessions or devices: a message enters the conversation once, under its  *)
(* sender's next number; its reader reads it at some later time, in any    *)
(* order, and has read it from then on.                                    *)
(***************************************************************************)
EXTENDS Naturals

CONSTANTS
    Party,
    Number    \* the numbers messages may have

VARIABLES
    posted,   \* messages in the conversation, by sender and number
    read      \* for each party, the messages of the other side it has read

vars == <<posted, read>>

Init == posted = {} /\ read = [p \in Party |-> {}]

Post(p, seq) ==
    /\ \A l \in posted : l.from = p => l.seq < seq
    /\ posted' = posted \cup {[from |-> p, seq |-> seq]}
    /\ read' = read

Read(p, l) ==
    /\ l \in posted \ read[p]
    /\ l.from # p
    /\ read' = [read EXCEPT ![p] = @ \cup {l}]
    /\ posted' = posted

Next ==
    \E p \in Party :
        \/ \E seq \in Number : Post(p, seq)
        \/ \E l \in posted : Read(p, l)

Spec == Init /\ [][Next]_vars

(* Every posted message is eventually read by the other party.              *)
EventuallyRead ==
    \A p, q \in Party, i \in Number :
        LET l == [from |-> q, seq |-> i]
        IN  p # q => (l \in posted ~> l \in read[p])

=============================================================================
