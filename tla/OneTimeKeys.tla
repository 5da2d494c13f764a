---------------------------- MODULE OneTimeKeys ----------------------------
(***************************************************************************)
(* What the server promises about one-time pre-keys, without requests,     *)
(* rows or retries: a published key is given to at most one request, and a *)
(* request is answered once, with a key or without.                        *)
(***************************************************************************)

CONSTANTS
    Request,
    Key,
    None,      \* the answer without a key
    Pending    \* no answer yet

VARIABLES
    published,  \* keys published so far
    answer      \* the answer to each request

vars == <<published, answer>>

Given == {answer[r] : r \in Request} \ {None, Pending}

Init ==
    /\ published \in SUBSET Key
    /\ answer = [r \in Request |-> Pending]

Publish ==
    /\ published' \in SUBSET Key
    /\ published \subseteq published'
    /\ answer' = answer

Answer(r) ==
    /\ answer[r] = Pending
    /\ \E key \in (published \ Given) \cup {None} :
          answer' = [answer EXCEPT ![r] = key]
    /\ published' = published

Next == Publish \/ \E r \in Request : Answer(r)

Spec == Init /\ [][Next]_vars
=============================================================================
