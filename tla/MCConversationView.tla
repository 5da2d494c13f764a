------------------------- MODULE MCConversationView -------------------------
(***************************************************************************)
(* The open conversation, for TLC: its rows, and the box below them.  They *)
(* share no state; a behaviour is one of one part.                         *)
(***************************************************************************)
EXTENDS ConversationView, Composer, TLC

CONSTANTS a, b, m1, m2, s1

Home == (m1 :> a) @@ (m2 :> a) @@ (s1 :> b)

VARIABLE part

PaneInit == part \in {"rows", "box"} /\ ViewInit /\ ComposerInit

PaneNext ==
    \/ part = "rows" /\ ViewNext /\ UNCHANGED <<composerVars, part>>
    \/ part = "box" /\ ComposerNext /\ UNCHANGED <<viewVars, part>>

PaneSpec == PaneInit /\ [][PaneNext]_<<viewVars, composerVars, part>>
=============================================================================
