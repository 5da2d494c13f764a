---------------------------- MODULE MCChannels -----------------------------
(* Instances of Channels for TLC. *)
EXTENDS Channels, TLC

CONSTANTS c, u1, d1, d2, e1, g1, g2

OneDevice == (c :> {d1}) @@ (u1 :> {e1})

=============================================================================
