-------------------------- MODULE MCRatchetSession --------------------------
(* Instances of RatchetSession for TLC: two parties.                        *)
EXTENDS RatchetSession

CONSTANTS a, b

MCParty == {a, b}
OnlyA == {a}

(* The parties are interchangeable where both may start.                    *)
Exchange == Permutations(MCParty)
=============================================================================
