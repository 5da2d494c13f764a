----------------------------- MODULE MCAccounts -----------------------------
(* Instances of Accounts for TLC. *)
EXTENDS Accounts, TLC

CONSTANTS b1, b2, p1, p2, c1, c2

(* Browsers, passphrases and calls are interchangeable. *)
Alike == Permutations({b1, b2}) \cup Permutations({p1, p2}) \cup Permutations({c1, c2})
=============================================================================
