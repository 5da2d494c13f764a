--------------------------- MODULE PreKeyExchange ---------------------------
(***************************************************************************)
(* The pre-keys of one account.  The server's tables signed_pre_keys and   *)
(* one_time_pre_keys are changed by concurrent requests, each of which is  *)
(* a sequence of single SQL statements (backend/src/keys.ts), and by the   *)
(* maintenance task of backend/src/index.ts.  The account's web client     *)
(* publishes keys (web/src/app.ts, web/src/crypto/client-crypto.ts,        *)
(* web/src/auth/auth.ts) and keeps the key material it answers first       *)
(* messages with (web/src/crypto/session-manager.ts).                      *)
(*                                                                         *)
(* A key pair has the number it was generated with: signed pre-keys are    *)
(* numbered from 0, the one of the registration; so are one-time pre-keys, *)
(* whose numbers stand for their ids (0 .. 19 at registration, the time in *)
(* milliseconds later), which only grow.                                   *)
(***************************************************************************)
EXTENDS Integers, SequencesExt, FiniteSetsExt

CONSTANTS
    Fetcher,      \* requests for the account's bundle, by whichever users
    Checker,      \* calls of checkPreKeyReplenishment: app load, worker signal
    Registered,   \* one-time pre-keys of the registration, 20 in the code
    Batch,        \* one-time pre-keys of a refill, 20 in the code
    Threshold,    \* PRE_KEY_THRESHOLD, 5 in the code
    Attempts,     \* tries to claim a key, 3 in the code
    None,         \* no one-time pre-key
    MaxRotation,  \* bound: signed pre-keys uploaded after the registration
    MaxRefill,    \* bound: batches uploaded after the registration
    MaxLogin      \* bound: logins

ASSUME PreKeyAssumption ==
    /\ {Registered, Batch, Threshold, MaxRotation, MaxRefill, MaxLogin} \subseteq Nat
    /\ Attempts \in Nat \ {0}
    /\ None \notin Int

VARIABLES
    signed,     \* signed_pre_keys of the account, oldest first
    untrimmed,  \* rotations that have inserted their key and not yet trimmed
    rotated,    \* signed pre-keys uploaded after the registration
    unused,     \* one_time_pre_keys with used = 0
    used,       \* one_time_pre_keys with used = 1
    minted,     \* one-time pre-keys generated so far
    lookup,     \* the requests in getBundle
    check,      \* the calls of checkPreKeyReplenishment
    material,   \* KeyMaterial: what the client can answer first messages with
    logins      \* logins so far

server == <<signed, untrimmed, rotated, unused, used>>
client == <<minted, check, material, logins>>
vars == <<signed, untrimmed, rotated, unused, used, minted, lookup, check, material, logins>>

(* pc: the statement the request executes next.                             *)
Lookup ==
    [ pc : {"signed", "select", "claim", "done"}, signedKey : Nat \cup {None},
      candidate : Nat \cup {None}, attempt : Nat, key : Nat \cup {None} ]

(* signedKey: the private key; oneTime: the one-time pre-keys find() returns*)
(* with both their halves.                                                  *)
KeyMaterial == [signedKey : Nat, oneTime : SUBSET Nat]

Init ==
    /\ signed = <<0>>
    /\ untrimmed = 0
    /\ rotated = 0
    /\ unused = 0 .. Registered - 1
    /\ used = {}
    /\ minted = Registered
    /\ lookup = [f \in Fetcher |-> [ pc |-> "signed", signedKey |-> None,
                                     candidate |-> None, attempt |-> 0, key |-> None ]]
    /\ check = [c \in Checker |-> "idle"]
    /\ material = [signedKey |-> 0, oneTime |-> 0 .. Registered - 1]
    /\ logins = 0

-----------------------------------------------------------------------------
(* GET /keys/bundle/:userId *)

ReadSignedPreKey(f) ==
    /\ lookup[f].pc = "signed"
    /\ lookup' = [lookup EXCEPT ![f].pc = "select", ![f].signedKey = Last(signed)]
    /\ UNCHANGED <<server, client>>

SelectCandidate(f) ==
    /\ lookup[f].pc = "select"
    /\ lookup' = IF unused = {}
                 THEN [lookup EXCEPT ![f].pc = "done"]
                 ELSE [lookup EXCEPT ![f].pc = "claim", ![f].candidate = Min(unused)]
    /\ UNCHANGED <<server, client>>

(* Mutant: the update does not ask for used = 0.                            *)
ClaimKeyUnguarded(f) ==
    /\ lookup[f].pc = "claim"
    /\ unused' = unused \ {lookup[f].candidate}
    /\ used' = used \cup {lookup[f].candidate}
    /\ lookup' = [lookup EXCEPT ![f].pc = "done", ![f].key = lookup[f].candidate]
    /\ UNCHANGED <<signed, untrimmed, rotated, client>>

ClaimKey(f) ==
    /\ lookup[f].pc = "claim"
    /\ lookup[f].candidate \in unused
    /\ unused' = unused \ {lookup[f].candidate}
    /\ used' = used \cup {lookup[f].candidate}
    /\ lookup' = [lookup EXCEPT ![f].pc = "done", ![f].key = lookup[f].candidate]
    /\ UNCHANGED <<signed, untrimmed, rotated, client>>

(* Another request claimed the candidate first.                             *)
MissKey(f) ==
    /\ lookup[f].pc = "claim"
    /\ lookup[f].candidate \notin unused
    /\ lookup' = [lookup EXCEPT
                    ![f].pc = IF lookup[f].attempt + 1 < Attempts THEN "select" ELSE "done",
                    ![f].attempt = @ + 1]
    /\ UNCHANGED <<server, client>>

GetBundle(f) ==
    ReadSignedPreKey(f) \/ SelectCandidate(f) \/ ClaimKey(f) \/ MissKey(f)

-----------------------------------------------------------------------------
(* DELETE FROM one_time_pre_keys WHERE used = 1 *)
RunMaintenanceTasks ==
    /\ used # {}
    /\ used' = {}
    /\ UNCHANGED <<signed, untrimmed, rotated, unused, lookup, client>>

(* maybeRotateSignedPreKey: the client uploads the new public key and saves *)
(* the private one where nothing reads it; its key material stays.          *)
RotateSignedPreKey ==
    /\ rotated < MaxRotation
    /\ rotated' = rotated + 1
    /\ signed' = Append(signed, rotated + 1)
    /\ untrimmed' = untrimmed + 1
    /\ UNCHANGED <<unused, used, lookup, client>>

(* The request's last statement keeps the two newest.                       *)
TrimSignedPreKeys ==
    /\ untrimmed > 0
    /\ untrimmed' = untrimmed - 1
    /\ signed' = SubSeq(signed, IF Len(signed) > 2 THEN Len(signed) - 1 ELSE 1, Len(signed))
    /\ UNCHANGED <<rotated, unused, used, lookup, client>>

(* Mutant: the refill waits until no key is left.                           *)
CheckPreKeysWhenEmpty(c) ==
    /\ check[c] = "idle"
    /\ unused = {}
    /\ check' = [check EXCEPT ![c] = "upload"]
    /\ UNCHANGED <<server, lookup, minted, material, logins>>

(* GET /keys/count, and an upload to come if the count is low.              *)
CheckPreKeys(c) ==
    /\ check[c] = "idle"
    /\ Cardinality(unused) < Threshold
    /\ check' = [check EXCEPT ![c] = "upload"]
    /\ UNCHANGED <<server, lookup, minted, material, logins>>

(* POST /keys/prekeys, in one batch.  The private halves are dropped.       *)
UploadPreKeys(c) ==
    /\ check[c] = "upload"
    /\ minted + Batch <= Registered + MaxRefill * Batch
    /\ unused' = unused \cup minted .. minted + Batch - 1
    /\ minted' = minted + Batch
    /\ check' = [check EXCEPT ![c] = "idle"]
    /\ UNCHANGED <<signed, untrimmed, rotated, used, lookup, material, logins>>

(* A login restores the private keys of the registration from the vault;    *)
(* the one-time pre-keys come without their public halves.                  *)
Login ==
    /\ logins < MaxLogin
    /\ logins' = logins + 1
    /\ material' = [signedKey |-> 0, oneTime |-> {}]
    /\ UNCHANGED <<server, lookup, minted, check>>

Next ==
    \/ \E f \in Fetcher : GetBundle(f)
    \/ RunMaintenanceTasks
    \/ RotateSignedPreKey
    \/ TrimSignedPreKeys
    \/ \E c \in Checker : CheckPreKeys(c) \/ UploadPreKeys(c)
    \/ Login

Spec == Init /\ [][Next]_vars

(* The app is loaded again and again, and its requests come back.           *)
FairSpec == Spec /\ \A c \in Checker : WF_vars(CheckPreKeys(c) \/ UploadPreKeys(c))

-----------------------------------------------------------------------------
TypeOK ==
    /\ signed \in Seq(Nat) /\ signed # <<>>
    /\ untrimmed \in Nat
    /\ rotated \in Nat
    /\ unused \in SUBSET Nat
    /\ used \in SUBSET Nat
    /\ minted \in Nat
    /\ lookup \in [Fetcher -> Lookup]
    /\ check \in [Checker -> {"idle", "upload"}]
    /\ material \in KeyMaterial
    /\ logins \in Nat

(* "Two concurrent requests cannot both claim the same row" (keys.ts:96):   *)
(* no two bundles carry the same one-time pre-key, whatever the requests,   *)
(* refills and the maintenance task do between the statements.              *)
ClaimedOnce ==
    \A f, g \in Fetcher : lookup[f].key # None /\ lookup[f].key = lookup[g].key => f = g

(* Why: a key that a bundle carries is not among the unused ones, and no    *)
(* key is minted twice.                                                     *)
ClaimInv ==
    /\ TypeOK
    /\ unused \cup used \subseteq 0 .. minted - 1
    /\ \A f \in Fetcher :
          /\ lookup[f].pc = "claim" => lookup[f].candidate # None
          /\ lookup[f].pc # "done" => lookup[f].key = None
          /\ lookup[f].key # None => lookup[f].key \in (0 .. minted - 1) \ unused
    /\ ClaimedOnce

(* The keys x3dhInitiate mixed for a bundle, and those handleX3DHResponder  *)
(* mixes for the X3DH header that names its one-time pre-key.               *)
Mixed(signedKey, key) == [signedKey |-> signedKey, key |-> key]

(* Mutant: the one-time pre-key of the header is not looked up.             *)
RespondedIgnoringKey(key) == Mixed(material.signedKey, None)

Responded(key) ==
    Mixed(material.signedKey, IF key \in material.oneTime THEN key ELSE None)

Agrees(bundle) == Responded(bundle.key) = Mixed(bundle.signedKey, bundle.key)

(* "Responder computes the same shared secret using data from the first     *)
(* message" (x3dh.ts:207): a bundle taken before the first rotation can be  *)
(* answered whatever is rotated, refilled or deleted later, if its one-time *)
(* pre-key is of the registration and no login came between.                *)
FirstBundlesAgree ==
    \A f \in Fetcher :
        /\ lookup[f].pc = "done"
        /\ lookup[f].signedKey = 0
        /\ lookup[f].key # None => lookup[f].key < Registered /\ logins = 0
        => Agrees(lookup[f])

(* "Client refills when remaining count < 5" (SECURITY.md:69): a low stock  *)
(* of one-time pre-keys is eventually filled up.                            *)
Replenished == Cardinality(unused) < Threshold ~> Cardinality(unused) >= Threshold

-----------------------------------------------------------------------------
(* The tables and the requests implement OneTimeKeys.                       *)
Dispenser == INSTANCE OneTimeKeys WITH
    Request <- Fetcher, Key <- Nat, Pending <- -1,
    published <- 0 .. minted - 1,
    answer <- [f \in Fetcher |-> IF lookup[f].pc = "done" THEN lookup[f].key ELSE -1]

DispensesKeys == Dispenser!Spec
=============================================================================
