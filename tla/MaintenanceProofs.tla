-------------------------- MODULE MaintenanceProofs --------------------------
(***************************************************************************)
(* What the maintenance task serves.  One-time pre-keys are claimed once,  *)
(* for every number of requests, refills, rotations, logins and keys, the  *)
(* tables implement OneTimeKeys, and the first bundles can be answered.    *)
(* Scheduled messages and posts that are settled stay settled, and the     *)
(* posts of a channel are all sealed with its one key.                     *)
(***************************************************************************)
EXTENDS PreKeyExchange, Channels, LeastElement, SequenceTheorems, FiniteSetTheorems

(* A key is never the mark of an answer without one, or of no answer.       *)
LEMMA NoneIsNoKey == None # -1 /\ \A n \in Nat : n # None
<1>1. \A n \in Int : n # None
  BY PreKeyAssumption
<1> QED
  BY <1>1

(* The initial state is type correct.                                       *)
LEMMA TypeInit == Init => TypeOK
<1> SUFFICES ASSUME Init PROVE TypeOK
  OBVIOUS
<1>1. Registered \in Nat
  BY PreKeyAssumption
<1>2. signed \in Seq(Nat) /\ signed # <<>>
  BY DEF Init
<1>3. unused \in SUBSET Nat /\ minted \in Nat /\ material \in KeyMaterial
  BY <1>1 DEF Init, KeyMaterial
<1>4. lookup \in [Fetcher -> Lookup]
  BY DEF Init, Lookup
<1> QED
  BY <1>2, <1>3, <1>4 DEF Init, TypeOK

(* What a missed claim makes of a request.                                  *)
LEMMA MissedLookup ==
    ASSUME NEW l \in Lookup, NEW pc, NEW n
    PROVE  [l EXCEPT !.pc = pc, !.attempt = n] =
              [ pc |-> pc, signedKey |-> l.signedKey, candidate |-> l.candidate,
                attempt |-> n, key |-> l.key ]
<1> DEFINE k == [l EXCEPT !.pc = pc]
<1>1. k = [ pc |-> pc, signedKey |-> l.signedKey, candidate |-> l.candidate,
            attempt |-> l.attempt, key |-> l.key ]
  BY DEF Lookup
<1>2. [k EXCEPT !.attempt = n] = [ pc |-> pc, signedKey |-> l.signedKey, candidate |-> l.candidate,
                                   attempt |-> n, key |-> l.key ]
  <2> HIDE DEF k
  <2> QED
    BY <1>1
<1>3. [l EXCEPT !.pc = pc, !.attempt = n] = [k EXCEPT !.attempt = n]
  BY Zenon
<1> QED
  BY <1>2, <1>3, Zenon

(* The requests for bundles preserve type correctness.                      *)
LEMMA GetBundleType ==
    ASSUME TypeOK, NEW f \in Fetcher, GetBundle(f)
    PROVE  TypeOK'
<1>1. lookup[f] \in Lookup
  BY DEF TypeOK
<1>2. CASE ReadSignedPreKey(f)
  <2>1. Last(signed) \in Nat
    BY DEF TypeOK, Last
  <2>2. [lookup[f] EXCEPT !.pc = "select", !.signedKey = Last(signed)] \in Lookup
    BY <1>1, <2>1 DEF Lookup
  <2> QED
    BY <1>2, <2>2 DEF ReadSignedPreKey, TypeOK, server, client
<1>3. CASE SelectCandidate(f)
  <2>1. [lookup[f] EXCEPT !.pc = "done"] \in Lookup
    BY <1>1 DEF Lookup
  <2>2. ASSUME unused # {} PROVE [lookup[f] EXCEPT !.pc = "claim", !.candidate = Min(unused)] \in Lookup
    <3>1. Min(unused) \in Nat
      BY <2>2, MinIsMember DEF TypeOK
    <3> QED
      BY <1>1, <3>1 DEF Lookup
  <2> QED
    BY <1>3, <2>1, <2>2 DEF SelectCandidate, TypeOK, server, client
<1>4. CASE ClaimKey(f)
  <2>1. [lookup[f] EXCEPT !.pc = "done", !.key = lookup[f].candidate] \in Lookup
    BY <1>1 DEF Lookup
  <2>2. lookup[f].candidate \in Nat
    BY <1>4 DEF ClaimKey, TypeOK
  <2> QED
    BY <1>4, <2>1, <2>2 DEF ClaimKey, TypeOK, client
<1>5. CASE MissKey(f)
  <2> DEFINE pc == IF lookup[f].attempt + 1 < Attempts THEN "select" ELSE "done"
             next == [ pc |-> pc, signedKey |-> lookup[f].signedKey,
                       candidate |-> lookup[f].candidate,
                       attempt |-> lookup[f].attempt + 1, key |-> lookup[f].key ]
  <2>1. next \in Lookup
    BY <1>1 DEF Lookup
  <2>2. lookup' = [lookup EXCEPT ![f] = next]
    <3>1. lookup' = [lookup EXCEPT ![f] = [lookup[f] EXCEPT !.pc = pc, !.attempt = @ + 1]]
      BY <1>5 DEF MissKey, TypeOK
    <3>2. [lookup[f] EXCEPT !.pc = pc, !.attempt = lookup[f].attempt + 1] = next
      BY <1>1, MissedLookup
    <3> QED
      BY <3>1, <3>2
  <2> HIDE DEF next
  <2> QED
    BY <1>5, <2>1, <2>2 DEF MissKey, TypeOK, server, client
<1> QED
  BY <1>2, <1>3, <1>4, <1>5 DEF GetBundle

(* Every step preserves type correctness.                                   *)
LEMMA TypeNext == TypeOK /\ [Next]_vars => TypeOK'
<1> SUFFICES ASSUME TypeOK, [Next]_vars PROVE TypeOK'
  OBVIOUS
<1>1. ASSUME NEW f \in Fetcher, GetBundle(f) PROVE TypeOK'
  BY <1>1, GetBundleType
<1>2. CASE RunMaintenanceTasks
  BY <1>2 DEF RunMaintenanceTasks, TypeOK, client
<1>3. CASE RotateSignedPreKey
  <2>1. Append(signed, rotated + 1) \in Seq(Nat) /\ Append(signed, rotated + 1) # <<>>
    BY DEF TypeOK
  <2> QED
    BY <1>3, <2>1 DEF RotateSignedPreKey, TypeOK, client
<1>4. CASE TrimSignedPreKeys
  <2> DEFINE first == IF Len(signed) > 2 THEN Len(signed) - 1 ELSE 1
  <2>1. Len(signed) \in Nat /\ Len(signed) >= 1
    BY DEF TypeOK
  <2>2. first \in 1 .. Len(signed)
    BY <2>1
  <2>3. signed' = SubSeq(signed, first, Len(signed))
    BY <1>4 DEF TrimSignedPreKeys
  <2> HIDE DEF first
  <2>4. signed' \in Seq(Nat) /\ signed' # <<>>
    <3>1. \A i \in first .. Len(signed) : signed[i] \in Nat
      BY <2>1, <2>2 DEF TypeOK
    <3>2. first \in Int /\ Len(signed) \in Int /\ first >= 1 /\ first <= Len(signed)
      BY <2>1, <2>2
    <3>3. /\ SubSeq(signed, first, Len(signed)) \in Seq(Nat)
          /\ Len(SubSeq(signed, first, Len(signed))) = Len(signed) - first + 1
      BY <3>1, <3>2, SubSeqProperties
    <3>4. Len(signed') # 0
      BY <2>3, <3>2, <3>3
    <3> QED
      BY <2>3, <3>3, <3>4
  <2>5. untrimmed' \in Nat
    BY <1>4 DEF TrimSignedPreKeys, TypeOK
  <2> QED
    BY <1>4, <2>4, <2>5 DEF TrimSignedPreKeys, TypeOK, client
<1>5. ASSUME NEW c \in Checker, CheckPreKeys(c) PROVE TypeOK'
  BY <1>5 DEF CheckPreKeys, TypeOK, server
<1>6. ASSUME NEW c \in Checker, UploadPreKeys(c) PROVE TypeOK'
  <2>1. minted \in Nat /\ Batch \in Nat
    BY PreKeyAssumption DEF TypeOK
  <2>2. minted + Batch \in Nat /\ minted .. minted + Batch - 1 \subseteq Nat
    BY <2>1
  <2>3. minted' \in Nat /\ unused' \in SUBSET Nat
    BY <1>6, <2>2 DEF UploadPreKeys, TypeOK
  <2>4. check' \in [Checker -> {"idle", "upload"}]
    BY <1>6 DEF UploadPreKeys, TypeOK
  <2> QED
    BY <1>6, <2>3, <2>4 DEF UploadPreKeys, TypeOK
<1>7. CASE Login
  BY <1>7 DEF Login, TypeOK, server, KeyMaterial
<1>8. CASE UNCHANGED vars
  BY <1>8 DEF vars, TypeOK
<1> QED
  BY <1>1, <1>2, <1>3, <1>4, <1>5, <1>6, <1>7, <1>8 DEF Next

(* Type correctness of the tables, the requests and the client.             *)
THEOREM TypeCorrect == Spec => []TypeOK
BY TypeInit, TypeNext, PTL DEF Spec

-----------------------------------------------------------------------------
(* Keys are claimed once *)

(* The inductive invariant holds initially.                                 *)
LEMMA ClaimInit == Init => ClaimInv
BY TypeInit, PreKeyAssumption DEF Init, ClaimInv, ClaimedOnce

(* A request preserves the inductive invariant: what it claims was unused.  *)
LEMMA ClaimGetBundle ==
    ASSUME ClaimInv, TypeOK', NEW f \in Fetcher, GetBundle(f)
    PROVE  ClaimInv'
<1> USE DEF ClaimInv, ClaimedOnce, TypeOK, Lookup
<1>1. CASE ReadSignedPreKey(f)
  BY <1>1 DEF ReadSignedPreKey, server, client
<1>2. CASE SelectCandidate(f)
  <2>1. unused # {} => Min(unused) # None
    <3>1. unused # {} => Min(unused) \in Nat
      BY MinIsMember
    <3> QED
      BY <3>1, NoneIsNoKey
  <2>2. \A g \in Fetcher : lookup'[g].key = lookup[g].key
    BY <1>2 DEF SelectCandidate
  <2>3. \A g \in Fetcher : lookup'[g].pc = "claim" => lookup'[g].candidate # None
    <3>1. ASSUME NEW g \in Fetcher, lookup'[g].pc = "claim", g # f
          PROVE  lookup'[g].candidate # None
      BY <1>2, <3>1 DEF SelectCandidate
    <3>2. lookup'[f].pc = "claim" => lookup'[f].candidate # None
      BY <1>2, <2>1 DEF SelectCandidate
    <3> QED
      BY <3>1, <3>2
  <2>4. \A g \in Fetcher : lookup'[g].pc # "done" => lookup[g].pc # "done"
    BY <1>2 DEF SelectCandidate
  <2>5. unused' = unused /\ used' = used /\ minted' = minted
    BY <1>2 DEF SelectCandidate, server, client
  <2> QED
    BY <2>2, <2>3, <2>4, <2>5
<1>3. CASE ClaimKey(f)
  <2>1. lookup[f].candidate \in 0 .. minted - 1
    BY <1>3 DEF ClaimKey
  <2>2. \A g \in Fetcher : lookup[g].key # lookup[f].candidate
    BY <1>3, PreKeyAssumption DEF ClaimKey
  <2>3. \A g \in Fetcher \ {f} : lookup'[g] = lookup[g]
    BY <1>3 DEF ClaimKey
  <2>4. lookup'[f].pc = "done" /\ lookup'[f].key = lookup[f].candidate
    BY <1>3 DEF ClaimKey
  <2> QED
    BY <1>3, <2>1, <2>2, <2>3, <2>4 DEF ClaimKey, client
<1>4. CASE MissKey(f)
  BY <1>4 DEF MissKey, server, client
<1> QED
  BY <1>1, <1>2, <1>3, <1>4 DEF GetBundle

(* Every step preserves the inductive invariant.                            *)
LEMMA ClaimNext == ClaimInv /\ [Next]_vars => ClaimInv'
<1> SUFFICES ASSUME ClaimInv, [Next]_vars PROVE ClaimInv'
  OBVIOUS
<1>1. TypeOK'
  BY TypeNext DEF ClaimInv
<1>2. ASSUME NEW f \in Fetcher, GetBundle(f) PROVE ClaimInv'
  BY <1>1, <1>2, ClaimGetBundle
<1>3. CASE RunMaintenanceTasks
  BY <1>1, <1>3 DEF RunMaintenanceTasks, ClaimInv, ClaimedOnce, client
<1>4. CASE RotateSignedPreKey
  BY <1>1, <1>4 DEF RotateSignedPreKey, ClaimInv, ClaimedOnce, client
<1>5. CASE TrimSignedPreKeys
  BY <1>1, <1>5 DEF TrimSignedPreKeys, ClaimInv, ClaimedOnce, client
<1>6. ASSUME NEW c \in Checker, CheckPreKeys(c) PROVE ClaimInv'
  BY <1>1, <1>6 DEF CheckPreKeys, ClaimInv, ClaimedOnce, server
<1>7. ASSUME NEW c \in Checker, UploadPreKeys(c) PROVE ClaimInv'
  <2>1. minted \in Nat /\ Batch \in Nat
    BY PreKeyAssumption DEF ClaimInv, TypeOK
  <2>2. /\ minted' = minted + Batch /\ used' = used /\ lookup' = lookup
        /\ unused' = unused \cup minted .. minted + Batch - 1
    BY <1>7 DEF UploadPreKeys
  <2>3. unused' \cup used' \subseteq 0 .. minted' - 1
    BY <2>1, <2>2 DEF ClaimInv
  <2>4. ASSUME NEW f \in Fetcher, lookup[f].key # None
        PROVE  lookup[f].key \in (0 .. minted' - 1) \ unused'
    BY <2>1, <2>2, <2>4 DEF ClaimInv
  <2> QED
    BY <1>1, <2>2, <2>3, <2>4 DEF ClaimInv, ClaimedOnce
<1>8. CASE Login
  BY <1>1, <1>8 DEF Login, ClaimInv, ClaimedOnce, server
<1>9. CASE UNCHANGED vars
  BY <1>1, <1>9 DEF vars, ClaimInv, ClaimedOnce
<1> QED
  BY <1>2, <1>3, <1>4, <1>5, <1>6, <1>7, <1>8, <1>9 DEF Next

(* No two bundles carry the same one-time pre-key.                          *)
THEOREM KeysAreClaimedOnce == Spec => []ClaimedOnce
<1>1. ClaimInv => ClaimedOnce
  BY DEF ClaimInv
<1> QED
  BY ClaimInit, ClaimNext, <1>1, PTL DEF Spec

-----------------------------------------------------------------------------
(* Refinement *)

(* The initial state maps to an initial state of OneTimeKeys.               *)
LEMMA DispenserInit == Init => Dispenser!Init
<1> SUFFICES ASSUME Init PROVE Dispenser!Init
  OBVIOUS
<1>1. 0 .. minted - 1 \in SUBSET Nat
  BY PreKeyAssumption DEF Init
<1> QED
  BY <1>1 DEF Init, Dispenser!Init

(* A request's last step is an answer, its other steps are stutters.        *)
LEMMA DispenserGetBundle ==
    ASSUME ClaimInv, NEW f \in Fetcher, GetBundle(f)
    PROVE  [Dispenser!Next]_(Dispenser!vars)
<1> DEFINE Answers(l) == [g \in Fetcher |-> IF l[g].pc = "done" THEN l[g].key ELSE -1]
<1>1. minted' = minted
  BY DEF GetBundle, ReadSignedPreKey, SelectCandidate, ClaimKey, MissKey, client
<1>2. lookup \in [Fetcher -> Lookup] /\ None # -1
  BY PreKeyAssumption DEF ClaimInv, TypeOK
<1>3. lookup[f].pc # "done" /\ \A g \in Fetcher \ {f} : lookup'[g] = lookup[g]
  BY <1>2 DEF GetBundle, ReadSignedPreKey, SelectCandidate, ClaimKey, MissKey
<1>4. DOMAIN lookup' = Fetcher
  BY <1>2 DEF GetBundle, ReadSignedPreKey, SelectCandidate, ClaimKey, MissKey
<1>5. CASE lookup'[f].pc # "done"
  <2>1. Answers(lookup') = Answers(lookup)
    BY <1>3, <1>5
  <2> QED
    BY <1>1, <2>1 DEF Dispenser!vars
<1>6. CASE lookup'[f].pc = "done"
  <2> DEFINE key == lookup'[f].key
  <2>1. \/ key = None
        \/ key \in (0 .. minted - 1) \ {lookup[g].key : g \in Fetcher}
    <3>1. CASE SelectCandidate(f) \/ MissKey(f)
      <4>1. key = lookup[f].key
        BY <1>2, <3>1 DEF SelectCandidate, MissKey, Lookup
      <4> QED
        BY <1>3, <4>1 DEF ClaimInv
    <3>2. CASE ClaimKey(f)
      <4>1. key \in unused
        BY <1>2, <3>2 DEF ClaimKey
      <4>2. \A g \in Fetcher : lookup[g].key # key
        <5>1. key \in Nat
          BY <4>1 DEF ClaimInv, TypeOK
        <5>2. key # None
          BY <5>1, NoneIsNoKey
        <5> HIDE DEF key
        <5> QED
          BY <4>1, <5>2 DEF ClaimInv
      <4> QED
        BY <4>1, <4>2 DEF ClaimInv
    <3>3. ~ReadSignedPreKey(f)
      BY <1>2, <1>6 DEF ReadSignedPreKey, Lookup
    <3> QED
      BY <3>1, <3>2, <3>3 DEF GetBundle
  <2>2. Answers(lookup') = [Answers(lookup) EXCEPT ![f] = key]
    BY <1>3, <1>6
  <2>3. Answers(lookup)[f] = -1
    BY <1>3
  <2>4. key \in ((0 .. minted - 1) \ Dispenser!Given) \cup {None}
    <3>1. Dispenser!Given \subseteq {lookup[g].key : g \in Fetcher}
      BY DEF Dispenser!Given
    <3> QED
      BY <2>1, <3>1
  <2> HIDE DEF key
  <2>5. Dispenser!Answer(f)
    BY <1>1, <2>2, <2>3, <2>4 DEF Dispenser!Answer
  <2> QED
    BY <2>5 DEF Dispenser!Next
<1> QED
  BY <1>5, <1>6

(* Every step maps to a step of OneTimeKeys or to a stutter.                *)
LEMMA DispenserNext == ClaimInv /\ [Next]_vars => [Dispenser!Next]_(Dispenser!vars)
<1> SUFFICES ASSUME ClaimInv, [Next]_vars PROVE [Dispenser!Next]_(Dispenser!vars)
  OBVIOUS
<1>1. ASSUME NEW f \in Fetcher, GetBundle(f) PROVE [Dispenser!Next]_(Dispenser!vars)
  BY <1>1, DispenserGetBundle
<1>2. ASSUME minted' = minted, lookup' = lookup PROVE [Dispenser!Next]_(Dispenser!vars)
  BY <1>2 DEF Dispenser!vars
<1>3. CASE RunMaintenanceTasks \/ RotateSignedPreKey \/ TrimSignedPreKeys \/ Login
  BY <1>2, <1>3 DEF RunMaintenanceTasks, RotateSignedPreKey, TrimSignedPreKeys, Login, client
<1>4. ASSUME NEW c \in Checker, CheckPreKeys(c) PROVE [Dispenser!Next]_(Dispenser!vars)
  BY <1>2, <1>4 DEF CheckPreKeys
<1>5. ASSUME NEW c \in Checker, UploadPreKeys(c) PROVE [Dispenser!Next]_(Dispenser!vars)
  <2>1. minted \in Nat /\ Batch \in Nat /\ minted' = minted + Batch /\ lookup' = lookup
    BY <1>5, PreKeyAssumption DEF UploadPreKeys, ClaimInv, TypeOK
  <2>2. /\ 0 .. minted' - 1 \in SUBSET Nat
        /\ 0 .. minted - 1 \subseteq 0 .. minted' - 1
    BY <2>1
  <2>3. Dispenser!Publish
    BY <2>1, <2>2 DEF Dispenser!Publish
  <2> QED
    BY <2>3 DEF Dispenser!Next
<1>6. CASE UNCHANGED vars
  BY <1>2, <1>6 DEF vars
<1> QED
  BY <1>1, <1>3, <1>4, <1>5, <1>6 DEF Next

(* The tables and the requests implement OneTimeKeys.                       *)
THEOREM ImplementsDispenser == Spec => DispensesKeys
<1>1. DispensesKeys <=> Dispenser!Init /\ [][Dispenser!Next]_(Dispenser!vars)
  BY DEF DispensesKeys, Dispenser!Spec
<1> QED
  BY ClaimInit, ClaimNext, DispenserInit, DispenserNext, <1>1, PTL DEF Spec

-----------------------------------------------------------------------------
(* The first bundles can be answered *)

(* Why: the client keeps the private keys of the registration, except that  *)
(* a login comes back without the one-time pre-keys; nothing else writes    *)
(* its key material, so no rotation, refill or deletion disturbs it.        *)
MaterialInv ==
    /\ material.signedKey = 0
    /\ material.oneTime = IF logins = 0 THEN 0 .. Registered - 1 ELSE {}

(* It holds initially.                                                      *)
LEMMA MaterialInit == Init => MaterialInv
BY DEF Init, MaterialInv

(* A login makes it anew, every other step leaves the material alone.       *)
LEMMA MaterialNext == TypeOK /\ MaterialInv /\ [Next]_vars => MaterialInv'
<1> SUFFICES ASSUME TypeOK, MaterialInv, [Next]_vars PROVE MaterialInv'
  OBVIOUS
<1>1. CASE Login
  <2>1. logins' # 0
    BY <1>1 DEF Login, TypeOK
  <2> QED
    BY <1>1, <2>1 DEF Login, MaterialInv
<1>2. ASSUME material' = material, logins' = logins PROVE MaterialInv'
  BY <1>2 DEF MaterialInv
<1>3. ASSUME NEW f \in Fetcher, GetBundle(f) PROVE MaterialInv'
  BY <1>2, <1>3 DEF GetBundle, ReadSignedPreKey, SelectCandidate, ClaimKey, MissKey, client
<1>4. CASE RunMaintenanceTasks \/ RotateSignedPreKey \/ TrimSignedPreKeys
  BY <1>2, <1>4 DEF RunMaintenanceTasks, RotateSignedPreKey, TrimSignedPreKeys, client
<1>5. ASSUME NEW c \in Checker, CheckPreKeys(c) \/ UploadPreKeys(c) PROVE MaterialInv'
  BY <1>2, <1>5 DEF CheckPreKeys, UploadPreKeys
<1>6. CASE UNCHANGED vars
  BY <1>2, <1>6 DEF vars
<1> QED
  BY <1>1, <1>3, <1>4, <1>5, <1>6 DEF Next

(* A bundle taken before the first rotation can be answered.                *)
THEOREM FirstBundlesAgreeHolds == Spec => []FirstBundlesAgree
<1>1. ClaimInv /\ MaterialInv => FirstBundlesAgree
  <2> SUFFICES ASSUME ClaimInv, MaterialInv, NEW f \in Fetcher,
                      lookup[f].signedKey = 0,
                      lookup[f].key # None => lookup[f].key < Registered /\ logins = 0
               PROVE  Agrees(lookup[f])
    BY DEF FirstBundlesAgree
  <2>1. CASE lookup[f].key = None
    <3>1. None \notin material.oneTime
      BY NoneIsNoKey, PreKeyAssumption DEF MaterialInv
    <3> QED
      BY <2>1, <3>1 DEF Agrees, Responded, Mixed, MaterialInv
  <2>2. CASE lookup[f].key # None
    <3>1. lookup[f].key \in 0 .. Registered - 1
      BY <2>2, PreKeyAssumption DEF ClaimInv, TypeOK
    <3> QED
      BY <2>2, <3>1 DEF Agrees, Responded, Mixed, MaterialInv
  <2> QED
    BY <2>1, <2>2
<1>2. ClaimInv /\ MaterialInv /\ [Next]_vars => MaterialInv'
  BY MaterialNext DEF ClaimInv
<1> QED
  BY ClaimInit, ClaimNext, MaterialInit, <1>1, <1>2, PTL DEF Spec

-----------------------------------------------------------------------------
(* What is settled stays settled *)

Rows == {"none", "pending", "due", "cancelled", "sent"}

Parts == {"none", "messages", "posts"}

Run == [part : Parts, due : SUBSET Items, half : SUBSET Items]

(* The tables and the runs; "half" is the row of a run that has inserted it *)
(* and not yet marked it.                                                   *)
ScheduledTypeOK ==
    /\ row \in [Items -> Rows]
    /\ stored \in [Items -> Seq({"text"})]
    /\ runs \in [Runs -> Run]

(* What inserting and marking a row make of a run.                          *)
LEMMA RunHalf ==
    ASSUME NEW run \in Run, NEW half, NEW i
    PROVE  /\ [run EXCEPT !.half = half] = [part |-> run.part, due |-> run.due, half |-> half]
           /\ [run EXCEPT !.half = half, !.due = @ \ {i}] =
                 [part |-> run.part, due |-> run.due \ {i}, half |-> half]
<1> DEFINE k == [run EXCEPT !.half = half]
<1>1. k = [part |-> run.part, due |-> run.due, half |-> half]
  BY DEF Run
<1>2. [k EXCEPT !.due = @ \ {i}] = [part |-> run.part, due |-> run.due \ {i}, half |-> half]
  <2> HIDE DEF k
  <2> QED
    BY <1>1
<1>3. [run EXCEPT !.half = half, !.due = @ \ {i}] = [k EXCEPT !.due = @ \ {i}]
  <2>1. k.due = run.due
    BY <1>1
  <2>2. [run EXCEPT !.half = half, !.due = run.due \ {i}] = [k EXCEPT !.due = run.due \ {i}]
    BY Zenon
  <2> QED
    BY <2>1, <2>2
<1> QED
  BY <1>1, <1>2, <1>3

(* A fresh run selects only what is due, and no more than it may.           *)
LEMMA SelectsDue ==
    ASSUME ScheduledTypeOK, NEW r \in Runs, NEW part \in Parts, NEW of \in SUBSET Items,
           SelectDue(r, part, of)
    PROVE  \E some \in SUBSET of :
              /\ \A i \in some : row[i] = "due"
              /\ runs' = [runs EXCEPT ![r] = [part |-> part, due |-> some, half |-> {}]]
              /\ row' = row /\ stored' = stored
BY DEF SelectDue, kSubset, Selects

(* A step of a run changes a row or its copies only while the run holds it, *)
(* holds nothing it has not held or selected as due, and marks only "sent". *)
LEMMA RunTouches ==
    ASSUME ScheduledTypeOK, NEW r \in Runs, RunStep(r, Text) \/ Throw(r)
    PROVE  /\ ScheduledTypeOK'
           /\ \A q \in Runs, i \in Items :
                 i \in runs'[q].due => i \in runs[q].due \/ row[i] = "due"
           /\ \A i \in Items : row'[i] # row[i] \/ stored'[i] # stored[i]
                                  => i \in runs[r].due
<1> USE DEF ScheduledTypeOK
<1>1. CASE SelectMessages(r) \/ SelectPosts(r)
  <2>1. PICK part \in Parts, some \in SUBSET Items :
           /\ \A i \in some : row[i] = "due"
           /\ runs' = [runs EXCEPT ![r] = [part |-> part, due |-> some, half |-> {}]]
           /\ row' = row /\ stored' = stored
    <3>1. CASE SelectMessages(r)
      BY <3>1, SelectsDue DEF SelectMessages, Parts, Items
    <3>2. CASE SelectPosts(r)
      BY <3>2, SelectsDue DEF SelectPosts, Parts, Items
    <3> QED
      BY <1>1, <3>1, <3>2
  <2>2. [part |-> part, due |-> some, half |-> {}] \in Run
    BY DEF Run
  <2> QED
    BY <2>1, <2>2
<1>2. ASSUME NEW i \in Items, Send(r, i, Text[i])
      PROVE  /\ ScheduledTypeOK'
             /\ \A q \in Runs, k \in Items : k \in runs'[q].due => k \in runs[q].due
             /\ \A k \in Items : row'[k] # row[k] \/ stored'[k] # stored[k]
                                    => k \in runs[r].due
  <2>1. i \in runs[r].due /\ runs[r] \in Run
    BY <1>2 DEF Send
  <2>2. row' = row \/ row' = [row EXCEPT ![i] = "sent"]
    BY <1>2 DEF Send
  <2>3. stored' = stored \/ stored' = [stored EXCEPT ![i] = Append(@, "text")]
    BY <1>2 DEF Send, Text
  <2>4. PICK half, due \in SUBSET Items :
           /\ due \subseteq runs[r].due
           /\ runs' = [runs EXCEPT ![r] = [part |-> runs[r].part, due |-> due, half |-> half]]
    <3>1. [runs[r] EXCEPT !.half = {i}] =
             [part |-> runs[r].part, due |-> runs[r].due, half |-> {i}]
      BY <2>1, RunHalf
    <3>2. [runs[r] EXCEPT !.half = {}, !.due = @ \ {i}] =
             [part |-> runs[r].part, due |-> runs[r].due \ {i}, half |-> {}]
      BY <2>1, RunHalf
    <3>3. \/ runs' = [runs EXCEPT ![r] = [runs[r] EXCEPT !.half = {i}]]
          \/ runs' = [runs EXCEPT ![r] = [runs[r] EXCEPT !.half = {}, !.due = @ \ {i}]]
      BY <1>2 DEF Send
    <3> QED
      BY <2>1, <3>1, <3>2, <3>3 DEF Run
  <2>5. [part |-> runs[r].part, due |-> due, half |-> half] \in Run
    BY <2>1 DEF Run
  <2>6. row' \in [Items -> Rows]
    BY <2>2 DEF Rows
  <2>7. stored' \in [Items -> Seq({"text"})]
    <3>1. Append(stored[i], "text") \in Seq({"text"})
      OBVIOUS
    <3> QED
      BY <2>3, <3>1
  <2> QED
    BY <2>1, <2>2, <2>3, <2>4, <2>5, <2>6, <2>7
<1>3. CASE EndRun(r) \/ Throw(r)
  <2>1. Resting \in Run
    BY DEF Resting, Run, Parts
  <2>2. runs' = [runs EXCEPT ![r] = Resting] /\ row' = row /\ stored' = stored
    BY <1>3 DEF EndRun, Throw
  <2> QED
    BY <2>1, <2>2 DEF Resting
<1> QED
  BY <1>1, <1>2, <1>3 DEF RunStep

(* The users' requests and the passing of time leave copies and runs alone, *)
(* and neither wakes a row that is sent or cancelled.                       *)
LEMMA RequestTouches ==
    ASSUME ScheduledTypeOK, NEW i \in Items, Schedule(i) \/ TimeComes(i) \/ Cancel(i)
    PROVE  /\ ScheduledTypeOK'
           /\ runs' = runs /\ stored' = stored
           /\ \A k \in Items : row[k] \in {"sent", "cancelled"} => row'[k] \in {"sent", "cancelled"}
BY DEF ScheduledTypeOK, Schedule, Fresh, TimeComes, Cancel, Rows

(* Types of the tables and the runs, initially and in every step.           *)
LEMMA ScheduledType ==
    /\ ScheduledInit => ScheduledTypeOK
    /\ ScheduledTypeOK /\ [ScheduledNext]_rowVars => ScheduledTypeOK'
<1>1. ScheduledInit => ScheduledTypeOK
  BY DEF ScheduledInit, ScheduledTypeOK, Resting, Run, Rows, Parts
<1>2. ASSUME ScheduledTypeOK, [ScheduledNext]_rowVars PROVE ScheduledTypeOK'
  <2>1. ASSUME UNCHANGED rowVars PROVE ScheduledTypeOK'
    BY <1>2, <2>1 DEF ScheduledTypeOK, rowVars
  <2> QED
    BY <1>2, <2>1, RunTouches, RequestTouches DEF ScheduledNext
<1> QED
  BY <1>1, <1>2

(* A settled row is not stored again, and stays settled.                    *)
THEOREM SettledIsNotSentHolds == ScheduledSpec => SettledIsNotSent
<1>1. ScheduledTypeOK /\ [ScheduledNext]_rowVars =>
         [\A i \in Items : Settled(i) => Settled(i)' /\ stored'[i] = stored[i]]_rowVars
  <2> SUFFICES ASSUME ScheduledTypeOK, ScheduledNext, NEW i \in Items, Settled(i)
               PROVE  Settled(i)' /\ stored'[i] = stored[i]
    BY Zenon
  <2>1. row[i] \in {"sent", "cancelled"} /\ \A q \in Runs : i \notin runs[q].due
    BY DEF Settled, Held
  <2>2. ASSUME NEW k \in Items, Schedule(k) \/ TimeComes(k) \/ Cancel(k)
        PROVE  row'[i] \in {"sent", "cancelled"} /\ stored' = stored /\ runs' = runs
    BY <2>1, <2>2, RequestTouches
  <2>3. ASSUME NEW r \in Runs, RunStep(r, Text) \/ Throw(r)
        PROVE  /\ row'[i] = row[i] /\ stored'[i] = stored[i]
               /\ \A q \in Runs : i \notin runs'[q].due
    BY <2>1, <2>3, RunTouches
  <2> QED
    BY <2>1, <2>2, <2>3 DEF ScheduledNext, Settled, Held
<1> QED
  BY ScheduledType, <1>1, PTL DEF ScheduledSpec, SettledIsNotSent

(***************************************************************************)
(* Channels.  Whoever has a key has a generated one, and keys are generated *)
(* as often as dialogs miss one.                                            *)
(***************************************************************************)

(* The creator has one device, which is never signed out.                   *)
OneAdminDevice == \E d : Device[Creator] = {d} /\ d \notin SignOuts

AdminDevice == CHOOSE d : Device[Creator] = {d} /\ d \notin SignOuts

(* Where a thread of a page is, and what for.                                *)
Steps == {"idle", "ask", "unwrap", "ready", "list", "generate", "upload", "encrypt", "send"}

Purposes == {"none", "admin", "reader", "create", "post"}

Thread(n) == [at : Steps, key : 0..n, is : Purposes]

Page(n) == [Threads -> Thread(n)]

Sharing(n) == [at : {"idle", "ask", "upload"}, key : 0..n, to : SUBSET Users]

(* Every key in a table, on a page or on its way has been generated.        *)
KeyTypeOK ==
    /\ generated \in Nat /\ crossed \in Nat /\ made \in BOOLEAN
    /\ role \in [Users -> {"none", "member", "admin"}]
    /\ envelope \in [Users -> 0..generated]
    /\ sealed \in [Items -> 0..generated]
    /\ store \in [Devices -> 0..generated]
    /\ page \in [Devices -> Page(generated)]
    /\ share \in [Devices -> Sharing(generated)]

(* Only the creator's device ever has dialogs.                              *)
PagesInv ==
    /\ \A d \in Devices \ {AdminDevice}, w \in Dialogs : page[d][w] = Idle
    /\ \A d \in Devices, w \in Threads : page[d][w].at = "unwrap" => page[d][w].key # NoKey
    /\ ~made => \A w \in Dialogs : page[AdminDevice][w] = Idle

RolesInv ==
    /\ \A u \in Users \ {Creator} : role[u] # "admin"
    /\ ~made => \A u \in Users : role[u] = "none"

(* What was generated, and may still be, is accounted for by the crossings. *)
Accounted == generated + Cardinality(Missing(AdminDevice)) <= 1 + crossed

(* Only the creator's device asks for a key to be generated; it keeps the    *)
(* one it has, and after that finds it stored.                              *)
OneKeyInv ==
    /\ OneAdminDevice /\ KeyTypeOK /\ PagesInv /\ RolesInv
    /\ ~made => generated = 0
    /\ generated # 0 => store[AdminDevice] # NoKey
    /\ Accounted

(* A device has the owner whose device it is.                                *)
LEMMA OwnerHasDevice == \A d \in Devices : Owner(d) \in Users /\ d \in Device[Owner(d)]
<1> SUFFICES ASSUME NEW d \in Devices PROVE Owner(d) \in Users /\ d \in Device[Owner(d)]
  OBVIOUS
<1>1. \E u \in Users : d \in Device[u]
  BY DEF Devices
<1> QED
  BY <1>1 DEF Owner

(* The creator's device is the only one that the creator has.                *)
LEMMA AdminDeviceIsOne ==
    OneAdminDevice =>
        /\ AdminDevice \in Devices /\ AdminDevice \notin SignOuts
        /\ Device[Creator] = {AdminDevice}
        /\ Owner(AdminDevice) = Creator
        /\ \A d \in Devices \ {AdminDevice} : Owner(d) \in Users \ {Creator}
<1> SUFFICES ASSUME OneAdminDevice
             PROVE  /\ AdminDevice \in Devices /\ AdminDevice \notin SignOuts
                    /\ Device[Creator] = {AdminDevice}
                    /\ Owner(AdminDevice) = Creator
                    /\ \A d \in Devices \ {AdminDevice} : Owner(d) \in Users \ {Creator}
  OBVIOUS
<1>1. Device[Creator] = {AdminDevice} /\ AdminDevice \notin SignOuts
  BY DEF OneAdminDevice, AdminDevice
<1>2. Creator \in Users
  BY DEF Users
<1>3. AdminDevice \in Devices
  BY <1>1, <1>2 DEF Devices
<1>4. Owner(AdminDevice) = Creator
  BY <1>1, <1>2, <1>3, OwnerHasDevice, ChannelAssumption
<1>5. \A d \in Devices \ {AdminDevice} : Owner(d) \in Users \ {Creator}
  BY <1>1, OwnerHasDevice
<1> QED
  BY <1>1, <1>3, <1>4, <1>5

(* The threads of a page.                                                    *)
LEMMA ThreadsOfPage == Threads = {"load"} \cup Dialogs /\ "load" \notin Dialogs /\ IsFiniteSet(Dialogs)
BY ChannelAssumption DEF Threads

LEMMA BlankPage ==
    /\ \A n \in Nat : Idle \in Thread(n) /\ Blank \in Page(n)
    /\ \A w \in Threads : Blank[w] = Idle
    /\ Idle.at = "idle" /\ Idle.key = NoKey
<1>1. \A n \in Nat : Idle \in Thread(n)
  BY DEF Idle, Thread, NoKey, Steps, Purposes
<1>2. \A n \in Nat : Blank \in Page(n)
  BY <1>1 DEF Blank, Page
<1> QED
  BY <1>1, <1>2 DEF Blank, Idle

LEMMA OneKeyInit == OneAdminDevice /\ ChannelsInit => OneKeyInv
<1> SUFFICES ASSUME OneAdminDevice, ChannelsInit PROVE OneKeyInv
  OBVIOUS
<1>1. NoShare \in Sharing(0)
  BY DEF NoShare, Sharing, NoKey
<1>2. KeyTypeOK
  <2>1. generated = 0 /\ crossed = 0 /\ made = FALSE /\ 0 \in 0..0
    BY DEF ChannelsInit
  <2>2. /\ role \in [Users -> {"none", "member", "admin"}]
        /\ envelope \in [Users -> 0..0]
        /\ sealed \in [Items -> 0..0]
        /\ store \in [Devices -> 0..0]
    BY <2>1 DEF ChannelsInit, NoKey
  <2>3. page \in [Devices -> Page(0)]
    BY BlankPage DEF ChannelsInit
  <2>4. share \in [Devices -> Sharing(0)]
    BY <1>1 DEF ChannelsInit
  <2> QED
    BY <2>1, <2>2, <2>3, <2>4 DEF KeyTypeOK
<1>3. \A d \in Devices, w \in Threads : page[d][w] = Idle
  BY BlankPage DEF ChannelsInit
<1>4. AdminDevice \in Devices
  BY AdminDeviceIsOne
<1>5. PagesInv
  BY <1>3, <1>4, BlankPage, ThreadsOfPage DEF PagesInv
<1>6. Accounted
  <2>1. Missing(AdminDevice) = {}
    BY <1>3, <1>4, BlankPage, ThreadsOfPage DEF Missing
  <2> QED
    BY <2>1, FS_EmptySet DEF ChannelsInit, Accounted
<1> QED
  BY <1>2, <1>5, <1>6 DEF ChannelsInit, OneKeyInv, RolesInv

(* A step of one thread of a page.                                          *)
LEMMA GoesOnPage ==
    ASSUME NEW n \in Nat, NEW d \in Devices, NEW w \in Threads, NEW thread \in Thread(n),
           page \in [Devices -> Page(n)],
           GoesOn(d, w, thread)
    PROVE  /\ page' \in [Devices -> Page(n)]
           /\ \A e \in Devices \ {d} : page'[e] = page[e]
           /\ page'[d][w] = thread
           /\ \A v \in Threads \ {w} : page'[d][v] = page[d][v]
<1>1. page[d] \in [Threads -> Thread(n)]
  BY DEF Page
<1>2. page' = [page EXCEPT ![d] = [page[d] EXCEPT ![w] = thread]]
  BY DEF GoesOn
<1>3. [page[d] EXCEPT ![w] = thread] \in Page(n)
  BY <1>1 DEF Page
<1> QED
  BY <1>1, <1>2, <1>3

(* A thread keeps its shape while its fields change.                        *)
LEMMA ThreadFields ==
    ASSUME NEW n \in Nat, NEW t \in Thread(n), NEW at \in Steps, NEW key \in 0..n
    PROVE  /\ t.key \in 0..n
           /\ [t EXCEPT !.at = at] \in Thread(n)
           /\ [t EXCEPT !.at = at].at = at /\ [t EXCEPT !.at = at].key = t.key
           /\ [t EXCEPT !.at = at, !.key = key] \in Thread(n)
           /\ [t EXCEPT !.at = at, !.key = key].at = at
           /\ [t EXCEPT !.at = at, !.key = key].key = key
<1>1. t \in [at : Steps, key : 0..n, is : Purposes]
  BY DEF Thread
<1>2. /\ [t EXCEPT !.at = at] \in [at : Steps, key : 0..n, is : Purposes]
      /\ [t EXCEPT !.at = at].at = at /\ [t EXCEPT !.at = at].key = t.key
  BY <1>1
<1>3. /\ [t EXCEPT !.at = at, !.key = key] \in [at : Steps, key : 0..n, is : Purposes]
      /\ [t EXCEPT !.at = at, !.key = key].at = at
      /\ [t EXCEPT !.at = at, !.key = key].key = key
  BY <1>1
<1> QED
  BY <1>1, <1>2, <1>3 DEF Thread

(* How many dialogs of the creator's device miss a key after such a step.    *)
LEMMA MissingCount ==
    ASSUME NEW n \in Nat, NEW d \in Devices, NEW w \in Threads, NEW thread \in Thread(n),
           OneAdminDevice, page \in [Devices -> Page(n)], GoesOn(d, w, thread)
    PROVE  /\ Cardinality(Missing(AdminDevice)) \in Nat
           /\ Cardinality(Missing(AdminDevice)') \in Nat
           /\ Cardinality(Missing(AdminDevice)') <= Cardinality(Missing(AdminDevice)) + 1
           /\ (w \in Dialogs /\ d = AdminDevice /\ thread.at \in {"ask", "generate"}
                  => w \in Missing(AdminDevice))
                 => Cardinality(Missing(AdminDevice)') <= Cardinality(Missing(AdminDevice))
           /\ d = AdminDevice /\ w \in Missing(AdminDevice) /\ thread.at \notin {"ask", "generate"}
                 => Cardinality(Missing(AdminDevice)') = Cardinality(Missing(AdminDevice)) - 1
<1> DEFINE M == Missing(AdminDevice)
           N == Missing(AdminDevice)'
<1>1. AdminDevice \in Devices
  BY AdminDeviceIsOne
<1>2. /\ \A e \in Devices \ {d} : page'[e] = page[e]
      /\ page'[d][w] = thread
      /\ \A v \in Threads \ {w} : page'[d][v] = page[d][v]
  BY GoesOnPage
<1>3. M \subseteq Dialogs /\ N \subseteq Dialogs
  BY DEF Missing
<1>4. IsFiniteSet(M) /\ IsFiniteSet(N) /\ Cardinality(M) \in Nat /\ Cardinality(N) \in Nat
  BY <1>3, ThreadsOfPage, FS_Subset, FS_CardinalityType
<1>5. \A v \in Dialogs \ {w} : v \in N <=> v \in M
  BY <1>1, <1>2, ThreadsOfPage DEF Missing
<1>6. d # AdminDevice => (w \in N <=> w \in M)
  BY <1>1, <1>2 DEF Missing
<1>7. d = AdminDevice => (w \in N <=> w \in Dialogs /\ thread.at \in {"ask", "generate"})
  BY <1>2 DEF Missing
<1>8. N \subseteq M \cup {w}
  BY <1>3, <1>5
<1>9. (w \in Dialogs /\ d = AdminDevice /\ thread.at \in {"ask", "generate"} => w \in M) => N \subseteq M
  BY <1>3, <1>5, <1>6, <1>7
<1>10. d = AdminDevice /\ w \in M /\ thread.at \notin {"ask", "generate"} => N = M \ {w}
  BY <1>3, <1>5, <1>7
<1> HIDE DEF M, N
<1>11. Cardinality(N) <= Cardinality(M) + 1
  <2>1. IsFiniteSet(M \cup {w}) /\ Cardinality(M \cup {w}) \in Nat
    BY <1>4, FS_AddElement, FS_CardinalityType
  <2>2. Cardinality(M \cup {w}) <= Cardinality(M) + 1
    <3>1. CASE w \in M
      <4>1. M \cup {w} = M
        BY <3>1
      <4>2. Cardinality(M \cup {w}) = Cardinality(M)
        BY <4>1
      <4> QED
        BY <4>2, <1>4
    <3>2. CASE w \notin M
      <4>1. Cardinality(M \cup {w}) = Cardinality(M) + 1
        BY <3>2, <1>4, FS_AddElement
      <4> QED
        BY <4>1, <1>4
    <3> QED
      BY <3>1, <3>2
  <2>3. Cardinality(N) <= Cardinality(M \cup {w})
    BY <1>8, <2>1, FS_Subset
  <2> QED
    BY <1>4, <2>1, <2>2, <2>3
<1>12. N \subseteq M => Cardinality(N) <= Cardinality(M)
  BY <1>4, FS_Subset
<1>13. w \in M => Cardinality(M \ {w}) = Cardinality(M) - 1
  BY <1>4, FS_RemoveElement
<1>14. /\ Cardinality(M) \in Nat /\ Cardinality(N) \in Nat
       /\ Cardinality(N) <= Cardinality(M) + 1
       /\ (w \in Dialogs /\ d = AdminDevice /\ thread.at \in {"ask", "generate"} => w \in M)
             => Cardinality(N) <= Cardinality(M)
       /\ d = AdminDevice /\ w \in M /\ thread.at \notin {"ask", "generate"}
             => Cardinality(N) = Cardinality(M) - 1
  BY <1>4, <1>9, <1>10, <1>11, <1>12, <1>13
<1> QED
  BY <1>14 DEF M, N

(* The pages after such a step.                                             *)
LEMMA PageGoesOn ==
    ASSUME OneKeyInv, NEW d \in Devices, NEW w \in Threads, NEW thread \in Thread(generated),
           GoesOn(d, w, thread), made => made',
           thread.at = "unwrap" => thread.key # NoKey,
           w \in Dialogs => thread = Idle \/ (d = AdminDevice /\ made')
    PROVE  page' \in [Devices -> Page(generated)] /\ PagesInv'
<1>1. generated \in Nat /\ page \in [Devices -> Page(generated)] /\ AdminDevice \in Devices
  BY AdminDeviceIsOne DEF OneKeyInv, KeyTypeOK
<1>2. /\ page' \in [Devices -> Page(generated)]
      /\ \A e \in Devices \ {d} : page'[e] = page[e]
      /\ page'[d][w] = thread
      /\ \A v \in Threads \ {w} : page'[d][v] = page[d][v]
  BY <1>1, GoesOnPage
<1>3. \A e \in Devices \ {AdminDevice}, v \in Dialogs : page'[e][v] = Idle
  <2> SUFFICES ASSUME NEW e \in Devices \ {AdminDevice}, NEW v \in Dialogs PROVE page'[e][v] = Idle
    OBVIOUS
  <2>1. v \in Threads /\ page[e][v] = Idle
    BY ThreadsOfPage DEF OneKeyInv, PagesInv
  <2>2. CASE e = d /\ v = w
    BY <2>2, <1>2
  <2>3. CASE e # d \/ v # w
    BY <2>1, <2>3, <1>2
  <2> QED
    BY <2>2, <2>3
<1>4. \A e \in Devices, v \in Threads : page'[e][v].at = "unwrap" => page'[e][v].key # NoKey
  BY <1>2 DEF OneKeyInv, PagesInv
<1>5. ~made' => \A v \in Dialogs : page'[AdminDevice][v] = Idle
  BY <1>1, <1>2, ThreadsOfPage DEF OneKeyInv, PagesInv
<1> QED
  BY <1>2, <1>3, <1>4, <1>5 DEF PagesInv

(* A step after which no dialog more misses a key.                          *)
LEMMA MissesNoMore ==
    ASSUME OneKeyInv, NEW d \in Devices, NEW w \in Threads, NEW thread \in Thread(generated),
           GoesOn(d, w, thread), generated' = generated, crossed' = crossed,
           w \in Dialogs /\ d = AdminDevice /\ thread.at \in {"ask", "generate"}
              => w \in Missing(AdminDevice)
    PROVE  Accounted'
<1>1. /\ generated \in Nat /\ crossed \in Nat /\ OneAdminDevice
      /\ page \in [Devices -> Page(generated)]
  BY DEF OneKeyInv, KeyTypeOK
<1>2. /\ Cardinality(Missing(AdminDevice)) \in Nat
      /\ Cardinality(Missing(AdminDevice)') \in Nat
      /\ Cardinality(Missing(AdminDevice)') <= Cardinality(Missing(AdminDevice))
  BY <1>1, MissingCount
<1>3. generated + Cardinality(Missing(AdminDevice)) <= 1 + crossed
  BY DEF OneKeyInv, Accounted
<1>4. generated' + Cardinality(Missing(AdminDevice)') <= 1 + crossed'
  BY <1>1, <1>2, <1>3
<1> QED
  BY <1>4 DEF Accounted

(* A dialog misses a key before any is generated: it is the only one, or it  *)
(* crosses another.                                                         *)
LEMMA MissesOneMore ==
    ASSUME OneKeyInv, NEW d \in Devices, NEW w \in Threads, NEW thread \in Thread(generated),
           GoesOn(d, w, thread), generated = 0, generated' = 0,
           crossed' = IF Missing(AdminDevice) # {} THEN crossed + 1 ELSE crossed
    PROVE  Accounted'
<1>1. /\ generated \in Nat /\ crossed \in Nat /\ OneAdminDevice
      /\ page \in [Devices -> Page(generated)]
  BY DEF OneKeyInv, KeyTypeOK
<1>2. /\ Cardinality(Missing(AdminDevice)) \in Nat
      /\ Cardinality(Missing(AdminDevice)') \in Nat
      /\ Cardinality(Missing(AdminDevice)') <= Cardinality(Missing(AdminDevice)) + 1
  BY <1>1, MissingCount
<1>3. Cardinality(Missing(AdminDevice)) <= 1 + crossed
  BY <1>1, <1>2 DEF OneKeyInv, Accounted
<1>4. Missing(AdminDevice) = {} => Cardinality(Missing(AdminDevice)) = 0
  BY FS_EmptySet
<1>5. generated' + Cardinality(Missing(AdminDevice)') <= 1 + crossed'
  BY <1>1, <1>2, <1>3, <1>4
<1> QED
  BY <1>5 DEF Accounted

(* The steps of a page that generate and upload nothing.                    *)
Prepares(d) ==
    \/ Open(d)
    \/ \E w \in Dialogs : CreateChannel(d, w) \/ StartPost(d, w) \/ EncryptPost(d, w)
    \/ \E lost \in BOOLEAN, w \in Threads : AskKey(d, w, lost)
    \/ \E w \in Threads : SaveChannelKey(d, w)

(* A dialog that is at something is one of the creator's device, which is    *)
(* then a channel's.                                                        *)
LEMMA DialogIsCreators ==
    ASSUME OneKeyInv, NEW d \in Devices, NEW w \in Dialogs, page[d][w] # Idle
    PROVE  d = AdminDevice /\ made
BY DEF OneKeyInv, PagesInv, KeyTypeOK

LEMMA PreparesKeepsKey == ASSUME OneKeyInv, NEW d \in Devices, Prepares(d) PROVE OneKeyInv'
<1>1. /\ generated \in Nat /\ crossed \in Nat /\ NoKey \in 0..generated /\ made \in BOOLEAN
      /\ \A e \in Devices : store[e] \in 0..generated
      /\ \A u \in Users : envelope[u] \in 0..generated
  BY DEF OneKeyInv, KeyTypeOK, NoKey
<1>2. /\ AdminDevice \in Devices
      /\ Device[Creator] = {AdminDevice}
      /\ Owner(AdminDevice) = Creator
      /\ \A e \in Devices : Owner(e) \in Users
      /\ \A e \in Devices \ {AdminDevice} : Owner(e) # Creator
  BY AdminDeviceIsOne, OwnerHasDevice DEF OneKeyInv
<1>3. \A e \in Devices, w \in Threads : page[e][w] \in Thread(generated)
  BY DEF OneKeyInv, KeyTypeOK, Page
<1>4. ASSUME NEW w \in Threads, NEW thread \in Thread(generated),
             GoesOn(d, w, thread), Accounted', crossed' \in Nat,
             UNCHANGED <<made, role, envelope, sealed, share, generated>>,
             \/ store' = store
             \/ store' = [store EXCEPT ![d] = page[d][w].key] /\ page[d][w].key # NoKey,
             thread.at = "unwrap" => thread.key # NoKey,
             w \in Dialogs => thread = Idle \/ (d = AdminDevice /\ made)
      PROVE  OneKeyInv'
  <2>1. page' \in [Devices -> Page(generated)] /\ PagesInv'
    BY <1>4, PageGoesOn
  <2>2. page[d][w].key \in 0..generated
    BY <1>3 DEF Thread
  <2>3. store' \in [Devices -> 0..generated] /\ (generated # 0 => store'[AdminDevice] # NoKey)
    BY <1>4, <1>2, <2>2 DEF OneKeyInv, KeyTypeOK
  <2> QED
    BY <2>1, <2>3, <1>4 DEF OneKeyInv, KeyTypeOK, RolesInv
<1>5. ASSUME NEW w \in Dialogs, CreateChannel(d, w) PROVE OneKeyInv'
  <2> DEFINE thread == [Idle EXCEPT !.at = "generate", !.is = "create"]
  <2>1. d = AdminDevice /\ ~made /\ made' = TRUE /\ generated = 0 /\ w \in Threads
    BY <1>2, <1>5, ThreadsOfPage DEF CreateChannel, InsertChannel, OneKeyInv
  <2>2. UNCHANGED <<envelope, sealed, store, share, generated, crossed>>
    BY <1>5 DEF CreateChannel, InsertChannel
  <2>3. thread \in Thread(generated) /\ thread.at = "generate"
    BY <1>1 DEF Idle, Thread, Steps, Purposes
  <2>4. Missing(AdminDevice) = {}
    BY <2>1, BlankPage DEF Missing, OneKeyInv, PagesInv
  <2> HIDE DEF thread
  <2>5. PagesInv' /\ page' \in [Devices -> Page(generated)] /\ Accounted'
    <3>1. CASE GoesOn(d, w, thread)
      <4>1. PagesInv' /\ page' \in [Devices -> Page(generated)]
        BY <3>1, <2>1, <2>3, PageGoesOn
      <4>2. Accounted'
        BY <3>1, <2>1, <2>2, <2>3, <2>4, MissesOneMore
      <4> QED
        BY <4>1, <4>2
    <3>2. CASE page' = page
      BY <3>2, <2>1, <2>2 DEF PagesInv, OneKeyInv, KeyTypeOK, Accounted, Missing
    <3> QED
      BY <3>1, <3>2, <1>5 DEF CreateChannel, InsertChannel, thread
  <2>6. role' \in [Users -> {"none", "member", "admin"}]
        /\ \A u \in Users \ {Creator} : role'[u] # "admin"
    BY <1>5 DEF CreateChannel, InsertChannel, OneKeyInv, KeyTypeOK, RolesInv
  <2> QED
    BY <2>1, <2>2, <2>5, <2>6 DEF OneKeyInv, KeyTypeOK, RolesInv
<1>6. ASSUME NEW w \in Threads, NEW is \in Purposes, GetChannelKey(d, w, is),
             UNCHANGED <<made, role, envelope, sealed, store, share, generated>>,
             w \in Dialogs => d = AdminDevice /\ made
      PROVE  OneKeyInv'
  <2> DEFINE thread == [Idle EXCEPT !.at = IF Local(d) # NoKey THEN With(w) ELSE "ask", !.is = is]
  <2>1. GoesOn(d, w, thread)
    BY <1>6 DEF GetChannelKey
  <2>2. With(w) \in Steps \ {"unwrap", "ask", "generate"}
    BY DEF With, Steps
  <2>3. /\ thread \in Thread(generated)
        /\ thread.at = IF Local(d) # NoKey THEN With(w) ELSE "ask"
    BY <1>1, <2>2 DEF Idle, Thread, Steps
  <2> HIDE DEF thread
  <2>4. thread.at # "unwrap"
    BY <2>2, <2>3
  <2>5. crossed' = IF Local(d) = NoKey /\ w \in Dialogs /\ Missing(d) # {}
                   THEN crossed + 1 ELSE crossed
    BY <1>6 DEF GetChannelKey
  <2>6. Accounted'
    <3>1. CASE Local(d) = NoKey /\ w \in Dialogs
      <4>1. d = AdminDevice /\ generated = 0 /\ generated' = 0
        BY <3>1, <1>6 DEF Local, OneKeyInv
      <4> QED
        BY <3>1, <4>1, <2>1, <2>3, <2>5, MissesOneMore
    <3>2. CASE Local(d) # NoKey \/ w \notin Dialogs
      <4>1. crossed' = crossed /\ generated' = generated
        BY <3>2, <2>5, <1>6
      <4>2. w \in Dialogs => thread.at \notin {"ask", "generate"}
        BY <3>2, <2>2, <2>3
      <4> QED
        BY <4>1, <4>2, <2>1, <2>3, MissesNoMore
    <3> QED
      BY <3>1, <3>2
  <2>7. crossed' \in Nat
    BY <1>1, <2>5
  <2> QED
    BY <2>1, <2>3, <2>4, <2>6, <2>7, <1>4, <1>6
<1>7. CASE Open(d)
  <2>1. "load" \in Threads /\ "load" \notin Dialogs
    BY ThreadsOfPage
  <2>2. PICK is \in Purposes : GetChannelKey(d, "load", is)
    BY <1>7 DEF Open, Purposes
  <2>3. UNCHANGED <<made, role, envelope, sealed, store, share, generated>>
    BY <1>7 DEF Open, channelTables
  <2> QED
    BY <2>1, <2>2, <2>3, <1>6
<1>8. ASSUME NEW w \in Dialogs, StartPost(d, w) PROVE OneKeyInv'
  <2>1. role[Owner(d)] = "admin"
    BY <1>2, <1>8 DEF StartPost, IsAdmin, OneKeyInv, KeyTypeOK
  <2>2. d = AdminDevice /\ made
    BY <1>1, <1>2, <2>1 DEF OneKeyInv, RolesInv
  <2>3. GetChannelKey(d, w, "post") /\ "post" \in Purposes /\ w \in Threads
    BY <1>8, ThreadsOfPage DEF StartPost, Purposes
  <2>4. UNCHANGED <<made, role, envelope, sealed, store, share, generated>>
    BY <1>8 DEF StartPost, channelTables
  <2> QED
    BY <2>2, <2>3, <2>4, <1>6
<1>9. ASSUME NEW lost \in BOOLEAN, NEW w \in Threads, AskKey(d, w, lost) PROVE OneKeyInv'
  <2> DEFINE key == IF lost \/ ~Member(Owner(d)) THEN NoKey ELSE envelope[Owner(d)]
             thread == IF key = NoKey THEN [page[d][w] EXCEPT !.at = Without(w)]
                       ELSE [page[d][w] EXCEPT !.at = "unwrap", !.key = key]
  <2>1. key \in 0..generated
    BY <1>1, <1>2
  <2>2. Without(w) \in Steps \ {"unwrap"}
    BY DEF Without, Steps
  <2>3. GoesOn(d, w, thread) /\ page[d][w].at = "ask"
    BY <1>9 DEF AskKey, OwnEnvelope
  <2>4. UNCHANGED <<made, role, envelope, sealed, store, share, generated, crossed>>
    BY <1>9 DEF AskKey, OwnEnvelope, channelTables
  <2>5. thread \in Thread(generated) /\ (thread.at = "unwrap" => thread.key # NoKey)
    <3> HIDE DEF key
    <3>1. page[d][w] \in Thread(generated)
      BY <1>3
    <3>2. CASE key = NoKey
      BY <3>1, <3>2, <2>2, <1>1 DEF Thread
    <3>3. CASE key # NoKey
      BY <3>1, <3>3, <2>1, <1>1 DEF Thread, Steps
    <3> QED
      BY <3>2, <3>3
  <2> HIDE DEF thread
  <2>6. w \in Dialogs => d = AdminDevice /\ made
    BY <2>3, BlankPage, DialogIsCreators
  <2>7. w \in Dialogs => w \in Missing(d)
    BY <2>3 DEF Missing
  <2>8. Accounted'
    BY <2>3, <2>4, <2>5, <2>7, MissesNoMore
  <2> QED
    BY <2>3, <2>4, <2>5, <2>6, <2>8, <1>1, <1>4
<1>10. ASSUME NEW w \in Threads, SaveChannelKey(d, w) PROVE OneKeyInv'
  <2> DEFINE thread == [page[d][w] EXCEPT !.at = With(w), !.key = NoKey]
  <2>1. GoesOn(d, w, thread) /\ page[d][w].at = "unwrap"
    BY <1>10 DEF SaveChannelKey
  <2>2. With(w) \in Steps \ {"unwrap", "ask", "generate"}
    BY DEF With, Steps
  <2>3. thread \in Thread(generated) /\ thread.at = With(w)
    BY <1>1, <1>3, <2>2 DEF Thread
  <2> HIDE DEF thread
  <2>4. page[d][w].key # NoKey
    BY <2>1 DEF OneKeyInv, PagesInv
  <2>5. /\ UNCHANGED <<made, role, envelope, sealed, share, generated, crossed>>
        /\ store' = [store EXCEPT ![d] = page[d][w].key]
    BY <1>10 DEF SaveChannelKey, channelTables
  <2>6. w \in Dialogs => d = AdminDevice /\ made
    BY <2>1, BlankPage, DialogIsCreators
  <2>7. Accounted'
    BY <2>1, <2>2, <2>3, <2>5, MissesNoMore
  <2> QED
    BY <2>1, <2>2, <2>3, <2>4, <2>5, <2>6, <2>7, <1>1, <1>4
<1>11. ASSUME NEW w \in Dialogs, EncryptPost(d, w) PROVE OneKeyInv'
  <2> DEFINE thread == [page[d][w] EXCEPT !.at = "send", !.key = store[d]]
  <2>1. GoesOn(d, w, thread) /\ page[d][w].at = "encrypt" /\ w \in Threads
    BY <1>11, ThreadsOfPage DEF EncryptPost
  <2>2. thread \in Thread(generated) /\ thread.at = "send"
    BY <1>1, <1>3, <2>1 DEF Thread, Steps
  <2> HIDE DEF thread
  <2>3. d = AdminDevice /\ made
    BY <2>1, BlankPage, DialogIsCreators
  <2>4. UNCHANGED <<made, role, envelope, sealed, store, share, generated, crossed>>
    BY <1>11 DEF EncryptPost, channelTables
  <2>5. Accounted'
    BY <2>1, <2>2, <2>4, MissesNoMore
  <2> QED
    BY <2>1, <2>2, <2>3, <2>4, <2>5, <1>1, <1>4
<1> QED
  BY <1>5, <1>7, <1>8, <1>9, <1>10, <1>11 DEF Prepares

(* A generated key is saved before it is uploaded.                          *)
LEMMA GenerateKeepsKey ==
    ASSUME OneKeyInv, NEW d \in Devices, NEW w \in Dialogs, Generate(d, w)
    PROVE  OneKeyInv'
<1> DEFINE n == generated + 1
           thread == [page[d][w] EXCEPT !.at = "upload", !.key = n]
<1>1. generated \in Nat /\ crossed \in Nat /\ w \in Threads
  BY ThreadsOfPage DEF OneKeyInv, KeyTypeOK
<1>2. page[d][w].at = "generate" /\ generated' = n /\ GoesOn(d, w, thread)
  BY DEF Generate
<1>3. d = AdminDevice /\ made
  BY <1>2, BlankPage, DialogIsCreators
<1>4. n \in Nat /\ 0..generated \subseteq 0..n /\ n \in 0..n /\ n # 0
  BY <1>1
<1>5. /\ UNCHANGED <<made, role, envelope, sealed, share, crossed>>
      /\ store' = [store EXCEPT ![d] = n]
  BY <1>2 DEF Generate, channelTables
<1>6. Thread(generated) \subseteq Thread(n) /\ Sharing(generated) \subseteq Sharing(n)
  BY <1>4 DEF Thread, Sharing
<1>7. Page(generated) \subseteq Page(n)
  BY <1>6 DEF Page
<1>8. page[d][w] \in Thread(n) /\ page \in [Devices -> Page(n)]
  BY <1>1, <1>6, <1>7 DEF OneKeyInv, KeyTypeOK, Page
<1>9. thread \in Thread(n) /\ thread.at = "upload"
  BY <1>4, <1>8 DEF Thread, Steps
<1> HIDE DEF thread, n
<1>10. /\ page' \in [Devices -> Page(n)]
       /\ \A e \in Devices \ {d} : page'[e] = page[e]
       /\ page'[d][w] = thread
       /\ \A v \in Threads \ {w} : page'[d][v] = page[d][v]
  BY <1>1, <1>2, <1>4, <1>8, <1>9, GoesOnPage
<1>11. KeyTypeOK'
  <2>1. /\ envelope' \in [Users -> 0..n] /\ sealed' \in [Items -> 0..n]
        /\ store' \in [Devices -> 0..n] /\ share' \in [Devices -> Sharing(n)]
    BY <1>4, <1>5, <1>6 DEF OneKeyInv, KeyTypeOK
  <2>2. generated' \in Nat /\ crossed' \in Nat /\ made' \in BOOLEAN
        /\ role' \in [Users -> {"none", "member", "admin"}]
    BY <1>2, <1>4, <1>5 DEF OneKeyInv, KeyTypeOK
  <2> QED
    BY <2>1, <2>2, <1>2, <1>10 DEF KeyTypeOK
<1>12. PagesInv'
  <2>1. \A e \in Devices \ {AdminDevice}, v \in Dialogs : page'[e][v] = Idle
    BY <1>3, <1>10 DEF OneKeyInv, PagesInv
  <2>2. \A e \in Devices, v \in Threads : page'[e][v].at = "unwrap" => page'[e][v].key # NoKey
    BY <1>9, <1>10 DEF OneKeyInv, PagesInv
  <2> QED
    BY <2>1, <2>2, <1>3, <1>5 DEF PagesInv
<1>13. Accounted'
  <2>1. w \in Missing(AdminDevice)
    BY <1>2, <1>3 DEF Missing
  <2>2. /\ Cardinality(Missing(AdminDevice)) \in Nat
        /\ Cardinality(Missing(AdminDevice)') \in Nat
        /\ Cardinality(Missing(AdminDevice)') = Cardinality(Missing(AdminDevice)) - 1
    BY <2>1, <1>1, <1>2, <1>3, <1>4, <1>8, <1>9, MissingCount DEF OneKeyInv
  <2>3. generated + Cardinality(Missing(AdminDevice)) <= 1 + crossed
    BY DEF OneKeyInv, Accounted
  <2>4. generated' + Cardinality(Missing(AdminDevice)') <= 1 + crossed'
    BY <2>2, <2>3, <1>1, <1>2, <1>5 DEF n
  <2> QED
    BY <2>4 DEF Accounted
<1>14. store'[AdminDevice] = n
  BY <1>3, <1>5 DEF OneKeyInv, KeyTypeOK
<1> QED
  BY <1>3, <1>4, <1>5, <1>11, <1>12, <1>13, <1>14 DEF OneKeyInv, RolesInv, NoKey

(* The steps of a page that hand a key or a post to the server.             *)
HandsOver(d) ==
    \/ \E lost \in BOOLEAN : ListPosts(d, lost)
    \/ \E lost \in BOOLEAN, w \in Dialogs : UploadOwn(d, w, lost)
    \/ \E lost \in BOOLEAN, w \in Dialogs, p \in Posts : SendPost(d, w, p, lost)
    \/ StartShare(d)

LEMMA HandsOverKeepsKey == ASSUME OneKeyInv, NEW d \in Devices, HandsOver(d) PROVE OneKeyInv'
<1>1. /\ generated \in Nat /\ crossed \in Nat /\ NoKey \in 0..generated /\ made \in BOOLEAN
      /\ \A e \in Devices : store[e] \in 0..generated
      /\ \A u \in Users : envelope[u] \in 0..generated
  BY DEF OneKeyInv, KeyTypeOK, NoKey
<1>2. Idle \in Thread(generated) /\ Idle.at = "idle"
  BY <1>1, BlankPage
<1>3. \A w \in Threads : page[d][w] \in Thread(generated) /\ page[d][w].key \in 0..generated
  BY DEF OneKeyInv, KeyTypeOK, Page, Thread
<1>4. ASSUME NEW w \in Threads, NEW thread \in Thread(generated), GoesOn(d, w, thread),
             UNCHANGED <<made, role, store, generated, crossed>>,
             envelope' \in [Users -> 0..generated],
             sealed' \in [Items -> 0..generated],
             share' \in [Devices -> Sharing(generated)],
             thread.at \notin {"unwrap", "ask", "generate"},
             w \in Dialogs => d = AdminDevice /\ made
      PROVE  OneKeyInv'
  <2>1. page' \in [Devices -> Page(generated)] /\ PagesInv'
    BY <1>4, PageGoesOn
  <2>2. Accounted'
    BY <1>4, MissesNoMore
  <2> QED
    BY <2>1, <2>2, <1>4 DEF OneKeyInv, KeyTypeOK, RolesInv
<1>5. ASSUME NEW lost \in BOOLEAN, NEW w \in Dialogs, UploadOwn(d, w, lost) PROVE OneKeyInv'
  <2> DEFINE next == [page[d][w] EXCEPT !.at = "encrypt", !.key = NoKey]
  <2>1. w \in Threads /\ page[d][w].at = "upload"
    BY <1>5, ThreadsOfPage DEF UploadOwn
  <2>2. d = AdminDevice /\ made
    BY <2>1, <1>2, DialogIsCreators
  <2>3. envelope' \in [Users -> 0..generated]
    BY <1>1, <1>3, <2>1, <1>5 DEF UploadOwn, Upload, OneKeyInv, KeyTypeOK
  <2>4. next \in Thread(generated) /\ next.at = "encrypt"
    BY <1>1, <1>3, <2>1 DEF Thread, Steps
  <2>5. GoesOn(d, w, Idle) \/ GoesOn(d, w, next)
    BY <1>5 DEF UploadOwn, GoesOn
  <2>6. /\ UNCHANGED <<made, role, store, generated, crossed>>
        /\ sealed' \in [Items -> 0..generated]
        /\ share' \in [Devices -> Sharing(generated)]
    BY <1>5 DEF UploadOwn, OneKeyInv, KeyTypeOK
  <2> HIDE DEF next
  <2> QED
    BY <2>1, <2>2, <2>3, <2>4, <2>5, <2>6, <1>2, <1>4
<1>6. ASSUME NEW lost \in BOOLEAN, ListPosts(d, lost) PROVE OneKeyInv'
  <2>1. /\ UNCHANGED <<made, role, store, generated, crossed>>
        /\ envelope' \in [Users -> 0..generated]
        /\ sealed' \in [Items -> 0..generated]
        /\ share' \in [Devices -> Sharing(generated)]
    BY <1>6 DEF ListPosts, channelTables, OneKeyInv, KeyTypeOK
  <2>2. GoesOn(d, "load", Idle)
    BY <1>6 DEF ListPosts
  <2> QED
    BY <2>1, <2>2, <1>2, <1>4, ThreadsOfPage
<1>7. ASSUME NEW lost \in BOOLEAN, NEW w \in Dialogs, NEW p \in Posts, SendPost(d, w, p, lost)
      PROVE  OneKeyInv'
  <2>1. w \in Threads /\ page[d][w].at = "send"
    BY <1>7, ThreadsOfPage DEF SendPost
  <2>2. d = AdminDevice /\ made
    BY <2>1, <1>2, DialogIsCreators
  <2>3. sealed' = sealed \/ sealed' = [sealed EXCEPT ![p] = page[d][w].key]
    BY <1>7 DEF SendPost
  <2>4. sealed' \in [Items -> 0..generated]
    BY <1>3, <2>1, <2>3 DEF OneKeyInv, KeyTypeOK
  <2>5. /\ UNCHANGED <<made, role, store, generated, crossed>>
        /\ envelope' \in [Users -> 0..generated]
        /\ share' \in [Devices -> Sharing(generated)]
    BY <1>7 DEF SendPost, OneKeyInv, KeyTypeOK
  <2>6. GoesOn(d, w, Idle)
    BY <1>7 DEF SendPost
  <2> QED
    BY <2>1, <2>2, <2>4, <2>5, <2>6, <1>2, <1>4
<1>8. CASE StartShare(d)
  <2> DEFINE next == [page[d]["load"] EXCEPT !.at = "list"]
  <2>1. NoShare \in Sharing(generated) /\ [at |-> "ask", key |-> store[d], to |-> {}] \in Sharing(generated)
    BY <1>1 DEF NoShare, Sharing
  <2>2. share' \in [Devices -> Sharing(generated)]
    BY <2>1, <1>8 DEF StartShare, OneKeyInv, KeyTypeOK
  <2>3. next \in Thread(generated) /\ next.at = "list"
    BY <1>3, ThreadsOfPage DEF Thread, Steps
  <2>4. /\ UNCHANGED <<made, role, store, generated, crossed>>
        /\ envelope' \in [Users -> 0..generated]
        /\ sealed' \in [Items -> 0..generated]
        /\ GoesOn(d, "load", next)
    BY <1>8 DEF StartShare, channelTables, OneKeyInv, KeyTypeOK
  <2> HIDE DEF next
  <2> QED
    BY <2>2, <2>3, <2>4, <1>4, ThreadsOfPage
<1> QED
  BY <1>5, <1>6, <1>7, <1>8 DEF HandsOver

(* Sharing, reloading and signing out.                                       *)
LEMMA ShareKeepsKey ==
    ASSUME OneKeyInv, NEW d \in Devices, ShareStep(d) \/ Reload(d) \/ SignOut(d)
    PROVE  OneKeyInv'
<1>1. /\ generated \in Nat /\ NoKey \in 0..generated
      /\ share \in [Devices -> Sharing(generated)]
      /\ share[d].key \in 0..generated
  BY DEF OneKeyInv, KeyTypeOK, NoKey, Sharing
<1>2. NoShare \in Sharing(generated)
  BY <1>1 DEF NoShare, Sharing
<1>3. ASSUME NEW lost \in BOOLEAN, AskPending(d, lost) PROVE OneKeyInv'
  <2>1. PICK to \in kSubset(Min({PendingLimit, Cardinality(Pending)}), Pending) :
           share' = [share EXCEPT ![d] = IF lost \/ ~IsAdmin(Owner(d)) \/ to = {} THEN NoShare
                                         ELSE [share[d] EXCEPT !.at = "upload", !.to = to]]
    BY <1>3, Zenon DEF AskPending
  <2>2. to \subseteq Users
    BY <2>1 DEF kSubset, Pending
  <2>3. [share[d] EXCEPT !.at = "upload", !.to = to] \in Sharing(generated)
    BY <1>1, <2>2 DEF Sharing
  <2>4. share' \in [Devices -> Sharing(generated)]
    BY <1>1, <1>2, <2>1, <2>3
  <2>5. UNCHANGED <<made, role, envelope, sealed, store, page, generated, crossed>>
    BY <1>3 DEF AskPending, channelTables
  <2> QED
    BY <2>4, <2>5 DEF OneKeyInv, KeyTypeOK, PagesInv, RolesInv, Accounted, Missing
<1>4. ASSUME NEW lost \in BOOLEAN, ShareKey(d, lost) PROVE OneKeyInv'
  <2>1. envelope' \in [Users -> 0..generated]
    BY <1>1, <1>4 DEF ShareKey, Upload, OneKeyInv, KeyTypeOK
  <2>2. share' \in [Devices -> Sharing(generated)]
    BY <1>1, <1>2, <1>4 DEF ShareKey
  <2>3. UNCHANGED <<made, role, sealed, store, page, generated, crossed>>
    BY <1>4 DEF ShareKey
  <2> QED
    BY <2>1, <2>2, <2>3 DEF OneKeyInv, KeyTypeOK, PagesInv, RolesInv, Accounted, Missing
<1>5. CASE Reload(d) \/ SignOut(d)
  <2>1. /\ UNCHANGED <<made, role, envelope, sealed, generated, crossed>>
        /\ page' = [page EXCEPT ![d] = Blank] /\ share' = [share EXCEPT ![d] = NoShare]
        /\ store' = store \/ (d \in SignOuts /\ store' = [store EXCEPT ![d] = NoKey])
    BY <1>5 DEF Reload, SignOut, channelTables
  <2>2. page' \in [Devices -> Page(generated)] /\ share' \in [Devices -> Sharing(generated)]
    BY <1>1, <1>2, <2>1, BlankPage DEF OneKeyInv, KeyTypeOK
  <2>3. \A e \in Devices : page'[e] = IF e = d THEN Blank ELSE page[e]
    BY <2>1 DEF OneKeyInv, KeyTypeOK
  <2>4. \A e \in Devices, w \in Threads : page'[e][w] \in {Idle, page[e][w]}
    BY <2>3, BlankPage
  <2>5. PagesInv'
    BY <2>1, <2>4, BlankPage, ThreadsOfPage, AdminDeviceIsOne DEF OneKeyInv, PagesInv
  <2>6. store' \in [Devices -> 0..generated] /\ (generated # 0 => store'[AdminDevice] # NoKey)
    BY <1>1, <2>1, AdminDeviceIsOne DEF OneKeyInv, KeyTypeOK
  <2>7. Accounted'
    <3>1. Missing(AdminDevice)' \subseteq Missing(AdminDevice) /\ Missing(AdminDevice) \subseteq Dialogs
      BY <2>4, BlankPage, ThreadsOfPage, AdminDeviceIsOne DEF Missing, OneKeyInv
    <3>2. /\ Cardinality(Missing(AdminDevice)) \in Nat /\ Cardinality(Missing(AdminDevice)') \in Nat
          /\ Cardinality(Missing(AdminDevice)') <= Cardinality(Missing(AdminDevice))
      BY <3>1, ThreadsOfPage, FS_Subset, FS_CardinalityType
    <3>3. generated + Cardinality(Missing(AdminDevice)) <= 1 + crossed /\ crossed \in Nat
      BY DEF OneKeyInv, Accounted, KeyTypeOK
    <3>4. generated' + Cardinality(Missing(AdminDevice)') <= 1 + crossed'
      BY <3>2, <3>3, <2>1, <1>1
    <3> QED
      BY <3>4 DEF Accounted
  <2> QED
    BY <2>1, <2>2, <2>5, <2>6, <2>7 DEF OneKeyInv, KeyTypeOK, RolesInv
<1> QED
  BY <1>3, <1>4, <1>5 DEF ShareStep

(* The server's tables, and the maintenance task.                           *)
LEMMA OthersKeepKey ==
    ASSUME OneKeyInv,
           \/ \E u \in Users : Subscribe(u) \/ Unsubscribe(u)
           \/ \E p \in Posts : CancelPost(p) \/ Tick(p)
           \/ \E r \in Runs : Maintenance(r) \/ MaintenanceThrows(r)
           \/ UNCHANGED channelVars
    PROVE  OneKeyInv'
<1>1. ASSUME NEW u \in Users, Subscribe(u) \/ Unsubscribe(u) PROVE OneKeyInv'
  <2>1. /\ made
        /\ role' \in [Users -> {"none", "member", "admin"}]
        /\ \A v \in Users \ {Creator} : role'[v] # "admin"
    BY <1>1 DEF Subscribe, Unsubscribe, OneKeyInv, KeyTypeOK, RolesInv
  <2>2. UNCHANGED <<made, envelope, sealed, store, page, share, generated, crossed>>
    BY <1>1 DEF Subscribe, Unsubscribe, channelPages
  <2> QED
    BY <2>1, <2>2 DEF OneKeyInv, KeyTypeOK, PagesInv, RolesInv, Accounted, Missing
<1>2. ASSUME UNCHANGED <<made, role, envelope, sealed, store, page, share, generated, crossed>>
      PROVE  OneKeyInv'
  BY <1>2 DEF OneKeyInv, KeyTypeOK, PagesInv, RolesInv, Accounted, Missing
<1>3. ASSUME NEW p \in Posts, CancelPost(p) \/ Tick(p) PROVE OneKeyInv'
  BY <1>2, <1>3 DEF CancelPost, Tick, channelTables, channelPages
<1>4. ASSUME NEW r \in Runs, Maintenance(r) \/ MaintenanceThrows(r) PROVE OneKeyInv'
  BY <1>2, <1>4 DEF Maintenance, MaintenanceThrows, channelTables, channelPages
<1>5. CASE UNCHANGED channelVars
  BY <1>2, <1>5 DEF channelVars, channelTables, channelPages
<1> QED
  BY <1>1, <1>3, <1>4, <1>5

LEMMA OneKeyNext == OneKeyInv /\ [ChannelsNext]_channelVars => OneKeyInv'
<1> SUFFICES ASSUME OneKeyInv, [ChannelsNext]_channelVars PROVE OneKeyInv'
  OBVIOUS
<1>1. ASSUME NEW d \in Devices, Prepares(d) \/ (\E w \in Dialogs : Generate(d, w)) \/ HandsOver(d)
      PROVE  OneKeyInv'
  BY <1>1, PreparesKeepsKey, GenerateKeepsKey, HandsOverKeepsKey
<1>2. ASSUME NEW d \in Devices, PageStep(d) \/ LocalStep(d)
      PROVE  Prepares(d) \/ (\E w \in Dialogs : Generate(d, w)) \/ HandsOver(d)
  <2>1. CASE PageStep(d)
    BY <2>1 DEF PageStep, Prepares, HandsOver
  <2>2. CASE LocalStep(d)
    BY <2>2 DEF LocalStep, Prepares, HandsOver
  <2> QED
    BY <1>2, <2>1, <2>2
<1>3. ASSUME NEW d \in Devices,
             Open(d) \/ \E w \in Dialogs : CreateChannel(d, w) \/ StartPost(d, w)
      PROVE  Prepares(d)
  BY <1>3 DEF Prepares
<1>4. ASSUME NEW d \in Devices, ShareStep(d) \/ Reload(d) \/ SignOut(d) PROVE OneKeyInv'
  BY <1>4, ShareKeepsKey
<1> QED
  BY <1>1, <1>2, <1>3, <1>4, OthersKeepKey DEF ChannelsNext

(* The keys of a channel: with one device of the admin that is not signed    *)
(* out, for every number of subscribers, devices, clicks, posts, losses and  *)
(* reloads, no more keys wrap, open and seal than one and one for each click *)
(* that crossed another.                                                    *)
THEOREM OneChannelKeyHolds == OneAdminDevice /\ ChannelsSpec => []OneChannelKey
<1>1. OneKeyInv => OneChannelKey
  <2> SUFFICES ASSUME OneKeyInv PROVE OneChannelKey
    OBVIOUS
  <2> DEFINE keys == ({envelope[u] : u \in Users} \cup {store[d] : d \in Devices}
                      \cup {sealed[p] : p \in Posts}) \ {NoKey}
  <2>1. generated \in Nat /\ crossed \in Nat
    BY DEF OneKeyInv, KeyTypeOK
  <2>2. keys \subseteq 1..generated
    <3> SUFFICES ASSUME NEW k \in keys PROVE k \in 1..generated
      OBVIOUS
    <3>1. Posts \subseteq Items
      BY DEF Items
    <3>2. k \in 0..generated /\ k # 0
      BY <3>1 DEF OneKeyInv, KeyTypeOK, NoKey
    <3> QED
      BY <2>1, <3>2
  <2> HIDE DEF keys
  <2>3. IsFiniteSet(1..generated) /\ Cardinality(1..generated) = generated
    BY <2>1, FS_Interval
  <2>4. Cardinality(keys) <= generated /\ Cardinality(keys) \in Nat
    BY <2>2, <2>3, FS_Subset, FS_CardinalityType
  <2>5. Missing(AdminDevice) \subseteq Dialogs
    BY DEF Missing
  <2>6. Cardinality(Missing(AdminDevice)) \in Nat
    BY <2>5, ThreadsOfPage, FS_Subset, FS_CardinalityType
  <2>7. generated <= 1 + crossed
    BY <2>1, <2>6 DEF OneKeyInv, Accounted
  <2>8. Cardinality(keys) <= 1 + crossed
    BY <2>1, <2>4, <2>7
  <2> QED
    BY <2>8 DEF OneChannelKey, keys
<1> QED
  BY <1>1, OneKeyInit, OneKeyNext, PTL DEF ChannelsSpec

=============================================================================
