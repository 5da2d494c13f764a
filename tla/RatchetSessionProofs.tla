------------------------ MODULE RatchetSessionProofs ------------------------
(***************************************************************************)
(* What holds of a direct conversation for every choice of its constants:  *)
(* who may start, which kinds of message, which outcomes of POST, where    *)
(* messages are opened, when reloads happen, and every bound.              *)
(*                                                                         *)
(* UniqueMessageKeys is not inductive: it says nothing of the sessions the *)
(* next message will be encrypted with.  KeyInv adds that every session a  *)
(* party may pick up, in memory or in IndexedDB, is past the messages sent *)
(* under its chain, and that no two parties send under one chain.  A new   *)
(* chain is apart from all others because its last DH mixes a key pair     *)
(* that was generated for it.  The other invariants are explained where    *)
(* they are defined, in RatchetInvariants.                                 *)
(***************************************************************************)
EXTENDS RatchetInvariants, LeastElement, SequenceTheorems, FiniteSetTheorems,
        TLAPS

-----------------------------------------------------------------------------
(* The ratchet operators, for every state and every message: what          *)
(* decryption returns is a ratchet state again, and the sending side of    *)
(* that state is either untouched or hangs on the key pair that the call   *)
(* generated.                                                              *)

(* The index findIndex returns is an index of the list of skipped keys. *)
LEMMA SkippedIndexInRange ==
    ASSUME NEW st \in RatchetState, NEW m, SkippedIndex(st, m) # 0
    PROVE  SkippedIndex(st, m) \in 1 .. Len(st.skipped)
<1> DEFINE I == {i \in 1 .. Len(st.skipped) :
                   st.skipped[i].dh = m.dh /\ st.skipped[i].n = m.n}
<1>1. SkippedIndex(st, m) = IF I # {} THEN Min(I) ELSE 0
  BY DEF SkippedIndex, SelectInSeq
<1>2. I \in SUBSET Nat /\ I # {}
  BY <1>1
<1>3. Min(I) \in I
  BY <1>2, MinIsMember
<1> QED
  BY <1>1, <1>2, <1>3

-----------------------------------------------------------------------------
(* Type correctness of the key derivations and of each operator. *)

(* Each key derivation returns a key of its kind. *)
LEMMA KdfTypes ==
    /\ \A x, y \in KeyPair : DH(x, y) \in SUBSET KeyPair
    /\ \A rk \in RootKey, dh \in SUBSET KeyPair : KdfRootKey(rk, dh) \in RootKey
    /\ \A rk \in RootKey : FirstChainKey(rk) \in ChainKey
    /\ \A ck \in ChainKey, i \in Nat : KdfChainKey(ck, i) \in ChainKey
<1>1. \A rk \in RootKey, dh \in SUBSET KeyPair :
         Append(rk.path, dh) \in Seq(SUBSET KeyPair)
  BY DEF RootKey
<1> QED
  BY <1>1 DEF DH, KdfRootKey, FirstChainKey, KdfChainKey, RootKey, ChainKey

(* initSender builds a ratchet state. *)
LEMMA InitSenderType ==
    ASSUME NEW secret \in SUBSET KeyPair, NEW spk \in KeyPair, NEW fresh \in KeyPair
    PROVE  InitSender(secret, spk, fresh) \in RatchetState
<1> DEFINE base == [secret |-> secret, path |-> <<>>]
           rk == KdfRootKey(base, DH(fresh, spk))
<1>1. base \in RootKey
  BY DEF RootKey
<1>2. rk \in RootKey /\ FirstChainKey(rk) \in ChainKey
  BY <1>1, KdfTypes
<1> HIDE DEF rk
<1>3. [ dhs |-> fresh, dhr |-> spk, rk |-> rk, cks |-> FirstChainKey(rk), ckr |-> None,
        ns |-> 0, nr |-> 0, pn |-> 0, skipped |-> <<>> ] \in RatchetState
  BY <1>2 DEF RatchetState
<1> QED
  BY <1>3 DEF InitSender, rk

(* initReceiver builds a ratchet state. *)
LEMMA InitReceiverType ==
    ASSUME NEW secret \in SUBSET KeyPair, NEW spk \in KeyPair
    PROVE  InitReceiver(secret, spk) \in RatchetState
<1>1. [secret |-> secret, path |-> <<>>] \in RootKey
  BY DEF RootKey
<1> QED
  BY <1>1 DEF InitReceiver, RatchetState

(* ratchetEncrypt leaves a ratchet state. *)
LEMMA AfterEncryptType ==
    ASSUME NEW st \in RatchetState, CanEncrypt(st)
    PROVE  AfterEncrypt(st) \in RatchetState
<1> DEFINE ck == KdfChainKey(st.cks, 1)
           ns == st.ns + 1
<1>1. ck \in ChainKey
  BY KdfTypes DEF RatchetState, CanEncrypt
<1>2. ns \in Nat
  BY DEF RatchetState
<1>3. AfterEncrypt(st) = [st EXCEPT !.cks = ck, !.ns = ns]
  BY DEF AfterEncrypt
<1> HIDE DEF ck, ns
<1> QED
  BY <1>1, <1>2, <1>3 DEF RatchetState

(* Trimming the skipped keys leaves a list of skipped keys. *)
LEMMA LatestKeysType ==
    ASSUME NEW keys \in Seq(SkippedKey)
    PROVE  LatestKeys(keys) \in Seq(SkippedKey)
<1>1. CASE Len(keys) <= MaxSkip
  BY <1>1 DEF LatestKeys
<1>2. CASE ~(Len(keys) <= MaxSkip)
  <2> DEFINE first == Len(keys) - MaxSkip + 1
  <2>1. first \in Int /\ Len(keys) \in Int /\ first >= 1
    BY <1>2, MaxSkipAssumption
  <2>2. \A i \in first .. Len(keys) : keys[i] \in SkippedKey
    BY <2>1
  <2> HIDE DEF first
  <2>3. SubSeq(keys, first, Len(keys)) \in Seq(SkippedKey)
    BY <2>1, <2>2, SubSeqProperties
  <2> QED
    BY <1>2, <2>3 DEF LatestKeys, first
<1> QED
  BY <1>1, <1>2

(* skipMessages leaves a ratchet state, whatever the gap. *)
LEMMA SkipMessagesType ==
    ASSUME NEW st \in RatchetState, NEW until \in Nat
    PROVE  SkipMessages(st, until) \in RatchetState
<1>1. CASE st.ckr = None
  BY <1>1 DEF SkipMessages
<1>2. CASE st.ckr # None
  <2> DEFINE gap == IF until > st.nr THEN until - st.nr ELSE 0
             passed == [i \in 1 .. gap |->
                           [ dh |-> st.dhr, n |-> st.nr + i - 1,
                             mk |-> KdfChainKey(st.ckr, i - 1) ]]
  <2>1. st.ckr \in ChainKey /\ st.nr \in Nat /\ gap \in Nat
    BY <1>2 DEF RatchetState
  <2>2. \A i \in 1 .. gap : passed[i] \in SkippedKey
    <3> SUFFICES ASSUME NEW i \in 1 .. gap PROVE passed[i] \in SkippedKey
      OBVIOUS
    <3>1. i - 1 \in Nat /\ st.nr + i - 1 \in Nat
      BY <2>1
    <3>2. KdfChainKey(st.ckr, i - 1) \in ChainKey
      BY <2>1, <3>1, KdfTypes
    <3>3. st.dhr \in KeyPair \cup {None}
      BY DEF RatchetState
    <3>4. passed[i] = [ dh |-> st.dhr, n |-> st.nr + i - 1,
                        mk |-> KdfChainKey(st.ckr, i - 1) ]
      OBVIOUS
    <3> HIDE DEF passed
    <3> QED
      BY <3>1, <3>2, <3>3, <3>4 DEF SkippedKey
  <2>3. passed \in Seq(SkippedKey)
    <3> DEFINE key(i) == [ dh |-> st.dhr, n |-> st.nr + i - 1,
                           mk |-> KdfChainKey(st.ckr, i - 1) ]
    <3>1. \A i \in 1 .. gap : key(i) \in SkippedKey
      BY <2>2
    <3>2. passed = [i \in 1 .. gap |-> key(i)]
      OBVIOUS
    <3> HIDE DEF key, gap, passed
    <3>3. [i \in 1 .. gap |-> key(i)] \in Seq(SkippedKey)
      BY <2>1, <3>1, IsASeq
    <3> QED
      BY <3>2, <3>3
  <2>4. LatestKeys(st.skipped \o passed) \in Seq(SkippedKey)
    <3>1. st.skipped \o passed \in Seq(SkippedKey)
      BY <2>3 DEF RatchetState
    <3> QED
      BY <3>1, LatestKeysType
  <2>5. KdfChainKey(st.ckr, gap) \in ChainKey
    BY <2>1, KdfTypes
  <2> DEFINE stash == LatestKeys(st.skipped \o passed)
             ck == KdfChainKey(st.ckr, gap)
             nr == st.nr + gap
  <2>6. SkipMessages(st, until) = [st EXCEPT !.skipped = stash, !.ckr = ck, !.nr = nr]
    BY <1>2 DEF SkipMessages
  <2>7. stash \in Seq(SkippedKey) /\ ck \in ChainKey /\ nr \in Nat
    BY <2>1, <2>4, <2>5
  <2> HIDE DEF stash, ck, nr
  <2> QED
    BY <2>6, <2>7 DEF RatchetState
<1> QED
  BY <1>1, <1>2

(* A DH ratchet step leaves a ratchet state. *)
LEMMA DHRatchetType ==
    ASSUME NEW st \in RatchetState, NEW theirs \in KeyPair, NEW fresh \in KeyPair
    PROVE  DHRatchet(st, theirs, fresh) \in RatchetState
<1> DEFINE rkr == KdfRootKey(st.rk, DH(st.dhs, theirs))
           rks == KdfRootKey(rkr, DH(fresh, theirs))
           ckr == FirstChainKey(rkr)
           cks == FirstChainKey(rks)
           ns == st.ns
<1>1. rkr \in RootKey
  <2>1. st.rk \in RootKey /\ DH(st.dhs, theirs) \in SUBSET KeyPair
    BY KdfTypes DEF RatchetState
  <2> QED
    BY <2>1, KdfTypes
<1>2. rks \in RootKey
  BY <1>1, KdfTypes
<1>3. ckr \in ChainKey /\ cks \in ChainKey /\ ns \in Nat
  BY <1>1, <1>2, KdfTypes DEF RatchetState
<1>4. DHRatchet(st, theirs, fresh) =
        [st EXCEPT !.dhr = theirs, !.dhs = fresh, !.rk = rks, !.ckr = ckr, !.nr = 0,
                   !.cks = cks, !.pn = ns, !.ns = 0]
  BY DEF DHRatchet
<1> HIDE DEF rkr, rks, ckr, cks, ns
<1>5. [ dhs |-> fresh, dhr |-> theirs, rk |-> rks, cks |-> cks, ckr |-> ckr,
        ns |-> 0, nr |-> 0, pn |-> ns, skipped |-> st.skipped ] \in RatchetState
  BY <1>2, <1>3 DEF RatchetState
<1>6. DHRatchet(st, theirs, fresh) =
        [ dhs |-> fresh, dhr |-> theirs, rk |-> rks, cks |-> cks, ckr |-> ckr,
          ns |-> 0, nr |-> 0, pn |-> ns, skipped |-> st.skipped ]
  BY <1>4 DEF RatchetState
<1> QED
  BY <1>5, <1>6

(* Taking a skipped key out of the list leaves a ratchet state. *)
LEMMA OpenSkippedType ==
    ASSUME NEW st \in RatchetState, NEW m, SkippedIndex(st, m) # 0
    PROVE  OpenSkipped(st, m).st \in RatchetState
<1> DEFINE i == SkippedIndex(st, m)
           left == SubSeq(st.skipped, 1, i - 1)
           right == SubSeq(st.skipped, i + 1, Len(st.skipped))
           rest == RemoveAt(st.skipped, i)
<1>1. i \in 1 .. Len(st.skipped) /\ st.skipped \in Seq(SkippedKey)
  BY SkippedIndexInRange DEF RatchetState
<1> HIDE DEF i
<1>2. left \in Seq(SkippedKey)
  <2>1. 1 \in Int /\ i - 1 \in Int /\ \A j \in 1 .. i - 1 : st.skipped[j] \in SkippedKey
    BY <1>1
  <2> QED
    BY <2>1, SubSeqProperties
<1>3. right \in Seq(SkippedKey)
  <2>1. /\ i + 1 \in Int /\ Len(st.skipped) \in Int
        /\ \A j \in i + 1 .. Len(st.skipped) : st.skipped[j] \in SkippedKey
    BY <1>1
  <2> QED
    BY <2>1, SubSeqProperties
<1>4. rest \in Seq(SkippedKey)
  BY <1>2, <1>3 DEF RemoveAt
<1>5. OpenSkipped(st, m).st = [st EXCEPT !.skipped = rest]
  BY DEF OpenSkipped, i
<1> HIDE DEF rest
<1> QED
  BY <1>4, <1>5 DEF RatchetState

(* Spending the receiving chain key leaves a ratchet state. *)
LEMMA OpenInChainType ==
    ASSUME NEW st \in RatchetState, NEW m, st.ckr # None
    PROVE  OpenInChain(st, m).st \in RatchetState
<1> DEFINE ck == KdfChainKey(st.ckr, 1)
           nr == st.nr + 1
<1>1. ck \in ChainKey /\ nr \in Nat
  BY KdfTypes DEF RatchetState
<1>2. OpenInChain(st, m).st = [st EXCEPT !.ckr = ck, !.nr = nr]
  BY DEF OpenInChain
<1> HIDE DEF ck, nr
<1> QED
  BY <1>1, <1>2 DEF RatchetState

(* Whether it returns or throws, ratchetDecrypt leaves a ratchet state. *)
THEOREM RatchetDecryptType ==
    ASSUME NEW st \in RatchetState, NEW m, m.dh \in KeyPair, m.pn \in Nat, m.n \in Nat,
           NEW fresh \in KeyPair
    PROVE  RatchetDecrypt(st, m, fresh).st \in RatchetState
<1> DEFINE turned == IF HasDHKey(st, m) THEN st
                     ELSE DHRatchet(SkipMessages(st, m.pn), m.dh, fresh)
           ready  == SkipMessages(turned, m.n)
<1>1. turned \in RatchetState
  BY SkipMessagesType, DHRatchetType
<1>2. ready \in RatchetState
  BY <1>1, SkipMessagesType
<1>3. CASE SkippedIndex(st, m) # 0
  BY <1>3, OpenSkippedType DEF RatchetDecrypt
<1>4. CASE SkippedIndex(st, m) = 0 /\ ~HasDHKey(st, m) /\ ~CanSkip(st, m.pn)
  BY <1>4 DEF RatchetDecrypt
<1>5. CASE SkippedIndex(st, m) = 0 /\ (HasDHKey(st, m) \/ CanSkip(st, m.pn))
  <2>1. RatchetDecrypt(st, m, fresh) =
           IF ~CanSkip(turned, m.n) THEN [st |-> turned, ok |-> FALSE]
           ELSE IF ready.ckr = None THEN [st |-> ready, ok |-> FALSE]
           ELSE OpenInChain(ready, m)
    BY <1>5 DEF RatchetDecrypt
  <2> HIDE DEF turned, ready
  <2> QED
    BY <1>1, <1>2, <2>1, OpenInChainType
<1> QED
  BY <1>3, <1>4, <1>5

-----------------------------------------------------------------------------
(* The sending side of a session across a decryption. *)

(* skipMessages does not touch the sending chain. *)
LEMMA SkipMessagesSendingSide ==
    ASSUME NEW st \in RatchetState, NEW until
    PROVE  SameSendingSide(st, SkipMessages(st, until))
BY DEF SkipMessages, SameSendingSide, RatchetState

(* Opening with a skipped key does not touch the sending chain. *)
LEMMA OpenSkippedSendingSide ==
    ASSUME NEW st \in RatchetState, NEW m
    PROVE  SameSendingSide(st, OpenSkipped(st, m).st)
BY DEF OpenSkipped, SameSendingSide, RatchetState

(* Opening in the receiving chain does not touch the sending chain. *)
LEMMA OpenInChainSendingSide ==
    ASSUME NEW st \in RatchetState, NEW m
    PROVE  SameSendingSide(st, OpenInChain(st, m).st)
BY DEF OpenInChain, SameSendingSide, RatchetState

(* A DH ratchet step starts a sending chain from the new key pair. *)
LEMMA DHRatchetSendingSide ==
    ASSUME NEW st \in RatchetState, NEW theirs \in KeyPair, NEW fresh \in KeyPair
    PROVE  SendsFrom(DHRatchet(st, theirs, fresh), theirs, fresh)
<1> DEFINE rkr == KdfRootKey(st.rk, DH(st.dhs, theirs))
           turned == DHRatchet(st, theirs, fresh)
<1>1. rkr \in RootKey
  <2>1. st.rk \in RootKey /\ DH(st.dhs, theirs) \in SUBSET KeyPair
    BY KdfTypes DEF RatchetState
  <2> QED
    BY <2>1, KdfTypes
<1>2. /\ turned.dhs = fresh
      /\ turned.dhr = theirs
      /\ turned.cks = FirstChainKey(KdfRootKey(rkr, DH(fresh, theirs)))
  BY DEF DHRatchet, RatchetState
<1> QED
  BY <1>1, <1>2 DEF SendsFrom

(* A decryption leaves the sending chain alone or replaces it by a new one  *)
(* made from the key pair it generated: it never rewinds a chain that       *)
(* messages were sent under.                                                *)
THEOREM RatchetDecryptSendingSide ==
    ASSUME NEW st \in RatchetState, NEW m, m.dh \in KeyPair, m.pn \in Nat, m.n \in Nat,
           NEW fresh \in KeyPair
    PROVE  \/ SameSendingSide(st, RatchetDecrypt(st, m, fresh).st)
           \/ SendsFrom(RatchetDecrypt(st, m, fresh).st, m.dh, fresh)
<1> DEFINE turned == IF HasDHKey(st, m) THEN st
                     ELSE DHRatchet(SkipMessages(st, m.pn), m.dh, fresh)
           ready  == SkipMessages(turned, m.n)
           Side(r) == SameSendingSide(st, r) \/ SendsFrom(r, m.dh, fresh)
<1>1. turned \in RatchetState /\ ready \in RatchetState
  BY SkipMessagesType, DHRatchetType
<1>2. Side(turned)
  <2>1. CASE HasDHKey(st, m)
    BY <2>1 DEF SameSendingSide
  <2>2. CASE ~HasDHKey(st, m)
    BY <2>2, SkipMessagesType, DHRatchetSendingSide
  <2> QED
    BY <2>1, <2>2
<1>3. Side(ready)
  <2>1. SameSendingSide(turned, ready)
    BY <1>1, SkipMessagesSendingSide
  <2> QED
    BY <1>2, <2>1 DEF SameSendingSide, SendsFrom
<1>4. CASE SkippedIndex(st, m) # 0
  BY <1>4, OpenSkippedSendingSide DEF RatchetDecrypt
<1>5. CASE SkippedIndex(st, m) = 0 /\ ~HasDHKey(st, m) /\ ~CanSkip(st, m.pn)
  BY <1>5 DEF RatchetDecrypt, SameSendingSide
<1>6. CASE SkippedIndex(st, m) = 0 /\ (HasDHKey(st, m) \/ CanSkip(st, m.pn))
  <2>1. RatchetDecrypt(st, m, fresh) =
           IF ~CanSkip(turned, m.n) THEN [st |-> turned, ok |-> FALSE]
           ELSE IF ready.ckr = None THEN [st |-> ready, ok |-> FALSE]
           ELSE OpenInChain(ready, m)
    BY <1>6 DEF RatchetDecrypt
  <2>2. SameSendingSide(ready, OpenInChain(ready, m).st)
    BY <1>1, OpenInChainSendingSide
  <2>3. Side(OpenInChain(ready, m).st)
    BY <1>3, <2>2 DEF SameSendingSide, SendsFrom
  <2> HIDE DEF turned, ready
  <2> QED
    BY <1>2, <1>3, <2>1, <2>3
<1> QED
  BY <1>4, <1>5, <1>6

-----------------------------------------------------------------------------
(* The session. *)

(* Each party has a peer. *)
LEMMA PeerType == \A p \in Party : Peer(p) \in Party
BY SessionAssumption DEF Peer

(* Pre-keys and new key pairs are key pairs. *)
LEMMA KeyTypes ==
    ASSUME TypeOK, NEW p \in Party
    PROVE  /\ SignedPreKey(p) \in KeyPair
           /\ \A i \in Nat : NewKey(p, i) \in KeyPair
           /\ NewKey(p, 0) \in KeyPair /\ NewKey(p, 1) \in KeyPair
BY DEF TypeOK, SignedPreKey, NewKey, KeyPair

(* What a party stores are ratchet states, and its current one is among them. *)
LEMMA StoresType ==
    ASSUME TypeOK, NEW p \in Party
    PROVE  /\ Stores(p) \subseteq RatchetState
           /\ Stored(p) # None => Stored(p) \in Stores(p)
           /\ Stored(p) \in RatchetState \cup {None}
           /\ None \notin RatchetState
BY NoneAssumption DEF TypeOK, Stores, Stored

(* performX3DH builds a ratchet state. *)
LEMMA InitiatedSessionType ==
    ASSUME TypeOK, NEW p \in Party
    PROVE  InitiatedSession(p) \in RatchetState
<1>1. /\ NewKey(p, 0) \in KeyPair /\ NewKey(p, 1) \in KeyPair
      /\ SignedPreKey(Peer(p)) \in KeyPair
  BY KeyTypes, PeerType
<1>2. X3DHSecret(NewKey(p, 0), SignedPreKey(Peer(p))) \in SUBSET KeyPair
  BY <1>1, KdfTypes DEF X3DHSecret
<1> QED
  BY <1>1, <1>2, InitSenderType DEF InitiatedSession

(* It sends under a new chain, and so it can encrypt. *)
LEMMA InitiatedSessionChain ==
    ASSUME TypeOK, NEW p \in Party
    PROVE  /\ InitiatedSession(p).cks # None
           /\ SendsFrom(InitiatedSession(p), SignedPreKey(Peer(p)), NewKey(p, 1))
<1> DEFINE secret == X3DHSecret(NewKey(p, 0), SignedPreKey(Peer(p)))
           base == [secret |-> secret, path |-> <<>>]
           rk == KdfRootKey(base, DH(NewKey(p, 1), SignedPreKey(Peer(p))))
<1>1. /\ NewKey(p, 0) \in KeyPair /\ NewKey(p, 1) \in KeyPair
      /\ SignedPreKey(Peer(p)) \in KeyPair
  BY KeyTypes, PeerType
<1>2. secret \in SUBSET KeyPair
  BY <1>1, KdfTypes DEF X3DHSecret
<1>3. base \in RootKey
  BY <1>2 DEF RootKey
<1>4. rk \in RootKey
  <2>1. DH(NewKey(p, 1), SignedPreKey(Peer(p))) \in SUBSET KeyPair
    BY <1>1, KdfTypes
  <2> QED
    BY <1>3, <2>1, KdfTypes
<1>5. FirstChainKey(rk) \in ChainKey
  BY <1>4, KdfTypes
<1>6. /\ InitiatedSession(p).dhs = NewKey(p, 1)
      /\ InitiatedSession(p).dhr = SignedPreKey(Peer(p))
      /\ InitiatedSession(p).cks = FirstChainKey(rk)
  BY DEF InitiatedSession, InitSender
<1> QED
  BY <1>3, <1>5, <1>6, NoneAssumption DEF SendsFrom

(* handleX3DHResponder builds a ratchet state. *)
LEMMA RespondedSessionType ==
    ASSUME TypeOK, NEW p \in Party, NEW ephemeral \in KeyPair
    PROVE  RespondedSession(p, ephemeral) \in RatchetState
<1>1. SignedPreKey(p) \in KeyPair
  BY KeyTypes
<1>2. X3DHSecret(ephemeral, SignedPreKey(p)) \in SUBSET KeyPair
  BY <1>1, KdfTypes DEF X3DHSecret
<1> QED
  BY <1>1, <1>2, InitReceiverType DEF RespondedSession

(* The fields of a stored message have their types. *)
LEMMA SentType ==
    ASSUME TypeOK, NEW m \in sent
    PROVE  /\ m \in Message /\ m.from \in Party /\ m.dh \in KeyPair
           /\ m.pn \in Nat /\ m.n \in Nat /\ m.key \in ChainKey
           /\ m.x3dh # None => m.x3dh \in KeyPair
BY DEF TypeOK, Message

(* The first try of decryptMessage leaves a ratchet state. *)
LEMMA AttemptType ==
    ASSUME TypeOK, NEW p \in Party, NEW m \in sent, CanStart(p, m)
    PROVE  Attempt(p, m).st \in RatchetState
<1> DEFINE st == IF Stored(p) # None THEN Stored(p) ELSE RespondedSession(p, m.x3dh)
<1>1. st \in RatchetState
  BY StoresType, SentType, RespondedSessionType DEF CanStart
<1> HIDE DEF st
<1>2. RatchetDecrypt(st, m, NewKey(p, 0)).st \in RatchetState
  BY <1>1, SentType, KeyTypes, RatchetDecryptType
<1> QED
  BY <1>2 DEF Attempt, st

(* The second try of decryptMessage leaves a ratchet state. *)
LEMMA RebuiltType ==
    ASSUME TypeOK, NEW p \in Party, NEW m \in sent, m.x3dh # None
    PROVE  Rebuilt(p, m).st \in RatchetState
<1>1. RespondedSession(p, m.x3dh) \in RatchetState
  BY SentType, RespondedSessionType
<1> QED
  BY <1>1, SentType, KeyTypes, RatchetDecryptType DEF Rebuilt

-----------------------------------------------------------------------------
(* Type correctness *)

(* encryptMessage hands out a message. *)
LEMMA NewMessageType ==
    ASSUME TypeOK, NEW p \in Party, NEW kind \in Kind, NEW st \in RatchetState,
           st.cks # None, NEW ephemeral \in KeyPair \cup {None}
    PROVE  NewMessage(p, kind, st, ephemeral) \in Message
<1>1. encrypted[p] + 1 \in Nat
  BY DEF TypeOK
<1>2. /\ st.dhs \in KeyPair /\ st.pn \in Nat /\ st.ns \in Nat
      /\ st.cks \in ChainKey
  BY DEF RatchetState
<1>3. /\ (IF "x3dh" \in Form[kind] THEN ephemeral ELSE None) \in KeyPair \cup {None}
      /\ ("tag" \in Form[kind]) \in BOOLEAN
  OBVIOUS
<1>4. Header(st).dh = st.dhs /\ Header(st).pn = st.pn /\ Header(st).n = st.ns
  BY DEF Header
<1> QED
  BY <1>1, <1>2, <1>3, <1>4 DEF NewMessage, Message

(* What SaveSession writes keeps both copies well typed. *)
LEMMA SaveSessionType ==
    ASSUME TypeOK, NEW p \in Party, NEW st \in RatchetState, SaveSession(p, st)
    PROVE  /\ cache' \in [Party -> RatchetState \cup {None}]
           /\ disk' \in [Party -> RatchetState \cup {None}]
BY DEF SaveSession, TypeOK

(* Posting a message preserves type correctness. *)
LEMMA PostType ==
    ASSUME TypeOK, NEW p \in Party, NEW kind, NEW outcome, NEW m \in Message,
           Post(p, kind, outcome, m),
           cache' \in [Party -> RatchetState \cup {None}],
           disk' \in [Party -> RatchetState \cup {None}],
           gen' \in [Party -> Nat]
    PROVE  TypeOK'
<1>1. encrypted' \in [Party -> Nat]
  BY DEF TypeOK, Post
<1>2. sent' \in SUBSET Message /\ sent \subseteq sent'
  BY DEF TypeOK, Post
<1>3. plain' \in [Party -> SUBSET sent']
  <2>1. CASE plain' = plain
    BY <1>2, <2>1 DEF TypeOK
  <2>2. CASE plain' # plain
    <3>1. plain' = [plain EXCEPT ![p] = @ \cup {m}] /\ sent' = sent \cup {m}
      BY <2>2 DEF Post
    <3> QED
      BY <3>1 DEF TypeOK
  <2> QED
    BY <2>1, <2>2
<1>4. plainSaved' \in [Party -> SUBSET sent'] /\ pushed' \in [Party -> SUBSET sent']
  BY <1>2 DEF TypeOK, Post
<1>5. reloads' \in Nat /\ failures' \in Nat
  BY DEF TypeOK, Post, bounds
<1> QED
  BY <1>1, <1>2, <1>3, <1>4, <1>5 DEF TypeOK

(* The disjuncts of a decryption, on the variables they share. *)
LEMMA DecryptType ==
    ASSUME TypeOK, NEW p \in Party, NEW m \in sent,
           DecryptSucceeds(p, m) \/ DecryptThrows(p, m)
    PROVE  /\ cache' \in [Party -> RatchetState \cup {None}]
           /\ disk' \in [Party -> RatchetState \cup {None}]
           /\ gen' \in [Party -> Nat]
           /\ failures' \in Nat
<1>1. failures' \in Nat
  BY DEF TypeOK, DecryptSucceeds, DecryptThrows
<1>2. Generated(p, m) \in Nat
  BY DEF Generated
<1>3. CASE DecryptOpens(p, m)
  BY <1>1, <1>2, <1>3, AttemptType, SaveSessionType DEF DecryptOpens, TypeOK
<1>4. CASE RebuildOpens(p, m)
  BY <1>1, <1>4, RebuiltType, SaveSessionType DEF RebuildOpens, TypeOK
<1>5. CASE DecryptFails(p, m)
  <2>1. CanStart(p, m)
    BY <1>5 DEF DecryptFails, CanStart, Stored
  <2> QED
    BY <1>1, <1>2, <1>5, <2>1, AttemptType DEF DecryptFails, TypeOK
<1>6. CASE RebuildFails(p, m)
  BY <1>1, <1>6, RebuiltType DEF RebuildFails, TypeOK
<1>7. CASE FailsUntraced(p, m)
  BY <1>1, <1>7 DEF FailsUntraced, session, TypeOK
<1> QED
  BY <1>3, <1>4, <1>5, <1>6, <1>7 DEF DecryptSucceeds, DecryptThrows

(* The initial state is type correct. *)
LEMMA TypeInit == Init => TypeOK
BY DEF Init, TypeOK

(* Every step preserves type correctness. *)
LEMMA TypeNext == TypeOK /\ [Next]_vars => TypeOK'
<1> SUFFICES ASSUME TypeOK, [Next]_vars PROVE TypeOK'
  OBVIOUS
<1>1. ASSUME NEW p \in Party, NEW kind \in Kind, NEW outcome \in Outcome,
             SendInSession(p, kind, outcome)
      PROVE  TypeOK'
  <2>1. Stored(p) \in RatchetState /\ Stored(p).cks # None
    BY <1>1, StoresType DEF SendInSession, CanEncrypt
  <2>2. AfterEncrypt(Stored(p)) \in RatchetState
    BY <2>1, AfterEncryptType DEF CanEncrypt
  <2>3. NewMessage(p, kind, Stored(p), None) \in Message
    BY <2>1, NewMessageType
  <2>4. gen' \in [Party -> Nat]
    BY <1>1 DEF SendInSession, TypeOK
  <2> QED
    BY <1>1, <2>2, <2>3, <2>4, SaveSessionType, PostType DEF SendInSession
<1>2. ASSUME NEW p \in Party, NEW kind \in Kind, NEW outcome \in Outcome,
             SendFirst(p, kind, outcome)
      PROVE  TypeOK'
  <2>1. InitiatedSession(p) \in RatchetState /\ InitiatedSession(p).cks # None
    BY InitiatedSessionType, InitiatedSessionChain
  <2>2. AfterEncrypt(InitiatedSession(p)) \in RatchetState
    BY <2>1, AfterEncryptType DEF CanEncrypt
  <2>3. NewMessage(p, kind, InitiatedSession(p), NewKey(p, 0)) \in Message
    BY <2>1, KeyTypes, NewMessageType
  <2>4. gen' \in [Party -> Nat]
    BY <1>2 DEF SendFirst, TypeOK
  <2> QED
    BY <1>2, <2>2, <2>3, <2>4, SaveSessionType, PostType DEF SendFirst
<1>3. ASSUME NEW p \in Party, NEW m \in sent, RenderMessage(p, m)
      PROVE  TypeOK'
  <2>1. plain' \in [Party -> SUBSET sent]
    BY <1>3 DEF RenderMessage, TypeOK
  <2>2. DecryptSucceeds(p, m) \/ DecryptThrows(p, m)
    BY <1>3 DEF RenderMessage
  <2> QED
    BY <1>3, <2>1, <2>2, DecryptType DEF RenderMessage, TypeOK
<1>4. ASSUME NEW p \in Party, NEW m \in sent, SocketMessage(p, m)
      PROVE  TypeOK'
  <2>1. pushed' \in [Party -> SUBSET sent]
    BY <1>4 DEF SocketMessage, TypeOK
  <2>2. DecryptSucceeds(p, m) \/ DecryptThrows(p, m)
    BY <1>4 DEF SocketMessage
  <2> QED
    BY <1>4, <2>1, <2>2, DecryptType DEF SocketMessage, TypeOK
<1>5. ASSUME NEW p \in Party, SavePlaintextCache(p) PROVE TypeOK'
  BY <1>5 DEF SavePlaintextCache, session, bounds, TypeOK
<1>6. ASSUME NEW p \in Party, Reload(p) PROVE TypeOK'
  BY <1>6 DEF Reload, TypeOK
<1>7. CASE UNCHANGED vars
  BY <1>7 DEF vars, TypeOK
<1> QED
  BY <1>1, <1>2, <1>3, <1>4, <1>5, <1>6, <1>7 DEF Next, EncryptMessage

(* Sessions, messages and caches keep their types in every execution. *)
THEOREM TypeCorrect == Spec => []TypeOK
BY TypeInit, TypeNext, PTL DEF Spec

-----------------------------------------------------------------------------
(* Uniqueness of message keys *)

(* kdfRootKey ends the path of the new root with the output it mixed in. *)
LEMMA KdfRootKeyLast ==
    ASSUME NEW rk \in RootKey, NEW dh \in SUBSET KeyPair
    PROVE  LET path == KdfRootKey(rk, dh).path
           IN  path # <<>> /\ path[Len(path)] = dh
<1>1. rk.path \in Seq(SUBSET KeyPair)
  BY DEF RootKey
<1>2. KdfRootKey(rk, dh).path = Append(rk.path, dh)
  BY DEF KdfRootKey, RootKey
<1> QED
  BY <1>1, <1>2, AppendProperties

(* Counting more key pairs keeps what is known. *)
LEMMA KnownGrows ==
    ASSUME NEW g \in [Party -> Nat], NEW h \in [Party -> Nat], \A q \in Party : g[q] <= h[q]
    PROVE  /\ \A k \in KeyPair : KnownIn(g, k) => KnownIn(h, k)
           /\ \A ck \in ChainKey : KnownRootIn(g, ck.root) => KnownRootIn(h, ck.root)
<1>1. \A k \in KeyPair : KnownIn(g, k) => KnownIn(h, k)
  BY DEF KnownIn, KeyPair
<1>2. ASSUME NEW ck \in ChainKey, KnownRootIn(g, ck.root)
      PROVE  KnownRootIn(h, ck.root)
  <2>1. ck.root.path \in Seq(SUBSET KeyPair) /\ ck.root.path # <<>>
    BY <1>2 DEF ChainKey, RootKey, KnownRootIn
  <2>2. ck.root.path[Len(ck.root.path)] \in SUBSET KeyPair
    BY <2>1
  <2> QED
    BY <1>1, <1>2, <2>1, <2>2 DEF KnownRootIn
<1> QED
  BY <1>1, <1>2

LEMMA KnownLater ==
    ASSUME TypeOK, NEW g \in [Party -> Nat], \A q \in Party : gen[q] <= g[q]
    PROVE  /\ \A k \in KeyPair : KnownIn(gen, k) => KnownIn(g, k)
           /\ \A ck \in ChainKey : KnownRootIn(gen, ck.root) => KnownRootIn(g, ck.root)
<1>1. gen \in [Party -> Nat]
  BY DEF TypeOK
<1> QED
  BY <1>1, KnownGrows

(* A chain made from a key pair that gen does not count yet is nobody's. *)
LEMMA FreshChain ==
    ASSUME TypeOK, NEW p \in Party, NEW r \in RatchetState,
           NEW g \in [Party -> Nat], \A q \in Party : gen[q] <= g[q],
           NEW theirs \in KeyPair, KnownIn(gen, theirs),
           NEW j \in Nat, gen[p] <= j, j < g[p],
           r.cks # None, SendsFrom(r, theirs, <<p, j>>)
    PROVE  /\ KnownIn(g, r.dhs)
           /\ KnownRootIn(g, r.cks.root)
           /\ \A ck \in ChainKey : KnownRootIn(gen, ck.root) => ck.root # r.cks.root
<1>1. PICK rk \in RootKey : r.cks = FirstChainKey(KdfRootKey(rk, DH(<<p, j>>, theirs)))
  BY DEF SendsFrom
<1> DEFINE root == KdfRootKey(rk, DH(<<p, j>>, theirs))
           last == root.path[Len(root.path)]
<1>2. <<p, j>> \in KeyPair
  BY DEF KeyPair
<1>3. DH(<<p, j>>, theirs) \in SUBSET KeyPair
  BY <1>2, KdfTypes
<1>4. root.path # <<>> /\ last = {<<p, j>>, theirs}
  BY <1>3, KdfRootKeyLast DEF DH
<1>5. r.cks.root = root
  BY <1>1 DEF FirstChainKey
<1>6. KnownIn(g, <<p, j>>) /\ ~KnownIn(gen, <<p, j>>)
  BY DEF KnownIn, TypeOK
<1>7. KnownIn(g, theirs)
  BY KnownLater
<1> HIDE DEF root
<1>8. KnownRootIn(g, root)
  BY <1>4, <1>6, <1>7 DEF KnownRootIn
<1>9. ~KnownRootIn(gen, root)
  BY <1>4, <1>6 DEF KnownRootIn
<1>10. r.dhs = <<p, j>>
  BY DEF SendsFrom
<1> QED
  BY <1>5, <1>6, <1>8, <1>9, <1>10

(* A new chain is sound for its owner. *)
LEMMA FreshSession ==
    ASSUME KeyInv, NEW p \in Party, NEW r \in RatchetState,
           NEW g \in [Party -> Nat], \A q \in Party : gen[q] <= g[q],
           NEW theirs \in KeyPair, KnownIn(gen, theirs),
           NEW j \in Nat, gen[p] <= j, j < g[p],
           r.cks # None, SendsFrom(r, theirs, <<p, j>>)
    PROVE  SoundSession(g, p, r)
<1>1. TypeOK
  BY DEF KeyInv
<1>2. /\ KnownIn(g, r.dhs)
      /\ KnownRootIn(g, r.cks.root)
      /\ \A ck \in ChainKey : KnownRootIn(gen, ck.root) => ck.root # r.cks.root
  BY <1>1, FreshChain
<1>3. \A m \in sent : m.key.root # r.cks.root
  BY <1>1, <1>2, SentType DEF KeyInv
<1>4. ASSUME NEW q \in Party, NEW other \in Stores(q), other.cks # None
      PROVE  other.cks.root # r.cks.root
  <2>1. KnownRootIn(gen, other.cks.root)
    BY <1>4 DEF KeyInv, SoundSession
  <2>2. other.cks \in ChainKey
    BY <1>1, <1>4, StoresType DEF RatchetState
  <2> QED
    BY <1>2, <2>1, <2>2
<1> QED
  BY <1>2, <1>3, <1>4 DEF SoundSession

(* A stored session stays sound while more key pairs are generated, and so  *)
(* does any session with the same sending side.                             *)
LEMMA StoredSession ==
    ASSUME KeyInv, NEW p \in Party, NEW st \in Stores(p),
           NEW r \in RatchetState, r.cks = st.cks, r.dhs = st.dhs,
           NEW g \in [Party -> Nat], \A q \in Party : gen[q] <= g[q]
    PROVE  SoundSession(g, p, r)
<1>1. TypeOK /\ SoundSession(gen, p, st)
  BY DEF KeyInv
<1>2. st.dhs \in KeyPair /\ st.cks \in ChainKey \cup {None}
  BY <1>1, StoresType DEF RatchetState
<1>3. /\ KnownIn(gen, st.dhs) => KnownIn(g, st.dhs)
      /\ st.cks # None /\ KnownRootIn(gen, st.cks.root) => KnownRootIn(g, st.cks.root)
  BY <1>1, <1>2, KnownLater
<1> QED
  BY <1>1, <1>3 DEF SoundSession

(* A session with a new sending chain has a sending chain. *)
LEMMA SendsFromChain ==
    ASSUME NEW r, NEW theirs \in KeyPair, NEW fresh \in KeyPair, SendsFrom(r, theirs, fresh)
    PROVE  r.cks # None
<1>1. PICK rk \in RootKey : r.cks = FirstChainKey(KdfRootKey(rk, DH(fresh, theirs)))
  BY DEF SendsFrom
<1>2. DH(fresh, theirs) \in SUBSET KeyPair
  BY KdfTypes
<1>3. r.cks \in ChainKey
  BY <1>1, <1>2, KdfTypes
<1> QED
  BY <1>3, NoneAssumption

(* KeyInv reads the sessions, the key count and the sent messages. *)
LEMMA KeyInvUnchanged ==
    ASSUME KeyInv, TypeOK', cache' = cache, disk' = disk, gen' = gen, sent' = sent
    PROVE  KeyInv'
<1>1. \A p \in Party : Stores(p)' = Stores(p)
  BY DEF Stores
<1> QED
  BY <1>1 DEF KeyInv, SoundSession, UniqueMessageKeys

(* A step that stores a sound session of p, in memory or in both places,    *)
(* and sends nothing.                                                       *)
LEMMA StoreStep ==
    ASSUME KeyInv, TypeOK', NEW p \in Party, NEW r \in RatchetState,
           \A q \in Party : gen[q] <= gen'[q],
           SoundSession(gen', p, r),
           cache' = [cache EXCEPT ![p] = r],
           disk' = disk \/ disk' = [disk EXCEPT ![p] = r],
           sent' = sent
    PROVE  KeyInv'
<1>1. TypeOK /\ gen' \in [Party -> Nat]
  BY DEF KeyInv, TypeOK
<1>2. \A q \in Party : 0 < gen'[q]
  BY <1>1 DEF KeyInv, TypeOK
<1>3. /\ Stores(p)' \subseteq Stores(p) \cup {r}
      /\ \A q \in Party \ {p} : Stores(q)' = Stores(q)
  BY <1>1 DEF Stores, TypeOK
<1>4. \A q \in Party : \A st \in Stores(q) : SoundSession(gen', q, st)
  BY <1>1, StoredSession, StoresType
<1>5. ASSUME NEW q \in Party, NEW st \in Stores(q)'
      PROVE  SoundSession(gen, q, st)'
  <2>1. SoundSession(gen', q, st)
    BY <1>3, <1>4, <1>5
  <2>2. ASSUME st.cks # None, NEW q2 \in Party \ {q}, NEW other \in Stores(q2)',
               other.cks # None
        PROVE  other.cks.root # st.cks.root
    <3>1. CASE other \in Stores(q2)
      BY <2>1, <2>2, <3>1 DEF SoundSession
    <3>2. CASE other \notin Stores(q2)
      <4>1. q2 = p /\ other = r /\ st \in Stores(q) /\ q # p
        BY <1>3, <1>5, <2>2, <3>2
      <4> QED
        BY <2>2, <4>1 DEF SoundSession
    <3> QED
      BY <3>1, <3>2
  <2> QED
    BY <2>1, <2>2 DEF SoundSession
<1>6. \A m \in sent : KnownIn(gen', m.dh) /\ KnownRootIn(gen', m.key.root)
  BY <1>1, SentType, KnownLater DEF KeyInv
<1>7. UniqueMessageKeys'
  BY DEF KeyInv, UniqueMessageKeys
<1> QED
  BY <1>2, <1>5, <1>6, <1>7 DEF KeyInv

(* A step that encrypts a message of p under the sound session st and       *)
(* stores the session past it.                                              *)
LEMMA EncryptStep ==
    ASSUME KeyInv, TypeOK', NEW p \in Party, NEW st \in RatchetState, st.cks # None,
           \A q \in Party : gen[q] <= gen'[q],
           SoundSession(gen', p, st),
           SaveSession(p, AfterEncrypt(st)),
           NEW m \in Message, m.from = p, m.key = st.cks, m.dh = st.dhs,
           sent' = sent \/ sent' = sent \cup {m}
    PROVE  KeyInv'
<1> DEFINE r == AfterEncrypt(st)
<1>1. TypeOK /\ gen' \in [Party -> Nat]
  BY DEF KeyInv, TypeOK
<1>2. \A q \in Party : 0 < gen'[q]
  BY <1>1 DEF KeyInv, TypeOK
<1>3. /\ r.dhs = st.dhs /\ r.cks # None
      /\ r.cks.root = st.cks.root /\ r.cks.step = st.cks.step + 1
      /\ st.cks.step \in Nat
  <2>1. r \in RatchetState
    BY AfterEncryptType DEF CanEncrypt
  <2>2. r.dhs = st.dhs /\ r.cks = KdfChainKey(st.cks, 1)
    BY DEF AfterEncrypt, RatchetState
  <2>3. st.cks \in ChainKey /\ KdfChainKey(st.cks, 1) \in ChainKey
    BY KdfTypes DEF RatchetState
  <2> QED
    BY <2>2, <2>3, NoneAssumption DEF KdfChainKey, ChainKey
<1> HIDE DEF r
<1>4. /\ Stores(p)' \subseteq {r}
      /\ \A q \in Party \ {p} : Stores(q)' = Stores(q)
  BY <1>1 DEF SaveSession, Stores, TypeOK, r
<1>5. \A q \in Party : \A other \in Stores(q) : SoundSession(gen', q, other)
  BY <1>1, StoredSession, StoresType
<1>6. sent' \subseteq sent \cup {m}
  OBVIOUS
<1>7. SoundSession(gen, p, r)'
  <2>1. \A m2 \in sent' : m2.key.root = r.cks.root
                            => m2.from = p /\ m2.key.step < r.cks.step
    <3> SUFFICES ASSUME NEW m2 \in sent', m2.key.root = r.cks.root
                 PROVE  m2.from = p /\ m2.key.step < r.cks.step
      OBVIOUS
    <3>1. CASE m2 = m
      BY <1>3, <3>1
    <3>2. CASE m2 \in sent
      <4>1. m2.from = p /\ m2.key.step < st.cks.step
        BY <1>3, <3>2 DEF SoundSession
      <4>2. m2.key.step \in Nat
        BY <1>1, <3>2, SentType DEF ChainKey
      <4> QED
        BY <1>3, <4>1, <4>2
    <3> QED
      BY <1>6, <3>1, <3>2
  <2> QED
    BY <1>3, <1>4, <2>1 DEF SoundSession
<1>8. ASSUME NEW q \in Party \ {p}, NEW other \in Stores(q)
      PROVE  SoundSession(gen, q, other)'
  <2>1. SoundSession(gen', q, other)
    BY <1>5
  <2>2. ASSUME other.cks # None PROVE other.cks.root # st.cks.root
    BY <2>2 DEF SoundSession
  <2>3. \A m2 \in sent' : other.cks # None /\ m2.key.root = other.cks.root
                            => m2.from = q /\ m2.key.step < other.cks.step
    BY <1>6, <2>1, <2>2 DEF SoundSession
  <2>4. ASSUME other.cks # None, NEW q2 \in Party \ {q}, NEW st2 \in Stores(q2)',
               st2.cks # None
        PROVE  st2.cks.root # other.cks.root
    BY <1>3, <1>4, <2>1, <2>2, <2>4 DEF SoundSession
  <2> QED
    BY <2>1, <2>3, <2>4 DEF SoundSession
<1>9. \A m2 \in sent' : KnownIn(gen', m2.dh) /\ KnownRootIn(gen', m2.key.root)
  <2>1. \A m2 \in sent : KnownIn(gen', m2.dh) /\ KnownRootIn(gen', m2.key.root)
    BY <1>1, SentType, KnownLater DEF KeyInv
  <2>2. KnownIn(gen', m.dh) /\ KnownRootIn(gen', m.key.root)
    BY DEF SoundSession
  <2> QED
    BY <1>6, <2>1, <2>2
<1>10. UniqueMessageKeys'
  <2>1. \A m2 \in sent : m2.key # m.key
    <3> SUFFICES ASSUME NEW m2 \in sent, m2.key = m.key PROVE FALSE
      OBVIOUS
    <3>1. m2.key.step < st.cks.step
      BY DEF SoundSession
    <3> QED
      BY <1>3, <3>1
  <2> QED
    BY <1>6, <2>1 DEF UniqueMessageKeys, KeyInv
<1> QED
  BY <1>2, <1>4, <1>7, <1>8, <1>9, <1>10 DEF KeyInv

(* What a decryption leaves is sound, whether it returned or threw, if g    *)
(* counts the key pair that it may have generated.                          *)
LEMMA DecryptSound ==
    ASSUME KeyInv, NEW p \in Party, NEW m \in sent, NEW base \in RatchetState,
           base \in Stores(p) \/ (base.cks = None /\ base.dhs = SignedPreKey(p)),
           NEW i \in Nat, NEW g \in [Party -> Nat], \A q \in Party : gen[q] <= g[q],
           RatchetDecrypt(base, m, NewKey(p, i)).st.dhs = NewKey(p, i) => gen[p] + i < g[p]
    PROVE  SoundSession(g, p, RatchetDecrypt(base, m, NewKey(p, i)).st)
<1> DEFINE fresh == NewKey(p, i)
           r == RatchetDecrypt(base, m, fresh).st
<1>1. TypeOK /\ gen \in [Party -> Nat]
  BY DEF KeyInv, TypeOK
<1>2. fresh \in KeyPair /\ fresh = <<p, gen[p] + i>> /\ gen[p] + i \in Nat
  <2>1. gen[p] + i \in Nat
    BY <1>1
  <2> QED
    BY <2>1 DEF NewKey, KeyPair
<1>3. m.dh \in KeyPair /\ m.pn \in Nat /\ m.n \in Nat
  BY <1>1, SentType
<1>4. r \in RatchetState
  BY <1>2, <1>3, RatchetDecryptType
<1>5. SameSendingSide(base, r) \/ SendsFrom(r, m.dh, fresh)
  BY <1>2, <1>3, RatchetDecryptSendingSide
<1>6. r.dhs = fresh => gen[p] + i < g[p]
  OBVIOUS
<1> SUFFICES SoundSession(g, p, r)
  OBVIOUS
<1> HIDE DEF r, fresh
<1>7. CASE SameSendingSide(base, r) /\ base \in Stores(p)
  BY <1>4, <1>7, StoredSession DEF SameSendingSide
<1>8. CASE SameSendingSide(base, r) /\ base.cks = None /\ base.dhs = SignedPreKey(p)
  <2>1. 0 < g[p]
    BY <1>1 DEF KeyInv
  <2> QED
    BY <1>8, <2>1 DEF SameSendingSide, SoundSession, KnownIn, SignedPreKey
<1>9. CASE SendsFrom(r, m.dh, fresh)
  <2>1. KnownIn(gen, m.dh)
    BY DEF KeyInv
  <2>2. gen[p] + i < g[p]
    BY <1>6, <1>9 DEF SendsFrom
  <2>3. r.cks # None
    BY <1>2, <1>3, <1>9, SendsFromChain
  <2>4. gen[p] <= gen[p] + i
    BY <1>1
  <2> QED
    BY <1>2, <1>3, <1>4, <1>9, <2>1, <2>2, <2>3, <2>4, FreshSession
<1> QED
  BY <1>5, <1>7, <1>8, <1>9

(* The first try leaves a sound session. *)
LEMMA AttemptSound ==
    ASSUME KeyInv, NEW p \in Party, NEW m \in sent, CanStart(p, m),
           gen' = [gen EXCEPT ![p] = @ + Generated(p, m)]
    PROVE  /\ SoundSession(gen', p, Attempt(p, m).st)
           /\ \A q \in Party : gen[q] <= gen'[q]
<1> DEFINE base == IF Stored(p) # None THEN Stored(p) ELSE RespondedSession(p, m.x3dh)
<1>1. TypeOK /\ gen \in [Party -> Nat]
  BY DEF KeyInv, TypeOK
<1>2. Generated(p, m) \in {0, 1}
  BY DEF Generated
<1>3. /\ gen' \in [Party -> Nat]
      /\ gen'[p] = gen[p] + Generated(p, m)
      /\ \A q \in Party : gen[q] <= gen'[q]
  BY <1>1, <1>2
<1>4. base \in RatchetState
  BY <1>1, StoresType, SentType, RespondedSessionType DEF CanStart
<1>5. base \in Stores(p) \/ (base.cks = None /\ base.dhs = SignedPreKey(p))
  BY <1>1, StoresType DEF RespondedSession, InitReceiver
<1> HIDE DEF base
<1>6. Attempt(p, m) = RatchetDecrypt(base, m, NewKey(p, 0))
  BY DEF Attempt, base
<1>7. Attempt(p, m).st.dhs = NewKey(p, 0) => gen[p] + 0 < gen'[p]
  BY <1>1, <1>3 DEF Generated
<1> QED
  BY <1>3, <1>4, <1>5, <1>6, <1>7, DecryptSound

(* The second try leaves a sound session. *)
LEMMA RebuiltSound ==
    ASSUME KeyInv, NEW p \in Party, NEW m \in sent, m.x3dh # None,
           gen' = [gen EXCEPT ![p] = @ + 2]
    PROVE  /\ SoundSession(gen', p, Rebuilt(p, m).st)
           /\ \A q \in Party : gen[q] <= gen'[q]
<1> DEFINE base == RespondedSession(p, m.x3dh)
<1>1. TypeOK /\ gen \in [Party -> Nat]
  BY DEF KeyInv, TypeOK
<1>2. /\ gen' \in [Party -> Nat]
      /\ gen[p] + 1 < gen'[p]
      /\ \A q \in Party : gen[q] <= gen'[q]
  BY <1>1
<1>3. base \in RatchetState /\ base.cks = None /\ base.dhs = SignedPreKey(p)
  BY <1>1, SentType, RespondedSessionType DEF RespondedSession, InitReceiver
<1> HIDE DEF base
<1>4. Rebuilt(p, m) = RatchetDecrypt(base, m, NewKey(p, 1))
  BY DEF Rebuilt, base
<1> QED
  BY <1>2, <1>3, <1>4, DecryptSound

(* Every outcome of a decryption. *)
LEMMA DecryptStep ==
    ASSUME KeyInv, TypeOK', NEW p \in Party, NEW m \in sent,
           DecryptSucceeds(p, m) \/ DecryptThrows(p, m), sent' = sent
    PROVE  KeyInv'
<1>1. TypeOK
  BY DEF KeyInv
<1>2. CASE DecryptOpens(p, m)
  <2>1. Attempt(p, m).st \in RatchetState
    BY <1>1, <1>2, AttemptType DEF DecryptOpens
  <2> QED
    BY <1>2, <2>1, AttemptSound, StoreStep DEF DecryptOpens, SaveSession
<1>3. CASE RebuildOpens(p, m)
  <2>1. Rebuilt(p, m).st \in RatchetState
    BY <1>1, <1>3, RebuiltType DEF RebuildOpens
  <2> QED
    BY <1>3, <2>1, RebuiltSound, StoreStep DEF RebuildOpens, SaveSession
<1>4. CASE DecryptFails(p, m)
  <2>1. CanStart(p, m)
    BY <1>4 DEF DecryptFails, CanStart, Stored
  <2>2. Attempt(p, m).st \in RatchetState
    BY <1>1, <2>1, AttemptType
  <2> QED
    BY <1>4, <2>1, <2>2, AttemptSound, StoreStep DEF DecryptFails
<1>5. CASE RebuildFails(p, m)
  <2>1. Rebuilt(p, m).st \in RatchetState
    BY <1>1, <1>5, RebuiltType DEF RebuildFails
  <2> QED
    BY <1>5, <2>1, RebuiltSound, StoreStep DEF RebuildFails
<1>6. CASE FailsUntraced(p, m)
  BY <1>6, KeyInvUnchanged DEF FailsUntraced, session
<1> QED
  BY <1>2, <1>3, <1>4, <1>5, <1>6 DEF DecryptSucceeds, DecryptThrows

(* The inductive invariant holds initially. *)
LEMMA KeyInit == Init => KeyInv
<1> SUFFICES ASSUME Init PROVE KeyInv
  OBVIOUS
<1>1. TypeOK /\ sent = {} /\ \A p \in Party : gen[p] = 1 /\ Stores(p) = {}
  BY TypeInit DEF Init, Stores
<1> QED
  BY <1>1 DEF KeyInv, UniqueMessageKeys

(* Every step preserves the inductive invariant. *)
LEMMA KeyNext == KeyInv /\ [Next]_vars => KeyInv'
<1> SUFFICES ASSUME KeyInv, [Next]_vars PROVE KeyInv'
  OBVIOUS
<1>1. TypeOK /\ TypeOK' /\ gen \in [Party -> Nat]
  <2>1. TypeOK
    BY DEF KeyInv
  <2> QED
    BY <2>1, TypeNext DEF TypeOK
<1>2. ASSUME NEW p \in Party, NEW kind \in Kind, NEW outcome \in Outcome,
             SendInSession(p, kind, outcome)
      PROVE  KeyInv'
  <2> DEFINE st == Stored(p)
             m == NewMessage(p, kind, st, None)
  <2>1. st \in Stores(p) /\ st \in RatchetState /\ st.cks # None
    BY <1>1, <1>2, StoresType DEF SendInSession, CanEncrypt
  <2>2. gen' = gen /\ \A q \in Party : gen[q] <= gen'[q]
    BY <1>1, <1>2 DEF SendInSession
  <2>3. SoundSession(gen', p, st)
    BY <2>1, <2>2 DEF KeyInv
  <2>4. m \in Message /\ m.from = p /\ m.key = st.cks /\ m.dh = st.dhs
    BY <1>1, <2>1, NewMessageType DEF NewMessage, Header
  <2>5. sent' = sent \/ sent' = sent \cup {m}
    BY <1>2 DEF SendInSession, Post
  <2>6. SaveSession(p, AfterEncrypt(st))
    BY <1>2 DEF SendInSession
  <2> HIDE DEF st, m
  <2> QED
    BY <1>1, <2>1, <2>2, <2>3, <2>4, <2>5, <2>6, EncryptStep
<1>3. ASSUME NEW p \in Party, NEW kind \in Kind, NEW outcome \in Outcome,
             SendFirst(p, kind, outcome)
      PROVE  KeyInv'
  <2> DEFINE st == InitiatedSession(p)
             m == NewMessage(p, kind, st, NewKey(p, 0))
             spk == SignedPreKey(Peer(p))
  <2>1. st \in RatchetState /\ st.cks # None /\ SendsFrom(st, spk, NewKey(p, 1))
    BY <1>1, InitiatedSessionType, InitiatedSessionChain
  <2>2. /\ gen' \in [Party -> Nat] /\ gen'[p] = gen[p] + 2
        /\ \A q \in Party : gen[q] <= gen'[q]
    BY <1>1, <1>3 DEF SendFirst
  <2>3. spk \in KeyPair /\ KnownIn(gen, spk)
    <3>1. 0 < gen[Peer(p)]
      BY PeerType DEF KeyInv
    <3> QED
      BY <1>1, <3>1, PeerType, KeyTypes DEF KnownIn, SignedPreKey
  <2>4. NewKey(p, 1) = <<p, gen[p] + 1>> /\ gen[p] + 1 \in Nat
    BY <1>1 DEF NewKey
  <2>5. SoundSession(gen', p, st)
    <3>1. gen[p] <= gen[p] + 1 /\ gen[p] + 1 < gen'[p]
      BY <1>1, <2>2
    <3> HIDE DEF st, spk
    <3> QED
      BY <2>1, <2>2, <2>3, <2>4, <3>1, FreshSession
  <2>6. m \in Message /\ m.from = p /\ m.key = st.cks /\ m.dh = st.dhs
    BY <1>1, <2>1, KeyTypes, NewMessageType DEF NewMessage, Header
  <2>7. sent' = sent \/ sent' = sent \cup {m}
    BY <1>3 DEF SendFirst, Post
  <2>8. SaveSession(p, AfterEncrypt(st))
    BY <1>3 DEF SendFirst
  <2> HIDE DEF st, m
  <2> QED
    BY <1>1, <2>1, <2>2, <2>5, <2>6, <2>7, <2>8, EncryptStep
<1>4. ASSUME NEW p \in Party, NEW m \in sent, RenderMessage(p, m)
      PROVE  KeyInv'
  BY <1>1, <1>4, DecryptStep DEF RenderMessage
<1>5. ASSUME NEW p \in Party, NEW m \in sent, SocketMessage(p, m)
      PROVE  KeyInv'
  BY <1>1, <1>5, DecryptStep DEF SocketMessage
<1>6. ASSUME NEW p \in Party, SavePlaintextCache(p) PROVE KeyInv'
  BY <1>1, <1>6, KeyInvUnchanged DEF SavePlaintextCache, session
<1>7. ASSUME NEW p \in Party, Reload(p) PROVE KeyInv'
  <2>1. \A q \in Party : Stores(q)' \subseteq Stores(q)
    BY <1>1, <1>7 DEF Reload, Stores, TypeOK
  <2> QED
    BY <1>1, <1>7, <2>1 DEF Reload, KeyInv, SoundSession, UniqueMessageKeys
<1>8. CASE UNCHANGED vars
  BY <1>1, <1>8, KeyInvUnchanged DEF vars
<1> QED
  BY <1>2, <1>3, <1>4, <1>5, <1>6, <1>7, <1>8 DEF Next, EncryptMessage

(* No two messages are encrypted under one key, in every execution. *)
THEOREM KeysAreUnique == Spec => []UniqueMessageKeys
<1>1. KeyInv => UniqueMessageKeys
  BY DEF KeyInv
<1> QED
  BY KeyInit, KeyNext, <1>1, PTL DEF Spec
-----------------------------------------------------------------------------
(* Forward secrecy: what the ratchet operators forget, for every state and  *)
(* every message.                                                           *)

(* The types of what a session and a key are made of. *)
LEMMA SessionFields ==
    ASSUME NEW st \in RatchetState
    PROVE  /\ st.cks \in ChainKey \cup {None} /\ st.ckr \in ChainKey \cup {None}
           /\ st.rk \in RootKey /\ Len(st.rk.path) \in Nat
           /\ st.skipped \in Seq(SkippedKey) /\ Len(st.skipped) \in Nat
           /\ \A i \in 1 .. Len(st.skipped) :
                 st.skipped[i] \in SkippedKey /\ st.skipped[i].mk \in ChainKey
           /\ None \notin ChainKey
<1>1. /\ st.cks \in ChainKey \cup {None} /\ st.ckr \in ChainKey \cup {None}
      /\ st.rk \in RootKey /\ st.skipped \in Seq(SkippedKey)
  BY DEF RatchetState
<1>2. st.rk.path \in Seq(SUBSET KeyPair)
  BY <1>1 DEF RootKey
<1>3. Len(st.rk.path) \in Nat /\ Len(st.skipped) \in Nat
  BY <1>1, <1>2
<1>4. \A i \in 1 .. Len(st.skipped) : st.skipped[i] \in SkippedKey
  BY <1>1
<1>5. \A key \in SkippedKey : key.mk \in ChainKey
  BY DEF SkippedKey
<1> QED
  BY <1>1, <1>3, <1>4, <1>5, NoneAssumption

LEMMA KeyFields ==
    ASSUME NEW ck \in ChainKey
    PROVE  /\ ck.step \in Nat /\ ck.root \in RootKey /\ Len(ck.root.path) \in Nat
           /\ \A other \in ChainKey : ck = other <=> ck.root = other.root /\ ck.step = other.step
<1>1. ck.step \in Nat /\ ck.root \in RootKey
  BY DEF ChainKey
<1>2. ck.root.path \in Seq(SUBSET KeyPair)
  BY <1>1 DEF RootKey
<1>3. \A other \in ChainKey : ck = other <=> ck.root = other.root /\ ck.step = other.step
  BY DEF ChainKey
<1> QED
  BY <1>1, <1>2, <1>3

(* A key of another shared secret is out of reach. *)
LEMMA StrangersAreForgotten ==
    ASSUME NEW st \in RatchetState, Tidy(st), NEW key \in ChainKey,
           key.root.secret # st.rk.secret
    PROVE  Forgotten(st, key)
<1>1. \A ck \in {st.cks, st.ckr} \ {None} : ck.root.secret = st.rk.secret
  BY DEF Tidy, Earlier
<1>2. \A i \in 1 .. Len(st.skipped) : st.skipped[i].mk.root.secret = st.rk.secret
  BY DEF Tidy, Earlier
<1> QED
  BY <1>1, <1>2 DEF Forgotten, Yields

(* ratchetEncrypt forgets the key it encrypted with. *)
LEMMA EncryptForgets ==
    ASSUME NEW st \in RatchetState, CanEncrypt(st), Tidy(st)
    PROVE  Forgets(st, AfterEncrypt(st)) /\ Forgotten(AfterEncrypt(st), st.cks)
<1> DEFINE r == AfterEncrypt(st)
<1>1. PICK ck \in ChainKey : ck = st.cks
  BY SessionFields DEF CanEncrypt
<1>2. /\ r.cks = KdfChainKey(ck, 1) /\ r.ckr = st.ckr /\ r.rk = st.rk
      /\ r.skipped = st.skipped
  BY <1>1 DEF AfterEncrypt, RatchetState
<1>3. PICK next \in ChainKey : next = KdfChainKey(ck, 1) /\ next.root = ck.root /\ next.step = ck.step + 1
  <2>1. KdfChainKey(ck, 1) \in ChainKey
    BY KdfTypes
  <2>2. KdfChainKey(ck, 1).root = ck.root /\ KdfChainKey(ck, 1).step = ck.step + 1
    BY DEF KdfChainKey, ChainKey
  <2> QED
    BY <2>1, <2>2
<1> HIDE DEF r
<1>4. Tidy(r)
  BY <1>1, <1>2, <1>3, SessionFields DEF Tidy
<1>5. ASSUME NEW key \in ChainKey, Forgotten(st, key) PROVE Forgotten(r, key)
  <2>1. ~(next.root = key.root /\ next.step <= key.step)
    <3>1. ~(ck.root = key.root /\ ck.step <= key.step)
      BY <1>1, <1>5, SessionFields DEF Forgotten, Yields
    <3>2. ck.step \in Nat /\ key.step \in Nat
      BY KeyFields
    <3> QED
      BY <1>3, <3>1, <3>2
  <2>2. ~Yields(r, key)
    BY <1>2, <1>3, <1>5, <2>1 DEF Forgotten, Yields
  <2> QED
    BY <1>2, <1>5, <2>2 DEF Forgotten
<1>6. Forgotten(r, st.cks)
  <2>1. ck.root = st.rk
    BY <1>1, SessionFields DEF Tidy
  <2>2. Len(st.rk.path) \in Nat /\ ck.step \in Nat
    BY SessionFields, KeyFields
  <2>3. ~(next.root = ck.root /\ next.step <= ck.step)
    BY <1>3, <2>2
  <2>4. st.ckr # None => st.ckr.root # ck.root
    BY <2>1, <2>2 DEF Tidy, Earlier
  <2>5. \A i \in 1 .. Len(st.skipped) : st.skipped[i].mk # ck
    BY <2>1, <2>2 DEF Tidy, Earlier
  <2>6. ~Yields(r, ck)
    BY <1>2, <1>3, <2>3, <2>4, <2>5 DEF Yields
  <2> QED
    BY <1>1, <1>2, <2>1, <2>2, <2>6 DEF Forgotten
<1> QED
  BY <1>2, <1>4, <1>5, <1>6 DEF Forgets, r

(* What is left of the skipped keys are the last ones, in their order. *)
LEMMA LatestKeysAreLast ==
    ASSUME NEW keys \in Seq(SkippedKey)
    PROVE  \E d \in Nat : /\ Len(LatestKeys(keys)) + d = Len(keys)
                          /\ \A i \in 1 .. Len(LatestKeys(keys)) : LatestKeys(keys)[i] = keys[d + i]
<1>1. CASE Len(keys) <= MaxSkip
  <2>1. LatestKeys(keys) = keys /\ Len(keys) \in Nat
    BY <1>1 DEF LatestKeys
  <2>2. Len(keys) + 0 = Len(keys) /\ \A i \in 1 .. Len(keys) : keys[i] = keys[0 + i]
    BY <2>1
  <2> QED
    BY <2>1, <2>2
<1>2. CASE ~(Len(keys) <= MaxSkip)
  <2> DEFINE d == Len(keys) - MaxSkip
  <2>1. d \in Nat /\ Len(keys) \in Nat /\ MaxSkip \in Nat /\ d <= Len(keys)
    BY <1>2, MaxSkipAssumption
  <2>2. LatestKeys(keys) = SubSeq(keys, d + 1, Len(keys))
    BY <1>2 DEF LatestKeys
  <2>3. \A i \in (d + 1) .. Len(keys) : keys[i] \in SkippedKey
    BY <2>1
  <2> HIDE DEF d
  <2>4. /\ Len(SubSeq(keys, d + 1, Len(keys))) = IF d + 1 <= Len(keys) THEN Len(keys) - (d + 1) + 1 ELSE 0
        /\ \A i \in 1 .. Len(keys) - (d + 1) + 1 : SubSeq(keys, d + 1, Len(keys))[i] = keys[(d + 1) + i - 1]
    BY <2>1, <2>3, SubSeqProperties
  <2>5. Len(LatestKeys(keys)) = Len(keys) - d
    BY <2>1, <2>2, <2>4
  <2>6. \A i \in 1 .. Len(LatestKeys(keys)) : LatestKeys(keys)[i] = keys[d + i]
    BY <2>1, <2>2, <2>4, <2>5
  <2>7. Len(LatestKeys(keys)) + d = Len(keys)
    BY <2>1, <2>5
  <2> QED
    BY <2>1, <2>6, <2>7
<1> QED
  BY <1>1, <1>2

(* A session with the chains of st advanced and other skipped keys forgets  *)
(* what st does if each of these keys is one of st or comes from the part   *)
(* of the receiving chain that is passed.                                   *)
LEMMA AdvanceForgets ==
    ASSUME NEW st \in RatchetState, Tidy(st), NEW ck \in ChainKey, ck = st.ckr,
           NEW r \in RatchetState, r.cks = st.cks, r.rk = st.rk,
           NEW next \in ChainKey, r.ckr = next, next.root = ck.root, ck.step <= next.step,
           \A i \in 1 .. Len(r.skipped) :
               \/ \E j \in 1 .. Len(st.skipped) : r.skipped[i].mk = st.skipped[j].mk
               \/ /\ r.skipped[i].mk.root = ck.root
                  /\ ck.step <= r.skipped[i].mk.step /\ r.skipped[i].mk.step < next.step,
           \A i, j \in 1 .. Len(r.skipped) : r.skipped[i].mk = r.skipped[j].mk => i = j
    PROVE  Forgets(st, r)
<1>1. /\ ck.step \in Nat /\ next.step \in Nat /\ Len(st.rk.path) \in Nat
      /\ \A i \in 1 .. Len(r.skipped) : r.skipped[i].mk \in ChainKey /\ r.skipped[i].mk.step \in Nat
      /\ ck # None /\ next # None
  BY SessionFields, KeyFields
<1>2. Earlier(ck.root, st.rk) /\ (st.cks # None => st.cks.root = st.rk)
  BY <1>1 DEF Tidy
<1>3. ASSUME NEW i \in 1 .. Len(r.skipped)
      PROVE  /\ Earlier(r.skipped[i].mk.root, r.rk)
             /\ r.skipped[i].mk.root = next.root => r.skipped[i].mk.step < next.step
  <2>1. CASE \E j \in 1 .. Len(st.skipped) : r.skipped[i].mk = st.skipped[j].mk
    <3>1. PICK j \in 1 .. Len(st.skipped) : r.skipped[i].mk = st.skipped[j].mk
      BY <2>1
    <3>2. /\ Earlier(st.skipped[j].mk.root, st.rk)
          /\ st.skipped[j].mk.root = ck.root => st.skipped[j].mk.step < ck.step
      BY <1>1 DEF Tidy
    <3> QED
      BY <1>1, <3>1, <3>2
  <2>2. CASE /\ r.skipped[i].mk.root = ck.root /\ r.skipped[i].mk.step < next.step
    BY <1>2, <2>2
  <2> QED
    BY <2>1, <2>2
<1>4. Tidy(r)
  BY <1>1, <1>2, <1>3 DEF Tidy
<1>5. ASSUME NEW key \in ChainKey, Forgotten(st, key) PROVE Forgotten(r, key)
  <2>1. key.step \in Nat
    BY KeyFields
  <2>2. /\ ~(ck.root = key.root /\ ck.step <= key.step)
        /\ \A j \in 1 .. Len(st.skipped) : st.skipped[j].mk # key
        /\ st.cks # None => ~(st.cks.root = key.root /\ st.cks.step <= key.step)
    BY <1>1, <1>5 DEF Forgotten, Yields
  <2>3. ~(next.root = key.root /\ next.step <= key.step)
    BY <1>1, <2>1, <2>2
  <2>4. \A i \in 1 .. Len(r.skipped) : r.skipped[i].mk # key
    BY <2>2
  <2>5. ~Yields(r, key)
    BY <2>2, <2>3, <2>4 DEF Yields
  <2> QED
    BY <1>5, <2>5 DEF Forgotten
<1> QED
  BY <1>4, <1>5 DEF Forgets

LEMMA SkipAppends ==
    ASSUME NEW st \in RatchetState, st.ckr # None, NEW until \in Nat
    PROVE  \E gap \in Nat, keys \in Seq(SkippedKey) : Appended(st, until, gap, keys)
<1> DEFINE gap == IF until > st.nr THEN until - st.nr ELSE 0
           key(i) == [ dh |-> st.dhr, n |-> st.nr + i - 1,
                       mk |-> KdfChainKey(st.ckr, i - 1) ]
           passed == [i \in 1 .. gap |-> key(i)]
           keys == st.skipped \o passed
<1>1. st.nr \in Nat /\ gap \in Nat /\ st.ckr \in ChainKey /\ st.dhr \in KeyPair \cup {None}
  BY DEF RatchetState
<1>2. ASSUME NEW i \in 1 .. gap PROVE key(i) \in SkippedKey
  <2>1. i - 1 \in Nat /\ st.nr + i - 1 \in Nat
    BY <1>1
  <2>2. KdfChainKey(st.ckr, i - 1) \in ChainKey
    BY <1>1, <2>1, KdfTypes
  <2> QED
    BY <1>1, <2>1, <2>2 DEF SkippedKey
<1>3. SkipMessages(st, until) =
        [st EXCEPT !.skipped = LatestKeys(keys), !.ckr = KdfChainKey(st.ckr, gap),
                   !.nr = st.nr + gap]
  BY DEF SkipMessages
<1>4. gap = IF until > st.nr THEN until - st.nr ELSE 0
  OBVIOUS
<1> HIDE DEF gap
<1>5. \A i \in 1 .. gap : passed[i] = key(i)
  OBVIOUS
<1> HIDE DEF key
<1>6. passed \in Seq(SkippedKey) /\ Len(passed) = gap
  BY <1>1, <1>2, IsASeq
<1> HIDE DEF passed
<1>7. /\ keys \in Seq(SkippedKey) /\ Len(keys) = Len(st.skipped) + gap
      /\ \A i \in 1 .. Len(st.skipped) : keys[i] = st.skipped[i]
      /\ \A i \in 1 .. gap : keys[Len(st.skipped) + i] = passed[i]
  <2>1. PICK a \in Seq(SkippedKey), b \in Seq(SkippedKey) : a = st.skipped /\ b = passed
    BY <1>6, SessionFields
  <2>2. /\ a \o b \in Seq(SkippedKey) /\ Len(a \o b) = Len(a) + Len(b)
        /\ \A i \in 1 .. Len(a) : (a \o b)[i] = a[i]
        /\ \A i \in 1 .. Len(b) : (a \o b)[Len(a) + i] = b[i]
    OBVIOUS
  <2> QED
    BY <1>6, <2>1, <2>2
<1> HIDE DEF keys
<1>8. \A i \in 1 .. gap : keys[Len(st.skipped) + i] = key(i)
  BY <1>5, <1>7
<1>9. Appended(st, until, gap, keys)
  BY <1>3, <1>4, <1>7, <1>8 DEF Appended, key
<1> QED
  BY <1>1, <1>7, <1>9

(* skipMessages stashes only keys that are still to come. *)
LEMMA SkipForgets ==
    ASSUME NEW st \in RatchetState, Tidy(st), NEW until \in Nat
    PROVE  Forgets(st, SkipMessages(st, until))
<1> DEFINE r == SkipMessages(st, until)
<1>1. CASE st.ckr = None
  BY <1>1 DEF SkipMessages, Forgets
<1>2. CASE st.ckr # None
  <2>1. PICK ck \in ChainKey : ck = st.ckr
    BY <1>2, SessionFields
  <2>2. PICK gap \in Nat, keys \in Seq(SkippedKey) : Appended(st, until, gap, keys)
    BY <1>2, SkipAppends
  <2>3. r \in RatchetState /\ ck.step \in Nat
    BY SkipMessagesType, KeyFields
  <2>4. /\ r.cks = st.cks /\ r.rk = st.rk /\ r.ckr = KdfChainKey(ck, gap)
        /\ r.skipped = LatestKeys(keys)
    <3> DEFINE ckr == KdfChainKey(ck, gap)
               skipped == LatestKeys(keys)
               nr == st.nr + gap
    <3>1. r = [st EXCEPT !.skipped = skipped, !.ckr = ckr, !.nr = nr]
      BY <2>1, <2>2 DEF Appended
    <3> HIDE DEF r, ckr, skipped, nr
    <3>2. r.cks = st.cks /\ r.rk = st.rk /\ r.ckr = ckr /\ r.skipped = skipped
      BY <3>1 DEF RatchetState
    <3> QED
      BY <3>2 DEF ckr, skipped
  <2>5. PICK next \in ChainKey : /\ next = r.ckr /\ next.root = ck.root
                                 /\ next.step = ck.step + gap
    <3>1. KdfChainKey(ck, gap) \in ChainKey
      BY <2>2, KdfTypes
    <3>2. KdfChainKey(ck, gap).root = ck.root /\ KdfChainKey(ck, gap).step = ck.step + gap
      BY DEF KdfChainKey, ChainKey
    <3> QED
      BY <2>4, <3>1, <3>2
  <2>6. ASSUME NEW i \in 1 .. gap
        PROVE  /\ keys[Len(st.skipped) + i].mk \in ChainKey
               /\ keys[Len(st.skipped) + i].mk.root = ck.root
               /\ keys[Len(st.skipped) + i].mk.step = ck.step + (i - 1)
    <3>1. KdfChainKey(ck, i - 1) \in ChainKey
      BY <2>2, KdfTypes
    <3>2. KdfChainKey(ck, i - 1).root = ck.root
          /\ KdfChainKey(ck, i - 1).step = ck.step + (i - 1)
      BY DEF KdfChainKey, ChainKey
    <3>3. keys[Len(st.skipped) + i].mk = KdfChainKey(ck, i - 1)
      <4>1. keys[Len(st.skipped) + i] =
              [dh |-> st.dhr, n |-> st.nr + i - 1, mk |-> KdfChainKey(st.ckr, i - 1)]
        BY <2>2 DEF Appended
      <4>2. keys[Len(st.skipped) + i].mk = KdfChainKey(st.ckr, i - 1)
        BY <4>1
      <4> QED
        BY <2>1, <4>2
    <3> QED
      BY <3>1, <3>2, <3>3
  <2>7. /\ Len(keys) = Len(st.skipped) + gap
        /\ \A i \in 1 .. Len(st.skipped) : keys[i] = st.skipped[i]
    BY <2>2 DEF Appended
  <2> HIDE DEF r
  <2>8. PICK d \in Nat : /\ Len(r.skipped) + d = Len(keys)
                         /\ \A i \in 1 .. Len(r.skipped) : r.skipped[i] = keys[d + i]
    <3>1. PICK d \in Nat : /\ Len(LatestKeys(keys)) + d = Len(keys)
                           /\ \A i \in 1 .. Len(LatestKeys(keys)) : LatestKeys(keys)[i] = keys[d + i]
      BY <2>7, LatestKeysAreLast
    <3> QED
      BY <2>4, <3>1
  <2>9. Len(st.skipped) \in Nat /\ Len(r.skipped) \in Nat
    BY <2>3, SessionFields
  <2>10. ASSUME NEW k \in 1 .. Len(keys)
         PROVE  \/ k \in 1 .. Len(st.skipped) /\ keys[k].mk = st.skipped[k].mk
                \/ /\ k - Len(st.skipped) \in 1 .. gap
                   /\ keys[k].mk \in ChainKey /\ keys[k].mk.root = ck.root
                   /\ keys[k].mk.step = ck.step + (k - Len(st.skipped) - 1)
    <3>1. CASE k \in 1 .. Len(st.skipped)
      BY <2>7, <3>1
    <3>2. CASE k \notin 1 .. Len(st.skipped)
      <4>1. PICK i \in 1 .. gap : k = Len(st.skipped) + i
        <5>1. k - Len(st.skipped) \in 1 .. gap /\ k = Len(st.skipped) + (k - Len(st.skipped))
          BY <2>2, <2>7, <2>9, <3>2
        <5> QED
          BY <5>1
      <4>2. k - Len(st.skipped) = i
        BY <2>9, <4>1
      <4> QED
        BY <2>6, <4>1, <4>2
    <3> QED
      BY <3>1, <3>2
  <2>11. ASSUME NEW i \in 1 .. Len(r.skipped)
         PROVE  d + i \in 1 .. Len(keys) /\ r.skipped[i].mk = keys[d + i].mk
    BY <2>8, <2>9
  <2>12. ASSUME NEW i \in 1 .. Len(r.skipped)
         PROVE  \/ \E j \in 1 .. Len(st.skipped) : r.skipped[i].mk = st.skipped[j].mk
                \/ /\ r.skipped[i].mk.root = ck.root
                   /\ ck.step <= r.skipped[i].mk.step /\ r.skipped[i].mk.step < next.step
    <3>1. PICK k \in 1 .. Len(keys) : r.skipped[i].mk = keys[k].mk
      BY <2>11
    <3>2. CASE k \in 1 .. Len(st.skipped) /\ keys[k].mk = st.skipped[k].mk
      BY <3>1, <3>2
    <3>3. CASE /\ k - Len(st.skipped) \in 1 .. gap
               /\ keys[k].mk \in ChainKey /\ keys[k].mk.root = ck.root
               /\ keys[k].mk.step = ck.step + (k - Len(st.skipped) - 1)
      <4>1. /\ ck.step <= ck.step + (k - Len(st.skipped) - 1)
            /\ ck.step + (k - Len(st.skipped) - 1) < next.step
        BY <2>3, <2>5, <2>9, <3>3
      <4> QED
        BY <3>1, <3>3, <4>1
    <3> QED
      BY <2>10, <3>2, <3>3
  <2>13. ASSUME NEW j \in 1 .. Len(keys), NEW k \in 1 .. Len(keys), j < k
         PROVE  keys[j].mk # keys[k].mk
    <3>1. CASE k \in 1 .. Len(st.skipped)
      <4>1. j \in 1 .. Len(st.skipped) /\ j # k
        BY <2>9, <2>13, <3>1
      <4> QED
        BY <2>7, <3>1, <4>1 DEF Tidy
    <3>2. CASE /\ k - Len(st.skipped) \in 1 .. gap
               /\ keys[k].mk \in ChainKey /\ keys[k].mk.root = ck.root
               /\ keys[k].mk.step = ck.step + (k - Len(st.skipped) - 1)
      <4>1. CASE j \in 1 .. Len(st.skipped) /\ keys[j].mk = st.skipped[j].mk
        <5>1. /\ keys[j].mk \in ChainKey /\ keys[j].mk.step \in Nat
              /\ keys[j].mk.root = ck.root => keys[j].mk.step < ck.step
          BY <1>2, <2>1, <4>1, SessionFields, KeyFields DEF Tidy
        <5>2. ck.step <= ck.step + (k - Len(st.skipped) - 1)
          BY <2>3, <2>9, <3>2
        <5> QED
          BY <2>3, <3>2, <5>1, <5>2
      <4>2. CASE keys[j].mk.step = ck.step + (j - Len(st.skipped) - 1)
        <5>1. ck.step + (j - Len(st.skipped) - 1) # ck.step + (k - Len(st.skipped) - 1)
          BY <2>3, <2>9, <2>13
        <5> QED
          BY <3>2, <4>2, <5>1
      <4> QED
        BY <2>10, <4>1, <4>2
    <3> QED
      BY <2>10, <3>1, <3>2
  <2>14. ASSUME NEW i \in 1 .. Len(r.skipped), NEW j \in 1 .. Len(r.skipped),
                r.skipped[i].mk = r.skipped[j].mk
         PROVE  i = j
    <3>1. ~(d + i < d + j) /\ ~(d + j < d + i)
      BY <2>11, <2>13, <2>14
    <3> QED
      BY <2>9, <3>1
  <2>15. ck.step <= next.step
    BY <2>3, <2>5
  <2>16. Forgets(st, r)
    BY <2>1, <2>3, <2>4, <2>5, <2>12, <2>14, <2>15, AdvanceForgets
  <2> QED
    BY <2>16 DEF r
<1> QED
  BY <1>1, <1>2

(* A DH ratchet step derives roots longer than all that were forgotten. *)
LEMMA TurnForgets ==
    ASSUME NEW st \in RatchetState, Tidy(st), NEW theirs \in KeyPair, NEW fresh \in KeyPair
    PROVE  Forgets(st, DHRatchet(st, theirs, fresh))
<1> DEFINE r == DHRatchet(st, theirs, fresh)
           len == Len(st.rk.path)
<1>1. st.dhs \in KeyPair /\ st.rk \in RootKey
  BY DEF RatchetState
<1>2. \A rk \in RootKey, dh \in SUBSET KeyPair :
         /\ KdfRootKey(rk, dh) \in RootKey /\ KdfRootKey(rk, dh).secret = rk.secret
         /\ Len(KdfRootKey(rk, dh).path) = Len(rk.path) + 1
  <2> SUFFICES ASSUME NEW rk \in RootKey, NEW dh \in SUBSET KeyPair
               PROVE  /\ KdfRootKey(rk, dh) \in RootKey /\ KdfRootKey(rk, dh).secret = rk.secret
                      /\ Len(KdfRootKey(rk, dh).path) = Len(rk.path) + 1
    OBVIOUS
  <2>1. rk.path \in Seq(SUBSET KeyPair)
    BY DEF RootKey
  <2>2. KdfRootKey(rk, dh).secret = rk.secret /\ KdfRootKey(rk, dh).path = Append(rk.path, dh)
    BY DEF KdfRootKey, RootKey
  <2>3. Len(Append(rk.path, dh)) = Len(rk.path) + 1
    BY <2>1
  <2> QED
    BY <2>2, <2>3, KdfTypes
<1>3. PICK rkr \in RootKey : /\ rkr = KdfRootKey(st.rk, DH(st.dhs, theirs))
                             /\ rkr.secret = st.rk.secret /\ Len(rkr.path) = len + 1
  BY <1>1, <1>2, KdfTypes
<1>4. PICK rks \in RootKey : /\ rks = KdfRootKey(rkr, DH(fresh, theirs))
                             /\ rks.secret = st.rk.secret /\ Len(rks.path) = Len(rkr.path) + 1
  BY <1>2, <1>3, KdfTypes
<1>5. /\ r.rk = rks /\ r.ckr = FirstChainKey(rkr) /\ r.cks = FirstChainKey(rks)
      /\ r.skipped = st.skipped
  BY <1>3, <1>4 DEF DHRatchet, RatchetState
<1>6. /\ r.ckr.root = rkr /\ r.cks.root = rks
      /\ r.ckr # None /\ r.cks # None
  BY <1>5, KdfTypes, NoneAssumption DEF FirstChainKey
<1> HIDE DEF r
<1>7. len \in Nat
  BY SessionFields
<1>8. Tidy(r)
  <2>1. Earlier(rkr, rks)
    BY <1>3, <1>4, <1>7 DEF Earlier
  <2>2. ASSUME NEW i \in 1 .. Len(st.skipped)
        PROVE  Earlier(st.skipped[i].mk.root, rks) /\ st.skipped[i].mk.root # rkr
    <3>1. PICK root \in RootKey : root = st.skipped[i].mk.root /\ Len(root.path) \in Nat
      BY SessionFields, KeyFields
    <3>2. root.secret = st.rk.secret /\ Len(root.path) < len
      BY <3>1 DEF Tidy, Earlier
    <3>3. Len(root.path) < Len(rks.path) /\ Len(root.path) # Len(rkr.path)
      <4>1. Len(rkr.path) = len + 1 /\ Len(rks.path) = (len + 1) + 1
        BY <1>3, <1>4
      <4>2. PICK a \in Nat, b \in Nat : a = Len(root.path) /\ b = len
        BY <1>7, <3>1
      <4> HIDE DEF len
      <4>3. a < b
        BY <3>2, <4>2
      <4>4. a < (b + 1) + 1 /\ a # b + 1
        BY <4>3
      <4> QED
        BY <4>1, <4>2, <4>4
    <3> QED
      BY <1>4, <3>1, <3>2, <3>3 DEF Earlier
  <2> QED
    BY <1>5, <1>6, <2>1, <2>2 DEF Tidy
<1>9. r \in RatchetState
  BY DHRatchetType DEF r
<1>10. ASSUME NEW key \in ChainKey, Forgotten(st, key) PROVE Forgotten(r, key)
  <2>1. CASE key.root.secret # st.rk.secret
    BY <1>4, <1>5, <1>8, <1>9, <2>1, StrangersAreForgotten
  <2>2. CASE key.root.secret = st.rk.secret
    <3>1. Len(key.root.path) <= len /\ Len(key.root.path) \in Nat
      BY <1>10, <2>2, KeyFields DEF Forgotten
    <3>2. key.root # rkr /\ key.root # rks /\ Len(key.root.path) <= Len(rks.path)
      BY <1>3, <1>4, <1>7, <3>1
    <3>3. \A i \in 1 .. Len(st.skipped) : st.skipped[i].mk # key
      BY <1>10 DEF Forgotten, Yields
    <3>4. ~Yields(r, key)
      BY <1>5, <1>6, <3>2, <3>3 DEF Yields
    <3> QED
      BY <1>5, <3>2, <3>4 DEF Forgotten
  <2> QED
    BY <2>1, <2>2
<1> QED
  BY <1>4, <1>5, <1>8, <1>10 DEF Forgets, r

(* Taking one out of the list of skipped keys moves up those behind it. *)
LEMMA SkippedWithout ==
    ASSUME NEW st \in RatchetState, NEW i \in 1 .. Len(st.skipped)
    PROVE  /\ Len(RemoveAt(st.skipped, i)) = Len(st.skipped) - 1
           /\ \A j \in 1 .. Len(st.skipped) - 1 :
                 RemoveAt(st.skipped, i)[j] = st.skipped[IF j < i THEN j ELSE j + 1]
<1> DEFINE n == Len(st.skipped)
           rest == RemoveAt(st.skipped, i)
           left == SubSeq(st.skipped, 1, i - 1)
           right == SubSeq(st.skipped, i + 1, n)
<1>0. n \in Nat /\ st.skipped \in Seq(SkippedKey)
  BY SessionFields
<1>1. /\ left \in Seq(SkippedKey) /\ Len(left) = i - 1
      /\ \A j \in 1 .. i - 1 : left[j] = st.skipped[j]
  <2>1. 1 \in Int /\ i - 1 \in Int /\ \A j \in 1 .. i - 1 : st.skipped[j] \in SkippedKey
    BY <1>0
  <2>2. /\ left \in Seq(SkippedKey)
        /\ Len(left) = IF 1 <= i - 1 THEN (i - 1) - 1 + 1 ELSE 0
        /\ \A j \in 1 .. (i - 1) - 1 + 1 : left[j] = st.skipped[1 + j - 1]
    BY <2>1, SubSeqProperties
  <2> QED
    BY <1>0, <2>2
<1>2. /\ right \in Seq(SkippedKey) /\ Len(right) = n - i
      /\ \A j \in 1 .. n - i : right[j] = st.skipped[i + j]
  <2>1. i + 1 \in Int /\ n \in Int /\ \A j \in i + 1 .. n : st.skipped[j] \in SkippedKey
    BY <1>0
  <2>2. /\ right \in Seq(SkippedKey)
        /\ Len(right) = IF i + 1 <= n THEN n - (i + 1) + 1 ELSE 0
        /\ \A j \in 1 .. n - (i + 1) + 1 : right[j] = st.skipped[(i + 1) + j - 1]
    BY <2>1, SubSeqProperties
  <2> QED
    BY <1>0, <2>2
<1>3. rest = left \o right
  BY DEF RemoveAt, rest
<1> HIDE DEF left, right, n, rest
<1>4. /\ Len(left \o right) = Len(left) + Len(right)
      /\ \A j \in 1 .. Len(left) : (left \o right)[j] = left[j]
      /\ \A j \in 1 .. Len(right) : (left \o right)[Len(left) + j] = right[j]
  <2>1. PICK a \in Seq(SkippedKey), b \in Seq(SkippedKey) : a = left /\ b = right
    BY <1>1, <1>2
  <2>2. /\ Len(a \o b) = Len(a) + Len(b)
        /\ \A j \in 1 .. Len(a) : (a \o b)[j] = a[j]
        /\ \A j \in 1 .. Len(b) : (a \o b)[Len(a) + j] = b[j]
    OBVIOUS
  <2> QED
    BY <2>1, <2>2
<1>5. Len(rest) = n - 1
  BY <1>0, <1>1, <1>2, <1>3, <1>4
<1>6. ASSUME NEW j \in 1 .. n - 1
      PROVE  rest[j] = st.skipped[IF j < i THEN j ELSE j + 1]
  <2>1. CASE j < i
    <3>1. j \in 1 .. i - 1
      BY <1>0, <2>1
    <3> QED
      BY <1>1, <1>3, <1>4, <2>1, <3>1
  <2>2. CASE ~(j < i)
    <3>1. j - (i - 1) \in 1 .. n - i /\ (i - 1) + (j - (i - 1)) = j /\ i + (j - (i - 1)) = j + 1
      BY <1>0, <2>2
    <3>2. (left \o right)[Len(left) + (j - (i - 1))] = right[j - (i - 1)]
      BY <1>2, <1>4, <3>1
    <3>3. right[j - (i - 1)] = st.skipped[j + 1]
      BY <1>2, <3>1
    <3> QED
      BY <1>1, <1>3, <2>2, <3>1, <3>2, <3>3
  <2> QED
    BY <2>1, <2>2
<1> QED
  BY <1>5, <1>6 DEF n, rest

(* A skipped key is gone once a message was tried with it. *)
LEMMA OpenSkippedForgets ==
    ASSUME NEW st \in RatchetState, Tidy(st), NEW m, m.key \in ChainKey,
           SkippedIndex(st, m) # 0
    PROVE  /\ Forgets(st, OpenSkipped(st, m).st)
           /\ OpenSkipped(st, m).ok =>
                 m.key.root.secret = st.rk.secret /\ Forgotten(OpenSkipped(st, m).st, m.key)
<1> DEFINE r == OpenSkipped(st, m).st
           n == Len(st.skipped)
<1>1. PICK i \in 1 .. n : i = SkippedIndex(st, m)
  BY SkippedIndexInRange
<1>2. n \in Nat /\ st.skipped \in Seq(SkippedKey)
  BY SessionFields
<1>3. /\ r.cks = st.cks /\ r.ckr = st.ckr /\ r.rk = st.rk
      /\ r.skipped = RemoveAt(st.skipped, i)
  BY <1>1 DEF OpenSkipped, RatchetState
<1>4. OpenSkipped(st, m).ok => m.key = st.skipped[i].mk
  BY <1>1 DEF OpenSkipped, Authentic
<1>5. /\ Len(r.skipped) = n - 1
      /\ \A j \in 1 .. n - 1 : r.skipped[j] = st.skipped[IF j < i THEN j ELSE j + 1]
  BY <1>3, SkippedWithout
<1> HIDE DEF r, n
<1>6. ASSUME NEW j \in 1 .. Len(r.skipped)
      PROVE  \E k \in 1 .. n : /\ k # i /\ r.skipped[j] = st.skipped[k]
                               /\ (j < i /\ k = j) \/ (~(j < i) /\ k = j + 1)
  <2>1. CASE j < i
    <3>1. j \in 1 .. n /\ j # i /\ j \in 1 .. n - 1
      BY <1>2, <1>5, <2>1
    <3>2. r.skipped[j] = st.skipped[j]
      BY <1>5, <2>1, <3>1
    <3> QED
      BY <2>1, <3>1, <3>2
  <2>2. CASE ~(j < i)
    <3>1. j + 1 \in 1 .. n /\ j + 1 # i /\ j \in 1 .. n - 1
      BY <1>2, <1>5, <2>2
    <3>2. r.skipped[j] = st.skipped[j + 1]
      BY <1>5, <2>2, <3>1
    <3> QED
      BY <2>2, <3>1, <3>2
  <2> QED
    BY <2>1, <2>2
<1>7. Tidy(r)
  <2>1. ASSUME NEW j \in 1 .. Len(r.skipped), NEW l \in 1 .. Len(r.skipped),
               r.skipped[j].mk = r.skipped[l].mk
        PROVE  j = l
    <3>1. PICK k \in 1 .. n : /\ r.skipped[j] = st.skipped[k]
                              /\ (j < i /\ k = j) \/ (~(j < i) /\ k = j + 1)
      BY <1>6
    <3>2. PICK k2 \in 1 .. n : /\ r.skipped[l] = st.skipped[k2]
                               /\ (l < i /\ k2 = l) \/ (~(l < i) /\ k2 = l + 1)
      BY <1>6
    <3>3. k = k2
      BY <2>1, <3>1, <3>2 DEF Tidy, n
    <3>4. Len(r.skipped) \in Nat
      BY <1>2, <1>5
    <3> QED
      BY <1>2, <3>1, <3>2, <3>3, <3>4
  <2>2. ASSUME NEW j \in 1 .. Len(r.skipped)
        PROVE  /\ Earlier(r.skipped[j].mk.root, r.rk)
               /\ r.ckr # None /\ r.skipped[j].mk.root = r.ckr.root
                     => r.skipped[j].mk.step < r.ckr.step
    BY <1>3, <1>6 DEF Tidy, n
  <2> QED
    BY <1>3, <2>1, <2>2 DEF Tidy
<1>8. \A j \in 1 .. Len(r.skipped) : \E k \in 1 .. n : r.skipped[j].mk = st.skipped[k].mk
  BY <1>6
<1>9. ASSUME NEW key \in ChainKey, Forgotten(st, key) PROVE Forgotten(r, key)
  <2>1. ~Yields(r, key)
    BY <1>3, <1>8, <1>9 DEF Forgotten, Yields, n
  <2> QED
    BY <1>3, <1>9, <2>1 DEF Forgotten
<1>10. ASSUME OpenSkipped(st, m).ok
       PROVE  m.key.root.secret = st.rk.secret /\ Forgotten(r, m.key)
  <2>1. PICK mk \in ChainKey : mk = m.key /\ mk = st.skipped[i].mk
    BY <1>4, <1>10
  <2>2. /\ Earlier(mk.root, st.rk)
        /\ st.ckr # None /\ mk.root = st.ckr.root => mk.step < st.ckr.step
    BY <2>1 DEF Tidy, n
  <2>3. /\ mk.step \in Nat /\ Len(mk.root.path) \in Nat /\ Len(st.rk.path) \in Nat
        /\ st.ckr # None => st.ckr.step \in Nat
    BY SessionFields, KeyFields
  <2>4. st.cks # None => st.cks.root # mk.root
    BY <2>2, <2>3 DEF Tidy, Earlier
  <2>5. st.ckr # None => ~(st.ckr.root = mk.root /\ st.ckr.step <= mk.step)
    BY <2>2, <2>3
  <2>6. \A j \in 1 .. Len(r.skipped) : r.skipped[j].mk # mk
    BY <1>6, <2>1 DEF Tidy, n
  <2>7. ~Yields(r, mk)
    BY <1>3, <2>4, <2>5, <2>6 DEF Yields
  <2> QED
    <3>1. mk.root.secret = r.rk.secret /\ Len(mk.root.path) <= Len(r.rk.path)
      BY <1>3, <2>2, <2>3 DEF Earlier
    <3> QED
      BY <1>3, <2>1, <2>7, <3>1 DEF Forgotten
<1> QED
  BY <1>3, <1>7, <1>9, <1>10 DEF Forgets, r

(* The receiving chain key is spent on the message. *)
LEMMA OpenInChainForgets ==
    ASSUME NEW st \in RatchetState, Tidy(st), st.ckr # None, NEW m, m.key \in ChainKey
    PROVE  /\ Forgets(st, OpenInChain(st, m).st)
           /\ OpenInChain(st, m).ok =>
                 m.key.root.secret = st.rk.secret /\ Forgotten(OpenInChain(st, m).st, m.key)
<1> DEFINE r == OpenInChain(st, m).st
<1>1. PICK ck \in ChainKey : ck = st.ckr
  BY SessionFields
<1>2. r \in RatchetState
  BY OpenInChainType
<1>3. r.cks = st.cks /\ r.ckr = KdfChainKey(ck, 1) /\ r.rk = st.rk /\ r.skipped = st.skipped
  BY <1>1 DEF OpenInChain, RatchetState
<1>4. OpenInChain(st, m).ok => m.key = ck
  BY <1>1 DEF OpenInChain, Authentic
<1> HIDE DEF r
<1>5. PICK next \in ChainKey : next = r.ckr /\ next.root = ck.root /\ next.step = ck.step + 1
  <2>1. KdfChainKey(ck, 1) \in ChainKey
    BY KdfTypes
  <2>2. KdfChainKey(ck, 1).root = ck.root /\ KdfChainKey(ck, 1).step = ck.step + 1
    BY DEF KdfChainKey, ChainKey
  <2> QED
    BY <1>3, <2>1, <2>2
<1>6. ck.step \in Nat /\ ck.step <= next.step
  BY <1>5, KeyFields
<1>7. \A i, j \in 1 .. Len(r.skipped) : r.skipped[i].mk = r.skipped[j].mk => i = j
  BY <1>3 DEF Tidy
<1>8. Forgets(st, r)
  BY <1>1, <1>2, <1>3, <1>5, <1>6, <1>7, AdvanceForgets
<1>9. ASSUME OpenInChain(st, m).ok
      PROVE  m.key.root.secret = st.rk.secret /\ Forgotten(r, m.key)
  <2>1. m.key = ck
    BY <1>4, <1>9
  <2>2. Earlier(ck.root, st.rk) /\ Len(ck.root.path) \in Nat /\ Len(st.rk.path) \in Nat
    BY <1>1, SessionFields, KeyFields DEF Tidy
  <2>3. st.cks # None => st.cks.root # ck.root
    BY <2>2 DEF Tidy, Earlier
  <2>4. ~(next.root = ck.root /\ next.step <= ck.step)
    BY <1>5, <1>6
  <2>5. \A i \in 1 .. Len(st.skipped) : st.skipped[i].mk # ck
    <3> SUFFICES ASSUME NEW i \in 1 .. Len(st.skipped), st.skipped[i].mk = ck PROVE FALSE
      OBVIOUS
    <3>1. ck.step < ck.step
      BY <1>1 DEF Tidy
    <3> QED
      BY <1>6, <3>1
  <2>6. ~Yields(r, ck)
    BY <1>3, <1>5, <2>3, <2>4, <2>5 DEF Yields
  <2> QED
    BY <1>3, <2>1, <2>2, <2>6 DEF Forgotten, Earlier
<1> QED
  BY <1>8, <1>9 DEF r

LEMMA ForgetsIsTransitive ==
    ASSUME NEW st, NEW mid, NEW r, Forgets(st, mid), Forgets(mid, r)
    PROVE  Forgets(st, r)
BY DEF Forgets

(* ratchetDecrypt, whether it returns or throws, leaves a session that does *)
(* not yield what the one it was given did not; and when it returns, the    *)
(* key of the message is forgotten as well.                                 *)
THEOREM RatchetDecryptForgets ==
    ASSUME NEW st \in RatchetState, Tidy(st), NEW m, m.dh \in KeyPair, m.pn \in Nat, m.n \in Nat,
           m.key \in ChainKey, NEW fresh \in KeyPair
    PROVE  /\ Forgets(st, RatchetDecrypt(st, m, fresh).st)
           /\ RatchetDecrypt(st, m, fresh).ok =>
                 /\ m.key.root.secret = st.rk.secret
                 /\ Forgotten(RatchetDecrypt(st, m, fresh).st, m.key)
<1> DEFINE turned == IF HasDHKey(st, m) THEN st
                     ELSE DHRatchet(SkipMessages(st, m.pn), m.dh, fresh)
           ready  == SkipMessages(turned, m.n)
<1>1. turned \in RatchetState /\ ready \in RatchetState
  BY SkipMessagesType, DHRatchetType
<1>2. Forgets(st, turned)
  <2>1. CASE HasDHKey(st, m)
    BY <2>1 DEF Forgets
  <2>2. CASE ~HasDHKey(st, m)
    <3> DEFINE skipped == SkipMessages(st, m.pn)
    <3>1. skipped \in RatchetState /\ Forgets(st, skipped)
      BY SkipMessagesType, SkipForgets
    <3> HIDE DEF skipped
    <3>2. Forgets(skipped, DHRatchet(skipped, m.dh, fresh))
      BY <3>1, TurnForgets DEF Forgets
    <3>3. turned = DHRatchet(skipped, m.dh, fresh)
      BY <2>2 DEF skipped
    <3> HIDE DEF turned
    <3> QED
      BY <3>1, <3>2, <3>3, ForgetsIsTransitive
  <2> QED
    BY <2>1, <2>2
<1>3. Forgets(st, ready)
  <2> HIDE DEF turned
  <2>1. Forgets(turned, ready)
    BY <1>1, <1>2, SkipForgets DEF Forgets
  <2> QED
    BY <1>2, <2>1, ForgetsIsTransitive
<1>4. CASE SkippedIndex(st, m) # 0
  BY <1>4, OpenSkippedForgets DEF RatchetDecrypt
<1>5. CASE SkippedIndex(st, m) = 0 /\ ~HasDHKey(st, m) /\ ~CanSkip(st, m.pn)
  BY <1>5 DEF RatchetDecrypt, Forgets
<1>6. CASE SkippedIndex(st, m) = 0 /\ (HasDHKey(st, m) \/ CanSkip(st, m.pn))
  <2>1. RatchetDecrypt(st, m, fresh) =
           IF ~CanSkip(turned, m.n) THEN [st |-> turned, ok |-> FALSE]
           ELSE IF ready.ckr = None THEN [st |-> ready, ok |-> FALSE]
           ELSE OpenInChain(ready, m)
    BY <1>6 DEF RatchetDecrypt
  <2> HIDE DEF turned, ready
  <2>2. ASSUME ready.ckr # None
        PROVE  /\ Forgets(st, OpenInChain(ready, m).st)
               /\ OpenInChain(ready, m).ok =>
                     m.key.root.secret = st.rk.secret /\ Forgotten(OpenInChain(ready, m).st, m.key)
    <3>1. Tidy(ready) /\ ready.rk.secret = st.rk.secret
      BY <1>3 DEF Forgets
    <3>2. /\ Forgets(ready, OpenInChain(ready, m).st)
          /\ OpenInChain(ready, m).ok =>
                m.key.root.secret = ready.rk.secret /\ Forgotten(OpenInChain(ready, m).st, m.key)
      BY <1>1, <2>2, <3>1, OpenInChainForgets
    <3> QED
      BY <1>3, <3>1, <3>2, ForgetsIsTransitive
  <2> QED
    BY <1>2, <1>3, <2>1, <2>2
<1> QED
  BY <1>4, <1>5, <1>6

-----------------------------------------------------------------------------
(* Forward secrecy of the session. *)

LEMMA PeerOfPeer ==
    \A p, q \in Party : p # q => Peer(p) = q
<1>1. PICK a, b \in Party : a # b /\ Party = {a, b}
  BY SessionAssumption
<1> QED
  BY <1>1 DEF Peer

LEMMA PeerDiffers == \A p \in Party : Peer(p) \in Party /\ Peer(p) # p
<1>1. PICK a, b \in Party : a # b /\ Party = {a, b}
  BY SessionAssumption
<1> QED
  BY <1>1, PeerOfPeer

(* What p handled are stored messages. *)
LEMMA HandledType ==
    ASSUME TypeOK, NEW p \in Party
    PROVE  /\ Handled(p) \subseteq sent
           /\ \A m \in Handled(p) : m.key \in ChainKey /\ m.key.root.secret \in SUBSET KeyPair
<1>1. Handled(p) \subseteq sent
  BY DEF Handled, TypeOK
<1>2. ASSUME NEW m \in Handled(p)
      PROVE  m.key \in ChainKey /\ m.key.root.secret \in SUBSET KeyPair
  <2>1. m.key \in ChainKey
    BY <1>1, SentType
  <2>2. m.key.root \in RootKey
    BY <2>1, KeyFields
  <2> QED
    BY <2>1, <2>2 DEF RootKey
<1> QED
  BY <1>1, <1>2

LEMMA StoredSecret ==
    ASSUME NEW st \in RatchetState
    PROVE  st.rk.secret \in SUBSET KeyPair
<1>1. st.rk \in RootKey
  BY SessionFields
<1> QED
  BY <1>1 DEF RootKey

LEMMA SettledLater ==
    ASSUME TypeOK, TypeOK', NEW p \in Party, NEW secret \in SUBSET KeyPair, Settled(p, secret),
           \A q \in Party : gen[q] <= gen'[q],
           plain[p] \subseteq plain'[p],
           \A m \in Openings' : m \in Openings \/ m.from = p \/ ~KnownIn(gen, m.x3dh)
    PROVE  Settled(p, secret)'
<1>1. gen' \in [Party -> Nat]
  BY DEF TypeOK
<1>2. \A k \in secret : KnownIn(gen', k)
  BY <1>1, KnownLater DEF Settled
<1>3. ASSUME NEW m \in Openings', m.from # p, secret = Offer(m) PROVE m \in plain'[p]
  <2>1. CASE m \in Openings
    BY <1>3, <2>1 DEF Settled
  <2>2. CASE ~KnownIn(gen, m.x3dh)
    <3>1. m.x3dh \in secret
      BY <1>3 DEF Offer, X3DHSecret, DH
    <3> QED
      BY <2>2, <3>1 DEF Settled
  <2> QED
    BY <1>3, <2>1, <2>2
<1> QED
  BY <1>2, <1>3 DEF Settled

(* A party whose sessions and messages a step leaves alone. *)
LEMMA PartyKept ==
    ASSUME ForgetInv, TypeOK', NEW p \in Party,
           disk'[p] = disk[p], cache'[p] \in {cache[p], None},
           Handled(p)' = Handled(p), plain[p] \subseteq plain'[p],
           \A q \in Party : gen[q] <= gen'[q],
           \A m \in Openings' : m \in Openings \/ m.from = p \/ ~KnownIn(gen, m.x3dh)
    PROVE  PartyForgets(p)'
<1>1. TypeOK /\ PartyForgets(p)
  BY DEF ForgetInv
<1>2. Stores(p)' \subseteq Stores(p)
  BY DEF Stores
<1>3. ASSUME NEW st \in Stores(p)'
      PROVE  Tidy(st) /\ Settled(p, st.rk.secret)' /\ \A m \in Handled(p)' : Forgotten(st, m.key)
  <2>1. st \in Stores(p)
    BY <1>2
  <2>2. PICK secret \in SUBSET KeyPair : secret = st.rk.secret
    BY <1>1, <2>1, StoresType, StoredSecret
  <2>3. Settled(p, secret)
    BY <1>1, <2>1, <2>2 DEF PartyForgets
  <2>4. Settled(p, secret)'
    BY <1>1, <2>3, SettledLater
  <2> QED
    BY <1>1, <2>1, <2>2, <2>4 DEF PartyForgets
<1>4. ASSUME NEW m \in Handled(p)' PROVE Settled(p, m.key.root.secret)'
  <2>1. PICK secret \in SUBSET KeyPair : secret = m.key.root.secret
    BY <1>1, HandledType
  <2>2. Settled(p, secret)
    BY <1>1, <2>1 DEF PartyForgets
  <2>3. Settled(p, secret)'
    BY <1>1, <2>2, SettledLater
  <2> QED
    BY <2>1, <2>3
<1>5. disk'[p] = None => cache'[p] = None /\ Handled(p)' = {}
  BY <1>1 DEF PartyForgets
<1> QED
  BY <1>3, <1>4, <1>5 DEF PartyForgets

(* A party that stores the session r in both places. *)
LEMMA PartyStores ==
    ASSUME NEW p \in Party, NEW r \in RatchetState, disk'[p] = r, cache'[p] = r,
           Tidy(r), Settled(p, r.rk.secret)',
           \A m \in Handled(p)' : Forgotten(r, m.key) /\ Settled(p, m.key.root.secret)'
    PROVE  PartyForgets(p)'
<1>1. Stores(p)' \subseteq {r} /\ r # None
  BY NoneAssumption DEF Stores
<1> QED
  BY <1>1 DEF PartyForgets

(* Sent messages that are no openings, and openings already counted. *)
LEMMA OpeningsKept ==
    ASSUME ForgetInv, TypeOK', Openings' = Openings,
           \A q \in Party : plain[q] \subseteq plain'[q],
           \A q \in Party : gen[q] <= gen'[q]
    PROVE  OpeningsInv'
<1>1. TypeOK /\ OpeningsInv /\ gen' \in [Party -> Nat]
  BY DEF ForgetInv, TypeOK
<1>2. ASSUME NEW m \in Openings'
      PROVE  m \in plain'[m.from] /\ Establishes(m) /\ KnownIn(gen', m.x3dh)
  <2>1. m \in Openings /\ m \in sent /\ m.x3dh # None
    BY DEF Openings
  <2>2. m.from \in Party /\ m.x3dh \in KeyPair
    BY <1>1, <2>1, SentType
  <2>3. m \in plain[m.from] /\ Establishes(m) /\ KnownIn(gen, m.x3dh)
    BY <1>1, <2>1 DEF OpeningsInv
  <2> QED
    BY <1>1, <2>2, <2>3, KnownLater
<1> QED
  BY <1>1, <1>2 DEF OpeningsInv

(* A session made from the header is tidy and sends nothing. *)
LEMMA RespondedTidy ==
    ASSUME NEW p \in Party, NEW ephemeral
    PROVE  /\ Tidy(RespondedSession(p, ephemeral))
           /\ RespondedSession(p, ephemeral).rk.secret = X3DHSecret(ephemeral, SignedPreKey(p))
<1> DEFINE st == RespondedSession(p, ephemeral)
<1>1. /\ st.cks = None /\ st.ckr = None /\ st.skipped = <<>>
      /\ st.rk.secret = X3DHSecret(ephemeral, SignedPreKey(p))
  BY DEF RespondedSession, InitReceiver
<1>2. Len(st.skipped) = 0
  BY <1>1
<1> HIDE DEF st
<1>3. Tidy(st)
  BY <1>1, <1>2 DEF Tidy
<1> QED
  BY <1>1, <1>3 DEF st

(* And the session that performX3DH makes. *)
LEMMA InitiatedTidy ==
    ASSUME TypeOK, NEW p \in Party
    PROVE  /\ Tidy(InitiatedSession(p))
           /\ InitiatedSession(p).rk.secret = X3DHSecret(NewKey(p, 0), SignedPreKey(Peer(p)))
           /\ InitiatedSession(p).cks = FirstChainKey(KdfRootKey(
                 [secret |-> X3DHSecret(NewKey(p, 0), SignedPreKey(Peer(p))), path |-> <<>>],
                 DH(NewKey(p, 1), SignedPreKey(Peer(p)))))
           /\ InitiatedSession(p).ns = 0 /\ InitiatedSession(p).dhs = NewKey(p, 1)
<1> DEFINE st == InitiatedSession(p)
           base == [secret |-> X3DHSecret(NewKey(p, 0), SignedPreKey(Peer(p))), path |-> <<>>]
           rk == KdfRootKey(base, DH(NewKey(p, 1), SignedPreKey(Peer(p))))
<1>1. /\ st.cks = FirstChainKey(rk) /\ st.ckr = None /\ st.skipped = <<>> /\ st.rk = rk
      /\ st.ns = 0 /\ st.dhs = NewKey(p, 1)
  BY DEF InitiatedSession, InitSender
<1>2. rk.secret = X3DHSecret(NewKey(p, 0), SignedPreKey(Peer(p)))
  BY DEF KdfRootKey
<1>3. FirstChainKey(rk).root = rk
  BY DEF FirstChainKey
<1>4. Len(st.skipped) = 0
  BY <1>1
<1> HIDE DEF st, rk
<1>5. Tidy(st)
  BY <1>1, <1>3, <1>4 DEF Tidy
<1> QED
  BY <1>1, <1>2, <1>5 DEF st, rk

(* A session made from an X3DH secret opens the first message under it. *)
LEMMA FirstMessageOpens ==
    ASSUME NEW secret \in SUBSET KeyPair, NEW spk \in KeyPair,
           NEW m, m.dh \in KeyPair, m.pn \in Nat, m.n = 0, m.key \in ChainKey, m.tagged,
           m.key = FirstChainKey(KdfRootKey([secret |-> secret, path |-> <<>>], DH(spk, m.dh))),
           NEW fresh \in KeyPair
    PROVE  RatchetDecrypt(InitReceiver(secret, spk), m, fresh).ok
<1>1. PICK st \in RatchetState : st = InitReceiver(secret, spk)
  BY InitReceiverType
<1>2. m.key # None
  BY NoneAssumption
<1>3. /\ st.dhs = spk /\ st.dhr = None /\ st.ckr = None /\ Len(st.skipped) = 0
      /\ st.rk = [secret |-> secret, path |-> <<>>] /\ st.nr = 0
  BY <1>1 DEF InitReceiver
<1>4. SkippedIndex(st, m) = 0
  <2> SUFFICES ASSUME SkippedIndex(st, m) # 0 PROVE FALSE
    OBVIOUS
  <2>1. SkippedIndex(st, m) \in 1 .. Len(st.skipped)
    BY SkippedIndexInRange
  <2> QED
    BY <1>3, <2>1
<1>5. ~HasDHKey(st, m)
  BY <1>2, <1>3, NoneAssumption DEF HasDHKey
<1>6. CanSkip(st, m.pn) /\ SkipMessages(st, m.pn) = st
  BY <1>3 DEF CanSkip, SkipMessages
<1>7. PICK turned \in RatchetState : turned = DHRatchet(st, m.dh, fresh)
  BY <1>2, DHRatchetType
<1>8. turned.ckr = m.key /\ turned.nr = 0
  <2>1. turned.ckr = FirstChainKey(KdfRootKey(st.rk, DH(st.dhs, m.dh))) /\ turned.nr = 0
    BY <1>7 DEF DHRatchet, RatchetState
  <2> QED
    BY <1>3, <2>1
<1>9. CanSkip(turned, 0)
  BY <1>8, MaxSkipAssumption DEF CanSkip
<1>10. PICK ready : ready = SkipMessages(turned, 0) /\ ready.ckr = m.key
  <2>1. SkipMessages(turned, 0).ckr = KdfChainKey(m.key, 0)
    BY <1>2, <1>7, <1>8 DEF SkipMessages, RatchetState
  <2>2. KdfChainKey(m.key, 0) = m.key
    <3>1. KdfChainKey(m.key, 0) \in ChainKey
      BY <1>2, KdfTypes
    <3>2. KdfChainKey(m.key, 0).root = m.key.root /\ KdfChainKey(m.key, 0).step = m.key.step + 0
      BY <1>2 DEF KdfChainKey, ChainKey
    <3>3. m.key.step + 0 = m.key.step
      BY <1>2, KeyFields
    <3> QED
      BY <1>2, <3>1, <3>2, <3>3, KeyFields
  <2> QED
    BY <2>1, <2>2
<1>11. RatchetDecrypt(st, m, fresh) = OpenInChain(ready, m)
  BY <1>2, <1>4, <1>5, <1>6, <1>7, <1>9, <1>10 DEF RatchetDecrypt
<1>12. OpenInChain(ready, m).ok
  BY <1>2, <1>10 DEF OpenInChain, Authentic
<1> QED
  BY <1>1, <1>11, <1>12

(* The reader of an opening can open it in the session it establishes. *)
LEMMA OpeningOpens ==
    ASSUME TypeOK, NEW p \in Party, NEW m \in sent, m.x3dh # None, m.from # p,
           Establishes(m), NEW fresh \in KeyPair
    PROVE  RatchetDecrypt(RespondedSession(p, m.x3dh), m, fresh).ok
<1>1. /\ m.from \in Party /\ m.dh \in KeyPair /\ m.pn \in Nat /\ m.n = 0 /\ m.key \in ChainKey
      /\ m.x3dh \in KeyPair /\ m.tagged
  BY SentType DEF Establishes
<1>2. Peer(m.from) = p
  BY <1>1, PeerOfPeer
<1>3. SignedPreKey(p) \in KeyPair /\ Offer(m) \in SUBSET KeyPair
  <2>1. SignedPreKey(p) \in KeyPair
    BY KeyTypes
  <2> QED
    BY <1>1, <1>2, <2>1, KdfTypes DEF Offer, X3DHSecret
<1>4. m.key = FirstChainKey(KdfRootKey([secret |-> Offer(m), path |-> <<>>],
                                       DH(SignedPreKey(p), m.dh)))
  BY <1>2 DEF Establishes
<1>5. RespondedSession(p, m.x3dh) = InitReceiver(Offer(m), SignedPreKey(p))
  BY <1>2 DEF RespondedSession, Offer
<1> QED
  BY <1>1, <1>3, <1>4, <1>5, FirstMessageOpens

(* Every secret an opening offers is known, and nobody else's opening       *)
(* offers it.                                                               *)
LEMMA OfferToReader ==
    ASSUME ForgetInv, NEW p \in Party, NEW m \in Openings, m \notin plain[p]
    PROVE  /\ m.from # p /\ m \in sent /\ m.x3dh \in KeyPair /\ Establishes(m)
           /\ Offer(m) \in SUBSET KeyPair
           /\ X3DHSecret(m.x3dh, SignedPreKey(p)) = Offer(m)
           /\ \A k \in Offer(m) : KnownIn(gen, k)
           /\ \A o \in Openings : o.from # p /\ Offer(m) = Offer(o) => o = m
<1>1. TypeOK /\ OpeningsInv /\ \A q \in Party : 0 < gen[q]
  BY DEF ForgetInv
<1>2. \A o \in Openings : o \in sent /\ o.x3dh \in KeyPair /\ o.from \in Party
  BY <1>1, SentType DEF Openings
<1>3. m.from # p /\ Establishes(m) /\ KnownIn(gen, m.x3dh)
  BY <1>1 DEF OpeningsInv
<1>4. \A o \in Openings : o.from # p => Offer(o) = {o.x3dh, SignedPreKey(p)}
                                         /\ o.x3dh # SignedPreKey(p)
  <2> SUFFICES ASSUME NEW o \in Openings, o.from # p
               PROVE  Offer(o) = {o.x3dh, SignedPreKey(p)} /\ o.x3dh # SignedPreKey(p)
    OBVIOUS
  <2>1. Peer(o.from) = p
    BY <1>2, PeerOfPeer
  <2>2. o.x3dh[1] = o.from
    BY <1>1 DEF OpeningsInv, Establishes
  <2>3. o.x3dh # SignedPreKey(p)
    BY <2>2 DEF SignedPreKey
  <2> QED
    BY <2>1, <2>3 DEF Offer, X3DHSecret, DH
<1>5. SignedPreKey(p) \in KeyPair /\ KnownIn(gen, SignedPreKey(p))
  BY <1>1, KeyTypes DEF KnownIn, SignedPreKey
<1>6. Offer(m) = {m.x3dh, SignedPreKey(p)} /\ m.x3dh # SignedPreKey(p)
  BY <1>3, <1>4
<1>7. X3DHSecret(m.x3dh, SignedPreKey(p)) = Offer(m)
  BY <1>6 DEF X3DHSecret, DH
<1>8. ASSUME NEW o \in Openings, o.from # p, Offer(m) = Offer(o) PROVE o = m
  <2>1. {o.x3dh, SignedPreKey(p)} = {m.x3dh, SignedPreKey(p)} /\ o.x3dh # SignedPreKey(p)
    BY <1>4, <1>6, <1>8
  <2>2. o.x3dh = m.x3dh
    BY <2>1
  <2> QED
    BY <1>1, <2>2 DEF OpeningsInv
<1> QED
  BY <1>2, <1>3, <1>5, <1>6, <1>7, <1>8

(* The session made from an unread opening: what p handled is none of its. *)
LEMMA ReaderForgets ==
    ASSUME ForgetInv, NEW p \in Party, NEW m \in Openings, m \notin plain[p]
    PROVE  /\ RespondedSession(p, m.x3dh) \in RatchetState
           /\ Tidy(RespondedSession(p, m.x3dh))
           /\ RespondedSession(p, m.x3dh).rk.secret = Offer(m)
           /\ \A n \in Handled(p) : Forgotten(RespondedSession(p, m.x3dh), n.key)
<1>1. TypeOK /\ PartyForgets(p)
  BY DEF ForgetInv
<1> DEFINE base == RespondedSession(p, m.x3dh)
<1>2. m.from # p /\ m.x3dh \in KeyPair /\ X3DHSecret(m.x3dh, SignedPreKey(p)) = Offer(m)
  BY OfferToReader
<1>3. base \in RatchetState /\ Tidy(base) /\ base.rk.secret = Offer(m)
  BY <1>1, <1>2, RespondedSessionType, RespondedTidy
<1> HIDE DEF base
<1>4. ASSUME NEW n \in Handled(p) PROVE Forgotten(base, n.key)
  <2>1. n.key \in ChainKey
    BY <1>1, HandledType
  <2>2. Settled(p, n.key.root.secret)
    BY <1>1 DEF PartyForgets
  <2>3. n.key.root.secret # Offer(m)
    BY <1>2, <2>2 DEF Settled
  <2> QED
    BY <1>3, <2>1, <2>3, StrangersAreForgotten
<1> QED
  BY <1>3, <1>4 DEF base

-----------------------------------------------------------------------------
(* Sending preserves the invariant. *)

LEMMA PostHandled ==
    ASSUME TypeOK, NEW p \in Party, NEW kind, NEW outcome, NEW m, m.from = p,
           Post(p, kind, outcome, m)
    PROVE  /\ sent' = sent \/ sent' = sent \cup {m}
           /\ \A q \in Party : plain[q] \subseteq plain'[q]
           /\ Handled(p)' \subseteq Handled(p) \cup {m}
           /\ \A q \in Party : q # p => Handled(q)' = Handled(q)
<1>1. sent' = sent \/ sent' = sent \cup {m}
  BY DEF Post
<1>2. plain' = plain \/ plain' = [plain EXCEPT ![p] = @ \cup {m}]
  BY DEF Post
<1>3. /\ \A q \in Party : plain[q] \subseteq plain'[q]
      /\ plain'[p] \subseteq plain[p] \cup {m}
      /\ \A q \in Party : q # p => plain'[q] = plain[q]
  BY <1>2 DEF TypeOK
<1>4. \A q \in Party : q # p => {n \in sent' : n.from = q} = {n \in sent : n.from = q}
  BY <1>1
<1> QED
  BY <1>1, <1>3, <1>4 DEF Handled

(* A message is encrypted under st, and the session past it is stored. *)
LEMMA SendForgets ==
    ASSUME ForgetInv, TypeOK', NEW p \in Party, NEW st \in RatchetState, CanEncrypt(st),
           Tidy(st), SaveSession(p, AfterEncrypt(st)),
           NEW kind, NEW outcome, NEW m, m.from = p, m.key = st.cks, Post(p, kind, outcome, m),
           \A q \in Party : gen[q] <= gen'[q],
           Settled(p, st.rk.secret)',
           \A n \in Handled(p) : Forgotten(st, n.key),
           \A o \in Openings' : o \in Openings \/ (o.from = p /\ ~KnownIn(gen, o.x3dh))
    PROVE  \A q \in Party : PartyForgets(q)'
<1>1. TypeOK /\ PartyForgets(p)
  BY DEF ForgetInv
<1>2. /\ \A q \in Party : plain[q] \subseteq plain'[q]
      /\ Handled(p)' \subseteq Handled(p) \cup {m}
      /\ \A q \in Party : q # p => Handled(q)' = Handled(q)
  BY <1>1, PostHandled
<1>3. ASSUME NEW q \in Party, q # p PROVE PartyForgets(q)'
  <2>1. disk'[q] = disk[q] /\ cache'[q] = cache[q]
    BY <1>1, <1>3 DEF SaveSession, TypeOK
  <2> QED
    BY <1>2, <1>3, <2>1, PartyKept
<1>4. PartyForgets(p)'
  <2>1. PICK r \in RatchetState : r = AfterEncrypt(st)
    BY AfterEncryptType
  <2>2. disk'[p] = r /\ cache'[p] = r
    BY <1>1, <2>1 DEF SaveSession, TypeOK
  <2>3. Forgets(st, r) /\ Forgotten(r, st.cks)
    BY <2>1, EncryptForgets
  <2>4. Tidy(r) /\ r.rk.secret = st.rk.secret
    BY <2>3 DEF Forgets
  <2>5. ASSUME NEW n \in Handled(p)'
        PROVE  Forgotten(r, n.key) /\ Settled(p, n.key.root.secret)'
    <3>1. CASE n \in Handled(p)
      <4>1. Forgotten(st, n.key) /\ n.key \in ChainKey
        BY <1>1, <3>1, HandledType
      <4>2. PICK secret \in SUBSET KeyPair : secret = n.key.root.secret
        BY <1>1, <3>1, HandledType
      <4>3. Settled(p, secret)
        BY <1>1, <3>1, <4>2 DEF PartyForgets
      <4>4. Settled(p, secret)'
        BY <1>1, <1>2, <4>3, SettledLater
      <4> QED
        BY <2>3, <4>1, <4>2, <4>4 DEF Forgets
    <3>2. CASE n = m
      <4>1. n.key.root.secret = st.rk.secret
        BY <3>2 DEF Tidy, CanEncrypt
      <4> QED
        BY <2>3, <3>2, <4>1
    <3> QED
      BY <1>2, <3>1, <3>2
  <2>6. Settled(p, r.rk.secret)'
    BY <2>4
  <2> QED
    BY <2>2, <2>4, <2>5, <2>6, PartyStores
<1> QED
  BY <1>3, <1>4

LEMMA SendInSessionForgets ==
    ASSUME ForgetInv, TypeOK', NEW p \in Party, NEW kind \in Kind, NEW outcome \in Outcome,
           SendInSession(p, kind, outcome)
    PROVE  ForgetInv'
<1>1. TypeOK /\ PartyForgets(p) /\ gen' = gen
  BY DEF ForgetInv, SendInSession
<1>2. \A q \in Party : gen[q] <= gen'[q] /\ 0 < gen'[q]
  BY <1>1 DEF ForgetInv, TypeOK
<1>3. PICK st \in RatchetState : st = Stored(p) /\ st \in Stores(p)
  BY <1>1, StoresType DEF SendInSession
<1> DEFINE m == NewMessage(p, kind, st, None)
<1>4. m.from = p /\ m.key = st.cks /\ m.x3dh = None
  BY DEF NewMessage
<1>5. Post(p, kind, outcome, m) /\ CanEncrypt(st) /\ SaveSession(p, AfterEncrypt(st))
  BY <1>3 DEF SendInSession
<1> HIDE DEF m
<1>6. Openings' = Openings
  <2>1. sent' = sent \/ sent' = sent \cup {m}
    BY <1>5 DEF Post
  <2> QED
    BY <1>4, <2>1 DEF Openings
<1>7. \A q \in Party : plain[q] \subseteq plain'[q]
  BY <1>1, <1>4, <1>5, PostHandled
<1>8. Tidy(st) /\ \A n \in Handled(p) : Forgotten(st, n.key)
  BY <1>1, <1>3 DEF PartyForgets
<1>9. Settled(p, st.rk.secret)'
  <2>1. PICK secret \in SUBSET KeyPair : secret = st.rk.secret
    BY StoredSecret
  <2>2. Settled(p, secret)
    BY <1>1, <1>3, <2>1 DEF PartyForgets
  <2>3. Settled(p, secret)'
    BY <1>1, <1>2, <1>6, <1>7, <2>2, SettledLater
  <2> QED
    BY <2>1, <2>3
<1>10. \A q \in Party : PartyForgets(q)'
  BY <1>2, <1>4, <1>5, <1>6, <1>8, <1>9, SendForgets
<1>11. OpeningsInv'
  BY <1>2, <1>6, <1>7, OpeningsKept
<1> QED
  BY <1>2, <1>10, <1>11 DEF ForgetInv

LEMMA SendFirstForgets ==
    ASSUME HeadersAreKept, ForgetInv, TypeOK', NEW p \in Party, NEW kind \in Kind,
           NEW outcome \in Outcome, SendFirst(p, kind, outcome)
    PROVE  ForgetInv'
<1>1. /\ TypeOK /\ PartyForgets(p) /\ OpeningsInv /\ gen \in [Party -> Nat]
      /\ \A q \in Party : 0 < gen[q]
  BY DEF ForgetInv, TypeOK
<1>2. gen'[p] = gen[p] + 2 /\ gen' \in [Party -> Nat] /\ \A q \in Party : gen[q] <= gen'[q]
  BY <1>1 DEF SendFirst, TypeOK
<1>3. \A q \in Party : 0 < gen'[q]
  BY <1>1, <1>2
<1>4. PICK st \in RatchetState : st = InitiatedSession(p)
  BY <1>1, InitiatedSessionType
<1>5. PICK responder \in Party : responder = Peer(p) /\ responder # p
  BY PeerDiffers
<1>6. PICK eph, own, spk \in KeyPair :
        eph = NewKey(p, 0) /\ own = NewKey(p, 1) /\ spk = SignedPreKey(responder)
  BY <1>1, KeyTypes
<1>7. /\ eph[1] = p /\ ~KnownIn(gen, eph) /\ KnownIn(gen', eph) /\ KnownIn(gen', spk)
      /\ eph # SignedPreKey(p)
  BY <1>1, <1>2, <1>3, <1>5, <1>6 DEF NewKey, KnownIn, SignedPreKey
<1>8. /\ Tidy(st) /\ st.cks # None /\ st.rk.secret = {eph, spk} /\ st.ns = 0 /\ st.dhs = own
      /\ st.cks = FirstChainKey(KdfRootKey([secret |-> {eph, spk}, path |-> <<>>], {own, spk}))
  <2>1. {eph, spk} = X3DHSecret(NewKey(p, 0), SignedPreKey(Peer(p)))
    BY <1>5, <1>6 DEF X3DHSecret, DH
  <2>2. {own, spk} = DH(NewKey(p, 1), SignedPreKey(Peer(p)))
    BY <1>5, <1>6 DEF DH
  <2> QED
    BY <1>1, <1>4, <1>6, <2>1, <2>2, InitiatedTidy, InitiatedSessionChain
<1>9. PICK m : m = NewMessage(p, kind, st, eph)
  OBVIOUS
<1>10. /\ m.from = p /\ m.key = st.cks /\ m.dh = own /\ m.n = 0
       /\ m.tagged = ("tag" \in Form[kind])
       /\ m.x3dh = IF "x3dh" \in Form[kind] THEN eph ELSE None
  BY <1>8, <1>9 DEF NewMessage, Header
<1>11. /\ Post(p, kind, outcome, m) /\ CanEncrypt(st) /\ SaveSession(p, AfterEncrypt(st))
       /\ Stored(p) = None
  BY <1>4, <1>6, <1>8, <1>9 DEF SendFirst, CanEncrypt
<1>12. /\ sent' = sent \/ sent' = sent \cup {m}
       /\ \A q \in Party : plain[q] \subseteq plain'[q]
  BY <1>1, <1>10, <1>11, PostHandled
<1>13. Handled(p) = {}
  BY <1>1, <1>11 DEF Stored, PartyForgets
<1>14. /\ Openings \subseteq Openings' /\ Openings' \subseteq Openings \cup {m}
       /\ m \in Openings' => m \in sent' /\ m.x3dh = eph /\ "x3dh" \in Form[kind]
  BY <1>10, <1>12 DEF Openings
<1>15. \A o \in Openings' : o \in Openings \/ (o.from = p /\ ~KnownIn(gen, o.x3dh))
  BY <1>7, <1>10, <1>14
<1>16. \A o \in Openings : /\ o \in sent /\ o.from \in Party /\ o.x3dh \in KeyPair
                           /\ o \in plain[o.from] /\ Establishes(o) /\ KnownIn(gen, o.x3dh)
  BY <1>1, SentType DEF Openings, OpeningsInv
<1>17. Settled(p, {eph, spk})'
  <2>1. \A k \in {eph, spk} : KnownIn(gen', k)
    BY <1>7
  <2>2. ASSUME NEW o \in Openings', o.from # p, {eph, spk} = Offer(o) PROVE FALSE
    <3>1. o \in Openings
      BY <1>15, <2>2
    <3>2. Peer(o.from) = p
      BY <1>16, <2>2, <3>1, PeerOfPeer
    <3>3. Offer(o) = {o.x3dh, SignedPreKey(p)}
      BY <3>2 DEF Offer, X3DHSecret, DH
    <3>4. o.x3dh = eph
      BY <1>7, <2>2, <3>3
    <3> QED
      BY <1>7, <1>16, <3>1, <3>4
  <2> QED
    BY <2>1, <2>2 DEF Settled
<1>18. \A q \in Party : PartyForgets(q)'
  <2>1. Settled(p, st.rk.secret)'
    BY <1>8, <1>17
  <2>2. \A n \in Handled(p) : Forgotten(st, n.key)
    BY <1>13
  <2> QED
    BY <1>2, <1>8, <1>10, <1>11, <1>15, <2>1, <2>2, SendForgets
<1>19. ASSUME m \in Openings'
       PROVE  m \in plain'[m.from] /\ Establishes(m) /\ KnownIn(gen', m.x3dh)
  <2>1. "tag" \in Form[kind] /\ "kept" \in Form[kind]
    BY <1>14, <1>19 DEF HeadersAreKept
  <2>2. m \in plain'[p]
    <3>1. CASE m \in sent
      <4>1. m \in Openings
        BY <1>14, <1>19, <3>1, NoneAssumption DEF Openings
      <4> QED
        BY <1>7, <1>10, <1>14, <1>16, <1>19, <4>1
    <3>2. CASE m \notin sent
      <4>1. outcome # "requestFails"
        BY <1>11, <1>14, <1>19, <3>2 DEF Post
      <4>2. outcome # "replyLost" /\ outcome \in Outcomes
        BY SessionAssumption DEF HeadersAreKept
      <4>3. outcome = "acknowledged"
        BY <4>1, <4>2 DEF Outcomes
      <4>4. plain' = [plain EXCEPT ![p] = @ \cup {m}]
        BY <1>11, <2>1, <4>3 DEF Post
      <4> QED
        BY <1>1, <4>4 DEF TypeOK
    <3> QED
      BY <3>1, <3>2
  <2>3. Establishes(m)
    <3>1. m.tagged /\ m.n = 0 /\ m.x3dh = eph
      BY <1>10, <1>14, <1>19, <2>1
    <3>2. Offer(m) = {eph, spk} /\ DH(SignedPreKey(Peer(m.from)), m.dh) = {own, spk}
      BY <1>5, <1>6, <1>10, <3>1 DEF Offer, X3DHSecret, DH
    <3> QED
      BY <1>7, <1>8, <1>10, <3>1, <3>2 DEF Establishes
  <2> QED
    BY <1>7, <1>10, <1>14, <1>19, <2>2, <2>3
<1>20. OpeningsInv'
  <2>1. \A o \in Openings' : o \in plain'[o.from] /\ Establishes(o) /\ KnownIn(gen', o.x3dh)
    BY <1>1, <1>2, <1>12, <1>14, <1>16, <1>19, KnownLater
  <2>2. \A m1, m2 \in Openings' : m1.x3dh = m2.x3dh => m1 = m2
    <3>1. \A o \in Openings : o.x3dh # eph
      BY <1>7, <1>16
    <3>2. m \in Openings' => m.x3dh = eph
      BY <1>14
    <3>3. \A m1, m2 \in Openings : m1.x3dh = m2.x3dh => m1 = m2
      BY <1>1 DEF OpeningsInv
    <3> QED
      BY <1>14, <3>1, <3>2, <3>3
  <2> QED
    BY <2>1, <2>2 DEF OpeningsInv
<1> QED
  BY <1>3, <1>18, <1>20 DEF ForgetInv

-----------------------------------------------------------------------------
(* Opening preserves the invariant. *)

LEMMA StoredAdmissible ==
    ASSUME ForgetInv, NEW p \in Party, NEW m, Stored(p) # None
    PROVE  Admissible(p, m, Stored(p))
<1>1. TypeOK /\ PartyForgets(p)
  BY DEF ForgetInv
<1>2. PICK st \in RatchetState : st = Stored(p) /\ st \in Stores(p)
  BY <1>1, StoresType
<1>3. Tidy(st) /\ Settled(p, st.rk.secret) /\ \A n \in Handled(p) : Forgotten(st, n.key)
  BY <1>1, <1>2 DEF PartyForgets
<1>4. st.rk.secret \in SUBSET KeyPair
  BY StoredSecret
<1> QED
  BY <1>2, <1>3, <1>4 DEF Admissible, Settled

LEMMA RespondedAdmissible ==
    ASSUME ForgetInv, NEW p \in Party, NEW m \in sent, m.x3dh # None, m \notin plain[p]
    PROVE  Admissible(p, m, RespondedSession(p, m.x3dh))
<1>1. m \in Openings
  BY DEF Openings
<1>2. PICK base : base = RespondedSession(p, m.x3dh)
  OBVIOUS
<1>3. /\ base \in RatchetState /\ Tidy(base) /\ base.rk.secret = Offer(m)
      /\ \A n \in Handled(p) : Forgotten(base, n.key)
  BY <1>1, <1>2, ReaderForgets
<1>4. /\ Offer(m) \in SUBSET KeyPair
      /\ \A k \in Offer(m) : KnownIn(gen, k)
      /\ \A o \in Openings : o.from # p /\ Offer(m) = Offer(o) => o = m
  BY <1>1, OfferToReader
<1> QED
  BY <1>2, <1>3, <1>4 DEF Admissible

(* Once the message is read, the session the call leaves is one to store. *)
LEMMA OpenedForgets ==
    ASSUME ForgetInv, TypeOK', NEW p \in Party, NEW m \in sent, NEW base, NEW fresh \in KeyPair,
           Admissible(p, m, base), NEW r, r = RatchetDecrypt(base, m, fresh), r.ok,
           SaveSession(p, r.st), sent' = sent, plain' = [plain EXCEPT ![p] = @ \cup {m}],
           \A q \in Party : gen[q] <= gen'[q]
    PROVE  OpeningsInv' /\ \A q \in Party : PartyForgets(q)'
<1>1. TypeOK /\ PartyForgets(p) /\ gen' \in [Party -> Nat]
  BY DEF ForgetInv, TypeOK
<1>2. /\ plain'[p] = plain[p] \cup {m} /\ \A q \in Party : q # p => plain'[q] = plain[q]
      /\ \A q \in Party : plain[q] \subseteq plain'[q]
  BY <1>1 DEF TypeOK
<1>3. /\ Openings' = Openings /\ Handled(p)' = Handled(p) \cup {m}
      /\ \A q \in Party : q # p => Handled(q)' = Handled(q)
  BY <1>2 DEF Openings, Handled
<1>4. OpeningsInv'
  BY <1>2, <1>3, OpeningsKept
<1>5. ASSUME NEW q \in Party, q # p PROVE PartyForgets(q)'
  <2>1. disk'[q] = disk[q] /\ cache'[q] = cache[q]
    BY <1>1, <1>5 DEF SaveSession, TypeOK
  <2> QED
    BY <1>2, <1>3, <1>5, <2>1, PartyKept
<1>6. base \in RatchetState /\ Tidy(base) /\ base.rk.secret \in SUBSET KeyPair
  BY DEF Admissible
<1>7. m.dh \in KeyPair /\ m.pn \in Nat /\ m.n \in Nat /\ m.key \in ChainKey
  BY <1>1, SentType
<1>8. PICK st \in RatchetState : st = r.st
  BY <1>6, <1>7, RatchetDecryptType
<1>9. Forgets(base, st) /\ m.key.root.secret = base.rk.secret /\ Forgotten(st, m.key)
  BY <1>6, <1>7, <1>8, RatchetDecryptForgets
<1>10. Tidy(st) /\ st.rk.secret = base.rk.secret
  BY <1>9 DEF Forgets
<1>11. disk'[p] = st /\ cache'[p] = st
  BY <1>1, <1>8 DEF SaveSession, TypeOK
<1>12. PICK secret \in SUBSET KeyPair : secret = base.rk.secret
  BY <1>6
<1>13. Settled(p, secret)'
  <2>1. \A k \in secret : KnownIn(gen', k)
    BY <1>1, <1>12, KnownLater DEF Admissible
  <2>2. \A o \in Openings' : o.from # p /\ secret = Offer(o) => o \in plain'[p]
    BY <1>2, <1>3, <1>12 DEF Admissible
  <2> QED
    BY <2>1, <2>2 DEF Settled
<1>14. ASSUME NEW n \in Handled(p)'
       PROVE  Forgotten(st, n.key) /\ Settled(p, n.key.root.secret)'
  <2>1. CASE n \in Handled(p)
    <3>1. Forgotten(base, n.key) /\ n.key \in ChainKey
      BY <1>1, <2>1, HandledType DEF Admissible
    <3>2. PICK other \in SUBSET KeyPair : other = n.key.root.secret
      BY <1>1, <2>1, HandledType
    <3>3. Settled(p, other)
      BY <1>1, <2>1, <3>2 DEF PartyForgets
    <3>4. Settled(p, other)'
      BY <1>1, <1>2, <1>3, <3>3, SettledLater
    <3> QED
      BY <1>9, <3>1, <3>2, <3>4 DEF Forgets
  <2>2. CASE n = m
    BY <1>9, <1>12, <1>13, <2>2
  <2> QED
    BY <1>3, <2>1, <2>2
<1>15. Settled(p, st.rk.secret)'
  BY <1>10, <1>12, <1>13
<1>16. PartyForgets(p)'
  BY <1>10, <1>11, <1>14, <1>15, PartyStores
<1> QED
  BY <1>4, <1>5, <1>16

(* A call that throws changes the session in memory, and that one forgets   *)
(* what the stored one had.                                                 *)
LEMMA FailedForgets ==
    ASSUME ForgetInv, TypeOK', NEW p \in Party, NEW m \in sent, NEW fresh \in KeyPair,
           cache[p] # None, NEW r, r = RatchetDecrypt(cache[p], m, fresh),
           cache' = [cache EXCEPT ![p] = r.st], disk' = disk, sent' = sent, plain' = plain,
           \A q \in Party : gen[q] <= gen'[q]
    PROVE  OpeningsInv' /\ \A q \in Party : PartyForgets(q)'
<1>1. TypeOK /\ PartyForgets(p)
  BY DEF ForgetInv
<1>2. Openings' = Openings /\ \A q \in Party : Handled(q)' = Handled(q)
  BY DEF Openings, Handled
<1>3. OpeningsInv'
  BY <1>2, OpeningsKept
<1>4. ASSUME NEW q \in Party, q # p PROVE PartyForgets(q)'
  <2>1. disk'[q] = disk[q] /\ cache'[q] = cache[q]
    BY <1>1, <1>4 DEF TypeOK
  <2> QED
    BY <1>2, <1>4, <2>1, PartyKept
<1>5. PICK base \in RatchetState : base = cache[p] /\ base \in Stores(p)
  BY <1>1, StoresType DEF Stored
<1>6. Tidy(base) /\ Settled(p, base.rk.secret) /\ \A n \in Handled(p) : Forgotten(base, n.key)
  BY <1>1, <1>5 DEF PartyForgets
<1>7. m.dh \in KeyPair /\ m.pn \in Nat /\ m.n \in Nat /\ m.key \in ChainKey
  BY <1>1, SentType
<1>8. PICK st \in RatchetState : st = r.st
  BY <1>5, <1>7, RatchetDecryptType
<1>9. Forgets(base, st)
  BY <1>5, <1>6, <1>7, <1>8, RatchetDecryptForgets
<1>10. Stores(p)' \subseteq Stores(p) \cup {st} /\ disk'[p] = disk[p]
  BY <1>1, <1>8 DEF Stores, TypeOK
<1>11. ASSUME NEW secret \in SUBSET KeyPair, Settled(p, secret) PROVE Settled(p, secret)'
  BY <1>1, <1>2, <1>11, SettledLater
<1>12. ASSUME NEW other \in Stores(p)'
       PROVE  /\ Tidy(other) /\ Settled(p, other.rk.secret)'
              /\ \A n \in Handled(p)' : Forgotten(other, n.key)
  <2>1. CASE other \in Stores(p)
    <3>1. PICK secret \in SUBSET KeyPair : secret = other.rk.secret
      BY <1>1, <2>1, StoresType, StoredSecret
    <3>2. Settled(p, secret)
      BY <1>1, <2>1, <3>1 DEF PartyForgets
    <3>3. Settled(p, secret)'
      BY <1>11, <3>2
    <3> QED
      BY <1>1, <1>2, <2>1, <3>1, <3>3 DEF PartyForgets
  <2>2. CASE other = st
    <3>1. Tidy(st) /\ st.rk.secret = base.rk.secret
      BY <1>9 DEF Forgets
    <3>2. \A n \in Handled(p)' : Forgotten(st, n.key)
      BY <1>1, <1>2, <1>6, <1>9, HandledType DEF Forgets
    <3>3. PICK secret \in SUBSET KeyPair : secret = base.rk.secret
      BY StoredSecret
    <3>4. Settled(p, secret)'
      BY <1>6, <1>11, <3>3
    <3> QED
      BY <2>2, <3>1, <3>2, <3>3, <3>4
  <2> QED
    BY <1>10, <2>1, <2>2
<1>13. ASSUME NEW n \in Handled(p)' PROVE Settled(p, n.key.root.secret)'
  <2>1. PICK secret \in SUBSET KeyPair : secret = n.key.root.secret
    BY <1>1, <1>2, HandledType
  <2>2. Settled(p, secret)
    BY <1>1, <1>2, <2>1 DEF PartyForgets
  <2>3. Settled(p, secret)'
    BY <1>11, <2>2
  <2> QED
    BY <2>1, <2>3
<1>14. disk'[p] = None => cache'[p] = None /\ Handled(p)' = {}
  BY <1>1, <1>10 DEF PartyForgets
<1>15. PartyForgets(p)'
  BY <1>12, <1>13, <1>14 DEF PartyForgets
<1> QED
  BY <1>3, <1>4, <1>15

(* The key pairs generated so far only grow. *)
LEMMA GenGrows ==
    ASSUME TypeOK, NEW p \in Party, NEW i \in Nat, gen' = [gen EXCEPT ![p] = @ + i]
    PROVE  \A q \in Party : gen[q] <= gen'[q]
BY DEF TypeOK

LEMMA DecryptSucceedsForgets ==
    ASSUME ForgetInv, TypeOK', NEW p \in Party, NEW m \in sent, m \notin plain[p],
           DecryptSucceeds(p, m), sent' = sent, plain' = [plain EXCEPT ![p] = @ \cup {m}]
    PROVE  ForgetInv'
<1>1. TypeOK /\ NewKey(p, 0) \in KeyPair /\ NewKey(p, 1) \in KeyPair
  BY KeyTypes DEF ForgetInv
<1>2. ASSUME NEW base, NEW fresh \in KeyPair, NEW i \in Nat, NEW r, r = RatchetDecrypt(base, m, fresh),
             Admissible(p, m, base), r.ok, SaveSession(p, r.st),
             gen' = [gen EXCEPT ![p] = @ + i]
      PROVE  ForgetInv'
  <2>1. \A q \in Party : gen[q] <= gen'[q]
    BY <1>1, <1>2, GenGrows
  <2>2. \A q \in Party : 0 < gen'[q]
    BY <1>1, <2>1 DEF ForgetInv, TypeOK
  <2>3. OpeningsInv' /\ \A q \in Party : PartyForgets(q)'
    BY <1>2, <2>1, OpenedForgets
  <2> QED
    BY <2>2, <2>3 DEF ForgetInv
<1>3. CASE DecryptOpens(p, m)
  <2>1. PICK base : base = IF Stored(p) # None THEN Stored(p) ELSE RespondedSession(p, m.x3dh)
    OBVIOUS
  <2>2. PICK r : r = Attempt(p, m)
    OBVIOUS
  <2>3. Admissible(p, m, base)
    BY <1>3, <2>1, StoredAdmissible, RespondedAdmissible DEF DecryptOpens, CanStart
  <2>4. r = RatchetDecrypt(base, m, NewKey(p, 0))
    BY <2>1, <2>2 DEF Attempt
  <2>5. PICK i \in Nat : i = Generated(p, m)
    BY DEF Generated
  <2>6. r.ok /\ SaveSession(p, r.st) /\ gen' = [gen EXCEPT ![p] = @ + i]
    BY <1>3, <2>2, <2>5 DEF DecryptOpens
  <2> QED
    BY <1>1, <1>2, <2>3, <2>4, <2>6
<1>4. CASE RebuildOpens(p, m)
  <2>1. PICK base : base = RespondedSession(p, m.x3dh)
    OBVIOUS
  <2>2. PICK r : r = Rebuilt(p, m)
    OBVIOUS
  <2>3. Admissible(p, m, base)
    BY <1>4, <2>1, RespondedAdmissible DEF RebuildOpens
  <2>4. r = RatchetDecrypt(base, m, NewKey(p, 1))
    BY <2>1, <2>2 DEF Rebuilt
  <2>5. r.ok /\ SaveSession(p, r.st) /\ gen' = [gen EXCEPT ![p] = @ + 2]
    BY <1>4, <2>2 DEF RebuildOpens
  <2> QED
    BY <1>1, <1>2, <2>3, <2>4, <2>5
<1> QED
  BY <1>3, <1>4 DEF DecryptSucceeds

(* What changes nothing a party holds. *)
LEMMA ForgetUnchanged ==
    ASSUME ForgetInv, TypeOK', disk' = disk, gen' = gen, sent' = sent, plain' = plain,
           \A q \in Party : cache'[q] \in {cache[q], None}
    PROVE  ForgetInv'
<1>1. Openings' = Openings /\ \A q \in Party : Handled(q)' = Handled(q)
  BY DEF Openings, Handled
<1>2. \A q \in Party : gen[q] <= gen'[q] /\ 0 < gen'[q]
  BY DEF ForgetInv, TypeOK
<1>3. OpeningsInv' /\ \A q \in Party : PartyForgets(q)'
  BY <1>1, <1>2, OpeningsKept, PartyKept
<1> QED
  BY <1>2, <1>3 DEF ForgetInv

LEMMA DecryptThrowsForgets ==
    ASSUME ForgetInv, TypeOK', NEW p \in Party, NEW m \in sent, m \notin plain[p],
           DecryptThrows(p, m), sent' = sent, plain' = plain
    PROVE  ForgetInv'
<1>1. TypeOK /\ NewKey(p, 0) \in KeyPair /\ NewKey(p, 1) \in KeyPair
  BY KeyTypes DEF ForgetInv
<1>2. CASE DecryptFails(p, m)
  <2>1. PICK r : r = Attempt(p, m)
    OBVIOUS
  <2>2. PICK i \in Nat : i = Generated(p, m)
    BY DEF Generated
  <2>3. /\ cache[p] # None /\ r = RatchetDecrypt(cache[p], m, NewKey(p, 0))
        /\ cache' = [cache EXCEPT ![p] = r.st] /\ disk' = disk
        /\ gen' = [gen EXCEPT ![p] = @ + i]
    BY <1>2, <2>1, <2>2 DEF DecryptFails, Attempt, Stored
  <2>4. \A q \in Party : gen[q] <= gen'[q]
    BY <1>1, <2>3, GenGrows
  <2>5. \A q \in Party : 0 < gen'[q]
    BY <1>1, <2>4 DEF ForgetInv, TypeOK
  <2>6. OpeningsInv' /\ \A q \in Party : PartyForgets(q)'
    BY <1>1, <2>3, <2>4, FailedForgets
  <2> QED
    BY <2>5, <2>6 DEF ForgetInv
<1>3. ~RebuildFails(p, m)
  <2> SUFFICES ASSUME RebuildFails(p, m) PROVE FALSE
    OBVIOUS
  <2>1. m.x3dh # None /\ ~Rebuilt(p, m).ok
    BY DEF RebuildFails
  <2>2. m \in Openings
    BY <2>1 DEF Openings
  <2>3. m.from # p /\ Establishes(m)
    BY <2>2, OfferToReader
  <2> QED
    BY <1>1, <2>1, <2>3, OpeningOpens DEF Rebuilt
<1>4. CASE FailsUntraced(p, m)
  <2>1. cache' = cache /\ disk' = disk /\ gen' = gen
    BY <1>4 DEF FailsUntraced, session
  <2> QED
    BY <2>1, ForgetUnchanged
<1> QED
  BY <1>2, <1>3, <1>4 DEF DecryptThrows

LEMMA ForgetInit == Init => ForgetInv
<1> SUFFICES ASSUME Init PROVE ForgetInv
  OBVIOUS
<1>1. TypeOK
  BY TypeInit
<1>2. /\ sent = {} /\ Openings = {}
      /\ \A p \in Party : gen[p] = 1 /\ Stores(p) = {} /\ Handled(p) = {} /\ cache[p] = None
  BY DEF Init, Openings, Stores, Handled
<1>3. OpeningsInv /\ \A p \in Party : PartyForgets(p)
  BY <1>2 DEF OpeningsInv, PartyForgets
<1> QED
  BY <1>1, <1>2, <1>3 DEF ForgetInv

(* Every step preserves the inductive invariant. *)
LEMMA ForgetNext == HeadersAreKept /\ ForgetInv /\ [Next]_vars => ForgetInv'
<1> SUFFICES ASSUME HeadersAreKept, ForgetInv, [Next]_vars PROVE ForgetInv'
  OBVIOUS
<1>1. TypeOK /\ TypeOK'
  <2>1. TypeOK
    BY DEF ForgetInv
  <2> QED
    BY <2>1, TypeNext
<1>2. ASSUME NEW p \in Party, NEW kind \in Kind, NEW outcome \in Outcome,
             EncryptMessage(p, kind, outcome)
      PROVE  ForgetInv'
  BY <1>1, <1>2, SendInSessionForgets, SendFirstForgets DEF EncryptMessage
<1>3. ASSUME NEW p \in Party, NEW m \in sent, RenderMessage(p, m) PROVE ForgetInv'
  BY <1>1, <1>3, DecryptSucceedsForgets, DecryptThrowsForgets DEF RenderMessage
<1>4. ASSUME NEW p \in Party, NEW m \in sent, SocketMessage(p, m) PROVE FALSE
  BY <1>4 DEF SocketMessage, HeadersAreKept
<1>5. ASSUME NEW p \in Party, SavePlaintextCache(p) PROVE ForgetInv'
  BY <1>1, <1>5, ForgetUnchanged DEF SavePlaintextCache, session
<1>6. ASSUME NEW p \in Party, Reload(p) PROVE ForgetInv'
  <2>1. plain' = plain
    BY <1>1, <1>6 DEF Reload, HeadersAreKept, TypeOK
  <2>2. \A q \in Party : cache'[q] \in {cache[q], None}
    BY <1>1, <1>6 DEF Reload, TypeOK
  <2> QED
    BY <1>1, <1>6, <2>1, <2>2, ForgetUnchanged DEF Reload
<1>7. CASE UNCHANGED vars
  BY <1>1, <1>7, ForgetUnchanged DEF vars
<1> QED
  BY <1>2, <1>3, <1>4, <1>5, <1>6, <1>7 DEF Next

(* Neither copy of a session yields the key of a message its holder sent or *)
(* has read, in every execution in which headers are kept.                  *)
THEOREM KeysForgottenHolds == HeadersAreKept => (Spec => []KeysForgotten)
<1> SUFFICES ASSUME HeadersAreKept PROVE Spec => []KeysForgotten
  OBVIOUS
<1>1. ForgetInv => KeysForgotten
  BY DEF ForgetInv, PartyForgets, Forgotten, Handled, KeysForgotten
<1>2. ForgetInv /\ [Next]_vars => ForgetInv'
  BY ForgetNext
<1> QED
  BY ForgetInit, <1>1, <1>2, PTL DEF Spec
-----------------------------------------------------------------------------
(* The conversation implements MessageChannel. *)

(* No letter has been written yet. *)
LEMMA LetterInit == Init => LetterInv
BY TypeInit DEF Init, LetterInv

(* A new message takes the next number of its sender. *)
LEMMA PostLetters ==
    ASSUME LetterInv, TypeOK', NEW p \in Party, NEW kind \in Kind, NEW outcome \in Outcome,
           NEW m \in Message, m.from = p, m.seq = encrypted[p] + 1,
           Post(p, kind, outcome, m)
    PROVE  LetterInv'
<1>1. /\ encrypted \in [Party -> Nat] /\ sent \in SUBSET Message
      /\ encrypted' = [encrypted EXCEPT ![p] = @ + 1]
      /\ sent' \subseteq sent \cup {m}
  BY DEF LetterInv, TypeOK, Post
<1>2. \A x \in Message : x.from \in Party /\ x.seq \in Nat
  BY DEF Message
<1>3. \A x \in sent : x.seq <= encrypted[x.from]
  BY DEF LetterInv
<1>4. \A x \in sent' : x.seq <= encrypted'[x.from]
  BY <1>1, <1>2, <1>3
<1>5. \A x \in sent : x.from = p => x.seq # m.seq
  BY <1>1, <1>2, <1>3
<1>6. \A m1, m2 \in sent' : m1.from = m2.from /\ m1.seq = m2.seq => m1 = m2
  BY <1>1, <1>5 DEF LetterInv
<1> QED
  BY <1>4, <1>6 DEF LetterInv

(* The message of either kind of send, its sender and its number. *)
LEMMA SendPosts ==
    ASSUME TypeOK, NEW p \in Party, NEW kind \in Kind, NEW outcome \in Outcome,
           EncryptMessage(p, kind, outcome)
    PROVE  \E m \in Message :
              /\ m.from = p /\ m.seq = encrypted[p] + 1 /\ m.seq \in 1 .. MaxSend
              /\ Post(p, kind, outcome, m)
<1>1. /\ encrypted[p] \in Nat /\ encrypted[Peer(p)] \in Nat /\ MaxSend \in Nat
      /\ encrypted[p] + encrypted[Peer(p)] < MaxSend
  BY PeerType, SessionAssumption DEF TypeOK, EncryptMessage, SendInSession, SendFirst
<1>2. encrypted[p] + 1 \in 1 .. MaxSend
  BY <1>1
<1>3. CASE SendInSession(p, kind, outcome)
  <2>1. Stored(p) \in RatchetState /\ Stored(p).cks # None
    BY <1>3, StoresType DEF SendInSession, CanEncrypt
  <2>2. NewMessage(p, kind, Stored(p), None) \in Message
    BY <2>1, NewMessageType
  <2> QED
    BY <1>2, <1>3, <2>2 DEF SendInSession, NewMessage
<1>4. CASE SendFirst(p, kind, outcome)
  <2>1. InitiatedSession(p) \in RatchetState /\ InitiatedSession(p).cks # None
    BY InitiatedSessionType, InitiatedSessionChain
  <2>2. NewMessage(p, kind, InitiatedSession(p), NewKey(p, 0)) \in Message
    BY <2>1, KeyTypes, NewMessageType
  <2> QED
    BY <1>2, <1>4, <2>2 DEF SendFirst, NewMessage
<1> QED
  BY <1>3, <1>4 DEF EncryptMessage

(* Every step keeps the letters apart. *)
LEMMA LetterNext == LetterInv /\ [Next]_vars => LetterInv'
<1> SUFFICES ASSUME LetterInv, [Next]_vars PROVE LetterInv'
  OBVIOUS
<1>1. TypeOK /\ TypeOK'
  BY TypeNext DEF LetterInv
<1>2. ASSUME NEW p \in Party, NEW kind \in Kind, NEW outcome \in Outcome,
             EncryptMessage(p, kind, outcome)
      PROVE  LetterInv'
  BY <1>1, <1>2, SendPosts, PostLetters
<1>3. ASSUME UNCHANGED <<encrypted, sent>> PROVE LetterInv'
  BY <1>1, <1>3 DEF LetterInv
<1>4. ASSUME NEW p \in Party, NEW m \in sent, RenderMessage(p, m) \/ SocketMessage(p, m)
      PROVE  LetterInv'
  BY <1>3, <1>4 DEF RenderMessage, SocketMessage
<1>5. ASSUME NEW p \in Party, SavePlaintextCache(p) \/ Reload(p) PROVE LetterInv'
  BY <1>3, <1>5 DEF SavePlaintextCache, Reload
<1>6. CASE UNCHANGED vars
  BY <1>3, <1>6 DEF vars
<1> QED
  BY <1>2, <1>4, <1>5, <1>6 DEF Next

(* The channel is empty at first. *)
LEMMA ChannelInit == Init => Channel!Init
BY DEF Init, Channel!Init, Letters

(* A send puts its letter into the channel, unless the request failed. *)
LEMMA PostsLetter ==
    ASSUME LetterInv, NEW p \in Party, NEW kind \in Kind, NEW outcome \in Outcome,
           EncryptMessage(p, kind, outcome)
    PROVE  [Channel!Next]_(Channel!vars)
<1>1. PICK m \in Message :
              /\ m.from = p /\ m.seq = encrypted[p] + 1 /\ m.seq \in 1 .. MaxSend
              /\ Post(p, kind, outcome, m)
  BY SendPosts DEF LetterInv
<1>2. \A q \in Party : {x \in plain'[q] : x.from # q} = {x \in plain[q] : x.from # q}
  BY <1>1 DEF LetterInv, TypeOK, Post
<1>3. [q \in Party |-> Letters({x \in plain'[q] : x.from # q})]
         = [q \in Party |-> Letters({x \in plain[q] : x.from # q})]
  BY <1>2
<1>4. CASE sent' = sent
  BY <1>3, <1>4 DEF Channel!vars, Letters
<1>5. CASE sent' = sent \cup {m}
  <2>1. Letters(sent') = Letters(sent) \cup {[from |-> p, seq |-> m.seq]}
    BY <1>1, <1>5 DEF Letters
  <2>2. \A l \in Letters(sent) : l.from = p => l.seq < m.seq
    <3> SUFFICES ASSUME NEW x \in sent, x.from = p PROVE x.seq < m.seq
      BY DEF Letters
    <3>1. x.seq \in Nat /\ x.seq <= encrypted[p] /\ encrypted[p] \in Nat
      BY DEF LetterInv, TypeOK, Message
    <3> QED
      BY <1>1, <3>1
  <2>3. Channel!Post(p, m.seq)
    BY <1>3, <2>1, <2>2 DEF Channel!Post, Letters
  <2> QED
    BY <1>1, <2>3 DEF Channel!Next
<1> QED
  BY <1>1, <1>4, <1>5 DEF Post

(* Opening a message of the other side reads its letter for the first time. *)
LEMMA ReadsLetter ==
    ASSUME LetterInv, NEW p \in Party, NEW m \in sent, RenderMessage(p, m)
    PROVE  [Channel!Next]_(Channel!vars)
<1>1. sent' = sent /\ plain \in [Party -> SUBSET sent] /\ m \notin plain[p]
  BY DEF RenderMessage, LetterInv, TypeOK
<1>2. CASE plain' = plain
  BY <1>1, <1>2 DEF Channel!vars, Letters
<1>3. CASE plain' = [plain EXCEPT ![p] = @ \cup {m}]
  <2>1. \A q \in Party : q # p => plain'[q] = plain[q]
    BY <1>1, <1>3
  <2>2. plain'[p] = plain[p] \cup {m}
    BY <1>1, <1>3
  <2>3. CASE m.from = p
    <3>1. \A q \in Party : {x \in plain'[q] : x.from # q} = {x \in plain[q] : x.from # q}
      BY <2>1, <2>2, <2>3
    <3> QED
      BY <1>1, <3>1 DEF Channel!vars, Letters
  <2>4. CASE m.from # p
    <3> DEFINE l == [from |-> m.from, seq |-> m.seq]
               before(q) == Letters({x \in plain[q] : x.from # q})
    <3>1. l \in Letters(sent)
      BY DEF Letters
    <3>2. l \notin before(p)
      <4>1. \A x \in plain[p] : x \in sent /\ x # m
        BY <1>1
      <4>2. \A x \in plain[p] : [from |-> x.from, seq |-> x.seq] # l
        BY <4>1 DEF LetterInv
      <4> QED
        BY <4>2 DEF Letters
    <3>3. Letters({x \in plain'[p] : x.from # p}) = before(p) \cup {l}
      <4>1. {x \in plain'[p] : x.from # p} = {x \in plain[p] : x.from # p} \cup {m}
        BY <2>2, <2>4
      <4> QED
        BY <4>1 DEF Letters
    <3>4. \A q \in Party : q # p => Letters({x \in plain'[q] : x.from # q}) = before(q)
      BY <2>1
    <3>5. [q \in Party |-> Letters({x \in plain'[q] : x.from # q})]
             = [[q \in Party |-> before(q)] EXCEPT ![p] = @ \cup {l}]
      <4> HIDE DEF l, before
      <4> QED
        BY <3>3, <3>4
    <3>6. Channel!Read(p, l)
      BY <1>1, <2>4, <3>1, <3>2, <3>5 DEF Channel!Read
    <3> QED
      BY <3>1, <3>6 DEF Channel!Next
  <2> QED
    BY <2>3, <2>4
<1> QED
  BY <1>2, <1>3 DEF RenderMessage

(* The channel does not see the rest, where no reload outruns the timer. *)
LEMMA ChannelNext ==
    LetterInv /\ ~PromptReload /\ [Next]_vars => [Channel!Next]_(Channel!vars)
<1> SUFFICES ASSUME LetterInv, ~PromptReload, [Next]_vars
             PROVE  [Channel!Next]_(Channel!vars)
  OBVIOUS
<1>1. ASSUME UNCHANGED <<sent, plain>> PROVE [Channel!Next]_(Channel!vars)
  BY <1>1 DEF Channel!vars, Letters
<1>2. ASSUME NEW p \in Party, NEW m \in sent, SocketMessage(p, m)
      PROVE  [Channel!Next]_(Channel!vars)
  BY <1>1, <1>2 DEF SocketMessage
<1>3. ASSUME NEW p \in Party, SavePlaintextCache(p) PROVE [Channel!Next]_(Channel!vars)
  BY <1>1, <1>3 DEF SavePlaintextCache
<1>4. ASSUME NEW p \in Party, Reload(p) PROVE [Channel!Next]_(Channel!vars)
  <2>1. plain' = plain
    BY <1>4 DEF Reload, LetterInv, TypeOK
  <2> QED
    BY <1>1, <1>4, <2>1 DEF Reload
<1>5. CASE UNCHANGED vars
  BY <1>1, <1>5 DEF vars
<1> QED
  BY <1>2, <1>3, <1>4, <1>5, PostsLetter, ReadsLetter DEF Next

(* Whatever is sent, lost, opened or rebuilt: a message enters the          *)
(* conversation once, under its sender's next number, and what was read     *)
(* stays read, unless a reload outruns the timer that saves plaintexts.     *)
THEOREM ImplementsChannel == ~PromptReload => (Spec => Channel!Spec)
<1> SUFFICES ASSUME ~PromptReload PROVE Spec => Channel!Spec
  OBVIOUS
<1>1. LetterInv /\ [Next]_vars => LetterInv' /\ [Channel!Next]_(Channel!vars)
  BY LetterNext, ChannelNext
<1> QED
  BY LetterInit, ChannelInit, <1>1, PTL DEF Spec, Channel!Spec
-----------------------------------------------------------------------------
(* Messages stay readable: what the ratchet operators keep of Tracks and    *)
(* Paired.                                                                  *)

(* The fields of a message. *)
LEMMA MessageFields ==
    ASSUME NEW m \in Message
    PROVE  /\ m.from \in Party /\ m.seq \in Nat /\ m.dh \in KeyPair /\ m.dh # None
           /\ m.pn \in Nat /\ m.n \in Nat /\ m.key \in ChainKey
           /\ m.x3dh \in KeyPair \cup {None} /\ Entry(m) \in SkippedKey
           /\ Entry(m).dh = m.dh /\ Entry(m).n = m.n /\ Entry(m).mk = m.key
BY NoneAssumption DEF Message, Entry, SkippedKey

(* The fields of a session. *)
LEMMA ChainFields ==
    ASSUME NEW st \in RatchetState
    PROVE  /\ st.dhs \in KeyPair /\ st.dhr \in KeyPair \cup {None}
           /\ st.ns \in Nat /\ st.nr \in Nat /\ st.pn \in Nat
           /\ st.ckr # None => /\ st.ckr \in ChainKey /\ st.ckr.step \in Nat
                               /\ st.ckr.root \in RootKey
BY KeyFields DEF RatchetState

(* As many keys as there are other unread messages fit into the list. *)
LEMMA StashFits ==
    ASSUME NEW U, Few(U), NEW m \in U, NEW keys \in Seq(SkippedKey),
           \A i \in 1 .. Len(keys) : \E u \in U \ {m} : keys[i] = Entry(u),
           \A i, j \in 1 .. Len(keys) : keys[i] = keys[j] => i = j
    PROVE  Len(keys) <= MaxSkip /\ LatestKeys(keys) = keys
<1> DEFINE I == 1 .. Len(keys)
           f == [i \in I |-> CHOOSE u \in U \ {m} : keys[i] = Entry(u)]
<1>1. Len(keys) \in Nat
  OBVIOUS
<1>2. \A i \in I : f[i] \in U \ {m} /\ keys[i] = Entry(f[i])
  OBVIOUS
<1>3. f \in [I -> U \ {m}]
  BY <1>2
<1> HIDE DEF f
<1>4. \A i, j \in I : f[i] = f[j] => i = j
  BY <1>2
<1>5. f \in Injection(I, U \ {m})
  BY <1>3, <1>4 DEF Injection, IsInjective
<1>6. IsFiniteSet(U \ {m}) /\ Cardinality(U \ {m}) = Cardinality(U) - 1
  BY FS_RemoveElement DEF Few
<1>7. Cardinality(I) <= Cardinality(U \ {m})
  BY <1>5, <1>6, FS_Injection
<1>8. Cardinality(I) = Len(keys)
  BY <1>1, FS_Interval
<1>9. Cardinality(U) \in Nat /\ MaxSkip \in Nat
  BY FS_CardinalityType, MaxSkipAssumption DEF Few
<1>10. Len(keys) <= MaxSkip
  BY <1>1, <1>6, <1>7, <1>8, <1>9 DEF Few
<1> QED
  BY <1>10 DEF LatestKeys

(* Receiving within a chain, twice. *)
LEMMA ReceivedTwice ==
    ASSUME NEW U, NEW st, NEW mid, NEW r, Received(U, st, mid), Received(U, mid, r)
    PROVE  Received(U, st, r)
BY DEF Received

(* skipMessages does not refuse and drops no key while few messages are     *)
(* unread; it stashes the unread ones it passes, and m, which it does not   *)
(* pass, stays where it was.                                                *)
LEMMA SkipTracks ==
    ASSUME NEW st \in RatchetState, NEW M \in SUBSET Message, Numbered(M),
           NEW U \in SUBSET M, NEW len \in Nat, Tracks(M, U, st, len),
           NEW m \in U, ~Stashed(st, m),
           NEW until \in Nat, Fits(U, st, until), until <= len, m.dh = st.dhr => until <= m.n
    PROVE  /\ CanSkip(st, until)
           /\ Tracks(M, U, SkipMessages(st, until), len)
           /\ Received(U, st, SkipMessages(st, until))
           /\ ~Stashed(SkipMessages(st, until), m)
           /\ st.ckr # None => SkipMessages(st, until).nr = IF until > st.nr THEN until ELSE st.nr
<1> DEFINE r == SkipMessages(st, until)
<1>1. CASE st.ckr = None
  <2>1. r = st /\ CanSkip(st, until)
    BY <1>1 DEF SkipMessages, CanSkip
  <2> QED
    BY <1>1, <2>1 DEF Received
<1>2. CASE st.ckr # None
  <2>1. /\ st.ckr \in ChainKey /\ st.ckr.step = st.nr /\ st.nr \in Nat /\ st.nr <= len
        /\ Lined(M, st.dhr, st.ckr.root, len) /\ Len(st.skipped) \in Nat
    BY <1>2, ChainFields, SessionFields DEF Tracks
  <2>2. PICK gap \in Nat, keys \in Seq(SkippedKey) : Appended(st, until, gap, keys)
    BY <1>2, SkipAppends
  <2> DEFINE old == Len(st.skipped)
  <2>3. /\ gap = IF until > st.nr THEN until - st.nr ELSE 0
        /\ Len(keys) = old + gap
        /\ \A i \in 1 .. old : keys[i] = st.skipped[i]
    BY <2>2 DEF Appended
  <2>4. ASSUME NEW n \in Nat, st.nr <= n, n < st.nr + gap
        PROVE  \E u \in U \ {m} : /\ u.dh = st.dhr /\ u.n = n
                                  /\ keys[old + (n - st.nr + 1)] = Entry(u)
    <3>1. n \in 0 .. (len - 1) /\ n < until /\ n - st.nr + 1 \in 1 .. gap
      BY <2>1, <2>3, <2>4
    <3>2. PICK u \in M : u.dh = st.dhr /\ u.n = n
      BY <2>1, <3>1 DEF Lined
    <3>3. u.key = [root |-> st.ckr.root, step |-> n]
      BY <2>1, <3>2 DEF Lined
    <3>4. u \in U
      BY <2>1, <2>4, <3>2 DEF Tracks
    <3>5. u # m
      BY <3>1, <3>2, MessageFields
    <3>6. KdfChainKey(st.ckr, (n - st.nr + 1) - 1) = [root |-> st.ckr.root, step |-> n]
      <4>1. st.ckr.step + ((n - st.nr + 1) - 1) = n
        BY <2>1
      <4> QED
        BY <2>1, <4>1 DEF KdfChainKey, ChainKey
    <3>7. keys[old + (n - st.nr + 1)] =
            [dh |-> st.dhr, n |-> st.nr + (n - st.nr + 1) - 1,
             mk |-> KdfChainKey(st.ckr, (n - st.nr + 1) - 1)]
      BY <2>2, <3>1 DEF Appended
    <3>8. st.nr + (n - st.nr + 1) - 1 = n
      BY <2>1
    <3>9. keys[old + (n - st.nr + 1)] = [dh |-> u.dh, n |-> u.n, mk |-> u.key]
      BY <3>2, <3>3, <3>6, <3>7, <3>8
    <3> QED
      BY <3>2, <3>4, <3>5, <3>9 DEF Entry
  <2>5. ASSUME NEW i \in 1 .. old
        PROVE  \E u \in U \ {m} : keys[i] = Entry(u) /\ (u.dh = st.dhr => u.n < st.nr)
    BY <2>3 DEF Tracks, Stashed
  <2>6. ASSUME NEW i \in 1 .. Len(keys), i \notin 1 .. old
        PROVE  \E u \in U \ {m} : /\ keys[i] = Entry(u) /\ u.dh = st.dhr
                                  /\ u.n = st.nr + (i - old - 1) /\ u.n < st.nr + gap
    <3>1. /\ st.nr + (i - old - 1) \in Nat /\ st.nr <= st.nr + (i - old - 1)
          /\ st.nr + (i - old - 1) < st.nr + gap
          /\ old + ((st.nr + (i - old - 1)) - st.nr + 1) = i
      <4>1. old \in Nat /\ i \in Nat /\ old < i /\ i <= old + gap
        BY <2>1, <2>3, <2>6
      <4> HIDE DEF old
      <4> QED
        BY <2>1, <4>1
    <3> QED
      BY <2>4, <3>1
  <2>7. \A i \in 1 .. Len(keys) : \E u \in U \ {m} : keys[i] = Entry(u)
    BY <2>5, <2>6
  <2>8. ASSUME NEW i \in 1 .. Len(keys), NEW j \in 1 .. Len(keys), i < j
        PROVE  keys[i] # keys[j]
    <3>1. CASE j \in 1 .. old
      <4>1. i \in 1 .. old /\ i # j
        BY <2>1, <2>8, <3>1
      <4> QED
        BY <2>3, <3>1, <4>1 DEF Tracks
    <3>2. CASE j \notin 1 .. old
      <4>1. PICK u \in U : /\ keys[j] = Entry(u) /\ u.dh = st.dhr
                           /\ u.n = st.nr + (j - old - 1)
        BY <2>6, <3>2
      <4>2. PICK v \in U : keys[i] = Entry(v) /\ (v.dh = st.dhr => v.n # u.n)
        <5>1. CASE i \in 1 .. old
          <6>1. PICK v \in U : keys[i] = Entry(v) /\ (v.dh = st.dhr => v.n < st.nr)
            BY <2>5, <5>1
          <6>2. st.nr <= u.n /\ u.n \in Nat /\ v.n \in Nat
            BY <2>1, <2>3, <3>2, <4>1, MessageFields
          <6> QED
            BY <2>1, <6>1, <6>2
        <5>2. CASE i \notin 1 .. old
          <6>1. PICK v \in U : keys[i] = Entry(v) /\ v.n = st.nr + (i - old - 1)
            BY <2>6, <5>2
          <6>2. st.nr + (i - old - 1) # st.nr + (j - old - 1)
            BY <2>1, <2>8
          <6> QED
            BY <4>1, <6>1, <6>2
        <5> QED
          BY <5>1, <5>2
      <4>3. /\ Entry(u).dh = u.dh /\ Entry(u).n = u.n
            /\ Entry(v).dh = v.dh /\ Entry(v).n = v.n
        BY MessageFields
      <4> QED
        BY <4>1, <4>2, <4>3
    <3> QED
      BY <3>1, <3>2
  <2>9. \A i, j \in 1 .. Len(keys) : keys[i] = keys[j] => i = j
    BY <2>1, <2>3, <2>8
  <2>10. Len(keys) <= MaxSkip /\ LatestKeys(keys) = keys
    <3>1. CASE Few(U)
      BY <2>7, <2>9, <3>1, StashFits
    <3>2. CASE st.skipped = <<>> /\ until <= st.nr
      <4>1. Len(keys) = 0
        BY <2>1, <2>3, <3>2
      <4> QED
        BY <4>1, MaxSkipAssumption DEF LatestKeys
    <3> QED
      BY <3>1, <3>2 DEF Fits
  <2>11. /\ r = [st EXCEPT !.skipped = LatestKeys(keys), !.ckr = KdfChainKey(st.ckr, gap),
                           !.nr = st.nr + gap]
         /\ KdfChainKey(st.ckr, gap) = [root |-> st.ckr.root, step |-> st.nr + gap]
         /\ KdfChainKey(st.ckr, gap) \in ChainKey
    <3>1. KdfChainKey(st.ckr, gap) = [root |-> st.ckr.root, step |-> st.nr + gap]
      BY <2>1 DEF KdfChainKey, ChainKey
    <3> QED
      BY <2>1, <2>2, <3>1, KdfTypes DEF Appended
  <2>12. /\ r.dhs = st.dhs /\ r.dhr = st.dhr /\ r.rk = st.rk /\ r.cks = st.cks
         /\ r.ns = st.ns /\ r.pn = st.pn /\ r.nr = st.nr + gap /\ r.skipped = keys
         /\ r.ckr # None /\ r.ckr.root = st.ckr.root /\ r.ckr.step = st.nr + gap
    <3> DEFINE ckr == KdfChainKey(st.ckr, gap)
               nr == st.nr + gap
    <3>1. r = [st EXCEPT !.skipped = keys, !.ckr = ckr, !.nr = nr]
      BY <2>10, <2>11
    <3>2. ckr # None /\ ckr.root = st.ckr.root /\ ckr.step = nr
      BY <2>11, NoneAssumption
    <3> HIDE DEF r, ckr, nr
    <3>3. /\ r.dhs = st.dhs /\ r.dhr = st.dhr /\ r.rk = st.rk /\ r.cks = st.cks
          /\ r.ns = st.ns /\ r.pn = st.pn /\ r.nr = nr /\ r.skipped = keys /\ r.ckr = ckr
      BY <3>1 DEF RatchetState
    <3> QED
      BY <3>2, <3>3 DEF nr
  <2> HIDE DEF r
  <2>13. ASSUME NEW u \in U, Stashed(st, u) PROVE Stashed(r, u)
    <3>1. PICK i \in 1 .. old : st.skipped[i] = Entry(u)
      BY <2>13 DEF Stashed
    <3>2. i \in 1 .. Len(r.skipped) /\ r.skipped[i] = Entry(u)
      BY <2>1, <2>3, <2>12, <3>1
    <3> QED
      BY <3>2 DEF Stashed
  <2>14. Received(U, st, r)
    <3>1. ASSUME NEW i \in 1 .. Len(r.skipped)
          PROVE  \/ r.skipped[i].dh = st.dhr
                 \/ \E j \in 1 .. Len(st.skipped) : r.skipped[i] = st.skipped[j]
      <4>1. CASE i \in 1 .. old
        BY <2>3, <2>12, <4>1
      <4>2. CASE i \notin 1 .. old
        <5>1. PICK u \in U : keys[i] = Entry(u) /\ u.dh = st.dhr
          BY <2>6, <2>12, <4>2
        <5> QED
          BY <2>12, <5>1, MessageFields
      <4> QED
        BY <4>1, <4>2
    <3> QED
      BY <1>2, <2>12, <2>13, <3>1 DEF Received
  <2>15. ~Stashed(r, m)
    <3> SUFFICES ASSUME NEW i \in 1 .. Len(keys), keys[i] = Entry(m) PROVE FALSE
      BY <2>12 DEF Stashed
    <3>1. PICK u \in U \ {m} : keys[i] = Entry(u)
      BY <2>7
    <3>2. u.dh = m.dh /\ u.n = m.n
      BY <3>1, MessageFields
    <3> QED
      BY <3>1, <3>2 DEF Numbered
  <2>16. st.nr + gap <= len /\ st.nr + gap = (IF until > st.nr THEN until ELSE st.nr)
    BY <2>1, <2>3
  <2>17. ASSUME NEW i \in 1 .. Len(r.skipped)
         PROVE  \E u \in U : r.skipped[i] = Entry(u) /\ (u.dh = r.dhr => u.n < r.nr)
    <3>1. CASE i \in 1 .. old
      <4>1. PICK u \in U : keys[i] = Entry(u) /\ (u.dh = st.dhr => u.n < st.nr)
        BY <2>5, <3>1
      <4>2. u.n \in Nat
        BY MessageFields
      <4> QED
        BY <2>1, <2>12, <4>1, <4>2
    <3>2. CASE i \notin 1 .. old
      BY <2>6, <2>12, <3>2
    <3> QED
      BY <3>1, <3>2
  <2>18. ASSUME NEW u \in M, u.dh = r.dhr
         PROVE  IF u.n < r.nr THEN u \in U => Stashed(r, u) ELSE u \in U
    <3>1. u.n \in Nat /\ u.dh = st.dhr
      BY <2>12, <2>18, MessageFields
    <3>2. CASE u.n < st.nr
      BY <2>1, <2>12, <2>13, <3>1, <3>2 DEF Tracks
    <3>3. CASE ~(u.n < st.nr) /\ u.n < st.nr + gap
      <4>1. PICK v \in U : /\ v.dh = st.dhr /\ v.n = u.n
                           /\ keys[old + (u.n - st.nr + 1)] = Entry(v)
        BY <2>1, <2>4, <3>1, <3>3
      <4>2. v = u
        BY <3>1, <4>1 DEF Numbered
      <4>3. old + (u.n - st.nr + 1) \in 1 .. Len(r.skipped)
        <5>1. /\ old \in Nat /\ Len(r.skipped) = old + gap
              /\ st.nr <= u.n /\ u.n < st.nr + gap
          BY <2>1, <2>3, <2>12, <3>1, <3>3
        <5> HIDE DEF old
        <5> QED
          BY <2>1, <3>1, <5>1
      <4> QED
        BY <2>12, <3>3, <4>1, <4>2, <4>3 DEF Stashed
    <3>4. CASE ~(u.n < st.nr + gap)
      <4>1. ~(u.n < st.nr)
        BY <2>1, <3>1, <3>4
      <4> QED
        BY <2>12, <3>1, <3>4, <4>1 DEF Tracks
    <3> QED
      BY <3>2, <3>3, <3>4
  <2>19. Tracks(M, U, r, len)
    BY <2>1, <2>9, <2>12, <2>16, <2>17, <2>18 DEF Tracks
  <2>20. CanSkip(st, until)
    BY <2>1, <2>3, <2>10, MaxSkipAssumption DEF CanSkip
  <2> QED
    BY <2>12, <2>14, <2>15, <2>16, <2>19, <2>20 DEF r
<1> QED
  BY <1>1, <1>2

(* findIndex finds the key of a message exactly when it is stashed. *)
LEMMA IndexIsStashed ==
    ASSUME NEW st \in RatchetState, NEW M \in SUBSET Message, Numbered(M),
           NEW U \in SUBSET M, NEW len, Tracks(M, U, st, len), NEW m \in U
    PROVE  /\ SkippedIndex(st, m) # 0 <=> Stashed(st, m)
           /\ SkippedIndex(st, m) # 0 =>
                 /\ SkippedIndex(st, m) \in 1 .. Len(st.skipped)
                 /\ st.skipped[SkippedIndex(st, m)] = Entry(m)
<1> DEFINE I == {i \in 1 .. Len(st.skipped) :
                   st.skipped[i].dh = m.dh /\ st.skipped[i].n = m.n}
<1>1. SkippedIndex(st, m) = IF I # {} THEN Min(I) ELSE 0
  BY DEF SkippedIndex, SelectInSeq
<1>2. I # {} => Min(I) \in I
  <2>1. I \in SUBSET Nat
    OBVIOUS
  <2> QED
    BY <2>1, MinIsMember
<1>3. ASSUME NEW i \in I PROVE st.skipped[i] = Entry(m)
  <2>1. PICK u \in U : st.skipped[i] = Entry(u)
    BY DEF Tracks
  <2>2. u.dh = m.dh /\ u.n = m.n
    BY <1>3, <2>1, MessageFields
  <2> QED
    BY <2>1, <2>2 DEF Numbered
<1>4. ASSUME NEW i \in 1 .. Len(st.skipped), st.skipped[i] = Entry(m) PROVE i \in I
  BY <1>4, MessageFields
<1>5. SkippedIndex(st, m) # 0 => SkippedIndex(st, m) \in I
  BY <1>1, <1>2
<1>6. I # {} => SkippedIndex(st, m) # 0
  BY <1>1, <1>2
<1>7. Stashed(st, m) => I # {}
  BY <1>4 DEF Stashed
<1>8. \A i \in I : i \in 1 .. Len(st.skipped)
  OBVIOUS
<1> HIDE DEF I
<1> QED
  BY <1>3, <1>5, <1>6, <1>7, <1>8 DEF Stashed

(* A stashed message opens, and its key is gone from the list. *)
LEMMA StashOpens ==
    ASSUME NEW st \in RatchetState, NEW M \in SUBSET Message, Numbered(M),
           NEW U \in SUBSET M, NEW len, Tracks(M, U, st, len),
           NEW m \in U, m.tagged, SkippedIndex(st, m) # 0
    PROVE  /\ OpenSkipped(st, m).ok
           /\ Tracks(M, U \ {m}, OpenSkipped(st, m).st, len)
           /\ Received(U \ {m}, st, OpenSkipped(st, m).st)
<1> DEFINE r == OpenSkipped(st, m).st
           n == Len(st.skipped)
<1>1. PICK i \in 1 .. n : i = SkippedIndex(st, m) /\ st.skipped[i] = Entry(m)
  BY IndexIsStashed
<1>2. n \in Nat /\ OpenSkipped(st, m).ok
  <2>1. Entry(m).mk = m.key
    BY MessageFields
  <2> QED
    BY <1>1, <2>1, SessionFields DEF OpenSkipped, Authentic
<1>3. /\ r.dhs = st.dhs /\ r.dhr = st.dhr /\ r.rk = st.rk /\ r.cks = st.cks
      /\ r.ns = st.ns /\ r.pn = st.pn /\ r.nr = st.nr /\ r.ckr = st.ckr
      /\ r.skipped = RemoveAt(st.skipped, i)
  BY <1>1 DEF OpenSkipped, RatchetState
<1>4. /\ Len(r.skipped) = n - 1
      /\ \A j \in 1 .. n - 1 : r.skipped[j] = st.skipped[IF j < i THEN j ELSE j + 1]
  BY <1>3, SkippedWithout
<1> HIDE DEF r
<1>5. ASSUME NEW j \in 1 .. Len(r.skipped)
      PROVE  \E k \in 1 .. n : /\ k # i /\ r.skipped[j] = st.skipped[k]
                               /\ (j < i /\ k = j) \/ (~(j < i) /\ k = j + 1)
  <2>1. CASE j < i
    BY <1>2, <1>4, <2>1
  <2>2. CASE ~(j < i)
    <3>1. j + 1 \in 1 .. n /\ j + 1 # i /\ j \in 1 .. n - 1
      BY <1>2, <1>4, <2>2
    <3> QED
      BY <1>4, <2>2, <3>1
  <2> QED
    BY <2>1, <2>2
<1>6. ASSUME NEW k \in 1 .. n, k # i
      PROVE  \E j \in 1 .. Len(r.skipped) : r.skipped[j] = st.skipped[k]
  <2>1. CASE k < i
    <3>1. k \in 1 .. n - 1 /\ r.skipped[k] = st.skipped[k]
      BY <1>2, <1>4, <2>1
    <3> QED
      BY <1>4, <3>1
  <2>2. CASE ~(k < i)
    <3>1. k - 1 \in 1 .. n - 1 /\ ~(k - 1 < i) /\ (k - 1) + 1 = k
      BY <1>2, <1>6, <2>2
    <3>2. r.skipped[k - 1] = st.skipped[k]
      BY <1>4, <3>1
    <3> QED
      BY <1>4, <3>1, <3>2
  <2> QED
    BY <2>1, <2>2
<1> HIDE DEF n
<1>7. ASSUME NEW u \in U \ {m}, Stashed(st, u) PROVE Stashed(r, u)
  <2>1. PICK k \in 1 .. n : st.skipped[k] = Entry(u)
    BY <1>7 DEF Stashed, n
  <2>2. k # i
    <3> SUFFICES ASSUME k = i PROVE FALSE
      OBVIOUS
    <3>1. Entry(u) = Entry(m)
      BY <1>1, <2>1
    <3>2. u.dh = m.dh /\ u.n = m.n
      BY <3>1 DEF Entry
    <3> QED
      BY <3>2 DEF Numbered
  <2> QED
    BY <1>6, <2>1, <2>2 DEF Stashed
<1>8. Received(U \ {m}, st, r)
  BY <1>3, <1>5, <1>7 DEF Received, n
<1>9. ASSUME NEW j \in 1 .. Len(r.skipped)
      PROVE  \E u \in U \ {m} : r.skipped[j] = Entry(u) /\ (u.dh = r.dhr => u.n < r.nr)
  <2>1. PICK k \in 1 .. n : k # i /\ r.skipped[j] = st.skipped[k]
    BY <1>5
  <2>2. PICK u \in U : st.skipped[k] = Entry(u) /\ (u.dh = st.dhr => u.n < st.nr)
    BY DEF Tracks, n
  <2>3. u # m
    BY <1>1, <2>1, <2>2 DEF Tracks, n
  <2> QED
    BY <1>3, <2>1, <2>2, <2>3
<1>10. ASSUME NEW j \in 1 .. Len(r.skipped), NEW l \in 1 .. Len(r.skipped),
              r.skipped[j] = r.skipped[l]
       PROVE  j = l
  <2>1. PICK k \in 1 .. n : /\ r.skipped[j] = st.skipped[k]
                            /\ (j < i /\ k = j) \/ (~(j < i) /\ k = j + 1)
    BY <1>5
  <2>2. PICK k2 \in 1 .. n : /\ r.skipped[l] = st.skipped[k2]
                             /\ (l < i /\ k2 = l) \/ (~(l < i) /\ k2 = l + 1)
    BY <1>5
  <2>3. k = k2
    BY <1>10, <2>1, <2>2 DEF Tracks, n
  <2>4. Len(r.skipped) \in Nat
    BY <1>2, <1>4
  <2> QED
    BY <1>2, <2>1, <2>2, <2>3, <2>4
<1>11. ASSUME NEW u \in M, u.dh = r.dhr
       PROVE  IF u.n < r.nr THEN u \in U \ {m} => Stashed(r, u) ELSE u \in U \ {m}
  <2>1. IF u.n < st.nr THEN u \in U => Stashed(st, u) ELSE u \in U
    BY <1>3, <1>11 DEF Tracks
  <2>2. m.dh = st.dhr => m.n < st.nr
    <3>1. PICK v \in U : st.skipped[i] = Entry(v) /\ (v.dh = st.dhr => v.n < st.nr)
      BY DEF Tracks, n
    <3>2. v.dh = m.dh /\ v.n = m.n
      BY <1>1, <3>1 DEF Entry
    <3> QED
      BY <3>1, <3>2
  <2> QED
    BY <1>3, <1>7, <1>11, <2>1, <2>2
<1>12. Tracks(M, U \ {m}, r, len)
  <2>1. IF r.ckr = None
        THEN len = 0 /\ \A u \in M : u.dh # r.dhr
        ELSE r.ckr.step = r.nr /\ r.nr <= len /\ Lined(M, r.dhr, r.ckr.root, len)
    BY <1>3 DEF Tracks
  <2> QED
    BY <1>9, <1>10, <1>11, <2>1 DEF Tracks
<1> QED
  BY <1>2, <1>8, <1>12 DEF r

(* The next message of the chain opens, and the chain key is spent. *)
LEMMA ChainOpens ==
    ASSUME NEW st \in RatchetState, NEW M \in SUBSET Message, Numbered(M),
           NEW U \in SUBSET M, NEW len \in Nat, Tracks(M, U, st, len),
           NEW m \in U, m.tagged, ~Stashed(st, m), m.dh = st.dhr, m.n = st.nr
    PROVE  /\ st.ckr # None
           /\ OpenInChain(st, m).ok
           /\ Tracks(M, U \ {m}, OpenInChain(st, m).st, len)
           /\ Received(U \ {m}, st, OpenInChain(st, m).st)
<1> DEFINE r == OpenInChain(st, m).st
<1>1. /\ st.ckr # None /\ st.ckr.step = st.nr /\ st.nr <= len
      /\ Lined(M, st.dhr, st.ckr.root, len)
  BY DEF Tracks
<1>2. st.ckr \in ChainKey /\ st.nr \in Nat
  BY <1>1, ChainFields
<1>3. m.key = [root |-> st.ckr.root, step |-> m.n] /\ m.n < len
  BY <1>1 DEF Lined
<1>4. st.ckr = m.key
  BY <1>1, <1>2, <1>3 DEF ChainKey
<1>5. OpenInChain(st, m).ok
  BY <1>4 DEF OpenInChain, Authentic
<1>6. /\ KdfChainKey(st.ckr, 1) \in ChainKey /\ KdfChainKey(st.ckr, 1).root = st.ckr.root
      /\ KdfChainKey(st.ckr, 1).step = st.nr + 1
  <2>1. KdfChainKey(st.ckr, 1) = [root |-> st.ckr.root, step |-> st.nr + 1]
    BY <1>1, <1>2 DEF KdfChainKey, ChainKey
  <2> QED
    BY <1>2, <2>1, KdfTypes
<1>7. /\ r.dhs = st.dhs /\ r.dhr = st.dhr /\ r.rk = st.rk /\ r.cks = st.cks
      /\ r.ns = st.ns /\ r.pn = st.pn /\ r.nr = st.nr + 1 /\ r.skipped = st.skipped
      /\ r.ckr = KdfChainKey(st.ckr, 1)
  <2> DEFINE ckr == KdfChainKey(st.ckr, 1)
             nr == st.nr + 1
  <2>1. r = [st EXCEPT !.ckr = ckr, !.nr = nr]
    BY DEF OpenInChain
  <2> HIDE DEF r, ckr, nr
  <2>2. /\ r.dhs = st.dhs /\ r.dhr = st.dhr /\ r.rk = st.rk /\ r.cks = st.cks
        /\ r.ns = st.ns /\ r.pn = st.pn /\ r.nr = nr /\ r.skipped = st.skipped /\ r.ckr = ckr
    BY <2>1 DEF RatchetState
  <2> QED
    BY <2>2 DEF ckr, nr
<1> HIDE DEF r
<1>8. r.ckr # None /\ r.ckr.root = st.ckr.root /\ r.ckr.step = r.nr /\ r.nr <= len
  BY <1>1, <1>2, <1>3, <1>6, <1>7, NoneAssumption, MessageFields
<1>9. Received(U \ {m}, st, r)
  BY <1>1, <1>7, <1>8 DEF Received, Stashed
<1>10. ASSUME NEW i \in 1 .. Len(r.skipped)
       PROVE  \E u \in U \ {m} : r.skipped[i] = Entry(u) /\ (u.dh = r.dhr => u.n < r.nr)
  <2>1. PICK u \in U : st.skipped[i] = Entry(u) /\ (u.dh = st.dhr => u.n < st.nr)
    BY <1>7 DEF Tracks
  <2>2. u # m /\ u.n \in Nat
    BY <1>7, <2>1, MessageFields DEF Stashed
  <2> QED
    BY <1>2, <1>7, <2>1, <2>2
<1>11. ASSUME NEW u \in M, u.dh = r.dhr
       PROVE  IF u.n < r.nr THEN u \in U \ {m} => Stashed(r, u) ELSE u \in U \ {m}
  <2>1. IF u.n < st.nr THEN u \in U => Stashed(st, u) ELSE u \in U
    BY <1>7, <1>11 DEF Tracks
  <2>2. u.n \in Nat /\ (u.n = st.nr => u = m)
    BY <1>7, <1>11, MessageFields DEF Numbered
  <2> QED
    BY <1>2, <1>7, <2>1, <2>2 DEF Stashed
<1>12. \A i, j \in 1 .. Len(r.skipped) : r.skipped[i] = r.skipped[j] => i = j
  BY <1>7 DEF Tracks
<1>13. Tracks(M, U \ {m}, r, len)
  BY <1>1, <1>7, <1>8, <1>10, <1>11, <1>12 DEF Tracks
<1> QED
  BY <1>1, <1>5, <1>9, <1>13 DEF r

(* skipMessages up to a message of the chain, and the message. *)
LEMMA SkipOpens ==
    ASSUME NEW st \in RatchetState, NEW M \in SUBSET Message, Numbered(M),
           NEW U \in SUBSET M, NEW len \in Nat, Tracks(M, U, st, len),
           NEW m \in U, m.tagged, ~Stashed(st, m), m.dh = st.dhr, Fits(U, st, m.n)
    PROVE  /\ CanSkip(st, m.n) /\ SkipMessages(st, m.n).ckr # None
           /\ OpenInChain(SkipMessages(st, m.n), m).ok
           /\ Tracks(M, U \ {m}, OpenInChain(SkipMessages(st, m.n), m).st, len)
           /\ Received(U \ {m}, st, OpenInChain(SkipMessages(st, m.n), m).st)
<1> DEFINE r == SkipMessages(st, m.n)
<1>1. /\ st.ckr # None /\ Lined(M, st.dhr, st.ckr.root, len) /\ st.nr \in Nat /\ m.n \in Nat
  BY ChainFields, MessageFields DEF Tracks
<1>2. m.n <= len /\ ~(m.n < st.nr)
  <2>1. m.n < len
    BY <1>1 DEF Lined
  <2>2. ~(m.n < st.nr)
    BY DEF Tracks
  <2> QED
    BY <1>1, <2>1, <2>2
<1>3. /\ CanSkip(st, m.n) /\ Tracks(M, U, r, len) /\ Received(U, st, r) /\ ~Stashed(r, m)
      /\ r.nr = IF m.n > st.nr THEN m.n ELSE st.nr
  <2>1. m.n \in Nat /\ m.n <= len /\ m.n <= m.n
    BY <1>1, <1>2
  <2> QED
    BY <1>1, <2>1, SkipTracks
<1>4. r.nr = m.n /\ r.dhr = st.dhr
  BY <1>1, <1>2, <1>3 DEF Received
<1>5. r \in RatchetState
  BY <1>1, SkipMessagesType
<1> HIDE DEF r
<1>6. /\ r.ckr # None /\ OpenInChain(r, m).ok
      /\ Tracks(M, U \ {m}, OpenInChain(r, m).st, len)
      /\ Received(U \ {m}, r, OpenInChain(r, m).st)
  BY <1>3, <1>4, <1>5, ChainOpens
<1>7. Received(U \ {m}, st, r)
  BY <1>3 DEF Received
<1> QED
  BY <1>3, <1>6, <1>7, ReceivedTwice DEF r

(* A message of the chain at hand, or a stashed one, opens. *)
LEMMA ReadsOn ==
    ASSUME NEW st \in RatchetState, NEW M \in SUBSET Message, Numbered(M),
           NEW U \in SUBSET M, Few(U), NEW len \in Nat, Tracks(M, U, st, len),
           NEW m \in U, m.tagged, NEW fresh, m.dh = st.dhr \/ Stashed(st, m)
    PROVE  /\ RatchetDecrypt(st, m, fresh).ok
           /\ Tracks(M, U \ {m}, RatchetDecrypt(st, m, fresh).st, len)
           /\ Received(U \ {m}, st, RatchetDecrypt(st, m, fresh).st)
<1>1. SkippedIndex(st, m) # 0 <=> Stashed(st, m)
  BY IndexIsStashed
<1>2. CASE SkippedIndex(st, m) # 0
  BY <1>2, StashOpens DEF RatchetDecrypt
<1>3. CASE SkippedIndex(st, m) = 0
  <2>1. ~Stashed(st, m) /\ m.dh = st.dhr /\ Fits(U, st, m.n)
    BY <1>1, <1>3 DEF Fits
  <2>2. CanSkip(st, m.n) /\ SkipMessages(st, m.n).ckr # None
    BY <2>1, SkipOpens
  <2>3. RatchetDecrypt(st, m, fresh) = OpenInChain(SkipMessages(st, m.n), m)
    BY <1>3, <2>1, <2>2 DEF RatchetDecrypt, HasDHKey
  <2> QED
    BY <2>1, <2>3, SkipOpens
<1> QED
  BY <1>2, <1>3

(* The end that holds the new key pair opens whatever is unread. *)
LEMMA LeaderReads ==
    ASSUME NEW x \in RatchetState, NEW y, y.ns \in Nat, NEW M, NEW U,
           NEW N \in SUBSET Message, Numbered(N), NEW V \in SUBSET N, Few(V),
           Paired(x, M, U, y, N, V), NEW m \in V, m.tagged, NEW fresh
    PROVE  /\ RatchetDecrypt(x, m, fresh).ok
           /\ Paired(RatchetDecrypt(x, m, fresh).st, M, U, y, N, V \ {m})
<1> DEFINE r == RatchetDecrypt(x, m, fresh).st
<1>1. Tracks(N, V, x, y.ns) /\ (m.dh = x.dhr \/ Stashed(x, m))
  BY DEF Paired
<1>2. /\ RatchetDecrypt(x, m, fresh).ok
      /\ Tracks(N, V \ {m}, r, y.ns) /\ Received(V \ {m}, x, r)
  BY <1>1, ReadsOn
<1> HIDE DEF r
<1>3. Paired(r, M, U, y, N, V \ {m})
  <2>1. /\ r.dhs = x.dhs /\ r.dhr = x.dhr /\ r.rk = x.rk /\ r.cks = x.cks
        /\ r.ns = x.ns /\ r.pn = x.pn
        /\ IF x.ckr = None THEN r.ckr = None ELSE r.ckr # None /\ r.ckr.root = x.ckr.root
        /\ \A v \in V \ {m} : Stashed(x, v) => Stashed(r, v)
    BY <1>2 DEF Received
  <2>2. \A v \in V \ {m} : v.dh = r.dhr \/ Stashed(r, v)
    BY <2>1 DEF Paired
  <2>3. IF y.cks = None THEN y.ns = 0 /\ r.ckr = None
        ELSE y.cks = [root |-> y.rk, step |-> y.ns] /\ r.ckr # None /\ r.ckr.root = y.rk
    BY <2>1 DEF Paired
  <2> QED
    BY <1>2, <2>1, <2>2, <2>3 DEF Paired
<1> QED
  BY <1>2, <1>3 DEF r

(* The other end opens what is under the chain it is in, or stashed. *)
LEMMA FollowerReads ==
    ASSUME NEW x, x.pn \in Nat, NEW y \in RatchetState, NEW N, NEW V,
           NEW M \in SUBSET Message, Numbered(M), NEW U \in SUBSET M, Few(U),
           Paired(x, M, U, y, N, V),
           NEW m \in U, m.tagged, m.dh # x.dhs, NEW fresh
    PROVE  /\ RatchetDecrypt(y, m, fresh).ok
           /\ Paired(x, M, U \ {m}, RatchetDecrypt(y, m, fresh).st, N, V)
<1> DEFINE r == RatchetDecrypt(y, m, fresh).st
<1>1. Tracks(M, U, y, x.pn) /\ (m.dh = y.dhr \/ Stashed(y, m))
  BY DEF Paired
<1>2. /\ RatchetDecrypt(y, m, fresh).ok
      /\ Tracks(M, U \ {m}, r, x.pn) /\ Received(U \ {m}, y, r)
  BY <1>1, ReadsOn
<1> HIDE DEF r
<1>3. Paired(x, M, U \ {m}, r, N, V)
  <2>1. /\ r.dhs = y.dhs /\ r.dhr = y.dhr /\ r.rk = y.rk /\ r.cks = y.cks
        /\ r.ns = y.ns /\ r.pn = y.pn
        /\ \A u \in U \ {m} : Stashed(y, u) => Stashed(r, u)
        /\ \A i \in 1 .. Len(r.skipped) :
              \/ r.skipped[i].dh = y.dhr
              \/ \E j \in 1 .. Len(y.skipped) : r.skipped[i] = y.skipped[j]
    BY <1>2 DEF Received
  <2>2. \A u \in U \ {m} : u.dh \in {r.dhr, x.dhs} \/ Stashed(r, u)
    BY <2>1 DEF Paired
  <2>3. \A i \in 1 .. Len(r.skipped) : r.skipped[i].dh # x.dhs
    BY <2>1 DEF Paired
  <2>4. \A u \in M : u.dh = x.dhs => u.pn = x.pn /\ u \in U \ {m}
    BY DEF Paired
  <2> QED
    BY <1>2, <2>1, <2>2, <2>3, <2>4 DEF Paired
<1> QED
  BY <1>2, <1>3 DEF r

(* What a DH ratchet step makes of a session. *)
LEMMA TurnFields ==
    ASSUME NEW st \in RatchetState, NEW theirs \in KeyPair, NEW fresh \in KeyPair,
           NEW rk, rk = KdfRootKey(st.rk, DH(st.dhs, theirs)), rk \in RootKey
    PROVE  LET r == DHRatchet(st, theirs, fresh)
           IN  /\ r \in RatchetState
               /\ r.dhs = fresh /\ r.dhr = theirs
               /\ r.rk = KdfRootKey(rk, DH(fresh, theirs))
               /\ r.cks = [root |-> r.rk, step |-> 0]
               /\ r.ckr = [root |-> rk, step |-> 0] /\ r.ckr # None
               /\ r.ns = 0 /\ r.nr = 0 /\ r.pn = st.ns /\ r.skipped = st.skipped
<1> DEFINE rks == KdfRootKey(rk, DH(fresh, theirs))
           ckr == FirstChainKey(rk)
           cks == FirstChainKey(rks)
           ns == st.ns
<1>1. DHRatchet(st, theirs, fresh) =
        [st EXCEPT !.dhr = theirs, !.dhs = fresh, !.rk = rks, !.ckr = ckr, !.nr = 0,
                   !.cks = cks, !.pn = ns, !.ns = 0]
  BY DEF DHRatchet
<1>2. DHRatchet(st, theirs, fresh) \in RatchetState
  BY DHRatchetType
<1>3. ckr \in ChainKey
  BY KdfTypes
<1>4. ckr = [root |-> rk, step |-> 0] /\ cks = [root |-> rks, step |-> 0]
  BY DEF FirstChainKey
<1> HIDE DEF rks, ckr, cks, ns
<1>5. LET r == DHRatchet(st, theirs, fresh)
      IN  /\ r.dhs = fresh /\ r.dhr = theirs /\ r.rk = rks /\ r.cks = cks /\ r.ckr = ckr
          /\ r.ns = 0 /\ r.nr = 0 /\ r.pn = ns /\ r.skipped = st.skipped
  BY <1>1 DEF RatchetState
<1>6. ckr # None
  BY <1>3, NoneAssumption
<1> QED
  BY <1>2, <1>4, <1>5, <1>6 DEF rks, ns

(* A message under the new key pair: the last chain is passed, stashing     *)
(* what is unread of it, the ratchet turns, and the message opens.  The     *)
(* reader now is the end with the new key pair.                             *)
LEMMA FollowerTurns ==
    ASSUME NEW x \in RatchetState, NEW y \in RatchetState,
           NEW M \in SUBSET Message, Numbered(M), NEW U \in SUBSET M,
           NEW N \in SUBSET Message, NEW V \in SUBSET N,
           Paired(x, M, U, y, N, V),
           NEW m \in U, m.tagged, m.dh = x.dhs,
           Few(U) \/ (y.skipped = <<>> /\ y.ckr = None /\ m.n = 0),
           NEW fresh \in KeyPair, fresh # x.dhr, \A n \in N : n.dh # fresh
    PROVE  /\ RatchetDecrypt(y, m, fresh).ok
           /\ Paired(RatchetDecrypt(y, m, fresh).st, N, V, x, M, U \ {m})
<1> DEFINE mid == SkipMessages(y, m.pn)
           turned == DHRatchet(mid, m.dh, fresh)
           r == OpenInChain(SkipMessages(turned, m.n), m).st
<1>1. /\ x.dhr = y.dhs /\ x.dhs # y.dhr /\ x.rk = KdfRootKey(y.rk, DH(x.dhs, y.dhs))
      /\ x.cks = [root |-> x.rk, step |-> x.ns] /\ Lined(M, x.dhs, x.rk, x.ns)
      /\ \A u \in M : u.dh = x.dhs => u.pn = x.pn /\ u \in U
      /\ Tracks(N, V, x, y.ns) /\ Tracks(M, U, y, x.pn)
      /\ \A u \in U : u.dh \in {y.dhr, x.dhs} \/ Stashed(y, u)
      /\ \A i \in 1 .. Len(y.skipped) : y.skipped[i].dh # x.dhs
  BY DEF Paired
<1>2. /\ x.pn \in Nat /\ x.ns \in Nat /\ y.ns \in Nat /\ y.nr \in Nat
      /\ x.dhs \in KeyPair /\ x.dhr \in KeyPair \cup {None} /\ x.rk \in RootKey
  BY ChainFields, SessionFields
<1>3. m.pn = x.pn /\ m.dh # y.dhr
  BY <1>1
<1>4. ~Stashed(y, m)
  BY <1>1, MessageFields DEF Stashed
<1>5. /\ CanSkip(y, m.pn) /\ Tracks(M, U, mid, x.pn) /\ Received(U, y, mid)
      /\ ~Stashed(mid, m)
      /\ y.ckr # None => mid.nr = IF x.pn > y.nr THEN x.pn ELSE y.nr
  <2>1. Fits(U, y, m.pn)
    BY <1>1, <1>2, <1>3 DEF Fits, Tracks
  <2>2. m.pn \in Nat /\ m.pn <= x.pn
    BY <1>2, <1>3
  <2>3. /\ CanSkip(y, m.pn) /\ Tracks(M, U, mid, x.pn) /\ Received(U, y, mid)
        /\ ~Stashed(mid, m)
        /\ y.ckr # None => mid.nr = IF m.pn > y.nr THEN m.pn ELSE y.nr
    <3>1. x.pn \in Nat /\ Tracks(M, U, y, x.pn) /\ (m.dh = y.dhr => m.pn <= m.n)
      BY <1>1, <1>2, <1>3
    <3> HIDE DEF mid
    <3>2. PICK len \in Nat, until \in Nat : len = x.pn /\ until = m.pn
      BY <2>2, <3>1
    <3>3. /\ Tracks(M, U, y, len) /\ Fits(U, y, until) /\ until <= len
          /\ (m.dh = y.dhr => until <= m.n) /\ mid = SkipMessages(y, until)
      BY <2>1, <2>2, <3>1, <3>2 DEF mid
    <3>4. /\ CanSkip(y, until) /\ Tracks(M, U, mid, len) /\ Received(U, y, mid)
          /\ ~Stashed(mid, m)
          /\ y.ckr # None => mid.nr = IF until > y.nr THEN until ELSE y.nr
      BY <1>4, <3>3, SkipTracks
    <3> QED
      BY <3>2, <3>4
  <2> QED
    BY <1>3, <2>3
<1>6. mid \in RatchetState
  BY <1>2, <1>3, SkipMessagesType
<1> HIDE DEF mid
<1>7. /\ mid.dhs = y.dhs /\ mid.dhr = y.dhr /\ mid.rk = y.rk /\ mid.ns = y.ns
      /\ mid.ckr = None <=> y.ckr = None
      /\ \A u \in U : Stashed(y, u) => Stashed(mid, u)
      /\ \A i \in 1 .. Len(mid.skipped) : mid.skipped[i].dh # x.dhs
  BY <1>1, <1>5 DEF Received
<1>8. \A u \in U : u.dh = x.dhs \/ Stashed(mid, u)
  <2> SUFFICES ASSUME NEW u \in U, u.dh = y.dhr PROVE Stashed(mid, u)
    BY <1>1, <1>7
  <2>1. mid.ckr # None
    BY <1>5, <1>7 DEF Tracks
  <2>2. y.ckr # None /\ y.nr <= x.pn
    BY <1>1, <1>7, <2>1 DEF Tracks
  <2>3. mid.nr = x.pn
    BY <1>2, <1>5, <2>2
  <2>4. u.n < x.pn
    BY <1>5, <1>7, <2>1 DEF Tracks, Lined
  <2> QED
    BY <1>5, <1>7, <2>3, <2>4 DEF Tracks
<1>9. KdfRootKey(mid.rk, DH(mid.dhs, m.dh)) = x.rk
  <2>1. DH(x.dhs, y.dhs) = DH(y.dhs, x.dhs)
    BY DEF DH
  <2> QED
    BY <1>1, <1>7, <2>1
<1>10. /\ turned \in RatchetState /\ turned.dhs = fresh /\ turned.dhr = x.dhs
       /\ turned.rk = KdfRootKey(x.rk, DH(fresh, x.dhs))
       /\ turned.cks = [root |-> turned.rk, step |-> 0]
       /\ turned.ckr = [root |-> x.rk, step |-> 0] /\ turned.ckr # None
       /\ turned.ns = 0 /\ turned.nr = 0 /\ turned.pn = y.ns
       /\ turned.skipped = mid.skipped
  BY <1>2, <1>6, <1>7, <1>9, TurnFields
<1> HIDE DEF turned
<1>11. Tracks(M, U, turned, x.ns)
  <2>1. /\ turned.ckr.step = turned.nr /\ turned.nr <= x.ns
        /\ Lined(M, turned.dhr, turned.ckr.root, x.ns)
    BY <1>1, <1>2, <1>10
  <2>2. ASSUME NEW i \in 1 .. Len(turned.skipped)
        PROVE  \E u \in U : /\ turned.skipped[i] = Entry(u)
                            /\ u.dh = turned.dhr => u.n < turned.nr
    <3>1. PICK u \in U : mid.skipped[i] = Entry(u)
      BY <1>5, <1>10 DEF Tracks
    <3>2. u.dh # x.dhs
      BY <1>7, <1>10, <3>1, MessageFields
    <3> QED
      BY <1>10, <3>1, <3>2
  <2>3. \A i, j \in 1 .. Len(turned.skipped) : turned.skipped[i] = turned.skipped[j] => i = j
    BY <1>5, <1>10 DEF Tracks
  <2>4. \A u \in M : u.dh = turned.dhr => u \in U /\ ~(u.n < turned.nr)
    BY <1>1, <1>10, MessageFields
  <2> QED
    BY <1>10, <2>1, <2>2, <2>3, <2>4 DEF Tracks
<1>12. ~Stashed(turned, m)
  BY <1>5, <1>10 DEF Stashed
<1>13. /\ CanSkip(turned, m.n) /\ SkipMessages(turned, m.n).ckr # None
       /\ OpenInChain(SkipMessages(turned, m.n), m).ok
       /\ Tracks(M, U \ {m}, r, x.ns) /\ Received(U \ {m}, turned, r)
  <2>1. Fits(U, turned, m.n)
    <3>1. y.ckr = None => mid = y
      BY DEF mid, SkipMessages
    <3> QED
      BY <1>10, <3>1 DEF Fits
  <2> QED
    BY <1>2, <1>10, <1>11, <1>12, <2>1, SkipOpens
<1>14. RatchetDecrypt(y, m, fresh) = OpenInChain(SkipMessages(turned, m.n), m)
  <2>1. SkippedIndex(y, m) = 0
    BY <1>1, <1>4, IndexIsStashed
  <2>2. ~HasDHKey(y, m)
    BY <1>3 DEF HasDHKey
  <2> QED
    BY <1>5, <1>13, <2>1, <2>2 DEF RatchetDecrypt, mid, turned
<1> HIDE DEF r
<1>15. Paired(r, N, V, x, M, U \ {m})
  <2>1. /\ r.dhs = fresh /\ r.dhr = x.dhs /\ r.rk = KdfRootKey(x.rk, DH(fresh, x.dhs))
        /\ r.cks = [root |-> r.rk, step |-> r.ns] /\ r.ns = 0 /\ r.pn = y.ns
        /\ r.ckr # None /\ r.ckr.root = x.rk
        /\ \A u \in U \ {m} : Stashed(turned, u) => Stashed(r, u)
    BY <1>10, <1>13 DEF Received
  <2>2. Lined(N, r.dhs, r.rk, r.ns)
    BY <2>1 DEF Lined
  <2>3. \A v \in N : v.dh = r.dhs => v.pn = r.pn /\ v \in V
    BY <2>1
  <2>4. \A u \in U \ {m} : u.dh = r.dhr \/ Stashed(r, u)
    BY <1>8, <1>10, <2>1 DEF Stashed
  <2>5. \A v \in V : v.dh \in {x.dhr, r.dhs} \/ Stashed(x, v)
    BY DEF Paired
  <2>6. ASSUME NEW i \in 1 .. Len(x.skipped) PROVE x.skipped[i].dh # r.dhs
    <3>1. PICK v \in V : x.skipped[i] = Entry(v)
      BY <1>1 DEF Tracks
    <3> QED
      BY <2>1, <3>1, MessageFields
  <2>7. IF x.cks = None THEN x.ns = 0 /\ r.ckr = None
        ELSE x.cks = [root |-> x.rk, step |-> x.ns] /\ r.ckr # None /\ r.ckr.root = x.rk
    <3>1. x.cks # None
      <4>1. [root |-> x.rk, step |-> x.ns] \in ChainKey
        BY <1>2 DEF ChainKey
      <4> QED
        BY <1>1, <4>1, NoneAssumption
    <3> QED
      BY <1>1, <2>1, <3>1
  <2> QED
    BY <1>1, <1>13, <2>1, <2>2, <2>3, <2>4, <2>5, <2>6, <2>7 DEF Paired
<1> QED
  BY <1>13, <1>14, <1>15 DEF r

(* A chain with one more message. *)
LEMMA LinedOn ==
    ASSUME NEW M \in SUBSET Message, NEW k, NEW root, NEW len \in Nat, Lined(M, k, root, len),
           NEW m \in Message, m.dh = k, m.n = len, m.key = [root |-> root, step |-> len]
    PROVE  Lined(M \cup {m}, k, root, len + 1)
<1>1. ASSUME NEW u \in M \cup {m}, u.dh = k
      PROVE  u.n < len + 1 /\ u.key = [root |-> root, step |-> u.n]
  <2>1. CASE u = m
    BY <2>1
  <2>2. CASE u \in M
    <3>1. u.n \in Nat
      BY <2>2, MessageFields
    <3> QED
      BY <1>1, <2>2, <3>1 DEF Lined
  <2> QED
    BY <2>1, <2>2
<1>2. ASSUME NEW n \in 0 .. ((len + 1) - 1)
      PROVE  \E u \in M \cup {m} : u.dh = k /\ u.n = n
  <2>1. CASE n = len
    BY <2>1
  <2>2. CASE n # len
    <3>1. n \in 0 .. (len - 1)
      BY <2>2
    <3> QED
      BY <3>1 DEF Lined
  <2> QED
    BY <2>1, <2>2
<1> QED
  BY <1>1, <1>2 DEF Lined

(* What encryption changes of a session. *)
LEMMA EncryptFields ==
    ASSUME NEW st \in RatchetState, NEW root \in RootKey,
           st.cks = [root |-> root, step |-> st.ns]
    PROVE  LET r == AfterEncrypt(st)
           IN  /\ r \in RatchetState /\ r.dhs = st.dhs /\ r.dhr = st.dhr /\ r.rk = st.rk
               /\ r.cks = [root |-> root, step |-> r.ns] /\ r.ns = st.ns + 1
               /\ r.ckr = st.ckr /\ r.nr = st.nr /\ r.pn = st.pn /\ r.skipped = st.skipped
<1> DEFINE cks == KdfChainKey(st.cks, 1)
           ns == st.ns + 1
<1>1. AfterEncrypt(st) = [st EXCEPT !.cks = cks, !.ns = ns]
  BY DEF AfterEncrypt
<1>2. st.ns \in Nat /\ cks = [root |-> root, step |-> ns]
  BY ChainFields DEF KdfChainKey
<1>3. st.cks \in ChainKey
  BY <1>2 DEF ChainKey
<1>4. AfterEncrypt(st) \in RatchetState
  BY <1>3, NoneAssumption, AfterEncryptType DEF CanEncrypt
<1> HIDE DEF cks, ns
<1>5. LET r == AfterEncrypt(st)
      IN  /\ r.dhs = st.dhs /\ r.dhr = st.dhr /\ r.rk = st.rk /\ r.cks = cks /\ r.ns = ns
          /\ r.ckr = st.ckr /\ r.nr = st.nr /\ r.pn = st.pn /\ r.skipped = st.skipped
  BY <1>1 DEF RatchetState
<1> QED
  BY <1>2, <1>4, <1>5 DEF ns

(* The end with the new key pair sends. *)
LEMMA LeaderSends ==
    ASSUME NEW x \in RatchetState, NEW y \in RatchetState,
           NEW M \in SUBSET Message, NEW U \in SUBSET M,
           NEW N \in SUBSET Message, NEW V \in SUBSET N,
           Paired(x, M, U, y, N, V),
           NEW m \in Message, m.dh = x.dhs, m.n = x.ns, m.pn = x.pn, m.key = x.cks
    PROVE  Paired(AfterEncrypt(x), M \cup {m}, U \cup {m}, y, N, V)
<1> DEFINE r == AfterEncrypt(x)
<1>1. x.cks = [root |-> x.rk, step |-> x.ns] /\ x.rk \in RootKey /\ x.ns \in Nat
  BY ChainFields, SessionFields DEF Paired
<1>2. /\ r \in RatchetState /\ r.dhs = x.dhs /\ r.dhr = x.dhr /\ r.rk = x.rk
      /\ r.cks = [root |-> x.rk, step |-> r.ns] /\ r.ns = x.ns + 1
      /\ r.ckr = x.ckr /\ r.nr = x.nr /\ r.pn = x.pn /\ r.skipped = x.skipped
  BY <1>1, EncryptFields
<1> HIDE DEF r
<1>3. Lined(M \cup {m}, r.dhs, r.rk, r.ns)
  BY <1>1, <1>2, LinedOn DEF Paired
<1>4. Tracks(N, V, r, y.ns) /\ \A v \in V : v.dh = r.dhr \/ Stashed(r, v)
  BY <1>2 DEF Paired, Tracks, Stashed
<1>5. Tracks(M \cup {m}, U \cup {m}, y, x.pn)
  <2>1. Tracks(M, U, y, x.pn) /\ m.dh # y.dhr
    BY DEF Paired
  <2> QED
    BY <2>1 DEF Tracks, Lined
<1>6. /\ r.dhr = y.dhs /\ r.dhs # y.dhr /\ r.rk = KdfRootKey(y.rk, DH(r.dhs, y.dhs))
      /\ r.cks = [root |-> r.rk, step |-> r.ns]
      /\ IF y.cks = None THEN y.ns = 0 /\ r.ckr = None
         ELSE y.cks = [root |-> y.rk, step |-> y.ns] /\ r.ckr # None /\ r.ckr.root = y.rk
  BY <1>2 DEF Paired
<1>7. /\ \A u \in M \cup {m} : u.dh = r.dhs => u.pn = r.pn /\ u \in U \cup {m}
      /\ \A u \in U \cup {m} : u.dh \in {y.dhr, r.dhs} \/ Stashed(y, u)
      /\ \A i \in 1 .. Len(y.skipped) : y.skipped[i].dh # r.dhs
  BY <1>2 DEF Paired
<1>8. Lined(N, y.dhs, y.rk, y.ns) /\ Tracks(M \cup {m}, U \cup {m}, y, r.pn)
  BY <1>2, <1>5 DEF Paired
<1>9. Paired(r, M \cup {m}, U \cup {m}, y, N, V)
  BY <1>3, <1>4, <1>6, <1>7, <1>8 DEF Paired
<1> QED
  BY <1>9 DEF r

(* The other end sends under the chain the first one is in. *)
LEMMA FollowerSends ==
    ASSUME NEW x \in RatchetState, NEW y \in RatchetState, y.cks # None,
           NEW M \in SUBSET Message, NEW U \in SUBSET M,
           NEW N \in SUBSET Message, NEW V \in SUBSET N,
           Paired(x, M, U, y, N, V),
           NEW m \in Message, m.dh = y.dhs, m.n = y.ns, m.key = y.cks
    PROVE  Paired(x, M, U, AfterEncrypt(y), N \cup {m}, V \cup {m})
<1> DEFINE r == AfterEncrypt(y)
<1>1. y.cks = [root |-> y.rk, step |-> y.ns] /\ y.rk \in RootKey /\ y.ns \in Nat
  BY ChainFields, SessionFields DEF Paired
<1>2. /\ r \in RatchetState /\ r.dhs = y.dhs /\ r.dhr = y.dhr /\ r.rk = y.rk
      /\ r.cks = [root |-> y.rk, step |-> r.ns] /\ r.ns = y.ns + 1
      /\ r.ckr = y.ckr /\ r.nr = y.nr /\ r.pn = y.pn /\ r.skipped = y.skipped
  BY <1>1, EncryptFields
<1>3. r.cks # None
  <2>1. [root |-> y.rk, step |-> r.ns] \in ChainKey
    BY <1>1, <1>2, ChainFields DEF ChainKey
  <2> QED
    BY <1>2, <2>1, NoneAssumption
<1> HIDE DEF r
<1>4. Lined(N \cup {m}, r.dhs, r.rk, r.ns)
  BY <1>1, <1>2, LinedOn DEF Paired
<1>5. Tracks(M, U, r, x.pn) /\ \A u \in U : u.dh \in {r.dhr, x.dhs} \/ Stashed(r, u)
  BY <1>2 DEF Paired, Tracks, Stashed
<1>6. Tracks(N \cup {m}, V \cup {m}, x, r.ns)
  <2>1. /\ Tracks(N, V, x, y.ns) /\ x.dhr = y.dhs /\ x.ckr # None /\ x.ckr.root = y.rk
        /\ x.nr \in Nat
    BY ChainFields DEF Paired
  <2>2. x.ckr.step = x.nr /\ x.nr <= y.ns /\ ~(m.n < x.nr) /\ x.nr <= r.ns
    BY <1>1, <1>2, <2>1 DEF Tracks
  <2> QED
    BY <1>2, <1>4, <2>1, <2>2 DEF Tracks
<1>7. /\ x.dhr = r.dhs /\ x.dhs # r.dhr /\ x.rk = KdfRootKey(r.rk, DH(x.dhs, r.dhs))
      /\ x.cks = [root |-> x.rk, step |-> x.ns] /\ x.ckr # None /\ x.ckr.root = r.rk
      /\ r.cks = [root |-> r.rk, step |-> r.ns]
      /\ Lined(M, x.dhs, x.rk, x.ns)
      /\ \A u \in M : u.dh = x.dhs => u.pn = x.pn /\ u \in U
      /\ \A i \in 1 .. Len(r.skipped) : r.skipped[i].dh # x.dhs
  BY <1>2 DEF Paired
<1>8. \A v \in V \cup {m} : v.dh = x.dhr \/ Stashed(x, v)
  BY DEF Paired
<1>9. Paired(x, M, U, r, N \cup {m}, V \cup {m})
  BY <1>3, <1>4, <1>5, <1>6, <1>7, <1>8 DEF Paired
<1> QED
  BY <1>9 DEF r

(* The end at s opens any message that is unread there; one that has no     *)
(* session yet, the one the session is made from.                           *)
LEMMA LinkedReads ==
    ASSUME NEW s \in RatchetState, NEW t \in RatchetState,
           NEW M \in SUBSET Message, NEW U \in SUBSET M,
           NEW N \in SUBSET Message, Numbered(N), NEW V \in SUBSET N,
           Linked(s, M, U, t, N, V),
           NEW m \in V, m.tagged,
           \/ Few(V)
           \/ s.cks = None /\ s.ckr = None /\ s.skipped = <<>> /\ m.n = 0,
           NEW fresh \in KeyPair, fresh # s.dhs, \A u \in M : u.dh # fresh
    PROVE  /\ RatchetDecrypt(s, m, fresh).ok
           /\ Linked(RatchetDecrypt(s, m, fresh).st, M, U, t, N, V \ {m})
<1>1. t.ns \in Nat /\ t.pn \in Nat /\ s.rk \in RootKey /\ s.ns \in Nat
  BY ChainFields, SessionFields
<1>2. CASE Paired(s, M, U, t, N, V)
  <2>1. s.cks # None
    <3>1. [root |-> s.rk, step |-> s.ns] \in ChainKey
      BY <1>1 DEF ChainKey
    <3> QED
      BY <1>2, <3>1, NoneAssumption DEF Paired
  <2>2. Few(V)
    BY <2>1
  <2> QED
    BY <1>1, <1>2, <2>2, LeaderReads DEF Linked
<1>3. CASE Paired(t, N, V, s, M, U)
  <2>1. CASE m.dh = t.dhs
    <3>1. fresh # t.dhr
      BY <1>3 DEF Paired
    <3>2. /\ RatchetDecrypt(s, m, fresh).ok
          /\ Paired(RatchetDecrypt(s, m, fresh).st, M, U, t, N, V \ {m})
      BY <1>3, <2>1, <3>1, FollowerTurns
    <3> QED
      BY <3>2 DEF Linked
  <2>2. CASE m.dh # t.dhs
    <3>1. Few(V)
      <4> SUFFICES ASSUME s.ckr = None, s.skipped = <<>> PROVE FALSE
        OBVIOUS
      <4>1. m.dh = s.dhr \/ Stashed(s, m)
        BY <1>3, <2>2 DEF Paired
      <4>2. ~Stashed(s, m)
        BY DEF Stashed
      <4>3. m.dh # s.dhr
        BY <1>3 DEF Paired, Tracks
      <4> QED
        BY <4>1, <4>2, <4>3
    <3> QED
      BY <1>1, <1>3, <2>2, <3>1, FollowerReads DEF Linked
  <2> QED
    BY <2>1, <2>2
<1> QED
  BY <1>2, <1>3 DEF Linked

(* The end at s sends. *)
LEMMA LinkedSends ==
    ASSUME NEW s \in RatchetState, s.cks # None, NEW t \in RatchetState,
           NEW M \in SUBSET Message, NEW U \in SUBSET M,
           NEW N \in SUBSET Message, NEW V \in SUBSET N,
           Linked(s, M, U, t, N, V),
           NEW m \in Message, m.dh = s.dhs, m.n = s.ns, m.pn = s.pn, m.key = s.cks
    PROVE  Linked(AfterEncrypt(s), M \cup {m}, U \cup {m}, t, N, V)
BY LeaderSends, FollowerSends DEF Linked

(* A message just sent has a number its chain did not have. *)
LEMMA LinkedNumbers ==
    ASSUME NEW s \in RatchetState, NEW t \in RatchetState,
           NEW M \in SUBSET Message, Numbered(M), NEW U, NEW N, NEW V,
           Linked(s, M, U, t, N, V),
           NEW m \in Message, m.dh = s.dhs, m.n = s.ns
    PROVE  Numbered(M \cup {m})
<1>1. Lined(M, s.dhs, s.rk, s.ns) /\ s.ns \in Nat
  BY ChainFields DEF Linked, Paired
<1>2. ASSUME NEW u \in M, u.dh = m.dh PROVE u.n # m.n
  <2>1. u.n < s.ns /\ u.n \in Nat
    BY <1>1, <1>2, MessageFields DEF Lined
  <2> QED
    BY <1>1, <2>1
<1> QED
  BY <1>2 DEF Numbered

(* A session begins linked to the one that its opening will make. *)
LEMMA LinkedAtFirst ==
    ASSUME TypeOK, NEW p \in Party
    PROVE  Linked(InitiatedSession(p), {}, {},
                  RespondedSession(Peer(p), NewKey(p, 0)), {}, {})
<1> DEFINE x == InitiatedSession(p)
           y == RespondedSession(Peer(p), NewKey(p, 0))
           rk == KdfRootKey([secret |-> X3DHSecret(NewKey(p, 0), SignedPreKey(Peer(p))),
                             path |-> <<>>],
                            DH(NewKey(p, 1), SignedPreKey(Peer(p))))
<1>1. /\ x.dhs = NewKey(p, 1) /\ x.dhr = SignedPreKey(Peer(p)) /\ x.rk = rk
      /\ x.cks = [root |-> rk, step |-> 0] /\ x.ckr = None
      /\ x.ns = 0 /\ x.nr = 0 /\ x.pn = 0 /\ x.skipped = <<>>
  BY DEF InitiatedSession, InitSender, FirstChainKey
<1>2. /\ y.dhs = SignedPreKey(Peer(p)) /\ y.dhr = None
      /\ y.rk = [secret |-> X3DHSecret(NewKey(p, 0), SignedPreKey(Peer(p))), path |-> <<>>]
      /\ y.cks = None /\ y.ckr = None
      /\ y.ns = 0 /\ y.nr = 0 /\ y.pn = 0 /\ y.skipped = <<>>
  BY DEF RespondedSession, InitReceiver
<1>3. NewKey(p, 1) # None
  BY KeyTypes, NoneAssumption
<1> HIDE DEF x, y
<1>4. Paired(x, {}, {}, y, {}, {})
  BY <1>1, <1>2, <1>3 DEF Paired, Tracks, Lined, Stashed
<1> QED
  BY <1>4 DEF Linked, x, y

-----------------------------------------------------------------------------
(* The conversation. *)

(* Calls find the saved session. *)
LEMMA StoredIsSaved == ASSUME TalkInv, NEW p \in Party PROVE Stored(p) = disk[p]
BY DEF TalkInv, Stored

(* What p has not read is from its peer. *)
LEMMA UnreadIsFromPeer ==
    ASSUME TypeOK, TalkInv, NEW p \in Party
    PROVE  /\ \A m \in sent \ plain[p] : m.from = Peer(p) /\ m \in Unread(p)
           /\ Unread(p) = {m \in From(Peer(p)) : m \notin plain[p]}
           /\ Unread(p) \subseteq From(Peer(p)) /\ From(p) \subseteq sent
           /\ From(p) \in SUBSET Message
<1>1. \A m \in sent \ plain[p] : m.from \in Party /\ m.from # p
  BY SentType DEF TalkInv
<1>2. \A q \in Party : q # p => q = Peer(p)
  BY SessionAssumption DEF Peer
<1>3. \A m \in sent \ plain[p] : m.from = Peer(p)
  BY <1>1, <1>2
<1>4. Peer(p) # p
  BY PeerDiffers
<1> QED
  BY <1>1, <1>3, <1>4 DEF TalkInv, TypeOK, Unread, From

(* The session at hand is one, and its key pair is no news. *)
LEMMA AtHandType ==
    ASSUME KeyInv, NEW p \in Party, NEW s \in AtHand(p)
    PROVE  /\ s \in RatchetState /\ KnownIn(gen, s.dhs)
           /\ disk[p] # None => s = disk[p]
           /\ disk[p] = None => s.cks = None /\ s.ckr = None /\ s.skipped = <<>>
<1>1. TypeOK
  BY DEF KeyInv
<1>2. CASE disk[p] # None
  <2>1. s = disk[p] /\ s \in Stores(p)
    BY <1>2 DEF AtHand, Stores
  <2>2. s \in RatchetState /\ SoundSession(gen, p, s)
    BY <1>1, <2>1, StoresType DEF KeyInv
  <2> QED
    BY <1>2, <2>1, <2>2 DEF SoundSession
<1>3. CASE disk[p] = None
  <2>1. PICK o \in Openings : s = RespondedSession(p, o.x3dh)
    BY <1>3 DEF AtHand
  <2>2. s \in RatchetState
    BY <1>1, <2>1, SentType, RespondedSessionType DEF Openings
  <2>3. s.dhs = SignedPreKey(p) /\ s.cks = None /\ s.ckr = None /\ s.skipped = <<>>
    BY <2>1 DEF RespondedSession, InitReceiver
  <2>4. KnownIn(gen, SignedPreKey(p))
    BY DEF KeyInv, KnownIn, SignedPreKey
  <2> QED
    BY <1>3, <2>2, <2>3, <2>4
<1> QED
  BY <1>2, <1>3

(* From either end. *)
LEMMA LinkedFrom ==
    ASSUME EndsLinked, NEW p \in Party
    PROVE  \E s \in AtHand(p), t \in AtHand(Peer(p)) :
              Linked(s, From(p), Unread(Peer(p)), t, From(Peer(p)), Unread(p))
<1>1. PICK q \in Party : \E s \in AtHand(q), t \in AtHand(Peer(q)) :
              Linked(s, From(q), Unread(Peer(q)), t, From(Peer(q)), Unread(q))
  BY DEF EndsLinked
<1>2. p = q \/ (p = Peer(q) /\ q = Peer(p))
  BY SessionAssumption DEF Peer
<1> QED
  BY <1>1, <1>2 DEF Linked

(* A reader with a session opens any unread message, one without the        *)
(* opening.                                                                 *)
LEMMA UnreadOpens ==
    ASSUME ReadInv, WithinSkip, NEW p \in Party, NEW m \in Unread(p),
           disk[p] # None \/ m \in Openings
    PROVE  /\ CanStart(p, m) /\ Attempt(p, m).ok
           /\ Attempt(p, m).st \in RatchetState
           /\ \E t \in AtHand(Peer(p)) :
                 Linked(Attempt(p, m).st, From(p), Unread(Peer(p)),
                        t, From(Peer(p)), Unread(p) \ {m})
<1> DEFINE q == Peer(p)
<1>1. TypeOK /\ KeyInv /\ TalkInv /\ q \in Party
  BY PeerType DEF ReadInv, KeyInv
<1>2. /\ m \in sent /\ m.tagged /\ Unread(p) \subseteq From(q) /\ Unread(q) \subseteq From(p)
      /\ From(p) \in SUBSET Message /\ From(q) \in SUBSET Message /\ From(p) \subseteq sent
  BY <1>1, UnreadIsFromPeer, PeerOfPeer DEF TalkInv, Unread
<1>3. PICK s \in AtHand(p), t \in AtHand(q) :
              Linked(s, From(p), Unread(q), t, From(q), Unread(p))
  BY <1>2, LinkedFrom DEF ReadInv
<1>4. /\ s \in RatchetState /\ t \in RatchetState /\ KnownIn(gen, s.dhs)
      /\ disk[p] # None => s = disk[p]
      /\ disk[p] = None => s.cks = None /\ s.ckr = None /\ s.skipped = <<>>
  BY <1>1, <1>3, AtHandType
<1>5. s = IF Stored(p) # None THEN Stored(p) ELSE RespondedSession(p, m.x3dh)
  <2>1. CASE disk[p] # None
    BY <1>1, <1>4, <2>1, StoredIsSaved
  <2>2. CASE disk[p] = None
    <3>1. PICK o \in Openings : s = RespondedSession(p, o.x3dh)
      BY <1>3, <2>2 DEF AtHand
    <3>2. o = m
      BY <1>1, <2>2, <3>1 DEF TalkInv
    <3> QED
      BY <1>1, <2>2, <3>1, <3>2, StoredIsSaved
  <2> QED
    BY <2>1, <2>2
<1>6. /\ NewKey(p, 0) \in KeyPair /\ ~KnownIn(gen, NewKey(p, 0))
      /\ \A u \in From(p) : u.dh # NewKey(p, 0)
      /\ NewKey(p, 0) # s.dhs
  <2>1. NewKey(p, 0) \in KeyPair /\ ~KnownIn(gen, NewKey(p, 0))
    <3>1. NewKey(p, 0) \in KeyPair
      BY <1>1, KeyTypes
    <3>2. gen[p] \in Nat
      BY <1>1 DEF TypeOK
    <3>3. NewKey(p, 0) = <<p, gen[p]>>
      BY <3>2 DEF NewKey
    <3> QED
      BY <3>1, <3>2, <3>3 DEF KnownIn
  <2>2. \A u \in From(p) : KnownIn(gen, u.dh)
    BY <1>1, <1>2 DEF KeyInv
  <2> QED
    BY <1>4, <2>1, <2>2
<1>7. \/ Few(Unread(p))
      \/ s.cks = None /\ s.ckr = None /\ s.skipped = <<>> /\ m.n = 0
  <2>1. CASE disk[p] # None
    <3>1. Unread(p) = Backlog(p)
      BY <1>1, <2>1 DEF TalkInv, Openings, Backlog, Unread
    <3>2. IsFiniteSet(Unread(p))
      BY <1>1, FS_Subset DEF TalkInv, Unread
    <3> QED
      BY <3>1, <3>2 DEF WithinSkip, Few
  <2>2. CASE disk[p] = None
    BY <1>1, <1>4, <2>2 DEF TalkInv
  <2> QED
    BY <2>1, <2>2
<1>8. Numbered(From(q))
  BY <1>1 DEF TalkInv
<1>9. /\ RatchetDecrypt(s, m, NewKey(p, 0)).ok
      /\ Linked(RatchetDecrypt(s, m, NewKey(p, 0)).st,
                From(p), Unread(q), t, From(q), Unread(p) \ {m})
  BY <1>2, <1>3, <1>4, <1>6, <1>7, <1>8, LinkedReads
<1>10. Attempt(p, m) = RatchetDecrypt(s, m, NewKey(p, 0))
  BY <1>5 DEF Attempt
<1>11. CanStart(p, m)
  BY <1>1, StoredIsSaved DEF CanStart, Openings
<1> QED
  BY <1>1, <1>2, <1>9, <1>10, <1>11, AttemptType

-----------------------------------------------------------------------------
(* The steps of the conversation. *)

(* A message that was not sent before goes to the server and, acknowledged, *)
(* into its sender's cache; it is unread at the other end.                  *)
LEMMA PostsOne ==
    ASSUME PlainTalk, TypeOK, TalkInv, NEW p \in Party, NEW kind \in Kind,
           NEW outcome \in Outcome, NEW m, m.from = p, m \notin sent,
           Post(p, kind, outcome, m)
    PROVE  /\ sent' = sent \cup {m} /\ pushed' = pushed
           /\ m \in plain'[p] /\ \A q \in Party : plain[q] \subseteq plain'[q]
           /\ From(p)' = From(p) \cup {m} /\ From(Peer(p))' = From(Peer(p))
           /\ Unread(p)' = Unread(p) /\ Unread(Peer(p))' = Unread(Peer(p)) \cup {m}
<1>1. outcome = "acknowledged" /\ "kept" \in Form[kind]
  BY DEF PlainTalk
<1>2. /\ sent' = sent \cup {m} /\ pushed' = pushed
      /\ plain' = [plain EXCEPT ![p] = @ \cup {m}]
  BY <1>1 DEF Post
<1>3. Peer(p) \in Party /\ Peer(p) # p
  BY PeerDiffers
<1>4. /\ plain'[p] = plain[p] \cup {m} /\ plain'[Peer(p)] = plain[Peer(p)]
      /\ \A q \in Party : plain[q] \subseteq plain'[q]
  BY <1>2, <1>3 DEF TypeOK
<1>5. m \notin plain[Peer(p)] /\ pushed[p] = {} /\ pushed[Peer(p)] = {}
  BY <1>3 DEF TypeOK, TalkInv
<1>6. From(p)' = From(p) \cup {m} /\ From(Peer(p))' = From(Peer(p))
  BY <1>2, <1>3 DEF From
<1>7. Unread(p)' = Unread(p)
  BY <1>2, <1>4 DEF Unread
<1>8. Unread(Peer(p))' = Unread(Peer(p)) \cup {m}
  BY <1>2, <1>3, <1>4, <1>5 DEF Unread
<1> QED
  BY <1>2, <1>4, <1>6, <1>7, <1>8

(* The next message of a session was not sent before. *)
LEMMA LinkedAbsent ==
    ASSUME NEW s \in RatchetState, NEW M, NEW U, NEW t, NEW N, NEW V,
           Linked(s, M, U, t, N, V), NEW m, m.dh = s.dhs, m.n = s.ns
    PROVE  m \notin M
<1>1. PICK root : Lined(M, s.dhs, root, s.ns)
  BY DEF Linked, Paired
<1>2. s.ns \in Nat
  BY ChainFields
<1> SUFFICES ASSUME m \in M PROVE FALSE
  OBVIOUS
<1>3. m.n < s.ns
  BY <1>1 DEF Lined
<1> QED
  BY <1>2, <1>3

(* A message is sent under s, whose other end is at t, or will be once it   *)
(* has the message.                                                         *)
LEMMA SendReads ==
    ASSUME PlainTalk, ReadInv, KeyInv', NEW p \in Party, NEW kind \in Kind,
           NEW outcome \in Outcome,
           NEW s \in RatchetState, s.cks # None, NEW t \in RatchetState,
           Linked(s, From(p), Unread(Peer(p)), t, From(Peer(p)), Unread(p)),
           NEW m \in Message, m.from = p, m.tagged,
           m.dh = s.dhs, m.n = s.ns, m.pn = s.pn, m.key = s.cks,
           m.x3dh # None => sent = {} /\ m.n = 0,
           IF sent = {} THEN m.x3dh # None /\ p \in Initiator ELSE disk[p] # None,
           \/ t \in AtHand(Peer(p))
           \/ m.x3dh # None /\ t = RespondedSession(Peer(p), m.x3dh),
           SaveSession(p, AfterEncrypt(s)), Post(p, kind, outcome, m)
    PROVE  ReadInv'
<1> DEFINE q == Peer(p)
<1>1. /\ TypeOK /\ TypeOK' /\ KeyInv /\ TalkInv /\ q \in Party /\ q # p
      /\ \A r \in Party : r = p \/ r = q
  BY PeerDiffers, SessionAssumption DEF ReadInv, KeyInv
<1>2. /\ From(p) \in SUBSET Message /\ From(q) \in SUBSET Message
      /\ Unread(q) \subseteq From(p) /\ Unread(p) \subseteq From(q)
  BY <1>1, UnreadIsFromPeer, PeerOfPeer
<1>3. m \notin sent
  BY LinkedAbsent DEF From
<1>4. /\ sent' = sent \cup {m} /\ pushed' = pushed
      /\ m \in plain'[p] /\ \A r \in Party : plain[r] \subseteq plain'[r]
      /\ From(p)' = From(p) \cup {m} /\ From(q)' = From(q)
      /\ Unread(p)' = Unread(p) /\ Unread(q)' = Unread(q) \cup {m}
  BY <1>1, <1>3, PostsOne
<1>5. AfterEncrypt(s) \in RatchetState /\ AfterEncrypt(s) # None
  BY AfterEncryptType, NoneAssumption DEF CanEncrypt
<1>6. /\ disk'[p] = AfterEncrypt(s) /\ disk'[q] = disk[q]
      /\ cache'[p] = AfterEncrypt(s) /\ cache'[q] = cache[q]
  BY <1>1 DEF SaveSession, TypeOK
<1>7. m.x3dh # None => disk[q] = None
  BY <1>1 DEF TalkInv
<1>8. Openings' = IF m.x3dh # None THEN Openings \cup {m} ELSE Openings
  BY <1>4 DEF Openings
<1>9. AfterEncrypt(s) \in AtHand(p)'
  BY <1>5, <1>6 DEF AtHand
<1>10. t \in AtHand(q)'
  <2>1. CASE t \in AtHand(q)
    BY <1>4, <1>6, <1>8, <2>1 DEF AtHand, RespondedSession, SignedPreKey
  <2>2. CASE m.x3dh # None /\ t = RespondedSession(q, m.x3dh)
    <3>1. m \in Openings' /\ m \in Unread(q)' /\ disk'[q] = None
      BY <1>4, <1>6, <1>7, <1>8, <2>2
    <3> QED
      BY <2>2, <3>1 DEF AtHand, RespondedSession, SignedPreKey
  <2> QED
    BY <2>1, <2>2
<1>11. Linked(AfterEncrypt(s), From(p)', Unread(q)', t, From(q)', Unread(p)')
  <2>1. Linked(AfterEncrypt(s), From(p) \cup {m}, Unread(q) \cup {m}, t, From(q), Unread(p))
    BY <1>2, LinkedSends
  <2> QED
    BY <1>4, <2>1
<1>12. EndsLinked'
  BY <1>1, <1>9, <1>10, <1>11 DEF EndsLinked
<1>13. Numbered(From(p) \cup {m})
  <2>1. Numbered(From(p))
    BY <1>1 DEF TalkInv
  <2> QED
    BY <1>2, <2>1, LinkedNumbers
<1>14. TalkInv'
  <2>1. IsFiniteSet(sent')
    BY <1>1, <1>4, FS_AddElement DEF TalkInv
  <2>2. \A r \in Party : cache'[r] \in {None, disk'[r]} /\ pushed'[r] = {}
    BY <1>1, <1>4, <1>6 DEF TalkInv
  <2>3. \A u \in sent' : u.tagged /\ u \in plain'[u.from]
    BY <1>1, <1>4, SentType DEF TalkInv
  <2>4. \A r \in Party : Numbered(From(r)')
    <3>1. Numbered(From(p)')
      BY <1>4, <1>13
    <3>2. Numbered(From(q)')
      <4>1. Numbered(From(q))
        BY <1>1 DEF TalkInv
      <4> QED
        BY <1>4, <4>1
    <3> QED
      BY <1>1, <3>1, <3>2
  <2>5. /\ \A o1, o2 \in Openings' : o1 = o2
        /\ \A o \in Openings' : o.n = 0
    BY <1>1, <1>8 DEF TalkInv, Openings
  <2>6. ASSUME NEW o \in Openings', NEW r \in Party, o \in Unread(r)'
        PROVE  disk'[r] = None
    <3>1. CASE r = p
      <4>1. o \in Unread(p) /\ o # m
        BY <1>3, <1>4, <2>6, <3>1 DEF Unread
      <4>2. o \in Openings /\ sent # {}
        BY <1>8, <2>6, <4>1 DEF Openings
      <4>3. disk[p] = None
        BY <1>1, <4>1, <4>2 DEF TalkInv
      <4> QED
        BY <4>2, <4>3
    <3>2. CASE r = q
      <4>1. CASE o \in Openings
        <5>1. o \in Unread(q)
          BY <1>3, <1>4, <2>6, <3>2, <4>1 DEF Openings
        <5> QED
          BY <1>1, <1>6, <3>2, <4>1, <5>1 DEF TalkInv
      <4>2. CASE o \notin Openings
        BY <1>6, <1>7, <1>8, <2>6, <3>2, <4>2
      <4> QED
        BY <4>1, <4>2
    <3> QED
      BY <1>1, <3>1, <3>2
  <2>7. \A r \in Initiator : disk'[r] = None => sent' = {}
    BY <1>1, <1>5, <1>6, SessionAssumption DEF TalkInv, PlainTalk
  <2>8. sent' # {} /\ Openings' # {}
    BY <1>1, <1>4, <1>8 DEF TalkInv
  <2> QED
    BY <2>1, <2>2, <2>3, <2>4, <2>5, <2>6, <2>7, <2>8 DEF TalkInv
<1> QED
  BY <1>12, <1>14 DEF ReadInv

(* The two ways a message is sent. *)
LEMMA SendInSessionReads ==
    ASSUME PlainTalk, ReadInv, KeyInv', NEW p \in Party, NEW kind \in Kind,
           NEW outcome \in Outcome, SendInSession(p, kind, outcome)
    PROVE  ReadInv'
<1>1. TypeOK /\ KeyInv /\ TalkInv /\ Peer(p) \in Party
  BY PeerType DEF ReadInv, KeyInv
<1>2. Stored(p) = disk[p] /\ disk[p] # None /\ sent # {}
  BY <1>1, StoredIsSaved DEF SendInSession, TalkInv
<1>3. PICK s \in AtHand(p), t \in AtHand(Peer(p)) :
          Linked(s, From(p), Unread(Peer(p)), t, From(Peer(p)), Unread(p))
  BY <1>2, LinkedFrom DEF ReadInv
<1>4. s = Stored(p) /\ s \in RatchetState /\ t \in RatchetState
  BY <1>1, <1>2, <1>3, AtHandType
<1>5. s.cks # None
  BY <1>4 DEF SendInSession, CanEncrypt
<1> DEFINE m == NewMessage(p, kind, s, None)
<1>6. /\ m.from = p /\ m.x3dh = None /\ m.tagged
      /\ m.dh = s.dhs /\ m.n = s.ns /\ m.pn = s.pn /\ m.key = s.cks
  BY DEF NewMessage, Header, PlainTalk
<1>7. m \in Message
  BY <1>1, <1>4, <1>5, NewMessageType
<1>8. SaveSession(p, AfterEncrypt(s)) /\ Post(p, kind, outcome, m)
  BY <1>4 DEF SendInSession
<1> HIDE DEF m
<1> QED
  BY <1>2, <1>3, <1>4, <1>5, <1>6, <1>7, <1>8, SendReads

LEMMA SendFirstReads ==
    ASSUME PlainTalk, ReadInv, KeyInv', NEW p \in Party, NEW kind \in Kind,
           NEW outcome \in Outcome, SendFirst(p, kind, outcome)
    PROVE  ReadInv'
<1> DEFINE s == InitiatedSession(p)
           t == RespondedSession(Peer(p), NewKey(p, 0))
           m == NewMessage(p, kind, s, NewKey(p, 0))
<1>1. TypeOK /\ TalkInv /\ Peer(p) \in Party /\ NewKey(p, 0) \in KeyPair
  BY PeerType, KeyTypes DEF ReadInv, KeyInv
<1>2. p \in Initiator /\ sent = {}
  BY <1>1, StoredIsSaved DEF SendFirst, TalkInv
<1>3. /\ s \in RatchetState /\ s.cks # None /\ s.ns = 0
      /\ t \in RatchetState
  BY <1>1, InitiatedSessionType, InitiatedSessionChain, RespondedSessionType
     DEF InitiatedSession, InitSender
<1>4. Linked(s, From(p), Unread(Peer(p)), t, From(Peer(p)), Unread(p))
  <2>1. /\ From(p) = {} /\ Unread(Peer(p)) = {}
        /\ From(Peer(p)) = {} /\ Unread(p) = {}
    BY <1>2 DEF From, Unread
  <2> QED
    BY <1>1, <2>1, LinkedAtFirst
<1>5. /\ m.from = p /\ m.x3dh = NewKey(p, 0) /\ m.tagged
      /\ m.dh = s.dhs /\ m.n = s.ns /\ m.pn = s.pn /\ m.key = s.cks
  BY DEF NewMessage, Header, PlainTalk
<1>6. m \in Message
  BY <1>1, <1>3, NewMessageType
<1>7. m.x3dh # None
  BY <1>1, <1>5, NoneAssumption
<1>8. t = RespondedSession(Peer(p), m.x3dh)
  BY <1>5
<1>9. SaveSession(p, AfterEncrypt(s)) /\ Post(p, kind, outcome, m)
  BY DEF SendFirst
<1> HIDE DEF s, t, m
<1> QED
  BY <1>2, <1>3, <1>4, <1>5, <1>6, <1>7, <1>8, <1>9, SendReads

(* Nothing that matters changes; a session may leave memory. *)
LEMMA ReadUnchanged ==
    ASSUME ReadInv, KeyInv', UNCHANGED <<disk, sent, plain, pushed>>,
           \A p \in Party : cache'[p] \in {cache[p], None}
    PROVE  ReadInv'
<1>1. /\ \A p \in Party : From(p)' = From(p)
      /\ \A p \in Party : Unread(p)' = Unread(p)
      /\ Openings' = Openings
  BY DEF From, Unread, Openings
<1>2. \A p \in Party : AtHand(p)' = AtHand(p)
  BY <1>1 DEF AtHand, RespondedSession, SignedPreKey
<1>3. EndsLinked' <=> EndsLinked
  BY <1>1, <1>2, PeerType DEF EndsLinked
<1>4. TalkInv'
  <2>1. /\ IsFiniteSet(sent')
        /\ \A p \in Party : cache'[p] \in {None, disk'[p]} /\ pushed'[p] = {}
        /\ \A m \in sent' : m.tagged /\ m \in plain'[m.from]
        /\ \A p \in Initiator : disk'[p] = None => sent' = {}
        /\ sent' = {} => \A p \in Party : disk'[p] = None
    BY DEF ReadInv, TalkInv
  <2>2. /\ \A p \in Party : Numbered(From(p)')
        /\ \A o1, o2 \in Openings' : o1 = o2
        /\ \A o \in Openings' : o.n = 0 /\ \A p \in Party : o \in Unread(p)' => disk'[p] = None
        /\ sent' # {} => Openings' # {}
    BY <1>1 DEF ReadInv, TalkInv
  <2> QED
    BY <2>1, <2>2 DEF TalkInv
<1> QED
  BY <1>3, <1>4 DEF ReadInv

(* A message is rendered: it opens, or the session it needs is still to     *)
(* come and nothing changes.                                                *)
LEMMA RenderReads ==
    ASSUME ReadInv, KeyInv', WithinSkip, NEW p \in Party, NEW m \in sent,
           RenderMessage(p, m)
    PROVE  ReadInv'
<1> DEFINE q == Peer(p)
           r == Attempt(p, m).st
<1>1. /\ TypeOK /\ KeyInv /\ TalkInv /\ q \in Party /\ q # p
      /\ \A a \in Party : a = p \/ a = q
      /\ cache[p] \in {None, disk[p]} /\ Stored(p) = disk[p]
  BY PeerDiffers, SessionAssumption, StoredIsSaved DEF ReadInv, KeyInv, TalkInv
<1>2. m \in Unread(p) /\ sent' = sent /\ pushed' = pushed
  BY <1>1, UnreadIsFromPeer DEF RenderMessage
<1>3. CASE disk[p] = None /\ m \notin Openings
  <2>1. m.x3dh = None /\ ~CanStart(p, m) /\ cache[p] = None
    BY <1>1, <1>3 DEF Openings, CanStart
  <2>2. UNCHANGED <<session, plain>>
    BY <2>1 DEF RenderMessage, DecryptSucceeds, DecryptOpens, RebuildOpens,
                DecryptThrows, DecryptFails, RebuildFails, FailsUntraced
  <2> QED
    BY <1>2, <2>2, ReadUnchanged DEF session
<1>4. CASE disk[p] # None \/ m \in Openings
  <2>1. /\ CanStart(p, m) /\ Attempt(p, m).ok /\ r \in RatchetState
        /\ \E t \in AtHand(q) :
              Linked(r, From(p), Unread(q), t, From(q), Unread(p) \ {m})
    BY <1>2, <1>4, UnreadOpens
  <2>2. SaveSession(p, r) /\ plain' = [plain EXCEPT ![p] = @ \cup {m}]
    BY <1>4, <2>1 DEF Openings, RenderMessage, DecryptSucceeds, DecryptOpens, RebuildOpens,
                DecryptThrows, DecryptFails, RebuildFails, FailsUntraced
  <2> HIDE DEF r
  <2>3. /\ disk'[p] = r /\ disk'[q] = disk[q] /\ cache'[p] = r /\ cache'[q] = cache[q]
        /\ plain'[p] = plain[p] \cup {m} /\ plain'[q] = plain[q] /\ r # None
    BY <1>1, <2>1, <2>2, NoneAssumption DEF SaveSession, TypeOK
  <2>4. /\ From(p)' = From(p) /\ From(q)' = From(q)
        /\ Unread(q)' = Unread(q) /\ Unread(p)' = Unread(p) \ {m}
        /\ Openings' = Openings
    BY <1>2, <2>3 DEF From, Unread, Openings
  <2>5. r \in AtHand(p)' /\ AtHand(q)' = AtHand(q)
    BY <2>3, <2>4 DEF AtHand, RespondedSession, SignedPreKey
  <2>6. EndsLinked'
    BY <1>1, <2>1, <2>4, <2>5 DEF EndsLinked
  <2>7. \A o \in Openings' : o \notin Unread(p)'
    BY <1>1, <1>4, <2>4 DEF TalkInv
  <2>8. TalkInv'
    <3>1. /\ IsFiniteSet(sent')
          /\ \A a \in Party : cache'[a] \in {None, disk'[a]} /\ pushed'[a] = {}
      BY <1>1, <1>2, <2>3 DEF TalkInv
    <3>2. \A u \in sent' : u.tagged /\ u \in plain'[u.from]
      BY <1>1, <1>2, <2>3, SentType DEF TalkInv
    <3>3. /\ \A a \in Party : Numbered(From(a)')
          /\ \A o1, o2 \in Openings' : o1 = o2
          /\ \A o \in Openings' : o.n = 0
      BY <1>1, <2>4 DEF TalkInv
    <3>4. \A o \in Openings' : \A a \in Party : o \in Unread(a)' => disk'[a] = None
      BY <1>1, <2>3, <2>4, <2>7 DEF TalkInv
    <3>5. /\ \A a \in Initiator : disk'[a] = None => sent' = {}
          /\ sent' # {} /\ Openings' # {}
      BY <1>1, <1>2, <2>3, <2>4, SessionAssumption DEF TalkInv
    <3> QED
      BY <3>1, <3>2, <3>3, <3>4, <3>5 DEF TalkInv
  <2> QED
    BY <2>6, <2>8 DEF ReadInv
<1> QED
  BY <1>3, <1>4

(* The invariant is inductive while no reader is too far behind. *)
LEMMA ReadInit == Init => ReadInv
<1> SUFFICES ASSUME Init PROVE ReadInv
  OBVIOUS
<1>1. sent = {} /\ \A p \in Party : From(p) = {}
  BY DEF Init, From
<1>2. TalkInv
  BY <1>1, FS_EmptySet DEF Init, TalkInv, Openings, Numbered
<1> QED
  BY <1>1, <1>2, KeyInit DEF ReadInv

LEMMA ReadNext == PlainTalk /\ ReadInv /\ WithinSkip /\ [Next]_vars => ReadInv'
<1> SUFFICES ASSUME PlainTalk, ReadInv, WithinSkip, [Next]_vars PROVE ReadInv'
  OBVIOUS
<1>1. TypeOK /\ KeyInv'
  BY KeyNext DEF ReadInv, KeyInv
<1>2. ASSUME NEW p \in Party, NEW kind \in Kind, NEW outcome \in Outcome,
             EncryptMessage(p, kind, outcome)
      PROVE  ReadInv'
  BY <1>1, <1>2, SendInSessionReads, SendFirstReads DEF EncryptMessage
<1>3. ASSUME NEW p \in Party, NEW m \in sent, RenderMessage(p, m) PROVE ReadInv'
  BY <1>1, <1>3, RenderReads
<1>4. ASSUME NEW p \in Party, NEW m \in sent, SocketMessage(p, m) PROVE FALSE
  BY <1>4 DEF SocketMessage, PlainTalk
<1>5. ASSUME NEW p \in Party, SavePlaintextCache(p) PROVE ReadInv'
  BY <1>1, <1>5, ReadUnchanged DEF SavePlaintextCache, session
<1>6. ASSUME NEW p \in Party, Reload(p) PROVE ReadInv'
  <2>1. plain' = plain
    BY <1>1, <1>6 DEF Reload, PlainTalk, TypeOK
  <2>2. \A q \in Party : cache'[q] \in {cache[q], None}
    BY <1>1, <1>6 DEF Reload, TypeOK
  <2> QED
    BY <1>1, <1>6, <2>1, <2>2, ReadUnchanged DEF Reload
<1>7. CASE UNCHANGED vars
  BY <1>1, <1>7, ReadUnchanged DEF vars
<1> QED
  BY <1>2, <1>3, <1>4, <1>5, <1>6, <1>7 DEF Next

(* Then every unread message can be opened. *)
LEMMA ReadInvReads == ReadInv /\ WithinSkip => UnreadStaysReadable
<1> SUFFICES ASSUME ReadInv, WithinSkip, NEW p \in Party, NEW m \in Unread(p)
             PROVE  \/ CanOpen(p, m)
                    \/ Stored(p) = None /\ \E b \in Unread(p) : CanOpen(p, b)
  BY DEF UnreadStaysReadable
<1>1. CASE disk[p] # None
  BY <1>1, UnreadOpens DEF CanOpen
<1>2. CASE disk[p] = None
  <2>1. Stored(p) = None /\ sent # {}
    BY <1>2, StoredIsSaved DEF ReadInv, Unread
  <2>2. PICK o \in Openings \cap Unread(p) : TRUE
    BY <1>2, <2>1, LinkedFrom DEF ReadInv, AtHand
  <2>3. CanOpen(p, o)
    BY <2>2, UnreadOpens DEF CanOpen
  <2> QED
    BY <2>1, <2>2, <2>3
<1> QED
  BY <1>1, <1>2

(* While no reader falls behind by more than the skipped keys a session     *)
(* keeps, every unread message can be opened: the reader's session opens    *)
(* it, or there is none yet and the opening can be opened.                  *)
THEOREM UnreadStaysReadableHolds ==
    PlainTalk => (Spec /\ []WithinSkip => []UnreadStaysReadable)
<1> SUFFICES ASSUME PlainTalk PROVE Spec /\ []WithinSkip => []UnreadStaysReadable
  OBVIOUS
<1>1. ReadInv /\ WithinSkip /\ [Next]_vars => ReadInv'
  BY ReadNext
<1> QED
  BY ReadInit, <1>1, ReadInvReads, PTL DEF Spec

LEMMA CountInit == Init => CountInv
<1> SUFFICES ASSUME Init PROVE CountInv
  OBVIOUS
<1>1. \A p \in Party : encrypted[p] = 0 /\ encrypted[Peer(p)] = 0
  BY PeerType DEF Init
<1>2. sent = {} /\ IsFiniteSet({}) /\ Cardinality({}) = 0
  BY FS_EmptySet DEF Init
<1> QED
  BY <1>1, <1>2, TypeInit, SessionAssumption DEF CountInv

LEMMA CountNext == CountInv /\ [Next]_vars => CountInv'
<1> SUFFICES ASSUME CountInv, [Next]_vars PROVE CountInv'
  OBVIOUS
<1>1. TypeOK /\ TypeOK'
  BY TypeNext DEF CountInv
<1>2. ASSUME NEW p \in Party, NEW kind \in Kind, NEW outcome \in Outcome,
             EncryptMessage(p, kind, outcome)
      PROVE  CountInv'
  <2> DEFINE q == Peer(p)
  <2>1. q \in Party /\ q # p /\ Peer(q) = p /\ \A a \in Party : a = p \/ a = q
    BY PeerDiffers, PeerOfPeer, SessionAssumption
  <2> HIDE DEF q
  <2>2. PICK m : Post(p, kind, outcome, m)
    BY <1>2 DEF EncryptMessage, SendInSession, SendFirst
  <2>3. encrypted[p] + encrypted[q] < MaxSend
    BY <1>2 DEF EncryptMessage, SendInSession, SendFirst, q
  <2>4. encrypted[p] \in Nat /\ encrypted[q] \in Nat /\ MaxSend \in Nat
    BY <1>1, <2>1, SessionAssumption DEF TypeOK
  <2>5. encrypted'[p] = encrypted[p] + 1 /\ encrypted'[q] = encrypted[q]
    BY <1>1, <2>1, <2>2 DEF Post, TypeOK
  <2>6. IsFiniteSet(sent) /\ Cardinality(sent) <= encrypted[p] + encrypted[q]
    BY DEF CountInv, q
  <2>7. IsFiniteSet(sent') /\ Cardinality(sent') <= Cardinality(sent) + 1
    <3>1. sent' = sent \/ sent' = sent \cup {m}
      BY <2>2 DEF Post
    <3>2. Cardinality(sent) \in Nat
      BY <2>6, FS_CardinalityType
    <3>3. /\ IsFiniteSet(sent \cup {m})
          /\ Cardinality(sent \cup {m}) \in {Cardinality(sent), Cardinality(sent) + 1}
      BY <2>6, FS_AddElement
    <3>4. CASE sent' = sent
      BY <2>6, <3>2, <3>4
    <3>5. CASE sent' = sent \cup {m}
      BY <3>2, <3>3, <3>5
    <3> QED
      BY <3>1, <3>4, <3>5
  <2>8. Cardinality(sent') \in Nat /\ Cardinality(sent) \in Nat
    BY <2>6, <2>7, FS_CardinalityType
  <2>9. /\ Cardinality(sent') <= encrypted'[p] + encrypted'[q]
        /\ Cardinality(sent') <= encrypted'[q] + encrypted'[p]
        /\ encrypted'[p] + encrypted'[q] <= MaxSend
        /\ encrypted'[q] + encrypted'[p] <= MaxSend
    BY <2>3, <2>4, <2>5, <2>6, <2>7, <2>8
  <2> QED
    BY <1>1, <2>1, <2>7, <2>9 DEF CountInv, q
<1>3. CASE UNCHANGED <<sent, encrypted>>
  BY <1>1, <1>3 DEF CountInv
<1> QED
  BY <1>2, <1>3 DEF Next, RenderMessage, SocketMessage, SavePlaintextCache, Reload, vars

(* The opening is not in the backlog, so a short conversation has a small   *)
(* one.                                                                     *)
LEMMA FewMessages ==
    ASSUME MaxSend <= MaxSkip + 2, ReadInv, CountInv
    PROVE  WithinSkip
<1> SUFFICES ASSUME NEW p \in Party PROVE Cardinality(Backlog(p)) <= MaxSkip + 1
  BY DEF WithinSkip
<1>1. CASE sent = {}
  <2>1. Backlog(p) = {} /\ Cardinality({}) = 0
    BY <1>1, FS_EmptySet DEF Backlog, Unread
  <2> QED
    BY <2>1, MaxSkipAssumption
<1>2. CASE sent # {}
  <2>1. PICK o \in sent : o.x3dh # None
    BY <1>2 DEF ReadInv, TalkInv, Openings
  <2>2. IsFiniteSet(sent) /\ Cardinality(sent) <= MaxSend
    <3>1. /\ Cardinality(sent) <= encrypted[p] + encrypted[Peer(p)]
          /\ encrypted[p] + encrypted[Peer(p)] <= MaxSend
          /\ encrypted[p] \in Nat /\ encrypted[Peer(p)] \in Nat
          /\ IsFiniteSet(sent)
      BY PeerType DEF CountInv, TypeOK
    <3>2. Cardinality(sent) \in Nat
      BY <3>1, FS_CardinalityType
    <3> QED
      BY <3>1, <3>2, SessionAssumption
  <2>3. Backlog(p) \subseteq sent \ {o}
    BY <2>1 DEF Backlog, Unread
  <2>4. IsFiniteSet(sent \ {o}) /\ Cardinality(sent \ {o}) = Cardinality(sent) - 1
    BY <2>2, FS_RemoveElement
  <2>5. Cardinality(Backlog(p)) <= Cardinality(sent \ {o})
    BY <2>3, <2>4, FS_Subset
  <2>6. Cardinality(Backlog(p)) \in Nat /\ Cardinality(sent) \in Nat
    BY <2>2, <2>3, <2>4, FS_Subset, FS_CardinalityType
  <2> QED
    BY <2>2, <2>4, <2>5, <2>6, MaxSkipAssumption, SessionAssumption
<1> QED
  BY <1>1, <1>2

(* In a conversation of at most MaxSkip + 2 messages (258 in the code),     *)
(* read in any order, no message is ever lost to its reader.                *)
THEOREM ShortTalkStaysReadable ==
    PlainTalk /\ MaxSend <= MaxSkip + 2 => (Spec => []UnreadStaysReadable)
<1> SUFFICES ASSUME PlainTalk, MaxSend <= MaxSkip + 2
             PROVE  Spec => []UnreadStaysReadable
  OBVIOUS
<1>1. ReadInv /\ CountInv => WithinSkip
  BY FewMessages
<1>2. ReadInv /\ WithinSkip /\ [Next]_vars => ReadInv'
  BY ReadNext
<1> QED
  BY ReadInit, CountInit, <1>1, <1>2, CountNext, ReadInvReads, PTL DEF Spec
-----------------------------------------------------------------------------
(* Calls cut at their awaits.  The loop of skipMessages, iteration by       *)
(* iteration.                                                               *)

LEMMA KdfChainKeyAdds ==
    ASSUME NEW ck \in ChainKey
    PROVE  /\ KdfChainKey(ck, 0) = ck
           /\ \A i, j \in Nat : KdfChainKey(KdfChainKey(ck, i), j) = KdfChainKey(ck, i + j)
<1>1. \A i \in Nat : /\ KdfChainKey(ck, i) \in ChainKey
                     /\ KdfChainKey(ck, i).root = ck.root /\ KdfChainKey(ck, i).step = ck.step + i
  BY KdfTypes DEF KdfChainKey, ChainKey
<1>2. ck.step \in Nat /\ ck.step + 0 = ck.step
  BY KeyFields
<1>3. KdfChainKey(ck, 0) = ck
  BY <1>1, <1>2, KeyFields
<1>4. ASSUME NEW i \in Nat, NEW j \in Nat
      PROVE  KdfChainKey(KdfChainKey(ck, i), j) = KdfChainKey(ck, i + j)
  <2>1. PICK mid \in ChainKey : mid = KdfChainKey(ck, i)
    BY <1>1
  <2>2. /\ KdfChainKey(mid, j) \in ChainKey /\ KdfChainKey(mid, j).root = mid.root
        /\ KdfChainKey(mid, j).step = mid.step + j
    BY KdfTypes DEF KdfChainKey, ChainKey
  <2>3. i + j \in Nat /\ (ck.step + i) + j = ck.step + (i + j)
    BY <1>2
  <2>4. PICK last \in ChainKey : last = KdfChainKey(mid, j)
    BY <2>2
  <2>5. PICK sum \in ChainKey : sum = KdfChainKey(ck, i + j)
    BY <1>1, <2>3
  <2>6. last.root = ck.root /\ sum.root = ck.root
    BY <1>1, <2>1, <2>2, <2>3, <2>4, <2>5
  <2>7. last.step = sum.step
    <3>1. last.step = mid.step + j /\ mid.step = ck.step + i
      BY <1>1, <2>1, <2>2, <2>4
    <3>2. sum.step = ck.step + (i + j)
      BY <1>1, <2>3, <2>5
    <3> QED
      BY <2>3, <3>1, <3>2
  <2> QED
    BY <2>1, <2>4, <2>5, <2>6, <2>7, KeyFields
<1> QED
  BY <1>3, <1>4

LEMMA PassedKeysType ==
    ASSUME NEW base \in RatchetState, base.ckr # None, NEW k \in Nat
    PROVE  PassedKeys(base, k) \in Seq(SkippedKey) /\ Len(PassedKeys(base, k)) = k
<1> DEFINE key(i) == [ dh |-> base.dhr, n |-> base.nr + i - 1, mk |-> KdfChainKey(base.ckr, i - 1) ]
<1>1. \A i \in 1 .. k : key(i) \in SkippedKey
  <2> SUFFICES ASSUME NEW i \in 1 .. k PROVE key(i) \in SkippedKey
    OBVIOUS
  <2>1. base.dhr \in KeyPair \cup {None} /\ base.nr \in Nat /\ base.ckr \in ChainKey
    BY DEF RatchetState
  <2>2. i - 1 \in Nat /\ base.nr + i - 1 \in Nat
    BY <2>1
  <2>3. KdfChainKey(base.ckr, i - 1) \in ChainKey
    BY <2>1, <2>2, KdfTypes
  <2> QED
    BY <2>1, <2>2, <2>3 DEF SkippedKey
<1>2. PassedKeys(base, k) = [i \in 1 .. k |-> key(i)]
  BY DEF PassedKeys
<1> HIDE DEF key
<1>3. [i \in 1 .. k |-> key(i)] \in Seq(SkippedKey)
  BY <1>1, IsASeq
<1>4. Len([i \in 1 .. k |-> key(i)]) = k
  OBVIOUS
<1> QED
  BY <1>2, <1>3, <1>4

LEMMA PassedFields ==
    ASSUME NEW base \in RatchetState, base.ckr # None, NEW k \in Nat
    PROVE  /\ Passed(base, k) \in RatchetState
           /\ Passed(base, k).dhs = base.dhs /\ Passed(base, k).dhr = base.dhr
           /\ Passed(base, k).ckr = KdfChainKey(base.ckr, k) /\ Passed(base, k).ckr # None
           /\ Passed(base, k).nr = base.nr + k
           /\ Passed(base, k).skipped = base.skipped \o PassedKeys(base, k)
<1>1. base.skipped \in Seq(SkippedKey) /\ base.ckr \in ChainKey /\ base.nr \in Nat
  BY DEF RatchetState
<1>2. PICK keys \in Seq(SkippedKey) : keys = base.skipped \o PassedKeys(base, k)
  <2>1. PICK left, right \in Seq(SkippedKey) : left = base.skipped /\ right = PassedKeys(base, k)
    BY <1>1, PassedKeysType
  <2>2. left \o right \in Seq(SkippedKey)
    OBVIOUS
  <2> QED
    BY <2>1, <2>2
<1>3. PICK ck \in ChainKey : ck = KdfChainKey(base.ckr, k)
  BY <1>1, KdfTypes
<1>4. PICK nr \in Nat : nr = base.nr + k
  BY <1>1
<1>5. Passed(base, k) = [base EXCEPT !.skipped = keys, !.ckr = ck, !.nr = nr]
  BY <1>2, <1>3, <1>4 DEF Passed
<1>6. /\ Passed(base, k) \in RatchetState
      /\ Passed(base, k).dhs = base.dhs /\ Passed(base, k).dhr = base.dhr
      /\ Passed(base, k).ckr = ck /\ Passed(base, k).nr = nr /\ Passed(base, k).skipped = keys
  BY <1>5 DEF RatchetState
<1> QED
  BY <1>2, <1>3, <1>4, <1>6, NoneAssumption

(* The loop begins at the state it is given. *)
LEMMA PassedNone ==
    ASSUME NEW base \in RatchetState, base.ckr # None
    PROVE  Passed(base, 0) = base
<1>1. base.skipped \in Seq(SkippedKey) /\ base.ckr \in ChainKey /\ base.nr \in Nat
  BY DEF RatchetState
<1>2. base.skipped \o PassedKeys(base, 0) = base.skipped
  <2>1. PassedKeys(base, 0) = <<>>
    <3>1. PassedKeys(base, 0) \in Seq(SkippedKey) /\ Len(PassedKeys(base, 0)) = 0
      BY PassedKeysType
    <3> QED
      BY <3>1, EmptySeq
  <2> QED
    BY <1>1, <2>1
<1>3. KdfChainKey(base.ckr, 0) = base.ckr
  BY <1>1, KdfChainKeyAdds
<1>4. base.nr + 0 = base.nr
  BY <1>1
<1>5. Passed(base, 0) = [base EXCEPT !.skipped = base.skipped, !.ckr = base.ckr, !.nr = base.nr]
  BY <1>2, <1>3, <1>4 DEF Passed
<1> QED
  BY <1>5 DEF RatchetState

(* An iteration passes one more message. *)
LEMMA PassedNext ==
    ASSUME NEW base \in RatchetState, base.ckr # None, NEW k \in Nat
    PROVE  PassOne(Passed(base, k)) = Passed(base, k + 1)
<1>1. base.skipped \in Seq(SkippedKey) /\ base.ckr \in ChainKey /\ base.nr \in Nat
  BY DEF RatchetState
<1>2. PICK st \in RatchetState : st = Passed(base, k)
  BY PassedFields
<1>3. /\ st.dhr = base.dhr /\ st.ckr = KdfChainKey(base.ckr, k) /\ st.nr = base.nr + k
      /\ st.skipped = base.skipped \o PassedKeys(base, k)
  BY <1>2, PassedFields
<1>4. PICK entry : entry = [dh |-> st.dhr, n |-> st.nr, mk |-> st.ckr]
  OBVIOUS
<1>5. Append(st.skipped, entry) = base.skipped \o PassedKeys(base, k + 1)
  <2>1. PICK old, new \in Seq(SkippedKey) : old = PassedKeys(base, k) /\ new = PassedKeys(base, k + 1)
    BY PassedKeysType
  <2>2. Len(old) = k /\ Len(new) = k + 1
    BY <2>1, PassedKeysType
  <2>3. \A i \in 1 .. k : new[i] = old[i]
    BY <2>1 DEF PassedKeys
  <2>4. new[k + 1] = entry
    <3>1. new[k + 1] = [ dh |-> base.dhr, n |-> base.nr + (k + 1) - 1,
                         mk |-> KdfChainKey(base.ckr, (k + 1) - 1) ]
      BY <2>1 DEF PassedKeys
    <3>2. base.nr + (k + 1) - 1 = base.nr + k /\ (k + 1) - 1 = k
      BY <1>1
    <3> QED
      BY <1>3, <1>4, <3>1, <3>2
  <2>5. entry \in SkippedKey
    BY <2>2, <2>4
  <2>6. new = Append(old, entry)
    BY <2>2, <2>3, <2>4, <2>5
  <2>7. PICK left \in Seq(SkippedKey) : left = base.skipped
    BY <1>1
  <2>8. Append(left \o old, entry) = left \o Append(old, entry)
    BY <2>5
  <2> QED
    BY <1>3, <2>1, <2>6, <2>7, <2>8
<1>6. KdfChainKey(st.ckr, 1) = KdfChainKey(base.ckr, k + 1)
  BY <1>1, <1>3, KdfChainKeyAdds
<1>7. st.nr + 1 = base.nr + (k + 1)
  <2>1. PICK first \in Nat : first = base.nr
    BY <1>1
  <2>2. st.nr = first + k
    BY <1>3, <2>1
  <2>3. (first + k) + 1 = first + (k + 1)
    OBVIOUS
  <2> QED
    BY <2>1, <2>2, <2>3
<1>8. PICK keys, ck, nr : /\ keys = base.skipped \o PassedKeys(base, k + 1)
                          /\ ck = KdfChainKey(base.ckr, k + 1) /\ nr = base.nr + (k + 1)
  OBVIOUS
<1>9. PassOne(st) = [st EXCEPT !.ckr = ck, !.skipped = keys, !.nr = nr]
  BY <1>4, <1>5, <1>6, <1>7, <1>8 DEF PassOne
<1>10. Passed(base, k + 1) = [base EXCEPT !.skipped = keys, !.ckr = ck, !.nr = nr]
  BY <1>8 DEF Passed
<1>11. PICK keys0, ck0, nr0 : st = [base EXCEPT !.skipped = keys0, !.ckr = ck0, !.nr = nr0]
  BY <1>2 DEF Passed
<1>12. [st EXCEPT !.ckr = ck, !.skipped = keys, !.nr = nr]
         = [base EXCEPT !.skipped = keys, !.ckr = ck, !.nr = nr]
  BY <1>11 DEF RatchetState
<1> QED
  BY <1>2, <1>9, <1>10, <1>12

(* The loop that runs to its end is skipMessages. *)
LEMMA PassedAll ==
    ASSUME NEW base \in RatchetState, base.ckr # None, NEW until \in Nat, NEW k \in Nat,
           k = (IF until > base.nr THEN until - base.nr ELSE 0)
    PROVE  Trimmed(Passed(base, k)) = SkipMessages(base, until)
<1>1. PICK keys, ck, nr : /\ keys = base.skipped \o PassedKeys(base, k)
                          /\ ck = KdfChainKey(base.ckr, k) /\ nr = base.nr + k
  OBVIOUS
<1>2. Passed(base, k) = [base EXCEPT !.skipped = keys, !.ckr = ck, !.nr = nr]
  BY <1>1 DEF Passed
<1>3. SkipMessages(base, until) = [base EXCEPT !.skipped = LatestKeys(keys), !.ckr = ck, !.nr = nr]
  BY <1>1 DEF SkipMessages, PassedKeys
<1>4. Trimmed([base EXCEPT !.skipped = keys, !.ckr = ck, !.nr = nr])
        = [base EXCEPT !.skipped = LatestKeys(keys), !.ckr = ck, !.nr = nr]
  BY DEF RatchetState, Trimmed
<1> QED
  BY <1>2, <1>3, <1>4

-----------------------------------------------------------------------------
(* The phases of a call, by what it awaits. *)

LEMMA EnvelopeFields ==
    ASSUME NEW m \in Envelope
    PROVE  /\ m.dh \in KeyPair /\ m.pn \in Nat /\ m.n \in Nat /\ m.key \in ChainKey
           /\ m.x3dh # None => m.x3dh \in KeyPair
BY DEF Envelope

LEMMA TrimmedType ==
    ASSUME NEW st \in RatchetState
    PROVE  Trimmed(st) \in RatchetState
<1>1. PICK keys \in Seq(SkippedKey) : keys = LatestKeys(st.skipped)
  BY LatestKeysType DEF RatchetState
<1>2. Trimmed(st) = [st EXCEPT !.skipped = keys]
  BY <1>1 DEF Trimmed
<1> QED
  BY <1>2 DEF RatchetState

LEMMA SkipFromSkips ==
    ASSUME NEW f \in Frame, f.from \in RatchetState,
           NEW base \in RatchetState, base.ckr # None, NEW until \in Nat,
           NEW k \in Nat, k = 0 \/ base.nr + k <= until, NEW st, st = Passed(base, k),
           NEW loop \in RatchetPC, NEW next \in RatchetPC
    PROVE  Skips(f, SkipFrom(f, st, until, loop, next), base, until, loop, next)
<1> DEFINE segment == SkipFrom(f, st, until, loop, next)
<1>1. st \in RatchetState /\ st.ckr \in ChainKey /\ st.nr = base.nr + k
  <2>1. st \in RatchetState /\ st.ckr # None /\ st.nr = base.nr + k
    BY PassedFields
  <2> QED
    BY <2>1, SessionFields
<1>2. CASE st.nr < until
  <2>1. segment = Segment([f EXCEPT !.pc = loop, !.ck = st.ckr], st)
    BY <1>2 DEF SkipFrom
  <2>2. segment.frame = [f EXCEPT !.pc = loop, !.ck = st.ckr] /\ segment.st = st
    BY <2>1 DEF Segment
  <2>3. /\ segment.frame \in Frame /\ segment.frame.pc = loop /\ segment.frame.ck = st.ckr
        /\ segment.frame.obj = f.obj /\ segment.frame.msg = f.msg /\ segment.frame.from = f.from
    BY <1>1, <2>2 DEF Frame, DecryptPC
  <2>4. Passing(base, until, st.ckr, st)
    BY <1>1, <1>2 DEF Passing
  <2> QED
    BY <1>1, <2>2, <2>3, <2>4 DEF Skips, Continues
<1>3. CASE ~(st.nr < until)
  <2>1. segment = Segment([f EXCEPT !.pc = next, !.ck = None], Trimmed(st))
    BY <1>3 DEF SkipFrom, Trimmed
  <2>2. segment.frame = [f EXCEPT !.pc = next, !.ck = None] /\ segment.st = Trimmed(st)
    BY <2>1 DEF Segment
  <2>3. /\ segment.frame \in Frame /\ segment.frame.pc = next
        /\ segment.frame.obj = f.obj /\ segment.frame.msg = f.msg /\ segment.frame.from = f.from
    BY <2>2 DEF Frame, DecryptPC
  <2>4. Trimmed(st) = SkipMessages(base, until)
    <3>1. PICK nr \in Nat : nr = base.nr
      BY DEF RatchetState
    <3>2. k = (IF until > nr THEN until - nr ELSE 0)
      <4>1. ~(nr + k < until) /\ (k = 0 \/ nr + k <= until)
        BY <1>1, <1>3, <3>1
      <4> QED
        BY <4>1
    <3> QED
      BY <3>1, <3>2, PassedAll
  <2>5. Trimmed(st) \in RatchetState
    BY <1>1, TrimmedType
  <2> QED
    BY <2>2, <2>3, <2>4, <2>5 DEF Skips, Continues
<1> QED
  BY <1>2, <1>3

LEMMA SkipOneSkips ==
    ASSUME NEW f \in Frame, f.from \in RatchetState,
           NEW base \in RatchetState, NEW until \in Nat, NEW st,
           Passing(base, until, f.ck, st),
           NEW loop \in RatchetPC, NEW next \in RatchetPC
    PROVE  Skips(f, SkipOne(f, st, until, loop, next), base, until, loop, next)
<1>1. PICK k \in Nat : base.nr + k < until /\ st = Passed(base, k)
  BY DEF Passing
<1>2. base.ckr # None /\ f.ck = st.ckr
  BY DEF Passing
<1>3. SkipOne(f, st, until, loop, next) = SkipFrom(f, PassOne(st), until, loop, next)
  BY <1>2 DEF SkipOne, PassOne
<1>4. PassOne(st) = Passed(base, k + 1)
  BY <1>1, <1>2, PassedNext
<1>5. base.nr + (k + 1) <= until /\ k + 1 \in Nat
  <2>1. PICK nr \in Nat : nr = base.nr
    BY DEF RatchetState
  <2> QED
    BY <1>1, <2>1
<1> QED
  BY <1>2, <1>3, <1>4, <1>5, SkipFromSkips

LEMMA EnterSkipSkips ==
    ASSUME NEW f \in Frame, f.from \in RatchetState,
           NEW base \in RatchetState, NEW until \in Nat, CanSkip(base, until),
           NEW loop \in RatchetPC, NEW next \in RatchetPC
    PROVE  Skips(f, EnterSkip(f, base, until, loop, next), base, until, loop, next)
<1> DEFINE segment == EnterSkip(f, base, until, loop, next)
<1>1. CASE base.ckr = None
  <2>1. segment.frame = [f EXCEPT !.pc = next] /\ segment.st = base
    BY <1>1 DEF EnterSkip, Segment
  <2>2. /\ segment.frame \in Frame /\ segment.frame.pc = next
        /\ segment.frame.obj = f.obj /\ segment.frame.msg = f.msg /\ segment.frame.from = f.from
    BY <2>1 DEF Frame, DecryptPC
  <2>3. SkipMessages(base, until) = base
    BY <1>1 DEF SkipMessages
  <2> QED
    BY <2>1, <2>2, <2>3 DEF Skips, Continues
<1>2. CASE base.ckr # None
  <2>1. segment = SkipFrom(f, base, until, loop, next)
    BY <1>2 DEF EnterSkip
  <2>2. base = Passed(base, 0)
    BY <1>2, PassedNone
  <2> QED
    BY <1>2, <2>1, <2>2, SkipFromSkips
<1> QED
  BY <1>1, <1>2

LEMMA WholeCall ==
    ASSUME NEW from, NEW m, NEW ours, Proceeds(from, m),
           NEW turned, turned = Turned(from, m, ours), NEW ready, ready = SkipMessages(turned, m.n)
    PROVE  RatchetDecrypt(from, m, ours) = InReceivingChain(turned, ready, m)
BY DEF RatchetDecrypt, Proceeds, Turned, InReceivingChain

LEMMA TurnedFields ==
    ASSUME NEW from \in RatchetState, NEW m \in Envelope, NEW ours \in KeyPair
    PROVE  /\ Turned(from, m, ours) \in RatchetState
           /\ ~HasDHKey(from, m) => Turned(from, m, ours).dhs = ours
<1>1. m.dh \in KeyPair /\ m.pn \in Nat
  BY EnvelopeFields
<1>2. PICK old \in RatchetState : old = SkipMessages(from, m.pn)
  BY <1>1, SkipMessagesType
<1>3. DHRatchet(old, m.dh, ours) \in RatchetState
  BY <1>1, <1>2, DHRatchetType
<1>4. DHRatchet(old, m.dh, ours).dhs = ours
  BY <1>2 DEF DHRatchet, RatchetState
<1> QED
  BY <1>2, <1>3, <1>4 DEF Turned

(* Past the turn: the loop over the receiving chain of the message begins. *)
LEMMA EnterChain ==
    ASSUME NEW f \in Frame, f.from \in RatchetState, f.msg \in Envelope,
           Proceeds(f.from, f.msg),
           NEW turned \in RatchetState, turned = Turned(f.from, f.msg, turned.dhs),
           NEW segment, segment = EnterSkip(f, turned, f.msg.n, "skipNew", "skipped")
    PROVE  Continues(f, segment) /\ RatchetPhase(segment.frame, segment.st)
<1> DEFINE m == f.msg
<1>1. m.n \in Nat
  BY EnvelopeFields
<1>2. CASE CanSkip(turned, m.n)
  <2>1. Skips(f, segment, turned, m.n, "skipNew", "skipped")
    BY <1>1, <1>2, EnterSkipSkips DEF RatchetPC
  <2>2. PICK g \in Frame, st \in RatchetState :
          /\ g = segment.frame /\ st = segment.st /\ g.msg = m /\ g.from = f.from
          /\ \/ g.pc = "skipNew" /\ Passing(turned, m.n, g.ck, st)
             \/ g.pc = "skipped" /\ st = SkipMessages(turned, m.n)
    BY <2>1 DEF Skips, Continues
  <2>3. st.dhs = turned.dhs
    <3>1. CASE g.pc = "skipNew"
      BY <2>2, <3>1, PassedFields DEF Passing
    <3>2. CASE g.pc = "skipped"
      BY <2>2, <3>2, SkipMessagesSendingSide DEF SameSendingSide
    <3> QED
      BY <2>2, <3>1, <3>2
  <2>4. ChainPhase(g, st, m, turned)
    BY <1>2, <2>2 DEF ChainPhase
  <2>5. turned = Turned(f.from, m, st.dhs)
    BY <2>3
  <2>6. g.pc \in {"skipNew", "skipped"}
    BY <2>2
  <2>7. RatchetPhase(g, st)
    BY <2>2, <2>4, <2>5, <2>6 DEF RatchetPhase, TurnPC
  <2> QED
    BY <2>1, <2>2, <2>7 DEF Skips
<1>3. CASE ~CanSkip(turned, m.n)
  <2>1. segment = Segment([f EXCEPT !.pc = "rejected"], turned)
    BY <1>3 DEF EnterSkip, CanSkip
  <2>2. PICK g : g = [f EXCEPT !.pc = "rejected"]
    OBVIOUS
  <2>3. segment.frame = g /\ segment.st = turned
    BY <2>1, <2>2 DEF Segment
  <2>4. /\ g \in Frame /\ g.pc = "rejected" /\ g.obj = f.obj /\ g.msg = m /\ g.from = f.from
    BY <2>2 DEF Frame, DecryptPC, RatchetPC
  <2>5. RatchetDecrypt(f.from, m, turned.dhs) = [st |-> turned, ok |-> FALSE]
    BY <1>3, WholeCall DEF InReceivingChain
  <2>6. RatchetPhase(g, turned)
    BY <2>4, <2>5 DEF RatchetPhase, TurnPC, ChainPC
  <2> QED
    BY <2>3, <2>4, <2>6 DEF Continues, RatchetPC
<1> QED
  BY <1>2, <1>3

(* The turn begins: the peer's ratchet key is taken, the DH awaited. *)
LEMMA EnterTurn ==
    ASSUME NEW f \in Frame, f.from \in RatchetState, f.msg \in Envelope,
           Proceeds(f.from, f.msg), ~HasDHKey(f.from, f.msg),
           NEW old, old = SkipMessages(f.from, f.msg.pn),
           NEW segment, segment = StartTurn(f, old)
    PROVE  Continues(f, segment) /\ RatchetPhase(segment.frame, segment.st)
<1>1. PICK theirs \in KeyPair : theirs = f.msg.dh
  BY EnvelopeFields
<1>2. old \in RatchetState
  BY EnvelopeFields, SkipMessagesType
<1>3. PICK dh \in SUBSET KeyPair : dh = DH(old.dhs, theirs)
  BY <1>2, KdfTypes DEF RatchetState
<1>4. PICK g, st : g = [f EXCEPT !.pc = "x25519DH", !.dh = dh] /\ st = [old EXCEPT !.dhr = theirs]
  OBVIOUS
<1>5. segment.frame = g /\ segment.st = st
  BY <1>1, <1>3, <1>4 DEF StartTurn, Segment
<1>6. /\ g \in Frame /\ g.pc = "x25519DH" /\ g.obj = f.obj /\ g.msg = f.msg /\ g.from = f.from
      /\ g.dh = dh
  BY <1>4 DEF Frame, DecryptPC, RatchetPC
<1>7. st \in RatchetState
  BY <1>2, <1>4 DEF RatchetState
<1>8. TurnPhase(g, st, f.from, f.msg, old)
  BY <1>1, <1>3, <1>4, <1>6 DEF TurnPhase
<1>9. RatchetPhase(g, st)
  BY <1>6, <1>8 DEF RatchetPhase, ChainPC
<1> QED
  BY <1>5, <1>6, <1>7, <1>9 DEF Continues, RatchetPC

(* ratchetDecrypt up to its first await. *)
LEMMA EnterRatchet ==
    ASSUME NEW called \in Frame, called.msg \in Envelope, NEW st \in RatchetState,
           NEW segment, segment = StartRatchetDecrypt(called, st)
    PROVE  Continues(called, segment) /\ RatchetPhase(segment.frame, segment.st)
<1>1. PICK f \in Frame : f = [called EXCEPT !.from = st]
  BY DEF Frame
<1>2. f.from = st /\ f.msg = called.msg /\ f.obj = called.obj
  BY <1>1 DEF Frame
<1>3. PICK m \in Envelope : m = f.msg
  BY <1>2
<1>4. m.pn \in Nat /\ m.n \in Nat
  BY EnvelopeFields
<1> SUFFICES Continues(f, segment) /\ RatchetPhase(segment.frame, segment.st)
  BY <1>2 DEF Continues
<1>5. CASE SkippedIndex(st, m) # 0
  <2>1. PICK pc : pc = IF OpenSkipped(st, m).ok THEN "aesGcmDecrypt" ELSE "rejected"
    OBVIOUS
  <2>2. PICK g : g = [f EXCEPT !.pc = pc]
    OBVIOUS
  <2>3. segment.frame = g /\ segment.st = OpenSkipped(st, m).st
    BY <1>1, <1>2, <1>3, <1>5, <2>1, <2>2 DEF StartRatchetDecrypt, Segment
  <2>4. pc \in {"aesGcmDecrypt", "rejected"}
    BY <2>1
  <2>5. g \in Frame /\ g.pc = pc /\ g.obj = f.obj /\ g.msg = m /\ g.from = st
    BY <1>2, <1>3, <2>2, <2>4 DEF Frame, DecryptPC, RatchetPC
  <2>6. \A ours : RatchetDecrypt(st, m, ours) = OpenSkipped(st, m)
    BY <1>5 DEF RatchetDecrypt
  <2>7. OpenSkipped(st, m).st \in RatchetState
    BY <1>5, OpenSkippedType
  <2>8. RatchetPhase(g, OpenSkipped(st, m).st)
    BY <2>1, <2>4, <2>5, <2>6 DEF RatchetPhase, TurnPC, ChainPC
  <2> QED
    BY <1>2, <1>3, <2>3, <2>4, <2>5, <2>7, <2>8 DEF Continues, RatchetPC
<1>6. CASE SkippedIndex(st, m) = 0 /\ HasDHKey(st, m)
  <2>1. segment = EnterSkip(f, st, m.n, "skipNew", "skipped")
    BY <1>1, <1>2, <1>3, <1>6 DEF StartRatchetDecrypt
  <2>2. Proceeds(st, m) /\ st = Turned(st, m, st.dhs)
    BY <1>6 DEF Proceeds, Turned
  <2> QED
    BY <1>2, <1>3, <2>1, <2>2, EnterChain
<1>7. CASE SkippedIndex(st, m) = 0 /\ ~HasDHKey(st, m) /\ st.ckr = None
  <2>1. segment = StartTurn(f, st)
    BY <1>1, <1>2, <1>3, <1>7 DEF StartRatchetDecrypt
  <2>2. Proceeds(st, m) /\ st = SkipMessages(st, m.pn)
    BY <1>7 DEF Proceeds, CanSkip, SkipMessages
  <2> QED
    BY <1>2, <1>3, <1>7, <2>1, <2>2, EnterTurn
<1>8. CASE SkippedIndex(st, m) = 0 /\ ~HasDHKey(st, m) /\ st.ckr # None
  <2>1. segment = EnterSkip(f, st, m.pn, "skipOld", "turn")
    BY <1>1, <1>2, <1>3, <1>8 DEF StartRatchetDecrypt
  <2>2. CASE CanSkip(st, m.pn)
    <3>1. Skips(f, segment, st, m.pn, "skipOld", "turn")
      BY <1>2, <1>4, <2>1, <2>2, EnterSkipSkips DEF RatchetPC
    <3>2. PICK g \in Frame, after \in RatchetState :
            /\ g = segment.frame /\ after = segment.st /\ g.msg = m /\ g.from = st
            /\ \/ g.pc = "skipOld" /\ Passing(st, m.pn, g.ck, after)
               \/ g.pc = "turn" /\ after = SkipMessages(st, m.pn)
      BY <1>2, <1>3, <3>1 DEF Skips, Continues
    <3>3. Proceeds(st, m)
      BY <1>8, <2>2 DEF Proceeds
    <3>4. TurnPhase(g, after, st, m, SkipMessages(st, m.pn))
      BY <1>8, <3>2 DEF TurnPhase
    <3>5. g.pc \in {"skipOld", "turn"}
      BY <3>2
    <3>6. RatchetPhase(g, after)
      BY <3>2, <3>3, <3>4, <3>5 DEF RatchetPhase, ChainPC
    <3> QED
      BY <3>1, <3>2, <3>6 DEF Skips
  <2>3. CASE ~CanSkip(st, m.pn)
    <3>1. PICK g : g = [f EXCEPT !.pc = "rejected"]
      OBVIOUS
    <3>2. segment.frame = g /\ segment.st = st
      BY <1>8, <2>1, <2>3, <3>1 DEF EnterSkip, Segment
    <3>3. g \in Frame /\ g.pc = "rejected" /\ g.obj = f.obj /\ g.msg = m /\ g.from = st
      BY <1>2, <1>3, <3>1 DEF Frame, DecryptPC, RatchetPC
    <3>4. RatchetDecrypt(st, m, st.dhs) = [st |-> st, ok |-> FALSE]
      BY <1>8, <2>3 DEF RatchetDecrypt
    <3>5. RatchetPhase(g, st)
      BY <3>3, <3>4 DEF RatchetPhase, TurnPC, ChainPC
    <3> QED
      BY <1>3, <3>2, <3>3, <3>5 DEF Continues, RatchetPC
  <2> QED
    BY <2>2, <2>3
<1> QED
  BY <1>5, <1>6, <1>7, <1>8

-----------------------------------------------------------------------------
(* Each segment of ratchetDecrypt leads from one phase to the next. *)

LEMMA SkipOldPhase ==
    ASSUME NEW f \in Frame, f.msg \in Envelope, NEW st \in RatchetState,
           f.pc = "skipOld", RatchetPhase(f, st),
           NEW segment, segment = SkipOne(f, st, f.msg.pn, "skipOld", "turn")
    PROVE  Continues(f, segment) /\ RatchetPhase(segment.frame, segment.st)
<1>1. PICK m \in Envelope, from \in RatchetState : m = f.msg /\ from = f.from
  BY DEF RatchetPhase
<1>2. m.pn \in Nat
  BY EnvelopeFields
<1>3. Proceeds(from, m) /\ ~HasDHKey(from, m) /\ Passing(from, m.pn, f.ck, st)
  BY <1>1 DEF RatchetPhase, TurnPC, TurnPhase
<1>4. Skips(f, segment, from, m.pn, "skipOld", "turn")
  BY <1>1, <1>2, <1>3, SkipOneSkips DEF RatchetPC
<1>5. PICK g \in Frame, after \in RatchetState :
        /\ g = segment.frame /\ after = segment.st /\ g.msg = m /\ g.from = from
        /\ \/ g.pc = "skipOld" /\ Passing(from, m.pn, g.ck, after)
           \/ g.pc = "turn" /\ after = SkipMessages(from, m.pn)
  BY <1>1, <1>4 DEF Skips, Continues
<1>6. TurnPhase(g, after, from, m, SkipMessages(from, m.pn))
  BY <1>3, <1>5 DEF TurnPhase
<1>7. g.pc \in {"skipOld", "turn"}
  BY <1>5
<1>8. RatchetPhase(g, after)
  BY <1>3, <1>5, <1>6, <1>7 DEF RatchetPhase, ChainPC
<1> QED
  BY <1>4, <1>5, <1>8 DEF Skips

LEMMA SkipNewPhase ==
    ASSUME NEW f \in Frame, f.msg \in Envelope, NEW st \in RatchetState,
           f.pc = "skipNew", RatchetPhase(f, st),
           NEW segment, segment = SkipOne(f, st, f.msg.n, "skipNew", "skipped")
    PROVE  Continues(f, segment) /\ RatchetPhase(segment.frame, segment.st)
<1>1. PICK m \in Envelope, from \in RatchetState : m = f.msg /\ from = f.from
  BY DEF RatchetPhase
<1>2. m.n \in Nat /\ st.dhs \in KeyPair
  BY EnvelopeFields DEF RatchetState
<1>3. PICK turned \in RatchetState : turned = Turned(from, m, st.dhs)
  BY <1>2, TurnedFields
<1>4. Proceeds(from, m) /\ CanSkip(turned, m.n) /\ Passing(turned, m.n, f.ck, st)
  BY <1>1, <1>3 DEF RatchetPhase, ChainPC, ChainPhase
<1>5. Skips(f, segment, turned, m.n, "skipNew", "skipped")
  BY <1>1, <1>2, <1>4, SkipOneSkips DEF RatchetPC
<1>6. PICK g \in Frame, after \in RatchetState :
        /\ g = segment.frame /\ after = segment.st /\ g.msg = m /\ g.from = from
        /\ \/ g.pc = "skipNew" /\ Passing(turned, m.n, g.ck, after)
           \/ g.pc = "skipped" /\ after = SkipMessages(turned, m.n)
  BY <1>1, <1>5 DEF Skips, Continues
<1>7. after.dhs = st.dhs
  <2>1. after.dhs = turned.dhs
    <3>1. CASE g.pc = "skipNew"
      BY <1>6, <3>1, PassedFields DEF Passing
    <3>2. CASE g.pc = "skipped"
      BY <1>6, <3>2, SkipMessagesSendingSide DEF SameSendingSide
    <3> QED
      BY <1>6, <3>1, <3>2
  <2>2. st.dhs = turned.dhs
    BY <1>4, PassedFields DEF Passing
  <2> QED
    BY <2>1, <2>2
<1>8. ChainPhase(g, after, m, turned)
  BY <1>4, <1>6 DEF ChainPhase
<1>9. g.pc \in {"skipNew", "skipped"} /\ turned = Turned(from, m, after.dhs)
  BY <1>3, <1>6, <1>7
<1>10. RatchetPhase(g, after)
  BY <1>4, <1>6, <1>8, <1>9 DEF RatchetPhase, TurnPC
<1> QED
  BY <1>5, <1>6, <1>10 DEF Skips

LEMMA TurnStarts ==
    ASSUME NEW f \in Frame, f.msg \in Envelope, NEW st \in RatchetState,
           f.pc = "turn", RatchetPhase(f, st), NEW segment, segment = StartTurn(f, st)
    PROVE  Continues(f, segment) /\ RatchetPhase(segment.frame, segment.st)
<1>1. /\ f.from \in RatchetState /\ Proceeds(f.from, f.msg) /\ ~HasDHKey(f.from, f.msg)
      /\ st = SkipMessages(f.from, f.msg.pn)
  BY DEF RatchetPhase, TurnPC, TurnPhase
<1> QED
  BY <1>1, EnterTurn

(* A state is its fields. *)
LEMMA SameState ==
    ASSUME NEW st \in RatchetState, NEW other \in RatchetState,
           st.dhs = other.dhs, st.dhr = other.dhr, st.rk = other.rk, st.cks = other.cks,
           st.ckr = other.ckr, st.ns = other.ns, st.nr = other.nr, st.pn = other.pn,
           st.skipped = other.skipped
    PROVE  st = other
BY DEF RatchetState

(* What a phase of the turn knows. *)
LEMMA InTurn ==
    ASSUME NEW f \in Frame, f.msg \in Envelope, NEW st \in RatchetState,
           f.pc \in TurnPC, RatchetPhase(f, st)
    PROVE  \E from, old \in RatchetState, m \in Envelope, theirs \in KeyPair :
              /\ from = f.from /\ m = f.msg /\ old = SkipMessages(from, m.pn) /\ theirs = m.dh
              /\ Proceeds(from, m) /\ TurnPhase(f, st, from, m, old)
<1>1. PICK m \in Envelope, from \in RatchetState : m = f.msg /\ from = f.from
  BY DEF RatchetPhase
<1>2. PICK theirs \in KeyPair : theirs = m.dh
  BY EnvelopeFields
<1>3. PICK old \in RatchetState : old = SkipMessages(from, m.pn)
  BY EnvelopeFields, SkipMessagesType
<1>4. Proceeds(from, m) /\ TurnPhase(f, st, from, m, old)
  BY <1>1, <1>3 DEF RatchetPhase
<1> QED
  BY <1>1, <1>2, <1>3, <1>4

(* And what a phase has to show. *)
LEMMA StillInTurn ==
    ASSUME NEW f \in Frame, NEW g \in Frame, NEW after \in RatchetState,
           NEW from \in RatchetState, NEW m \in Envelope, Proceeds(from, m),
           g.from = from, g.msg = m, f.msg = m, g.obj = f.obj, g.pc \in TurnPC,
           TurnPhase(g, after, from, m, SkipMessages(from, m.pn)),
           NEW segment, segment = Segment(g, after)
    PROVE  Continues(f, segment) /\ RatchetPhase(segment.frame, segment.st)
<1>1. segment.frame = g /\ segment.st = after
  BY DEF Segment
<1>2. g.pc \in RatchetPC /\ g.pc \notin ChainPC /\ g.pc # "aesGcmDecrypt" /\ g.pc # "rejected"
  BY DEF TurnPC, ChainPC, RatchetPC
<1>3. RatchetPhase(g, after)
  BY <1>2 DEF RatchetPhase
<1> QED
  BY <1>1, <1>2, <1>3 DEF Continues

LEMMA RootKeyPhase ==
    ASSUME NEW f \in Frame, f.msg \in Envelope, NEW st \in RatchetState,
           f.pc = "x25519DH", RatchetPhase(f, st), NEW segment,
           segment = Segment([f EXCEPT !.pc = "kdfRootKey", !.rk = KdfRootKey(st.rk, f.dh)], st)
    PROVE  Continues(f, segment) /\ RatchetPhase(segment.frame, segment.st)
<1>1. PICK from, old \in RatchetState, m \in Envelope, theirs \in KeyPair :
        /\ from = f.from /\ m = f.msg /\ old = SkipMessages(from, m.pn) /\ theirs = m.dh
        /\ Proceeds(from, m) /\ TurnPhase(f, st, from, m, old)
  BY InTurn DEF TurnPC
<1>2. ~HasDHKey(from, m) /\ st = [old EXCEPT !.dhr = theirs] /\ f.dh = DH(old.dhs, theirs)
  BY <1>1 DEF TurnPhase
<1>3. st.rk = old.rk
  BY <1>2 DEF RatchetState
<1>4. PICK rk \in RootKey : rk = KdfRootKey(old.rk, DH(old.dhs, theirs))
  <2>1. old.rk \in RootKey /\ DH(old.dhs, theirs) \in SUBSET KeyPair
    BY KdfTypes DEF RatchetState
  <2> QED
    BY <2>1, KdfTypes
<1>5. PICK g : g = [f EXCEPT !.pc = "kdfRootKey", !.rk = rk]
  OBVIOUS
<1>6. segment = Segment(g, st)
  BY <1>2, <1>3, <1>4, <1>5
<1>7. /\ g \in Frame /\ g.pc = "kdfRootKey" /\ g.rk = rk
      /\ g.obj = f.obj /\ g.msg = f.msg /\ g.from = f.from
  BY <1>5 DEF Frame, DecryptPC, RatchetPC
<1>8. TurnPhase(g, st, from, m, old)
  BY <1>1, <1>2, <1>4, <1>7 DEF TurnPhase
<1> QED
  BY <1>1, <1>6, <1>7, <1>8, StillInTurn DEF TurnPC

LEMMA ReceivingChainPhase ==
    ASSUME NEW f \in Frame, f.msg \in Envelope, NEW st \in RatchetState,
           f.pc = "kdfRootKey", RatchetPhase(f, st), NEW segment,
           segment = Segment([f EXCEPT !.pc = "generateX25519KeyPair"],
                             [st EXCEPT !.rk = f.rk, !.ckr = FirstChainKey(f.rk), !.nr = 0,
                                        !.pn = st.ns, !.ns = 0])
    PROVE  Continues(f, segment) /\ RatchetPhase(segment.frame, segment.st)
<1>1. PICK from, old \in RatchetState, m \in Envelope, theirs \in KeyPair :
        /\ from = f.from /\ m = f.msg /\ old = SkipMessages(from, m.pn) /\ theirs = m.dh
        /\ Proceeds(from, m) /\ TurnPhase(f, st, from, m, old)
  BY InTurn DEF TurnPC
<1>2. /\ ~HasDHKey(from, m) /\ st = [old EXCEPT !.dhr = theirs]
      /\ f.rk = KdfRootKey(old.rk, DH(old.dhs, theirs))
  BY <1>1 DEF TurnPhase
<1>3. PICK rk \in RootKey : rk = KdfRootKey(old.rk, DH(old.dhs, theirs))
  <2>1. old.rk \in RootKey /\ DH(old.dhs, theirs) \in SUBSET KeyPair
    BY KdfTypes DEF RatchetState
  <2> QED
    BY <2>1, KdfTypes
<1>4. PICK ck \in ChainKey : ck = FirstChainKey(rk)
  BY KdfTypes
<1>5. PICK g, after : /\ g = [f EXCEPT !.pc = "generateX25519KeyPair"]
                      /\ after = [st EXCEPT !.rk = rk, !.ckr = ck, !.nr = 0, !.pn = st.ns, !.ns = 0]
  OBVIOUS
<1>6. segment = Segment(g, after)
  BY <1>2, <1>3, <1>4, <1>5
<1>7. /\ g \in Frame /\ g.pc = "generateX25519KeyPair"
      /\ g.obj = f.obj /\ g.msg = f.msg /\ g.from = f.from
  BY <1>5 DEF Frame, DecryptPC, RatchetPC
<1>8. after \in RatchetState /\ after.dhs = old.dhs
  BY <1>2, <1>5 DEF RatchetState
<1>9. HalfTurned(old, theirs, old.dhs)
        = [old EXCEPT !.dhr = theirs, !.dhs = old.dhs, !.rk = rk, !.ckr = ck, !.nr = 0,
                      !.pn = old.ns, !.ns = 0]
  BY <1>3, <1>4 DEF HalfTurned
<1>10. after = HalfTurned(old, theirs, after.dhs)
  <2>1. PICK half : half = [old EXCEPT !.dhr = theirs, !.dhs = old.dhs, !.rk = rk, !.ckr = ck,
                                       !.nr = 0, !.pn = old.ns, !.ns = 0]
    OBVIOUS
  <2>2. /\ half \in RatchetState
        /\ half.dhr = theirs /\ half.dhs = old.dhs /\ half.rk = rk /\ half.ckr = ck /\ half.nr = 0
        /\ half.pn = old.ns /\ half.ns = 0 /\ half.cks = old.cks /\ half.skipped = old.skipped
    BY <2>1 DEF RatchetState
  <2>3. st.dhr = theirs /\ st.cks = old.cks /\ st.skipped = old.skipped /\ st.ns = old.ns
    BY <1>2 DEF RatchetState
  <2>4. /\ after.dhr = st.dhr /\ after.rk = rk /\ after.ckr = ck /\ after.nr = 0
        /\ after.pn = st.ns /\ after.ns = 0 /\ after.cks = st.cks /\ after.skipped = st.skipped
    BY <1>5 DEF RatchetState
  <2>5. after = half
    BY <1>8, <2>2, <2>3, <2>4, SameState
  <2> QED
    BY <1>8, <1>9, <2>1, <2>5
<1>11. TurnPhase(g, after, from, m, old)
  BY <1>1, <1>2, <1>7, <1>10 DEF TurnPhase
<1> QED
  BY <1>1, <1>6, <1>7, <1>8, <1>11, StillInTurn DEF TurnPC

LEMMA HalfTurnedFields ==
    ASSUME NEW old \in RatchetState, NEW theirs \in KeyPair, NEW ours \in KeyPair,
           NEW rk, rk = KdfRootKey(old.rk, DH(old.dhs, theirs)), NEW ck, ck = FirstChainKey(rk)
    PROVE  /\ rk \in RootKey /\ ck \in ChainKey
           /\ HalfTurned(old, theirs, ours) = HalfTurnedWith(old, theirs, ours, rk, ck)
<1>1. old.rk \in RootKey /\ DH(old.dhs, theirs) \in SUBSET KeyPair
  BY KdfTypes DEF RatchetState
<1>2. rk \in RootKey
  BY <1>1, KdfTypes
<1>3. ck \in ChainKey
  BY <1>2, KdfTypes
<1> QED
  BY <1>2, <1>3 DEF HalfTurned, HalfTurnedWith

LEMMA KeyPairPhase ==
    ASSUME NEW f \in Frame, f.msg \in Envelope, NEW st \in RatchetState, NEW ours \in KeyPair,
           f.pc = "generateX25519KeyPair", RatchetPhase(f, st), NEW segment,
           segment = Segment([f EXCEPT !.pc = "x25519DH2", !.dh = DH(ours, st.dhr)],
                             [st EXCEPT !.dhs = ours])
    PROVE  Continues(f, segment) /\ RatchetPhase(segment.frame, segment.st)
<1>1. PICK from, old \in RatchetState, m \in Envelope, theirs \in KeyPair :
        /\ from = f.from /\ m = f.msg /\ old = SkipMessages(from, m.pn) /\ theirs = m.dh
        /\ Proceeds(from, m) /\ TurnPhase(f, st, from, m, old)
  BY InTurn DEF TurnPC
<1>2. ~HasDHKey(from, m) /\ st = HalfTurned(old, theirs, st.dhs) /\ st.dhs \in KeyPair
  BY <1>1 DEF TurnPhase, RatchetState
<1>3. PICK theirOld \in KeyPair : theirOld = st.dhs
  BY <1>2
<1>4. PICK rk, ck : rk = KdfRootKey(old.rk, DH(old.dhs, theirs)) /\ ck = FirstChainKey(rk)
  OBVIOUS
<1>5. /\ rk \in RootKey /\ ck \in ChainKey
      /\ HalfTurned(old, theirs, ours) = HalfTurnedWith(old, theirs, ours, rk, ck)
  BY <1>4, HalfTurnedFields
<1>6. st = HalfTurnedWith(old, theirs, theirOld, rk, ck)
  BY <1>2, <1>3, <1>4, HalfTurnedFields
<1>7. PICK dh \in SUBSET KeyPair : dh = DH(ours, theirs)
  BY KdfTypes
<1>8. PICK g, after : g = [f EXCEPT !.pc = "x25519DH2", !.dh = dh] /\ after = [st EXCEPT !.dhs = ours]
  OBVIOUS
<1>9. st.dhr = theirs
  BY <1>6 DEF RatchetState, HalfTurnedWith
<1>10. segment = Segment(g, after)
  BY <1>7, <1>8, <1>9
<1>11. /\ g \in Frame /\ g.pc = "x25519DH2" /\ g.dh = dh
       /\ g.obj = f.obj /\ g.msg = f.msg /\ g.from = f.from
  BY <1>8 DEF Frame, DecryptPC, RatchetPC
<1>12. after \in RatchetState /\ after.dhs = ours
  BY <1>8 DEF RatchetState
<1>13. after = HalfTurned(old, theirs, after.dhs)
  <2>1. PICK half : half = HalfTurnedWith(old, theirs, ours, rk, ck)
    OBVIOUS
  <2>2. /\ half \in RatchetState
        /\ half.dhr = theirs /\ half.dhs = ours /\ half.rk = rk /\ half.ckr = ck /\ half.nr = 0
        /\ half.pn = old.ns /\ half.ns = 0 /\ half.cks = old.cks /\ half.skipped = old.skipped
    BY <1>5, <2>1 DEF RatchetState, HalfTurnedWith
  <2>3. /\ st.dhr = theirs /\ st.rk = rk /\ st.ckr = ck /\ st.nr = 0
        /\ st.pn = old.ns /\ st.ns = 0 /\ st.cks = old.cks /\ st.skipped = old.skipped
    BY <1>5, <1>6 DEF RatchetState, HalfTurnedWith
  <2>4. /\ after.dhr = st.dhr /\ after.rk = st.rk /\ after.ckr = st.ckr /\ after.nr = st.nr
        /\ after.pn = st.pn /\ after.ns = st.ns /\ after.cks = st.cks /\ after.skipped = st.skipped
    BY <1>8 DEF RatchetState
  <2>5. after = half
    BY <1>12, <2>2, <2>3, <2>4, SameState
  <2> QED
    BY <1>5, <1>12, <2>1, <2>5
<1>14. TurnPhase(g, after, from, m, old)
  BY <1>1, <1>2, <1>7, <1>11, <1>12, <1>13 DEF TurnPhase
<1> QED
  BY <1>1, <1>10, <1>11, <1>12, <1>14, StillInTurn DEF TurnPC

LEMMA RootKeyAgainPhase ==
    ASSUME NEW f \in Frame, f.msg \in Envelope, NEW st \in RatchetState,
           f.pc = "x25519DH2", RatchetPhase(f, st), NEW segment,
           segment = Segment([f EXCEPT !.pc = "kdfRootKey2", !.rk = KdfRootKey(st.rk, f.dh)], st)
    PROVE  Continues(f, segment) /\ RatchetPhase(segment.frame, segment.st)
<1>1. PICK from, old \in RatchetState, m \in Envelope, theirs \in KeyPair :
        /\ from = f.from /\ m = f.msg /\ old = SkipMessages(from, m.pn) /\ theirs = m.dh
        /\ Proceeds(from, m) /\ TurnPhase(f, st, from, m, old)
  BY InTurn DEF TurnPC
<1>2. ~HasDHKey(from, m) /\ st = HalfTurned(old, theirs, st.dhs) /\ f.dh = DH(st.dhs, theirs)
  BY <1>1 DEF TurnPhase
<1>3. PICK rk \in RootKey : rk = KdfRootKey(st.rk, DH(st.dhs, theirs))
  <2>1. st.rk \in RootKey /\ DH(st.dhs, theirs) \in SUBSET KeyPair
    BY KdfTypes DEF RatchetState
  <2> QED
    BY <2>1, KdfTypes
<1>4. PICK g : g = [f EXCEPT !.pc = "kdfRootKey2", !.rk = rk]
  OBVIOUS
<1>5. segment = Segment(g, st)
  BY <1>2, <1>3, <1>4
<1>6. /\ g \in Frame /\ g.pc = "kdfRootKey2" /\ g.rk = rk
      /\ g.obj = f.obj /\ g.msg = f.msg /\ g.from = f.from
  BY <1>4 DEF Frame, DecryptPC, RatchetPC
<1>7. TurnPhase(g, st, from, m, old)
  BY <1>1, <1>2, <1>3, <1>6 DEF TurnPhase
<1> QED
  BY <1>1, <1>5, <1>6, <1>7, StillInTurn DEF TurnPC

(* The turn is over: the state is the one DHRatchet leaves. *)
LEMMA SendingChainPhase ==
    ASSUME NEW f \in Frame, f.msg \in Envelope, NEW st \in RatchetState,
           f.pc = "kdfRootKey2", RatchetPhase(f, st), NEW segment,
           segment = EnterSkip([f EXCEPT !.dh = None, !.rk = None],
                               [st EXCEPT !.rk = f.rk, !.cks = FirstChainKey(f.rk)],
                               f.msg.n, "skipNew", "skipped")
    PROVE  Continues(f, segment) /\ RatchetPhase(segment.frame, segment.st)
<1>1. PICK from, old \in RatchetState, m \in Envelope, theirs \in KeyPair :
        /\ from = f.from /\ m = f.msg /\ old = SkipMessages(from, m.pn) /\ theirs = m.dh
        /\ Proceeds(from, m) /\ TurnPhase(f, st, from, m, old)
  BY InTurn DEF TurnPC
<1>2. /\ ~HasDHKey(from, m) /\ st = HalfTurned(old, theirs, st.dhs)
      /\ f.rk = KdfRootKey(st.rk, DH(st.dhs, theirs)) /\ st.dhs \in KeyPair
  BY <1>1 DEF TurnPhase, RatchetState
<1>3. PICK ours \in KeyPair : ours = st.dhs
  BY <1>2
<1>4. PICK rkr, ckr : rkr = KdfRootKey(old.rk, DH(old.dhs, theirs)) /\ ckr = FirstChainKey(rkr)
  OBVIOUS
<1>5. /\ rkr \in RootKey /\ ckr \in ChainKey
      /\ st.dhr = theirs /\ st.rk = rkr /\ st.ckr = ckr /\ st.nr = 0
      /\ st.pn = old.ns /\ st.ns = 0 /\ st.skipped = old.skipped
  <2>1. rkr \in RootKey /\ ckr \in ChainKey /\ st = HalfTurnedWith(old, theirs, ours, rkr, ckr)
    BY <1>2, <1>3, <1>4, HalfTurnedFields
  <2> QED
    BY <2>1 DEF RatchetState, HalfTurnedWith
<1>6. PICK rks \in RootKey : rks = KdfRootKey(rkr, DH(ours, theirs))
  <2>1. DH(ours, theirs) \in SUBSET KeyPair
    BY KdfTypes
  <2> QED
    BY <1>5, <2>1, KdfTypes
<1>7. PICK cks \in ChainKey : cks = FirstChainKey(rks)
  BY KdfTypes
<1>8. f.rk = rks
  BY <1>2, <1>3, <1>5, <1>6
<1>9. PICK g : g = [f EXCEPT !.dh = None, !.rk = None]
  OBVIOUS
<1>10. PICK after : after = [st EXCEPT !.rk = rks, !.cks = cks]
  OBVIOUS
<1>11. segment = EnterSkip(g, after, m.n, "skipNew", "skipped")
  BY <1>1, <1>7, <1>8, <1>9, <1>10
<1>12. g \in Frame /\ g.obj = f.obj /\ g.msg = f.msg /\ g.from = f.from
  BY <1>9 DEF Frame
<1>13. /\ after \in RatchetState /\ after.dhs = ours /\ after.rk = rks /\ after.cks = cks
       /\ after.dhr = st.dhr /\ after.ckr = st.ckr /\ after.nr = st.nr
       /\ after.pn = st.pn /\ after.ns = st.ns /\ after.skipped = st.skipped
  BY <1>3, <1>10 DEF RatchetState
<1>14. after = Turned(from, m, after.dhs)
  <2>1. PICK turned : turned = DHRatchet(old, theirs, ours)
    OBVIOUS
  <2>2. turned = [old EXCEPT !.dhr = theirs, !.dhs = ours, !.rk = rks, !.ckr = ckr, !.nr = 0,
                             !.cks = cks, !.pn = old.ns, !.ns = 0]
    BY <1>4, <1>6, <1>7, <2>1 DEF DHRatchet
  <2>3. /\ turned \in RatchetState
        /\ turned.dhr = theirs /\ turned.dhs = ours /\ turned.rk = rks /\ turned.ckr = ckr
        /\ turned.nr = 0 /\ turned.cks = cks /\ turned.pn = old.ns /\ turned.ns = 0
        /\ turned.skipped = old.skipped
    BY <1>5, <2>2 DEF RatchetState
  <2>4. after = turned
    BY <1>5, <1>13, <2>3, SameState
  <2> QED
    BY <1>1, <1>2, <1>13, <2>1, <2>4 DEF Turned
<1>15. Continues(g, segment) /\ RatchetPhase(segment.frame, segment.st)
  BY <1>1, <1>11, <1>12, <1>13, <1>14, EnterChain
<1> QED
  BY <1>12, <1>15 DEF Continues

(* What a phase past the loops knows. *)
LEMMA InChain ==
    ASSUME NEW f \in Frame, f.msg \in Envelope, NEW st \in RatchetState,
           f.pc \in {"skipped", "kdfChainKey"}, RatchetPhase(f, st)
    PROVE  /\ f.from \in RatchetState
           /\ RatchetDecrypt(f.from, f.msg, st.dhs) =
                 IF st.ckr = None THEN [st |-> st, ok |-> FALSE] ELSE OpenInChain(st, f.msg)
           /\ f.pc = "kdfChainKey" => st.ckr # None /\ f.ck = st.ckr
<1>1. PICK m \in Envelope, from \in RatchetState : m = f.msg /\ from = f.from
  BY DEF RatchetPhase
<1>2. PICK turned : turned = Turned(from, m, st.dhs)
  OBVIOUS
<1>3. Proceeds(from, m) /\ ChainPhase(f, st, m, turned)
  BY <1>1, <1>2 DEF RatchetPhase, ChainPC
<1>4. CanSkip(turned, m.n) /\ st = SkipMessages(turned, m.n)
  BY <1>3 DEF ChainPhase
<1>5. PICK ours : ours = st.dhs
  OBVIOUS
<1>6. RatchetDecrypt(from, m, ours) = InReceivingChain(turned, st, m)
  BY <1>2, <1>3, <1>4, <1>5, WholeCall
<1> QED
  BY <1>1, <1>3, <1>4, <1>5, <1>6 DEF ChainPhase, InReceivingChain

LEMMA ReadKeyPhase ==
    ASSUME NEW f \in Frame, f.msg \in Envelope, NEW st \in RatchetState,
           f.pc = "skipped", RatchetPhase(f, st), NEW segment,
           segment = Segment([f EXCEPT !.pc = IF st.ckr = None THEN "rejected" ELSE "kdfChainKey",
                                       !.ck = st.ckr], st)
    PROVE  Continues(f, segment) /\ RatchetPhase(segment.frame, segment.st)
<1>1. /\ f.from \in RatchetState
      /\ RatchetDecrypt(f.from, f.msg, st.dhs) =
            IF st.ckr = None THEN [st |-> st, ok |-> FALSE] ELSE OpenInChain(st, f.msg)
  BY InChain
<1>2. PICK pc : pc = IF st.ckr = None THEN "rejected" ELSE "kdfChainKey"
  OBVIOUS
<1>3. PICK g : g = [f EXCEPT !.pc = pc, !.ck = st.ckr]
  OBVIOUS
<1>4. segment.frame = g /\ segment.st = st
  BY <1>2, <1>3 DEF Segment
<1>5. pc \in {"rejected", "kdfChainKey"} /\ st.ckr \in ChainKey \cup {None}
  BY <1>2, SessionFields
<1>6. /\ g \in Frame /\ g.pc = pc /\ g.ck = st.ckr
      /\ g.obj = f.obj /\ g.msg = f.msg /\ g.from = f.from
  BY <1>3, <1>5 DEF Frame, DecryptPC, RatchetPC
<1>7. CASE st.ckr = None
  <2>1. g.pc = "rejected" /\ RatchetDecrypt(f.from, f.msg, st.dhs) = [st |-> st, ok |-> FALSE]
    BY <1>1, <1>2, <1>6, <1>7
  <2>2. RatchetPhase(g, st)
    BY <1>1, <1>6, <2>1 DEF RatchetPhase, TurnPC, ChainPC
  <2> QED
    BY <1>1, <1>4, <1>6, <2>1, <2>2 DEF Continues, RatchetPC
<1>8. CASE st.ckr # None
  <2>1. g.pc = "kdfChainKey"
    BY <1>2, <1>6, <1>8
  <2>2. Proceeds(g.from, g.msg) /\ ChainPhase(f, st, g.msg, Turned(g.from, g.msg, st.dhs))
    BY <1>6 DEF RatchetPhase, ChainPC
  <2>3. ChainPhase(g, st, g.msg, Turned(g.from, g.msg, st.dhs))
    BY <1>6, <1>8, <2>1, <2>2 DEF ChainPhase
  <2>4. RatchetPhase(g, st)
    BY <1>1, <1>6, <2>1, <2>2, <2>3 DEF RatchetPhase, TurnPC
  <2> QED
    BY <1>1, <1>4, <1>6, <2>1, <2>4 DEF Continues, RatchetPC
<1> QED
  BY <1>7, <1>8

LEMMA SpendPhase ==
    ASSUME NEW f \in Frame, f.msg \in Envelope, NEW st \in RatchetState,
           f.pc = "kdfChainKey", RatchetPhase(f, st), NEW segment,
           segment = Segment([f EXCEPT !.ck = None,
                                !.pc = IF Authentic(f.msg, f.ck) THEN "aesGcmDecrypt" ELSE "rejected"],
                             [st EXCEPT !.ckr = KdfChainKey(f.ck, 1), !.nr = @ + 1])
    PROVE  Continues(f, segment) /\ RatchetPhase(segment.frame, segment.st)
<1>1. /\ f.from \in RatchetState /\ st.ckr # None /\ f.ck = st.ckr
      /\ RatchetDecrypt(f.from, f.msg, st.dhs) = OpenInChain(st, f.msg)
  BY InChain
<1>2. PICK pc : pc = IF Authentic(f.msg, f.ck) THEN "aesGcmDecrypt" ELSE "rejected"
  OBVIOUS
<1>3. PICK g, after : /\ g = [f EXCEPT !.ck = None, !.pc = pc]
                      /\ after = [st EXCEPT !.ckr = KdfChainKey(f.ck, 1), !.nr = @ + 1]
  OBVIOUS
<1>4. segment.frame = g /\ segment.st = after
  BY <1>2, <1>3 DEF Segment
<1>5. after = OpenInChain(st, f.msg).st
  BY <1>1, <1>3 DEF OpenInChain
<1>6. after \in RatchetState
  BY <1>1, <1>5, OpenInChainType
<1>7. after.dhs = st.dhs
  BY <1>3 DEF RatchetState
<1>8. pc \in {"aesGcmDecrypt", "rejected"} /\ (pc = "aesGcmDecrypt" <=> Authentic(f.msg, st.ckr))
  BY <1>1, <1>2
<1>9. /\ g \in Frame /\ g.pc = pc
      /\ g.obj = f.obj /\ g.msg = f.msg /\ g.from = f.from
  BY <1>3, <1>8 DEF Frame, DecryptPC, RatchetPC
<1>10. OpenInChain(st, f.msg).ok = Authentic(f.msg, st.ckr)
  BY DEF OpenInChain
<1>11. RatchetPhase(g, after)
  BY <1>1, <1>5, <1>7, <1>8, <1>9, <1>10 DEF RatchetPhase, TurnPC, ChainPC
<1> QED
  BY <1>1, <1>4, <1>6, <1>8, <1>9, <1>11 DEF Continues, RatchetPC

-----------------------------------------------------------------------------
(* One call at a time: the invariant. *)

LEMMA RestIsAPhase ==
    ASSUME NEW c, NEW f, f.pc \in AtRest, NEW objects
    PROVE  CallPhase(c, f, objects)
BY DEF CallPhase, EncryptPhase, DecryptPhase, AtRest, EncryptPC, DecryptPC, RatchetPC, WithObject

(* The step of one call, the others at rest. *)
LEMMA CallStep ==
    ASSUME CallInv, MemoryType', NEW c \in Call, \A b \in Running : b = c,
           NEW f \in Frame, calls' = [calls EXCEPT ![c] = f], CallPhase(c, f, heap')
    PROVE  CallInv'
<1>1. calls' \in [Call -> Frame] /\ calls'[c] = f
  BY DEF CallInv
<1>2. \A d \in Call : d # c => calls'[d] = calls[d] /\ calls'[d].pc \in AtRest
  <2>1. \A d \in Call : d # c => calls'[d] = calls[d]
    BY DEF CallInv
  <2>2. \A d \in Call : d # c => d \notin Running
    OBVIOUS
  <2> QED
    BY <2>1, <2>2 DEF Running, AtRest
<1>3. OneCall'
  BY <1>2 DEF OneCall, Running, AtRest
<1>4. \A d \in Call : CallPhase(d, calls'[d], heap')
  <2> SUFFICES ASSUME NEW d \in Call PROVE CallPhase(d, calls'[d], heap')
    OBVIOUS
  <2>1. CASE d = c
    BY <1>1, <2>1
  <2>2. CASE d # c
    BY <1>2, <2>2, RestIsAPhase
  <2> QED
    BY <2>1, <2>2
<1>5. \A d \in Call : CallPhase(d, calls[d], heap)'
  BY <1>4
<1> QED
  BY <1>1, <1>3, <1>5 DEF CallInv

(* A call past its first await is the only one ... *)
LEMMA RunsAlone ==
    ASSUME CallInv, NEW c \in Call, calls[c].pc \notin AtRest
    PROVE  \A b \in Running : b = c
<1>1. c \in Running
  BY DEF Running, AtRest
<1> QED
  BY <1>1 DEF CallInv, OneCall

(* ... and a call begins when there is none. *)
LEMMA BeginsAlone ==
    ASSUME CallInv, MaxConcurrent = 1, Cardinality(Running) < MaxConcurrent
    PROVE  Running = {}
<1>1. IsFiniteSet(Running)
  <2>1. CASE Running = {}
    BY <2>1, FS_EmptySet
  <2>2. CASE Running # {}
    <3>1. PICK c : c \in Running
      BY <2>2
    <3>2. Running = {c}
      BY <3>1 DEF CallInv, OneCall
    <3> QED
      BY <3>2, FS_Singleton
  <2> QED
    BY <2>1, <2>2
<1>2. Cardinality(Running) \in Nat
  BY <1>1, FS_CardinalityType
<1>3. Cardinality(Running) = 0
  BY <1>2
<1> QED
  BY <1>1, <1>3, FS_EmptySet

(* The heap after an object is mutated, and after one is made. *)
LEMMA Mutated ==
    ASSUME heap \in Seq(RatchetState), NEW i \in 1 .. Len(heap), NEW st \in RatchetState
    PROVE  LET after == [heap EXCEPT ![i] = st]
           IN  after \in Seq(RatchetState) /\ Len(after) = Len(heap) /\ after[i] = st
BY ExceptSeq

LEMMA Made ==
    ASSUME heap \in Seq(RatchetState), NEW st \in RatchetState
    PROVE  LET after == Append(heap, st)
           IN  /\ after \in Seq(RatchetState) /\ Len(heap) \in Nat /\ Len(after) = Len(heap) + 1
               /\ after[Len(heap) + 1] = st
BY AppendProperties

(* A frame that goes on to another await. *)
LEMMA AwaitFields ==
    ASSUME NEW f \in Frame, NEW pc \in EncryptPC \cup DecryptPC, NEW g, g = [f EXCEPT !.pc = pc]
    PROVE  /\ g \in Frame /\ g.pc = pc /\ g.obj = f.obj /\ g.ck = f.ck /\ g.dh = f.dh
           /\ g.rk = f.rk /\ g.msg = f.msg /\ g.from = f.from
BY DEF Frame

LEMMA PartyKeys ==
    ASSUME MemoryType, NEW p \in Party
    PROVE  /\ FreshKey(p) \in KeyPair /\ <<p, 0>> \in KeyPair
           /\ <<p, minted[p] + 1>> \in KeyPair
           /\ \A i \in Nat : [minted EXCEPT ![p] = @ + i] \in [Party -> Nat]
<1>1. minted[p] \in Nat
  BY DEF MemoryType
<1>2. \A i \in Nat : minted[p] + i \in Nat
  BY <1>1
<1>3. \A i \in Nat : [minted EXCEPT ![p] = minted[p] + i] \in [Party -> Nat]
  BY <1>2 DEF MemoryType
<1> QED
  BY <1>1, <1>2, <1>3 DEF FreshKey, KeyPair

LEMMA Ends == us \in Party /\ them \in Party
BY CallsAssumption

LEMMA EndedFields ==
    ASSUME NEW pc \in EncryptPC \cup DecryptPC
    PROVE  /\ Ended(pc) \in Frame /\ Ended(pc).pc = pc /\ Ended(pc).obj = 0
           /\ Ended(pc).msg = None
BY DEF Ended, Frame

(* A call that returns or throws. *)
LEMMA EndStep ==
    ASSUME CallInv, MemoryType', NEW c \in Call, calls[c].pc \notin AtRest,
           NEW pc \in AtRest, Become(c, Ended(pc))
    PROVE  CallInv'
<1>1. PICK f \in Frame : f = Ended(pc) /\ f.pc = pc
  BY EndedFields DEF AtRest, EncryptPC
<1>2. CallPhase(c, f, heap')
  BY <1>1, RestIsAPhase
<1>3. calls' = [calls EXCEPT ![c] = f]
  BY <1>1 DEF Become
<1> QED
  BY <1>2, <1>3, RunsAlone, CallStep

(* encryptMessage: getting a session. *)
LEMMA SessionGetPhase ==
    ASSUME NEW c \in Encryption, NEW f, NEW objects,
           f.pc \in {"loadState", "performX3DH", "saveNew", "getOrCreateSession"},
           f.pc \in WithObject => f.obj \in 1 .. Len(objects)
    PROVE  CallPhase(c, f, objects)
<1>1. c \notin Decryption
  BY CallsAssumption
<1> QED
  BY <1>1 DEF CallPhase, EncryptPhase, EncryptPC

(* A step of a call of encryptMessage that gets its session. *)
LEMMA GetSessionStep ==
    ASSUME CallInv, MemoryType', NEW c \in Encryption, \A b \in Running : b = c,
           NEW f \in Frame, calls' = [calls EXCEPT ![c] = f],
           f.pc \in {"loadState", "performX3DH", "saveNew", "getOrCreateSession"},
           f.pc \in WithObject => f.obj \in 1 .. Len(heap')
    PROVE  CallInv'
<1>1. CallPhase(c, f, heap')
  BY SessionGetPhase
<1>2. c \in Call
  BY DEF Call
<1> QED
  BY <1>1, <1>2, CallStep

LEMMA StartEncryptStep ==
    ASSUME CallInv, MaxConcurrent = 1, NEW c \in Encryption, StartEncrypt(c)
    PROVE  CallInv'
<1>1. MemoryType'
  BY DEF CallInv, MemoryType, StartEncrypt, memory, far
<1>2. Running = {}
  BY BeginsAlone DEF StartEncrypt
<1>3. calls[c] \in Frame /\ cached \in 0 .. Len(heap) /\ cached \in Nat /\ heap' = heap
  BY DEF CallInv, MemoryType, Call, StartEncrypt, memory
<1>4. PICK pc : pc = IF cached # 0 THEN "getOrCreateSession" ELSE "loadState"
  OBVIOUS
<1>5. pc \in {"getOrCreateSession", "loadState"}
  BY <1>4
<1>6. PICK f : f = [calls[c] EXCEPT !.pc = pc, !.obj = cached]
  OBVIOUS
<1>7. f \in Frame /\ f.pc = pc /\ f.obj = cached
  BY <1>3, <1>5, <1>6 DEF Frame, EncryptPC
<1>8. f.pc \in WithObject => f.obj \in 1 .. Len(heap')
  BY <1>3, <1>4, <1>7 DEF WithObject, RatchetPC
<1>9. calls' = [calls EXCEPT ![c] = f]
  BY <1>4, <1>6 DEF StartEncrypt, Become
<1> QED
  BY <1>1, <1>2, <1>5, <1>7, <1>8, <1>9, GetSessionStep

(* A new object for a call that gets its session. *)
LEMMA CacheStep ==
    ASSUME CallInv, NEW c \in Encryption, calls[c].pc \notin AtRest, NEW st \in RatchetState,
           NEW pc \in {"saveNew", "getOrCreateSession"}, Cache(c, st, pc),
           pending' = pending, indexedDB' = indexedDB, minted' \in [Party -> Nat],
           UNCHANGED <<handed, far>>
    PROVE  CallInv'
<1>1. calls[c] \in Frame /\ c \in Call /\ heap \in Seq(RatchetState)
  BY DEF CallInv, MemoryType, Call
<1>2. heap' \in Seq(RatchetState) /\ Len(heap) \in Nat /\ Len(heap') = Len(heap) + 1
  BY <1>1, Made DEF Cache
<1>3. cached' \in 0 .. Len(heap')
  BY <1>2 DEF Cache
<1>4. MemoryType'
  BY <1>2, <1>3 DEF CallInv, MemoryType, far
<1>5. PICK f : f = [calls[c] EXCEPT !.pc = pc, !.obj = Len(heap) + 1]
  OBVIOUS
<1>6. f \in Frame /\ f.pc = pc /\ f.obj = Len(heap) + 1
  <2>1. PICK last \in Nat : last = Len(heap) + 1
    BY <1>2
  <2>2. f = [calls[c] EXCEPT !.pc = pc, !.obj = last]
    BY <1>5, <2>1
  <2>3. f \in Frame /\ f.pc = pc /\ f.obj = last
    BY <1>1, <2>2 DEF Frame, EncryptPC
  <2> QED
    BY <2>1, <2>3
<1>7. f.obj \in 1 .. Len(heap')
  BY <1>2, <1>6
<1>8. calls' = [calls EXCEPT ![c] = f]
  BY <1>5 DEF Cache, Become
<1> QED
  BY <1>1, <1>4, <1>6, <1>7, <1>8, RunsAlone, GetSessionStep

LEMMA LoadToEncryptStep ==
    ASSUME CallInv, NEW c \in Encryption, LoadToEncrypt(c)
    PROVE  CallInv'
<1>1. c \in Call /\ calls[c] \in Frame /\ calls[c].pc \notin AtRest
  BY DEF CallInv, Call, LoadToEncrypt, IsAt, AtRest
<1>2. CASE indexedDB # None /\ Cache(c, indexedDB, "getOrCreateSession")
  <2>1. indexedDB \in RatchetState /\ minted' \in [Party -> Nat]
    BY <1>2 DEF CallInv, MemoryType, LoadToEncrypt
  <2> QED
    BY <1>1, <1>2, <2>1, CacheStep DEF LoadToEncrypt
<1>3. CASE Await(c, "performX3DH") /\ UNCHANGED <<heap, cached>>
  <2>1. MemoryType'
    BY <1>3 DEF CallInv, MemoryType, LoadToEncrypt, far
  <2>2. PICK f \in Frame : f = [calls[c] EXCEPT !.pc = "performX3DH"] /\ f.pc = "performX3DH"
    <3>1. "performX3DH" \in EncryptPC \cup DecryptPC
      BY DEF EncryptPC
    <3> QED
      BY <1>1, <3>1, AwaitFields
  <2>3. calls' = [calls EXCEPT ![c] = f]
    BY <1>3, <2>2 DEF Await, Become
  <2>4. f.pc \notin WithObject
    BY <2>2 DEF WithObject, RatchetPC
  <2> QED
    BY <1>1, <2>1, <2>2, <2>3, <2>4, RunsAlone, GetSessionStep
<1> QED
  BY <1>2, <1>3 DEF LoadToEncrypt

LEMMA PerformX3DHStep ==
    ASSUME CallInv, NEW c \in Encryption, PerformX3DH(c)
    PROVE  CallInv'
<1>1. c \in Call /\ calls[c] \in Frame /\ calls[c].pc \notin AtRest /\ MemoryType
  BY DEF CallInv, Call, PerformX3DH, IsAt, AtRest
<1>2. FreshKey(us) \in KeyPair /\ <<them, 0>> \in KeyPair /\ minted' \in [Party -> Nat]
  BY <1>1, PartyKeys, Ends DEF PerformX3DH
<1>3. MemoryType'
  BY <1>2 DEF CallInv, MemoryType, PerformX3DH, far
<1>4. PICK dh \in SUBSET KeyPair : dh = Secret(FreshKey(us), <<them, 0>>)
  BY <1>2, KdfTypes DEF Secret
<1>5. PICK f : f = [calls[c] EXCEPT !.pc = "initSender", !.dh = dh]
  OBVIOUS
<1>6. f \in Frame /\ f.pc = "initSender" /\ f.dh = dh
  BY <1>1, <1>5 DEF Frame, EncryptPC
<1>7. calls' = [calls EXCEPT ![c] = f]
  BY <1>4, <1>5 DEF PerformX3DH, Become
<1>8. CallPhase(c, f, heap')
  <2>1. c \notin Decryption
    BY CallsAssumption
  <2> QED
    BY <1>6, <2>1 DEF CallPhase, EncryptPhase, EncryptPC, WithObject, RatchetPC
<1> QED
  BY <1>1, <1>3, <1>6, <1>7, <1>8, RunsAlone, CallStep

(* What the invariant says of a call of encryptMessage. *)
LEMMA EncryptPhaseNow ==
    ASSUME CallInv, NEW c \in Encryption
    PROVE  /\ c \in Call /\ calls[c] \in Frame /\ EncryptPhase(calls[c], State(c))
           /\ calls[c].pc \in WithObject \cup {"kdfChainKey"}
                 => calls[c].obj \in 1 .. Len(heap) /\ State(c) \in RatchetState
<1>1. c \in Call
  BY DEF Call
<1>2. calls[c] \in Frame /\ CallPhase(c, calls[c], heap) /\ heap \in Seq(RatchetState)
  BY <1>1 DEF CallInv, MemoryType
<1>3. EncryptPhase(calls[c], State(c))
  BY <1>2 DEF CallPhase, State
<1>4. calls[c].pc \in WithObject \cup {"kdfChainKey"} => calls[c].obj \in 1 .. Len(heap)
  BY <1>2 DEF CallPhase, WithObject, RatchetPC
<1>5. calls[c].obj \in 1 .. Len(heap) => State(c) \in RatchetState
  BY <1>2 DEF State
<1> QED
  BY <1>1, <1>2, <1>3, <1>4, <1>5

LEMMA CacheNewSessionStep ==
    ASSUME CallInv, NEW c \in Encryption, CacheNewSession(c)
    PROVE  CallInv'
<1>1. calls[c].pc = "initSender"
  BY DEF CacheNewSession, IsAt
<1>2. calls[c].pc \notin AtRest /\ calls[c].dh \in SUBSET KeyPair /\ MemoryType
  BY <1>1, EncryptPhaseNow DEF EncryptPhase, AtRest, CallInv
<1>3. FreshKey(us) \in KeyPair /\ <<them, 0>> \in KeyPair /\ minted' \in [Party -> Nat]
  BY <1>2, PartyKeys, Ends DEF CacheNewSession
<1>4. PICK st \in RatchetState : st = InitSender(calls[c].dh, <<them, 0>>, FreshKey(us))
  BY <1>2, <1>3, InitSenderType
<1>5. Cache(c, st, "saveNew")
  BY <1>4 DEF CacheNewSession
<1> QED
  BY <1>2, <1>3, <1>5, CacheStep DEF CacheNewSession

LEMMA SaveNewSessionStep ==
    ASSUME CallInv, NEW c \in Encryption, SaveNewSession(c)
    PROVE  CallInv'
<1>1. calls[c].pc = "saveNew"
  BY DEF SaveNewSession, IsAt
<1>2. /\ calls[c] \in Frame /\ c \in Call /\ calls[c].pc \notin AtRest
      /\ calls[c].obj \in 1 .. Len(heap) /\ State(c) \in RatchetState
  BY <1>1, EncryptPhaseNow DEF AtRest, WithObject
<1>3. MemoryType'
  BY <1>2 DEF CallInv, MemoryType, SaveNewSession, memory, far
<1>4. PICK f : f = [calls[c] EXCEPT !.pc = "getOrCreateSession"]
  OBVIOUS
<1>5. f \in Frame /\ f.pc = "getOrCreateSession" /\ f.obj = calls[c].obj
  <2>1. "getOrCreateSession" \in EncryptPC \cup DecryptPC
    BY DEF EncryptPC
  <2> QED
    BY <1>2, <1>4, <2>1, AwaitFields
<1>6. calls' = [calls EXCEPT ![c] = f] /\ heap' = heap
  BY <1>4 DEF SaveNewSession, Await, Become, memory
<1> QED
  BY <1>2, <1>3, <1>5, <1>6, RunsAlone, GetSessionStep

(* encryptMessage: from the chain key to the message. *)

(* A step of a call of encryptMessage that may mutate its object. *)
LEMMA SendingStep ==
    ASSUME CallInv, NEW c \in Encryption, calls[c].pc \in WithObject \cup {"kdfChainKey"},
           NEW f \in Frame, f.pc \in EncryptPC, f.obj = calls[c].obj,
           calls' = [calls EXCEPT ![c] = f],
           NEW st \in RatchetState, heap' = [heap EXCEPT ![calls[c].obj] = st],
           EncryptPhase(f, st), cached' = cached, pending' = pending, minted' = minted,
           indexedDB' \in RatchetState \cup {None}, UNCHANGED <<handed, far>>
    PROVE  CallInv'
<1>1. c \in Call /\ calls[c].obj \in 1 .. Len(heap) /\ heap \in Seq(RatchetState)
  BY EncryptPhaseNow DEF CallInv, MemoryType
<1>2. heap' \in Seq(RatchetState) /\ Len(heap') = Len(heap) /\ heap'[f.obj] = st
  BY <1>1, Mutated
<1>3. MemoryType'
  BY <1>2 DEF CallInv, MemoryType, far
<1>4. c \notin Decryption
  BY CallsAssumption
<1>5. CallPhase(c, f, heap')
  BY <1>1, <1>2, <1>4 DEF CallPhase
<1>6. calls[c].pc \notin AtRest
  BY DEF AtRest, WithObject, RatchetPC
<1> QED
  BY <1>1, <1>3, <1>5, <1>6, RunsAlone, CallStep

(* The object of a call, written back as it is. *)
LEMMA NotMutated ==
    ASSUME heap \in Seq(RatchetState), NEW c, calls[c].obj \in 1 .. Len(heap)
    PROVE  heap = [heap EXCEPT ![calls[c].obj] = State(c)]
BY DEF State

LEMMA ReadChainKeyStep ==
    ASSUME CallInv, NEW c \in Encryption, ReadChainKey(c)
    PROVE  CallInv'
<1>1. calls[c].pc = "getOrCreateSession"
  BY DEF ReadChainKey, IsAt
<1>2. calls[c].pc \in WithObject
  BY <1>1 DEF WithObject
<1>3. /\ calls[c] \in Frame /\ c \in Call /\ calls[c].pc \notin AtRest
      /\ calls[c].obj \in 1 .. Len(heap) /\ State(c) \in RatchetState
  BY <1>1, <1>2, EncryptPhaseNow DEF AtRest
<1>4. heap' = heap /\ cached' = cached /\ pending' = pending
  BY DEF ReadChainKey, memory
<1>5. CASE CanEncrypt(State(c))
  <2>1. PICK st \in RatchetState : st = State(c)
    BY <1>3
  <2>2. st.cks \in ChainKey
    BY <1>5, <2>1, SessionFields DEF CanEncrypt
  <2>3. PICK f : f = [calls[c] EXCEPT !.pc = "kdfChainKey", !.ck = st.cks, !.from = st]
    OBVIOUS
  <2>4. /\ f \in Frame /\ f.pc = "kdfChainKey" /\ f.ck = st.cks /\ f.from = st
        /\ f.obj = calls[c].obj
    BY <1>3, <2>2, <2>3 DEF Frame, EncryptPC
  <2>5. EncryptPhase(f, st)
    BY <1>5, <2>1, <2>4 DEF EncryptPhase, EncryptPC
  <2>6. heap' = [heap EXCEPT ![calls[c].obj] = st]
    BY <1>3, <1>4, <2>1, NotMutated DEF CallInv, MemoryType
  <2>7. calls' = [calls EXCEPT ![c] = f]
    BY <1>5, <2>1, <2>3 DEF ReadChainKey, Become
  <2>8. f.pc \in EncryptPC
    BY <2>4 DEF EncryptPC
  <2>9. indexedDB' \in RatchetState \cup {None} /\ minted' = minted /\ UNCHANGED <<handed, far>>
    BY DEF ReadChainKey, CallInv, MemoryType
  <2> QED
    BY <1>2, <1>4, <2>4, <2>5, <2>6, <2>7, <2>8, <2>9, SendingStep
<1>6. CASE ~CanEncrypt(State(c))
  <2>1. MemoryType'
    BY DEF CallInv, MemoryType, ReadChainKey, memory, far
  <2> QED
    BY <1>3, <1>6, <2>1, EndStep DEF ReadChainKey, AtRest
<1> QED
  BY <1>5, <1>6

LEMMA AdvanceChainStep ==
    ASSUME CallInv, NEW c \in Encryption, AdvanceChain(c)
    PROVE  CallInv'
<1>1. calls[c].pc = "kdfChainKey"
  BY DEF AdvanceChain, IsAt
<1>2. /\ calls[c] \in Frame /\ c \in Call /\ calls[c].obj \in 1 .. Len(heap)
      /\ State(c) \in RatchetState
      /\ EncryptPhase(calls[c], State(c))
  BY <1>1, EncryptPhaseNow
<1>3. PICK from \in RatchetState : from = State(c)
  BY <1>2
<1>4. CanEncrypt(from) /\ calls[c].from = from /\ calls[c].ck = from.cks
  BY <1>1, <1>2, <1>3 DEF EncryptPhase
<1>5. from.cks \in ChainKey
  BY <1>4, SessionFields DEF CanEncrypt
<1>6. PICK next \in ChainKey : next = KdfChainKey(from.cks, 1)
  BY <1>5, KdfTypes
<1>7. PICK st : st = [from EXCEPT !.cks = next]
  OBVIOUS
<1>8. st \in RatchetState /\ st = [from EXCEPT !.cks = KdfChainKey(@, 1)]
  BY <1>6, <1>7 DEF RatchetState
<1>9. PICK m : m = [ by |-> c, x3dh |-> None, tagged |-> TRUE, dh |-> from.dhs, pn |-> from.pn,
                     n |-> from.ns, key |-> from.cks ]
  OBVIOUS
<1>10. m \in Envelope
  <2>1. from.dhs \in KeyPair /\ from.pn \in Nat /\ from.ns \in Nat
    BY DEF RatchetState
  <2> QED
    BY <1>2, <1>5, <1>9, <2>1 DEF Envelope
<1>11. PICK f : f = [calls[c] EXCEPT !.pc = "aesGcmEncrypt", !.msg = m]
  OBVIOUS
<1>12. /\ f \in Frame /\ f.pc = "aesGcmEncrypt" /\ f.msg = m /\ f.obj = calls[c].obj
       /\ f.from = from
  BY <1>2, <1>4, <1>10, <1>11 DEF Frame, EncryptPC
<1>13. EncryptPhase(f, st)
  BY <1>4, <1>8, <1>10, <1>12 DEF EncryptPhase, EncryptPC
<1>14. calls' = [calls EXCEPT ![c] = f]
  <2>1. /\ Header(State(c)).dh = from.dhs /\ Header(State(c)).pn = from.pn
        /\ Header(State(c)).n = from.ns
    BY <1>3 DEF Header
  <2> QED
    BY <1>4, <1>9, <1>11, <2>1 DEF AdvanceChain, Become
<1>15. heap' = [heap EXCEPT ![calls[c].obj] = st]
  BY <1>3, <1>4, <1>6, <1>7 DEF AdvanceChain, Mutate
<1>16. f.pc \in EncryptPC
  BY <1>12 DEF EncryptPC
<1>17. /\ indexedDB' \in RatchetState \cup {None} /\ minted' = minted /\ UNCHANGED <<handed, far>>
       /\ cached' = cached /\ pending' = pending
  BY DEF AdvanceChain, CallInv, MemoryType
<1> QED
  BY <1>1, <1>8, <1>12, <1>13, <1>14, <1>15, <1>16, <1>17, SendingStep

LEMMA CountMessageStep ==
    ASSUME CallInv, NEW c \in Encryption, CountMessage(c)
    PROVE  CallInv'
<1>1. calls[c].pc = "aesGcmEncrypt"
  BY DEF CountMessage, IsAt
<1>2. calls[c].pc \in WithObject
  BY <1>1 DEF WithObject
<1>3. /\ calls[c] \in Frame /\ c \in Call /\ calls[c].obj \in 1 .. Len(heap)
      /\ State(c) \in RatchetState
      /\ EncryptPhase(calls[c], State(c))
  BY <1>2, EncryptPhaseNow
<1>4. PICK from \in RatchetState : from = calls[c].from /\ CanEncrypt(from)
  BY <1>1, <1>3 DEF EncryptPhase
<1>5. State(c) = [from EXCEPT !.cks = KdfChainKey(@, 1)] /\ calls[c].msg \in Envelope
  BY <1>1, <1>3, <1>4 DEF EncryptPhase
<1>6. PICK st : st = AfterEncrypt(from)
  OBVIOUS
<1>7. st \in RatchetState
  BY <1>4, <1>6, AfterEncryptType
<1>8. st = [State(c) EXCEPT !.ns = @ + 1]
  BY <1>5, <1>6 DEF AfterEncrypt, RatchetState
<1>9. PICK f : f = [calls[c] EXCEPT !.pc = "saveState"]
  OBVIOUS
<1>10. "saveState" \in EncryptPC
  BY DEF EncryptPC
<1>11. /\ f \in Frame /\ f.pc = "saveState" /\ f.msg = calls[c].msg /\ f.obj = calls[c].obj
       /\ f.from = from
  BY <1>3, <1>4, <1>9, <1>10, AwaitFields
<1>12. EncryptPhase(f, st)
  BY <1>4, <1>5, <1>6, <1>10, <1>11 DEF EncryptPhase
<1>13. calls' = [calls EXCEPT ![c] = f]
  BY <1>9 DEF CountMessage, Await, Become
<1>14. heap' = [heap EXCEPT ![calls[c].obj] = st]
  BY <1>8 DEF CountMessage, Mutate
<1>15. /\ indexedDB' \in RatchetState \cup {None} /\ minted' = minted /\ UNCHANGED <<handed, far>>
       /\ cached' = cached /\ pending' = pending
  BY DEF CountMessage, CallInv, MemoryType
<1> QED
  BY <1>2, <1>7, <1>10, <1>11, <1>12, <1>13, <1>14, <1>15, SendingStep

LEMMA SaveSentStep ==
    ASSUME CallInv, NEW c \in Encryption, SaveState(c)
    PROVE  CallInv'
<1>1. calls[c].pc = "saveState"
  BY DEF SaveState, IsAt
<1>2. calls[c].pc \in WithObject
  BY <1>1 DEF WithObject
<1>3. /\ calls[c] \in Frame /\ c \in Call /\ calls[c].obj \in 1 .. Len(heap)
      /\ State(c) \in RatchetState
      /\ EncryptPhase(calls[c], State(c))
  BY <1>2, EncryptPhaseNow
<1>4. PICK f : f = [calls[c] EXCEPT !.pc = "saved"]
  OBVIOUS
<1>5. "saved" \in EncryptPC
  BY DEF EncryptPC
<1>6. f \in Frame /\ f.pc = "saved" /\ f.msg = calls[c].msg /\ f.obj = calls[c].obj
  BY <1>3, <1>4, <1>5, AwaitFields
<1>7. EncryptPhase(f, State(c))
  BY <1>1, <1>3, <1>5, <1>6 DEF EncryptPhase
<1>8. calls' = [calls EXCEPT ![c] = f]
  BY <1>4 DEF SaveState, Await, Become
<1>9. heap' = [heap EXCEPT ![calls[c].obj] = State(c)]
  BY <1>3, NotMutated DEF SaveState, memory, CallInv, MemoryType
<1>10. /\ indexedDB' \in RatchetState \cup {None} /\ minted' = minted /\ UNCHANGED <<handed, far>>
       /\ cached' = cached /\ pending' = pending
  BY <1>3 DEF SaveState, memory
<1> QED
  BY <1>2, <1>3, <1>5, <1>6, <1>7, <1>8, <1>9, <1>10, SendingStep

LEMMA ReturnMessageStep ==
    ASSUME CallInv, NEW c \in Encryption, ReturnMessage(c)
    PROVE  CallInv'
<1>1. calls[c].pc = "saved"
  BY DEF ReturnMessage, IsAt
<1>2. calls[c].pc \in WithObject /\ calls[c].pc \notin AtRest
  BY <1>1 DEF WithObject, AtRest
<1>3. c \in Call /\ calls[c].obj \in 1 .. Len(heap) /\ calls[c].msg \in Envelope
  BY <1>1, <1>2, EncryptPhaseNow DEF EncryptPhase
<1>4. [calls[c].msg EXCEPT !.x3dh = pending] \in Envelope
  BY <1>3 DEF CallInv, MemoryType, Envelope
<1>5. MemoryType'
  <2>1. Len(heap) \in Nat
    BY DEF CallInv, MemoryType
  <2>2. cached' \in 0 .. Len(heap)
    BY <1>3, <2>1 DEF ReturnMessage
  <2> QED
    BY <1>4, <2>2 DEF CallInv, MemoryType, ReturnMessage, far
<1> QED
  BY <1>2, <1>3, <1>5, EndStep DEF ReturnMessage, AtRest

LEMMA EncryptCallStep ==
    ASSUME CallInv, MaxConcurrent = 1, NEW c \in Encryption, EncryptCall(c)
    PROVE  CallInv'
BY StartEncryptStep, LoadToEncryptStep, PerformX3DHStep, CacheNewSessionStep,
   SaveNewSessionStep, ReadChainKeyStep, AdvanceChainStep, CountMessageStep, SaveSentStep,
   ReturnMessageStep DEF EncryptCall

-----------------------------------------------------------------------------
(* decryptMessage: a call goes on through the segments of ratchetDecrypt. *)

(* What the invariant says of a call of decryptMessage. *)
LEMMA DecryptPhaseNow ==
    ASSUME CallInv, NEW c \in Decryption
    PROVE  /\ c \in Call /\ calls[c] \in Frame /\ DecryptPhase(calls[c], State(c))
           /\ calls[c].pc \notin AtRest => calls[c].msg \in Envelope
           /\ calls[c].pc \in WithObject
                 => calls[c].obj \in 1 .. Len(heap) /\ State(c) \in RatchetState
           /\ calls[c].pc \in RatchetPC => RatchetPhase(calls[c], State(c))
<1>1. c \in Call
  BY DEF Call
<1>2. calls[c] \in Frame /\ CallPhase(c, calls[c], heap) /\ heap \in Seq(RatchetState)
  BY <1>1 DEF CallInv, MemoryType
<1>3. DecryptPhase(calls[c], State(c))
  BY <1>2 DEF CallPhase, State
<1>4. calls[c].pc \in WithObject => calls[c].obj \in 1 .. Len(heap)
  BY <1>2 DEF CallPhase
<1>5. calls[c].obj \in 1 .. Len(heap) => State(c) \in RatchetState
  BY <1>2 DEF State
<1>6. calls[c].pc \notin AtRest => calls[c].msg \in Envelope
  BY <1>3 DEF DecryptPhase, AtRest
<1>7. calls[c].pc \in RatchetPC => RatchetPhase(calls[c], State(c))
  BY <1>3 DEF DecryptPhase
<1> QED
  BY <1>1, <1>2, <1>3, <1>4, <1>5, <1>6, <1>7

LEMMA RatchetPCs ==
    ASSUME NEW pc \in RatchetPC
    PROVE  pc \in WithObject /\ pc \in DecryptPC /\ pc \notin AtRest /\ pc # "handleX3DHResponder"
BY DEF RatchetPC, WithObject, DecryptPC, AtRest

(* The frame and the object a segment leaves are in phase. *)
LEMMA SegmentPhase ==
    ASSUME NEW c \in Decryption, NEW g \in Frame, g.pc \in RatchetPC, g.msg \in Envelope,
           NEW objects, g.obj \in 1 .. Len(objects), RatchetPhase(g, objects[g.obj])
    PROVE  CallPhase(c, g, objects)
<1>1. c \notin Encryption
  BY CallsAssumption
<1>2. DecryptPhase(g, objects[g.obj])
  BY RatchetPCs DEF DecryptPhase
<1> QED
  BY <1>1, <1>2 DEF CallPhase

LEMMA SegmentStep ==
    ASSUME CallInv, NEW c \in Decryption, \A b \in Running : b = c,
           NEW f, f.msg \in Envelope, f.obj \in 1 .. Len(heap),
           NEW segment, Continues(f, segment), RatchetPhase(segment.frame, segment.st),
           Become(c, segment.frame), heap' = [heap EXCEPT ![f.obj] = segment.st],
           minted' \in [Party -> Nat], UNCHANGED <<cached, indexedDB, pending, handed, far>>
    PROVE  CallInv'
<1>1. c \in Call /\ heap \in Seq(RatchetState)
  BY DEF CallInv, MemoryType, Call
<1>2. PICK g \in Frame, st \in RatchetState :
        /\ g = segment.frame /\ st = segment.st /\ g.obj = f.obj /\ g.msg = f.msg
        /\ g.pc \in RatchetPC
  BY DEF Continues
<1>3. heap' = [heap EXCEPT ![f.obj] = st]
  BY <1>2
<1>4. heap' \in Seq(RatchetState) /\ Len(heap') = Len(heap) /\ heap'[g.obj] = st
  BY <1>1, <1>2, <1>3, Mutated
<1>5. MemoryType'
  BY <1>4 DEF CallInv, MemoryType, far
<1>6. RatchetPhase(g, heap'[g.obj])
  BY <1>2, <1>4
<1>7. CallPhase(c, g, heap')
  BY <1>2, <1>4, <1>6, SegmentPhase
<1>8. calls' = [calls EXCEPT ![c] = g]
  BY <1>2 DEF Become
<1> QED
  BY <1>1, <1>2, <1>5, <1>7, <1>8, CallStep

(* A segment that runs on a new object. *)
LEMMA RunOnStep ==
    ASSUME CallInv, NEW c \in Decryption, \A b \in Running : b = c,
           NEW f, f.msg \in Envelope, NEW segment, Continues(f, segment),
           RatchetPhase(segment.frame, segment.st), RunOn(c, segment),
           cached' = cached \/ cached' = Len(heap) + 1,
           UNCHANGED <<indexedDB, pending, minted, handed, far>>
    PROVE  CallInv'
<1>1. c \in Call /\ heap \in Seq(RatchetState) /\ cached \in 0 .. Len(heap)
  BY DEF CallInv, MemoryType, Call
<1>2. PICK g \in Frame, st \in RatchetState :
        /\ g = segment.frame /\ st = segment.st /\ g.msg = f.msg /\ g.pc \in RatchetPC
  BY DEF Continues
<1>3. PICK last : last = Len(heap) + 1
  OBVIOUS
<1>4. heap' = Append(heap, st)
  BY <1>2 DEF RunOn
<1>5. /\ heap' \in Seq(RatchetState) /\ Len(heap) \in Nat /\ Len(heap') = last
      /\ heap'[last] = st /\ last \in 1 .. Len(heap')
  BY <1>1, <1>3, <1>4, Made
<1>6. MemoryType'
  <2>1. cached' \in 0 .. Len(heap')
    BY <1>1, <1>3, <1>5
  <2> QED
    BY <1>5, <2>1 DEF CallInv, MemoryType, far
<1>7. PICK h : h = [g EXCEPT !.obj = last]
  OBVIOUS
<1>8. /\ h \in Frame /\ h.obj = last /\ h.pc = g.pc /\ h.msg = g.msg /\ h.from = g.from
      /\ h.ck = g.ck /\ h.dh = g.dh /\ h.rk = g.rk
  BY <1>5, <1>7 DEF Frame
<1>9. RatchetPhase(h, st)
  <2>1. RatchetPhase(g, st)
    BY <1>2
  <2> QED
    BY <1>8, <2>1 DEF RatchetPhase, TurnPhase, ChainPhase
<1>10. RatchetPhase(h, heap'[h.obj])
  BY <1>5, <1>8, <1>9
<1>11. CallPhase(c, h, heap')
  BY <1>2, <1>5, <1>8, <1>10, SegmentPhase
<1>12. calls' = [calls EXCEPT ![c] = h]
  BY <1>2, <1>3, <1>7 DEF RunOn, Become
<1> QED
  BY <1>1, <1>6, <1>8, <1>11, <1>12, CallStep

(* A call that waits for IndexedDB or for the X3DH secret. *)
LEMMA WaitStep ==
    ASSUME CallInv, MemoryType', NEW c \in Decryption, \A b \in Running : b = c,
           NEW f \in Frame, f.msg \in Envelope, Become(c, f),
           f.pc \in {"loadState", "handleX3DHResponder"},
           f.pc = "handleX3DHResponder" => f.msg.x3dh # None
    PROVE  CallInv'
<1>1. c \in Call /\ c \notin Encryption
  BY CallsAssumption DEF Call
<1>2. CallPhase(c, f, heap')
  BY <1>1 DEF CallPhase, DecryptPhase, DecryptPC, WithObject, RatchetPC
<1>3. calls' = [calls EXCEPT ![c] = f]
  BY DEF Become
<1> QED
  BY <1>1, <1>2, <1>3, CallStep

LEMMA StartDecryptStep ==
    ASSUME CallInv, MaxConcurrent = 1, NEW c \in Decryption, NEW m \in replies,
           StartDecrypt(c, m)
    PROVE  CallInv'
<1>1. /\ c \in Call /\ calls[c] \in Frame /\ m \in Envelope /\ heap \in Seq(RatchetState)
      /\ cached \in 0 .. Len(heap) /\ cached \in Nat
  BY DEF CallInv, MemoryType, Call
<1>2. Running = {}
  BY BeginsAlone DEF StartDecrypt
<1>3. PICK f : f = [calls[c] EXCEPT !.msg = m, !.obj = cached]
  OBVIOUS
<1>4. f \in Frame /\ f.msg = m /\ f.obj = cached
  BY <1>1, <1>3 DEF Frame
<1>5. CASE cached # 0
  <2>1. f.obj \in 1 .. Len(heap) /\ heap[cached] \in RatchetState
    BY <1>1, <1>4, <1>5
  <2>2. PICK segment : segment = StartRatchetDecrypt(f, heap[cached])
    OBVIOUS
  <2>3. Continues(f, segment) /\ RatchetPhase(segment.frame, segment.st)
    BY <1>1, <1>4, <2>1, <2>2, EnterRatchet
  <2>4. Become(c, segment.frame) /\ heap' = [heap EXCEPT ![f.obj] = segment.st]
    BY <1>3, <1>4, <1>5, <2>2 DEF StartDecrypt
  <2>5. minted' \in [Party -> Nat] /\ UNCHANGED <<cached, indexedDB, pending, handed, far>>
    BY DEF StartDecrypt, CallInv, MemoryType
  <2> QED
    BY <1>1, <1>2, <1>4, <2>1, <2>3, <2>4, <2>5, SegmentStep
<1>6. CASE cached = 0
  <2>1. PICK g : g = [f EXCEPT !.pc = "loadState"]
    OBVIOUS
  <2>2. "loadState" \in EncryptPC \cup DecryptPC
    BY DEF EncryptPC
  <2>3. g \in Frame /\ g.pc = "loadState" /\ g.msg = m
    BY <1>4, <2>1, <2>2, AwaitFields
  <2>4. Become(c, g) /\ heap' = heap
    BY <1>3, <1>6, <2>1 DEF StartDecrypt
  <2>5. MemoryType'
    BY <2>4 DEF CallInv, MemoryType, StartDecrypt, far
  <2> QED
    BY <1>1, <1>2, <2>3, <2>4, <2>5, WaitStep
<1> QED
  BY <1>5, <1>6

LEMMA LoadToDecryptStep ==
    ASSUME CallInv, NEW c \in Decryption, LoadToDecrypt(c)
    PROVE  CallInv'
<1>1. calls[c].pc \notin AtRest
  BY DEF LoadToDecrypt, IsAt, AtRest
<1>2. c \in Call /\ calls[c] \in Frame /\ calls[c].msg \in Envelope /\ \A b \in Running : b = c
  BY <1>1, DecryptPhaseNow, RunsAlone
<1>3. CASE indexedDB # None
  <2>1. indexedDB \in RatchetState
    BY <1>3 DEF CallInv, MemoryType
  <2>2. PICK segment : segment = StartRatchetDecrypt(calls[c], indexedDB)
    OBVIOUS
  <2>3. Continues(calls[c], segment) /\ RatchetPhase(segment.frame, segment.st)
    BY <1>2, <2>1, <2>2, EnterRatchet
  <2>4. /\ RunOn(c, segment) /\ cached' = cached
        /\ UNCHANGED <<indexedDB, pending, minted, handed, far>>
    BY <1>3, <2>2 DEF LoadToDecrypt
  <2> QED
    BY <1>2, <2>3, <2>4, RunOnStep
<1>4. CASE indexedDB = None
  <2>1. MemoryType'
    BY <1>4 DEF CallInv, MemoryType, LoadToDecrypt, far
  <2>2. CASE calls[c].msg.x3dh # None
    <3>1. PICK g : g = [calls[c] EXCEPT !.pc = "handleX3DHResponder"]
      OBVIOUS
    <3>2. "handleX3DHResponder" \in EncryptPC \cup DecryptPC
      BY DEF DecryptPC
    <3>3. g \in Frame /\ g.pc = "handleX3DHResponder" /\ g.msg = calls[c].msg
      BY <1>2, <3>1, <3>2, AwaitFields
    <3>4. Become(c, g)
      BY <1>4, <2>2, <3>1 DEF LoadToDecrypt, Await
    <3> QED
      BY <1>2, <2>1, <2>2, <3>3, <3>4, WaitStep
  <2>3. CASE calls[c].msg.x3dh = None
    BY <1>1, <1>2, <1>4, <2>1, <2>3, EndStep DEF LoadToDecrypt, AtRest
  <2> QED
    BY <2>2, <2>3
<1> QED
  BY <1>3, <1>4

LEMMA RespondX3DHStep ==
    ASSUME CallInv, NEW c \in Decryption, RespondX3DH(c)
    PROVE  CallInv'
<1>1. calls[c].pc = "handleX3DHResponder"
  BY DEF RespondX3DH, IsAt
<1>2. /\ c \in Call /\ calls[c] \in Frame /\ calls[c].msg \in Envelope
      /\ \A b \in Running : b = c
      /\ calls[c].msg.x3dh # None /\ MemoryType
  BY <1>1, DecryptPhaseNow, RunsAlone DEF AtRest, DecryptPhase, CallInv
<1>3. PICK ephemeral \in KeyPair : ephemeral = calls[c].msg.x3dh
  BY <1>2, EnvelopeFields
<1>4. <<us, 0>> \in KeyPair
  BY <1>2, PartyKeys, Ends
<1>5. PICK st \in RatchetState :
         st = InitReceiver(Secret(calls[c].msg.x3dh, <<us, 0>>), <<us, 0>>)
  <2>1. Secret(ephemeral, <<us, 0>>) \in SUBSET KeyPair
    BY <1>4, KdfTypes DEF Secret
  <2> QED
    BY <1>3, <1>4, <2>1, InitReceiverType
<1>6. PICK segment : segment = StartRatchetDecrypt(calls[c], st)
  OBVIOUS
<1>7. Continues(calls[c], segment) /\ RatchetPhase(segment.frame, segment.st)
  BY <1>2, <1>6, EnterRatchet
<1>8. /\ RunOn(c, segment) /\ cached' = Len(heap) + 1
      /\ UNCHANGED <<indexedDB, pending, minted, handed, far>>
  BY <1>5, <1>6 DEF RespondX3DH
<1> QED
  BY <1>2, <1>7, <1>8, RunOnStep

(* A step inside ratchetDecrypt. *)
LEMMA RatchetStep ==
    ASSUME CallInv, NEW c \in Decryption, calls[c].pc \in RatchetPC,
           NEW segment, Continues(calls[c], segment), RatchetPhase(segment.frame, segment.st),
           RunSegment(c, segment), minted' \in [Party -> Nat],
           UNCHANGED <<cached, indexedDB, pending, handed, far>>
    PROVE  CallInv'
<1>1. calls[c].pc \in WithObject /\ calls[c].pc \notin AtRest
  BY RatchetPCs
<1>2. /\ c \in Call /\ calls[c].msg \in Envelope /\ calls[c].obj \in 1 .. Len(heap)
      /\ \A b \in Running : b = c
  BY <1>1, DecryptPhaseNow, RunsAlone
<1>3. Become(c, segment.frame) /\ heap' = [heap EXCEPT ![calls[c].obj] = segment.st]
  BY DEF RunSegment, Mutate
<1> QED
  BY <1>2, <1>3, SegmentStep

(* What the segments are given. *)
LEMMA InRatchet ==
    ASSUME CallInv, NEW c \in Decryption, NEW pc \in RatchetPC, IsAt(c, pc)
    PROVE  /\ calls[c].pc = pc /\ calls[c] \in Frame /\ calls[c].msg \in Envelope
           /\ State(c) \in RatchetState /\ RatchetPhase(calls[c], State(c))
           /\ minted \in [Party -> Nat] /\ minted[us] + 1 \in Nat /\ FreshKey(us) \in KeyPair
<1>1. calls[c].pc = pc
  BY DEF IsAt
<1>2. minted \in [Party -> Nat] /\ minted[us] \in Nat /\ FreshKey(us) \in KeyPair
  BY Ends, PartyKeys DEF CallInv, MemoryType
<1> QED
  BY <1>1, <1>2, RatchetPCs, DecryptPhaseNow

LEMMA SkipOldMessageStep ==
    ASSUME CallInv, NEW c \in Decryption, SkipOldMessage(c)
    PROVE  CallInv'
<1>1. IsAt(c, "skipOld") /\ "skipOld" \in RatchetPC
  BY DEF SkipOldMessage, RatchetPC
<1>2. PICK segment : segment = SkipOne(calls[c], State(c), calls[c].msg.pn, "skipOld", "turn")
  OBVIOUS
<1>3. Continues(calls[c], segment) /\ RatchetPhase(segment.frame, segment.st)
  BY <1>1, <1>2, InRatchet, SkipOldPhase
<1>4. RunSegment(c, segment) /\ UNCHANGED <<cached, indexedDB, pending, minted, handed, far>>
  BY <1>2 DEF SkipOldMessage
<1> QED
  BY <1>1, <1>3, <1>4, InRatchet, RatchetStep

LEMMA SkipMessageStep ==
    ASSUME CallInv, NEW c \in Decryption, SkipMessage(c)
    PROVE  CallInv'
<1>1. IsAt(c, "skipNew") /\ "skipNew" \in RatchetPC
  BY DEF SkipMessage, RatchetPC
<1>2. PICK segment : segment = SkipOne(calls[c], State(c), calls[c].msg.n, "skipNew", "skipped")
  OBVIOUS
<1>3. Continues(calls[c], segment) /\ RatchetPhase(segment.frame, segment.st)
  BY <1>1, <1>2, InRatchet, SkipNewPhase
<1>4. RunSegment(c, segment) /\ UNCHANGED <<cached, indexedDB, pending, minted, handed, far>>
  BY <1>2 DEF SkipMessage
<1> QED
  BY <1>1, <1>3, <1>4, InRatchet, RatchetStep

LEMMA TurnRatchetStep ==
    ASSUME CallInv, NEW c \in Decryption, TurnRatchet(c)
    PROVE  CallInv'
<1>1. IsAt(c, "turn") /\ "turn" \in RatchetPC
  BY DEF TurnRatchet, RatchetPC
<1>2. PICK segment : segment = StartTurn(calls[c], State(c))
  OBVIOUS
<1>3. Continues(calls[c], segment) /\ RatchetPhase(segment.frame, segment.st)
  BY <1>1, <1>2, InRatchet, TurnStarts
<1>4. RunSegment(c, segment) /\ UNCHANGED <<cached, indexedDB, pending, minted, handed, far>>
  BY <1>2 DEF TurnRatchet
<1> QED
  BY <1>1, <1>3, <1>4, InRatchet, RatchetStep

(* A segment that leaves the object as it is. *)
LEMMA ReadOnly ==
    ASSUME CallInv, NEW c \in Decryption, calls[c].pc \in RatchetPC,
           NEW f, Become(c, f), UNCHANGED heap, NEW segment, segment = Segment(f, State(c))
    PROVE  RunSegment(c, segment)
<1>1. calls[c].obj \in 1 .. Len(heap) /\ heap \in Seq(RatchetState)
  BY RatchetPCs, DecryptPhaseNow DEF CallInv, MemoryType
<1>2. heap = [heap EXCEPT ![calls[c].obj] = State(c)]
  BY <1>1, NotMutated
<1>3. segment.frame = f /\ segment.st = State(c)
  BY DEF Segment
<1> QED
  BY <1>2, <1>3 DEF RunSegment, Mutate

LEMMA DeriveRootKeyStep ==
    ASSUME CallInv, NEW c \in Decryption, DeriveRootKey(c)
    PROVE  CallInv'
<1>1. /\ UNCHANGED heap /\ UNCHANGED <<cached, indexedDB, pending, minted, handed, far>>
      /\ "x25519DH" \in RatchetPC /\ "x25519DH2" \in RatchetPC
  BY DEF DeriveRootKey, memory, RatchetPC
<1>2. CASE IsAt(c, "x25519DH") /\ Become(c, [calls[c] EXCEPT !.pc = "kdfRootKey",
                                               !.rk = KdfRootKey(State(c).rk, calls[c].dh)])
  <2>1. PICK f : f = [calls[c] EXCEPT !.pc = "kdfRootKey",
                                      !.rk = KdfRootKey(State(c).rk, calls[c].dh)]
    OBVIOUS
  <2>2. PICK segment : segment = Segment(f, State(c))
    OBVIOUS
  <2>3. Continues(calls[c], segment) /\ RatchetPhase(segment.frame, segment.st)
    BY <1>1, <1>2, <2>1, <2>2, InRatchet, RootKeyPhase
  <2>4. calls[c].pc \in RatchetPC /\ minted' \in [Party -> Nat]
    BY <1>1, <1>2, InRatchet
  <2>5. RunSegment(c, segment)
    BY <1>1, <1>2, <2>1, <2>2, <2>4, ReadOnly
  <2> QED
    BY <1>1, <2>3, <2>4, <2>5, RatchetStep
<1>3. CASE IsAt(c, "x25519DH2") /\ Become(c, [calls[c] EXCEPT !.pc = "kdfRootKey2",
                                                !.rk = KdfRootKey(State(c).rk, calls[c].dh)])
  <2>1. PICK f : f = [calls[c] EXCEPT !.pc = "kdfRootKey2",
                                      !.rk = KdfRootKey(State(c).rk, calls[c].dh)]
    OBVIOUS
  <2>2. PICK segment : segment = Segment(f, State(c))
    OBVIOUS
  <2>3. Continues(calls[c], segment) /\ RatchetPhase(segment.frame, segment.st)
    BY <1>1, <1>3, <2>1, <2>2, InRatchet, RootKeyAgainPhase
  <2>4. calls[c].pc \in RatchetPC /\ minted' \in [Party -> Nat]
    BY <1>1, <1>3, InRatchet
  <2>5. RunSegment(c, segment)
    BY <1>1, <1>3, <2>1, <2>2, <2>4, ReadOnly
  <2> QED
    BY <1>1, <2>3, <2>4, <2>5, RatchetStep
<1> QED
  BY <1>2, <1>3 DEF DeriveRootKey

LEMMA TurnReceivingChainStep ==
    ASSUME CallInv, NEW c \in Decryption, TurnReceivingChain(c)
    PROVE  CallInv'
<1>1. IsAt(c, "kdfRootKey") /\ "kdfRootKey" \in RatchetPC
  BY DEF TurnReceivingChain, RatchetPC
<1>2. PICK f, st :
         /\ f = [calls[c] EXCEPT !.pc = "generateX25519KeyPair"]
         /\ st = [State(c) EXCEPT !.rk = calls[c].rk, !.ckr = FirstChainKey(calls[c].rk),
                                  !.nr = 0, !.pn = State(c).ns, !.ns = 0]
  OBVIOUS
<1>3. PICK segment : segment = Segment(f, st)
  OBVIOUS
<1>4. Continues(calls[c], segment) /\ RatchetPhase(segment.frame, segment.st)
  BY <1>1, <1>2, <1>3, InRatchet, ReceivingChainPhase
<1>5. RunSegment(c, segment) /\ UNCHANGED <<cached, indexedDB, pending, minted, handed, far>>
  BY <1>2, <1>3 DEF TurnReceivingChain, Await, RunSegment, Segment
<1> QED
  BY <1>1, <1>4, <1>5, InRatchet, RatchetStep

LEMMA TurnKeyPairStep ==
    ASSUME CallInv, NEW c \in Decryption, TurnKeyPair(c)
    PROVE  CallInv'
<1>1. IsAt(c, "generateX25519KeyPair") /\ "generateX25519KeyPair" \in RatchetPC
  BY DEF TurnKeyPair, RatchetPC
<1>2. PICK ours \in KeyPair : ours = FreshKey(us)
  BY <1>1, InRatchet
<1>3. PICK f, st : /\ f = [calls[c] EXCEPT !.pc = "x25519DH2", !.dh = DH(ours, State(c).dhr)]
                   /\ st = [State(c) EXCEPT !.dhs = ours]
  OBVIOUS
<1>4. PICK segment : segment = Segment(f, st)
  OBVIOUS
<1>5. Continues(calls[c], segment) /\ RatchetPhase(segment.frame, segment.st)
  BY <1>1, <1>3, <1>4, InRatchet, KeyPairPhase
<1>6. RunSegment(c, segment) /\ UNCHANGED <<cached, indexedDB, pending, handed, far>>
  BY <1>2, <1>3, <1>4 DEF TurnKeyPair, RunSegment, Segment
<1>7. minted' \in [Party -> Nat]
  BY <1>1, InRatchet DEF TurnKeyPair
<1> QED
  BY <1>1, <1>5, <1>6, <1>7, InRatchet, RatchetStep

LEMMA TurnSendingChainStep ==
    ASSUME CallInv, NEW c \in Decryption, TurnSendingChain(c)
    PROVE  CallInv'
<1>1. IsAt(c, "kdfRootKey2") /\ "kdfRootKey2" \in RatchetPC
  BY DEF TurnSendingChain, RatchetPC
<1>2. PICK segment :
         segment = EnterSkip([calls[c] EXCEPT !.dh = None, !.rk = None],
                             [State(c) EXCEPT !.rk = calls[c].rk, !.cks = FirstChainKey(calls[c].rk)],
                             calls[c].msg.n, "skipNew", "skipped")
  OBVIOUS
<1>3. Continues(calls[c], segment) /\ RatchetPhase(segment.frame, segment.st)
  BY <1>1, <1>2, InRatchet, SendingChainPhase
<1>4. RunSegment(c, segment) /\ UNCHANGED <<cached, indexedDB, pending, minted, handed, far>>
  BY <1>2 DEF TurnSendingChain
<1> QED
  BY <1>1, <1>3, <1>4, InRatchet, RatchetStep

LEMMA ReadReceivingKeyStep ==
    ASSUME CallInv, NEW c \in Decryption, ReadReceivingKey(c)
    PROVE  CallInv'
<1>1. IsAt(c, "skipped") /\ "skipped" \in RatchetPC
  BY DEF ReadReceivingKey, RatchetPC
<1>2. PICK f : f = [calls[c] EXCEPT
                      !.pc = IF State(c).ckr = None THEN "rejected" ELSE "kdfChainKey",
                      !.ck = State(c).ckr]
  OBVIOUS
<1>3. PICK segment : segment = Segment(f, State(c))
  OBVIOUS
<1>4. Continues(calls[c], segment) /\ RatchetPhase(segment.frame, segment.st)
  BY <1>1, <1>2, <1>3, InRatchet, ReadKeyPhase
<1>5. Become(c, f) /\ UNCHANGED heap /\ UNCHANGED <<cached, indexedDB, pending, minted, handed, far>>
  BY <1>2 DEF ReadReceivingKey, memory
<1>6. calls[c].pc \in RatchetPC /\ minted' \in [Party -> Nat]
  BY <1>1, <1>5, InRatchet
<1>7. RunSegment(c, segment)
  BY <1>3, <1>5, <1>6, ReadOnly
<1> QED
  BY <1>4, <1>5, <1>6, <1>7, RatchetStep

LEMMA SpendReceivingKeyStep ==
    ASSUME CallInv, NEW c \in Decryption, SpendReceivingKey(c)
    PROVE  CallInv'
<1>1. IsAt(c, "kdfChainKey") /\ "kdfChainKey" \in RatchetPC
  BY DEF SpendReceivingKey, RatchetPC
<1>2. PICK f, st :
         /\ f = [calls[c] EXCEPT !.ck = None,
                   !.pc = IF Authentic(calls[c].msg, calls[c].ck) THEN "aesGcmDecrypt"
                          ELSE "rejected"]
         /\ st = [State(c) EXCEPT !.ckr = KdfChainKey(calls[c].ck, 1), !.nr = @ + 1]
  OBVIOUS
<1>3. PICK segment : segment = Segment(f, st)
  OBVIOUS
<1>4. Continues(calls[c], segment) /\ RatchetPhase(segment.frame, segment.st)
  BY <1>1, <1>2, <1>3, InRatchet, SpendPhase
<1>5. RunSegment(c, segment) /\ UNCHANGED <<cached, indexedDB, pending, minted, handed, far>>
  BY <1>2, <1>3 DEF SpendReceivingKey, RunSegment, Segment
<1> QED
  BY <1>1, <1>4, <1>5, InRatchet, RatchetStep

(* The end of decryptMessage. *)
LEMMA FinishStep ==
    ASSUME CallInv, MemoryType', NEW c \in Decryption, calls[c].pc \in WithObject,
           NEW pc \in {"saveState", "saved"}, Await(c, pc), heap' = heap
    PROVE  CallInv'
<1>1. /\ c \in Call /\ calls[c] \in Frame /\ calls[c].obj \in 1 .. Len(heap)
      /\ calls[c].pc \notin AtRest /\ calls[c].msg \in Envelope
  BY DecryptPhaseNow DEF WithObject, AtRest, RatchetPC
<1>2. PICK f : f = [calls[c] EXCEPT !.pc = pc]
  OBVIOUS
<1>3. pc \in EncryptPC \cup DecryptPC
  BY DEF EncryptPC
<1>4. f \in Frame /\ f.pc = pc /\ f.obj = calls[c].obj /\ f.msg = calls[c].msg
  BY <1>1, <1>2, <1>3, AwaitFields
<1>5. c \notin Encryption
  BY CallsAssumption
<1>6. CallPhase(c, f, heap')
  BY <1>1, <1>4, <1>5 DEF CallPhase, DecryptPhase, DecryptPC, RatchetPC
<1>7. calls' = [calls EXCEPT ![c] = f]
  BY <1>2 DEF Await, Become
<1> QED
  BY <1>1, <1>4, <1>6, <1>7, RunsAlone, CallStep

LEMMA ReceivePlaintextStep ==
    ASSUME CallInv, NEW c \in Decryption, ReceivePlaintext(c)
    PROVE  CallInv'
<1>1. calls[c].pc \in WithObject /\ Await(c, "saveState") /\ heap' = heap
  BY DEF ReceivePlaintext, IsAt, WithObject, RatchetPC, memory
<1>2. MemoryType'
  BY DEF CallInv, MemoryType, ReceivePlaintext, memory, far
<1> QED
  BY <1>1, <1>2, FinishStep

LEMMA SaveReceivedStep ==
    ASSUME CallInv, NEW c \in Decryption, SaveState(c)
    PROVE  CallInv'
<1>1. calls[c].pc \in WithObject /\ Await(c, "saved") /\ heap' = heap
  BY DEF SaveState, IsAt, WithObject, memory
<1>2. State(c) \in RatchetState
  BY <1>1, DecryptPhaseNow
<1>3. MemoryType'
  BY <1>2 DEF CallInv, MemoryType, SaveState, memory, far
<1> QED
  BY <1>1, <1>3, FinishStep

LEMMA CatchRejectionStep ==
    ASSUME CallInv, NEW c \in Decryption, CatchRejection(c)
    PROVE  CallInv'
<1>1. calls[c].pc \notin AtRest
  BY DEF CatchRejection, IsAt, AtRest
<1>2. c \in Call /\ calls[c].msg \in Envelope /\ \A b \in Running : b = c
  BY <1>1, DecryptPhaseNow, RunsAlone
<1>3. MemoryType'
  BY DEF CallInv, MemoryType, CatchRejection, memory, far
<1>4. CASE calls[c].msg.x3dh # None /\ ~calls[c].rebuilt
  <2>1. PICK m \in Envelope : m = calls[c].msg
    BY <1>2
  <2>2. PICK f : f = [Ended("handleX3DHResponder") EXCEPT !.msg = m, !.rebuilt = TRUE]
    OBVIOUS
  <2>3. f \in Frame /\ f.pc = "handleX3DHResponder" /\ f.msg = m
    <3>1. PICK ended \in Frame : /\ ended = Ended("handleX3DHResponder")
                                 /\ ended.pc = "handleX3DHResponder"
      <4>1. "handleX3DHResponder" \in EncryptPC \cup DecryptPC
        BY DEF DecryptPC
      <4> QED
        BY <4>1, EndedFields
    <3>2. f = [ended EXCEPT !.msg = m, !.rebuilt = TRUE]
      BY <2>2, <3>1
    <3> QED
      BY <3>1, <3>2 DEF Frame
  <2>4. Become(c, f)
    BY <1>4, <2>1, <2>2 DEF CatchRejection
  <2> QED
    BY <1>2, <1>3, <1>4, <2>1, <2>3, <2>4, WaitStep
<1>5. CASE ~(calls[c].msg.x3dh # None /\ ~calls[c].rebuilt)
  <2>1. Become(c, Ended("threw")) /\ "threw" \in AtRest
    BY <1>5 DEF CatchRejection, AtRest
  <2> QED
    BY <1>1, <1>2, <1>3, <2>1, EndStep
<1> QED
  BY <1>4, <1>5

LEMMA ReturnPlaintextStep ==
    ASSUME CallInv, NEW c \in Decryption, ReturnPlaintext(c)
    PROVE  CallInv'
<1>1. calls[c].pc \in WithObject /\ calls[c].pc \notin AtRest
  BY DEF ReturnPlaintext, IsAt, WithObject, AtRest
<1>2. c \in Call /\ calls[c].obj \in 1 .. Len(heap)
  BY <1>1, DecryptPhaseNow
<1>3. MemoryType'
  <2>1. Len(heap) \in Nat
    BY DEF CallInv, MemoryType
  <2>2. cached' \in 0 .. Len(heap)
    BY <1>2, <2>1 DEF ReturnPlaintext
  <2> QED
    BY <2>2 DEF CallInv, MemoryType, ReturnPlaintext, far
<1>4. Become(c, Ended("returned")) /\ "returned" \in AtRest
  BY DEF ReturnPlaintext, AtRest
<1> QED
  BY <1>1, <1>2, <1>3, <1>4, EndStep

LEMMA DecryptCallStep ==
    ASSUME CallInv, MaxConcurrent = 1, NEW c \in Decryption, DecryptCall(c)
    PROVE  CallInv'
<1>1. ASSUME NEW m \in replies \ opened, StartDecrypt(c, m) PROVE CallInv'
  BY <1>1, StartDecryptStep
<1> QED
  BY <1>1, LoadToDecryptStep, RespondX3DHStep, SkipOldMessageStep, SkipMessageStep,
     TurnRatchetStep, DeriveRootKeyStep, TurnReceivingChainStep, TurnKeyPairStep,
     TurnSendingChainStep, ReadReceivingKeyStep, SpendReceivingKeyStep,
     ReceivePlaintextStep, CatchRejectionStep, SaveReceivedStep, ReturnPlaintextStep
     DEF DecryptCall

-----------------------------------------------------------------------------
(* The other end, and the page. *)

(* A step that touches no call and no object. *)
LEMMA FarStep ==
    ASSUME CallInv, MemoryType', calls' = calls, heap' = heap
    PROVE  CallInv'
<1>1. Running' = Running
  BY DEF Running
<1>2. OneCall'
  BY <1>1 DEF CallInv, OneCall
<1>3. \A c \in Call : CallPhase(c, calls[c], heap)'
  <2>1. \A c \in Call : CallPhase(c, calls'[c], heap')
    BY DEF CallInv
  <2> QED
    BY <2>1
<1> QED
  BY <1>2, <1>3 DEF CallInv

LEMMA PeerReadsStep ==
    ASSUME CallInv, NEW m \in handed, PeerReads(m)
    PROVE  CallInv'
<1>1. m \in Envelope /\ MemoryType
  BY DEF CallInv, MemoryType
<1>2. /\ FreshKey(them) \in KeyPair /\ <<them, 0>> \in KeyPair
      /\ minted' \in [Party -> Nat]
  BY <1>1, PartyKeys, Ends DEF PeerReads
<1>3. PICK fresh \in KeyPair : fresh = FreshKey(them)
  BY <1>2
<1>4. PICK rebuilt : rebuilt = InitReceiver(Secret(m.x3dh, <<them, 0>>), <<them, 0>>)
  OBVIOUS
<1>5. m.x3dh # None => rebuilt \in RatchetState
  <2> SUFFICES ASSUME m.x3dh # None PROVE rebuilt \in RatchetState
    OBVIOUS
  <2>1. Secret(m.x3dh, <<them, 0>>) \in SUBSET KeyPair
    BY <1>1, <1>2, EnvelopeFields, KdfTypes DEF Secret
  <2> QED
    BY <1>2, <1>4, <2>1, InitReceiverType
<1>6. \/ peer # None /\ peer' = RatchetDecrypt(peer, m, fresh).st
      \/ m.x3dh # None /\ peer' = RatchetDecrypt(rebuilt, m, fresh).st
  BY <1>3, <1>4 DEF PeerReads
<1>7. peer # None => peer \in RatchetState
  BY <1>1 DEF MemoryType
<1>8. \A st \in RatchetState : RatchetDecrypt(st, m, fresh).st \in RatchetState
  BY <1>1, EnvelopeFields, RatchetDecryptType
<1>9. peer' \in RatchetState
  BY <1>5, <1>6, <1>7, <1>8
<1>10. calls' = calls /\ heap' = heap
  BY DEF PeerReads, memory
<1>11. MemoryType'
  BY <1>1, <1>2, <1>9, <1>10 DEF MemoryType, PeerReads, memory
<1> QED
  BY <1>10, <1>11, FarStep

LEMMA PeerSendsStep ==
    ASSUME CallInv, PeerSends
    PROVE  CallInv'
<1>1. MemoryType /\ replies \in SUBSET Envelope /\ IsFiniteSet(replies)
  BY DEF CallInv, MemoryType
<1>2. /\ FreshKey(them) \in KeyPair /\ <<us, 0>> \in KeyPair
      /\ <<them, minted[them] + 1>> \in KeyPair
      /\ \A i \in Nat : [minted EXCEPT ![them] = @ + i] \in [Party -> Nat]
  BY <1>1, PartyKeys, Ends
<1>3. minted' \in [Party -> Nat]
  <2>1. minted' = [minted EXCEPT ![them] = @ + 2] \/ minted' = minted
    BY DEF PeerSends
  <2> QED
    BY <1>1, <1>2, <2>1 DEF MemoryType
<1>4. PICK begun \in RatchetState :
         begun = InitSender(Secret(FreshKey(them), <<us, 0>>), <<us, 0>>,
                            <<them, minted[them] + 1>>)
  <2>1. Secret(FreshKey(them), <<us, 0>>) \in SUBSET KeyPair
    BY <1>2, KdfTypes DEF Secret
  <2> QED
    BY <1>2, <2>1, InitSenderType
<1>5. PICK st \in RatchetState : st = IF peer = None THEN begun ELSE peer
  BY <1>1 DEF MemoryType
<1>6. PICK ephemeral \in KeyPair \cup {None} :
         ephemeral = IF peer = None THEN FreshKey(them) ELSE None
  BY <1>2
<1>7. CanEncrypt(st) /\ peer' = AfterEncrypt(st)
  BY <1>4, <1>5 DEF PeerSends
<1>8. PICK reply : reply = [ by |-> Cardinality(replies) + 1, x3dh |-> ephemeral, tagged |-> TRUE,
                             dh |-> Header(st).dh, pn |-> Header(st).pn, n |-> Header(st).n,
                             key |-> st.cks ]
  OBVIOUS
<1>9. replies' = replies \cup {reply}
  BY <1>4, <1>5, <1>6, <1>8 DEF PeerSends
<1>10. reply \in Envelope
  <2>1. Cardinality(replies) + 1 \in Nat
    BY <1>1, FS_CardinalityType
  <2>2. Header(st).dh \in KeyPair /\ Header(st).pn \in Nat /\ Header(st).n \in Nat
    BY DEF Header, RatchetState
  <2>3. st.cks \in ChainKey
    BY <1>7, SessionFields DEF CanEncrypt
  <2> QED
    BY <1>8, <2>1, <2>2, <2>3 DEF Envelope
<1>11. replies' \in SUBSET Envelope /\ IsFiniteSet(replies')
  BY <1>1, <1>9, <1>10, FS_AddElement
<1>12. peer' \in RatchetState
  BY <1>7, AfterEncryptType
<1>13. calls' = calls /\ heap' = heap
  BY DEF PeerSends, memory
<1>14. MemoryType'
  BY <1>1, <1>3, <1>11, <1>12, <1>13 DEF MemoryType, PeerSends, memory
<1> QED
  BY <1>13, <1>14, FarStep

LEMMA ReloadPageStep ==
    ASSUME CallInv, ReloadPage
    PROVE  CallInv'
<1>1. heap' = <<>> /\ <<>> \in Seq(RatchetState) /\ Len(<<>>) = 0
  BY DEF ReloadPage
<1>2. MemoryType'
  BY <1>1 DEF CallInv, MemoryType, ReloadPage, far
<1>3. ASSUME NEW c \in Call PROVE calls'[c] \in Frame /\ calls'[c].pc \in AtRest
  <2>1. calls'[c] = IF c \in Running THEN Ended("threw") ELSE calls[c]
    BY DEF ReloadPage
  <2>2. CASE c \in Running
    <3>1. "threw" \in EncryptPC \cup DecryptPC /\ "threw" \in AtRest
      BY DEF EncryptPC, AtRest
    <3> QED
      BY <2>1, <2>2, <3>1, EndedFields
  <2>3. CASE c \notin Running
    BY <2>1, <2>3 DEF CallInv, Running, AtRest
  <2> QED
    BY <2>2, <2>3
<1>4. calls' \in [Call -> Frame]
  BY <1>3 DEF ReloadPage
<1>5. OneCall'
  BY <1>3 DEF OneCall, Running, AtRest
<1>6. \A c \in Call : CallPhase(c, calls'[c], heap')
  BY <1>3, RestIsAPhase
<1>7. \A c \in Call : CallPhase(c, calls[c], heap)'
  BY <1>6
<1> QED
  BY <1>2, <1>4, <1>5, <1>7 DEF CallInv

LEMMA CallsInitially == CallsInit => CallInv
<1> SUFFICES ASSUME CallsInit PROVE CallInv
  OBVIOUS
<1>1. MemoryType
  <2>1. heap \in Seq(RatchetState) /\ cached \in 0 .. Len(heap)
    BY DEF CallsInit
  <2>2. IsFiniteSet(replies)
    BY FS_EmptySet DEF CallsInit
  <2> QED
    BY <2>1, <2>2 DEF CallsInit, MemoryType
<1>2. ASSUME NEW c \in Call PROVE calls[c] \in Frame /\ calls[c].pc \in AtRest
  <2>1. "idle" \in EncryptPC \cup DecryptPC /\ "idle" \in AtRest
    BY DEF EncryptPC, AtRest
  <2> QED
    BY <2>1, EndedFields DEF CallsInit
<1>3. calls \in [Call -> Frame]
  BY <1>2 DEF CallsInit
<1>4. OneCall
  BY <1>2 DEF OneCall, Running, AtRest
<1> QED
  BY <1>1, <1>2, <1>3, <1>4, RestIsAPhase DEF CallInv

LEMMA CallsGoOn == CallInv /\ MaxConcurrent = 1 /\ [CallsNext]_callVars => CallInv'
<1> SUFFICES ASSUME CallInv, MaxConcurrent = 1, [CallsNext]_callVars PROVE CallInv'
  OBVIOUS
<1>1. CASE UNCHANGED callVars
  <2>1. MemoryType' /\ calls' = calls /\ heap' = heap
    BY <1>1 DEF callVars, CallInv, MemoryType
  <2> QED
    BY <2>1, FarStep
<1>2. ASSUME NEW c \in Encryption, EncryptCall(c) PROVE CallInv'
  BY <1>2, EncryptCallStep
<1>3. ASSUME NEW c \in Decryption, DecryptCall(c) PROVE CallInv'
  BY <1>3, DecryptCallStep
<1>4. ASSUME NEW m \in handed, PeerReads(m) PROVE CallInv'
  BY <1>4, PeerReadsStep
<1> QED
  BY <1>1, <1>2, <1>3, <1>4, PeerSendsStep, ReloadPageStep DEF CallsNext

(* In phase, a call by itself leaves what the ratchet's operators say. *)
LEMMA PhasesAreAtomic == CallInv => CallsAreAtomic
<1> SUFFICES ASSUME CallInv, NEW c \in Call
             PROVE  LET whole == RatchetDecrypt(calls[c].from, calls[c].msg, State(c).dhs)
                    IN  /\ IsAt(c, "saveState") /\ c \in Encryption
                              => State(c) = AfterEncrypt(calls[c].from)
                        /\ IsAt(c, "aesGcmDecrypt") => State(c) = whole.st /\ whole.ok
                        /\ IsAt(c, "rejected") => State(c) = whole.st /\ ~whole.ok
  BY DEF CallsAreAtomic
<1>1. CASE c \in Encryption
  <2>1. EncryptPhase(calls[c], State(c))
    BY <1>1, EncryptPhaseNow
  <2> QED
    BY <2>1 DEF EncryptPhase, EncryptPC, IsAt
<1>2. CASE c \in Decryption
  <2>1. c \notin Encryption
    BY <1>2, CallsAssumption
  <2>2. calls[c].pc \in RatchetPC => RatchetPhase(calls[c], State(c))
    BY <1>2, DecryptPhaseNow
  <2> QED
    BY <2>1, <2>2 DEF RatchetPhase, RatchetPC, IsAt
<1> QED
  BY <1>1, <1>2 DEF Call

(* With one call at a time, as RatchetSession takes them, a call of         *)
(* encryptMessage or decryptMessage cut at its awaits leaves the session    *)
(* object as AfterEncrypt or RatchetDecrypt leave the one it took up, and   *)
(* a message is rejected exactly when RatchetDecrypt throws.                *)
THEOREM CallsAreAtomicHolds == MaxConcurrent = 1 => (CallsSpec => []CallsAreAtomic)
<1> SUFFICES ASSUME MaxConcurrent = 1 PROVE CallsSpec => []CallsAreAtomic
  OBVIOUS
<1>1. CallInv /\ [CallsNext]_callVars => CallInv'
  BY CallsGoOn
<1> QED
  BY <1>1, CallsInitially, PhasesAreAtomic, PTL DEF CallsSpec

-----------------------------------------------------------------------------
(* What was handed out stays behind: the sending chains a device can come   *)
(* back to are past the keys of the messages handed out.                    *)

LEMMA SendsPastLater ==
    ASSUME NEW g \in [Party -> Nat], NEW h \in [Party -> Nat], \A q \in Party : g[q] <= h[q],
           NEW st \in RatchetState, NEW posted, SendsPast(g, posted, st)
    PROVE  SendsPast(h, posted, st)
<1>1. st.cks # None => st.cks \in ChainKey
  BY SessionFields
<1> QED
  BY <1>1, KnownGrows DEF SendsPast

(* A chain made from a key pair of our own that no message is under. *)
LEMMA FreshSendsPast ==
    ASSUME NEW g, NEW posted, NEW rk \in RootKey, NEW ours \in KeyPair, NEW theirs \in KeyPair,
           KnownIn(g, ours), KnownIn(g, theirs), Unused(posted, ours),
           NEW st, st.cks = FirstChainKey(KdfRootKey(rk, DH(ours, theirs)))
    PROVE  SendsPast(g, posted, st)
<1>1. PICK root : root = KdfRootKey(rk, DH(ours, theirs))
  OBVIOUS
<1>2. root.path # <<>> /\ root.path[Len(root.path)] = {ours, theirs}
  <2>1. DH(ours, theirs) \in SUBSET KeyPair
    BY KdfTypes
  <2> QED
    BY <1>1, <2>1, KdfRootKeyLast DEF DH
<1>3. KnownRootIn(g, root)
  BY <1>2 DEF KnownRootIn
<1>4. \A m \in posted : m.key.root # root
  BY <1>2 DEF Unused
<1>5. st.cks.root = root
  BY <1>1 DEF FirstChainKey
<1> QED
  BY <1>3, <1>4, <1>5 DEF SendsPast

(* A key pair that is not made yet is unused. *)
LEMMA NextKeyUnused ==
    ASSUME CallInv, PastInv
    PROVE  Unused(handed, FreshKey(us))
<1>1. ~KnownIn(minted, FreshKey(us))
  <2>1. minted[us] \in Nat
    BY Ends DEF CallInv, MemoryType
  <2> QED
    BY <2>1 DEF KnownIn, FreshKey
<1> QED
  BY <1>1 DEF Unused, PastInv, KnownRootIn

LEMMA RestIsPast ==
    ASSUME NEW c, NEW f, f.pc \in AtRest, NEW st, NEW g, NEW posted, NEW db, NEW got
    PROVE  PastCall(c, f, st, g, posted, db, got)
BY DEF PastCall, AtRest, WithObject, RatchetPC, SecondDH

(* The step of one call, the others at rest. *)
LEMMA PastStep ==
    ASSUME CallInv, CallInv', PastInv, NEW c \in Call, \A b \in Running : b = c,
           NEW f, calls' = [calls EXCEPT ![c] = f],
           \A q \in Party : minted[q] <= minted'[q], handed' = handed, UNCHANGED far,
           indexedDB' # None => SendsPast(minted', handed, indexedDB'),
           cached' # 0 => SendsPast(minted', handed, heap'[cached']),
           PastCall(c, f, heap'[f.obj], minted', handed, indexedDB', replies)
    PROVE  PastInv'
<1>1. /\ minted \in [Party -> Nat] /\ minted' \in [Party -> Nat]
      /\ handed \in SUBSET Envelope /\ replies \in SUBSET Envelope
      /\ peer \in RatchetState \cup {None}
  BY DEF CallInv, MemoryType
<1>2. \A p \in Party : 0 < minted'[p]
  BY <1>1 DEF PastInv
<1>3. \A m \in handed : KnownRootIn(minted', m.key.root)
  BY <1>1, EnvelopeFields, KnownGrows DEF PastInv
<1>4. \A m \in replies : KnownIn(minted', m.dh) /\ Opens(m)
  BY <1>1, EnvelopeFields, KnownGrows DEF PastInv
<1>5. peer # None => KnownIn(minted', peer.dhs)
  <2>1. peer # None => peer.dhs \in KeyPair
    BY <1>1 DEF RatchetState
  <2> QED
    BY <1>1, <2>1, KnownGrows DEF PastInv
<1>6. ASSUME NEW d \in Call
      PROVE  PastCall(d, calls'[d], heap'[calls'[d].obj], minted', handed, indexedDB', replies)
  <2>1. CASE d = c
    BY <2>1 DEF CallInv
  <2>2. CASE d # c
    <3>1. calls'[d] = calls[d] /\ d \notin Running
      BY <2>2 DEF CallInv
    <3> QED
      BY <3>1, RestIsPast DEF Running, AtRest
  <2> QED
    BY <2>1, <2>2
<1>7. replies' = replies /\ peer' = peer
  BY DEF far
<1> QED
  BY <1>2, <1>3, <1>4, <1>5, <1>6, <1>7 DEF PastInv

(* What a step finds of the state it is in. *)
LEMMA PastNow ==
    ASSUME CallInv, PastInv, NEW c \in Call
    PROVE  /\ PastCall(c, calls[c], State(c), minted, handed, indexedDB, replies)
           /\ minted \in [Party -> Nat] /\ handed \in SUBSET Envelope
           /\ replies \in SUBSET Envelope /\ indexedDB \in RatchetState \cup {None}
           /\ cached \in 0 .. Len(heap) /\ heap \in Seq(RatchetState) /\ Len(heap) \in Nat
           /\ calls[c] \in Frame /\ us \in Party /\ them \in Party
BY Ends DEF CallInv, PastInv, MemoryType, State

(* A stored session stays past what was handed out. *)
LEMMA StoresStayPast ==
    ASSUME CallInv, CallInv', PastInv, \A q \in Party : minted[q] <= minted'[q]
    PROVE  /\ indexedDB # None => SendsPast(minted', handed, indexedDB)
           /\ cached # 0 => SendsPast(minted', handed, heap[cached])
<1>1. minted \in [Party -> Nat] /\ minted' \in [Party -> Nat]
  BY DEF CallInv, MemoryType
<1>2. indexedDB # None => indexedDB \in RatchetState
  BY DEF CallInv, MemoryType
<1>3. cached # 0 => heap[cached] \in RatchetState
  BY DEF CallInv, MemoryType
<1> QED
  BY <1>1, <1>2, <1>3, SendsPastLater DEF PastInv

(* A step that mutates no object and may save the call's. *)
LEMMA QuietPast ==
    ASSUME CallInv, CallInv', PastInv, NEW c \in Call, \A b \in Running : b = c,
           NEW f, calls' = [calls EXCEPT ![c] = f],
           \A q \in Party : minted[q] <= minted'[q],
           \/ indexedDB' = indexedDB
           \/ indexedDB' = State(c) /\ minted' = minted /\ calls[c].pc \in WithObject,
           UNCHANGED <<heap, cached, handed, far>>,
           PastCall(c, f, heap[f.obj], minted', handed, indexedDB', replies)
    PROVE  PastInv'
<1>1. indexedDB' # None => SendsPast(minted', handed, indexedDB')
  BY StoresStayPast, PastNow DEF PastCall
<1>2. cached' # 0 => SendsPast(minted', handed, heap'[cached'])
  BY StoresStayPast
<1> QED
  BY <1>1, <1>2, PastStep

(* A step that mutates the call's object. *)
LEMMA MutatePast ==
    ASSUME CallInv, CallInv', PastInv, NEW c \in Call, \A b \in Running : b = c,
           NEW f, calls' = [calls EXCEPT ![c] = f], f.obj \in 1 .. Len(heap),
           NEW st, heap' = [heap EXCEPT ![f.obj] = st], SendsPast(minted', handed, st),
           \A q \in Party : minted[q] <= minted'[q], UNCHANGED <<indexedDB, cached, handed, far>>,
           PastCall(c, f, st, minted', handed, indexedDB, replies)
    PROVE  PastInv'
<1>1. heap'[f.obj] = st /\ \A i \in 1 .. Len(heap) : i # f.obj => heap'[i] = heap[i]
  BY PastNow
<1>2. cached' # 0 => SendsPast(minted', handed, heap'[cached'])
  <2>1. cached # 0 => cached \in 1 .. Len(heap)
    BY PastNow
  <2> QED
    BY <1>1, <2>1, StoresStayPast
<1>3. indexedDB' # None => SendsPast(minted', handed, indexedDB')
  BY StoresStayPast
<1> QED
  BY <1>1, <1>2, <1>3, PastStep

(* A step that makes an object. *)
LEMMA NewPast ==
    ASSUME CallInv, CallInv', PastInv, NEW c \in Call, \A b \in Running : b = c,
           NEW f, calls' = [calls EXCEPT ![c] = f], f.obj = Len(heap) + 1,
           NEW st, heap' = Append(heap, st), SendsPast(minted', handed, st),
           \A q \in Party : minted[q] <= minted'[q], UNCHANGED <<indexedDB, handed, far>>,
           cached' = cached \/ cached' = Len(heap) + 1,
           PastCall(c, f, st, minted', handed, indexedDB, replies)
    PROVE  PastInv'
<1>1. heap'[f.obj] = st /\ \A i \in 1 .. Len(heap) : heap'[i] = heap[i]
  BY PastNow
<1>2. cached' # 0 => SendsPast(minted', handed, heap'[cached'])
  <2>1. cached # 0 => cached \in 1 .. Len(heap)
    BY PastNow
  <2> QED
    BY <1>1, <2>1, StoresStayPast
<1>3. indexedDB' # None => SendsPast(minted', handed, indexedDB')
  BY StoresStayPast
<1> QED
  BY <1>1, <1>2, <1>3, PastStep

(* encryptMessage. *)

(* Before a message is made, a call only has its object. *)
LEMMA GetsPast ==
    ASSUME NEW c \in Encryption, NEW f, NEW st, NEW g, NEW posted, NEW db, NEW got,
           f.pc \in {"loadState", "performX3DH", "initSender", "saveNew", "getOrCreateSession",
                     "kdfChainKey"},
           f.pc \in WithObject => SendsPast(g, posted, st)
    PROVE  PastCall(c, f, st, g, posted, db, got)
<1>1. c \notin Decryption
  BY CallsAssumption
<1> QED
  BY <1>1 DEF PastCall

LEMMA SameKeyPairs == CallInv => \A q \in Party : minted[q] <= minted[q]
BY DEF CallInv, MemoryType

LEMMA CountsUp ==
    ASSUME CallInv, NEW p \in Party, NEW i \in Nat, minted' = [minted EXCEPT ![p] = @ + i]
    PROVE  \A q \in Party : minted[q] <= minted'[q]
BY DEF CallInv, MemoryType

LEMMA StartEncryptPast ==
    ASSUME CallInv, CallInv', PastInv, MaxConcurrent = 1, NEW c \in Encryption, StartEncrypt(c)
    PROVE  PastInv'
<1>1. c \in Call /\ Running = {}
  BY BeginsAlone DEF StartEncrypt, Call
<1>2. PICK f : f = [calls[c] EXCEPT !.pc = IF cached # 0 THEN "getOrCreateSession" ELSE "loadState",
                                    !.obj = cached]
  OBVIOUS
<1>3. /\ f.pc = IF cached # 0 THEN "getOrCreateSession" ELSE "loadState"
      /\ f.obj = cached
  BY <1>1, <1>2, PastNow DEF Frame
<1>4. f.pc \in WithObject => SendsPast(minted, handed, heap[f.obj])
  BY <1>3 DEF PastInv, WithObject, RatchetPC
<1>5. PastCall(c, f, heap[f.obj], minted, handed, indexedDB, replies)
  BY <1>3, <1>4, GetsPast
<1>6. calls' = [calls EXCEPT ![c] = f] /\ UNCHANGED <<minted, indexedDB, heap, cached, handed, far>>
  BY <1>2 DEF StartEncrypt, Become, memory
<1> QED
  BY <1>1, <1>5, <1>6, SameKeyPairs, QuietPast

LEMMA LoadToEncryptPast ==
    ASSUME CallInv, CallInv', PastInv, NEW c \in Encryption, LoadToEncrypt(c)
    PROVE  PastInv'
<1>1. c \in Call /\ \A b \in Running : b = c
  BY RunsAlone DEF LoadToEncrypt, IsAt, AtRest, Call
<1>2. CASE indexedDB # None /\ Cache(c, indexedDB, "getOrCreateSession")
  <2>1. PICK f : f = [calls[c] EXCEPT !.pc = "getOrCreateSession", !.obj = Len(heap) + 1]
    OBVIOUS
  <2>2. f.pc = "getOrCreateSession" /\ f.obj = Len(heap) + 1
    BY <1>1, <2>1, PastNow DEF Frame
  <2>3. SendsPast(minted, handed, indexedDB)
    BY <1>2 DEF PastInv
  <2>4. PastCall(c, f, indexedDB, minted, handed, indexedDB, replies)
    BY <2>2, <2>3, GetsPast
  <2>5. /\ calls' = [calls EXCEPT ![c] = f] /\ heap' = Append(heap, indexedDB)
        /\ cached' = Len(heap) + 1
        /\ UNCHANGED <<minted, indexedDB, handed, far>>
    BY <1>2, <2>1 DEF LoadToEncrypt, Cache, Become
  <2> QED
    BY <1>1, <2>2, <2>3, <2>4, <2>5, SameKeyPairs, NewPast
<1>3. CASE Await(c, "performX3DH") /\ UNCHANGED <<heap, cached>>
  <2>1. PICK f : f = [calls[c] EXCEPT !.pc = "performX3DH"]
    OBVIOUS
  <2>2. f.pc = "performX3DH"
    BY <1>1, <2>1, PastNow DEF Frame
  <2>3. PastCall(c, f, heap[f.obj], minted, handed, indexedDB, replies)
    BY <2>2, GetsPast DEF WithObject, RatchetPC
  <2>4. calls' = [calls EXCEPT ![c] = f] /\ UNCHANGED <<minted, indexedDB, handed, far>>
    BY <1>3, <2>1 DEF LoadToEncrypt, Await, Become
  <2> QED
    BY <1>1, <1>3, <2>3, <2>4, SameKeyPairs, QuietPast
<1> QED
  BY <1>2, <1>3 DEF LoadToEncrypt

LEMMA PerformX3DHPast ==
    ASSUME CallInv, CallInv', PastInv, NEW c \in Encryption, PerformX3DH(c)
    PROVE  PastInv'
<1>1. c \in Call /\ \A b \in Running : b = c
  BY RunsAlone DEF PerformX3DH, IsAt, AtRest, Call
<1>2. PICK f : f = [calls[c] EXCEPT !.pc = "initSender",
                                    !.dh = Secret(FreshKey(us), <<them, 0>>)]
  OBVIOUS
<1>3. f.pc = "initSender"
  BY <1>1, <1>2, PastNow DEF Frame
<1>4. PastCall(c, f, heap[f.obj], minted', handed, indexedDB, replies)
  BY <1>3, GetsPast DEF WithObject, RatchetPC
<1>5. calls' = [calls EXCEPT ![c] = f] /\ UNCHANGED <<heap, cached, indexedDB, handed, far>>
  BY <1>2 DEF PerformX3DH, Become
<1>6. \A q \in Party : minted[q] <= minted'[q]
  BY Ends, CountsUp DEF PerformX3DH
<1> QED
  BY <1>1, <1>4, <1>5, <1>6, QuietPast

LEMMA CacheNewSessionPast ==
    ASSUME CallInv, CallInv', PastInv, NEW c \in Encryption, CacheNewSession(c)
    PROVE  PastInv'
<1>1. c \in Call /\ \A b \in Running : b = c
  BY RunsAlone DEF CacheNewSession, IsAt, AtRest, Call
<1>2. PICK st : st = InitSender(calls[c].dh, <<them, 0>>, FreshKey(us))
  OBVIOUS
<1>3. /\ minted' = [minted EXCEPT ![us] = @ + 1] /\ Cache(c, st, "saveNew")
      /\ UNCHANGED <<indexedDB, handed, far>>
  BY <1>2 DEF CacheNewSession
<1>4. SendsPast(minted', handed, st)
  <2>1. PICK rk \in RootKey : rk = [secret |-> calls[c].dh, path |-> <<>>]
    <3>1. calls[c].dh \in SUBSET KeyPair
      BY EncryptPhaseNow DEF CacheNewSession, IsAt, EncryptPhase
    <3>2. [secret |-> calls[c].dh, path |-> <<>>] \in RootKey
      BY <3>1 DEF RootKey
    <3> QED
      BY <3>2
  <2>2. st.cks = FirstChainKey(KdfRootKey(rk, DH(FreshKey(us), <<them, 0>>)))
    BY <1>2, <2>1 DEF InitSender
  <2>3. FreshKey(us) \in KeyPair /\ <<them, 0>> \in KeyPair
    BY PartyKeys, Ends DEF CallInv
  <2>4. KnownIn(minted', FreshKey(us)) /\ KnownIn(minted', <<them, 0>>)
    <3>1. minted[us] \in Nat /\ minted[them] \in Nat /\ 0 < minted[them] /\ us # them
      BY <1>1, PastNow, CallsAssumption DEF PastInv
    <3>2. minted'[us] = minted[us] + 1 /\ minted'[them] = minted[them]
      BY <1>1, <1>3, <3>1, PastNow
    <3> QED
      BY <3>1, <3>2 DEF KnownIn, FreshKey
  <2>5. Unused(handed, FreshKey(us))
    BY NextKeyUnused
  <2> QED
    BY <2>2, <2>3, <2>4, <2>5, FreshSendsPast
<1>5. PICK f : f = [calls[c] EXCEPT !.pc = "saveNew", !.obj = Len(heap) + 1]
  OBVIOUS
<1>6. f.pc = "saveNew" /\ f.obj = Len(heap) + 1
  BY <1>1, <1>5, PastNow DEF Frame
<1>7. PastCall(c, f, st, minted', handed, indexedDB, replies)
  BY <1>4, <1>6, GetsPast
<1>8. /\ calls' = [calls EXCEPT ![c] = f] /\ heap' = Append(heap, st)
      /\ cached' = Len(heap) + 1
  BY <1>3, <1>5 DEF Cache, Become
<1>9. \A q \in Party : minted[q] <= minted'[q]
  BY <1>3, Ends, CountsUp
<1> QED
  BY <1>1, <1>3, <1>4, <1>6, <1>7, <1>8, <1>9, NewPast

LEMMA SaveNewSessionPast ==
    ASSUME CallInv, CallInv', PastInv, NEW c \in Encryption, SaveNewSession(c)
    PROVE  PastInv'
<1>1. c \in Call /\ \A b \in Running : b = c
  BY RunsAlone DEF SaveNewSession, IsAt, AtRest, Call
<1>2. calls[c].pc \in WithObject
  BY DEF SaveNewSession, IsAt, WithObject
<1>3. PICK f : f = [calls[c] EXCEPT !.pc = "getOrCreateSession"]
  OBVIOUS
<1>4. f.pc = "getOrCreateSession" /\ f.obj = calls[c].obj
  BY <1>1, <1>3, PastNow DEF Frame
<1>5. SendsPast(minted, handed, heap[f.obj])
  BY <1>1, <1>2, <1>4, PastNow DEF PastCall, State
<1>6. PastCall(c, f, heap[f.obj], minted, handed, indexedDB', replies)
  BY <1>4, <1>5, GetsPast
<1>7. /\ calls' = [calls EXCEPT ![c] = f] /\ indexedDB' = State(c)
      /\ UNCHANGED <<minted, heap, cached, handed, far>>
  BY <1>3 DEF SaveNewSession, Await, Become, memory
<1> QED
  BY <1>1, <1>2, <1>6, <1>7, SameKeyPairs, QuietPast

LEMMA ReadChainKeyPast ==
    ASSUME CallInv, CallInv', PastInv, NEW c \in Encryption, ReadChainKey(c)
    PROVE  PastInv'
<1>1. c \in Call /\ \A b \in Running : b = c
  BY RunsAlone DEF ReadChainKey, IsAt, AtRest, Call
<1>2. UNCHANGED <<minted, heap, cached, indexedDB, handed, far>>
  BY DEF ReadChainKey, memory
<1>3. CASE CanEncrypt(State(c))
  <2>1. PICK f : f = [calls[c] EXCEPT !.pc = "kdfChainKey", !.ck = State(c).cks, !.from = State(c)]
    OBVIOUS
  <2>2. f.pc = "kdfChainKey" /\ f.obj = calls[c].obj
    BY <1>1, <2>1, PastNow DEF Frame
  <2>3. SendsPast(minted, handed, heap[f.obj])
    BY <1>1, <2>2, PastNow DEF PastCall, State, ReadChainKey, IsAt, WithObject
  <2>4. PastCall(c, f, heap[f.obj], minted, handed, indexedDB, replies)
    BY <2>2, <2>3, GetsPast
  <2>5. calls' = [calls EXCEPT ![c] = f]
    BY <1>3, <2>1 DEF ReadChainKey, Become
  <2> QED
    BY <1>1, <1>2, <2>4, <2>5, SameKeyPairs, QuietPast
<1>4. CASE ~CanEncrypt(State(c))
  <2>1. PICK f : f = Ended("threw") /\ f.pc \in AtRest
    <3>1. Ended("threw").pc \in AtRest
      BY DEF Ended, AtRest
    <3> QED
      BY <3>1
  <2>2. PastCall(c, f, heap[f.obj], minted, handed, indexedDB, replies)
    BY <2>1, RestIsPast
  <2>3. calls' = [calls EXCEPT ![c] = f]
    BY <1>4, <2>1 DEF ReadChainKey, Become
  <2> QED
    BY <1>1, <1>2, <2>2, <2>3, SameKeyPairs, QuietPast
<1> QED
  BY <1>3, <1>4

(* The message's key is the one the chain leaves behind. *)
LEMMA AdvanceChainPast ==
    ASSUME CallInv, CallInv', PastInv, NEW c \in Encryption, AdvanceChain(c)
    PROVE  PastInv'
<1>1. calls[c].pc = "kdfChainKey" /\ c \in Call /\ \A b \in Running : b = c
  BY RunsAlone DEF AdvanceChain, IsAt, AtRest, Call
<1>2. /\ State(c) \in RatchetState /\ calls[c].obj \in 1 .. Len(heap)
      /\ State(c) = calls[c].from /\ calls[c].ck = State(c).cks /\ State(c).cks # None
  BY <1>1, EncryptPhaseNow DEF EncryptPhase, CanEncrypt
<1>3. PICK ck \in ChainKey : ck = calls[c].ck /\ ck = State(c).cks
  BY <1>2, SessionFields
<1>4. PICK next \in ChainKey : next = KdfChainKey(ck, 1) /\ next.root = ck.root
                               /\ next.step = ck.step + 1
  <2>1. KdfChainKey(ck, 1) \in ChainKey
    BY KdfTypes
  <2> QED
    BY <2>1 DEF KdfChainKey, ChainKey
<1>5. PICK st : st = [State(c) EXCEPT !.cks = next]
  OBVIOUS
<1>6. st.cks = next
  BY <1>2, <1>5 DEF RatchetState
<1>7. SendsPast(minted, handed, State(c))
  BY <1>1, PastNow DEF PastCall, WithObject, RatchetPC
<1>8. ck.step \in Nat
  BY KeyFields
<1>9. \A m \in handed : m.key.step \in Nat
  BY <1>1, PastNow, EnvelopeFields, KeyFields
<1>10. SendsPast(minted, handed, st)
  BY <1>3, <1>4, <1>6, <1>7, <1>8, <1>9, NoneAssumption DEF SendsPast
<1>11. PICK f, m :
          /\ f = [calls[c] EXCEPT !.pc = "aesGcmEncrypt", !.msg = m]
          /\ m = [ by |-> c, x3dh |-> None, tagged |-> TRUE,
                   dh |-> Header(State(c)).dh, pn |-> Header(State(c)).pn,
                   n |-> Header(State(c)).n, key |-> calls[c].ck ]
  OBVIOUS
<1>12. f.pc = "aesGcmEncrypt" /\ f.msg = m /\ f.obj = calls[c].obj /\ m.key = ck
  BY <1>1, <1>3, <1>11, PastNow DEF Frame
<1>13. PastCall(c, f, st, minted, handed, indexedDB, replies)
  <2>1. c \notin Decryption
    BY CallsAssumption
  <2>2. st.cks # None /\ m.key.root = st.cks.root /\ m.key.step < st.cks.step
    BY <1>4, <1>6, <1>8, <1>12, NoneAssumption
  <2> QED
    BY <1>10, <1>12, <2>1, <2>2 DEF PastCall
<1>14. calls' = [calls EXCEPT ![c] = f]
  BY <1>11 DEF AdvanceChain, Become
<1>15. heap' = [heap EXCEPT ![f.obj] = st]
  BY <1>3, <1>4, <1>5, <1>12 DEF AdvanceChain, Mutate
<1>16. UNCHANGED <<minted, indexedDB, cached, handed, far>>
  BY DEF AdvanceChain
<1> QED
  BY <1>1, <1>2, <1>10, <1>12, <1>13, <1>14, <1>15, <1>16, SameKeyPairs, MutatePast

LEMMA CountMessagePast ==
    ASSUME CallInv, CallInv', PastInv, NEW c \in Encryption, CountMessage(c)
    PROVE  PastInv'
<1>1. calls[c].pc = "aesGcmEncrypt" /\ c \in Call /\ \A b \in Running : b = c
  BY RunsAlone DEF CountMessage, IsAt, AtRest, Call
<1>2. State(c) \in RatchetState /\ calls[c].obj \in 1 .. Len(heap)
  BY <1>1, EncryptPhaseNow DEF WithObject
<1>3. PICK st : st = [State(c) EXCEPT !.ns = @ + 1]
  OBVIOUS
<1>4. st.cks = State(c).cks
  BY <1>2, <1>3 DEF RatchetState
<1>5. PICK f : f = [calls[c] EXCEPT !.pc = "saveState"]
  OBVIOUS
<1>6. f.pc = "saveState" /\ f.msg = calls[c].msg /\ f.obj = calls[c].obj
  BY <1>1, <1>5, PastNow DEF Frame
<1>7. PastCall(c, calls[c], State(c), minted, handed, indexedDB, replies)
  BY <1>1, PastNow
<1>8. SendsPast(minted, handed, st)
  BY <1>1, <1>4, <1>7 DEF PastCall, WithObject, SendsPast
<1>9. PastCall(c, f, st, minted, handed, indexedDB, replies)
  <2>1. c \notin Decryption
    BY CallsAssumption
  <2> QED
    BY <1>1, <1>4, <1>6, <1>7, <1>8, <2>1 DEF PastCall
<1>10. calls' = [calls EXCEPT ![c] = f] /\ heap' = [heap EXCEPT ![f.obj] = st]
  BY <1>3, <1>5, <1>6 DEF CountMessage, Await, Become, Mutate
<1>11. UNCHANGED <<minted, indexedDB, cached, handed, far>>
  BY DEF CountMessage
<1> QED
  BY <1>1, <1>2, <1>6, <1>8, <1>9, <1>10, <1>11, SameKeyPairs, MutatePast

LEMMA SaveStatePast ==
    ASSUME CallInv, CallInv', PastInv, NEW c \in Call, SaveState(c)
    PROVE  PastInv'
<1>1. calls[c].pc = "saveState" /\ \A b \in Running : b = c
  BY RunsAlone DEF SaveState, IsAt, AtRest
<1>2. PICK f : f = [calls[c] EXCEPT !.pc = "saved"]
  OBVIOUS
<1>3. f.pc = "saved" /\ f.msg = calls[c].msg /\ f.obj = calls[c].obj
  BY <1>2, PastNow DEF Frame
<1>4. indexedDB' = State(c) /\ UNCHANGED <<minted, heap, cached, handed, far>>
  BY DEF SaveState, memory
<1>5. PastCall(c, f, State(c), minted, handed, indexedDB', replies)
  <2>1. PastCall(c, calls[c], State(c), minted, handed, indexedDB, replies)
    BY PastNow
  <2> QED
    BY <1>1, <1>3, <1>4, <2>1 DEF PastCall, AtRest, WithObject, SecondDH
<1>6. PastCall(c, f, heap[f.obj], minted, handed, indexedDB', replies)
  BY <1>3, <1>5 DEF State
<1>7. calls' = [calls EXCEPT ![c] = f] /\ calls[c].pc \in WithObject
  BY <1>1, <1>2 DEF SaveState, Await, Become, WithObject
<1> QED
  BY <1>1, <1>4, <1>6, <1>7, SameKeyPairs, QuietPast

(* The message is handed out when the session past its key is saved. *)
LEMMA ReturnMessagePast ==
    ASSUME CallInv, CallInv', PastInv, NEW c \in Encryption, ReturnMessage(c)
    PROVE  PastInv'
<1>1. calls[c].pc = "saved" /\ c \in Call /\ \A b \in Running : b = c
  BY RunsAlone DEF ReturnMessage, IsAt, AtRest, Call
<1>2. calls[c].pc \in WithObject /\ calls[c].obj \in 1 .. Len(heap) /\ calls[c].msg \in Envelope
  BY <1>1, EncryptPhaseNow DEF WithObject, EncryptPhase
<1>3. PICK st : st = State(c) /\ st = heap[calls[c].obj]
  BY DEF State
<1>4. /\ SendsPast(minted, handed, st) /\ indexedDB = st
      /\ st.cks # None /\ calls[c].msg.key.root = st.cks.root
      /\ calls[c].msg.key.step < st.cks.step
  BY <1>1, <1>2, <1>3, PastNow DEF PastCall
<1>5. PICK m : m = [calls[c].msg EXCEPT !.x3dh = pending] /\ m.key = calls[c].msg.key
  <2>1. [calls[c].msg EXCEPT !.x3dh = pending].key = calls[c].msg.key
    BY <1>2 DEF Envelope
  <2> QED
    BY <2>1
<1>6. /\ handed' = handed \cup {m} /\ cached' = calls[c].obj
      /\ calls' = [calls EXCEPT ![c] = Ended("returned")]
      /\ UNCHANGED <<heap, indexedDB, minted, far>>
  BY <1>5 DEF ReturnMessage, Become
<1>7. SendsPast(minted, handed', st)
  BY <1>4, <1>5, <1>6 DEF SendsPast
<1>8. KnownRootIn(minted, m.key.root)
  BY <1>4, <1>5 DEF SendsPast
<1>9. ASSUME NEW d \in Call
      PROVE  calls'[d].pc \in AtRest
  <2>1. Ended("returned").pc \in AtRest
    BY DEF Ended, AtRest
  <2>2. d # c => calls'[d] = calls[d] /\ d \notin Running
    BY <1>1, <1>6 DEF CallInv
  <2>3. d = c => calls'[d] = Ended("returned")
    BY <1>6 DEF CallInv
  <2> QED
    BY <2>1, <2>2, <2>3 DEF Running, AtRest
<1>10. \A d \in Call :
          PastCall(d, calls'[d], heap'[calls'[d].obj], minted', handed', indexedDB', replies')
  BY <1>9, RestIsPast
<1>11. \A p \in handed' : KnownRootIn(minted, p.key.root)
  BY <1>6, <1>8 DEF PastInv
<1>12. /\ indexedDB' # None => SendsPast(minted', handed', indexedDB')
       /\ cached' # 0 => SendsPast(minted', handed', heap'[cached'])
  BY <1>3, <1>4, <1>6, <1>7
<1> QED
  BY <1>6, <1>10, <1>11, <1>12 DEF PastInv, far

LEMMA EncryptCallPast ==
    ASSUME CallInv, CallInv', PastInv, MaxConcurrent = 1, NEW c \in Encryption, EncryptCall(c)
    PROVE  PastInv'
<1>1. c \in Call
  BY DEF Call
<1> QED
  BY <1>1, StartEncryptPast, LoadToEncryptPast, PerformX3DHPast, CacheNewSessionPast,
     SaveNewSessionPast, ReadChainKeyPast, AdvanceChainPast, CountMessagePast, SaveStatePast,
     ReturnMessagePast DEF EncryptCall

LEMMA FromFields ==
    ASSUME NEW f \in Frame, NEW st \in RatchetState, NEW g, g = [f EXCEPT !.from = st]
    PROVE  /\ g \in Frame /\ g.pc = f.pc /\ g.obj = f.obj /\ g.msg = f.msg /\ g.from = st
BY DEF Frame

(* A segment that goes on at pc. *)
LEMMA MovedKeeps ==
    ASSUME NEW f \in Frame, NEW st, NEW pc \in FirstPC, NEW ck, NEW g,
           g = [f EXCEPT !.pc = pc] \/ g = [f EXCEPT !.pc = pc, !.ck = ck],
           NEW after, after.cks = st.cks, after.rk = st.rk, NEW segment, segment = Segment(g, after)
    PROVE  Keeps(f, st, segment)
<1>1. segment.frame = g /\ segment.st = after
  BY DEF Segment
<1>2. g.pc = pc /\ g.obj = f.obj /\ g.msg = f.msg /\ g.from = f.from
  BY DEF Frame
<1> QED
  BY <1>1, <1>2 DEF Keeps

LEMMA SkipOneKeeps ==
    ASSUME NEW f \in Frame, NEW st \in RatchetState, NEW until,
           NEW loop \in FirstPC, NEW next \in FirstPC
    PROVE  Keeps(f, st, SkipOne(f, st, until, loop, next))
<1>1. PICK one : one = [st EXCEPT !.ckr = KdfChainKey(f.ck, 1),
                                  !.skipped = Append(@, [dh |-> st.dhr, n |-> st.nr, mk |-> f.ck]),
                                  !.nr = @ + 1]
  OBVIOUS
<1>2. one.cks = st.cks /\ one.rk = st.rk /\ Trimmed(one).cks = st.cks /\ Trimmed(one).rk = st.rk
  BY <1>1 DEF RatchetState, Trimmed
<1>3. PICK segment : segment = SkipOne(f, st, until, loop, next)
  OBVIOUS
<1>4. \/ segment = Segment([f EXCEPT !.pc = loop, !.ck = one.ckr], one)
      \/ segment = Segment([f EXCEPT !.pc = next, !.ck = None], Trimmed(one))
  <2>1. segment = SkipFrom(f, one, until, loop, next)
    BY <1>1, <1>3 DEF SkipOne
  <2> QED
    BY <2>1 DEF SkipFrom, Trimmed
<1> QED
  BY <1>2, <1>3, <1>4, MovedKeeps

LEMMA EnterSkipKeeps ==
    ASSUME NEW f \in Frame, NEW st \in RatchetState, NEW until,
           NEW loop \in FirstPC, NEW next \in FirstPC
    PROVE  Keeps(f, st, EnterSkip(f, st, until, loop, next))
<1>1. Trimmed(st).cks = st.cks /\ Trimmed(st).rk = st.rk
  BY DEF RatchetState, Trimmed
<1>2. PICK segment : segment = EnterSkip(f, st, until, loop, next)
  OBVIOUS
<1>3. \/ segment = Segment([f EXCEPT !.pc = next], st)
      \/ segment = Segment([f EXCEPT !.pc = "rejected"], st)
      \/ segment = Segment([f EXCEPT !.pc = loop, !.ck = st.ckr], st)
      \/ segment = Segment([f EXCEPT !.pc = next, !.ck = None], Trimmed(st))
  BY <1>2 DEF EnterSkip, SkipFrom, Trimmed
<1>4. "rejected" \in FirstPC
  BY DEF FirstPC, RatchetPC, SecondDH
<1> QED
  BY <1>1, <1>2, <1>3, <1>4, MovedKeeps

LEMMA StartTurnKeeps ==
    ASSUME NEW f \in Frame, NEW st \in RatchetState
    PROVE  Keeps(f, st, StartTurn(f, st))
<1>1. "x25519DH" \in FirstPC
  BY DEF FirstPC, RatchetPC, SecondDH
<1> QED
  BY <1>1 DEF Keeps, StartTurn, Segment, Frame, RatchetState

LEMMA StartRatchetDecryptKeeps ==
    ASSUME NEW f \in Frame, NEW st \in RatchetState
    PROVE  Keeps([f EXCEPT !.from = st], st, StartRatchetDecrypt(f, st))
<1>1. PICK g \in Frame : g = [f EXCEPT !.from = st]
  BY DEF Frame
<1>2. g.msg = f.msg
  BY <1>1 DEF Frame
<1>3. PICK m, segment : m = f.msg /\ segment = StartRatchetDecrypt(f, st)
  OBVIOUS
<1>4. {"skipNew", "skipped", "skipOld", "turn", "aesGcmDecrypt", "rejected"} \subseteq FirstPC
  BY DEF FirstPC, RatchetPC, SecondDH
<1>5. CASE SkippedIndex(st, m) # 0
  <2>1. PICK pc \in FirstPC : segment = Segment([g EXCEPT !.pc = pc], OpenSkipped(st, m).st)
    BY <1>1, <1>3, <1>4, <1>5 DEF StartRatchetDecrypt
  <2>2. OpenSkipped(st, m).st.cks = st.cks /\ OpenSkipped(st, m).st.rk = st.rk
    BY DEF OpenSkipped, RatchetState
  <2> QED
    BY <1>1, <1>3, <2>1, <2>2, MovedKeeps
<1>6. CASE SkippedIndex(st, m) = 0
  <2>1. \/ segment = EnterSkip(g, st, m.n, "skipNew", "skipped")
        \/ segment = EnterSkip(g, st, m.pn, "skipOld", "turn")
        \/ segment = StartTurn(g, st)
    BY <1>1, <1>3, <1>6 DEF StartRatchetDecrypt
  <2> QED
    BY <1>1, <1>3, <1>4, <2>1, EnterSkipKeeps, StartTurnKeeps
<1> QED
  BY <1>5, <1>6

(* What a segment leaves is past what was handed out. *)
LEMMA KeptIsPast ==
    ASSUME NEW c \in Decryption, NEW f, NEW st, NEW g, NEW posted, NEW db, NEW got,
           NEW frame, NEW after, frame.pc \in FirstPC, after.cks = st.cks, frame.msg \in got,
           SendsPast(g, posted, st)
    PROVE  /\ SendsPast(g, posted, after)
           /\ PastCall(c, frame, after, g, posted, db, got)
<1>1. SendsPast(g, posted, after)
  BY DEF SendsPast
<1>2. c \notin Encryption
  BY CallsAssumption
<1> QED
  BY <1>1, <1>2 DEF PastCall, FirstPC

(* A segment that runs on the call's object. *)
LEMMA SegmentPast ==
    ASSUME CallInv, CallInv', PastInv, NEW c \in Decryption, \A b \in Running : b = c,
           NEW f, NEW st, f.obj \in 1 .. Len(heap), f.msg \in replies,
           SendsPast(minted, handed, st), NEW segment, Keeps(f, st, segment),
           Become(c, segment.frame), heap' = [heap EXCEPT ![f.obj] = segment.st],
           UNCHANGED <<cached, indexedDB, minted, handed, far>>
    PROVE  PastInv'
<1>1. PICK g, after : g = segment.frame /\ after = segment.st
  OBVIOUS
<1>2. g.obj = f.obj /\ g.msg = f.msg /\ g.pc \in FirstPC /\ after.cks = st.cks
  BY <1>1 DEF Keeps
<1>3. /\ SendsPast(minted, handed, after)
      /\ PastCall(c, g, after, minted, handed, indexedDB, replies)
  BY <1>2, KeptIsPast
<1>4. calls' = [calls EXCEPT ![c] = g] /\ heap' = [heap EXCEPT ![g.obj] = after]
  BY <1>1, <1>2 DEF Become
<1>5. c \in Call
  BY DEF Call
<1> QED
  BY <1>2, <1>3, <1>4, <1>5, SameKeyPairs, MutatePast

(* A segment that runs on a new object. *)
LEMMA RunOnPast ==
    ASSUME CallInv, CallInv', PastInv, NEW c \in Decryption, \A b \in Running : b = c,
           NEW st, SendsPast(minted, handed, st), calls[c].msg \in replies,
           NEW f, f.msg = calls[c].msg, NEW segment, Keeps(f, st, segment),
           segment.frame \in Frame, RunOn(c, segment),
           cached' = cached \/ cached' = Len(heap) + 1,
           UNCHANGED <<indexedDB, minted, handed, far>>
    PROVE  PastInv'
<1>1. PICK g, after : g = [segment.frame EXCEPT !.obj = Len(heap) + 1] /\ after = segment.st
  OBVIOUS
<1>2. g.obj = Len(heap) + 1 /\ g.msg = f.msg /\ g.pc \in FirstPC /\ after.cks = st.cks
  BY <1>1 DEF Keeps, Frame
<1>3. /\ SendsPast(minted, handed, after)
      /\ PastCall(c, g, after, minted, handed, indexedDB, replies)
  BY <1>2, KeptIsPast
<1>4. calls' = [calls EXCEPT ![c] = g] /\ heap' = Append(heap, after)
  BY <1>1 DEF Become, RunOn
<1>5. c \in Call
  BY DEF Call
<1> QED
  BY <1>2, <1>3, <1>4, <1>5, SameKeyPairs, NewPast

(* What a call of decryptMessage is in. *)
LEMMA DecryptNow ==
    ASSUME CallInv, PastInv, NEW c \in Decryption, calls[c].pc \notin AtRest
    PROVE  /\ c \in Call /\ \A b \in Running : b = c
           /\ calls[c] \in Frame /\ calls[c].msg \in replies /\ calls[c].msg \in Envelope
           /\ calls[c].pc \in WithObject =>
                 /\ calls[c].obj \in 1 .. Len(heap) /\ State(c) \in RatchetState
                 /\ SendsPast(minted, handed, State(c))
<1>1. c \in Call
  BY DEF Call
<1> QED
  BY <1>1, RunsAlone, DecryptPhaseNow, PastNow DEF PastCall

LEMMA StartDecryptPast ==
    ASSUME CallInv, CallInv', PastInv, MaxConcurrent = 1, NEW c \in Decryption,
           NEW m \in replies, StartDecrypt(c, m)
    PROVE  PastInv'
<1>1. c \in Call /\ Running = {}
  BY BeginsAlone DEF StartDecrypt, Call
<1>2. m \in Envelope
  BY <1>1, PastNow
<1>3. PICK f \in Frame : /\ f = [calls[c] EXCEPT !.msg = m, !.obj = cached]
                         /\ f.msg = m /\ f.obj = cached
  <2>1. calls[c] \in Frame /\ cached \in Nat
    BY <1>1, PastNow
  <2>2. [calls[c] EXCEPT !.msg = m, !.obj = cached] \in Frame
    BY <1>2, <2>1 DEF Frame
  <2> QED
    BY <2>1, <2>2 DEF Frame
<1>4. UNCHANGED <<cached, indexedDB, minted, handed, far>>
  BY DEF StartDecrypt
<1>5. CASE cached # 0
  <2>1. PICK st \in RatchetState : st = heap[cached]
    BY <1>1, <1>5, PastNow
  <2>2. PICK g : g = [f EXCEPT !.from = st]
    OBVIOUS
  <2>3. PICK segment : segment = StartRatchetDecrypt(f, st)
    OBVIOUS
  <2>4. Keeps(g, st, segment) /\ g.obj = f.obj /\ g.msg = f.msg
    BY <2>2, <2>3, StartRatchetDecryptKeeps, FromFields
  <2>5. Become(c, segment.frame) /\ heap' = [heap EXCEPT ![f.obj] = segment.st]
    BY <1>3, <1>5, <2>1, <2>3 DEF StartDecrypt
  <2>6. SendsPast(minted, handed, st) /\ f.obj \in 1 .. Len(heap)
    BY <1>1, <1>3, <1>5, <2>1, PastNow DEF PastInv
  <2> QED
    BY <1>1, <1>3, <1>4, <2>2, <2>4, <2>5, <2>6, SegmentPast
<1>6. CASE cached = 0
  <2>1. PICK g : g = [f EXCEPT !.pc = "loadState"] /\ g.pc = "loadState" /\ g.msg = m
    <3>1. [f EXCEPT !.pc = "loadState"].pc = "loadState" /\ [f EXCEPT !.pc = "loadState"].msg = m
      BY <1>3 DEF Frame
    <3> QED
      BY <3>1
  <2>2. calls' = [calls EXCEPT ![c] = g] /\ heap' = heap
    BY <1>3, <1>6, <2>1 DEF StartDecrypt, Become
  <2>3. PastCall(c, g, heap[g.obj], minted, handed, indexedDB, replies)
    <3>1. c \notin Encryption
      BY CallsAssumption
    <3> QED
      BY <2>1, <3>1 DEF PastCall, WithObject, RatchetPC, SecondDH
  <2> QED
    BY <1>1, <1>4, <2>2, <2>3, SameKeyPairs, QuietPast
<1> QED
  BY <1>5, <1>6

LEMMA LoadToDecryptPast ==
    ASSUME CallInv, CallInv', PastInv, NEW c \in Decryption, LoadToDecrypt(c)
    PROVE  PastInv'
<1>1. calls[c].pc = "loadState" /\ calls[c].pc \notin AtRest
  BY DEF LoadToDecrypt, IsAt, AtRest
<1>2. /\ c \in Call /\ calls[c] \in Frame /\ calls[c].msg \in replies
      /\ calls[c].msg \in Envelope /\ \A b \in Running : b = c
  BY <1>1, DecryptNow
<1>3. UNCHANGED <<cached, indexedDB, minted, handed, far>>
  BY DEF LoadToDecrypt
<1>4. c \notin Encryption
  BY CallsAssumption
<1>5. CASE indexedDB # None
  <2>1. PICK st \in RatchetState : st = indexedDB /\ SendsPast(minted, handed, st)
    BY <1>2, <1>5, PastNow DEF PastInv
  <2>2. PICK segment, f : segment = StartRatchetDecrypt(calls[c], st) /\ f = [calls[c] EXCEPT !.from = st]
    OBVIOUS
  <2>3. Keeps(f, st, segment) /\ f.msg = calls[c].msg
    BY <1>2, <2>2, StartRatchetDecryptKeeps, FromFields
  <2>4. segment.frame \in Frame
    BY <1>2, <2>2, EnterRatchet DEF Continues
  <2>5. RunOn(c, segment)
    BY <1>5, <2>1, <2>2 DEF LoadToDecrypt
  <2> QED
    BY <1>2, <1>3, <2>1, <2>3, <2>4, <2>5, RunOnPast
<1>6. CASE indexedDB = None
  <2>1. heap' = heap
    BY <1>6 DEF LoadToDecrypt
  <2>2. ASSUME NEW f, calls' = [calls EXCEPT ![c] = f], f.pc \notin WithObject,
               f.pc \in AtRest \/ f.msg = calls[c].msg
        PROVE  PastInv'
    <3>1. PastCall(c, f, heap[f.obj], minted, handed, indexedDB, replies)
      BY <1>2, <1>4, <2>2 DEF PastCall, WithObject, RatchetPC, SecondDH
    <3> QED
      BY <1>2, <1>3, <2>1, <2>2, <3>1, SameKeyPairs, QuietPast
  <2>3. PICK f, g : f = [calls[c] EXCEPT !.pc = "handleX3DHResponder"] /\ g = Ended("threw")
    OBVIOUS
  <2>4. f.pc = "handleX3DHResponder" /\ f.msg = calls[c].msg /\ g.pc = "threw"
    BY <1>2, <2>3 DEF Frame, Ended
  <2>5. calls' = [calls EXCEPT ![c] = f] \/ calls' = [calls EXCEPT ![c] = g]
    BY <1>6, <2>3 DEF LoadToDecrypt, Await, Become
  <2> QED
    BY <2>2, <2>4, <2>5 DEF AtRest, WithObject, RatchetPC
<1> QED
  BY <1>5, <1>6

LEMMA ReceiverType ==
    ASSUME CallInv, NEW m \in Envelope, m.x3dh # None
    PROVE  InitReceiver(Secret(m.x3dh, <<us, 0>>), <<us, 0>>) \in RatchetState
<1>1. m.x3dh \in KeyPair /\ <<us, 0>> \in KeyPair
  BY EnvelopeFields, PartyKeys, Ends DEF CallInv
<1>2. Secret(m.x3dh, <<us, 0>>) \in SUBSET KeyPair
  BY <1>1, KdfTypes DEF Secret
<1> QED
  BY <1>1, <1>2, InitReceiverType

LEMMA RespondX3DHPast ==
    ASSUME CallInv, CallInv', PastInv, NEW c \in Decryption, RespondX3DH(c)
    PROVE  PastInv'
<1>1. calls[c].pc = "handleX3DHResponder" /\ calls[c].pc \notin AtRest
  BY DEF RespondX3DH, IsAt, AtRest
<1>2. /\ c \in Call /\ calls[c] \in Frame /\ calls[c].msg \in replies
      /\ calls[c].msg \in Envelope /\ \A b \in Running : b = c
  BY <1>1, DecryptNow
<1>3. calls[c].msg.x3dh # None
  BY <1>1, DecryptPhaseNow DEF DecryptPhase
<1>4. PICK st \in RatchetState :
         st = InitReceiver(Secret(calls[c].msg.x3dh, <<us, 0>>), <<us, 0>>)
  BY <1>2, <1>3, ReceiverType
<1>5. SendsPast(minted, handed, st)
  BY <1>4 DEF InitReceiver, SendsPast
<1>6. PICK segment, f : segment = StartRatchetDecrypt(calls[c], st) /\ f = [calls[c] EXCEPT !.from = st]
  OBVIOUS
<1>7. Keeps(f, st, segment) /\ f.msg = calls[c].msg
  BY <1>2, <1>6, StartRatchetDecryptKeeps, FromFields
<1>8. segment.frame \in Frame
  BY <1>2, <1>6, EnterRatchet DEF Continues
<1>9. /\ RunOn(c, segment) /\ cached' = Len(heap) + 1
      /\ UNCHANGED <<indexedDB, minted, handed, far>>
  BY <1>4, <1>6 DEF RespondX3DH
<1> QED
  BY <1>2, <1>5, <1>7, <1>8, <1>9, RunOnPast

(* A segment inside ratchetDecrypt. *)
LEMMA KeepingPast ==
    ASSUME CallInv, CallInv', PastInv, NEW c \in Decryption, calls[c].pc \in RatchetPC,
           NEW segment, Keeps(calls[c], State(c), segment), RunSegment(c, segment),
           UNCHANGED <<cached, indexedDB, minted, handed, far>>
    PROVE  PastInv'
<1>1. calls[c].pc \in WithObject /\ calls[c].pc \notin AtRest
  BY RatchetPCs
<1>2. Become(c, segment.frame) /\ heap' = [heap EXCEPT ![calls[c].obj] = segment.st]
  BY DEF RunSegment, Mutate
<1>3. /\ calls[c].obj \in 1 .. Len(heap) /\ calls[c].msg \in replies
      /\ SendsPast(minted, handed, State(c)) /\ \A b \in Running : b = c
  BY <1>1, DecryptNow
<1> QED
  BY <1>2, <1>3, SegmentPast

LEMMA SkipOldMessagePast ==
    ASSUME CallInv, CallInv', PastInv, NEW c \in Decryption, SkipOldMessage(c)
    PROVE  PastInv'
<1>1. calls[c].pc \in RatchetPC /\ calls[c] \in Frame /\ State(c) \in RatchetState
  BY InRatchet DEF SkipOldMessage, RatchetPC, IsAt
<1>2. {"skipOld", "turn"} \subseteq FirstPC
  BY DEF FirstPC, RatchetPC, SecondDH
<1> QED
  BY <1>1, <1>2, SkipOneKeeps, KeepingPast DEF SkipOldMessage

LEMMA SkipMessagePast ==
    ASSUME CallInv, CallInv', PastInv, NEW c \in Decryption, SkipMessage(c)
    PROVE  PastInv'
<1>1. calls[c].pc \in RatchetPC /\ calls[c] \in Frame /\ State(c) \in RatchetState
  BY InRatchet DEF SkipMessage, RatchetPC, IsAt
<1>2. {"skipNew", "skipped"} \subseteq FirstPC
  BY DEF FirstPC, RatchetPC, SecondDH
<1> QED
  BY <1>1, <1>2, SkipOneKeeps, KeepingPast DEF SkipMessage

LEMMA TurnRatchetPast ==
    ASSUME CallInv, CallInv', PastInv, NEW c \in Decryption, TurnRatchet(c)
    PROVE  PastInv'
<1>1. calls[c].pc \in RatchetPC /\ calls[c] \in Frame /\ State(c) \in RatchetState
  BY InRatchet DEF TurnRatchet, RatchetPC, IsAt
<1> QED
  BY <1>1, StartTurnKeeps, KeepingPast DEF TurnRatchet

(* A step that only moves the call on. *)
LEMMA WaitPast ==
    ASSUME CallInv, CallInv', PastInv, NEW c \in Decryption, calls[c].pc \notin AtRest,
           NEW f, calls' = [calls EXCEPT ![c] = f], f.obj = calls[c].obj, f.msg = calls[c].msg,
           f.pc \in WithObject, f.pc \in SecondDH => calls[c].pc \in SecondDH,
           calls[c].pc \in WithObject,
           UNCHANGED <<heap, cached, indexedDB, minted, handed, far>>
    PROVE  PastInv'
<1>1. c \in Call /\ c \notin Encryption /\ \A b \in Running : b = c
  BY DecryptNow, CallsAssumption
<1>2. PastCall(c, calls[c], State(c), minted, handed, indexedDB, replies)
  BY <1>1, PastNow
<1>3. PastCall(c, f, State(c), minted, handed, indexedDB, replies)
  BY <1>1, <1>2 DEF PastCall
<1>4. PastCall(c, f, heap[f.obj], minted, handed, indexedDB, replies)
  BY <1>3 DEF State
<1> QED
  BY <1>1, <1>4, SameKeyPairs, QuietPast

LEMMA DeriveRootKeyPast ==
    ASSUME CallInv, CallInv', PastInv, NEW c \in Decryption, DeriveRootKey(c)
    PROVE  PastInv'
<1>1. /\ calls[c].pc \in WithObject /\ calls[c].pc \notin AtRest
      /\ UNCHANGED <<heap, cached, indexedDB, minted, handed, far>>
  BY DEF DeriveRootKey, IsAt, WithObject, RatchetPC, AtRest, memory
<1>2. calls[c] \in Frame
  BY <1>1, DecryptNow
<1>3. PICK f, pc : /\ f = [calls[c] EXCEPT !.pc = pc, !.rk = KdfRootKey(State(c).rk, calls[c].dh)]
                   /\ calls' = [calls EXCEPT ![c] = f]
                   /\ \/ pc = "kdfRootKey"
                      \/ pc = "kdfRootKey2" /\ calls[c].pc = "x25519DH2"
  BY DEF DeriveRootKey, IsAt, Become
<1>4. f.pc = pc /\ f.obj = calls[c].obj /\ f.msg = calls[c].msg
  BY <1>2, <1>3 DEF Frame
<1> QED
  BY <1>1, <1>3, <1>4, WaitPast DEF WithObject, RatchetPC, SecondDH

LEMMA TurnReceivingChainPast ==
    ASSUME CallInv, CallInv', PastInv, NEW c \in Decryption, TurnReceivingChain(c)
    PROVE  PastInv'
<1>1. calls[c].pc = "kdfRootKey" /\ calls[c].pc \in WithObject /\ calls[c].pc \notin AtRest
  BY DEF TurnReceivingChain, IsAt, WithObject, RatchetPC, AtRest
<1>2. /\ c \in Call /\ calls[c] \in Frame /\ calls[c].msg \in replies
      /\ \A b \in Running : b = c
      /\ calls[c].obj \in 1 .. Len(heap) /\ State(c) \in RatchetState
      /\ SendsPast(minted, handed, State(c))
  BY <1>1, DecryptNow
<1>3. PICK f, st :
         /\ f = [calls[c] EXCEPT !.pc = "generateX25519KeyPair"]
         /\ st = [State(c) EXCEPT !.rk = calls[c].rk, !.ckr = FirstChainKey(calls[c].rk),
                                  !.nr = 0, !.pn = State(c).ns, !.ns = 0]
  OBVIOUS
<1>4. f.pc = "generateX25519KeyPair" /\ f.obj = calls[c].obj /\ f.msg = calls[c].msg
  BY <1>2, <1>3 DEF Frame
<1>5. st.cks = State(c).cks
  BY <1>2, <1>3 DEF RatchetState
<1>6. f.pc \in FirstPC
  BY <1>4 DEF FirstPC, RatchetPC, SecondDH
<1>7. SendsPast(minted, handed, st) /\ PastCall(c, f, st, minted, handed, indexedDB, replies)
  BY <1>2, <1>4, <1>5, <1>6, KeptIsPast
<1>8. /\ calls' = [calls EXCEPT ![c] = f] /\ heap' = [heap EXCEPT ![f.obj] = st]
      /\ UNCHANGED <<cached, indexedDB, minted, handed, far>>
  BY <1>3, <1>4 DEF TurnReceivingChain, Await, Become, Mutate
<1> QED
  BY <1>2, <1>4, <1>7, <1>8, SameKeyPairs, MutatePast

(* The turn of the sending chain: from a key pair just made ... *)
LEMMA TurnKeyPairPast ==
    ASSUME CallInv, CallInv', PastInv, NEW c \in Decryption, TurnKeyPair(c)
    PROVE  PastInv'
<1>1. calls[c].pc = "generateX25519KeyPair" /\ calls[c].pc \in WithObject /\ calls[c].pc \notin AtRest
  BY DEF TurnKeyPair, IsAt, WithObject, RatchetPC, AtRest
<1>2. /\ c \in Call /\ c \notin Encryption /\ calls[c] \in Frame /\ calls[c].msg \in replies
      /\ \A b \in Running : b = c
      /\ calls[c].obj \in 1 .. Len(heap) /\ State(c) \in RatchetState
      /\ SendsPast(minted, handed, State(c))
  BY <1>1, DecryptNow, CallsAssumption
<1>3. PICK f, st :
         /\ f = [calls[c] EXCEPT !.pc = "x25519DH2", !.dh = DH(FreshKey(us), State(c).dhr)]
         /\ st = [State(c) EXCEPT !.dhs = FreshKey(us)]
  OBVIOUS
<1>4. f.pc = "x25519DH2" /\ f.obj = calls[c].obj /\ f.msg = calls[c].msg
  BY <1>2, <1>3 DEF Frame
<1>5. st.cks = State(c).cks /\ st.dhs = FreshKey(us)
  BY <1>2, <1>3 DEF RatchetState
<1>6. /\ \A q \in Party : minted[q] <= minted'[q]
      /\ minted \in [Party -> Nat]
      /\ minted' \in [Party -> Nat] /\ KnownIn(minted', FreshKey(us))
  <2>1. minted' = [minted EXCEPT ![us] = @ + 1]
    BY DEF TurnKeyPair
  <2>2. minted \in [Party -> Nat] /\ us \in Party
    BY <1>2, PastNow
  <2>3. minted[us] \in Nat /\ minted'[us] = minted[us] + 1
    BY <2>1, <2>2
  <2>4. minted' \in [Party -> Nat]
    BY DEF CallInv, MemoryType
  <2> QED
    BY <2>1, <2>2, <2>3, <2>4, CountsUp DEF KnownIn, FreshKey
<1>7. SendsPast(minted', handed, st)
  <2>1. SendsPast(minted', handed, State(c))
    BY <1>2, <1>6, SendsPastLater
  <2> QED
    BY <1>5, <2>1 DEF SendsPast
<1>8. PastCall(c, f, st, minted', handed, indexedDB, replies)
  BY <1>2, <1>4, <1>5, <1>6, <1>7, NextKeyUnused DEF PastCall
<1>9. /\ calls' = [calls EXCEPT ![c] = f] /\ heap' = [heap EXCEPT ![f.obj] = st]
      /\ UNCHANGED <<cached, indexedDB, handed, far>>
  BY <1>3, <1>4 DEF TurnKeyPair, Become, Mutate
<1> QED
  BY <1>2, <1>4, <1>6, <1>7, <1>8, <1>9, MutatePast

(* ... to the chain that starts with it. *)
LEMMA TurnSendingChainPast ==
    ASSUME CallInv, CallInv', PastInv, NEW c \in Decryption, TurnSendingChain(c)
    PROVE  PastInv'
<1>1. /\ calls[c].pc = "kdfRootKey2" /\ calls[c].pc \in WithObject /\ calls[c].pc \notin AtRest
      /\ calls[c].pc \in TurnPC /\ calls[c].pc \in RatchetPC
  BY DEF TurnSendingChain, IsAt, WithObject, RatchetPC, AtRest, TurnPC
<1>2. /\ c \in Call /\ calls[c] \in Frame /\ calls[c].msg \in replies /\ calls[c].msg \in Envelope
      /\ \A b \in Running : b = c
      /\ calls[c].obj \in 1 .. Len(heap) /\ State(c) \in RatchetState
  BY <1>1, DecryptNow
<1>3. PICK old \in RatchetState : old = State(c)
  BY <1>2
<1>4. PICK ours \in KeyPair, theirs \in KeyPair, rk \in RootKey :
         ours = old.dhs /\ theirs = calls[c].msg.dh /\ rk = calls[c].rk
         /\ rk = KdfRootKey(old.rk, DH(ours, theirs))
  <2>1. RatchetPhase(calls[c], State(c))
    BY <1>1, DecryptPhaseNow
  <2>2. calls[c].rk = KdfRootKey(old.rk, DH(old.dhs, calls[c].msg.dh))
    BY <1>1, <1>3, <2>1 DEF RatchetPhase, TurnPhase
  <2>3. old.dhs \in KeyPair /\ calls[c].msg.dh \in KeyPair /\ old.rk \in RootKey
    BY <1>2, EnvelopeFields DEF RatchetState
  <2>4. calls[c].rk \in RootKey
    BY <2>2, <2>3, KdfTypes
  <2> QED
    BY <2>2, <2>3, <2>4
<1>5. PICK ck \in ChainKey : ck = FirstChainKey(rk)
  BY KdfTypes
<1>6. PICK st : st = [old EXCEPT !.rk = rk, !.cks = ck]
  OBVIOUS
<1>7. st \in RatchetState /\ st.cks = FirstChainKey(KdfRootKey(old.rk, DH(ours, theirs)))
  BY <1>4, <1>5, <1>6 DEF RatchetState
<1>8. SendsPast(minted, handed, st)
  <2>1. KnownIn(minted, ours) /\ Unused(handed, ours)
    BY <1>1, <1>2, <1>3, <1>4, PastNow DEF PastCall, SecondDH
  <2>2. KnownIn(minted, theirs)
    BY <1>2, <1>4 DEF PastInv
  <2>3. old.rk \in RootKey
    BY SessionFields
  <2> QED
    BY <1>7, <2>1, <2>2, <2>3, FreshSendsPast
<1>9. PICK f : f = [calls[c] EXCEPT !.dh = None, !.rk = None]
  OBVIOUS
<1>10. f \in Frame /\ f.obj = calls[c].obj /\ f.msg = calls[c].msg
  BY <1>2, <1>9 DEF Frame
<1>11. PICK segment : segment = EnterSkip(f, st, calls[c].msg.n, "skipNew", "skipped")
  OBVIOUS
<1>12. Keeps(f, st, segment)
  <2>1. {"skipNew", "skipped"} \subseteq FirstPC
    BY DEF FirstPC, RatchetPC, SecondDH
  <2> QED
    BY <1>7, <1>10, <1>11, <2>1, EnterSkipKeeps
<1>13. /\ Become(c, segment.frame) /\ heap' = [heap EXCEPT ![f.obj] = segment.st]
       /\ UNCHANGED <<cached, indexedDB, minted, handed, far>>
  BY <1>3, <1>4, <1>5, <1>6, <1>9, <1>10, <1>11 DEF TurnSendingChain, RunSegment, Mutate
<1> QED
  BY <1>2, <1>8, <1>10, <1>12, <1>13, SegmentPast

LEMMA ReadReceivingKeyPast ==
    ASSUME CallInv, CallInv', PastInv, NEW c \in Decryption, ReadReceivingKey(c)
    PROVE  PastInv'
<1>1. /\ calls[c].pc \in WithObject /\ calls[c].pc \notin AtRest
      /\ UNCHANGED <<heap, cached, indexedDB, minted, handed, far>>
  BY DEF ReadReceivingKey, IsAt, WithObject, RatchetPC, AtRest, memory
<1>2. calls[c] \in Frame
  BY <1>1, DecryptNow
<1>3. PICK f, pc : /\ f = [calls[c] EXCEPT !.pc = pc, !.ck = State(c).ckr]
                   /\ calls' = [calls EXCEPT ![c] = f]
                   /\ pc \in {"rejected", "kdfChainKey"}
  BY DEF ReadReceivingKey, Become
<1>4. f.pc = pc /\ f.obj = calls[c].obj /\ f.msg = calls[c].msg
  BY <1>2, <1>3 DEF Frame
<1> QED
  BY <1>1, <1>3, <1>4, WaitPast DEF WithObject, RatchetPC, SecondDH

LEMMA SpendReceivingKeyPast ==
    ASSUME CallInv, CallInv', PastInv, NEW c \in Decryption, SpendReceivingKey(c)
    PROVE  PastInv'
<1>1. calls[c].pc \in RatchetPC /\ calls[c] \in Frame /\ State(c) \in RatchetState
  BY InRatchet DEF SpendReceivingKey, RatchetPC, IsAt
<1>2. PICK f, st, pc :
        /\ f = [calls[c] EXCEPT !.ck = None, !.pc = pc]
        /\ st = [State(c) EXCEPT !.ckr = KdfChainKey(calls[c].ck, 1), !.nr = @ + 1]
        /\ pc \in {"aesGcmDecrypt", "rejected"}
        /\ Become(c, f) /\ Mutate(c, st)
  BY DEF SpendReceivingKey
<1>3. PICK segment : segment = Segment(f, st) /\ segment.frame = f /\ segment.st = st
  <2>1. Segment(f, st).frame = f /\ Segment(f, st).st = st
    BY DEF Segment
  <2> QED
    BY <2>1
<1>4. f.pc = pc /\ f.obj = calls[c].obj /\ f.msg = calls[c].msg /\ f.from = calls[c].from
  BY <1>1, <1>2 DEF Frame
<1>5. st.cks = State(c).cks /\ st.rk = State(c).rk
  BY <1>1, <1>2 DEF RatchetState
<1>6. Keeps(calls[c], State(c), segment)
  BY <1>2, <1>3, <1>4, <1>5 DEF Keeps, FirstPC, RatchetPC, SecondDH
<1>7. RunSegment(c, segment) /\ UNCHANGED <<cached, indexedDB, minted, handed, far>>
  BY <1>2, <1>3 DEF SpendReceivingKey, RunSegment
<1> QED
  BY <1>1, <1>6, <1>7, KeepingPast

LEMMA ReceivePlaintextPast ==
    ASSUME CallInv, CallInv', PastInv, NEW c \in Decryption, ReceivePlaintext(c)
    PROVE  PastInv'
<1>1. /\ calls[c].pc \in WithObject /\ calls[c].pc \notin AtRest
      /\ UNCHANGED <<heap, cached, indexedDB, minted, handed, far>>
  BY DEF ReceivePlaintext, IsAt, WithObject, RatchetPC, AtRest, memory
<1>2. calls[c] \in Frame
  BY <1>1, DecryptNow
<1>3. PICK f : f = [calls[c] EXCEPT !.pc = "saveState"]
  OBVIOUS
<1>4. f.pc = "saveState" /\ f.obj = calls[c].obj /\ f.msg = calls[c].msg
  BY <1>2, <1>3 DEF Frame
<1>5. calls' = [calls EXCEPT ![c] = f]
  BY <1>3 DEF ReceivePlaintext, Await, Become
<1> QED
  BY <1>1, <1>4, <1>5, WaitPast DEF WithObject, SecondDH

LEMMA CatchRejectionPast ==
    ASSUME CallInv, CallInv', PastInv, NEW c \in Decryption, CatchRejection(c)
    PROVE  PastInv'
<1>1. /\ calls[c].pc \notin AtRest
      /\ UNCHANGED <<heap, cached, indexedDB, minted, handed, far>>
  BY DEF CatchRejection, IsAt, AtRest, memory
<1>2. /\ c \in Call /\ c \notin Encryption /\ calls[c].msg \in replies
      /\ \A b \in Running : b = c
  BY <1>1, DecryptNow, CallsAssumption
<1>3. PICK f, g : /\ f = [Ended("handleX3DHResponder") EXCEPT !.msg = calls[c].msg, !.rebuilt = TRUE]
                  /\ g = Ended("threw")
  OBVIOUS
<1>4. f.pc = "handleX3DHResponder" /\ f.msg = calls[c].msg /\ g.pc = "threw"
  BY <1>3 DEF Ended
<1>5. ASSUME NEW h \in {f, g}
      PROVE  PastCall(c, h, heap[h.obj], minted, handed, indexedDB, replies)
  BY <1>2, <1>4, <1>5 DEF PastCall, WithObject, RatchetPC, SecondDH, AtRest
<1>6. calls' = [calls EXCEPT ![c] = f] \/ calls' = [calls EXCEPT ![c] = g]
  BY <1>3 DEF CatchRejection, Become
<1> QED
  BY <1>1, <1>2, <1>5, <1>6, SameKeyPairs, QuietPast

LEMMA ReturnPlaintextPast ==
    ASSUME CallInv, CallInv', PastInv, NEW c \in Decryption, ReturnPlaintext(c)
    PROVE  PastInv'
<1>1. calls[c].pc \in WithObject /\ calls[c].pc \notin AtRest
  BY DEF ReturnPlaintext, IsAt, WithObject, AtRest
<1>2. /\ c \in Call /\ \A b \in Running : b = c
      /\ SendsPast(minted, handed, State(c))
  BY <1>1, DecryptNow
<1>3. PICK f : f = Ended("returned")
  OBVIOUS
<1>4. f.pc \in AtRest
  BY <1>3 DEF Ended, AtRest
<1>5. /\ calls' = [calls EXCEPT ![c] = f] /\ cached' = calls[c].obj
      /\ UNCHANGED <<heap, indexedDB, minted, handed, far>>
  BY <1>3 DEF ReturnPlaintext, Become
<1>6. PastCall(c, f, heap'[f.obj], minted, handed, indexedDB, replies)
  BY <1>4, RestIsPast
<1>7. SendsPast(minted, handed, heap'[cached'])
  BY <1>2, <1>5 DEF State
<1>8. indexedDB # None => SendsPast(minted, handed, indexedDB)
  BY DEF PastInv
<1> QED
  BY <1>2, <1>5, <1>6, <1>7, <1>8, SameKeyPairs, PastStep

LEMMA DecryptCallPast ==
    ASSUME CallInv, CallInv', PastInv, MaxConcurrent = 1, NEW c \in Decryption, DecryptCall(c)
    PROVE  PastInv'
<1>1. ASSUME NEW m \in replies \ opened, StartDecrypt(c, m) PROVE PastInv'
  BY <1>1, StartDecryptPast
<1>2. c \in Call
  BY DEF Call
<1> QED
  BY <1>1, <1>2, LoadToDecryptPast, RespondX3DHPast, SkipOldMessagePast, SkipMessagePast,
     TurnRatchetPast, DeriveRootKeyPast, TurnReceivingChainPast, TurnKeyPairPast,
     TurnSendingChainPast, ReadReceivingKeyPast, SpendReceivingKeyPast, ReceivePlaintextPast,
     CatchRejectionPast, SaveStatePast, ReturnPlaintextPast DEF DecryptCall

(* The other end, and the page. *)

(* A step of the other end. *)
LEMMA FarPast ==
    ASSUME CallInv, CallInv', PastInv, \A q \in Party : minted[q] <= minted'[q],
           UNCHANGED <<heap, cached, indexedDB, calls, handed>>,
           peer' # None => KnownIn(minted', peer'.dhs), replies \subseteq replies',
           \A m \in replies' \ replies : KnownIn(minted', m.dh) /\ Opens(m),
           minted'[us] = minted[us]
    PROVE  PastInv'
<1>1. /\ minted \in [Party -> Nat] /\ minted' \in [Party -> Nat]
      /\ handed \in SUBSET Envelope /\ replies \in SUBSET Envelope
      /\ heap \in Seq(RatchetState) /\ calls \in [Call -> Frame]
  BY DEF CallInv, MemoryType
<1>2. \A p \in Party : 0 < minted'[p]
  BY <1>1 DEF PastInv
<1>3. \A m \in handed : KnownRootIn(minted', m.key.root)
  BY <1>1, EnvelopeFields, KnownGrows DEF PastInv
<1>4. \A m \in replies' : KnownIn(minted', m.dh) /\ Opens(m)
  BY <1>1, EnvelopeFields, KnownGrows DEF PastInv
<1>5. /\ indexedDB # None => SendsPast(minted', handed, indexedDB)
      /\ cached # 0 => SendsPast(minted', handed, heap[cached])
  BY StoresStayPast
<1>6. ASSUME NEW c \in Call
      PROVE  PastCall(c, calls[c], heap[calls[c].obj], minted', handed, indexedDB, replies')
  <2>1. PastCall(c, calls[c], heap[calls[c].obj], minted, handed, indexedDB, replies)
    BY DEF PastInv
  <2>2. calls[c].pc \in WithObject => heap[calls[c].obj] \in RatchetState
    BY <1>1 DEF CallInv, CallPhase
  <2>3. calls[c].pc \in WithObject => SendsPast(minted', handed, heap[calls[c].obj])
    BY <1>1, <2>1, <2>2, SendsPastLater DEF PastCall
  <2>4. calls[c].pc \in SecondDH => calls[c].pc \in WithObject
    BY DEF SecondDH, WithObject, RatchetPC
  <2>5. calls[c].pc \in SecondDH => heap[calls[c].obj].dhs \in KeyPair
    BY <2>2, <2>4 DEF RatchetState
  <2>6. c \in Decryption /\ calls[c].pc \in SecondDH => KnownIn(minted', heap[calls[c].obj].dhs)
    BY <1>1, <2>1, <2>5, KnownGrows DEF PastCall
  <2> QED
    BY <2>1, <2>3, <2>6 DEF PastCall
<1> QED
  BY <1>2, <1>3, <1>4, <1>5, <1>6 DEF PastInv

LEMMA PeerReadsPast ==
    ASSUME CallInv, CallInv', PastInv, NEW m \in handed, PeerReads(m)
    PROVE  PastInv'
<1>1. m \in Envelope /\ minted \in [Party -> Nat] /\ us # them
  BY CallsAssumption DEF CallInv, MemoryType
<1>2. FreshKey(them) \in KeyPair /\ <<them, 0>> \in KeyPair
  BY PartyKeys, Ends DEF CallInv
<1>3. PICK fresh \in KeyPair : fresh = FreshKey(them)
  BY <1>2
<1>4. minted' = [minted EXCEPT ![them] = @ + 1]
  BY DEF PeerReads
<1>5. \A q \in Party : minted[q] <= minted'[q]
  BY <1>4, Ends, CountsUp
<1>6. minted'[us] = minted[us] /\ minted'[them] = minted[them] + 1 /\ minted[them] \in Nat
  BY <1>1, <1>4, Ends
<1>7. KnownIn(minted', fresh) /\ KnownIn(minted', <<them, 0>>)
  BY <1>3, <1>6, Ends DEF KnownIn, FreshKey, PastInv
<1>8. PICK rebuilt : rebuilt = InitReceiver(Secret(m.x3dh, <<them, 0>>), <<them, 0>>)
  OBVIOUS
<1>9. m.x3dh # None => rebuilt \in RatchetState
  <2> SUFFICES ASSUME m.x3dh # None PROVE rebuilt \in RatchetState
    OBVIOUS
  <2>1. Secret(m.x3dh, <<them, 0>>) \in SUBSET KeyPair
    BY <1>1, <1>2, EnvelopeFields, KdfTypes DEF Secret
  <2> QED
    BY <1>2, <1>8, <2>1, InitReceiverType
<1>10. PICK st \in RatchetState :
          /\ peer' = RatchetDecrypt(st, m, fresh).st
          /\ st.dhs \in KeyPair /\ KnownIn(minted', st.dhs)
  <2>1. \/ peer # None /\ peer' = RatchetDecrypt(peer, m, fresh).st
        \/ m.x3dh # None /\ peer' = RatchetDecrypt(rebuilt, m, fresh).st
    BY <1>3, <1>8 DEF PeerReads
  <2>2. rebuilt.dhs = <<them, 0>>
    BY <1>8 DEF InitReceiver
  <2>3. peer # None => /\ peer \in RatchetState /\ peer.dhs \in KeyPair
                       /\ KnownIn(minted, peer.dhs)
    <3>1. peer # None => peer \in RatchetState
      BY DEF CallInv, MemoryType
    <3> QED
      BY <3>1 DEF RatchetState, PastInv
  <2>4. minted' \in [Party -> Nat]
    BY DEF CallInv, MemoryType
  <2>5. peer # None => KnownIn(minted', peer.dhs)
    BY <1>1, <1>5, <2>3, <2>4, KnownGrows
  <2> QED
    BY <1>2, <1>7, <1>9, <2>1, <2>2, <2>3, <2>5
<1>11. KnownIn(minted', peer'.dhs)
  <2>1. m.dh \in KeyPair /\ m.pn \in Nat /\ m.n \in Nat
    BY <1>1, EnvelopeFields
  <2> QED
    BY <1>7, <1>10, <2>1, RatchetDecryptSendingSide DEF SameSendingSide, SendsFrom
<1>12. UNCHANGED <<heap, cached, indexedDB, calls, handed, replies>>
  BY DEF PeerReads, memory
<1> QED
  BY <1>5, <1>6, <1>11, <1>12, FarPast

LEMMA PeerSendsPast ==
    ASSUME CallInv, CallInv', PastInv, PeerSends
    PROVE  PastInv'
<1>1. minted \in [Party -> Nat] /\ minted' \in [Party -> Nat] /\ us # them
  BY CallsAssumption DEF CallInv, MemoryType
<1>2. PICK begun : begun = InitSender(Secret(FreshKey(them), <<us, 0>>), <<us, 0>>,
                                      <<them, minted[them] + 1>>)
  OBVIOUS
<1>3. PICK st : st = IF peer = None THEN begun ELSE peer
  OBVIOUS
<1>4. PICK reply : reply = [ by |-> Cardinality(replies) + 1,
                             x3dh |-> IF peer = None THEN FreshKey(them) ELSE None,
                             tagged |-> TRUE, dh |-> Header(st).dh, pn |-> Header(st).pn,
                             n |-> Header(st).n, key |-> st.cks ]
  OBVIOUS
<1>5. /\ replies' = replies \cup {reply} /\ peer' = AfterEncrypt(st)
      /\ minted' = IF peer = None THEN [minted EXCEPT ![them] = @ + 2] ELSE minted
      /\ UNCHANGED <<heap, cached, indexedDB, calls, handed>>
  BY <1>2, <1>3, <1>4 DEF PeerSends, memory
<1>6. \A q \in Party : minted[q] <= minted'[q]
  BY <1>1, <1>5, Ends, CountsUp, SameKeyPairs
<1>7. reply.dh = st.dhs /\ peer'.dhs = st.dhs
  <2>1. "dhs" \in DOMAIN st /\ st.dhs = [st EXCEPT !.cks = KdfChainKey(@, 1), !.ns = @ + 1].dhs
    <3>1. peer # None => peer \in RatchetState
      BY DEF CallInv, MemoryType
    <3> QED
      BY <1>2, <1>3, <3>1 DEF InitSender, RatchetState
  <2> QED
    BY <1>4, <1>5, <2>1 DEF Header, AfterEncrypt
<1>8. KnownIn(minted', st.dhs)
  <2>1. CASE peer = None
    <3>1. begun.dhs = <<them, minted[them] + 1>>
      BY <1>2 DEF InitSender
    <3>2. minted[them] \in Nat /\ minted'[them] = minted[them] + 2
      BY <1>1, <1>5, <2>1, Ends
    <3> QED
      BY <1>3, <2>1, <3>1, <3>2 DEF KnownIn
  <2>2. CASE peer # None
    BY <1>3, <1>5, <2>2 DEF PastInv
  <2> QED
    BY <2>1, <2>2
<1>9. Opens(reply)
  <2> SUFFICES ASSUME reply.x3dh # None PROVE Opens(reply)
    BY DEF Opens
  <2>1. peer = None /\ reply.x3dh = FreshKey(them) /\ st = begun
    BY <1>3, <1>4
  <2>2. /\ begun.ns = 0 /\ begun.dhs = <<them, minted[them] + 1>>
        /\ begun.cks = FirstChainKey(KdfRootKey(
              [secret |-> Secret(FreshKey(them), <<us, 0>>), path |-> <<>>],
              DH(begun.dhs, <<us, 0>>)))
    BY <1>2 DEF InitSender
  <2>3. reply.n = 0 /\ reply.tagged /\ reply.key = begun.cks /\ reply.dh = begun.dhs
    BY <1>4, <2>1, <2>2 DEF Header
  <2>4. DH(begun.dhs, <<us, 0>>) = DH(<<us, 0>>, reply.dh)
    BY <2>3 DEF DH
  <2> QED
    BY <2>1, <2>2, <2>3, <2>4 DEF Opens
<1>10. minted'[us] = minted[us]
  BY <1>1, <1>5, Ends
<1> QED
  BY <1>5, <1>6, <1>7, <1>8, <1>9, <1>10, FarPast

LEMMA ReloadPagePast ==
    ASSUME CallInv, CallInv', PastInv, ReloadPage
    PROVE  PastInv'
<1>1. cached' = 0 /\ UNCHANGED <<indexedDB, minted, handed, peer, replies>>
  BY DEF ReloadPage, far
<1>2. ASSUME NEW c \in Call PROVE calls'[c].pc \in AtRest
  <2>1. calls'[c] = IF c \in Running THEN Ended("threw") ELSE calls[c]
    BY DEF ReloadPage
  <2> QED
    BY <2>1 DEF Running, Ended, AtRest
<1>3. \A c \in Call :
         PastCall(c, calls'[c], heap'[calls'[c].obj], minted', handed', indexedDB', replies')
  BY <1>2, RestIsPast
<1> QED
  BY <1>1, <1>3 DEF PastInv

LEMMA PastInitially == CallsInit => PastInv
<1> SUFFICES ASSUME CallsInit PROVE PastInv
  OBVIOUS
<1>1. \A c \in Call : calls[c].pc \in AtRest
  BY DEF CallsInit, Ended, AtRest
<1>2. \A c \in Call :
         PastCall(c, calls[c], heap[calls[c].obj], minted, handed, indexedDB, replies)
  BY <1>1, RestIsPast
<1> QED
  BY <1>2 DEF CallsInit, PastInv

LEMMA PastGoesOn ==
    CallInv /\ CallInv' /\ PastInv /\ MaxConcurrent = 1 /\ [CallsNext]_callVars => PastInv'
<1> SUFFICES ASSUME CallInv, CallInv', PastInv, MaxConcurrent = 1, [CallsNext]_callVars
             PROVE  PastInv'
  OBVIOUS
<1>1. CASE UNCHANGED callVars
  BY <1>1 DEF callVars, PastInv
<1>2. ASSUME NEW c \in Encryption, EncryptCall(c) PROVE PastInv'
  BY <1>2, EncryptCallPast
<1>3. ASSUME NEW c \in Decryption, DecryptCall(c) PROVE PastInv'
  BY <1>3, DecryptCallPast
<1>4. ASSUME NEW m \in handed, PeerReads(m) PROVE PastInv'
  BY <1>4, PeerReadsPast
<1> QED
  BY <1>1, <1>2, <1>3, <1>4, PeerSendsPast, ReloadPagePast DEF CallsNext

LEMMA PastIsSaved == CallInv /\ PastInv => SavedSessionIsPast
BY DEF PastInv, SavedSessionIsPast, SendsPast

-----------------------------------------------------------------------------
(* The X3DH header is sent: while the page is not reloaded, the secret of   *)
(* the session at hand is one the other end can know.                       *)

LEMMA RestIsHead ==
    ASSUME NEW c, NEW f, f.pc \in AtRest, NEW st, NEW at, NEW ephemeral, NEW known
    PROVE  HeadCall(c, f, st, at, ephemeral, known)
BY DEF HeadCall, AtRest, WithObject, RatchetPC

(* The step of one call, the others at rest. *)
LEMMA HeadStep ==
    ASSUME CallInv, NEW c \in Call, \A b \in Running : b = c,
           NEW f, calls' = [calls EXCEPT ![c] = f],
           NEW known, known = Announced(handed', opened'),
           \A m \in handed' : m.key.root.secret \in known,
           cached' = 0 => indexedDB' = None,
           f.pc \in Between => HeadRest(heap', cached', pending', known),
           HeadCall(c, f, heap'[f.obj], cached', pending', known)
    PROVE  HeadInv'
<1>1. calls'[c] = f
  BY DEF CallInv
<1>2. ASSUME NEW d \in Call
      PROVE  HeadCall(d, calls'[d], heap'[calls'[d].obj], cached', pending', known)
  <2>1. CASE d = c
    BY <1>1, <2>1
  <2>2. CASE d # c
    <3>1. calls'[d] = calls[d] /\ d \notin Running
      BY <2>2 DEF CallInv
    <3> QED
      BY <3>1, RestIsHead DEF Running, AtRest
  <2> QED
    BY <2>1, <2>2
<1>3. (\A d \in Call : calls'[d].pc \in Between) => HeadRest(heap', cached', pending', known)
  BY <1>1
<1> QED
  BY <1>2, <1>3 DEF HeadInv

(* The same, when no message is returned. *)
LEMMA HeadStepSilent ==
    ASSUME CallInv, HeadInv, NEW c \in Call, \A b \in Running : b = c,
           NEW f, calls' = [calls EXCEPT ![c] = f], UNCHANGED <<handed, opened>>,
           cached' = 0 => indexedDB' = None,
           f.pc \in Between => HeadRest(heap', cached', pending', Announced(handed, opened)),
           HeadCall(c, f, heap'[f.obj], cached', pending', Announced(handed, opened))
    PROVE  HeadInv'
<1>1. PICK known : known = Announced(handed, opened)
  OBVIOUS
<1>2. known = Announced(handed', opened') /\ \A m \in handed' : m.key.root.secret \in known
  BY <1>1 DEF HeadInv
<1> QED
  BY <1>1, <1>2, HeadStep

LEMMA HeadNow ==
    ASSUME CallInv, HeadInv, NEW c \in Call
    PROVE  /\ HeadCall(c, calls[c], State(c), cached, pending, Announced(handed, opened))
           /\ handed \in SUBSET Envelope /\ replies \in SUBSET Envelope
           /\ indexedDB \in RatchetState \cup {None} /\ pending \in KeyPair \cup {None}
           /\ cached \in 0 .. Len(heap) /\ heap \in Seq(RatchetState) /\ Len(heap) \in Nat
           /\ calls[c] \in Frame
BY DEF CallInv, HeadInv, MemoryType, State

(* Between calls. *)
LEMMA HeadBetween ==
    ASSUME HeadInv, Running = {}
    PROVE  HeadRest(heap, cached, pending, Announced(handed, opened))
<1>1. \A c \in Call : calls[c].pc \in Between
  BY DEF Running, Between, AtRest
<1> QED
  BY <1>1 DEF HeadInv

(* encryptMessage. *)
LEMMA StartEncryptHead ==
    ASSUME CallInv, HeadInv, MaxConcurrent = 1, NEW c \in Encryption, StartEncrypt(c)
    PROVE  HeadInv'
<1>1. c \in Call /\ c \notin Decryption /\ Running = {}
  BY BeginsAlone, CallsAssumption DEF StartEncrypt, Call
<1>2. PICK pc : pc = IF cached # 0 THEN "getOrCreateSession" ELSE "loadState"
  OBVIOUS
<1>3. PICK f : f = [calls[c] EXCEPT !.pc = pc, !.obj = cached]
  OBVIOUS
<1>4. f.pc = pc /\ f.obj = cached
  BY <1>1, <1>3, HeadNow DEF Frame
<1>5. HeadRest(heap, cached, pending, Announced(handed, opened))
  BY <1>1, HeadBetween
<1>6. HeadCall(c, f, heap[f.obj], cached, pending, Announced(handed, opened))
  BY <1>1, <1>2, <1>4, <1>5 DEF HeadRest, HeadCall, Promised, WithObject, RatchetPC
<1>7. /\ calls' = [calls EXCEPT ![c] = f]
      /\ UNCHANGED <<indexedDB, heap, cached, pending, handed, opened>>
  BY <1>2, <1>3 DEF StartEncrypt, Become, memory
<1>8. cached = 0 => indexedDB = None
  BY DEF HeadInv
<1>9. f.pc \notin Between
  BY <1>2, <1>4 DEF Between, AtRest
<1> QED
  BY <1>1, <1>6, <1>7, <1>8, <1>9, HeadStepSilent

(* Before the page is reloaded there is nothing to load. *)
LEMMA LoadToEncryptHead ==
    ASSUME CallInv, HeadInv, NEW c \in Encryption, LoadToEncrypt(c)
    PROVE  HeadInv'
<1>1. c \in Call /\ c \notin Decryption /\ \A b \in Running : b = c
  BY RunsAlone, CallsAssumption DEF LoadToEncrypt, IsAt, AtRest, Call
<1>2. cached = 0 /\ pending = None /\ indexedDB = None
  BY <1>1, HeadNow DEF HeadCall, LoadToEncrypt, IsAt, HeadInv
<1>3. PICK f : f = [calls[c] EXCEPT !.pc = "performX3DH"]
  OBVIOUS
<1>4. f.pc = "performX3DH"
  BY <1>1, <1>3, HeadNow DEF Frame
<1>5. /\ calls' = [calls EXCEPT ![c] = f]
      /\ UNCHANGED <<indexedDB, heap, cached, pending, handed, opened>>
  BY <1>2, <1>3 DEF LoadToEncrypt, Await, Become
<1>6. HeadCall(c, f, heap[f.obj], cached, pending, Announced(handed, opened))
  BY <1>1, <1>2, <1>4 DEF HeadCall, WithObject, RatchetPC
<1>7. f.pc \notin Between
  BY <1>4 DEF Between, AtRest
<1> QED
  BY <1>1, <1>2, <1>5, <1>6, <1>7, HeadStepSilent

LEMMA PerformX3DHHead ==
    ASSUME CallInv, HeadInv, NEW c \in Encryption, PerformX3DH(c)
    PROVE  HeadInv'
<1>1. c \in Call /\ c \notin Decryption /\ \A b \in Running : b = c
  BY RunsAlone, CallsAssumption DEF PerformX3DH, IsAt, AtRest, Call
<1>2. cached = 0 /\ indexedDB = None
  BY <1>1, HeadNow DEF HeadCall, PerformX3DH, IsAt, HeadInv
<1>3. PICK f : f = [calls[c] EXCEPT !.pc = "initSender",
                                    !.dh = Secret(FreshKey(us), <<them, 0>>)]
  OBVIOUS
<1>4. f.pc = "initSender" /\ f.dh = Secret(FreshKey(us), <<them, 0>>)
  BY <1>1, <1>3, HeadNow DEF Frame
<1>5. /\ calls' = [calls EXCEPT ![c] = f] /\ pending' = FreshKey(us)
      /\ UNCHANGED <<indexedDB, heap, cached, handed, opened>>
  BY <1>3 DEF PerformX3DH, Become
<1>6. FreshKey(us) # None
  BY PartyKeys, Ends, NoneAssumption DEF CallInv
<1>7. HeadCall(c, f, heap'[f.obj], cached', pending', Announced(handed, opened))
  BY <1>1, <1>2, <1>4, <1>5, <1>6 DEF HeadCall, WithObject, RatchetPC
<1>8. f.pc \notin Between
  BY <1>4 DEF Between, AtRest
<1> QED
  BY <1>1, <1>2, <1>5, <1>7, <1>8, HeadStepSilent

LEMMA CacheNewSessionHead ==
    ASSUME CallInv, HeadInv, NEW c \in Encryption, CacheNewSession(c)
    PROVE  HeadInv'
<1>1. c \in Call /\ c \notin Decryption /\ \A b \in Running : b = c
  BY RunsAlone, CallsAssumption DEF CacheNewSession, IsAt, AtRest, Call
<1>2. pending # None /\ calls[c].dh = Secret(pending, <<them, 0>>)
  BY <1>1, HeadNow DEF HeadCall, CacheNewSession, IsAt
<1>3. PICK st : st = InitSender(calls[c].dh, <<them, 0>>, FreshKey(us))
  OBVIOUS
<1>4. PICK f : f = [calls[c] EXCEPT !.pc = "saveNew", !.obj = Len(heap) + 1]
  OBVIOUS
<1>5. f.pc = "saveNew" /\ f.obj = Len(heap) + 1
  BY <1>1, <1>4, HeadNow DEF Frame
<1>6. /\ calls' = [calls EXCEPT ![c] = f] /\ heap' = Append(heap, st)
      /\ cached' = Len(heap) + 1 /\ UNCHANGED <<indexedDB, pending, handed, opened>>
  BY <1>3, <1>4 DEF CacheNewSession, Cache, Become
<1>7. heap'[f.obj] = st /\ cached' # 0 /\ cached' = f.obj
  BY <1>1, <1>5, <1>6, HeadNow
<1>8. st.rk.secret = Secret(pending, <<them, 0>>) /\ st.cks.root = st.rk /\ st.cks # None
  <2>1. PICK rk : rk = [secret |-> calls[c].dh, path |-> <<>>]
    OBVIOUS
  <2>2. st.rk = KdfRootKey(rk, DH(FreshKey(us), <<them, 0>>)) /\ st.cks = FirstChainKey(st.rk)
    BY <1>3, <2>1 DEF InitSender
  <2>3. st.rk.secret = calls[c].dh
    BY <2>1, <2>2 DEF KdfRootKey
  <2>4. st.cks \in ChainKey
    <3>1. calls[c].dh \in SUBSET KeyPair
      BY EncryptPhaseNow DEF CacheNewSession, IsAt, EncryptPhase
    <3>2. rk \in RootKey
      BY <2>1, <3>1 DEF RootKey
    <3>3. DH(FreshKey(us), <<them, 0>>) \in SUBSET KeyPair
      BY PartyKeys, Ends, KdfTypes DEF CallInv
    <3> QED
      BY <2>2, <3>2, <3>3, KdfTypes
  <2> QED
    BY <1>2, <2>2, <2>3, <2>4, NoneAssumption DEF FirstChainKey
<1>9. HeadCall(c, f, heap'[f.obj], cached', pending', Announced(handed, opened))
  BY <1>1, <1>2, <1>5, <1>6, <1>7, <1>8 DEF HeadCall, OneSecret, Promised
<1>10. f.pc \notin Between
  BY <1>5 DEF Between, AtRest
<1> QED
  BY <1>1, <1>6, <1>7, <1>9, <1>10, HeadStepSilent

(* A step of a call of encryptMessage in its session. *)
LEMMA InSessionHead ==
    ASSUME CallInv, HeadInv, NEW c \in Encryption, calls[c].pc \in WithObject \cup {"kdfChainKey"},
           NEW f, calls' = [calls EXCEPT ![c] = f], f.obj = calls[c].obj,
           f.pc \in WithObject, NEW st, heap' = [heap EXCEPT ![f.obj] = st],
           st.rk.secret = State(c).rk.secret, OneSecret(st),
           State(c).cks # None => st.cks # None,
           f.pc \in {"aesGcmEncrypt", "saveState", "saved"} => f.msg.key.root.secret = st.rk.secret,
           UNCHANGED <<cached, pending, handed, opened>>
    PROVE  HeadInv'
<1>1. /\ c \in Call /\ c \notin Decryption /\ calls[c].pc \in WithObject
      /\ calls[c].pc \notin AtRest
  BY CallsAssumption DEF Call, WithObject, RatchetPC, AtRest
<1>2. calls[c].obj \in 1 .. Len(heap) /\ \A b \in Running : b = c
  BY <1>1, EncryptPhaseNow, RunsAlone
<1>3. /\ cached = calls[c].obj
      /\ Promised(State(c), pending, Announced(handed, opened))
  BY <1>1, HeadNow DEF HeadCall
<1>4. Promised(st, pending, Announced(handed, opened))
  BY <1>3 DEF Promised
<1>5. heap'[f.obj] = st /\ cached # 0
  BY <1>1, <1>2, <1>3, HeadNow
<1>6. HeadCall(c, f, heap'[f.obj], cached', pending', Announced(handed, opened))
  BY <1>1, <1>3, <1>4, <1>5 DEF HeadCall, WithObject, RatchetPC
<1>7. f.pc \notin Between
  BY DEF Between, AtRest, WithObject, RatchetPC
<1> QED
  BY <1>1, <1>2, <1>5, <1>6, <1>7, HeadStepSilent

LEMMA SaveNewSessionHead ==
    ASSUME CallInv, HeadInv, NEW c \in Encryption, SaveNewSession(c)
    PROVE  HeadInv'
<1>1. calls[c].pc = "saveNew" /\ calls[c].pc \in WithObject /\ c \in Call
  BY DEF SaveNewSession, IsAt, WithObject, Call
<1>2. PICK f : f = [calls[c] EXCEPT !.pc = "getOrCreateSession"]
  OBVIOUS
<1>3. f.pc = "getOrCreateSession" /\ f.obj = calls[c].obj
  BY <1>1, <1>2, HeadNow DEF Frame
<1>4. /\ calls' = [calls EXCEPT ![c] = f]
      /\ UNCHANGED <<heap, cached, pending, handed, opened>>
  BY <1>2 DEF SaveNewSession, Await, Become, memory
<1>5. heap' = [heap EXCEPT ![f.obj] = State(c)]
  BY <1>1, <1>3, <1>4, EncryptPhaseNow, HeadNow, NotMutated
<1>6. OneSecret(State(c))
  BY <1>1, HeadNow DEF HeadCall
<1> QED
  BY <1>1, <1>3, <1>4, <1>5, <1>6, InSessionHead DEF WithObject

(* A session that cannot encrypt is one the other end began. *)
LEMMA ReadChainKeyHead ==
    ASSUME CallInv, HeadInv, NEW c \in Encryption, ReadChainKey(c)
    PROVE  HeadInv'
<1>1. calls[c].pc = "getOrCreateSession" /\ calls[c].pc \in WithObject /\ c \in Call
  BY DEF ReadChainKey, IsAt, WithObject, Call
<1>2. UNCHANGED <<heap, cached, pending, indexedDB, handed, opened>>
  BY DEF ReadChainKey, memory
<1>3. /\ calls[c].obj = cached /\ OneSecret(State(c))
      /\ Promised(State(c), pending, Announced(handed, opened))
  BY <1>1, HeadNow DEF HeadCall
<1>4. CASE CanEncrypt(State(c))
  <2>1. PICK f : f = [calls[c] EXCEPT !.pc = "kdfChainKey", !.ck = State(c).cks, !.from = State(c)]
    OBVIOUS
  <2>2. f.pc = "kdfChainKey" /\ f.obj = calls[c].obj
    BY <1>1, <2>1, HeadNow DEF Frame
  <2>3. calls' = [calls EXCEPT ![c] = f]
    BY <1>4, <2>1 DEF ReadChainKey, Become
  <2>4. heap' = [heap EXCEPT ![f.obj] = State(c)]
    BY <1>1, <1>2, <2>2, EncryptPhaseNow, HeadNow, NotMutated
  <2> QED
    BY <1>1, <1>2, <1>3, <2>2, <2>3, <2>4, InSessionHead DEF WithObject, RatchetPC
<1>5. CASE ~CanEncrypt(State(c))
  <2>1. PICK f : f = Ended("threw")
    OBVIOUS
  <2>2. f.pc \in AtRest
    BY <2>1 DEF Ended, AtRest
  <2>3. calls' = [calls EXCEPT ![c] = f]
    BY <1>5, <2>1 DEF ReadChainKey, Become
  <2>4. HeadRest(heap, cached, pending, Announced(handed, opened))
    BY <1>3, <1>5 DEF HeadRest, Promised, CanEncrypt, State
  <2>5. HeadCall(c, f, heap'[f.obj], cached', pending', Announced(handed, opened))
    BY <2>2, RestIsHead
  <2>6. \A b \in Running : b = c
    BY <1>1, RunsAlone DEF AtRest
  <2>7. cached' = 0 => indexedDB' = None
    BY <1>2 DEF HeadInv
  <2> QED
    BY <1>1, <1>2, <2>3, <2>4, <2>5, <2>6, <2>7, HeadStepSilent
<1> QED
  BY <1>4, <1>5

LEMMA AdvanceChainHead ==
    ASSUME CallInv, HeadInv, NEW c \in Encryption, AdvanceChain(c)
    PROVE  HeadInv'
<1>1. calls[c].pc = "kdfChainKey" /\ calls[c].pc \in WithObject /\ c \in Call
  BY DEF AdvanceChain, IsAt, WithObject, RatchetPC, Call
<1>2. /\ State(c) \in RatchetState /\ calls[c].obj \in 1 .. Len(heap)
      /\ State(c) = calls[c].from /\ calls[c].ck = State(c).cks /\ State(c).cks # None
  BY <1>1, EncryptPhaseNow DEF EncryptPhase, CanEncrypt
<1>3. PICK ck \in ChainKey : ck = calls[c].ck /\ ck = State(c).cks
  BY <1>2, SessionFields
<1>4. PICK next \in ChainKey : next = KdfChainKey(ck, 1) /\ next.root = ck.root
  <2>1. KdfChainKey(ck, 1) \in ChainKey /\ KdfChainKey(ck, 1).root = ck.root
    BY KdfTypes DEF KdfChainKey, ChainKey
  <2> QED
    BY <2>1
<1>5. PICK st : st = [State(c) EXCEPT !.cks = next]
  OBVIOUS
<1>6. st.cks = next /\ st.rk = State(c).rk
  BY <1>2, <1>5 DEF RatchetState
<1>7. OneSecret(State(c))
  BY <1>1, HeadNow DEF HeadCall
<1>8. OneSecret(st) /\ ck.root.secret = st.rk.secret /\ st.cks # None
  BY <1>2, <1>3, <1>4, <1>6, <1>7, NoneAssumption DEF OneSecret
<1>9. PICK f, m :
          /\ f = [calls[c] EXCEPT !.pc = "aesGcmEncrypt", !.msg = m]
          /\ m = [ by |-> c, x3dh |-> None, tagged |-> TRUE,
                   dh |-> Header(State(c)).dh, pn |-> Header(State(c)).pn,
                   n |-> Header(State(c)).n, key |-> calls[c].ck ]
  OBVIOUS
<1>10. f.pc = "aesGcmEncrypt" /\ f.msg = m /\ f.obj = calls[c].obj /\ m.key = ck
  BY <1>1, <1>3, <1>9, HeadNow DEF Frame
<1>11. calls' = [calls EXCEPT ![c] = f]
  BY <1>9 DEF AdvanceChain, Become
<1>12. heap' = [heap EXCEPT ![f.obj] = st]
  BY <1>3, <1>4, <1>5, <1>10 DEF AdvanceChain, Mutate
<1>13. UNCHANGED <<cached, pending, handed, opened>>
  BY DEF AdvanceChain
<1> QED
  BY <1>1, <1>6, <1>8, <1>10, <1>11, <1>12, <1>13, InSessionHead DEF WithObject

LEMMA CountMessageHead ==
    ASSUME CallInv, HeadInv, NEW c \in Encryption, CountMessage(c)
    PROVE  HeadInv'
<1>1. calls[c].pc = "aesGcmEncrypt" /\ calls[c].pc \in WithObject /\ c \in Call
  BY DEF CountMessage, IsAt, WithObject, Call
<1>2. State(c) \in RatchetState
  BY <1>1, EncryptPhaseNow
<1>3. PICK st : st = [State(c) EXCEPT !.ns = @ + 1]
  OBVIOUS
<1>4. st.cks = State(c).cks /\ st.rk = State(c).rk
  BY <1>2, <1>3 DEF RatchetState
<1>5. OneSecret(State(c)) /\ calls[c].msg.key.root.secret = State(c).rk.secret
  BY <1>1, HeadNow DEF HeadCall
<1>6. OneSecret(st)
  BY <1>4, <1>5 DEF OneSecret
<1>7. PICK f : f = [calls[c] EXCEPT !.pc = "saveState"]
  OBVIOUS
<1>8. f.pc = "saveState" /\ f.msg = calls[c].msg /\ f.obj = calls[c].obj
  BY <1>1, <1>7, HeadNow DEF Frame
<1>9. calls' = [calls EXCEPT ![c] = f] /\ heap' = [heap EXCEPT ![f.obj] = st]
  BY <1>3, <1>7, <1>8 DEF CountMessage, Await, Become, Mutate
<1>10. UNCHANGED <<cached, pending, handed, opened>>
  BY DEF CountMessage
<1> QED
  BY <1>1, <1>4, <1>5, <1>6, <1>8, <1>9, <1>10, InSessionHead DEF WithObject

LEMMA SaveSentHead ==
    ASSUME CallInv, HeadInv, NEW c \in Encryption, SaveState(c)
    PROVE  HeadInv'
<1>1. calls[c].pc = "saveState" /\ calls[c].pc \in WithObject /\ c \in Call
  BY DEF SaveState, IsAt, WithObject, Call
<1>2. PICK f, st : f = [calls[c] EXCEPT !.pc = "saved"] /\ st = State(c)
  OBVIOUS
<1>3. f.pc = "saved" /\ f.pc \in WithObject /\ f.obj = calls[c].obj /\ f.msg = calls[c].msg
  BY <1>1, <1>2, HeadNow DEF Frame, WithObject
<1>4. /\ calls' = [calls EXCEPT ![c] = f]
      /\ UNCHANGED <<heap, cached, pending, handed, opened>>
  BY <1>2 DEF SaveState, Await, Become, memory
<1>5. heap' = [heap EXCEPT ![f.obj] = st]
  BY <1>1, <1>2, <1>3, <1>4, EncryptPhaseNow, HeadNow, NotMutated
<1>6. OneSecret(st) /\ f.msg.key.root.secret = st.rk.secret
  BY <1>1, <1>2, <1>3, HeadNow DEF HeadCall
<1>7. /\ calls[c].pc \in WithObject \cup {"kdfChainKey"} /\ f.pc \in WithObject
      /\ f.obj = calls[c].obj
  BY <1>1, <1>3
<1>8. st.rk.secret = State(c).rk.secret /\ (State(c).cks # None => st.cks # None)
  BY <1>2
<1> QED
  BY <1>4, <1>5, <1>6, <1>7, <1>8, InSessionHead

(* The message goes out with the header, if the header is pending. *)
LEMMA ReturnMessageHead ==
    ASSUME CallInv, HeadInv, NEW c \in Encryption, ReturnMessage(c)
    PROVE  HeadInv'
<1>1. calls[c].pc = "saved" /\ c \in Call /\ \A b \in Running : b = c
  BY RunsAlone DEF ReturnMessage, IsAt, AtRest, Call
<1>2. calls[c].pc \in WithObject /\ calls[c].obj \in 1 .. Len(heap) /\ calls[c].msg \in Envelope
  BY <1>1, EncryptPhaseNow DEF WithObject, EncryptPhase
<1>3. PICK st : st = State(c) /\ st = heap[calls[c].obj]
  BY DEF State
<1>4. /\ OneSecret(st) /\ Promised(st, pending, Announced(handed, opened))
      /\ calls[c].msg.key.root.secret = st.rk.secret
  BY <1>1, <1>2, <1>3, HeadNow DEF HeadCall
<1>5. PICK m : m = [calls[c].msg EXCEPT !.x3dh = pending]
  OBVIOUS
<1>6. m.key = calls[c].msg.key /\ m.x3dh = pending
  BY <1>2, <1>5 DEF Envelope
<1>7. PICK f : f = Ended("returned")
  OBVIOUS
<1>8. /\ handed' = handed \cup {m} /\ cached' = calls[c].obj /\ pending' = None
      /\ calls' = [calls EXCEPT ![c] = f] /\ UNCHANGED <<heap, indexedDB, opened>>
  BY <1>5, <1>7 DEF ReturnMessage, Become
<1>9. PICK known : known = Announced(handed', opened')
  OBVIOUS
<1>10. Announced(handed, opened) \subseteq known
  BY <1>8, <1>9 DEF Announced
<1>11. st.rk.secret \in known
  <2>1. CASE pending = None
    BY <1>4, <1>10, <2>1 DEF Promised
  <2>2. CASE pending # None
    <3>1. st.rk.secret = Secret(m.x3dh, <<them, 0>>) /\ m \in {p \in handed' : p.x3dh # None}
      BY <1>4, <1>6, <1>8, <2>2 DEF Promised
    <3> QED
      BY <1>9, <3>1 DEF Announced
  <2> QED
    BY <2>1, <2>2
<1>12. \A p \in handed' : p.key.root.secret \in known
  BY <1>4, <1>6, <1>8, <1>10, <1>11 DEF HeadInv
<1>13. HeadRest(heap', cached', pending', known)
  BY <1>3, <1>4, <1>8, <1>11 DEF HeadRest
<1>14. HeadCall(c, f, heap'[f.obj], cached', pending', known)
  <2>1. f.pc \in AtRest
    BY <1>7 DEF Ended, AtRest
  <2> QED
    BY <2>1, RestIsHead
<1>15. cached' # 0
  BY <1>1, <1>2, <1>8, HeadNow
<1> QED
  BY <1>1, <1>8, <1>9, <1>12, <1>13, <1>14, <1>15, HeadStep

LEMMA EncryptCallHead ==
    ASSUME CallInv, HeadInv, MaxConcurrent = 1, NEW c \in Encryption, EncryptCall(c)
    PROVE  HeadInv'
BY StartEncryptHead, LoadToEncryptHead, PerformX3DHHead, CacheNewSessionHead,
   SaveNewSessionHead, ReadChainKeyHead, AdvanceChainHead, CountMessageHead, SaveSentHead,
   ReturnMessageHead DEF EncryptCall

(* decryptMessage. *)
LEMMA DecryptHeadNow ==
    ASSUME CallInv, HeadInv, NEW c \in Decryption, calls[c].pc \notin AtRest
    PROVE  /\ c \in Call /\ c \notin Encryption /\ \A b \in Running : b = c
           /\ calls[c] \in Frame /\ pending = None /\ (cached = 0 => indexedDB = None)
           /\ heap \in Seq(RatchetState) /\ Len(heap) \in Nat
           /\ calls[c].pc \in WithObject =>
                 /\ calls[c].obj = cached /\ cached \in 1 .. Len(heap)
                 /\ State(c) \in RatchetState /\ OneSecret(State(c))
                 /\ \/ State(c).rk.secret \in Announced(handed, opened)
                    \/ MadeFor(calls[c], State(c))
<1>1. /\ c \in Call /\ c \notin Encryption
      /\ cached = 0 => indexedDB = None
  BY CallsAssumption DEF Call, HeadInv
<1>2. \A b \in Running : b = c
  BY <1>1, RunsAlone
<1> QED
  BY <1>1, <1>2, HeadNow, DecryptPhaseNow DEF HeadCall

(* A step of the ratchet leaves the secret of the session. *)
LEMMA RatchetHead ==
    ASSUME CallInv, HeadInv, NEW c \in Decryption, calls[c].pc \in WithObject,
           calls[c].pc \notin AtRest,
           NEW f, calls' = [calls EXCEPT ![c] = f], f.obj = calls[c].obj,
           f.msg = calls[c].msg, f.from = calls[c].from, f.pc \in WithObject,
           NEW st, heap' = [heap EXCEPT ![f.obj] = st],
           st.rk.secret = State(c).rk.secret, OneSecret(st),
           UNCHANGED <<cached, pending, handed, opened>>
    PROVE  HeadInv'
<1>1. /\ c \in Call /\ c \notin Encryption /\ \A b \in Running : b = c
      /\ calls[c].obj = cached /\ cached \in 1 .. Len(heap) /\ pending = None
      /\ heap \in Seq(RatchetState) /\ Len(heap) \in Nat
      /\ \/ State(c).rk.secret \in Announced(handed, opened)
         \/ MadeFor(calls[c], State(c))
  BY DecryptHeadNow
<1>2. heap'[f.obj] = st /\ cached' # 0
  BY <1>1
<1>3. st.rk.secret \in Announced(handed, opened) \/ MadeFor(f, st)
  BY <1>1 DEF MadeFor
<1>4. f.pc \notin Between /\ f.pc # "loadState"
  BY DEF Between, AtRest, WithObject, RatchetPC
<1>5. HeadCall(c, f, heap'[f.obj], cached', pending', Announced(handed, opened))
  BY <1>1, <1>2, <1>3, <1>4 DEF HeadCall
<1> QED
  BY <1>1, <1>2, <1>4, <1>5, HeadStepSilent

(* A segment that leaves the root key and the sending chain. *)
LEMMA KeepingHead ==
    ASSUME CallInv, HeadInv, NEW c \in Decryption, calls[c].pc \in RatchetPC,
           NEW segment, Keeps(calls[c], State(c), segment), RunSegment(c, segment),
           UNCHANGED <<cached, pending, handed, opened>>
    PROVE  HeadInv'
<1>1. calls[c].pc \in WithObject /\ calls[c].pc \notin AtRest
  BY RatchetPCs
<1>2. PICK f, st : f = segment.frame /\ st = segment.st
  OBVIOUS
<1>3. /\ f.obj = calls[c].obj /\ f.msg = calls[c].msg /\ f.from = calls[c].from
      /\ f.pc \in WithObject /\ st.rk = State(c).rk /\ st.cks = State(c).cks
  BY <1>2 DEF Keeps, FirstPC, WithObject
<1>4. OneSecret(st)
  BY <1>1, <1>3, DecryptHeadNow DEF OneSecret
<1>5. calls' = [calls EXCEPT ![c] = f] /\ heap' = [heap EXCEPT ![f.obj] = st]
  BY <1>2, <1>3 DEF RunSegment, Become, Mutate
<1> QED
  BY <1>1, <1>3, <1>4, <1>5, RatchetHead

(* A step that only moves the call on. *)
LEMMA WaitHead ==
    ASSUME CallInv, HeadInv, NEW c \in Decryption, calls[c].pc \in WithObject,
           calls[c].pc \notin AtRest,
           NEW f, calls' = [calls EXCEPT ![c] = f], f.obj = calls[c].obj,
           f.msg = calls[c].msg, f.from = calls[c].from, f.pc \in WithObject,
           UNCHANGED <<heap, cached, pending, handed, opened>>
    PROVE  HeadInv'
<1>1. PICK st : st = State(c)
  OBVIOUS
<1>2. OneSecret(st) /\ calls[c].obj \in 1 .. Len(heap) /\ heap \in Seq(RatchetState)
  BY <1>1, DecryptHeadNow
<1>3. heap' = [heap EXCEPT ![f.obj] = st]
  BY <1>1, <1>2, NotMutated
<1> QED
  BY <1>1, <1>2, <1>3, RatchetHead

LEMMA SkipOldMessageHead ==
    ASSUME CallInv, HeadInv, NEW c \in Decryption, SkipOldMessage(c)
    PROVE  HeadInv'
<1>1. calls[c].pc \in RatchetPC /\ calls[c] \in Frame /\ State(c) \in RatchetState
  BY InRatchet DEF SkipOldMessage, RatchetPC, IsAt
<1>2. {"skipOld", "turn"} \subseteq FirstPC
  BY DEF FirstPC, RatchetPC, SecondDH
<1> QED
  BY <1>1, <1>2, SkipOneKeeps, KeepingHead DEF SkipOldMessage

LEMMA SkipMessageHead ==
    ASSUME CallInv, HeadInv, NEW c \in Decryption, SkipMessage(c)
    PROVE  HeadInv'
<1>1. calls[c].pc \in RatchetPC /\ calls[c] \in Frame /\ State(c) \in RatchetState
  BY InRatchet DEF SkipMessage, RatchetPC, IsAt
<1>2. {"skipNew", "skipped"} \subseteq FirstPC
  BY DEF FirstPC, RatchetPC, SecondDH
<1> QED
  BY <1>1, <1>2, SkipOneKeeps, KeepingHead DEF SkipMessage

LEMMA TurnRatchetHead ==
    ASSUME CallInv, HeadInv, NEW c \in Decryption, TurnRatchet(c)
    PROVE  HeadInv'
<1>1. calls[c].pc \in RatchetPC /\ calls[c] \in Frame /\ State(c) \in RatchetState
  BY InRatchet DEF TurnRatchet, RatchetPC, IsAt
<1> QED
  BY <1>1, StartTurnKeeps, KeepingHead DEF TurnRatchet

LEMMA DeriveRootKeyHead ==
    ASSUME CallInv, HeadInv, NEW c \in Decryption, DeriveRootKey(c)
    PROVE  HeadInv'
<1>1. /\ calls[c].pc \in WithObject /\ calls[c].pc \notin AtRest
      /\ UNCHANGED <<heap, cached, pending, handed, opened>>
  BY DEF DeriveRootKey, IsAt, WithObject, RatchetPC, AtRest, memory
<1>2. calls[c] \in Frame
  BY <1>1, DecryptHeadNow
<1>3. PICK f, pc : /\ f = [calls[c] EXCEPT !.pc = pc, !.rk = KdfRootKey(State(c).rk, calls[c].dh)]
                   /\ calls' = [calls EXCEPT ![c] = f] /\ pc \in {"kdfRootKey", "kdfRootKey2"}
  BY DEF DeriveRootKey, Become
<1>4. /\ f.pc = pc /\ f.obj = calls[c].obj /\ f.msg = calls[c].msg /\ f.from = calls[c].from
      /\ f.pc \in WithObject
  BY <1>2, <1>3 DEF Frame, WithObject, RatchetPC
<1> QED
  BY <1>1, <1>3, <1>4, WaitHead

(* The root key a DH ratchet step derives is of the same secret. *)
LEMMA DerivedSecret ==
    ASSUME NEW rk, NEW dh, NEW next, next = KdfRootKey(rk, dh), rk \in RootKey
    PROVE  next.secret = rk.secret
BY DEF KdfRootKey, RootKey

LEMMA TurnReceivingChainHead ==
    ASSUME CallInv, HeadInv, NEW c \in Decryption, TurnReceivingChain(c)
    PROVE  HeadInv'
<1>1. /\ calls[c].pc = "kdfRootKey" /\ calls[c].pc \in WithObject /\ calls[c].pc \notin AtRest
      /\ calls[c].pc \in TurnPC /\ calls[c].pc \in RatchetPC
  BY DEF TurnReceivingChain, IsAt, WithObject, RatchetPC, AtRest, TurnPC
<1>2. calls[c] \in Frame /\ State(c) \in RatchetState /\ OneSecret(State(c))
  BY <1>1, DecryptHeadNow
<1>3. calls[c].rk.secret = State(c).rk.secret
  <2>1. RatchetPhase(calls[c], State(c)) /\ calls[c].msg \in Envelope
    BY <1>1, DecryptPhaseNow
  <2>2. PICK old : old = SkipMessages(calls[c].from, calls[c].msg.pn)
    OBVIOUS
  <2>3. /\ calls[c].from \in RatchetState /\ State(c) = [old EXCEPT !.dhr = calls[c].msg.dh]
        /\ calls[c].rk = KdfRootKey(old.rk, DH(old.dhs, calls[c].msg.dh))
        /\ CanSkip(calls[c].from, calls[c].msg.pn)
    BY <1>1, <2>1, <2>2 DEF RatchetPhase, TurnPhase, Proceeds
  <2>4. old \in RatchetState
    BY <2>1, <2>2, <2>3, EnvelopeFields, SkipMessagesType
  <2>5. State(c).rk = old.rk /\ old.rk \in RootKey
    BY <2>3, <2>4 DEF RatchetState
  <2> QED
    BY <2>3, <2>5, DerivedSecret
<1>4. PICK f, st :
         /\ f = [calls[c] EXCEPT !.pc = "generateX25519KeyPair"]
         /\ st = [State(c) EXCEPT !.rk = calls[c].rk, !.ckr = FirstChainKey(calls[c].rk),
                                  !.nr = 0, !.pn = State(c).ns, !.ns = 0]
  OBVIOUS
<1>5. /\ f.pc \in WithObject /\ f.obj = calls[c].obj /\ f.msg = calls[c].msg
      /\ f.from = calls[c].from
  BY <1>2, <1>4 DEF Frame, WithObject, RatchetPC
<1>6. st.cks = State(c).cks /\ st.rk.secret = State(c).rk.secret
  BY <1>2, <1>3, <1>4 DEF RatchetState
<1>7. OneSecret(st)
  BY <1>2, <1>6 DEF OneSecret
<1>8. /\ calls' = [calls EXCEPT ![c] = f] /\ heap' = [heap EXCEPT ![f.obj] = st]
      /\ UNCHANGED <<cached, pending, handed, opened>>
  BY <1>4, <1>5 DEF TurnReceivingChain, Await, Become, Mutate
<1> QED
  BY <1>1, <1>5, <1>6, <1>7, <1>8, RatchetHead

LEMMA TurnKeyPairHead ==
    ASSUME CallInv, HeadInv, NEW c \in Decryption, TurnKeyPair(c)
    PROVE  HeadInv'
<1>1. /\ calls[c].pc \in WithObject /\ calls[c].pc \notin AtRest
  BY DEF TurnKeyPair, IsAt, WithObject, RatchetPC, AtRest
<1>2. calls[c] \in Frame /\ State(c) \in RatchetState /\ OneSecret(State(c))
  BY <1>1, DecryptHeadNow
<1>3. PICK f, st :
         /\ f = [calls[c] EXCEPT !.pc = "x25519DH2", !.dh = DH(FreshKey(us), State(c).dhr)]
         /\ st = [State(c) EXCEPT !.dhs = FreshKey(us)]
  OBVIOUS
<1>4. /\ f.pc \in WithObject /\ f.obj = calls[c].obj /\ f.msg = calls[c].msg
      /\ f.from = calls[c].from
  BY <1>2, <1>3 DEF Frame, WithObject, RatchetPC
<1>5. st.cks = State(c).cks /\ st.rk = State(c).rk
  BY <1>2, <1>3 DEF RatchetState
<1>6. OneSecret(st)
  BY <1>2, <1>5 DEF OneSecret
<1>7. /\ calls' = [calls EXCEPT ![c] = f] /\ heap' = [heap EXCEPT ![f.obj] = st]
      /\ UNCHANGED <<cached, pending, handed, opened>>
  BY <1>3, <1>4 DEF TurnKeyPair, Become, Mutate
<1> QED
  BY <1>1, <1>4, <1>5, <1>6, <1>7, RatchetHead

LEMMA TurnSendingChainHead ==
    ASSUME CallInv, HeadInv, NEW c \in Decryption, TurnSendingChain(c)
    PROVE  HeadInv'
<1>1. /\ calls[c].pc = "kdfRootKey2" /\ calls[c].pc \in WithObject /\ calls[c].pc \notin AtRest
      /\ calls[c].pc \in TurnPC /\ calls[c].pc \in RatchetPC
  BY DEF TurnSendingChain, IsAt, WithObject, RatchetPC, AtRest, TurnPC
<1>2. calls[c] \in Frame /\ State(c) \in RatchetState /\ calls[c].msg \in Envelope
  BY <1>1, DecryptHeadNow, DecryptPhaseNow
<1>3. PICK old \in RatchetState : old = State(c)
  BY <1>2
<1>4. PICK rk \in RootKey : rk = calls[c].rk /\ rk.secret = old.rk.secret
  <2>1. RatchetPhase(calls[c], State(c))
    BY <1>1, DecryptPhaseNow
  <2>2. calls[c].rk = KdfRootKey(old.rk, DH(old.dhs, calls[c].msg.dh))
    BY <1>1, <1>3, <2>1 DEF RatchetPhase, TurnPhase
  <2>3. old.dhs \in KeyPair /\ calls[c].msg.dh \in KeyPair /\ old.rk \in RootKey
    BY <1>2, EnvelopeFields DEF RatchetState
  <2>4. calls[c].rk \in RootKey
    BY <2>2, <2>3, KdfTypes
  <2> QED
    BY <2>2, <2>3, <2>4, DerivedSecret
<1>5. PICK ck \in ChainKey : ck = FirstChainKey(rk) /\ ck.root = rk
  <2>1. FirstChainKey(rk) \in ChainKey /\ FirstChainKey(rk).root = rk
    BY KdfTypes DEF FirstChainKey
  <2> QED
    BY <2>1
<1>6. PICK st : st = [old EXCEPT !.rk = rk, !.cks = ck]
  OBVIOUS
<1>7. st \in RatchetState /\ st.cks = ck /\ st.rk = rk
  BY <1>6 DEF RatchetState
<1>8. PICK f : f = [calls[c] EXCEPT !.dh = None, !.rk = None]
  OBVIOUS
<1>9. /\ f \in Frame /\ f.obj = calls[c].obj /\ f.msg = calls[c].msg
      /\ f.from = calls[c].from
  BY <1>2, <1>8 DEF Frame
<1>10. PICK segment : segment = EnterSkip(f, st, calls[c].msg.n, "skipNew", "skipped")
  OBVIOUS
<1>11. Keeps(f, st, segment)
  <2>1. {"skipNew", "skipped"} \subseteq FirstPC
    BY DEF FirstPC, RatchetPC, SecondDH
  <2> QED
    BY <1>7, <1>9, <1>10, <2>1, EnterSkipKeeps
<1>12. PICK g, after : g = segment.frame /\ after = segment.st
  OBVIOUS
<1>13. /\ g.obj = calls[c].obj /\ g.msg = calls[c].msg /\ g.from = calls[c].from
       /\ g.pc \in WithObject /\ after.rk = rk /\ after.cks = ck
  BY <1>7, <1>9, <1>11, <1>12 DEF Keeps, FirstPC, WithObject
<1>14. OneSecret(after) /\ after.rk.secret = State(c).rk.secret
  BY <1>3, <1>4, <1>5, <1>13 DEF OneSecret
<1>15. /\ calls' = [calls EXCEPT ![c] = g] /\ heap' = [heap EXCEPT ![g.obj] = after]
       /\ UNCHANGED <<cached, pending, handed, opened>>
  BY <1>3, <1>4, <1>5, <1>6, <1>8, <1>10, <1>12, <1>13
     DEF TurnSendingChain, RunSegment, Become, Mutate
<1> QED
  BY <1>1, <1>13, <1>14, <1>15, RatchetHead

LEMMA ReadReceivingKeyHead ==
    ASSUME CallInv, HeadInv, NEW c \in Decryption, ReadReceivingKey(c)
    PROVE  HeadInv'
<1>1. /\ calls[c].pc \in WithObject /\ calls[c].pc \notin AtRest
      /\ UNCHANGED <<heap, cached, pending, handed, opened>>
  BY DEF ReadReceivingKey, IsAt, WithObject, RatchetPC, AtRest, memory
<1>2. calls[c] \in Frame
  BY <1>1, DecryptHeadNow
<1>3. PICK f, pc : /\ f = [calls[c] EXCEPT !.pc = pc, !.ck = State(c).ckr]
                   /\ calls' = [calls EXCEPT ![c] = f]
                   /\ pc \in {"rejected", "kdfChainKey"}
  BY DEF ReadReceivingKey, Become
<1>4. /\ f.obj = calls[c].obj /\ f.msg = calls[c].msg /\ f.from = calls[c].from
      /\ f.pc \in WithObject
  BY <1>2, <1>3 DEF Frame, WithObject, RatchetPC
<1> QED
  BY <1>1, <1>3, <1>4, WaitHead

LEMMA SpendReceivingKeyHead ==
    ASSUME CallInv, HeadInv, NEW c \in Decryption, SpendReceivingKey(c)
    PROVE  HeadInv'
<1>1. calls[c].pc \in RatchetPC /\ calls[c] \in Frame /\ State(c) \in RatchetState
  BY InRatchet DEF SpendReceivingKey, RatchetPC, IsAt
<1>2. calls[c].pc \in WithObject /\ calls[c].pc \notin AtRest /\ OneSecret(State(c))
  BY <1>1, RatchetPCs, DecryptHeadNow
<1>3. PICK f, st, pc :
        /\ f = [calls[c] EXCEPT !.ck = None, !.pc = pc]
        /\ st = [State(c) EXCEPT !.ckr = KdfChainKey(calls[c].ck, 1), !.nr = @ + 1]
        /\ pc \in {"aesGcmDecrypt", "rejected"}
        /\ Become(c, f) /\ Mutate(c, st)
  BY DEF SpendReceivingKey
<1>4. /\ f.obj = calls[c].obj /\ f.msg = calls[c].msg /\ f.from = calls[c].from
      /\ f.pc \in WithObject
  BY <1>1, <1>3 DEF Frame, WithObject, RatchetPC
<1>5. st.cks = State(c).cks /\ st.rk = State(c).rk
  BY <1>1, <1>3 DEF RatchetState
<1>6. OneSecret(st) /\ st.rk.secret = State(c).rk.secret
  BY <1>2, <1>5 DEF OneSecret
<1>7. /\ calls' = [calls EXCEPT ![c] = f] /\ heap' = [heap EXCEPT ![f.obj] = st]
      /\ UNCHANGED <<cached, pending, handed, opened>>
  BY <1>3, <1>4 DEF SpendReceivingKey, Become, Mutate
<1> QED
  BY <1>2, <1>4, <1>6, <1>7, RatchetHead

LEMMA ReceivePlaintextHead ==
    ASSUME CallInv, HeadInv, NEW c \in Decryption, ReceivePlaintext(c)
    PROVE  HeadInv'
<1>1. /\ calls[c].pc \in WithObject /\ calls[c].pc \notin AtRest
      /\ UNCHANGED <<heap, cached, pending, handed, opened>>
  BY DEF ReceivePlaintext, IsAt, WithObject, RatchetPC, AtRest, memory
<1>2. calls[c] \in Frame
  BY <1>1, DecryptHeadNow
<1>3. PICK f : f = [calls[c] EXCEPT !.pc = "saveState"]
  OBVIOUS
<1>4. /\ f.obj = calls[c].obj /\ f.msg = calls[c].msg /\ f.from = calls[c].from
      /\ f.pc \in WithObject
  BY <1>2, <1>3 DEF Frame, WithObject
<1>5. calls' = [calls EXCEPT ![c] = f]
  BY <1>3 DEF ReceivePlaintext, Await, Become
<1> QED
  BY <1>1, <1>4, <1>5, WaitHead

LEMMA SaveReceivedHead ==
    ASSUME CallInv, HeadInv, NEW c \in Decryption, SaveState(c)
    PROVE  HeadInv'
<1>1. /\ calls[c].pc \in WithObject /\ calls[c].pc \notin AtRest
      /\ UNCHANGED <<heap, cached, pending, handed, opened>>
  BY DEF SaveState, IsAt, WithObject, AtRest, memory
<1>2. calls[c] \in Frame
  BY <1>1, DecryptHeadNow
<1>3. PICK f : f = [calls[c] EXCEPT !.pc = "saved"]
  OBVIOUS
<1>4. /\ f.obj = calls[c].obj /\ f.msg = calls[c].msg /\ f.from = calls[c].from
      /\ f.pc \in WithObject
  BY <1>2, <1>3 DEF Frame, WithObject
<1>5. calls' = [calls EXCEPT ![c] = f]
  BY <1>3 DEF SaveState, Await, Become
<1> QED
  BY <1>1, <1>4, <1>5, WaitHead

(* The first try goes to the session at hand, or to IndexedDB. *)
LEMMA StartDecryptHead ==
    ASSUME CallInv, PastInv, HeadInv, MaxConcurrent = 1, NEW c \in Decryption,
           NEW m \in replies, StartDecrypt(c, m)
    PROVE  HeadInv'
<1>1. c \in Call /\ c \notin Encryption /\ Running = {}
  BY BeginsAlone, CallsAssumption DEF StartDecrypt, Call
<1>2. m \in Envelope
  BY <1>1, PastNow
<1>3. PICK f \in Frame : /\ f = [calls[c] EXCEPT !.msg = m, !.obj = cached]
                         /\ f.msg = m /\ f.obj = cached
  <2>1. calls[c] \in Frame /\ cached \in Nat
    BY <1>1, PastNow
  <2>2. [calls[c] EXCEPT !.msg = m, !.obj = cached] \in Frame
    BY <1>2, <2>1 DEF Frame
  <2> QED
    BY <2>1, <2>2 DEF Frame
<1>4. UNCHANGED <<cached, indexedDB, pending, handed, opened>>
  BY DEF StartDecrypt
<1>5. HeadRest(heap, cached, pending, Announced(handed, opened)) /\ (cached = 0 => indexedDB = None)
  BY <1>1, HeadBetween DEF HeadInv
<1>6. CASE cached # 0
  <2>1. PICK st \in RatchetState : st = heap[cached]
    BY <1>1, <1>6, PastNow
  <2>2. PICK segment : segment = StartRatchetDecrypt(f, st)
    OBVIOUS
  <2>3. PICK g, after : g = segment.frame /\ after = segment.st
    OBVIOUS
  <2>4. g.obj = cached /\ g.pc \in FirstPC /\ after.rk = st.rk /\ after.cks = st.cks
    <3>1. PICK h : h = [f EXCEPT !.from = st]
      OBVIOUS
    <3>2. Keeps(h, st, segment) /\ h.obj = f.obj
      BY <2>2, <3>1, StartRatchetDecryptKeeps, FromFields
    <3> QED
      BY <1>3, <2>3, <3>2 DEF Keeps
  <2>5. calls' = [calls EXCEPT ![c] = g] /\ heap' = [heap EXCEPT ![cached] = after]
    BY <1>3, <1>6, <2>1, <2>2, <2>3 DEF StartDecrypt, Become
  <2>6. heap'[g.obj] = after
    BY <1>1, <1>6, <2>4, <2>5, PastNow
  <2>7. g.pc \notin Between /\ g.pc # "loadState"
    BY <2>4 DEF Between, AtRest, FirstPC, RatchetPC
  <2>8. OneSecret(after) /\ after.rk.secret \in Announced(handed, opened)
    BY <1>5, <1>6, <2>1, <2>4 DEF HeadRest, OneSecret
  <2>9. HeadCall(c, g, heap'[g.obj], cached', pending', Announced(handed, opened))
    BY <1>1, <1>4, <1>5, <2>4, <2>6, <2>7, <2>8 DEF HeadCall, HeadRest
  <2> QED
    BY <1>1, <1>4, <1>6, <2>5, <2>7, <2>9, HeadStepSilent
<1>7. CASE cached = 0
  <2>1. PICK g : g = [f EXCEPT !.pc = "loadState"]
    OBVIOUS
  <2>2. g.pc = "loadState"
    BY <1>3, <2>1 DEF Frame
  <2>3. calls' = [calls EXCEPT ![c] = g]
    BY <1>3, <1>7, <2>1 DEF StartDecrypt, Become
  <2>4. g.pc \notin Between /\ g.pc \notin WithObject
    BY <2>2 DEF Between, AtRest, WithObject, RatchetPC
  <2>5. HeadCall(c, g, heap'[g.obj], cached', pending', Announced(handed, opened))
    BY <1>1, <1>4, <1>5, <1>7, <2>4 DEF HeadCall, HeadRest
  <2> QED
    BY <1>1, <1>4, <1>5, <2>3, <2>4, <2>5, HeadStepSilent
<1> QED
  BY <1>6, <1>7

(* Nothing is stored: the header is responded to, or the call throws. *)
LEMMA LoadToDecryptHead ==
    ASSUME CallInv, HeadInv, NEW c \in Decryption, LoadToDecrypt(c)
    PROVE  HeadInv'
<1>1. calls[c].pc = "loadState" /\ calls[c].pc \notin AtRest
  BY DEF LoadToDecrypt, IsAt, AtRest
<1>2. /\ c \in Call /\ c \notin Encryption /\ calls[c] \in Frame
      /\ pending = None /\ \A b \in Running : b = c
  BY <1>1, DecryptHeadNow
<1>3. cached = 0 /\ indexedDB = None
  BY <1>1, <1>2, HeadNow DEF HeadCall, HeadInv
<1>4. UNCHANGED <<heap, cached, indexedDB, pending, handed, opened>>
  BY <1>3 DEF LoadToDecrypt
<1>5. HeadRest(heap', cached', pending', Announced(handed, opened))
  BY <1>2, <1>3, <1>4 DEF HeadRest
<1>6. PICK f, g : f = [calls[c] EXCEPT !.pc = "handleX3DHResponder"] /\ g = Ended("threw")
  OBVIOUS
<1>7. f.pc = "handleX3DHResponder" /\ g.pc = "threw"
  BY <1>2, <1>6 DEF Frame, Ended
<1>8. ASSUME NEW h \in {f, g}
      PROVE  HeadCall(c, h, heap'[h.obj], cached', pending', Announced(handed, opened))
  BY <1>2, <1>4, <1>7, <1>8 DEF HeadCall, WithObject, RatchetPC
<1>9. calls' = [calls EXCEPT ![c] = f] \/ calls' = [calls EXCEPT ![c] = g]
  BY <1>3, <1>6 DEF LoadToDecrypt, Await, Become
<1> QED
  BY <1>2, <1>3, <1>4, <1>5, <1>8, <1>9, HeadStepSilent

(* The session is made for the message. *)
LEMMA RespondX3DHHead ==
    ASSUME CallInv, PastInv, HeadInv, NEW c \in Decryption, RespondX3DH(c)
    PROVE  HeadInv'
<1>1. calls[c].pc = "handleX3DHResponder" /\ calls[c].pc \notin AtRest
  BY DEF RespondX3DH, IsAt, AtRest
<1>2. /\ c \in Call /\ c \notin Encryption /\ calls[c] \in Frame /\ pending = None
      /\ calls[c].msg \in Envelope /\ \A b \in Running : b = c
      /\ heap \in Seq(RatchetState) /\ Len(heap) \in Nat
  BY <1>1, DecryptHeadNow, DecryptNow
<1>3. calls[c].msg.x3dh # None
  BY <1>1, DecryptPhaseNow DEF DecryptPhase
<1>4. PICK st \in RatchetState :
         /\ st = InitReceiver(Secret(calls[c].msg.x3dh, <<us, 0>>), <<us, 0>>)
         /\ st.cks = None /\ st.rk.secret = Secret(calls[c].msg.x3dh, <<us, 0>>)
  <2>1. PICK st \in RatchetState :
           st = InitReceiver(Secret(calls[c].msg.x3dh, <<us, 0>>), <<us, 0>>)
    BY <1>2, <1>3, ReceiverType
  <2>2. st.cks = None /\ st.rk.secret = Secret(calls[c].msg.x3dh, <<us, 0>>)
    BY <2>1 DEF InitReceiver
  <2> QED
    BY <2>1, <2>2
<1>5. PICK segment, f : segment = StartRatchetDecrypt(calls[c], st) /\ f = [calls[c] EXCEPT !.from = st]
  OBVIOUS
<1>6. Keeps(f, st, segment) /\ f.msg = calls[c].msg /\ f.from = st
  BY <1>2, <1>5, StartRatchetDecryptKeeps, FromFields
<1>7. segment.frame \in Frame
  BY <1>2, <1>5, EnterRatchet DEF Continues
<1>8. PICK g, after : g = [segment.frame EXCEPT !.obj = Len(heap) + 1] /\ after = segment.st
  OBVIOUS
<1>9. /\ g.obj = Len(heap) + 1 /\ g.msg = calls[c].msg /\ g.from = st /\ g.pc \in FirstPC
      /\ after.rk = st.rk /\ after.cks = st.cks
  BY <1>6, <1>7, <1>8 DEF Keeps, Frame
<1>10. /\ calls' = [calls EXCEPT ![c] = g] /\ heap' = Append(heap, after)
       /\ cached' = Len(heap) + 1 /\ UNCHANGED <<indexedDB, pending, handed, opened>>
  BY <1>4, <1>5, <1>8 DEF RespondX3DH, RunOn, Become
<1>11. heap'[g.obj] = after /\ cached' # 0 /\ cached' = g.obj
  BY <1>2, <1>9, <1>10
<1>12. g.pc \notin Between /\ g.pc # "loadState"
  BY <1>9 DEF Between, AtRest, FirstPC, RatchetPC
<1>13. OneSecret(after) /\ MadeFor(g, after)
  BY <1>3, <1>4, <1>9 DEF OneSecret, MadeFor
<1>14. HeadCall(c, g, heap'[g.obj], cached', pending', Announced(handed, opened))
  BY <1>2, <1>10, <1>11, <1>12, <1>13 DEF HeadCall
<1> QED
  BY <1>2, <1>10, <1>11, <1>12, <1>14, HeadStepSilent

(* The session made from a reply's header opens the reply. *)
LEMMA ReceiverOpens ==
    ASSUME CallInv, NEW m \in Envelope, m.x3dh # None, Opens(m), NEW fresh \in KeyPair
    PROVE  RatchetDecrypt(InitReceiver(Secret(m.x3dh, <<us, 0>>), <<us, 0>>), m, fresh).ok
<1>1. /\ m.dh \in KeyPair /\ m.pn \in Nat /\ m.n = 0 /\ m.key \in ChainKey /\ m.tagged
      /\ m.key = FirstChainKey(KdfRootKey([secret |-> Secret(m.x3dh, <<us, 0>>), path |-> <<>>],
                                          DH(<<us, 0>>, m.dh)))
  BY EnvelopeFields DEF Opens
<1>2. <<us, 0>> \in KeyPair /\ Secret(m.x3dh, <<us, 0>>) \in SUBSET KeyPair
  <2>1. m.x3dh \in KeyPair /\ <<us, 0>> \in KeyPair
    BY EnvelopeFields, PartyKeys, Ends DEF CallInv
  <2> QED
    BY <2>1, KdfTypes DEF Secret
<1> QED
  BY <1>1, <1>2, FirstMessageOpens

(* A rejected message is not the one its session was made for. *)
LEMMA CatchRejectionHead ==
    ASSUME CallInv, PastInv, HeadInv, NEW c \in Decryption, CatchRejection(c)
    PROVE  HeadInv'
<1>1. /\ calls[c].pc = "rejected" /\ calls[c].pc \notin AtRest
      /\ calls[c].pc \in WithObject /\ calls[c].pc \in RatchetPC
      /\ UNCHANGED <<heap, cached, indexedDB, pending, handed, opened>>
  BY DEF CatchRejection, IsAt, AtRest, WithObject, RatchetPC, memory
<1>2. /\ c \in Call /\ c \notin Encryption /\ calls[c] \in Frame /\ pending = None
      /\ calls[c].msg \in Envelope /\ calls[c].msg \in replies /\ \A b \in Running : b = c
      /\ calls[c].obj = cached /\ cached # 0 /\ State(c) \in RatchetState /\ OneSecret(State(c))
      /\ \/ State(c).rk.secret \in Announced(handed, opened)
         \/ MadeFor(calls[c], State(c))
  <2>1. cached \in 1 .. Len(heap) /\ Len(heap) \in Nat
    BY <1>1, DecryptHeadNow
  <2>2. cached # 0
    BY <2>1
  <2> QED
    BY <1>1, <2>2, DecryptHeadNow, DecryptNow
<1>3. ~MadeFor(calls[c], State(c))
  <2> SUFFICES ASSUME MadeFor(calls[c], State(c)) PROVE FALSE
    OBVIOUS
  <2>1. ~RatchetDecrypt(calls[c].from, calls[c].msg, State(c).dhs).ok
    BY <1>1, DecryptPhaseNow DEF RatchetPhase
  <2>2. Opens(calls[c].msg) /\ calls[c].msg.x3dh # None /\ State(c).dhs \in KeyPair
    BY <1>2 DEF PastInv, MadeFor, RatchetState
  <2>3. RatchetDecrypt(calls[c].from, calls[c].msg, State(c).dhs).ok
    BY <1>2, <2>2, ReceiverOpens DEF MadeFor
  <2> QED
    BY <2>1, <2>3
<1>4. HeadRest(heap', cached', pending', Announced(handed, opened))
  BY <1>1, <1>2, <1>3 DEF HeadRest, State
<1>5. PICK f, g : /\ f = [Ended("handleX3DHResponder") EXCEPT !.msg = calls[c].msg, !.rebuilt = TRUE]
                  /\ g = Ended("threw")
  OBVIOUS
<1>6. f.pc = "handleX3DHResponder" /\ g.pc = "threw"
  BY <1>5 DEF Ended
<1>7. ASSUME NEW h \in {f, g}
      PROVE  HeadCall(c, h, heap'[h.obj], cached', pending', Announced(handed, opened))
  BY <1>1, <1>2, <1>6, <1>7 DEF HeadCall, WithObject, RatchetPC
<1>8. calls' = [calls EXCEPT ![c] = f] \/ calls' = [calls EXCEPT ![c] = g]
  BY <1>5 DEF CatchRejection, Become
<1> QED
  BY <1>1, <1>2, <1>4, <1>7, <1>8, HeadStepSilent

(* A reply that is opened tells its secret. *)
LEMMA ReturnPlaintextHead ==
    ASSUME CallInv, PastInv, HeadInv, NEW c \in Decryption, ReturnPlaintext(c)
    PROVE  HeadInv'
<1>1. calls[c].pc \in WithObject /\ calls[c].pc \notin AtRest
  BY DEF ReturnPlaintext, IsAt, WithObject, AtRest
<1>2. /\ c \in Call /\ pending = None /\ \A b \in Running : b = c
      /\ calls[c].obj = cached /\ cached # 0 /\ calls[c].msg \in replies
      /\ OneSecret(State(c))
      /\ \/ State(c).rk.secret \in Announced(handed, opened)
         \/ MadeFor(calls[c], State(c))
  <2>1. cached \in 1 .. Len(heap) /\ Len(heap) \in Nat
    BY <1>1, DecryptHeadNow
  <2>2. cached # 0
    BY <2>1
  <2> QED
    BY <1>1, <2>2, DecryptHeadNow, DecryptNow
<1>3. PICK f, m, st : f = Ended("returned") /\ m = calls[c].msg /\ st = State(c)
  OBVIOUS
<1>4. /\ opened' = opened \cup {m} /\ calls' = [calls EXCEPT ![c] = f]
      /\ cached' = calls[c].obj /\ UNCHANGED <<heap, indexedDB, pending, handed>>
  BY <1>3 DEF ReturnPlaintext, Become
<1>5. PICK known : known = Announced(handed', opened')
  OBVIOUS
<1>6. Announced(handed, opened) \subseteq known /\ m.key.root.secret \in known
  BY <1>4, <1>5 DEF Announced
<1>7. MadeFor(calls[c], st) => st.rk.secret = m.key.root.secret
  <2> SUFFICES ASSUME MadeFor(calls[c], st) PROVE st.rk.secret = m.key.root.secret
    OBVIOUS
  <2>1. m.x3dh # None /\ st.rk.secret = Secret(m.x3dh, <<us, 0>>)
    BY <1>3 DEF MadeFor
  <2>2. Opens(m)
    BY <1>2, <1>3 DEF PastInv
  <2>3. PICK rk, dh : /\ m.key = FirstChainKey(KdfRootKey(rk, dh))
                      /\ rk = [secret |-> Secret(m.x3dh, <<us, 0>>), path |-> <<>>]
    BY <2>1, <2>2 DEF Opens
  <2>4. KdfRootKey(rk, dh).secret = Secret(m.x3dh, <<us, 0>>)
    BY <2>3 DEF KdfRootKey
  <2>5. m.key.root = KdfRootKey(rk, dh)
    BY <2>3 DEF FirstChainKey
  <2> QED
    BY <2>1, <2>4, <2>5
<1>8. st.rk.secret \in known
  BY <1>2, <1>3, <1>6, <1>7
<1>9. \A p \in handed' : p.key.root.secret \in known
  BY <1>4, <1>6 DEF HeadInv
<1>10. HeadRest(heap', cached', pending', known)
  <2>1. heap'[cached'] = st /\ OneSecret(st) /\ pending' = None
    BY <1>2, <1>3, <1>4 DEF State
  <2> QED
    BY <1>8, <2>1 DEF HeadRest
<1>11. HeadCall(c, f, heap'[f.obj], cached', pending', known)
  <2>1. f.pc \in AtRest
    BY <1>3 DEF Ended, AtRest
  <2> QED
    BY <2>1, RestIsHead
<1>12. cached' # 0
  BY <1>2, <1>4
<1> QED
  BY <1>2, <1>4, <1>5, <1>9, <1>10, <1>11, <1>12, HeadStep

LEMMA DecryptCallHead ==
    ASSUME CallInv, PastInv, HeadInv, MaxConcurrent = 1, NEW c \in Decryption, DecryptCall(c)
    PROVE  HeadInv'
<1>1. ASSUME NEW m \in replies \ opened, StartDecrypt(c, m) PROVE HeadInv'
  BY <1>1, StartDecryptHead
<1> QED
  BY <1>1, LoadToDecryptHead, RespondX3DHHead, SkipOldMessageHead, SkipMessageHead,
     TurnRatchetHead, DeriveRootKeyHead, TurnReceivingChainHead, TurnKeyPairHead,
     TurnSendingChainHead, ReadReceivingKeyHead, SpendReceivingKeyHead, ReceivePlaintextHead,
     CatchRejectionHead, SaveReceivedHead, ReturnPlaintextHead DEF DecryptCall

LEMMA HeadInitially == CallsInit => HeadUnlessReloaded
<1> SUFFICES ASSUME CallsInit PROVE HeadInv /\ restarts = 0
  BY DEF HeadUnlessReloaded
<1>1. \A c \in Call : calls[c].pc \in AtRest
  BY DEF CallsInit, Ended, AtRest
<1>2. \A c \in Call : HeadCall(c, calls[c], heap[calls[c].obj], cached, pending,
                               Announced(handed, opened))
  BY <1>1, RestIsHead
<1>3. HeadRest(heap, cached, pending, Announced(handed, opened))
  BY DEF CallsInit, HeadRest
<1> QED
  BY <1>2, <1>3 DEF CallsInit, HeadInv

LEMMA HeadGoesOn ==
    CallInv /\ PastInv /\ HeadUnlessReloaded /\ MaxConcurrent = 1 /\ [CallsNext]_callVars
      => HeadUnlessReloaded'
<1> SUFFICES ASSUME CallInv, PastInv, HeadUnlessReloaded, MaxConcurrent = 1, [CallsNext]_callVars
             PROVE  HeadUnlessReloaded'
  OBVIOUS
<1>1. ASSUME restarts' = restarts, HeadInv => HeadInv' PROVE HeadUnlessReloaded'
  BY <1>1 DEF HeadUnlessReloaded
<1>2. CASE UNCHANGED callVars
  BY <1>1, <1>2 DEF callVars, HeadInv
<1>3. ASSUME NEW c \in Encryption, EncryptCall(c) PROVE HeadUnlessReloaded'
  <2>1. restarts' = restarts
    BY <1>3 DEF EncryptCall, StartEncrypt, LoadToEncrypt, PerformX3DH, CacheNewSession,
                SaveNewSession, ReadChainKey, AdvanceChain, CountMessage, SaveState, ReturnMessage
  <2> QED
    BY <1>1, <1>3, <2>1, EncryptCallHead
<1>4. ASSUME NEW c \in Decryption, DecryptCall(c) PROVE HeadUnlessReloaded'
  <2>1. restarts' = restarts
    BY <1>4 DEF DecryptCall, StartDecrypt, LoadToDecrypt, RespondX3DH, SkipOldMessage,
                SkipMessage, TurnRatchet, DeriveRootKey, TurnReceivingChain, TurnKeyPair,
                TurnSendingChain, ReadReceivingKey, SpendReceivingKey, ReceivePlaintext,
                CatchRejection, SaveState, ReturnPlaintext
  <2> QED
    BY <1>1, <1>4, <2>1, DecryptCallHead
<1>5. ASSUME UNCHANGED <<heap, cached, indexedDB, pending, calls, handed, opened, restarts>>
      PROVE  HeadUnlessReloaded'
  BY <1>1, <1>5 DEF HeadInv
<1>6. ASSUME NEW m \in handed, PeerReads(m) PROVE HeadUnlessReloaded'
  BY <1>5, <1>6 DEF PeerReads, memory
<1>7. CASE PeerSends
  BY <1>5, <1>7 DEF PeerSends, memory
<1>8. CASE ReloadPage
  <2>1. restarts \in Nat /\ restarts' = restarts + 1
    BY <1>8 DEF ReloadPage, HeadUnlessReloaded
  <2>2. restarts' \in Nat /\ restarts' # 0
    BY <2>1
  <2> QED
    BY <2>2 DEF HeadUnlessReloaded
<1> QED
  BY <1>2, <1>3, <1>4, <1>6, <1>7, <1>8 DEF CallsNext

LEMMA HeadIsSent == HeadUnlessReloaded => HeaderSentUnlessReloaded
<1> SUFFICES ASSUME HeadInv, NEW m \in handed
             PROVE  \/ \E first \in handed :
                          /\ first.x3dh # None
                          /\ Secret(first.x3dh, <<them, 0>>) = m.key.root.secret
                    \/ \E reply \in opened : reply.key.root.secret = m.key.root.secret
  BY DEF HeadUnlessReloaded, HeaderSentUnlessReloaded, HeaderSent
<1>1. m.key.root.secret \in Announced(handed, opened)
  BY DEF HeadInv
<1> QED
  BY <1>1 DEF Announced

(* With one call at a time, the other end can open every message            *)
(* encryptMessage returns (until the page is reloaded: a header that is     *)
(* pending then is lost), and the saved session is past its key.            *)
THEOREM SentMessagesStandHolds == MaxConcurrent = 1 => (CallsSpec => []SentMessagesStand)
<1> SUFFICES ASSUME MaxConcurrent = 1 PROVE CallsSpec => []SentMessagesStand
  OBVIOUS
<1> DEFINE Stands == CallInv /\ PastInv /\ HeadUnlessReloaded
<1>1. CallsInit => Stands
  BY CallsInitially, PastInitially, HeadInitially
<1>2. Stands /\ [CallsNext]_callVars => Stands'
  <2> SUFFICES ASSUME Stands, [CallsNext]_callVars PROVE Stands'
    OBVIOUS
  <2>1. CallInv'
    BY CallsGoOn
  <2> QED
    BY <2>1, PastGoesOn, HeadGoesOn
<1>3. Stands => SentMessagesStand
  BY PastIsSaved, HeadIsSent DEF SentMessagesStand
<1> QED
  BY <1>1, <1>2, <1>3, PTL DEF CallsSpec
=============================================================================
