--------------------------- MODULE DoubleRatchet ---------------------------
(***************************************************************************)
(* The Double Ratchet of shared/double-ratchet.ts as operators on a        *)
(* RatchetState record.                                                    *)
(*                                                                         *)
(* Key material is symbolic.  A key pair is named by its owner and a       *)
(* number; a Diffie-Hellman output is the pair of key pairs it mixes; a    *)
(* root key is the shared secret with the outputs mixed into it so far;    *)
(* a chain key is the root it was derived with and how often it has been   *)
(* advanced.  The message key kdfChainKey derives from a chain key is      *)
(* named by that chain key.  Two keys are equal exactly when the code      *)
(* derives equal bytes (no collisions).                                    *)
(*                                                                         *)
(* The code mutates the state in place and throws: an operator returns the *)
(* state as the call leaves it, also when the call throws.                 *)
(***************************************************************************)
EXTENDS Naturals, SequencesExt

CONSTANTS
    Party,      \* owners of key pairs: the two ends of a direct conversation
    MaxSkip,    \* MAX_SKIP, 256 in the code
    None        \* null

ASSUME MaxSkipAssumption == MaxSkip \in Nat

-----------------------------------------------------------------------------
(* Key material *)

KeyPair == Party \X Nat

DH(ours, theirs) == {ours, theirs}

RootKey == [secret : SUBSET KeyPair, path : Seq(SUBSET KeyPair)]

ChainKey == [root : RootKey, step : Nat]

KdfRootKey(rk, dh) == [rk EXCEPT !.path = Append(@, dh)]

FirstChainKey(rk) == [root |-> rk, step |-> 0]

KdfChainKey(ck, times) == [ck EXCEPT !.step = @ + times]

(* The ratchet state *)

SkippedKey == [dh : KeyPair \cup {None}, n : Nat, mk : ChainKey]

RatchetState ==
    [ dhs : KeyPair, dhr : KeyPair \cup {None},
      rk : RootKey, cks : ChainKey \cup {None}, ckr : ChainKey \cup {None},
      ns : Nat, nr : Nat, pn : Nat, skipped : Seq(SkippedKey) ]

ASSUME NoneAssumption == None \notin KeyPair \cup ChainKey \cup RatchetState

InitSender(secret, theirSignedPreKey, fresh) ==
    LET rk == KdfRootKey([secret |-> secret, path |-> <<>>], DH(fresh, theirSignedPreKey))
    IN  [ dhs |-> fresh, dhr |-> theirSignedPreKey, rk |-> rk,
          cks |-> FirstChainKey(rk), ckr |-> None,
          ns |-> 0, nr |-> 0, pn |-> 0, skipped |-> <<>> ]

InitReceiver(secret, ourSignedPreKey) ==
    [ dhs |-> ourSignedPreKey, dhr |-> None,
      rk |-> [secret |-> secret, path |-> <<>>], cks |-> None, ckr |-> None,
      ns |-> 0, nr |-> 0, pn |-> 0, skipped |-> <<>> ]

-----------------------------------------------------------------------------
(* Sending *)

CanEncrypt(st) == st.cks # None

Header(st) == [dh |-> st.dhs, pn |-> st.pn, n |-> st.ns]

AfterEncrypt(st) == [st EXCEPT !.cks = KdfChainKey(@, 1), !.ns = @ + 1]

-----------------------------------------------------------------------------
(* Receiving *)

(* Mutant: off by one.                                                      *)
CanSkipOneLess(st, until) == st.ckr = None \/ until < st.nr + MaxSkip

CanSkip(st, until) == st.ckr = None \/ until <= st.nr + MaxSkip

LatestKeys(keys) ==
    IF Len(keys) <= MaxSkip THEN keys
    ELSE SubSeq(keys, Len(keys) - MaxSkip + 1, Len(keys))

(* skipMessages when it does not throw: stash the keys of messages nr ..    *)
(* until-1 of the receiving chain, drop the oldest keys beyond MaxSkip.     *)
SkipMessages(st, until) ==
    IF st.ckr = None THEN st
    ELSE LET gap == IF until > st.nr THEN until - st.nr ELSE 0
             passed == [i \in 1 .. gap |->
                           [ dh |-> st.dhr, n |-> st.nr + i - 1,
                             mk |-> KdfChainKey(st.ckr, i - 1) ]]
         IN  [st EXCEPT !.skipped = LatestKeys(@ \o passed),
                        !.ckr = KdfChainKey(@, gap),
                        !.nr = @ + gap]

(* The DH ratchet step, with the new sending key pair "fresh".              *)
DHRatchet(st, theirs, fresh) ==
    LET rkr == KdfRootKey(st.rk, DH(st.dhs, theirs))
        rks == KdfRootKey(rkr, DH(fresh, theirs))
    IN  [st EXCEPT !.dhr = theirs, !.dhs = fresh, !.rk = rks,
                   !.ckr = FirstChainKey(rkr), !.nr = 0,
                   !.cks = FirstChainKey(rks), !.pn = st.ns, !.ns = 0]

(* A message as far as decryption reads it: the header's ratchet key "dh", *)
(* "pn" and "n", the chain key its message key came from, and whether the  *)
(* authentication tag travelled with it.                                   *)
Authentic(m, mk) == mk = m.key /\ m.tagged

HasDHKey(st, m) == m.dh = st.dhr

(* The skipped entry findIndex returns, 0 when there is none.               *)
SkippedIndex(st, m) ==
    SelectInSeq(st.skipped, LAMBDA sk : sk.dh = m.dh /\ sk.n = m.n)

(* Mutant: no splice.                                                       *)
OpenSkippedKeepsKey(st, m) ==
    [st |-> st, ok |-> Authentic(m, st.skipped[SkippedIndex(st, m)].mk)]

OpenSkipped(st, m) ==
    LET i == SkippedIndex(st, m)
    IN  [ st |-> [st EXCEPT !.skipped = RemoveAt(@, i)],
          ok |-> Authentic(m, st.skipped[i].mk) ]

(* The chain key is spent before AES-GCM authenticates the message.         *)
OpenInChain(st, m) ==
    [ st |-> [st EXCEPT !.ckr = KdfChainKey(@, 1), !.nr = @ + 1],
      ok |-> Authentic(m, st.ckr) ]

(* ratchetDecrypt: the state it leaves, and whether it returned a plaintext. *)
RatchetDecrypt(st, m, fresh) ==
    LET turned == IF HasDHKey(st, m) THEN st
                  ELSE DHRatchet(SkipMessages(st, m.pn), m.dh, fresh)
        ready  == SkipMessages(turned, m.n)
    IN  CASE SkippedIndex(st, m) # 0 -> OpenSkipped(st, m)
          [] SkippedIndex(st, m) = 0 /\ ~HasDHKey(st, m) /\ ~CanSkip(st, m.pn) ->
                [st |-> st, ok |-> FALSE]
          [] OTHER ->
                IF ~CanSkip(turned, m.n) THEN [st |-> turned, ok |-> FALSE]
                ELSE IF ready.ckr = None THEN [st |-> ready, ok |-> FALSE]
                ELSE OpenInChain(ready, m)
=============================================================================
