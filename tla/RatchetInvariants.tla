------------------------- MODULE RatchetInvariants -------------------------
(***************************************************************************)
(* The inductive invariants by which RatchetSessionProofs proves what      *)
(* holds of a conversation, and what they are made of.  KeyInv, under      *)
(* UniqueMessageKeys, is in RatchetSession.                                *)
(*                                                                         *)
(* KeysForgotten holds where an X3DH header always travels with its tag    *)
(* and its sender keeps the plaintext (HeadersAreKept).  ForgetInv adds    *)
(* that what a session still yields lies ahead of what its holder handled, *)
(* and that an opening offers a secret its reader has not used before.     *)
(*                                                                         *)
(* LetterInv carries the refinement of MessageChannel.                     *)
(*                                                                         *)
(* UnreadStaysReadable holds in a PlainTalk while no reader is further     *)
(* behind than a session keeps keys for (WithinSkip).  ReadInv says where  *)
(* the two sessions stand to each other (Paired): one of them holds a key  *)
(* pair the other has not met, their chains meet in their roots, and what  *)
(* is unread is ahead in the chain its reader is in, or stashed there, or  *)
(* under that key pair (Tracks).                                           *)
(*                                                                         *)
(* CallsAreAtomic, of SessionCalls, is why RatchetSession may take a call  *)
(* as one step: CallInv says for every await what the call has done by     *)
(* then, in terms of the state it began in.                                *)
(* SentMessagesStand needs two more.  PastInv says of every chain the      *)
(* device may go on with that it is past the messages handed out and hangs *)
(* on a key pair that was generated for it; HeadInv that the secret of the *)
(* session at hand is one the other end was told or knows, or that the     *)
(* header which will tell it is still pending.                             *)
(***************************************************************************)
EXTENDS RatchetSession, SessionCalls

-----------------------------------------------------------------------------
(* The sending side of a session across a decryption.                       *)

(* r sends under the chain st was sending under.                           *)
SameSendingSide(st, r) == r.cks = st.cks /\ r.dhs = st.dhs /\ r.dhr = st.dhr

(* r sends under a chain made of "fresh" and the peer's key "theirs".       *)
SendsFrom(r, theirs, fresh) ==
    /\ r.dhs = fresh
    /\ r.dhr = theirs
    /\ \E rk \in RootKey : r.cks = FirstChainKey(KdfRootKey(rk, DH(fresh, theirs)))

-----------------------------------------------------------------------------
(* Forward secrecy: what the ratchet operators forget.                      *)

(* A root derived on the way to rk.                                         *)
Earlier(root, rk) == root.secret = rk.secret /\ Len(root.path) < Len(rk.path)

(* The chains of a session are apart: it sends under its root, its          *)
(* receiving chain and skipped keys are older, the skipped keys of that     *)
(* chain are behind it, and none is kept twice.                             *)
Tidy(st) ==
    /\ st.cks # None => st.cks.root = st.rk
    /\ st.ckr # None => Earlier(st.ckr.root, st.rk)
    /\ \A i \in 1 .. Len(st.skipped) :
          /\ Earlier(st.skipped[i].mk.root, st.rk)
          /\ st.ckr # None /\ st.skipped[i].mk.root = st.ckr.root
                => st.skipped[i].mk.step < st.ckr.step
          /\ \A j \in 1 .. Len(st.skipped) : st.skipped[i].mk = st.skipped[j].mk => i = j

(* The session does not yield the key, nor will a chain it derives.         *)
Forgotten(st, key) ==
    /\ ~Yields(st, key)
    /\ key.root.secret = st.rk.secret => Len(key.root.path) <= Len(st.rk.path)

(* The session r, made from st, has nothing that st had forgotten.          *)
Forgets(st, r) ==
    /\ Tidy(r) /\ r.rk.secret = st.rk.secret
    /\ \A key \in ChainKey : Forgotten(st, key) => Forgotten(r, key)

(* skipMessages over a gap appends the keys it passes, in order, and then   *)
(* drops the oldest beyond MaxSkip.                                         *)
Appended(st, until, gap, keys) ==
    /\ gap = IF until > st.nr THEN until - st.nr ELSE 0
    /\ SkipMessages(st, until) =
          [st EXCEPT !.skipped = LatestKeys(keys), !.ckr = KdfChainKey(st.ckr, gap),
                     !.nr = st.nr + gap]
    /\ Len(keys) = Len(st.skipped) + gap
    /\ \A i \in 1 .. Len(st.skipped) : keys[i] = st.skipped[i]
    /\ \A i \in 1 .. gap : keys[Len(st.skipped) + i] =
          [dh |-> st.dhr, n |-> st.nr + i - 1, mk |-> KdfChainKey(st.ckr, i - 1)]

-----------------------------------------------------------------------------
(* Forward secrecy of the session.                                          *)

(* The calls the theorem is about.  A message with the X3DH header carries  *)
(* its tag, and its sender keeps the plaintext; messages are opened once,   *)
(* from the history; the page is not reloaded within the 300 ms in which a  *)
(* plaintext is not saved yet.  Otherwise a message may be rendered a       *)
(* second time, and a message with a header then rebuilds the session from  *)
(* the start, which yields what was read since.                             *)
HeadersAreKept ==
    /\ \A kind \in Kind : "x3dh" \in Form[kind] => {"tag", "kept"} \subseteq Form[kind]
    /\ "replyLost" \notin Outcome
    /\ Path \subseteq {"history"}
    /\ ~PromptReload

(* The messages whose keys p must not hold.                                 *)
Handled(p) == {m \in sent : m.from = p} \cup plain[p]

Openings == {m \in sent : m.x3dh # None}

(* The secret that the reader of an opening derives.                        *)
Offer(m) == X3DHSecret(m.x3dh, SignedPreKey(Peer(m.from)))

(* The reader's session begins where the sender's did.                      *)
Establishes(m) ==
    /\ m.tagged /\ m.n = 0 /\ m.x3dh[1] = m.from
    /\ m.key = FirstChainKey(KdfRootKey([secret |-> Offer(m), path |-> <<>>],
                                         DH(SignedPreKey(Peer(m.from)), m.dh)))

OpeningsInv ==
    /\ \A m \in Openings : m \in plain[m.from] /\ Establishes(m) /\ KnownIn(gen, m.x3dh)
    /\ \A m1, m2 \in Openings : m1.x3dh = m2.x3dh => m1 = m2

(* A secret p uses is no news, and the opening that offered it was read.    *)
Settled(p, secret) ==
    /\ \A k \in secret : KnownIn(gen, k)
    /\ \A m \in Openings : m.from # p /\ secret = Offer(m) => m \in plain[p]

PartyForgets(p) ==
    /\ disk[p] = None => cache[p] = None /\ Handled(p) = {}
    /\ \A st \in Stores(p) :
          /\ Tidy(st) /\ Settled(p, st.rk.secret)
          /\ \A m \in Handled(p) : Forgotten(st, m.key)
    /\ \A m \in Handled(p) : Settled(p, m.key.root.secret)

(* The inductive invariant under KeysForgotten.                             *)
ForgetInv ==
    /\ TypeOK
    /\ \A p \in Party : 0 < gen[p]
    /\ OpeningsInv
    /\ \A p \in Party : PartyForgets(p)

(* A session p may decrypt with: one it stores, or one made from an opening *)
(* that it has not read.                                                    *)
Admissible(p, m, base) ==
    /\ base \in RatchetState /\ Tidy(base)
    /\ \A n \in Handled(p) : Forgotten(base, n.key)
    /\ base.rk.secret \in SUBSET KeyPair
    /\ \A k \in base.rk.secret : KnownIn(gen, k)
    /\ \A o \in Openings : o.from # p /\ base.rk.secret = Offer(o) => o \in plain[p] \cup {m}

-----------------------------------------------------------------------------
(* The conversation implements MessageChannel.                              *)

(* The inductive invariant under the refinement: a sender's numbers go up,  *)
(* and a letter stands for one message.                                     *)
LetterInv ==
    /\ TypeOK
    /\ \A m \in sent : m.seq <= encrypted[m.from]
    /\ \A m1, m2 \in sent : m1.from = m2.from /\ m1.seq = m2.seq => m1 = m2

-----------------------------------------------------------------------------
(* Messages stay readable.  First the operators: which messages a session   *)
(* can still open.  M is what the other end has sent, U the part of it that *)
(* is unread.                                                               *)

(* The skipped key kept for m.                                              *)
Entry(m) == [dh |-> m.dh, n |-> m.n, mk |-> m.key]

Stashed(st, m) == \E i \in 1 .. Len(st.skipped) : st.skipped[i] = Entry(m)

(* No two messages have one header.                                         *)
Numbered(M) == \A m1, m2 \in M : m1.dh = m2.dh /\ m1.n = m2.n => m1 = m2

(* The messages under the ratchet key k are len many, one for each number,  *)
(* with the keys of the chain that begins at root.                          *)
Lined(M, k, root, len) ==
    /\ \A m \in M : m.dh = k => m.n < len /\ m.key = [root |-> root, step |-> m.n]
    /\ \A n \in 0 .. (len - 1) : \E m \in M : m.dh = k /\ m.n = n

(* The receiving side of st: its chain is the one of the len messages under *)
(* the other end's key st.dhr, and of those it has passed, the unread ones  *)
(* are stashed; so are messages of earlier chains, each once, and nothing   *)
(* else.                                                                    *)
Tracks(M, U, st, len) ==
    /\ IF st.ckr = None
       THEN len = 0 /\ \A m \in M : m.dh # st.dhr
       ELSE st.ckr.step = st.nr /\ st.nr <= len /\ Lined(M, st.dhr, st.ckr.root, len)
    /\ \A i \in 1 .. Len(st.skipped) :
          \E m \in U : st.skipped[i] = Entry(m) /\ (m.dh = st.dhr => m.n < st.nr)
    /\ \A i, j \in 1 .. Len(st.skipped) : st.skipped[i] = st.skipped[j] => i = j
    /\ \A m \in M : m.dh = st.dhr =>
          IF m.n < st.nr THEN m \in U => Stashed(st, m) ELSE m \in U

(* r is st after receiving within its chain: of the messages in U, those    *)
(* stashed still are, and what is new among the skipped keys is of that     *)
(* chain.                                                                   *)
Received(U, st, r) ==
    /\ r.dhs = st.dhs /\ r.dhr = st.dhr /\ r.rk = st.rk
    /\ r.cks = st.cks /\ r.ns = st.ns /\ r.pn = st.pn
    /\ IF st.ckr = None THEN r.ckr = None ELSE r.ckr # None /\ r.ckr.root = st.ckr.root
    /\ \A m \in U : Stashed(st, m) => Stashed(r, m)
    /\ \A i \in 1 .. Len(r.skipped) :
          \/ r.skipped[i].dh = st.dhr
          \/ \E j \in 1 .. Len(st.skipped) : r.skipped[i] = st.skipped[j]

(* The unread messages beside the one being opened are no more than MaxSkip. *)
Few(U) == IsFiniteSet(U) /\ Cardinality(U) <= MaxSkip + 1

(* The skipped keys fit, whatever is stashed on the way to "until".         *)
Fits(U, st, until) == Few(U) \/ (st.skipped = <<>> /\ until <= st.nr)

(* The two ends.  x holds a key pair the other end, at y, has not seen yet; *)
(* M are the messages from x's side, U those unread at y; N and V the other *)
(* way round.  Each sending chain is numbered without a gap, the two meet   *)
(* in their roots, and what is unread at either end is under a chain that   *)
(* end is in, or stashed there, or under the new key pair of x, which says  *)
(* how many messages its last chain had.                                    *)
Paired(x, M, U, y, N, V) ==
    /\ x.dhr = y.dhs /\ x.dhs # y.dhr
    /\ x.rk = KdfRootKey(y.rk, DH(x.dhs, y.dhs))
    /\ x.cks = [root |-> x.rk, step |-> x.ns]
    /\ IF y.cks = None THEN y.ns = 0 /\ x.ckr = None
       ELSE y.cks = [root |-> y.rk, step |-> y.ns] /\ x.ckr # None /\ x.ckr.root = y.rk
    /\ Lined(M, x.dhs, x.rk, x.ns)
    /\ Lined(N, y.dhs, y.rk, y.ns)
    /\ \A m \in M : m.dh = x.dhs => m.pn = x.pn /\ m \in U
    /\ Tracks(N, V, x, y.ns)
    /\ Tracks(M, U, y, x.pn)
    /\ \A m \in V : m.dh = x.dhr \/ Stashed(x, m)
    /\ \A m \in U : m.dh \in {y.dhr, x.dhs} \/ Stashed(y, m)
    /\ \A i \in 1 .. Len(y.skipped) : y.skipped[i].dh # x.dhs

(* Two ends, whichever of them holds the new key pair.                      *)
Linked(s, M, U, t, N, V) == Paired(s, M, U, t, N, V) \/ Paired(t, N, V, s, M, U)

-----------------------------------------------------------------------------
(* The conversation.                                                        *)

(* The calls the theorem is about.  One side starts; every message carries  *)
(* what it needs and is acknowledged, and its sender keeps the plaintext;   *)
(* messages are opened once, from the history; the page is not reloaded     *)
(* within the 300 ms in which a plaintext is not saved yet.                 *)
PlainTalk ==
    /\ \A p, q \in Initiator : p = q
    /\ \A kind \in Kind : Form[kind] = {"x3dh", "tag", "kept"}
    /\ Outcome \subseteq {"acknowledged"}
    /\ Path \subseteq {"history"}
    /\ ~PromptReload

(* What p has to open beside the message that makes its session.            *)
Backlog(p) == {m \in Unread(p) : m.x3dh = None}

(* No reader is behind by more than the skipped keys it can keep.           *)
WithinSkip == \A p \in Party : Cardinality(Backlog(p)) <= MaxSkip + 1

From(p) == {m \in sent : m.from = p}

(* The session p is at, or the one it will make from the opening.           *)
AtHand(p) ==
    IF disk[p] # None THEN {disk[p]}
    ELSE {RespondedSession(p, o.x3dh) : o \in Openings \cap Unread(p)}

EndsLinked ==
    \E p \in Party : \E s \in AtHand(p), t \in AtHand(Peer(p)) :
        Linked(s, From(p), Unread(Peer(p)), t, From(Peer(p)), Unread(p))

(* No failed call has left a trace, and one opening made both sessions.     *)
TalkInv ==
    /\ IsFiniteSet(sent)
    /\ \A p \in Party : cache[p] \in {None, disk[p]} /\ pushed[p] = {}
    /\ \A m \in sent : m.tagged /\ m \in plain[m.from]
    /\ \A p \in Party : Numbered(From(p))
    /\ \A o1, o2 \in Openings : o1 = o2
    /\ \A o \in Openings : o.n = 0 /\ \A p \in Party : o \in Unread(p) => disk[p] = None
    /\ \A p \in Initiator : disk[p] = None => sent = {}
    /\ sent = {} => \A p \in Party : disk[p] = None
    /\ sent # {} => Openings # {}

(* The inductive invariant under UnreadStaysReadable.                       *)
ReadInv == KeyInv /\ TalkInv /\ (sent # {} => EndsLinked)

(* The messages sent are no more than those encrypted.                      *)
CountInv ==
    /\ TypeOK
    /\ IsFiniteSet(sent)
    /\ \A p \in Party : /\ Cardinality(sent) <= encrypted[p] + encrypted[Peer(p)]
                        /\ encrypted[p] + encrypted[Peer(p)] <= MaxSend

-----------------------------------------------------------------------------
(* Calls cut at their awaits: the loop of skipMessages, iteration by        *)
(* iteration.                                                               *)

(* The keys of the first k messages of a receiving chain.                   *)
PassedKeys(base, k) ==
    [i \in 1 .. k |-> [ dh |-> base.dhr, n |-> base.nr + i - 1,
                        mk |-> KdfChainKey(base.ckr, i - 1) ]]

(* The state after k iterations.                                            *)
Passed(base, k) ==
    [base EXCEPT !.skipped = @ \o PassedKeys(base, k), !.ckr = KdfChainKey(@, k), !.nr = @ + k]

(* One more iteration, and the end of the loop.                             *)
PassOne(st) ==
    [st EXCEPT !.ckr = KdfChainKey(st.ckr, 1),
               !.skipped = Append(@, [dh |-> st.dhr, n |-> st.nr, mk |-> st.ckr]),
               !.nr = @ + 1]

Trimmed(st) == [st EXCEPT !.skipped = LatestKeys(@)]

-----------------------------------------------------------------------------
(* The phases of a call, by what it awaits.                                 *)

EncryptPC == {"idle", "loadState", "performX3DH", "initSender", "saveNew", "getOrCreateSession",
              "kdfChainKey", "aesGcmEncrypt", "saveState", "saved", "returned", "threw"}

RatchetPC == {"skipOld", "turn", "x25519DH", "kdfRootKey", "generateX25519KeyPair", "x25519DH2",
              "kdfRootKey2", "skipNew", "skipped", "kdfChainKey", "aesGcmDecrypt", "rejected"}

DecryptPC == {"idle", "loadState", "handleX3DHResponder", "saveState", "saved", "returned",
              "threw"} \cup RatchetPC

(* The call works on an object.                                             *)
WithObject ==
    {"saveNew", "getOrCreateSession", "aesGcmEncrypt", "saveState", "saved"} \cup RatchetPC

Frame ==
    [ pc : EncryptPC \cup DecryptPC, obj : Nat, ck : ChainKey \cup {None},
      dh : (SUBSET KeyPair) \cup {None}, rk : RootKey \cup {None}, msg : Envelope \cup {None},
      rebuilt : BOOLEAN, from : RatchetState \cup {None} ]

EncryptPhase(f, st) ==
    /\ f.pc \in EncryptPC
    /\ f.pc = "initSender" => f.dh \in SUBSET KeyPair
    /\ f.pc \in {"kdfChainKey", "aesGcmEncrypt", "saveState"}
          => f.from \in RatchetState /\ CanEncrypt(f.from)
    /\ f.pc \in {"aesGcmEncrypt", "saveState", "saved"} => f.msg \in Envelope
    /\ f.pc = "kdfChainKey" => st = f.from /\ f.ck = f.from.cks
    /\ f.pc = "aesGcmEncrypt" => st = [f.from EXCEPT !.cks = KdfChainKey(@, 1)]
    /\ f.pc = "saveState" => st = AfterEncrypt(f.from)

(* The state between the two chains of a DH ratchet step.                   *)
HalfTurned(st, theirs, ours) ==
    LET rkr == KdfRootKey(st.rk, DH(st.dhs, theirs))
    IN  [st EXCEPT !.dhr = theirs, !.dhs = ours, !.rk = rkr, !.ckr = FirstChainKey(rkr),
                   !.nr = 0, !.pn = st.ns, !.ns = 0]

Turned(from, m, ours) ==
    IF HasDHKey(from, m) THEN from ELSE DHRatchet(SkipMessages(from, m.pn), m.dh, ours)

(* No skipped key fits, and the old receiving chain can be finished.        *)
Proceeds(from, m) ==
    SkippedIndex(from, m) = 0 /\ (HasDHKey(from, m) \/ CanSkip(from, m.pn))

(* In the loop of skipMessages over base, with the chain key ck read.       *)
Passing(base, until, ck, st) ==
    /\ base.ckr # None /\ ck = st.ckr
    /\ \E k \in Nat : base.nr + k < until /\ st = Passed(base, k)

(* The DH ratchet step of a call that began in "from".                      *)
TurnPhase(f, st, from, m, old) ==
    /\ ~HasDHKey(from, m)
    /\ f.pc = "skipOld" => Passing(from, m.pn, f.ck, st)
    /\ f.pc = "turn" => st = old
    /\ f.pc \in {"x25519DH", "kdfRootKey"} => st = [old EXCEPT !.dhr = m.dh]
    /\ f.pc = "x25519DH" => f.dh = DH(old.dhs, m.dh)
    /\ f.pc = "kdfRootKey" => f.rk = KdfRootKey(old.rk, DH(old.dhs, m.dh))
    /\ f.pc \in {"generateX25519KeyPair", "x25519DH2", "kdfRootKey2"}
          => st = HalfTurned(old, m.dh, st.dhs)
    /\ f.pc = "x25519DH2" => f.dh = DH(st.dhs, m.dh)
    /\ f.pc = "kdfRootKey2" => f.rk = KdfRootKey(st.rk, DH(st.dhs, m.dh))

(* The receiving chain of the message, in the state "turned".               *)
ChainPhase(f, st, m, turned) ==
    /\ CanSkip(turned, m.n)
    /\ f.pc = "skipNew" => Passing(turned, m.n, f.ck, st)
    /\ f.pc \in {"skipped", "kdfChainKey"} => st = SkipMessages(turned, m.n)
    /\ f.pc = "kdfChainKey" => st.ckr # None /\ f.ck = st.ckr

TurnPC == {"skipOld", "turn", "x25519DH", "kdfRootKey", "generateX25519KeyPair", "x25519DH2",
           "kdfRootKey2"}

ChainPC == {"skipNew", "skipped", "kdfChainKey"}

RatchetPhase(f, st) ==
    LET from == f.from
        m == f.msg
        whole == RatchetDecrypt(from, m, st.dhs)
    IN  /\ from \in RatchetState
        /\ f.pc \in TurnPC \cup ChainPC => Proceeds(from, m)
        /\ f.pc \in TurnPC => TurnPhase(f, st, from, m, SkipMessages(from, m.pn))
        /\ f.pc \in ChainPC => ChainPhase(f, st, m, Turned(from, m, st.dhs))
        /\ f.pc = "aesGcmDecrypt" => st = whole.st /\ whole.ok
        /\ f.pc = "rejected" => st = whole.st /\ ~whole.ok

DecryptPhase(f, st) ==
    /\ f.pc \in DecryptPC
    /\ f.pc \notin {"idle", "returned", "threw"} => f.msg \in Envelope
    /\ f.pc = "handleX3DHResponder" => f.msg.x3dh # None
    /\ f.pc \in RatchetPC => RatchetPhase(f, st)

(* A segment goes on with the call's message and object.                    *)
Continues(f, segment) ==
    /\ segment.frame \in Frame /\ segment.st \in RatchetState
    /\ segment.frame.obj = f.obj /\ segment.frame.msg = f.msg
    /\ segment.frame.from \in RatchetState /\ segment.frame.pc \in RatchetPC

(* How a segment in the loop over base ends: in the loop, or past it.       *)
Skips(f, segment, base, until, loop, next) ==
    /\ Continues(f, segment) /\ segment.frame.from = f.from
    /\ \/ segment.frame.pc = loop /\ Passing(base, until, segment.frame.ck, segment.st)
       \/ segment.frame.pc = next /\ segment.st = SkipMessages(base, until)

(* What is left of ratchetDecrypt once it has no skipped key to try.        *)
InReceivingChain(turned, ready, m) ==
    IF ~CanSkip(turned, m.n) THEN [st |-> turned, ok |-> FALSE]
    ELSE IF ready.ckr = None THEN [st |-> ready, ok |-> FALSE]
    ELSE OpenInChain(ready, m)

(* The fields of a state in the middle of the turn.                         *)
HalfTurnedWith(old, theirs, ours, rk, ck) ==
    [old EXCEPT !.dhr = theirs, !.dhs = ours, !.rk = rk, !.ckr = ck, !.nr = 0, !.pn = old.ns,
                !.ns = 0]

-----------------------------------------------------------------------------
(* One call at a time: the invariant.                                       *)

AtRest == {"idle", "returned", "threw"}

MemoryType ==
    /\ heap \in Seq(RatchetState) /\ cached \in 0 .. Len(heap)
    /\ indexedDB \in RatchetState \cup {None} /\ pending \in KeyPair \cup {None}
    /\ minted \in [Party -> Nat] /\ handed \in SUBSET Envelope
    /\ peer \in RatchetState \cup {None}
    /\ replies \in SUBSET Envelope /\ IsFiniteSet(replies)

OneCall == \A b, c \in Running : b = c

(* What a call at its await knows of the object it works on.                *)
CallPhase(c, f, objects) ==
    /\ f.pc \in WithObject => f.obj \in 1 .. Len(objects)
    /\ c \in Encryption => EncryptPhase(f, objects[f.obj])
    /\ c \in Decryption => DecryptPhase(f, objects[f.obj])

CallInv ==
    /\ MemoryType
    /\ calls \in [Call -> Frame]
    /\ OneCall
    /\ \A c \in Call : CallPhase(c, calls[c], heap)

-----------------------------------------------------------------------------
(* What was handed out stays behind: the sending chains a device can come   *)
(* back to are past the keys of the messages handed out.                    *)

SecondDH == {"x25519DH2", "kdfRootKey2"}

FirstPC == RatchetPC \ SecondDH

SendsPast(g, posted, st) ==
    st.cks # None =>
        /\ KnownRootIn(g, st.cks.root)
        /\ \A m \in posted : m.key.root = st.cks.root => m.key.step < st.cks.step

(* No message is under a chain that starts with key pair k.                 *)
Unused(posted, k) == \A m \in posted : k \notin m.key.root.path[Len(m.key.root.path)]

(* A reply with an X3DH header is the first of its session.                 *)
Opens(r) ==
    r.x3dh # None =>
        /\ r.n = 0 /\ r.tagged
        /\ r.key = FirstChainKey(KdfRootKey([secret |-> Secret(r.x3dh, <<us, 0>>), path |-> <<>>],
                                            DH(<<us, 0>>, r.dh)))

(* What a call at its await adds: the message it made is behind its object, *)
(* and the object is saved before the message is returned; the sending      *)
(* chain of a DH ratchet step starts with a key pair no message is under.   *)
PastCall(c, f, st, g, posted, db, got) ==
    /\ f.pc \in WithObject => SendsPast(g, posted, st)
    /\ c \in Encryption =>
          /\ f.pc \in {"aesGcmEncrypt", "saveState", "saved"} =>
                st.cks # None /\ f.msg.key.root = st.cks.root /\ f.msg.key.step < st.cks.step
          /\ f.pc = "saved" => db = st
    /\ c \in Decryption =>
          /\ f.pc \notin AtRest => f.msg \in got
          /\ f.pc \in SecondDH => KnownIn(g, st.dhs) /\ Unused(posted, st.dhs)

PastInv ==
    /\ \A p \in Party : 0 < minted[p]
    /\ \A m \in handed : KnownRootIn(minted, m.key.root)
    /\ \A m \in replies : KnownIn(minted, m.dh) /\ Opens(m)
    /\ peer # None => KnownIn(minted, peer.dhs)
    /\ indexedDB # None => SendsPast(minted, handed, indexedDB)
    /\ cached # 0 => SendsPast(minted, handed, heap[cached])
    /\ \A c \in Call :
          PastCall(c, calls[c], heap[calls[c].obj], minted, handed, indexedDB, replies)

(* A segment of ratchetDecrypt other than the turn of the sending chain     *)
(* leaves the sending chain and the root key.                               *)
Keeps(f, st, segment) ==
    /\ segment.st.cks = st.cks /\ segment.st.rk = st.rk
    /\ segment.frame.obj = f.obj /\ segment.frame.msg = f.msg
    /\ segment.frame.from = f.from /\ segment.frame.pc \in FirstPC

-----------------------------------------------------------------------------
(* The X3DH header is sent: while the page is not reloaded, the secret of   *)
(* the session at hand is one the other end can know.                       *)

(* The secrets of the sessions the other end was told of or began.          *)
Announced(posted, got) ==
    {Secret(m.x3dh, <<them, 0>>) : m \in {p \in posted : p.x3dh # None}}
      \cup {m.key.root.secret : m \in got}

OneSecret(st) == st.cks # None => st.cks.root.secret = st.rk.secret

(* The next message carries the header of a session nobody was told of.     *)
Promised(st, ephemeral, known) ==
    \/ ephemeral = None /\ st.rk.secret \in known
    \/ /\ ephemeral # None /\ st.cks # None
       /\ st.rk.secret = Secret(ephemeral, <<them, 0>>)

(* The session was made from the message's header.                          *)
MadeFor(f, st) ==
    /\ f.msg.x3dh # None
    /\ f.from = InitReceiver(Secret(f.msg.x3dh, <<us, 0>>), <<us, 0>>)
    /\ st.rk.secret = Secret(f.msg.x3dh, <<us, 0>>)

HeadCall(c, f, st, at, ephemeral, known) ==
    /\ f.pc \in WithObject => f.obj = at /\ OneSecret(st)
    /\ c \in Encryption =>
          /\ f.pc \in {"loadState", "performX3DH"} => at = 0 /\ ephemeral = None
          /\ f.pc = "initSender" =>
                at = 0 /\ ephemeral # None /\ f.dh = Secret(ephemeral, <<them, 0>>)
          /\ f.pc \in WithObject => Promised(st, ephemeral, known)
          /\ f.pc \in {"aesGcmEncrypt", "saveState", "saved"} =>
                f.msg.key.root.secret = st.rk.secret
    /\ c \in Decryption =>
          /\ f.pc \notin AtRest => ephemeral = None
          /\ f.pc = "loadState" => at = 0
          /\ f.pc \in WithObject => st.rk.secret \in known \/ MadeFor(f, st)

(* Between calls, and when a message is tried once more.                    *)
Between == AtRest \cup {"handleX3DHResponder"}

HeadRest(objects, at, ephemeral, known) ==
    /\ ephemeral = None
    /\ at # 0 => OneSecret(objects[at]) /\ objects[at].rk.secret \in known

HeadInv ==
    /\ \A m \in handed : m.key.root.secret \in Announced(handed, opened)
    /\ cached = 0 => indexedDB = None
    /\ (\A c \in Call : calls[c].pc \in Between)
          => HeadRest(heap, cached, pending, Announced(handed, opened))
    /\ \A c \in Call : HeadCall(c, calls[c], heap[calls[c].obj], cached, pending,
                                Announced(handed, opened))

(* Until the page is reloaded.                                              *)
HeadUnlessReloaded == restarts \in Nat /\ (restarts = 0 => HeadInv)

=============================================================================
