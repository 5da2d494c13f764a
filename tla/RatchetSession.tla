--------------------------- MODULE RatchetSession ---------------------------
(***************************************************************************)
(* A direct conversation between two web clients: the Double Ratchet       *)
(* sessions of web/src/crypto/session-manager.ts, and the calls            *)
(* web/src/chat/chat.ts and web/src/features.ts make to it when a message  *)
(* is sent, arrives on the conversation's WebSocket, or is rendered from   *)
(* the history the server keeps.                                           *)
(*                                                                         *)
(* Calls are atomic here; module SessionCalls splits them at their awaits. *)
(* The pre-key bundle is the one published at registration and carries no  *)
(* one-time pre-key; module PreKeyExchange models what bundles become.     *)
(***************************************************************************)
EXTENDS DoubleRatchet

CONSTANTS
    Initiator,   \* parties that may send before they hold a session
    Kind,        \* kinds of message the users send
    Outcome,     \* outcomes of POST /messages that happen
    Path,        \* where messages are decrypted: "history", "socket"
    PromptReload,\* may a reload outrun the 300 ms timer of savePlaintextCache?
    MaxSend,     \* bound: messages encrypted by the two parties
    MaxReload,   \* bound: page reloads
    MaxFailure   \* bound: failed decryptions that left a trace in a session

(* What the call sites put into a message: "x3dh", the X3DH header goes     *)
(* into ratchet_header; "tag", so does the authentication tag; "kept", the  *)
(* sender caches its own plaintext under the id the server returns.         *)
Form ==
    [ text    |-> {"x3dh", "tag", "kept"},
      note    |-> {"x3dh", "kept"},
      gif     |-> {"x3dh"},
      file    |-> {"tag"},
      forward |-> {"x3dh", "tag"} ]

Outcomes == {"acknowledged", "replyLost", "requestFails"}

ASSUME SessionAssumption ==
    /\ Initiator \subseteq Party
    /\ Kind \subseteq DOMAIN Form
    /\ Outcome \subseteq Outcomes
    /\ Path \subseteq {"history", "socket"}
    /\ PromptReload \in BOOLEAN
    /\ {MaxSend, MaxReload, MaxFailure} \subseteq Nat
    /\ \E p, q \in Party : p # q /\ Party = {p, q}

VARIABLES
    cache,       \* sessionCache: the session in memory, None when absent
    disk,        \* the session in IndexedDB, None when absent
    gen,         \* key pairs generated so far; 0 numbers the signed pre-key
    encrypted,   \* messages encrypted so far
    sent,        \* messages the server stores
    plain,       \* plaintextCache
    plainSaved,  \* plaintextCache as persisted
    pushed,      \* messages the WebSocket handler has processed
    reloads,     \* page reloads so far
    failures     \* failed decryptions that left a trace in a session

session == <<cache, disk, gen>>
bounds == <<reloads, failures>>
vars == <<cache, disk, gen, encrypted, sent, plain, plainSaved, pushed, reloads, failures>>

Message ==
    [ from : Party, seq : Nat, x3dh : KeyPair \cup {None}, tagged : BOOLEAN,
      dh : KeyPair, pn : Nat, n : Nat, key : ChainKey ]

Peer(p) == CHOOSE q \in Party : q # p

SignedPreKey(p) == <<p, 0>>

NewKey(p, i) == <<p, gen[p] + i>>

Stored(p) == IF cache[p] # None THEN cache[p] ELSE disk[p]

Init ==
    /\ cache = [p \in Party |-> None]
    /\ disk = [p \in Party |-> None]
    /\ gen = [p \in Party |-> 1]
    /\ encrypted = [p \in Party |-> 0]
    /\ sent = {}
    /\ plain = [p \in Party |-> {}]
    /\ plainSaved = [p \in Party |-> {}]
    /\ pushed = [p \in Party |-> {}]
    /\ reloads = 0
    /\ failures = 0

-----------------------------------------------------------------------------
(* X3DH.  Both sides mix the initiator's ephemeral key with the            *)
(* responder's signed pre-key; the identity keys are fixed.                *)
X3DHSecret(ephemeral, signedPreKey) == DH(ephemeral, signedPreKey)

(* performX3DH by p: ephemeral key first, then the first ratchet key.       *)
InitiatedSession(p) ==
    InitSender(X3DHSecret(NewKey(p, 0), SignedPreKey(Peer(p))),
               SignedPreKey(Peer(p)), NewKey(p, 1))

(* handleX3DHResponder by p.                                                *)
RespondedSession(p, ephemeral) ==
    InitReceiver(X3DHSecret(ephemeral, SignedPreKey(p)), SignedPreKey(p))

-----------------------------------------------------------------------------
(* Sending *)

SaveSession(p, st) ==
    /\ cache' = [cache EXCEPT ![p] = st]
    /\ disk' = [disk EXCEPT ![p] = st]

NewMessage(p, kind, st, ephemeral) ==
    [ from |-> p, seq |-> encrypted[p] + 1,
      x3dh |-> IF "x3dh" \in Form[kind] THEN ephemeral ELSE None,
      tagged |-> "tag" \in Form[kind],
      dh |-> Header(st).dh, pn |-> Header(st).pn, n |-> Header(st).n,
      key |-> st.cks ]

(* POST /messages, and cachePlaintext once the server answered with an id.  *)
Post(p, kind, outcome, m) ==
    /\ encrypted' = [encrypted EXCEPT ![p] = @ + 1]
    /\ sent' = IF outcome = "requestFails" THEN sent ELSE sent \cup {m}
    /\ plain' = IF outcome = "acknowledged" /\ "kept" \in Form[kind]
                THEN [plain EXCEPT ![p] = @ \cup {m}]
                ELSE plain
    /\ UNCHANGED <<plainSaved, pushed, bounds>>

(* Mutant: the session is saved before the message is encrypted.            *)
SendInSessionSavesEarly(p, kind, outcome) ==
    /\ encrypted[p] + encrypted[Peer(p)] < MaxSend
    /\ Stored(p) # None
    /\ CanEncrypt(Stored(p))
    /\ cache' = [cache EXCEPT ![p] = AfterEncrypt(Stored(p))]
    /\ disk' = [disk EXCEPT ![p] = Stored(p)]
    /\ gen' = gen
    /\ Post(p, kind, outcome, NewMessage(p, kind, Stored(p), None))

(* A message under the session at hand, from memory or IndexedDB.           *)
SendInSession(p, kind, outcome) ==
    /\ encrypted[p] + encrypted[Peer(p)] < MaxSend
    /\ Stored(p) # None
    /\ CanEncrypt(Stored(p))
    /\ SaveSession(p, AfterEncrypt(Stored(p)))
    /\ gen' = gen
    /\ Post(p, kind, outcome, NewMessage(p, kind, Stored(p), None))

(* The first message of a conversation: X3DH, then encryption; the pending  *)
(* X3DH header is handed to the caller and forgotten.                       *)
SendFirst(p, kind, outcome) ==
    /\ encrypted[p] + encrypted[Peer(p)] < MaxSend
    /\ p \in Initiator
    /\ Stored(p) = None
    /\ SaveSession(p, AfterEncrypt(InitiatedSession(p)))
    /\ gen' = [gen EXCEPT ![p] = @ + 2]
    /\ Post(p, kind, outcome,
            NewMessage(p, kind, InitiatedSession(p), NewKey(p, 0)))

EncryptMessage(p, kind, outcome) ==
    \/ SendInSession(p, kind, outcome)
    \/ SendFirst(p, kind, outcome)

-----------------------------------------------------------------------------
(* Receiving *)

(* decryptMessage throws at once without a session and without a header.    *)
CanStart(p, m) == Stored(p) # None \/ m.x3dh # None

Attempt(p, m) ==
    RatchetDecrypt(IF Stored(p) # None THEN Stored(p) ELSE RespondedSession(p, m.x3dh),
                   m, NewKey(p, 0))

(* The second try, on a receiver rebuilt from the message's X3DH header.    *)
Rebuilt(p, m) == RatchetDecrypt(RespondedSession(p, m.x3dh), m, NewKey(p, 1))

CanOpen(p, m) ==
    /\ CanStart(p, m)
    /\ Attempt(p, m).ok \/ (m.x3dh # None /\ Rebuilt(p, m).ok)

(* The key pairs the first try generated: one if it took a DH ratchet step. *)
Generated(p, m) == IF Attempt(p, m).st.dhs = NewKey(p, 0) THEN 1 ELSE 0

DecryptOpens(p, m) ==
    /\ CanStart(p, m)
    /\ Attempt(p, m).ok
    /\ SaveSession(p, Attempt(p, m).st)
    /\ gen' = [gen EXCEPT ![p] = @ + Generated(p, m)]

RebuildOpens(p, m) ==
    /\ CanStart(p, m)
    /\ ~Attempt(p, m).ok
    /\ m.x3dh # None
    /\ Rebuilt(p, m).ok
    /\ SaveSession(p, Rebuilt(p, m).st)
    /\ gen' = [gen EXCEPT ![p] = @ + 2]

(* The session in memory keeps what the failed call did to it; nothing is   *)
(* saved.                                                                   *)
DecryptFails(p, m) ==
    /\ cache[p] # None
    /\ ~Attempt(p, m).ok
    /\ m.x3dh = None
    /\ cache' = [cache EXCEPT ![p] = Attempt(p, m).st]
    /\ gen' = [gen EXCEPT ![p] = @ + Generated(p, m)]
    /\ disk' = disk

RebuildFails(p, m) ==
    /\ CanStart(p, m)
    /\ ~Attempt(p, m).ok
    /\ m.x3dh # None
    /\ ~Rebuilt(p, m).ok
    /\ cache' = [cache EXCEPT ![p] = Rebuilt(p, m).st]
    /\ gen' = [gen EXCEPT ![p] = @ + 2]
    /\ disk' = disk

(* No session and no header, or a session loaded from IndexedDB and dropped *)
(* with the call.                                                           *)
FailsUntraced(p, m) ==
    /\ cache[p] = None
    /\ m.x3dh = None
    /\ disk[p] = None \/ ~Attempt(p, m).ok
    /\ UNCHANGED session

DecryptSucceeds(p, m) ==
    /\ DecryptOpens(p, m) \/ RebuildOpens(p, m)
    /\ failures' = failures

DecryptThrows(p, m) ==
    \/ /\ failures < MaxFailure
       /\ DecryptFails(p, m) \/ RebuildFails(p, m)
       /\ failures' = failures + 1
    \/ /\ FailsUntraced(p, m)
       /\ failures' = failures

(* renderMessages on the server's history: every message, one's own         *)
(* included, that plaintextCache does not have.                             *)
RenderMessage(p, m) ==
    /\ "history" \in Path
    /\ m \in sent \ plain[p]
    /\ \/ /\ DecryptSucceeds(p, m)
          /\ plain' = [plain EXCEPT ![p] = @ \cup {m}]
       \/ /\ DecryptThrows(p, m)
          /\ plain' = plain
    /\ UNCHANGED <<encrypted, sent, plainSaved, pushed, reloads>>

(* The WebSocket handler, once for each message of the peer, in any order;  *)
(* it neither consults nor fills plaintextCache.                            *)
SocketMessage(p, m) ==
    /\ "socket" \in Path
    /\ m \in sent \ pushed[p]
    /\ m.from # p
    /\ DecryptSucceeds(p, m) \/ DecryptThrows(p, m)
    /\ pushed' = [pushed EXCEPT ![p] = @ \cup {m}]
    /\ UNCHANGED <<encrypted, sent, plain, plainSaved, reloads>>

(* The 300 ms timer of savePlaintextCache fires.                            *)
SavePlaintextCache(p) ==
    /\ plainSaved[p] # plain[p]
    /\ plainSaved' = [plainSaved EXCEPT ![p] = plain[p]]
    /\ UNCHANGED <<session, encrypted, sent, plain, pushed, bounds>>

(* Mutant: the plaintext cache is not hydrated.                             *)
ReloadForgetsPlaintext(p) ==
    /\ reloads < MaxReload
    /\ PromptReload \/ plainSaved[p] = plain[p]
    /\ cache' = [cache EXCEPT ![p] = None]
    /\ plain' = [plain EXCEPT ![p] = {}]
    /\ reloads' = reloads + 1
    /\ UNCHANGED <<disk, gen, encrypted, sent, plainSaved, pushed, failures>>

(* The page is reloaded, or the browser restarted.                          *)
Reload(p) ==
    /\ reloads < MaxReload
    /\ PromptReload \/ plainSaved[p] = plain[p]
    /\ cache' = [cache EXCEPT ![p] = None]
    /\ plain' = [plain EXCEPT ![p] = plainSaved[p]]
    /\ reloads' = reloads + 1
    /\ UNCHANGED <<disk, gen, encrypted, sent, plainSaved, pushed, failures>>

Next ==
    \E p \in Party :
        \/ \E kind \in Kind, outcome \in Outcome : EncryptMessage(p, kind, outcome)
        \/ \E m \in sent : RenderMessage(p, m) \/ SocketMessage(p, m)
        \/ SavePlaintextCache(p)
        \/ Reload(p)

(* Opening the conversation renders every message it has no plaintext of.   *)
RenderSent(p, q, i) == \E m \in sent : m.from = q /\ m.seq = i /\ RenderMessage(p, m)

Spec == Init /\ [][Next]_vars

FairSpec ==
    /\ Spec
    /\ \A p, q \in Party, i \in 1 .. MaxSend : WF_vars(RenderSent(p, q, i))

-----------------------------------------------------------------------------
Stores(p) == {cache[p], disk[p]} \ {None}

TypeOK ==
    /\ cache \in [Party -> RatchetState \cup {None}]
    /\ disk \in [Party -> RatchetState \cup {None}]
    /\ gen \in [Party -> Nat]
    /\ encrypted \in [Party -> Nat]
    /\ sent \in SUBSET Message
    /\ plain \in [Party -> SUBSET sent]
    /\ plainSaved \in [Party -> SUBSET sent]
    /\ pushed \in [Party -> SUBSET sent]
    /\ reloads \in Nat
    /\ failures \in Nat

(* "Each message uses a unique encryption key" (double-ratchet.ts:5): no    *)
(* two messages are encrypted under one key, whoever sends them and         *)
(* whatever failed decryptions, rebuilt sessions and reloads came between.  *)
UniqueMessageKeys ==
    \A m1, m2 \in sent : m1.key = m2.key => m1 = m2

(* Why keys stay unique.  k is among the key pairs that g counts.           *)
KnownIn(g, k) == k[2] < g[k[1]]

(* The key pairs that make a chain a new one, those of its root's last DH.  *)
KnownRootIn(g, root) ==
    root.path # <<>> /\ \A k \in root.path[Len(root.path)] : KnownIn(g, k)

(* A session p may hold: its sending chain is past every message that was   *)
(* sent under it, all of them by p, and no other party sends under it.      *)
SoundSession(g, p, st) ==
    /\ KnownIn(g, st.dhs)
    /\ st.cks # None =>
          /\ KnownRootIn(g, st.cks.root)
          /\ \A m \in sent : m.key.root = st.cks.root =>
                                m.from = p /\ m.key.step < st.cks.step
          /\ \A q \in Party \ {p} : \A other \in Stores(q) :
                other.cks # None => other.cks.root # st.cks.root

(* The inductive invariant under UniqueMessageKeys.                         *)
KeyInv ==
    /\ TypeOK
    /\ \A p \in Party : 0 < gen[p]
    /\ \A p \in Party : \A st \in Stores(p) : SoundSession(gen, p, st)
    /\ \A m \in sent : KnownIn(gen, m.dh) /\ KnownRootIn(gen, m.key.root)
    /\ UniqueMessageKeys

(* What a session lets its holder derive without another message.           *)
Yields(st, key) ==
    \/ \E ck \in {st.cks, st.ckr} \ {None} : ck.root = key.root /\ ck.step <= key.step
    \/ \E i \in 1 .. Len(st.skipped) : st.skipped[i].mk = key

(* Forward secrecy: neither copy of a session still yields the key of a     *)
(* message its holder sent or has read (ratchetEncrypt, ratchetDecrypt).    *)
KeysForgotten ==
    \A p \in Party : \A m \in {n \in sent : n.from = p} \cup plain[p] :
        \A st \in Stores(p) : ~Yields(st, m.key)

(* Neither opened from the history nor handled by the socket.               *)
Unread(p) == {m \in sent \ (plain[p] \cup pushed[p]) : m.from # p}

(* No message is lost to its reader: whatever was opened, in whatever       *)
(* order, each unread message can be opened now, or the one that            *)
(* establishes the session can.                                             *)
UnreadStaysReadable ==
    \A p \in Party : \A m \in Unread(p) :
        \/ CanOpen(p, m)
        \/ Stored(p) = None /\ \E b \in Unread(p) : CanOpen(p, b)

-----------------------------------------------------------------------------
(* The conversation implements MessageChannel: a message is read once its   *)
(* plaintext is in the reader's cache.                                      *)
Letters(messages) == {[from |-> m.from, seq |-> m.seq] : m \in messages}

Channel == INSTANCE MessageChannel WITH
    Number <- 1 .. MaxSend,
    posted <- Letters(sent),
    read <- [p \in Party |-> Letters({m \in plain[p] : m.from # p})]

DeliversMessages == Channel!Spec /\ Channel!EventuallyRead
=============================================================================
