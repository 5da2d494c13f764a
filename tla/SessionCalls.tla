---------------------------- MODULE SessionCalls ----------------------------
(***************************************************************************)
(* encryptMessage and decryptMessage of web/src/crypto/session-manager.ts  *)
(* on one device, cut at their awaits.  A call runs from one await to the  *)
(* next without interruption; between them other calls run, and the page   *)
(* may be reloaded.  The pc of a call names what it awaits.                *)
(*                                                                         *)
(* The calls share RatchetState objects, which are mutated in place: heap  *)
(* holds the objects made since the page was loaded, and calls and         *)
(* sessionCache refer to them by address.  IndexedDB holds a copy.         *)
(* The other end of the conversation, "them", is a device whose calls are  *)
(* atomic: the ratchet of module DoubleRatchet itself.                     *)
(***************************************************************************)
EXTENDS DoubleRatchet, FiniteSets

CONSTANTS
    us, them,       \* the two ends of the conversation
    Encryption,     \* calls of encryptMessage, numbered past the replies
    Decryption,     \* calls of decryptMessage, likewise
    MaxConcurrent,  \* bound: calls in progress at a time
    MaxRestart,     \* bound: page restarts
    MaxReply,       \* bound: messages of the other end
    PeerStarts      \* may the other end send first?

Call == Encryption \cup Decryption

ASSUME CallsAssumption ==
    /\ us # them /\ Party = {us, them}
    /\ Encryption \cap Decryption = {}
    /\ Call \subseteq {n \in Nat : n > MaxReply}
    /\ {MaxConcurrent, MaxRestart, MaxReply} \subseteq Nat
    /\ PeerStarts \in BOOLEAN

VARIABLES
    heap,      \* the RatchetState objects, by address
    cached,    \* sessionCache: an address, 0 when absent
    indexedDB, \* the session in IndexedDB, None when absent
    pending,   \* pendingX3DHHeaders: an ephemeral key, None when absent
    minted,    \* key pairs generated so far, by either end
    calls,     \* the calls
    handed,    \* messages encryptMessage has returned
    opened,    \* messages decryptMessage has returned the plaintext of
    peer,      \* the other end's session
    read,      \* messages the other end has opened
    replies,   \* messages of the other end
    restarts   \* page restarts so far

memory == <<heap, cached, pending>>
far == <<peer, read, replies>>
callVars == <<heap, cached, indexedDB, pending, minted, calls, handed, opened, peer, read, replies, restarts>>

Envelope ==
    [ by : Call \cup Nat, x3dh : KeyPair \cup {None}, tagged : BOOLEAN,
      dh : KeyPair, pn : Nat, n : Nat, key : ChainKey ]

(* A call's locals: the object it works on, what it read or derived before  *)
(* the await it is at, its message, and whether it rebuilt the session;     *)
(* "from" is the state in which the ratchet took up the call (history).     *)
Ended(pc) == [ pc |-> pc, obj |-> 0, ck |-> None, dh |-> None, rk |-> None,
               msg |-> None, rebuilt |-> FALSE, from |-> None ]

Running == {c \in Call : calls[c].pc \notin {"idle", "returned", "threw"}}

Secret(ephemeral, signedPreKey) == DH(ephemeral, signedPreKey)

FreshKey(p) == <<p, minted[p]>>

CallsInit ==
    /\ heap = <<>>
    /\ cached = 0
    /\ indexedDB = None
    /\ pending = None
    /\ minted = [p \in Party |-> 1]
    /\ calls = [c \in Call |-> Ended("idle")]
    /\ handed = {}
    /\ opened = {}
    /\ peer = None
    /\ read = {}
    /\ replies = {}
    /\ restarts = 0

-----------------------------------------------------------------------------
(* Steps of a call *)

State(c) == heap[calls[c].obj]

IsAt(c, pc) == calls[c].pc = pc

(* The call goes on to its next await with the locals of frame.             *)
Become(c, frame) == calls' = [calls EXCEPT ![c] = frame]

Await(c, pc) == Become(c, [calls[c] EXCEPT !.pc = pc])

Mutate(c, st) == heap' = [heap EXCEPT ![calls[c].obj] = st]

(* A new object, which the call works on and sessionCache refers to.        *)
Cache(c, st, pc) ==
    /\ heap' = Append(heap, st)
    /\ cached' = Len(heap) + 1
    /\ Become(c, [calls[c] EXCEPT !.pc = pc, !.obj = Len(heap) + 1])

-----------------------------------------------------------------------------
(* Calls begin in the order of their numbers. *)
Begins(c, kind) == IsAt(c, "idle") /\ \A b \in kind : b < c => ~IsAt(b, "idle")

(* encryptMessage *)

StartEncrypt(c) ==
    /\ Begins(c, Encryption)
    /\ Cardinality(Running) < MaxConcurrent
    /\ Become(c, [calls[c] EXCEPT !.pc = IF cached # 0 THEN "getOrCreateSession" ELSE "loadState",
                                 !.obj = cached])
    /\ UNCHANGED <<memory, indexedDB, minted, handed, opened, far, restarts>>

(* A session in IndexedDB becomes a new object, whatever is cached by now.  *)
LoadToEncrypt(c) ==
    /\ IsAt(c, "loadState")
    /\ \/ indexedDB # None /\ Cache(c, indexedDB, "getOrCreateSession")
       \/ indexedDB = None /\ Await(c, "performX3DH") /\ UNCHANGED <<heap, cached>>
    /\ UNCHANGED <<indexedDB, pending, minted, handed, opened, far, restarts>>

(* The bundle has come and x3dhInitiate made an ephemeral key.              *)
PerformX3DH(c) ==
    /\ IsAt(c, "performX3DH")
    /\ pending' = FreshKey(us)
    /\ minted' = [minted EXCEPT ![us] = @ + 1]
    /\ Become(c, [calls[c] EXCEPT !.pc = "initSender",
                                 !.dh = Secret(FreshKey(us), <<them, 0>>)])
    /\ UNCHANGED <<heap, cached, indexedDB, handed, opened, far, restarts>>

CacheNewSession(c) ==
    /\ IsAt(c, "initSender")
    /\ Cache(c, InitSender(calls[c].dh, <<them, 0>>, FreshKey(us)), "saveNew")
    /\ minted' = [minted EXCEPT ![us] = @ + 1]
    /\ UNCHANGED <<indexedDB, pending, handed, opened, far, restarts>>

SaveNewSession(c) ==
    /\ IsAt(c, "saveNew")
    /\ indexedDB' = State(c)
    /\ Await(c, "getOrCreateSession")
    /\ UNCHANGED <<memory, minted, handed, opened, far, restarts>>

(* ratchetEncrypt reads the chain key ...                                   *)
ReadChainKey(c) ==
    /\ IsAt(c, "getOrCreateSession")
    /\ IF CanEncrypt(State(c))
       THEN Become(c, [calls[c] EXCEPT !.pc = "kdfChainKey", !.ck = State(c).cks,
                                      !.from = State(c)])
       ELSE Become(c, Ended("threw"))
    /\ UNCHANGED <<memory, indexedDB, minted, handed, opened, far, restarts>>

(* ... and after the await writes the next one and makes the header.        *)
AdvanceChain(c) ==
    /\ c \in Encryption
    /\ IsAt(c, "kdfChainKey")
    /\ Mutate(c, [State(c) EXCEPT !.cks = KdfChainKey(calls[c].ck, 1)])
    /\ Become(c, [calls[c] EXCEPT
                    !.pc = "aesGcmEncrypt",
                    !.msg = [ by |-> c, x3dh |-> None, tagged |-> TRUE,
                              dh |-> Header(State(c)).dh, pn |-> Header(State(c)).pn,
                              n |-> Header(State(c)).n, key |-> calls[c].ck ]])
    /\ UNCHANGED <<cached, indexedDB, pending, minted, handed, opened, far, restarts>>

CountMessage(c) ==
    /\ IsAt(c, "aesGcmEncrypt")
    /\ Mutate(c, [State(c) EXCEPT !.ns = @ + 1])
    /\ Await(c, "saveState")
    /\ UNCHANGED <<cached, indexedDB, pending, minted, handed, opened, far, restarts>>

(* Mutant: the session is kept in memory only.                              *)
SaveStateInMemory(c) ==
    /\ IsAt(c, "saveState")
    /\ Await(c, "saved")
    /\ UNCHANGED <<memory, indexedDB, minted, handed, opened, far, restarts>>

(* saveState, also the last await but one of decryptMessage.                *)
SaveState(c) ==
    /\ IsAt(c, "saveState")
    /\ indexedDB' = State(c)
    /\ Await(c, "saved")
    /\ UNCHANGED <<memory, minted, handed, opened, far, restarts>>

(* Mutant: the pending header is dropped.                                   *)
ReturnMessageBare(c) ==
    /\ c \in Encryption
    /\ IsAt(c, "saved")
    /\ cached' = calls[c].obj
    /\ handed' = handed \cup {calls[c].msg}
    /\ pending' = None
    /\ Become(c, Ended("returned"))
    /\ UNCHANGED <<heap, indexedDB, minted, opened, far, restarts>>

(* The caller gets the message, with the pending X3DH header if there is    *)
(* one.                                                                     *)
ReturnMessage(c) ==
    /\ c \in Encryption
    /\ IsAt(c, "saved")
    /\ cached' = calls[c].obj
    /\ handed' = handed \cup {[calls[c].msg EXCEPT !.x3dh = pending]}
    /\ pending' = None
    /\ Become(c, Ended("returned"))
    /\ UNCHANGED <<heap, indexedDB, minted, opened, far, restarts>>

EncryptCall(c) ==
    \/ StartEncrypt(c) \/ LoadToEncrypt(c) \/ PerformX3DH(c) \/ CacheNewSession(c)
    \/ SaveNewSession(c) \/ ReadChainKey(c) \/ AdvanceChain(c) \/ CountMessage(c)
    \/ SaveState(c) \/ ReturnMessage(c)

-----------------------------------------------------------------------------
(* decryptMessage.  A segment of ratchetDecrypt takes the call's frame and  *)
(* the state, and returns both as it leaves them.                           *)
Segment(frame, st) == [frame |-> frame, st |-> st]

(* The loop of skipMessages up to its next await: read the chain key if     *)
(* messages are left to skip, else drop the oldest keys and return.         *)
SkipFrom(frame, st, until, loop, next) ==
    IF st.nr < until
    THEN Segment([frame EXCEPT !.pc = loop, !.ck = st.ckr], st)
    ELSE Segment([frame EXCEPT !.pc = next, !.ck = None],
                 [st EXCEPT !.skipped = LatestKeys(@)])

EnterSkip(frame, st, until, loop, next) ==
    IF st.ckr = None THEN Segment([frame EXCEPT !.pc = next], st)
    ELSE IF ~CanSkip(st, until) THEN Segment([frame EXCEPT !.pc = "rejected"], st)
    ELSE SkipFrom(frame, st, until, loop, next)

(* The loop's body after its await: the key read before it is stashed.      *)
SkipOne(frame, st, until, loop, next) ==
    SkipFrom(frame,
             [st EXCEPT !.ckr = KdfChainKey(frame.ck, 1),
                        !.skipped = Append(@, [dh |-> st.dhr, n |-> st.nr, mk |-> frame.ck]),
                        !.nr = @ + 1],
             until, loop, next)

StartTurn(frame, st) ==
    Segment([frame EXCEPT !.pc = "x25519DH", !.dh = DH(st.dhs, frame.msg.dh)],
            [st EXCEPT !.dhr = frame.msg.dh])

StartRatchetDecrypt(called, st) ==
    LET m == called.msg
        frame == [called EXCEPT !.from = st]
    IN  IF SkippedIndex(st, m) # 0
        THEN Segment([frame EXCEPT !.pc = IF OpenSkipped(st, m).ok THEN "aesGcmDecrypt"
                                          ELSE "rejected"],
                     OpenSkipped(st, m).st)
        ELSE IF HasDHKey(st, m) THEN EnterSkip(frame, st, m.n, "skipNew", "skipped")
        ELSE IF st.ckr # None THEN EnterSkip(frame, st, m.pn, "skipOld", "turn")
        ELSE StartTurn(frame, st)

RunSegment(c, segment) ==
    /\ Become(c, segment.frame)
    /\ Mutate(c, segment.st)

(* A segment that ends in a new or a loaded object.                         *)
RunOn(c, segment) ==
    /\ heap' = Append(heap, segment.st)
    /\ Become(c, [segment.frame EXCEPT !.obj = Len(heap) + 1])

(* The first try goes to the cached object at once; otherwise IndexedDB is  *)
(* read first.                                                              *)
StartDecrypt(c, m) ==
    /\ Begins(c, Decryption)
    /\ Cardinality(Running) < MaxConcurrent
    /\ LET frame == [calls[c] EXCEPT !.msg = m, !.obj = cached]
       IN  \/ /\ cached # 0
              /\ LET segment == StartRatchetDecrypt(frame, heap[cached])
                 IN  /\ Become(c, segment.frame)
                     /\ heap' = [heap EXCEPT ![cached] = segment.st]
           \/ /\ cached = 0
              /\ Become(c, [frame EXCEPT !.pc = "loadState"])
              /\ heap' = heap
    /\ UNCHANGED <<cached, indexedDB, pending, minted, handed, opened, far, restarts>>

(* The loaded object stays out of sessionCache until the call returns.      *)
LoadToDecrypt(c) ==
    /\ c \in Decryption
    /\ IsAt(c, "loadState")
    /\ IF indexedDB # None
       THEN RunOn(c, StartRatchetDecrypt(calls[c], indexedDB))
       ELSE /\ heap' = heap
            /\ IF calls[c].msg.x3dh # None THEN Await(c, "handleX3DHResponder")
               ELSE Become(c, Ended("threw"))
    /\ UNCHANGED <<cached, indexedDB, pending, minted, handed, opened, far, restarts>>

(* A receiver made from the X3DH header, by the first try or the second.    *)
RespondX3DH(c) ==
    /\ IsAt(c, "handleX3DHResponder")
    /\ RunOn(c, StartRatchetDecrypt(calls[c],
                    InitReceiver(Secret(calls[c].msg.x3dh, <<us, 0>>), <<us, 0>>)))
    /\ cached' = Len(heap) + 1
    /\ UNCHANGED <<indexedDB, pending, minted, handed, opened, far, restarts>>

SkipOldMessage(c) ==
    /\ IsAt(c, "skipOld")
    /\ RunSegment(c, SkipOne(calls[c], State(c), calls[c].msg.pn, "skipOld", "turn"))
    /\ UNCHANGED <<cached, indexedDB, pending, minted, handed, opened, far, restarts>>

SkipMessage(c) ==
    /\ IsAt(c, "skipNew")
    /\ RunSegment(c, SkipOne(calls[c], State(c), calls[c].msg.n, "skipNew", "skipped"))
    /\ UNCHANGED <<cached, indexedDB, pending, minted, handed, opened, far, restarts>>

TurnRatchet(c) ==
    /\ IsAt(c, "turn")
    /\ RunSegment(c, StartTurn(calls[c], State(c)))
    /\ UNCHANGED <<cached, indexedDB, pending, minted, handed, opened, far, restarts>>

(* kdfRootKey reads the root key as it is after the DH, and is awaited in   *)
(* turn: once for the receiving chain, once for the sending chain.          *)
DeriveRootKey(c) ==
    /\ \/ IsAt(c, "x25519DH") /\ Become(c, [calls[c] EXCEPT !.pc = "kdfRootKey",
                                              !.rk = KdfRootKey(State(c).rk, calls[c].dh)])
       \/ IsAt(c, "x25519DH2") /\ Become(c, [calls[c] EXCEPT !.pc = "kdfRootKey2",
                                              !.rk = KdfRootKey(State(c).rk, calls[c].dh)])
    /\ UNCHANGED <<memory, indexedDB, minted, handed, opened, far, restarts>>

(* Mutant: the numbers of the old receiving chain go on.                    *)
TurnReceivingChainCounts(c) ==
    /\ IsAt(c, "kdfRootKey")
    /\ Mutate(c, [State(c) EXCEPT !.rk = calls[c].rk, !.ckr = FirstChainKey(calls[c].rk),
                                  !.pn = State(c).ns, !.ns = 0])
    /\ Await(c, "generateX25519KeyPair")
    /\ UNCHANGED <<cached, indexedDB, pending, minted, handed, opened, far, restarts>>

TurnReceivingChain(c) ==
    /\ IsAt(c, "kdfRootKey")
    /\ Mutate(c, [State(c) EXCEPT !.rk = calls[c].rk, !.ckr = FirstChainKey(calls[c].rk),
                                  !.nr = 0, !.pn = State(c).ns, !.ns = 0])
    /\ Await(c, "generateX25519KeyPair")
    /\ UNCHANGED <<cached, indexedDB, pending, minted, handed, opened, far, restarts>>

TurnKeyPair(c) ==
    /\ IsAt(c, "generateX25519KeyPair")
    /\ Mutate(c, [State(c) EXCEPT !.dhs = FreshKey(us)])
    /\ minted' = [minted EXCEPT ![us] = @ + 1]
    /\ Become(c, [calls[c] EXCEPT !.pc = "x25519DH2", !.dh = DH(FreshKey(us), State(c).dhr)])
    /\ UNCHANGED <<cached, indexedDB, pending, handed, opened, far, restarts>>

TurnSendingChain(c) ==
    /\ IsAt(c, "kdfRootKey2")
    /\ RunSegment(c, EnterSkip([calls[c] EXCEPT !.dh = None, !.rk = None],
                        [State(c) EXCEPT !.rk = calls[c].rk, !.cks = FirstChainKey(calls[c].rk)],
                        calls[c].msg.n, "skipNew", "skipped"))
    /\ UNCHANGED <<cached, indexedDB, pending, minted, handed, opened, far, restarts>>

ReadReceivingKey(c) ==
    /\ IsAt(c, "skipped")
    /\ Become(c, [calls[c] EXCEPT !.pc = IF State(c).ckr = None THEN "rejected" ELSE "kdfChainKey",
                                 !.ck = State(c).ckr])
    /\ UNCHANGED <<memory, indexedDB, minted, handed, opened, far, restarts>>

(* The key is spent, then the message is authenticated with it.             *)
SpendReceivingKey(c) ==
    /\ c \in Decryption
    /\ IsAt(c, "kdfChainKey")
    /\ Mutate(c, [State(c) EXCEPT !.ckr = KdfChainKey(calls[c].ck, 1), !.nr = @ + 1])
    /\ Become(c, [calls[c] EXCEPT !.ck = None,
                    !.pc = IF Authentic(calls[c].msg, calls[c].ck) THEN "aesGcmDecrypt"
                           ELSE "rejected"])
    /\ UNCHANGED <<cached, indexedDB, pending, minted, handed, opened, far, restarts>>

ReceivePlaintext(c) ==
    /\ IsAt(c, "aesGcmDecrypt")
    /\ Await(c, "saveState")
    /\ UNCHANGED <<memory, indexedDB, minted, handed, opened, far, restarts>>

(* The catch: a message with an X3DH header is tried once more.             *)
CatchRejection(c) ==
    /\ IsAt(c, "rejected")
    /\ IF calls[c].msg.x3dh # None /\ ~calls[c].rebuilt
       THEN Become(c, [Ended("handleX3DHResponder") EXCEPT !.msg = calls[c].msg,
                                                           !.rebuilt = TRUE])
       ELSE Become(c, Ended("threw"))
    /\ UNCHANGED <<memory, indexedDB, minted, handed, opened, far, restarts>>

ReturnPlaintext(c) ==
    /\ c \in Decryption
    /\ IsAt(c, "saved")
    /\ cached' = calls[c].obj
    /\ opened' = opened \cup {calls[c].msg}
    /\ Become(c, Ended("returned"))
    /\ UNCHANGED <<heap, indexedDB, pending, minted, handed, far, restarts>>

DecryptCall(c) ==
    \/ \E m \in replies \ opened : StartDecrypt(c, m)
    \/ LoadToDecrypt(c) \/ RespondX3DH(c) \/ SkipOldMessage(c) \/ SkipMessage(c)
    \/ TurnRatchet(c) \/ DeriveRootKey(c) \/ TurnReceivingChain(c) \/ TurnKeyPair(c)
    \/ TurnSendingChain(c) \/ ReadReceivingKey(c) \/ SpendReceivingKey(c)
    \/ ReceivePlaintext(c) \/ CatchRejection(c) \/ SaveState(c) \/ ReturnPlaintext(c)

-----------------------------------------------------------------------------
(* The other end, and the page *)

(* It opens a message in its session or, if that fails or is missing, in    *)
(* one made from the X3DH header.                                           *)
PeerReads(m) ==
    /\ m \in handed \ read
    /\ LET rebuilt == InitReceiver(Secret(m.x3dh, <<them, 0>>), <<them, 0>>)
           after(st) == RatchetDecrypt(st, m, FreshKey(them))
           inSession == IF peer = None THEN FALSE ELSE after(peer).ok
           st == IF inSession THEN peer ELSE rebuilt
       IN  /\ inSession \/ m.x3dh # None
           /\ after(st).ok
           /\ peer' = after(st).st
    /\ read' = read \cup {m}
    /\ minted' = [minted EXCEPT ![them] = @ + 1]
    /\ UNCHANGED <<memory, indexedDB, calls, handed, opened, replies, restarts>>

PeerSends ==
    /\ Cardinality(replies) < MaxReply
    /\ LET first == peer = None
           st == IF first THEN InitSender(Secret(FreshKey(them), <<us, 0>>), <<us, 0>>,
                                          <<them, minted[them] + 1>>)
                 ELSE peer
       IN  /\ first => PeerStarts
           /\ CanEncrypt(st)
           /\ replies' = replies \cup
                 {[ by |-> Cardinality(replies) + 1, x3dh |-> IF first THEN FreshKey(them) ELSE None,
                    tagged |-> TRUE, dh |-> Header(st).dh, pn |-> Header(st).pn,
                    n |-> Header(st).n, key |-> st.cks ]}
           /\ peer' = AfterEncrypt(st)
           /\ minted' = IF first THEN [minted EXCEPT ![them] = @ + 2] ELSE minted
    /\ UNCHANGED <<memory, indexedDB, calls, handed, opened, read, restarts>>

(* Whatever is only in memory is gone, the calls in progress with it.       *)
ReloadPage ==
    /\ restarts < MaxRestart
    /\ restarts' = restarts + 1
    /\ heap' = <<>>
    /\ cached' = 0
    /\ pending' = None
    /\ calls' = [c \in Call |-> IF c \in Running THEN Ended("threw") ELSE calls[c]]
    /\ UNCHANGED <<indexedDB, minted, handed, opened, far>>

CallsNext ==
    \/ \E c \in Encryption : EncryptCall(c)
    \/ \E c \in Decryption : DecryptCall(c)
    \/ \E m \in handed : PeerReads(m)
    \/ PeerSends
    \/ ReloadPage

CallsSpec == CallsInit /\ [][CallsNext]_callVars

-----------------------------------------------------------------------------
(* "If this is the first message, attach the X3DH header"                   *)
(* (session-manager.ts:334): of the messages of a session we started, one   *)
(* carries the ephemeral key the other end derives the session with.        *)
HeaderSent ==
    \A m \in handed :
        \/ \E first \in handed : /\ first.x3dh # None
                               /\ Secret(first.x3dh, <<them, 0>>) = m.key.root.secret
        \/ \E reply \in opened : reply.key.root.secret = m.key.root.secret

HeaderSentUnlessReloaded == restarts = 0 => HeaderSent

(* What a reload finds is never behind what was sent: the saved session     *)
(* sends under no key of a message that was handed out.                     *)
SavedSessionIsPast ==
    \A m \in handed : indexedDB # None /\ indexedDB.cks # None /\ indexedDB.cks.root = m.key.root
                       => m.key.step < indexedDB.cks.step

(* What was handed out can be opened at the other end, and its key is not   *)
(* used again.                                                              *)
SentMessagesStand == HeaderSentUnlessReloaded /\ SavedSessionIsPast

(* A call that runs by itself does what the operators of DoubleRatchet say, *)
(* also when it throws: the object is as AfterEncrypt or RatchetDecrypt     *)
(* leave it, and the message is rejected exactly when RatchetDecrypt throws.*)
(* RatchetSession builds on it.                                             *)
CallsAreAtomic ==
    \A c \in Call :
        LET whole == RatchetDecrypt(calls[c].from, calls[c].msg, State(c).dhs)
        IN  /\ IsAt(c, "saveState") /\ c \in Encryption => State(c) = AfterEncrypt(calls[c].from)
            /\ IsAt(c, "aesGcmDecrypt") => State(c) = whole.st /\ whole.ok
            /\ IsAt(c, "rejected") => State(c) = whole.st /\ ~whole.ok
=============================================================================
