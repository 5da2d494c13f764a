------------------------------ MODULE Accounts ------------------------------
(***************************************************************************)
(* One username and the keys behind it: registration, login, recovery with *)
(* the twelve words, sign-out and deletion (src/web/src/auth/auth.ts,      *)
(* crypto/client-crypto.ts, settings.ts; src/backend/src/auth.ts and       *)
(* index.ts), from several browsers at once.                               *)
(*                                                                         *)
(* What is drawn at random is a number: the account with its identity keys *)
(* and its twelve words (made together, so they share it), an identity DH  *)
(* pair, a recovery challenge; 0 is none.  A blob is what encryptPrivateKeys*)
(* returns: the key it is under, the identity and the DH pair it holds.    *)
(* Sessions are those of Sessions.tla; a browser's token names its account.*)
(* KV is taken to be read as last written.  Proof of work, rate limits and *)
(* formats are left out: a request they refuse changes nothing here; so is *)
(* the copy of the blob a browser keeps, which only key transfer reads.    *)
(***************************************************************************)
EXTENDS Naturals

CONSTANTS Browsers, Passphrases,
          Calls,         \* requests under way at once
          None,
          MaxDrawn,      \* bound: random values drawn
          MaxEvents      \* bound: reloads, sessions lost, answers cut off,
                         \* challenges expired

ASSUME AccountsAssumption ==
    /\ MaxDrawn \in Nat /\ MaxEvents \in Nat
    /\ None \notin Browsers
    /\ None \notin [id : Nat, auth : Passphrases,
                    keys : [key : (Passphrases \X {"pass"}) \cup (Nat \X {"words"}),
                            id : Nat, dh : Nat]]

VARIABLES
    user,        \* the row of users with the name
    vaults,      \* recovery_vault: the blob and its verifier, by account
    challenges,  \* recovery_challenge, by account
    drawn,       \* random values drawn so far
    calls,       \* the requests, from req() to the answer
    page,        \* what each browser's page is at
    disk,        \* what its localStorage and its secure store hold
    written,     \* accounts whose words were shown to their owner
    restored,    \* browsers whose last sign-in ran to its end
    events

server == <<user, vaults, challenges>>
browser == <<page, disk, written, restored>>
vars == <<server, drawn, calls, browser, events>>

Pass(p) == <<p, "pass">>     \* deriveVaultKey
Words(n) == <<n, "words">>   \* deriveRecoveryRawKey, and its verifier

Blob(key, id, dh) == [key |-> key, id |-> id, dh |-> dh]
NoBlob == Blob(Words(0), 0, 0)
NoVault == [blob |-> NoBlob, verifier |-> Words(0)]

Quiet == [kind |-> "none", from |-> None, step |-> "none", id |-> 0, pass |-> None,
          words |-> 0, blob |-> NoBlob, vault |-> NoVault, challenge |-> 0]

Landing == [at |-> "landing", pass |-> None, id |-> 0, blob |-> NoBlob, dh |-> 0]
Empty == [token |-> 0, priv |-> 0, secureDH |-> 0, localDH |-> 0]

Event == events < MaxEvents /\ events' = events + 1
Draw == drawn < MaxDrawn /\ drawn' = drawn + 1

-----------------------------------------------------------------------------
(* The server.  Call c goes on to a step, with what it has learnt.          *)
At(c, kind, step) == calls[c].kind = kind /\ calls[c].step = step

Goes(c, step) == calls' = [calls EXCEPT ![c].step = step]

(* SELECT 1 FROM users WHERE username = ? *)
RegisterRead(c) ==
    /\ At(c, "register", "sent")
    /\ Goes(c, IF user = None THEN "free" ELSE "refused")
    /\ UNCHANGED <<server, drawn>>

(* The batch: the name is UNIQUE. *)
RegisterStore(c) ==
    /\ At(c, "register", "free")
    /\ IF user = None
       THEN /\ user' = [id |-> calls[c].id, auth |-> calls[c].pass, keys |-> calls[c].blob]
            /\ Goes(c, "answered")
       ELSE UNCHANGED user /\ Goes(c, "refused")
    /\ UNCHANGED <<vaults, challenges, drawn>>

VaultStore(c) ==
    /\ At(c, "vault", "sent")
    /\ vaults' = [vaults EXCEPT ![calls[c].id] = calls[c].vault]
    /\ Goes(c, "answered")
    /\ UNCHANGED <<user, challenges, drawn>>

LoginServed(c) ==
    /\ At(c, "login", "sent")
    /\ IF user # None /\ user.auth = calls[c].pass
       THEN calls' = [calls EXCEPT ![c].step = "answered", ![c].id = user.id,
                                   ![c].blob = user.keys]
       ELSE Goes(c, "refused")
    /\ UNCHANGED <<server, drawn>>

(* PUT /keys/encrypted-bundle updates identity_private_encrypted, a column  *)
(* no migration creates: the statement throws.                              *)
BundleServed(c) ==
    /\ At(c, "bundle", "sent") /\ Goes(c, "refused")
    /\ UNCHANGED <<server, drawn>>

DeleteServed(c) ==
    /\ At(c, "delete", "sent")
    /\ user' = IF user # None /\ user.id = calls[c].id THEN None ELSE user
    /\ Goes(c, "answered")
    /\ UNCHANGED <<vaults, challenges, drawn>>

StartRead(c) ==
    /\ At(c, "start", "sent")
    /\ IF user # None /\ vaults[user.id] # NoVault
       THEN calls' = [calls EXCEPT ![c].step = "read", ![c].id = user.id,
                                   ![c].blob = vaults[user.id].blob]
       ELSE Goes(c, "refused")
    /\ UNCHANGED <<server, drawn>>

(* The challenge replaces the one before it. *)
StartChallenge(c) ==
    /\ At(c, "start", "read") /\ Draw
    /\ challenges' = [challenges EXCEPT ![calls[c].id] = drawn']
    /\ calls' = [calls EXCEPT ![c].step = "answered", ![c].challenge = drawn']
    /\ UNCHANGED <<user, vaults>>

CompleteMatch(c) ==
    /\ At(c, "complete", "sent")
    /\ IF user # None /\ challenges[user.id] = calls[c].challenge
       THEN calls' = [calls EXCEPT ![c].step = "matched", ![c].id = user.id]
       ELSE Goes(c, "refused")
    /\ UNCHANGED <<server, drawn>>

(* Whatever challenge is there by now is deleted. *)
CompleteVerify(c) ==
    /\ At(c, "complete", "matched")
    /\ challenges' = [challenges EXCEPT ![calls[c].id] = 0]
    /\ Goes(c, IF /\ vaults[calls[c].id] # NoVault
                  /\ vaults[calls[c].id].verifier = Words(calls[c].words)
               THEN "verified" ELSE "refused")
    /\ UNCHANGED <<user, vaults, drawn>>

(* Mutant: the row is found by its name, as in the steps before. *)
UpdateByName(c) ==
    /\ At(c, "complete", "verified")
    /\ user' = IF user # None
               THEN [user EXCEPT !.auth = calls[c].pass, !.keys = calls[c].blob] ELSE user
    /\ Goes(c, "updated")
    /\ UNCHANGED <<vaults, challenges, drawn>>

CompleteUpdate(c) ==
    /\ At(c, "complete", "verified")
    /\ user' = IF user # None /\ user.id = calls[c].id
               THEN [user EXCEPT !.auth = calls[c].pass, !.keys = calls[c].blob] ELSE user
    /\ Goes(c, "updated")
    /\ UNCHANGED <<vaults, challenges, drawn>>

CompleteVault(c) ==
    /\ At(c, "complete", "updated")
    /\ vaults' = [vaults EXCEPT ![calls[c].id] = calls[c].vault]
    /\ Goes(c, "answered")
    /\ UNCHANGED <<user, challenges, drawn>>

Serve(c) ==
    /\ \/ RegisterRead(c) \/ RegisterStore(c) \/ VaultStore(c) \/ LoginServed(c)
       \/ BundleServed(c) \/ DeleteServed(c) \/ StartRead(c) \/ StartChallenge(c)
       \/ CompleteMatch(c) \/ CompleteVerify(c) \/ CompleteUpdate(c) \/ CompleteVault(c)
    /\ UNCHANGED <<browser, events>>

(* A challenge lives ten minutes. *)
ChallengeExpires ==
    /\ Event
    /\ \E n \in 1 .. MaxDrawn : challenges[n] # 0 /\ challenges' = [challenges EXCEPT ![n] = 0]
    /\ UNCHANGED <<user, vaults, drawn, calls, browser>>

-----------------------------------------------------------------------------
(* A browser's page: it awaits one call at a time. *)
Sends(b, c, call) ==
    /\ calls[c] = Quiet
    /\ calls' = [calls EXCEPT ![c] = [call EXCEPT !.from = b, !.step = "sent"]]

GoesTo(b, at) == page' = [page EXCEPT ![b].at = at]
Enters(b, at) == page' = [page EXCEPT ![b] = [Landing EXCEPT !.at = at, !.dh = page[b].dh]]

Answered(b, c, kind) == calls[c].from = b /\ At(c, kind, "answered")

Register(b, p, c) ==
    /\ page[b].at = "landing" /\ Draw
    /\ Sends(b, c, [Quiet EXCEPT !.kind = "register", !.id = drawn', !.pass = p,
                                 !.blob = Blob(Pass(p), drawn', drawn')])
    /\ GoesTo(b, "waiting")
    /\ UNCHANGED <<server, disk, written, restored, events>>

(* The keys are stored, the DH pair only in localStorage; then the vault    *)
(* under the twelve words is sent.                                          *)
RegisterAnswered(b, c) ==
    LET n == calls[c].id IN
    /\ Answered(b, c, "register")
    /\ disk' = [disk EXCEPT ![b] = [@ EXCEPT
           !.token = n, !.priv = n, !.localDH = n]]
    /\ restored' = restored \ {b}
    /\ calls' = [calls EXCEPT ![c] = [Quiet EXCEPT
           !.kind = "vault", !.from = b, !.step = "sent", !.id = n,
           !.vault = [blob |-> Blob(Words(n), n, n), verifier |-> Words(n)]]]
    /\ page' = [page EXCEPT ![b] = [@ EXCEPT !.id = n]]
    /\ UNCHANGED <<server, drawn, written, events>>

(* showRecoveryPhrase, back to the form: whatever the upload came to. *)
ShowWords(b) ==
    /\ written' = written \cup {page[b].id}
    /\ Enters(b, "landing")
    /\ UNCHANGED <<disk, restored>>

Login(b, p, c) ==
    /\ page[b].at = "landing"
    /\ Sends(b, c, [Quiet EXCEPT !.kind = "login", !.pass = p])
    /\ GoesTo(b, "waiting")
    /\ UNCHANGED <<server, drawn, disk, written, restored, events>>

(* The tokens are stored first. *)
LoginAnswered(b, c) ==
    /\ Answered(b, c, "login")
    /\ disk' = [disk EXCEPT ![b].token = calls[c].id]
    /\ page' = [page EXCEPT ![b] = [@ EXCEPT !.at = "opening", !.pass = calls[c].pass,
                                             !.id = calls[c].id, !.blob = calls[c].blob]]
    /\ restored' = restored \ {b}
    /\ calls' = [calls EXCEPT ![c] = Quiet]
    /\ UNCHANGED <<server, drawn, written, events>>

StoreKeys(b) ==
    LET blob == page[b].blob IN
    /\ page[b].at = "opening"
    /\ IF blob.key = Pass(page[b].pass)
       THEN /\ disk' = [disk EXCEPT ![b].priv = blob.id]
            /\ GoesTo(b, "restoring")
       ELSE UNCHANGED disk /\ Enters(b, "landing")
    /\ UNCHANGED <<server, drawn, calls, written, restored, events>>

(* Mutant: a DH pair the browser has already is kept. *)
RestoreIfNone(b) ==
    /\ page[b].at = "restoring" /\ page[b].blob.dh # 0
    /\ disk' = [disk EXCEPT ![b].secureDH = IF @ = 0 THEN page[b].blob.dh ELSE @]
    /\ restored' = restored \cup {b}
    /\ Enters(b, "app")
    /\ UNCHANGED <<server, drawn, calls, written, events>>

RestoreDH(b) ==
    /\ page[b].at = "restoring" /\ page[b].blob.dh # 0
    /\ disk' = [disk EXCEPT ![b].secureDH = page[b].blob.dh]
    /\ restored' = restored \cup {b}
    /\ Enters(b, "app")
    /\ UNCHANGED <<server, drawn, calls, written, events>>

(* getIdentityDHKeyPair looks in memory, in the secure store and in         *)
(* localStorage; with none of them it makes a new pair.                     *)
KnownDH(b) ==
    IF page[b].dh # 0 THEN page[b].dh
    ELSE IF disk[b].secureDH # 0 THEN disk[b].secureDH ELSE disk[b].localDH

GetIdentityDHKeyPair(b, dh) ==
    /\ IF KnownDH(b) # 0 THEN dh = KnownDH(b) /\ UNCHANGED drawn ELSE Draw /\ dh = drawn'
    /\ disk' = [disk EXCEPT ![b].secureDH = IF page[b].dh = 0 THEN dh ELSE @,
                            ![b].localDH = IF page[b].dh = 0 /\ disk[b].secureDH = 0
                                           THEN 0 ELSE @]

(* An account of before: the pair is put into the blob. *)
MigrateDH(b, c) ==
    /\ page[b].at = "restoring" /\ page[b].blob.dh = 0
    /\ \E dh \in 1 .. MaxDrawn :
          /\ GetIdentityDHKeyPair(b, dh)
          /\ Sends(b, c, [Quiet EXCEPT !.kind = "bundle",
                                       !.blob = [page[b].blob EXCEPT !.dh = dh]])
          /\ page' = [page EXCEPT ![b] = [Landing EXCEPT !.at = "waiting", !.dh = dh]]
    /\ UNCHANGED <<server, written, restored, events>>

(* The answer is not looked at. *)
Migrated(b) == Enters(b, "app") /\ UNCHANGED <<disk, written, restored>>

UseDH(b) ==
    /\ page[b].at = "app" /\ page[b].dh = 0
    /\ \E dh \in 1 .. MaxDrawn :
          /\ GetIdentityDHKeyPair(b, dh)
          /\ page' = [page EXCEPT ![b].dh = dh]
    /\ UNCHANGED <<server, calls, written, restored, events>>

(* Sign-out and deletion wipe the browser and reload the page. *)
Wipe(b) ==
    /\ disk' = [disk EXCEPT ![b] = Empty]
    /\ page' = [page EXCEPT ![b] = Landing]
    /\ restored' = restored \ {b}
    /\ UNCHANGED written

SignOut(b) ==
    /\ page[b].at = "app" /\ Wipe(b)
    /\ UNCHANGED <<server, drawn, calls, events>>

DeleteAccount(b, c) ==
    /\ page[b].at = "app"
    /\ Sends(b, c, [Quiet EXCEPT !.kind = "delete", !.id = disk[b].token])
    /\ GoesTo(b, "waiting")
    /\ UNCHANGED <<server, drawn, disk, written, restored, events>>

-----------------------------------------------------------------------------
(* Recovery: the twelve words of account n and a new passphrase. *)
Recover(b, n, p, c) ==
    /\ page[b].at = "landing"
    /\ Sends(b, c, [Quiet EXCEPT !.kind = "start", !.pass = p, !.words = n])
    /\ GoesTo(b, "waiting")
    /\ UNCHANGED <<server, drawn, disk, written, restored, events>>

(* Mutant: the new vault is encrypted under the new passphrase as well. *)
RecoverUnderPassphrase(b, c) ==
    LET q == calls[c]  mine == q.blob IN
    /\ Answered(b, c, "start") /\ mine.key = Words(q.words)
    /\ calls' = [calls EXCEPT ![c] = [q EXCEPT
           !.kind = "complete", !.step = "sent", !.id = 0,
           !.blob = Blob(Pass(q.pass), mine.id, mine.dh),
           !.vault = [blob |-> Blob(Pass(q.pass), mine.id, mine.dh), verifier |-> mine.key]]]
    /\ UNCHANGED <<server, drawn, browser, events>>

(* The vault opens under the words: its keys are encrypted anew, for the    *)
(* row and for the vault.                                                   *)
StartAnswered(b, c) ==
    LET q == calls[c]  mine == q.blob IN
    /\ Answered(b, c, "start") /\ mine.key = Words(q.words)
    /\ calls' = [calls EXCEPT ![c] = [q EXCEPT
           !.kind = "complete", !.step = "sent", !.id = 0,
           !.blob = Blob(Pass(q.pass), mine.id, mine.dh),
           !.vault = [blob |-> mine, verifier |-> mine.key]]]
    /\ UNCHANGED <<server, drawn, browser, events>>

-----------------------------------------------------------------------------
(* The call ends for the page, refused or not, or cut off: the page goes    *)
(* back to the form, except where it does not look at the answer.           *)
Ends(b, kind) ==
    CASE kind = "vault" -> ShowWords(b)
      [] kind = "bundle" -> Migrated(b)
      [] kind = "delete" -> Wipe(b)
      [] OTHER -> Enters(b, "landing") /\ UNCHANGED <<disk, written, restored>>

CallEnds(b, c) ==
    /\ calls[c].from = b
    /\ \/ calls[c].step = "refused"
       \/ calls[c].step = "answered" /\ calls[c].kind \in {"vault", "bundle", "delete", "complete"}
       \/ Answered(b, c, "start") /\ calls[c].blob.key # Words(calls[c].words)
    /\ Ends(b, calls[c].kind)
    /\ calls' = [calls EXCEPT ![c] = Quiet]
    /\ UNCHANGED <<server, drawn, events>>

(* fetch is aborted after 30 s or fails; the request may have arrived. *)
CutOff(b, c) ==
    /\ calls[c].from = b /\ Event
    /\ Ends(b, calls[c].kind)
    /\ \/ calls' = [calls EXCEPT ![c].from = None]
       \/ calls[c].step = "sent" /\ calls' = [calls EXCEPT ![c] = Quiet]
    /\ UNCHANGED <<server, drawn>>

(* Nobody hears the answer. *)
Unheard(c) ==
    /\ calls[c].from = None /\ calls[c].step \in {"answered", "refused"}
    /\ calls' = [calls EXCEPT ![c] = Quiet]
    /\ UNCHANGED <<server, drawn, browser, events>>

(* The page starts over, in the app if there is a session. *)
Restart(b, token) ==
    /\ Event
    /\ page' = [page EXCEPT ![b] = [Landing EXCEPT !.at = IF token = 0 THEN @ ELSE "app"]]
    /\ disk' = [disk EXCEPT ![b].token = token]
    /\ calls' = [c \in Calls |->
           IF calls[c].from = b THEN [calls[c] EXCEPT !.from = None] ELSE calls[c]]
    /\ UNCHANGED <<server, drawn, written>>

Reload(b) == Restart(b, disk[b].token) /\ UNCHANGED restored

(* The session ran out; the rest of the browser's storage is still there. *)
LoseSession(b) ==
    disk[b].token # 0 /\ Restart(b, 0) /\ restored' = restored \ {b}

-----------------------------------------------------------------------------
(* Nobody has the name, or one browser registered it before the DH pair was *)
(* put into the blob, and is signed in.                                     *)
Init ==
    /\ vaults = [n \in 1 .. MaxDrawn |-> NoVault]
    /\ challenges = [n \in 1 .. MaxDrawn |-> 0]
    /\ calls = [c \in Calls |-> Quiet]
    /\ page = [b \in Browsers |-> Landing]
    /\ written = {} /\ restored = {} /\ events = 0
    /\ \/ user = None /\ drawn = 0 /\ disk = [b \in Browsers |-> Empty]
       \/ \E p \in Passphrases, first \in Browsers :
             LET old == Blob(Pass(p), 1, 0) IN
             /\ user = [id |-> 1, auth |-> p, keys |-> old]
             /\ drawn = 1 /\ MaxDrawn > 0
             /\ disk = [b \in Browsers |->
                   IF b = first
                   THEN [Empty EXCEPT !.priv = 1, !.localDH = 1]
                   ELSE Empty]

PageStep(b, c) ==
    \/ RegisterAnswered(b, c) \/ LoginAnswered(b, c) \/ StartAnswered(b, c)
    \/ MigrateDH(b, c) \/ CallEnds(b, c) \/ CutOff(b, c) \/ DeleteAccount(b, c)
    \/ \E p \in Passphrases :
          \/ Register(b, p, c) \/ Login(b, p, c)
          \/ \E n \in written : Recover(b, n, p, c)

Next ==
    \/ ChallengeExpires
    \/ \E c \in Calls : Serve(c) \/ Unheard(c)
    \/ \E b \in Browsers :
          \/ StoreKeys(b) \/ RestoreDH(b) \/ UseDH(b) \/ SignOut(b)
          \/ Reload(b) \/ LoseSession(b)
          \/ \E c \in Calls : PageStep(b, c)

Spec == Init /\ [][Next]_vars

-----------------------------------------------------------------------------
(* "Rotate auth credentials atomically" (auth.ts:533): whoever can log in   *)
(* can decrypt.  The keys of the row are under the passphrase it accepts,   *)
(* and they are the identity registered under it, whatever recoveries,      *)
(* deletions and new registrations of the name overlap, late ones included. *)
LoginOpensAccount ==
    user # None => user.keys.key = Pass(user.auth) /\ user.keys.id = user.id

(* "recover from any device using only their 12-word mnemonic" (auth.ts:428):*)
(* a vault, once stored, opens under the words of its account, with the     *)
(* verifier of those words, and holds all its keys, after any recovery.     *)
VaultOpensWithWords ==
    \A n \in 1 .. MaxDrawn : vaults[n] # NoVault =>
        /\ vaults[n].blob = Blob(Words(n), n, n)
        /\ vaults[n].verifier = Words(n)

(* "Without this, a fresh device login regenerates a new identity DH key    *)
(* locally, breaking E2E sessions" (auth.ts:251): a browser whose sign-in   *)
(* ran to its end uses the identity and the DH pair of the account it is    *)
(* signed in to, whatever account it served before, and after reloads.      *)
SignInRestoresIdentity ==
    \A b \in restored :
        disk[b].priv = disk[b].token /\ KnownDH(b) = disk[b].token

=============================================================================
