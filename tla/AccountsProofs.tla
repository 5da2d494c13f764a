--------------------------- MODULE AccountsProofs ---------------------------
(***************************************************************************)
(* Accounts for every number of browsers, passphrases, requests and random *)
(* values: whoever can log in can decrypt, a vault opens with its words,   *)
(* and a sign-in that ran to its end restores the identity.                *)
(*                                                                         *)
(* None of the three is inductive: what the tables will hold is in the     *)
(* requests under way, and what a browser will hold is in its page.        *)
(* AccountsInv adds that what a request carries is of one account, that a  *)
(* page waits for one request at most, and that a sign-in half done has    *)
(* the token and the keys of the same account.                             *)
(***************************************************************************)
EXTENDS Accounts, TLAPS

Numbers == 0 .. MaxDrawn
Ids == 1 .. MaxDrawn

Keys == (Passphrases \X {"pass"}) \cup (Nat \X {"words"})

Blobs == [key : Keys, id : Nat, dh : Nat]

Vaults == [blob : Blobs, verifier : Keys]

Rows == [id : Nat, auth : Passphrases, keys : Blobs]

Kinds == {"none", "register", "vault", "login", "bundle", "delete", "start", "complete"}

Steps == {"none", "sent", "free", "refused", "answered", "read", "matched", "verified", "updated"}

Call ==
    [ kind : Kinds, from : Browsers \cup {None}, step : Steps, id : Numbers,
      pass : Passphrases \cup {None}, words : Numbers, blob : Blobs, vault : Vaults,
      challenge : Nat ]

Places == {"landing", "waiting", "opening", "restoring", "app"}

Page ==
    [at : Places, pass : Passphrases \cup {None}, id : Numbers, blob : Blobs, dh : Nat]

Storage == [token : Numbers, priv : Nat, secureDH : Nat, localDH : Nat]

AccountsTypeOK ==
    /\ user \in Rows \cup {None}
    /\ vaults \in [Ids -> Vaults]
    /\ challenges \in [Ids -> Nat]
    /\ drawn \in Numbers
    /\ calls \in [Calls -> Call]
    /\ page \in [Browsers -> Page]
    /\ disk \in [Browsers -> Storage]
    /\ written \in SUBSET Numbers
    /\ restored \in SUBSET Browsers

-----------------------------------------------------------------------------
(* The invariant *)

(* The row's keys are those of its account under its passphrase; an account *)
(* of before has no DH pair in them.                                        *)
RowOpens ==
    user # None =>
        /\ user.id \in Ids
        /\ user.keys.key = Pass(user.auth) /\ user.keys.id = user.id
        /\ user.keys.dh \in {0, user.id}

OwnVault(n) == [blob |-> Blob(Words(n), n, n), verifier |-> Words(n)]

(* What a request carries is of one account: what a login answers, what a   *)
(* recovery read, and what it is about to write once the words matched.     *)
Carries(q) ==
    /\ q.kind = "register" =>
          q.id \in Ids /\ q.pass \in Passphrases /\ q.blob = Blob(Pass(q.pass), q.id, q.id)
    /\ q.kind = "vault" => q.id \in Ids /\ q.vault = OwnVault(q.id)
    /\ q.kind \in {"login", "start"} => q.pass \in Passphrases
    /\ q.kind = "login" /\ q.step = "answered" =>
          q.id \in Ids /\ q.blob.id = q.id /\ q.blob.dh \in {0, q.id}
    /\ q.kind = "start" /\ q.step \in {"read", "answered"} =>
          q.id \in Ids /\ q.blob = Blob(Words(q.id), q.id, q.id)
    /\ q.kind = "complete" =>
          /\ q.pass \in Passphrases
          /\ q.blob = Blob(Pass(q.pass), q.words, q.words)
          /\ q.vault = OwnVault(q.words)
    /\ q.kind = "complete" /\ q.step \in {"matched", "verified", "updated"} => q.id \in Ids
    /\ q.kind = "complete" /\ q.step \in {"verified", "updated"} => q.id = q.words

(* A page that has a request out waits for it, and has no other.            *)
Waits(b) ==
    \A c \in Calls : calls[c].from = b =>
        page[b].at = "waiting" /\ \A d \in Calls : calls[d].from = b => d = c

(* A DH pair in memory is of the page that is, or was, in the app: nobody   *)
(* signs in over it.                                                        *)
PairIsOfTheApp(b) ==
    page[b].dh # 0 =>
        /\ page[b].at \in {"app", "waiting"}
        /\ \A c \in Calls : calls[c].from = b => calls[c].kind \in {"bundle", "delete"}

(* A sign-in on its way holds the token and the keys of one account.        *)
SignsIn(b) ==
    /\ page[b].at \in {"opening", "restoring"} =>
          /\ page[b].id \in Ids /\ disk[b].token = page[b].id
          /\ page[b].blob.id = page[b].id /\ page[b].blob.dh \in {0, page[b].id}
    /\ page[b].at = "restoring" => disk[b].priv = page[b].id

(* One that ran to its end left that account's pair in the secure store.    *)
Signed(b) ==
    b \in restored =>
        /\ page[b].at \in {"app", "waiting"}
        /\ \A c \in Calls : calls[c].from = b => calls[c].kind = "delete"
        /\ disk[b].token # 0 /\ disk[b].priv = disk[b].token
        /\ disk[b].secureDH = disk[b].token /\ page[b].dh \in {0, disk[b].token}

PageFits(b) == Waits(b) /\ PairIsOfTheApp(b) /\ SignsIn(b) /\ Signed(b)

AccountsInv ==
    /\ AccountsTypeOK
    /\ RowOpens
    /\ VaultOpensWithWords
    /\ \A c \in Calls : Carries(calls[c])
    /\ \A b \in Browsers : PageFits(b)

-----------------------------------------------------------------------------
(* Records *)

(* A row is not the absence of one.                                         *)
LEMMA RowIsSome == \A r \in Rows : r # None
BY AccountsAssumption DEF Rows, Blobs, Keys

(* No page is nobody.                                                       *)
LEMMA PageIsSome == \A b \in Browsers : b # None
BY AccountsAssumption

(* Different words open different vaults.                                   *)
LEMMA WordsDiffer == \A m, n : Words(m) = Words(n) => m = n
BY DEF Words

(* The blobs and vaults that are written are blobs and vaults.              *)
LEMMA BlobTypes ==
    /\ MaxDrawn \in Nat /\ Ids \subseteq Numbers /\ Numbers \subseteq Nat
    /\ \A p \in Passphrases : Pass(p) \in Keys
    /\ \A n \in Nat : Words(n) \in Keys
    /\ \A k \in Keys, n, m \in Nat :
          /\ Blob(k, n, m) \in Blobs
          /\ Blob(k, n, m).key = k /\ Blob(k, n, m).id = n /\ Blob(k, n, m).dh = m
    /\ \A n \in Nat : OwnVault(n) \in Vaults
    /\ NoBlob \in Blobs /\ NoVault \in Vaults
<1>1. MaxDrawn \in Nat
  BY AccountsAssumption
<1>2. (\A p \in Passphrases : Pass(p) \in Keys) /\ \A n \in Nat : Words(n) \in Keys
  BY DEF Pass, Words, Keys
<1>3. \A k \in Keys, n, m \in Nat :
         /\ Blob(k, n, m) \in Blobs
         /\ Blob(k, n, m).key = k /\ Blob(k, n, m).id = n /\ Blob(k, n, m).dh = m
  BY DEF Blob, Blobs
<1>4. \A n \in Nat : OwnVault(n) \in Vaults
  BY <1>2, <1>3 DEF OwnVault, Vaults
<1>5. NoBlob \in Blobs
  BY <1>2, <1>3 DEF NoBlob
<1>6. NoVault \in Vaults
  BY <1>2, <1>5 DEF NoVault, Vaults
<1> QED
  BY <1>1, <1>2, <1>3, <1>4, <1>5, <1>6 DEF Ids, Numbers

(* A request as the server leaves it: what it was asked stays.              *)
Put(k, step, id, blob, challenge) ==
    [ kind |-> k.kind, from |-> k.from, step |-> step, id |-> id, pass |-> k.pass,
      words |-> k.words, blob |-> blob, vault |-> k.vault, challenge |-> challenge ]

LEMMA PutIsCall ==
    ASSUME NEW k \in Call, NEW s \in Steps, NEW i \in Numbers, NEW blob \in Blobs, NEW n \in Nat
    PROVE  Put(k, s, i, blob, n) \in Call
BY DEF Put, Call

(* The updates of the handlers.                                             *)
StepsTo(c, s) == [calls EXCEPT ![c].step = s]
Finds(c, s, i) == [calls EXCEPT ![c].step = s, ![c].id = i]
Learns(c, s, i, blob) == [calls EXCEPT ![c].step = s, ![c].id = i, ![c].blob = blob]
Keeps(c, s, n) == [calls EXCEPT ![c].step = s, ![c].challenge = n]

LEMMA Updates ==
    ASSUME NEW c \in Calls, calls \in [Calls -> Call]
    PROVE  LET k == calls[c] IN
           /\ \A s : StepsTo(c, s) = [calls EXCEPT ![c] = Put(k, s, k.id, k.blob, k.challenge)]
           /\ \A s, i : Finds(c, s, i) = [calls EXCEPT ![c] = Put(k, s, i, k.blob, k.challenge)]
           /\ \A s, n : Keeps(c, s, n) = [calls EXCEPT ![c] = Put(k, s, k.id, k.blob, n)]
<1> PICK k \in Call : k = calls[c]
  OBVIOUS
<1>1. ASSUME NEW s, NEW n
      PROVE  /\ StepsTo(c, s) = [calls EXCEPT ![c] = Put(k, s, k.id, k.blob, k.challenge)]
             /\ Finds(c, s, n) = [calls EXCEPT ![c] = Put(k, s, n, k.blob, k.challenge)]
             /\ Keeps(c, s, n) = [calls EXCEPT ![c] = Put(k, s, k.id, k.blob, n)]
  <2> DEFINE p1 == Put(k, s, k.id, k.blob, k.challenge)
             p2 == Put(k, s, n, k.blob, k.challenge)
             p3 == Put(k, s, k.id, k.blob, n)
             f1 == [calls EXCEPT ![c].step = s]
             f2 == [f1 EXCEPT ![c].id = n]
             f3 == [f1 EXCEPT ![c].challenge = n]
  <2>1. [k EXCEPT !.step = s] = p1
    BY DEF Put, Call
  <2>2. [p1 EXCEPT !.id = n] = p2
    BY DEF Put
  <2>3. [p1 EXCEPT !.challenge = n] = p3
    BY DEF Put
  <2> HIDE DEF p1, p2, p3
  <2>4. f1 = [calls EXCEPT ![c] = p1]
    BY <2>1
  <2> HIDE DEF f1
  <2>5. f2 = [calls EXCEPT ![c] = p2]
    BY <2>2, <2>4
  <2>6. f3 = [calls EXCEPT ![c] = p3]
    BY <2>3, <2>4
  <2>7. StepsTo(c, s) = f1 /\ Finds(c, s, n) = f2 /\ Keeps(c, s, n) = f3
    BY Zenon DEF StepsTo, Finds, Keeps, f1, f2, f3
  <2> QED
    BY <2>4, <2>5, <2>6, <2>7 DEF p1, p2, p3
<1> QED
  BY <1>1

LEMMA Learnt ==
    ASSUME NEW c \in Calls, calls \in [Calls -> Call], NEW s, NEW i, NEW blob
    PROVE  Learns(c, s, i, blob) = [calls EXCEPT ![c] = Put(calls[c], s, i, blob, calls[c].challenge)]
<1> PICK k \in Call : k = calls[c]
  OBVIOUS
<1> DEFINE p2 == Put(k, s, i, k.blob, k.challenge)
           p3 == Put(k, s, i, blob, k.challenge)
           f2 == Finds(c, s, i)
           f3 == [f2 EXCEPT ![c].blob = blob]
<1>1. f2 = [calls EXCEPT ![c] = p2]
  BY Updates
<1>2. [p2 EXCEPT !.blob = blob] = p3
  BY DEF Put
<1> HIDE DEF p2, p3, f2
<1>3. f3 = [calls EXCEPT ![c] = p3]
  BY <1>1, <1>2
<1>4. Learns(c, s, i, blob) = f3
  BY Zenon DEF Learns, Finds, f2, f3
<1> QED
  BY <1>3, <1>4 DEF p3

-----------------------------------------------------------------------------
(* The server's steps *)

(* A page that is left alone fits if its requests are as they were, or are  *)
(* no longer its own.                                                       *)
LEMMA PageLeftAlone ==
    ASSUME NEW b \in Browsers, PageFits(b),
           page'[b] = page[b], disk'[b] = disk[b], b \in restored' => b \in restored,
           \A c \in Calls : calls'[c].from = b => calls[c].from = b /\ calls'[c].kind = calls[c].kind
    PROVE  PageFits(b)'
<1>1. Waits(b)'
  BY DEF PageFits, Waits
<1>2. PairIsOfTheApp(b)'
  BY DEF PageFits, PairIsOfTheApp
<1>3. SignsIn(b)'
  BY DEF PageFits, SignsIn
<1>4. Signed(b)'
  BY DEF PageFits, Signed
<1> QED
  BY <1>1, <1>2, <1>3, <1>4 DEF PageFits

(* A step of the server on one request.                                     *)
LEMMA ServedCall ==
    ASSUME AccountsInv, NEW c \in Calls, NEW q \in Call,
           q.from = calls[c].from, q.kind = calls[c].kind, Carries(q),
           calls' = [calls EXCEPT ![c] = q],
           page' = page, disk' = disk, restored' = restored, written' = written,
           user' \in Rows \cup {None}, RowOpens',
           vaults' \in [Ids -> Vaults], VaultOpensWithWords',
           challenges' \in [Ids -> Nat], drawn' \in Numbers
    PROVE  AccountsInv'
<1>1. calls \in [Calls -> Call] /\ \A d \in Calls : Carries(calls[d])
  BY DEF AccountsInv, AccountsTypeOK
<1>2. calls' \in [Calls -> Call]
  BY <1>1
<1>3. \A d \in Calls : calls'[d] = IF d = c THEN q ELSE calls[d]
  BY <1>1
<1>4. ASSUME NEW d \in Calls PROVE Carries(calls[d])'
  <2>1. PICK k \in Call : k = calls'[d] /\ Carries(k)
    BY <1>1, <1>2, <1>3
  <2> QED
    BY <2>1
<1>5. ASSUME NEW b \in Browsers PROVE PageFits(b)'
  BY <1>3, PageLeftAlone DEF AccountsInv
<1>6. AccountsTypeOK'
  BY <1>2 DEF AccountsInv, AccountsTypeOK
<1> QED
  BY <1>4, <1>5, <1>6 DEF AccountsInv

(* The facts about the request and the tables that each step starts from.   *)
LEMMA ServerStep ==
    ASSUME AccountsInv, NEW c \in Calls, Serve(c)
    PROVE  AccountsInv'
<1> PICK k \in Call : k = calls[c] /\ Carries(k)
  BY DEF AccountsInv, AccountsTypeOK
<1>1. /\ page' = page /\ disk' = disk /\ restored' = restored /\ written' = written
  BY DEF Serve, browser
<1>2. /\ user \in Rows \cup {None} /\ vaults \in [Ids -> Vaults] /\ challenges \in [Ids -> Nat]
      /\ drawn \in Numbers /\ calls \in [Calls -> Call]
      /\ RowOpens /\ VaultOpensWithWords
  BY DEF AccountsInv, AccountsTypeOK
<1>3. k.id \in Numbers /\ k.blob \in Blobs /\ k.vault \in Vaults /\ k.challenge \in Nat
  BY DEF Call
<1>4. ASSUME NEW s \in Steps, NEW i \in Numbers, NEW blob \in Blobs, NEW n \in Nat
      PROVE  LET q == Put(k, s, i, blob, n) IN
             /\ q \in Call /\ q.kind = k.kind /\ q.from = k.from /\ q.pass = k.pass
             /\ q.words = k.words /\ q.vault = k.vault
             /\ q.step = s /\ q.id = i /\ q.blob = blob /\ q.challenge = n
  BY PutIsCall DEF Put
<1>5. ASSUME NEW s \in Steps, calls' = StepsTo(c, s),
             UNCHANGED <<user, vaults, challenges, drawn>>,
             Carries(Put(k, s, k.id, k.blob, k.challenge))
      PROVE  AccountsInv'
  <2> PICK q \in Call : q = Put(k, s, k.id, k.blob, k.challenge)
    BY <1>3, <1>4
  <2>1. calls' = [calls EXCEPT ![c] = q]
    BY <1>5, <1>2, Updates
  <2>2. q.from = calls[c].from /\ q.kind = calls[c].kind
    BY <1>3, <1>4
  <2>3. RowOpens' /\ VaultOpensWithWords'
    BY <1>2, <1>5 DEF RowOpens, VaultOpensWithWords
  <2> QED
    BY <1>1, <1>2, <1>5, <2>1, <2>2, <2>3, ServedCall
<1>6. CASE RegisterRead(c)
  <2> DEFINE s == IF user = None THEN "free" ELSE "refused"
  <2>1. s \in Steps /\ k.kind = "register"
    BY <1>6 DEF RegisterRead, At, Steps
  <2>2. calls' = StepsTo(c, s) /\ UNCHANGED <<user, vaults, challenges, drawn>>
    BY <1>6 DEF RegisterRead, Goes, StepsTo, server
  <2>3. Carries(Put(k, s, k.id, k.blob, k.challenge))
    BY <1>3, <1>4, <2>1 DEF Carries
  <2> HIDE DEF s
  <2> QED
    BY <1>5, <2>1, <2>2, <2>3
<1>7. CASE RegisterStore(c)
  <2>1. k.kind = "register" /\ k.id \in Ids /\ k.pass \in Passphrases
        /\ k.blob = Blob(Pass(k.pass), k.id, k.id)
    BY <1>7 DEF RegisterStore, At, Carries
  <2>2. \A s \in Steps : Carries(Put(k, s, k.id, k.blob, k.challenge))
    BY <1>3, <1>4, <2>1 DEF Carries
  <2>3. CASE user # None
    BY <1>5, <1>7, <2>2, <2>3 DEF RegisterStore, Goes, StepsTo, Steps
  <2>4. CASE user = None
    <3> PICK row \in Rows : row = [id |-> k.id, auth |-> k.pass, keys |-> k.blob]
      BY <1>3, <2>1, BlobTypes DEF Rows
    <3>1. user' = row /\ calls' = StepsTo(c, "answered")
          /\ UNCHANGED <<vaults, challenges, drawn>>
      BY <1>7, <2>4 DEF RegisterStore, Goes, StepsTo
    <3>2. RowOpens'
      <4>1. row.keys.key = Pass(row.auth) /\ row.keys.id = row.id /\ row.keys.dh = row.id
        BY <2>1 DEF Blob
      <4>2. row.id \in Ids
        BY <2>1
      <4> QED
        BY <3>1, <4>1, <4>2 DEF RowOpens
    <3> PICK q \in Call : q = Put(k, "answered", k.id, k.blob, k.challenge)
      BY <1>3, <1>4 DEF Steps
    <3>3. calls' = [calls EXCEPT ![c] = q]
      BY <3>1, <1>2, Updates
    <3>4. q.from = calls[c].from /\ q.kind = calls[c].kind
      BY <1>3, <1>4 DEF Steps
    <3>5. VaultOpensWithWords'
      BY <1>2, <3>1 DEF VaultOpensWithWords
    <3>6. Carries(q)
      BY <2>2 DEF Steps
    <3> QED
      BY <1>1, <1>2, <3>1, <3>2, <3>3, <3>4, <3>5, <3>6, ServedCall
  <2> QED
    BY <2>3, <2>4
<1>8. CASE VaultStore(c) \/ CompleteVault(c)
  <2>1. k.id \in Ids /\ k.vault = OwnVault(k.id)
    BY <1>8 DEF VaultStore, CompleteVault, At, Carries
  <2>2. calls' = StepsTo(c, "answered") /\ UNCHANGED <<user, challenges, drawn>>
        /\ vaults' = [vaults EXCEPT ![k.id] = k.vault]
    BY <1>8 DEF VaultStore, CompleteVault, Goes, StepsTo
  <2>3. vaults' \in [Ids -> Vaults]
    BY <1>2, <1>3, <2>2
  <2>4. VaultOpensWithWords'
    <3>1. \A n \in Ids : vaults'[n] = IF n = k.id THEN k.vault ELSE vaults[n]
      BY <1>2, <2>1, <2>2
    <3>2. k.vault.blob = Blob(Words(k.id), k.id, k.id) /\ k.vault.verifier = Words(k.id)
      BY <2>1 DEF OwnVault
    <3> QED
      BY <1>2, <3>1, <3>2 DEF VaultOpensWithWords, Ids
  <2> PICK q \in Call : q = Put(k, "answered", k.id, k.blob, k.challenge)
    BY <1>3, <1>4 DEF Steps
  <2>5. calls' = [calls EXCEPT ![c] = q]
    BY <2>2, <1>2, Updates
  <2>6. q.from = calls[c].from /\ q.kind = calls[c].kind
    BY <1>3, <1>4 DEF Steps
  <2>7. Carries(q)
    <3>1. k.kind \in {"vault", "complete"}
      BY <1>8 DEF VaultStore, CompleteVault, At
    <3> QED
      BY <1>3, <1>4, <2>1, <3>1 DEF Carries, Steps
  <2>8. RowOpens'
    BY <1>2, <2>2 DEF RowOpens
  <2> QED
    BY <1>1, <1>2, <2>2, <2>3, <2>4, <2>5, <2>6, <2>7, <2>8, ServedCall
<1>9. CASE LoginServed(c)
  <2>1. k.kind = "login" /\ k.pass \in Passphrases
    BY <1>9 DEF LoginServed, At, Carries
  <2>2. CASE ~(user # None /\ user.auth = k.pass)
    <3>1. calls' = StepsTo(c, "refused") /\ UNCHANGED <<user, vaults, challenges, drawn>>
      BY <1>9, <2>2 DEF LoginServed, Goes, StepsTo, server
    <3>2. Carries(Put(k, "refused", k.id, k.blob, k.challenge))
      BY <1>3, <1>4, <2>1 DEF Carries, Steps
    <3> QED
      BY <1>5, <3>1, <3>2 DEF Steps
  <2>3. CASE user # None /\ user.auth = k.pass
    <3>1. user.id \in Ids /\ user.keys \in Blobs /\ user.keys.id = user.id
          /\ user.keys.dh \in {0, user.id}
      BY <1>2, <2>3 DEF RowOpens, Rows
    <3>a. user.id \in Numbers
      BY <3>1, BlobTypes
    <3> PICK q \in Call : q = Put(k, "answered", user.id, user.keys, k.challenge)
      BY <1>3, <1>4, <3>1, <3>a DEF Steps
    <3>b. /\ calls' = Learns(c, "answered", user.id, user.keys)
          /\ UNCHANGED <<user, vaults, challenges, drawn>>
      BY <1>9, <2>3 DEF LoginServed, server, Learns
    <3>2. /\ calls' = [calls EXCEPT ![c] = q]
          /\ UNCHANGED <<user, vaults, challenges, drawn>>
      BY <3>b, <1>2, Learnt
    <3>3. q.from = calls[c].from /\ q.kind = calls[c].kind /\ q.kind = "login"
          /\ q.pass = k.pass /\ q.id = user.id /\ q.blob = user.keys
      BY <2>1 DEF Put
    <3>4. Carries(q)
      BY <2>1, <3>1, <3>3 DEF Carries
    <3>5. RowOpens' /\ VaultOpensWithWords'
      BY <1>2, <3>2 DEF RowOpens, VaultOpensWithWords
    <3> QED
      BY <1>1, <1>2, <3>2, <3>3, <3>4, <3>5, ServedCall
  <2> QED
    BY <2>2, <2>3
<1>10. CASE BundleServed(c)
  <2>1. Carries(Put(k, "refused", k.id, k.blob, k.challenge))
    BY <1>3, <1>4, <1>10 DEF BundleServed, At, Carries, Steps
  <2> QED
    BY <1>5, <1>10, <2>1 DEF BundleServed, Goes, StepsTo, server, Steps
<1>11. CASE DeleteServed(c)
  <2> PICK q \in Call : q = Put(k, "answered", k.id, k.blob, k.challenge)
    BY <1>3, <1>4 DEF Steps
  <2>1. q.from = calls[c].from /\ q.kind = calls[c].kind /\ q.kind = "delete"
    BY <1>11 DEF Put, DeleteServed, At
  <2>2. calls' = [calls EXCEPT ![c] = q] /\ UNCHANGED <<vaults, challenges, drawn>>
    BY <1>11, <1>2, Updates DEF DeleteServed, Goes, StepsTo
  <2>3. user' = None \/ user' = user
    BY <1>11 DEF DeleteServed
  <2>4. RowOpens' /\ VaultOpensWithWords' /\ user' \in Rows \cup {None}
    BY <1>2, <2>2, <2>3 DEF RowOpens, VaultOpensWithWords
  <2>5. Carries(q)
    BY <2>1 DEF Carries
  <2> QED
    BY <1>1, <1>2, <2>1, <2>2, <2>4, <2>5, ServedCall
<1>12. CASE StartRead(c)
  <2>1. k.kind = "start" /\ k.pass \in Passphrases
    BY <1>12 DEF StartRead, At, Carries
  <2>2. CASE ~(user # None /\ vaults[user.id] # NoVault)
    <3>1. calls' = StepsTo(c, "refused") /\ UNCHANGED <<user, vaults, challenges, drawn>>
      BY <1>12, <2>2 DEF StartRead, Goes, StepsTo, server
    <3>2. Carries(Put(k, "refused", k.id, k.blob, k.challenge))
      BY <1>3, <1>4, <2>1 DEF Carries, Steps
    <3> QED
      BY <1>5, <3>1, <3>2 DEF Steps
  <2>3. CASE user # None /\ vaults[user.id] # NoVault
    <3> PICK n \in Ids : n = user.id
      BY <1>2, <2>3 DEF RowOpens
    <3>1. vaults[n] \in Vaults /\ vaults[n].blob = Blob(Words(n), n, n)
      BY <1>2, <2>3 DEF VaultOpensWithWords, Ids
    <3> PICK blob \in Blobs : blob = vaults[n].blob
      BY <3>1 DEF Vaults
    <3>a. n \in Numbers
      BY BlobTypes
    <3> PICK q \in Call : q = Put(k, "read", n, blob, k.challenge)
      BY <1>3, <1>4, <3>a DEF Steps
    <3>b. /\ calls' = Learns(c, "read", n, blob)
          /\ UNCHANGED <<user, vaults, challenges, drawn>>
      BY <1>12, <2>3 DEF StartRead, server, Learns
    <3>2. /\ calls' = [calls EXCEPT ![c] = q]
          /\ UNCHANGED <<user, vaults, challenges, drawn>>
      BY <3>b, <1>2, Learnt
    <3>3. q.from = calls[c].from /\ q.kind = calls[c].kind /\ q.kind = "start"
          /\ q.pass = k.pass /\ q.id = n /\ q.blob = blob
      BY <2>1 DEF Put
    <3>4. Carries(q)
      BY <2>1, <3>1, <3>3 DEF Carries
    <3>5. RowOpens' /\ VaultOpensWithWords'
      BY <1>2, <3>2 DEF RowOpens, VaultOpensWithWords
    <3> QED
      BY <1>1, <1>2, <3>2, <3>3, <3>4, <3>5, ServedCall
  <2> QED
    BY <2>2, <2>3
<1>13. CASE StartChallenge(c)
  <2>1. k.kind = "start" /\ k.pass \in Passphrases /\ k.id \in Ids
        /\ k.blob = Blob(Words(k.id), k.id, k.id)
    BY <1>13 DEF StartChallenge, At, Carries
  <2>2. drawn' \in Numbers /\ drawn' \in Nat
    BY <1>2, <1>13, BlobTypes DEF StartChallenge, Draw, Numbers
  <2> PICK n \in Nat : n = drawn'
    BY <2>2
  <2> PICK q \in Call : q = Put(k, "answered", k.id, k.blob, n)
    BY <1>3, <1>4 DEF Steps
  <2>a. /\ calls' = Keeps(c, "answered", n)
        /\ UNCHANGED <<user, vaults>> /\ challenges' = [challenges EXCEPT ![k.id] = n]
    BY <1>13 DEF StartChallenge, Keeps
  <2>3. /\ calls' = [calls EXCEPT ![c] = q] /\ UNCHANGED <<user, vaults>>
        /\ challenges' = [challenges EXCEPT ![k.id] = n]
    BY <2>a, <1>2, Updates
  <2>4. q.from = calls[c].from /\ q.kind = calls[c].kind /\ q.kind = "start"
        /\ q.pass = k.pass /\ q.id = k.id /\ q.blob = k.blob
    BY <2>1 DEF Put
  <2>5. Carries(q)
    BY <2>1, <2>4 DEF Carries
  <2>6. RowOpens' /\ VaultOpensWithWords' /\ challenges' \in [Ids -> Nat]
    BY <1>2, <2>1, <2>3 DEF RowOpens, VaultOpensWithWords
  <2> QED
    BY <1>1, <1>2, <2>2, <2>3, <2>4, <2>5, <2>6, ServedCall
<1>14. CASE CompleteMatch(c)
  <2>1. k.kind = "complete" /\ k.pass \in Passphrases
        /\ k.blob = Blob(Pass(k.pass), k.words, k.words) /\ k.vault = OwnVault(k.words)
    BY <1>14 DEF CompleteMatch, At, Carries
  <2>2. CASE ~(user # None /\ challenges[user.id] = k.challenge)
    <3>1. calls' = StepsTo(c, "refused") /\ UNCHANGED <<user, vaults, challenges, drawn>>
      BY <1>14, <2>2 DEF CompleteMatch, Goes, StepsTo, server
    <3>2. Carries(Put(k, "refused", k.id, k.blob, k.challenge))
      BY <1>3, <1>4, <2>1 DEF Carries, Steps
    <3> QED
      BY <1>5, <3>1, <3>2 DEF Steps
  <2>3. CASE user # None /\ challenges[user.id] = k.challenge
    <3> PICK n \in Ids : n = user.id
      BY <1>2, <2>3 DEF RowOpens
    <3>a. n \in Numbers
      BY BlobTypes
    <3> PICK q \in Call : q = Put(k, "matched", n, k.blob, k.challenge)
      BY <1>3, <1>4, <3>a DEF Steps
    <3>b. /\ calls' = Finds(c, "matched", n)
          /\ UNCHANGED <<user, vaults, challenges, drawn>>
      BY <1>14, <2>3 DEF CompleteMatch, server, Finds
    <3>1. /\ calls' = [calls EXCEPT ![c] = q]
          /\ UNCHANGED <<user, vaults, challenges, drawn>>
      BY <3>b, <1>2, Updates
    <3>2. q.from = calls[c].from /\ q.kind = calls[c].kind /\ q.kind = "complete"
          /\ q.step = "matched" /\ q.pass = k.pass /\ q.words = k.words
          /\ q.id = n /\ q.blob = k.blob /\ q.vault = k.vault
      BY <2>1 DEF Put
    <3>3. Carries(q)
      BY <2>1, <3>2 DEF Carries
    <3>4. RowOpens' /\ VaultOpensWithWords'
      BY <1>2, <3>1 DEF RowOpens, VaultOpensWithWords
    <3> QED
      BY <1>1, <1>2, <3>1, <3>2, <3>3, <3>4, ServedCall
  <2> QED
    BY <2>2, <2>3
<1>15. CASE CompleteVerify(c)
  <2>1. k.kind = "complete" /\ k.pass \in Passphrases /\ k.id \in Ids
        /\ k.blob = Blob(Pass(k.pass), k.words, k.words) /\ k.vault = OwnVault(k.words)
    BY <1>15 DEF CompleteVerify, At, Carries
  <2> PICK s \in Steps :
         /\ s = IF vaults[k.id] # NoVault /\ vaults[k.id].verifier = Words(k.words)
                THEN "verified" ELSE "refused"
    BY DEF Steps
  <2> PICK q \in Call : q = Put(k, s, k.id, k.blob, k.challenge)
    BY <1>3, <1>4
  <2>2. /\ calls' = [calls EXCEPT ![c] = q] /\ UNCHANGED <<user, vaults, drawn>>
        /\ challenges' = [challenges EXCEPT ![k.id] = 0]
    BY <1>15, <1>2, Updates DEF CompleteVerify, Goes, StepsTo
  <2>3. q.from = calls[c].from /\ q.kind = calls[c].kind /\ q.kind = "complete"
        /\ q.step = s /\ q.pass = k.pass /\ q.words = k.words
        /\ q.id = k.id /\ q.blob = k.blob /\ q.vault = k.vault
    BY <2>1 DEF Put
  <2>4. s = "verified" => k.id = k.words
    BY <1>2, <2>1, WordsDiffer DEF VaultOpensWithWords, Ids
  <2>5. s \in {"verified", "refused"}
    OBVIOUS
  <2>6. Carries(q)
    BY <2>1, <2>3, <2>4, <2>5 DEF Carries
  <2>7. RowOpens' /\ VaultOpensWithWords' /\ challenges' \in [Ids -> Nat]
    BY <1>2, <2>1, <2>2 DEF RowOpens, VaultOpensWithWords
  <2> QED
    BY <1>1, <1>2, <2>2, <2>3, <2>6, <2>7, ServedCall
<1>16. CASE CompleteUpdate(c)
  <2>1. k.kind = "complete" /\ k.pass \in Passphrases /\ k.id \in Ids /\ k.id = k.words
        /\ k.blob = Blob(Pass(k.pass), k.words, k.words) /\ k.vault = OwnVault(k.words)
    BY <1>16 DEF CompleteUpdate, At, Carries
  <2> PICK q \in Call : q = Put(k, "updated", k.id, k.blob, k.challenge)
    BY <1>3, <1>4 DEF Steps
  <2>2. /\ calls' = [calls EXCEPT ![c] = q] /\ UNCHANGED <<vaults, challenges, drawn>>
    BY <1>16, <1>2, Updates DEF CompleteUpdate, Goes, StepsTo
  <2>3. q.from = calls[c].from /\ q.kind = calls[c].kind /\ q.kind = "complete"
        /\ q.step = "updated" /\ q.pass = k.pass /\ q.words = k.words
        /\ q.id = k.id /\ q.blob = k.blob /\ q.vault = k.vault
    BY <2>1 DEF Put
  <2>4. Carries(q)
    BY <2>1, <2>3 DEF Carries
  <2>5. user' \in Rows \cup {None} /\ RowOpens'
    <3>1. CASE user # None /\ user.id = k.id
      <4> PICK row \in Rows : row = [id |-> k.id, auth |-> k.pass, keys |-> k.blob]
        BY <1>3, <2>1, BlobTypes DEF Rows
      <4>1. [user EXCEPT !.auth = k.pass, !.keys = k.blob] = row
        <5> PICK old \in Rows : old = user
          BY <1>2, <3>1
        <5> DEFINE half == [old EXCEPT !.auth = k.pass]
        <5>1. half = [id |-> k.id, auth |-> k.pass, keys |-> old.keys]
          BY <3>1 DEF Rows
        <5>2. [half EXCEPT !.keys = k.blob] = row
          <6> HIDE DEF half
          <6> QED
            BY <5>1
        <5>3. [old EXCEPT !.auth = k.pass, !.keys = k.blob] = [half EXCEPT !.keys = k.blob]
          BY Zenon
        <5> QED
          BY <5>2, <5>3
      <4>2. user' = row
        BY <1>16, <3>1, <4>1 DEF CompleteUpdate
      <4>3. row.keys.key = Pass(row.auth) /\ row.keys.id = row.id /\ row.keys.dh = row.id
            /\ row.id \in Ids
        BY <2>1 DEF Blob
      <4> QED
        BY <4>2, <4>3 DEF RowOpens
    <3>2. CASE ~(user # None /\ user.id = k.id)
      BY <1>2, <1>16, <3>2 DEF CompleteUpdate, RowOpens
    <3> QED
      BY <3>1, <3>2
  <2>6. VaultOpensWithWords'
    BY <1>2, <2>2 DEF VaultOpensWithWords
  <2> QED
    BY <1>1, <1>2, <2>2, <2>3, <2>4, <2>5, <2>6, ServedCall
<1> QED
  BY <1>6, <1>7, <1>8, <1>9, <1>10, <1>11, <1>12, <1>13, <1>14, <1>15, <1>16 DEF Serve

-----------------------------------------------------------------------------
(* The browsers' steps *)

(* PageFits, of a page and a disk that are given, with its one request.     *)
Fits(p, s, done, kind) ==
    /\ p.dh # 0 => p.at \in {"app", "waiting"} /\ kind \in {"bundle", "delete"}
    /\ p.at \in {"opening", "restoring"} =>
          p.id \in Ids /\ s.token = p.id /\ p.blob.id = p.id /\ p.blob.dh \in {0, p.id}
    /\ p.at = "restoring" => s.priv = p.id
    /\ done =>
          /\ p.at \in {"app", "waiting"} /\ kind = "delete"
          /\ s.token # 0 /\ s.priv = s.token /\ s.secureDH = s.token /\ p.dh \in {0, s.token}

(* What a step of browser b leaves alone, where its page and its disk get   *)
(* to, and the requests after it: at most one of the browser's own.         *)
Onward(b) ==
    /\ UNCHANGED server
    /\ drawn' \in Numbers /\ written' \in SUBSET Numbers
    /\ restored' \in SUBSET Browsers /\ \A e \in restored' : e \in restored \/ e = b

MovesTo(b, p, s) == page' = [page EXCEPT ![b] = p] /\ disk' = [disk EXCEPT ![b] = s]

Requests(b, p, kind) ==
    /\ calls' \in [Calls -> Call] /\ \A c \in Calls : Carries(calls'[c])
    /\ \A c \in Calls : calls'[c] = calls[c] \/ calls'[c].from \in {b, None}
    /\ \A c \in Calls : calls'[c].from = b => p.at = "waiting" /\ calls'[c].kind = kind
    /\ \A c, d \in Calls : calls'[c].from = b /\ calls'[d].from = b => d = c

LEMMA OneMoves ==
    ASSUME AccountsInv, NEW b \in Browsers, NEW p \in Page, NEW s \in Storage, NEW kind,
           Onward(b), MovesTo(b, p, s), Requests(b, p, kind), Fits(p, s, b \in restored', kind)
    PROVE  AccountsInv'
<1>0. /\ page' = [page EXCEPT ![b] = p] /\ disk' = [disk EXCEPT ![b] = s]
      /\ UNCHANGED server /\ drawn' \in Numbers /\ written' \in SUBSET Numbers
      /\ restored' \in SUBSET Browsers /\ \A e \in restored' : e \in restored \/ e = b
      /\ calls' \in [Calls -> Call] /\ \A c \in Calls : Carries(calls'[c])
      /\ \A c \in Calls : calls'[c] = calls[c] \/ calls'[c].from \in {b, None}
      /\ \A c \in Calls : calls'[c].from = b => p.at = "waiting" /\ calls'[c].kind = kind
      /\ \A c, d \in Calls : calls'[c].from = b /\ calls'[d].from = b => d = c
  BY Zenon DEF Onward, MovesTo, Requests
<1>1. page \in [Browsers -> Page] /\ disk \in [Browsers -> Storage]
  BY DEF AccountsInv, AccountsTypeOK
<1>2. page'[b] = p /\ disk'[b] = s
  BY <1>0, <1>1
<1>3. AccountsTypeOK'
  BY <1>0, <1>1 DEF AccountsInv, AccountsTypeOK, server
<1>4. RowOpens' /\ VaultOpensWithWords'
  BY <1>0 DEF AccountsInv, RowOpens, VaultOpensWithWords, server
<1>5. ASSUME NEW c \in Calls PROVE Carries(calls[c])'
  <2>1. PICK k \in Call : k = calls'[c] /\ Carries(k)
    BY <1>0
  <2> QED
    BY <2>1
<1>6. PageFits(b)'
  <2>1. Waits(b)'
    BY <1>0, <1>2 DEF Waits
  <2>2. PairIsOfTheApp(b)'
    BY <1>0, <1>2 DEF PairIsOfTheApp, Fits
  <2>3. SignsIn(b)'
    BY <1>0, <1>2 DEF SignsIn, Fits
  <2>4. Signed(b)'
    BY <1>0, <1>2 DEF Signed, Fits
  <2> QED
    BY <2>1, <2>2, <2>3, <2>4 DEF PageFits
<1>7. ASSUME NEW e \in Browsers, e # b PROVE PageFits(e)'
  <2>1. page'[e] = page[e] /\ disk'[e] = disk[e] /\ (e \in restored' => e \in restored)
    BY <1>0, <1>1, <1>7
  <2>2. \A c \in Calls : calls'[c].from = e => calls[c].from = e /\ calls'[c].kind = calls[c].kind
    BY <1>0, <1>7, PageIsSome
  <2>3. PageFits(e)
    BY DEF AccountsInv
  <2> QED
    BY <2>1, <2>2, <2>3, PageLeftAlone
<1> QED
  BY <1>3, <1>4, <1>5, <1>6, <1>7 DEF AccountsInv

(* The only request of b, if it has one, is c.                              *)
Only(b, c) == \A d \in Calls : calls[d].from = b => d = c

KindFor(b, q) == IF q.from = b THEN q.kind ELSE "delete"

(* One that sends, hears of or forgets a request.                           *)
LEMMA CallMoves ==
    ASSUME AccountsInv, NEW b \in Browsers, NEW p \in Page, NEW s \in Storage,
           NEW c \in Calls, NEW q \in Call, Only(b, c), Onward(b), MovesTo(b, p, s),
           calls' = [calls EXCEPT ![c] = q], Carries(q),
           q.from = None \/ (q.from = b /\ p.at = "waiting"),
           Fits(p, s, b \in restored', KindFor(b, q))
    PROVE  AccountsInv'
<1> DEFINE kind == KindFor(b, q)
<1>1. calls \in [Calls -> Call] /\ \A d \in Calls : Carries(calls[d])
  BY DEF AccountsInv, AccountsTypeOK
<1>2. \A d \in Calls : calls'[d] = IF d = c THEN q ELSE calls[d]
  BY <1>1
<1>3. calls' \in [Calls -> Call] /\ \A d \in Calls : Carries(calls'[d])
  BY <1>1, <1>2
<1>4. Requests(b, p, kind)
  <2>1. \A d \in Calls : calls'[d] = calls[d] \/ calls'[d].from \in {b, None}
    BY <1>2
  <2>2. \A d \in Calls : calls'[d].from = b => d = c
    BY <1>2 DEF Only
  <2>3. \A d \in Calls : calls'[d].from = b => p.at = "waiting" /\ calls'[d].kind = kind
    BY <1>2, <2>2, PageIsSome DEF KindFor
  <2> HIDE DEF kind
  <2> QED
    BY <1>3, <2>1, <2>2, <2>3 DEF Requests
<1> QED
  BY <1>4, OneMoves

(* One that has no request and sends none.                                  *)
LEMMA PageMoves ==
    ASSUME AccountsInv, NEW b \in Browsers, NEW p \in Page, NEW s \in Storage,
           MovesTo(b, p, s), calls' = calls, page[b].at # "waiting", Onward(b),
           Fits(p, s, b \in restored', "delete")
    PROVE  AccountsInv'
<1>1. calls \in [Calls -> Call] /\ \A d \in Calls : Carries(calls[d])
  BY DEF AccountsInv, AccountsTypeOK
<1>2. \A d \in Calls : calls[d].from # b
  BY DEF AccountsInv, PageFits, Waits
<1>3. Requests(b, p, "delete")
  BY <1>1, <1>2 DEF Requests
<1> QED
  BY <1>3, OneMoves

(* What a step of a browser starts from.                                    *)
LEMMA Facts ==
    ASSUME AccountsInv, NEW b \in Browsers
    PROVE  /\ page \in [Browsers -> Page] /\ page[b] \in Page
           /\ disk \in [Browsers -> Storage] /\ disk[b] \in Storage
           /\ disk = [disk EXCEPT ![b] = disk[b]]
           /\ calls \in [Calls -> Call] /\ \A c \in Calls : Carries(calls[c])
           /\ drawn \in Numbers /\ written \in SUBSET Numbers /\ restored \in SUBSET Browsers
           /\ Waits(b) /\ PairIsOfTheApp(b) /\ SignsIn(b) /\ Signed(b)
           /\ Quiet \in Call /\ Carries(Quiet) /\ Landing \in Page /\ Empty \in Storage
<1>1. page \in [Browsers -> Page] /\ page[b] \in Page /\ disk \in [Browsers -> Storage]
      /\ disk[b] \in Storage /\ calls \in [Calls -> Call]
      /\ drawn \in Numbers /\ written \in SUBSET Numbers /\ restored \in SUBSET Browsers
  BY DEF AccountsInv, AccountsTypeOK
<1>2. disk = [disk EXCEPT ![b] = disk[b]]
  BY <1>1
<1>3. 0 \in Numbers /\ 0 \in Nat /\ NoBlob \in Blobs /\ NoVault \in Vaults
  BY BlobTypes DEF Numbers
<1>4. Quiet \in Call
  BY <1>3 DEF Quiet, Call, Kinds, Steps
<1>5. Carries(Quiet)
  BY DEF Quiet, Carries
<1>6. Landing \in Page
  BY <1>3 DEF Landing, Page, Places
<1>7. Empty \in Storage
  BY <1>3 DEF Empty, Storage
<1> QED
  BY <1>1, <1>2, <1>4, <1>5, <1>6, <1>7 DEF AccountsInv, PageFits

(* What a page is at is changed, or the page goes back to a form.           *)
LEMMA PageGoes ==
    ASSUME AccountsInv, NEW b \in Browsers, NEW at \in Places
    PROVE  /\ GoesTo(b, at) =>
                \E p \in Page : /\ page' = [page EXCEPT ![b] = p]
                                /\ p.at = at /\ p.pass = page[b].pass /\ p.id = page[b].id
                                /\ p.blob = page[b].blob /\ p.dh = page[b].dh
           /\ Enters(b, at) =>
                \E p \in Page : /\ page' = [page EXCEPT ![b] = p]
                                /\ p.at = at /\ p.dh = page[b].dh
<1> PICK pg \in Page : pg = page[b]
  BY Facts
<1>1. ASSUME GoesTo(b, at)
      PROVE  \E p \in Page : /\ page' = [page EXCEPT ![b] = p]
                             /\ p.at = at /\ p.pass = page[b].pass /\ p.id = page[b].id
                             /\ p.blob = page[b].blob /\ p.dh = page[b].dh
  <2> PICK p : p = [pg EXCEPT !.at = at]
    OBVIOUS
  <2>1. p \in Page /\ p.at = at /\ p.pass = pg.pass /\ p.id = pg.id /\ p.blob = pg.blob /\ p.dh = pg.dh
    BY DEF Page
  <2>2. page' = [page EXCEPT ![b] = p]
    BY <1>1 DEF GoesTo
  <2> QED
    BY <2>1, <2>2
<1>2. ASSUME Enters(b, at)
      PROVE  \E p \in Page : page' = [page EXCEPT ![b] = p] /\ p.at = at /\ p.dh = page[b].dh
  <2> PICK p : p = [Landing EXCEPT !.at = at, !.dh = pg.dh]
    OBVIOUS
  <2>1. p \in Page /\ p.at = at /\ p.dh = pg.dh
    BY Facts DEF Page
  <2>2. page' = [page EXCEPT ![b] = p]
    BY <1>2 DEF Enters
  <2> QED
    BY <2>1, <2>2
<1> QED
  BY <1>1, <1>2

(* A page at a form or in the app has no request, so it may send one.       *)
LEMMA SendsFrom ==
    ASSUME AccountsInv, NEW b \in Browsers, NEW c \in Calls, NEW q \in Call,
           page[b].at \in {"landing", "app"}, calls' = [calls EXCEPT ![c] = q], q.from = b,
           Carries(q), GoesTo(b, "waiting"), server' = server, disk' = disk,
           written' = written, restored' = restored, drawn' \in Numbers,
           page[b].at = "app" => q.kind = "delete"
    PROVE  AccountsInv'
<1> PICK p \in Page : page' = [page EXCEPT ![b] = p] /\ p.at = "waiting" /\ p.dh = page[b].dh
  BY PageGoes DEF Places
<1>4. \A d \in Calls : calls[d].from # b
  BY Facts DEF Waits
<1>5. p.dh # 0 => q.kind = "delete"
  BY Facts DEF PairIsOfTheApp
<1>6. b \in restored' =>
         /\ q.kind = "delete" /\ disk[b].token # 0 /\ disk[b].priv = disk[b].token
         /\ disk[b].secureDH = disk[b].token /\ p.dh \in {0, disk[b].token}
  BY Facts DEF Signed
<1> PICK s \in Storage : s = disk[b] /\ disk' = [disk EXCEPT ![b] = s]
  BY Facts
<1>7. Fits(p, s, b \in restored', KindFor(b, q))
  BY <1>5, <1>6 DEF Fits, KindFor
<1>8. Onward(b)
  BY Facts DEF Onward
<1>9. Only(b, c) /\ MovesTo(b, p, s)
  BY <1>4 DEF Only, MovesTo
<1> QED
  BY <1>7, <1>8, <1>9, CallMoves

(* Registration, login, the start of a recovery, deletion of the account.   *)
LEMMA FormStep ==
    ASSUME AccountsInv, NEW b \in Browsers, NEW c \in Calls,
           \/ \E p \in Passphrases :
                 Register(b, p, c) \/ Login(b, p, c) \/ \E n \in written : Recover(b, n, p, c)
           \/ DeleteAccount(b, c)
    PROVE  AccountsInv'
<1>a. Quiet \in Call /\ drawn \in Numbers /\ written \in SUBSET Numbers
  BY Facts
<1>b. disk[b].token \in Numbers
  BY Facts DEF Storage
<1>c. Ids \subseteq Numbers /\ Ids \subseteq Nat
  BY BlobTypes
<1>1. ASSUME NEW p \in Passphrases, Register(b, p, c) PROVE AccountsInv'
  <2>a. /\ drawn < MaxDrawn /\ drawn' = drawn + 1
        /\ page[b].at = "landing" /\ GoesTo(b, "waiting")
        /\ UNCHANGED <<server, disk, written, restored>>
        /\ Sends(b, c, [Quiet EXCEPT !.kind = "register", !.id = drawn', !.pass = p,
                                     !.blob = Blob(Pass(p), drawn', drawn')])
    BY <1>1, Zenon DEF Register, Draw
  <2>1. drawn' \in Ids
    <3> HIDE DEF Sends
    <3>1. drawn < MaxDrawn /\ drawn' = drawn + 1
      BY <2>a, Zenon
    <3> QED
      BY <1>a, <3>1, AccountsAssumption DEF Numbers, Ids
  <2> PICK n \in Ids : n = drawn'
    BY <2>1
  <2> PICK blob \in Blobs : blob = Blob(Pass(p), n, n)
    BY <1>c, BlobTypes
  <2> PICK q : q = [[Quiet EXCEPT !.kind = "register", !.id = n, !.pass = p, !.blob = blob]
                    EXCEPT !.from = b, !.step = "sent"]
    OBVIOUS
  <2>2. q \in Call /\ q.kind = "register" /\ q.id = n /\ q.pass = p /\ q.blob = blob /\ q.from = b
    BY <1>a, <1>c DEF Call, Kinds, Steps
  <2>3. calls' = [calls EXCEPT ![c] = q]
    BY <2>a, Zenon DEF Sends
  <2>4. Carries(q)
    BY <2>2 DEF Carries
  <2>5. /\ page[b].at = "landing" /\ GoesTo(b, "waiting") /\ server' = server /\ disk' = disk
        /\ written' = written /\ restored' = restored
    BY <2>a, Zenon
  <2>6. drawn' \in Numbers
    BY <1>c, <2>1
  <2> QED
    BY <2>2, <2>3, <2>4, <2>5, <2>6, SendsFrom
<1>2. ASSUME NEW p \in Passphrases, Login(b, p, c) PROVE AccountsInv'
  <2> PICK q : q = [[Quiet EXCEPT !.kind = "login", !.pass = p] EXCEPT !.from = b, !.step = "sent"]
    OBVIOUS
  <2>2. q \in Call /\ q.kind = "login" /\ q.pass = p /\ q.from = b /\ q.step = "sent"
    BY <1>a DEF Call, Kinds, Steps
  <2>3. calls' = [calls EXCEPT ![c] = q]
    BY <1>2, Zenon DEF Login, Sends
  <2>4. Carries(q)
    BY <2>2 DEF Carries
  <2>5. /\ page[b].at = "landing" /\ GoesTo(b, "waiting") /\ server' = server /\ disk' = disk
        /\ written' = written /\ restored' = restored /\ drawn' = drawn
    BY <1>2, Zenon DEF Login
  <2> QED
    BY <1>a, <2>2, <2>3, <2>4, <2>5, SendsFrom
<1>3. ASSUME NEW p \in Passphrases, NEW n \in written, Recover(b, n, p, c) PROVE AccountsInv'
  <2> PICK q : q = [[Quiet EXCEPT !.kind = "start", !.pass = p, !.words = n]
                    EXCEPT !.from = b, !.step = "sent"]
    OBVIOUS
  <2>2. q \in Call /\ q.kind = "start" /\ q.pass = p /\ q.from = b /\ q.step = "sent"
    BY <1>a DEF Call, Kinds, Steps
  <2>3. calls' = [calls EXCEPT ![c] = q]
    BY <1>3, Zenon DEF Recover, Sends
  <2>4. Carries(q)
    BY <2>2 DEF Carries
  <2>5. /\ page[b].at = "landing" /\ GoesTo(b, "waiting") /\ server' = server /\ disk' = disk
        /\ written' = written /\ restored' = restored /\ drawn' = drawn
    BY <1>3, Zenon DEF Recover
  <2> QED
    BY <1>a, <2>2, <2>3, <2>4, <2>5, SendsFrom
<1>4. ASSUME DeleteAccount(b, c) PROVE AccountsInv'
  <2> PICK n \in Numbers : n = disk[b].token
    BY <1>b
  <2> PICK q : q = [[Quiet EXCEPT !.kind = "delete", !.id = n] EXCEPT !.from = b, !.step = "sent"]
    OBVIOUS
  <2>2. q \in Call /\ q.kind = "delete" /\ q.from = b
    BY <1>a DEF Call, Kinds, Steps
  <2>3. calls' = [calls EXCEPT ![c] = q]
    BY <1>4, Zenon DEF DeleteAccount, Sends
  <2>4. Carries(q)
    BY <2>2 DEF Carries
  <2>5. /\ page[b].at = "app" /\ GoesTo(b, "waiting") /\ server' = server /\ disk' = disk
        /\ written' = written /\ restored' = restored /\ drawn' = drawn
    BY <1>4, Zenon DEF DeleteAccount
  <2> QED
    BY <1>a, <2>2, <2>3, <2>4, <2>5, SendsFrom
<1> QED
  BY <1>1, <1>2, <1>3, <1>4

-----------------------------------------------------------------------------
(* The answers *)

(* The page that sent a request waits for it alone; with a DH pair in       *)
(* memory, or signed in, it sent one of few kinds.                          *)
LEMMA Heard ==
    ASSUME AccountsInv, NEW b \in Browsers, NEW c \in Calls, calls[c].from = b
    PROVE  /\ page[b].at = "waiting" /\ Only(b, c)
           /\ page[b].dh # 0 => calls[c].kind \in {"bundle", "delete"}
           /\ b \in restored => calls[c].kind = "delete"
BY Facts DEF Waits, PairIsOfTheApp, Signed, Only

(* The upload of the vault after a registration.                            *)
LEMMA VaultCall ==
    ASSUME AccountsInv, NEW b \in Browsers, NEW n \in Ids, NEW v \in Vaults, v = OwnVault(n),
           NEW q, q = [Quiet EXCEPT !.kind = "vault", !.from = b, !.step = "sent", !.id = n,
                                    !.vault = v]
    PROVE  q \in Call /\ Carries(q) /\ q.from = b
<1>1. Quiet \in Call
  BY Facts
<1>2. n \in Numbers
  BY BlobTypes
<1>3. q \in Call /\ q.kind = "vault" /\ q.from = b /\ q.id = n /\ q.vault = v
  BY <1>1, <1>2 DEF Call, Kinds, Steps
<1> QED
  BY <1>3 DEF Carries

LEMMA RegisterAnsweredStep ==
    ASSUME AccountsInv, NEW b \in Browsers, NEW c \in Calls, RegisterAnswered(b, c)
    PROVE  AccountsInv'
<1> PICK k \in Call : k = calls[c] /\ Carries(k)
  BY Facts
<1> PICK n : n = k.id
  OBVIOUS
<1>1. /\ k.from = b /\ k.kind = "register"
      /\ disk' = [disk EXCEPT ![b] = [disk[b] EXCEPT !.token = n, !.priv = n, !.localDH = n]]
      /\ calls' = [calls EXCEPT ![c] = [Quiet EXCEPT
             !.kind = "vault", !.from = b, !.step = "sent", !.id = n,
             !.vault = [blob |-> Blob(Words(n), n, n), verifier |-> Words(n)]]]
      /\ page' = [page EXCEPT ![b] = [page[b] EXCEPT !.id = n]]
      /\ restored' = restored \ {b}
      /\ UNCHANGED <<server, drawn, written>>
  BY Zenon DEF RegisterAnswered, Answered, At
<1>2. n \in Ids /\ n \in Numbers /\ n \in Nat
  BY <1>1, BlobTypes DEF Carries
<1>3. page[b].at = "waiting" /\ Only(b, c) /\ page[b].dh = 0
  BY <1>1, Heard
<1> PICK s : s = [disk[b] EXCEPT !.token = n, !.priv = n, !.localDH = n]
  OBVIOUS
<1>4. s \in Storage
  BY <1>2, Facts DEF Storage
<1> PICK p : p = [page[b] EXCEPT !.id = n]
  OBVIOUS
<1>5. p \in Page /\ p.at = "waiting" /\ p.dh = 0
  BY <1>2, <1>3, Facts DEF Page
<1> PICK v \in Vaults : v = OwnVault(n)
  BY <1>2, BlobTypes
<1> PICK q : q = [Quiet EXCEPT !.kind = "vault", !.from = b, !.step = "sent", !.id = n, !.vault = v]
  OBVIOUS
<1>6. q \in Call /\ Carries(q) /\ q.from = b
  BY <1>2, VaultCall, Zenon
<1>8. calls' = [calls EXCEPT ![c] = q]
  BY <1>1, Zenon DEF OwnVault
<1>9. MovesTo(b, p, s)
  BY <1>1, Zenon DEF MovesTo
<1>10. Onward(b)
  BY <1>1, Facts DEF Onward
<1>11. Fits(p, s, b \in restored', KindFor(b, q))
  BY <1>1, <1>5 DEF Fits
<1> QED
  BY <1>3, <1>4, <1>5, <1>6, <1>8, <1>9, <1>10, <1>11, CallMoves

LEMMA LoginAnsweredStep ==
    ASSUME AccountsInv, NEW b \in Browsers, NEW c \in Calls, LoginAnswered(b, c)
    PROVE  AccountsInv'
<1> PICK k \in Call : k = calls[c] /\ Carries(k)
  BY Facts
<1>1. /\ k.from = b /\ k.kind = "login" /\ k.step = "answered"
      /\ disk' = [disk EXCEPT ![b].token = k.id]
      /\ page' = [page EXCEPT ![b] = [page[b] EXCEPT
             !.at = "opening", !.pass = k.pass, !.id = k.id, !.blob = k.blob]]
      /\ calls' = [calls EXCEPT ![c] = Quiet]
      /\ restored' = restored \ {b}
      /\ UNCHANGED <<server, drawn, written>>
  BY Zenon DEF LoginAnswered, Answered, At
<1>2. k.id \in Ids /\ k.blob.id = k.id /\ k.blob.dh \in {0, k.id}
  BY <1>1 DEF Carries
<1>3. page[b].at = "waiting" /\ Only(b, c) /\ page[b].dh = 0
  BY <1>1, Heard
<1>a. k.id \in Numbers /\ k.blob \in Blobs /\ k.pass \in Passphrases \cup {None}
  BY DEF Call
<1> PICK s : s = [disk[b] EXCEPT !.token = k.id]
  OBVIOUS
<1>4. s \in Storage /\ s.token = k.id
  BY <1>a, Facts DEF Storage
<1> PICK p : p = [page[b] EXCEPT !.at = "opening", !.pass = k.pass, !.id = k.id, !.blob = k.blob]
  OBVIOUS
<1>5. p \in Page /\ p.at = "opening" /\ p.id = k.id /\ p.blob = k.blob /\ p.dh = 0
  BY <1>a, <1>3, Facts DEF Page, Places
<1> PICK q \in Call : q = Quiet /\ Carries(q)
  BY Facts
<1>6. q.from = None /\ calls' = [calls EXCEPT ![c] = q]
  BY <1>1 DEF Quiet
<1>9. MovesTo(b, p, s)
  BY <1>1, Zenon DEF MovesTo
<1>10. Onward(b)
  BY <1>1, Facts DEF Onward
<1>11. Fits(p, s, b \in restored', KindFor(b, q))
  BY <1>1, <1>2, <1>4, <1>5 DEF Fits
<1>12. q.from = None \/ (q.from = b /\ p.at = "waiting")
  BY <1>6
<1> QED
  BY <1>3, <1>4, <1>5, <1>6, <1>9, <1>10, <1>11, <1>12, CallMoves

LEMMA StartAnsweredStep ==
    ASSUME AccountsInv, NEW b \in Browsers, NEW c \in Calls, StartAnswered(b, c)
    PROVE  AccountsInv'
<1> PICK k \in Call : k = calls[c] /\ Carries(k)
  BY Facts
<1> PICK mine : mine = k.blob
  OBVIOUS
<1>1. /\ k.from = b /\ k.kind = "start" /\ k.step = "answered" /\ mine.key = Words(k.words)
      /\ calls' = [calls EXCEPT ![c] = [k EXCEPT
             !.kind = "complete", !.step = "sent", !.id = 0,
             !.blob = Blob(Pass(k.pass), mine.id, mine.dh),
             !.vault = [blob |-> mine, verifier |-> mine.key]]]
      /\ UNCHANGED <<server, drawn, page, disk, written, restored>>
  BY Zenon DEF StartAnswered, Answered, At, browser
<1>2. k.id \in Ids /\ mine = Blob(Words(k.id), k.id, k.id) /\ k.pass \in Passphrases
  BY <1>1 DEF Carries
<1>3. page[b].at = "waiting" /\ Only(b, c) /\ page[b].dh = 0 /\ b \notin restored
  BY <1>1, Heard
<1>4. mine.key = Words(k.id) /\ mine.id = k.id /\ mine.dh = k.id
  BY <1>2 DEF Blob
<1>5. k.id = k.words
  BY <1>1, <1>4, WordsDiffer
<1>a. k.id \in Numbers /\ k.id \in Nat
  BY <1>2, BlobTypes
<1> PICK blob \in Blobs : blob = Blob(Pass(k.pass), k.words, k.words)
  BY <1>2, <1>5, <1>a, BlobTypes
<1> PICK v \in Vaults : v = OwnVault(k.words)
  BY <1>5, <1>a, BlobTypes
<1>6. v = [blob |-> mine, verifier |-> mine.key] /\ blob = Blob(Pass(k.pass), mine.id, mine.dh)
  BY <1>2, <1>4, <1>5 DEF OwnVault
<1> PICK q : q = [k EXCEPT !.kind = "complete", !.step = "sent", !.id = 0, !.blob = blob, !.vault = v]
  OBVIOUS
<1>7. q \in Call /\ q.kind = "complete" /\ q.step = "sent" /\ q.from = b /\ q.pass = k.pass
      /\ q.words = k.words /\ q.blob = blob /\ q.vault = v
  <2>1. 0 \in Numbers
    BY BlobTypes DEF Numbers
  <2> QED
    BY <1>1, <2>1 DEF Call, Kinds, Steps
<1>8. Carries(q)
  BY <1>2, <1>7 DEF Carries
<1>9. calls' = [calls EXCEPT ![c] = q]
  BY <1>1, <1>6, Zenon
<1> PICK p \in Page : p = page[b]
  BY Facts
<1> PICK s \in Storage : s = disk[b]
  BY Facts
<1>10. MovesTo(b, p, s)
  BY <1>1, Facts DEF MovesTo
<1>11. Onward(b)
  BY <1>1, Facts DEF Onward
<1>12. Fits(p, s, b \in restored', KindFor(b, q))
  BY <1>1, <1>3 DEF Fits
<1> QED
  BY <1>3, <1>7, <1>8, <1>9, <1>10, <1>11, <1>12, CallMoves

(* The call ends for the page, and q is what is left of it.                 *)
LEMMA EndsMoves ==
    ASSUME AccountsInv, NEW b \in Browsers, NEW c \in Calls, calls[c].from = b,
           Ends(b, calls[c].kind), UNCHANGED <<server, drawn>>,
           NEW q \in Call, q.from = None, Carries(q), calls' = [calls EXCEPT ![c] = q]
    PROVE  AccountsInv'
<1> PICK kind : kind = calls[c].kind
  OBVIOUS
<1>1. /\ Only(b, c)
      /\ page[b].dh # 0 => kind \in {"bundle", "delete"}
      /\ b \in restored => kind = "delete"
  BY Heard
<1>2. Ends(b, kind)
  OBVIOUS
<1>3. KindFor(b, q) = "delete"
  BY PageIsSome DEF KindFor
<1>4. disk = [disk EXCEPT ![b] = disk[b]] /\ disk[b] \in Storage
  BY Facts
<1>5. CASE kind = "delete"
  <2>1. Wipe(b)
    BY <1>2, <1>5 DEF Ends
  <2> PICK s \in Storage : s = Empty
    BY Facts
  <2> PICK p \in Page : p = Landing
    BY Facts
  <2>2. MovesTo(b, p, s)
    BY <2>1, Zenon DEF Wipe, MovesTo
  <2>3. Onward(b)
    BY <2>1, Facts DEF Onward, Wipe
  <2>4. Fits(p, s, b \in restored', KindFor(b, q))
    BY <2>1 DEF Fits, Wipe, Landing
  <2>5. q.from = None \/ (q.from = b /\ p.at = "waiting")
    OBVIOUS
  <2> QED
    BY <1>1, <2>2, <2>3, <2>4, <2>5, CallMoves
<1>6. CASE kind # "delete"
  <2>1. /\ disk' = disk /\ restored' = restored /\ b \notin restored
        /\ \/ written' = written
           \/ written' = written \cup {page[b].id}
        /\ \/ Enters(b, "landing") /\ page[b].dh = 0
           \/ Enters(b, "app") /\ kind = "bundle"
    BY <1>1, <1>2, <1>6 DEF Ends, ShowWords, Migrated
  <2> PICK p \in Page : page' = [page EXCEPT ![b] = p] /\ p.at \in {"landing", "app"}
                        /\ p.dh = page[b].dh /\ (p.at = "landing" => p.dh = 0)
    BY <2>1, PageGoes DEF Places
  <2> PICK s \in Storage : s = disk[b]
    BY <1>4
  <2>2. MovesTo(b, p, s)
    BY <1>4, <2>1 DEF MovesTo
  <2>3. page[b].id \in Numbers
    BY Facts DEF Page
  <2>4. Onward(b)
    BY <2>1, <2>3, Facts DEF Onward
  <2>5. Fits(p, s, b \in restored', KindFor(b, q))
    BY <1>3, <2>1 DEF Fits
  <2>6. q.from = None \/ (q.from = b /\ p.at = "waiting")
    OBVIOUS
  <2> QED
    BY <1>1, <2>2, <2>4, <2>5, <2>6, CallMoves
<1> QED
  BY <1>5, <1>6

LEMMA CallEndsStep ==
    ASSUME AccountsInv, NEW b \in Browsers, NEW c \in Calls, CallEnds(b, c)
    PROVE  AccountsInv'
<1>1. /\ calls[c].from = b /\ Ends(b, calls[c].kind) /\ UNCHANGED <<server, drawn>>
      /\ calls' = [calls EXCEPT ![c] = Quiet]
  BY Zenon DEF CallEnds
<1> PICK q \in Call : q = Quiet /\ Carries(q)
  BY Facts
<1>2. q.from = None /\ calls' = [calls EXCEPT ![c] = q]
  BY <1>1 DEF Quiet
<1> QED
  BY <1>1, <1>2, EndsMoves

LEMMA CutOffStep ==
    ASSUME AccountsInv, NEW b \in Browsers, NEW c \in Calls, CutOff(b, c)
    PROVE  AccountsInv'
<1> PICK k \in Call : k = calls[c] /\ Carries(k)
  BY Facts
<1>1. /\ calls[c].from = b /\ Ends(b, calls[c].kind) /\ UNCHANGED <<server, drawn>>
      /\ \/ calls' = [calls EXCEPT ![c].from = None]
         \/ calls' = [calls EXCEPT ![c] = Quiet]
  BY Zenon DEF CutOff
<1>2. CASE calls' = [calls EXCEPT ![c].from = None]
  <2> PICK q : q = [k EXCEPT !.from = None]
    OBVIOUS
  <2>1. /\ q \in Call /\ q.from = None /\ q.kind = k.kind /\ q.step = k.step /\ q.id = k.id
        /\ q.pass = k.pass /\ q.words = k.words /\ q.blob = k.blob /\ q.vault = k.vault
    BY DEF Call
  <2>2. Carries(q)
    BY <2>1 DEF Carries
  <2>3. calls' = [calls EXCEPT ![c] = q]
    BY <1>2
  <2> QED
    BY <1>1, <2>1, <2>2, <2>3, EndsMoves
<1>3. CASE calls' = [calls EXCEPT ![c] = Quiet]
  <2> PICK q \in Call : q = Quiet /\ Carries(q)
    BY Facts
  <2>1. q.from = None /\ calls' = [calls EXCEPT ![c] = q]
    BY <1>3 DEF Quiet
  <2> QED
    BY <1>1, <2>1, EndsMoves
<1> QED
  BY <1>1, <1>2, <1>3

-----------------------------------------------------------------------------
(* The page's own steps *)

LEMMA StoreKeysStep ==
    ASSUME AccountsInv, NEW b \in Browsers, StoreKeys(b)
    PROVE  AccountsInv'
<1> PICK pg \in Page : pg = page[b]
  BY Facts
<1> PICK st \in Storage : st = disk[b]
  BY Facts
<1>1. /\ pg.at = "opening" /\ calls' = calls /\ UNCHANGED <<server, drawn, written, restored>>
      /\ \/ disk' = [disk EXCEPT ![b].priv = pg.blob.id] /\ GoesTo(b, "restoring")
         \/ disk' = disk /\ Enters(b, "landing")
  BY Zenon DEF StoreKeys
<1>2. /\ pg.id \in Ids /\ st.token = pg.id /\ pg.blob.id = pg.id /\ pg.blob.dh \in {0, pg.id}
      /\ pg.dh = 0 /\ b \notin restored
  BY <1>1, Facts DEF SignsIn, PairIsOfTheApp, Signed
<1>3. Onward(b)
  BY <1>1, Facts DEF Onward
<1>4. CASE disk' = [disk EXCEPT ![b].priv = pg.blob.id] /\ GoesTo(b, "restoring")
  <2> PICK p \in Page : /\ page' = [page EXCEPT ![b] = p]
                        /\ p.at = "restoring" /\ p.id = pg.id /\ p.blob = pg.blob /\ p.dh = pg.dh
    BY <1>4, PageGoes DEF Places
  <2> PICK s : s = [st EXCEPT !.priv = pg.blob.id]
    OBVIOUS
  <2>1. pg.blob.id \in Nat
    BY <1>2, BlobTypes
  <2>2. s \in Storage /\ s.token = st.token /\ s.priv = pg.blob.id
    BY <2>1 DEF Storage
  <2>3. MovesTo(b, p, s)
    BY <1>4 DEF MovesTo
  <2>4. Fits(p, s, b \in restored', "delete")
    BY <1>1, <1>2, <2>2 DEF Fits
  <2> QED
    BY <1>1, <1>3, <2>2, <2>3, <2>4, PageMoves
<1>5. CASE disk' = disk /\ Enters(b, "landing")
  <2> PICK p \in Page : page' = [page EXCEPT ![b] = p] /\ p.at = "landing" /\ p.dh = pg.dh
    BY <1>5, PageGoes DEF Places
  <2>1. MovesTo(b, p, st)
    BY <1>5, Facts DEF MovesTo
  <2>2. Fits(p, st, b \in restored', "delete")
    BY <1>1, <1>2 DEF Fits
  <2> QED
    BY <1>1, <1>3, <2>1, <2>2, PageMoves
<1> QED
  BY <1>1, <1>4, <1>5

LEMMA RestoreDHStep ==
    ASSUME AccountsInv, NEW b \in Browsers, RestoreDH(b)
    PROVE  AccountsInv'
<1> PICK pg \in Page : pg = page[b]
  BY Facts
<1> PICK st \in Storage : st = disk[b]
  BY Facts
<1>1. /\ pg.at = "restoring" /\ pg.blob.dh # 0
      /\ disk' = [disk EXCEPT ![b].secureDH = pg.blob.dh]
      /\ restored' = restored \cup {b} /\ Enters(b, "app")
      /\ calls' = calls /\ UNCHANGED <<server, drawn, written>>
  BY Zenon DEF RestoreDH
<1>2. /\ pg.id \in Ids /\ st.token = pg.id /\ pg.blob.dh = pg.id
      /\ pg.dh = 0 /\ st.priv = pg.id
  BY <1>1, Facts DEF SignsIn, PairIsOfTheApp
<1>3. pg.id \in Nat /\ pg.id # 0
  BY <1>1, <1>2, BlobTypes
<1> PICK p \in Page : page' = [page EXCEPT ![b] = p] /\ p.at = "app" /\ p.dh = pg.dh
  BY <1>1, PageGoes DEF Places
<1> PICK s : s = [st EXCEPT !.secureDH = pg.blob.dh]
  OBVIOUS
<1>4. s \in Storage /\ s.token = st.token /\ s.priv = st.priv /\ s.secureDH = pg.id
  BY <1>2, <1>3 DEF Storage
<1>5. MovesTo(b, p, s)
  BY <1>1 DEF MovesTo
<1>6. Onward(b)
  BY <1>1, Facts DEF Onward
<1>7. Fits(p, s, b \in restored', "delete")
  BY <1>2, <1>3, <1>4 DEF Fits
<1> QED
  BY <1>1, <1>4, <1>5, <1>6, <1>7, PageMoves

(* A pair is taken from where it is, or is made, and is in the secure store *)
(* from then on.                                                            *)
LEMMA PairIsKept ==
    ASSUME AccountsInv, NEW b \in Browsers, page[b].dh = 0, NEW dh \in Ids,
           GetIdentityDHKeyPair(b, dh)
    PROVE  \E s \in Storage :
              /\ disk' = [disk EXCEPT ![b] = s] /\ drawn' \in Numbers
              /\ s.token = disk[b].token /\ s.priv = disk[b].priv /\ s.secureDH = dh
              /\ disk[b].secureDH # 0 => dh = disk[b].secureDH
<1> PICK st \in Storage : st = disk[b]
  BY Facts
<1>1. /\ \/ dh = KnownDH(b) /\ UNCHANGED drawn
         \/ KnownDH(b) = 0 /\ drawn < MaxDrawn /\ drawn' = drawn + 1
      /\ disk' = [disk EXCEPT ![b].secureDH = IF page[b].dh = 0 THEN dh ELSE disk[b].secureDH,
                              ![b].localDH = IF page[b].dh = 0 /\ disk[b].secureDH = 0
                                             THEN 0 ELSE disk[b].localDH]
  BY Facts DEF GetIdentityDHKeyPair, Draw
<1> DEFINE local == IF st.secureDH = 0 THEN 0 ELSE st.localDH
<1>2. disk' = [disk EXCEPT ![b].secureDH = dh, ![b].localDH = local]
  BY <1>1
<1> PICK s : s = [st EXCEPT !.secureDH = dh, !.localDH = local]
  OBVIOUS
<1>3. dh \in Nat
  BY BlobTypes
<1>4. s \in Storage /\ s.token = st.token /\ s.priv = st.priv /\ s.secureDH = dh
  BY <1>3 DEF Storage
<1>5. disk' = [disk EXCEPT ![b] = s]
  BY <1>2, Facts
<1>6. drawn' \in Numbers
  BY <1>1, Facts, AccountsAssumption DEF Numbers
<1>7. st.secureDH # 0 => dh = st.secureDH
  BY <1>1 DEF KnownDH
<1> QED
  BY <1>4, <1>5, <1>6, <1>7

LEMMA MigrateDHStep ==
    ASSUME AccountsInv, NEW b \in Browsers, NEW c \in Calls, MigrateDH(b, c)
    PROVE  AccountsInv'
<1> PICK pg \in Page : pg = page[b]
  BY Facts
<1>1. PICK dh \in Ids :
         /\ pg.at = "restoring" /\ GetIdentityDHKeyPair(b, dh)
         /\ Sends(b, c, [Quiet EXCEPT !.kind = "bundle", !.blob = [pg.blob EXCEPT !.dh = dh]])
         /\ page' = [page EXCEPT ![b] = [Landing EXCEPT !.at = "waiting", !.dh = dh]]
         /\ UNCHANGED <<server, written, restored>>
  BY Zenon DEF MigrateDH, Ids
<1>2. pg.dh = 0 /\ b \notin restored /\ \A d \in Calls : calls[d].from # b
  BY <1>1, Facts DEF PairIsOfTheApp, Signed, Waits
<1>3. dh \in Nat
  BY BlobTypes
<1>4. PICK s \in Storage : disk' = [disk EXCEPT ![b] = s] /\ drawn' \in Numbers
  BY <1>1, <1>2, PairIsKept
<1> PICK blob : blob = [pg.blob EXCEPT !.dh = dh]
  OBVIOUS
<1>5. blob \in Blobs
  BY <1>3 DEF Page, Blobs
<1> PICK q : q = [[Quiet EXCEPT !.kind = "bundle", !.blob = blob] EXCEPT !.from = b, !.step = "sent"]
  OBVIOUS
<1>6. q \in Call /\ q.kind = "bundle" /\ q.from = b
  <2>1. Quiet \in Call
    BY Facts
  <2> QED
    BY <1>5, <2>1 DEF Call, Kinds, Steps
<1>7. calls' = [calls EXCEPT ![c] = q]
  BY <1>1, Zenon DEF Sends
<1>8. Carries(q)
  BY <1>6 DEF Carries
<1> PICK p : p = [Landing EXCEPT !.at = "waiting", !.dh = dh]
  OBVIOUS
<1>9. p \in Page /\ p.at = "waiting"
  BY <1>3, Facts DEF Page, Places
<1>10. MovesTo(b, p, s)
  BY <1>1, <1>4, Zenon DEF MovesTo
<1>11. Onward(b)
  BY <1>1, <1>4, Facts DEF Onward
<1>12. Fits(p, s, b \in restored', KindFor(b, q))
  BY <1>1, <1>2, <1>6, <1>9 DEF Fits, KindFor
<1>13. Only(b, c)
  BY <1>2 DEF Only
<1> QED
  BY <1>6, <1>7, <1>8, <1>9, <1>10, <1>11, <1>12, <1>13, CallMoves

LEMMA UseDHStep ==
    ASSUME AccountsInv, NEW b \in Browsers, UseDH(b)
    PROVE  AccountsInv'
<1> PICK pg \in Page : pg = page[b]
  BY Facts
<1>1. PICK dh \in Ids :
         /\ pg.at = "app" /\ pg.dh = 0 /\ GetIdentityDHKeyPair(b, dh)
         /\ page' = [page EXCEPT ![b].dh = dh]
         /\ calls' = calls /\ UNCHANGED <<server, written, restored>>
  BY Zenon DEF UseDH, Ids
<1>2. dh \in Nat
  BY BlobTypes
<1>3. PICK s \in Storage :
         /\ disk' = [disk EXCEPT ![b] = s] /\ drawn' \in Numbers
         /\ s.token = disk[b].token /\ s.priv = disk[b].priv /\ s.secureDH = dh
         /\ disk[b].secureDH # 0 => dh = disk[b].secureDH
  BY <1>1, PairIsKept
<1> PICK p : p = [pg EXCEPT !.dh = dh]
  OBVIOUS
<1>4. p \in Page /\ p.at = "app" /\ p.dh = dh
  BY <1>1, <1>2 DEF Page
<1>5. MovesTo(b, p, s)
  BY <1>1, <1>3 DEF MovesTo
<1>6. Onward(b)
  BY <1>1, <1>3, Facts DEF Onward
<1>7. Fits(p, s, b \in restored', "delete")
  <2>1. b \in restored => /\ disk[b].token # 0 /\ disk[b].priv = disk[b].token
                          /\ disk[b].secureDH = disk[b].token
    BY Facts DEF Signed
  <2> QED
    BY <1>1, <1>3, <1>4, <2>1 DEF Fits
<1> QED
  BY <1>1, <1>4, <1>5, <1>6, <1>7, PageMoves

LEMMA SignOutStep ==
    ASSUME AccountsInv, NEW b \in Browsers, SignOut(b)
    PROVE  AccountsInv'
<1>1. page[b].at = "app" /\ Wipe(b) /\ calls' = calls /\ UNCHANGED <<server, drawn>>
  BY Zenon DEF SignOut
<1> PICK s \in Storage : s = Empty
  BY Facts
<1> PICK p \in Page : p = Landing
  BY Facts
<1>2. MovesTo(b, p, s)
  BY <1>1, Zenon DEF Wipe, MovesTo
<1>3. Onward(b)
  BY <1>1, Facts DEF Onward, Wipe
<1>4. Fits(p, s, b \in restored', "delete")
  BY <1>1 DEF Fits, Wipe, Landing
<1> QED
  BY <1>1, <1>2, <1>3, <1>4, PageMoves

(* The page starts over: what it had sent is nobody's.                      *)
LEMMA RestartStep ==
    ASSUME AccountsInv, NEW b \in Browsers, NEW token \in Numbers, Restart(b, token),
           restored' \in SUBSET restored,
           b \in restored' => token = disk[b].token
    PROVE  AccountsInv'
<1> PICK st \in Storage : st = disk[b]
  BY Facts
<1>1. /\ page' = [page EXCEPT ![b] =
                     [Landing EXCEPT !.at = IF token = 0 THEN Landing.at ELSE "app"]]
      /\ disk' = [disk EXCEPT ![b].token = token]
      /\ calls' = [c \in Calls |->
             IF calls[c].from = b THEN [calls[c] EXCEPT !.from = None] ELSE calls[c]]
      /\ UNCHANGED <<server, drawn, written>>
  BY Zenon DEF Restart
<1> PICK at : at = IF token = 0 THEN Landing.at ELSE "app"
  OBVIOUS
<1> PICK p : p = [Landing EXCEPT !.at = at]
  OBVIOUS
<1>2. Landing.at = "landing" /\ Landing.dh = 0
  BY DEF Landing
<1>3. p \in Page /\ p.at = at /\ p.dh = 0 /\ at \in {"landing", "app"}
  <2>1. Landing \in Page
    BY Facts
  <2> QED
    BY <1>2, <2>1 DEF Page, Places
<1> PICK s : s = [st EXCEPT !.token = token]
  OBVIOUS
<1>4. s \in Storage /\ s.token = token /\ s.priv = st.priv /\ s.secureDH = st.secureDH
  BY DEF Storage
<1>5. MovesTo(b, p, s)
  BY <1>1 DEF MovesTo
<1>6. Onward(b)
  BY <1>1, Facts DEF Onward
<1>7. Fits(p, s, b \in restored', "delete")
  <2>1. b \in restored => st.token # 0 /\ st.priv = st.token /\ st.secureDH = st.token
    BY Facts DEF Signed
  <2> QED
    BY <1>2, <1>3, <1>4, <2>1 DEF Fits
<1>8. ASSUME NEW c \in Calls
      PROVE  /\ calls'[c] \in Call /\ Carries(calls'[c]) /\ calls'[c].from # b
             /\ calls'[c] = calls[c] \/ calls'[c].from = None
  <2> PICK k \in Call : k = calls[c] /\ Carries(k)
    BY Facts
  <2> PICK q : q = [k EXCEPT !.from = None]
    OBVIOUS
  <2>1. /\ q \in Call /\ q.from = None /\ q.kind = k.kind /\ q.step = k.step /\ q.id = k.id
        /\ q.pass = k.pass /\ q.words = k.words /\ q.blob = k.blob /\ q.vault = k.vault
    BY DEF Call
  <2>2. Carries(q)
    BY <2>1 DEF Carries
  <2>3. calls'[c] = IF k.from = b THEN q ELSE k
    BY <1>1
  <2> QED
    BY <2>1, <2>2, <2>3, PageIsSome
<1>9. Requests(b, p, "delete")
  <2>1. calls' \in [Calls -> Call]
    <3>1. calls' = [c \in Calls |-> calls'[c]]
      BY <1>1
    <3> QED
      BY <1>8, <3>1
  <2> QED
    BY <1>8, <2>1 DEF Requests
<1> QED
  BY <1>3, <1>4, <1>5, <1>6, <1>7, <1>9, OneMoves

(* The pages and the browsers' storage are left alone.                      *)
LEMMA UnheardStep ==
    ASSUME AccountsInv, NEW c \in Calls, Unheard(c)
    PROVE  AccountsInv'
<1>1. calls \in [Calls -> Call] /\ \A d \in Calls : Carries(calls[d])
  BY DEF AccountsInv, AccountsTypeOK
<1>2. 0 \in Numbers /\ NoBlob \in Blobs /\ NoVault \in Vaults /\ 0 \in Nat
  BY BlobTypes DEF Numbers
<1> PICK q \in Call : q = Quiet
  BY <1>2 DEF Quiet, Call, Kinds, Steps
<1>3. Carries(q) /\ q.from = None
  BY DEF Quiet, Carries
<1>4. /\ calls' = [calls EXCEPT ![c] = q]
      /\ UNCHANGED <<user, vaults, challenges, drawn, page, disk, written, restored>>
  BY Zenon DEF Unheard, server, browser
<1>5. \A d \in Calls : calls'[d] = IF d = c THEN q ELSE calls[d]
  BY <1>1, <1>4
<1>6. AccountsTypeOK' /\ RowOpens' /\ VaultOpensWithWords'
  BY <1>4 DEF AccountsInv, AccountsTypeOK, RowOpens, VaultOpensWithWords
<1>7. ASSUME NEW d \in Calls PROVE Carries(calls[d])'
  <2> PICK k : k = calls'[d] /\ Carries(k)
    BY <1>1, <1>3, <1>5
  <2> QED
    OBVIOUS
<1>8. ASSUME NEW b \in Browsers PROVE PageFits(b)'
  <2>1. PageFits(b)
    BY DEF AccountsInv
  <2>2. \A d \in Calls : calls'[d].from = b => calls[d].from = b /\ calls'[d].kind = calls[d].kind
    BY <1>3, <1>5, PageIsSome
  <2> QED
    BY <1>4, <2>1, <2>2, PageLeftAlone
<1> QED
  BY <1>6, <1>7, <1>8 DEF AccountsInv

LEMMA ChallengeExpiresStep ==
    ASSUME AccountsInv, ChallengeExpires
    PROVE  AccountsInv'
<1>1. PICK n \in Ids : challenges' = [challenges EXCEPT ![n] = 0]
  BY Zenon DEF ChallengeExpires, Ids
<1>2. UNCHANGED <<user, vaults, drawn, calls, page, disk, written, restored>>
  BY Zenon DEF ChallengeExpires, browser
<1>3. challenges' \in [Ids -> Nat]
  BY <1>1 DEF AccountsInv, AccountsTypeOK
<1>4. AccountsTypeOK' /\ RowOpens' /\ VaultOpensWithWords'
  BY <1>2, <1>3 DEF AccountsInv, AccountsTypeOK, RowOpens, VaultOpensWithWords
<1>5. \A d \in Calls : Carries(calls[d])'
  BY <1>2 DEF AccountsInv
<1>6. ASSUME NEW b \in Browsers PROVE PageFits(b)'
  BY <1>2, PageLeftAlone DEF AccountsInv
<1> QED
  BY <1>4, <1>5, <1>6 DEF AccountsInv

-----------------------------------------------------------------------------
(* The theorems *)

LEMMA AccountsInvInit == Init => AccountsInv
<1> SUFFICES ASSUME Init PROVE AccountsInv
  OBVIOUS
<1>1. MaxDrawn \in Nat /\ 0 \in Numbers /\ Ids \subseteq Nat
      /\ NoBlob \in Blobs /\ NoVault \in Vaults
  BY BlobTypes DEF Numbers
<1>2. Quiet \in Call /\ Carries(Quiet) /\ Quiet.from = None
  BY <1>1 DEF Quiet, Call, Kinds, Steps, Carries
<1>3. Landing \in Page /\ Landing.at = "landing" /\ Landing.dh = 0
  BY <1>1 DEF Landing, Page, Places
<1>4. Empty \in Storage /\ [Empty EXCEPT !.priv = 1, !.localDH = 1] \in Storage
  BY <1>1 DEF Empty, Storage
<1>5. /\ vaults = [n \in Ids |-> NoVault] /\ challenges = [n \in Ids |-> 0]
      /\ calls = [c \in Calls |-> Quiet] /\ page = [b \in Browsers |-> Landing]
      /\ written = {} /\ restored = {}
  BY Zenon DEF Init, Ids
<1>6. user \in Rows \cup {None} /\ RowOpens /\ drawn \in Numbers /\ disk \in [Browsers -> Storage]
  <2>1. CASE user = None /\ drawn = 0 /\ disk = [b \in Browsers |-> Empty]
    BY <1>1, <1>4, <2>1 DEF RowOpens
  <2>2. ASSUME NEW p \in Passphrases, NEW first \in Browsers,
               user = [id |-> 1, auth |-> p, keys |-> Blob(Pass(p), 1, 0)],
               drawn = 1, MaxDrawn > 0,
               disk = [b \in Browsers |->
                   IF b = first THEN [Empty EXCEPT !.priv = 1, !.localDH = 1] ELSE Empty]
        PROVE  user \in Rows \cup {None} /\ RowOpens /\ drawn \in Numbers
               /\ disk \in [Browsers -> Storage]
    <3>1. 1 \in Ids /\ 1 \in Numbers
      BY <1>1, <2>2 DEF Ids, Numbers
    <3> PICK keys \in Blobs :
           /\ keys = Blob(Pass(p), 1, 0) /\ keys.key = Pass(p) /\ keys.id = 1 /\ keys.dh = 0
      BY BlobTypes
    <3> PICK row \in Rows : row = [id |-> 1, auth |-> p, keys |-> keys]
      BY DEF Rows
    <3>2. user = row
      BY <2>2
    <3>3. user \in Rows /\ RowOpens
      BY <3>1, <3>2 DEF RowOpens
    <3>4. drawn \in Numbers
      BY <2>2, <3>1
    <3>5. disk \in [Browsers -> Storage]
      BY <1>4, <2>2
    <3> QED
      BY <3>3, <3>4, <3>5
  <2> QED
    BY <2>1, <2>2, Zenon DEF Init
<1>7. AccountsTypeOK
  BY <1>1, <1>2, <1>3, <1>5, <1>6 DEF AccountsTypeOK
<1>8. VaultOpensWithWords
  BY <1>5 DEF VaultOpensWithWords, Ids
<1>9. \A c \in Calls : Carries(calls[c]) /\ calls[c].from = None
  BY <1>2, <1>5
<1>10. ASSUME NEW b \in Browsers PROVE PageFits(b)
  <2>1. page[b].at = "landing" /\ page[b].dh = 0 /\ b \notin restored
    BY <1>3, <1>5
  <2> QED
    BY <1>9, <2>1, PageIsSome DEF PageFits, Waits, PairIsOfTheApp, SignsIn, Signed
<1> QED
  BY <1>6, <1>7, <1>8, <1>9, <1>10 DEF AccountsInv

LEMMA AccountsInvNext == AccountsInv /\ [Next]_vars => AccountsInv'
<1> SUFFICES ASSUME AccountsInv, [Next]_vars PROVE AccountsInv'
  OBVIOUS
<1>1. CASE UNCHANGED vars
  <2>1. UNCHANGED <<user, vaults, challenges, drawn, calls, page, disk, written, restored>>
    BY <1>1, Zenon DEF vars, server, browser
  <2>2. AccountsTypeOK' /\ RowOpens' /\ VaultOpensWithWords'
    BY <2>1 DEF AccountsInv, AccountsTypeOK, RowOpens, VaultOpensWithWords
  <2>3. \A d \in Calls : Carries(calls[d])'
    BY <2>1 DEF AccountsInv
  <2>4. ASSUME NEW b \in Browsers PROVE PageFits(b)'
    BY <2>1, PageLeftAlone DEF AccountsInv
  <2> QED
    BY <2>2, <2>3, <2>4 DEF AccountsInv
<1>2. CASE ChallengeExpires
  BY <1>2, ChallengeExpiresStep
<1>3. ASSUME NEW c \in Calls, Serve(c) \/ Unheard(c) PROVE AccountsInv'
  BY <1>3, ServerStep, UnheardStep
<1>4. ASSUME NEW b \in Browsers,
             \/ StoreKeys(b) \/ RestoreDH(b) \/ UseDH(b) \/ SignOut(b)
             \/ Reload(b) \/ LoseSession(b)
      PROVE  AccountsInv'
  <2>1. CASE Reload(b)
    <3>1. Restart(b, disk[b].token) /\ restored' = restored
      BY <2>1 DEF Reload
    <3> PICK token \in Numbers : token = disk[b].token
      BY Facts DEF Storage
    <3> QED
      BY <3>1, RestartStep
  <2>2. CASE LoseSession(b)
    <3>1. Restart(b, 0) /\ restored' = restored \ {b}
      BY <2>2 DEF LoseSession
    <3>2. 0 \in Numbers
      BY BlobTypes DEF Numbers
    <3> QED
      BY <3>1, <3>2, RestartStep
  <2> QED
    BY <1>4, <2>1, <2>2, StoreKeysStep, RestoreDHStep, UseDHStep, SignOutStep
<1>5. ASSUME NEW b \in Browsers, NEW c \in Calls, PageStep(b, c) PROVE AccountsInv'
  BY <1>5, RegisterAnsweredStep, LoginAnsweredStep, StartAnsweredStep, MigrateDHStep,
     CallEndsStep, CutOffStep, FormStep DEF PageStep
<1> QED
  BY <1>1, <1>2, <1>3, <1>4, <1>5 DEF Next

(* AccountsInv is an invariant of every run of requests, pages and storage. *)
THEOREM AccountsInvariant == Spec => []AccountsInv
BY AccountsInvInit, AccountsInvNext, PTL DEF Spec

(* Whoever can log in can decrypt: the row's keys are under the passphrase  *)
(* it accepts and are the identity that was registered (/auth/register,     *)
(* /auth/recover/complete and the deletions between their statements).      *)
THEOREM LoginOpensAccountHolds == Spec => []LoginOpensAccount
<1>1. AccountsInv => LoginOpensAccount
  BY DEF AccountsInv, RowOpens, LoginOpensAccount
<1> QED
  BY <1>1, AccountsInvariant, PTL

(* A stored vault opens under the words of its account, which its verifier  *)
(* is of, and holds the account's keys, after any number of recoveries.     *)
THEOREM VaultOpensWithWordsHolds == Spec => []VaultOpensWithWords
<1>1. AccountsInv => VaultOpensWithWords
  BY DEF AccountsInv
<1> QED
  BY <1>1, AccountsInvariant, PTL

(* A browser whose sign-in ran to its end uses the identity and the DH pair *)
(* of the account it is signed in to, whatever was on its disk before.      *)
THEOREM SignInRestoresIdentityHolds == Spec => []SignInRestoresIdentity
<1>1. AccountsInv => SignInRestoresIdentity
  <2> SUFFICES ASSUME AccountsInv, NEW b \in restored
               PROVE  disk[b].priv = disk[b].token /\ KnownDH(b) = disk[b].token
    BY DEF SignInRestoresIdentity
  <2>1. b \in Browsers
    BY DEF AccountsInv, AccountsTypeOK
  <2>2. Signed(b)
    BY <2>1, Facts
  <2> QED
    BY <2>2 DEF Signed, KnownDH
<1> QED
  BY <1>1, AccountsInvariant, PTL

=============================================================================
