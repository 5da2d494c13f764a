--------------------------- MODULE SessionsProofs ---------------------------
(***************************************************************************)
(* Sessions for every number of tabs, calls and exchanges under way: what  *)
(* a recovery finds in the index, and what a tab may lose its tokens to.   *)
(*                                                                         *)
(* IndexKnowsSessions lacks where an exchange is: a session may be missing *)
(* from the index only until its exchange has written it (Indexed).        *)
(* StaysSignedIn is about the answer to a refresh; TokensInv says that, as *)
(* long as nothing was cut off and no two tabs share a token, the token of *)
(* a refresh that was sent is valid, because nobody else can have spent it.*)
(***************************************************************************)
EXTENDS Sessions, TLAPS

Token == 0 .. issued

ExchangeSteps ==
    {"none", "asked", "found", "denied", "issued", "indexing", "answered"}

Exchanging ==
    [step : ExchangeSteps, tab : Tabs \cup {0}, token : Token, new : Token, seen : SUBSET Nat]

Calling ==
    [step : {"idle", "sent", "refused", "waiting", "ended", "leaving"}, tab : Tabs \cup {0},
     token : Nat, retry : BOOLEAN, kind : {"call", "logout"}, on : Exchanges \cup {0}]

TabState == [open : BOOLEAN, session : Nat, refresh : Token]

CallTypes ==
    /\ requests \in [Requests -> Calling]
    /\ \A r \in Requests : requests[r].step # "idle" => requests[r].tab \in Tabs

Code == [step : {"none", "pending", "authorized", "gone"}, session : Nat,
         tab : Tabs \cup {0}, polling : BOOLEAN]

Polling == [step : {"none", "asked", "pending", "authorized", "gone", "answered"}, session : Nat]

OtherTypes ==
    /\ CallTypes
    /\ recovery \in [step : {"none", "revoking", "done"}, seen : SUBSET Nat]
    /\ qr \in Code /\ polls \in [Polls -> Polling]
    /\ trouble \in SUBSET {"cut", "shared", "poll"}

SessionsTypeOK ==
    /\ issued \in Nat
    /\ live \in SUBSET Nat /\ refreshes \in SUBSET Token /\ index \in SUBSET Nat
    /\ clobbered \in BOOLEAN
    /\ exchanges \in [Exchanges -> Exchanging]
    /\ tabs \in [Tabs -> TabState]
    /\ disk \in Token
    /\ OtherTypes

(* The sessions an exchange has issued and not yet indexed.                 *)
Indexes(x) == exchanges[x].step \in {"issued", "indexing"}

Indexed ==
    ~clobbered =>
        \A n \in live \cap refreshes :
            n \in index \/ \E x \in Exchanges : Indexes(x) /\ exchanges[x].new = n

(* An exchange has a new token from the issue on, which nobody else has     *)
(* before the answer.                                                       *)
NewTokens ==
    \A x \in Exchanges :
        /\ exchanges[x].step \in {"issued", "indexing", "answered"} <=> exchanges[x].new # 0
        /\ exchanges[x].new # 0 =>
              /\ disk # exchanges[x].new
              /\ \A t \in Tabs : tabs[t].refresh # exchanges[x].new
              /\ \A y \in Exchanges :
                    /\ exchanges[y].token # exchanges[x].new
                    /\ y # x => exchanges[y].new # exchanges[x].new

Untroubled == trouble \cap {"cut", "shared"} = {}

UnderWay(x) == exchanges[x].step # "none"

(* Token n is valid, or a refresh of tab t is about to replace it.          *)
Spends(x, t, n) == UnderWay(x) /\ exchanges[x].tab = t /\ exchanges[x].token = n

(* No token is held twice, and what is held is valid or being replaced.     *)
TokensHeld ==
    /\ ~Sharing(tabs)
    /\ \A t \in Tabs : tabs[t].refresh # 0 =>
          tabs[t].refresh \in refreshes \/ \E x \in Exchanges : Spends(x, t, tabs[t].refresh)
    /\ disk # 0 => disk \in refreshes \/ \E x \in Exchanges, t \in Tabs : Spends(x, t, disk)

(* A refresh under way is its tab's, the only one with its token, and finds *)
(* it valid.                                                                *)
RefreshesFind ==
    \A x \in Exchanges : UnderWay(x) =>
        /\ exchanges[x].tab # 0 /\ exchanges[x].step # "denied"
        /\ exchanges[x].step = "asked" =>
              exchanges[x].token # 0 /\ exchanges[x].token \in refreshes
        /\ exchanges[x].new # 0 => exchanges[x].new \in refreshes
        /\ exchanges[x].token # 0 =>
              /\ \A t \in Tabs : tabs[t].refresh = exchanges[x].token => t = exchanges[x].tab
              /\ disk = exchanges[x].token => tabs[exchanges[x].tab].refresh = disk
              /\ \A y \in Exchanges : UnderWay(y) /\ exchanges[y].token = exchanges[x].token => y = x

SessionsInv ==
    /\ SessionsTypeOK
    /\ Indexed
    /\ NewTokens
    /\ Untroubled => TokensHeld /\ RefreshesFind

-----------------------------------------------------------------------------
(* Types *)

(* Tokens are only ever added.                                              *)
LEMMA TokensGrow ==
    ASSUME SessionsTypeOK, issued' \in {issued, issued + 1}
    PROVE  /\ issued' \in Nat /\ Token \subseteq Token' /\ Token \subseteq Nat /\ 0 \in Token
           /\ issued' \in Token' /\ Token' \subseteq Nat
           /\ Exchanging \subseteq Exchanging' /\ TabState \subseteq TabState'
<1>1. issued' \in Nat /\ Token \subseteq Token' /\ Token \subseteq Nat /\ 0 \in Token
      /\ issued' \in Token' /\ Token' \subseteq Nat
  BY DEF SessionsTypeOK, Token
<1> QED
  BY <1>1 DEF Exchanging, TabState

LEMMA Constants ==
    ASSUME SessionsTypeOK
    PROVE  /\ MaxSession \in Nat /\ 0 \notin Tabs
           /\ Quiet \in Exchanging /\ Idle \in Calling
           /\ NoPoll \in Polling
<1>1. issued \in Nat /\ 0 \in Token
  BY DEF SessionsTypeOK, Token
<1>2. MaxSession \in Nat /\ 0 \notin Tabs
  BY SessionsAssumption
<1>3. Quiet \in Exchanging
  BY <1>1 DEF Quiet, Exchanging, ExchangeSteps
<1> QED
  BY <1>2, <1>3 DEF Idle, NoPoll, Calling, Polling

(* The server's steps of an exchange.                                       *)
LEMMA ExchangeTypes ==
    ASSUME SessionsTypeOK, NEW x \in Exchanges,
           RefreshRead(x) \/ IssueSession(x) \/ IndexRead(x) \/ IndexUserSession(x)
    PROVE  /\ issued' \in {issued, issued + 1}
           /\ live' \in SUBSET Nat /\ refreshes' \in SUBSET Token' /\ index' \in SUBSET Nat
           /\ exchanges' \in [Exchanges -> Exchanging'] /\ clobbered' \in BOOLEAN
<1> PICK e \in Exchanging : e = exchanges[x]
  BY DEF SessionsTypeOK
<1>0. /\ live \in SUBSET Nat /\ refreshes \in SUBSET Token /\ index \in SUBSET Nat
      /\ issued \in Nat /\ exchanges \in [Exchanges -> Exchanging] /\ clobbered \in BOOLEAN
  BY DEF SessionsTypeOK
<1>b. e.new \in Token /\ e.seen \in SUBSET Nat
  BY DEF Exchanging
<1>a. e.new \in Nat /\ e.seen \in SUBSET Nat
  BY <1>0, <1>b DEF Token
<1>1. ASSUME NEW q \in Exchanging', exchanges' = [exchanges EXCEPT ![x] = q],
             issued' \in {issued, issued + 1}
      PROVE  exchanges' \in [Exchanges -> Exchanging']
  <2>1. Exchanging \subseteq Exchanging'
    BY <1>1, TokensGrow
  <2> QED
    BY <1>0, <1>1, <2>1
<1>2. CASE RefreshRead(x)
  <2> PICK s \in {"found", "denied"} : exchanges' = [exchanges EXCEPT ![x].step = s]
    BY <1>2 DEF RefreshRead, Step
  <2> PICK q : q = [e EXCEPT !.step = s]
    OBVIOUS
  <2>1. q \in Exchanging
    BY DEF Exchanging, ExchangeSteps
  <2>2. exchanges' = [exchanges EXCEPT ![x] = q] /\ UNCHANGED <<live, refreshes, index, issued, clobbered>>
    BY <1>2 DEF RefreshRead, server
  <2>3. q \in Exchanging'
    BY <2>1, <2>2, TokensGrow
  <2> QED
    BY <1>0, <1>1, <2>2, <2>3 DEF Token
<1>3. CASE IssueSession(x)
  <2>1. /\ issued' = issued + 1 /\ live' = (live \ {e.token}) \cup {issued'}
        /\ refreshes' = (refreshes \ {e.token}) \cup {issued'}
        /\ UNCHANGED <<index, clobbered>>
    BY <1>3 DEF IssueSession
  <2>2. exchanges' = [exchanges EXCEPT ![x].step = "issued", ![x].new = issued']
    BY <1>3, Zenon DEF IssueSession
  <2> PICK n : n = issued'
    OBVIOUS
  <2> PICK q : q = [e EXCEPT !.step = "issued", !.new = n]
    OBVIOUS
  <2>3. n \in Token' /\ e \in Exchanging' /\ n \in Nat /\ Token \subseteq Token'
    BY <2>1, TokensGrow
  <2>4. q \in Exchanging'
    BY <2>3 DEF Exchanging, ExchangeSteps
  <2>5. exchanges' = [exchanges EXCEPT ![x] = q]
    BY <2>2
  <2> QED
    BY <1>0, <1>1, <2>1, <2>3, <2>4, <2>5
<1>4. CASE IndexRead(x)
  <2>1. UNCHANGED <<live, refreshes, index, issued, clobbered>>
    BY <1>4 DEF IndexRead, server
  <2>2. exchanges' = [exchanges EXCEPT ![x].step = "indexing", ![x].seen = index]
    BY <1>4, Zenon DEF IndexRead
  <2> PICK q : q = [e EXCEPT !.step = "indexing", !.seen = index]
    OBVIOUS
  <2>3. q \in Exchanging
    BY <1>0 DEF Exchanging, ExchangeSteps
  <2>4. exchanges' = [exchanges EXCEPT ![x] = q] /\ q \in Exchanging'
    BY <2>1, <2>2, <2>3, TokensGrow
  <2> QED
    BY <1>0, <1>1, <2>1, <2>4 DEF Token
<1>5. CASE IndexUserSession(x)
  <2>1. /\ UNCHANGED <<live, refreshes, issued>> /\ index' = e.seen \cup {e.new}
        /\ clobbered' = (clobbered \/ index # e.seen)
    BY <1>5 DEF IndexUserSession
  <2>2. exchanges' = [exchanges EXCEPT ![x].step = "answered"]
    BY <1>5, Zenon DEF IndexUserSession, Step
  <2> PICK q : q = [e EXCEPT !.step = "answered"]
    OBVIOUS
  <2>3. q \in Exchanging
    BY DEF Exchanging, ExchangeSteps
  <2>4. exchanges' = [exchanges EXCEPT ![x] = q] /\ q \in Exchanging'
    BY <2>1, <2>2, <2>3, TokensGrow
  <2>5. index' \in SUBSET Nat
    BY <1>a, <2>1
  <2> QED
    BY <1>0, <1>1, <2>1, <2>4, <2>5 DEF Token
<1> QED
  BY <1>2, <1>3, <1>4, <1>5

-----------------------------------------------------------------------------
(* The exchanges *)

(* Tokens are numbers up to the last issued.                                *)
LEMMA Known ==
    ASSUME SessionsTypeOK
    PROVE  /\ issued \in Nat /\ disk \in Token /\ refreshes \subseteq Token
           /\ \A t \in Tabs : tabs[t].refresh \in Token
           /\ \A x \in Exchanges :
                 /\ exchanges[x] \in Exchanging
                 /\ exchanges[x].new \in Token /\ exchanges[x].token \in Token
                 /\ exchanges[x].tab \in Tabs \cup {0}
           /\ \A n \in Token : n \in Nat /\ n # issued + 1
BY DEF SessionsTypeOK, Token, TabState, Exchanging

LEMMA RefreshReadStep ==
    ASSUME SessionsInv, NEW x \in Exchanges, RefreshRead(x), UNCHANGED <<page, trouble>>
    PROVE  Indexed' /\ NewTokens' /\ (Untroubled' => TokensHeld' /\ RefreshesFind')
<1> PICK e \in Exchanging : e = exchanges[x]
  BY DEF SessionsInv, SessionsTypeOK
<1> PICK s : s = IF e.token \in refreshes THEN "found" ELSE "denied"
  OBVIOUS
<1> PICK q : q = [e EXCEPT !.step = s]
  OBVIOUS
<1>1. q.step = s /\ q.tab = e.tab /\ q.token = e.token /\ q.new = e.new
  BY DEF Exchanging
<1>2. exchanges' = [exchanges EXCEPT ![x] = q] /\ e.step = "asked"
  BY DEF RefreshRead, Step
<1>3. \A y \in Exchanges : exchanges'[y] = IF y = x THEN q ELSE exchanges[y]
  BY <1>2 DEF SessionsInv, SessionsTypeOK
<1>4. /\ live' = live /\ refreshes' = refreshes /\ index' = index /\ clobbered' = clobbered
      /\ tabs' = tabs /\ disk' = disk /\ trouble' = trouble
  BY DEF RefreshRead, server, page
<1>5. \A y \in Exchanges :
         /\ exchanges'[y].tab = exchanges[y].tab /\ exchanges'[y].token = exchanges[y].token
         /\ exchanges'[y].new = exchanges[y].new
         /\ UnderWay(y)' <=> UnderWay(y)
         /\ Indexes(y)' <=> Indexes(y)
         /\ y # x => exchanges'[y].step = exchanges[y].step
  BY <1>1, <1>2, <1>3 DEF UnderWay, Indexes
<1>6. Indexed'
  BY <1>4, <1>5 DEF SessionsInv, Indexed
<1>7. exchanges[x].step = "asked" /\ exchanges'[x].step = s
  BY <1>1, <1>2, <1>3
<1>8. NewTokens'
  BY <1>4, <1>5, <1>7 DEF SessionsInv, NewTokens
<1>9. ASSUME Untroubled' PROVE TokensHeld' /\ RefreshesFind'
  <2>1. TokensHeld /\ RefreshesFind
    BY <1>4, <1>9 DEF SessionsInv, Untroubled
  <2>2. TokensHeld'
    BY <1>4, <1>5, <2>1 DEF TokensHeld, Spends, Sharing
  <2>3. s = "found"
    BY <1>2, <2>1 DEF RefreshesFind, UnderWay
  <2> QED
    BY <1>4, <1>5, <1>7, <2>1, <2>2, <2>3 DEF RefreshesFind
<1> QED
  BY <1>6, <1>8, <1>9

LEMMA IssueSessionStep ==
    ASSUME SessionsInv, NEW x \in Exchanges, IssueSession(x), UNCHANGED <<page, trouble>>
    PROVE  Indexed' /\ NewTokens' /\ (Untroubled' => TokensHeld' /\ RefreshesFind')
<1> PICK e \in Exchanging : e = exchanges[x]
  BY DEF SessionsInv, SessionsTypeOK
<1> PICK n : n = issued + 1
  OBVIOUS
<1> PICK q : q = [e EXCEPT !.step = "issued", !.new = n]
  OBVIOUS
<1>1. q.step = "issued" /\ q.tab = e.tab /\ q.token = e.token /\ q.new = n
  BY DEF Exchanging
<1>2. /\ e.step = "found" /\ issued' = n
      /\ live' = (live \ {e.token}) \cup {n} /\ refreshes' = (refreshes \ {e.token}) \cup {n}
      /\ index' = index /\ clobbered' = clobbered
      /\ tabs' = tabs /\ disk' = disk /\ trouble' = trouble
  BY DEF IssueSession, page
<1>a. exchanges' = [exchanges EXCEPT ![x].step = "issued", ![x].new = issued']
  BY Zenon DEF IssueSession
<1>3. \A y \in Exchanges : exchanges'[y] = IF y = x THEN q ELSE exchanges[y]
  BY <1>a, <1>2 DEF SessionsInv, SessionsTypeOK
<1>4. /\ issued \in Nat /\ n \in Nat /\ n # 0 /\ n \notin Token
      /\ disk # n /\ (\A t \in Tabs : tabs[t].refresh # n)
      /\ \A y \in Exchanges : exchanges[y].token # n /\ exchanges[y].new # n
  BY Known DEF SessionsInv
<1>5. /\ \A y \in Exchanges :
            /\ exchanges'[y].tab = exchanges[y].tab /\ exchanges'[y].token = exchanges[y].token
            /\ UnderWay(y)' <=> UnderWay(y)
            /\ y # x => /\ exchanges'[y].step = exchanges[y].step
                        /\ exchanges'[y].new = exchanges[y].new
                        /\ Indexes(y)' <=> Indexes(y)
      /\ exchanges'[x].step = "issued" /\ exchanges'[x].new = n /\ Indexes(x)'
      /\ exchanges[x].step = "found" /\ UnderWay(x) /\ ~Indexes(x)
  BY <1>1, <1>2, <1>3 DEF UnderWay, Indexes
<1>6. Indexed'
  BY <1>2, <1>5 DEF SessionsInv, Indexed
<1>7. exchanges[x].new = 0
  BY <1>5 DEF SessionsInv, NewTokens
<1>8. NewTokens'
  BY <1>2, <1>4, <1>5, <1>7 DEF SessionsInv, NewTokens
<1>9. ASSUME Untroubled' PROVE TokensHeld' /\ RefreshesFind'
  <2>1. TokensHeld /\ RefreshesFind /\ NewTokens
    BY <1>2, <1>9 DEF SessionsInv, Untroubled
  <2>2. /\ e.tab \in Tabs
        /\ \A y \in Exchanges : UnderWay(y) /\ e.token # 0 /\ exchanges[y].token = e.token => y = x
        /\ \A t \in Tabs : e.token # 0 /\ tabs[t].refresh = e.token => t = e.tab
        /\ \A y \in Exchanges : exchanges[y].new # 0 => exchanges[y].new # e.token
    <3>1. e.tab # 0
      BY <1>5, <2>1 DEF RefreshesFind
    <3>2. e.tab \in Tabs
      BY <3>1, Known DEF SessionsInv
    <3> QED
      BY <1>5, <2>1, <3>2 DEF RefreshesFind, NewTokens
  <2>3. \A y \in Exchanges : \A t, k : Spends(y, t, k)' <=> Spends(y, t, k)
    BY <1>5 DEF Spends
  <2>4. Spends(x, e.tab, e.token)
    BY <1>5 DEF Spends
  <2>5. TokensHeld'
    <3>1. ASSUME NEW t \in Tabs, tabs[t].refresh # 0
          PROVE  tabs[t].refresh \in refreshes' \/ \E y \in Exchanges : Spends(y, t, tabs[t].refresh)'
      <4>1. CASE tabs[t].refresh = e.token
        BY <1>2, <2>2, <2>3, <2>4, <3>1, <4>1
      <4>2. CASE tabs[t].refresh # e.token
        BY <1>2, <2>1, <2>3, <3>1, <4>2 DEF TokensHeld
      <4> QED
        BY <4>1, <4>2
    <3>2. disk # 0 => disk \in refreshes' \/ \E y \in Exchanges, t \in Tabs : Spends(y, t, disk)'
      <4>1. CASE disk = e.token
        BY <1>2, <2>2, <2>3, <2>4, <4>1
      <4>2. CASE disk # e.token
        BY <1>2, <2>1, <2>3, <4>2 DEF TokensHeld
      <4> QED
        BY <4>1, <4>2
    <3> QED
      BY <1>2, <2>1, <3>1, <3>2 DEF TokensHeld, Sharing
  <2>6. RefreshesFind'
    <3> SUFFICES ASSUME NEW y \in Exchanges, UnderWay(y)
                 PROVE  /\ exchanges'[y].tab # 0 /\ exchanges'[y].step # "denied"
                        /\ exchanges'[y].step = "asked" =>
                              exchanges'[y].token # 0 /\ exchanges'[y].token \in refreshes'
                        /\ exchanges'[y].new # 0 => exchanges'[y].new \in refreshes'
                        /\ exchanges'[y].token # 0 =>
                             /\ \A t \in Tabs : tabs'[t].refresh = exchanges'[y].token => t = exchanges'[y].tab
                             /\ disk' = exchanges'[y].token => tabs'[exchanges'[y].tab].refresh = disk'
                             /\ \A z \in Exchanges : UnderWay(z)' /\ exchanges'[z].token = exchanges'[y].token => z = y
      BY <1>5 DEF RefreshesFind
    <3>1. CASE y = x
      BY <1>2, <1>5, <2>1, <3>1 DEF RefreshesFind
    <3>2. CASE y # x
      BY <1>2, <1>5, <2>1, <2>2, <3>2 DEF RefreshesFind
    <3> QED
      BY <3>1, <3>2
  <2> QED
    BY <2>5, <2>6
<1> QED
  BY <1>6, <1>8, <1>9

(* A step that changes no token and who has it.                             *)
LEMMA SameTokens ==
    ASSUME SessionsInv,
           \A y \in Exchanges :
              /\ exchanges'[y].tab = exchanges[y].tab /\ exchanges'[y].token = exchanges[y].token
              /\ exchanges'[y].new = exchanges[y].new
              /\ UnderWay(y)' <=> UnderWay(y)
              /\ \/ exchanges'[y].step = exchanges[y].step
                 \/ /\ exchanges'[y].step \in {"issued", "indexing", "answered"}
                    /\ exchanges[y].step \in {"issued", "indexing", "answered"},
           refreshes' = refreshes, disk' = disk,
           \A t \in Tabs : tabs'[t].refresh = tabs[t].refresh,
           trouble \subseteq trouble'
    PROVE  NewTokens' /\ (Untroubled' => TokensHeld' /\ RefreshesFind')
<1>1. NewTokens'
  BY DEF SessionsInv, NewTokens
<1>2. ASSUME Untroubled' PROVE TokensHeld' /\ RefreshesFind'
  <2>1. TokensHeld /\ RefreshesFind
    BY <1>2 DEF SessionsInv, Untroubled
  <2>2. TokensHeld'
    <3>1. \A y \in Exchanges : \A t, k : Spends(y, t, k)' <=> Spends(y, t, k)
      BY DEF Spends
    <3>2. ~Sharing(tabs')
      BY <2>1 DEF TokensHeld, Sharing
    <3>3. \A t \in Tabs : tabs'[t].refresh # 0 =>
             \/ tabs'[t].refresh \in refreshes'
             \/ \E y \in Exchanges : /\ exchanges'[y].step # "none" /\ exchanges'[y].tab = t
                                    /\ exchanges'[y].token = tabs'[t].refresh
      BY <2>1 DEF TokensHeld, Spends, UnderWay
    <3>4. disk' # 0 =>
             \/ disk' \in refreshes'
             \/ \E y \in Exchanges, t \in Tabs :
                    /\ exchanges'[y].step # "none" /\ exchanges'[y].tab = t
                    /\ exchanges'[y].token = disk'
      BY <2>1 DEF TokensHeld, Spends, UnderWay
    <3> QED
      BY <3>2, <3>3, <3>4 DEF TokensHeld, Spends, UnderWay
  <2>3. RefreshesFind'
    BY <2>1, Known DEF SessionsInv, RefreshesFind
  <2> QED
    BY <2>2, <2>3
<1> QED
  BY <1>1, <1>2

LEMMA IndexStep ==
    ASSUME SessionsInv, NEW x \in Exchanges, IndexRead(x) \/ IndexUserSession(x),
           UNCHANGED <<page, trouble>>
    PROVE  Indexed' /\ NewTokens' /\ (Untroubled' => TokensHeld' /\ RefreshesFind')
<1> PICK e \in Exchanging : e = exchanges[x]
  BY DEF SessionsInv, SessionsTypeOK
<1>1. refreshes' = refreshes /\ live' = live /\ tabs' = tabs /\ disk' = disk /\ trouble' = trouble
  BY DEF IndexRead, IndexUserSession, server, page
<1>2. CASE IndexRead(x)
  <2>1. exchanges' = [exchanges EXCEPT ![x].step = "indexing", ![x].seen = index]
    BY <1>2, Zenon DEF IndexRead
  <2> PICK q : q = [e EXCEPT !.step = "indexing", !.seen = index]
    OBVIOUS
  <2>2. q.step = "indexing" /\ q.tab = e.tab /\ q.token = e.token /\ q.new = e.new
    BY DEF Exchanging
  <2>3. \A y \in Exchanges : exchanges'[y] = IF y = x THEN q ELSE exchanges[y]
    BY <2>1 DEF SessionsInv, SessionsTypeOK
  <2>4. e.step = "issued" /\ index' = index /\ clobbered' = clobbered
    BY <1>2 DEF IndexRead, server
  <2>5. \A y \in Exchanges :
           /\ exchanges'[y].tab = exchanges[y].tab /\ exchanges'[y].token = exchanges[y].token
           /\ exchanges'[y].new = exchanges[y].new
           /\ UnderWay(y)' <=> UnderWay(y)
           /\ Indexes(y)' <=> Indexes(y)
           /\ \/ exchanges'[y].step = exchanges[y].step
              \/ /\ exchanges'[y].step \in {"issued", "indexing", "answered"}
                 /\ exchanges[y].step \in {"issued", "indexing", "answered"}
    BY <2>2, <2>3, <2>4 DEF UnderWay, Indexes
  <2>6. Indexed'
    BY <1>1, <2>4, <2>5 DEF SessionsInv, Indexed
  <2> QED
    BY <1>1, <2>5, <2>6, SameTokens
<1>3. CASE IndexUserSession(x)
  <2>1. exchanges' = [exchanges EXCEPT ![x].step = "answered"]
    BY <1>3, Zenon DEF IndexUserSession, Step
  <2> PICK q : q = [e EXCEPT !.step = "answered"]
    OBVIOUS
  <2>2. q.step = "answered" /\ q.tab = e.tab /\ q.token = e.token /\ q.new = e.new
    BY DEF Exchanging
  <2>3. \A y \in Exchanges : exchanges'[y] = IF y = x THEN q ELSE exchanges[y]
    BY <2>1 DEF SessionsInv, SessionsTypeOK
  <2>4. /\ e.step = "indexing" /\ index' = e.seen \cup {e.new}
        /\ clobbered' = (clobbered \/ index # e.seen)
    BY <1>3 DEF IndexUserSession, Step
  <2>5. \A y \in Exchanges :
           /\ exchanges'[y].tab = exchanges[y].tab /\ exchanges'[y].token = exchanges[y].token
           /\ exchanges'[y].new = exchanges[y].new
           /\ UnderWay(y)' <=> UnderWay(y)
           /\ y # x => (Indexes(y)' <=> Indexes(y))
           /\ \/ exchanges'[y].step = exchanges[y].step
              \/ /\ exchanges'[y].step \in {"issued", "indexing", "answered"}
                 /\ exchanges[y].step \in {"issued", "indexing", "answered"}
    BY <2>2, <2>3, <2>4 DEF UnderWay, Indexes
  <2>6. Indexed'
    <3> SUFFICES ASSUME ~clobbered', NEW n \in live' \cap refreshes'
                 PROVE  \/ n \in index'
                        \/ \E y \in Exchanges : Indexes(y)' /\ exchanges'[y].new = n
      BY DEF Indexed
    <3>1. ~clobbered /\ index' = index \cup {e.new}
      BY <2>4, Known DEF SessionsInv, SessionsTypeOK
    <3>2. n \in index \/ \E y \in Exchanges : Indexes(y) /\ exchanges[y].new = n
      BY <1>1, <3>1 DEF SessionsInv, Indexed
    <3>3. CASE n \in index \/ n = e.new
      BY <3>1, <3>3
    <3>4. CASE n # e.new /\ \E y \in Exchanges : Indexes(y) /\ exchanges[y].new = n
      BY <2>5, <3>4
    <3> QED
      BY <3>2, <3>3, <3>4
  <2> QED
    BY <1>1, <2>5, <2>6, SameTokens
<1> QED
  BY <1>2, <1>3

LEMMA ExchangeNext ==
    ASSUME SessionsInv, Exchange
    PROVE  SessionsInv'
<1>1. PICK x \in Exchanges :
         RefreshRead(x) \/ IssueSession(x) \/ IndexRead(x) \/ IndexUserSession(x)
  BY Zenon DEF Exchange
<1>2. UNCHANGED <<recovery, page, requests, qrVars, trouble, events>>
  BY Zenon DEF Exchange
<1>3. SessionsTypeOK'
  <2>1. SessionsTypeOK
    BY DEF SessionsInv
  <2>2. /\ issued' \in {issued, issued + 1}
        /\ live' \in SUBSET Nat /\ refreshes' \in SUBSET Token' /\ index' \in SUBSET Nat
        /\ exchanges' \in [Exchanges -> Exchanging'] /\ clobbered' \in BOOLEAN
    BY <1>1, <2>1, ExchangeTypes
  <2>3. issued' \in Nat /\ tabs' \in [Tabs -> TabState'] /\ disk' \in Token'
    BY <1>2, <2>1, <2>2, TokensGrow DEF SessionsTypeOK, page
  <2>4. OtherTypes'
    BY <1>2, <2>1 DEF SessionsTypeOK, OtherTypes, CallTypes, qrVars
  <2> QED
    BY <2>2, <2>3, <2>4 DEF SessionsTypeOK
<1>4. Indexed' /\ NewTokens' /\ (Untroubled' => TokensHeld' /\ RefreshesFind')
  BY <1>1, <1>2, RefreshReadStep, IssueSessionStep, IndexStep
<1> QED
  BY <1>3, <1>4 DEF SessionsInv

(* Steps that leave exchanges, refresh tokens and the index alone.          *)
LEMMA ElsewhereStep ==
    ASSUME SessionsInv, UNCHANGED <<exchanges, refreshes, index, clobbered, disk>>,
           issued' \in {issued, issued + 1}, live' \in SUBSET Nat,
           \A n \in live' : n \in live \/ n = issued + 1,
           tabs' \in [Tabs -> TabState'],
           \A t \in Tabs : tabs'[t].refresh = tabs[t].refresh,
           OtherTypes', trouble \subseteq trouble'
    PROVE  SessionsInv'
<1>1. SessionsTypeOK'
  <2>1. SessionsTypeOK
    BY DEF SessionsInv
  <2>2. /\ issued' \in Nat /\ Token \subseteq Token' /\ Exchanging \subseteq Exchanging'
    BY <2>1, TokensGrow
  <2> QED
    BY <2>1, <2>2 DEF SessionsTypeOK
<1>2. Indexed'
  <2>1. \A n \in refreshes : n # issued + 1
    BY Known DEF SessionsInv
  <2> QED
    BY <2>1 DEF SessionsInv, Indexed, Indexes
<1>3. NewTokens' /\ (Untroubled' => TokensHeld' /\ RefreshesFind')
  BY SameTokens DEF UnderWay
<1> QED
  BY <1>1, <1>2, <1>3 DEF SessionsInv

-----------------------------------------------------------------------------
(* Steps that leave the exchanges alone *)

(* What such a step starts from.                                            *)
LEMMA Basics ==
    ASSUME SessionsInv
    PROVE  /\ SessionsTypeOK /\ OtherTypes /\ CallTypes
           /\ live \in SUBSET Nat /\ index \in SUBSET Nat /\ issued \in Nat
           /\ tabs \in [Tabs -> TabState] /\ exchanges \in [Exchanges -> Exchanging]
           /\ requests \in [Requests -> Calling]
           /\ recovery \in [step : {"none", "revoking", "done"}, seen : SUBSET Nat]
           /\ qr \in Code /\ polls \in [Polls -> Polling]
           /\ trouble \in SUBSET {"cut", "shared", "poll"}
           /\ 0 \notin Tabs /\ Quiet \in Exchanging /\ Idle \in Calling /\ NoPoll \in Polling
<1>1. SessionsTypeOK
  BY DEF SessionsInv
<1>2. 0 \notin Tabs /\ Quiet \in Exchanging /\ Idle \in Calling /\ NoPoll \in Polling
  BY <1>1, Constants
<1> QED
  BY <1>1, <1>2 DEF SessionsTypeOK, OtherTypes, CallTypes

LEMMA RecoveryStep ==
    ASSUME SessionsInv, Recovery
    PROVE  SessionsInv'
<1>1. /\ UNCHANGED <<exchanges, tabs, disk, requests, qr, polls, trouble, refreshes, issued>>
      /\ \/ recovery' = [step |-> "revoking", seen |-> index] /\ UNCHANGED <<live, index, clobbered>>
         \/ /\ recovery.step = "revoking" /\ recovery' = [step |-> "done", seen |-> {}]
            /\ live' = live \ recovery.seen /\ index' = {}
            /\ clobbered' = (clobbered \/ index # recovery.seen)
  BY DEF Recovery, RecoveryRead, RecoveryRevoke, page, qrVars, server
<1>2. SessionsTypeOK'
  <2>1. recovery' \in [step : {"none", "revoking", "done"}, seen : SUBSET Nat]
    BY <1>1, Basics
  <2>2. OtherTypes'
    BY <1>1, <2>1, Basics DEF OtherTypes, CallTypes
  <2> QED
    BY <1>1, <2>2, Basics DEF SessionsTypeOK, Token, Exchanging, TabState
<1>3. Indexed'
  <2> SUFFICES ASSUME ~clobbered', NEW n \in live' \cap refreshes'
               PROVE  \/ n \in index'
                      \/ \E y \in Exchanges : Indexes(y)' /\ exchanges'[y].new = n
    BY DEF Indexed
  <2>0. clobbered \in BOOLEAN
    BY Basics DEF SessionsTypeOK
  <2>a. ~clobbered
    BY <1>1, <2>0
  <2>b. n \in live \cap refreshes
    BY <1>1
  <2>1. ~clobbered /\ n \in live \cap refreshes
    BY <2>a, <2>b
  <2>2. n \in index \/ \E y \in Exchanges : Indexes(y) /\ exchanges[y].new = n
    BY <2>1 DEF SessionsInv, Indexed
  <2>3. n \in index => n \in index'
    <3>1. CASE index' = index
      BY <3>1
    <3>2. CASE live' = live \ recovery.seen /\ clobbered' = (clobbered \/ index # recovery.seen)
      <4>1. index = recovery.seen
        BY <3>2
      <4>2. n \notin recovery.seen
        BY <3>2
      <4> QED
        BY <4>1, <4>2
    <3> QED
      BY <1>1, <3>1, <3>2
  <2> QED
    BY <1>1, <2>2, <2>3 DEF Indexes
<1>4. NewTokens' /\ (Untroubled' => TokensHeld' /\ RefreshesFind')
  BY <1>1, SameTokens DEF UnderWay
<1> QED
  BY <1>2, <1>3, <1>4 DEF SessionsInv

LEMMA ExpireStep ==
    ASSUME SessionsInv, Expire
    PROVE  SessionsInv'
<1>1. /\ UNCHANGED <<refreshes, index, issued, exchanges, recovery, tabs, disk,
                     requests, qr, polls, trouble, clobbered>>
      /\ live' \subseteq live
  BY DEF Expire, page, qrVars
<1>2. OtherTypes' /\ live' \in SUBSET Nat /\ tabs' \in [Tabs -> TabState']
  BY <1>1, Basics DEF OtherTypes, CallTypes, TabState, Token
<1> QED
  BY <1>1, <1>2, ElsewhereStep

(* One call changes.                                                        *)
LEMMA OneCall ==
    ASSUME SessionsInv, NEW r \in Requests, NEW q \in Calling,
           q.step # "idle" => q.tab \in Tabs, requests' = [requests EXCEPT ![r] = q]
    PROVE  CallTypes'
<1>1. \A s \in Requests : requests'[s] = IF s = r THEN q ELSE requests[s]
  BY Basics
<1>2. requests' \in [Requests -> Calling]
  BY Basics
<1> QED
  BY <1>1, <1>2, Basics DEF CallTypes

(* A call on its own, the page and the server's tables as they were.        *)
LEMMA CallAlone ==
    ASSUME SessionsInv, CallTypes',
           UNCHANGED <<refreshes, index, issued, exchanges, recovery, tabs, disk, qr, polls,
                       trouble, clobbered>>,
           live' \subseteq live
    PROVE  SessionsInv'
<1>1. OtherTypes' /\ live' \in SUBSET Nat /\ tabs' \in [Tabs -> TabState']
  BY Basics DEF OtherTypes, TabState, Token
<1> QED
  BY <1>1, ElsewhereStep

LEMMA SendStep ==
    ASSUME SessionsInv, NEW t \in Tabs, NEW r \in Requests, NEW kind \in {"call", "logout"},
           Send(t, r, kind)
    PROVE  SessionsInv'
<1> PICK q : q = [step |-> "sent", tab |-> t, token |-> tabs[t].session, retry |-> TRUE,
                  kind |-> kind, on |-> 0]
  OBVIOUS
<1>1. tabs[t].session \in Nat
  BY Basics DEF TabState
<1>2. q \in Calling /\ q.tab \in Tabs
  BY <1>1 DEF Calling
<1>3. /\ requests' = [requests EXCEPT ![r] = q]
      /\ UNCHANGED <<live, refreshes, index, issued, exchanges, recovery, tabs, disk, qr, polls,
                     trouble, clobbered>>
  BY DEF Send, server, page, qrVars
<1>4. CallTypes'
  BY <1>2, <1>3, OneCall
<1> QED
  BY <1>3, <1>4, CallAlone

(* A call that is over.                                                     *)
LEMMA EndType ==
    ASSUME SessionsInv, NEW q \in Calling, q.tab \in Tabs
    PROVE  End(q) \in Calling /\ (End(q).step # "idle" => End(q).tab \in Tabs)
<1>1. CASE q.kind = "logout"
  <2> PICK e : e = [q EXCEPT !.step = "ended"]
    OBVIOUS
  <2>1. e \in Calling /\ e.tab = q.tab
    BY DEF Calling
  <2>2. End(q) = e
    BY <1>1 DEF End
  <2> QED
    BY <2>1, <2>2
<1>2. CASE q.kind # "logout"
  <2>1. End(q) = Idle
    BY <1>2 DEF End
  <2>2. Idle.step = "idle"
    BY DEF Idle
  <2> QED
    BY <2>1, <2>2, Basics
<1> QED
  BY <1>1, <1>2

LEMMA CallStep ==
    ASSUME SessionsInv, NEW r \in Requests, Accepted(r) \/ Refused(r) \/ NoRefresh(r)
    PROVE  SessionsInv'
<1> PICK q \in Calling : q = requests[r]
  BY Basics
<1>0. q.step # "idle" => q.tab \in Tabs
  BY Basics DEF CallTypes
<1>1. UNCHANGED <<refreshes, index, issued, exchanges, recovery, tabs, disk, qr, polls,
                  trouble, clobbered>>
  BY DEF Accepted, Refused, NoRefresh, server, page, qrVars
<1>2. CASE Accepted(r)
  <2>1. /\ q.step = "sent" /\ live' \subseteq live
        /\ \/ requests' = [requests EXCEPT ![r] = [q EXCEPT !.step = "ended"]]
           \/ requests' = [requests EXCEPT ![r] = Idle]
    BY <1>2 DEF Accepted
  <2>2. CASE requests' = [requests EXCEPT ![r] = [q EXCEPT !.step = "ended"]]
    <3> PICK e : e = [q EXCEPT !.step = "ended"]
      OBVIOUS
    <3>1. e \in Calling /\ e.tab = q.tab
      BY DEF Calling
    <3>2. CallTypes'
      BY <1>0, <2>1, <2>2, <3>1, OneCall
    <3> QED
      BY <1>1, <2>1, <3>2, CallAlone
  <2>3. CASE requests' = [requests EXCEPT ![r] = Idle]
    <3> PICK e \in Calling : e = Idle
      BY Basics
    <3>1. e.step = "idle"
      BY DEF Idle
    <3>2. CallTypes'
      BY <2>3, <3>1, OneCall
    <3> QED
      BY <1>1, <2>1, <3>2, CallAlone
  <2> QED
    BY <2>1, <2>2, <2>3
<1>3. CASE Refused(r)
  <2>1. /\ q.step = "sent" /\ live' = live
        /\ requests' = [requests EXCEPT ![r].step = "refused"]
    BY <1>3 DEF Refused, server
  <2> PICK e : e = [q EXCEPT !.step = "refused"]
    OBVIOUS
  <2>2. e \in Calling /\ e.tab = q.tab
    BY DEF Calling
  <2>3. requests' = [requests EXCEPT ![r] = e]
    BY <2>1
  <2>4. CallTypes'
    BY <1>0, <2>1, <2>2, <2>3, OneCall
  <2> QED
    BY <1>1, <2>1, <2>4, CallAlone
<1>4. CASE NoRefresh(r)
  <2>1. q.step = "refused" /\ live' = live /\ requests' = [requests EXCEPT ![r] = End(q)]
    BY <1>4 DEF NoRefresh, server
  <2> PICK e \in Calling : e = End(q) /\ (e.step # "idle" => e.tab \in Tabs)
    BY <1>0, <2>1, EndType
  <2>2. CallTypes'
    BY <2>1, OneCall
  <2> QED
    BY <1>1, <2>1, <2>2, CallAlone
<1> QED
  BY <1>2, <1>3, <1>4

LEMMA QrLoginStep ==
    ASSUME SessionsInv, QrLogin
    PROVE  SessionsInv'
<1> PICK c \in Code : c = qr
  BY Basics
<1>1. UNCHANGED <<refreshes, index, exchanges, recovery, requests, clobbered>>
  BY Zenon DEF QrLogin, Elsewhere
<1>2. /\ issued' \in {issued, issued + 1} /\ \A n \in live' : n \in live \/ n = issued + 1
      /\ live' \in SUBSET Nat /\ UNCHANGED <<tabs, disk>>
      /\ trouble' \in {trouble, trouble \cup {"poll"}}
  <2>1. CASE \E t \in Tabs : QrGenerate(t)
    BY <2>1, Basics DEF QrGenerate, page
  <2>2. CASE QrAuthorize
    BY <2>2, Basics DEF QrAuthorize, page
  <2>3. CASE QrExpire
    BY <2>3, Basics DEF QrExpire, page
  <2>4. CASE \E p \in Polls : PollLost(p)
    BY <2>4, Basics DEF PollLost, page
  <2> QED
    BY <2>1, <2>2, <2>3, <2>4, Zenon DEF QrLogin
<1>3. qr' \in Code
  <2>1. CASE \E t \in Tabs : QrGenerate(t)
    BY <2>1 DEF QrGenerate, Code
  <2>2. CASE QrAuthorize
    <3> PICK n : n = issued'
      OBVIOUS
    <3>1. n \in Nat
      BY <2>2, Basics DEF QrAuthorize
    <3>2. qr' = [c EXCEPT !.step = "authorized", !.session = n]
      BY <2>2, Zenon DEF QrAuthorize
    <3>3. [c EXCEPT !.step = "authorized", !.session = n] \in Code
      BY <3>1 DEF Code
    <3> QED
      BY <3>2, <3>3
  <2>3. CASE QrExpire
    <3>1. qr' = [c EXCEPT !.step = "gone"]
      BY <2>3 DEF QrExpire
    <3>2. [c EXCEPT !.step = "gone"] \in Code
      BY DEF Code
    <3> QED
      BY <3>1, <3>2
  <2>4. CASE \E p \in Polls : PollLost(p)
    BY <2>4 DEF PollLost
  <2> QED
    BY <2>1, <2>2, <2>3, <2>4, Zenon DEF QrLogin
<1>4. polls' \in [Polls -> Polling]
  <2>1. CASE polls' = polls
    BY <2>1, Basics
  <2>2. CASE \E p \in Polls : polls' = [polls EXCEPT ![p] = NoPoll]
    BY <2>2, Basics
  <2> QED
    BY <2>1, <2>2 DEF QrLogin, QrGenerate, QrAuthorize, QrExpire, PollLost
<1>5. OtherTypes' /\ trouble \subseteq trouble' /\ tabs' \in [Tabs -> TabState']
  <2>1. TabState \subseteq TabState'
    BY <1>2, TokensGrow, Basics
  <2>2. tabs' \in [Tabs -> TabState']
    BY <1>2, <2>1, Basics
  <2>3. trouble' \in SUBSET {"cut", "shared", "poll"} /\ trouble \subseteq trouble'
    BY <1>2, Basics
  <2> QED
    BY <1>1, <1>3, <1>4, <2>2, <2>3, Basics DEF OtherTypes, CallTypes
<1> QED
  BY <1>1, <1>2, <1>5, ElsewhereStep

LEMMA PollStep ==
    ASSUME SessionsInv, NEW p \in Polls, PollForAuth(p)
    PROVE  SessionsInv'
<1> PICK c \in Code : c = qr
  BY Basics
<1> PICK e \in Polling : e = polls[p]
  BY Basics
<1>1. UNCHANGED <<refreshes, index, exchanges, recovery, requests, clobbered>>
  BY Zenon DEF PollForAuth, Elsewhere
<1>2. UNCHANGED <<live, issued, disk, trouble>>
  BY DEF PollForAuth, Poll, PollRead, PollDelete, PollAnswered, page
<1>3. tabs' \in [Tabs -> TabState] /\ \A t \in Tabs : tabs'[t].refresh = tabs[t].refresh
  <2>1. CASE tabs' = tabs
    BY <2>1, Basics
  <2>2. CASE tabs' = [tabs EXCEPT ![c.tab].session = e.session]
    <3> PICK n \in Nat : n = e.session
      BY DEF Polling
    <3>3. ASSUME NEW t \in Tabs
          PROVE  tabs'[t] \in TabState /\ tabs'[t].refresh = tabs[t].refresh
      <4> PICK tb \in TabState : tb = tabs[t]
        BY Basics
      <4> PICK tc : tc = [tb EXCEPT !.session = n]
        OBVIOUS
      <4>1. tc \in TabState /\ tc.refresh = tb.refresh
        BY DEF TabState
      <4>2. tabs'[t] = IF t = c.tab THEN tc ELSE tb
        BY <2>2, Basics
      <4> QED
        BY <4>1, <4>2
    <3>4. tabs' = [t \in Tabs |-> tabs'[t]]
      BY <2>2, Basics
    <3> QED
      BY <3>3, <3>4
  <2> QED
    BY <2>1, <2>2 DEF PollForAuth, Poll, PollRead, PollDelete, PollAnswered, page
<1>4. qr' \in Code
  <2>1. CASE qr' = qr
    BY <2>1
  <2>2. CASE PollDelete(p)
    <3>1. qr' = [c EXCEPT !.step = "gone"]
      BY <2>2 DEF PollDelete
    <3>2. [c EXCEPT !.step = "gone"] \in Code
      BY DEF Code
    <3> QED
      BY <3>1, <3>2
  <2>3. CASE PollAnswered(p)
    <3> PICK more \in BOOLEAN : more = (c.polling /\ e.step = "pending")
      OBVIOUS
    <3>1. qr' = [c EXCEPT !.polling = more]
      BY <2>3 DEF PollAnswered
    <3>2. [c EXCEPT !.polling = more] \in Code
      BY DEF Code
    <3> QED
      BY <3>1, <3>2
  <2> QED
    BY <2>1, <2>2, <2>3 DEF PollForAuth, Poll, PollRead
<1>5. polls' \in [Polls -> Polling]
  <2>1. ASSUME NEW q \in Polling, polls' = [polls EXCEPT ![p] = q]
        PROVE  polls' \in [Polls -> Polling]
    BY <2>1, Basics
  <2>2. CASE Poll(p)
    <3> PICK q : q = [e EXCEPT !.step = "asked"]
      OBVIOUS
    <3>1. q \in Polling
      BY DEF Polling
    <3>2. polls' = [polls EXCEPT ![p] = q]
      BY <2>2 DEF Poll
    <3> QED
      BY <2>1, <3>1, <3>2
  <2>3. CASE PollRead(p)
    <3> PICK q : q = [step |-> c.step, session |-> c.session]
      OBVIOUS
    <3>1. q \in Polling
      BY DEF Polling, Code
    <3>2. polls' = [polls EXCEPT ![p] = q]
      BY <2>3 DEF PollRead
    <3> QED
      BY <2>1, <3>1, <3>2
  <2>4. CASE PollDelete(p)
    <3> PICK q : q = [e EXCEPT !.step = "answered"]
      OBVIOUS
    <3>1. q \in Polling
      BY DEF Polling
    <3>2. polls' = [polls EXCEPT ![p] = q]
      BY <2>4 DEF PollDelete
    <3> QED
      BY <2>1, <3>1, <3>2
  <2>5. CASE PollAnswered(p)
    BY <2>5, Basics DEF PollAnswered
  <2> QED
    BY <2>2, <2>3, <2>4, <2>5 DEF PollForAuth
<1>6. OtherTypes' /\ tabs' \in [Tabs -> TabState'] /\ live' \in SUBSET Nat
  <2>1. TabState' = TabState
    BY <1>2 DEF TabState, Token
  <2> QED
    BY <1>1, <1>2, <1>3, <1>4, <1>5, <2>1, Basics DEF OtherTypes, CallTypes
<1> QED
  BY <1>1, <1>2, <1>3, <1>6, ElsewhereStep

-----------------------------------------------------------------------------
(* An exchange starts *)

LEMMA Starts ==
    ASSUME SessionsInv, NEW t \in Tabs, NEW x \in Exchanges, exchanges[x] = Quiet,
           NEW e \in Exchanging, exchanges' = [exchanges EXCEPT ![x] = e],
           e.tab = t, e.new = 0,
           \/ e.step = "found" /\ e.token = 0
           \/ /\ e.step = "asked" /\ e.token = tabs[t].refresh /\ e.token # 0
              /\ Refreshing(t) = {},
           UNCHANGED <<live, refreshes, index, issued, recovery, tabs, disk, qr, polls,
                       trouble, clobbered>>,
           CallTypes'
    PROVE  SessionsInv'
<1>1. \A y \in Exchanges : exchanges'[y] = IF y = x THEN e ELSE exchanges[y]
  BY Basics
<1>2. SessionsTypeOK'
  <2>1. exchanges' \in [Exchanges -> Exchanging] /\ Exchanging' = Exchanging /\ Token' = Token
        /\ TabState' = TabState
    BY Basics DEF Exchanging, Token, TabState
  <2>2. OtherTypes'
    BY Basics DEF OtherTypes
  <2> QED
    BY <2>1, <2>2, Basics DEF SessionsTypeOK
<1>3. Quiet.step = "none" /\ Quiet.new = 0 /\ Quiet.token = 0
  BY DEF Quiet
<1>4. Indexed'
  BY <1>1, <1>3 DEF SessionsInv, Indexed, Indexes
<1>5. NewTokens'
  BY <1>1, <1>3, Known DEF SessionsInv, NewTokens
<1>6. ASSUME Untroubled' PROVE TokensHeld' /\ RefreshesFind'
  <2>1. TokensHeld /\ RefreshesFind /\ t # 0
    BY <1>6, Basics DEF SessionsInv, Untroubled
  <2>2. TokensHeld'
    BY <1>1, <1>3, <2>1 DEF TokensHeld, Spends, UnderWay, Sharing
  <2>3. \A y \in Exchanges : UnderWay(y) /\ exchanges[y].token # 0 /\ exchanges[y].tab = t
           => e.step # "asked"
    BY DEF Refreshing, InFlight, UnderWay
  <2>4. e.step = "asked" => e.token \in refreshes
    BY <2>1, <2>3 DEF TokensHeld, Spends
  <2>5. e.step = "asked" => \A s \in Tabs : tabs[s].refresh = e.token => s = t
    BY <2>1 DEF TokensHeld, Sharing
  <2>6. \A y \in Exchanges : UnderWay(y) /\ e.token # 0 => exchanges[y].token # e.token
    BY <2>1, <2>3 DEF RefreshesFind
  <2>7. ~UnderWay(x)
    BY <1>3 DEF UnderWay
  <2>8. \A y \in Exchanges : UnderWay(y)' <=> y = x \/ UnderWay(y)
    BY <1>1 DEF UnderWay
  <2>9. RefreshesFind'
    <3> SUFFICES ASSUME NEW y \in Exchanges, UnderWay(y)'
                 PROVE  /\ exchanges'[y].tab # 0 /\ exchanges'[y].step # "denied"
                        /\ exchanges'[y].step = "asked" =>
                              exchanges'[y].token # 0 /\ exchanges'[y].token \in refreshes'
                        /\ exchanges'[y].new # 0 => exchanges'[y].new \in refreshes'
                        /\ exchanges'[y].token # 0 =>
                             /\ \A s \in Tabs : tabs'[s].refresh = exchanges'[y].token => s = exchanges'[y].tab
                             /\ disk' = exchanges'[y].token => tabs'[exchanges'[y].tab].refresh = disk'
                             /\ \A z \in Exchanges : UnderWay(z)' /\ exchanges'[z].token = exchanges'[y].token => z = y
      BY DEF RefreshesFind
    <3>1. CASE y = x
      BY <1>1, <2>1, <2>4, <2>5, <2>6, <2>8, <3>1
    <3>2. CASE y # x
      BY <1>1, <2>1, <2>6, <2>8, <3>2 DEF RefreshesFind
    <3> QED
      BY <3>1, <3>2
  <2> QED
    BY <2>2, <2>9
<1> QED
  BY <1>2, <1>4, <1>5, <1>6 DEF SessionsInv

LEMMA TryRefreshStep ==
    ASSUME SessionsInv, NEW r \in Requests, TryRefresh(r)
    PROVE  SessionsInv'
<1> PICK q \in Calling : q = requests[r]
  BY Basics
<1>1. PICK x \in Exchanges :
         /\ q.step = "refused" /\ tabs[q.tab].refresh # 0
         /\ \/ UNCHANGED exchanges
            \/ /\ Refreshing(q.tab) = {} /\ exchanges[x] = Quiet
               /\ exchanges' = [exchanges EXCEPT ![x] =
                     [Quiet EXCEPT !.step = "asked", !.tab = q.tab, !.token = tabs[q.tab].refresh]]
         /\ requests' = [requests EXCEPT ![r].step = "waiting", ![r].on = x]
         /\ UNCHANGED <<server, recovery, page, qrVars, trouble, clobbered>>
  BY Zenon DEF TryRefresh
<1>2. q.tab \in Tabs
  BY <1>1, Basics DEF CallTypes
<1>3. UNCHANGED <<live, refreshes, index, issued, recovery, tabs, disk, qr, polls,
                  trouble, clobbered>>
  BY <1>1 DEF server, page, qrVars
<1>4. CallTypes'
  <2> PICK w : w = [q EXCEPT !.step = "waiting", !.on = x]
    OBVIOUS
  <2>1. w \in Calling /\ w.tab = q.tab
    BY DEF Calling
  <2>2. requests' = [requests EXCEPT ![r] = w]
    BY <1>1, Basics
  <2> QED
    BY <1>2, <2>1, <2>2, OneCall
<1>5. CASE UNCHANGED exchanges
  BY <1>3, <1>4, <1>5, CallAlone
<1>6. CASE /\ Refreshing(q.tab) = {} /\ exchanges[x] = Quiet
           /\ exchanges' = [exchanges EXCEPT ![x] =
                 [Quiet EXCEPT !.step = "asked", !.tab = q.tab, !.token = tabs[q.tab].refresh]]
  <2> PICK t \in Tabs : t = q.tab
    BY <1>2
  <2> PICK k \in Token : k = tabs[t].refresh
    BY Known DEF SessionsInv
  <2> PICK e : e = [Quiet EXCEPT !.step = "asked", !.tab = t, !.token = k]
    OBVIOUS
  <2>1. e \in Exchanging /\ e.step = "asked" /\ e.tab = t /\ e.token = k
    <3>1. Quiet \in Exchanging
      BY Basics
    <3> QED
      BY <3>1 DEF Exchanging, ExchangeSteps
  <2>2. e.new = 0
    BY DEF Quiet
  <2>3. exchanges' = [exchanges EXCEPT ![x] = e] /\ exchanges[x] = Quiet
        /\ Refreshing(t) = {} /\ k # 0
    BY <1>1, <1>6
  <2> QED
    BY <1>3, <1>4, <2>1, <2>2, <2>3, Starts
<1> QED
  BY <1>1, <1>5, <1>6

LEMMA LoginStep ==
    ASSUME SessionsInv, NEW t \in Tabs, Login(t)
    PROVE  SessionsInv'
<1>1. PICK x \in Exchanges :
         /\ exchanges[x] = Quiet
         /\ exchanges' = [exchanges EXCEPT ![x] = [Quiet EXCEPT !.step = "found", !.tab = t]]
         /\ UNCHANGED <<server, recovery, page, requests, qrVars, trouble, clobbered>>
  BY Zenon DEF Login
<1> PICK e : e = [Quiet EXCEPT !.step = "found", !.tab = t]
  OBVIOUS
<1>2. e \in Exchanging /\ e.step = "found" /\ e.tab = t
  <2>1. Quiet \in Exchanging
    BY Basics
  <2> QED
    BY <2>1 DEF Exchanging, ExchangeSteps
<1>3. e.new = 0 /\ e.token = 0
  BY DEF Quiet
<1>4. UNCHANGED <<live, refreshes, index, issued, recovery, tabs, disk, qr, polls,
                  trouble, clobbered>>
  BY <1>1 DEF server, page, qrVars
<1>5. CallTypes'
  BY <1>1, Basics DEF CallTypes
<1> QED
  BY <1>1, <1>2, <1>3, <1>4, <1>5, Starts

-----------------------------------------------------------------------------
(* An exchange ends *)

LEMMA ReleasedTypes ==
    ASSUME SessionsInv, NEW x \in Exchanges, NEW n \in Nat, requests' = Released(x, n)
    PROVE  CallTypes'
<1> DEFINE Answer(q) == IF ~(q.step = "waiting" /\ q.on = x) THEN q
                        ELSE IF n # 0
                        THEN [q EXCEPT !.step = "sent", !.token = n, !.retry = FALSE, !.on = 0]
                        ELSE End(q)
<1>1. requests' = [r \in Requests |-> Answer(requests[r])]
  BY Zenon DEF Released
<1>2. ASSUME NEW r \in Requests
      PROVE  Answer(requests[r]) \in Calling
             /\ (Answer(requests[r]).step # "idle" => Answer(requests[r]).tab \in Tabs)
  <2> PICK q \in Calling : q = requests[r]
    BY Basics
  <2>1. q.step # "idle" => q.tab \in Tabs
    BY Basics DEF CallTypes
  <2> PICK w : w = [q EXCEPT !.step = "sent", !.token = n, !.retry = FALSE, !.on = 0]
    OBVIOUS
  <2>2. w \in Calling /\ w.tab = q.tab
    BY DEF Calling
  <2>3. CASE q.step = "waiting" /\ q.on = x /\ n # 0
    <3>1. q.tab \in Tabs
      BY <2>1, <2>3
    <3> QED
      BY <2>2, <2>3, <3>1
  <2>4. CASE q.step = "waiting" /\ q.on = x /\ n = 0
    <3>1. q.tab \in Tabs
      BY <2>1, <2>4
    <3> QED
      BY <2>4, <3>1, EndType
  <2>5. CASE ~(q.step = "waiting" /\ q.on = x)
    BY <2>1, <2>5
  <2> QED
    BY <2>3, <2>4, <2>5
<1> HIDE DEF Answer
<1> QED
  BY <1>1, <1>2 DEF CallTypes

(* The tokens a tab is given.                                               *)
LEMMA HoldType ==
    ASSUME SessionsInv, NEW t \in Tabs, NEW n \in Token, Hold(t, n, n)
    PROVE  /\ tabs' \in [Tabs -> TabState] /\ disk' = n
           /\ \A s \in Tabs : tabs'[s].refresh = IF s = t THEN n ELSE tabs[s].refresh
<1> PICK tb \in TabState : tb = tabs[t]
  BY Basics
<1>1. n \in Nat
  BY Basics DEF Token
<1> PICK tc : tc = [tb EXCEPT !.session = n, !.refresh = n]
  OBVIOUS
<1>2. tc \in TabState /\ tc.refresh = n
  BY <1>1 DEF TabState
<1>3. tabs' = [tabs EXCEPT ![t].session = n, ![t].refresh = n] /\ disk' = n
  BY Zenon DEF Hold
<1>4. tabs' = [tabs EXCEPT ![t] = tc]
  BY <1>3, Basics
<1> QED
  BY <1>2, <1>3, <1>4, Basics

LEMMA AnsweredStep ==
    ASSUME SessionsInv, NEW x \in Exchanges, ExchangeAnswered(x)
    PROVE  SessionsInv'
<1> PICK e \in Exchanging : e = exchanges[x]
  BY Basics
<1> PICK n \in Token : n = e.new
  BY DEF Exchanging
<1>1. /\ e.step \in {"answered", "denied"} /\ exchanges' = [exchanges EXCEPT ![x] = Quiet]
      /\ requests' = Released(x, n)
      /\ \/ e.tab = 0 /\ UNCHANGED page
         \/ e.tab # 0 /\ Hold(e.tab, n, n)
      /\ Troubled(FALSE)
      /\ UNCHANGED <<live, refreshes, index, issued, recovery, qr, polls, clobbered>>
  BY DEF ExchangeAnswered, server, qrVars
<1>2. \A y \in Exchanges : exchanges'[y] = IF y = x THEN Quiet ELSE exchanges[y]
  BY <1>1, Basics
<1>3. Quiet.step = "none" /\ Quiet.new = 0 /\ Quiet.token = 0
  BY DEF Quiet
<1>4. e.tab \in Tabs \cup {0} /\ n \in Nat /\ 0 \notin Tabs
  BY Basics DEF Exchanging, Token
<1>5. /\ tabs' \in [Tabs -> TabState] /\ disk' \in Token
      /\ \/ e.tab = 0 /\ tabs' = tabs /\ disk' = disk
         \/ /\ e.tab \in Tabs /\ disk' = n
            /\ \A s \in Tabs : tabs'[s].refresh = IF s = e.tab THEN n ELSE tabs[s].refresh
  <2>1. CASE e.tab = 0
    BY <1>1, <1>4, <2>1, Basics, Known DEF page
  <2>2. CASE e.tab # 0
    BY <1>1, <1>4, <2>2, HoldType
  <2> QED
    BY <2>1, <2>2
<1>6. trouble' = trouble \cup (IF Sharing(tabs') THEN {"shared"} ELSE {})
  BY <1>1 DEF Troubled
<1>7. SessionsTypeOK'
  <2>1. CallTypes'
    BY <1>1, <1>4, ReleasedTypes
  <2>2. OtherTypes'
    BY <1>1, <1>6, <2>1, Basics DEF OtherTypes
  <2>3. exchanges' \in [Exchanges -> Exchanging] /\ Exchanging' = Exchanging /\ Token' = Token
        /\ TabState' = TabState
    BY <1>1, Basics DEF Exchanging, Token, TabState
  <2> QED
    BY <1>1, <1>5, <2>2, <2>3, Basics DEF SessionsTypeOK
<1>8. Indexed'
  BY <1>1, <1>2, <1>3 DEF SessionsInv, Indexed, Indexes
<1>9. NewTokens'
  BY <1>2, <1>3, <1>5 DEF SessionsInv, NewTokens
<1>10. ASSUME Untroubled' PROVE TokensHeld' /\ RefreshesFind'
  <2>1. TokensHeld /\ RefreshesFind /\ ~Sharing(tabs') /\ NewTokens
    BY <1>6, <1>10 DEF SessionsInv, Untroubled
  <2>2. UnderWay(x)
    BY <1>1 DEF UnderWay
  <2>3. e.step = "answered" /\ e.tab \in Tabs
    BY <1>1, <1>4, <2>1, <2>2 DEF RefreshesFind
  <2>4. n # 0 /\ n \in refreshes /\ disk' = n
        /\ \A s \in Tabs : tabs'[s].refresh = IF s = e.tab THEN n ELSE tabs[s].refresh
    BY <1>4, <1>5, <2>1, <2>2, <2>3 DEF RefreshesFind, NewTokens
  <2>5. \A y \in Exchanges : exchanges[y].token # n
    BY <2>1, <2>4 DEF NewTokens
  <2>6. TokensHeld'
    <3>1. ASSUME NEW s \in Tabs, tabs'[s].refresh # 0
          PROVE  tabs'[s].refresh \in refreshes'
      BY <1>1, <2>1, <2>3, <2>4, <3>1 DEF Sharing
    <3>2. disk' \in refreshes'
      BY <1>1, <2>4
    <3> QED
      BY <2>1, <3>1, <3>2 DEF TokensHeld
  <2>7. RefreshesFind'
    BY <1>1, <1>2, <1>3, <2>1, <2>4, <2>5 DEF RefreshesFind, UnderWay
  <2> QED
    BY <2>6, <2>7
<1> QED
  BY <1>7, <1>8, <1>9, <1>10 DEF SessionsInv

LEMMA CutOffStep ==
    ASSUME SessionsInv, NEW x \in Exchanges, ExchangeCutOff(x)
    PROVE  SessionsInv'
<1> PICK e \in Exchanging : e = exchanges[x]
  BY Basics
<1> PICK q : q = [e EXCEPT !.tab = 0]
  OBVIOUS
<1>1. q \in Exchanging /\ q.step = e.step /\ q.token = e.token /\ q.new = e.new
  BY DEF Exchanging
<1>2. /\ \/ exchanges' = [exchanges EXCEPT ![x] = q]
         \/ e.step = "asked" /\ exchanges' = [exchanges EXCEPT ![x] = Quiet]
      /\ requests' = Released(x, 0) /\ trouble' = trouble \cup {"cut"}
      /\ UNCHANGED <<live, refreshes, index, issued, recovery, tabs, disk, qr, polls, clobbered>>
  BY DEF ExchangeCutOff, server, page, qrVars
<1>3. Quiet.step = "none" /\ Quiet.new = 0 /\ Quiet.token = 0
  BY DEF Quiet
<1>4. SessionsTypeOK'
  <2>1. CallTypes'
    BY <1>2, ReleasedTypes
  <2>2. OtherTypes'
    BY <1>2, <2>1, Basics DEF OtherTypes
  <2>3. exchanges' \in [Exchanges -> Exchanging] /\ Exchanging' = Exchanging /\ Token' = Token
        /\ TabState' = TabState
    BY <1>1, <1>2, Basics DEF Exchanging, Token, TabState
  <2> QED
    BY <1>2, <2>2, <2>3, Basics DEF SessionsTypeOK
<1>5. \/ \A y \in Exchanges : exchanges'[y] = IF y = x THEN q ELSE exchanges[y]
      \/ /\ exchanges[x].step = "asked"
         /\ \A y \in Exchanges : exchanges'[y] = IF y = x THEN Quiet ELSE exchanges[y]
  BY <1>2, Basics
<1>6. exchanges[x].step = "asked" => exchanges[x].new = 0
  BY DEF SessionsInv, NewTokens
<1>7. \A y \in Exchanges :
         /\ exchanges'[y].new = exchanges[y].new
         /\ exchanges'[y].token \in {0, exchanges[y].token}
         /\ Indexes(y)' <=> Indexes(y)
         /\ exchanges'[y].step = exchanges[y].step
            \/ (exchanges'[y].step = "none" /\ exchanges[y].step = "asked")
  BY <1>1, <1>3, <1>5, <1>6 DEF Indexes
<1>8. Indexed'
  BY <1>2, <1>7 DEF SessionsInv, Indexed
<1>9. NewTokens'
  BY <1>2, <1>7 DEF SessionsInv, NewTokens
<1>10. ~Untroubled'
  BY <1>2 DEF Untroubled
<1> QED
  BY <1>4, <1>8, <1>9, <1>10 DEF SessionsInv

-----------------------------------------------------------------------------
(* The page starts over *)

LEMMA RestartTypes ==
    ASSUME SessionsInv, NEW t \in Tabs, NEW session \in Nat, NEW open \in BOOLEAN,
           Restart(t, session, open), UNCHANGED <<server, recovery, disk, clobbered>>
    PROVE  SessionsTypeOK'
<1>0. UNCHANGED <<live, refreshes, index, issued>>
  BY DEF server
<1>a. Token' = Token /\ TabState' = TabState /\ Exchanging' = Exchanging
  BY <1>0 DEF Token, TabState, Exchanging
<1>1. tabs' \in [Tabs -> TabState]
  <2> PICK k \in Token : k = IF open THEN disk ELSE 0
    BY Basics, Known DEF Token
  <2>1. [open |-> open, session |-> session, refresh |-> k] \in TabState
    BY DEF TabState
  <2>2. tabs' = [tabs EXCEPT ![t] = [open |-> open, session |-> session, refresh |-> k]]
    BY DEF Restart
  <2> QED
    BY <2>1, <2>2, Basics
<1>2. exchanges' \in [Exchanges -> Exchanging]
  <2>1. exchanges' = [x \in Exchanges |->
             IF x \in InFlight(t) THEN [exchanges[x] EXCEPT !.tab = 0] ELSE exchanges[x]]
    BY DEF Restart
  <2>2. \A e \in Exchanging : [e EXCEPT !.tab = 0] \in Exchanging
    BY DEF Exchanging
  <2>3. \A x \in Exchanges : exchanges[x] \in Exchanging
    BY Basics
  <2> QED
    BY <2>1, <2>2, <2>3
<1>3. CallTypes'
  <2>1. requests' = [r \in Requests |-> IF requests[r].tab = t THEN Idle ELSE requests[r]]
    BY DEF Restart
  <2>2. Idle.step = "idle"
    BY DEF Idle
  <2> QED
    BY <2>1, <2>2, Basics DEF CallTypes
<1>4. polls' \in [Polls -> Polling]
  BY Basics DEF Restart
<1>5. qr' \in Code
  <2> PICK c \in Code : c = qr
    BY Basics
  <2>1. [c EXCEPT !.tab = 0, !.polling = FALSE] \in Code
    BY DEF Code
  <2>2. qr' = c \/ qr' = [c EXCEPT !.tab = 0, !.polling = FALSE]
    BY DEF Restart
  <2> QED
    BY <2>1, <2>2
<1>6. trouble' \in SUBSET {"cut", "shared", "poll"}
  BY Basics DEF Restart, Troubled
<1>7. OtherTypes'
  BY <1>3, <1>4, <1>5, <1>6, Basics DEF OtherTypes
<1> QED
  BY <1>0, <1>a, <1>1, <1>2, <1>7, Basics DEF SessionsTypeOK

(* A tab takes the token that is in localStorage: nobody may hold it.       *)
LEMMA RestartStep ==
    ASSUME SessionsInv, NEW t \in Tabs, NEW session \in Nat, NEW open \in BOOLEAN,
           Restart(t, session, open), UNCHANGED <<server, recovery, disk, clobbered>>
    PROVE  SessionsInv'
<1>1. UNCHANGED <<live, refreshes, index, issued, disk, clobbered>>
  BY DEF server
<1>2. \A s \in Tabs : tabs'[s].refresh =
          IF s = t THEN (IF open THEN disk ELSE 0) ELSE tabs[s].refresh
  <2>1. tabs' = [tabs EXCEPT ![t] = [open |-> open, session |-> session,
                                     refresh |-> IF open THEN disk ELSE 0]]
    BY DEF Restart
  <2> QED
    BY <2>1, Basics
<1>3. \A x \in Exchanges :
          /\ exchanges'[x].step = exchanges[x].step /\ exchanges'[x].new = exchanges[x].new
          /\ exchanges'[x].token = exchanges[x].token
          /\ x \notin InFlight(t) => exchanges'[x].tab = exchanges[x].tab
  <2>1. \A x \in Exchanges : exchanges'[x] =
             IF x \in InFlight(t) THEN [exchanges[x] EXCEPT !.tab = 0] ELSE exchanges[x]
    BY DEF Restart
  <2>2. \A e \in Exchanging : LET q == [e EXCEPT !.tab = 0] IN
            q.step = e.step /\ q.new = e.new /\ q.token = e.token
    BY DEF Exchanging
  <2> QED
    BY <2>1, <2>2, Basics
<1>4. trouble' = trouble \cup (IF InFlight(t) # {} THEN {"cut"} ELSE {})
                         \cup (IF Sharing(tabs') THEN {"shared"} ELSE {})
  BY DEF Restart, Troubled
<1>5. Indexed'
  BY <1>1, <1>3 DEF SessionsInv, Indexed, Indexes
<1>6. NewTokens'
  BY <1>1, <1>2, <1>3 DEF SessionsInv, NewTokens
<1>7. ASSUME Untroubled' PROVE TokensHeld' /\ RefreshesFind'
  <2>1. TokensHeld /\ RefreshesFind /\ InFlight(t) = {} /\ ~Sharing(tabs')
    BY <1>4, <1>7 DEF SessionsInv, Untroubled
  <2>2. \A x \in Exchanges :
            /\ exchanges'[x].tab = exchanges[x].tab
            /\ UnderWay(x)' <=> UnderWay(x)
            /\ UnderWay(x) => exchanges[x].tab # t
    BY <1>3, <2>1 DEF InFlight, UnderWay
  <2>3. ASSUME NEW x \in Exchanges, UnderWay(x), exchanges[x].token # 0
        PROVE  ~(open /\ disk = exchanges[x].token)
    <3> SUFFICES ASSUME open, disk = exchanges[x].token
                 PROVE  FALSE
      OBVIOUS
    <3>1. exchanges[x].tab \in Tabs /\ exchanges[x].tab # t
      BY <2>1, <2>2, <2>3, Known DEF RefreshesFind, SessionsInv
    <3>2. tabs[exchanges[x].tab].refresh = disk
      BY <2>1, <2>3 DEF RefreshesFind
    <3> QED
      BY <1>2, <2>1, <2>3, <3>1, <3>2 DEF Sharing
  <2>4. \A x \in Exchanges, s \in Tabs : \A n : Spends(x, s, n) =>
            exchanges'[x].step # "none" /\ exchanges'[x].tab = s /\ exchanges'[x].token = n
    BY <1>3, <2>2 DEF Spends, UnderWay
  <2>5. disk # 0 => disk \in refreshes \/ ~open
    BY <2>1, <2>3 DEF TokensHeld, Spends
  <2>6. TokensHeld'
    <3>1. ASSUME NEW s \in Tabs, tabs'[s].refresh # 0
          PROVE  \/ tabs'[s].refresh \in refreshes'
                 \/ \E x \in Exchanges : /\ exchanges'[x].step # "none" /\ exchanges'[x].tab = s
                                        /\ exchanges'[x].token = tabs'[s].refresh
      <4>1. CASE s = t
        BY <1>1, <1>2, <2>5, <3>1, <4>1
      <4>2. CASE s # t
        <5>1. tabs'[s].refresh = tabs[s].refresh
          BY <1>2, <4>2
        <5>2. tabs[s].refresh \in refreshes \/ \E x \in Exchanges : Spends(x, s, tabs[s].refresh)
          BY <2>1, <3>1, <5>1 DEF TokensHeld
        <5> QED
          BY <1>1, <2>4, <5>1, <5>2
      <4> QED
        BY <4>1, <4>2
    <3>2. disk' # 0 => \/ disk' \in refreshes'
                       \/ \E x \in Exchanges, s \in Tabs :
                             /\ exchanges'[x].step # "none" /\ exchanges'[x].tab = s
                             /\ exchanges'[x].token = disk'
      <4>1. disk # 0 => disk \in refreshes \/ \E x \in Exchanges, s \in Tabs : Spends(x, s, disk)
        BY <2>1 DEF TokensHeld
      <4> QED
        BY <1>1, <2>4, <4>1
    <3> QED
      BY <2>1, <3>1, <3>2 DEF TokensHeld, Spends, UnderWay
  <2>7. RefreshesFind'
    <3> SUFFICES ASSUME NEW x \in Exchanges, UnderWay(x)
                 PROVE  /\ exchanges'[x].tab # 0 /\ exchanges'[x].step # "denied"
                        /\ exchanges'[x].step = "asked" =>
                              exchanges'[x].token # 0 /\ exchanges'[x].token \in refreshes'
                        /\ exchanges'[x].new # 0 => exchanges'[x].new \in refreshes'
                        /\ exchanges'[x].token # 0 =>
                             /\ \A s \in Tabs : tabs'[s].refresh = exchanges'[x].token => s = exchanges'[x].tab
                             /\ disk' = exchanges'[x].token => tabs'[exchanges'[x].tab].refresh = disk'
                             /\ \A z \in Exchanges : UnderWay(z)' /\ exchanges'[z].token = exchanges'[x].token => z = x
      BY <2>2 DEF RefreshesFind
    <3>1. exchanges[x].tab \in Tabs
      BY <2>1, Known DEF RefreshesFind, SessionsInv
    <3> QED
      BY <1>1, <1>2, <1>3, <2>1, <2>2, <2>3, <3>1 DEF RefreshesFind
  <2> QED
    BY <2>6, <2>7
<1> QED
  BY <1>5, <1>6, <1>7, RestartTypes DEF SessionsInv

LEMMA PageStep ==
    ASSUME SessionsInv, NEW t \in Tabs, Reload(t) \/ OpenTab(t) \/ CloseTab(t)
    PROVE  SessionsInv'
<1>1. tabs[t].session \in Nat /\ 0 \in Nat
  BY Basics DEF TabState
<1>2. /\ Restart(t, tabs[t].session, TRUE) \/ Restart(t, 0, TRUE) \/ Restart(t, 0, FALSE)
      /\ UNCHANGED <<server, recovery, disk, clobbered>>
  BY Zenon DEF Reload, OpenTab, CloseTab
<1> QED
  BY <1>1, <1>2, RestartStep, Zenon

LEMMA LogoutReloadStep ==
    ASSUME SessionsInv, NEW r \in Requests, LogoutReload(r)
    PROVE  SessionsInv'
<1>1. requests[r].tab \in Tabs /\ 0 \in Nat
  BY Basics DEF LogoutReload, CallTypes
<1>2. Restart(requests[r].tab, 0, TRUE) /\ UNCHANGED <<server, recovery, disk, clobbered>>
  BY Zenon DEF LogoutReload
<1> QED
  BY <1>1, <1>2, RestartStep, Zenon

LEMMA LoggedOutStep ==
    ASSUME SessionsInv, NEW r \in Requests, LoggedOut(r)
    PROVE  SessionsInv'
<1> PICK q \in Calling : q = requests[r]
  BY Basics
<1>1. /\ q.step = "ended" /\ Hold(q.tab, 0, 0) /\ Troubled(InFlight(q.tab) # {})
      /\ requests' = [requests EXCEPT ![r].step = "leaving"]
      /\ UNCHANGED <<live, refreshes, index, issued, exchanges, recovery, qr, polls, clobbered>>
  BY DEF LoggedOut, server, qrVars
<1> PICK t \in Tabs : t = q.tab
  BY <1>1, Basics DEF CallTypes
<1>2. 0 \in Token /\ Token' = Token /\ TabState' = TabState /\ Exchanging' = Exchanging
  BY <1>1, Basics DEF Token, TabState, Exchanging
<1>3. /\ tabs' \in [Tabs -> TabState] /\ disk' = 0
      /\ \A s \in Tabs : tabs'[s].refresh = IF s = t THEN 0 ELSE tabs[s].refresh
  BY <1>1, <1>2, HoldType
<1>4. trouble' = trouble \cup (IF InFlight(t) # {} THEN {"cut"} ELSE {})
                         \cup (IF Sharing(tabs') THEN {"shared"} ELSE {})
  BY <1>1 DEF Troubled
<1>5. CallTypes'
  <2> PICK e : e = [q EXCEPT !.step = "leaving"]
    OBVIOUS
  <2>1. e \in Calling /\ e.tab = t
    BY DEF Calling
  <2>2. requests' = [requests EXCEPT ![r] = e]
    BY <1>1
  <2> QED
    BY <2>1, <2>2, OneCall
<1>6. SessionsTypeOK'
  <2>1. trouble' \in SUBSET {"cut", "shared", "poll"}
    BY <1>4, Basics
  <2>2. OtherTypes'
    BY <1>1, <1>5, <2>1, Basics DEF OtherTypes
  <2> QED
    BY <1>1, <1>2, <1>3, <2>2, Basics DEF SessionsTypeOK
<1>7. Indexed'
  BY <1>1 DEF SessionsInv, Indexed, Indexes
<1>8. NewTokens'
  BY <1>1, <1>3 DEF SessionsInv, NewTokens
<1>9. ASSUME Untroubled' PROVE TokensHeld' /\ RefreshesFind'
  <2>1. TokensHeld /\ RefreshesFind /\ ~Sharing(tabs')
    BY <1>4, <1>9 DEF SessionsInv, Untroubled
  <2>2. ASSUME NEW s \in Tabs, tabs'[s].refresh # 0
        PROVE  \/ tabs'[s].refresh \in refreshes'
               \/ \E x \in Exchanges : /\ exchanges'[x].step # "none" /\ exchanges'[x].tab = s
                                      /\ exchanges'[x].token = tabs'[s].refresh
    <3>1. tabs'[s].refresh = tabs[s].refresh
      BY <1>3, <2>2
    <3> QED
      BY <1>1, <2>1, <2>2, <3>1 DEF TokensHeld, Spends, UnderWay
  <2>3. TokensHeld'
    BY <1>3, <2>1, <2>2 DEF TokensHeld, Spends, UnderWay
  <2>4. RefreshesFind'
    BY <1>1, <1>3, <2>1 DEF RefreshesFind, UnderWay
  <2> QED
    BY <2>3, <2>4
<1> QED
  BY <1>6, <1>7, <1>8, <1>9 DEF SessionsInv

-----------------------------------------------------------------------------
(* The theorems *)

LEMMA SessionsInit == Init => SessionsInv
<1> SUFFICES ASSUME Init PROVE SessionsInv
  OBVIOUS
<1>1. /\ live = {} /\ refreshes = {} /\ index = {} /\ issued = 0 /\ disk = 0
      /\ exchanges = [x \in Exchanges |-> Quiet]
      /\ recovery = [step |-> "none", seen |-> {}]
      /\ tabs = [t \in Tabs |-> [open |-> TRUE, session |-> 0, refresh |-> 0]]
      /\ requests = [r \in Requests |-> Idle]
      /\ qr = [step |-> "none", session |-> 0, tab |-> 0, polling |-> FALSE]
      /\ polls = [p \in Polls |-> NoPoll]
      /\ trouble = {} /\ clobbered = FALSE
  BY DEF Init
<1>2. /\ Quiet.step = "none" /\ Quiet.new = 0 /\ Quiet.token = 0 /\ Idle.step = "idle"
      /\ Idle \in Calling /\ NoPoll \in Polling
  BY DEF Quiet, Idle, NoPoll, Calling, Polling
<1>3. 0 \in Token /\ 0 \in Nat
  BY <1>1 DEF Token
<1>4. Quiet \in Exchanging
  BY <1>3 DEF Quiet, Exchanging, ExchangeSteps
<1>5. OtherTypes
  BY <1>1, <1>2 DEF OtherTypes, CallTypes, Code
<1>6. SessionsTypeOK
  <2>1. tabs \in [Tabs -> TabState]
    BY <1>1, <1>3 DEF TabState
  <2> QED
    BY <1>1, <1>3, <1>4, <1>5, <2>1 DEF SessionsTypeOK
<1>7. \A x \in Exchanges : exchanges[x].step = "none" /\ exchanges[x].new = 0
  BY <1>1, <1>2
<1>8. \A t \in Tabs : tabs[t].refresh = 0
  BY <1>1
<1>9. Indexed /\ NewTokens /\ TokensHeld /\ RefreshesFind
  BY <1>1, <1>7, <1>8 DEF Indexed, NewTokens, TokensHeld, RefreshesFind, UnderWay, Sharing
<1> QED
  BY <1>6, <1>9 DEF SessionsInv

LEMMA SessionsNext == SessionsInv /\ [Next]_vars => SessionsInv'
<1> SUFFICES ASSUME SessionsInv, [Next]_vars PROVE SessionsInv'
  OBVIOUS
<1>1. CASE Exchange
  BY <1>1, ExchangeNext
<1>2. CASE Recovery
  BY <1>2, RecoveryStep
<1>3. CASE Expire
  BY <1>3, ExpireStep
<1>4. CASE QrLogin
  BY <1>4, QrLoginStep
<1>5. CASE Answered
  BY <1>5, AnsweredStep DEF Answered
<1>6. CASE \E x \in Exchanges : ExchangeCutOff(x)
  BY <1>6, CutOffStep
<1>7. CASE \E p \in Polls : PollForAuth(p)
  BY <1>7, PollStep
<1>8. ASSUME NEW r \in Requests, Call(r) PROVE SessionsInv'
  BY <1>8, CallStep, TryRefreshStep, LoggedOutStep, LogoutReloadStep, Zenon DEF Call
<1>9. ASSUME NEW t \in Tabs, NEW r \in Requests, NEW kind \in {"call", "logout"},
             Send(t, r, kind)
      PROVE  SessionsInv'
  BY <1>9, SendStep
<1>10. ASSUME NEW t \in Tabs, Login(t) \/ Reload(t) \/ OpenTab(t) \/ CloseTab(t)
       PROVE  SessionsInv'
  BY <1>10, LoginStep, PageStep, Zenon
<1>11. CASE UNCHANGED vars
  <2>1. UNCHANGED <<live, refreshes, index, issued, exchanges, recovery, tabs, disk, requests,
                    qr, polls, trouble, clobbered>>
    BY <1>11 DEF vars, server, page, qrVars
  <2>2. CallTypes'
    BY <2>1, Basics DEF CallTypes
  <2> QED
    BY <2>1, <2>2, CallAlone
<1> QED
  BY <1>1, <1>2, <1>3, <1>4, <1>5, <1>6, <1>7, <1>8, <1>9, <1>10, <1>11, Zenon DEF Next

(* The invariant, of every behaviour.                                       *)
THEOREM SessionsInvariant == Spec => []SessionsInv
<1> QED
  BY SessionsInit, SessionsNext, PTL DEF Spec

(* IndexKnowsSessions for every number of tabs, logins and refreshes under  *)
(* way (indexUserSession, handleRecoveryComplete of auth.ts).               *)
THEOREM IndexKnowsSessionsHolds == Spec => []IndexKnowsSessions
<1>1. SessionsInv => IndexKnowsSessions
  BY DEF SessionsInv, Indexed, IndexKnowsSessions
<1> QED
  BY <1>1, SessionsInvariant, PTL

(* An answer takes the token away only if the refresh was denied, and an     *)
(* undisturbed one is not.                                                  *)
LEMMA AnswerKeepsTokens ==
    ASSUME SessionsInv, NEW x \in Exchanges, ExchangeAnswered(x), disk # 0, disk' = 0
    PROVE  trouble' \cap {"cut", "shared"} # {}
<1> SUFFICES ASSUME trouble' \cap {"cut", "shared"} = {}
             PROVE  FALSE
  OBVIOUS
<1> PICK e : e = exchanges[x]
  OBVIOUS
<1>1. e.step \in {"answered", "denied"} /\ e.new = 0 /\ trouble \subseteq trouble'
  BY DEF ExchangeAnswered, Hold, page, Troubled
<1>2. RefreshesFind /\ UnderWay(x)
  BY <1>1 DEF SessionsInv, Untroubled, UnderWay
<1>3. e.step = "answered"
  BY <1>1, <1>2 DEF RefreshesFind
<1> QED
  BY <1>1, <1>3 DEF SessionsInv, NewTokens

(* StaysSignedIn for every number of tabs and calls (tryRefresh of api.ts,  *)
(* handleRefresh of auth.ts, the logout button of settings.ts).             *)
THEOREM StaysSignedInHolds == Spec => StaysSignedIn
<1> DEFINE Kept == disk # 0 /\ disk' = 0 =>
                     \/ trouble' \cap {"cut", "shared"} # {}
                     \/ \E r \in Requests : requests[r].kind = "logout" /\ requests[r].step = "ended"
<1>1. SessionsInv /\ [Next]_vars => [Kept]_vars
  <2> SUFFICES ASSUME SessionsInv, Next, disk # 0, disk' = 0
               PROVE  \/ trouble' \cap {"cut", "shared"} # {}
                      \/ \E r \in Requests : requests[r].kind = "logout" /\ requests[r].step = "ended"
    OBVIOUS
  <2>1. disk' # disk
    OBVIOUS
  <2>2. ~Exchange /\ ~Recovery /\ ~Expire /\ ~QrLogin
    <3>1. ~Exchange /\ ~Recovery /\ ~Expire
      BY <2>1 DEF Exchange, Recovery, Expire, page
    <3>2. ~QrLogin
      BY <2>1 DEF QrLogin, QrGenerate, QrAuthorize, QrExpire, PollLost, page
    <3> QED
      BY <3>1, <3>2
  <2>3. \A x \in Exchanges : ~ExchangeCutOff(x)
    BY <2>1 DEF ExchangeCutOff, page
  <2>4. \A p \in Polls : ~PollForAuth(p)
    BY <2>1 DEF PollForAuth, Poll, PollRead, PollDelete, PollAnswered, page
  <2>5. \A t \in Tabs :
           /\ \A r \in Requests, kind \in {"call", "logout"} : ~Send(t, r, kind)
           /\ ~Login(t) /\ ~Reload(t) /\ ~OpenTab(t) /\ ~CloseTab(t)
    BY <2>1 DEF Send, Login, Reload, OpenTab, CloseTab, page
  <2>6. ASSUME NEW r \in Requests, Call(r)
        PROVE  requests[r].kind = "logout" /\ requests[r].step = "ended"
    BY <2>1, <2>6 DEF Call, Accepted, Refused, TryRefresh, NoRefresh, LoggedOut, LogoutReload, page
  <2>7. CASE Answered
    BY <2>7, AnswerKeepsTokens DEF Answered
  <2> QED
    BY <2>2, <2>3, <2>4, <2>5, <2>6, <2>7, Zenon DEF Next
<1> QED
  BY <1>1, SessionsInvariant, PTL DEF Spec, StaysSignedIn

=============================================================================
