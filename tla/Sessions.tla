------------------------------ MODULE Sessions ------------------------------
(***************************************************************************)
(* Signing in and staying signed in: the session and refresh tokens of     *)
(* src/backend/src/auth.ts, middleware.ts and qr-auth.ts, and the tabs of   *)
(* one browser that use them (src/web/src/api.ts, auth/qr-login.ts).       *)
(*                                                                         *)
(* The tokens issued together are one number; 0 is no token.  KV is taken  *)
(* to be read as last written.  The password and proof-of-work checks are  *)
(* left out: a request that fails them changes nothing here.  The column   *)
(* identity_private_encrypted that the QR handler selects, and no migration *)
(* creates, is taken to exist, or no QR code would ever be authorized.     *)
(***************************************************************************)
EXTENDS Naturals, FiniteSets

CONSTANTS Tabs,        \* tabs of the browser: they share localStorage
          Requests,    \* API calls under way at once
          Exchanges,   \* logins and refreshes under way at once
          Polls,       \* polls of the QR page under way at once
          MaxSession,  \* bound: tokens issued
          MaxEvents    \* bound: pages opened, closed and reloaded, QR codes,
                       \* recoveries, expiries, logouts, answers cut off

ASSUME SessionsAssumption ==
    {MaxSession, MaxEvents} \subseteq Nat /\ 0 \notin Tabs

VARIABLES
    live,       \* sessions KV holds under sessionh: or session:
    refreshes,  \* refresh tokens it holds
    index,      \* user_sessions: the sessions recovery revokes
    issued,     \* tokens issued so far
    exchanges,  \* handleRefresh and handleLogin, from the call to the answer
    recovery,   \* handleRecoveryComplete
    tabs,       \* what each tab holds in memory and in sessionStorage
    disk,       \* the refresh token in localStorage
    requests,   \* calls of req()
    qr, polls,  \* the QR login: its entry, and the polls for it
    trouble,    \* what went wrong: an exchange cut off, tabs sharing a token
    clobbered,  \* have two writers of the index overlapped?
    events      \* events so far

server == <<live, refreshes, index, issued>>
page == <<tabs, disk>>
qrVars == <<qr, polls>>
vars == <<server, exchanges, recovery, page, requests, qrVars, trouble, clobbered, events>>

Quiet == [step |-> "none", tab |-> 0, token |-> 0, new |-> 0, seen |-> {}]
Idle == [step |-> "idle", tab |-> 0, token |-> 0, retry |-> FALSE, kind |-> "call",
         on |-> 0]
NoPoll == [step |-> "none", session |-> 0]

(* Refreshes and logins tab t awaits. *)
InFlight(t) == {x \in Exchanges : exchanges[x].step # "none" /\ exchanges[x].tab = t}

(* refreshInFlight; a login has no old token. *)
Refreshing(t) == {x \in InFlight(t) : exchanges[x].token # 0}

Event == events < MaxEvents /\ events' = events + 1

Sharing(ts) ==
    \E s, t \in Tabs : s # t /\ ts[s].refresh # 0 /\ ts[t].refresh # 0

Troubled(cut) ==
    trouble' = trouble \cup (IF cut THEN {"cut"} ELSE {})
                       \cup (IF Sharing(tabs') THEN {"shared"} ELSE {})

-----------------------------------------------------------------------------
(* The server's half of an exchange, one KV operation or pair of unrelated *)
(* ones at a time.                                                         *)
Step(x, from, to) ==
    /\ exchanges[x].step = from
    /\ exchanges' = [exchanges EXCEPT ![x].step = to]

RefreshRead(x) ==
    /\ Step(x, "asked", IF exchanges[x].token \in refreshes THEN "found" ELSE "denied")
    /\ UNCHANGED <<server, clobbered>>

(* A refresh spends its token first; a login has none to spend.             *)
IssueSession(x) ==
    /\ exchanges[x].step = "found" /\ issued < MaxSession
    /\ issued' = issued + 1
    /\ live' = (live \ {exchanges[x].token}) \cup {issued'}
    /\ refreshes' = (refreshes \ {exchanges[x].token}) \cup {issued'}
    /\ exchanges' = [exchanges EXCEPT ![x].step = "issued", ![x].new = issued']
    /\ UNCHANGED <<index, clobbered>>

IndexRead(x) ==
    /\ exchanges[x].step = "issued"
    /\ exchanges' = [exchanges EXCEPT ![x].step = "indexing", ![x].seen = index]
    /\ UNCHANGED <<server, clobbered>>

(* Mutant: a refreshed session is left out of the index. *)
IndexLogin(x) ==
    /\ Step(x, "indexing", "answered")
    /\ index' = exchanges[x].seen \cup (IF exchanges[x].token = 0 THEN {exchanges[x].new} ELSE {})
    /\ clobbered' = (clobbered \/ index # exchanges[x].seen)
    /\ UNCHANGED <<live, refreshes, issued>>

IndexUserSession(x) ==
    /\ Step(x, "indexing", "answered")
    /\ index' = exchanges[x].seen \cup {exchanges[x].new}
    /\ clobbered' = (clobbered \/ index # exchanges[x].seen)
    /\ UNCHANGED <<live, refreshes, issued>>

Exchange ==
    /\ \E x \in Exchanges :
          RefreshRead(x) \/ IssueSession(x) \/ IndexRead(x) \/ IndexUserSession(x)
    /\ UNCHANGED <<recovery, page, requests, qrVars, trouble, events>>

(* handleRecoveryComplete, from another device: the sessions of the index. *)
RecoveryRead ==
    /\ recovery.step = "none" /\ Event
    /\ recovery' = [step |-> "revoking", seen |-> index]
    /\ UNCHANGED <<server, clobbered>>

RecoveryRevoke ==
    /\ recovery.step = "revoking"
    /\ recovery' = [step |-> "done", seen |-> {}]
    /\ UNCHANGED events
    /\ live' = live \ recovery.seen
    /\ index' = {}
    /\ clobbered' = (clobbered \/ index # recovery.seen)
    /\ UNCHANGED <<refreshes, issued>>

Recovery ==
    /\ RecoveryRead \/ RecoveryRevoke
    /\ UNCHANGED <<exchanges, page, requests, qrVars, trouble>>

(* A session token reaches its expiry (KV's expirationTtl). *)
Expire ==
    /\ Event
    /\ \E n \in live : live' = live \ {n}
    /\ UNCHANGED <<refreshes, index, issued, exchanges, recovery, page,
                   requests, qrVars, trouble, clobbered>>

-----------------------------------------------------------------------------
(* req(): a call with the tab's session, refreshed and tried once more on 401. *)
Send(t, r, kind) ==
    /\ tabs[t].session # 0 /\ requests[r] = Idle
    /\ IF kind = "logout" THEN Event ELSE UNCHANGED events
    /\ requests' = [requests EXCEPT ![r] =
           [step |-> "sent", tab |-> t, token |-> tabs[t].session, retry |-> TRUE,
            kind |-> kind, on |-> 0]]
    /\ UNCHANGED <<server, exchanges, recovery, page, qrVars, trouble, clobbered>>

(* verifySession.  An isolate that verified the session in the last two    *)
(* minutes takes it from its cache, revoked or not; whether there is one   *)
(* is left open.  A logout deletes the session it came with.               *)
Accepted(r) ==
    LET q == requests[r] IN
    /\ q.step = "sent"
    /\ live' = IF q.kind = "logout" THEN live \ {q.token} ELSE live
    /\ requests' = [requests EXCEPT ![r] =
           IF q.kind = "logout" THEN [q EXCEPT !.step = "ended"] ELSE Idle]
    /\ UNCHANGED <<refreshes, index, issued, exchanges, recovery, page, qrVars,
                   trouble, clobbered, events>>

Refused(r) ==
    /\ requests[r].step = "sent" /\ requests[r].token \notin live
    /\ requests' = [requests EXCEPT ![r].step = "refused"]
    /\ UNCHANGED <<server, exchanges, recovery, page, qrVars, trouble, clobbered, events>>

(* Mutant: no single flight. *)
TryRefreshAlone(r) ==
    LET q == requests[r] IN
    /\ q.step = "refused" /\ q.retry /\ tabs[q.tab].refresh # 0
    /\ \E x \in Exchanges :
          /\ exchanges[x] = Quiet
          /\ exchanges' = [exchanges EXCEPT ![x] =
                 [Quiet EXCEPT !.step = "asked", !.tab = q.tab, !.token = tabs[q.tab].refresh]]
          /\ requests' = [requests EXCEPT ![r].step = "waiting", ![r].on = x]
    /\ UNCHANGED <<server, recovery, page, qrVars, trouble, clobbered, events>>

(* tryRefresh joins the exchange the tab has under way, or starts one. *)
TryRefresh(r) ==
    LET q == requests[r] IN
    /\ q.step = "refused" /\ q.retry /\ tabs[q.tab].refresh # 0
    /\ \E x \in Exchanges :
          /\ IF Refreshing(q.tab) # {} THEN x \in Refreshing(q.tab) /\ UNCHANGED exchanges
             ELSE /\ exchanges[x] = Quiet
                  /\ exchanges' = [exchanges EXCEPT ![x] =
                         [Quiet EXCEPT !.step = "asked", !.tab = q.tab,
                                       !.token = tabs[q.tab].refresh]]
          /\ requests' = [requests EXCEPT ![r].step = "waiting", ![r].on = x]
    /\ UNCHANGED <<server, recovery, page, qrVars, trouble, clobbered, events>>

End(q) == IF q.kind = "logout" THEN [q EXCEPT !.step = "ended"] ELSE Idle

NoRefresh(r) ==
    LET q == requests[r] IN
    /\ q.step = "refused" /\ ~(q.retry /\ tabs[q.tab].refresh # 0)
    /\ requests' = [requests EXCEPT ![r] = End(q)]
    /\ UNCHANGED <<server, exchanges, recovery, page, qrVars, trouble, clobbered, events>>

(* Mutant: the calls that wait are not told of a denial. *)
ReleasedByTokens(x, n) ==
    [r \in Requests |->
        LET q == requests[r] IN
        IF q.step = "waiting" /\ q.on = x /\ n # 0
        THEN [q EXCEPT !.step = "sent", !.token = n, !.retry = FALSE, !.on = 0] ELSE q]

(* The calls that wait for exchange x: tried again, or over. *)
Released(x, n) ==
    [r \in Requests |->
        LET q == requests[r] IN
        IF ~(q.step = "waiting" /\ q.on = x) THEN q
        ELSE IF n # 0 THEN [q EXCEPT !.step = "sent", !.token = n, !.retry = FALSE, !.on = 0]
        ELSE End(q)]

(* setToken and setRefreshToken. *)
Hold(t, session, refresh) ==
    /\ tabs' = [tabs EXCEPT ![t].session = session, ![t].refresh = refresh]
    /\ disk' = refresh

ExchangeAnswered(x) ==
    LET e == exchanges[x] IN
    /\ e.step \in {"answered", "denied"}
    /\ exchanges' = [exchanges EXCEPT ![x] = Quiet]
    /\ requests' = Released(x, e.new)
    /\ IF e.tab = 0 THEN UNCHANGED page ELSE Hold(e.tab, e.new, e.new)
    /\ Troubled(FALSE)
    /\ UNCHANGED <<server, recovery, qrVars, clobbered, events>>

(* fetch rejects: the tokens stay as they are, and the answer, if any, is  *)
(* heard by nobody.                                                        *)
ExchangeCutOff(x) ==
    LET e == exchanges[x] IN
    /\ e.step # "none" /\ e.tab # 0 /\ Event
    /\ \/ exchanges' = [exchanges EXCEPT ![x].tab = 0]
       \/ e.step = "asked" /\ exchanges' = [exchanges EXCEPT ![x] = Quiet]
    /\ requests' = Released(x, 0)
    /\ trouble' = trouble \cup {"cut"}
    /\ UNCHANGED <<server, recovery, page, qrVars, clobbered>>

Login(t) ==
    /\ tabs[t].open /\ tabs[t].session = 0 /\ InFlight(t) = Refreshing(t)
    /\ \E x \in Exchanges :
          /\ exchanges[x] = Quiet
          /\ exchanges' = [exchanges EXCEPT ![x] =
                 [Quiet EXCEPT !.step = "found", !.tab = t]]
    /\ UNCHANGED <<server, recovery, page, requests, qrVars, trouble, clobbered, events>>

-----------------------------------------------------------------------------
(* The page starts over: sessionStorage and localStorage are what is left. *)
Restart(t, session, open) ==
    /\ tabs' = [tabs EXCEPT ![t] = [open |-> open, session |-> session,
                                    refresh |-> IF open THEN disk ELSE 0]]
    /\ exchanges' = [x \in Exchanges |->
           IF x \in InFlight(t) THEN [exchanges[x] EXCEPT !.tab = 0] ELSE exchanges[x]]
    /\ requests' = [r \in Requests |-> IF requests[r].tab = t THEN Idle ELSE requests[r]]
    /\ polls' = IF qr.tab = t THEN [p \in Polls |-> NoPoll] ELSE polls
    /\ qr' = IF qr.tab = t THEN [qr EXCEPT !.tab = 0, !.polling = FALSE] ELSE qr
    /\ Troubled(InFlight(t) # {})

Reload(t) ==
    /\ tabs[t].open /\ Event /\ Restart(t, tabs[t].session, TRUE)
    /\ UNCHANGED <<server, recovery, disk, clobbered>>

OpenTab(t) ==
    /\ ~tabs[t].open /\ Event /\ Restart(t, 0, TRUE)
    /\ UNCHANGED <<server, recovery, disk, clobbered>>

CloseTab(t) ==
    /\ tabs[t].open /\ Event /\ Restart(t, 0, FALSE)
    /\ UNCHANGED <<server, recovery, disk, clobbered>>

(* The logout button (settings.ts): whatever the call came to, the tokens  *)
(* are cleared; the page is reloaded a few awaits later.                   *)
LoggedOut(r) ==
    LET q == requests[r] IN
    /\ q.kind = "logout" /\ q.step = "ended"
    /\ Hold(q.tab, 0, 0)
    /\ requests' = [requests EXCEPT ![r].step = "leaving"]
    /\ Troubled(InFlight(q.tab) # {})
    /\ UNCHANGED <<server, exchanges, recovery, qrVars, clobbered, events>>

LogoutReload(r) ==
    LET q == requests[r] IN
    /\ q.kind = "logout" /\ q.step = "leaving"
    /\ Restart(q.tab, 0, TRUE)
    /\ UNCHANGED <<server, recovery, disk, clobbered, events>>

-----------------------------------------------------------------------------
(* The QR login page: a code, a poll every two seconds, a phone that is     *)
(* signed in.  Polls may overlap; one that finds the code authorized        *)
(* deletes it.                                                              *)
QrGenerate(t) ==
    /\ tabs[t].open /\ tabs[t].session = 0 /\ qr.step = "none" /\ Event
    /\ qr' = [step |-> "pending", session |-> 0, tab |-> t, polling |-> TRUE]
    /\ UNCHANGED <<live, issued, page, polls, trouble>>

QrAuthorize ==
    /\ qr.step \in {"pending", "authorized"} /\ issued < MaxSession
    /\ issued' = issued + 1
    /\ live' = live \cup {issued'}
    /\ qr' = [qr EXCEPT !.step = "authorized", !.session = issued']
    /\ UNCHANGED <<page, polls, trouble, events>>

Poll(p) ==
    /\ qr.polling /\ polls[p] = NoPoll
    /\ polls' = [polls EXCEPT ![p].step = "asked"]
    /\ UNCHANGED <<live, issued, page, qr, trouble, events>>

PollRead(p) ==
    /\ polls[p].step = "asked"
    /\ polls' = [polls EXCEPT ![p] = [step |-> qr.step, session |-> qr.session]]
    /\ UNCHANGED <<live, issued, page, qr, trouble, events>>

PollDelete(p) ==
    /\ polls[p].step = "authorized"
    /\ polls' = [polls EXCEPT ![p].step = "answered"]
    /\ qr' = [qr EXCEPT !.step = "gone"]
    /\ UNCHANGED <<live, issued, page, trouble, events>>

(* Mutant: an answer that arrives after the timer was cleared is ignored. *)
PollAnsweredInTime(p) ==
    LET answer == polls[p].step IN
    /\ answer \in {"pending", "gone", "answered"}
    /\ polls' = [polls EXCEPT ![p] = NoPoll]
    /\ qr' = [qr EXCEPT !.polling = @ /\ answer = "pending"]
    /\ tabs' = IF answer = "answered" /\ qr.polling
               THEN [tabs EXCEPT ![qr.tab].session = polls[p].session] ELSE tabs
    /\ UNCHANGED <<live, issued, disk, trouble, events>>

PollAnswered(p) ==
    LET answer == polls[p].step IN
    /\ answer \in {"pending", "gone", "answered"}
    /\ polls' = [polls EXCEPT ![p] = NoPoll]
    /\ qr' = [qr EXCEPT !.polling = @ /\ answer = "pending"]
    /\ tabs' = IF answer = "answered"
               THEN [tabs EXCEPT ![qr.tab].session = polls[p].session] ELSE tabs
    /\ UNCHANGED <<live, issued, disk, trouble, events>>

(* The entry lives 5 minutes, 60 s once authorized. *)
QrExpire ==
    /\ qr.step \in {"pending", "authorized"} /\ Event
    /\ qr' = [qr EXCEPT !.step = "gone"]
    /\ trouble' = trouble \cup {"poll"}
    /\ UNCHANGED <<live, issued, page, polls>>

(* The page goes on polling. *)
PollLost(p) ==
    /\ polls[p].step \in {"asked", "answered"} /\ Event
    /\ polls' = [polls EXCEPT ![p] = NoPoll]
    /\ trouble' = trouble \cup {"poll"}
    /\ UNCHANGED <<live, issued, page, qr>>

Elsewhere == <<refreshes, index, exchanges, recovery, requests, clobbered>>

QrLogin ==
    /\ \/ \E t \in Tabs : QrGenerate(t)
       \/ QrAuthorize \/ QrExpire
       \/ \E p \in Polls : PollLost(p)
    /\ UNCHANGED Elsewhere

PollForAuth(p) ==
    /\ Poll(p) \/ PollRead(p) \/ PollDelete(p) \/ PollAnswered(p)
    /\ UNCHANGED Elsewhere

-----------------------------------------------------------------------------
Init ==
    /\ live = {} /\ refreshes = {} /\ index = {} /\ issued = 0
    /\ exchanges = [x \in Exchanges |-> Quiet]
    /\ recovery = [step |-> "none", seen |-> {}]
    /\ tabs = [t \in Tabs |-> [open |-> TRUE, session |-> 0, refresh |-> 0]]
    /\ disk = 0
    /\ requests = [r \in Requests |-> Idle]
    /\ qr = [step |-> "none", session |-> 0, tab |-> 0, polling |-> FALSE]
    /\ polls = [p \in Polls |-> NoPoll]
    /\ trouble = {} /\ clobbered = FALSE /\ events = 0

Call(r) ==
    \/ Accepted(r) \/ Refused(r) \/ TryRefresh(r) \/ NoRefresh(r)
    \/ LoggedOut(r) \/ LogoutReload(r)

Answered == \E x \in Exchanges : ExchangeAnswered(x)

Next ==
    \/ Exchange \/ Recovery \/ Expire \/ QrLogin \/ Answered
    \/ \E x \in Exchanges : ExchangeCutOff(x)
    \/ \E p \in Polls : PollForAuth(p)
    \/ \E r \in Requests : Call(r)
    \/ \E t \in Tabs :
          \/ \E r \in Requests, kind \in {"call", "logout"} : Send(t, r, kind)
          \/ Login(t) \/ Reload(t) \/ OpenTab(t) \/ CloseTab(t)

Spec == Init /\ [][Next]_vars

(* Requests are served and answered and the QR page's timer runs; what the *)
(* user does, and what expires, is left open.                              *)
FairSpec ==
    /\ Spec
    /\ WF_vars(Exchange) /\ WF_vars(Answered)
    /\ \A r \in Requests : WF_vars(Call(r))
    /\ \A p \in Polls : WF_vars(PollForAuth(p))

-----------------------------------------------------------------------------
(* "Refresh token is kept in localStorage for cross-session persistence     *)
(* (it's rotated on each use)" (api.ts:11): with one tab at a time and no    *)
(* exchange cut off, only a logout takes it away, however calls, expiries,  *)
(* logins and reloads interleave.                                           *)
StaysSignedIn ==
    [][disk # 0 /\ disk' = 0 =>
          \/ trouble' \cap {"cut", "shared"} # {}
          \/ \E r \in Requests : requests[r].kind = "logout" /\ requests[r].step = "ended"]_vars

(* Unless two writers of the index overlapped, recovery finds in it every   *)
(* live session that a login or a refresh issued (indexUserSession; a QR    *)
(* login's session has no refresh token and is not indexed).                *)
IndexKnowsSessions ==
    ~clobbered =>
        \A n \in live \cap refreshes :
            n \in index \/ \E x \in Exchanges : exchanges[x].new = n

(* Call r waits for a token that only the bound keeps from being issued.    *)
OutOfTokens(r) ==
    /\ requests[r].step = "waiting" /\ issued = MaxSession
    /\ \A x \in {requests[r].on} : exchanges[x].step = "found"

(* No call waits for ever for a token (tryRefresh settles refreshInFlight   *)
(* on every path).                                                          *)
CallsAreAnswered ==
    \A r \in Requests : []<>
        \/ requests[r].step \notin {"sent", "refused", "waiting"}
        \/ OutOfTokens(r)

(* A code the phone authorized signs the page in, though polls overlap and  *)
(* a late one is told that the code is gone, unless a poll is lost or the   *)
(* page is left (pollForAuth, poll).                                        *)
QrSignsIn ==
    (qr.step = "authorized" /\ qr.polling)
        ~> (trouble # {} \/ qr.tab = 0 \/ \E t \in {qr.tab} : tabs[t].session # 0)

=============================================================================
