------------------------------- MODULE Outbox -------------------------------
(***************************************************************************)
(* How the web client gets a message to the server: the composer's one     *)
(* request (web/src/chat/chat.ts, sendMessageHandler), the queue of what    *)
(* it could not send, in memory and in IndexedDB, the page's flushes of    *)
(* that queue, and the service worker's background sync                    *)
(* (web/public/sw.js), all over the server of MessageStore.                *)
(*                                                                         *)
(* A request is lost when its POST never moves on.  api.ts's req answers   *)
(* an HTTP error, a timeout and a broken connection alike with ok = FALSE; *)
(* it throws only when the connection breaks inside the answer's body.     *)
(***************************************************************************)
EXTENDS MessageStore, SequencesExt

CONSTANTS
    Run,        \* flushes of the page that may be under way at once
    MaxReload   \* bound: page loads in a behaviour

ASSUME OutboxAssumption ==
    /\ Poster = {"composer", "flush", "worker"}
    /\ MaxReload \in Nat

VARIABLES
    composer,    \* per message, how far sendMessageHandler got with it
    call,        \* per message, the composer's POST
    queue,       \* messageQueue
    persisting,  \* persistQueueItem has been called and has not written yet
    saved,       \* the object store of rocchat_mq
    runs,        \* the calls of flushMessageQueue
    worker,      \* the service worker's sync event
    reloads

clientVars == <<composer, call, queue, persisting, saved, runs, worker, reloads>>
vars == <<storeVars, clientVars>>

Idle == [step |-> "idle", pending |-> <<>>, post |-> Nobody]
Resting == [items |-> {}, post |-> Nobody]

TypeOK ==
    /\ StoreTypeOK
    /\ composer \in [Message -> {"new", "posting", "resolved", "queued", "left"}]
    /\ call \in [Message -> PostId \cup {Nobody}]
    /\ queue \in Seq(Message)
    /\ persisting \subseteq Message
    /\ saved \subseteq Message
    /\ runs \in [Run -> [step : {"idle", "next", "posting", "removing"},
                         pending : Seq(Message), post : PostId \cup {Nobody}]]
    /\ \A r \in Run : runs[r].pending = <<>> <=> runs[r].step = "idle"
    /\ worker \in [items : SUBSET Message, post : PostId \cup {Nobody}]
    /\ reloads \in 0..MaxReload

Init ==
    /\ StoreInit
    /\ composer = [m \in Message |-> "new"]
    /\ call = [m \in Message |-> Nobody]
    /\ queue = <<>>
    /\ persisting = {}
    /\ saved = {}
    /\ runs = [r \in Run |-> Idle]
    /\ worker = Resting
    /\ reloads = 0

(* The request just made is the last of posts. *)
LastPost == Len(posts) + 1
Finished(p) == posts[p].pc \notin Waiting

-----------------------------------------------------------------------------
(* The composer. *)
Send(m) ==
    /\ composer[m] = "new"
    /\ Receive(m, "composer")
    /\ composer' = [composer EXCEPT ![m] = "posting"]
    /\ call' = [call EXCEPT ![m] = LastPost]
    /\ UNCHANGED <<changes, changed, queue, persisting, saved, runs, worker, reloads>>

(* req resolves: with an answer, or with ok = FALSE at any time.  The two  *)
(* are not told apart: nothing is queued.                                  *)
SendResolves(m) ==
    /\ composer[m] = "posting"
    /\ composer' = [composer EXCEPT ![m] = "resolved"]
    /\ UNCHANGED <<storeVars, call, queue, persisting, saved, runs, worker, reloads>>

SendThrows(m) ==
    /\ composer[m] = "posting" /\ Finished(call[m])
    /\ composer' = [composer EXCEPT ![m] = "queued"]
    /\ queue' = Append(queue, m)
    /\ persisting' = persisting \cup {m}
    /\ UNCHANGED <<storeVars, call, saved, runs, worker, reloads>>

PersistQueueItem(m) ==
    /\ m \in persisting
    /\ persisting' = persisting \ {m}
    /\ saved' = saved \cup {m}
    /\ UNCHANGED <<storeVars, composer, call, queue, runs, worker, reloads>>

-----------------------------------------------------------------------------
(* flushMessageQueue: when a socket opens, on "Retry now", on "online".    *)
Flush(r) ==
    /\ runs[r] = Idle
    /\ queue # <<>>
    /\ runs' = [runs EXCEPT ![r].step = "next", ![r].pending = queue]
    /\ UNCHANGED <<storeVars, composer, call, queue, persisting, saved, worker, reloads>>

FlushPosts(r) ==
    /\ runs[r].step = "next"
    /\ Receive(Head(runs[r].pending), "flush")
    /\ runs' = [runs EXCEPT ![r].step = "posting", ![r].post = LastPost]
    /\ UNCHANGED <<changes, changed, composer, call, queue, persisting, saved, worker, reloads>>

FlushResolves(r) ==
    /\ runs[r].step = "posting"
    /\ queue' = RemoveFirst(queue, Head(runs[r].pending))
    /\ runs' = [runs EXCEPT ![r].step = "removing", ![r].post = Nobody]
    /\ UNCHANGED <<storeVars, composer, call, persisting, saved, worker, reloads>>

FlushThrows(r) ==
    /\ runs[r].step = "posting" /\ Finished(runs[r].post)
    /\ runs' = [runs EXCEPT ![r] = Idle]
    /\ UNCHANGED <<storeVars, composer, call, queue, persisting, saved, worker, reloads>>

(* IndexedDB writes in the order it was asked to: the item was put before. *)
RemoveQueueItem(r) ==
    LET m == Head(runs[r].pending)
        rest == Tail(runs[r].pending) IN
    /\ runs[r].step = "removing" /\ m \notin persisting
    /\ saved' = saved \ {m}
    /\ runs' = [runs EXCEPT ![r] =
                   IF rest = <<>> THEN Idle
                   ELSE [step |-> "next", pending |-> rest, post |-> Nobody]]
    /\ UNCHANGED <<storeVars, composer, call, queue, persisting, worker, reloads>>

-----------------------------------------------------------------------------
(* Mutant: the items are taken out of the store as they are read.           *)
SyncTakes ==
    /\ worker = Resting /\ saved # {}
    /\ worker' = [worker EXCEPT !.items = saved]
    /\ saved' = {}
    /\ UNCHANGED <<storeVars, composer, call, queue, persisting, runs, reloads>>

(* The service worker's sync. *)
Sync ==
    /\ worker = Resting /\ saved # {}
    /\ worker' = [worker EXCEPT !.items = saved]
    /\ UNCHANGED <<storeVars, composer, call, queue, persisting, saved, runs, reloads>>

WorkerPosts(m) ==
    /\ worker.post = Nobody /\ m \in worker.items
    /\ Receive(m, "worker")
    /\ worker' = [worker EXCEPT !.post = LastPost]
    /\ UNCHANGED <<changes, changed, composer, call, queue, persisting, saved, runs, reloads>>

(* fetch resolves: the item is deleted only if res.ok. *)
WorkerAnswered ==
    /\ worker.post # Nobody /\ Finished(worker.post)
    /\ LET m == posts[worker.post].msg IN
       /\ saved' = IF posts[worker.post].pc = "answered" THEN saved \ {m} ELSE saved
       /\ worker' = [items |-> worker.items \ {m}, post |-> Nobody]
    /\ UNCHANGED <<storeVars, composer, call, queue, persisting, runs, reloads>>

(* fetch rejects, or the browser ends the worker. *)
WorkerStops ==
    /\ worker # Resting
    /\ worker' = Resting
    /\ UNCHANGED <<storeVars, composer, call, queue, persisting, saved, runs, reloads>>

(* A page load: loadMessageQueue.  What was not written yet may be lost. *)
Reload ==
    /\ reloads < MaxReload
    /\ reloads' = reloads + 1
    /\ composer' = [m \in Message |->
                       IF composer[m] = "posting" \/ m \in persisting
                       THEN "left" ELSE composer[m]]
    /\ persisting' = {}
    /\ queue' \in SetToSeqs(saved)
    /\ runs' = [r \in Run |-> Idle]
    /\ UNCHANGED <<storeVars, call, saved, worker>>

Next ==
    \/ StoreNext /\ UNCHANGED clientVars
    \/ \E m \in Message :
          \/ Send(m) \/ SendResolves(m) \/ SendThrows(m)
          \/ PersistQueueItem(m) \/ WorkerPosts(m)
    \/ \E r \in Run :
          \/ Flush(r) \/ FlushPosts(r) \/ FlushResolves(r)
          \/ FlushThrows(r) \/ RemoveQueueItem(r)
    \/ Sync \/ WorkerAnswered \/ WorkerStops
    \/ Reload

Spec == Init /\ [][Next]_vars

-----------------------------------------------------------------------------
Flushed(m) == \E p \in DOMAIN posts : posts[p].by = "flush" /\ posts[p].msg = m

(* A message the composer queued is on disk, or about to be, until a flush  *)
(* has posted it or the server has stored it.                               *)
QueuedIsKept ==
    \A m \in Message :
        composer[m] = "queued" =>
            m \in saved \cup persisting \/ Flushed(m) \/ Stored(m)

(* A message leaves the disk by the worker's hand only once it is stored.   *)
WorkerKeepsUnsent ==
    [][worker' # worker =>
          \A m \in saved \ saved' : Stored(m)]_vars

=============================================================================
