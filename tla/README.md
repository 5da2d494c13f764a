# RocChat in TLA+

TLA+ modules of the TypeScript part of RocChat, their TLC configurations, and
theorems about them checked by TLAPS. RocChat is an end-to-end encrypted
messenger: web clients (`web/`) and native ones hold Double Ratchet sessions
with each other, and a Cloudflare Workers backend (`backend/`) stores pre-keys
and ciphertexts and relays messages. `shared/` holds the protocol code that the
web client and the backend share.

Every definition is a translation of the code; the documents (`SECURITY.md`,
`ROCCHAT-SPEC.md`) and the comments in the code are quoted only as statements to
check the code against. Line numbers in this file are those of the sources.

Contents: 1 [inventory](#1-inventory), 2 [modules](#2-modules-and-how-they-correspond-to-the-code),
3 [runs](#3-what-tlc-checks), 4 [proofs](#4-what-tlaps-proves),
5 [what the code does that one might not expect](#5-what-the-code-does-that-one-might-not-expect),
6 [what is left out](#6-what-is-not-modelled), 7 [plan](#7-plan).

## 1 Inventory

```
 web client A                     backend (Workers)                  web client B
 chat.ts ── session-manager.ts    messages.ts, groups.ts ── D1       ...
   │             │                keys.ts, channels.ts ──── D1
   │        double-ratchet.ts     auth.ts, qr-auth.ts ───── D1, KV
   │        IndexedDB             media.ts ──────────────── R2, KV
   ├─ calls.ts, channels.ts       index.ts ──────────────── cron
   ├─ api.ts ──── HTTP ─────────▶ middleware.ts
   ├─ WebSocket ────────────────▶ ChatRoom, UserInbox, MeetingState (Durable Objects)
   └─ sw.js (background sync) ──▶
```

Nothing runs in parallel inside one page, one Durable Object or one SQL statement.
What interleaves are the async functions of a page at their awaits, requests at
their statements (D1 has no interactive transactions), pages with each other, and
the maintenance task with all of them.

| part | state | operations | hard | should hold |
|---|---|---|---|---|
| Double Ratchet, `shared/double-ratchet.ts` | a `RatchetState` object per conversation: ratchet keys, root key, two chains, counters, up to 256 skipped keys | start as sender or receiver, encrypt, decrypt | a key is spent before the message is authenticated (307); a call changes a shared object over several awaits | no key twice; opened in any order; old keys gone |
| Sessions, `session-manager.ts` | `sessionCache` in memory, a copy in IndexedDB, X3DH headers still to be sent | encrypt, decrypt, X3DH from both ends, rebuild | two copies; a failed call changes one of them; reload at any await | the saved copy never lags behind what was sent |
| Pre-keys, `keys.ts`, `x3dh.ts`, `client-crypto.ts` | tables of signed and one-time pre-keys; private halves on the client | fetch a bundle, upload, rotate, trim, refill, login | each request is several statements | a one-time key goes to one initiator, who can be answered |
| Message store, `messages.ts` | `messages`, `conversations`, `conversation_members`, pins, reactions | send, edit, delete, expire; create and leave a conversation, its settings | retries under one nonce; SELECT and INSERT apart | a message is stored once; answers agree |
| Queue, `chat.ts`, `sw.js` | unsent messages in memory and on disk | queue, flush, background sync | page and worker send the same queue; an answer may be lost | what was queued is not forgotten |
| Conversation view, `chat.ts` | arrays of messages, the rows drawn from them, plaintext cache, message box and drafts | load, draw, append, edit, delete, react; type, save, send, schedule | handlers go on with what they read before an await, in another conversation | rows are the messages; deleted stays deleted; a text is kept and goes where it was typed |
| List of conversations, `chat.ts` | `state.conversations`, the active one, the pane | open, archive, mute, theme, unpin | patched locally after each answer | it agrees with the tables |
| Maintenance, `index.ts` | – | expiry, used pre-keys, scheduled messages and posts | the cron run and the route overlap, or throw half way | what is due is sent; what is settled stays |
| Accounts, `auth.ts` on both sides | row of the user, recovery vaults, challenges; a browser's keys | register, log in, recover, delete, sign out | recovery in several statements; keys from several places | who can log in can decrypt; the words open the vault |
| Sessions and tokens, `auth.ts`, `middleware.ts`, `qr-auth.ts`, `api.ts` | tokens and an index in KV, tokens in each tab | log in, refresh, log out, QR sign-in | refresh tokens are used once; lost answers; KV read-modify-write | stay signed in; recovery finds all sessions |
| Groups, `groups.ts`, `group-session-manager.ts` | roles and mutes; a sender key per member, who has got it | promote, kick, mute, leave; distribute, encrypt | roles read by one statement and written by another | keys precede messages; the creator keeps his role |
| Rooms, `ChatRoom.ts`, sockets in `chat.ts` | sockets, presence, rate windows | connect, relay, hibernate, reconnect | replaced and stale sockets; windows at their limits | limits hold; a page is connected again |
| Calls, `calls.ts`, `UserInbox.ts` | state of the call, microphone, inbox socket | offer, answer, decline, hang up | events handled late and out of order | no microphone without a call; calls end |
| Channels, `channels.ts`, `channel-keys.ts` | subscribers, posts, envelopes; keys on each device | create, subscribe, post, share the key | the key is looked up on the device and the server before one is made; clicks on Post overlap | one key unless they do; subscribers can read |
| Meetings, `meetings.ts`, `MeetingState.ts` | two tables and a durable object | create, join, events of the room | stores written one after the other | a live meeting is listed as such |
| Media, `media.ts`, `chat.ts` | R2 objects, quota in KV; recordings and uploads | record, upload, delete, show | prompt, panel, timer and stop event overlap | a recording is sent once and ends |
| Key storage, recovery phrases | encrypted values | encodings and encryptions | – | decoded as encoded (unit tests) |
| Contacts, push, link previews, wire types | tables | single statements, pure I/O | – | – |
| Android, iOS, desktop | as the web client | in Kotlin and Swift | as the web client | as the web client |

They interact as follows. `chat.ts` encrypts, then `POST /messages/send`; the
handler inserts a row and asks the conversation's `ChatRoom` to broadcast it; the
other client decrypts it either from the socket event or when it renders the
history, each path with its own call of `decryptMessage`. A first message fetches a
bundle from `keys.ts`; its X3DH header lets the other side derive the same
secret. A failed POST leaves the message in the queue, which the page and the
service worker both empty. Calls are signalled through each user's `UserInbox`.

`PROJECT.json` lists each part with what is modelled of it, and each hazard at
the line where it bites with the properties about it.

## 2 Modules, and how they correspond to the code

```
 MessageChannel (abstract)        OneTimeKeys (abstract)
      ▲ DeliversMessages               ▲ DispensesKeys
 RatchetSession ─ EXTENDS ┐       PreKeyExchange      Outbox        Channels
                          ▼                             │ EXTENDS     │ EXTENDS
 SessionCalls ── EXTENDS ▶ DoubleRatchet             MessageStore   Scheduled
   CallsAreAtomic: its calls
   are RatchetSession's           RoomPages ─ EXTENDS ▶ ChatRoom
                                    PagesUseTheRoom: its clients are the room's
 Sessions   Accounts   VoiceCalls   Groups   Conversations   Meetings   Media
 ConversationView   Composer
```

A module `XProofs` holds the theorems about `X`, `MCX` the constants that a run
of TLC needs; `RatchetInvariants` EXTENDS `RatchetSession` and `SessionCalls` with
what is proved of both. All modules share some conventions:

- What is random or secret is a number or a structure of numbers: a key is its
  owner and how it was derived, a token the number of its issue. Two are equal when
  the code computes equal bytes.
- An async function is a record in a set or function of calls: what it awaits (a
  step name, or what it holds) and its locals. An action is the code between two
  awaits, or one SQL statement or batch together with the code around it.
- Requests that get lost, answers that get lost, reloads and other things that
  happen from outside count against one bound (`MaxEvents`, `MaxFailure`, ...);
  history variables (`faults`, `races`, `slips`, `clobbered`, `trouble`) remember
  which of them happened, where a property excepts the behaviours that had one.

### DoubleRatchet — `shared/double-ratchet.ts`

Operators on a record with the fields of `RatchetState`. A key pair is its owner
and a number, a DH output the set of the two key pairs, a root key the shared
secret with the DH outputs mixed in so far, a chain key its root and how often it
was advanced. A message carries the chain key its message key came from, and
AES-GCM succeeds exactly when the reader derives the same one and the tag was
sent. The code throws out of half-done changes, so `RatchetDecrypt` returns the
state a call leaves together with whether it returned a plaintext.
`serializeState` and `deserializeState` keep every field and are not written
out. The trimming of skipped keys is the code's: once per call of
`skipMessages`, at its end, over all chains.

### RatchetSession — `session-manager.ts`, and the calls of it in `chat.ts` and `features.ts`

A direct conversation between two web clients, each call atomic.

| variable | code |
|---|---|
| `cache`, `disk` | `sessionCache`, the session in IndexedDB |
| `gen` | numbers the key pairs `generateX25519KeyPair` returns |
| `sent` | rows of the conversation on the server |
| `plain`, `plainSaved` | `plaintextCache`, and what its 300 ms timer has persisted |
| `pushed` | messages the socket handler has seen |
| `encrypted`, `reloads`, `failures` | counters for the bounds |

| action | code |
|---|---|
| `SendInSession`, `SendFirst` | `encryptMessage` (with `performX3DH`), POST, `cachePlaintext` |
| `RenderMessage` | one message of `renderMessages`: `decryptMessage` and all its outcomes, as a disjunct each (`DecryptOpens`, `RebuildOpens`, `DecryptFails`, `RebuildFails`, `FailsUntraced`) |
| `SocketMessage` | the `message` event of the WebSocket |
| `SavePlaintextCache`, `Reload` | the timer; a page load |

`Form` says what each call site puts into a message: of text, notes, GIFs, files
and forwarded messages, some drop the X3DH header, some the tag, some do not
keep their own plaintext. `Kind`, `Outcome`, `Path`, `Initiator` and
`PromptReload` choose the part of the system a run is about; the theorems hold for
every choice. `MessageChannel` is what a conversation promises, without keys: a
letter that was posted is read, once, by the other party.

### SessionCalls — the same two functions, await by await

One device, with a frame (program counter, locals) for each call. The calls
share objects in `heap` through the addresses JavaScript has references for: two
calls may work on one object, and a session loaded twice is two objects. The pc
names the await. The other end is a device with atomic calls. `CallsAreAtomic`
shows that a call which is not interrupted does exactly what the operators of
`DoubleRatchet` say, which is what lets `RatchetSession` take calls as atomic where
they do not overlap.

### PreKeyExchange, OneTimeKeys — `keys.ts`, `index.ts`, `app.ts`, `client-crypto.ts`, `auth.ts`

The pre-keys of one account. `GET /keys/bundle` is three actions per attempt
(`ReadSignedPreKey`, `SelectCandidate`, then `ClaimKey` or `MissKey`), since each
statement can be interrupted; the rotation is two (`RotateSignedPreKey`,
`TrimSignedPreKeys`), a refill two (`CheckPreKeys` counts, `UploadPreKeys` is one
batch). `RunMaintenanceTasks` deletes the used keys. The client's `material` is what
`handleX3DHResponder` looks keys up in; `Login` is what the vault gives back.
Signatures are taken to verify. The pending upload of the registration is over
when the model starts. `Agrees` compares what the initiator mixed for a bundle
with what the responder will mix. `OneTimeKeys` is a dispenser: keys are published
and each is given out once.

### MessageStore and Outbox — `messages.ts`; `chat.ts`, `sw.js`, `api.ts`

`MessageStore` has one record per POST, with the statement the handler is at
(`CheckQuota`, `FindDuplicate`, `Insert`, `FindAgain`, `Broadcast`) and the row
it inserted. Rows change by edits and deletions, which select in one step and
write in another, and by expiry. `Outbox` has the three senders: the composer, the
page's flushes (several may run at once) and the service worker's sync, over the
two copies of the queue. A request that is lost is a POST that never moves on;
`SendResolves` and `FlushResolves` may happen at any time, because `api.ts` answers a
broken connection or a timeout like an HTTP error, with `ok: false`. The worker's
`fetch` does not: it is answered or it rejects (`WorkerStops`).

### ConversationView and Composer — `chat.ts`, `secure-store.ts`

`ConversationView` is the messages area. `state.messages` is a JavaScript array
that a handler may hold while another one takes its place, so each chat has all
its `arrays` and `current` numbers the one in `state.messages`. `area` is the
sequence of rows; `jobs`, `handlers`, `loads`, `deleting` and `saves` hold what each
suspended function took along: decryptions of a history, socket events, requests,
an edit. `RenderMessages` draws an array over the rows there are, as the code
does. `Composer` is the box below: its binding to a draft,
the saves under way and their order, the text that is on its way, the dialog for
scheduling, reloads and the pruning of old drafts. `slips` is the set of ways in
which calls have overlapped so far.

### Conversations — `messages.ts`, `chat.ts`

The direct conversations of some people with each member's row and settings, and
the list the page of one of them, `Me`, keeps. `request` holds each request under
way with the statement it is at; a request the page patches its list after
remembers what it found when it began.

### Groups — `groups.ts`, `messages.ts`, `group-session-manager.ts`, `sender-keys.ts`

Roles and mutes on the server with the moderation requests as read and write
steps; the page's sender key with its saved copy, whom it gave the key to, and the
messages posted under it.

### ChatRoom and RoomPages — `ChatRoom.ts`; `connectWebSocket` in `chat.ts`

`ChatRoom` is the Durable Object with arbitrary clients: sockets and the device
each was accepted for, presence, the two sliding windows, hibernation (which
forgets what is in memory and keeps the attachments). `Tick` advances the time
only once something was relayed, as times before that make no difference.
`RoomPages` adds pages that show the conversation: the two tickets, the socket, its
events, the reconnect. A socket has a room's end and a page's end, and may be
open at one of them only.

### Media — `chat.ts`, `media.ts`

Recordings from the permission prompt to the `stop` event, the panel, uploads with
the server's checks and the quota, the message afterwards, and how its row shows.

### Meetings — `meetings.ts`, `MeetingState.ts`

The rows of a meeting and the record of its room; a join is a request of two
statements and a call of the room. Events of the room are atomic: the input gate
of a Durable Object holds others back while it awaits its storage.

### Scheduled and Channels — `index.ts`, `features.ts`, `channels.ts`, `channel-keys.ts`

`Scheduled` is the part of `runMaintenanceTasks` that sends what is due: a run
selects rows, then inserts and marks each in two statements, and may throw at
either; runs overlap. `Channels` uses it for posts and adds the channel, its
subscribers, the key in IndexedDB and in envelopes, and the pages. On a page
there is the load of the channel and a handler for each click under way on Create,
Post or Schedule (`Dialogs`): nothing in `showPostDialog` holds a second click back, so
that two handlers may look for the key at once. `crossed` counts those that found none
while another had found none and not saved one yet.

### Sessions — `auth.ts`, `middleware.ts`, `qr-auth.ts`, `api.ts`, `qr-login.ts`

Tokens by the number of their issue. An exchange (login or refresh) goes through the
handler's KV operations one by one; `refreshInFlight` is the exchange a call waits
`on`.
Tabs share `disk` (localStorage) and nothing else.

### Accounts — `auth.ts` on both sides, `client-crypto.ts`, `settings.ts`

One username. `user` is the row with the blob of the keys, `vaults` the recovery
vaults, `challenges` those of recoveries under way; `calls` the requests, `page`
and `disk` what each browser is at and stores. `written` are the accounts whose
words somebody wrote down, `restored` the browsers whose last sign-in ran to its end.

### VoiceCalls — `calls.ts`, `UserInbox.ts`

Each page's call with its suspended functions as a bag of `tasks` (two of the same
kind may run), the `VoiceWS` that hold the microphone, the inbox sockets, and the
network between them as a bag, unordered since each event is decrypted on its own
before it is handled.

## 3 What TLC checks

An MC module names the model values, the symmetry and, for a run that joins
several modules, the next-state relation. Modules whose state the code keeps
apart are checked in one run without multiplying their states: a variable (`part`,
`half`) chooses one of them in the initial state and only that one moves, so that
the run's states are the sum of theirs. What a property of one module means is
not touched by the others.

| run | system | properties |
|---|---|---|
| `RatchetAnyUse` | both sides start, files without X3DH header, own messages decrypted, corrupted and rebuilt sessions, reload at any moment | `UniqueMessageKeys` |
| `RatchetChannel` | one side starts, text opened from the history in any order, reloads, with fairness | `KeysForgotten`, `UnreadStaysReadable`, `DeliversMessages` (refinement and liveness) |
| `Sending` | *calls*: one device, calls one at a time, reload at any await, either end starts; *queue*: one message, three POSTs by composer, two flushes and the worker, an edit, deletion or expiry, a reload | `SentMessagesStand`, `CallsAreAtomic`; `AnswersHold`, `QueuedIsKept` |
| `Maintenance` | *prekeys*: three requests, three refills by two callers, a rotation, a login, the task; *schedule*: a post and a message, two overlapping runs, one throw | `FirstBundlesAgree`, `DispensesKeys` (refinement), `Replenished`; `SettledIsNotSent`, `DueIsStored` |
| `View` | *rows*: two chats, three messages, of which one is the page's own and one a file, a history that loads, three events; *box*: two chats, two texts, three boxes, a reload | `DeletedStaysDeleted`, `RowsFollowTheList`; `TypedIsKept`, `SentOnceToItsChat` |
| `Server` | *group*: three members, one page, two moderations at once; *conversations*: two people, two requests at once, four in all; *meeting*: two joins at once | `MessagesHaveKeys`, `CreatorKeepsRole`; `NoMoreThanOverlapped`, `PageAgrees`; `LiveIsListed` |
| `Rooms` | *sockets*: two tabs of a device, three sockets, three faults or messages; *media*: two recordings and a file, a quota of one | `RelayedWithinLimit`, `FramesWithinLimit`, `GoneIsOffline`, `StaysConnected`; `NotesArriveOnce`, `RecordingEnds` |
| `VoiceCalls` | two pages, two calls, two user actions, one fault or race | `MicrophoneMeansAccepted`, `CallsAreResolved`, `HangUpIsHeard` |
| `Sessions` | one tab, two calls, exchanges and polls at once, three tokens, two events | `IndexKnowsSessions`, `StaysSignedIn`, `CallsAreAnswered`, `QrSignsIn` |
| `Accounts` | two browsers and passphrases, two requests at once, three random values, one event | `LoginOpensAccount`, `VaultOpensWithWords`, `SignInRestoresIdentity` |
| `Channels` | the creator on one device with two clicks that may overlap, a subscriber, one post, one row listed, one run of the task, two events | `OneChannelKey`, `SubscribersRead` |
| `Unpin` | section 5: a statement of a comment, violated | `MembersStay` |

The properties are stated, with the behaviour of the code each is about, where
they are defined. Many have an exception: `slips`, `crossed`, `trouble`, `clobbered`
or `races` names what must not have happened. Each names an
overlap or a failure that the code lets do harm, and section 5 says which; what the
property shows is that nothing else does.

### Bounds, and why they are enough

- `MaxSkip` is 2 instead of 256. With 3 or 4 messages per side (`MaxSend`) a gap of
  exactly `MaxSkip` occurs (an off-by-one mutant is found), and keys of an older chain
  are left behind by a ratchet step. One corrupting failure (`MaxFailure`) leaves
  each kind of damaged session once; a key is reused, if it is, by the second
  encryption after a reload, a failed decryption or a rebuild.
- `RatchetChannel` sets `PromptReload = FALSE`: a page is not reloaded within the
  300 ms in which a plaintext is not yet persisted. Where it is, the plaintext is
  lost by the code's design; `RatchetAnyUse` has that reload.
- `Sending`: 3 encryptions, 2 decryptions, 3 replies and a reload, so that a
  decryption turns the ratchet between two encryptions, skips messages, and is
  retried on a rebuilt session. Three POSTs of one message suffice for a retry to
  pass the lookup together with the first request and for a third to see what both
  did; `Quota` 2 is reached. Other messages of the sender only count towards the
  quota.
- `Maintenance`: `Attempts` is 2 of 3 and three requests race for it, so that a request
  uses up its attempts; registration and batch of 2 keys, threshold 2, so that
  the stock runs low, is refilled twice over by overlapping checks, and runs out.
  `RunLimit` 1 with two rows due leaves one for the next run, and one throw between
  insert and mark makes a second run insert again.
- `View`: three messages are the least for a list whose middle changes; two chats
  and one load let a history come back into another conversation. One slip per
  behaviour shows each overlap alone; without a slip the bounds on texts, boxes and
  posts let a draft be restored, sent and typed again.
- `Server`: a third member is one whom a moderation makes or unmakes admin between
  another's two lookups; two requests at once can create two conversations and a
  third must find one of them. `Rooms`: windows of length 1, limits of 1, and a byte limit one
  below two frames, so that each is hit, exceeded and reset, and a third socket
  replaces one whose close event is still to come.
- `Sessions`: two exchanges overlap on the index; three tokens are a login, a refresh
  and a refresh of the refreshed. `Accounts`: two browsers are two recoveries at once
  or a deletion and a registration. `VoiceCalls`: a second call comes while the
  first rings, connects or ends. `Channels`: `PendingLimit` 1 with a subscriber who
  also loses the key, so that envelopes wait for a second page. Two clicks are the least that
  cross, and `MaxKey` 2 lets each generate; `OverlapWeight` 2 makes an overlapping click use up the
  events, so that TLC takes overlaps apart from losses and reloads (the answer of `POST /channels`
  may be lost all the same, so that the clicks find no key); the theorem has them together.
  `ListLimit` 1 is exceeded by a post that is stored again after a run that threw.

Deadlock is not checked: every conversation, queue and bounded counter may come to
rest. Symmetry is used only in runs of invariants, or where the property
(`CreatorKeepsRole`) treats the permuted values alike and is not a liveness one.

### Fairness

Safety needs none. The liveness properties assume that what the platform runs is
run (weak fairness of the steps of suspended functions, requests under way, timers
and socket events) and nothing of users or failures:

- `RatchetChannel`: each message the reader has not got the plaintext of is rendered
  again: `renderMessages` goes through the whole history each time the
  conversation is shown, and by every further message, flush and load. It leaves rows
  alone that are on the page already, so that a message that failed to open waits for
  a reload or for the conversation to be opened again; the fairness supposes that one of them comes.
- `Maintenance`: each caller of `checkPreKeyReplenishment` goes on calling it (the app
  does at every load and on each message of the service worker); time passes and
  the cron trigger fires. `Replenished` says that a low stock is filled up as long as
  refills are left.
- `Rooms`: messages load, timers fire, sockets connect and their close events arrive.
  Tickets have strong fairness: the requests themselves are always answered, but in
  the model a ticket needs one of three sockets, which the others may hold
  again and again. `RecordingEnds`: a recorder's timer and its `stop` event come.
- `VoiceCalls`: promises settle, rings time out, sockets deliver and reconnect.
- `Sessions`: requests are served and answered, the QR page's timer runs.
- `Channels`: members come back to the channel, and what a page began goes on.

### Mutants

Next to an action, `PROJECT.json` names a mutant of it for each property of each
passing run: a definition with a plausible mistake (an index left out, a guard
dropped, a save too early, a counter off by one), which TLC finds through that
property.

## 4 What TLAPS proves

For every value of the constants that the modules' assumptions allow: any sets
of messages, requests, pages and users, any bounds, any choice of message kinds and
outcomes. The assumptions are named next to the constants, and TLC evaluates
them in every run.

| module | theorem | states |
|---|---|---|
| `RatchetSessionProofs` | `RatchetDecryptType` | a call of `ratchetDecrypt` leaves a ratchet state, returned or thrown |
| | `RatchetDecryptSendingSide` | it leaves the sending chain alone or starts a new one from the key pair it generated |
| | `TypeCorrect`, `KeysAreUnique` | `TypeOK`, `UniqueMessageKeys` |
| | `RatchetDecryptForgets` | what a session had forgotten stays so through any call of `ratchetDecrypt`, and the key of an opened message is forgotten |
| | `KeysForgottenHolds` | `KeysForgotten`, where X3DH headers travel with their tags and their senders keep the plaintext (`HeadersAreKept`) |
| | `ImplementsChannel` | every behaviour is one of `MessageChannel` (`Channel!Spec`, the safety half of `DeliversMessages`), where a plaintext is saved before a reload |
| | `UnreadStaysReadableHolds` | `UnreadStaysReadable` in a `PlainTalk`, while no reader is behind by more than the skipped keys a session keeps (`[]WithinSkip`) |
| | `ShortTalkStaysReadable` | `UnreadStaysReadable` in a `PlainTalk` of at most `MaxSkip` + 2 messages (258 in the code), without that hypothesis |
| | `CallsAreAtomicHolds`, `SentMessagesStandHolds` | `CallsAreAtomic`, `SentMessagesStand` of `SessionCalls`, for calls in turn (`MaxConcurrent` = 1) |
| `MaintenanceProofs` | `TypeCorrect`, `KeysAreClaimedOnce` | `TypeOK`, `ClaimedOnce` |
| | `ImplementsDispenser` | `DispensesKeys`: every behaviour is one of `OneTimeKeys` |
| | `FirstBundlesAgreeHolds` | `FirstBundlesAgree` |
| | `SettledIsNotSentHolds` | the action property `SettledIsNotSent` of `Scheduled` |
| | `OneChannelKeyHolds` | `OneChannelKey` of `Channels` (no more keys than one and one for each click that crossed another), if the creator has one device, never signed out |
| `ConversationViewProofs` | `RowsFollowTheListHolds` | `RowsFollowTheList` |
| | `DeletedStaysDeletedHolds` | the action property `DeletedStaysDeleted` |
| | `TypedIsKeptHolds`, `SentOnceToItsChatHolds` | `TypedIsKept`, `SentOnceToItsChat` of `Composer` |
| | `MicrophoneMeansAcceptedHolds` | `MicrophoneMeansAccepted` of `VoiceCalls`, for accounts with one device each |
| `ServerProofs` | `MessagesHaveKeysHolds` | `MessagesHaveKeys` of `Groups` |
| | `CreatorKeepsRoleHolds` | the action property `CreatorKeepsRole` of `Groups` |
| | `NoMoreThanOverlappedHolds`, `PageAgreesHolds` | `NoMoreThanOverlapped`, `PageAgrees` of `Conversations` |
| | `LiveIsListedHolds` | `LiveIsListed` of `Meetings` |
| | `TypeCorrect`, `MessagesAreStoredOnce` | `TypeOK`, `StoredOnce` of `Outbox` |
| | `AnswersAgree`, `QueueIsKept` | `AnswersHold`, `QueuedIsKept` of `Outbox` |
| | `WorkerIsSafe` | the action property `WorkerKeepsUnsent` of `Outbox` |
| `ChatRoomProofs` | `RelayedWithinLimitHolds`, `FramesWithinLimitHolds`, `GoneIsOfflineHolds` | `RelayedWithinLimit`, `FramesWithinLimit`, `GoneIsOffline`, of the room with arbitrary clients |
| | `PagesUseTheRoom` | every behaviour of `RoomPages` is one of `ChatRoom`, so that the three hold of the composition |
| | `NotesArriveOnceHolds` | `NotesArriveOnce` of `Media` |
| `AccountsProofs` | `LoginOpensAccountHolds` | `LoginOpensAccount` |
| | `VaultOpensWithWordsHolds` | `VaultOpensWithWords` |
| | `SignInRestoresIdentityHolds` | `SignInRestoresIdentity` |
| `SessionsProofs` | `IndexKnowsSessionsHolds` | `IndexKnowsSessions` |
| | `StaysSignedInHolds` | the action property `StaysSignedIn` |

`LeastElement` has what the proofs need of the community modules' `Min`: that of a
non-empty set of numbers it is one. `RatchetInvariants` defines the invariants that
`RatchetSessionProofs` goes by (`ForgetInv`, `LetterInv`, `ReadInv`, `CallInv`, `PastInv`,
`HeadInv`).

None of these invariants is inductive. What each needs, and why:

**Unique keys.** `UniqueMessageKeys` compares messages that were sent; it says nothing of
the session the next one will be sent with. `KeyInv` adds that every session a
party may pick up, in memory or in IndexedDB, is past all messages sent under
its sending chain, that those are its own, and that the two parties never hold the
same sending chain. This is what failed decryptions and reloads could break: a
failed call leaves the copy in memory ahead of the saved one. The argument: a
decryption leaves the sending chain as it was or replaces it by one whose last
DH output mixes a key pair generated for it (`RatchetDecryptSendingSide`, from a case
analysis of skipped key, turn and chain); the root of every chain so far mixes
only older ones (`KnownRootIn`); so a new chain differs from all others. An
encryption advances both copies past the message. The theorem is about atomic
calls: where they overlap it fails (section 5).

**Forward secrecy.** `KeysForgotten` fails where a message that starts a session can be
rendered again: the rebuild begins at the first chain and yields what was read since.
`HeadersAreKept` names the calls for which that does not happen: a kind that sends the
header sends the tag too and its sender keeps the plaintext, an answer to POST is not
lost, messages are opened from the history, and a plaintext is saved before a reload.
There may be two initiators, any kinds of that form, refused requests, failed
decryptions and any bounds. Of the operators, `Tidy` says how a session's chains are
apart: the root key is longer than the roots of the receiving chain and of all skipped
keys, the skipped keys of the current chain are behind it, and none is there twice; so a
key is `Forgotten` when it is behind a chain, or of a root not longer than the session's, and
not among the skipped keys. Every operator keeps that (`RatchetDecryptForgets`);
for the gap of `skipMessages` it is enough that its keys lie between the old and the new
position of the chain. Of the session, `ForgetInv` has to exclude that a new session
repeats an old one: each message with a header was made from its own ephemeral key
(`OpeningsInv`), and a secret a party has used is offered by no message it has not read
(`Settled`). A rebuild then derives keys of another secret, and succeeds (`OpeningOpens`), so
that it never leaves a session in memory that is not saved.

**Messages stay readable.** `UnreadStaysReadable` is about both ends: whether a message opens
depends on the chain its reader is in, on the keys stashed there and on what its sender did
since. `PlainTalk` names the calls: one side starts, every message carries header and tag and
is acknowledged, messages are opened from the history, a plaintext is saved before a
reload; with any number of messages and reloads, any order of opening and any
`MaxSkip`. Outside of it the property can fail, in the ways section 5 lists. `ReadInv` says that the
two sessions are `Linked`: one of them (either, so that the roles swap) holds a
key pair the other end has not met, and its root key is the other's with that pair mixed
in (`Paired`); each sending chain is numbered without a gap (`Lined`); and a reader
`Tracks` its receiving chain: the unread messages under it are ahead, or were passed
and are stashed, each key once and nothing else. What is unread is under the reader's
chain, or stashed, or under the new key pair, whose header says how long the last chain was
(`pn`). A reader without a session stands where the opening will put it (`AtHand`). The
operators keep that: `SkipTracks` (every unread message that is passed is stashed and no
key drops out), `SkipOpens`, `StashOpens`, `FollowerTurns` (the turn passes the rest
of the last chain and swaps the roles), `LeaderSends` and `FollowerSends`. The cap is where
the hypothesis is needed: the stashed keys are those of unread messages
(`StashFits`), so that the list never overflows and `CanSkip` never refuses while
`Backlog` has at most `MaxSkip` + 1 messages (one is being opened). Beyond
it the code refuses messages or drops keys, as `MAX_SKIP` intends. In a conversation of
`MaxSkip` + 2 messages the bound cannot be exceeded, because the opening is not in the
backlog of a reader who needs keys (`FewMessages`).

**The channel.** That a conversation is a `MessageChannel` means that a letter is posted once,
under the sender's next number, read only by the other party, only after it was
posted, and never unread. `LetterInv` relates the numbers of what is stored to what was
encrypted, so that a post is a new letter and one letter stands for one message
(`PostsLetter`, `ReadsLetter`). A failed decryption, a refused request and a reload
are stutters; the last because a plaintext is saved before it.

**Calls await by await.** `CallsAreAtomic` speaks of the last await of a call; `CallInv` says
for every await what has been done by then, relative to the state `from` in which the
ratchet took up the call: in the loop of `skipMessages` that some number of messages has been
passed and the key just read is the chain's (`Passing`); in a DH ratchet step which of root
key, receiving chain and key pair are already new (`TurnPhase`, `HalfTurned`); past it that
the state is `Turned` and the loop over the new chain has begun or ended (`ChainPhase`). Each
segment between two awaits leads from one phase to the next; that the loop ends in what
`SkipMessages` computes at once follows from counting its iterations (`PassedNext`,
`PassedAll`). That there is one call at a time (`OneCall`) is what leaves the object
alone between the segments: of two overlapping calls one overwrites what the other read.
Reloads may come at any await and cached, saved and new objects are all covered.

**What was handed out stands.** `SentMessagesStand` speaks of the saved session, but what
will be saved next is the cached session or the object of the call under way, and
a DH ratchet step gives it another sending chain. `PastInv` says of all three that their
chain is past the messages handed out under it (`SendsPast`), that the message a call has
made is behind its object, and that the object is saved before the message is returned.
A new chain is past everything because no message is under a chain of the key pair it
starts with (`Unused`), which was generated for it. For the header, `HeadInv` says that
the secret of the session at hand is one the other end was told or has used
(`Announced`), or that the header which will tell it is pending (`Promised`), or that the
session was made from the header of the very message being opened (`MadeFor`). The last
case ends well because the first message of a session opens in the session made from its
header (`FirstMessageOpens`): such a message is not rejected, so that no session of an
unknown secret stays in the cache. A reload drops a pending header, hence
`HeadUnlessReloaded`; the first half of the property holds through reloads.

**One-time pre-keys.** `ClaimInv`: keys in the table have been minted, a key that
a bundle carries is not among the unused ones, and a request that is not done
carries none. A claim takes its key from the unused ones; an upload adds
only keys beyond `minted`. The refinement maps a request that is done to its
answer; a claim or the end of a request is an `Answer`, an upload a `Publish`, all
else stutters. That a candidate is among the published keys needs `Min` of a
non-empty set of numbers to be one of them, hence `LeastElement`.
`FirstBundlesAgree` rests on `MaterialInv`: whatever is rotated, refilled or
deleted on the server, the client holds the private keys of its registration, and
only a login takes the one-time ones away.

**Scheduled messages.** `SettledIsNotSent` is proved step by step from the types: what
no run holds is touched by no run (`RunTouches`), and the requests of users change
only rows that are pending (`RequestTouches`), so neither a late throw nor a second
run can bring back what is settled.

**The channel key.** `OneChannelKey` counts the keys that are about; `OneKeyInv` says where they
can come from. Nobody but the creator is ever admin, so that only the dialogs on his device ask
for a key. `Accounted` is the balance: the keys generated so far, together with the dialogs that
found none and have not saved one (`Missing`), are no more than one and one for each that
crossed another. A look-up that finds nothing adds a dialog to `Missing`, and to `crossed` if
there was one already; generating moves one from `Missing` to the keys; and once a key is
generated it is on the device (`PagesInv`), so that no later look-up misses it. Every key in a
table, on a page or on its way has been generated, so that there are no more of them than were
generated. Losses, reloads and other devices are free; the hypothesis `OneAdminDevice` is
what section 5 explains.

**The outbox.** `StoreInv` has, of the store: a request has a row exactly from its
INSERT on; an edit or deletion under way has selected a row; an answer names a row
of its message; of one message, one row is as it was sent (the unique index). And
of the clients: a flush that is past its request has posted its message, and so has
the worker. Requests and rows are only ever added to (`PostsGrow`), so what was
posted or stored stays so; a queued message is then on disk or in the list still to
be written, unless one of the two removals happened, and each of them comes after
a POST.

**The rows.** `ViewInv` adds to `RowsFollowTheList` that rows have different numbers,
that arrays some handler still holds exist, and that nothing is drawn without
a pane. The key lemma (`Drawn`) is about a redraw of any array over any rows: after
it, the first rows are that array's, each once, in order, and a row that says
deleted is kept or taken away, never rewritten. It needs the order in which the
code collects ids (`InOrder`: that it exists, is one-to-one, and is the identity when
no id occurs twice). `DeletedStaysDeleted` then follows for each action from how
rows are changed in place (`RowsWritten`) or redrawn.

**The message box.** `ComposerInv` has three parts, each under the overlaps it supposes
away: one box opens at a time (`OneOpens`); a text is stored or in a save that no
older save can undo, and a draft about to be restored is that text
(`NothingLost`); every text in a box, a draft, a save or a dialog was typed in that
conversation and has not been sent, what is under way belongs to the box on the
page, and no text is under way twice (`NothingMixed`). Slips only grow, so a step
that ends without one began without one.

**Calls.** `CallInv` is about behaviours without a race so far: `Next` admits a race only
by counting it, so that a page has one function suspended, or none (`OneTask`).
`MicrophoneMeansAccepted` speaks of a page that is connected; what makes it so is an
answer, which is on the network or suspended long before. So the invariant says what
each signal and each suspended function carries: an offer and a ring name a call that
somebody else placed to that account (`Called`), an answer one that was accepted, for
the page that placed it; an accept still finds its call ringing, a microphone prompt its
call connected and no microphone. `Called` survives because a page that leaves a call
never enters it again (`CalledStays`). With two devices of an account an answer would
also reach the other one (section 5), hence `OneDevicePerAccount`.

**The creator's role.** `CreatorKeepsRole` compares two states; it holds because
nobody is ever `owner` and only the creator `admin`, so that the two lookups of
a moderation spare him, and a moderation that has passed them still names somebody
else (`CreatorInv`, `AllowedSparesCreator`).

**Sender keys.** `KeysInv` relates the key in memory to the saved one at each step of
an encryption (one ahead between spending and saving), so that after a reload the
next key is above that of all messages under it (`GifsBehind`); and every member
the page believes to have its key has been posted a key that is not newer than
what it will encrypt with (`Reached`).

**Direct conversations.** `NoMoreThanOverlapped` is about conversations; `OverlapInv` counts
them together with the requests that have looked and found none: their sum never
exceeds the requests there can be. A request that finds one leaves the sum, one
that inserts moves from one summand to the other.

**The list of conversations.** `PageAgrees` speaks of the moments when nothing is under
way. `PageInv` says for each kind of request, and each of its steps, what is still
missing between the tables and the list (`Pending`), that without overlaps there is
one such request (`OneByOne`), and that what the other person does leaves the rows of
`Me` alone.

**Meetings.** A join that is past its first statements has a seat, one that is about to
tell the room has seen the meeting live, and who is host in the room has a seat
(`MeetingsInv`).

**The room.** `RelayedWithinLimit` is about all that was relayed; the code knows only its
window, which an eviction shortens. `RateInv` says that the window is the recent
part of what was relayed and that any `Limit` + 1 in a row are a window apart; that
eviction drops only what is old (`EvictDropsOld`) makes it inductive, and `Idle >=
Window` is why hibernation, which forgets the window, cannot break it. For
`FramesWithinLimit`, `FrameInv` says the same of the frames and adds that the byte
accumulator covers the frames that are in the window (`Covers`): the code does not
lower it when frames leave, and resets it only when none remains. `framed` gives each
frame its place in the bytes relayed to that user's peers, so that what a stretch of
frames carries is a difference and its bound needs no sum over a sequence.
`PagesUseTheRoom` maps each step of a page to a step of the room or to `Outside`.

**Notes.** `MediaInv`: an upload of a note exists only for a recording that is stopped
and not cancelled, and at most one does; its medium has the number it was stored
under; a message names such a medium.

**Accounts.** What the tables and the browsers will hold is, for most of the time, in
requests and pages, so that none of the three properties is inductive. In
`AccountsInv`, `Carries` says what each request carries at each of its steps: a
registration its passphrase, identity and blob; a recovery, once it is sent, a blob
and a vault of the account whose words were typed, and from the comparison of the
verifiers on, the very id of that account, so that an update that comes after a
deletion and a new registration of the name finds no row. `Waits` says that a page
awaits one request and is at no form meanwhile; `SignsIn` that a sign-in half done has
the token, the identity and the DH pair of one account; `PairIsOfTheApp` that a DH
pair in memory belongs to a page in the app, hence that nobody signs in over the pair
of another account; `Signed` that the secure store holds the pair from the end of the
sign-in on, so that what is left in localStorage no longer matters. Steps of the
server are proved through `ServedCall`, those of a browser through `CallMoves` and
`PageMoves`, which reduce them to one request, one page and one disk.

**Sessions.** `IndexKnowsSessions` lets an exchange have the session at any step;
`Indexed` says that it is between the issue and the write of the index, and that a
write which has not overlapped another adds to what is there. `StaysSignedIn` is about
the answer to a refresh: it clears the tokens only when the server found the old one
spent. `SessionsInv` excludes that while nothing was cut off and no two tabs held a
token (`Untroubled`): nobody else has the token of a refresh under way, it is valid
until that very refresh spends it (`RefreshesFind`), a new token is unknown to every
tab, disk and other exchange until it is answered (`NewTokens`), and what a tab or
localStorage holds is valid or being replaced by its own tab (`TokensHeld`), so that a
page that starts over takes a token no refresh is about to spend. One exchange at a
time per tab is what the single flight of `tryRefresh` gives (`Starts`).

### What is only model-checked

- Liveness (`EventuallyRead` in `DeliversMessages`, `Replenished`, `DueIsStored`,
  `StaysConnected`, `RecordingEnds`, `CallsAreResolved`, `HangUpIsHeard`,
  `CallsAreAnswered`, `QrSignsIn`, `SubscribersRead`): fairness and ENABLED are out of this
  prover's reach.
- `EventuallyRead` is the liveness half of `DeliversMessages`; its safety half is
  `ImplementsChannel`, and that an unread message can be opened, `UnreadStaysReadable`.

No module here declares a RECURSIVE operator.

## 5 What the code does that one might not expect

The run `Unpin` ends in a counterexample to a statement of the code: "`DELETE
/api/messages/conversations/:id/pin/:msgId` — unpin" (`messages.ts:257`). The handler of
`DELETE conversations/:id` (37-47) takes every DELETE whose path contains that
prefix and comes first, so that unpinning removes the user's membership and leaves
the message pinned.

The rest is behaviour the models have, as the code does, and that no run refutes a
statement about; where a property excepts it, the exception is named.

Messages and sessions:

- Two overlapping encryptions read the same chain key (`double-ratchet.ts:215`):
  one key and one number for two messages. `Sending` takes calls in turn.
- When both sides send first, opening the other's first message replaces one's own
  session (`session-manager.ts:377`), which the other may already be answering in.
- The X3DH header is handed out once (`session-manager.ts:337`); if that POST fails
  or the first message is a file (`chat.ts:3542`), the conversation cannot be opened.
  A reload between the saving of a new session and its first message loses it too (259).
- The client rotates the signed pre-key on the server and goes on answering with the
  one of its registration (`client-crypto.ts:192`). Refilled pre-keys lose their
  private halves (`app.ts:453`), and a login restores one-time pre-keys without
  public halves (`auth.ts:310`). `FirstBundlesAgree` states what remains.
- A flush drops what it posted whatever became of the request (`chat.ts:328`), hence
  `QueuedIsKept` speaks of what was posted *or* stored.
- Forwarded messages, files and GIFs do not keep their own plaintext
  (`features.ts:217`), and what the socket opened is not cached (`chat.ts:1663`): the
  history tries to decrypt them again and fails.
- The first message of a conversation can be opened again at any later time, by a
  rebuild that resets the session (`session-manager.ts:371`). An old ratchet key whose
  skipped keys have been dropped is taken for a new one (`double-ratchet.ts:272`).
- An edit that selected its row before a deletion writes its payload into the
  deleted row (`messages.ts:201`). The quota counts deleted rows and comes before the
  nonce (`messages.ts:382`): at the limit, the retry of a stored message is refused.

View and message box:

- Opening B while A's history is loading binds A's draft to B's box and restores A's
  text there (`chat.ts:815`; slip `crossed`); a history of A may be drawn into B (1047). A
  text encrypted for A is posted to B after a switch (1452; `moved`).
- A text typed before the box is bound is not saved and is overwritten (`early`). A
  save of a draft may land after its deletion (`secure-store.ts:115`; `late`). A failed
  encryption puts the text back over a newer one (1512). A second click on Schedule
  before the answer schedules twice (`again`). The stamps of drafts are never
  renewed, so that a fresh draft of an old conversation is pruned (`secure-store.ts:195`;
  `pruned`).
- A message may enter the list twice, from the history and from the socket
  (`RowsFollowTheList` supposes no id twice); an edit from elsewhere changes the array
  and not the row.

Server:

- Overlapping creations give one pair several direct conversations (`messages.ts:585`;
  `NoMoreThanOverlapped` says how many). Refused or lost requests are shown as done, as
  `req()` never throws (`crossed`).
- `rotateSenderKey` is never called and a distribution omits the tag, so that no member
  can import a sender key; group texts go through the pairwise session of one other
  member. Overlapping `groupEncrypt` calls take one iteration. Nobody is ever `owner`, as
  `groups.ts:12` has it.
- Any end of any socket of a user resets the windows and announces them offline though
  other sockets remain (`ChatRoom.ts:175`). A stale `close` event clears `state.ws` of a
  newer socket (`chat.ts:1894`), which `StaysConnected` survives by reconnecting.
- A mistyped meeting id creates a live room without rows; any event re-adds an actor
  that was removed; the status in D1 never becomes `ended`; concurrent joins may
  disagree on roles (`LiveIsListed` states what holds).
- A late throw between insert and mark stores a scheduled message twice, and a
  cancellation that comes after a run's SELECT is too late (`index.ts:985`).
- A second device of a channel's admin mints another key (`channels.ts:346` against
  `channel-keys.ts:4`); so does a sign-out followed by a failed fetch, hence the run's
  one admin device.
- If a channel has no key yet (the answer to its creation was lost), two clicks on Post, in one
  dialog or in one that was closed and reopened, both find none (`channels.ts:334`, 342) and
  generate one each (344; `channel-keys.ts:111`). The later one overwrites the earlier on the device;
  posts and envelopes under the other stay closed (`crossed`).
- A page lists the newest 50 posts and has no way to older ones (`channels.ts:264`), hence
  `Overfull` in `SubscribersRead`.

Accounts, calls and media:

- A recovery vault whose upload is lost is never uploaded again (`auth.ts:437`), so that
  its words open nothing.
- Two tabs share one single-use refresh token; a lost answer of an exchange ends the
  session (`StaysSignedIn` excepts both). The sessions of a QR sign-in are not in the
  index, and a recovery deletes no refresh tokens.
- A device that is ringing connects when *another* device of the callee answers
  (`calls.ts:412`). A hang-up during the microphone prompt leaves a `VoiceWS` open
  (`races`).
- Two clicks during the permission prompt start two recordings; the first one's
  microphone stays on (`chat.ts:3039`; `replaced`). Voice notes carry no tag, so that
  receivers cannot decrypt them; uploads of files are refused, as their type arrives
  encrypted (`media.ts:86`).

Some properties except the very case their part of the code gets wrong, and show that nothing
else does; `PROJECT.json` says so at the hazard. `QueuedIsKept` excepts what was posted,
`IndexKnowsSessions` exchanges that overlapped on the index, `SentOnceToItsChat` a text moved by a
switch, `SettledIsNotSent` the rows a run holds, `MicrophoneMeansAccepted` races, `PageAgrees` overlaps
and lost requests, `VaultOpensWithWords` vaults that never arrived, and `StaysSignedIn` lost answers
and shared tokens. `FirstBundlesAgree` speaks of the keys of the registration before the first
rotation and login, and `Replenished` of the public halves alone.

## 6 What is not modelled

- Bytes: ciphers, encodings, padding, signatures, the contents of messages. Keys
  are equal when they are derived alike, signatures verify, ciphertexts are
  authentic or not.
- In the parts above: warnings about changed identity keys, wiping all sessions at
  logout, receipts, typing, search, disappearing timers on the client, paging of the
  history by cursor, burn on read, `PUT /keys/encrypted-bundle`, proof of work, rate
  limits of HTTP, the cache of sessions in each isolate, thumbnails and view-once,
  video, adding members to groups, importing sender keys, discovery and analytics of
  channels.
- KV is read as last written; its eventual consistency is not modelled.
- Several devices of one account in one conversation, and several conversations of a
  session: a session belongs to one conversation and shares nothing with others but
  the pre-keys.
- The socket and the history of one client at once, as concurrent calls of
  `decryptMessage`: `RatchetSession` interleaves whole calls, `SessionCalls` their parts,
  without the plaintext cache; `ConversationView` interleaves them without the ratchet.
- Crashes of the server between statements look like requests that never move on.
- One load of a channel's page at a time.
- In `VoiceCalls`, an awaited import of `inbox-ws.js` belongs to the step before it (`calls.ts:363`,
  388); offers go by the inbox socket only, not by that of the conversation when there is no inbox
  (365); and an audio context that fails after the microphone was granted, which leaves it on, is
  left out.
- Group calls: `encryptGroupSignaling` throws without members, so that none is signalled.
- Contacts, push notifications, link previews, wire types: single statements, pure I/O
  or declarations. The Kotlin and Swift clients have a ratchet of their own; the desktop
  shell is a window.

## 7 Plan

Every part with state and interleavings has a module, and every safety invariant and
action property the runs check is proved. What is left is liveness, which stays with
TLC, and the parts section 6 lists as not modelled.
