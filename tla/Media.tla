------------------------------- MODULE Media --------------------------------
(***************************************************************************)
(* Voice and video notes and files: the recorder of the web client and its *)
(* uploads (src/web/src/chat/chat.ts), the media store and its quota       *)
(* (src/backend/src/media.ts).                                             *)
(*                                                                         *)
(* Audio and video notes differ in their data only.  A file's type goes to *)
(* the server encrypted, which the server's list of types never matches; a *)
(* note's goes in the clear.  What the recorder draws, and view-once, are  *)
(* left out.  KV is read and written as if it were consistent.             *)
(***************************************************************************)
EXTENDS Naturals, Sequences, FiniteSets

CONSTANTS Notes,       \* recordings, in the order they are asked for
          Files,       \* picked or dropped
          NoNote,
          Quota,       \* uploads of a user (500 in the code)
          MaxMedia     \* bound: refusals, failures, retries, deletions

ASSUME MediaAssumption ==
    Notes \subseteq Nat /\ NoNote \notin Notes /\ Files \cap Notes = {} /\ Quota \in Nat

VARIABLES
    recorder,    \* of each note, from the prompt to its stop event
    active,      \* activeRecording
    overlays,    \* notes whose panel is on the page
    cancelled,   \* rec.cancelled
    streams,     \* notes whose microphone or camera is on
    uploads,     \* requests: what the server has done, whether the page waits
    failed,      \* files that offer a retry
    objects,     \* R2: what each medium is of; its id is its number
    removed,     \* media that were deleted
    count,       \* KV: media_count of the user
    messages,    \* stored messages: what each is of, and its medium
    faces,       \* how the sender's page shows each of them
    replaced,    \* history: recordings of which another took the place
    mediaEvents

recording == <<recorder, active, overlays, cancelled, streams, replaced>>
store == <<objects, removed, count>>
mediaVars == <<recording, uploads, failed, store, messages, faces, mediaEvents>>

MediaInit ==
    /\ recorder = [n \in Notes |-> "none"]
    /\ active = NoNote
    /\ overlays = {} /\ cancelled = {} /\ streams = {} /\ replaced = {}
    /\ uploads = {} /\ failed = {}
    /\ objects = <<>> /\ removed = {} /\ count = 0
    /\ messages = <<>> /\ faces = <<>>
    /\ mediaEvents = 0

Happens == mediaEvents < MaxMedia /\ mediaEvents' = mediaEvents + 1

Upload(i) == [of |-> i, step |-> "asked", read |-> 0, medium |-> 0, waits |-> TRUE]

-----------------------------------------------------------------------------
(* startVoiceRecording: only the recording is looked for, not the prompt.   *)
StartRecording(n) ==
    /\ recorder[n] = "none" /\ \A k \in Notes : k < n => recorder[k] # "none"
    /\ active = NoNote
    /\ recorder' = [recorder EXCEPT ![n] = "prompt"]
    /\ UNCHANGED <<active, overlays, cancelled, streams, replaced, uploads, failed, store,
                   messages, faces, mediaEvents>>

AccessDenied(n) ==
    /\ recorder[n] = "prompt"
    /\ recorder' = [recorder EXCEPT ![n] = "stopped"]
    /\ UNCHANGED <<active, overlays, cancelled, streams, replaced, uploads, failed, store,
                   messages, faces, mediaEvents>>

BeginRecording(n) ==
    /\ recorder[n] = "prompt"
    /\ recorder' = [recorder EXCEPT ![n] = "recording"]
    /\ active' = n
    /\ replaced' = IF active = NoNote THEN replaced ELSE replaced \cup {active}
    /\ overlays' = overlays \cup {n} /\ streams' = streams \cup {n}
    /\ UNCHANGED <<cancelled, uploads, failed, store, messages, faces, mediaEvents>>

(* recorder.stop; the stop event comes later. *)
Stopping(n) ==
    recorder' = [recorder EXCEPT ![n] = IF @ = "recording" THEN "stopping" ELSE @]

(* The five minutes, or the device is gone. *)
AutoStop(n) ==
    /\ recorder[n] = "recording" /\ Stopping(n)
    /\ UNCHANGED <<active, overlays, cancelled, streams, replaced, uploads, failed, store,
                   messages, faces, mediaEvents>>

CancelRecording(n) ==
    /\ n \in overlays \ cancelled
    /\ cancelled' = cancelled \cup {n} /\ Stopping(n)
    /\ UNCHANGED <<active, overlays, streams, replaced, uploads, failed, store, messages, faces,
                   mediaEvents>>

(* trapFocusInOverlay: Escape takes the panel away, and nothing else. *)
Escape(n) ==
    /\ n \in overlays
    /\ overlays' = overlays \ {n}
    /\ UNCHANGED <<recorder, active, cancelled, streams, replaced, uploads, failed, store,
                   messages, faces, mediaEvents>>

(* Mutant: whoever calls it finishes the recording. *)
FinishAgain(n) ==
    /\ active' = IF active = n THEN NoNote ELSE active
    /\ streams' = streams \ {n} /\ overlays' = overlays \ {n}
    /\ uploads' = IF n \in cancelled THEN uploads ELSE uploads \cup {Upload(n)}

(* Mutant: a cancelled recording is left before its tracks are stopped. *)
FinishLeavesStream(n) ==
    IF active # n THEN UNCHANGED <<active, streams, overlays, uploads>>
    ELSE /\ active' = NoNote /\ overlays' = overlays \ {n}
         /\ \/ n \notin cancelled /\ streams' = streams \ {n} /\ uploads' = uploads \cup {Upload(n)}
            \/ UNCHANGED <<streams, uploads>>

(* finishRecording: once, and only for the recording that is active. *)
FinishRecording(n) ==
    IF active # n THEN UNCHANGED <<active, streams, overlays, uploads>>
    ELSE /\ active' = NoNote
         /\ streams' = streams \ {n} /\ overlays' = overlays \ {n}
         /\ \/ n \notin cancelled /\ uploads' = uploads \cup {Upload(n)}
            \/ UNCHANGED uploads                          \* cancelled, or under 100 bytes

SendRecording(n) ==
    /\ n \in overlays
    /\ IF recorder[n] = "recording"
       THEN Stopping(n) /\ UNCHANGED <<active, streams, overlays, uploads>>
       ELSE FinishRecording(n) /\ UNCHANGED recorder
    /\ UNCHANGED <<cancelled, replaced, failed, store, messages, faces, mediaEvents>>

StopEvent(n) ==
    /\ recorder[n] = "stopping"
    /\ recorder' = [recorder EXCEPT ![n] = "stopped"]
    /\ FinishRecording(n)
    /\ UNCHANGED <<cancelled, replaced, failed, store, messages, faces, mediaEvents>>

-----------------------------------------------------------------------------
(* showFileUpload; a file that failed is picked again by Retry. *)
Working(f) == \E u \in uploads : u.of = f

PickFile(f) ==
    /\ Happens
    /\ ~Working(f)
    /\ uploads' = uploads \cup {Upload(f)} /\ failed' = failed \ {f}
    /\ UNCHANGED <<recording, store, messages, faces>>

Becomes(u, v) == uploads' = (uploads \ {u}) \cup {v}

(* uploadMedia: the type, the members, the quota. *)
Refused(u) ==
    /\ u.step = "asked"
    /\ \/ u.of \in Files /\ UNCHANGED mediaEvents
       \/ u.of \in Notes /\ count >= Quota /\ UNCHANGED mediaEvents
       \/ u.of \in Notes /\ Happens
    /\ Becomes(u, [u EXCEPT !.step = "refused"])
    /\ UNCHANGED <<recording, failed, store, messages, faces>>

Admitted(u) ==
    /\ u.step = "asked" /\ u.of \in Notes /\ count < Quota
    /\ Becomes(u, [u EXCEPT !.step = "admitted", !.read = count])
    /\ UNCHANGED <<recording, failed, store, messages, faces, mediaEvents>>

Stored(u) ==
    /\ u.step = "admitted"
    /\ objects' = Append(objects, u.of)
    /\ Becomes(u, [u EXCEPT !.step = "stored", !.medium = Len(objects) + 1])
    /\ UNCHANGED <<recording, failed, removed, count, messages, faces, mediaEvents>>

(* The count that was read, and one. *)
Counted(u) ==
    /\ u.step = "stored"
    /\ count' = u.read + 1
    /\ Becomes(u, [u EXCEPT !.step = "answered"])
    /\ UNCHANGED <<recording, failed, objects, removed, messages, faces, mediaEvents>>

(* deleteMedia: the count stays. *)
DeleteMedia(m) ==
    /\ m \in DOMAIN objects \ removed /\ Happens
    /\ removed' = removed \cup {m}
    /\ UNCHANGED <<recording, uploads, failed, objects, count, messages, faces>>

-----------------------------------------------------------------------------
(* The page: an upload that is refused or lost is offered again if it is of *)
(* a file; a note is lost.                                                  *)
GivenUp(u) == failed' = IF u.of \in Files THEN failed \cup {u.of} ELSE failed

UploadRefused(u) ==
    /\ u.step = "refused" /\ u.waits
    /\ uploads' = uploads \ {u} /\ GivenUp(u)
    /\ UNCHANGED <<recording, store, messages, faces, mediaEvents>>

(* fetch rejects; the server may go on. *)
UploadLost(u) ==
    /\ u.waits /\ u.step # "posting" /\ Happens
    /\ \/ Becomes(u, [u EXCEPT !.waits = FALSE])
       \/ u.step = "asked" /\ uploads' = uploads \ {u}
    /\ GivenUp(u)
    /\ UNCHANGED <<recording, store, messages, faces>>

(* Cancel of a file: fetch is aborted, no retry. *)
CancelUpload(u) ==
    /\ u.waits /\ u.of \in Files /\ u.step # "posting"
    /\ Becomes(u, [u EXCEPT !.waits = FALSE])
    /\ UNCHANGED <<recording, failed, store, messages, faces, mediaEvents>>

(* The server is done with a request that nobody waits for. *)
Forgotten(u) ==
    /\ ~u.waits /\ u.step \in {"refused", "answered"}
    /\ uploads' = uploads \ {u}
    /\ UNCHANGED <<recording, failed, store, messages, faces, mediaEvents>>

UploadAnswered(u) ==
    /\ u.waits /\ u.step = "answered"
    /\ Becomes(u, [u EXCEPT !.step = "posting"])
    /\ UNCHANGED <<recording, failed, store, messages, faces, mediaEvents>>

(* encryptMessage and sendMessage.  The plaintext is cached when the id has  *)
(* come; only then the sender can see the note, since its message has no    *)
(* tag and nobody can decrypt it.                                           *)
PostMedia(u, cached) ==
    /\ u.step = "posting"
    /\ uploads' = uploads \ {u}
    /\ messages' = Append(messages, [of |-> u.of, medium |-> u.medium])
    /\ faces' = Append(faces, IF cached THEN "waiting" ELSE "undecryptable")
    /\ IF cached THEN UNCHANGED mediaEvents ELSE Happens
    /\ UNCHANGED <<recording, failed, store>>

(* encryptMessage throws, or sendMessage is refused: nobody is told. *)
NotPosted(u) ==
    /\ u.step = "posting" /\ Happens
    /\ uploads' = uploads \ {u}
    /\ UNCHANGED <<recording, failed, store, messages, faces>>

(* decryptAndDisplayMedia, downloadMedia: each time the row is drawn. *)
DisplayMedia(i) ==
    /\ faces[i] # "undecryptable"
    /\ \/ /\ messages[i].medium \in DOMAIN objects \ removed
          /\ faces' = [faces EXCEPT ![i] = "shown"]
          /\ UNCHANGED mediaEvents
       \/ /\ messages[i].medium \notin DOMAIN objects \ removed
          /\ faces' = [faces EXCEPT ![i] = "missing"]
          /\ UNCHANGED mediaEvents
       \/ faces' = [faces EXCEPT ![i] = "failed"] /\ Happens
    /\ UNCHANGED <<recording, uploads, failed, store, messages>>

-----------------------------------------------------------------------------
Recorder(n) ==
    \/ StartRecording(n) \/ AccessDenied(n) \/ BeginRecording(n) \/ CancelRecording(n)
    \/ Escape(n) \/ SendRecording(n) \/ AutoStop(n) \/ StopEvent(n)

Server(u) == Refused(u) \/ Admitted(u) \/ Stored(u) \/ Counted(u)

Sender(u) ==
    \/ UploadRefused(u) \/ UploadLost(u) \/ CancelUpload(u) \/ Forgotten(u) \/ UploadAnswered(u)
    \/ NotPosted(u) \/ \E cached \in BOOLEAN : PostMedia(u, cached)

MediaNext ==
    \/ \E n \in Notes : Recorder(n)
    \/ \E f \in Files : PickFile(f)
    \/ \E u \in uploads : Server(u) \/ Sender(u)
    \/ \E m \in DOMAIN objects : DeleteMedia(m)
    \/ \E i \in DOMAIN messages : DisplayMedia(i)

(* Timers fire and events are dispatched. *)
MediaFairness == \A n \in Notes : WF_mediaVars(AutoStop(n) \/ StopEvent(n))

MediaSpec == MediaInit /\ [][MediaNext]_mediaVars /\ MediaFairness

-----------------------------------------------------------------------------
(* However the buttons, the timer and the stop event of recordings overlap, *)
(* a recording gives at most one message, none if it was cancelled, and the *)
(* message names a medium of its own that was stored before it; the         *)
(* sender's page misses it only after it was deleted (finishRecording,      *)
(* uploadAndSendMediaNote).                                                 *)
NotesArriveOnce ==
    \A i \in DOMAIN messages :
        /\ messages[i].of \in Notes \ cancelled
        /\ \A k \in DOMAIN messages : messages[k].of = messages[i].of => k = i
        /\ messages[i].medium \in DOMAIN objects /\ objects[messages[i].medium] = messages[i].of
        /\ faces[i] = "missing" => messages[i].medium \in removed

(* Every microphone and camera is released within five minutes, also when   *)
(* the panel was closed or the prompt overlapped another, except that of a  *)
(* recording that another one has replaced.                                 *)
RecordingEnds == []<>(streams \subseteq replaced)
=============================================================================
