------------------------------ MODULE Composer ------------------------------
(***************************************************************************)
(* The composer of the web client (src/web/src/chat/chat.ts): the message  *)
(* box of the open conversation, its drafts in the encrypted store         *)
(* (src/web/src/crypto/secure-store.ts), sending and scheduling.           *)
(*                                                                         *)
(* A text is the content of the box after an edit; texts are numbered in   *)
(* the order they are typed, 0 is the empty box.  Opening a conversation   *)
(* makes a new box; the boxes of earlier ones are off the page, but their  *)
(* handlers run on.  Replies, timers, priorities, dictation and drafts of  *)
(* the older localStorage format are left out, and so are conversations    *)
(* that are not in the list (module Conversations).                        *)
(***************************************************************************)
EXTENDS Naturals, Sequences, FiniteSets

CONSTANTS Talks,
          NoChat,
          MaxTexts,    \* bound: edits
          MaxBoxes,    \* bound: conversations opened
          MaxPosts,    \* bound: messages sent or scheduled
          MaxLoads,    \* bound: times the page is loaded
          MaxSlips     \* bound: kinds of overlap in one behaviour

ASSUME ComposerAssumption == NoChat \notin Talks

VARIABLES
    shown,       \* state.activeConversationId and the conversation drawn
    written,     \* the text in its box
    bound,       \* of each box, the chats whose drafts its input events save
    ready,       \* whether Enter and the buttons work
    openings,    \* openConversation calls under way
    drafts,      \* in IndexedDB
    stamps,      \* in IndexedDB: the age of a chat's draft, as pruneOldDrafts sees it
    pageLoads,       \* times the page was loaded
    booted,      \* whether pruneOldDrafts has run
    saving,      \* putSecretString calls under way
    leaving,     \* sendMessageHandler calls that are encrypting
    dialog,      \* whether the schedule dialog is up
    scheduling,  \* createScheduledMessage requests under way
    posts,       \* what the server was given
    typedIn,     \* history: the chat each text was typed in
    latest,      \* history: of each chat, the last text that was not dealt with
    slips        \* history: what overlapped

boxVars == <<shown, written, bound, ready>>
ageVars == <<stamps, pageLoads, booted>>
sendVars == <<leaving, dialog, scheduling, posts>>
textVars == <<typedIn, latest>>
composerVars == <<boxVars, openings, drafts, ageVars, saving, sendVars, textVars, slips>>

ComposerInit ==
    /\ shown = NoChat /\ written = 0 /\ bound = <<>> /\ ready = FALSE
    /\ openings = {} /\ saving = {} /\ leaving = {} /\ dialog = FALSE /\ scheduling = {}
    /\ drafts = [c \in Talks |-> 0] /\ stamps = [c \in Talks |-> "none"]
    /\ pageLoads = 1 /\ booted = FALSE
    /\ posts = <<>>
    /\ typedIn = <<>> /\ latest = [c \in Talks |-> 0] /\ slips = {}

Box == Len(bound)

(* Requests that may still become posts. *)
MayPost == Len(posts) + Cardinality(leaving) + Cardinality(scheduling) < MaxPosts

(* What overlaps, of pairs of a kind and a condition. *)
Slipped(kinds) ==
    /\ slips' = slips \cup kinds
    /\ Cardinality(slips') <= MaxSlips

When(kind, condition) == {k \in {kind} : condition}

Moved == leaving \cup scheduling # {}

Saving(chats) == \E w \in saving : w.chat \in chats

-----------------------------------------------------------------------------
(* openConversation, up to the history it waits for. *)
OpenChat(c) ==
    /\ ~dialog /\ Box < MaxBoxes
    /\ shown' = c /\ written' = 0 /\ bound' = Append(bound, {}) /\ ready' = FALSE
    /\ openings' = openings \cup {[chat |-> c, of |-> Box + 1, box |-> 0, found |-> 0]}
    /\ Slipped(When("crossed", openings # {}) \cup When("moved", Moved))
    /\ UNCHANGED <<ageVars, sendVars, textVars, drafts, saving>>

(* The history has come: the box on the page, whose conversation may be     *)
(* another by now, saves its text as the draft; the draft is read.          *)
BindBox(o) ==
    /\ o.box = 0
    /\ IF shown = NoChat THEN openings' = openings \ {o} /\ UNCHANGED bound
       ELSE /\ openings' = (openings \ {o})
                  \cup {[o EXCEPT !.box = Box, !.found = drafts[o.chat]]}
            /\ bound' = [bound EXCEPT ![Box] = @ \cup {o.chat}]
    /\ Slipped(When("unread", Saving({o.chat})))
    /\ UNCHANGED <<ageVars, sendVars, textVars, shown, written, ready, drafts, saving>>

(* Mutant: a draft is taken out of the store. *)
RestoreAndDelete(o) ==
    /\ o.box # 0 /\ openings' = openings \ {o}
    /\ IF shown = NoChat \/ o.box # Box THEN UNCHANGED <<written, ready>>
       ELSE ready' = TRUE /\ written' = IF o.found # 0 THEN o.found ELSE written
    /\ drafts' = [drafts EXCEPT ![o.chat] = 0]
    /\ UNCHANGED <<ageVars, sendVars, textVars, shown, bound, saving, slips>>

(* The draft replaces what is in the box; the keys and buttons are bound. *)
RestoreDraft(o) ==
    /\ o.box # 0 /\ openings' = openings \ {o}
    /\ IF shown = NoChat \/ o.box # Box THEN UNCHANGED <<written, ready>>
       ELSE ready' = TRUE /\ written' = IF o.found # 0 THEN o.found ELSE written
    /\ UNCHANGED <<ageVars, sendVars, textVars, shown, bound, drafts, saving, slips>>

BackToList ==
    /\ shown # NoChat /\ ~dialog
    /\ shown' = NoChat /\ written' = 0 /\ ready' = FALSE
    /\ Slipped(When("moved", Moved))
    /\ UNCHANGED <<ageVars, sendVars, textVars, bound, openings, drafts, saving>>

-----------------------------------------------------------------------------
(* The input listeners: a text is saved under every chat the box is bound   *)
(* to, an empty box deletes their drafts.                                   *)
TypeText ==
    /\ shown # NoChat /\ ~dialog /\ Len(typedIn) < MaxTexts
    /\ typedIn' = Append(typedIn, shown) /\ written' = Len(typedIn')
    /\ latest' = [latest EXCEPT ![shown] = Len(typedIn')]
    /\ saving' = saving \cup {[chat |-> c, text |-> Len(typedIn')] : c \in bound[Box]}
    /\ Slipped(When("early", openings # {}))
    /\ UNCHANGED <<ageVars, sendVars, shown, bound, ready, openings, drafts>>

(* deleteSecret opens its transaction at once, before those of the saves    *)
(* that are still encrypting.                                               *)
Without(chats) == [c \in Talks |-> IF c \in chats THEN 0 ELSE drafts[c]]

ClearBox ==
    /\ shown # NoChat /\ ~dialog /\ written # 0
    /\ written' = 0 /\ latest' = [latest EXCEPT ![shown] = 0]
    /\ drafts' = Without(bound[Box])
    /\ Slipped(When("early", openings # {}) \cup When("pending", Saving(bound[Box])))
    /\ UNCHANGED <<ageVars, sendVars, shown, bound, ready, openings, saving, typedIn>>

(* putSecret, after the wrapping key was read and the text encrypted. *)
DraftSaved(w) ==
    /\ w \in saving /\ saving' = saving \ {w}
    /\ drafts' = [drafts EXCEPT ![w.chat] = w.text]
    /\ Slipped(When("late", w.text < drafts[w.chat]))
    /\ UNCHANGED <<boxVars, ageVars, sendVars, textVars, openings>>

-----------------------------------------------------------------------------
(* Dealt with: nothing is promised of the text any more. *)
DealtWith(text) == latest' = [c \in Talks |-> IF latest[c] = text THEN 0 ELSE latest[c]]

(* Mutant: the draft is left to the input event, which does not come. *)
SendKeepsDraft ==
    /\ ready /\ ~dialog /\ written # 0 /\ MayPost
    /\ leaving' = leaving \cup {[text |-> written, to |-> shown, box |-> Box]}
    /\ written' = 0 /\ DealtWith(written)
    /\ UNCHANGED <<ageVars, shown, bound, ready, openings, drafts, saving, dialog, scheduling,
                   posts, typedIn, slips>>

(* sendMessageHandler, up to the encryption. *)
SendText ==
    /\ ready /\ ~dialog /\ written # 0 /\ MayPost
    /\ leaving' = leaving \cup {[text |-> written, to |-> shown, box |-> Box]}
    /\ written' = 0 /\ DealtWith(written)
    /\ drafts' = Without({shown})
    /\ Slipped(When("pending", Saving({shown})) \cup When("again", scheduling # {}))
    /\ UNCHANGED <<ageVars, shown, bound, ready, openings, saving, dialog, scheduling, posts,
                   typedIn>>

(* The message goes to the conversation that is open now. *)
TextEncrypted(s) ==
    /\ leaving' = leaving \ {s}
    /\ posts' = Append(posts, [text |-> s.text, to |-> s.to, under |-> shown])
    /\ UNCHANGED <<boxVars, ageVars, textVars, openings, drafts, saving, dialog, scheduling,
                   slips>>

(* The text is put back, not as a draft. *)
NotEncrypted(s) ==
    /\ leaving' = leaving \ {s}
    /\ written' = IF shown # NoChat /\ s.box = Box THEN s.text ELSE written
    /\ Slipped(When("overwritten", written' # written /\ written # 0))
    /\ UNCHANGED <<ageVars, textVars, shown, bound, ready, openings, drafts, saving, dialog,
                   scheduling, posts>>

-----------------------------------------------------------------------------
(* showScheduleDialog: it covers the page, until Cancel, Escape or success. *)
OpenDialog ==
    /\ ready /\ ~dialog /\ written # 0 /\ scheduling = {}
    /\ dialog' = TRUE
    /\ UNCHANGED <<boxVars, ageVars, textVars, openings, drafts, saving, leaving, scheduling,
                   posts, slips>>

CloseDialog ==
    /\ dialog /\ dialog' = FALSE
    /\ UNCHANGED <<boxVars, ageVars, textVars, openings, drafts, saving, leaving, scheduling,
                   posts, slips>>

(* Nothing disables the button while a request is under way. *)
ConfirmSchedule ==
    /\ dialog /\ MayPost
    /\ scheduling' = scheduling \cup
           {[text |-> written, to |-> shown, box |-> Box, of |-> Cardinality(scheduling)]}
    /\ Slipped(When("again", Moved))
    /\ UNCHANGED <<boxVars, ageVars, textVars, openings, drafts, saving, leaving, dialog,
                   posts>>

(* The box is emptied and an input event sent to it. *)
TextScheduled(r) ==
    /\ scheduling' = scheduling \ {r} /\ dialog' = FALSE
    /\ posts' = Append(posts, [text |-> r.text, to |-> r.to, under |-> r.to])
    /\ drafts' = Without(bound[r.box]) /\ DealtWith(r.text)
    /\ written' = IF shown # NoChat /\ r.box = Box THEN 0 ELSE written
    /\ Slipped(When("pending", Saving(bound[r.box]))
               \cup When("erased", \/ \E c \in bound[r.box] : drafts[c] \notin {0, r.text}
                                   \/ written' # written /\ written # r.text))
    /\ UNCHANGED <<ageVars, shown, bound, ready, openings, saving, leaving, typedIn>>

NotScheduled(r) ==
    /\ scheduling' = scheduling \ {r}
    /\ UNCHANGED <<boxVars, ageVars, textVars, openings, drafts, saving, leaving, dialog,
                   posts, slips>>

-----------------------------------------------------------------------------
(* The page is loaded again: what was not in the store is gone, a request   *)
(* may have arrived.                                                        *)
ReloadPage ==
    /\ shown' = NoChat /\ written' = 0 /\ ready' = FALSE /\ dialog' = FALSE /\ booted' = FALSE
    /\ pageLoads < MaxLoads /\ pageLoads' = pageLoads + 1
    /\ openings' = {} /\ saving' = {} /\ leaving' = {} /\ scheduling' = {}
    /\ \/ UNCHANGED posts
       \/ \E r \in scheduling :
             posts' = Append(posts, [text |-> r.text, to |-> r.to, under |-> r.to])
    /\ Slipped(When("lost", saving # {}) \cup When("moved", Moved))
    /\ UNCHANGED <<textVars, bound, drafts, stamps>>

(* pruneOldDrafts: a chat's stamp is of the first load that saw a draft of  *)
(* it, and is renewed by no save.                                           *)
PruneOldDrafts ==
    /\ ~booted /\ booted' = TRUE
    /\ LET old == {c \in Talks : drafts[c] # 0 /\ stamps[c] = "old"} IN
       /\ drafts' = Without(old)
       /\ stamps' = [c \in Talks |-> IF c \in old THEN "none"
                                     ELSE IF drafts[c] # 0 /\ stamps[c] = "none" THEN "new"
                                     ELSE stamps[c]]
       /\ Slipped(When("pruned", old # {}))
    /\ UNCHANGED <<boxVars, sendVars, textVars, openings, saving, pageLoads>>

(* Thirty days. *)
MonthPasses ==
    /\ \E c \in Talks : stamps[c] = "new"
    /\ stamps' = [c \in Talks |-> IF stamps[c] = "new" THEN "old" ELSE stamps[c]]
    /\ UNCHANGED <<boxVars, sendVars, textVars, openings, drafts, pageLoads, booted, saving,
                   slips>>

-----------------------------------------------------------------------------
ComposerNext ==
    \/ \E c \in Talks : OpenChat(c)
    \/ \E o \in openings : BindBox(o) \/ RestoreDraft(o)
    \/ BackToList \/ TypeText \/ ClearBox \/ SendText
    \/ \E w \in saving : DraftSaved(w)
    \/ \E s \in leaving : TextEncrypted(s) \/ NotEncrypted(s)
    \/ OpenDialog \/ CloseDialog \/ ConfirmSchedule
    \/ \E r \in scheduling : TextScheduled(r) \/ NotScheduled(r)
    \/ ReloadPage \/ PruneOldDrafts \/ MonthPasses

ComposerSpec == ComposerInit /\ [][ComposerNext]_composerVars

-----------------------------------------------------------------------------
(* The last text typed in a conversation, unless the user emptied the box,  *)
(* sent or scheduled it, is in the store or on its way there, and in the    *)
(* box once the conversation is open, whatever is opened, sent, restored    *)
(* and reloaded; the ways to lose it are these: two conversations opening   *)
(* at once, a box not bound yet, saves that overtake each other or are read *)
(* or reloaded too early, a text put back or scheduled over it, and a stamp *)
(* that no save renews.                                                     *)
TypedIsKept ==
    slips \cap {"crossed", "early", "unread", "late", "lost", "overwritten", "erased", "pruned"}
       = {} =>
    \A c \in Talks : latest[c] # 0 =>
        /\ drafts[c] = latest[c] \/ [chat |-> c, text |-> latest[c]] \in saving
        /\ ready /\ shown = c => written = latest[c]

(* A text is sent or scheduled once, encrypted for and posted to the        *)
(* conversation it was typed in, also when it was restored from a draft or  *)
(* put back; except if two conversations opened at once, another was opened *)
(* while it was on its way, a save came after the deletion of the draft, or *)
(* the user asked again before the answer (sendMessageHandler,              *)
(* showScheduleDialog, openConversation).                                   *)
SentOnceToItsChat ==
    slips \cap {"crossed", "moved", "pending", "again"} = {} =>
    \A i \in DOMAIN posts :
        /\ posts[i].text # 0 /\ posts[i].to = typedIn[posts[i].text]
        /\ posts[i].under = posts[i].to
        /\ \A k \in DOMAIN posts : posts[k].text = posts[i].text => k = i
=============================================================================
