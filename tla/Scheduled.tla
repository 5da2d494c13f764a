----------------------------- MODULE Scheduled ------------------------------
(***************************************************************************)
(* Scheduled chat messages and channel posts, and the maintenance task     *)
(* that sends the due ones (src/backend/src/index.ts, runMaintenanceTasks; *)
(* features.ts; channels.ts).  The task is run by the cron trigger and by  *)
(* the maintenance route, also at once; a statement that throws ends the   *)
(* run.  The table of messages is the caller's.                            *)
(***************************************************************************)
EXTENDS Integers, FiniteSets, Sequences, FiniteSetsExt

CONSTANTS Posts,        \* channel posts, each of them a row
          Messages,     \* scheduled chat messages
          Runs,         \* runs of the task under way at once
          RunLimit,     \* LIMIT of the task's SELECTs, 50 in the code
          MaxThrows     \* bound: runs ended by a statement that throws

ASSUME ScheduledAssumption ==
    /\ RunLimit \in Nat \ {0} /\ MaxThrows \in Nat
    /\ Posts \cap Messages = {}

Items == Posts \cup Messages

VARIABLES
    row,     \* channel_scheduled_posts.status; of scheduled_messages, whether
             \* it is sent or deleted; "due" is pending at its time
    stored,  \* messages: the contents of each item's copies
    runs,    \* the part a run is in, the rows it selected, the one half done
    throws   \* runs that threw so far

rowVars == <<row, stored, runs, throws>>

Resting == [part |-> "none", due |-> {}, half |-> {}]

ScheduledInit ==
    /\ row = [i \in Items |-> "none"]
    /\ stored = [i \in Items |-> <<>>]
    /\ runs = [r \in Runs |-> Resting]
    /\ throws = 0

Fresh(i) == row[i] = "none" /\ stored[i] = <<>>

(* POST /scheduled and POST /schedule *)
Schedule(i) ==
    /\ Fresh(i)
    /\ row' = [row EXCEPT ![i] = "pending"]
    /\ UNCHANGED <<stored, runs, throws>>

(* Mutant: a cancelled row whose time comes is due as well. *)
TimeComesAnyway(i) ==
    /\ row[i] \in {"pending", "cancelled"}
    /\ row' = [row EXCEPT ![i] = "due"]
    /\ UNCHANGED <<stored, runs, throws>>

TimeComes(i) ==
    /\ row[i] = "pending"
    /\ row' = [row EXCEPT ![i] = "due"]
    /\ UNCHANGED <<stored, runs, throws>>

(* DELETE /scheduled/:id deletes a row that is not sent; DELETE of a         *)
(* channel's post overwrites whatever its status is.                        *)
Cancel(i) ==
    /\ row[i] \notin {"none", "cancelled"}
    /\ i \in Messages => row[i] # "sent"
    /\ row' = [row EXCEPT ![i] = "cancelled"]
    /\ UNCHANGED <<stored, runs, throws>>

Selects(i) == row[i] = "due"

SelectDue(r, part, of) ==
    LET due == {i \in of : Selects(i)} IN
    /\ \E some \in kSubset(Min({RunLimit, Cardinality(due)}), due) :
           runs' = [runs EXCEPT ![r] = [part |-> part, due |-> some, half |-> {}]]
    /\ UNCHANGED <<row, stored, throws>>

SelectMessages(r) == runs[r].part = "none" /\ SelectDue(r, "messages", Messages)

SelectPosts(r) ==
    /\ runs[r].part = "messages" /\ runs[r].due = {}
    /\ SelectDue(r, "posts", Posts)

(* Mutant: a row is marked before it is stored. *)
MarksFirst == <<"mark", "insert">>

Statements == <<"insert", "mark">>

(* The statements for one row, whichever is next.  The posts' UPDATE has no  *)
(* guard; the messages' finds no row if the message was cancelled.  The      *)
(* broadcast that follows is best effort, and no client handles its type.    *)
Send(r, i, content) ==
    LET run == runs[r]
        n == IF run.half = {} THEN 1 ELSE 2
        statement == Statements[n]
    IN
    /\ i \in run.due /\ run.half \subseteq {i}
    /\ stored' = IF statement = "insert" THEN [stored EXCEPT ![i] = Append(@, content)] ELSE stored
    /\ row' = IF statement = "mark" /\ (i \in Posts \/ row[i] # "cancelled")
              THEN [row EXCEPT ![i] = "sent"] ELSE row
    /\ runs' = [runs EXCEPT ![r] = IF n = 1 THEN [run EXCEPT !.half = {i}]
                                    ELSE [run EXCEPT !.half = {}, !.due = @ \ {i}]]
    /\ UNCHANGED throws

EndRun(r) ==
    /\ runs[r].part = "posts" /\ runs[r].due = {}
    /\ runs' = [runs EXCEPT ![r] = Resting]
    /\ UNCHANGED <<row, stored, throws>>

Throw(r) ==
    /\ runs[r].part # "none" /\ throws < MaxThrows
    /\ runs' = [runs EXCEPT ![r] = Resting]
    /\ throws' = throws + 1
    /\ UNCHANGED <<row, stored>>

(* runMaintenanceTasks, for rows with these contents *)
RunStep(r, content) ==
    \/ SelectMessages(r)
    \/ SelectPosts(r)
    \/ \E i \in Items : Send(r, i, content[i])
    \/ EndRun(r)

Text == [i \in Items |-> "text"]

ScheduledNext ==
    \/ \E i \in Items : Schedule(i) \/ TimeComes(i) \/ Cancel(i)
    \/ \E r \in Runs : RunStep(r, Text) \/ Throw(r)

(* Time passes and the cron trigger fires. *)
ScheduledFairness ==
    /\ \A i \in Items : WF_rowVars(TimeComes(i))
    /\ \A r \in Runs : WF_rowVars(RunStep(r, Text))

ScheduledSpec == ScheduledInit /\ [][ScheduledNext]_rowVars /\ ScheduledFairness

-----------------------------------------------------------------------------
Held(i) == \E r \in Runs : i \in runs[r].due

Settled(i) == row[i] \in {"sent", "cancelled"} /\ ~Held(i)

(* What is sent or cancelled while no run holds it is settled for good, and  *)
(* not stored again: two runs may store twice what both selected before      *)
(* either marked it, and a cancellation may come too late for a run that     *)
(* selected the row, but no later run doubles a message or brings a          *)
(* cancelled one back (runMaintenanceTasks).                                 *)
SettledIsNotSent ==
    [][\A i \in Items : Settled(i) => Settled(i)' /\ stored'[i] = stored[i]]_rowVars

(* What is scheduled and not cancelled is stored, also after runs that threw *)
(* between the statements.                                                   *)
DueIsStored ==
    \A i \in Items : row[i] = "pending" ~> (stored[i] # <<>> \/ row[i] = "cancelled")
=============================================================================
