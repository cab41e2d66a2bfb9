--------------------------- MODULE DesktopSession ---------------------------
(***************************************************************************)
(* What the desktop shell (src-tauri/src/main.rs) keeps of its chats: the  *)
(* slots of ChatState that its commands and its detached tasks share, one  *)
(* lock each, and the transcript (history.rs) in memory and on disk.       *)
(*                                                                         *)
(* Commands and tasks run at the same time on the runtime's threads; what  *)
(* happens under one lock, or between two awaits, is one step.  A chat is  *)
(* named for itself: the conversation it is filed under is the session.    *)
(***************************************************************************)
EXTENDS Naturals, Sequences, FiniteSets

CONSTANTS
  Session,      \* chats, each started at most once
  NoSession,
  MaxFiled,     \* messages that come to be filed
  MaxEnds       \* times a chat is left, everything deleted, or the program restarted

ASSUME DesktopAssumption ==
  NoSession \notin Session /\ MaxFiled \in Nat /\ MaxEnds \in Nat

VARIABLES
  kind,      \* "pair", "group" or "hub", once started
  start,     \* how far the command that starts it is
  task,      \* how far its task is
  tracked,   \* tasks, the join handles
  aborted,   \* tasks that end where they next have to wait
  slot,      \* sender, group, hub_tx and file_decisions: whose they are
  active,    \* the active conversation
  reading,   \* a task's persist_msg: the conversation it found active
  sending,   \* the send_message command
  leaving,   \* what clear() has still to clear
  wiping,    \* how far clear_history is
  opened,    \* the history it has opened
  memory,    \* the transcript in memory
  file,      \* what would be read from disk
  counts,    \* messages filed and ends (MaxEnds) so far
  overlapped, caught, late,  \* history: see the properties
  doomed, wiped, raced       \* history: see WipedStaysWiped

chats == <<kind, start, task, tracked, aborted, reading>>
shared == <<slot, active>>
transcript == <<memory, file>>
wipes == <<wiping, opened, doomed, wiped>>
vars == <<chats, shared, sending, leaving, wipes, raced, transcript, counts, overlapped, caught, late>>

Slot == {"pair", "group", "hub", "files"}
Empty == [k \in Slot |-> NoSession]
NoSend == [by |-> NoSession, under |-> NoSession, step |-> "none"]

Init ==
  /\ kind = [s \in Session |-> "none"] /\ start = [s \in Session |-> "idle"]
  /\ task = [s \in Session |-> "none"] /\ reading = [s \in Session |-> NoSession]
  /\ tracked = {} /\ aborted = {}
  /\ slot = Empty /\ active = NoSession
  /\ sending = NoSend /\ leaving = <<>>
  /\ wiping = "no" /\ opened = {}
  /\ memory = {} /\ file = {}
  /\ counts = [filed |-> 0, ends |-> 0]
  /\ overlapped = {} /\ caught = {} /\ late = {}
  /\ doomed = {} /\ wiped = {} /\ raced = FALSE

-----------------------------------------------------------------------------
(* Starting a chat: host, connect, host_group, join_group, connect_hub.    *)

Alive(s) == task[s] \notin {"none", "gone"}
AtWork(s) == Alive(s) \/ start[s] \in {"named", "spawned"} \/ sending.by = s

\* Chats that write to the same slots.
Clash(s, k) == kind[s] # "none" /\ (kind[s] = "hub" <=> k = "hub")

(* set_active comes first, but for a hub, which keeps its own history.     *)
Begin(s, k) ==
  /\ start[s] = "idle"
  /\ start' = [start EXCEPT ![s] = "named"] /\ kind' = [kind EXCEPT ![s] = k]
  /\ active' = IF k = "hub" THEN active ELSE s
  /\ LET others == {t \in Session : AtWork(t) /\ Clash(t, k)}
     IN overlapped' = overlapped \cup others \cup (IF others = {} THEN {} ELSE {s})
  /\ caught' = IF leaving = <<>> THEN caught ELSE caught \cup {s}
  /\ UNCHANGED <<task, tracked, aborted, reading, slot, sending, leaving, wipes, raced,
                 transcript, counts, late>>

(* drive_hub hands over its queue before it dials, and then dials for ever. *)
Spawn(s) ==
  /\ start[s] = "named" /\ start' = [start EXCEPT ![s] = "spawned"]
  /\ task' = [task EXCEPT ![s] = IF kind[s] = "hub" THEN "joined" ELSE "establishing"]
  /\ UNCHANGED <<kind, tracked, aborted, reading, shared, sending, leaving, wipes, raced,
                 transcript, counts, overlapped, caught, late>>

(* track. *)
Track(s) ==
  /\ start[s] = "spawned" /\ start' = [start EXCEPT ![s] = "done"]
  /\ tracked' = tracked \cup {s}
  /\ UNCHANGED <<kind, task, aborted, reading, shared, sending, leaving, wipes, raced,
                 transcript, counts, overlapped, caught, late>>

-----------------------------------------------------------------------------
(* A chat's task: drive, spawn_group_member with drive_group, drive_hub    *)

\* send_message holds the lock of group until it has filed its message.
Unlocked(k) == k = "group" => \A s \in Session : sending.by = s => kind[s] # "group"

(* An aborted task that was running goes on until it has to wait: for its  *)
(* peer, where it ends for sure, or for a lock, where it may (Die).        *)
Waits(stage) == stage \in {"establishing", "receiving"}
Step(s, from, to) ==
  /\ task[s] = from
  /\ task' = [task EXCEPT ![s] = IF s \in aborted /\ Waits(to) THEN "gone" ELSE to]
Store(k, s) == Unlocked(k) /\ slot' = [slot EXCEPT ![k] = s]

Late(s) == late' = IF s \in aborted THEN late \cup {s} ELSE late

Establish(s) ==
  /\ Step(s, "establishing", "joined") \/ Step(s, "establishing", "gone")
  /\ UNCHANGED <<kind, start, tracked, aborted, reading, shared, sending, leaving, wipes,
                 raced, transcript, counts, overlapped, caught, late>>

(* The send handle. *)
Install(s) ==
  /\ Step(s, "joined", IF kind[s] = "pair" THEN "installed" ELSE "receiving")
  /\ Store(kind[s], s) /\ Late(s)
  /\ UNCHANGED <<kind, start, tracked, aborted, reading, active, sending, leaving, wipes,
                 raced, transcript, counts, overlapped, caught>>

(* file_decisions. *)
InstallFiles(s) ==
  /\ Step(s, "installed", "receiving") /\ Store("files", s) /\ Late(s)
  /\ UNCHANGED <<kind, start, tracked, aborted, reading, active, sending, leaving, wipes,
                 raced, transcript, counts, overlapped, caught>>

(* A message comes, and persist_msg reads where it belongs.                *)
Receive(s) ==
  /\ kind[s] # "hub" /\ counts.filed < MaxFiled
  /\ active # NoSession
  /\ Step(s, "receiving", "filing") /\ reading' = [reading EXCEPT ![s] = active]
  /\ UNCHANGED <<kind, start, tracked, aborted, shared, sending, leaving, wipes, raced,
                 transcript, counts, overlapped, caught, late>>

(* History::append, under the lock of history, with persist: the file is   *)
(* emptied and all of it written anew.  An error is dropped, and what is   *)
(* left half-written will be read as an empty transcript.                  *)
Filed(by, under) ==
  /\ counts' = [counts EXCEPT !.filed = @ + 1]
  /\ memory' = memory \cup {[n |-> counts.filed, by |-> by, under |-> under]}
  /\ file' \in {memory', {}}
  /\ raced' = (raced \/ wiping \in {"deleted", "opened"})

File(s) ==
  /\ counts.filed < MaxFiled
  /\ Step(s, "filing", "receiving")
  /\ Filed(s, reading[s]) /\ reading' = [reading EXCEPT ![s] = NoSession]
  /\ UNCHANGED <<kind, start, tracked, aborted, shared, sending, leaving, wipes,
                 overlapped, caught, late>>

(* Mutant of Ended: a pair's send handle stays behind.                     *)
EndedKeepingSender(s) ==
  /\ \/ kind[s] = "pair" /\ Step(s, "receiving", "gone") /\ Store("files", NoSession)
     \/ kind[s] = "group" /\ Step(s, "receiving", "gone") /\ Store("group", NoSession)
  /\ UNCHANGED <<kind, start, tracked, aborted, reading, active, sending, leaving, wipes,
                 raced, transcript, counts, overlapped, caught, late>>

(* The peer is gone: a pair gives back file_decisions and then the handle, *)
(* a group the handle; whoever is in the slot by now.                      *)
Ended(s) ==
  /\ \/ kind[s] = "pair" /\ Step(s, "receiving", "closing") /\ Store("files", NoSession)
     \/ kind[s] = "pair" /\ Step(s, "closing", "gone") /\ Store("pair", NoSession)
     \/ kind[s] = "group" /\ Step(s, "receiving", "gone") /\ Store("group", NoSession)
  /\ UNCHANGED <<kind, start, tracked, aborted, reading, active, sending, leaving, wipes,
                 raced, transcript, counts, overlapped, caught, late>>

Die(s) ==
  /\ s \in aborted /\ Alive(s) /\ task' = [task EXCEPT ![s] = "gone"]
  /\ reading' = [reading EXCEPT ![s] = NoSession]
  /\ UNCHANGED <<kind, start, tracked, aborted, shared, sending, leaving, wipes, raced,
                 transcript, counts, overlapped, caught, late>>

-----------------------------------------------------------------------------
(* send_message: a group comes before a pair; a chat that has ended refuses *)
(* the text.  Then persist_msg, as for a task, but that nothing aborts it. *)

Send(k) ==
  /\ sending.step = "none" /\ counts.filed < MaxFiled
  /\ k = IF slot["group"] # NoSession THEN "group" ELSE "pair"
  /\ slot[k] # NoSession /\ Alive(slot[k])
  /\ sending' = [by |-> slot[k], under |-> NoSession, step |-> "sent"]
  /\ UNCHANGED <<chats, shared, leaving, wipes, raced, transcript, counts,
                 overlapped, caught, late>>

FindActive ==
  /\ sending.step = "sent"
  /\ sending' = IF active = NoSession THEN NoSend
                ELSE [sending EXCEPT !.under = active, !.step = "filing"]
  /\ UNCHANGED <<chats, shared, leaving, wipes, raced, transcript, counts,
                 overlapped, caught, late>>

FileSent ==
  /\ sending.step = "filing" /\ sending' = NoSend
  /\ IF counts.filed < MaxFiled THEN Filed(sending.by, sending.under)
     ELSE UNCHANGED <<transcript, counts, raced>>
  /\ UNCHANGED <<chats, shared, leaving, wipes, overlapped, caught, late>>

-----------------------------------------------------------------------------
(* Leaving: disconnect, and clear_history, which begins with the same.     *)

(* Mutant of Abort: the handles are dropped, which ends no task.           *)
AbortNone == tracked' = {} /\ UNCHANGED <<task, aborted>>

Abort ==
  /\ tracked' = {} /\ aborted' = aborted \cup tracked
  /\ task' = [s \in Session |-> IF s \in tracked /\ Waits(task[s]) THEN "gone" ELSE task[s]]

(* ChatState::clear: every task known is aborted, and then one slot after  *)
(* the other is emptied, as its lock is had.                               *)
Leave ==
  /\ leaving = <<>> /\ wiping = "no" /\ counts.ends < MaxEnds
  /\ counts' = [counts EXCEPT !.ends = @ + 1]
  /\ Abort
  /\ leaving' = <<"pair", "group", "active", "files", "hub">>
  /\ caught' = caught \cup {s \in Session : start[s] \in {"named", "spawned"}}
  /\ \/ UNCHANGED <<wiping, doomed>>
     \/ wiping' = "leaving" /\ doomed' = memory \cup file
  /\ UNCHANGED <<kind, start, reading, shared, sending, opened, wiped, raced,
                 transcript, overlapped, late>>

ClearNext ==
  /\ leaving # <<>> /\ leaving' = Tail(leaving)
  /\ IF Head(leaving) = "active" THEN active' = NoSession /\ UNCHANGED slot
     ELSE Store(Head(leaving), NoSession) /\ UNCHANGED active
  /\ UNCHANGED <<chats, sending, wipes, raced, transcript, counts, overlapped, caught, late>>

-----------------------------------------------------------------------------
(* clear_history, after the teardown.  None of it is under the lock of     *)
(* history but the last assignment; an error ends it where it is.          *)

Wipe(from, to) == leaving = <<>> /\ wiping = from /\ wiping' = to

(* history::delete. *)
Delete ==
  /\ \/ Wipe("leaving", "deleted") /\ file' = {} /\ UNCHANGED doomed
     \/ Wipe("leaving", "no") /\ doomed' = {} /\ UNCHANGED file
  /\ UNCHANGED <<chats, shared, sending, leaving, opened, wiped, raced, memory, counts,
                 overlapped, caught, late>>

(* History::open reads what is there, or writes an empty file. *)
Reopen ==
  /\ \/ Wipe("deleted", "opened") /\ opened' = file /\ UNCHANGED doomed
     \/ Wipe("deleted", "no") /\ doomed' = {} /\ UNCHANGED opened
  /\ UNCHANGED <<chats, shared, sending, leaving, wiped, raced, transcript, counts,
                 overlapped, caught, late>>

Done == wiped' = wiped \cup doomed /\ doomed' = {} /\ opened' = {}

(* Mutant of Replace: the transcript in memory is kept.                    *)
ReplaceNothing ==
  /\ Wipe("opened", "no") /\ Done
  /\ UNCHANGED <<chats, shared, sending, leaving, raced, transcript, counts,
                 overlapped, caught, late>>

Replace ==
  /\ Wipe("opened", "no") /\ Done /\ memory' = opened
  /\ UNCHANGED <<chats, shared, sending, leaving, raced, file, counts,
                 overlapped, caught, late>>

-----------------------------------------------------------------------------
(* The program ends, at any point, and is started again: main's setup.     *)
Relaunch ==
  /\ counts.ends < MaxEnds /\ counts' = [counts EXCEPT !.ends = @ + 1]
  /\ start' = [s \in Session |-> IF start[s] = "idle" THEN "idle" ELSE "done"]
  /\ task' = [s \in Session |-> IF Alive(s) THEN "gone" ELSE task[s]]
  /\ reading' = [s \in Session |-> NoSession] /\ tracked' = {} /\ aborted' = {}
  /\ slot' = Empty /\ active' = NoSession /\ sending' = NoSend /\ leaving' = <<>>
  /\ wiping' = "no" /\ opened' = {} /\ doomed' = {}
  /\ memory' = file
  /\ UNCHANGED <<kind, file, wiped, raced, overlapped, caught, late>>

Chat(s) ==
  \/ \E k \in {"pair", "group", "hub"} : Begin(s, k)
  \/ Spawn(s) \/ Track(s)
  \/ Establish(s) \/ Install(s) \/ InstallFiles(s)
  \/ Receive(s) \/ File(s) \/ Ended(s) \/ Die(s)

Next ==
  \/ \E s \in Session : Chat(s)
  \/ \E k \in {"pair", "group"} : Send(k)
  \/ FindActive \/ FileSent
  \/ Leave \/ ClearNext \/ Delete \/ Reopen \/ Replace \/ Relaunch

Spec == Init /\ [][Next]_vars

-----------------------------------------------------------------------------
(* Properties *)

(* A chat that was neither left nor begun or ended beside another one      *)
(* (overlapped), and that no leaving met while it was begun (caught), can  *)
(* be spoken in and is the active one as long as its task receives; and    *)
(* what is said in it is filed under it, if at all.                        *)
ChatIsWhole ==
  /\ \A s \in Session :
       task[s] \in {"receiving", "filing"} /\ s \notin aborted \cup overlapped \cup caught =>
         /\ slot[kind[s]] = s
         /\ kind[s] = "pair" => slot["files"] = s
         /\ kind[s] # "hub" => active = s
  /\ \A e \in memory : e.under = e.by \/ e.by \in overlapped

(* No slot keeps the handle of a chat that is over - a dead group's would  *)
(* keep every later pair from being spoken in (send_message looks at group *)
(* first) - unless its task stored it after its own abort.                 *)
NoDeadHandle ==
  \A k \in Slot : slot[k] # NoSession /\ task[slot[k]] = "gone" =>
    leaving # <<>> \/ slot[k] \in late

(* main.rs: clear_history deletes "every saved conversation on this        *)
(* device": none comes back, now or at a later launch, from memory or from *)
(* disk - unless a message was filed between its deletion and its last     *)
(* assignment, which writes all of them anew.                              *)
WipedStaysWiped == wiped \cap (memory \cup file) # {} => raced
=============================================================================
