--------------------------- MODULE DesktopProofs ---------------------------
(***************************************************************************)
(* For any number of chats, messages and ends of the program: what         *)
(* clear_history deleted is gone, no slot keeps the handle of a chat that  *)
(* is over, and a chat that was begun and left in good order is whole.     *)
(***************************************************************************)
EXTENDS DesktopSession, TLAPS

Stored == memory \cup file \cup opened \cup doomed \cup wiped

\* No message that is filed later is one of those there were.
Numbered ==
  /\ counts \in [filed : Nat, ends : Nat]
  /\ \A e \in Stored : e.n \in Nat /\ e.n < counts.filed

\* How far the wiping has come tells where the doomed are gone from already.
Emptied ==
  /\ wiped \cap (memory \cup file) = {}
  /\ wiping = "deleted" => doomed \cap file = {}
  /\ wiping = "opened" => (doomed \cup wiped) \cap (file \cup opened) = {}

IInv == Numbered /\ (raced \/ Emptied)

rest == <<wipes, raced, transcript, counts>>

-----------------------------------------------------------------------------

\* Nothing has been deleted yet.
LEMMA Begun == Init => IInv
  BY DEF Init, IInv, Numbered, Emptied, Stored

(* Everything else leaves the transcript alone. *)
LEMMA Kept ==
  ASSUME IInv, UNCHANGED rest
  PROVE  IInv'
  BY DEF IInv, Numbered, Emptied, Stored, rest, wipes, transcript

(* A message filed while the wiping is at its file sets raced; any other   *)
(* puts a new one beside what may be there.                                *)
LEMMA FiledOne ==
  ASSUME IInv, NEW by, NEW under, Filed(by, under), UNCHANGED wipes
  PROVE  IInv'
  <1> DEFINE e == [n |-> counts.filed, by |-> by, under |-> under]
  <1>1. /\ memory' = memory \cup {e} /\ file' \subseteq memory \cup {e}
        /\ counts' = [counts EXCEPT !.filed = @ + 1]
        /\ raced' = (raced \/ wiping \in {"deleted", "opened"})
        /\ UNCHANGED <<wiping, opened, doomed, wiped>>
    BY DEF Filed, wipes
  <1>2. counts \in [filed : Nat, ends : Nat] /\ e.n = counts.filed
    BY DEF IInv, Numbered
  <1>3. counts' \in [filed : Nat, ends : Nat] /\ counts'.filed = counts.filed + 1
    BY <1>1, <1>2
  <1>4. Numbered'
    <2>1. ASSUME NEW x \in Stored' PROVE x.n \in Nat /\ x.n < counts'.filed
      <3>1. x \in Stored \/ x = e
        BY <1>1, <2>1 DEF Stored
      <3>2. CASE x \in Stored
        BY <1>2, <1>3, <3>2 DEF IInv, Numbered
      <3>3. CASE x = e
        BY <1>2, <1>3, <3>3
      <3> QED
        BY <3>1, <3>2, <3>3
    <2> QED
      BY <1>3, <2>1 DEF Numbered
  <1>5. CASE raced \/ wiping \in {"deleted", "opened"}
    BY <1>1, <1>4, <1>5 DEF IInv
  <1>6. CASE ~ raced /\ wiping \notin {"deleted", "opened"}
    <2>1. e \notin wiped
      BY <1>2 DEF IInv, Numbered, Stored
    <2>2. wiped \cap memory = {}
      BY <1>6 DEF IInv, Emptied
    <2>3. wiped' \cap (memory' \cup file') = {}
      BY <1>1, <2>1, <2>2
    <2> QED
      BY <1>1, <1>4, <1>6, <2>3 DEF IInv, Emptied
  <1> QED
    BY <1>5, <1>6

(* clear_history dooms what there is, and each of its steps takes it away  *)
(* from one more place.                                                    *)
LEMMA WipedOn ==
  ASSUME IInv, Leave \/ Delete \/ Reopen \/ Replace
  PROVE  IInv'
  <1>1. CASE Leave
    <2>1. /\ UNCHANGED <<memory, file, opened, wiped, raced>>
          /\ wiping' \in {"no", "leaving"} /\ doomed' \subseteq doomed \cup memory \cup file
          /\ counts' = [counts EXCEPT !.ends = @ + 1]
      BY <1>1 DEF Leave, transcript
    <2>2. counts' \in [filed : Nat, ends : Nat] /\ counts'.filed = counts.filed
      BY <2>1 DEF IInv, Numbered
    <2>3. Stored' \subseteq Stored
      BY <2>1 DEF Stored
    <2> QED
      BY <2>1, <2>2, <2>3 DEF IInv, Numbered, Emptied
  <1>2. CASE Delete
    BY <1>2 DEF Delete, Wipe, IInv, Numbered, Emptied, Stored
  <1>3. CASE Reopen
    BY <1>3 DEF Reopen, Wipe, transcript, IInv, Numbered, Emptied, Stored
  <1>4. CASE Replace
    BY <1>4 DEF Replace, Done, Wipe, IInv, Numbered, Emptied, Stored
  <1> QED
    BY <1>1, <1>2, <1>3, <1>4

\* A launch reads what is on disk.
LEMMA Relaunched ==
  ASSUME IInv, Relaunch
  PROVE  IInv'
  <1>1. /\ counts' = [counts EXCEPT !.ends = @ + 1]
        /\ memory' = file /\ opened' = {} /\ doomed' = {} /\ wiping' = "no"
        /\ UNCHANGED <<file, wiped, raced>>
    BY DEF Relaunch
  <1>2. counts' \in [filed : Nat, ends : Nat] /\ counts'.filed = counts.filed
    BY <1>1 DEF IInv, Numbered
  <1> QED
    BY <1>1, <1>2 DEF IInv, Numbered, Emptied, Stored

\* A task files, or leaves the transcript alone.
LEMMA ChatStep ==
  ASSUME IInv, NEW s \in Session, Chat(s)
  PROVE  IInv'
  <1>1. CASE File(s)
    <2>1. Filed(s, reading[s]) /\ UNCHANGED wipes
      BY <1>1 DEF File
    <2> QED
      BY <2>1, FiledOne
  <1>2. CASE Establish(s) \/ Install(s) \/ InstallFiles(s) \/ Receive(s) \/ Ended(s) \/ Die(s)
    <2>1. UNCHANGED rest
      BY <1>2 DEF Establish, Install, InstallFiles, Receive, Ended, Die, rest
    <2> QED
      BY <2>1, Kept
  <1>3. CASE Spawn(s) \/ Track(s) \/ \E k \in {"pair", "group", "hub"} : Begin(s, k)
    <2>1. UNCHANGED rest
      BY <1>3 DEF Begin, Spawn, Track, rest
    <2> QED
      BY <2>1, Kept
  <1> QED
    BY <1>1, <1>2, <1>3 DEF Chat

\* send_message files, or leaves it alone.
LEMMA SendStep ==
  ASSUME IInv, FindActive \/ FileSent \/ ClearNext \/ \E k \in {"pair", "group"} : Send(k)
  PROVE  IInv'
  <1>1. CASE FileSent
    <2>1. UNCHANGED wipes /\ (Filed(sending.by, sending.under) \/ UNCHANGED rest)
      BY <1>1 DEF FileSent, rest
    <2> QED
      BY <2>1, FiledOne, Kept
  <1>2. CASE FindActive \/ ClearNext \/ \E k \in {"pair", "group"} : Send(k)
    <2>1. UNCHANGED rest
      BY <1>2 DEF FindActive, ClearNext, Send, rest
    <2> QED
      BY <2>1, Kept
  <1> QED
    BY <1>1, <1>2

(* Where a deleted chat is, at every step of its deletion. *)
THEOREM Invariance == Spec => []IInv
  <1>1. IInv /\ [Next]_vars => IInv'
    <2> SUFFICES ASSUME IInv, [Next]_vars PROVE IInv'
      OBVIOUS
    <2>1. CASE UNCHANGED vars
      <3>1. UNCHANGED rest
        BY <2>1 DEF vars, rest
      <3> QED
        BY <3>1, Kept
    <2>2. CASE Next
      BY <2>2, ChatStep, SendStep, WipedOn, Relaunched DEF Next
    <2> QED
      BY <2>1, <2>2
  <1> QED
    BY <1>1, Begun, PTL DEF Spec

(* main.rs: what clear_history has deleted does not come back, at this     *)
(* launch or a later one, unless a message was filed in the midst of it.   *)
THEOREM DeletedForGood == Spec => []WipedStaysWiped
  <1>1. IInv => WipedStaysWiped
    BY DEF IInv, Emptied, WipedStaysWiped
  <1> QED
    BY <1>1, Invariance, PTL

-----------------------------------------------------------------------------
(* The slots. *)

Entered == {"installed", "receiving", "filing", "closing"}
Stages == {"none", "establishing", "joined", "gone"} \cup Entered

ChatTypes ==
  /\ kind \in [Session -> {"none", "pair", "group", "hub"}]
  /\ start \in [Session -> {"idle", "named", "spawned", "done"}]
  /\ task \in [Session -> Stages]
  /\ slot \in [Slot -> Session \cup {NoSession}]
  /\ leaving \in Seq(Slot \cup {"active"})
  /\ active \in Session \cup {NoSession} /\ reading \in [Session -> Session \cup {NoSession}]
  /\ sending \in [by : Session \cup {NoSession}, under : Session \cup {NoSession},
                  step : {"none", "sent", "filing"}]

\* A task is started once, by the command that named the chat.
Started ==
  \A s \in Session :
    /\ start[s] = "idle" <=> kind[s] = "none"
    /\ start[s] \in {"idle", "named"} => task[s] = "none"
    /\ task[s] \in {"installed", "closing"} => kind[s] = "pair"

ToClear(k) == \E i \in DOMAIN leaving : leaving[i] = k

\* What is in a slot was stored by the task of a chat of its kind; the task
\* takes it back when it ends by itself, and whoever aborts it otherwise.
Handle(k, s) ==
  /\ kind[s] = k \/ (kind[s] = "pair" /\ k = "files")
  /\ task[s] \in Entered \cup {"gone"}
  /\ task[s] = "closing" => k # "files"
  /\ task[s] = "gone" => s \in aborted
  /\ s \in aborted => s \in late \/ ToClear(k)
Handles == \A k \in Slot, s \in Session : slot[k] = s => Handle(k, s)

SlotInv == ChatTypes /\ Started /\ Handles

-----------------------------------------------------------------------------
(* The chats. *)

Busy(s) == Alive(s) \/ start[s] \in {"named", "spawned"}
Alike(s, t) == kind[s] = "hub" <=> kind[t] = "hub"
Apart(s) == s \notin aborted \cup overlapped \cup caught

\* Two chats that write to the same slots are only at work together overlapped.
InTurn ==
  \A s, t \in Session :
    s # t /\ AtWork(s) /\ AtWork(t) /\ Alike(s, t) => s \in overlapped

\* A leaving meets every chat: its task is known, or it is just being begun.
Met ==
  \A s \in Session :
    /\ Alive(s) /\ start[s] = "done" => s \in tracked \cup aborted
    /\ Busy(s) /\ leaving # <<>> => s \in aborted \cup caught

\* Its slots and the conversation are those of the chat.
OwnOf(s) ==
  /\ AtWork(s) /\ kind[s] # "hub" /\ s \notin overlapped => active \in {s, NoSession}
  /\ Busy(s) /\ kind[s] # "hub" /\ Apart(s) => active = s
  /\ task[s] \in {"installed", "receiving", "filing"} /\ Apart(s) => slot[kind[s]] = s
  /\ task[s] \in {"receiving", "filing"} /\ kind[s] = "pair" /\ Apart(s) => slot["files"] = s
Own == \A s \in Session : OwnOf(s)

\* What is said in it is to be filed under it, and was.
Right(by, under) == under = by \/ by \in overlapped
Filing ==
  /\ \A s \in Session : task[s] = "filing" => Right(s, reading[s])
  /\ sending.step # "none" => sending.by \in Session /\ kind[sending.by] \in {"pair", "group"}
  /\ sending.step = "none" => sending.by = NoSession
  /\ sending.step = "filing" => Right(sending.by, sending.under)
  /\ \A e \in memory \cup file \cup opened : Right(e.by, e.under)

ChatInv == SlotInv /\ InTurn /\ Met /\ Own /\ Filing

-----------------------------------------------------------------------------
(* Types. *)

\* What a step of a task makes of it.
LEMMA StepTypes ==
  ASSUME ChatTypes, NEW s \in Session, NEW from, NEW to \in Stages, Step(s, from, to)
  PROVE  task' \in [Session -> Stages]
  BY DEF ChatTypes, Step, Stages

\* A slot holds a chat or none.
LEMMA StoreTypes ==
  ASSUME ChatTypes, NEW k, NEW s \in Session \cup {NoSession}, Store(k, s)
  PROVE  slot' \in [Slot -> Session \cup {NoSession}]
  BY DEF ChatTypes, Store

\* Every step of a chat keeps the types.
LEMMA TypesChat ==
  ASSUME ChatTypes, NEW s \in Session, Chat(s)
  PROVE  ChatTypes'
  <1>0. {"joined", "establishing", "installed", "receiving", "filing", "closing", "gone"} \subseteq Stages
        /\ {"pair", "group", "hub", "files"} = Slot
    BY DEF Stages, Entered, Slot
  <1>1. CASE \E k \in {"pair", "group", "hub"} : Begin(s, k)
    BY <1>1 DEF Begin, ChatTypes
  <1>2. CASE Spawn(s)
    <2>1. task' \in [Session -> Stages]
      BY <1>0, <1>2 DEF Spawn, ChatTypes
    <2> QED
      BY <1>2, <2>1 DEF Spawn, ChatTypes, shared
  <1>3. CASE Track(s)
    BY <1>3 DEF Track, ChatTypes, shared
  <1>4. CASE Establish(s)
    <2>1. task' \in [Session -> Stages]
      BY <1>0, <1>4, StepTypes DEF Establish
    <2> QED
      BY <1>4, <2>1 DEF Establish, ChatTypes, shared
  <1>5. CASE Install(s)
    <2> DEFINE to == IF kind[s] = "pair" THEN "installed" ELSE "receiving"
    <2>1. to \in Stages /\ Step(s, "joined", to) /\ Store(kind[s], s)
      BY <1>0, <1>5 DEF Install
    <2> HIDE DEF to
    <2>2. task' \in [Session -> Stages] /\ slot' \in [Slot -> Session \cup {NoSession}]
      BY <2>1, StepTypes, StoreTypes
    <2> QED
      BY <1>5, <2>2 DEF Install, ChatTypes
  <1>6. CASE InstallFiles(s)
    <2>1. task' \in [Session -> Stages] /\ slot' \in [Slot -> Session \cup {NoSession}]
      BY <1>0, <1>6, StepTypes, StoreTypes DEF InstallFiles
    <2> QED
      BY <1>6, <2>1 DEF InstallFiles, ChatTypes
  <1>7. CASE Receive(s)
    <2>1. task' \in [Session -> Stages]
      BY <1>0, <1>7, StepTypes DEF Receive
    <2> QED
      BY <1>7, <2>1 DEF Receive, ChatTypes, shared
  <1>8. CASE File(s)
    <2>1. task' \in [Session -> Stages]
      BY <1>0, <1>8, StepTypes DEF File
    <2> QED
      BY <1>8, <2>1 DEF File, ChatTypes, shared
  <1>9. CASE Ended(s)
    <2>1. task' \in [Session -> Stages] /\ slot' \in [Slot -> Session \cup {NoSession}]
      BY <1>0, <1>9, StepTypes, StoreTypes DEF Ended
    <2> QED
      BY <1>9, <2>1 DEF Ended, ChatTypes
  <1>10. CASE Die(s)
    <2>1. task' \in [Session -> Stages]
      BY <1>0, <1>10 DEF Die, ChatTypes
    <2> QED
      BY <1>10, <2>1 DEF Die, ChatTypes, shared
  <1> QED
    BY <1>1, <1>2, <1>3, <1>4, <1>5, <1>6, <1>7, <1>8, <1>9, <1>10 DEF Chat

\* Every step does.
LEMMA TypesStep ==
  ASSUME ChatTypes, [Next]_vars
  PROVE  ChatTypes'
  <1>1. CASE UNCHANGED vars
    BY <1>1 DEF vars, chats, shared, ChatTypes
  <1>2. CASE \E s \in Session : Chat(s)
    BY <1>2, TypesChat
  <1>3. CASE (\E k \in {"pair", "group"} : Send(k)) \/ FindActive \/ FileSent
    <2>1. UNCHANGED <<kind, start, task, reading, slot, active, leaving>>
      BY <1>3 DEF Send, FindActive, FileSent, chats, shared
    <2>2. sending' \in [by : Session \cup {NoSession}, under : Session \cup {NoSession},
                        step : {"none", "sent", "filing"}]
      <3>1. ASSUME NEW k \in {"pair", "group"}, Send(k)
            PROVE  slot[k] \in Session
        <4>1. slot[k] # NoSession
          BY <3>1, Zenon DEF Send
        <4>2. k \in Slot
          BY DEF Slot
        <4> QED
          BY <4>1, <4>2 DEF ChatTypes
      <3>2. CASE \E k \in {"pair", "group"} : Send(k)
        <4>1. PICK k \in {"pair", "group"} : Send(k)
          BY <3>2
        <4>2. sending' = [by |-> slot[k], under |-> NoSession, step |-> "sent"]
          BY <4>1, Zenon DEF Send
        <4> QED
          BY <3>1, <4>1, <4>2
      <3>3. CASE FindActive
        BY <3>3 DEF FindActive, NoSend, ChatTypes
      <3>4. CASE FileSent
        BY <3>4 DEF FileSent, NoSend
      <3> QED
        BY <1>3, <3>2, <3>3, <3>4
    <2> QED
      BY <2>1, <2>2 DEF ChatTypes
  <1>4. CASE Leave
    <2>1. task' \in [Session -> Stages]
      BY <1>4 DEF Leave, Abort, ChatTypes, Stages
    <2>2. <<"pair", "group", "active", "files", "hub">> \in Seq(Slot \cup {"active"})
      BY DEF Slot
    <2> QED
      BY <1>4, <2>1, <2>2 DEF Leave, shared, ChatTypes
  <1>5. CASE ClearNext
    <2>1. leaving' \in Seq(Slot \cup {"active"})
      BY <1>5 DEF ClearNext, ChatTypes
    <2>2. slot' \in [Slot -> Session \cup {NoSession}] /\ active' \in Session \cup {NoSession}
      BY <1>5, StoreTypes DEF ClearNext, ChatTypes
    <2> QED
      BY <1>5, <2>1, <2>2 DEF ClearNext, chats, ChatTypes
  <1>6. CASE Delete \/ Reopen \/ Replace
    BY <1>6 DEF Delete, Reopen, Replace, chats, shared, ChatTypes
  <1>7. CASE Relaunch
    <2>1. task' \in [Session -> Stages] /\ start' \in [Session -> {"idle", "named", "spawned", "done"}]
      BY <1>7 DEF Relaunch, ChatTypes, Stages
    <2>2. sending' \in [by : Session \cup {NoSession}, under : Session \cup {NoSession},
                        step : {"none", "sent", "filing"}]
      BY <1>7 DEF Relaunch, NoSend
    <2> QED
      BY <1>7, <2>1, <2>2 DEF Relaunch, Empty, ChatTypes
  <1> QED
    BY <1>1, <1>2, <1>3, <1>4, <1>5, <1>6, <1>7 DEF Next

-----------------------------------------------------------------------------
(* What is in the slots. *)

\* A task goes on only if its command started it, and once.
LEMMA StartedStep ==
  ASSUME ChatTypes, Started, [Next]_vars
  PROVE  Started'
  <1>1. CASE UNCHANGED vars
    BY <1>1 DEF vars, chats, Started
  <1>2. ASSUME NEW s \in Session, Chat(s) PROVE Started'
    <2>1. CASE \E k \in {"pair", "group", "hub"} : Begin(s, k)
      BY <2>1 DEF Begin, ChatTypes, Started
    <2>2. CASE Spawn(s) \/ Track(s)
      BY <2>2 DEF Spawn, Track, ChatTypes, Started
    <2>3. CASE Establish(s) \/ Install(s) \/ InstallFiles(s) \/ Receive(s) \/ File(s) \/ Ended(s)
      BY <2>3 DEF Establish, Install, InstallFiles, Receive, File, Ended, Step, ChatTypes, Started
    <2>4. CASE Die(s)
      BY <2>4 DEF Die, Alive, ChatTypes, Started
    <2> QED
      BY <1>2, <2>1, <2>2, <2>3, <2>4 DEF Chat
  <1>3. CASE Leave
    BY <1>3 DEF Leave, Abort, Waits, ChatTypes, Started
  <1>4. CASE Relaunch
    BY <1>4 DEF Relaunch, Alive, ChatTypes, Started
  <1>5. CASE \/ \E k \in {"pair", "group"} : Send(k)
             \/ FindActive \/ FileSent \/ ClearNext \/ Delete \/ Reopen \/ Replace
    BY <1>5 DEF Send, FindActive, FileSent, ClearNext, Delete, Reopen, Replace, chats, Started
  <1> QED
    BY <1>1, <1>2, <1>3, <1>4, <1>5 DEF Next

\* A handle that stays where it was, of a task that stays where it was, or
\* that may end as it was aborted.
LEMMA HandleStays ==
  ASSUME NEW k, NEW s, Handle(k, s), kind'[s] = kind[s], aborted' = aborted,
         leaving' = leaving, late \subseteq late',
         \/ task'[s] = task[s]
         \/ task'[s] \in {"receiving", "filing"}
         \/ task'[s] = "gone" /\ s \in aborted
  PROVE  Handle(k, s)'
  BY DEF Handle, ToClear, Entered

\* Each step of a task, and what it puts in a slot or takes from it.
LEMMA HandlesChat ==
  ASSUME SlotInv, NEW t \in Session, Chat(t), NEW k \in Slot, NEW s \in Session, slot'[k] = s
  PROVE  Handle(k, s)'
  <1>0. ChatTypes /\ Started /\ aborted' = aborted /\ leaving' = leaving
    BY DEF SlotInv, Chat, Begin, Spawn, Track, Establish, Install, InstallFiles, Receive, File,
           Ended, Die
  <1>1. CASE slot[k] = s /\ \E j \in {"pair", "group", "hub"} : Begin(t, j)
    <2>1. Handle(k, s) /\ s # t
      BY <1>0, <1>1 DEF Begin, SlotInv, Started, Handles, Handle, Entered
    <2>2. kind'[s] = kind[s] /\ task'[s] = task[s] /\ late' = late
      BY <1>0, <1>1, <2>1 DEF Begin, ChatTypes
    <2> QED
      BY <1>0, <2>1, <2>2, HandleStays
  <1>2. CASE slot[k] = s /\ (Spawn(t) \/ Track(t) \/ Establish(t))
    <2>1. Handle(k, s) /\ (s # t \/ Track(t))
      BY <1>0, <1>2 DEF Spawn, Establish, Step, SlotInv, Started, Handles, Handle, Entered
    <2>2. kind'[s] = kind[s] /\ task'[s] = task[s] /\ late' = late
      BY <1>0, <1>2, <2>1 DEF Spawn, Track, Establish, Step, ChatTypes
    <2> QED
      BY <1>0, <2>1, <2>2, HandleStays
  <1>3. CASE slot[k] = s /\ (Install(t) \/ InstallFiles(t) \/ Receive(t) \/ File(t) \/ Die(t))
    <2>1. Handle(k, s) /\ kind'[s] = kind[s] /\ late \subseteq late'
      BY <1>3 DEF Install, InstallFiles, Receive, File, Die, Late, SlotInv, Handles
    <2>2. \/ task'[s] = task[s] \/ task'[s] \in {"receiving", "filing"}
          \/ task'[s] = "gone" /\ s \in aborted
      <3>1. CASE Install(t)
        BY <1>0, <2>1, <3>1 DEF Install, Step, ChatTypes, Handle, Entered
      <3>2. CASE InstallFiles(t) \/ Receive(t) \/ File(t) \/ Die(t)
        BY <1>0, <3>2 DEF InstallFiles, Receive, File, Die, Step, ChatTypes
      <3> QED
        BY <1>3, <3>1, <3>2
    <2> QED
      BY <1>0, <2>1, <2>2, HandleStays
  <1>4. CASE slot[k] # s /\ (Install(t) \/ InstallFiles(t))
    <2>1. /\ s = t /\ (k = kind[s] \/ (kind[s] = "pair" /\ k = "files")) /\ kind' = kind
      BY <1>0, <1>4 DEF Install, InstallFiles, Step, Store, ChatTypes, Started
    <2>2. s \in aborted => s \in late'
      BY <1>4, <2>1 DEF Install, InstallFiles, Late
    <2>3. task'[s] \in {"installed", "receiving"} \/ (task'[s] = "gone" /\ s \in aborted)
      BY <1>0, <1>4, <2>1 DEF Install, InstallFiles, Step, ChatTypes
    <2> QED
      BY <1>0, <2>1, <2>2, <2>3 DEF Handle, Entered
  <1>5. CASE Ended(t)
    <2>1. slot[k] = s /\ kind' = kind /\ late' = late
      BY <1>0, <1>5, DesktopAssumption DEF Ended, Store, ChatTypes
    <2>2. Handle(k, s)
      BY <2>1 DEF SlotInv, Handles
    <2>3. CASE s # t
      <3>1. task'[s] = task[s]
        BY <1>0, <1>5, <2>3 DEF Ended, Step, ChatTypes
      <3> QED
        BY <1>0, <2>1, <2>2, <3>1, HandleStays
    <2>4. CASE s = t
      <3>1. CASE kind[t] = "pair" /\ Step(t, "receiving", "closing") /\ Store("files", NoSession)
        <4>1. k # "files"
          BY <1>0, <3>1, DesktopAssumption DEF Store, ChatTypes, Slot
        <4>2. task'[s] = "closing"
          BY <1>0, <2>4, <3>1 DEF Step, Waits, ChatTypes
        <4> QED
          BY <1>0, <2>1, <2>2, <4>1, <4>2 DEF Handle, ToClear, Entered
      <3>2. CASE kind[t] = "pair" /\ Step(t, "closing", "gone") /\ Store("pair", NoSession)
        <4>1. k # "pair"
          BY <1>0, <3>2, DesktopAssumption DEF Store, ChatTypes, Slot
        <4>2. k # "files" /\ kind[s] = "pair"
          BY <2>2, <2>4, <3>2 DEF Handle, Step
        <4> QED
          BY <2>2, <4>1, <4>2 DEF Handle
      <3>3. CASE kind[t] = "group" /\ Step(t, "receiving", "gone") /\ Store("group", NoSession)
        <4>1. k # "group"
          BY <1>0, <3>3, DesktopAssumption DEF Store, ChatTypes, Slot
        <4> QED
          BY <2>2, <2>4, <3>3, <4>1 DEF Handle
      <3> QED
        BY <1>5, <3>1, <3>2, <3>3, Zenon DEF Ended
    <2> QED
      BY <2>3, <2>4
  <1>6. CASE slot[k] # s /\ ~(Install(t) \/ InstallFiles(t) \/ Ended(t))
    BY <1>6 DEF Chat, Begin, Spawn, Track, Establish, Receive, File, Die, shared
  <1> QED
    BY <1>1, <1>2, <1>3, <1>4, <1>5, <1>6 DEF Chat

\* Leaving is to clear every slot; what is cleared is not to be cleared.
LEMMA HandlesStep ==
  ASSUME SlotInv, [Next]_vars
  PROVE  Handles'
  <1>0. ChatTypes
    BY DEF SlotInv
  <1> SUFFICES ASSUME NEW k \in Slot, NEW s \in Session, slot'[k] = s
               PROVE  Handle(k, s)'
    BY DEF Handles
  <1>1. CASE \E t \in Session : Chat(t)
    BY <1>1, HandlesChat
  <1>2. CASE \/ UNCHANGED vars \/ \E j \in {"pair", "group"} : Send(j)
             \/ FindActive \/ FileSent \/ Delete \/ Reopen \/ Replace
    <2>1. UNCHANGED <<kind, task, aborted, late, leaving, slot>>
      BY <1>2 DEF vars, chats, shared, Send, FindActive, FileSent, Delete, Reopen, Replace
    <2> QED
      BY <2>1, HandleStays DEF SlotInv, Handles
  <1>3. CASE Leave
    <2>1. UNCHANGED <<kind, slot, late>> /\ leaving' = <<"pair", "group", "active", "files", "hub">>
      BY <1>3 DEF Leave, shared
    <2>2. ToClear(k)'
      <3>1. /\ leaving'[1] = "pair" /\ leaving'[2] = "group" /\ leaving'[4] = "files"
            /\ leaving'[5] = "hub" /\ {1, 2, 4, 5} \subseteq DOMAIN leaving'
        BY <2>1
      <3> QED
        BY <3>1 DEF ToClear, Slot
    <2>3. aborted \subseteq aborted' /\ (task'[s] = task[s] \/ (task'[s] = "gone" /\ s \in aborted'))
      BY <1>0, <1>3 DEF Leave, Abort, ChatTypes
    <2>4. Handle(k, s)
      BY <2>1 DEF SlotInv, Handles
    <2> QED
      BY <2>1, <2>2, <2>3, <2>4 DEF Handle
  <1>4. CASE ClearNext
    <2>1. UNCHANGED <<kind, task, aborted, late>> /\ leaving # <<>> /\ leaving' = Tail(leaving)
      BY <1>4 DEF ClearNext, chats
    <2>2. slot[k] = s /\ k # leaving[1]
      <3>1. CASE leaving[1] = "active"
        BY <1>4, <3>1 DEF ClearNext, Slot
      <3>2. CASE Store(leaving[1], NoSession)
        BY <1>0, <3>2, DesktopAssumption DEF Store, ChatTypes
      <3> QED
        BY <1>0, <1>4, <2>1, <3>1, <3>2 DEF ClearNext, ChatTypes
    <2>3. ToClear(k) => ToClear(k)'
      <3> SUFFICES ASSUME NEW i \in DOMAIN leaving, leaving[i] = k
                   PROVE  ToClear(k)'
        BY DEF ToClear
      <3>1. i \in Nat /\ i > 1 /\ i <= Len(leaving)
        BY <1>0, <2>2 DEF ChatTypes
      <3>2. i - 1 \in DOMAIN Tail(leaving) /\ Tail(leaving)[i - 1] = leaving[i]
        BY <1>0, <2>1, <3>1 DEF ChatTypes
      <3> QED
        BY <2>1, <3>2 DEF ToClear
    <2>4. Handle(k, s)
      BY <2>2 DEF SlotInv, Handles
    <2> QED
      BY <2>1, <2>3, <2>4 DEF Handle
  <1>5. CASE Relaunch
    BY <1>5, DesktopAssumption DEF Relaunch, Empty
  <1> QED
    BY <1>1, <1>2, <1>3, <1>4, <1>5 DEF Next

\* Before anything is begun every slot is empty.
LEMMA SlotBegun == Init => SlotInv
  <1> SUFFICES ASSUME Init PROVE SlotInv
    OBVIOUS
  <1>1. ChatTypes
    BY DEF Init, Empty, NoSend, ChatTypes, Stages
  <1> QED
    BY <1>1, DesktopAssumption DEF Init, Empty, SlotInv, Started, Handles

(* Which chat each slot is of, in every behaviour. *)
THEOREM SlotInvariance == Spec => []SlotInv
  <1>1. Init => SlotInv
    BY SlotBegun
  <1>2. SlotInv /\ [Next]_vars => SlotInv'
    BY TypesStep, StartedStep, HandlesStep DEF SlotInv
  <1> QED
    BY <1>1, <1>2, PTL DEF Spec

(* No slot keeps the handle of a chat that is over once the leaving is     *)
(* done, whichever tasks, commands and restarts came together - unless its *)
(* task stored it after its own abort.                                     *)
THEOREM HandlesLive == Spec => []NoDeadHandle
  <1>1. ASSUME SlotInv PROVE NoDeadHandle
    <2> SUFFICES ASSUME NEW k \in Slot, slot[k] # NoSession, task[slot[k]] = "gone", leaving = <<>>
                 PROVE  slot[k] \in late
      BY DEF NoDeadHandle
    <2>1. slot[k] \in Session /\ Handle(k, slot[k])
      BY <1>1 DEF SlotInv, ChatTypes, Handles
    <2>2. ~ToClear(k)
      BY DEF ToClear
    <2> QED
      BY <2>1, <2>2 DEF Handle
  <1> QED
    BY <1>1, SlotInvariance, PTL

-----------------------------------------------------------------------------
(* Who is at work. *)

\* Who is at work has been begun.
LEMMA WorkKind ==
  ASSUME SlotInv, Filing, NEW s \in Session, AtWork(s)
  PROVE  kind[s] # "none" /\ start[s] # "idle"
  <1>1. CASE Alive(s) \/ start[s] \in {"named", "spawned"}
    BY <1>1 DEF SlotInv, Started, Alive
  <1>2. CASE sending.by = s
    <2>1. sending.step # "none"
      BY <1>2, DesktopAssumption DEF Filing
    <2>2. kind[s] # "none"
      BY <1>2, <2>1 DEF Filing
    <2> QED
      BY <2>2 DEF SlotInv, Started
  <1> QED
    BY <1>1, <1>2 DEF AtWork

Begins(s) == \E k \in {"pair", "group", "hub"} : Begin(s, k)

\* Only a command puts a chat to work.
LEMMA WorkStep ==
  ASSUME SlotInv, [Next]_vars, NEW s \in Session, ~Begins(s)
  PROVE  /\ AtWork(s)' => AtWork(s)
         /\ Busy(s)' => Busy(s)
         /\ kind'[s] = kind[s]
  <1>0. ChatTypes /\ Started
    BY DEF SlotInv
  <1>1. ASSUME NEW t \in Session, Chat(t)
        PROVE  /\ kind'[s] = kind[s] /\ sending' = sending
               /\ Busy(s)' => Busy(s)
    <2>1. CASE Begins(t)
      <3>1. s # t
        BY <2>1
      <3>2. kind'[s] = kind[s] /\ sending' = sending /\ task' = task /\ start'[s] = start[s]
        BY <1>0, <2>1, <3>1 DEF Begins, Begin, ChatTypes
      <3> QED
        BY <3>2 DEF Busy, Alive
    <2>2. CASE Spawn(t) \/ Track(t)
      BY <1>0, <2>2 DEF Spawn, Track, Busy, Alive, ChatTypes
    <2>3. CASE Establish(t) \/ Install(t) \/ InstallFiles(t) \/ Receive(t) \/ File(t) \/ Ended(t)
      <3>1. kind' = kind /\ sending' = sending /\ start' = start
        BY <2>3 DEF Establish, Install, InstallFiles, Receive, File, Ended
      <3>2. Alive(t) /\ (s # t => task'[s] = task[s])
        BY <1>0, <2>3 DEF Establish, Install, InstallFiles, Receive, File, Ended, Step, Alive,
             ChatTypes
      <3> QED
        BY <3>1, <3>2 DEF Busy, Alive
    <2>4. CASE Die(t)
      BY <1>0, <2>4 DEF Die, Busy, Alive, ChatTypes
    <2> QED
      BY <1>1, <2>1, <2>2, <2>3, <2>4 DEF Chat, Begins
  <1>2. CASE \E t \in Session : Chat(t)
    BY <1>1, <1>2 DEF AtWork, Busy
  <1>3. CASE \E k \in {"pair", "group"} : Send(k)
    <2>1. PICK k \in {"pair", "group"} : Send(k)
      BY <1>3
    <2>2. Alive(slot[k]) /\ sending'.by = slot[k] /\ UNCHANGED chats
      BY <2>1, Zenon DEF Send
    <2> QED
      BY <2>2 DEF chats, AtWork, Busy, Alive
  <1>4. CASE FindActive \/ FileSent
    <2>1. sending'.by \in {sending.by, NoSession} /\ UNCHANGED chats
      <3>1. CASE FindActive
        BY <1>0, <3>1 DEF FindActive, NoSend, ChatTypes
      <3>2. CASE FileSent
        BY <3>2 DEF FileSent, NoSend
      <3> QED
        BY <1>4, <3>1, <3>2
    <2>2. sending'.by = s => sending.by = s
      BY <2>1, DesktopAssumption
    <2>3. kind' = kind /\ start' = start /\ task' = task
      BY <2>1 DEF chats
    <2> QED
      BY <2>2, <2>3 DEF AtWork, Busy, Alive
  <1>5. CASE Leave
    BY <1>0, <1>5 DEF Leave, Abort, Waits, AtWork, Busy, Alive, ChatTypes
  <1>6. CASE UNCHANGED vars \/ ClearNext \/ Delete \/ Reopen \/ Replace
    BY <1>6 DEF vars, ClearNext, Delete, Reopen, Replace, chats, AtWork, Busy, Alive
  <1>7. CASE Relaunch
    BY <1>0, <1>7, DesktopAssumption DEF Relaunch, NoSend, AtWork, Busy, Alive, ChatTypes
  <1> QED
    BY <1>2, <1>3, <1>4, <1>5, <1>6, <1>7 DEF Next

\* What becomes of the chats that were at work when another is begun.
LEMMA BeginSees ==
  ASSUME SlotInv, Filing, NEW t \in Session, NEW k \in {"pair", "group", "hub"}, Begin(t, k),
         NEW s \in Session, s # t, AtWork(s), kind[s] = "hub" <=> k = "hub"
  PROVE  s \in overlapped' /\ t \in overlapped'
  <1>1. s \in {u \in Session : AtWork(u) /\ Clash(u, k)}
    BY WorkKind DEF Clash
  <1> QED
    BY <1>1, Zenon DEF Begin

\* Overlaps are never forgotten, and catching neither.
LEMMA HistoryGrows ==
  ASSUME [Next]_vars
  PROVE  overlapped \subseteq overlapped' /\ caught \subseteq caught'
  BY DEF Next, vars, Chat, Begin, Spawn, Track, Establish, Install, InstallFiles, Receive, File,
       Ended, Die, Send, FindActive, FileSent, Leave, ClearNext, Delete, Reopen, Replace, Relaunch

\* Whoever begins a chat beside one at work has both overlap.
LEMMA InTurnStep ==
  ASSUME SlotInv, Filing, InTurn, [Next]_vars
  PROVE  InTurn'
  <1> SUFFICES ASSUME NEW s \in Session, NEW t \in Session, s # t, AtWork(s)', AtWork(t)',
                      Alike(s, t)'
               PROVE  s \in overlapped'
    BY DEF InTurn
  <1>1. ASSUME NEW u \in Session, NEW v \in Session, u # v, Begins(u), AtWork(v)', Alike(u, v)'
        PROVE  v \in overlapped' /\ u \in overlapped'
    <2>1. PICK k \in {"pair", "group", "hub"} : Begin(u, k)
      BY <1>1 DEF Begins
    <2>2. kind'[u] = k /\ kind'[v] = kind[v] /\ AtWork(v)
      BY <1>1, <2>1 DEF Begin, AtWork, Alive, SlotInv, ChatTypes
    <2> QED
      BY <1>1, <2>1, <2>2, BeginSees DEF Alike
  <1>2. CASE Begins(s)
    BY <1>1, <1>2
  <1>3. CASE Begins(t)
    BY <1>1, <1>3 DEF Alike
  <1>4. CASE ~Begins(s) /\ ~Begins(t)
    BY <1>4, WorkStep, HistoryGrows DEF InTurn, Alike
  <1> QED
    BY <1>2, <1>3, <1>4

-----------------------------------------------------------------------------
(* Whom a leaving meets. *)

\* Every task at work whose command has returned is known to the leaving.
LEMMA TrackedStep ==
  ASSUME SlotInv, Met, [Next]_vars, NEW s \in Session, Alive(s)', start'[s] = "done"
  PROVE  s \in tracked' \cup aborted'
  <1>0. ChatTypes /\ Started
    BY DEF SlotInv
  <1>1. ASSUME start[s] = "done", Alive(s), tracked \cup aborted \subseteq tracked' \cup aborted'
        PROVE  s \in tracked' \cup aborted'
    BY <1>1 DEF Met
  <1>2. ASSUME NEW t \in Session, Chat(t)
        PROVE  s \in tracked' \cup aborted'
    <2>1. CASE Begins(t)
      BY <1>0, <1>1, <2>1 DEF Begins, Begin, ChatTypes, Alive
    <2>2. CASE Spawn(t)
      BY <1>0, <1>1, <2>2 DEF Spawn, ChatTypes, Alive
    <2>3. CASE Track(t)
      BY <1>0, <1>1, <2>3 DEF Track, ChatTypes, Alive
    <2>4. CASE Establish(t) \/ Install(t) \/ InstallFiles(t) \/ Receive(t) \/ File(t) \/ Ended(t)
      BY <1>0, <1>1, <2>4 DEF Establish, Install, InstallFiles, Receive, File, Ended, Step, Alive,
           ChatTypes
    <2>5. CASE Die(t)
      BY <1>0, <1>1, <2>5 DEF Die, Alive, ChatTypes
    <2> QED
      BY <1>2, <2>1, <2>2, <2>3, <2>4, <2>5 DEF Chat, Begins
  <1>3. CASE Leave
    BY <1>0, <1>1, <1>3 DEF Leave, Abort, Alive, Waits, ChatTypes
  <1>4. CASE Relaunch
    BY <1>0, <1>4 DEF Relaunch, Alive, ChatTypes
  <1>5. CASE \/ UNCHANGED vars \/ \E k \in {"pair", "group"} : Send(k)
             \/ FindActive \/ FileSent \/ ClearNext \/ Delete \/ Reopen \/ Replace
    <2>1. UNCHANGED <<start, task, tracked, aborted>>
      BY <1>5 DEF vars, chats, Send, FindActive, FileSent, ClearNext, Delete, Reopen, Replace
    <2> QED
      BY <1>1, <2>1 DEF Alive
  <1> QED
    BY <1>2, <1>3, <1>4, <1>5 DEF Next

\* A leaving meets who is at work, and who begins during one is caught by it.
LEMMA MetStep ==
  ASSUME SlotInv, Met, [Next]_vars
  PROVE  Met'
  <1>0. ChatTypes /\ Started
    BY DEF SlotInv
  <1> SUFFICES ASSUME NEW s \in Session, Busy(s)', leaving' # <<>>
               PROVE  s \in aborted' \cup caught'
    BY TrackedStep DEF Met
  <1>1. CASE Begins(s)
    <2>1. leaving' = leaving
      BY <1>1 DEF Begins, Begin
    <2> QED
      BY <1>1, <2>1 DEF Begins, Begin
  <1>2. CASE Leave
    <2>1. CASE start[s] \in {"named", "spawned"}
      BY <1>2, <2>1 DEF Leave
    <2>2. CASE start[s] \notin {"named", "spawned"}
      <3>1. start' = start /\ Alive(s)'
        BY <1>2, <2>2 DEF Leave, Busy
      <3>2. start[s] = "done"
        BY <1>0, <1>2, <2>2, <3>1 DEF Leave, Abort, Alive, ChatTypes, Started
      <3>3. s \in tracked' \cup aborted' /\ tracked' = {}
        BY <1>2, <3>1, <3>2, TrackedStep DEF Leave, Abort
      <3> QED
        BY <3>3
    <2> QED
      BY <2>1, <2>2
  <1>3. CASE Relaunch
    BY <1>3 DEF Relaunch
  <1>4. CASE ~Begins(s) /\ ~Leave /\ ~Relaunch
    <2>1. Busy(s)
      BY <1>4, WorkStep
    <2>2. aborted' = aborted /\ (leaving' = leaving \/ leaving # <<>>)
      BY <1>4 DEF Next, vars, chats, Chat, Begin, Spawn, Track, Establish, Install, InstallFiles,
           Receive, File, Ended, Die, Send, FindActive, FileSent, ClearNext, Delete, Reopen, Replace
    <2> QED
      BY <2>1, <2>2, HistoryGrows DEF Met
  <1> QED
    BY <1>1, <1>2, <1>3, <1>4

-----------------------------------------------------------------------------
(* Whose the slots and the conversation are. *)

\* What a step has to leave to a chat that another one takes.
LEMMA OwnKept ==
  ASSUME ChatInv, [Next]_vars, NEW s \in Session, ~Begins(s),
         aborted \subseteq aborted',
         AtWork(s) /\ kind[s] # "hub" /\ s \notin overlapped' => active' = active,
         task'[s] \in {"installed", "receiving", "filing"} =>
           task[s] \in {"installed", "receiving", "filing"},
         task'[s] \in {"receiving", "filing"} /\ kind[s] = "pair" => task[s] \in {"receiving", "filing"},
         Alive(s) /\ s \notin overlapped =>
           /\ slot'[kind[s]] = slot[kind[s]]
           /\ kind[s] = "pair" => slot'["files"] = slot["files"]
  PROVE  OwnOf(s)'
  <1>1. /\ AtWork(s)' => AtWork(s)
        /\ Busy(s)' => Busy(s)
        /\ kind'[s] = kind[s]
    BY WorkStep DEF ChatInv
  <1>2. Apart(s)' => Apart(s) /\ s \notin overlapped /\ s \notin overlapped'
    BY HistoryGrows DEF Apart
  <1>3. s \notin overlapped' => s \notin overlapped
    BY HistoryGrows
  <1>4. OwnOf(s)
    BY DEF ChatInv, Own
  <1>5. Busy(s) => AtWork(s)
    BY DEF Busy, AtWork
  <1>6. task[s] \in {"installed", "receiving", "filing"} => Alive(s)
    BY DEF Alive
  <1> QED
    BY <1>1, <1>2, <1>3, <1>4, <1>5, <1>6 DEF OwnOf

\* The slots of a chat beside which no other is at work are its own affair.
LEMMA OthersSlots ==
  ASSUME ChatInv, NEW s \in Session, NEW t \in Session, s # t, Alive(s), Alive(t),
         s \notin overlapped, NEW k, k = kind[t] \/ (k = "files" /\ kind[t] = "pair")
  PROVE  k # kind[s] /\ (kind[s] = "pair" => k # "files")
  <1>1. ~Alike(s, t)
    BY DEF ChatInv, InTurn, AtWork
  <1>2. kind[s] \in {"none", "pair", "group", "hub"}
    BY DEF ChatInv, SlotInv, ChatTypes
  <1> QED
    BY <1>1, <1>2 DEF Alike

\* A chat that begins takes the conversation over, and overlaps if it was in use.
LEMMA OwnBegin ==
  ASSUME ChatInv, [Next]_vars, NEW t \in Session, Begins(t), NEW s \in Session
  PROVE  OwnOf(s)'
  <1>0. ChatTypes /\ Started
    BY DEF ChatInv, SlotInv
  <1>1. PICK k \in {"pair", "group", "hub"} : Begin(t, k)
    BY DEF Begins
  <1>2. /\ task' = task /\ slot' = slot /\ aborted' = aborted
        /\ active' = (IF k = "hub" THEN active ELSE t)
    BY <1>1 DEF Begin
  <1>3. CASE s = t
    <2>1. task'[s] = "none" /\ kind'[s] = k
      BY <1>0, <1>1, <1>2, <1>3 DEF Begin, ChatTypes, Started
    <2> QED
      BY <1>2, <1>3, <2>1 DEF OwnOf
  <1>4. CASE s # t
    <2>1. ~Begins(s)
      <3>1. start'[s] = start[s]
        BY <1>0, <1>1, <1>4 DEF Begin, ChatTypes
      <3> QED
        BY <1>0, <3>1 DEF Begins, Begin, ChatTypes
    <2>2. AtWork(s) /\ kind[s] # "hub" /\ s \notin overlapped' => k = "hub"
      BY <1>1, <1>4, BeginSees DEF ChatInv
    <2> QED
      BY <1>2, <2>1, <2>2, OwnKept
  <1> QED
    BY <1>3, <1>4

\* A task stores in slots that are its own.
LEMMA OwnChat ==
  ASSUME ChatInv, [Next]_vars, NEW t \in Session, Chat(t), ~Begins(t), NEW s \in Session
  PROVE  OwnOf(s)'
  <1>0. ChatTypes /\ Started /\ OwnOf(s)
    BY DEF ChatInv, SlotInv, Own
  <1>1. ~Begins(s) /\ aborted' = aborted /\ active' = active
        /\ UNCHANGED <<kind, overlapped, caught>>
    <2>1. aborted' = aborted /\ active' = active /\ UNCHANGED <<kind, overlapped, caught>>
      BY DEF Begins, Chat, Spawn, Track, Establish, Install, InstallFiles, Receive, File, Ended,
           Die, shared
    <2>2. ~Begins(s)
      BY <1>0, <2>1 DEF Begins, Begin, ChatTypes, Started
    <2> QED
      BY <2>1, <2>2
  <1>2. CASE Spawn(t) \/ Track(t) \/ Establish(t) \/ Receive(t) \/ File(t) \/ Die(t)
    <2>1. slot' = slot
      BY <1>2 DEF Spawn, Track, Establish, Receive, File, Die, shared
    <2>2. \/ task'[s] = task[s] \/ task'[s] \notin {"installed", "receiving", "filing"}
          \/ (task[s] \in {"receiving", "filing"} /\ task'[s] \in {"receiving", "filing"})
      BY <1>0, <1>2 DEF Spawn, Track, Establish, Receive, File, Die, Step, ChatTypes
    <2> QED
      BY <1>1, <2>1, <2>2, OwnKept
  <1>3. CASE Install(t)
    <2>1. task[t] = "joined" /\ Store(kind[t], t)
      BY <1>3 DEF Install, Step
    <2>2. CASE s # t
      <3>1. task'[s] = task[s]
        BY <1>0, <1>3, <2>2 DEF Install, Step, ChatTypes
      <3>2. Alive(s) /\ s \notin overlapped => kind[t] # kind[s] /\ (kind[s] = "pair" => kind[t] # "files")
        BY <2>1, <2>2, OthersSlots DEF Alive
      <3>3. Alive(s) /\ s \notin overlapped =>
              /\ slot'[kind[s]] = slot[kind[s]]
              /\ kind[s] = "pair" => slot'["files"] = slot["files"]
        <4>1. kind[s] # "none" => kind[s] \in Slot
          BY <1>0 DEF ChatTypes, Slot
        <4>2. Alive(s) => kind[s] # "none"
          BY <1>0 DEF Alive, Started
        <4> QED
          BY <1>0, <2>1, <3>2, <4>1, <4>2 DEF Store, ChatTypes, Slot
      <3> QED
        BY <1>1, <3>1, <3>3, OwnKept
    <2>3. CASE s = t
      <3>1. slot'[kind[s]] = s
        <4>1. kind[s] \in Slot
          BY <1>0, <2>1, <2>3 DEF ChatTypes, Started, Slot
        <4> QED
          BY <1>0, <2>1, <2>3, <4>1 DEF Store, ChatTypes
      <3>2. task'[s] \in {"installed", "receiving", "gone"} /\ (kind[s] = "pair" => task'[s] = "installed")
        BY <1>0, <1>3, <2>3 DEF Install, Step, Waits, ChatTypes
      <3>3. Busy(s) /\ (AtWork(s)' => AtWork(s))
        BY <1>1, <2>1, <2>3, WorkStep DEF Busy, Alive, ChatInv
      <3> QED
        BY <1>0, <1>1, <3>1, <3>2, <3>3 DEF OwnOf, Apart
    <2> QED
      BY <2>2, <2>3
  <1>4. CASE InstallFiles(t)
    <2>1. task[t] = "installed" /\ Store("files", t) /\ kind[t] = "pair"
      BY <1>0, <1>4 DEF InstallFiles, Step, Started
    <2>2. slot'["files"] = t /\ \A k \in Slot \ {"files"} : slot'[k] = slot[k]
      BY <1>0, <2>1 DEF Store, ChatTypes, Slot
    <2>3. kind[s] # "none" => slot'[kind[s]] = slot[kind[s]]
      BY <1>0, <2>2 DEF ChatTypes, Slot
    <2>4. Alive(s) => kind[s] # "none"
      BY <1>0 DEF Alive, Started
    <2>5. CASE s # t
      <3>1. task'[s] = task[s]
        BY <1>0, <1>4, <2>5 DEF InstallFiles, Step, ChatTypes
      <3>2. Alive(s) /\ s \notin overlapped => kind[s] # "pair"
        BY <2>1, <2>5, OthersSlots DEF Alive
      <3> QED
        BY <1>1, <2>3, <2>4, <3>1, <3>2, OwnKept
    <2>6. CASE s = t
      <3>1. Busy(s) /\ (AtWork(s)' => AtWork(s))
        BY <1>1, <2>1, <2>6, WorkStep DEF Busy, Alive, ChatInv
      <3> QED
        BY <1>0, <1>1, <2>1, <2>2, <2>3, <2>6, <3>1 DEF OwnOf, Apart
    <2> QED
      BY <2>5, <2>6
  <1>5. CASE Ended(t)
    <2>1. /\ task[t] \in {"receiving", "closing"}
          /\ \E k \in Slot : /\ Store(k, NoSession)
                             /\ k = kind[t] \/ (k = "files" /\ kind[t] = "pair")
      BY <1>5 DEF Ended, Step, Slot
    <2>2. CASE s # t
      <3>1. task'[s] = task[s]
        BY <1>0, <1>5, <2>2 DEF Ended, Step, ChatTypes
      <3>2. PICK k \in Slot : /\ Store(k, NoSession)
                              /\ k = kind[t] \/ (k = "files" /\ kind[t] = "pair")
        BY <2>1
      <3>3. Alive(s) /\ s \notin overlapped => k # kind[s] /\ (kind[s] = "pair" => k # "files")
        BY <2>1, <2>2, <3>2, OthersSlots DEF Alive
      <3>4. Alive(s) /\ s \notin overlapped =>
              /\ slot'[kind[s]] = slot[kind[s]]
              /\ kind[s] = "pair" => slot'["files"] = slot["files"]
        <4>1. kind[s] # "none" => kind[s] \in Slot
          BY <1>0 DEF ChatTypes, Slot
        <4>2. Alive(s) => kind[s] # "none"
          BY <1>0 DEF Alive, Started
        <4> QED
          BY <1>0, <3>2, <3>3, <4>1, <4>2 DEF Store, ChatTypes, Slot
      <3> QED
        BY <1>1, <3>1, <3>4, OwnKept
    <2>3. CASE s = t
      <3>1. task'[s] \in {"closing", "gone"}
        BY <1>0, <1>5, <2>3 DEF Ended, Step, Waits, ChatTypes
      <3>2. Busy(s) /\ (AtWork(s)' => AtWork(s))
        BY <1>1, <2>1, <2>3, WorkStep DEF Busy, Alive, ChatInv
      <3> QED
        BY <1>0, <1>1, <3>1, <3>2 DEF OwnOf, Apart
    <2> QED
      BY <2>2, <2>3
  <1> QED
    BY <1>2, <1>3, <1>4, <1>5 DEF Chat, Begins

\* Every step leaves its own to a chat that is apart.
LEMMA OwnStep ==
  ASSUME ChatInv, [Next]_vars
  PROVE  Own'
  <1>0. ChatTypes /\ Started
    BY DEF ChatInv, SlotInv
  <1> SUFFICES ASSUME NEW s \in Session PROVE OwnOf(s)'
    BY DEF Own
  <1>1. CASE Begins(s)
    BY <1>1, OwnBegin
  <1>2. CASE ~Begins(s)
    <2>1. CASE \E t \in Session : Chat(t)
      BY <2>1, OwnBegin, OwnChat
    <2>2. CASE Leave
      <3>1. /\ aborted \subseteq aborted' /\ active' = active /\ slot' = slot
            /\ task'[s] \in {task[s], "gone"}
        BY <1>0, <2>2 DEF Leave, Abort, shared, ChatTypes
      <3> QED
        BY <1>2, <3>1, OwnKept
    <2>3. CASE ClearNext
      <3>1. UNCHANGED chats /\ UNCHANGED <<overlapped, caught>> /\ leaving # <<>>
            /\ active' \in {active, NoSession}
        BY <2>3 DEF ClearNext
      <3>2. Busy(s) => ~Apart(s)
        BY <3>1 DEF ChatInv, Met, Apart
      <3>3. /\ AtWork(s)' => AtWork(s)
            /\ Busy(s)' => Busy(s)
            /\ kind' = kind /\ task' = task /\ Apart(s)' = Apart(s)
        BY <1>2, <3>1, WorkStep DEF ChatInv, chats, Apart
      <3>4. OwnOf(s)
        BY DEF ChatInv, Own
      <3>5. task[s] \in {"installed", "receiving", "filing"} => Busy(s)
        BY DEF Busy, Alive
      <3> QED
        BY <3>1, <3>2, <3>3, <3>4, <3>5 DEF OwnOf
    <2>4. CASE Relaunch
      <3>1. ~AtWork(s)' /\ ~Busy(s)' /\ task'[s] \in {"none", "gone"}
        BY <1>0, <2>4, DesktopAssumption DEF Relaunch, NoSend, AtWork, Busy, Alive, ChatTypes
      <3> QED
        BY <3>1 DEF OwnOf
    <2>5. CASE \/ UNCHANGED vars \/ \E k \in {"pair", "group"} : Send(k)
               \/ FindActive \/ FileSent \/ Delete \/ Reopen \/ Replace
      <3>1. UNCHANGED <<task, aborted, active, slot>>
        BY <2>5 DEF vars, chats, shared, Send, FindActive, FileSent, Delete, Reopen, Replace
      <3> QED
        BY <1>2, <3>1, OwnKept
    <2> QED
      BY <2>1, <2>2, <2>3, <2>4, <2>5 DEF Next
  <1> QED
    BY <1>1, <1>2

-----------------------------------------------------------------------------
(* Where what is said is filed. *)

\* What is right stays right.
LEMMA RightStays ==
  ASSUME [Next]_vars, NEW by, NEW under, Right(by, under)
  PROVE  Right(by, under)'
  BY HistoryGrows DEF Right

\* A message that comes is for the chat that receives it.
LEMMA ReadingStep ==
  ASSUME ChatInv, [Next]_vars, NEW s \in Session, task'[s] = "filing"
  PROVE  Right(s, reading[s])'
  <1>0. ChatTypes /\ OwnOf(s)
    BY DEF ChatInv, SlotInv, Own
  <1>1. ASSUME task[s] = "filing", reading'[s] = reading[s]
        PROVE  Right(s, reading[s])'
    BY <1>1, HistoryGrows DEF ChatInv, Filing, Right
  <1>2. ASSUME NEW t \in Session, Receive(t)
        PROVE  Right(s, reading[s])'
    <2>1. CASE s = t
      <3>1. AtWork(s) /\ kind[s] # "hub" /\ active # NoSession
        BY <1>2, <2>1 DEF Receive, Step, AtWork, Alive
      <3>2. reading'[s] = active /\ overlapped' = overlapped
        BY <1>0, <1>2, <2>1 DEF Receive, ChatTypes
      <3> QED
        BY <1>0, <3>1, <3>2 DEF OwnOf, Right
    <2>2. CASE s # t
      BY <1>0, <1>1, <1>2, <2>2 DEF Receive, Step, ChatTypes
    <2> QED
      BY <2>1, <2>2
  <1>3. ASSUME NEW t \in Session, Chat(t), ~Receive(t)
        PROVE  Right(s, reading[s])'
    <2>1. CASE Begins(t) \/ Spawn(t) \/ Track(t)
      BY <1>0, <1>1, <2>1 DEF Begins, Begin, Spawn, Track, ChatTypes
    <2>2. CASE Establish(t) \/ Install(t) \/ InstallFiles(t) \/ Ended(t)
      BY <1>0, <1>1, <2>2 DEF Establish, Install, InstallFiles, Ended, Step, ChatTypes
    <2>3. CASE File(t) \/ Die(t)
      BY <1>0, <1>1, <2>3 DEF File, Die, Step, ChatTypes
    <2> QED
      BY <1>3, <2>1, <2>2, <2>3 DEF Chat, Begins
  <1>4. CASE Leave
    BY <1>0, <1>1, <1>4 DEF Leave, Abort, ChatTypes
  <1>5. CASE Relaunch
    BY <1>0, <1>5 DEF Relaunch, Alive, ChatTypes
  <1>6. CASE \/ UNCHANGED vars \/ \E k \in {"pair", "group"} : Send(k)
             \/ FindActive \/ FileSent \/ ClearNext \/ Delete \/ Reopen \/ Replace
    <2>1. UNCHANGED <<task, reading>>
      BY <1>6 DEF vars, chats, Send, FindActive, FileSent, ClearNext, Delete, Reopen, Replace
    <2> QED
      BY <1>1, <2>1
  <1> QED
    BY <1>2, <1>3, <1>4, <1>5, <1>6 DEF Next

SendingOk ==
  /\ sending.step # "none" => sending.by \in Session /\ kind[sending.by] \in {"pair", "group"}
  /\ sending.step = "none" => sending.by = NoSession
  /\ sending.step = "filing" => Right(sending.by, sending.under)

\* A message that is sent is for the chat whose handle takes it.
LEMMA SendingStep ==
  ASSUME ChatInv, [Next]_vars
  PROVE  SendingOk'
  <1>0. ChatTypes /\ Started /\ SendingOk
    BY DEF ChatInv, SlotInv, Filing, SendingOk
  <1>1. CASE \E k \in {"pair", "group"} : Send(k)
    <2>1. PICK k \in {"pair", "group"} : Send(k)
      BY <1>1
    <2>2. /\ sending' = [by |-> slot[k], under |-> NoSession, step |-> "sent"]
          /\ slot[k] # NoSession /\ UNCHANGED chats
      BY <2>1, Zenon DEF Send
    <2>3. slot[k] \in Session /\ Handle(k, slot[k])
      <3>1. k \in Slot
        BY DEF Slot
      <3>2. slot[k] \in Session
        BY <1>0, <2>2, <3>1 DEF ChatTypes
      <3> QED
        BY <3>1, <3>2 DEF ChatInv, SlotInv, Handles
    <2>4. kind' = kind /\ kind[slot[k]] \in {"pair", "group"}
      BY <2>2, <2>3 DEF chats, Handle
    <2> QED
      BY <2>2, <2>3, <2>4 DEF SendingOk
  <1>2. CASE FindActive
    <2>1. sending.step = "sent" /\ UNCHANGED <<kind, active, overlapped>>
      BY <1>2 DEF FindActive, chats, shared
    <2>2. sending.by \in Session /\ kind[sending.by] \in {"pair", "group"} /\ AtWork(sending.by)
      BY <1>0, <2>1 DEF SendingOk, AtWork
    <2>3. active \in {sending.by, NoSession} \/ sending.by \in overlapped
      BY <2>2 DEF ChatInv, Own, OwnOf
    <2>4. CASE active = NoSession
      BY <1>2, <2>4 DEF FindActive, NoSend, SendingOk
    <2>5. CASE active # NoSession
      <3>1. sending' = [sending EXCEPT !.under = active, !.step = "filing"]
        BY <1>2, <2>5 DEF FindActive
      <3>2. sending'.by = sending.by /\ sending'.under = active /\ sending'.step = "filing"
        BY <1>0, <3>1 DEF ChatTypes
      <3> QED
        BY <2>1, <2>2, <2>3, <2>5, <3>2 DEF SendingOk, Right
    <2> QED
      BY <2>4, <2>5
  <1>3. CASE FileSent \/ Relaunch
    BY <1>3 DEF FileSent, Relaunch, NoSend, SendingOk
  <1>4. ASSUME sending' = sending, \A s \in Session : kind'[s] = kind[s] \/ Begins(s)
        PROVE  SendingOk'
    <2>1. sending.step # "none" => ~Begins(sending.by)
      BY <1>0 DEF SendingOk, Started, Begins, Begin
    <2> QED
      BY <1>0, <1>4, <2>1, HistoryGrows DEF SendingOk, Right
  <1>5. ASSUME NEW t \in Session, Chat(t)
        PROVE  SendingOk'
    <2>1. sending' = sending
      BY <1>5 DEF Chat, Begin, Spawn, Track, Establish, Install, InstallFiles, Receive, File,
           Ended, Die
    <2> QED
      BY <1>4, <2>1, WorkStep DEF ChatInv
  <1>6. CASE UNCHANGED vars \/ Leave \/ ClearNext \/ Delete \/ Reopen \/ Replace
    <2>1. sending' = sending /\ kind' = kind
      BY <1>6 DEF vars, chats, Leave, ClearNext, Delete, Reopen, Replace
    <2> QED
      BY <1>4, <2>1
  <1> QED
    BY <1>1, <1>2, <1>3, <1>5, <1>6 DEF Next

Transcript == memory \cup file \cup opened

\* Nothing comes into the transcript but by being filed.
LEMMA TranscriptStep ==
  ASSUME ChatInv, [Next]_vars, NEW e \in Transcript'
  PROVE  Right(e.by, e.under)'
  <1>1. CASE e \in Transcript
    BY <1>1, RightStays DEF ChatInv, Filing, Transcript
  <1>2. ASSUME NEW by, NEW under, Filed(by, under), Right(by, under), opened' = opened
        PROVE  Right(e.by, e.under)'
    <2>1. e \in Transcript \/ (e.by = by /\ e.under = under)
      BY <1>2 DEF Filed, Transcript
    <2> QED
      BY <1>1, <1>2, <2>1, RightStays
  <1>3. ASSUME NEW t \in Session, File(t)
        PROVE  Right(e.by, e.under)'
    <2>1. Right(t, reading[t]) /\ Filed(t, reading[t]) /\ opened' = opened
      BY <1>3 DEF File, Step, ChatInv, Filing, wipes
    <2> QED
      BY <1>2, <2>1
  <1>4. CASE FileSent
    <2>1. Right(sending.by, sending.under) /\ opened' = opened
      BY <1>4 DEF FileSent, ChatInv, Filing, wipes
    <2>2. Filed(sending.by, sending.under) \/ UNCHANGED transcript
      BY <1>4 DEF FileSent
    <2> QED
      BY <1>1, <1>2, <2>1, <2>2 DEF transcript, Transcript
  <1>5. ASSUME NEW t \in Session, Chat(t), ~File(t)
        PROVE  Right(e.by, e.under)'
    <2>1. UNCHANGED <<memory, file, opened>>
      BY <1>5 DEF Chat, Begin, Spawn, Track, Establish, Install, InstallFiles, Receive, Ended,
           Die, transcript, wipes
    <2> QED
      BY <1>1, <2>1 DEF Transcript
  <1>6. CASE \/ UNCHANGED vars \/ \E k \in {"pair", "group"} : Send(k)
             \/ FindActive \/ Leave \/ ClearNext
    <2>1. UNCHANGED <<memory, file, opened>>
      BY <1>6 DEF vars, Send, FindActive, Leave, ClearNext, transcript, wipes
    <2> QED
      BY <1>1, <2>1 DEF Transcript
  <1>7. CASE Delete \/ Reopen \/ Replace \/ Relaunch
    <2>1. Transcript' \subseteq Transcript
      BY <1>7 DEF Delete, Reopen, Replace, Done, Relaunch, transcript, Transcript
    <2> QED
      BY <1>1, <2>1
  <1> QED
    BY <1>3, <1>4, <1>5, <1>6, <1>7 DEF Next

\* Every step files what is said where it belongs.
LEMMA FilingStep ==
  ASSUME ChatInv, [Next]_vars
  PROVE  Filing'
  BY ReadingStep, SendingStep, TranscriptStep DEF Filing, SendingOk, Transcript

(* Who is at work, whom a leaving meets, whose the slots are and where     *)
(* what is said belongs, in every behaviour.                               *)
THEOREM ChatInvariance == Spec => []ChatInv
  <1>1. Init => SlotInv
    BY SlotBegun
  <1>2. Init => InTurn /\ Met /\ Own /\ Filing
    <2> SUFFICES ASSUME Init PROVE InTurn /\ Met /\ Own /\ Filing
      OBVIOUS
    <2>1. \A s \in Session : ~AtWork(s) /\ ~Busy(s) /\ task[s] = "none"
      BY DesktopAssumption DEF Init, NoSend, AtWork, Busy, Alive
    <2> QED
      BY <2>1 DEF Init, NoSend, InTurn, Met, Busy, Own, OwnOf, Filing
  <1>3. ChatInv /\ [Next]_vars => ChatInv'
    BY TypesStep, StartedStep, HandlesStep, InTurnStep, MetStep, OwnStep, FilingStep
       DEF ChatInv, SlotInv
  <1> QED
    BY <1>1, <1>2, <1>3, PTL DEF Spec, ChatInv

(* A chat that was begun, left and ended beside no other can be spoken in  *)
(* and is the active one as long as its task receives, and what is said in *)
(* it is filed under it; for any chats, messages and ends, and any order   *)
(* in which commands, tasks, locks and aborts meet.                        *)
THEOREM ChatsWhole == Spec => []ChatIsWhole
  <1>1. ChatInv => ChatIsWhole
    <2> SUFFICES ASSUME ChatInv PROVE ChatIsWhole
      OBVIOUS
    <2>1. \A e \in memory : e.under = e.by \/ e.by \in overlapped
      BY DEF ChatInv, Filing, Right
    <2>2. ASSUME NEW s \in Session, task[s] \in {"receiving", "filing"},
                 s \notin aborted \cup overlapped \cup caught
          PROVE  /\ slot[kind[s]] = s
                 /\ kind[s] = "pair" => slot["files"] = s
                 /\ kind[s] # "hub" => active = s
      BY <2>2 DEF ChatInv, Own, OwnOf, Apart, Busy, Alive
    <2> QED
      BY <2>1, <2>2 DEF ChatIsWhole
  <1> QED
    BY <1>1, ChatInvariance, PTL
=============================================================================
