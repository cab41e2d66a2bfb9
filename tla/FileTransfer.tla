---------------------------- MODULE FileTransfer ----------------------------
(***************************************************************************)
(* Files from one end of a two-party chat to the other: sendFile of the    *)
(* sender's UI with the file_* commands under it, and on the receiver's    *)
(* side drive's loop (src-tauri/src/main.rs), the consent gate and the     *)
(* sink of message.rs, and the one dialog of the UI that asks.  Files the  *)
(* other way are the same with the roles exchanged.                        *)
(*                                                                         *)
(* The sender is that UI for the ids it makes, which are random and so its *)
(* own.  Under any other id the peer's program may send what it likes:     *)
(* offers of ids in use, chunks and ends of what was never offered or was  *)
(* declined.  It is against such a peer that the gate stands.              *)
(*                                                                         *)
(* A file is a number of chunks, and an offer's name and size stand for    *)
(* that number.  The channel keeps order; it refuses a frame when its      *)
(* queue is full, and drops the oldest of the frames it stages for a       *)
(* receiver that is behind (CoverChannel).                                 *)
(***************************************************************************)
EXTENDS Naturals, Sequences, SequencesExt, FiniteSets

CONSTANTS
  Transfer,     \* transfer ids
  Chunks,       \* [Transfer -> Nat], the chunks each file has
  Stray,        \* the ids of them that are of the peer's own choosing
  Sizes,        \* the sizes offers of such an id announce
  MaxUnprompted,  \* bound on the frames about such ids, which nothing limits
  MaxInFlight,  \* MAX_CONCURRENT_FILES
  OutCap,       \* frames on their way before send may refuse one
  FrontCap,     \* frames that wait for drive in front of the staging buffer
  StageCap,     \* frames the staging buffer holds
  DecisionCap   \* bound on the decisions that wait for drive; dec_tx has none

ASSUME TransferAssumption ==
  /\ Stray \subseteq Transfer /\ Sizes \subseteq Nat /\ MaxUnprompted \in Nat
  /\ Chunks \in [Transfer -> Nat]
  /\ MaxInFlight \in Nat \ {0} /\ DecisionCap \in Nat \ {0}
  /\ OutCap \in Nat \ {0} /\ FrontCap \in Nat /\ StageCap \in Nat \ {0}

VARIABLES
  live,       \* both ends still drive the session
  send,       \* how far sendFile is with each transfer
  given,      \* chunks of it handed to the channel
  unprompted, \* frames sent about the peer's own ids
  toReceiver, toSender,  \* the channel's two directions
  pending, accepted,     \* FileGate: the ids in each
  promised,   \* FileGate: the size kept with an offer while it is pending
  disk,       \* "none", "open" (Incoming, in sinks), "saved", "broken"
  size,       \* Incoming::size: no more chunks are written
  received,   \* Incoming::received: chunks written
  dialog,     \* the offer the receiver's UI asks about, if any
  decisions,  \* dec_tx/dec_rx
  agreed,     \* history: transfers the receiver's user ever said yes to
  answer,     \* history: what the user last said of an id, and to what offer
  crossed,    \* history: ids offered anew before the earlier offer was settled
  ignored,    \* history: transfers whose question another one took the place of
  early,      \* history: sendFile's transfers of which drive took a frame before
              \* the decision
  shed        \* history: sendFile's transfers the channel dropped a frame of

sender == <<send, given, unprompted>>
gate == <<pending, accepted, promised, disk, size, received>>
history == <<agreed, answer, crossed, ignored, early, shed>>
vars == <<live, sender, toReceiver, toSender, gate, dialog, decisions, history>>

\* The size is that of an offer; the other frames have none.
Frame(kind, t, n) == [kind |-> kind, id |-> t, size |-> n]

Init ==
  /\ live = TRUE
  /\ send = [t \in Transfer |-> "idle"] /\ given = [t \in Transfer |-> 0] /\ unprompted = 0
  /\ toReceiver = <<>> /\ toSender = <<>>
  /\ pending = {} /\ accepted = {} /\ promised = [t \in Transfer |-> 0]
  /\ disk = [t \in Transfer |-> "none"]
  /\ size = [t \in Transfer |-> 0] /\ received = [t \in Transfer |-> 0]
  /\ dialog = {} /\ decisions = <<>>
  /\ agreed = {} /\ answer = [t \in Transfer |-> [size |-> 0, yes |-> FALSE]]
  /\ crossed = {} /\ ignored = {} /\ early = {} /\ shed = {}

-----------------------------------------------------------------------------
(* The channel *)

\* How send may end: a frame is accepted while there is room on the whole way,
\* and refused when the first queue of it may be full.
Takes(queue) == Len(queue) < OutCap + FrontCap + StageCap
Refuses(queue) == Len(queue) >= OutCap

(* The oldest of the staging buffer goes when one more arrives. *)
Shed ==
  /\ Len(toReceiver) > FrontCap + StageCap
  /\ toReceiver' = RemoveAt(toReceiver, FrontCap + 1)
  /\ shed' = shed \cup ({toReceiver[FrontCap + 1].id} \ Stray)
  /\ UNCHANGED <<live, sender, toSender, gate, dialog, decisions,
                 agreed, answer, crossed, ignored, early>>

-----------------------------------------------------------------------------
(* The sender: sendFile *)

Step(t, from, to) == live /\ send[t] = from /\ send' = [send EXCEPT ![t] = to]

(* file_begin. *)
Begin(t) ==
  /\ Takes(toReceiver) /\ Step(t, "idle", "offered")
  /\ toReceiver' = Append(toReceiver, Frame("offer", t, Chunks[t]))
  /\ UNCHANGED <<live, given, unprompted, toSender, gate, dialog, decisions, history>>

(* waitForPeerDecision, once file_begin has returned. *)
Wait(t) ==
  /\ Step(t, "offered", "waiting")
  /\ UNCHANGED <<live, given, unprompted, toReceiver, toSender, gate, dialog, decisions, history>>

(* Its timeout. *)
GiveUp(t) ==
  /\ Step(t, "waiting", "unanswered")
  /\ UNCHANGED <<live, given, unprompted, toReceiver, toSender, gate, dialog, decisions, history>>

(* Mutant of Stream: the last chunk is left out.                           *)
StreamButOne(t) ==
  /\ IF given[t] + 1 < Chunks[t]
     THEN \/ /\ Takes(toReceiver) /\ Step(t, "streaming", "streaming")
             /\ given' = [given EXCEPT ![t] = @ + 1]
             /\ toReceiver' = Append(toReceiver, Frame("chunk", t, 0))
          \/ Refuses(toReceiver) /\ Step(t, "streaming", "failed") /\ UNCHANGED <<given, toReceiver>>
     ELSE \/ /\ Takes(toReceiver) /\ Step(t, "streaming", "sent")
             /\ toReceiver' = Append(toReceiver, Frame("end", t, 0))
             /\ UNCHANGED given
          \/ Refuses(toReceiver) /\ Step(t, "streaming", "failed") /\ UNCHANGED <<given, toReceiver>>
  /\ UNCHANGED <<live, unprompted, toSender, gate, dialog, decisions, history>>

(* The loop of file_chunk, with file_end after it: one refusal ends it all, *)
(* and the receiver is not told.                                           *)
Stream(t) ==
  /\ \/ /\ Takes(toReceiver)
        /\ IF given[t] < Chunks[t]
           THEN /\ Step(t, "streaming", "streaming")
                /\ given' = [given EXCEPT ![t] = @ + 1]
                /\ toReceiver' = Append(toReceiver, Frame("chunk", t, 0))
           ELSE /\ Step(t, "streaming", "sent")
                /\ toReceiver' = Append(toReceiver, Frame("end", t, 0))
                /\ UNCHANGED given
     \/ Refuses(toReceiver) /\ Step(t, "streaming", "failed") /\ UNCHANGED <<given, toReceiver>>
  /\ UNCHANGED <<live, unprompted, toSender, gate, dialog, decisions, history>>

(* peer-accepted, peer-rejected: of use to who waits for it. *)
HearDecision ==
  /\ toSender # <<>> /\ toSender' = Tail(toSender)
  /\ LET f == Head(toSender)
     IN IF send[f.id] = "waiting"
        THEN Step(f.id, "waiting", IF f.kind = "accept" THEN "streaming" ELSE "declined")
        ELSE UNCHANGED send
  /\ UNCHANGED <<live, given, unprompted, toReceiver, gate, dialog, decisions, history>>

(* What a peer's program may send beside it: any frame about an id of its  *)
(* own choosing, at any time.                                              *)
Unprompted(t) ==
  /\ live /\ Takes(toReceiver)
  /\ unprompted < MaxUnprompted /\ unprompted' = unprompted + 1
  /\ \E f \in {Frame("offer", t, n) : n \in Sizes} \cup {Frame("chunk", t, 0), Frame("end", t, 0)} :
       toReceiver' = Append(toReceiver, f)
  /\ UNCHANGED <<live, send, given, toSender, gate, dialog, decisions, history>>

-----------------------------------------------------------------------------
(* The receiver *)

(* FileGate::finish, and the sink with it: what becomes of the file. *)
Finish(t, how) ==
  /\ pending' = pending \ {t} /\ accepted' = accepted \ {t}
  /\ disk' = IF disk[t] = "open" THEN [disk EXCEPT ![t] = how] ELSE disk

(* askConfirm has one dialog and one promise: a second question takes the  *)
(* place of the first, which is never answered.                            *)
Ask(t, n) ==
  /\ dialog' = {[id |-> t, size |-> n]}
  /\ ignored' = ignored \cup {q.id : q \in dialog}

(* The user may still see, or has not been heard on, an earlier offer of   *)
(* this id, or its file is being written.                                  *)
Outstanding(t) ==
  \/ t \in pending \cup accepted \cup ignored
  \/ \E q \in dialog : q.id = t
  \/ \E i \in DOMAIN decisions : decisions[i].id = t

\* Mutant of Offered: accepted transfers do not count against the limit.
OfferedUncounted(t, n) ==
  \/ /\ Cardinality(pending) >= MaxInFlight
     /\ UNCHANGED <<gate, dialog, ignored, crossed>>
  \/ /\ Cardinality(pending) < MaxInFlight
     /\ pending' = pending \cup {t} /\ promised' = [promised EXCEPT ![t] = n] /\ Ask(t, n)
     /\ crossed' = IF Outstanding(t) THEN crossed \cup {t} ELSE crossed
     /\ UNCHANGED <<accepted, disk, size, received>>

(* An offer under a pending id takes the place of the earlier one's name   *)
(* and size; under an accepted id it is pending beside it.                 *)
Offered(t, n) ==
  \/ /\ Cardinality(pending) + Cardinality(accepted) >= MaxInFlight
     /\ UNCHANGED <<gate, dialog, ignored, crossed>>
  \/ /\ Cardinality(pending) + Cardinality(accepted) < MaxInFlight
     /\ pending' = pending \cup {t} /\ promised' = [promised EXCEPT ![t] = n] /\ Ask(t, n)
     /\ crossed' = IF Outstanding(t) THEN crossed \cup {t} ELSE crossed
     /\ UNCHANGED <<accepted, disk, size, received>>

TooEarly(t) == early' = early \cup (({t} \cap pending) \ Stray)

(* Incoming: the file is there and empty, and never grows past its offer.  *)
(* It takes the place of one that is open under the same id.               *)
Start(t) ==
  /\ disk' = [disk EXCEPT ![t] = "open"]
  /\ size' = [size EXCEPT ![t] = promised[t]] /\ received' = [received EXCEPT ![t] = 0]

WriteChunk(t) == received[t] < size[t] /\ received' = [received EXCEPT ![t] = @ + 1]

\* Mutant of ChunkCame: whether the transfer was accepted is not asked, and its
\* file is opened when the first chunk comes.
ChunkUngated(t) ==
  /\ TooEarly(t) /\ UNCHANGED <<dialog, ignored, crossed>>
  /\ received' = [received EXCEPT ![t] = @ + 1] /\ received[t] <= size[t]
  /\ disk' = [disk EXCEPT ![t] = "open"]
  /\ UNCHANGED <<pending, accepted, promised, size>>

(* Both the gate and the sink are asked.  Writing may fail for reasons of  *)
(* the disk.                                                               *)
ChunkCame(t) ==
  /\ TooEarly(t) /\ UNCHANGED <<dialog, ignored, crossed>>
  /\ \/ (t \notin accepted \/ disk[t] # "open") /\ UNCHANGED gate
     \/ /\ t \in accepted /\ disk[t] = "open"
        /\ WriteChunk(t) /\ UNCHANGED <<pending, accepted, promised, disk, size>>
     \/ /\ t \in accepted /\ disk[t] = "open"
        /\ Finish(t, "broken") /\ UNCHANGED <<promised, size, received>>

(* Whatever has arrived is what is saved. *)
EndCame(t) ==
  /\ TooEarly(t) /\ Finish(t, "saved")
  /\ UNCHANGED <<promised, size, received, dialog, ignored, crossed>>

(* drive: receiver.recv. *)
TakeFrame ==
  /\ toReceiver # <<>> /\ toReceiver' = Tail(toReceiver)
  /\ LET f == Head(toReceiver)
     IN CASE f.kind = "offer" -> Offered(f.id, f.size) /\ UNCHANGED early
          [] f.kind = "chunk" -> ChunkCame(f.id)
          [] f.kind = "end" -> EndCame(f.id)
  /\ UNCHANGED <<live, sender, toSender, decisions, agreed, answer, shed>>

(* file_accept and file_reject: the decision goes to drive first, then the *)
(* answer to the peer, which a full queue loses.                           *)
Answer(yes) ==
  /\ live /\ Len(decisions) < DecisionCap
  /\ \E q \in dialog :
       /\ dialog' = {} /\ decisions' = Append(decisions, [id |-> q.id, yes |-> yes])
       /\ agreed' = IF yes THEN agreed \cup {q.id} ELSE agreed
       /\ answer' = [answer EXCEPT ![q.id] = [size |-> q.size, yes |-> yes]]
       /\ \/ /\ Takes(toSender)
             /\ toSender' = Append(toSender, Frame(IF yes THEN "accept" ELSE "reject", q.id, 0))
          \/ Refuses(toSender) /\ UNCHANGED toSender
  /\ UNCHANGED <<live, sender, toReceiver, gate, crossed, ignored, early, shed>>

(* Mutant of TakeDecision: a declined offer stays pending.                 *)
TakeConsent ==
  /\ decisions # <<>> /\ decisions' = Tail(decisions)
  /\ LET d == Head(decisions)
     IN IF d.yes /\ d.id \in pending
        THEN /\ pending' = pending \ {d.id} /\ accepted' = accepted \cup {d.id}
             /\ Start(d.id)
        ELSE UNCHANGED <<pending, accepted, disk, size, received>>
  /\ UNCHANGED <<live, sender, toReceiver, toSender, promised, dialog, history>>

(* drive: dec_rx.recv, in no order with the frames.  Incoming::start may   *)
(* fail for reasons of the disk; a file that an earlier offer of the id    *)
(* had opened then stays in sinks, with no place at the gate.              *)
TakeDecision ==
  /\ decisions # <<>> /\ decisions' = Tail(decisions)
  /\ LET d == Head(decisions)
         opens == d.yes /\ d.id \in pending
     IN /\ pending' = pending \ {d.id}
        /\ \/ ~opens /\ UNCHANGED <<accepted, disk, size, received>>
           \/ opens /\ accepted' = accepted \cup {d.id} /\ Start(d.id)
           \/ /\ opens /\ accepted' = accepted \ {d.id}
              /\ disk' = [disk EXCEPT ![d.id] = IF @ = "open" THEN "open" ELSE "broken"]
              /\ UNCHANGED <<size, received>>
  /\ UNCHANGED <<live, sender, toReceiver, toSender, promised, dialog, history>>

(* The session ends: drive is gone with its gate and sinks, and what was   *)
(* written stays where it is.  Every later command fails.                  *)
Close ==
  /\ live /\ live' = FALSE
  /\ toReceiver' = <<>> /\ toSender' = <<>> /\ decisions' = <<>>
  /\ pending' = {} /\ accepted' = {}
  /\ disk' = [t \in Transfer |-> IF disk[t] = "open" THEN "broken" ELSE disk[t]]
  /\ UNCHANGED <<sender, promised, size, received, dialog, history>>

-----------------------------------------------------------------------------

Next ==
  \/ Shed \/ HearDecision \/ TakeFrame \/ TakeDecision \/ Close
  \/ \E t \in Transfer \ Stray : Begin(t) \/ Wait(t) \/ GiveUp(t) \/ Stream(t)
  \/ \E t \in Stray : Unprompted(t)
  \/ \E yes \in BOOLEAN : Answer(yes)

Spec == Init /\ [][Next]_vars

(* The tasks run, sendFile goes on, and whoever is asked answers.  No one  *)
(* owes an unprompted frame.                                               *)
Fairness ==
  /\ WF_vars(HearDecision) /\ WF_vars(TakeFrame)
  /\ WF_vars(decisions # <<>> /\ TakeDecision)
  /\ \A t \in Transfer \ Stray : WF_vars(Wait(t)) /\ WF_vars(GiveUp(t)) /\ WF_vars(Stream(t))
  /\ WF_vars(\E yes \in BOOLEAN : Answer(yes))

FairSpec == Spec /\ Fairness

-----------------------------------------------------------------------------
(* Properties *)

\* message.rs: "no byte of an unaccepted (or rejected, or unknown) transfer
\* ever reaches disk", whatever the peer sends and in whatever order: there is a
\* file, or a byte, only of transfers the user said yes to; and what an open file
\* may hold is what the last word of the user on it, a yes, was said of; it has
\* its place at the gate, and the gate keeps within the limit.  The second part
\* is not so for an id that was offered anew before its earlier offer was settled,
\* which only a peer that chooses its ids can do: the offer takes the place of a
\* pending one under a decision on its way (message.rs:50), and when the file of
\* an accepted one cannot be opened the earlier one loses its place but not its
\* sink (main.rs:844).
NothingWithoutConsent ==
  /\ \A t \in Transfer : disk[t] # "none" \/ received[t] # 0 => t \in agreed
  /\ \A t \in Transfer \ crossed :
       disk[t] = "open" => t \in accepted /\ answer[t] = [size |-> size[t], yes |-> TRUE]
  /\ crossed \subseteq Stray
  /\ \A t \in accepted : disk[t] = "open"
  /\ Cardinality(pending) + Cardinality(accepted) <= MaxInFlight

\* "Sent" is true: what the sender reports as sent is, in the end, a file with
\* all its chunks at the receiver - unless drive took a frame of it before the
\* decision, the channel shed one, the receiver's disk failed it, its user
\* had said no, or the session ended first.
SentIsSaved ==
  \A t \in Transfer \ Stray :
    send[t] = "sent" ~>
      \/ disk[t] = "saved" /\ received[t] = Chunks[t]
      \/ t \in early \cup shed \/ disk[t] = "broken" \/ ~live

\* The slots of the gate are given back: an offer leaves it in the end, unless
\* its question was pushed aside by another, its sender gave up or was refused
\* half-way without telling, its end was shed, or its decision never got out.
SlotsAreFreed ==
  \A t \in Transfer \ Stray :
    t \in pending \cup accepted ~>
      \/ t \notin pending \cup accepted
      \/ t \in ignored \cup shed \/ send[t] \in {"unanswered", "failed"}
============================================================================
