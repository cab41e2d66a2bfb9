--------------------------- MODULE SealedChannel ---------------------------
(***************************************************************************)
(* The life of a sealed channel (channel.rs) between a listener and the    *)
(* dialer it let in: the initiator's sync message, without which the       *)
(* responder's ratchet has nothing to encrypt with, frames in both         *)
(* directions, and the end of the session as either side comes to know it. *)
(*                                                                         *)
(* What the layers below do is the subject of CoverChannel and             *)
(* RatchetPair: here a link keeps order, refuses frames when it is full,   *)
(* and loses a tail of what is on its way when it goes down.               *)
(***************************************************************************)
EXTENDS Establish

CONSTANTS
  OutCap,    \* frames on their way before try_send may refuse one
  FrameCap,  \* frames decrypted and not yet received, the one held included
  MaxFrames  \* bound: frames an end sends

ASSUME ChannelAssumption == OutCap \in Nat \ {0} /\ FrameCap \in Nat \ {0} /\ MaxFrames \in Nat

VARIABLES
  voice,   \* ends whose ratchet has a sending chain
  spoken,  \* history: frames accepted from each end
  frames,  \* frame_tx/frame_rx: how many an end has yet to receive
  link     \* "up", or why it is not: "broken", or somebody has "left"

chanVars == <<voice, spoken, frames, link>>
vars == <<estVars, chanVars>>

Init ==
  /\ EstInit
  /\ voice = {} /\ spoken = [e \in End |-> 0] /\ frames = [e \in End |-> 0] /\ link = "up"

\* The end holds a sender and a receiver.
Live(e) == IF e = Host THEN listener = "up" ELSE stage[e] = "up" /\ e \in voice
Over(e) == IF e = Host THEN listener = "closed" ELSE stage[e] = "over"

-----------------------------------------------------------------------------
(* Frames *)

(* Mutant of Sync: the initiator waits until it has something to say.      *)
NoSync(d) ==
  /\ stage[d] = "up" /\ d \notin voice
  /\ voice' = voice \cup {d}
  /\ UNCHANGED <<estVars, spoken, frames, link>>

(* The end of SealedChannel::establish on the connecting side. *)
Sync(d) ==
  /\ stage[d] = "up" /\ d \notin voice
  /\ voice' = voice \cup {d}
  /\ wire' = IF link = "up" THEN [wire EXCEPT ![d].up = Append(@, Message(d, "sync"))] ELSE wire
  /\ UNCHANGED <<creds, listener, serving, backlog, dialing, todo, dropped, spoken, frames, link>>

(* SealedSender::send, when it is not refused: by a ratchet without a      *)
(* sending chain, or by a full queue.  What is sent on a link that is down *)
(* is refused or lost.                                                     *)
Send(e) ==
  /\ Live(e) /\ e \in voice /\ link = "up"
  /\ spoken[e] < MaxFrames /\ Len(wire[Conn(e)][From(e)]) < OutCap
  /\ spoken' = [spoken EXCEPT ![e] = @ + 1]
  /\ wire' = [wire EXCEPT ![Conn(e)][From(e)] = Append(@, Message(e, "frame"))]
  /\ UNCHANGED <<creds, listener, serving, backlog, dialing, todo, dropped, voice, frames, link>>

(* Mutant of Unseal: no back-pressure.                                     *)
UnsealAlways(e) ==
  /\ Live(e) /\ wire[Conn(e)][To(e)] # <<>>
  /\ wire' = [wire EXCEPT ![Conn(e)][To(e)] = Tail(@)]
  /\ frames' = [frames EXCEPT ![e] = @ + 1]
  /\ UNCHANGED <<creds, listener, serving, backlog, dialing, todo, dropped, voice, spoken, link>>

(* The inbound task: the first message that opens gives the responder its  *)
(* sending chain; the sync message goes no further.  A frame waits for     *)
(* room, and the rest behind it.                                           *)
Unseal(e) ==
  /\ Live(e) /\ wire[Conn(e)][To(e)] # <<>> /\ frames[e] < FrameCap
  /\ wire' = [wire EXCEPT ![Conn(e)][To(e)] = Tail(@)]
  /\ voice' = voice \cup {e}
  /\ frames' = IF Head(wire[Conn(e)][To(e)]).tag = "sync" THEN frames
               ELSE [frames EXCEPT ![e] = @ + 1]
  /\ UNCHANGED <<creds, listener, serving, backlog, dialing, todo, dropped, spoken, link>>

Recv(e) ==
  /\ Live(e) /\ frames[e] > 0
  /\ frames' = [frames EXCEPT ![e] = @ - 1]
  /\ UNCHANGED <<estVars, voice, spoken, link>>

-----------------------------------------------------------------------------
(* The end *)

(* The link goes down: of what is on its way, some prefix still arrives.   *)
GoesDown(why) ==
  /\ link' = IF link = "up" THEN why ELSE link
  /\ \E i \in 0 .. Len(wire[serving].up), j \in 0 .. Len(wire[serving].down) :
       wire' = [wire EXCEPT ![serving] = [up |-> SubSeq(@.up, 1, i), down |-> SubSeq(@.down, 1, j)]]

Break ==
  /\ listener = "up" /\ link = "up" /\ GoesDown("broken")
  /\ UNCHANGED <<creds, listener, serving, backlog, dialing, todo, dropped, voice, spoken, frames>>

(* drive is over and its receiver dropped; on the host, so is its listener. *)
Ends(e) ==
  /\ frames' = [frames EXCEPT ![e] = 0]
  /\ IF e = Host
     THEN CloseListener /\ UNCHANGED stage
     ELSE stage' = [stage EXCEPT ![e] = "over"] /\ UNCHANGED <<listener, serving, backlog, dropped>>
  /\ UNCHANGED <<creds, dials, todo, voice, spoken>>

(* disconnect, or anything that tears the session down: its tasks are      *)
(* aborted, and both halves of the stream dropped with them.               *)
Leave(e) == Live(e) /\ Ends(e) /\ GoesDown("left")

(* Mutant of RecvNone: an end that broke off is not told from a silent one. *)
RecvNoneIfLeft(e) ==
  /\ Live(e) /\ link = "left"
  /\ wire[Conn(e)][To(e)] = <<>> /\ frames[e] = 0
  /\ Ends(e) /\ UNCHANGED <<wire, link>>

(* recv returns None once everything that came before the end is drained.  *)
RecvNone(e) ==
  /\ Live(e) /\ (link # "up" \/ Over(Peer(e)))
  /\ wire[Conn(e)][To(e)] = <<>> /\ frames[e] = 0
  /\ Ends(e) /\ UNCHANGED <<wire, link>>

Establishing(A) == A /\ UNCHANGED chanVars

Next ==
  \/ Establishing(EstNext) \/ Break
  \/ \E d \in Dialer : Sync(d)
  \/ \E e \in End : Send(e) \/ Unseal(e) \/ Recv(e) \/ Leave(e) \/ RecvNone(e)

Spec == Init /\ [][Next]_vars

(* The runtime polls every task that can move, the retries included; the   *)
(* application takes the frames it is sent.  Nobody has to send or leave.  *)
Fairness ==
  /\ WF_vars(Establishing(Bind)) /\ WF_vars(Establishing(Accept))
  /\ \A d \in Dialer : WF_vars(Establishing(Dial(d))) /\ WF_vars(Sync(d))
  /\ \A e \in End : /\ WF_vars(Establishing(EstStep(e)))
                    /\ WF_vars(Unseal(e) \/ Recv(e)) /\ WF_vars(RecvNone(e))

FairSpec == Spec /\ Fairness

-----------------------------------------------------------------------------
(* Properties *)

TypeOK ==
  /\ EstTypeOK
  /\ voice \subseteq End /\ spoken \in [End -> 0 .. MaxFrames] /\ frames \in [End -> 0 .. FrameCap]
  /\ link \in {"up", "broken", "left"}

\* "Fixed ordering avoids a deadlock", through the ratchet's bootstrap: two
\* ends that agree get through all of it once the listener takes the one up,
\* and in the end both can speak, though the responder cannot at first.
AgreedPeersTalk ==
  \A d \in Dialer :
    serving = d /\ Agree(d) /\ stage[d] = "shaking" ~> {Host, d} \subseteq voice \/ link # "up"

\* A session is over for both or for none: whoever leaves or breaks off, at
\* whatever point, also half-way in, the other end does not stay behind.
EndsTogether ==
  \A d \in Dialer :
    serving = d /\ (link # "up" \/ Over(d) \/ Over(Host)) ~> serving # d \/ (Over(d) /\ Over(Host))
============================================================================
