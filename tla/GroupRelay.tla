----------------------------- MODULE GroupRelay -----------------------------
(***************************************************************************)
(* A group room: the relay that anybody may host (grouphost.rs) and the    *)
(* members' clients (GroupClient of grouphost.rs, GroupMember of           *)
(* groupsession.rs), over one sealed link per member.                      *)
(*                                                                         *)
(* The relay has two tasks per member: a reader, which takes the member's  *)
(* frames, looks up the roster under its lock and then waits for room in   *)
(* the queue of each addressee, and a writer, which passes the member's    *)
(* queue to the link and ends at the first frame the link refuses.  A      *)
(* member's id is drawn when it joins, so one who comes back is another    *)
(* member.                                                                 *)
(***************************************************************************)
EXTENDS SenderKey, Sequences, SequencesExt

CONSTANTS
  Member,    \* the members that may join
  Talker,    \* bound: the members that write texts
  MaxTexts,  \* bound: texts each of them writes
  OutCap,    \* a writer's queue, 128
  LinkCap    \* frames a link holds before it refuses more, OUTBOUND_CAPACITY

ASSUME RelayAssumption ==
  /\ Talker \subseteq Member /\ MaxTexts \in Nat
  /\ OutCap \in Nat \ {0} /\ LinkCap \in Nat \ {0}

Hello(m) == [type |-> "Hello", id |-> m]
Roster(ms) == [type |-> "Roster", members |-> ms]
KeyFor(to, from, dist) == [type |-> "KeyFor", to |-> to, from |-> from, dist |-> dist]
Text(from, ct) == [type |-> "Text", from |-> from, ct |-> ct]

VARIABLES
  stage,      \* member: "out", "in" the room over an open link, "gone"
  sender,     \* client: its SenderKeyState
  receivers,  \* client: its ReceiverState per peer
  keyedTo,    \* client: the peers it believes to have sent its key
  roster,     \* relay: the registered members
  reader,     \* relay: where the member's reader is
  sending,    \* relay: what the reader is still to put into queues
  outQ,       \* relay: the queue of the member's writer
  writer,     \* relay: whether the writer still runs
  up, down,   \* frames on their way to and from the relay
  granted,    \* history: the peers a member's key really went out to
  written,    \* history: per text of a member, who had been granted its key
  refused,    \* history: texts a member's own link refused
  shown       \* history: the texts a member was shown, in order

clientVars == <<stage, sender, receivers, keyedTo, granted, written, refused, shown>>
relayVars == <<roster, reader, sending, outQ, writer>>
linkVars == <<up, down>>
vars == <<clientVars, relayVars, linkVars>>

Init ==
  /\ stage = [m \in Member |-> "out"]
  /\ sender = [m \in Member |-> NewSender]
  /\ receivers = [m \in Member |-> [q \in {} |-> {}]]
  /\ keyedTo = [m \in Member |-> {}]
  /\ roster = {}
  /\ reader = [m \in Member |-> "none"]
  /\ sending = [m \in Member |-> {}]
  /\ outQ = [m \in Member |-> <<>>]
  /\ writer = [m \in Member |-> FALSE]
  /\ up = [m \in Member |-> <<>>]
  /\ down = [m \in Member |-> <<>>]
  /\ granted = [m \in Member |-> {}]
  /\ written = [m \in Member |-> <<>>]
  /\ refused = [m \in Member |-> {}]
  /\ shown = [m \in Member |-> <<>>]

----------------------------------------------------------------------------
(* The member's client *)

\* GroupClient::join on one side, the accept loop of GroupHost::serve on the
\* other: the link is up, Hello is queued, both relay tasks run.
Join(m) ==
  /\ stage[m] = "out"
  /\ stage' = [stage EXCEPT ![m] = "in"]
  /\ up' = [up EXCEPT ![m] = <<Hello(m)>>]
  /\ reader' = [reader EXCEPT ![m] = "waiting"]
  /\ writer' = [writer EXCEPT ![m] = TRUE]
  /\ UNCHANGED <<sender, receivers, keyedTo, granted, written, refused, shown,
                 roster, sending, outQ, down>>

Reads(m, type) ==
  /\ stage[m] = "in" /\ down[m] # <<>> /\ Head(down[m]).type = type
  /\ down' = [down EXCEPT ![m] = Tail(@)]

Room(q) == LinkCap - Len(q)
Fitting(frames, q) == SubSeq(frames, 1, Min({Len(frames), Room(q)}))

\* Everybody not keyed yet is from now on, in the order of the roster, also
\* those whose frame the link refuses.
OnRoster(m) ==
  /\ Reads(m, "Roster")
  /\ LET new == Head(down[m]).members \ (keyedTo[m] \cup {m})
     IN \E order \in SetToSeqs(new) :
          LET sent == Fitting(order, up[m])
              frame(i) == KeyFor(sent[i], m, Distribution(sender[m]))
          IN /\ up' = [up EXCEPT ![m] = @ \o [i \in DOMAIN sent |-> frame(i)]]
             /\ granted' = [granted EXCEPT ![m] = @ \cup ToSet(sent)]
             /\ keyedTo' = [keyedTo EXCEPT ![m] = @ \cup new]
  /\ UNCHANGED <<stage, sender, receivers, written, refused, shown, relayVars>>

OnKeyFor(m) ==
  /\ Reads(m, "KeyFor")
  /\ LET f == Head(down[m])
     IN receivers' = [receivers EXCEPT ![m] =
          [q \in DOMAIN @ \cup {f.from} |->
             IF q = f.from THEN FromDistribution(f.dist) ELSE @[q]]]
  /\ UNCHANGED <<stage, sender, keyedTo, granted, written, refused, shown, relayVars, up>>

\* A text without a key, or one that does not open, is passed over.
OnText(m) ==
  /\ Reads(m, "Text")
  /\ LET f == Head(down[m])
     IN IF f.from \in DOMAIN receivers[m] /\ Opens(receivers[m][f.from], f.ct)
        THEN /\ receivers' = [receivers EXCEPT ![m][f.from] = Opened(@, f.ct)]
             /\ shown' = [shown EXCEPT ![m] = Append(@, [from |-> f.from, n |-> f.ct.key])]
        ELSE UNCHANGED <<receivers, shown>>
  /\ UNCHANGED <<stage, sender, keyedTo, granted, written, refused, relayVars, up>>

\* The text is encrypted, and the result of sending it ignored.
Write(m) ==
  /\ stage[m] = "in" /\ m \in Talker /\ Len(written[m]) < MaxTexts
  /\ sender' = [sender EXCEPT ![m] = Ratcheted(@)]
  /\ written' = [written EXCEPT ![m] = Append(@, granted[m])]
  /\ IF Room(up[m]) > 0
     THEN /\ up' = [up EXCEPT ![m] = Append(@, Text(m, Ciphertext(sender[m])))]
          /\ UNCHANGED refused
     ELSE /\ refused' = [refused EXCEPT ![m] = @ \cup {sender[m].chain}]
          /\ UNCHANGED up
  /\ UNCHANGED <<stage, receivers, keyedTo, granted, shown, relayVars, down>>

\* The user leaves, or the connection breaks and the client's task finds it so:
\* the task ends, both halves of the channel are dropped, and what was on the
\* link is lost, or was read just before.  What a client still encrypts on a
\* broken link reaches nobody and is left out.
Leave(m) ==
  /\ stage[m] = "in"
  /\ stage' = [stage EXCEPT ![m] = "gone"]
  /\ up' = [up EXCEPT ![m] = <<>>]
  /\ down' = [down EXCEPT ![m] = <<>>]
  /\ UNCHANGED <<sender, receivers, keyedTo, granted, written, refused, shown, relayVars>>

----------------------------------------------------------------------------
(* The relay *)

Takes(m, type) ==
  /\ reader[m] \in {"waiting", "known"} /\ sending[m] = {}
  /\ up[m] # <<>> /\ Head(up[m]).type = type
  /\ up' = [up EXCEPT ![m] = Tail(@)]

Register(m) ==
  /\ Takes(m, "Hello")
  /\ roster' = roster \cup {m}
  /\ reader' = [reader EXCEPT ![m] = "telling"]
  /\ UNCHANGED <<clientVars, sending, outQ, writer, down>>

(* Mutant of BroadcastRoster: the member it is about is told, or nobody.   *)
BroadcastToNewcomer(m) ==
  /\ reader[m] \in {"telling", "parting"}
  /\ sending' = [sending EXCEPT ![m] = {[to |-> t, frame |-> Roster(roster)] : t \in roster \cap {m}}]
  /\ reader' = [reader EXCEPT ![m] = IF @ = "telling" THEN "known" ELSE "parted"]
  /\ UNCHANGED <<clientVars, roster, outQ, writer, linkVars>>

\* broadcast_roster takes the lock again: others may have come or gone.
BroadcastRoster(m) ==
  /\ reader[m] \in {"telling", "parting"}
  /\ sending' = [sending EXCEPT ![m] = {[to |-> t, frame |-> Roster(roster)] : t \in roster}]
  /\ reader' = [reader EXCEPT ![m] = IF @ = "telling" THEN "known" ELSE "parted"]
  /\ UNCHANGED <<clientVars, roster, outQ, writer, linkVars>>

RouteKey(m) ==
  /\ Takes(m, "KeyFor")
  /\ LET f == Head(up[m])
     IN sending' = [sending EXCEPT ![m] = {[to |-> t, frame |-> f] : t \in roster \cap {f.to}}]
  /\ UNCHANGED <<clientVars, roster, reader, outQ, writer, down>>

(* Mutant of RouteText: each text is handed on by a task of its own.       *)
RouteTextAside(m) ==
  /\ reader[m] = "known" /\ up[m] # <<>> /\ Head(up[m]).type = "Text"
  /\ up' = [up EXCEPT ![m] = Tail(@)]
  /\ sending' = [sending EXCEPT ![m] =
       @ \cup {[to |-> t, frame |-> Head(up[m])] : t \in roster \ {Head(up[m]).from}}]
  /\ UNCHANGED <<clientVars, roster, reader, outQ, writer, down>>

RouteText(m) ==
  /\ Takes(m, "Text")
  /\ LET f == Head(up[m])
     IN sending' = [sending EXCEPT ![m] = {[to |-> t, frame |-> f] : t \in roster \ {f.from}}]
  /\ UNCHANGED <<clientVars, roster, reader, outQ, writer, down>>

(* Mutant of Enqueue: a frame for a full queue is dropped.                 *)
EnqueueOrDrop(m) ==
  \E d \in sending[m] :
    /\ sending' = [sending EXCEPT ![m] = @ \ {d}]
    /\ outQ' = IF writer[d.to] /\ Len(outQ[d.to]) < OutCap
               THEN [outQ EXCEPT ![d.to] = Append(@, d.frame)] ELSE outQ
    /\ UNCHANGED <<clientVars, roster, reader, writer, linkVars>>

(* Mutant of Enqueue: the queue has no bound.                              *)
EnqueueAnyway(m) ==
  \E d \in sending[m] :
    /\ sending' = [sending EXCEPT ![m] = @ \ {d}]
    /\ outQ' = IF writer[d.to] THEN [outQ EXCEPT ![d.to] = Append(@, d.frame)] ELSE outQ
    /\ UNCHANGED <<clientVars, roster, reader, writer, linkVars>>

\* tx.send(..).await on a sender cloned under the lock: waits for room, fails
\* when the writer is gone.  The roster has no order.
Enqueue(m) ==
  \E d \in sending[m] :
    /\ sending' = [sending EXCEPT ![m] = @ \ {d}]
    /\ \/ /\ writer[d.to] /\ Len(outQ[d.to]) < OutCap
          /\ outQ' = [outQ EXCEPT ![d.to] = Append(@, d.frame)]
       \/ ~writer[d.to] /\ UNCHANGED outQ
    /\ UNCHANGED <<clientVars, roster, reader, writer, linkVars>>

Forward(m) ==
  /\ writer[m] /\ outQ[m] # <<>> /\ stage[m] = "in" /\ Room(down[m]) > 0
  /\ down' = [down EXCEPT ![m] = Append(@, Head(outQ[m]))]
  /\ outQ' = [outQ EXCEPT ![m] = Tail(@)]
  /\ UNCHANGED <<clientVars, roster, reader, sending, writer, up>>

\* The writer ends and drops its half of the channel when the link refuses a
\* frame, which does not close the link, whose other half the reader holds; and
\* when nothing holds a sender of its queue any more.
Unheld(m) ==
  reader[m] = "parted" /\ sending[m] = {} /\ m \notin roster
    /\ \A q \in Member : \A d \in sending[q] : d.to # m

WriterEnds(m) ==
  /\ writer[m]
  /\ IF outQ[m] = <<>> THEN Unheld(m) ELSE stage[m] = "gone" \/ Room(down[m]) = 0
  /\ writer' = [writer EXCEPT ![m] = FALSE]
  /\ outQ' = [outQ EXCEPT ![m] = <<>>]
  /\ UNCHANGED <<clientVars, roster, reader, sending, linkVars>>

(* Mutant of ReaderEnds: who has gone stays registered.                    *)
ReaderEndsOnly(m) ==
  /\ stage[m] = "gone" /\ reader[m] \in {"waiting", "known"} /\ sending[m] = {}
  /\ reader' = [reader EXCEPT ![m] = "parted"]
  /\ UNCHANGED <<clientVars, roster, sending, outQ, writer, linkVars>>

ReaderEnds(m) ==
  /\ stage[m] = "gone" /\ reader[m] \in {"waiting", "known"} /\ sending[m] = {}
  /\ roster' = roster \ {m}
  /\ reader' = [reader EXCEPT ![m] = IF @ = "known" THEN "parting" ELSE "parted"]
  /\ UNCHANGED <<clientVars, sending, outQ, writer, linkVars>>

----------------------------------------------------------------------------
Client(m) == OnRoster(m) \/ OnKeyFor(m) \/ OnText(m)
Reader(m) ==
  \/ Register(m) \/ BroadcastRoster(m) \/ RouteKey(m) \/ RouteText(m)
  \/ Enqueue(m) \/ ReaderEnds(m)
Writer(m) == Forward(m) \/ WriterEnds(m)

Next ==
  \E m \in Member :
    Join(m) \/ Client(m) \/ Write(m) \/ Leave(m) \/ Reader(m) \/ Writer(m)

\* Tasks of a runtime are polled when they can go on; people owe nothing.
Fairness ==
  \A m \in Member :
    WF_vars(Client(m)) /\ WF_vars(Reader(m)) /\ WF_vars(Writer(m))

Spec == Init /\ [][Next]_vars /\ Fairness

----------------------------------------------------------------------------
Steps == 0 .. MaxTexts

\* Types; the queues and links of the relay and a receiver's store of skipped
\* keys stay within their bounds.
TypeOK ==
  /\ stage \in [Member -> {"out", "in", "gone"}]
  /\ sender \in [Member -> [chain : Steps, iteration : Steps \cap 0 .. LastIteration]]
  /\ \A m \in Member : /\ DOMAIN receivers[m] \subseteq Member \ {m}
                       /\ \A q \in DOMAIN receivers[m] :
                            Cardinality(receivers[m][q].skipped) <= MaxSkippedStore
  /\ keyedTo \in [Member -> SUBSET Member]
  /\ roster \subseteq Member
  /\ reader \in [Member -> {"none", "waiting", "telling", "known", "parting", "parted"}]
  /\ writer \in [Member -> BOOLEAN]
  /\ \A m \in Member : Len(up[m]) <= LinkCap /\ Len(down[m]) <= LinkCap /\ Len(outQ[m]) <= OutCap

\* A member never holds the key, kept or still to be ratcheted to, of a text
\* written before its author sent it the sender key ("New members joining later
\* ... can decrypt from that point forward", SenderKeyState::distribution).
OldTextsStayClosed ==
  \A m \in Member : \A q \in DOMAIN receivers[m] : \A k \in DOMAIN written[q] :
    m \notin written[q][k] =>
      /\ k - 1 < receivers[m][q].chain
      /\ \A s \in receivers[m][q].skipped : s.key # k - 1

\* What one member wrote is shown in the order it was written, and once.
InSenderOrder ==
  \A m \in Member : \A i, j \in DOMAIN shown[m] :
    i < j /\ shown[m][i].from = shown[m][j].from => shown[m][i].n < shown[m][j].n

Shows(m, q, n) == \E i \in DOMAIN shown[m] : shown[m][i] = [from |-> q, n |-> n]
OnItsWay(m, q, n) ==
  \/ \E f \in ToSet(up[q]) \cup ToSet(outQ[m]) \cup ToSet(down[m]) :
       f.type = "Text" /\ f.from = q /\ f.ct.key = n
  \/ \E d \in sending[q] :
       d.to = m /\ d.frame.type = "Text" /\ d.frame.from = q /\ d.frame.ct.key = n

\* Text n of q, or one before it, came after more losses in a row than a
\* receiver skips.
Unreachable(q, n) ==
  \E k \in 0 .. n : \A i \in 0 .. MaxSkip : k + i < n /\ k + i \in refused[q]

\* A text is shown to everyone its author had sent the key to, or is on its way
\* there; else the author's link refused or lost it, the reader is gone or deaf,
\* or more were lost before it than can be skipped.
TextsAccounted ==
  \A q \in Member : \A k \in DOMAIN written[q] : \A m \in written[q][k] :
    LET n == k - 1
    IN \/ Shows(m, q, n) \/ OnItsWay(m, q, n)
       \/ n \in refused[q] \/ "gone" \in {stage[q], stage[m]} \/ ~writer[m]
       \/ Unreachable(q, n)

\* Two members in the room come to hold each other's keys, unless one of them
\* leaves, is deaf, or the key was refused by the link of its owner.
KeysArrive ==
  \A m, q \in Member : m # q =>
    (stage[m] = "in" /\ stage[q] = "in") ~>
      \/ q \in DOMAIN receivers[m]
      \/ stage[m] = "gone" \/ stage[q] = "gone"
      \/ ~writer[m] \/ ~writer[q]
      \/ m \in keyedTo[q] \ granted[q]

\* Whoever is gone is off the roster in the end: its reader finds the link closed,
\* also when it was waiting for room in somebody's queue.
LeaversLeaveRoster == \A m \in Member : stage[m] = "gone" ~> m \notin roster
============================================================================
