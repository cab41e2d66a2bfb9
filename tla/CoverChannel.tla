---------------------------- MODULE CoverChannel ----------------------------
(***************************************************************************)
(* One direction of a cover-traffic channel (cover.rs of famchat-core):    *)
(* messages are framed by their length into one stream of bytes, the       *)
(* stream is sliced into cells of one size at a constant cadence, handed   *)
(* to a transport that keeps order, and put together again at the far end. *)
(*                                                                         *)
(* A byte is named by its message and its place in the framed message, so  *)
(* bytes that end up in the wrong place are told from the right ones.  The *)
(* peer runs the same code: malformed cells and absurd lengths do not      *)
(* arise.  A framed message is kept with its prefix where the code strips  *)
(* it.                                                                     *)
(***************************************************************************)
EXTENDS Integers, Sequences, SequencesExt, FiniteSetsExt

CONSTANTS
  PrefixLen,  \* MSG_LEN_PREFIX
  CellSize,   \* cell_size, payload bytes of one cell
  OutCap,     \* OUTBOUND_CAPACITY, messages queued for sending
  WriterCap,  \* WRITER_QUEUE_CAP, cells built and not yet written
  PipeCap,    \* cells the transport holds
  InCap,      \* INBOUND_CAPACITY, of the queue to the consumer
  ReadyCap,   \* INBOUND_CAPACITY, of the staging buffer before it
  MaxLen,     \* bound: the longest message
  MaxMsgs     \* bound: messages offered

ASSUME CoverAssumption ==
  /\ PrefixLen \in Nat \ {0} /\ CellSize \in Nat \ {0}
  /\ OutCap \in Nat \ {0} /\ WriterCap \in Nat \ {0} /\ PipeCap \in Nat \ {0}
  /\ InCap \in Nat \ {0} /\ ReadyCap \in Nat \ {0}
  /\ MaxLen \in Nat /\ MaxMsgs \in Nat

VARIABLES
  size,      \* history: the length of every message accepted so far
  outbound,  \* "open" while a CoverSender exists, else "dropped"
  queue,     \* out_tx/out_rx: messages accepted
  pacing,    \* sender_task: "running", "flushing" once disconnected, "ended"
  pending,   \* its serialized bytes not yet sent
  cells,     \* cell_tx/cell_rx
  pipe,      \* cells written to the transport and not yet read from it
  link,      \* "up", "shut" after an orderly end, "broken"
  reading,   \* receiver_task: "running" or "ended"
  reasm,     \* its bytes awaiting the end of their message
  ready,     \* messages put together and not yet handed over
  inbox,     \* in_tx/in_rx
  consumer,  \* "open", or "dropped" with the inbound receiver
  taken,     \* history: what the consumer received
  shed,      \* history: messages dropped from a full ready
  stranded   \* history: messages left in ready when the stream ended

sendVars == <<size, outbound, queue, pacing, pending>>
recvVars == <<reading, reasm, ready, inbox, consumer, taken, shed, stranded>>
vars == <<sendVars, cells, pipe, link, recvVars>>

Framed(m) == [i \in 1 .. PrefixLen + size[m] |-> [msg |-> m, at |-> i]]

Init ==
  /\ size = <<>> /\ outbound = "open" /\ queue = <<>>
  /\ pacing = "running" /\ pending = <<>>
  /\ cells = <<>> /\ pipe = <<>> /\ link = "up"
  /\ reading = "running" /\ reasm = <<>> /\ ready = <<>>
  /\ inbox = <<>> /\ consumer = "open" /\ taken = <<>>
  /\ shed = {} /\ stranded = {}

-----------------------------------------------------------------------------
(* The sending side *)

(* try_send: refused when the queue is full or its task is gone. *)
TrySend(len) ==
  /\ Len(size) < MaxMsgs /\ outbound = "open"
  /\ Len(queue) < OutCap /\ pacing # "ended"
  /\ size' = Append(size, len)
  /\ queue' = Append(queue, Len(size) + 1)
  /\ UNCHANGED <<outbound, pacing, pending, cells, pipe, link, recvVars>>

DropOutbound ==
  /\ outbound = "open" /\ outbound' = "dropped"
  /\ UNCHANGED <<size, queue, pacing, pending, cells, pipe, link, recvVars>>

(* The stream once k more messages are serialized, and how many it takes   *)
(* to fill a cell.                                                         *)
Stream(k) == pending \o FlattenSeq([i \in 1 .. k |-> Framed(queue[i])])
Drained == Min({k \in 0 .. Len(queue) : k = Len(queue) \/ Len(Stream(k)) >= CellSize})

(* Mutant of Rest: the bytes are consumed whatever became of their cell.   *)
RestDrained(s, handed) == SubSeq(s, CellSize + 1, Len(s))

(* The bytes go only when the writer has accepted the cell. *)
Rest(s, handed) == IF handed THEN SubSeq(s, CellSize + 1, Len(s)) ELSE s

(* One tick of the pacing loop: a cell, whatever there is to put in it. *)
Tick ==
  /\ pacing # "ended"
  /\ \E k \in {Drained} : \E s \in {Stream(k)} :
       LET handed == link = "up" /\ Len(cells) < WriterCap
           left == Rest(s, handed)
           flushing == pacing = "flushing" \/ (outbound = "dropped" /\ Len(s) < CellSize)
           stops == link # "up" \/ (flushing /\ left = <<>>)
       IN /\ queue' = IF stops THEN <<>> ELSE SubSeq(queue, k + 1, Len(queue))
          /\ cells' = IF handed THEN Append(cells, SubSeq(s, 1, Min({CellSize, Len(s)})))
                               ELSE cells
          /\ pending' = IF stops THEN <<>> ELSE left
          /\ pacing' = IF stops THEN "ended" ELSE IF flushing THEN "flushing" ELSE pacing
  /\ UNCHANGED <<size, outbound, pipe, link, recvVars>>

(* writer_task: waits while the transport takes nothing. *)
WriteCell ==
  /\ link = "up" /\ cells # <<>> /\ Len(pipe) < PipeCap
  /\ cells' = Tail(cells) /\ pipe' = Append(pipe, Head(cells))
  /\ UNCHANGED <<sendVars, link, recvVars>>

Shutdown ==
  /\ link = "up" /\ cells = <<>> /\ pacing = "ended"
  /\ link' = "shut"
  /\ UNCHANGED <<sendVars, cells, pipe, recvVars>>

(* The transport dies: what was not written is gone, and any tail of what  *)
(* was.                                                                    *)
Break ==
  /\ link = "up" /\ link' = "broken"
  /\ cells' = <<>>
  /\ \E n \in 0 .. Len(pipe) : pipe' = SubSeq(pipe, 1, n)
  /\ UNCHANGED <<sendVars, recvVars>>

-----------------------------------------------------------------------------
(* The receiving side *)

(* What a length prefix that starts with this byte says. *)
Declared(byte) == size[byte.msg]

(* The loop that cuts complete messages off the front of reasm: where the  *)
(* k-th one ends, or the last one if there are fewer.                      *)
Ends(bytes) ==
  LET end[k \in 0 .. Len(bytes)] ==
        IF k = 0 THEN 0
        ELSE LET left == SubSeq(bytes, end[k - 1] + 1, Len(bytes))
             IN Len(bytes) - Len(left) +
                IF Len(left) < PrefixLen \/ Len(left) < PrefixLen + Declared(left[1])
                THEN 0 ELSE PrefixLen + Declared(left[1])
  IN end

Cut(bytes) ==
  LET end == Ends(bytes)
      n == Cardinality(Range(end)) - 1
  IN [whole |-> [i \in 1 .. n |-> SubSeq(bytes, end[i - 1] + 1, end[i])],
      rest |-> SubSeq(bytes, end[n] + 1, Len(bytes))]

(* Mutant of Staged: no bound.                                             *)
StagedAll(msgs) == msgs

(* Mutant of Staged: the newest are dropped.                               *)
StagedNewest(msgs) == SubSeq(msgs, 1, Min({Len(msgs), ReadyCap}))

(* The oldest are dropped beyond capacity. *)
Staged(msgs) ==
  SubSeq(msgs, 1 + Max({0, Len(msgs) - ReadyCap}), Len(msgs))

(* Mutant of HandOver: what the inbox has no room for is gone.             *)
HandOverOrDrop(msgs) ==
  LET k == Min({Len(msgs), InCap - Len(inbox)})
  IN /\ inbox' = inbox \o SubSeq(msgs, 1, k)
     /\ ready' = <<>>

(* As many as the consumer has room for; the rest waits for the next cell. *)
HandOver(msgs) ==
  LET k == Min({Len(msgs), InCap - Len(inbox)})
  IN /\ inbox' = inbox \o SubSeq(msgs, 1, k)
     /\ ready' = SubSeq(msgs, k + 1, Len(msgs))

(* receiver_task ends: what it held is dropped with it. *)
StopReading(held) ==
  /\ reading' = "ended" /\ reasm' = <<>> /\ ready' = <<>>
  /\ stranded' = stranded \cup Range(held)

ReadCell ==
  /\ reading = "running" /\ pipe # <<>>
  /\ pipe' = Tail(pipe)
  /\ LET cut == Cut(reasm \o Head(pipe))
         kept == Staged(ready \o cut.whole)
     IN /\ shed' = shed \cup (Range(ready \o cut.whole) \ Range(kept))
        /\ IF consumer = "dropped" /\ kept # <<>>
           THEN StopReading(kept) /\ UNCHANGED inbox
           ELSE HandOver(kept) /\ reasm' = cut.rest /\ UNCHANGED <<reading, stranded>>
  /\ UNCHANGED <<sendVars, cells, link, consumer, taken>>

EndOfStream ==
  /\ reading = "running" /\ pipe = <<>> /\ link # "up"
  /\ StopReading(ready)
  /\ UNCHANGED <<sendVars, cells, pipe, link, inbox, consumer, taken, shed>>

(* The consumer of channel.inbound: SealedChannel's inbound task. *)
Take ==
  /\ consumer = "open" /\ inbox # <<>>
  /\ taken' = Append(taken, Head(inbox)) /\ inbox' = Tail(inbox)
  /\ UNCHANGED <<sendVars, cells, pipe, link, reading, reasm, ready, consumer, shed, stranded>>

DropInbound ==
  /\ consumer = "open" /\ consumer' = "dropped" /\ inbox' = <<>>
  /\ UNCHANGED <<sendVars, cells, pipe, link, reading, reasm, ready, taken, shed, stranded>>

Next ==
  \/ \E len \in 0 .. MaxLen : TrySend(len)
  \/ DropOutbound \/ Tick \/ WriteCell \/ Shutdown \/ Break
  \/ ReadCell \/ EndOfStream \/ Take \/ DropInbound

Spec == Init /\ [][Next]_vars

(* The clock ticks, the tasks are polled, and the consumer, itself a task, *)
(* keeps receiving while it lives.  Reading is asked for by what ReadCell   *)
(* does to the pipe: nothing else takes from a pipe that is up.             *)
Reads == reading = "running" /\ pipe # <<>> /\ pipe' = Tail(pipe)
Fairness ==
  /\ WF_vars(Tick) /\ WF_vars(WriteCell) /\ WF_vars(Shutdown)
  /\ WF_pipe(Reads) /\ WF_vars(EndOfStream) /\ WF_vars(Take)

FairSpec == Spec /\ Fairness

-----------------------------------------------------------------------------
(* Properties *)

Byte == [msg : 1 .. MaxMsgs, at : 1 .. PrefixLen + MaxLen]

\* Every queue within its capacity, whatever the consumer and the link do.
TypeOK ==
  /\ size \in Seq(0 .. MaxLen) /\ Len(size) <= MaxMsgs
  /\ outbound \in {"open", "dropped"} /\ consumer \in {"open", "dropped"}
  /\ queue \in Seq(1 .. MaxMsgs) /\ Len(queue) <= OutCap
  /\ pacing \in {"running", "flushing", "ended"}
  /\ pending \in Seq(Byte)
  /\ cells \in Seq(Seq(Byte)) /\ Len(cells) <= WriterCap
  /\ pipe \in Seq(Seq(Byte)) /\ Len(pipe) <= PipeCap
  /\ \A c \in Range(cells) \cup Range(pipe) : Len(c) <= CellSize
  /\ link \in {"up", "shut", "broken"} /\ reading \in {"running", "ended"}
  /\ reasm \in Seq(Byte)
  /\ ready \in Seq(Seq(Byte)) /\ Len(ready) <= ReadyCap
  /\ inbox \in Seq(Seq(Byte)) /\ Len(inbox) <= InCap
  /\ taken \in Seq(Seq(Byte)) /\ shed \cup stranded \subseteq Seq(Byte)

\* Which message a framed one is; 0 if it is none that was ever accepted.
Identity(bytes) ==
  IF \E m \in DOMAIN size : bytes = Framed(m)
  THEN CHOOSE m \in DOMAIN size : bytes = Framed(m) ELSE 0

(* cover.rs: "Reassembly is byte-for-byte exact and order-preserving."     *)
(* However messages are packed into cells, cut by them or held back by a   *)
(* full writer queue, the consumer is given whole accepted messages, in    *)
(* order, none twice.                                                      *)
Abstract == INSTANCE LossyFifo WITH
  accepted <- Len(size),
  delivered <- [i \in DOMAIN taken |-> Identity(taken[i])]
ImplementsLossyFifo == Abstract!Spec

\* "dropping a `DATA` cell would desync the length-prefixed stream": while the
\* link is up and read, every message accepted is taken, waiting, shed, or on
\* its way as one contiguous stream of bytes; and those in the ready buffer are
\* the newest of the ones put together, so what is shed is always the oldest.
Past == Range(taken) \cup Range(inbox) \cup Range(ready) \cup shed
OnTheWay == reasm \o FlattenSeq(pipe) \o FlattenSeq(cells) \o Stream(Len(queue))
Messages(from, to) == [i \in 1 .. to - from + 1 |-> Framed(from + i - 1)]
StreamIsWhole ==
  link = "up" /\ reading = "running" /\ consumer = "open" =>
    \E n \in 0 .. Len(size) :
      /\ Past = Range(Messages(1, n))
      /\ ready = Messages(n + 1 - Len(ready), n)
      /\ OnTheWay = FlattenSeq(Messages(n + 1, Len(size)))

\* A message accepted for a consumer that keeps receiving gets to it in the
\* end, however the queues in between fill up, also when the sender is dropped
\* right after it ("flush and stop") - unless the code gives it up at one of
\* the named places: a full ready buffer, a broken link, or a stream that ends
\* while the message is still in the ready buffer.
EveryMessageArrives ==
  \A m \in 1 .. MaxMsgs :
    m \in DOMAIN size ~>
      \/ \E b \in Range(taken) \cup shed \cup stranded : Identity(b) = m
      \/ link = "broken" \/ consumer = "dropped"
============================================================================
