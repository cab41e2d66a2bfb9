----------------------------- MODULE FileProofs -----------------------------
(***************************************************************************)
(* Consent to files, for any transfers of any length, any frames of a peer *)
(* that chooses ids, any limit of the gate and any capacity of the channel.*)
(***************************************************************************)
EXTENDS FileTransfer, FiniteSetTheorems, SequenceTheorems, TLAPS

Frames == [kind : {"offer", "chunk", "end"}, id : Transfer, size : Nat]
Offers == [id : Transfer, size : Nat]
Decisions == [id : Transfer, yes : BOOLEAN]

GateOK ==
  /\ pending \subseteq Transfer /\ accepted \subseteq Transfer
  /\ IsFiniteSet(pending) /\ IsFiniteSet(accepted)
  /\ Cardinality(pending) + Cardinality(accepted) <= MaxInFlight
FilesOK ==
  /\ disk \in [Transfer -> {"none", "open", "saved", "broken"}]
  /\ received \in [Transfer -> Nat] /\ size \in [Transfer -> Nat] /\ promised \in [Transfer -> Nat]
  /\ \A t \in accepted : disk[t] = "open"
  /\ \A t \in Transfer : disk[t] # "none" \/ received[t] # 0 => t \in agreed
DecisionsOK ==
  /\ dialog \in SUBSET Offers /\ decisions \in Seq(Decisions)
  /\ answer \in [Transfer -> [size : Nat, yes : BOOLEAN]]
  /\ \A i \in 1 .. Len(decisions) : decisions[i].yes => decisions[i].id \in agreed

\* What holds of every transfer: a decision on its way to drive is the user's,
\* and an accepted transfer has an open file.
BaseOK ==
  /\ toReceiver \in Seq(Frames) /\ crossed \subseteq Transfer
  /\ GateOK /\ FilesOK /\ DecisionsOK

(* While the offers of an id follow one another, a file is open for the    *)
(* offer that was answered last; the question asked, or the answer on its  *)
(* way, is about the offer that is pending, if that still is.              *)
StillOffers(t, n) == t \in pending => promised[t] = n
OpenOK(t) ==
  disk[t] = "open" => t \in accepted /\ answer[t] = [size |-> size[t], yes |-> TRUE]
AskedOK(t) ==
  \A q \in dialog : q.id = t =>
    /\ disk[t] # "open" /\ StillOffers(t, q.size)
    /\ \A i \in 1 .. Len(decisions) : decisions[i].id # t
AnsweredOK(t) ==
  \A i \in 1 .. Len(decisions) : decisions[i].id = t =>
    /\ disk[t] # "open" /\ StillOffers(t, answer[t].size) /\ answer[t].yes = decisions[i].yes
    /\ \A j \in 1 .. Len(decisions) : decisions[j].id = t => i = j
ConsentOK == \A t \in Transfer \ crossed : OpenOK(t) /\ AskedOK(t) /\ AnsweredOK(t)

(* sendFile offers each of its ids once.                                   *)
OfferAt(i, t) == toReceiver[i].kind = "offer" /\ toReceiver[i].id = t
OfferComes(t) == \E i \in 1 .. Len(toReceiver) : OfferAt(i, t)
LoneOffer(t) ==
  \A i \in 1 .. Len(toReceiver), j \in 1 .. Len(toReceiver) : OfferAt(i, t) /\ OfferAt(j, t) => i = j
OfferedOnce(t) ==
  /\ t \notin crossed /\ LoneOffer(t)
  /\ send[t] = "idle" => ~Outstanding(t) /\ ~OfferComes(t)
  /\ OfferComes(t) => ~Outstanding(t)
OnceOK ==
  /\ DOMAIN send = Transfer
  /\ \A t \in Transfer \ Stray : OfferedOnce(t)

IInv == BaseOK /\ ConsentOK /\ OnceOK

-----------------------------------------------------------------------------
(* Sets and queues *)

(* Taking an element out of a set, or moving it from one set to another,   *)
(* makes the two no larger.                                                *)
LEMMA Smaller ==
  ASSUME NEW S, NEW t, IsFiniteSet(S)
  PROVE  /\ IsFiniteSet(S \ {t}) /\ Cardinality(S \ {t}) <= Cardinality(S)
         /\ t \in S => Cardinality(S \ {t}) = Cardinality(S) - 1
         /\ IsFiniteSet(S \cup {t}) /\ Cardinality(S \cup {t}) <= Cardinality(S) + 1
         /\ Cardinality(S) \in Nat /\ Cardinality(S \ {t}) \in Nat
         /\ Cardinality(S \cup {t}) \in Nat
  <1>1. IsFiniteSet(S \ {t}) /\ IsFiniteSet(S \cup {t})
    BY FS_AddElement, FS_RemoveElement
  <1>2. Cardinality(S) \in Nat /\ Cardinality(S \ {t}) \in Nat /\ Cardinality(S \cup {t}) \in Nat
    BY <1>1, FS_CardinalityType
  <1>3. Cardinality(S \ {t}) = IF t \in S THEN Cardinality(S) - 1 ELSE Cardinality(S)
    BY FS_RemoveElement
  <1>4. Cardinality(S \cup {t}) = IF t \in S THEN Cardinality(S) ELSE Cardinality(S) + 1
    BY FS_AddElement
  <1> QED
    BY <1>1, <1>2, <1>3, <1>4

(* What is left of a queue when the frame at i goes.                       *)
Without(r, s, i) ==
  /\ Len(r) = Len(s) - 1
  /\ \A k \in 1 .. Len(s) - 1 : r[k] = s[IF k < i THEN k ELSE k + 1]

LEMMA Removed ==
  ASSUME NEW S, NEW s \in Seq(S), NEW i \in 1 .. Len(s)
  PROVE  RemoveAt(s, i) \in Seq(S) /\ Without(RemoveAt(s, i), s, i)
  <1> DEFINE a == SubSeq(s, 1, i - 1)
             b == SubSeq(s, i + 1, Len(s))
  <1>1. Len(s) \in Nat /\ i \in Nat /\ i >= 1 /\ i <= Len(s)
    BY LenProperties
  <1>2. a \in Seq(S) /\ b \in Seq(S)
    OBVIOUS
  <1>3. Len(a) = i - 1 /\ \A k \in 1 .. i - 1 : a[k] = s[k]
    BY <1>1
  <1>4. Len(b) = Len(s) - i /\ \A k \in 1 .. Len(s) - i : b[k] = s[k + i]
    BY <1>1
  <1>5. RemoveAt(s, i) = a \o b
    BY DEF RemoveAt
  <1> HIDE DEF a, b
  <1>6. a \o b \in Seq(S) /\ Len(a \o b) = Len(s) - 1
    <2>1. a \o b \in Seq(S) /\ Len(a \o b) = Len(a) + Len(b)
      BY <1>2, ConcatProperties
    <2> QED
      BY <2>1, <1>1, <1>3, <1>4
  <1>7. ASSUME NEW k \in 1 .. Len(s) - 1
        PROVE  (a \o b)[k] = s[IF k < i THEN k ELSE k + 1]
    <2>1. (a \o b)[k] = IF k <= Len(a) THEN a[k] ELSE b[k - Len(a)]
      BY <1>1, <1>2, <1>3, <1>4, ConcatProperties
    <2>2. CASE k < i
      BY <2>1, <2>2, <1>1, <1>3
    <2>3. CASE ~(k < i)
      <3>1. k - Len(a) \in 1 .. Len(s) - i /\ k - Len(a) + i = k + 1
        BY <2>3, <1>1, <1>3
      <3> QED
        BY <2>1, <2>3, <3>1, <1>1, <1>3, <1>4
    <2> QED
      BY <2>2, <2>3
  <1> QED
    BY <1>5, <1>6, <1>7 DEF Without

LEMMA Popped ==
  ASSUME NEW S, NEW s \in Seq(S), s # <<>>
  PROVE  /\ Tail(s) \in Seq(S) /\ Without(Tail(s), s, 1) /\ Len(s) \in Nat
         /\ 1 \in 1 .. Len(s) /\ Head(s) = s[1] /\ Head(s) \in S
  <1>1. /\ Tail(s) \in Seq(S) /\ Len(Tail(s)) = Len(s) - 1 /\ Len(s) \in Nat \ {0}
        /\ Head(s) = s[1] /\ Head(s) \in S
    OBVIOUS
  <1>2. \A k \in 1 .. Len(s) - 1 : Tail(s)[k] = s[k + 1]
    OBVIOUS
  <1> QED
    BY <1>1, <1>2 DEF Without

LEMMA Appended ==
  ASSUME NEW S, NEW s \in Seq(S), NEW e \in S
  PROVE  /\ Append(s, e) \in Seq(S) /\ Len(Append(s, e)) = Len(s) + 1 /\ Len(s) \in Nat
         /\ \A k \in 1 .. Len(s) : Append(s, e)[k] = s[k]
         /\ Append(s, e)[Len(s) + 1] = e
  OBVIOUS

-----------------------------------------------------------------------------
(* What holds of every transfer *)

LEMMA BaseBegun == Init => BaseOK
  <1> SUFFICES ASSUME Init PROVE BaseOK
    OBVIOUS
  <1>1. GateOK
    BY FS_EmptySet, TransferAssumption DEF Init, GateOK, TransferAssumption
  <1>2. FilesOK /\ DecisionsOK /\ toReceiver \in Seq(Frames) /\ crossed \subseteq Transfer
    BY DEF Init, FilesOK, DecisionsOK
  <1> QED
    BY <1>1, <1>2 DEF BaseOK

(* The end of a transfer at the gate, whatever becomes of its file.        *)
LEMMA Finished ==
  ASSUME GateOK, FilesOK, NEW t \in Transfer, NEW how \in {"saved", "broken"},
         Finish(t, how), UNCHANGED <<promised, size, received, agreed>>
  PROVE  GateOK' /\ FilesOK'
  <1>1. GateOK'
    <2>1. Cardinality(pending') <= Cardinality(pending) /\ Cardinality(accepted') <= Cardinality(accepted)
          /\ Cardinality(pending) \in Nat /\ Cardinality(accepted) \in Nat
          /\ Cardinality(pending') \in Nat /\ Cardinality(accepted') \in Nat
          /\ IsFiniteSet(pending') /\ IsFiniteSet(accepted')
      BY Smaller DEF GateOK, Finish
    <2> QED
      BY <2>1, TransferAssumption DEF GateOK, Finish, TransferAssumption
  <1>2. FilesOK'
    BY DEF FilesOK, Finish
  <1> QED
    BY <1>1, <1>2

(* The head of the queue, which drive takes.                               *)
LEMMA FrameAtHead ==
  ASSUME BaseOK, TakeFrame
  PROVE  /\ Head(toReceiver) \in Frames /\ Head(toReceiver).id \in Transfer
         /\ Head(toReceiver).size \in Nat /\ toReceiver' \in Seq(Frames)
         /\ toReceiver' = Tail(toReceiver) /\ Without(toReceiver', toReceiver, 1)
         /\ 1 \in 1 .. Len(toReceiver) /\ Head(toReceiver) = toReceiver[1]
  <1>1. toReceiver \in Seq(Frames) /\ toReceiver # <<>> /\ toReceiver' = Tail(toReceiver)
    BY DEF BaseOK, TakeFrame
  <1>2. /\ Head(toReceiver) \in Frames /\ toReceiver' \in Seq(Frames)
        /\ Without(toReceiver', toReceiver, 1)
        /\ 1 \in 1 .. Len(toReceiver) /\ Head(toReceiver) = toReceiver[1]
    BY <1>1, Popped
  <1> QED
    BY <1>1, <1>2 DEF Frames

\* An offer is refused, or has a place at the gate and a question.
LEMMA BaseOffered ==
  ASSUME BaseOK, NEW t \in Transfer, NEW n \in Nat, Offered(t, n), UNCHANGED <<decisions, agreed, answer>>
  PROVE  GateOK' /\ FilesOK' /\ DecisionsOK' /\ crossed' \subseteq Transfer
  <1>1. CASE UNCHANGED <<gate, dialog, crossed>>
    BY <1>1 DEF BaseOK, GateOK, FilesOK, DecisionsOK, gate
  <1>2. CASE /\ Cardinality(pending) + Cardinality(accepted) < MaxInFlight
             /\ pending' = pending \cup {t} /\ promised' = [promised EXCEPT ![t] = n]
             /\ dialog' = {[id |-> t, size |-> n]} /\ crossed' \subseteq crossed \cup {t}
             /\ UNCHANGED <<accepted, disk, size, received>>
    <2>1. /\ Cardinality(pending') <= Cardinality(pending) + 1 /\ IsFiniteSet(pending')
          /\ Cardinality(pending) \in Nat /\ Cardinality(pending') \in Nat
      BY <1>2, Smaller DEF BaseOK, GateOK
    <2>2. Cardinality(accepted) \in Nat
      BY FS_CardinalityType DEF BaseOK, GateOK
    <2>3. GateOK'
      BY <1>2, <2>1, <2>2, TransferAssumption DEF BaseOK, GateOK, TransferAssumption
    <2>4. FilesOK'
      BY <1>2 DEF BaseOK, FilesOK
    <2>5. DecisionsOK'
      BY <1>2 DEF BaseOK, DecisionsOK, Offers
    <2> QED
      BY <1>2, <2>3, <2>4, <2>5 DEF BaseOK
  <1> QED
    BY <1>1, <1>2 DEF Offered, Ask

\* A chunk is written, dropped, or ends its transfer.
LEMMA BaseChunk ==
  ASSUME BaseOK, NEW t \in Transfer, ChunkCame(t), UNCHANGED <<decisions, agreed, answer>>
  PROVE  GateOK' /\ FilesOK' /\ DecisionsOK' /\ crossed' \subseteq Transfer
  <1>1. UNCHANGED <<dialog, crossed>>
    BY DEF ChunkCame
  <1>2. DecisionsOK' /\ crossed' \subseteq Transfer
    BY <1>1 DEF BaseOK, DecisionsOK
  <1>3. CASE UNCHANGED gate
    BY <1>2, <1>3 DEF gate, BaseOK, GateOK, FilesOK
  <1>4. CASE disk[t] = "open" /\ WriteChunk(t) /\ UNCHANGED <<pending, accepted, promised, disk, size>>
    <2>1. FilesOK'
      BY <1>4 DEF BaseOK, FilesOK, WriteChunk
    <2> QED
      BY <1>2, <1>4, <2>1 DEF BaseOK, GateOK
  <1>5. CASE Finish(t, "broken") /\ UNCHANGED <<promised, size, received>>
    BY <1>2, <1>5, Finished DEF BaseOK
  <1> QED
    BY <1>3, <1>4, <1>5 DEF ChunkCame

(* The frames drive takes. *)
LEMMA BaseFrame ==
  ASSUME BaseOK, TakeFrame
  PROVE  BaseOK'
  <1> DEFINE f == Head(toReceiver)
  <1>1. /\ f.kind \in {"offer", "chunk", "end"} /\ f.id \in Transfer /\ f.size \in Nat
        /\ toReceiver' \in Seq(Frames)
    BY FrameAtHead DEF Frames
  <1>2. UNCHANGED <<decisions, agreed, answer>>
    BY DEF TakeFrame
  <1>3. /\ f.kind = "offer" => Offered(f.id, f.size)
        /\ f.kind = "chunk" => ChunkCame(f.id)
        /\ f.kind = "end" => EndCame(f.id)
    BY DEF TakeFrame
  <1> HIDE DEF f
  <1>4. GateOK' /\ FilesOK' /\ DecisionsOK' /\ crossed' \subseteq Transfer
    <2>1. CASE f.kind = "offer"
      BY <1>1, <1>2, <1>3, <2>1, BaseOffered
    <2>2. CASE f.kind = "chunk"
      BY <1>1, <1>2, <1>3, <2>2, BaseChunk
    <2>3. CASE f.kind = "end"
      <3>1. Finish(f.id, "saved") /\ UNCHANGED <<promised, size, received, dialog, crossed>>
        BY <1>3, <2>3 DEF EndCame
      <3>2. GateOK' /\ FilesOK'
        BY <1>1, <1>2, <3>1, Finished DEF BaseOK
      <3>3. DecisionsOK' /\ crossed' \subseteq Transfer
        BY <1>2, <3>1 DEF BaseOK, DecisionsOK
      <3> QED
        BY <3>2, <3>3
    <2> QED
      BY <1>1, <2>1, <2>2, <2>3
  <1> QED
    BY <1>1, <1>4 DEF BaseOK

(* The user's answer, and what drive makes of it. *)
LEMMA BaseAnswer ==
  ASSUME BaseOK, NEW yes \in BOOLEAN, Answer(yes)
  PROVE  BaseOK'
  <1> PICK q \in dialog :
        /\ dialog' = {} /\ decisions' = Append(decisions, [id |-> q.id, yes |-> yes])
        /\ agreed' = IF yes THEN agreed \cup {q.id} ELSE agreed
        /\ answer' = [answer EXCEPT ![q.id] = [size |-> q.size, yes |-> yes]]
    BY DEF Answer
  <1> DEFINE d == [id |-> q.id, yes |-> yes]
  <1>1. UNCHANGED <<toReceiver, gate, crossed>>
    BY DEF Answer
  <1>2. q.id \in Transfer /\ q.size \in Nat /\ d \in Decisions /\ decisions \in Seq(Decisions)
    BY DEF BaseOK, DecisionsOK, Offers, Decisions
  <1>3. decisions' \in Seq(Decisions)
        /\ Len(decisions') = Len(decisions) + 1 /\ Len(decisions) \in Nat
        /\ (\A k \in 1 .. Len(decisions) : decisions'[k] = decisions[k])
        /\ decisions'[Len(decisions) + 1] = d
    BY <1>2, Appended
  <1>4. ASSUME NEW i \in 1 .. Len(decisions'), decisions'[i].yes
        PROVE  decisions'[i].id \in agreed'
    <2>1. CASE i = Len(decisions) + 1
      BY <1>3, <1>4, <2>1
    <2>2. CASE i \in 1 .. Len(decisions)
      BY <1>3, <1>4, <2>2 DEF BaseOK, DecisionsOK
    <2> QED
      BY <1>3, <2>1, <2>2
  <1>5. DecisionsOK'
    BY <1>2, <1>3, <1>4 DEF BaseOK, DecisionsOK
  <1>6. GateOK' /\ FilesOK'
    BY <1>1 DEF BaseOK, GateOK, FilesOK, gate
  <1> QED
    BY <1>1, <1>5, <1>6 DEF BaseOK

(* The head of the decisions, which drive takes, and its three outcomes.   *)
LEMMA DecisionAtHead ==
  ASSUME BaseOK, TakeDecision
  PROVE  /\ Head(decisions) \in Decisions /\ Head(decisions).id \in Transfer
         /\ Head(decisions).yes \in BOOLEAN
         /\ Head(decisions).yes => Head(decisions).id \in agreed
         /\ decisions' \in Seq(Decisions) /\ Without(decisions', decisions, 1)
         /\ 1 \in 1 .. Len(decisions) /\ Head(decisions) = decisions[1]
         /\ UNCHANGED <<toReceiver, promised, dialog, history>>
  <1>1. /\ decisions \in Seq(Decisions) /\ decisions # <<>> /\ decisions' = Tail(decisions)
        /\ \A i \in 1 .. Len(decisions) : decisions[i].yes => decisions[i].id \in agreed
        /\ UNCHANGED <<toReceiver, promised, dialog, history>>
    BY DEF BaseOK, DecisionsOK, TakeDecision
  <1>2. /\ Head(decisions) \in Decisions /\ decisions' \in Seq(Decisions)
        /\ Without(decisions', decisions, 1)
        /\ 1 \in 1 .. Len(decisions) /\ Head(decisions) = decisions[1]
    BY <1>1, Popped
  <1> QED
    BY <1>1, <1>2 DEF Decisions

LEMMA BaseDecision ==
  ASSUME BaseOK, TakeDecision
  PROVE  BaseOK'
  <1> DEFINE t == Head(decisions).id
             yes == Head(decisions).yes
  <1>1. /\ t \in Transfer /\ (yes => t \in agreed) /\ accepted \subseteq Transfer
        /\ decisions' \in Seq(Decisions) /\ Without(decisions', decisions, 1)
        /\ UNCHANGED <<toReceiver, promised, dialog, agreed, answer, crossed>>
    BY DecisionAtHead DEF history, BaseOK, GateOK
  <1>2. /\ pending' = pending \ {t}
        /\ \/ UNCHANGED <<accepted, disk, size, received>>
           \/ yes /\ t \in pending /\ accepted' = accepted \cup {t} /\ Start(t)
           \/ /\ yes /\ t \in pending /\ accepted' = accepted \ {t}
              /\ disk' = [disk EXCEPT ![t] = IF @ = "open" THEN "open" ELSE "broken"]
              /\ UNCHANGED <<size, received>>
    BY DEF TakeDecision
  <1> HIDE DEF t, yes
  <1>3. DecisionsOK'
    <2>1. \A i \in 1 .. Len(decisions') : i + 1 \in 1 .. Len(decisions) /\ decisions'[i] = decisions[i + 1]
      BY <1>1 DEF Without, BaseOK, DecisionsOK
    <2> QED
      BY <1>1, <2>1 DEF BaseOK, DecisionsOK
  <1>4. /\ IsFiniteSet(pending) /\ IsFiniteSet(accepted)
        /\ Cardinality(pending) \in Nat /\ Cardinality(accepted) \in Nat
    BY FS_CardinalityType DEF BaseOK, GateOK
  <1>5. /\ IsFiniteSet(pending \ {t}) /\ IsFiniteSet(accepted \ {t})
        /\ IsFiniteSet(accepted \cup {t})
        /\ Cardinality(pending \ {t}) <= Cardinality(pending)
        /\ t \in pending => Cardinality(pending \ {t}) = Cardinality(pending) - 1
        /\ Cardinality(accepted \ {t}) <= Cardinality(accepted)
        /\ Cardinality(accepted \cup {t}) <= Cardinality(accepted) + 1
        /\ Cardinality(pending \ {t}) \in Nat /\ Cardinality(accepted \ {t}) \in Nat
        /\ Cardinality(accepted \cup {t}) \in Nat
    BY <1>4, Smaller
  <1>6. MaxInFlight \in Nat
    BY TransferAssumption DEF TransferAssumption
  <1>7. GateOK' /\ FilesOK'
    <2>1. CASE UNCHANGED <<accepted, disk, size, received>>
      <3>1. GateOK'
        BY <1>1, <1>2, <1>4, <1>5, <1>6, <2>1 DEF BaseOK, GateOK
      <3> QED
        BY <1>1, <2>1, <3>1 DEF BaseOK, FilesOK
    <2>2. CASE yes /\ t \in pending /\ accepted' = accepted \cup {t} /\ Start(t)
      <3>1. GateOK'
        BY <1>1, <1>2, <1>4, <1>5, <1>6, <2>2 DEF BaseOK, GateOK
      <3> QED
        BY <1>1, <2>2, <3>1 DEF BaseOK, FilesOK, Start
    <2>3. CASE /\ yes /\ t \in pending /\ accepted' = accepted \ {t}
               /\ disk' = [disk EXCEPT ![t] = IF @ = "open" THEN "open" ELSE "broken"]
               /\ UNCHANGED <<size, received>>
      <3>1. GateOK'
        BY <1>1, <1>2, <1>4, <1>5, <1>6, <2>3 DEF BaseOK, GateOK
      <3> QED
        BY <1>1, <2>3, <3>1 DEF BaseOK, FilesOK
    <2> QED
      BY <1>2, <2>1, <2>2, <2>3
  <1> QED
    BY <1>1, <1>3, <1>7 DEF BaseOK

(* The channel only ever loses or appends frames of transfers. *)
LEMMA BaseSender ==
  ASSUME BaseOK,
         \/ Shed \/ HearDecision \/ \E t \in Stray : Unprompted(t)
         \/ \E t \in Transfer \ Stray : Begin(t) \/ Wait(t) \/ GiveUp(t) \/ Stream(t)
  PROVE  BaseOK' /\ UNCHANGED <<gate, dialog, decisions, agreed, answer, crossed, ignored>>
  <1>1. UNCHANGED <<gate, dialog, decisions, agreed, answer, crossed, ignored>>
    BY DEF Shed, HearDecision, Unprompted, Begin, Wait, GiveUp, Stream, history
  <1>2. GateOK' /\ FilesOK' /\ DecisionsOK' /\ crossed' \subseteq Transfer
    BY <1>1 DEF BaseOK, GateOK, FilesOK, DecisionsOK, gate
  <1>3. toReceiver' \in Seq(Frames)
    <2>1. toReceiver \in Seq(Frames)
      BY DEF BaseOK
    <2>2. CASE Shed
      BY <2>1, <2>2, Removed, TransferAssumption DEF Shed, TransferAssumption
    <2>3. CASE HearDecision
      BY <2>1, <2>3 DEF HearDecision
    <2>4. ASSUME NEW t \in Stray, Unprompted(t)
          PROVE  toReceiver' \in Seq(Frames)
      <3>1. PICK f \in {Frame("offer", t, n) : n \in Sizes} \cup {Frame("chunk", t, 0), Frame("end", t, 0)} :
              toReceiver' = Append(toReceiver, f)
        BY <2>4 DEF Unprompted
      <3>2. f \in Frames
        BY <3>1, TransferAssumption DEF Frame, Frames, TransferAssumption
      <3> QED
        BY <2>1, <3>1, <3>2
    <2>5. ASSUME NEW t \in Transfer \ Stray, Begin(t) \/ Wait(t) \/ GiveUp(t) \/ Stream(t)
          PROVE  toReceiver' \in Seq(Frames)
      <3>1. Frame("offer", t, Chunks[t]) \in Frames /\ Frame("chunk", t, 0) \in Frames /\ Frame("end", t, 0) \in Frames
        BY TransferAssumption DEF Frame, Frames, TransferAssumption
      <3> QED
        BY <2>1, <2>5, <3>1 DEF Begin, Wait, GiveUp, Stream
    <2> QED
      BY <2>2, <2>3, <2>4, <2>5
  <1> QED
    BY <1>1, <1>2, <1>3 DEF BaseOK

\* The end of the session closes every file.
LEMMA BaseClosed ==
  ASSUME BaseOK, Close
  PROVE  BaseOK'
  <1>1. GateOK'
    BY FS_EmptySet, TransferAssumption DEF Close, GateOK, TransferAssumption
  <1>2. FilesOK'
    BY DEF Close, BaseOK, FilesOK, history
  <1>3. DecisionsOK' /\ toReceiver' \in Seq(Frames) /\ crossed' \subseteq Transfer
    BY DEF Close, BaseOK, DecisionsOK, history
  <1> QED
    BY <1>1, <1>2, <1>3 DEF BaseOK

-----------------------------------------------------------------------------
(* What is open is what was asked about *)

Consented(t) == OpenOK(t) /\ AskedOK(t) /\ AnsweredOK(t)

LEMMA ConsentedStays ==
  ASSUME NEW t, Consented(t), UNCHANGED <<dialog, decisions, answer, size, promised>>,
         pending' \subseteq pending, disk'[t] = "open" => disk[t] = "open" /\ (t \in accepted => t \in accepted')
  PROVE  Consented(t)'
  <1>1. OpenOK(t)'
    BY DEF Consented, OpenOK
  <1>2. AskedOK(t)'
    BY DEF Consented, AskedOK, StillOffers
  <1>3. AnsweredOK(t)'
    BY DEF Consented, AnsweredOK, StillOffers
  <1> QED
    BY <1>1, <1>2, <1>3 DEF Consented

\* A new question is asked of an id of which nothing is open or on its way, or
\* the id has crossed.
LEMMA ConsentOffered ==
  ASSUME BaseOK, ConsentOK, NEW t \in Transfer, NEW n \in Nat, Offered(t, n),
         UNCHANGED <<decisions, answer>>, NEW u \in Transfer \ crossed'
  PROVE  Consented(u)'
  <1>1. CASE UNCHANGED <<gate, dialog, crossed>>
    BY <1>1, ConsentedStays DEF ConsentOK, Consented, gate
  <1>2. CASE /\ pending' = pending \cup {t} /\ promised' = [promised EXCEPT ![t] = n]
             /\ dialog' = {[id |-> t, size |-> n]}
             /\ crossed' = IF Outstanding(t) THEN crossed \cup {t} ELSE crossed
             /\ UNCHANGED <<accepted, disk, size, received>>
    <2>1. u \notin crossed /\ OpenOK(u) /\ AnsweredOK(u)
      BY <1>2 DEF ConsentOK
    <2>2. promised'[t] = n /\ (u # t => promised'[u] = promised[u])
      BY <1>2 DEF BaseOK, FilesOK
    <2>3. OpenOK(u)'
      BY <1>2, <2>1 DEF OpenOK
    <2>4. CASE u # t
      <3>1. AskedOK(u)'
        BY <1>2, <2>4 DEF AskedOK
      <3>2. StillOffers(u, answer[u].size) => StillOffers(u, answer[u].size)'
        BY <1>2, <2>2, <2>4 DEF StillOffers
      <3>3. AnsweredOK(u)'
        BY <1>2, <2>1, <3>2 DEF AnsweredOK
      <3> QED
        BY <2>3, <3>1, <3>3 DEF Consented
    <2>5. CASE u = t
      <3>1. ~Outstanding(t)
        BY <1>2, <2>5
      <3>2. DOMAIN decisions = 1 .. Len(decisions)
        BY DEF BaseOK, DecisionsOK
      <3>3. disk[t] # "open" /\ \A i \in 1 .. Len(decisions) : decisions[i].id # t
        BY <2>1, <2>5, <3>1, <3>2 DEF Outstanding, OpenOK
      <3>4. AskedOK(t)'
        BY <1>2, <2>2, <3>3 DEF AskedOK, StillOffers
      <3>5. AnsweredOK(t)'
        BY <3>3 DEF AnsweredOK
      <3> QED
        BY <2>3, <2>5, <3>4, <3>5 DEF Consented
    <2> QED
      BY <2>4, <2>5
  <1> QED
    BY <1>1, <1>2 DEF Offered, Ask

LEMMA ConsentFinish ==
  ASSUME BaseOK, NEW t \in Transfer, NEW how \in {"saved", "broken"}, Finish(t, how),
         UNCHANGED <<dialog, decisions, answer, size, promised>>,
         NEW u \in Transfer, Consented(u)
  PROVE  Consented(u)'
  <1>1. pending' \subseteq pending
    BY DEF Finish
  <1>2. disk'[u] = "open" => disk[u] = "open" /\ (u \in accepted => u \in accepted')
    BY DEF Finish, BaseOK, FilesOK
  <1> QED
    BY <1>1, <1>2, ConsentedStays

LEMMA ConsentFrame ==
  ASSUME BaseOK, ConsentOK, TakeFrame
  PROVE  ConsentOK'
  <1> DEFINE f == Head(toReceiver)
  <1>1. f.kind \in {"offer", "chunk", "end"} /\ f.id \in Transfer /\ f.size \in Nat
    BY FrameAtHead DEF Frames
  <1>2. UNCHANGED <<decisions, answer>>
    BY DEF TakeFrame
  <1>3. /\ f.kind = "offer" => Offered(f.id, f.size)
        /\ f.kind = "chunk" => ChunkCame(f.id)
        /\ f.kind = "end" => EndCame(f.id)
    BY DEF TakeFrame
  <1> HIDE DEF f
  <1>4. ASSUME NEW u \in Transfer \ crossed'
        PROVE  Consented(u)'
    <2>1. CASE f.kind = "offer"
      BY <1>1, <1>2, <1>3, <2>1, ConsentOffered
    <2>2. CASE f.kind = "chunk"
      <3>1. ChunkCame(f.id) /\ UNCHANGED <<dialog, crossed>>
        BY <1>3, <2>2 DEF ChunkCame
      <3>2. Consented(u)
        BY <3>1 DEF ConsentOK, Consented
      <3>3. CASE UNCHANGED <<pending, accepted, promised, disk, size>>
        BY <1>2, <3>1, <3>2, <3>3, ConsentedStays
      <3>4. CASE Finish(f.id, "broken") /\ UNCHANGED <<promised, size, received>>
        BY <1>1, <1>2, <3>1, <3>2, <3>4, ConsentFinish
      <3> QED
        BY <3>1, <3>3, <3>4 DEF ChunkCame, gate
    <2>3. CASE f.kind = "end"
      <3>1. Finish(f.id, "saved") /\ UNCHANGED <<promised, size, dialog, crossed>>
        BY <1>3, <2>3 DEF EndCame
      <3>2. Consented(u)
        BY <3>1 DEF ConsentOK, Consented
      <3> QED
        BY <1>1, <1>2, <3>1, <3>2, ConsentFinish
    <2> QED
      BY <1>1, <2>1, <2>2, <2>3
  <1> QED
    BY <1>4 DEF ConsentOK, Consented

\* The answer is about the offer that was asked, and the first one on its way.
LEMMA ConsentAnswer ==
  ASSUME BaseOK, ConsentOK, NEW yes \in BOOLEAN, Answer(yes)
  PROVE  ConsentOK'
  <1> PICK q \in dialog :
        /\ dialog' = {} /\ decisions' = Append(decisions, [id |-> q.id, yes |-> yes])
        /\ answer' = [answer EXCEPT ![q.id] = [size |-> q.size, yes |-> yes]]
    BY DEF Answer
  <1> DEFINE d == [id |-> q.id, yes |-> yes]
  <1>1. UNCHANGED <<gate, crossed>>
    BY DEF Answer
  <1>2. q.id \in Transfer /\ q.size \in Nat /\ d \in Decisions /\ decisions \in Seq(Decisions)
    BY DEF BaseOK, DecisionsOK, Offers, Decisions
  <1>3. /\ Len(decisions') = Len(decisions) + 1 /\ Len(decisions) \in Nat
        /\ \A k \in 1 .. Len(decisions) : decisions'[k] = decisions[k]
        /\ decisions'[Len(decisions) + 1] = d
    BY <1>2, Appended
  <1>4. \A i \in 1 .. Len(decisions') :
          \/ i = Len(decisions) + 1 /\ decisions'[i] = d
          \/ i \in 1 .. Len(decisions) /\ decisions'[i] = decisions[i]
    BY <1>3
  <1>5. /\ answer'[q.id] = [size |-> q.size, yes |-> yes]
        /\ \A u \in Transfer : u # q.id => answer'[u] = answer[u]
    BY <1>2 DEF BaseOK, DecisionsOK
  <1>6. d.id = q.id /\ d.yes = yes
    OBVIOUS
  <1> HIDE DEF d
  <1>7. ASSUME NEW u \in Transfer \ crossed'
        PROVE  Consented(u)'
    <2>1. OpenOK(u) /\ AskedOK(u) /\ AnsweredOK(u)
      BY <1>1 DEF ConsentOK
    <2>2. AskedOK(u)'
      BY DEF AskedOK
    <2>3. CASE u # q.id
      <3>1. OpenOK(u)'
        BY <1>1, <1>5, <2>1, <2>3 DEF OpenOK, gate
      <3>2. AnsweredOK(u)'
        <4>1. \A i \in 1 .. Len(decisions') : decisions'[i].id = u =>
                i \in 1 .. Len(decisions) /\ decisions'[i] = decisions[i]
          BY <1>4, <1>6, <2>3
        <4>2. answer'[u] = answer[u] /\ UNCHANGED <<disk, pending, promised>>
          BY <1>1, <1>5, <2>3 DEF gate
        <4> QED
          BY <2>1, <4>1, <4>2 DEF AnsweredOK, StillOffers
      <3> QED
        BY <2>2, <3>1, <3>2 DEF Consented
    <2>4. CASE u = q.id
      <3>1. disk[u] # "open" /\ StillOffers(u, q.size) /\ \A i \in 1 .. Len(decisions) : decisions[i].id # u
        BY <2>1, <2>4 DEF AskedOK
      <3>2. OpenOK(u)'
        BY <1>1, <3>1 DEF OpenOK, gate
      <3>3. AnsweredOK(u)'
        <4>1. \A i \in 1 .. Len(decisions') : decisions'[i].id = u =>
                i = Len(decisions) + 1 /\ decisions'[i].yes = yes
          BY <1>4, <1>6, <3>1
        <4>2. answer'[u].size = q.size /\ answer'[u].yes = yes /\ UNCHANGED <<disk, pending, promised>>
          BY <1>1, <1>5, <2>4 DEF gate
        <4>3. disk'[u] # "open" /\ StillOffers(u, answer[u].size)'
          BY <3>1, <4>2 DEF StillOffers
        <4> QED
          BY <4>1, <4>2, <4>3 DEF AnsweredOK
      <3> QED
        BY <2>2, <3>2, <3>3 DEF Consented
    <2> QED
      BY <2>3, <2>4
  <1> QED
    BY <1>7 DEF ConsentOK, Consented

\* The file is opened for the offer that is pending, which is the one answered.
LEMMA ConsentDecision ==
  ASSUME BaseOK, ConsentOK, TakeDecision
  PROVE  ConsentOK'
  <1> DEFINE t == Head(decisions).id
             yes == Head(decisions).yes
  <1>1. /\ t \in Transfer /\ Without(decisions', decisions, 1) /\ yes \in BOOLEAN
        /\ 1 \in 1 .. Len(decisions) /\ t = decisions[1].id /\ yes = decisions[1].yes
        /\ UNCHANGED <<promised, dialog, answer, crossed>>
    BY DecisionAtHead DEF history
  <1>2. /\ pending' = pending \ {t}
        /\ \/ UNCHANGED <<accepted, disk, size, received>>
           \/ yes /\ t \in pending /\ accepted' = accepted \cup {t} /\ Start(t)
           \/ /\ yes /\ t \in pending /\ accepted' = accepted \ {t}
              /\ disk' = [disk EXCEPT ![t] = IF @ = "open" THEN "open" ELSE "broken"]
              /\ UNCHANGED <<size, received>>
    BY DEF TakeDecision
  <1> HIDE DEF t, yes
  <1>3. /\ \A i \in 1 .. Len(decisions') : i + 1 \in 1 .. Len(decisions) /\ i + 1 # 1 /\ decisions'[i] = decisions[i + 1]
        /\ \A i, j \in 1 .. Len(decisions') : i + 1 = j + 1 => i = j
    BY <1>1 DEF Without, BaseOK, DecisionsOK
  <1>4. /\ disk \in [Transfer -> {"none", "open", "saved", "broken"}] /\ size \in [Transfer -> Nat]
        /\ answer \in [Transfer -> [size : Nat, yes : BOOLEAN]] /\ accepted \subseteq Transfer
    BY DEF BaseOK, FilesOK, DecisionsOK, GateOK
  <1>5. ASSUME NEW u \in Transfer \ crossed'
        PROVE  Consented(u)'
    <2>1. OpenOK(u) /\ AskedOK(u) /\ AnsweredOK(u)
      BY <1>1 DEF ConsentOK
    <2>2. CASE u # t
      <3>1. /\ disk'[u] = disk[u] /\ size'[u] = size[u] /\ (u \in accepted => u \in accepted')
            /\ (u \in pending' => u \in pending) /\ promised'[u] = promised[u] /\ answer'[u] = answer[u]
        BY <1>1, <1>2, <1>4, <2>2 DEF Start
      <3>2. OpenOK(u)'
        BY <2>1, <3>1 DEF OpenOK
      <3>3. AskedOK(u)'
        BY <1>1, <1>3, <2>1, <3>1 DEF AskedOK, StillOffers
      <3>4. AnsweredOK(u)'
        <4>1. /\ StillOffers(u, answer[u].size) => StillOffers(u, answer[u].size)'
              /\ answer'[u].yes = answer[u].yes
          BY <3>1 DEF StillOffers
        <4> QED
          BY <1>3, <2>1, <3>1, <4>1 DEF AnsweredOK
      <3> QED
        BY <3>2, <3>3, <3>4 DEF Consented
    <2>3. CASE u = t
      <3>1. /\ disk[u] # "open" /\ StillOffers(u, answer[u].size) /\ answer[u].yes = yes
            /\ \A j \in 1 .. Len(decisions) : decisions[j].id = u => 1 = j
        BY <1>1, <2>1, <2>3 DEF AnsweredOK
      <3>2. \A q \in dialog : q.id # u
        BY <1>1, <2>1, <2>3 DEF AskedOK
      <3>3. AskedOK(u)'
        BY <1>1, <3>2 DEF AskedOK
      <3>4. AnsweredOK(u)'
        BY <1>3, <3>1 DEF AnsweredOK
      <3>5. OpenOK(u)'
        <4>1. CASE yes /\ t \in pending /\ accepted' = accepted \cup {t} /\ Start(t)
          <5>1. size'[u] = promised[u] /\ u \in accepted' /\ promised[u] = answer[u].size
            BY <1>4, <2>3, <3>1, <4>1 DEF Start, StillOffers
          <5>2. answer[u] \in [size : Nat, yes : BOOLEAN] /\ answer[u].yes = TRUE
            BY <1>4, <3>1, <4>1
          <5>3. answer[u] = [size |-> answer[u].size, yes |-> answer[u].yes]
            BY <5>2
          <5> QED
            BY <1>1, <5>1, <5>2, <5>3 DEF OpenOK
        <4>2. CASE disk'[u] # "open"
          BY <4>2 DEF OpenOK
        <4> QED
          BY <1>2, <1>4, <2>3, <3>1, <4>1, <4>2
      <3> QED
        BY <3>3, <3>4, <3>5 DEF Consented
    <2> QED
      BY <2>2, <2>3
  <1> QED
    BY <1>5 DEF ConsentOK, Consented

\* The session's end closes what is open and forgets what is on its way.
LEMMA ConsentClosed ==
  ASSUME BaseOK, ConsentOK, Close
  PROVE  ConsentOK'
  <1>1. /\ decisions' = <<>> /\ pending' = {} /\ UNCHANGED <<dialog, crossed>>
        /\ \A u \in Transfer : disk'[u] # "open"
    BY DEF Close, history, BaseOK, FilesOK
  <1> QED
    BY <1>1 DEF ConsentOK, OpenOK, AskedOK, AnsweredOK, StillOffers

-----------------------------------------------------------------------------
(* sendFile offers each of its ids once *)

\* A queue that loses a frame has no new offer; nor has it any of an id whose
\* one offer that was.
LEMMA OffersThin ==
  ASSUME NEW i \in 1 .. Len(toReceiver), Len(toReceiver) \in Nat,
         Without(toReceiver', toReceiver, i), NEW t, LoneOffer(t)
  PROVE  /\ LoneOffer(t)' /\ (OfferComes(t)' => OfferComes(t))
         /\ OfferAt(i, t) => ~OfferComes(t)'
  <1> DEFINE from(k) == IF k < i THEN k ELSE k + 1
  <1>1. \A k \in 1 .. Len(toReceiver') :
          from(k) \in 1 .. Len(toReceiver) /\ from(k) # i /\ toReceiver'[k] = toReceiver[from(k)]
    BY DEF Without
  <1>2. \A k, l \in 1 .. Len(toReceiver') : from(k) = from(l) => k = l
    OBVIOUS
  <1> HIDE DEF from
  <1>3. \A k \in 1 .. Len(toReceiver') : OfferAt(k, t)' => OfferAt(from(k), t)
    BY <1>1 DEF OfferAt
  <1>4. LoneOffer(t)'
    BY <1>1, <1>2, <1>3 DEF LoneOffer
  <1> QED
    BY <1>1, <1>3, <1>4 DEF LoneOffer, OfferComes

\* One more frame: of the ids, only the one it offers has one more offer.
LEMMA OffersGrow ==
  ASSUME toReceiver \in Seq(Frames), NEW f \in Frames, toReceiver' = Append(toReceiver, f),
         NEW t, LoneOffer(t)
  PROVE  /\ ~(f.kind = "offer" /\ f.id = t) => LoneOffer(t)' /\ (OfferComes(t)' => OfferComes(t))
         /\ ~OfferComes(t) => LoneOffer(t)'
  <1>1. /\ Len(toReceiver') = Len(toReceiver) + 1 /\ Len(toReceiver) \in Nat
        /\ \A k \in 1 .. Len(toReceiver) : toReceiver'[k] = toReceiver[k]
        /\ toReceiver'[Len(toReceiver) + 1] = f
    BY Appended
  <1>2. \A k \in 1 .. Len(toReceiver') : OfferAt(k, t)' =>
          \/ k \in 1 .. Len(toReceiver) /\ OfferAt(k, t)
          \/ k = Len(toReceiver) + 1 /\ f.kind = "offer" /\ f.id = t
    BY <1>1 DEF OfferAt
  <1>3. ~(f.kind = "offer" /\ f.id = t) => LoneOffer(t)' /\ (OfferComes(t)' => OfferComes(t))
    BY <1>2 DEF LoneOffer, OfferComes
  <1>4. ~OfferComes(t) => LoneOffer(t)'
    BY <1>2 DEF LoneOffer, OfferComes
  <1> QED
    BY <1>3, <1>4

\* A step that brings an id no offer, and nothing of it that was settled back.
LEMMA OnceStays ==
  ASSUME NEW t \in Transfer, OfferedOnce(t), LoneOffer(t)', t \notin crossed',
         OfferComes(t)' => OfferComes(t), Outstanding(t)' => Outstanding(t),
         send'[t] = "idle" => send[t] = "idle"
  PROVE  OfferedOnce(t)'
  BY DEF OfferedOnce

\* The sender's steps.
LEMMA OnceSender ==
  ASSUME BaseOK, OnceOK,
         \/ Shed \/ HearDecision \/ \E t \in Stray : Unprompted(t)
         \/ \E t \in Transfer \ Stray : Begin(t) \/ Wait(t) \/ GiveUp(t) \/ Stream(t)
  PROVE  OnceOK'
  <1>1. UNCHANGED <<gate, dialog, decisions, crossed, ignored>>
    BY BaseSender
  <1>2. \A u : Outstanding(u)' = Outstanding(u)
    BY <1>1 DEF Outstanding, gate
  <1>3. toReceiver \in Seq(Frames) /\ Len(toReceiver) \in Nat /\ DOMAIN send = Transfer
    BY DEF BaseOK, OnceOK
  <1>4. DOMAIN send' = Transfer
    BY <1>3 DEF Shed, HearDecision, Unprompted, Begin, Wait, GiveUp, Stream, Step, sender
  <1>5. ASSUME NEW u \in Transfer \ Stray
        PROVE  OfferedOnce(u)'
    <2>1. OfferedOnce(u) /\ LoneOffer(u) /\ u \notin crossed' /\ (Outstanding(u)' => Outstanding(u))
      BY <1>1, <1>2 DEF OnceOK, OfferedOnce
    <2>2. CASE UNCHANGED toReceiver /\ (send'[u] = "idle" => send[u] = "idle")
      <3>1. LoneOffer(u)' /\ (OfferComes(u)' => OfferComes(u))
        BY <2>1, <2>2 DEF LoneOffer, OfferComes, OfferAt
      <3> QED
        BY <2>1, <2>2, <3>1, OnceStays
    <2>3. ASSUME NEW f \in Frames, toReceiver' = Append(toReceiver, f),
                 ~(f.kind = "offer" /\ f.id = u), send'[u] = "idle" => send[u] = "idle"
          PROVE  OfferedOnce(u)'
      <3>1. LoneOffer(u)' /\ (OfferComes(u)' => OfferComes(u))
        BY <1>3, <2>1, <2>3, OffersGrow
      <3> QED
        BY <2>1, <2>3, <3>1, OnceStays
    <2>4. CASE Shed
      <3>1. /\ FrontCap + 1 \in 1 .. Len(toReceiver)
            /\ toReceiver' = RemoveAt(toReceiver, FrontCap + 1) /\ UNCHANGED send
        BY <1>3, <2>4, TransferAssumption DEF Shed, sender, TransferAssumption
      <3>2. Without(toReceiver', toReceiver, FrontCap + 1)
        BY <1>3, <3>1, Removed
      <3>3. LoneOffer(u)' /\ (OfferComes(u)' => OfferComes(u))
        BY <1>3, <2>1, <3>1, <3>2, OffersThin
      <3> QED
        BY <2>1, <3>1, <3>3, OnceStays
    <2>5. CASE HearDecision
      BY <1>3, <2>2, <2>5 DEF HearDecision, Step
    <2>6. ASSUME NEW t \in Stray, Unprompted(t)
          PROVE  OfferedOnce(u)'
      <3>1. PICK f \in {Frame("offer", t, n) : n \in Sizes} \cup {Frame("chunk", t, 0), Frame("end", t, 0)} :
              toReceiver' = Append(toReceiver, f)
        BY <2>6 DEF Unprompted
      <3>2. f \in Frames /\ f.id = t
        BY <3>1, TransferAssumption DEF Frame, Frames, TransferAssumption
      <3>3. UNCHANGED send /\ u # t
        BY <2>6 DEF Unprompted, sender
      <3> QED
        BY <2>3, <3>1, <3>2, <3>3
    <2>7. ASSUME NEW t \in Transfer \ Stray, Begin(t)
          PROVE  OfferedOnce(u)'
      <3> DEFINE f == Frame("offer", t, Chunks[t])
      <3>1. /\ send[t] = "idle" /\ send' = [send EXCEPT ![t] = "offered"]
            /\ toReceiver' = Append(toReceiver, f)
        BY <2>7 DEF Begin, Step
      <3>2. f \in Frames /\ f.kind = "offer" /\ f.id = t
        BY TransferAssumption DEF Frame, Frames, TransferAssumption
      <3> HIDE DEF f
      <3>3. CASE u = t
        <4>1. ~Outstanding(u) /\ ~OfferComes(u)
          BY <2>1, <3>1, <3>3 DEF OfferedOnce
        <4>2. LoneOffer(u)'
          BY <1>3, <2>1, <3>1, <3>2, <4>1, OffersGrow
        <4>3. send'[u] # "idle" /\ ~Outstanding(u)'
          BY <1>2, <1>3, <3>1, <3>3, <4>1
        <4> QED
          BY <2>1, <4>2, <4>3 DEF OfferedOnce
      <3>4. CASE u # t
        BY <1>3, <2>3, <3>1, <3>2, <3>4
      <3> QED
        BY <3>3, <3>4
    <2>8. ASSUME NEW t \in Transfer \ Stray, Wait(t) \/ GiveUp(t)
          PROVE  OfferedOnce(u)'
      BY <1>3, <2>2, <2>8 DEF Wait, GiveUp, Step
    <2>9. ASSUME NEW t \in Transfer \ Stray, Stream(t)
          PROVE  OfferedOnce(u)'
      <3>1. send'[u] = "idle" => send[u] = "idle"
        BY <1>3, <2>9 DEF Stream, Step
      <3>2. /\ Frame("chunk", t, 0) \in Frames /\ Frame("chunk", t, 0).kind = "chunk"
            /\ Frame("end", t, 0) \in Frames /\ Frame("end", t, 0).kind = "end"
        BY DEF Frame, Frames
      <3>3. \/ UNCHANGED toReceiver
            \/ toReceiver' = Append(toReceiver, Frame("chunk", t, 0))
            \/ toReceiver' = Append(toReceiver, Frame("end", t, 0))
        BY <2>9 DEF Stream
      <3>4. CASE UNCHANGED toReceiver
        BY <2>2, <3>1, <3>4
      <3>5. CASE toReceiver' = Append(toReceiver, Frame("chunk", t, 0))
        BY <2>3, <3>1, <3>2, <3>5
      <3>6. CASE toReceiver' = Append(toReceiver, Frame("end", t, 0))
        BY <2>3, <3>1, <3>2, <3>6
      <3> QED
        BY <3>3, <3>4, <3>5, <3>6
    <2> QED
      BY <2>4, <2>5, <2>6, <2>7, <2>8, <2>9
  <1> QED
    BY <1>4, <1>5 DEF OnceOK

\* What was settled is outstanding again through an offer alone.
LEMMA Settled ==
  ASSUME BaseOK, NEW u
  PROVE  /\ TakeFrame /\ ~(Head(toReceiver).kind = "offer" /\ Head(toReceiver).id = u) =>
              (Outstanding(u)' => Outstanding(u))
         /\ (\E yes \in BOOLEAN : Answer(yes)) \/ TakeDecision \/ Close => (Outstanding(u)' => Outstanding(u))
  <1>0. decisions \in Seq(Decisions) /\ Len(decisions) \in Nat
    BY DEF BaseOK, DecisionsOK
  <1>1. ASSUME TakeFrame, ~(Head(toReceiver).kind = "offer" /\ Head(toReceiver).id = u)
        PROVE  Outstanding(u)' => Outstanding(u)
    <2> DEFINE f == Head(toReceiver)
    <2>1. f.kind \in {"offer", "chunk", "end"}
      BY <1>1, FrameAtHead DEF Frames
    <2>2. /\ UNCHANGED decisions
          /\ f.kind = "offer" => Offered(f.id, f.size)
          /\ f.kind = "chunk" => ChunkCame(f.id)
          /\ f.kind = "end" => EndCame(f.id)
      BY <1>1 DEF TakeFrame
    <2>3. ~(f.kind = "offer" /\ f.id = u)
      BY <1>1
    <2> HIDE DEF f
    <2>4. CASE f.kind = "offer"
      <3>1. f.id # u /\ Offered(f.id, f.size)
        BY <2>2, <2>3, <2>4
      <3>2. CASE UNCHANGED <<gate, dialog, ignored>>
        BY <2>2, <3>2 DEF Outstanding, gate
      <3>3. CASE /\ pending' = pending \cup {f.id} /\ UNCHANGED accepted
                 /\ dialog' = {[id |-> f.id, size |-> f.size]}
                 /\ ignored' = ignored \cup {q.id : q \in dialog}
        <4>1. u \in pending' \cup accepted' \cup ignored' => Outstanding(u)
          BY <3>1, <3>3 DEF Outstanding
        <4>2. \A q \in dialog' : q.id # u
          BY <3>1, <3>3
        <4> QED
          BY <2>2, <4>1, <4>2 DEF Outstanding
      <3> QED
        BY <3>1, <3>2, <3>3 DEF Offered, Ask
    <2>5. CASE f.kind = "chunk"
      BY <2>2, <2>5 DEF ChunkCame, Finish, Outstanding, gate
    <2>6. CASE f.kind = "end"
      BY <2>2, <2>6 DEF EndCame, Finish, Outstanding
    <2> QED
      BY <2>1, <2>4, <2>5, <2>6
  <1>2. ASSUME NEW yes \in BOOLEAN, Answer(yes)
        PROVE  Outstanding(u)' => Outstanding(u)
    <2> PICK q \in dialog : dialog' = {} /\ decisions' = Append(decisions, [id |-> q.id, yes |-> yes])
      BY <1>2 DEF Answer
    <2>1. UNCHANGED <<pending, accepted, ignored>>
      BY <1>2 DEF Answer, gate
    <2> DEFINE d == [id |-> q.id, yes |-> yes]
    <2>2. d \in Decisions /\ d.id = q.id
      BY DEF BaseOK, DecisionsOK, Offers, Decisions
    <2> HIDE DEF d
    <2>3. \A i \in DOMAIN decisions' :
            \/ decisions'[i].id = q.id
            \/ i \in DOMAIN decisions /\ decisions'[i] = decisions[i]
      <3>1. decisions' = Append(decisions, d)
        BY DEF d
      <3>2. /\ decisions' \in Seq(Decisions) /\ Len(decisions') = Len(decisions) + 1
            /\ \A k \in 1 .. Len(decisions) : decisions'[k] = decisions[k]
            /\ decisions'[Len(decisions) + 1] = d
        BY <1>0, <2>2, <3>1, Appended
      <3>3. DOMAIN decisions' = 1 .. Len(decisions) + 1 /\ DOMAIN decisions = 1 .. Len(decisions)
        BY <1>0, <3>2
      <3> QED
        BY <1>0, <2>2, <3>2, <3>3
    <2> QED
      BY <2>1, <2>3 DEF Outstanding
  <1>3. ASSUME TakeDecision
        PROVE  Outstanding(u)' => Outstanding(u)
    <2>1. /\ Without(decisions', decisions, 1) /\ UNCHANGED <<dialog, ignored>> /\ decisions' \in Seq(Decisions)
      BY <1>3, DecisionAtHead DEF history
    <2>2. pending' \cup accepted' \subseteq pending \cup accepted
      BY <1>3 DEF TakeDecision
    <2>3. \A i \in DOMAIN decisions' : i + 1 \in DOMAIN decisions /\ decisions'[i] = decisions[i + 1]
      BY <1>0, <2>1 DEF Without
    <2> QED
      BY <2>1, <2>2, <2>3 DEF Outstanding
  <1>4. ASSUME Close
        PROVE  Outstanding(u)' => Outstanding(u)
    BY <1>4 DEF Close, Outstanding, history
  <1> QED
    BY <1>1, <1>2, <1>3, <1>4

\* The receiver's steps.
LEMMA OnceReceiver ==
  ASSUME BaseOK, OnceOK,
         TakeFrame \/ TakeDecision \/ Close \/ \E yes \in BOOLEAN : Answer(yes)
  PROVE  OnceOK'
  <1>1. UNCHANGED send /\ Len(toReceiver) \in Nat
    <2>1. UNCHANGED send
      BY DEF TakeFrame, TakeDecision, Close, Answer, sender
    <2>2. Len(toReceiver) \in Nat
      BY DEF BaseOK
    <2> QED
      BY <2>1, <2>2
  <1>2. ASSUME NEW u \in Transfer \ Stray
        PROVE  OfferedOnce(u)'
    <2>1. OfferedOnce(u) /\ LoneOffer(u) /\ u \notin crossed
      BY DEF OnceOK, OfferedOnce
    <2>2. CASE TakeFrame
      <3> DEFINE f == Head(toReceiver)
      <3>1. /\ 1 \in 1 .. Len(toReceiver) /\ Without(toReceiver', toReceiver, 1) /\ f = toReceiver[1]
            /\ f.kind \in {"offer", "chunk", "end"}
        BY <2>2, FrameAtHead DEF Frames
      <3>2. LoneOffer(u)' /\ (OfferComes(u)' => OfferComes(u)) /\ (OfferAt(1, u) => ~OfferComes(u)')
        BY <1>1, <2>1, <3>1, OffersThin
      <3>3. OfferAt(1, u) <=> f.kind = "offer" /\ f.id = u
        BY <3>1 DEF OfferAt
      <3>4. /\ f.kind = "offer" => Offered(f.id, f.size)
            /\ f.kind = "chunk" => ChunkCame(f.id)
            /\ f.kind = "end" => EndCame(f.id)
        BY <2>2 DEF TakeFrame
      <3>5. ~OfferAt(1, u) => (Outstanding(u)' => Outstanding(u))
        BY <2>2, <3>3, Settled
      <3> HIDE DEF f
      <3>6. crossed' \subseteq IF f.kind = "offer" /\ Outstanding(f.id) THEN crossed \cup {f.id} ELSE crossed
        BY <3>1, <3>4 DEF Offered, ChunkCame, EndCame
      <3>7. CASE OfferAt(1, u)
        <4>1. send[u] # "idle" /\ ~Outstanding(u)
          BY <2>1, <3>1, <3>7 DEF OfferedOnce, OfferComes
        <4>2. u \notin crossed'
          BY <2>1, <3>3, <3>6, <3>7, <4>1
        <4> QED
          BY <1>1, <3>2, <3>7, <4>1, <4>2 DEF OfferedOnce
      <3>8. CASE ~OfferAt(1, u)
        <4>1. u \notin crossed'
          BY <2>1, <3>3, <3>6, <3>8
        <4> QED
          BY <1>1, <2>1, <3>2, <3>5, <3>8, <4>1, OnceStays
      <3> QED
        BY <3>7, <3>8
    <2>3. CASE TakeDecision \/ Close \/ \E yes \in BOOLEAN : Answer(yes)
      <3>1. u \notin crossed' /\ (Outstanding(u)' => Outstanding(u))
        BY <2>1, <2>3, Settled DEF TakeDecision, Close, Answer, history
      <3>2. toReceiver' = toReceiver \/ toReceiver' = <<>>
        BY <2>3 DEF TakeDecision, Close, Answer
      <3>3. LoneOffer(u)' /\ (OfferComes(u)' => OfferComes(u))
        BY <2>1, <3>2 DEF LoneOffer, OfferComes, OfferAt
      <3> QED
        BY <1>1, <2>1, <3>1, <3>3, OnceStays
    <2> QED
      BY <2>2, <2>3
  <1> QED
    BY <1>1, <1>2 DEF OnceOK

-----------------------------------------------------------------------------

LEMMA Begun == Init => IInv
  <1> SUFFICES ASSUME Init PROVE IInv
    OBVIOUS
  <1>1. ConsentOK
    BY DEF Init, ConsentOK, OpenOK, AskedOK, AnsweredOK
  <1>2. OnceOK
    BY DEF Init, OnceOK, OfferedOnce, LoneOffer, OfferComes, Outstanding
  <1> QED
    BY <1>1, <1>2, BaseBegun DEF IInv

(* The invariant behind the consent gate, for every instance. *)
THEOREM Invariance == Spec => []IInv
  <1>1. IInv /\ [Next]_vars => IInv'
    <2> SUFFICES ASSUME IInv, [Next]_vars PROVE IInv'
      OBVIOUS
    <2>1. BaseOK /\ ConsentOK /\ OnceOK
      BY DEF IInv
    <2>2. CASE UNCHANGED vars
      <3>1. UNCHANGED <<toReceiver, send, dialog, decisions, agreed, answer, crossed, ignored>> /\ UNCHANGED gate
        BY <2>2 DEF vars, sender, history
      <3>2. BaseOK'
        BY <2>1, <3>1 DEF BaseOK, GateOK, FilesOK, DecisionsOK, gate
      <3>3. ConsentOK'
        BY <2>1, <3>1 DEF ConsentOK, OpenOK, AskedOK, AnsweredOK, StillOffers, gate
      <3>4. OnceOK'
        BY <2>1, <3>1 DEF OnceOK, OfferedOnce, LoneOffer, OfferComes, OfferAt, Outstanding, gate
      <3> QED
        BY <3>2, <3>3, <3>4 DEF IInv
    <2>3. CASE \/ Shed \/ HearDecision \/ \E t \in Stray : Unprompted(t)
               \/ \E t \in Transfer \ Stray : Begin(t) \/ Wait(t) \/ GiveUp(t) \/ Stream(t)
      <3>1. BaseOK' /\ UNCHANGED <<gate, dialog, decisions, answer, crossed>>
        BY <2>1, <2>3, BaseSender
      <3>2. ConsentOK'
        BY <2>1, <3>1 DEF ConsentOK, OpenOK, AskedOK, AnsweredOK, StillOffers, gate
      <3> QED
        BY <2>1, <2>3, <3>1, <3>2, OnceSender DEF IInv
    <2>4. CASE TakeFrame
      BY <2>1, <2>4, BaseFrame, ConsentFrame, OnceReceiver DEF IInv
    <2>5. CASE TakeDecision
      BY <2>1, <2>5, BaseDecision, ConsentDecision, OnceReceiver DEF IInv
    <2>6. CASE Close
      BY <2>1, <2>6, BaseClosed, ConsentClosed, OnceReceiver DEF IInv
    <2>7. CASE \E yes \in BOOLEAN : Answer(yes)
      BY <2>1, <2>7, BaseAnswer, ConsentAnswer, OnceReceiver DEF IInv
    <2> QED
      BY <2>2, <2>3, <2>4, <2>5, <2>6, <2>7 DEF Next
  <1> QED
    BY <1>1, Begun, PTL DEF Spec

(* message.rs: whatever frames a peer sends and in whatever order, no byte *)
(* of a file whose user has not agreed reaches disk, a file that is open   *)
(* is the one of the offer its user said yes to, but for ids the peer has  *)
(* offered again too soon, and the gate never holds more than its limit.   *)
THEOREM ConsentFirst == Spec => []NothingWithoutConsent
  <1>1. IInv => NothingWithoutConsent
    <2> SUFFICES ASSUME IInv PROVE NothingWithoutConsent
      OBVIOUS
    <2>1. \A t \in Transfer : disk[t] # "none" \/ received[t] # 0 => t \in agreed
      BY DEF IInv, BaseOK, FilesOK
    <2>2. \A t \in Transfer \ crossed :
            disk[t] = "open" => t \in accepted /\ answer[t] = [size |-> size[t], yes |-> TRUE]
      BY DEF IInv, ConsentOK, OpenOK
    <2>3. crossed \subseteq Stray
      BY DEF IInv, BaseOK, OnceOK, OfferedOnce
    <2>4. /\ \A t \in accepted : disk[t] = "open"
          /\ Cardinality(pending) + Cardinality(accepted) <= MaxInFlight
      BY DEF IInv, BaseOK, FilesOK, GateOK
    <2> QED
      BY <2>1, <2>2, <2>3, <2>4 DEF NothingWithoutConsent
  <1> QED
    BY <1>1, Invariance, PTL
=============================================================================
