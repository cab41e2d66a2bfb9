---------------------------- MODULE GroupProofs ----------------------------
(***************************************************************************)
(* For any number of members, any length of texts, queues and links and    *)
(* any order in which members join, write and leave and the tasks of the   *)
(* relay and the clients go on: nobody can read what was written before    *)
(* the key was sent to her, what one member wrote is shown in order, and   *)
(* of what became of each text nothing but the listed losses is possible.  *)
(***************************************************************************)
EXTENDS GroupRelay, FiniteSetTheorems, SequenceTheorems, TLAPS

-----------------------------------------------------------------------------
(* What the variables hold. *)

\* The iteration that goes with the nth chain key.
Cap(n) == IF n < LastIteration THEN n ELSE LastIteration

Position == [chain : Nat, iteration : Nat]
Point == [iteration : Nat, key : Nat]
Receiver == [chain : Nat, iteration : Nat, skipped : SUBSET Point]
Peers == UNION {[Q -> Receiver] : Q \in SUBSET Member}

Frame ==
  [type : {"Hello"}, id : Member]
    \cup [type : {"Roster"}, members : SUBSET Member]
    \cup [type : {"KeyFor"}, to : Member, from : Member, dist : Position]
    \cup [type : {"Text"}, from : Member, ct : Point]
Delivery == [to : Member, frame : Frame]

Types ==
  /\ stage \in [Member -> {"out", "in", "gone"}]
  /\ sender \in [Member -> Position]
  /\ receivers \in [Member -> Peers]
  /\ keyedTo \in [Member -> SUBSET Member] /\ granted \in [Member -> SUBSET Member]
  /\ roster \subseteq Member
  /\ reader \in [Member -> {"none", "waiting", "telling", "known", "parting", "parted"}]
  /\ writer \in [Member -> BOOLEAN]
  /\ sending \in [Member -> SUBSET Delivery]
  /\ up \in [Member -> Seq(Frame)] /\ down \in [Member -> Seq(Frame)]
  /\ outQ \in [Member -> Seq(Frame)]
  /\ written \in [Member -> Seq(SUBSET Member)]
  /\ shown \in [Member -> Seq([from : Member, n : Nat])]

AtCap(p) == p.iteration = Cap(p.chain)

\* A member's chain has moved on once per text.
Counts ==
  \A m \in Member :
    /\ Len(written[m]) <= MaxTexts
    /\ sender[m].chain = Len(written[m]) /\ AtCap(sender[m])

Lengths ==
  \A m \in Member : Len(up[m]) <= LinkCap /\ Len(down[m]) <= LinkCap /\ Len(outQ[m]) <= OutCap

\* m was granted the key of q before q wrote its texts after the nth.
Since(m, q, n) ==
  m \in granted[q] /\ \A k \in DOMAIN written[q] : k > n => m \in written[q][k]

\* A store holds keys its chain has passed, at their own iterations.
Whole(r) ==
  /\ AtCap(r)
  /\ IsFiniteSet(r.skipped) /\ Cardinality(r.skipped) <= MaxSkippedStore
  /\ \A s \in r.skipped : s.key = s.iteration /\ s.iteration < r.iteration

FrameOK(f) ==
  /\ f.type = "KeyFor" => f.from # f.to /\ AtCap(f.dist) /\ Since(f.to, f.from, f.dist.chain)
  /\ f.type = "Text" => f.ct.iteration = Cap(f.ct.key)
  /\ f.type = "Roster" => IsFiniteSet(f.members)
By(q, f) == f.type \in {"KeyFor", "Text"} => f.from = q
For(m, f) == f.type = "KeyFor" => f.to = m

\* Whose every frame is, wherever it is.
Frames ==
  /\ IsFiniteSet(roster)
  /\ \A m \in Member : \A f \in ToSet(up[m]) : FrameOK(f) /\ By(m, f)
  /\ \A m \in Member : \A d \in sending[m] :
       FrameOK(d.frame) /\ By(m, d.frame) /\ For(d.to, d.frame)
  /\ \A m \in Member : \A f \in ToSet(outQ[m]) \cup ToSet(down[m]) : FrameOK(f) /\ For(m, f)

\* What a receiver can open was written after the grant.
Granted(m, q, r) ==
  /\ q # m /\ Whole(r) /\ Since(m, q, r.chain)
  /\ \A s \in r.skipped : Since(m, q, s.key)
Receivers == \A m \in Member : \A q \in DOMAIN receivers[m] : Granted(m, q, receivers[m][q])

KeyInv == Types /\ Counts /\ Lengths /\ Frames /\ Receivers

-----------------------------------------------------------------------------
(* Sender keys (SenderKey). *)

\* Ratcheting keeps the iteration beside the chain, until it saturates.
LEMMA RatchetedAt ==
  ASSUME NEW p \in Position, AtCap(p)
  PROVE  Ratcheted(p) \in Position /\ AtCap(Ratcheted(p)) /\ Ratcheted(p).chain = p.chain + 1
<1> QED
  BY SenderKeyAssumption DEF Position, AtCap, Cap, Ratcheted, Next1

\* So does what is distributed, and what is encrypted.
LEMMA DistributedAt ==
  ASSUME NEW p \in Position, AtCap(p)
  PROVE  /\ Distribution(p) \in Position /\ AtCap(Distribution(p)) /\ Distribution(p).chain = p.chain
         /\ Ciphertext(p) \in Point /\ Ciphertext(p).key = p.chain
         /\ Ciphertext(p).iteration = Cap(Ciphertext(p).key)
<1> QED
  BY DEF Position, Point, AtCap, Distribution, Ciphertext

\* Pending keys are those of the iterations from the receiver's to the text's.
LEMMA PendingFacts ==
  ASSUME NEW r \in Receiver, AtCap(r), NEW ct \in Point, ct.iteration = Cap(ct.key),
         ct.iteration >= r.iteration
  PROVE  /\ Pending(r, ct) \subseteq Point /\ IsFiniteSet(Pending(r, ct))
         /\ \A s \in Pending(r, ct) :
              s.key = s.iteration /\ r.iteration <= s.iteration /\ s.iteration < ct.iteration
              /\ r.chain <= s.key
<1> DEFINE g == Gap(r, ct)
           at(k) == [iteration |-> r.iteration + k, key |-> r.chain + k]
<1>1. r.chain \in Nat /\ r.iteration \in Nat /\ ct.iteration \in Nat /\ g \in Nat
  BY DEF Receiver, Point, Gap
<1>2. ct.iteration <= LastIteration /\ LastIteration \in Nat
  BY SenderKeyAssumption DEF Cap, Point
<1>3. ASSUME NEW k \in 0 .. g - 1
      PROVE  /\ at(k) \in Point /\ r.iteration + k < ct.iteration
             /\ r.chain = r.iteration
  BY <1>1, <1>2 DEF Gap, Point, AtCap, Cap
<1>4. Pending(r, ct) = {at(k) : k \in 0 .. g - 1}
  BY DEF Pending
<1>5. ASSUME NEW s \in Pending(r, ct)
      PROVE  /\ s \in Point /\ s.key = s.iteration /\ r.iteration <= s.iteration
             /\ s.iteration < ct.iteration /\ r.chain <= s.key
             /\ s.iteration \in 0 .. ct.iteration
  <2>1. PICK k \in 0 .. g - 1 : s = at(k)
    BY <1>4
  <2> QED
    BY <1>1, <1>3, <2>1
<1>6. IsFiniteSet(Pending(r, ct))
  <2> DEFINE h == [s \in Pending(r, ct) |-> s.iteration]
  <2>1. h \in [Pending(r, ct) -> 0 .. ct.iteration]
    BY <1>5
  <2>2. ASSUME NEW a \in Pending(r, ct), NEW b \in Pending(r, ct), h[a] = h[b]
        PROVE  a = b
    BY <1>5, <2>2 DEF Point
  <2>3. h \in Injection(Pending(r, ct), 0 .. ct.iteration)
    BY <2>1, <2>2 DEF Injection, IsInjective
  <2>4. IsFiniteSet(0 .. ct.iteration)
    BY <1>1, FS_Interval
  <2> QED
    BY <2>3, <2>4, FS_Injection
<1> QED
  BY <1>5, <1>6

\* What is stored are the highest of the iterations, as many as there is room for.
LEMMA StoredFacts ==
  ASSUME NEW store \in SUBSET Point, NEW keys \in SUBSET Point,
         IsFiniteSet(store), IsFiniteSet(keys),
         \A s \in store \cup keys : s.key = s.iteration
  PROVE  /\ Stored(store, keys) \subseteq store \cup keys
         /\ IsFiniteSet(Stored(store, keys))
         /\ Cardinality(Stored(store, keys)) <= MaxSkippedStore
<1> DEFINE all == {s \in store : \A k \in keys : k.iteration # s.iteration} \cup keys
           above(s) == {t \in all : t.iteration > s.iteration}
           kept == {s \in all : Cardinality(above(s)) < MaxSkippedStore}
<1>1. Stored(store, keys) = kept
  BY DEF Stored
<1>2. all \subseteq store \cup keys /\ IsFiniteSet(all) /\ all \subseteq Point
  <2>1. IsFiniteSet(store \cup keys)
    BY FS_Union
  <2>2. all \in SUBSET (store \cup keys)
    OBVIOUS
  <2> HIDE DEF all
  <2> QED
    BY <2>1, <2>2, FS_Subset
<1>3. ASSUME NEW s \in all
      PROVE  IsFiniteSet(above(s)) /\ Cardinality(above(s)) \in Nat
  <2> HIDE DEF all
  <2>1. above(s) \in SUBSET all
    OBVIOUS
  <2> QED
    BY <1>2, <2>1, FS_Subset, FS_CardinalityType
<1>4. ASSUME NEW a \in all, NEW b \in all, a.iteration < b.iteration
      PROVE  Cardinality(above(a)) # Cardinality(above(b))
  <2>1. a.iteration \in Nat /\ b.iteration \in Nat /\ \A t \in all : t.iteration \in Nat
    BY <1>2 DEF Point
  <2> HIDE DEF all
  <2>2. above(b) \in SUBSET above(a) /\ b \in above(a) /\ b \notin above(b)
    BY <1>4, <2>1
  <2> QED
    BY <1>3, <2>2, FS_Subset
<1>5. \A a, b \in all : a.iteration = b.iteration => a = b
  BY <1>2 DEF Point
<1>6. IsFiniteSet(kept) /\ Cardinality(kept) \in Nat
  <2> HIDE DEF all
  <2>1. kept \in SUBSET all
    OBVIOUS
  <2> QED
    BY <1>2, <2>1, FS_Subset, FS_CardinalityType
<1>7. Cardinality(kept) <= MaxSkippedStore
  <2>1. MaxSkippedStore \in Nat
    BY SenderKeyAssumption
  <2> DEFINE room == 1 .. MaxSkippedStore
             h == [s \in kept |-> Cardinality(above(s)) + 1]
  <2>2. IsFiniteSet(room) /\ Cardinality(room) = MaxSkippedStore
    BY <2>1, FS_Interval
  <2>3. h \in [kept -> room]
    <3>1. ASSUME NEW s \in kept
          PROVE  Cardinality(above(s)) + 1 \in room
      <4>1. s \in all /\ Cardinality(above(s)) < MaxSkippedStore
        OBVIOUS
      <4>2. Cardinality(above(s)) \in Nat
        BY <1>3, <4>1
      <4> HIDE DEF above, all
      <4> QED
        BY <2>1, <4>1, <4>2
    <3> HIDE DEF above, kept, room
    <3> QED
      BY <3>1
  <2>4. ASSUME NEW a \in kept, NEW b \in kept, a # b
        PROVE  h[a] # h[b]
    <3>1. a \in all /\ b \in all /\ a.iteration \in Nat /\ b.iteration \in Nat
      BY <1>2 DEF Point
    <3>2. a.iteration < b.iteration \/ b.iteration < a.iteration
      BY <1>5, <2>4, <3>1
    <3>3. Cardinality(above(a)) # Cardinality(above(b))
      <4> HIDE DEF above, all
      <4> QED
        BY <1>4, <3>1, <3>2
    <3>4. Cardinality(above(a)) \in Nat /\ Cardinality(above(b)) \in Nat
      BY <1>3, <3>1
    <3> HIDE DEF above, all
    <3> QED
      BY <3>3, <3>4
  <2> HIDE DEF h, kept, room
  <2>5. ~(Cardinality(room) < Cardinality(kept))
    BY <1>6, <2>2, <2>3, <2>4, FS_PigeonHole
  <2> QED
    BY <1>6, <2>1, <2>2, <2>5
<1> QED
  BY <1>1, <1>2, <1>6, <1>7

\* A receiver stays whole; it only gains keys its chain had not passed.
LEMMA OpenedWhole ==
  ASSUME NEW r \in Receiver, Whole(r), NEW ct \in Point, ct.iteration = Cap(ct.key),
         Opens(r, ct)
  PROVE  /\ Opened(r, ct) \in Receiver /\ Whole(Opened(r, ct))
         /\ r.chain <= Opened(r, ct).chain
         /\ \A s \in Opened(r, ct).skipped : s \in r.skipped \/ (s.key \in Nat /\ r.chain <= s.key)
<1>1. CASE Cached(r, ct) # {}
  <2> DEFINE o == Opened(r, ct)
             left == r.skipped \ Cached(r, ct)
  <2>1. o = [r EXCEPT !.skipped = left]
    BY <1>1 DEF Opened
  <2>2. o \in Receiver /\ o.chain = r.chain /\ o.iteration = r.iteration /\ o.skipped = left
    BY <2>1 DEF Receiver
  <2>3. left \in SUBSET r.skipped /\ IsFiniteSet(left) /\ Cardinality(left) <= Cardinality(r.skipped)
    BY FS_Subset DEF Whole
  <2>4. Cardinality(left) \in Nat /\ Cardinality(r.skipped) \in Nat
    BY <2>3, FS_CardinalityType DEF Whole
  <2>5. Cardinality(left) <= MaxSkippedStore
    BY <2>3, <2>4, SenderKeyAssumption DEF Whole
  <2>6. r.chain \in Nat
    BY DEF Receiver
  <2> HIDE DEF left, o
  <2>7. Whole(o)
    BY <2>2, <2>3, <2>5 DEF Whole, AtCap
  <2> QED
    BY <2>2, <2>3, <2>6, <2>7 DEF o
<1>2. CASE Cached(r, ct) = {}
  <2> DEFINE o == Opened(r, ct)
             keys == Pending(r, ct)
             kept == Stored(r.skipped, keys)
  <2>1. o = [chain |-> ct.key + 1, iteration |-> Next1(ct.iteration), skipped |-> kept]
    BY <1>2 DEF Opened
  <2>2. ct.iteration >= r.iteration /\ r.chain + Gap(r, ct) = ct.key
    BY <1>2 DEF Opens
  <2>3. r.chain \in Nat /\ r.iteration \in Nat /\ ct.iteration \in Nat /\ ct.key \in Nat
        /\ LastIteration \in Nat /\ r.skipped \in SUBSET Point
    BY SenderKeyAssumption DEF Receiver, Point
  <2>4. r.chain <= ct.key
    BY <2>2, <2>3 DEF Gap
  <2>5. /\ keys \in SUBSET Point /\ IsFiniteSet(keys)
        /\ \A s \in keys : s.key = s.iteration /\ s.iteration < ct.iteration /\ r.chain <= s.key
    BY <2>2, PendingFacts DEF Whole
  <2>6. \A s \in r.skipped : s.key = s.iteration /\ s.iteration < r.iteration
    BY DEF Whole
  <2>7. kept \subseteq r.skipped \cup keys /\ IsFiniteSet(kept) /\ Cardinality(kept) <= MaxSkippedStore
    <3> HIDE DEF keys
    <3> QED
      BY <2>3, <2>5, <2>6, StoredFacts DEF Whole
  <2> HIDE DEF kept, keys
  <2>8. \A s \in kept : /\ s \in Point /\ s.key = s.iteration /\ s.iteration < ct.iteration + 1
                        /\ s \in r.skipped \/ r.chain <= s.key
    <3> SUFFICES ASSUME NEW s \in kept
                 PROVE  /\ s \in Point /\ s.key = s.iteration /\ s.iteration < ct.iteration + 1
                        /\ s \in r.skipped \/ r.chain <= s.key
      OBVIOUS
    <3>1. CASE s \in keys
      BY <2>3, <2>5, <3>1 DEF Point
    <3>2. CASE s \in r.skipped
      BY <2>2, <2>3, <2>6, <3>2 DEF Point
    <3> QED
      BY <2>7, <3>1, <3>2
  <2>9. Next1(ct.iteration) \in Nat /\ Next1(ct.iteration) = Cap(ct.key + 1)
    BY <2>3 DEF Next1, Cap
  <2>10. \A s \in kept : s.iteration < Next1(ct.iteration)
    <3> SUFFICES ASSUME NEW s \in kept PROVE s.iteration < Next1(ct.iteration)
      OBVIOUS
    <3>1. s.iteration \in Nat /\ s.iteration < ct.iteration + 1 /\ ct.iteration <= LastIteration
      BY <2>3, <2>8 DEF Point, Cap
    <3>2. CASE s \in keys
      BY <2>3, <2>5, <3>1, <3>2 DEF Next1
    <3>3. CASE s \in r.skipped
      BY <2>2, <2>3, <2>6, <3>1, <3>3 DEF Next1
    <3> QED
      BY <2>7, <3>2, <3>3
  <2>11. o \in Receiver /\ o.chain = ct.key + 1 /\ o.iteration = Next1(ct.iteration) /\ o.skipped = kept
    BY <2>1, <2>3, <2>8, <2>9 DEF Receiver
  <2> HIDE DEF o
  <2>12. Whole(o)
    BY <2>7, <2>8, <2>9, <2>10, <2>11 DEF Whole, AtCap
  <2>13. r.chain <= o.chain
    BY <2>3, <2>4, <2>11
  <2>14. \A s \in kept : s \in r.skipped \/ (s.key \in Nat /\ r.chain <= s.key)
    BY <2>8 DEF Point
  <2> QED
    BY <2>11, <2>12, <2>13, <2>14 DEF o
<1> QED
  BY <1>1, <1>2

-----------------------------------------------------------------------------
(* Queues and links. *)

\* What comes off the front.
LEMMA TakenOff ==
  ASSUME NEW S, NEW s \in Seq(S), s # <<>>
  PROVE  /\ Tail(s) \in Seq(S) /\ Len(Tail(s)) = Len(s) - 1 /\ Len(s) \in Nat
         /\ ToSet(Tail(s)) \subseteq ToSet(s) /\ Head(s) \in ToSet(s) /\ Head(s) \in S
         /\ Head(s) = s[1] /\ \A i \in DOMAIN Tail(s) : i + 1 \in DOMAIN s /\ Tail(s)[i] = s[i + 1]
<1>1. /\ Tail(s) \in Seq(S) /\ Len(Tail(s)) = Len(s) - 1 /\ Len(s) \in Nat \ {0}
      /\ Head(s) = s[1] /\ DOMAIN s = 1 .. Len(s) /\ Head(s) \in S
  OBVIOUS
<1>2. DOMAIN Tail(s) = 1 .. Len(s) - 1
  BY <1>1
<1>3. \A i \in DOMAIN Tail(s) : i + 1 \in DOMAIN s /\ Tail(s)[i] = s[i + 1]
  BY <1>1, <1>2
<1> QED
  BY <1>1, <1>3 DEF ToSet

\* What goes to the back.
LEMMA PutBehind ==
  ASSUME NEW S, NEW s \in Seq(S), NEW x \in S
  PROVE  /\ Append(s, x) \in Seq(S) /\ Len(Append(s, x)) = Len(s) + 1 /\ Len(s) \in Nat
         /\ ToSet(Append(s, x)) \subseteq ToSet(s) \cup {x}
         /\ \A i \in DOMAIN Append(s, x) :
              \/ i \in DOMAIN s /\ Append(s, x)[i] = s[i]
              \/ i = Len(s) + 1 /\ Append(s, x)[i] = x
<1>1. /\ Append(s, x) \in Seq(S) /\ Len(Append(s, x)) = Len(s) + 1 /\ Len(s) \in Nat
      /\ \A i \in DOMAIN Append(s, x) :
           \/ i \in DOMAIN s /\ Append(s, x)[i] = s[i]
           \/ i = Len(s) + 1 /\ Append(s, x)[i] = x
  OBVIOUS
<1> QED
  BY <1>1 DEF ToSet

\* One sequence behind another.
LEMMA PutTogether ==
  ASSUME NEW S, NEW s \in Seq(S), NEW t \in Seq(S)
  PROVE  /\ s \o t \in Seq(S) /\ Len(s \o t) = Len(s) + Len(t)
         /\ ToSet(s \o t) \subseteq ToSet(s) \cup ToSet(t)
         /\ \A i \in DOMAIN (s \o t) :
              \/ i \in DOMAIN s /\ (s \o t)[i] = s[i]
              \/ i - Len(s) \in DOMAIN t /\ (s \o t)[i] = t[i - Len(s)]
<1>1. /\ s \o t \in Seq(S) /\ Len(s \o t) = Len(s) + Len(t)
      /\ Len(s) \in Nat /\ Len(t) \in Nat /\ DOMAIN s = 1 .. Len(s) /\ DOMAIN t = 1 .. Len(t)
      /\ \A i \in 1 .. Len(s) + Len(t) : (s \o t)[i] = IF i <= Len(s) THEN s[i] ELSE t[i - Len(s)]
  BY ConcatProperties, LenProperties
<1>2. DOMAIN (s \o t) = 1 .. Len(s) + Len(t)
  BY <1>1, LenProperties
<1>3. \A i \in DOMAIN (s \o t) :
        \/ i \in DOMAIN s /\ (s \o t)[i] = s[i]
        \/ i - Len(s) \in DOMAIN t /\ (s \o t)[i] = t[i - Len(s)]
  BY <1>1, <1>2
<1> QED
  BY <1>1, <1>3 DEF ToSet

-----------------------------------------------------------------------------
(* What a step does to each queue. *)

\* The keys that go out on a roster.
Keys(m, keys, to) ==
  /\ keys \in Seq(Frame) /\ to \in SUBSET Member
  /\ up' = [up EXCEPT ![m] = @ \o keys] /\ Len(up[m]) + Len(keys) <= LinkCap
  /\ granted' = [granted EXCEPT ![m] = @ \cup to] /\ UNCHANGED written
  /\ \A f \in ToSet(keys) : \E t \in to : t # m /\ f = KeyFor(t, m, Distribution(sender[m]))

\* One to each of those who are on the roster and were not keyed before.
Firsts(m, keys, to) ==
  /\ \A i, j \in DOMAIN keys : keys[i].to = keys[j].to => i = j
  /\ \A t \in to : /\ t \notin keyedTo[m] /\ t \in keyedTo'[m] /\ t # m
                    /\ t \in Head(down[m]).members /\ \E f \in ToSet(keys) : f.to = t

UpMoves(m) ==
  \/ UNCHANGED up
  \/ up' = [up EXCEPT ![m] = <<>>]
  \/ up' = [up EXCEPT ![m] = <<Hello(m)>>]
  \/ up[m] # <<>> /\ up' = [up EXCEPT ![m] = Tail(@)]
  \/ /\ Len(up[m]) < LinkCap
     /\ up' = [up EXCEPT ![m] = Append(@, Text(m, Ciphertext(sender[m])))]
     /\ written' = [written EXCEPT ![m] = Append(@, granted[m])]
  \/ \E keys, to : Keys(m, keys, to)

DownMoves(m) ==
  \/ UNCHANGED down
  \/ down' = [down EXCEPT ![m] = <<>>]
  \/ down[m] # <<>> /\ down' = [down EXCEPT ![m] = Tail(@)]
  \/ /\ outQ[m] # <<>> /\ Len(down[m]) < LinkCap
     /\ down' = [down EXCEPT ![m] = Append(@, Head(outQ[m]))]

OutMoves(m) ==
  \/ UNCHANGED outQ
  \/ outQ' = [outQ EXCEPT ![m] = <<>>]
  \/ outQ[m] # <<>> /\ outQ' = [outQ EXCEPT ![m] = Tail(@)]
  \/ \E d \in sending[m] :
       /\ Len(outQ[d.to]) < OutCap
       /\ outQ' = [outQ EXCEPT ![d.to] = Append(@, d.frame)]

\* What a reader sets out to deliver.
Routes(m, S) ==
  \/ S \subseteq sending[m]
  \/ \E T \in SUBSET Member : S = {[to |-> t, frame |-> Roster(roster)] : t \in T}
  \/ up[m] # <<>> /\
     LET f == Head(up[m])
     IN \/ f.type = "Text" /\ \E T \in SUBSET Member : S = {[to |-> t, frame |-> f] : t \in T}
        \/ f.type = "KeyFor"
             /\ \E T \in SUBSET {f.to} : S = {[to |-> t, frame |-> f] : t \in T}
SendMoves(m) ==
  \/ UNCHANGED sending
  \/ \E S : Routes(m, S) /\ sending' = [sending EXCEPT ![m] = S]

Moves(m) == UpMoves(m) /\ DownMoves(m) /\ OutMoves(m) /\ SendMoves(m)

\* The front of a sequence.
LEMMA FrontOf ==
  ASSUME NEW S, NEW s \in Seq(S), NEW n \in Nat, n <= Len(s)
  PROVE  \A i \in 1 .. n : i \in DOMAIN s /\ SubSeq(s, 1, n)[i] = s[i]
<1>1. Len(s) \in Nat /\ DOMAIN s = 1 .. Len(s)
  OBVIOUS
<1> SUFFICES ASSUME NEW i \in 1 .. n
             PROVE  i \in DOMAIN s /\ SubSeq(s, 1, n)[i] = s[i]
  OBVIOUS
<1>2. i \in 1 .. Len(s)
  BY <1>1
<1>3. SubSeq(s, 1, n)[i] = s[i]
  BY <1>1, <1>2
<1> QED
  BY <1>1, <1>2, <1>3

\* What a client queues on a roster.
LEMMA OnRosterKeys ==
  ASSUME Types, Lengths, Frames, NEW m \in Member, OnRoster(m)
  PROVE  /\ \E keys, to : Keys(m, keys, to) /\ Firsts(m, keys, to)
         /\ keyedTo' \in [Member -> SUBSET Member] /\ \A q \in Member : keyedTo[q] \subseteq keyedTo'[q]
<1> DEFINE f == Head(down[m])
           new == f.members \ (keyedTo[m] \cup {m})
<1>1. down[m] \in Seq(Frame) /\ down[m] # <<>> /\ f.type = "Roster"
  BY DEF OnRoster, Reads, Types
<1>2. f \in ToSet(down[m]) /\ f \in Frame
  BY <1>1, TakenOff
<1>3. FrameOK(f)
  BY <1>2 DEF Frames
<1>4. f.members \subseteq Member /\ IsFiniteSet(f.members)
  BY <1>1, <1>2, <1>3 DEF Frame, FrameOK
<1>5. PICK order \in SetToSeqs(new) :
        LET sent == Fitting(order, up[m])
            frame(i) == KeyFor(sent[i], m, Distribution(sender[m]))
        IN /\ up' = [up EXCEPT ![m] = @ \o [i \in DOMAIN sent |-> frame(i)]]
           /\ granted' = [granted EXCEPT ![m] = @ \cup ToSet(sent)]
           /\ keyedTo' = [keyedTo EXCEPT ![m] = @ \cup new]
  BY DEF OnRoster
<1>6. new \in SUBSET Member /\ m \notin new /\ Cardinality(new) \in Nat
  <2>1. new \in SUBSET f.members
    OBVIOUS
  <2>2. IsFiniteSet(new)
    BY <1>4, <2>1, FS_Subset
  <2> QED
    BY <1>4, <2>2, FS_CardinalityType
<1> HIDE DEF new
<1>7. order \in [1 .. Cardinality(new) -> new]
  BY DEF SetToSeqs
<1>8. order \in Seq(new) /\ Len(order) \in Nat
  BY <1>6, <1>7
<1> DEFINE room == Room(up[m])
           n == Min({Len(order), room})
<1>9. room \in Nat /\ Len(up[m]) + room = LinkCap
  BY RelayAssumption DEF Room, Types, Lengths
<1>10. n \in Nat /\ n <= Len(order) /\ n <= room
  <2> HIDE DEF room
  <2>1. \E x \in {Len(order), room} : \A y \in {Len(order), room} : x <= y
    BY <1>8, <1>9
  <2>2. n \in {Len(order), room} /\ \A y \in {Len(order), room} : n <= y
    BY <2>1 DEF Min
  <2> QED
    BY <1>8, <1>9, <2>2
<1> DEFINE sent == Fitting(order, up[m])
           keys == [i \in DOMAIN sent |-> KeyFor(sent[i], m, Distribution(sender[m]))]
<1>11. sent = SubSeq(order, 1, n)
  BY DEF Fitting
<1> HIDE DEF n, room
<1>12. sent \in Seq(new) /\ Len(sent) = n /\ DOMAIN sent = 1 .. n
  <2>1. SubSeq(order, 1, n) \in Seq(new) /\ Len(SubSeq(order, 1, n)) = n
    BY <1>8, <1>10
  <2> QED
    BY <1>11, <2>1
<1>13. \A i \in 1 .. n : sent[i] \in new
  <2> HIDE DEF sent
  <2> QED
    BY <1>12
<1> HIDE DEF sent
<1>14. Distribution(sender[m]) \in Position
  BY DEF Types, Position, Distribution
<1>15. ASSUME NEW i \in 1 .. n
       PROVE  KeyFor(sent[i], m, Distribution(sender[m])) \in Frame
  BY <1>6, <1>13, <1>14 DEF KeyFor, Frame
<1>16. keys \in Seq(Frame) /\ Len(keys) = n /\ DOMAIN keys = 1 .. n
  <2> DEFINE frame(i) == KeyFor(sent[i], m, Distribution(sender[m]))
  <2>1. keys = [i \in 1 .. n |-> frame(i)]
    BY <1>12
  <2>2. \A i \in 1 .. n : frame(i) \in Frame
    BY <1>15
  <2> HIDE DEF frame
  <2>3. [i \in 1 .. n |-> frame(i)] \in Seq(Frame) /\ Len([i \in 1 .. n |-> frame(i)]) = n
    BY <1>10, <2>2
  <2> HIDE DEF keys
  <2> QED
    BY <1>10, <2>1, <2>3
<1>17. ASSUME NEW k \in ToSet(keys)
       PROVE  \E t \in ToSet(sent) : t # m /\ k = KeyFor(t, m, Distribution(sender[m]))
  <2>1. PICK i \in 1 .. n : k = keys[i]
    BY <1>16 DEF ToSet
  <2>2. keys[i] = KeyFor(sent[i], m, Distribution(sender[m])) /\ sent[i] \in ToSet(sent)
    BY <1>12 DEF ToSet
  <2> QED
    BY <1>6, <1>13, <2>1, <2>2
<1>18. ToSet(sent) \in SUBSET Member
  BY <1>6, <1>12, <1>13 DEF ToSet
<1>19. Len(up[m]) + Len(keys) <= LinkCap
  BY <1>9, <1>10, <1>16 DEF Types
<1>20. Keys(m, keys, ToSet(sent))
  <2>1. /\ up' = [up EXCEPT ![m] = @ \o keys] /\ granted' = [granted EXCEPT ![m] = @ \cup ToSet(sent)]
        /\ UNCHANGED written
    BY <1>5 DEF sent, OnRoster
  <2> HIDE DEF keys
  <2> QED
    BY <1>16, <1>17, <1>18, <1>19, <2>1 DEF Keys
<1>21. /\ keyedTo' \in [Member -> SUBSET Member] /\ new \subseteq keyedTo'[m]
       /\ \A q \in Member : keyedTo[q] \subseteq keyedTo'[q]
  BY <1>5, <1>6 DEF Types
<1>22. \A i, j \in 1 .. n : i # j => sent[i] # sent[j]
  <2>1. \A i, j \in DOMAIN order : i # j => order[i] # order[j]
    BY <1>6, <1>7 DEF SetToSeqs, IsInjective
  <2>2. \A i \in 1 .. n : i \in DOMAIN order /\ sent[i] = order[i]
    BY <1>8, <1>10, <1>11, FrontOf
  <2> QED
    BY <2>1, <2>2
<1>23. \A i \in 1 .. n : keys[i].to = sent[i] /\ keys[i] \in ToSet(keys)
  BY <1>12, <1>16 DEF KeyFor, ToSet
<1>24. \A t \in ToSet(sent) : t \in new /\ \E i \in 1 .. n : t = sent[i]
  BY <1>12, <1>13 DEF ToSet
<1>25. \A t \in new : t \notin keyedTo[m] /\ t # m /\ t \in f.members
  BY DEF new
<1>26. Firsts(m, keys, ToSet(sent))
  <2> HIDE DEF keys
  <2> QED
    BY <1>16, <1>21, <1>22, <1>23, <1>24, <1>25 DEF Firsts
<1> QED
  BY <1>20, <1>21, <1>26

\* Whatever is done, it moves every queue in one of these ways.
LEMMA EveryMove ==
  ASSUME Types, Lengths, Frames, NEW m \in Member,
         Join(m) \/ Client(m) \/ Write(m) \/ Leave(m) \/ Reader(m) \/ Writer(m)
  PROVE  Moves(m)
<1>0. LinkCap \in Nat /\ OutCap \in Nat /\ Len(up[m]) \in Nat /\ Len(down[m]) \in Nat
  BY RelayAssumption DEF Types
<1>1. CASE Join(m)
  BY <1>1 DEF Join, Moves, UpMoves, DownMoves, OutMoves, SendMoves
<1>2. CASE OnRoster(m)
  <2>1. DownMoves(m) /\ OutMoves(m) /\ SendMoves(m)
    BY <1>2 DEF OnRoster, Reads, relayVars, DownMoves, OutMoves, SendMoves
  <2>2. UpMoves(m)
    BY <1>2, OnRosterKeys DEF UpMoves
  <2> QED
    BY <2>1, <2>2 DEF Moves
<1>3. CASE OnKeyFor(m)
  BY <1>3 DEF OnKeyFor, Reads, relayVars, Moves, UpMoves, DownMoves, OutMoves, SendMoves
<1>4. CASE OnText(m)
  BY <1>4 DEF OnText, Reads, relayVars, Moves, UpMoves, DownMoves, OutMoves, SendMoves
<1>5. CASE Write(m)
  <2>1. DownMoves(m) /\ OutMoves(m) /\ SendMoves(m)
    BY <1>5 DEF Write, relayVars, DownMoves, OutMoves, SendMoves
  <2>2. Room(up[m]) > 0 <=> Len(up[m]) < LinkCap
    BY <1>0 DEF Room
  <2>3. UpMoves(m)
    BY <1>5, <2>2 DEF Write, UpMoves
  <2> QED
    BY <2>1, <2>3 DEF Moves
<1>6. CASE Leave(m)
  BY <1>6 DEF Leave, relayVars, Moves, UpMoves, DownMoves, OutMoves, SendMoves
<1>7. CASE Register(m)
  BY <1>7 DEF Register, Takes, Moves, UpMoves, DownMoves, OutMoves, SendMoves
<1>8. CASE BroadcastRoster(m)
  <2>1. UpMoves(m) /\ DownMoves(m) /\ OutMoves(m)
    BY <1>8 DEF BroadcastRoster, linkVars, UpMoves, DownMoves, OutMoves
  <2>2. roster \in SUBSET Member
    BY DEF Types
  <2>3. SendMoves(m)
    BY <1>8, <2>2 DEF BroadcastRoster, SendMoves, Routes
  <2> QED
    BY <2>1, <2>3 DEF Moves
<1>9. CASE RouteKey(m)
  <2>1. UpMoves(m) /\ DownMoves(m) /\ OutMoves(m)
    BY <1>9 DEF RouteKey, Takes, UpMoves, DownMoves, OutMoves
  <2>2. roster \cap {Head(up[m]).to} \in SUBSET {Head(up[m]).to}
    OBVIOUS
  <2>3. SendMoves(m)
    BY <1>9, <2>2 DEF RouteKey, Takes, SendMoves, Routes
  <2> QED
    BY <2>1, <2>3 DEF Moves
<1>10. CASE RouteText(m)
  <2>1. UpMoves(m) /\ DownMoves(m) /\ OutMoves(m)
    BY <1>10 DEF RouteText, Takes, UpMoves, DownMoves, OutMoves
  <2>2. roster \ {Head(up[m]).from} \in SUBSET Member
    BY DEF Types
  <2>3. SendMoves(m)
    BY <1>10, <2>2 DEF RouteText, Takes, SendMoves, Routes
  <2> QED
    BY <2>1, <2>3 DEF Moves
<1>11. CASE Enqueue(m)
  <2>1. UpMoves(m) /\ DownMoves(m)
    BY <1>11 DEF Enqueue, linkVars, UpMoves, DownMoves
  <2>2. PICK d \in sending[m] :
          /\ sending' = [sending EXCEPT ![m] = @ \ {d}]
          /\ \/ /\ writer[d.to] /\ Len(outQ[d.to]) < OutCap
                /\ outQ' = [outQ EXCEPT ![d.to] = Append(@, d.frame)]
             \/ ~writer[d.to] /\ UNCHANGED outQ
    BY <1>11 DEF Enqueue
  <2>3. OutMoves(m)
    BY <2>2 DEF OutMoves
  <2>4. Routes(m, sending[m] \ {d}) /\ sending' = [sending EXCEPT ![m] = sending[m] \ {d}]
    BY <2>2 DEF Routes
  <2>5. SendMoves(m)
    BY <2>4 DEF SendMoves
  <2> QED
    BY <2>1, <2>3, <2>5 DEF Moves
<1>12. CASE ReaderEnds(m)
  BY <1>12 DEF ReaderEnds, linkVars, Moves, UpMoves, DownMoves, OutMoves, SendMoves
<1>13. CASE Forward(m)
  <2>1. Room(down[m]) > 0 <=> Len(down[m]) < LinkCap
    BY <1>0 DEF Room
  <2> QED
    BY <1>13, <2>1 DEF Forward, Moves, UpMoves, DownMoves, OutMoves, SendMoves
<1>14. CASE WriterEnds(m)
  BY <1>14 DEF WriterEnds, linkVars, Moves, UpMoves, DownMoves, OutMoves, SendMoves
<1> QED
  BY <1>1, <1>2, <1>3, <1>4, <1>5, <1>6, <1>7, <1>8, <1>9, <1>10, <1>11, <1>12, <1>13, <1>14
     DEF Client, Reader, Writer

-----------------------------------------------------------------------------
(* The queues keep their types and their lengths. *)

\* What a member's own texts and keys are.
LEMMA OwnFrames ==
  ASSUME Types, NEW m \in Member
  PROVE  /\ Hello(m) \in Frame /\ Text(m, Ciphertext(sender[m])) \in Frame
         /\ Roster(roster) \in Frame
<1>1. sender[m].chain \in Nat /\ sender[m].iteration \in Nat
  BY DEF Types, Position
<1>2. Ciphertext(sender[m]) \in Point
  BY <1>1 DEF Ciphertext, Point
<1> QED
  BY <1>2 DEF Types, Hello, Text, Roster, Frame

\* The frames of a member's link to the relay.
LEMMA UpTypes ==
  ASSUME Types, Lengths, NEW m \in Member, UpMoves(m)
  PROVE  up' \in [Member -> Seq(Frame)] /\ \A h \in Member : Len(up'[h]) <= LinkCap
<1>0. up \in [Member -> Seq(Frame)] /\ \A h \in Member : Len(up[h]) <= LinkCap
  BY DEF Types, Lengths
<1>1. LinkCap \in Nat /\ LinkCap >= 1 /\ Len(up[m]) \in Nat
  BY <1>0, RelayAssumption
<1>2. ASSUME NEW s \in Seq(Frame), Len(s) <= LinkCap, up' = [up EXCEPT ![m] = s]
      PROVE  up' \in [Member -> Seq(Frame)] /\ \A h \in Member : Len(up'[h]) <= LinkCap
  BY <1>0, <1>2
<1>3. CASE UNCHANGED up
  BY <1>0, <1>3
<1>4. CASE up' = [up EXCEPT ![m] = <<>>]
  <2> DEFINE none == <<>>
  <2>1. none \in Seq(Frame) /\ Len(none) <= LinkCap /\ up' = [up EXCEPT ![m] = none]
    BY <1>1, <1>4
  <2> HIDE DEF none
  <2> QED
    BY <1>2, <2>1
<1>5. CASE up' = [up EXCEPT ![m] = <<Hello(m)>>]
  <2>1. <<Hello(m)>> \in Seq(Frame) /\ Len(<<Hello(m)>>) = 1
    BY OwnFrames
  <2> QED
    BY <1>1, <1>2, <1>5, <2>1
<1>6. CASE up[m] # <<>> /\ up' = [up EXCEPT ![m] = Tail(@)]
  <2>1. Tail(up[m]) \in Seq(Frame) /\ Len(Tail(up[m])) = Len(up[m]) - 1
    BY <1>0, <1>6, TakenOff
  <2>2. Len(Tail(up[m])) <= LinkCap
    BY <1>0, <1>1, <2>1
  <2> QED
    BY <1>2, <1>6, <2>1, <2>2
<1>7. CASE /\ Len(up[m]) < LinkCap
           /\ up' = [up EXCEPT ![m] = Append(@, Text(m, Ciphertext(sender[m])))]
  <2> DEFINE x == Text(m, Ciphertext(sender[m]))
  <2>1. x \in Frame
    BY OwnFrames
  <2> HIDE DEF x
  <2>2. Append(up[m], x) \in Seq(Frame) /\ Len(Append(up[m], x)) = Len(up[m]) + 1
    BY <1>0, <2>1, PutBehind
  <2>3. Len(Append(up[m], x)) <= LinkCap
    BY <1>1, <1>7, <2>2
  <2> QED
    BY <1>2, <1>7, <2>2, <2>3 DEF x
<1>8. CASE \E keys, to : Keys(m, keys, to)
  <2>1. PICK keys, to : Keys(m, keys, to)
    BY <1>8
  <2>2. keys \in Seq(Frame) /\ up' = [up EXCEPT ![m] = @ \o keys] /\ Len(up[m]) + Len(keys) <= LinkCap
    BY <2>1 DEF Keys
  <2>3. up[m] \o keys \in Seq(Frame) /\ Len(up[m] \o keys) = Len(up[m]) + Len(keys)
    BY <1>0, <2>2, PutTogether
  <2> QED
    BY <1>2, <2>2, <2>3
<1> QED
  BY <1>3, <1>4, <1>5, <1>6, <1>7, <1>8 DEF UpMoves

\* The frames of a member's link from the relay.
LEMMA DownTypes ==
  ASSUME Types, Lengths, NEW m \in Member, DownMoves(m)
  PROVE  down' \in [Member -> Seq(Frame)] /\ \A h \in Member : Len(down'[h]) <= LinkCap
<1>0. /\ down \in [Member -> Seq(Frame)] /\ \A h \in Member : Len(down[h]) <= LinkCap
      /\ outQ[m] \in Seq(Frame)
  BY DEF Types, Lengths
<1>1. LinkCap \in Nat /\ Len(down[m]) \in Nat
  BY <1>0, RelayAssumption
<1>2. ASSUME NEW s \in Seq(Frame), Len(s) <= LinkCap, down' = [down EXCEPT ![m] = s]
      PROVE  down' \in [Member -> Seq(Frame)] /\ \A h \in Member : Len(down'[h]) <= LinkCap
  BY <1>0, <1>2
<1>3. CASE UNCHANGED down
  BY <1>0, <1>3
<1>4. CASE down' = [down EXCEPT ![m] = <<>>]
  <2> DEFINE none == <<>>
  <2>1. none \in Seq(Frame) /\ Len(none) <= LinkCap /\ down' = [down EXCEPT ![m] = none]
    BY <1>1, <1>4
  <2> HIDE DEF none
  <2> QED
    BY <1>2, <2>1
<1>5. CASE down[m] # <<>> /\ down' = [down EXCEPT ![m] = Tail(@)]
  <2>1. Tail(down[m]) \in Seq(Frame) /\ Len(Tail(down[m])) = Len(down[m]) - 1
    BY <1>0, <1>5, TakenOff
  <2>2. Len(Tail(down[m])) <= LinkCap
    BY <1>0, <1>1, <2>1
  <2> QED
    BY <1>2, <1>5, <2>1, <2>2
<1>6. CASE /\ outQ[m] # <<>> /\ Len(down[m]) < LinkCap
           /\ down' = [down EXCEPT ![m] = Append(@, Head(outQ[m]))]
  <2> DEFINE x == Head(outQ[m])
  <2>1. x \in Frame
    BY <1>0, <1>6, TakenOff
  <2> HIDE DEF x
  <2>2. Append(down[m], x) \in Seq(Frame) /\ Len(Append(down[m], x)) = Len(down[m]) + 1
    BY <1>0, <2>1, PutBehind
  <2>3. Len(Append(down[m], x)) <= LinkCap
    BY <1>1, <1>6, <2>2
  <2> QED
    BY <1>2, <1>6, <2>2, <2>3 DEF x
<1> QED
  BY <1>3, <1>4, <1>5, <1>6 DEF DownMoves

\* The frames of the queues of the writers.
LEMMA OutTypes ==
  ASSUME Types, Lengths, NEW m \in Member, OutMoves(m)
  PROVE  outQ' \in [Member -> Seq(Frame)] /\ \A h \in Member : Len(outQ'[h]) <= OutCap
<1>0. /\ outQ \in [Member -> Seq(Frame)] /\ \A h \in Member : Len(outQ[h]) <= OutCap
      /\ sending[m] \subseteq Delivery
  BY DEF Types, Lengths
<1>1. OutCap \in Nat /\ \A h \in Member : Len(outQ[h]) \in Nat
  BY <1>0, RelayAssumption
<1>2. ASSUME NEW h \in Member, NEW s \in Seq(Frame), Len(s) <= OutCap, outQ' = [outQ EXCEPT ![h] = s]
      PROVE  outQ' \in [Member -> Seq(Frame)] /\ \A g \in Member : Len(outQ'[g]) <= OutCap
  BY <1>0, <1>2
<1>3. CASE UNCHANGED outQ
  BY <1>0, <1>3
<1>4. CASE outQ' = [outQ EXCEPT ![m] = <<>>]
  <2> DEFINE none == <<>>
  <2>1. none \in Seq(Frame) /\ Len(none) <= OutCap /\ outQ' = [outQ EXCEPT ![m] = none]
    BY <1>1, <1>4
  <2> HIDE DEF none
  <2> QED
    BY <1>2, <2>1
<1>5. CASE outQ[m] # <<>> /\ outQ' = [outQ EXCEPT ![m] = Tail(@)]
  <2>1. Tail(outQ[m]) \in Seq(Frame) /\ Len(Tail(outQ[m])) = Len(outQ[m]) - 1
    BY <1>0, <1>5, TakenOff
  <2>2. Len(Tail(outQ[m])) <= OutCap
    BY <1>0, <1>1, <2>1
  <2> QED
    BY <1>2, <1>5, <2>1, <2>2
<1>6. ASSUME NEW d \in sending[m], Len(outQ[d.to]) < OutCap,
             outQ' = [outQ EXCEPT ![d.to] = Append(@, d.frame)]
      PROVE  outQ' \in [Member -> Seq(Frame)] /\ \A h \in Member : Len(outQ'[h]) <= OutCap
  <2> DEFINE h == d.to
             x == d.frame
  <2>1. h \in Member /\ x \in Frame
    BY <1>0 DEF Delivery
  <2>2. Len(outQ[h]) < OutCap /\ outQ' = [outQ EXCEPT ![h] = Append(@, x)]
    BY <1>6
  <2> HIDE DEF h, x
  <2>3. Append(outQ[h], x) \in Seq(Frame) /\ Len(Append(outQ[h], x)) = Len(outQ[h]) + 1
    BY <1>0, <2>1, PutBehind
  <2>4. Len(Append(outQ[h], x)) <= OutCap
    BY <1>1, <2>1, <2>2, <2>3
  <2>5. outQ' = [outQ EXCEPT ![h] = Append(outQ[h], x)]
    BY <2>2
  <2> QED
    BY <1>2, <2>1, <2>3, <2>4, <2>5
<1> QED
  BY <1>3, <1>4, <1>5, <1>6 DEF OutMoves

\* What the readers deliver.
LEMMA SendTypes ==
  ASSUME Types, NEW m \in Member, SendMoves(m)
  PROVE  sending' \in [Member -> SUBSET Delivery]
<1>0. sending \in [Member -> SUBSET Delivery]
  BY DEF Types
<1>1. ASSUME NEW S, Routes(m, S)
      PROVE  S \subseteq Delivery
  <2>1. CASE S \subseteq sending[m]
    BY <1>0, <2>1
  <2>2. ASSUME NEW T \in SUBSET Member, NEW f \in Frame,
               S = {[to |-> t, frame |-> f] : t \in T}
        PROVE  S \subseteq Delivery
    BY <2>2 DEF Delivery
  <2>3. Roster(roster) \in Frame
    BY OwnFrames
  <2>4. CASE \E T \in SUBSET Member : S = {[to |-> t, frame |-> Roster(roster)] : t \in T}
    BY <2>2, <2>3, <2>4
  <2>5. CASE up[m] # <<>>
    <3> DEFINE f == Head(up[m])
    <3>1. f \in Frame
      BY <2>5, TakenOff DEF Types
    <3>2. f.type = "KeyFor" => {f.to} \subseteq Member
      BY <3>1 DEF Frame
    <3> HIDE DEF f
    <3>3. ASSUME f.type = "KeyFor", NEW T \in SUBSET {f.to}, S = {[to |-> t, frame |-> f] : t \in T}
          PROVE  S \subseteq Delivery
      <4>1. T \in SUBSET Member
        BY <3>2, <3>3
      <4> QED
        BY <2>2, <3>1, <3>3, <4>1
    <3>4. ASSUME NEW T \in SUBSET Member, S = {[to |-> t, frame |-> f] : t \in T}
          PROVE  S \subseteq Delivery
      BY <2>2, <3>1, <3>4
    <3> QED
      BY <1>1, <2>1, <2>4, <2>5, <3>3, <3>4 DEF Routes, f
  <2> QED
    BY <1>1, <2>1, <2>4, <2>5 DEF Routes
<1> QED
  BY <1>0, <1>1 DEF SendMoves

-----------------------------------------------------------------------------
(* The state of the clients keeps its types. *)

\* The receivers a client has.
LEMMA PeerType ==
  ASSUME NEW rs \in Peers
  PROVE  DOMAIN rs \in SUBSET Member /\ \A q \in DOMAIN rs : rs[q] \in Receiver
<1> QED
  BY DEF Peers

\* A receiver more, or another one in its place.
LEMMA PeersTypes ==
  ASSUME NEW rs \in Peers, NEW q \in Member, NEW r \in Receiver
  PROVE  [p \in DOMAIN rs \cup {q} |-> IF p = q THEN r ELSE rs[p]] \in Peers
<1>1. PICK Q \in SUBSET Member : rs \in [Q -> Receiver]
  BY DEF Peers
<1>2. DOMAIN rs = Q /\ \A p \in Q : rs[p] \in Receiver
  BY <1>1
<1>3. Q \cup {q} \in SUBSET Member
  OBVIOUS
<1>4. [p \in DOMAIN rs \cup {q} |-> IF p = q THEN r ELSE rs[p]] \in [Q \cup {q} -> Receiver]
  BY <1>2
<1> QED
  BY <1>2, <1>3, <1>4 DEF Peers

\* Every step keeps the types of the clients' own state.
LEMMA ClientTypes ==
  ASSUME Types, Lengths, Frames, Receivers, NEW m \in Member,
         Join(m) \/ Client(m) \/ Write(m) \/ Leave(m) \/ Reader(m) \/ Writer(m)
  PROVE  /\ stage' \in [Member -> {"out", "in", "gone"}]
         /\ sender' \in [Member -> Position]
         /\ receivers' \in [Member -> Peers]
         /\ keyedTo' \in [Member -> SUBSET Member] /\ granted' \in [Member -> SUBSET Member]
         /\ written' \in [Member -> Seq(SUBSET Member)]
         /\ shown' \in [Member -> Seq([from : Member, n : Nat])]
<1> DEFINE Goal == /\ stage' \in [Member -> {"out", "in", "gone"}]
                   /\ sender' \in [Member -> Position]
                   /\ receivers' \in [Member -> Peers]
                   /\ keyedTo' \in [Member -> SUBSET Member] /\ granted' \in [Member -> SUBSET Member]
                   /\ written' \in [Member -> Seq(SUBSET Member)]
                   /\ shown' \in [Member -> Seq([from : Member, n : Nat])]
<1>1. CASE UNCHANGED clientVars
  BY <1>1 DEF clientVars, Types
<1>2. CASE Join(m) \/ Leave(m)
  BY <1>2 DEF Join, Leave, Types
<1>3. CASE OnRoster(m)
  <2>1. PICK keys, to : Keys(m, keys, to)
    BY <1>3, OnRosterKeys
  <2>2. granted' \in [Member -> SUBSET Member]
    BY <2>1 DEF Keys, Types
  <2>3. keyedTo' \in [Member -> SUBSET Member]
    BY <1>3, OnRosterKeys
  <2> QED
    BY <1>3, <2>2, <2>3 DEF OnRoster, Types
<1>4. CASE OnKeyFor(m)
  <2> DEFINE f == Head(down[m])
             r == FromDistribution(f.dist)
  <2>1. f \in Frame /\ f.type = "KeyFor"
    BY <1>4, TakenOff DEF OnKeyFor, Reads, Types
  <2>2. f.from \in Member /\ f.dist \in Position
    BY <2>1 DEF Frame
  <2>3. r \in Receiver
    BY <2>2 DEF FromDistribution, Position, Receiver
  <2>4. receivers' = [receivers EXCEPT ![m] =
          [q \in DOMAIN @ \cup {f.from} |-> IF q = f.from THEN r ELSE @[q]]]
    BY <1>4 DEF OnKeyFor
  <2>5. receivers[m] \in Peers
    BY DEF Types
  <2> HIDE DEF r, f
  <2>6. receivers' \in [Member -> Peers]
    BY <2>2, <2>3, <2>4, <2>5, PeersTypes DEF Types
  <2> QED
    BY <1>4, <2>6 DEF OnKeyFor, Types
<1>5. CASE OnText(m)
  <2> DEFINE f == Head(down[m])
  <2>1. f \in Frame /\ f.type = "Text" /\ f \in ToSet(down[m])
    BY <1>5, TakenOff DEF OnText, Reads, Types
  <2>2. f.from \in Member /\ f.ct \in Point
    BY <2>1 DEF Frame
  <2>3. CASE UNCHANGED <<receivers, shown>>
    BY <1>5, <2>3 DEF OnText, Types
  <2>4. CASE f.from \in DOMAIN receivers[m] /\ Opens(receivers[m][f.from], f.ct)
    <3>1. /\ receivers' = [receivers EXCEPT ![m][f.from] = Opened(@, f.ct)]
          /\ shown' = [shown EXCEPT ![m] = Append(@, [from |-> f.from, n |-> f.ct.key])]
      BY <1>5, <2>4 DEF OnText
    <3>2. receivers[m] \in Peers
      BY DEF Types
    <3>3. receivers[m][f.from] \in Receiver
      BY <2>4, <3>2, PeerType
    <3>4. Whole(receivers[m][f.from]) /\ f.ct.iteration = Cap(f.ct.key)
      BY <2>1, <2>4 DEF Receivers, Granted, Frames, FrameOK
    <3>5. Opened(receivers[m][f.from], f.ct) \in Receiver
      BY <2>2, <2>4, <3>3, <3>4, OpenedWhole
    <3> HIDE DEF f
    <3>6. receivers' = [receivers EXCEPT ![m] =
            [receivers[m] EXCEPT ![f.from] = Opened(receivers[m][f.from], f.ct)]]
      BY <3>1
    <3>7. [receivers[m] EXCEPT ![f.from] = Opened(receivers[m][f.from], f.ct)] \in Peers
      <4>1. PICK Q \in SUBSET Member : receivers[m] \in [Q -> Receiver]
        BY <3>2 DEF Peers
      <4> QED
        BY <3>5, <4>1 DEF Peers
    <3>8. receivers' \in [Member -> Peers]
      BY <3>6, <3>7 DEF Types
    <3>9. [from |-> f.from, n |-> f.ct.key] \in [from : Member, n : Nat]
      BY <2>2 DEF Point
    <3>10. shown' \in [Member -> Seq([from : Member, n : Nat])]
      BY <3>1, <3>9, PutBehind DEF Types
    <3> QED
      BY <1>5, <3>8, <3>10 DEF OnText, Types
  <2> QED
    BY <1>5, <2>3, <2>4 DEF OnText
<1>6. CASE Write(m)
  <2>1. sender' \in [Member -> Position]
    <3>1. sender[m] \in Position /\ LastIteration \in Nat
      BY SenderKeyAssumption DEF Types
    <3>2. Ratcheted(sender[m]) \in Position
      BY <3>1 DEF Ratcheted, Position, Next1
    <3> QED
      BY <1>6, <3>2 DEF Write, Types
  <2>2. written' \in [Member -> Seq(SUBSET Member)]
    <3>1. Append(written[m], granted[m]) \in Seq(SUBSET Member)
      BY PutBehind DEF Types
    <3> QED
      BY <1>6, <3>1 DEF Write, Types
  <2> QED
    BY <1>6, <2>1, <2>2 DEF Write, Types
<1> HIDE DEF Goal
<1>7. Goal
  BY <1>1, <1>2, <1>3, <1>4, <1>5, <1>6
     DEF Goal, Client, Reader, Writer, Register, BroadcastRoster, RouteKey, RouteText, Enqueue,
         ReaderEnds, Forward, WriterEnds
<1> QED
  BY <1>7 DEF Goal

\* Every step keeps the types and the lengths.
LEMMA TypesStep ==
  ASSUME Types, Lengths, Frames, Receivers, NEW m \in Member,
         Join(m) \/ Client(m) \/ Write(m) \/ Leave(m) \/ Reader(m) \/ Writer(m)
  PROVE  Types' /\ Lengths'
<1>1. Moves(m)
  BY EveryMove
<1>2. /\ up' \in [Member -> Seq(Frame)] /\ down' \in [Member -> Seq(Frame)]
      /\ outQ' \in [Member -> Seq(Frame)] /\ sending' \in [Member -> SUBSET Delivery]
      /\ \A h \in Member : Len(up'[h]) <= LinkCap /\ Len(down'[h]) <= LinkCap
                           /\ Len(outQ'[h]) <= OutCap
  BY <1>1, UpTypes, DownTypes, OutTypes, SendTypes DEF Moves
<1>3. roster' \subseteq Member /\ writer' \in [Member -> BOOLEAN]
      /\ reader' \in [Member -> {"none", "waiting", "telling", "known", "parting", "parted"}]
  <2>0. roster \subseteq Member /\ writer \in [Member -> BOOLEAN]
        /\ reader \in [Member -> {"none", "waiting", "telling", "known", "parting", "parted"}]
    BY DEF Types
  <2>1. CASE UNCHANGED relayVars
    BY <2>0, <2>1 DEF relayVars
  <2>2. CASE Join(m)
    BY <2>0, <2>2 DEF Join
  <2>3. CASE Register(m)
    BY <2>0, <2>3 DEF Register
  <2>4. CASE BroadcastRoster(m)
    BY <2>0, <2>4 DEF BroadcastRoster
  <2>5. CASE RouteKey(m) \/ RouteText(m) \/ Enqueue(m) \/ Forward(m)
    BY <2>0, <2>5 DEF RouteKey, RouteText, Enqueue, Forward
  <2>6. CASE ReaderEnds(m)
    BY <2>0, <2>6 DEF ReaderEnds
  <2>7. CASE WriterEnds(m)
    BY <2>0, <2>7 DEF WriterEnds
  <2> QED
    BY <2>1, <2>2, <2>3, <2>4, <2>5, <2>6, <2>7
       DEF Client, Reader, Writer, OnRoster, OnKeyFor, OnText, Write, Leave
<1>4. /\ stage' \in [Member -> {"out", "in", "gone"}]
      /\ sender' \in [Member -> Position]
      /\ receivers' \in [Member -> Peers]
      /\ keyedTo' \in [Member -> SUBSET Member] /\ granted' \in [Member -> SUBSET Member]
      /\ written' \in [Member -> Seq(SUBSET Member)]
      /\ shown' \in [Member -> Seq([from : Member, n : Nat])]
  BY ClientTypes
<1> QED
  BY <1>2, <1>3, <1>4 DEF Types, Lengths

-----------------------------------------------------------------------------
(* What was granted remains so. *)

Step(m) == Join(m) \/ Client(m) \/ Write(m) \/ Leave(m) \/ Reader(m) \/ Writer(m)

\* Keys are granted for good, and texts written after are for those who have them.
LEMMA Grants ==
  ASSUME Types, Lengths, Frames, NEW m \in Member, Step(m), NEW q \in Member
  PROVE  /\ granted[q] \subseteq granted'[q]
         /\ \/ written'[q] = written[q]
            \/ written'[q] = Append(written[q], granted[q])
<1>1. CASE UNCHANGED <<granted, written>>
  BY <1>1
<1>2. CASE OnRoster(m)
  <2>1. PICK keys, to : Keys(m, keys, to)
    BY <1>2, OnRosterKeys
  <2> QED
    BY <2>1 DEF Keys, Types
<1>3. CASE Write(m)
  BY <1>3 DEF Write, Types
<1> QED
  BY <1>1, <1>2, <1>3
     DEF Step, Join, Client, OnKeyFor, OnText, Leave, Reader, Writer, Register, BroadcastRoster, RouteKey,
         RouteText, Enqueue, ReaderEnds, Forward, WriterEnds, clientVars

\* What is granted from one text on is granted from a later one on.
LEMMA SinceLater ==
  ASSUME Types, NEW h \in Member, NEW q \in Member, NEW a \in Nat, NEW b \in Nat,
         a <= b, Since(h, q, a)
  PROVE  Since(h, q, b)
<1>1. written[q] \in Seq(SUBSET Member)
  BY DEF Types
<1>2. ASSUME NEW k \in DOMAIN written[q], k > b PROVE k > a
  BY <1>1, <1>2
<1> QED
  BY <1>2 DEF Since

\* No step takes it back.
LEMMA SinceStays ==
  ASSUME Types, Lengths, Frames, NEW m \in Member, Step(m), NEW h \in Member, NEW q \in Member,
         NEW n \in Nat, Since(h, q, n)
  PROVE  Since(h, q, n)'
<1>1. h \in granted[q] /\ h \in granted'[q] /\ written[q] \in Seq(SUBSET Member)
      /\ granted[q] \in SUBSET Member
  BY Grants DEF Since, Types
<1>2. ASSUME NEW k \in DOMAIN written'[q], k > n
      PROVE  h \in written'[q][k]
  <2>1. CASE written'[q] = written[q]
    BY <1>2, <2>1 DEF Since
  <2>2. CASE written'[q] = Append(written[q], granted[q])
    <3>1. \/ k \in DOMAIN written[q] /\ written'[q][k] = written[q][k]
          \/ written'[q][k] = granted[q]
      BY <1>1, <1>2, <2>2, PutBehind
    <3> QED
      BY <1>1, <1>2, <3>1 DEF Since
  <2> QED
    BY <2>1, <2>2, Grants
<1> QED
  BY <1>1, <1>2 DEF Since

\* A frame that is fine stays fine.
LEMMA FrameStays ==
  ASSUME Types, Lengths, Frames, NEW m \in Member, Step(m), NEW f \in Frame, FrameOK(f)
  PROVE  FrameOK(f)'
<1>1. ASSUME f.type = "KeyFor"
      PROVE  Since(f.to, f.from, f.dist.chain)'
  <2>1. f.to \in Member /\ f.from \in Member /\ f.dist.chain \in Nat
    BY <1>1 DEF Frame, Position
  <2>2. Since(f.to, f.from, f.dist.chain)
    BY <1>1 DEF FrameOK
  <2> QED
    BY <2>1, <2>2, SinceStays
<1> QED
  BY <1>1 DEF FrameOK

\* So does what a receiver was granted.
LEMMA GrantedStays ==
  ASSUME Types, Lengths, Frames, NEW m \in Member, Step(m), NEW h \in Member, NEW q \in Member,
         NEW r \in Receiver, Granted(h, q, r)
  PROVE  Granted(h, q, r)'
<1>1. r.chain \in Nat /\ \A s \in r.skipped : s.key \in Nat
  BY DEF Receiver, Point
<1>2. Since(h, q, r.chain)' /\ \A s \in r.skipped : Since(h, q, s.key)'
  BY <1>1, SinceStays DEF Granted
<1> QED
  BY <1>2 DEF Granted

\* A member's chain moves on with its texts.
LEMMA CountsStep ==
  ASSUME KeyInv, NEW m \in Member, Step(m)
  PROVE  Counts'
<1>1. CASE UNCHANGED <<sender, written>>
  BY <1>1 DEF KeyInv, Counts
<1>2. CASE Write(m)
  <2>1. /\ sender[m] \in Position /\ AtCap(sender[m]) /\ sender[m].chain = Len(written[m])
        /\ written[m] \in Seq(SUBSET Member) /\ granted[m] \in SUBSET Member
    BY DEF KeyInv, Types, Counts
  <2>2. /\ Ratcheted(sender[m]).chain = sender[m].chain + 1 /\ AtCap(Ratcheted(sender[m]))
    BY <2>1, RatchetedAt
  <2>3. Len(Append(written[m], granted[m])) = Len(written[m]) + 1
    BY <2>1, PutBehind
  <2>4. Len(written[m]) \in Nat /\ MaxTexts \in Nat /\ Len(written[m]) < MaxTexts
    BY <1>2, <2>1, RelayAssumption DEF Write
  <2>5. Len(Append(written[m], granted[m])) <= MaxTexts
    BY <2>3, <2>4
  <2>6. /\ sender' = [sender EXCEPT ![m] = Ratcheted(sender[m])]
        /\ written' = [written EXCEPT ![m] = Append(written[m], granted[m])]
    BY <1>2 DEF Write
  <2>7. ASSUME NEW h \in Member, h # m
        PROVE  sender'[h] = sender[h] /\ written'[h] = written[h]
    BY <2>6, <2>7 DEF KeyInv, Types
  <2>8. sender'[m] = Ratcheted(sender[m]) /\ written'[m] = Append(written[m], granted[m])
    BY <2>6 DEF KeyInv, Types
  <2>9. /\ Len(written'[m]) <= MaxTexts
        /\ sender'[m].chain = Len(written'[m]) /\ AtCap(sender'[m])
    BY <2>1, <2>2, <2>3, <2>5, <2>8
  <2>10. \A h \in Member : /\ Len(written'[h]) <= MaxTexts
                           /\ sender'[h].chain = Len(written'[h]) /\ AtCap(sender'[h])
    BY <2>7, <2>9 DEF KeyInv, Counts
  <2> QED
    BY <2>10 DEF Counts, AtCap
<1> QED
  BY <1>1, <1>2
     DEF Step, Join, Client, OnRoster, OnKeyFor, OnText, Leave, Reader, Writer, Register, BroadcastRoster,
         RouteKey, RouteText, Enqueue, ReaderEnds, Forward, WriterEnds, clientVars

-----------------------------------------------------------------------------
(* Every frame is whose it says, wherever it goes. *)

\* What is on a member's link to the relay.
LEMMA UpFrames ==
  ASSUME KeyInv, NEW m \in Member, Step(m), NEW h \in Member, NEW f \in ToSet(up'[h])
  PROVE  FrameOK(f)' /\ By(h, f)
<1>0. Types /\ Lengths /\ Frames /\ Counts
  BY DEF KeyInv
<1>1. UpMoves(m)
  BY <1>0, EveryMove DEF Moves, Step
<1>2. up[h] \in Seq(Frame) /\ up[m] \in Seq(Frame)
  BY <1>0 DEF Types
<1>3. CASE f \in ToSet(up[h])
  <2>1. f \in Frame /\ FrameOK(f) /\ By(h, f)
    BY <1>0, <1>2, <1>3 DEF Frames, ToSet
  <2> QED
    BY <1>0, <2>1, FrameStays
<1>4. CASE f = Hello(m)
  BY <1>4 DEF Hello, FrameOK, By
<1>5. ASSUME f = Text(m, Ciphertext(sender[m]))
      PROVE  FrameOK(f)' /\ By(m, f)
  <2>1. sender[m] \in Position /\ AtCap(sender[m])
    BY <1>0 DEF Types, Counts
  <2>2. Ciphertext(sender[m]).iteration = Cap(Ciphertext(sender[m]).key)
    BY <2>1, DistributedAt
  <2> HIDE DEF FrameOK
  <2>3. f.type = "Text" /\ f.from = m /\ f.ct = Ciphertext(sender[m])
    BY <1>5 DEF Text
  <2> QED
    BY <2>2, <2>3 DEF FrameOK, By
<1>6. ASSUME NEW keys, NEW to, Keys(m, keys, to), f \in ToSet(keys)
      PROVE  FrameOK(f)' /\ By(m, f)
  <2>1. PICK t \in to : t # m /\ f = KeyFor(t, m, Distribution(sender[m]))
    BY <1>6 DEF Keys
  <2>2. f.type = "KeyFor" /\ f.to = t /\ f.from = m /\ f.dist = Distribution(sender[m])
    BY <2>1 DEF KeyFor
  <2>3. sender[m] \in Position /\ AtCap(sender[m]) /\ sender[m].chain = Len(written[m])
    BY <1>0 DEF Types, Counts
  <2>4. AtCap(f.dist) /\ f.dist.chain = Len(written[m])
    BY <2>2, <2>3, DistributedAt
  <2>5. t \in granted'[m] /\ written' = written /\ written[m] \in Seq(SUBSET Member)
    BY <1>0, <1>6 DEF Keys, Types
  <2>6. \A k \in DOMAIN written[m] : ~(k > Len(written[m]))
    BY <2>5
  <2>7. Since(t, m, f.dist.chain)'
    BY <2>4, <2>5, <2>6 DEF Since
  <2> QED
    BY <2>1, <2>2, <2>4, <2>7 DEF FrameOK, By
<1>7. CASE h # m
  <2>1. up'[h] = up[h]
    BY <1>0, <1>1, <1>7 DEF UpMoves, Keys, Types
  <2> QED
    BY <1>3, <2>1
<1>8. CASE h = m
  <2>0. up \in [Member -> Seq(Frame)]
    BY <1>0 DEF Types
  <2>1. CASE UNCHANGED up
    BY <1>3, <2>1
  <2>2. CASE up' = [up EXCEPT ![m] = <<>>]
    <3>1. ToSet(up'[m]) = {}
      BY <2>0, <2>2 DEF ToSet
    <3> QED
      BY <1>8, <3>1
  <2>3. CASE up' = [up EXCEPT ![m] = <<Hello(m)>>]
    <3>1. up'[m] = <<Hello(m)>>
      BY <2>0, <2>3
    <3>2. ToSet(<<Hello(m)>>) = {Hello(m)}
      BY DEF ToSet
    <3> QED
      BY <1>4, <1>8, <3>1, <3>2
  <2>4. CASE up[m] # <<>> /\ up' = [up EXCEPT ![m] = Tail(@)]
    <3>1. up'[m] = Tail(up[m])
      BY <2>0, <2>4
    <3> QED
      BY <1>2, <1>3, <1>8, <2>4, <3>1, TakenOff
  <2>5. CASE up' = [up EXCEPT ![m] = Append(@, Text(m, Ciphertext(sender[m])))]
    <3>1. up'[m] = Append(up[m], Text(m, Ciphertext(sender[m])))
      BY <2>0, <2>5
    <3>2. Text(m, Ciphertext(sender[m])) \in Frame
      BY <1>0, OwnFrames
    <3>3. f \in ToSet(up[m]) \/ f = Text(m, Ciphertext(sender[m]))
      BY <1>2, <1>8, <3>1, <3>2, PutBehind
    <3> QED
      BY <1>3, <1>5, <1>8, <3>3
  <2>6. ASSUME NEW keys, NEW to, Keys(m, keys, to)
        PROVE  f \in ToSet(up[m]) \/ f \in ToSet(keys)
    <3>1. keys \in Seq(Frame) /\ up'[m] = up[m] \o keys
      BY <2>0, <2>6 DEF Keys
    <3> QED
      BY <1>2, <1>8, <3>1, PutTogether
  <2> QED
    BY <1>1, <1>3, <1>6, <1>8, <2>1, <2>2, <2>3, <2>4, <2>5, <2>6 DEF UpMoves
<1> QED
  BY <1>7, <1>8

\* What a reader is to deliver.
LEMMA SentFrames ==
  ASSUME KeyInv, NEW m \in Member, Step(m), NEW h \in Member, NEW d \in sending'[h]
  PROVE  FrameOK(d.frame)' /\ By(h, d.frame) /\ For(d.to, d.frame)
<1>0. Types /\ Lengths /\ Frames
  BY DEF KeyInv
<1>1. SendMoves(m) /\ sending \in [Member -> SUBSET Delivery]
  BY <1>0, EveryMove DEF Moves, Step, Types
<1>2. CASE d \in sending[h]
  <2>1. d.frame \in Frame /\ FrameOK(d.frame) /\ By(h, d.frame) /\ For(d.to, d.frame)
    BY <1>0, <1>1, <1>2 DEF Frames, Delivery
  <2> QED
    BY <1>0, <2>1, FrameStays
<1>3. ASSUME d.frame = Roster(roster)
      PROVE  FrameOK(d.frame)' /\ By(h, d.frame) /\ For(d.to, d.frame)
  <2>1. d.frame.type = "Roster" /\ d.frame.members = roster /\ IsFiniteSet(roster)
    BY <1>0, <1>3 DEF Roster, Frames
  <2> QED
    BY <2>1 DEF FrameOK, By, For
<1>4. ASSUME up[m] # <<>>, d.frame = Head(up[m])
      PROVE  FrameOK(d.frame)' /\ By(m, d.frame)
  <2>1. d.frame \in Frame /\ d.frame \in ToSet(up[m])
    BY <1>0, <1>4, TakenOff DEF Types
  <2>2. FrameOK(d.frame) /\ By(m, d.frame)
    BY <1>0, <2>1 DEF Frames
  <2> QED
    BY <1>0, <2>1, <2>2, FrameStays
<1>5. CASE sending'[h] # sending[h]
  <2>1. PICK S : Routes(m, S) /\ h = m /\ sending'[h] = S
    BY <1>1, <1>5 DEF SendMoves
  <2>2. CASE S \subseteq sending[m]
    BY <1>2, <2>1, <2>2
  <2>3. CASE \E T \in SUBSET Member : S = {[to |-> t, frame |-> Roster(roster)] : t \in T}
    BY <1>3, <2>1, <2>3
  <2>4. ASSUME up[m] # <<>>, NEW T, S = {[to |-> t, frame |-> Head(up[m])] : t \in T}
        PROVE  /\ FrameOK(d.frame)' /\ By(m, d.frame)
               /\ d.to \in T /\ d.frame = Head(up[m])
    <3>1. d.frame = Head(up[m]) /\ d.to \in T
      BY <2>1, <2>4
    <3> QED
      BY <1>4, <2>4, <3>1
  <2>5. ASSUME up[m] # <<>>, Head(up[m]).type = "Text", NEW T,
               S = {[to |-> t, frame |-> Head(up[m])] : t \in T}
        PROVE  FrameOK(d.frame)' /\ By(h, d.frame) /\ For(d.to, d.frame)
    BY <2>1, <2>4, <2>5 DEF For
  <2>6. ASSUME up[m] # <<>>, Head(up[m]).type = "KeyFor", NEW T \in SUBSET {Head(up[m]).to},
               S = {[to |-> t, frame |-> Head(up[m])] : t \in T}
        PROVE  FrameOK(d.frame)' /\ By(h, d.frame) /\ For(d.to, d.frame)
    BY <2>1, <2>4, <2>6 DEF For
  <2> QED
    BY <2>1, <2>2, <2>3, <2>5, <2>6 DEF Routes
<1> QED
  BY <1>2, <1>5

\* What waits for a writer.
LEMMA OutFrames ==
  ASSUME KeyInv, NEW m \in Member, Step(m), NEW h \in Member, NEW f \in ToSet(outQ'[h])
  PROVE  FrameOK(f)' /\ For(h, f)
<1>0. Types /\ Lengths /\ Frames
  BY DEF KeyInv
<1>1. OutMoves(m) /\ outQ \in [Member -> Seq(Frame)] /\ sending[m] \subseteq Delivery
  BY <1>0, EveryMove DEF Moves, Step, Types
<1>2. CASE f \in ToSet(outQ[h])
  <2>1. f \in Frame /\ FrameOK(f) /\ For(h, f)
    BY <1>0, <1>1, <1>2 DEF Frames, ToSet
  <2> QED
    BY <1>0, <2>1, FrameStays
<1>3. CASE outQ'[h] = outQ[h]
  BY <1>2, <1>3
<1>4. CASE h = m /\ outQ' = [outQ EXCEPT ![m] = <<>>]
  <2>1. ToSet(outQ'[m]) = {}
    BY <1>1, <1>4 DEF ToSet
  <2> QED
    BY <1>4, <2>1
<1>5. CASE h = m /\ outQ[m] # <<>> /\ outQ' = [outQ EXCEPT ![m] = Tail(@)]
  <2>1. outQ'[m] = Tail(outQ[m]) /\ outQ[m] \in Seq(Frame)
    BY <1>1, <1>5
  <2> QED
    BY <1>2, <1>5, <2>1, TakenOff
<1>6. ASSUME NEW d \in sending[m], h = d.to, outQ' = [outQ EXCEPT ![d.to] = Append(@, d.frame)]
      PROVE  FrameOK(f)' /\ For(h, f)
  <2>1. d.frame \in Frame /\ FrameOK(d.frame) /\ For(h, d.frame)
    BY <1>0, <1>1, <1>6 DEF Frames, Delivery
  <2>2. outQ'[h] = Append(outQ[h], d.frame) /\ outQ[h] \in Seq(Frame)
    BY <1>1, <1>6
  <2>3. f \in ToSet(outQ[h]) \/ f = d.frame
    BY <2>1, <2>2, PutBehind
  <2> QED
    BY <1>0, <1>2, <2>1, <2>3, FrameStays
<1>7. ASSUME NEW d \in sending[m], h # d.to, outQ' = [outQ EXCEPT ![d.to] = Append(@, d.frame)]
      PROVE  outQ'[h] = outQ[h]
  BY <1>1, <1>7
<1>8. CASE h # m /\ (outQ' = [outQ EXCEPT ![m] = <<>>] \/ outQ' = [outQ EXCEPT ![m] = Tail(@)])
  BY <1>1, <1>3, <1>8
<1> QED
  BY <1>1, <1>3, <1>4, <1>5, <1>6, <1>7, <1>8 DEF OutMoves

\* What is on a member's link from the relay.
LEMMA DownFrames ==
  ASSUME KeyInv, NEW m \in Member, Step(m), NEW h \in Member, NEW f \in ToSet(down'[h])
  PROVE  FrameOK(f)' /\ For(h, f)
<1>0. Types /\ Lengths /\ Frames
  BY DEF KeyInv
<1>1. DownMoves(m) /\ down \in [Member -> Seq(Frame)] /\ outQ[m] \in Seq(Frame)
  BY <1>0, EveryMove DEF Moves, Step, Types
<1>2. ASSUME f \in ToSet(down[h]) \/ f \in ToSet(outQ[h])
      PROVE  FrameOK(f)' /\ For(h, f)
  <2>1. f \in Frame /\ FrameOK(f) /\ For(h, f)
    BY <1>0, <1>2 DEF Frames, ToSet, Types
  <2> QED
    BY <1>0, <2>1, FrameStays
<1>3. CASE down'[h] = down[h]
  BY <1>2, <1>3
<1>4. CASE h = m /\ down' = [down EXCEPT ![m] = <<>>]
  <2>1. ToSet(down'[m]) = {}
    BY <1>1, <1>4 DEF ToSet
  <2> QED
    BY <1>4, <2>1
<1>5. CASE h = m /\ down[m] # <<>> /\ down' = [down EXCEPT ![m] = Tail(@)]
  <2>1. down'[m] = Tail(down[m]) /\ down[m] \in Seq(Frame)
    BY <1>1, <1>5
  <2> QED
    BY <1>2, <1>5, <2>1, TakenOff
<1>6. CASE h = m /\ outQ[m] # <<>> /\ down' = [down EXCEPT ![m] = Append(@, Head(outQ[m]))]
  <2>1. Head(outQ[m]) \in Frame /\ Head(outQ[m]) \in ToSet(outQ[m])
    BY <1>1, <1>6, TakenOff
  <2>2. down'[m] = Append(down[m], Head(outQ[m])) /\ down[m] \in Seq(Frame)
    BY <1>1, <1>6
  <2>3. f \in ToSet(down[m]) \/ f = Head(outQ[m])
    BY <1>6, <2>1, <2>2, PutBehind
  <2> QED
    BY <1>2, <1>6, <2>1, <2>3
<1>7. CASE h # m
  <2>1. down'[h] = down[h]
    BY <1>1, <1>7 DEF DownMoves
  <2> QED
    BY <1>3, <2>1
<1> QED
  BY <1>1, <1>3, <1>4, <1>5, <1>6, <1>7 DEF DownMoves

\* So it is with every frame.
LEMMA FramesStep ==
  ASSUME KeyInv, NEW m \in Member, Step(m)
  PROVE  Frames'
<1>1. IsFiniteSet(roster')
  <2>1. IsFiniteSet(roster)
    BY DEF KeyInv, Frames
  <2>2. roster' = roster \/ roster' = roster \cup {m} \/ roster' = roster \ {m}
    BY DEF Step, Join, Client, OnRoster, OnKeyFor, OnText, Write, Leave, Reader, Writer, Register,
           BroadcastRoster, RouteKey, RouteText, Enqueue, ReaderEnds, Forward, WriterEnds, relayVars
  <2> QED
    BY <2>1, <2>2, FS_AddElement, FS_RemoveElement
<1> QED
  BY <1>1, UpFrames, SentFrames, OutFrames, DownFrames DEF Frames, By, For

-----------------------------------------------------------------------------
(* Every receiver opens what was written after the grant. *)

\* A receiver is as before, or was granted what it opens.
LEMMA ReceiversAre ==
  ASSUME KeyInv, NEW m \in Member, Step(m),
         \A h \in Member : \A q \in DOMAIN receivers'[h] :
           \/ q \in DOMAIN receivers[h] /\ receivers'[h][q] = receivers[h][q]
           \/ \E r \in Receiver : q \in Member /\ r = receivers'[h][q] /\ Granted(h, q, r)
  PROVE  Receivers'
<1>0. Types /\ Lengths /\ Frames /\ Receivers
  BY DEF KeyInv
<1>1. ASSUME NEW h \in Member, NEW q \in DOMAIN receivers'[h]
      PROVE  \E r \in Receiver : r = receivers'[h][q] /\ Granted(h, q, r)'
  <2>1. CASE q \in DOMAIN receivers[h] /\ receivers'[h][q] = receivers[h][q]
    <3> DEFINE r == receivers[h][q]
    <3>1. receivers[h] \in Peers
      BY <1>0 DEF Types
    <3>2. r \in Receiver /\ q \in Member
      BY <2>1, <3>1, PeerType
    <3>3. PICK x \in Receiver : x = r
      BY <3>2
    <3>4. Granted(h, q, x)
      BY <1>0, <2>1, <3>3 DEF Receivers
    <3>5. Granted(h, q, x)'
      BY <1>0, <3>2, <3>4, GrantedStays
    <3> QED
      BY <2>1, <3>3, <3>5
  <2>2. CASE \E r \in Receiver : q \in Member /\ r = receivers'[h][q] /\ Granted(h, q, r)
    <3>1. PICK r \in Receiver : q \in Member /\ r = receivers'[h][q] /\ Granted(h, q, r)
      BY <2>2
    <3>2. Granted(h, q, r)'
      BY <1>0, <3>1, GrantedStays
    <3> QED
      BY <3>1, <3>2
  <2> QED
    BY <2>1, <2>2
<1> QED
  BY <1>1 DEF Receivers, Granted, Since

\* A key that arrives.
LEMMA KeyArrives ==
  ASSUME KeyInv, NEW m \in Member, OnKeyFor(m)
  PROVE  Receivers'
<1> DEFINE f == Head(down[m])
           r == FromDistribution(f.dist)
<1>0. Types /\ Lengths /\ Frames /\ Receivers /\ Step(m)
  BY DEF KeyInv, Step, Client
<1>1. f \in Frame /\ f \in ToSet(down[m]) /\ f.type = "KeyFor"
  BY <1>0, TakenOff DEF OnKeyFor, Reads, Types
<1>2. FrameOK(f) /\ For(m, f)
  BY <1>0, <1>1 DEF Frames
<1>3. f.from \in Member /\ f.to = m /\ f.dist \in Position /\ f.from # m
      /\ AtCap(f.dist) /\ Since(m, f.from, f.dist.chain)
  BY <1>1, <1>2 DEF Frame, FrameOK, For
<1>4. r \in Receiver /\ r.chain = f.dist.chain /\ r.iteration = f.dist.iteration /\ r.skipped = {}
  BY <1>3 DEF FromDistribution, Receiver, Position
<1>5. receivers' = [receivers EXCEPT ![m] =
        [q \in DOMAIN @ \cup {f.from} |-> IF q = f.from THEN r ELSE @[q]]]
  BY DEF OnKeyFor
<1> HIDE DEF r, f
<1>6. Granted(m, f.from, r)
  <2>1. IsFiniteSet({}) /\ Cardinality({}) = 0 /\ 0 <= MaxSkippedStore
    BY FS_EmptySet, SenderKeyAssumption
  <2>2. Whole(r)
    BY <1>3, <1>4, <2>1 DEF Whole, AtCap
  <2> QED
    BY <1>3, <1>4, <2>2 DEF Granted
<1>7. ASSUME NEW h \in Member, NEW q \in DOMAIN receivers'[h]
      PROVE  \/ q \in DOMAIN receivers[h] /\ receivers'[h][q] = receivers[h][q]
             \/ h = m /\ q = f.from /\ receivers'[h][q] = r
  <2>0. receivers \in [Member -> Peers]
    BY <1>0 DEF Types
  <2>1. CASE h # m
    BY <1>5, <1>7, <2>0, <2>1
  <2>2. CASE h = m
    <3>1. receivers'[m] = [p \in DOMAIN receivers[m] \cup {f.from} |->
                             IF p = f.from THEN r ELSE receivers[m][p]]
      BY <1>5, <2>0
    <3> QED
      BY <1>7, <2>2, <3>1
  <2> QED
    BY <2>1, <2>2
<1>8. \A h \in Member : \A q \in DOMAIN receivers'[h] :
        \/ q \in DOMAIN receivers[h] /\ receivers'[h][q] = receivers[h][q]
        \/ \E x \in Receiver : q \in Member /\ x = receivers'[h][q] /\ Granted(h, q, x)
  BY <1>3, <1>4, <1>6, <1>7
<1> QED
  BY <1>0, <1>8, ReceiversAre

\* A text that opens, or does not.
LEMMA TextArrives ==
  ASSUME KeyInv, NEW m \in Member, OnText(m)
  PROVE  Receivers'
<1> DEFINE f == Head(down[m])
           r == receivers[m][f.from]
           o == Opened(r, f.ct)
<1>0. Types /\ Lengths /\ Frames /\ Receivers /\ Step(m) /\ receivers \in [Member -> Peers]
  BY DEF KeyInv, Step, Client, Types
<1>1. f \in Frame /\ f \in ToSet(down[m]) /\ f.type = "Text"
  BY <1>0, TakenOff DEF OnText, Reads, Types
<1>2. f.from \in Member /\ f.ct \in Point /\ f.ct.iteration = Cap(f.ct.key)
  BY <1>0, <1>1 DEF Frames, FrameOK, Frame
<1>3. CASE UNCHANGED receivers
  BY <1>0, <1>3, ReceiversAre
<1>4. CASE f.from \in DOMAIN receivers[m] /\ Opens(r, f.ct)
  <2>1. receivers' = [receivers EXCEPT ![m][f.from] = o]
    BY <1>4 DEF OnText
  <2>0. receivers[m] \in Peers
    BY <1>0
  <2> HIDE DEF f, o
  <2>2. r \in Receiver /\ Granted(m, f.from, r)
    <3> DEFINE q == f.from
    <3>1. q \in DOMAIN receivers[m]
      BY <1>4
    <3> HIDE DEF q
    <3>2. Granted(m, q, receivers[m][q])
      BY <1>0, <3>1 DEF Receivers
    <3>3. receivers[m][q] \in Receiver
      BY <2>0, <3>1, PeerType
    <3> QED
      BY <3>2, <3>3 DEF q
  <2>3. /\ o \in Receiver /\ Whole(o) /\ r.chain <= o.chain
        /\ \A s \in o.skipped : s \in r.skipped \/ (s.key \in Nat /\ r.chain <= s.key)
    BY <1>2, <1>4, <2>2, OpenedWhole DEF Granted, o
  <2>4. r.chain \in Nat /\ o.chain \in Nat
    BY <2>2, <2>3 DEF Receiver
  <2>5. Since(m, f.from, r.chain) /\ f.from # m /\ \A s \in r.skipped : Since(m, f.from, s.key)
    BY <2>2 DEF Granted
  <2> HIDE DEF r, f
  <2>6. Since(m, f.from, o.chain)
    BY <1>0, <1>2, <2>3, <2>4, <2>5, SinceLater
  <2>7. ASSUME NEW s \in o.skipped PROVE Since(m, f.from, s.key)
    <3>1. CASE s \in r.skipped
      BY <2>5, <3>1
    <3>2. CASE s.key \in Nat /\ r.chain <= s.key
      BY <1>0, <1>2, <2>4, <2>5, <3>2, SinceLater
    <3> QED
      BY <2>3, <3>1, <3>2
  <2>8. Granted(m, f.from, o)
    BY <2>3, <2>5, <2>6, <2>7 DEF Granted
  <2>9. ASSUME NEW h \in Member, NEW q \in DOMAIN receivers'[h]
        PROVE  \/ q \in DOMAIN receivers[h] /\ receivers'[h][q] = receivers[h][q]
               \/ h = m /\ q = f.from /\ receivers'[h][q] = o
    <3>1. CASE h # m
      BY <1>0, <2>1, <2>9, <3>1
    <3>2. CASE h = m
      <4>1. receivers'[m] = [receivers[m] EXCEPT ![f.from] = o]
        BY <1>0, <2>1
      <4>2. ASSUME NEW g, NEW Q, NEW x, NEW p \in DOMAIN [g EXCEPT ![x] = o], g \in [Q -> Receiver]
            PROVE  /\ p \in DOMAIN g
                   /\ IF p = x THEN [g EXCEPT ![x] = o][p] = o ELSE [g EXCEPT ![x] = o][p] = g[p]
        BY <4>2
      <4>3. PICK Q \in SUBSET Member : receivers[m] \in [Q -> Receiver]
        BY <1>0 DEF Peers
      <4> QED
        BY <2>9, <3>2, <4>1, <4>2, <4>3
    <3> QED
      BY <3>1, <3>2
  <2>10. \A h \in Member : \A q \in DOMAIN receivers'[h] :
          \/ q \in DOMAIN receivers[h] /\ receivers'[h][q] = receivers[h][q]
          \/ \E x \in Receiver : q \in Member /\ x = receivers'[h][q] /\ Granted(h, q, x)
    BY <1>2, <2>3, <2>8, <2>9
  <2> QED
    BY <1>0, <2>10, ReceiversAre
<1> QED
  BY <1>3, <1>4 DEF OnText

\* Whatever is done.
LEMMA ReceiversStep ==
  ASSUME KeyInv, NEW m \in Member, Step(m)
  PROVE  Receivers'
<1>1. CASE UNCHANGED receivers
  BY <1>1, ReceiversAre
<1>2. CASE OnKeyFor(m)
  BY <1>2, KeyArrives
<1>3. CASE OnText(m)
  BY <1>3, TextArrives
<1> QED
  BY <1>1, <1>2, <1>3
     DEF Step, Join, Client, OnRoster, Write, Leave, Reader, Writer, Register, BroadcastRoster,
         RouteKey, RouteText, Enqueue, ReaderEnds, Forward, WriterEnds, clientVars

-----------------------------------------------------------------------------
(* The theorems about keys. *)

\* Nobody is in yet.
LEMMA KeyInit == Init => KeyInv
<1> SUFFICES ASSUME Init PROVE KeyInv
  OBVIOUS
<1> USE DEF Init
<1>1. Types
  <2>1. [q \in {} |-> {}] \in Peers
    <3>1. [q \in {} |-> {}] \in [{} -> Receiver] /\ {} \in SUBSET Member
      OBVIOUS
    <3> QED
      BY <3>1 DEF Peers
  <2>2. receivers \in [Member -> Peers]
    BY <2>1
  <2>3. sender \in [Member -> Position]
    BY DEF NewSender, Position
  <2>4. <<>> \in Seq(Frame) /\ <<>> \in Seq(SUBSET Member) /\ <<>> \in Seq([from : Member, n : Nat])
    OBVIOUS
  <2>5. /\ up \in [Member -> Seq(Frame)] /\ down \in [Member -> Seq(Frame)]
        /\ outQ \in [Member -> Seq(Frame)] /\ sending \in [Member -> SUBSET Delivery]
        /\ written \in [Member -> Seq(SUBSET Member)]
        /\ shown \in [Member -> Seq([from : Member, n : Nat])]
    BY <2>4
  <2> QED
    BY <2>2, <2>3, <2>5 DEF Types
<1>2. Counts
  BY RelayAssumption, SenderKeyAssumption DEF Counts, NewSender, AtCap, Cap
<1>3. Lengths
  BY RelayAssumption DEF Lengths
<1>4. Frames
  <2>1. IsFiniteSet({})
    BY FS_EmptySet
  <2>2. ToSet(<<>>) = {}
    BY DEF ToSet
  <2> QED
    BY <2>1, <2>2 DEF Frames
<1>5. Receivers
  BY DEF Receivers
<1> QED
  BY <1>1, <1>2, <1>3, <1>4, <1>5 DEF KeyInv

\* Every step keeps the invariant.
LEMMA KeyStep ==
  ASSUME KeyInv, [Next]_vars
  PROVE  KeyInv'
<1>1. CASE UNCHANGED vars
  <2> USE <1>1 DEF vars, clientVars, relayVars, linkVars
  <2>1. Types' /\ Counts' /\ Lengths'
    BY DEF KeyInv, Types, Counts, Lengths
  <2>2. Frames' /\ Receivers'
    BY DEF KeyInv, Frames, Receivers, Granted, Since, FrameOK
  <2> QED
    BY <2>1, <2>2 DEF KeyInv
<1>2. CASE Next
  <2>1. PICK m \in Member : Step(m)
    BY <1>2 DEF Next, Step
  <2>2. Types' /\ Lengths'
    BY <2>1, TypesStep DEF KeyInv, Step
  <2> QED
    BY <2>1, <2>2, CountsStep, FramesStep, ReceiversStep DEF KeyInv
<1> QED
  BY <1>1, <1>2

\* Whatever is under way is of whom it says, and opens nothing that was written
\* before its reader was granted the key.
THEOREM KeyInvariance == Spec => []KeyInv
  BY KeyInit, KeyStep, PTL DEF Spec

\* The types and the bounds: queues, links and stores of skipped keys never
\* exceed their capacities.
THEOREM GroupTypes == Spec => []TypeOK
<1>1. ASSUME KeyInv PROVE TypeOK
  <2>1. sender \in [Member -> [chain : Steps, iteration : Steps \cap 0 .. LastIteration]]
    <3>1. ASSUME NEW m \in Member
          PROVE  sender[m] \in [chain : Steps, iteration : Steps \cap 0 .. LastIteration]
      <4>1. /\ sender[m] \in Position /\ AtCap(sender[m]) /\ sender[m].chain <= MaxTexts
            /\ MaxTexts \in Nat /\ LastIteration \in Nat
        BY <1>1, RelayAssumption, SenderKeyAssumption DEF KeyInv, Types, Counts
      <4> QED
        BY <4>1 DEF Position, AtCap, Cap, Steps
    <3> QED
      BY <1>1, <3>1 DEF KeyInv, Types
  <2>2. ASSUME NEW m \in Member
        PROVE  /\ DOMAIN receivers[m] \subseteq Member \ {m}
               /\ \A q \in DOMAIN receivers[m] :
                    Cardinality(receivers[m][q].skipped) <= MaxSkippedStore
    <3>1. receivers[m] \in Peers
      BY <1>1 DEF KeyInv, Types
    <3>2. DOMAIN receivers[m] \subseteq Member
      BY <3>1, PeerType
    <3> QED
      BY <1>1, <3>2 DEF KeyInv, Receivers, Granted, Whole
  <2> QED
    BY <1>1, <2>1, <2>2 DEF TypeOK, KeyInv, Types, Lengths
<1> QED
  BY <1>1, KeyInvariance, PTL

\* A member never holds the key, kept or still to be ratcheted to, of a text its
\* author wrote before sending it the sender key, in whatever order rosters,
\* keys and texts of members who come and go reach it (SenderKeyState::distribution).
THEOREM NewcomersReadOn == Spec => []OldTextsStayClosed
<1>1. ASSUME KeyInv, NEW m \in Member, NEW q \in DOMAIN receivers[m], NEW k \in DOMAIN written[q],
             m \notin written[q][k]
      PROVE  /\ k - 1 < receivers[m][q].chain
             /\ \A s \in receivers[m][q].skipped : s.key # k - 1
  <2> DEFINE r == receivers[m][q]
  <2>1. receivers[m] \in Peers
    BY <1>1 DEF KeyInv, Types
  <2>2. r \in Receiver /\ q \in Member /\ Granted(m, q, r)
    BY <1>1, <2>1, PeerType DEF KeyInv, Receivers
  <2>3. written[q] \in Seq(SUBSET Member)
    BY <1>1, <2>2 DEF KeyInv, Types
  <2>4. k \in Nat \ {0}
    BY <2>3
  <2>5. r.chain \in Nat /\ \A s \in r.skipped : s.key \in Nat
    BY <2>2 DEF Receiver, Point
  <2>6. ~(k > r.chain) /\ \A s \in r.skipped : ~(k > s.key)
    BY <1>1, <2>2 DEF Granted, Since
  <2> HIDE DEF r
  <2>7. k - 1 < r.chain /\ \A s \in r.skipped : s.key # k - 1
    BY <2>4, <2>5, <2>6
  <2> QED
    BY <2>7 DEF r
<1>2. KeyInv => OldTextsStayClosed
  BY <1>1 DEF OldTextsStayClosed
<1> QED
  BY <1>2, KeyInvariance, PTL

-----------------------------------------------------------------------------
(* Who has met whom. *)

\* Whoever was on the roster once.
Met(h) == h \in roster \/ stage[h] = "gone"
AllMet(f) == f.type = "Roster" => \A h \in f.members : Met(h)

Meetings ==
  /\ \A h \in roster : stage[h] # "out"
  /\ \A m \in Member : \A d \in sending[m] : AllMet(d.frame)
  /\ \A m \in Member : \A f \in ToSet(outQ[m]) \cup ToSet(down[m]) : AllMet(f)

\* A key goes out once to each; a text is written for those it went out to.
Grantees ==
  \A q \in Member :
    /\ granted[q] \subseteq keyedTo[q] \ {q} /\ \A h \in granted[q] : Met(h)
    /\ stage[q] = "out" => granted[q] = {}
    /\ \A k \in DOMAIN written[q] : written[q][k] \subseteq granted[q]

\* A reader that is to tell the room has nothing else to deliver.
Readers ==
  \A m \in Member :
    /\ reader[m] \in {"telling", "parting"} => sending[m] = {}
    /\ stage[m] = "out" => reader[m] = "none"

MetInv == Meetings /\ Grantees /\ Readers

\* Whoever was met stays so.
LEMMA MetStays ==
  ASSUME Types, MetInv, NEW m \in Member, Step(m)
  PROVE  /\ \A h \in Member : Met(h) => Met(h)'
         /\ \A h \in roster' : stage'[h] # "out"
         /\ \A h \in Member : stage[h] = "gone" => stage'[h] = "gone"
         /\ \A h \in Member : stage'[h] = "out" => stage[h] = "out"
<1>0. stage \in [Member -> {"out", "in", "gone"}] /\ roster \subseteq Member
  BY DEF Types
<1>1. CASE Join(m)
  BY <1>0, <1>1 DEF Join, Met, MetInv, Meetings
<1>2. CASE Leave(m)
  BY <1>0, <1>2 DEF Leave, Met, relayVars, MetInv, Meetings
<1>3. CASE Register(m)
  BY <1>0, <1>3 DEF Register, Takes, clientVars, Met, MetInv, Meetings, Readers
<1>4. CASE ReaderEnds(m)
  BY <1>0, <1>4 DEF ReaderEnds, clientVars, Met, MetInv, Meetings
<1>5. CASE UNCHANGED <<stage, roster>>
  BY <1>5 DEF Met, MetInv, Meetings
<1> QED
  BY <1>1, <1>2, <1>3, <1>4, <1>5
     DEF Step, Client, OnRoster, OnKeyFor, OnText, Write, Reader, Writer, BroadcastRoster, RouteKey,
         RouteText, Enqueue, Forward, WriterEnds, clientVars, relayVars

\* Every roster tells of members that were met.
LEMMA MeetingsStep ==
  ASSUME KeyInv, MetInv, NEW m \in Member, Step(m)
  PROVE  Meetings'
<1>0. Types /\ Lengths /\ Frames /\ Meetings
  BY DEF KeyInv, MetInv
<1>1. Moves(m)
  BY <1>0, EveryMove DEF Step
<1>2. ASSUME NEW f \in Frame, AllMet(f)
      PROVE  AllMet(f)'
  <2>1. f.type = "Roster" => f.members \subseteq Member
    BY DEF Frame
  <2> QED
    BY <1>0, <1>2, <2>1, MetStays DEF AllMet
<1>3. /\ sending \in [Member -> SUBSET Delivery] /\ roster \subseteq Member
      /\ up[m] \in Seq(Frame) /\ outQ \in [Member -> Seq(Frame)] /\ down \in [Member -> Seq(Frame)]
      /\ \A h \in Member : outQ[h] \in Seq(Frame) /\ down[h] \in Seq(Frame)
  BY <1>0 DEF Types
<1>4. \A h \in Member : \A d \in sending[h] : d.frame \in Frame /\ AllMet(d.frame)' /\ d.to \in Member
  BY <1>0, <1>2, <1>3 DEF Meetings, Delivery
<1>5. \A h \in Member : \A f \in ToSet(outQ[h]) \cup ToSet(down[h]) : AllMet(f)'
  BY <1>0, <1>2, <1>3 DEF Meetings, ToSet
<1>6. ASSUME NEW h \in Member, NEW d \in sending'[h]
      PROVE  AllMet(d.frame)'
  <2>1. CASE d \in sending[h]
    BY <1>4, <2>1
  <2>2. CASE d.frame = Roster(roster)
    <3>1. d.frame.members = roster /\ \A g \in roster : Met(g)'
      BY <1>0, <1>3, <2>2, MetStays DEF Roster, Met
    <3> QED
      BY <3>1 DEF AllMet
  <2>3. \/ d \in sending[h] \/ d.frame = Roster(roster) \/ d.frame.type \in {"Text", "KeyFor"}
    <3>1. PICK S : (Routes(m, S) /\ sending' = [sending EXCEPT ![m] = S]) \/ UNCHANGED sending
      BY <1>1 DEF Moves, SendMoves
    <3>2. CASE h = m /\ Routes(m, S) /\ d \in S
      BY <3>2 DEF Routes
    <3> QED
      BY <1>1, <1>3, <3>1, <3>2 DEF Moves, SendMoves
  <2>4. CASE d.frame.type \in {"Text", "KeyFor"}
    BY <2>4 DEF AllMet
  <2> QED
    BY <2>1, <2>2, <2>3, <2>4
<1>7. ASSUME NEW h \in Member, NEW f \in ToSet(outQ'[h])
      PROVE  AllMet(f)'
  <2>1. CASE UNCHANGED outQ
    BY <1>5, <2>1
  <2>2. CASE outQ' = [outQ EXCEPT ![m] = <<>>]
    <3>1. outQ'[h] = <<>> \/ outQ'[h] = outQ[h]
      BY <1>3, <2>2
    <3> QED
      BY <1>5, <3>1 DEF ToSet
  <2>3. CASE outQ[m] # <<>> /\ outQ' = [outQ EXCEPT ![m] = Tail(@)]
    <3>1. (h = m /\ outQ'[h] = Tail(outQ[m])) \/ outQ'[h] = outQ[h]
      BY <1>3, <2>3
    <3>2. ToSet(Tail(outQ[m])) \subseteq ToSet(outQ[m])
      BY <1>3, <2>3, TakenOff
    <3> QED
      BY <1>5, <3>1, <3>2
  <2>4. ASSUME NEW d \in sending[m], outQ' = [outQ EXCEPT ![d.to] = Append(@, d.frame)]
        PROVE  AllMet(f)'
    <3>1. outQ'[h] = Append(outQ[h], d.frame) \/ outQ'[h] = outQ[h]
      BY <1>3, <1>4, <2>4
    <3>2. ToSet(Append(outQ[h], d.frame)) \subseteq ToSet(outQ[h]) \cup {d.frame}
      BY <1>3, <1>4, PutBehind
    <3>3. AllMet(d.frame)'
      BY <1>4
    <3>4. f \in ToSet(outQ[h]) \/ f = d.frame
      <4>1. CASE outQ'[h] = Append(outQ[h], d.frame)
        <5>1. f \in ToSet(Append(outQ[h], d.frame))
          BY <4>1
        <5> QED
          BY <3>2, <5>1
      <4>2. CASE outQ'[h] = outQ[h]
        BY <4>2
      <4> QED
        BY <3>1, <4>1, <4>2
    <3> QED
      BY <1>5, <3>3, <3>4
  <2> QED
    BY <1>1, <2>1, <2>2, <2>3, <2>4 DEF Moves, OutMoves
<1>8. ASSUME NEW h \in Member, NEW f \in ToSet(down'[h])
      PROVE  AllMet(f)'
  <2>1. CASE UNCHANGED down
    BY <1>5, <2>1
  <2>2. CASE down' = [down EXCEPT ![m] = <<>>]
    <3>1. down'[h] = <<>> \/ down'[h] = down[h]
      BY <1>3, <2>2
    <3> QED
      BY <1>5, <3>1 DEF ToSet
  <2>3. CASE down[m] # <<>> /\ down' = [down EXCEPT ![m] = Tail(@)]
    <3>1. (h = m /\ down'[h] = Tail(down[m])) \/ down'[h] = down[h]
      BY <1>3, <2>3
    <3>2. ToSet(Tail(down[m])) \subseteq ToSet(down[m])
      BY <1>3, <2>3, TakenOff
    <3> QED
      BY <1>5, <3>1, <3>2
  <2>4. CASE outQ[m] # <<>> /\ down' = [down EXCEPT ![m] = Append(@, Head(outQ[m]))]
    <3>1. (h = m /\ down'[h] = Append(down[m], Head(outQ[m]))) \/ down'[h] = down[h]
      BY <1>3, <2>4
    <3>2. Head(outQ[m]) \in ToSet(outQ[m]) /\ Head(outQ[m]) \in Frame
      BY <1>3, <2>4, TakenOff
    <3>3. ToSet(Append(down[m], Head(outQ[m]))) \subseteq ToSet(down[m]) \cup {Head(outQ[m])}
      BY <1>3, <3>2, PutBehind
    <3> QED
      BY <1>5, <3>1, <3>2, <3>3
  <2> QED
    BY <1>1, <2>1, <2>2, <2>3, <2>4 DEF Moves, DownMoves
<1> QED
  BY <1>0, <1>6, <1>7, <1>8, MetStays DEF Meetings, MetInv

\* A key goes out to those on a roster, and once.
LEMMA GranteesStep ==
  ASSUME KeyInv, MetInv, NEW m \in Member, Step(m)
  PROVE  Grantees'
<1>0. Types /\ Lengths /\ Frames /\ Meetings /\ Grantees
  BY DEF KeyInv, MetInv
<1>1. /\ granted \in [Member -> SUBSET Member] /\ written \in [Member -> Seq(SUBSET Member)]
      /\ keyedTo \in [Member -> SUBSET Member]
  BY <1>0 DEF Types
<1>2. ASSUME UNCHANGED granted, \A q \in Member : keyedTo[q] \subseteq keyedTo'[q],
             NEW q \in Member
      PROVE  /\ granted'[q] \subseteq keyedTo'[q] \ {q} /\ \A h \in granted'[q] : Met(h)'
             /\ stage'[q] = "out" => granted'[q] = {}
  BY <1>0, <1>1, <1>2, MetStays DEF MetInv, Grantees
<1>3. CASE UNCHANGED <<granted, keyedTo, written>>
  BY <1>0, <1>2, <1>3 DEF Grantees
<1>4. CASE Write(m)
  <2>1. UNCHANGED <<granted, keyedTo>> /\ written' = [written EXCEPT ![m] = Append(@, granted[m])]
    BY <1>4 DEF Write
  <2>2. ASSUME NEW q \in Member, NEW k \in DOMAIN written'[q]
        PROVE  written'[q][k] \subseteq granted'[q]
    <3>1. CASE q # m
      BY <1>0, <1>1, <2>1, <3>1 DEF Grantees
    <3>2. CASE q = m
      <4>1. written'[q] = Append(written[q], granted[q]) /\ written[q] \in Seq(SUBSET Member)
            /\ granted[q] \in SUBSET Member
        BY <1>1, <2>1, <3>2
      <4>2. \/ k \in DOMAIN written[q] /\ written'[q][k] = written[q][k]
            \/ written'[q][k] = granted[q]
        BY <4>1, PutBehind
      <4> QED
        BY <1>0, <2>1, <4>2 DEF Grantees
    <3> QED
      BY <3>1, <3>2
  <2> QED
    BY <1>2, <2>1, <2>2 DEF Grantees
<1>5. CASE OnRoster(m)
  <2>1. PICK keys, to : Keys(m, keys, to) /\ Firsts(m, keys, to)
    BY <1>0, <1>5, OnRosterKeys
  <2>2. /\ down[m] \in Seq(Frame) /\ down[m] # <<>> /\ Head(down[m]).type = "Roster"
        /\ stage[m] = "in" /\ UNCHANGED <<stage, roster>>
    BY <1>0, <1>5 DEF OnRoster, Reads, Types, relayVars
  <2>3. \A h \in Head(down[m]).members : Met(h)
    <3>1. Head(down[m]) \in ToSet(down[m])
      BY <2>2, TakenOff
    <3> QED
      BY <1>0, <2>2, <3>1 DEF Meetings, AllMet
  <2>4. granted' = [granted EXCEPT ![m] = @ \cup to] /\ UNCHANGED written /\ to \subseteq Member
    BY <2>1 DEF Keys
  <2>5. \A q \in Member : keyedTo[q] \subseteq keyedTo'[q]
    BY <1>0, <1>5, OnRosterKeys
  <2>6. \A t \in to : t \in keyedTo'[m] /\ t # m /\ Met(t)
    BY <2>1, <2>3 DEF Firsts
  <2>7. ASSUME NEW q \in Member
        PROVE  /\ granted'[q] \subseteq keyedTo'[q] \ {q} /\ \A h \in granted'[q] : Met(h)'
               /\ stage'[q] = "out" => granted'[q] = {}
               /\ granted[q] \subseteq granted'[q]
    <3>1. CASE q = m
      <4>1. granted'[q] = granted[q] \cup to
        BY <1>1, <2>4, <3>1
      <4> QED
        BY <1>0, <2>2, <2>5, <2>6, <3>1, <4>1 DEF Grantees, Met
    <3>2. CASE q # m
      <4>1. granted'[q] = granted[q]
        BY <1>1, <2>4, <3>2
      <4> QED
        BY <1>0, <2>2, <2>5, <4>1 DEF Grantees, Met
    <3> QED
      BY <3>1, <3>2
  <2>8. \A q \in Member : \A k \in DOMAIN written'[q] : written'[q][k] \subseteq granted'[q]
    BY <1>0, <2>4, <2>7 DEF Grantees
  <2> QED
    BY <2>7, <2>8 DEF Grantees
<1> QED
  BY <1>3, <1>4, <1>5
     DEF Step, Join, Client, OnKeyFor, OnText, Leave, Reader, Writer, Register, BroadcastRoster,
         RouteKey, RouteText, Enqueue, ReaderEnds, Forward, WriterEnds, clientVars

\* What a reader has to deliver.
LEMMA ReadersStep ==
  ASSUME KeyInv, MetInv, NEW m \in Member, Step(m)
  PROVE  Readers'
<1>0. /\ stage \in [Member -> {"out", "in", "gone"}] /\ sending \in [Member -> SUBSET Delivery]
      /\ reader \in [Member -> {"none", "waiting", "telling", "known", "parting", "parted"}]
      /\ Readers
  BY DEF KeyInv, Types, MetInv
<1>1. \A h \in Member \ {m} : UNCHANGED <<stage[h], sending[h], reader[h]>>
  BY <1>0 DEF Step, Join, Client, OnRoster, OnKeyFor, OnText, Write, Leave, Reader, Writer, Register,
     BroadcastRoster, RouteKey, RouteText, Enqueue, ReaderEnds, Forward, WriterEnds, clientVars, relayVars
<1>2. CASE UNCHANGED <<stage, sending, reader>>
  BY <1>0, <1>2 DEF Readers
<1>3. CASE Join(m) \/ Leave(m)
  BY <1>0, <1>3 DEF Join, Leave, relayVars, Readers
<1>4. CASE Register(m) \/ ReaderEnds(m)
  BY <1>0, <1>4 DEF Register, ReaderEnds, Takes, clientVars, Readers
<1>5. CASE BroadcastRoster(m) \/ RouteKey(m) \/ RouteText(m)
  <2>1. /\ UNCHANGED stage /\ reader'[m] \notin {"telling", "parting"} /\ stage[m] # "out"
    BY <1>0, <1>5 DEF BroadcastRoster, RouteKey, RouteText, Takes, clientVars, Readers
  <2> QED
    BY <1>0, <1>1, <2>1 DEF Readers
<1>6. CASE Enqueue(m)
  <2>1. UNCHANGED <<stage, reader>> /\ sending'[m] \subseteq sending[m]
    BY <1>0, <1>6 DEF Enqueue, clientVars
  <2> QED
    BY <1>0, <1>1, <2>1 DEF Readers
<1> QED
  BY <1>2, <1>3, <1>4, <1>5, <1>6
     DEF Step, Client, OnRoster, OnKeyFor, OnText, Write, Reader, Writer, Forward, WriterEnds,
         clientVars, relayVars

\* Nobody has met anybody.
LEMMA MetInit == Init => MetInv
<1> SUFFICES ASSUME Init PROVE MetInv
  OBVIOUS
<1>1. ToSet(<<>>) = {} /\ DOMAIN <<>> = {}
  BY DEF ToSet
<1> QED
  BY <1>1 DEF Init, MetInv, Meetings, Grantees, Readers

\* Whatever is done.
LEMMA MetStep ==
  ASSUME KeyInv, MetInv, [Next]_vars
  PROVE  MetInv'
<1>1. CASE UNCHANGED vars
  BY <1>1 DEF vars, clientVars, relayVars, linkVars, MetInv, Meetings, Grantees, Readers, AllMet, Met
<1>2. CASE Next
  <2>1. PICK m \in Member : Step(m)
    BY <1>2 DEF Next, Step
  <2> QED
    BY <2>1, MeetingsStep, GranteesStep, ReadersStep DEF MetInv
<1> QED
  BY <1>1, <1>2

-----------------------------------------------------------------------------
(* The order of what one member sends another, its key and then its texts: *)
(* what was shown, then what is on the link from the relay, in the writer's *)
(* queue, with the reader, and on the link to the relay, then what is       *)
(* written next.                                                           *)

Of(f, m, q) ==
  \/ f.type = "Text" /\ f.from = q
  \/ f.type = "KeyFor" /\ f.from = q /\ f.to = m

\* A key goes before the text it is for, and after the one before that.
Rank(f) == IF f.type = "Text" THEN 2 * f.ct.key + 1 ELSE 2 * f.dist.chain
Ranks(S, m, q) == {Rank(f) : f \in {g \in S : Of(g, m, q)}}

Seen(m, q) == {2 * shown[m][i].n + 1 : i \in {j \in DOMAIN shown[m] : shown[m][j].from = q}}
Passed(m, q) == {d.frame : d \in {e \in sending[q] : e.to = m}}
OnDown(m, q) == Ranks(ToSet(down[m]), m, q)
Waiting(m, q) == Ranks(ToSet(outQ[m]), m, q)
Leaving(m, q) == Ranks(Passed(m, q), m, q)
OnUp(m, q) == Ranks(ToSet(up[q]), m, q)

Below(A, B) == \A a \in A, b \in B : a < b
Row(A, B, C, D, E, N) ==
  /\ Below(A, B) /\ Below(A, C) /\ Below(A, D) /\ Below(A, E)
  /\ Below(B, C) /\ Below(B, D) /\ Below(B, E)
  /\ Below(C, D) /\ Below(C, E) /\ Below(D, E)
  /\ \A n \in A \cup B \cup C \cup D \cup E : n \in Nat /\ n < N

Rising(s, m, q) ==
  \A i, j \in DOMAIN s : i < j /\ Of(s[i], m, q) /\ Of(s[j], m, q) => Rank(s[i]) < Rank(s[j])

\* A reader delivers one frame at a time, once to each.
Alone(q) == \A d, e \in sending[q] : d.to = e.to => d = e

Limit(q) == 2 * Len(written[q]) + 1
InRow(m, q) ==
  Row(Seen(m, q), OnDown(m, q), Waiting(m, q), Leaving(m, q), OnUp(m, q), Limit(q))
Order ==
  /\ \A q \in Member : Alone(q)
  /\ \A m, q \in Member :
       Rising(up[q], m, q) /\ Rising(outQ[m], m, q) /\ Rising(down[m], m, q) /\ InRow(m, q)
  /\ InSenderOrder

OrderInv == KeyInv /\ MetInv /\ Order

-----------------------------------------------------------------------------
(* Rows. *)

\* What is taken away breaks no order.
LEMMA RowLess ==
  ASSUME NEW A, NEW B, NEW C, NEW D, NEW E, NEW N \in Nat, Row(A, B, C, D, E, N),
         NEW A1 \in SUBSET A, NEW B1 \in SUBSET B, NEW C1 \in SUBSET C, NEW D1 \in SUBSET D,
         NEW E1 \in SUBSET E, NEW N1 \in Nat, N <= N1
  PROVE  Row(A1, B1, C1, D1, E1, N1)
<1>1. \A n \in A \cup B \cup C \cup D \cup E : n \in Nat /\ n < N1
  BY DEF Row
<1> QED
  BY <1>1 DEF Row, Below

\* What is sent next is the last.
LEMMA RowSends ==
  ASSUME NEW A, NEW B, NEW C, NEW D, NEW E, NEW N \in Nat, Row(A, B, C, D, E, N),
         NEW x \in Nat, \A n \in A \cup B \cup C \cup D \cup E : n < x,
         NEW E1 \in SUBSET (E \cup {x}), NEW N1 \in Nat, N <= N1, x < N1
  PROVE  Row(A, B, C, D, E1, N1)
<1>1. \A n \in A \cup B \cup C \cup D \cup E1 : n \in Nat /\ n < N1
  BY DEF Row
<1> QED
  BY <1>1 DEF Row, Below

\* The first of one place moves to the place before: it is shown.
LEMMA RowShows ==
  ASSUME NEW A, NEW B, NEW C, NEW D, NEW E, NEW N, Row(A, B, C, D, E, N),
         NEW X \in SUBSET B, NEW A1 \in SUBSET (A \cup X), NEW B1 \in SUBSET B, Below(X, B1)
  PROVE  Row(A1, B1, C, D, E, N)
<1> QED
  BY DEF Row, Below

\* Likewise: it goes on the link from the relay.
LEMMA RowForwards ==
  ASSUME NEW A, NEW B, NEW C, NEW D, NEW E, NEW N, Row(A, B, C, D, E, N),
         NEW X \in SUBSET C, NEW B1 \in SUBSET (B \cup X), NEW C1 \in SUBSET C, Below(X, C1)
  PROVE  Row(A, B1, C1, D, E, N)
<1> QED
  BY DEF Row, Below

\* Likewise: it goes into the writer's queue.
LEMMA RowEnqueues ==
  ASSUME NEW A, NEW B, NEW C, NEW D, NEW E, NEW N, Row(A, B, C, D, E, N),
         NEW X \in SUBSET D, NEW C1 \in SUBSET (C \cup X), NEW D1 \in SUBSET D, Below(X, D1)
  PROVE  Row(A, B, C1, D1, E, N)
<1> QED
  BY DEF Row, Below

\* Likewise: the reader takes it.
LEMMA RowRoutes ==
  ASSUME NEW A, NEW B, NEW C, NEW D, NEW E, NEW N, Row(A, B, C, D, E, N),
         NEW X \in SUBSET E, NEW D1 \in SUBSET X, NEW E1 \in SUBSET E, Below(X, E1)
  PROVE  Row(A, B, C, D1, E1, N)
<1> QED
  BY DEF Row, Below

\* The ranks of frames.
LEMMA RanksOf ==
  ASSUME NEW m, NEW q
  PROVE  /\ \A S, T : S \subseteq T => Ranks(S, m, q) \subseteq Ranks(T, m, q)
         /\ \A f : Of(f, m, q) => Ranks({f}, m, q) = {Rank(f)}
         /\ \A f : ~Of(f, m, q) => Ranks({f}, m, q) = {}
         /\ Ranks({}, m, q) = {}
         /\ \A S : \A f \in S : Of(f, m, q) => Rank(f) \in Ranks(S, m, q)
<1> QED
  BY DEF Ranks

\* That of one.
LEMMA RankOfOne ==
  ASSUME NEW m, NEW q, NEW f, Of(f, m, q)
  PROVE  Ranks({f}, m, q) = {Rank(f)}
<1> QED
  BY DEF Ranks

\* Those of more frames.
LEMMA RanksUnion ==
  ASSUME NEW m, NEW q, NEW S, NEW T
  PROVE  Ranks(S \cup T, m, q) = Ranks(S, m, q) \cup Ranks(T, m, q)
<1> QED
  BY DEF Ranks

\* All that is behind the first.
LEMMA BehindFirst ==
  ASSUME NEW s \in Seq(Frame), s # <<>>
  PROVE  /\ ToSet(s) = ToSet(Tail(s)) \cup {Head(s)}
<1>1. /\ ToSet(Tail(s)) \subseteq ToSet(s) /\ Head(s) \in ToSet(s) /\ Head(s) = s[1]
      /\ Tail(s) \in Seq(Frame) /\ Len(Tail(s)) = Len(s) - 1
      /\ \A i \in DOMAIN Tail(s) : Tail(s)[i] = s[i + 1]
  BY TakenOff
<1>2. ASSUME NEW i \in DOMAIN s, i # 1
      PROVE  s[i] \in ToSet(Tail(s))
  <2>1. i - 1 \in DOMAIN Tail(s) /\ (i - 1) + 1 = i
    BY <1>1, <1>2
  <2>2. Tail(s)[i - 1] = s[i]
    BY <1>1, <2>1
  <2> QED
    BY <2>1, <2>2 DEF ToSet
<1>3. \A f \in ToSet(s) : f \in ToSet(Tail(s)) \/ f = Head(s)
  BY <1>1, <1>2 DEF ToSet
<1> QED
  BY <1>1, <1>3

\* All that is in front of the last.
LEMMA BeforeLast ==
  ASSUME NEW s \in Seq(Frame), NEW f \in Frame
  PROVE  ToSet(Append(s, f)) = ToSet(s) \cup {f}
<1>1. /\ ToSet(Append(s, f)) \subseteq ToSet(s) \cup {f} /\ Len(Append(s, f)) = Len(s) + 1
      /\ Len(s) \in Nat /\ Append(s, f) \in Seq(Frame)
  BY PutBehind
<1>2. /\ \A i \in DOMAIN s : i \in DOMAIN Append(s, f) /\ Append(s, f)[i] = s[i]
      /\ Len(s) + 1 \in DOMAIN Append(s, f) /\ Append(s, f)[Len(s) + 1] = f
  BY <1>1
<1> QED
  BY <1>1, <1>2 DEF ToSet

ShrinksTo(s, t) == t = s \/ t = <<>> \/ (s # <<>> /\ t = Tail(s))

\* What is left of a queue is in order still.
LEMMA Shrunk ==
  ASSUME NEW s \in Seq(Frame), NEW t, ShrinksTo(s, t), NEW m, NEW q, Rising(s, m, q)
  PROVE  Rising(t, m, q) /\ Ranks(ToSet(t), m, q) \subseteq Ranks(ToSet(s), m, q)
<1>1. CASE t = s
  BY <1>1
<1>2. CASE t = <<>>
  BY <1>2 DEF Rising, ToSet, Ranks
<1>3. CASE s # <<>> /\ t = Tail(s)
  <2>1. /\ ToSet(t) \subseteq ToSet(s) /\ Len(s) \in Nat /\ t \in Seq(Frame)
        /\ \A i \in DOMAIN t : i + 1 \in DOMAIN s /\ t[i] = s[i + 1]
    BY <1>3, TakenOff
  <2>2. \A i, j \in DOMAIN t : i < j => i + 1 < j + 1
    BY <2>1
  <2>3. Rising(t, m, q)
    BY <2>1, <2>2 DEF Rising
  <2> QED
    BY <2>1, <2>3, RanksOf
<1> QED
  BY <1>1, <1>2, <1>3 DEF ShrinksTo

\* What comes off the front is before the rest.
LEMMA FirstOff ==
  ASSUME NEW s \in Seq(Frame), s # <<>>, NEW m, NEW q, Rising(s, m, q)
  PROVE  /\ Ranks({Head(s)}, m, q) \subseteq Ranks(ToSet(s), m, q)
         /\ Ranks(ToSet(Tail(s)), m, q) \subseteq Ranks(ToSet(s), m, q)
         /\ Rising(Tail(s), m, q)
         /\ Below(Ranks({Head(s)}, m, q), Ranks(ToSet(Tail(s)), m, q))
<1>1. /\ Head(s) \in ToSet(s) /\ Head(s) = s[1] /\ Len(s) \in Nat /\ Tail(s) \in Seq(Frame)
      /\ \A i \in DOMAIN Tail(s) : i + 1 \in DOMAIN s /\ Tail(s)[i] = s[i + 1]
  BY TakenOff
<1>2. 1 \in DOMAIN s /\ \A i \in DOMAIN Tail(s) : 1 < i + 1
  BY <1>1
<1>3. ASSUME NEW f \in ToSet(Tail(s)), Of(Head(s), m, q), Of(f, m, q)
      PROVE  Rank(Head(s)) < Rank(f)
  <2>1. PICK i \in DOMAIN Tail(s) : f = Tail(s)[i]
    BY DEF ToSet
  <2> QED
    BY <1>1, <1>2, <1>3, <2>1 DEF Rising
<1>4. {Head(s)} \subseteq ToSet(s)
  BY <1>1
<1>5. Ranks({Head(s)}, m, q) \subseteq Ranks(ToSet(s), m, q)
  BY <1>4, RanksOf
<1>6. Rising(Tail(s), m, q) /\ Ranks(ToSet(Tail(s)), m, q) \subseteq Ranks(ToSet(s), m, q)
  BY Shrunk DEF ShrinksTo
<1>7. Below(Ranks({Head(s)}, m, q), Ranks(ToSet(Tail(s)), m, q))
  BY <1>3 DEF Below, Ranks
<1> QED
  BY <1>5, <1>6, <1>7

\* What goes to the back is after the rest.
LEMMA LastOn ==
  ASSUME NEW s \in Seq(Frame), NEW f \in Frame, NEW m, NEW q, Rising(s, m, q),
         Below(Ranks(ToSet(s), m, q), Ranks({f}, m, q))
  PROVE  Rising(Append(s, f), m, q)
<1>1. /\ Len(s) \in Nat
      /\ \A i \in DOMAIN Append(s, f) :
           \/ i \in DOMAIN s /\ Append(s, f)[i] = s[i]
           \/ i = Len(s) + 1 /\ Append(s, f)[i] = f
  BY PutBehind
<1>2. \A i \in DOMAIN s : i \in Nat /\ i < Len(s) + 1
  OBVIOUS
<1>3. ASSUME NEW i \in DOMAIN s, Of(s[i], m, q), Of(f, m, q)
      PROVE  Rank(s[i]) < Rank(f)
  <2>1. s[i] \in ToSet(s)
    BY DEF ToSet
  <2>2. Rank(s[i]) \in Ranks(ToSet(s), m, q) /\ Rank(f) \in Ranks({f}, m, q)
    BY <1>3, <2>1, RanksOf
  <2> QED
    BY <2>2 DEF Below
<1>4. ASSUME NEW i \in DOMAIN Append(s, f), NEW j \in DOMAIN Append(s, f), i < j,
             Of(Append(s, f)[i], m, q), Of(Append(s, f)[j], m, q)
      PROVE  Rank(Append(s, f)[i]) < Rank(Append(s, f)[j])
  <2>1. i \in DOMAIN s
    BY <1>1, <1>2, <1>4
  <2>2. Append(s, f)[i] = s[i]
    BY <1>1, <1>2, <2>1
  <2>3. CASE j \in DOMAIN s /\ Append(s, f)[j] = s[j]
    BY <1>4, <2>1, <2>2, <2>3 DEF Rising
  <2>4. CASE Append(s, f)[j] = f
    BY <1>3, <1>4, <2>1, <2>2, <2>4
  <2> QED
    BY <1>1, <2>3, <2>4
<1> QED
  BY <1>4 DEF Rising

\* It is there then with the rest.
LEMMA LastAmong ==
  ASSUME NEW s \in Seq(Frame), NEW f \in Frame, NEW m, NEW q
  PROVE  Ranks(ToSet(Append(s, f)), m, q) = Ranks(ToSet(s), m, q) \cup Ranks({f}, m, q)
<1>1. ToSet(Append(s, f)) = ToSet(s) \cup {f}
  BY BeforeLast
<1> QED
  BY <1>1, RanksUnion

-----------------------------------------------------------------------------
(* What a step does to the order. *)

\* What a sequence holds.
LEMMA ElementOf ==
  ASSUME NEW S, NEW s \in Seq(S), NEW i \in DOMAIN s
  PROVE  s[i] \in S
<1> QED
  OBVIOUS

\* What holds of a row of frames and the places it is in.
LEMMA RowFacts ==
  ASSUME OrderInv, NEW h \in Member, NEW q \in Member
  PROVE  /\ Row(Seen(h, q), OnDown(h, q), Waiting(h, q), Leaving(h, q), OnUp(h, q), Limit(q))
         /\ Len(written[q]) \in Nat /\ Limit(q) \in Nat
         /\ up[q] \in Seq(Frame) /\ outQ[h] \in Seq(Frame) /\ down[h] \in Seq(Frame)
         /\ Rising(up[q], h, q) /\ Rising(outQ[h], h, q) /\ Rising(down[h], h, q) /\ Alone(q)
<1>1. written[q] \in Seq(SUBSET Member)
  BY DEF OrderInv, KeyInv, Types
<1>2. Len(written[q]) \in Nat /\ Limit(q) \in Nat
  BY <1>1 DEF Limit
<1> QED
  BY <1>2 DEF OrderInv, KeyInv, Types, Order, InRow

\* Before a key went out there is none on its way, only texts the receiver cannot open.
LEMMA NoKeyYet ==
  ASSUME OrderInv, NEW h \in Member, NEW q \in Member, h \notin granted[q],
         NEW n \in Seen(h, q) \cup OnDown(h, q) \cup Waiting(h, q) \cup Leaving(h, q) \cup OnUp(h, q)
  PROVE  n < 2 * Len(written[q])
<1>0. /\ Types /\ Frames
      /\ sending \in [Member -> SUBSET Delivery]
      /\ shown[h] \in Seq([from : Member, n : Nat])
  BY DEF OrderInv, KeyInv, Types
<1>1. /\ n \in Nat /\ n < Limit(q) /\ Len(written[q]) \in Nat
      /\ up[q] \in Seq(Frame) /\ outQ[h] \in Seq(Frame) /\ down[h] \in Seq(Frame)
  BY RowFacts DEF Row
<1>2. ASSUME NEW f \in Frame, FrameOK(f), Of(f, h, q)
      PROVE  \E i \in Nat : Rank(f) = 2 * i + 1
  <2>1. f.type # "KeyFor"
    BY <1>2 DEF FrameOK, Of, Since
  <2>2. f.type = "Text"
    BY <1>2, <2>1 DEF Of
  <2>3. f.ct.key \in Nat
    BY <2>2 DEF Frame, Point
  <2> QED
    BY <2>2, <2>3 DEF Rank
<1>3. \A f \in ToSet(up[q]) \cup ToSet(outQ[h]) \cup ToSet(down[h]) : f \in Frame /\ FrameOK(f)
  BY <1>0, <1>1 DEF Frames, ToSet
<1>4. \A f \in Passed(h, q) : f \in Frame /\ FrameOK(f)
  BY <1>0 DEF Frames, Passed, Delivery
<1>5. CASE n \in Seen(h, q)
  <2>1. PICK i \in DOMAIN shown[h] : n = 2 * shown[h][i].n + 1
    BY <1>5 DEF Seen
  <2>2. shown[h][i] \in [from : Member, n : Nat]
    BY <1>0, ElementOf
  <2>3. shown[h][i].n \in Nat
    BY <2>2
  <2> QED
    BY <1>1, <2>1, <2>3 DEF Limit
<1>6. CASE n \notin Seen(h, q)
  <2>1. PICK i \in Nat : n = 2 * i + 1
    BY <1>2, <1>3, <1>4, <1>6 DEF OnDown, Waiting, Leaving, OnUp, Ranks
  <2> QED
    BY <1>1, <2>1 DEF Limit
<1> QED
  BY <1>5, <1>6

\* The link to the relay: what is sent goes to its back, behind all that went before.
LEMMA UpOrder ==
  ASSUME OrderInv, NEW m \in Member, Step(m), NEW h \in Member, NEW q \in Member
  PROVE  /\ Rising(up'[q], h, q) /\ Limit(q)' \in Nat
         /\ Row(Seen(h, q), OnDown(h, q), Waiting(h, q), Leaving(h, q), OnUp(h, q)', Limit(q)')
<1> DEFINE Goal == /\ Rising(up'[q], h, q)
                   /\ Row(Seen(h, q), OnDown(h, q), Waiting(h, q), Leaving(h, q), OnUp(h, q)', Limit(q)')
           L == Len(written[q])
<1>0. KeyInv /\ Types /\ Lengths /\ Frames /\ Counts /\ MetInv
  BY DEF OrderInv, KeyInv
<1>1. up \in [Member -> Seq(Frame)] /\ written[q] \in Seq(SUBSET Member) /\ granted[q] \in SUBSET Member
      /\ written \in [Member -> Seq(SUBSET Member)]
  BY <1>0 DEF Types
<1>2. /\ Row(Seen(h, q), OnDown(h, q), Waiting(h, q), Leaving(h, q), OnUp(h, q), Limit(q))
      /\ L \in Nat /\ Limit(q) \in Nat /\ up[q] \in Seq(Frame) /\ Rising(up[q], h, q)
      /\ \A n \in Seen(h, q) \cup OnDown(h, q) \cup Waiting(h, q) \cup Leaving(h, q) \cup OnUp(h, q) :
           n \in Nat /\ n < Limit(q)
  BY RowFacts DEF Row
<1>3. /\ Len(Append(written[q], granted[q])) = L + 1
      /\ written'[q] = written[q] \/ written'[q] = Append(written[q], granted[q])
  BY <1>0, <1>1, Grants, PutBehind
<1>4. Limit(q)' \in Nat /\ Limit(q) <= Limit(q)'
      /\ (written'[q] = Append(written[q], granted[q]) => Limit(q)' = Limit(q) + 2)
  <2>1. Len(written'[q]) = L \/ Len(written'[q]) = L + 1
    BY <1>3
  <2>2. Limit(q)' = 2 * Len(written'[q]) + 1 /\ Limit(q) = 2 * L + 1
    BY DEF Limit
  <2>3. L \in Nat /\ Len(Append(written[q], granted[q])) = L + 1
    BY <1>2, <1>3
  <2>4. written'[q] = Append(written[q], granted[q]) => Len(written'[q]) = L + 1
    BY <2>3
  <2> HIDE DEF L
  <2> QED
    BY <2>1, <2>2, <2>3, <2>4
<1> HIDE DEF L
<1>5. CASE ShrinksTo(up[q], up'[q])
  <2>1. Rising(up'[q], h, q) /\ OnUp(h, q)' \subseteq OnUp(h, q)
    BY <1>2, <1>5, Shrunk DEF OnUp
  <2>2. Row(Seen(h, q), OnDown(h, q), Waiting(h, q), Leaving(h, q), OnUp(h, q)', Limit(q)')
    BY <1>2, <1>4, <2>1, RowLess
  <2> QED
    BY <1>4, <2>1, <2>2
<1>6. UpMoves(m)
  BY <1>0, EveryMove DEF Moves, Step
<1>7. CASE q # m
  <2>1. up'[q] = up[q]
    BY <1>1, <1>6, <1>7 DEF UpMoves, Keys
  <2> QED
    BY <1>4, <1>5, <2>1 DEF ShrinksTo
<1>8. CASE q = m /\ up' = [up EXCEPT ![m] = <<Hello(m)>>]
  <2>1. up'[q] = <<Hello(m)>>
    BY <1>1, <1>8
  <2>2. ToSet(<<Hello(m)>>) = {Hello(m)} /\ ~Of(Hello(m), h, q)
    BY DEF ToSet, Of, Hello
  <2>3. \A i, j \in DOMAIN <<Hello(m)>> : ~(i < j)
    OBVIOUS
  <2>4. Rising(up'[q], h, q) /\ OnUp(h, q)' \subseteq OnUp(h, q)
    BY <2>1, <2>2, <2>3, RanksOf DEF Rising, OnUp
  <2>5. Row(Seen(h, q), OnDown(h, q), Waiting(h, q), Leaving(h, q), OnUp(h, q)', Limit(q)')
    BY <1>2, <1>4, <2>4, RowLess
  <2> QED
    BY <1>4, <2>4, <2>5
<1>9. CASE /\ q = m /\ up' = [up EXCEPT ![m] = Append(@, Text(m, Ciphertext(sender[m])))]
           /\ written' = [written EXCEPT ![m] = Append(@, granted[m])]
  <2> DEFINE f == Text(m, Ciphertext(sender[m]))
             x == 2 * L + 1
  <2>1. f \in Frame
    BY <1>0, OwnFrames
  <2>2. f.type = "Text" /\ f.from = m /\ f.ct.key = L
    BY <1>0, <1>9 DEF Counts, Text, Ciphertext, L
  <2>3. up'[q] = Append(up[q], f) /\ written'[q] = Append(written[q], granted[q])
    BY <1>1, <1>9
  <2> HIDE DEF f
  <2>4. Of(f, h, q) /\ Rank(f) = x
    BY <1>9, <2>2 DEF Of, Rank
  <2>5. Limit(q) = x /\ x \in Nat /\ Limit(q)' = x + 2
    BY <1>2, <1>4, <2>3 DEF Limit, L
  <2> HIDE DEF x
  <2>6. Ranks({f}, h, q) = {x}
    BY <2>4, RankOfOne
  <2>7. Below(OnUp(h, q), Ranks({f}, h, q))
    BY <1>2, <2>5, <2>6 DEF Below
  <2>8. Rising(up'[q], h, q) /\ OnUp(h, q)' = OnUp(h, q) \cup {x}
    <3>1. Below(Ranks(ToSet(up[q]), h, q), Ranks({f}, h, q)) /\ up[q] \in Seq(Frame)
          /\ Rising(up[q], h, q)
      BY <1>2, <2>7 DEF OnUp
    <3>2. Rising(Append(up[q], f), h, q)
      BY <2>1, <3>1, LastOn
    <3>3. Ranks(ToSet(Append(up[q], f)), h, q) = Ranks(ToSet(up[q]), h, q) \cup Ranks({f}, h, q)
      BY <2>1, <3>1, LastAmong
    <3> QED
      BY <2>3, <2>6, <3>2, <3>3 DEF OnUp
  <2>9. x < x + 2
    BY <2>5
  <2>10. Row(Seen(h, q), OnDown(h, q), Waiting(h, q), Leaving(h, q), OnUp(h, q)', Limit(q)')
    BY <1>2, <1>4, <2>5, <2>8, <2>9, RowSends
  <2> QED
    BY <1>4, <2>8, <2>10
<1>10. CASE q = m /\ OnRoster(m)
  <2>1. PICK keys, to : Keys(m, keys, to) /\ Firsts(m, keys, to)
    BY <1>0, <1>10, OnRosterKeys
  <2>2. keys \in Seq(Frame) /\ up'[q] = up[q] \o keys /\ UNCHANGED written
    BY <1>1, <1>10, <2>1 DEF Keys
  <2>3. sender[m].chain = L /\ Distribution(sender[m]).chain = L
    BY <1>0, <1>10 DEF Counts, Distribution, L
  <2>4. ASSUME NEW f \in ToSet(keys), Of(f, h, q)
        PROVE  f.to = h /\ h \in to /\ Rank(f) = 2 * L
    <3>1. PICK t \in to : f = KeyFor(t, m, Distribution(sender[m]))
      BY <2>1 DEF Keys
    <3>2. f.type = "KeyFor" /\ f.to = t /\ f.dist = Distribution(sender[m])
      BY <3>1 DEF KeyFor
    <3> QED
      BY <2>3, <2>4, <3>2 DEF Of, Rank
  <2>5. /\ ToSet(up[q] \o keys) \subseteq ToSet(up[q]) \cup ToSet(keys)
        /\ \A i \in DOMAIN (up[q] \o keys) :
             \/ i \in DOMAIN up[q] /\ (up[q] \o keys)[i] = up[q][i]
             \/ i - Len(up[q]) \in DOMAIN keys /\ (up[q] \o keys)[i] = keys[i - Len(up[q])]
        /\ Len(up[q]) \in Nat /\ Len(keys) \in Nat
    BY <1>2, <2>2, PutTogether
  <2>6. CASE h \notin to
    <3>1. \A f \in ToSet(keys) : ~Of(f, h, q)
      BY <2>4, <2>6
    <3>2. Rising(up'[q], h, q)
      BY <1>2, <2>2, <2>5, <3>1 DEF Rising, ToSet
    <3>3. OnUp(h, q)' \subseteq OnUp(h, q)
      BY <2>2, <2>5, <3>1 DEF OnUp, Ranks
    <3>4. Row(Seen(h, q), OnDown(h, q), Waiting(h, q), Leaving(h, q), OnUp(h, q)', Limit(q)')
      BY <1>2, <1>4, <3>3, RowLess
    <3> QED
      BY <1>4, <3>2, <3>4
  <2>7. CASE h \in to
    <3> DEFINE x == 2 * L
    <3>1. h \notin granted[q]
      BY <1>0, <1>10, <2>1, <2>7 DEF Firsts, MetInv, Grantees
    <3>2. \A n \in Seen(h, q) \cup OnDown(h, q) \cup Waiting(h, q) \cup Leaving(h, q) \cup OnUp(h, q) : n < x
      BY <3>1, NoKeyYet DEF L
    <3>3. x \in Nat /\ Limit(q) = x + 1 /\ Limit(q)' = x + 1
      BY <1>2, <2>2 DEF Limit, L
    <3> HIDE DEF x
    <3>4. OnUp(h, q)' \subseteq OnUp(h, q) \cup {x}
      BY <2>2, <2>4, <2>5 DEF OnUp, Ranks, x
    <3>5. Row(Seen(h, q), OnDown(h, q), Waiting(h, q), Leaving(h, q), OnUp(h, q)', Limit(q)')
      <4>1. x < Limit(q)'
        BY <3>3
      <4> QED
        BY <1>2, <1>4, <3>2, <3>3, <3>4, <4>1, RowSends
    <3>6. ASSUME NEW i \in DOMAIN (up[q] \o keys), NEW j \in DOMAIN (up[q] \o keys), i < j,
                 Of((up[q] \o keys)[i], h, q), Of((up[q] \o keys)[j], h, q)
          PROVE  Rank((up[q] \o keys)[i]) < Rank((up[q] \o keys)[j])
      <4> DEFINE a == i - Len(up[q])
                 b == j - Len(up[q])
      <4>1. CASE i \in DOMAIN up[q] /\ (up[q] \o keys)[i] = up[q][i]
        <5>1. CASE j \in DOMAIN up[q] /\ (up[q] \o keys)[j] = up[q][j]
          BY <1>2, <3>6, <4>1, <5>1 DEF Rising
        <5>2. CASE b \in DOMAIN keys /\ (up[q] \o keys)[j] = keys[b]
          <6>1. Rank((up[q] \o keys)[j]) = x
            BY <2>4, <3>6, <5>2 DEF ToSet, x
          <6>2. Rank((up[q] \o keys)[i]) \in OnUp(h, q)
            BY <3>6, <4>1 DEF OnUp, Ranks, ToSet
          <6> QED
            BY <3>2, <6>1, <6>2
        <5> QED
          BY <2>5, <5>1, <5>2
      <4>2. CASE ~(i \in DOMAIN up[q] /\ (up[q] \o keys)[i] = up[q][i])
        <5>1. a \in DOMAIN keys /\ (up[q] \o keys)[i] = keys[a]
          BY <2>5, <4>2
        <5>2. a \in Nat /\ i = a + Len(up[q]) /\ a >= 1 /\ i \in Int /\ j \in Int
          BY <2>2, <2>5, <5>1
        <5>3. j \notin DOMAIN up[q]
          BY <1>2, <2>5, <3>6, <5>2
        <5>4. b \in DOMAIN keys /\ (up[q] \o keys)[j] = keys[b]
          BY <2>5, <5>3
        <5>5. keys[a] \in ToSet(keys) /\ keys[b] \in ToSet(keys)
          BY <5>1, <5>4 DEF ToSet
        <5>6. keys[a].to = keys[b].to
          BY <2>4, <3>6, <5>1, <5>4, <5>5
        <5>7. a = b
          BY <2>1, <5>1, <5>4, <5>6 DEF Firsts
        <5> QED
          BY <2>5, <3>6, <5>2, <5>7
      <4> QED
        BY <4>1, <4>2
    <3>7. Rising(up'[q], h, q)
      BY <2>2, <3>6 DEF Rising
    <3> QED
      BY <1>4, <3>5, <3>7
  <2> QED
    BY <2>6, <2>7
<1>11. CASE q = m /\ ~OnRoster(m)
  <2>1. CASE UNCHANGED up \/ up' = [up EXCEPT ![m] = <<>>]
             \/ (up[m] # <<>> /\ up' = [up EXCEPT ![m] = Tail(@)])
    <3>1. ShrinksTo(up[q], up'[q])
      BY <1>1, <1>11, <2>1 DEF ShrinksTo
    <3> QED
      BY <1>4, <1>5, <3>1
  <2>2. \/ UNCHANGED up \/ up' = [up EXCEPT ![m] = <<>>]
        \/ up' = [up EXCEPT ![m] = <<Hello(m)>>]
        \/ (up[m] # <<>> /\ up' = [up EXCEPT ![m] = Tail(@)])
        \/ /\ up' = [up EXCEPT ![m] = Append(@, Text(m, Ciphertext(sender[m])))]
           /\ written' = [written EXCEPT ![m] = Append(@, granted[m])]
    BY <1>11 DEF Step, Join, Client, OnKeyFor, OnText, Write, Leave, Reader, Writer, Register, Takes,
      BroadcastRoster, RouteKey, RouteText, Enqueue, ReaderEnds, Forward, WriterEnds, linkVars
  <2> QED
    BY <1>8, <1>9, <1>11, <2>1, <2>2
<1> QED
  BY <1>4, <1>7, <1>10, <1>11

\* The rest of the way gets nothing that was not on it, and loses some.
Quiet ==
  /\ UNCHANGED shown
  /\ \A h \in Member :
       /\ ShrinksTo(down[h], down'[h]) /\ ShrinksTo(outQ[h], outQ'[h])
       /\ \A d \in sending'[h] : d \in sending[h] \/ d.frame.type \notin {"Text", "KeyFor"}
       /\ Alone(h)'

\* What is in order stays so.
LEMMA OrderQuiet ==
  ASSUME OrderInv, NEW m \in Member, Step(m), Quiet
  PROVE  Order'
<1>1. ASSUME NEW h \in Member, NEW q \in Member
      PROVE  Rising(up'[q], h, q) /\ Rising(outQ'[h], h, q) /\ Rising(down'[h], h, q) /\ InRow(h, q)'
  <2>1. /\ outQ[h] \in Seq(Frame) /\ down[h] \in Seq(Frame)
        /\ Rising(outQ[h], h, q) /\ Rising(down[h], h, q)
    BY RowFacts
  <2>2. Rising(outQ'[h], h, q) /\ Waiting(h, q)' \subseteq Waiting(h, q)
    BY <2>1, Shrunk DEF Quiet, Waiting
  <2>3. Rising(down'[h], h, q) /\ OnDown(h, q)' \subseteq OnDown(h, q)
    BY <2>1, Shrunk DEF Quiet, OnDown
  <2>4. Leaving(h, q)' \subseteq Leaving(h, q)
    <3>1. \A d \in sending'[q] : d \in sending[q] \/ ~Of(d.frame, h, q)
      BY DEF Quiet, Of
    <3> QED
      BY <3>1 DEF Leaving, Ranks, Passed
  <2>5. Seen(h, q)' = Seen(h, q)
    BY DEF Quiet, Seen
  <2>6. /\ Row(Seen(h, q), OnDown(h, q), Waiting(h, q), Leaving(h, q), OnUp(h, q)', Limit(q)')
        /\ Limit(q)' \in Nat /\ Rising(up'[q], h, q)
    BY UpOrder
  <2>7. Row(Seen(h, q)', OnDown(h, q)', Waiting(h, q)', Leaving(h, q)', OnUp(h, q)', Limit(q)')
    <3> DEFINE N == Limit(q)'
               E == OnUp(h, q)'
    <3>1. Row(Seen(h, q), OnDown(h, q), Waiting(h, q), Leaving(h, q), E, N) /\ N \in Nat /\ N <= N
      BY <2>6
    <3> HIDE DEF N, E
    <3>2. Row(Seen(h, q)', OnDown(h, q)', Waiting(h, q)', Leaving(h, q)', E, N)
      BY <2>2, <2>3, <2>4, <2>5, <3>1, RowLess
    <3> QED
      BY <3>2 DEF N, E
  <2>8. InRow(h, q)'
    BY <2>7 DEF InRow
  <2> QED
    BY <2>2, <2>3, <2>6, <2>8
<1>2. InSenderOrder'
  BY DEF OrderInv, Order, Quiet, InSenderOrder
<1>3. \A q \in Member : Alone(q)'
  BY DEF Quiet
<1> QED
  BY <1>1, <1>2, <1>3 DEF Order

\* What nobody moves.
LEMMA Still ==
  ASSUME Types, Order
  PROVE  /\ UNCHANGED down => \A h \in Member : ShrinksTo(down[h], down'[h])
         /\ UNCHANGED outQ => \A h \in Member : ShrinksTo(outQ[h], outQ'[h])
         /\ UNCHANGED sending =>
              \A h \in Member : Alone(h)' /\ \A d \in sending'[h] : d \in sending[h]
         /\ \A m \in Member : down' = [down EXCEPT ![m] = <<>>]
              \/ (down[m] # <<>> /\ down' = [down EXCEPT ![m] = Tail(@)]) =>
              \A h \in Member : ShrinksTo(down[h], down'[h])
         /\ \A m \in Member : outQ' = [outQ EXCEPT ![m] = <<>>] =>
              \A h \in Member : ShrinksTo(outQ[h], outQ'[h])
<1>1. down \in [Member -> Seq(Frame)] /\ outQ \in [Member -> Seq(Frame)]
  BY DEF Types
<1> QED
  BY <1>1 DEF ShrinksTo, Order, Alone

\* What a reader sets out to deliver, it delivers once to each.
LEMMA OneEach ==
  ASSUME NEW T, NEW f
  PROVE  \A d, e \in {[to |-> t, frame |-> f] : t \in T} : d.to = e.to => d = e
<1> QED
  OBVIOUS

\* All steps but those that pass a key or a text on.
LEMMA QuietSteps ==
  ASSUME OrderInv, NEW m \in Member,
         \/ Join(m) \/ OnRoster(m) \/ OnKeyFor(m) \/ Write(m) \/ Leave(m) \/ Register(m)
         \/ BroadcastRoster(m) \/ WriterEnds(m) \/ ReaderEnds(m)
         \/ (OnText(m) /\ UNCHANGED shown)
  PROVE  Quiet
<1>0. Types /\ Order /\ sending \in [Member -> SUBSET Delivery]
  BY DEF OrderInv, KeyInv, Types
<1>1. CASE UNCHANGED <<shown, sending>>
  <2>1. \A h \in Member : Alone(h)' /\ \A d \in sending'[h] : d \in sending[h]
    BY <1>0, <1>1, Still
  <2>2. /\ \/ UNCHANGED down \/ down' = [down EXCEPT ![m] = <<>>]
           \/ (down[m] # <<>> /\ down' = [down EXCEPT ![m] = Tail(@)])
        /\ UNCHANGED outQ \/ outQ' = [outQ EXCEPT ![m] = <<>>]
    <3>1. CASE BroadcastRoster(m)
      BY <3>1 DEF BroadcastRoster, linkVars
    <3> QED
      BY <3>1 DEF Join, OnRoster, OnKeyFor, Write, Leave, Register, WriterEnds, ReaderEnds, OnText,
             Reads, relayVars, linkVars
  <2>3. \A h \in Member : ShrinksTo(down[h], down'[h]) /\ ShrinksTo(outQ[h], outQ'[h])
    BY <1>0, <2>2, Still
  <2> QED
    BY <1>1, <2>1, <2>3 DEF Quiet
<1>2. CASE BroadcastRoster(m)
  <2> DEFINE f == Roster(roster)
  <2>1. /\ UNCHANGED <<shown, down, outQ>> /\ f.type \notin {"Text", "KeyFor"}
        /\ sending' = [sending EXCEPT ![m] = {[to |-> t, frame |-> f] : t \in roster}]
    BY <1>2 DEF BroadcastRoster, clientVars, linkVars, Roster
  <2> HIDE DEF f
  <2>2. \A h \in Member : ShrinksTo(down[h], down'[h]) /\ ShrinksTo(outQ[h], outQ'[h])
    BY <1>0, <2>1, Still
  <2>3. ASSUME NEW h \in Member
        PROVE  /\ Alone(h)'
               /\ \A d \in sending'[h] : d \in sending[h] \/ d.frame.type \notin {"Text", "KeyFor"}
    <3>1. CASE h = m
      <4>1. sending'[h] = {[to |-> t, frame |-> f] : t \in roster}
        BY <1>0, <2>1, <3>1
      <4> QED
        BY <2>1, <4>1, OneEach DEF Alone
    <3>2. CASE h # m
      BY <1>0, <2>1, <3>2 DEF Order, Alone
    <3> QED
      BY <3>1, <3>2
  <2> QED
    BY <2>1, <2>2, <2>3 DEF Quiet
<1> QED
  BY <1>1, <1>2
     DEF Join, OnRoster, OnKeyFor, OnText, Write, Leave, Register, WriterEnds, ReaderEnds, clientVars,
         relayVars

\* The reader takes a key or a text off its member's link, to pass it on.
LEMMA OrderRoutes ==
  ASSUME OrderInv, NEW m \in Member, RouteText(m) \/ RouteKey(m)
  PROVE  Order'
<1> DEFINE f == Head(up[m])
<1>0. Types /\ Order /\ sending \in [Member -> SUBSET Delivery] /\ up \in [Member -> Seq(Frame)]
  BY DEF OrderInv, KeyInv, Types
<1>1. /\ up[m] # <<>> /\ f.type \in {"Text", "KeyFor"}
      /\ up' = [up EXCEPT ![m] = Tail(@)]
      /\ \E T : sending' = [sending EXCEPT ![m] = {[to |-> t, frame |-> f] : t \in T}]
      /\ UNCHANGED <<shown, written, down, outQ>>
  BY DEF RouteText, RouteKey, Takes, clientVars
<1>2. PICK T : sending' = [sending EXCEPT ![m] = {[to |-> t, frame |-> f] : t \in T}]
  BY <1>1
<1>3. sending'[m] = {[to |-> t, frame |-> f] : t \in T} /\ up'[m] = Tail(up[m])
  BY <1>0, <1>1, <1>2
<1>4. \A q \in Member : q # m => up'[q] = up[q] /\ sending'[q] = sending[q]
  BY <1>0, <1>1, <1>2
<1>5. ASSUME NEW h \in Member, NEW q \in Member
      PROVE  Rising(up'[q], h, q) /\ InRow(h, q)'
  <2>1. /\ Row(Seen(h, q), OnDown(h, q), Waiting(h, q), Leaving(h, q), OnUp(h, q), Limit(q))
        /\ up[q] \in Seq(Frame) /\ Rising(up[q], h, q)
    BY RowFacts
  <2>2. Seen(h, q)' = Seen(h, q) /\ OnDown(h, q)' = OnDown(h, q) /\ Waiting(h, q)' = Waiting(h, q)
        /\ Limit(q)' = Limit(q)
    BY <1>1 DEF Seen, OnDown, Waiting, Limit
  <2>3. CASE q # m
    <3>1. OnUp(h, q)' = OnUp(h, q) /\ Leaving(h, q)' = Leaving(h, q) /\ Rising(up'[q], h, q)
      BY <1>4, <2>1, <2>3 DEF OnUp, Leaving, Passed
    <3> QED
      BY <2>1, <2>2, <3>1 DEF InRow
  <2>4. CASE q = m
    <3> DEFINE X == Ranks({f}, h, q)
    <3>1. /\ X \subseteq OnUp(h, q) /\ OnUp(h, q)' \subseteq OnUp(h, q) /\ Below(X, OnUp(h, q)')
          /\ Rising(up'[q], h, q)
      <4>1. /\ Ranks({Head(up[q])}, h, q) \subseteq Ranks(ToSet(up[q]), h, q)
            /\ Ranks(ToSet(Tail(up[q])), h, q) \subseteq Ranks(ToSet(up[q]), h, q)
            /\ Below(Ranks({Head(up[q])}, h, q), Ranks(ToSet(Tail(up[q])), h, q))
            /\ Rising(Tail(up[q]), h, q)
        BY <1>1, <2>1, <2>4, FirstOff
      <4> QED
        BY <1>3, <2>4, <4>1 DEF OnUp
    <3>2. Leaving(h, q)' \subseteq X
      <4>1. \A d \in sending'[q] : d.frame = f
        BY <1>3, <2>4
      <4> HIDE DEF f
      <4> QED
        BY <4>1 DEF Leaving, Ranks, Passed
    <3> HIDE DEF X
    <3>3. Row(Seen(h, q), OnDown(h, q), Waiting(h, q), Leaving(h, q)', OnUp(h, q)', Limit(q))
      BY <2>1, <3>1, <3>2, RowRoutes
    <3> QED
      BY <2>2, <3>1, <3>3 DEF InRow
  <2> QED
    BY <2>3, <2>4
<1>6. ASSUME NEW q \in Member
      PROVE  Alone(q)'
  <2>1. CASE q # m
    BY <1>0, <1>4, <2>1 DEF Order, Alone
  <2>2. CASE q = m
    <3> HIDE DEF f
    <3> QED
      BY <1>3, <2>2, OneEach DEF Alone
  <2> QED
    BY <2>1, <2>2
<1>7. InSenderOrder' /\ \A h, q \in Member : Rising(outQ'[h], h, q) /\ Rising(down'[h], h, q)
  BY <1>0, <1>1 DEF Order, InSenderOrder
<1> QED
  BY <1>5, <1>6, <1>7 DEF Order

\* It puts the frame into the queue of one of those it is for.
LEMMA OrderEnqueues ==
  ASSUME OrderInv, NEW m \in Member, Enqueue(m)
  PROVE  Order'
<1>0. Types /\ Order /\ Frames /\ sending \in [Member -> SUBSET Delivery]
      /\ outQ \in [Member -> Seq(Frame)]
  BY DEF OrderInv, KeyInv, Types
<1>1. PICK d \in sending[m] :
        /\ sending' = [sending EXCEPT ![m] = @ \ {d}]
        /\ \/ outQ' = [outQ EXCEPT ![d.to] = Append(@, d.frame)]
           \/ UNCHANGED outQ
  BY DEF Enqueue
<1>2. UNCHANGED <<shown, written, down, up>>
  BY DEF Enqueue, clientVars, linkVars
<1> DEFINE f == d.frame
           g == d.to
<1>3. f \in Frame /\ g \in Member /\ By(m, f)
  BY <1>0, <1>1 DEF Delivery, Frames
<1>4. \A h, q \in Member : Of(f, h, q) => q = m
  BY <1>3 DEF By, Of
<1>5. \A q \in Member : sending'[q] \subseteq sending[q]
  BY <1>0, <1>1
<1>6. \A h, q \in Member : Leaving(h, q)' \subseteq Leaving(h, q)
  BY <1>5 DEF Leaving, Ranks, Passed
<1>7. Passed(g, m)' = {} /\ f \in Passed(g, m)
  BY <1>0, <1>1 DEF Order, Alone, Passed
<1> HIDE DEF f, g
<1>8. ASSUME NEW q \in Member
      PROVE  /\ Ranks({f}, g, q) \subseteq Leaving(g, q)
             /\ Below(Ranks({f}, g, q), Leaving(g, q)')
  <2>1. CASE q = m
    <3>1. {f} \subseteq Passed(g, q) /\ Leaving(g, q)' = {}
      BY <1>7, <2>1 DEF Leaving, Ranks
    <3> QED
      BY <3>1, RanksOf DEF Leaving, Below
  <2>2. CASE q # m
    BY <1>3, <1>4, <2>2, RanksOf DEF Below
  <2> QED
    BY <2>1, <2>2
<1>9. ASSUME NEW h \in Member, NEW q \in Member
      PROVE  /\ Seen(h, q)' = Seen(h, q) /\ OnDown(h, q)' = OnDown(h, q) /\ OnUp(h, q)' = OnUp(h, q)
             /\ Limit(q)' = Limit(q)
             /\ Rising(down[h], h, q)' /\ Rising(up[q], h, q)' /\ Alone(q)'
  BY <1>0, <1>2, <1>5 DEF Seen, OnDown, OnUp, Limit, Order, Alone
<1>10. ASSUME NEW h \in Member, NEW q \in Member
       PROVE  InRow(h, q)' /\ Rising(outQ'[h], h, q)
  <2>1. /\ Row(Seen(h, q), OnDown(h, q), Waiting(h, q), Leaving(h, q), OnUp(h, q), Limit(q))
        /\ outQ[h] \in Seq(Frame) /\ Rising(outQ[h], h, q) /\ Limit(q) \in Nat /\ Limit(q) <= Limit(q)
    BY RowFacts
  <2>2. CASE outQ'[h] = outQ[h]
    <3>1. Waiting(h, q)' = Waiting(h, q) /\ Rising(outQ'[h], h, q)
      BY <2>1, <2>2 DEF Waiting
    <3>2. Row(Seen(h, q), OnDown(h, q), Waiting(h, q), Leaving(h, q)', OnUp(h, q), Limit(q))
      BY <1>6, <2>1, RowLess
    <3> QED
      BY <1>9, <3>1, <3>2 DEF InRow
  <2>3. CASE h = g /\ outQ'[h] = Append(outQ[h], f)
    <3> DEFINE X == Ranks({f}, h, q)
    <3>1. X \subseteq Leaving(h, q) /\ Below(X, Leaving(h, q)') /\ Leaving(h, q)' \subseteq Leaving(h, q)
      BY <1>6, <1>8, <2>3
    <3>2. Below(Ranks(ToSet(outQ[h]), h, q), X)
      BY <2>1, <3>1 DEF Row, Below, Waiting
    <3>3. Rising(Append(outQ[h], f), h, q)
      BY <1>3, <2>1, <3>2, LastOn
    <3>4. Ranks(ToSet(Append(outQ[h], f)), h, q) = Ranks(ToSet(outQ[h]), h, q) \cup Ranks({f}, h, q)
      <4>1. outQ[h] \in Seq(Frame) /\ f \in Frame
        BY <1>3, <2>1
      <4> QED
        BY <4>1, LastAmong
    <3>5. Waiting(h, q)' \subseteq Waiting(h, q) \cup X
      BY <2>3, <3>4 DEF Waiting
    <3> HIDE DEF X
    <3>6. Row(Seen(h, q), OnDown(h, q), Waiting(h, q)', Leaving(h, q)', OnUp(h, q), Limit(q))
      BY <2>1, <3>1, <3>5, RowEnqueues
    <3> QED
      BY <1>9, <2>3, <3>3, <3>6 DEF InRow
  <2>4. outQ'[h] = outQ[h] \/ (h = g /\ outQ'[h] = Append(outQ[h], f))
    BY <1>0, <1>1, <1>3 DEF f, g
  <2> QED
    BY <2>2, <2>3, <2>4
<1>11. InSenderOrder'
  BY <1>0, <1>2 DEF Order, InSenderOrder
<1> QED
  BY <1>9, <1>10, <1>11 DEF Order

\* The writer passes it to its member's link.
LEMMA OrderForwards ==
  ASSUME OrderInv, NEW m \in Member, Forward(m)
  PROVE  Order'
<1>0. Types /\ Order /\ outQ \in [Member -> Seq(Frame)] /\ down \in [Member -> Seq(Frame)]
  BY DEF OrderInv, KeyInv, Types
<1> DEFINE f == Head(outQ[m])
<1>1. /\ outQ[m] # <<>> /\ outQ' = [outQ EXCEPT ![m] = Tail(@)]
      /\ down' = [down EXCEPT ![m] = Append(@, f)]
      /\ UNCHANGED <<shown, written, sending, up>>
  BY DEF Forward, clientVars
<1>2. f \in Frame /\ outQ'[m] = Tail(outQ[m]) /\ down'[m] = Append(down[m], f)
  BY <1>0, <1>1, TakenOff
<1>3. ASSUME NEW h \in Member, NEW q \in Member
      PROVE  /\ Seen(h, q)' = Seen(h, q) /\ Leaving(h, q)' = Leaving(h, q) /\ OnUp(h, q)' = OnUp(h, q)
             /\ Limit(q)' = Limit(q) /\ Rising(up[q], h, q)' /\ Alone(q)'
  BY <1>0, <1>1 DEF Seen, Leaving, Passed, OnUp, Limit, Order, Alone
<1>4. ASSUME NEW h \in Member, NEW q \in Member
      PROVE  InRow(h, q)' /\ Rising(outQ'[h], h, q) /\ Rising(down'[h], h, q)
  <2>1. /\ Row(Seen(h, q), OnDown(h, q), Waiting(h, q), Leaving(h, q), OnUp(h, q), Limit(q))
        /\ outQ[h] \in Seq(Frame) /\ Rising(outQ[h], h, q)
        /\ down[h] \in Seq(Frame) /\ Rising(down[h], h, q)
    BY RowFacts
  <2>2. CASE h # m
    <3>1. outQ'[h] = outQ[h] /\ down'[h] = down[h]
      BY <1>0, <1>1, <2>2
    <3> QED
      BY <1>3, <2>1, <3>1 DEF InRow, Waiting, OnDown
  <2>3. CASE h = m
    <3> DEFINE X == Ranks({f}, h, q)
    <3>1. /\ X \subseteq Waiting(h, q) /\ Waiting(h, q)' \subseteq Waiting(h, q)
          /\ Below(X, Waiting(h, q)') /\ Rising(outQ'[h], h, q)
      BY <1>1, <1>2, <2>1, <2>3, FirstOff DEF Waiting
    <3>2. Below(Ranks(ToSet(down[h]), h, q), X)
      BY <2>1, <3>1 DEF Row, Below, OnDown
    <3> HIDE DEF f
    <3>3. Rising(Append(down[h], f), h, q)
      BY <1>2, <2>1, <3>2, LastOn
    <3>4. Ranks(ToSet(Append(down[h], f)), h, q) = Ranks(ToSet(down[h]), h, q) \cup X
      BY <1>2, <2>1, LastAmong
    <3> HIDE DEF X
    <3>5. OnDown(h, q)' \subseteq OnDown(h, q) \cup X
      BY <1>2, <2>3, <3>4 DEF OnDown
    <3>6. Row(Seen(h, q), OnDown(h, q)', Waiting(h, q)', Leaving(h, q), OnUp(h, q), Limit(q))
      BY <2>1, <3>1, <3>5, RowForwards
    <3> QED
      BY <1>2, <1>3, <2>3, <3>1, <3>3, <3>6 DEF InRow
  <2> QED
    BY <2>2, <2>3
<1>5. InSenderOrder'
  BY <1>0, <1>1 DEF Order, InSenderOrder
<1> QED
  BY <1>3, <1>4, <1>5 DEF Order

\* The member is shown it.
LEMMA OrderShows ==
  ASSUME OrderInv, NEW m \in Member, OnText(m)
  PROVE  Order'
<1>0. Types /\ Order /\ Step(m) /\ down \in [Member -> Seq(Frame)]
      /\ shown \in [Member -> Seq([from : Member, n : Nat])]
  BY DEF OrderInv, KeyInv, Types, Step, Client
<1>1. CASE UNCHANGED shown
  BY <1>0, <1>1, QuietSteps, OrderQuiet
<1>2. CASE ~UNCHANGED shown
  <2> DEFINE f == Head(down[m])
             x == [from |-> f.from, n |-> f.ct.key]
  <2>1. /\ down[m] # <<>> /\ f.type = "Text" /\ down' = [down EXCEPT ![m] = Tail(@)]
        /\ shown' = [shown EXCEPT ![m] = Append(@, x)]
        /\ UNCHANGED <<written, sending, up, outQ>>
    BY <1>2 DEF OnText, Reads, relayVars
  <2>2. f \in Frame
    BY <1>0, <2>1, TakenOff
  <2>3. x \in [from : Member, n : Nat] /\ x.from = f.from /\ x.n = f.ct.key
        /\ Of(f, m, x.from) /\ Rank(f) = 2 * x.n + 1
    BY <2>1, <2>2 DEF Frame, Point, Of, Rank
  <2> HIDE DEF x
  <2>4. down'[m] = Tail(down[m]) /\ shown'[m] = Append(shown[m], x)
        /\ shown[m] \in Seq([from : Member, n : Nat])
    BY <1>0, <2>1
  <2>5. ASSUME NEW h \in Member, NEW q \in Member
        PROVE  /\ Waiting(h, q)' = Waiting(h, q) /\ Leaving(h, q)' = Leaving(h, q)
               /\ OnUp(h, q)' = OnUp(h, q) /\ Limit(q)' = Limit(q)
               /\ Rising(outQ[h], h, q)' /\ Rising(up[q], h, q)' /\ Alone(q)'
    BY <1>0, <2>1 DEF Waiting, Leaving, Passed, OnUp, Limit, Order, Alone
  <2>6. /\ \A i \in DOMAIN shown[m] : i \in Nat /\ i < Len(shown[m]) + 1
        /\ \A i \in DOMAIN shown'[m] :
             \/ i \in DOMAIN shown[m] /\ shown'[m][i] = shown[m][i]
             \/ i = Len(shown[m]) + 1 /\ shown'[m][i] = x
    BY <2>3, <2>4, PutBehind
  <2>7. ASSUME NEW q \in Member
        PROVE  /\ Rising(Tail(down[m]), m, q)
               /\ Ranks(ToSet(Tail(down[m])), m, q) \subseteq OnDown(m, q)
               /\ Ranks({f}, m, q) \subseteq OnDown(m, q)
               /\ Below(Ranks({f}, m, q), Ranks(ToSet(Tail(down[m])), m, q))
    <3>1. down[m] \in Seq(Frame) /\ Rising(down[m], m, q)
      BY RowFacts
    <3> QED
      BY <2>1, <3>1, FirstOff DEF OnDown
  <2> HIDE DEF f
  <2>8. ASSUME NEW q \in Member
        PROVE  Seen(m, q)' \subseteq Seen(m, q) \cup Ranks({f}, m, q)
    <3>1. CASE q = x.from
      <4>1. Ranks({f}, m, q) = {2 * x.n + 1}
        BY <2>3, <3>1, RankOfOne
      <4> QED
        BY <2>6, <4>1 DEF Seen
    <3>2. CASE q # x.from
      BY <2>6, <3>2 DEF Seen
    <3> QED
      BY <3>1, <3>2
  <2>9. ASSUME NEW h \in Member, NEW q \in Member
        PROVE  InRow(h, q)' /\ Rising(down'[h], h, q)
    <3>1. Row(Seen(h, q), OnDown(h, q), Waiting(h, q), Leaving(h, q), OnUp(h, q), Limit(q))
          /\ Rising(down[h], h, q)
      BY RowFacts
    <3>2. CASE h = m
      <4> DEFINE X == Ranks({f}, h, q)
      <4>1. /\ X \subseteq OnDown(h, q) /\ OnDown(h, q)' \subseteq OnDown(h, q)
            /\ Below(X, OnDown(h, q)') /\ Seen(h, q)' \subseteq Seen(h, q) \cup X
            /\ Rising(down'[h], h, q)
        BY <2>4, <2>7, <2>8, <3>2 DEF OnDown
      <4> HIDE DEF X
      <4>2. Row(Seen(h, q)', OnDown(h, q)', Waiting(h, q), Leaving(h, q), OnUp(h, q), Limit(q))
        BY <3>1, <4>1, RowShows
      <4> QED
        BY <2>5, <4>1, <4>2 DEF InRow
    <3>3. CASE h # m
      <4>1. down'[h] = down[h] /\ shown'[h] = shown[h]
        BY <1>0, <2>1, <3>3
      <4> QED
        BY <2>5, <3>1, <4>1 DEF InRow, Seen, OnDown
    <3> QED
      BY <3>2, <3>3
  <2>10. ASSUME NEW i \in DOMAIN shown'[m], NEW j \in DOMAIN shown'[m], i < j,
                shown'[m][i].from = shown'[m][j].from
         PROVE  shown'[m][i].n < shown'[m][j].n
    <3>1. i \in DOMAIN shown[m] /\ shown'[m][i] = shown[m][i]
      BY <2>4, <2>6, <2>10
    <3>2. CASE j \in DOMAIN shown[m] /\ shown'[m][j] = shown[m][j]
      BY <1>0, <2>10, <3>1, <3>2 DEF Order, InSenderOrder
    <3>3. CASE shown'[m][j] = x
      <4>1. 2 * shown[m][i].n + 1 \in Seen(m, x.from) /\ x.from \in Member
        BY <2>3, <2>10, <3>1, <3>3 DEF Seen
      <4>2. Ranks({f}, m, x.from) = {2 * x.n + 1}
        BY <2>3, RankOfOne
      <4>3. 2 * x.n + 1 \in OnDown(m, x.from)
        BY <2>7, <4>1, <4>2
      <4>4. Below(Seen(m, x.from), OnDown(m, x.from))
        BY <4>1, RowFacts DEF Row
      <4>5. shown[m][i] \in [from : Member, n : Nat]
        BY <2>4, <3>1, ElementOf
      <4>6. 2 * shown[m][i].n + 1 < 2 * x.n + 1 /\ shown[m][i].n \in Nat /\ x.n \in Nat
        BY <2>3, <4>1, <4>3, <4>4, <4>5 DEF Below
      <4> QED
        BY <3>1, <3>3, <4>6
    <3> QED
      BY <2>6, <3>2, <3>3
  <2>11. ASSUME NEW h \in Member, NEW i \in DOMAIN shown'[h], NEW j \in DOMAIN shown'[h], i < j,
                shown'[h][i].from = shown'[h][j].from
         PROVE  shown'[h][i].n < shown'[h][j].n
    <3>1. CASE h = m
      BY <2>10, <2>11, <3>1
    <3>2. CASE h # m
      <4>1. shown'[h] = shown[h]
        BY <1>0, <2>1, <3>2
      <4> QED
        BY <1>0, <2>11, <4>1 DEF Order, InSenderOrder
    <3> QED
      BY <3>1, <3>2
  <2>12. InSenderOrder'
    BY <2>11 DEF InSenderOrder
  <2> QED
    BY <2>5, <2>9, <2>12 DEF Order
<1> QED
  BY <1>1, <1>2

\* Nothing has been sent yet.
LEMMA OrderInit == Init => Order
<1> SUFFICES ASSUME Init PROVE Order
  OBVIOUS
<1>1. ToSet(<<>>) = {} /\ (\A m, q : Ranks({}, m, q) = {} /\ Rising(<<>>, m, q)) /\ Len(<<>>) = 0
  BY DEF ToSet, Ranks, Rising
<1>2. ASSUME NEW m \in Member, NEW q \in Member
      PROVE  /\ InRow(m, q) /\ Alone(q)
             /\ Rising(up[q], m, q) /\ Rising(outQ[m], m, q) /\ Rising(down[m], m, q)
  <2>1. Seen(m, q) = {} /\ OnDown(m, q) = {} /\ Waiting(m, q) = {} /\ OnUp(m, q) = {} /\ Leaving(m, q) = {}
    <3>1. Passed(m, q) = {} /\ Seen(m, q) = {}
      BY <1>1 DEF Init, Passed, Seen
    <3>2. ToSet(down[m]) = {} /\ ToSet(outQ[m]) = {} /\ ToSet(up[q]) = {}
      BY <1>1 DEF Init
    <3> QED
      BY <3>1, <3>2, RanksOf DEF OnDown, Waiting, OnUp, Leaving
  <2> QED
    BY <1>1, <2>1 DEF Init, InRow, Row, Below, Alone
<1>3. InSenderOrder
  BY DEF Init, InSenderOrder
<1> QED
  BY <1>2, <1>3 DEF Order

\* Whatever is done.
LEMMA OrderStep ==
  ASSUME OrderInv, [Next]_vars
  PROVE  OrderInv'
<1>1. KeyInv' /\ MetInv'
  BY KeyStep, MetStep DEF OrderInv
<1>2. CASE UNCHANGED vars
  <2> USE <1>2 DEF vars, clientVars, relayVars, linkVars
  <2>1. ASSUME NEW m \in Member, NEW q \in Member
        PROVE  InRow(m, q)'
    BY DEF OrderInv, Order, InRow, Limit, Seen, OnDown, Waiting, OnUp, Leaving, Passed
  <2> QED
    BY <1>1, <2>1 DEF OrderInv, Order, Alone, InSenderOrder
<1>3. CASE Next
  <2>1. PICK m \in Member : Step(m)
    BY <1>3 DEF Next, Step
  <2>2. CASE \/ Join(m) \/ OnRoster(m) \/ OnKeyFor(m) \/ Write(m) \/ Leave(m) \/ Register(m)
             \/ BroadcastRoster(m) \/ WriterEnds(m) \/ ReaderEnds(m)
    BY <1>1, <2>1, <2>2, QuietSteps, OrderQuiet DEF OrderInv
  <2>3. CASE OnText(m) \/ RouteText(m) \/ RouteKey(m) \/ Enqueue(m) \/ Forward(m)
    BY <1>1, <2>3, OrderShows, OrderRoutes, OrderEnqueues, OrderForwards DEF OrderInv
  <2> QED
    BY <2>1, <2>2, <2>3 DEF Step, Client, Reader, Writer
<1> QED
  BY <1>2, <1>3

\* The key and the texts of every member are in a row, on the way to every other.
THEOREM OrderInvariance == Spec => []OrderInv
<1>1. Init => OrderInv
  BY KeyInit, MetInit, OrderInit DEF OrderInv
<1> QED
  BY <1>1, OrderStep, PTL DEF Spec

\* What one member wrote is shown in the order it was written, and once, to
\* everybody who is shown it, whichever of the texts were refused or lost and
\* however the relay's tasks take turns.
THEOREM ShownInOrder == Spec => []InSenderOrder
<1>1. OrderInv => InSenderOrder
  BY DEF OrderInv, Order
<1> QED
  BY <1>1, OrderInvariance, PTL

-----------------------------------------------------------------------------
(* What becomes of the texts. *)

\* All that is on its way from q to m.
Way(m, q) ==
  {f \in ToSet(down[m]) \cup ToSet(outQ[m]) \cup Passed(m, q) \cup ToSet(up[q]) : Of(f, m, q)}

HasKey(m, q) == q \in DOMAIN receivers[m]
Meant(m, q, k) == k \in DOMAIN written[q] /\ m \in written[q][k]
Live(m, q) == writer[m] /\ stage[m] # "gone" /\ stage[q] # "gone"

\* A receiver opens none but what is still on its way, and all that is meant for it
\* is behind the key.
Opening(m, q) ==
  /\ ~HasKey(m, q) => \A i \in DOMAIN shown[m] : shown[m][i].from # q
  /\ HasKey(m, q) =>
       /\ receivers[m][q].chain <= Len(written[q])
       /\ \A f \in Way(m, q) : f.type = "Text" /\ receivers[m][q].chain <= f.ct.key
       /\ \A i \in DOMAIN shown[m] : shown[m][i].from = q => shown[m][i].n < receivers[m][q].chain
  /\ \A f, g \in Way(m, q) : f.type = "KeyFor" /\ g.type = "KeyFor" => f.dist.chain = g.dist.chain
  /\ \A f \in Way(m, q) : f.type = "KeyFor" => \A k : Meant(m, q, k) => f.dist.chain < k

Coming(m, q, n) == \E f \in Way(m, q) : f.type = "Text" /\ f.ct.key = n
Accounted(m, q, n) ==
  Shows(m, q, n) \/ Coming(m, q, n) \/ n \in refused[q] \/ Unreachable(q, n)

\* Between two members in the room, the key came or is on its way, and so with the texts.
Kept(m, q) ==
  Live(m, q) /\ m \in granted[q] =>
    /\ HasKey(m, q) \/ \E f \in Way(m, q) : f.type = "KeyFor"
    /\ \A k : Meant(m, q, k) => Accounted(m, q, k - 1)

\* What is on its way.
LEMMA WayFacts ==
  ASSUME OrderInv, NEW h \in Member, NEW q \in Member, NEW f \in Way(h, q)
  PROVE  /\ f \in Frame /\ FrameOK(f) /\ Of(f, h, q) /\ Rank(f) \in Nat /\ Rank(f) < Limit(q)
         /\ Rank(f) \in OnDown(h, q) \cup Waiting(h, q) \cup Leaving(h, q) \cup OnUp(h, q)
         /\ f.type = "Text" => /\ f.ct \in Point /\ f.from = q /\ Rank(f) = 2 * f.ct.key + 1
                               /\ f.ct.key < Len(written[q])
         /\ f.type # "Text" => /\ f.type = "KeyFor" /\ f.from = q /\ f.to = h /\ h \in granted[q]
                               /\ f.dist \in Position /\ Rank(f) = 2 * f.dist.chain
                               /\ f.dist.chain <= Len(written[q])
<1>0. Types /\ Frames /\ sending \in [Member -> SUBSET Delivery]
  BY DEF OrderInv, KeyInv, Types
<1>1. /\ up[q] \in Seq(Frame) /\ outQ[h] \in Seq(Frame) /\ down[h] \in Seq(Frame)
      /\ Len(written[q]) \in Nat
  BY RowFacts
<1>2. \A g \in ToSet(up[q]) \cup ToSet(outQ[h]) \cup ToSet(down[h]) : g \in Frame /\ FrameOK(g)
  BY <1>0, <1>1 DEF Frames, ToSet
<1>3. \A g \in Passed(h, q) : g \in Frame /\ FrameOK(g)
  BY <1>0 DEF Frames, Passed, Delivery
<1>4. f \in Frame /\ FrameOK(f) /\ Of(f, h, q)
  BY <1>2, <1>3 DEF Way
<1>5. Rank(f) \in OnDown(h, q) \cup Waiting(h, q) \cup Leaving(h, q) \cup OnUp(h, q)
  BY DEF Way, OnDown, Waiting, Leaving, OnUp, Ranks
<1>6. Rank(f) \in Nat /\ Rank(f) < Limit(q)
  BY <1>5, RowFacts DEF Row
<1>7. f.type = "Text" => /\ f.ct \in Point /\ f.from = q /\ Rank(f) = 2 * f.ct.key + 1
                         /\ f.ct.key < Len(written[q])
  <2>1. f.type = "Text" => f.ct \in Point /\ f.from = q /\ Rank(f) = 2 * f.ct.key + 1
                           /\ f.ct.key \in Nat
    BY <1>4 DEF Frame, Of, Rank, Point
  <2> QED
    BY <1>1, <1>6, <2>1 DEF Limit
<1>8. f.type # "Text" => /\ f.type = "KeyFor" /\ f.from = q /\ f.to = h /\ h \in granted[q]
                         /\ f.dist \in Position /\ Rank(f) = 2 * f.dist.chain
                         /\ f.dist.chain <= Len(written[q])
  <2>1. f.type # "Text" => /\ f.type = "KeyFor" /\ f.from = q /\ f.to = h
    BY <1>4 DEF Of
  <2>2. f.type # "Text" => f.dist \in Position /\ f.dist.chain \in Nat
    BY <1>4, <2>1 DEF Frame, Position
  <2>3. f.type # "Text" => Rank(f) = 2 * f.dist.chain /\ h \in granted[q]
    BY <1>4, <2>1 DEF FrameOK, Since, Rank
  <2> QED
    BY <1>1, <1>6, <2>1, <2>2, <2>3 DEF Limit
<1> QED
  BY <1>4, <1>5, <1>6, <1>7, <1>8

\* What a client reads was the first of what was on its way.
LEMMA WayTaken ==
  ASSUME OrderInv, NEW h \in Member, NEW q \in Member, OnKeyFor(h) \/ OnText(h),
         Of(Head(down[h]), h, q)
  PROVE  /\ Head(down[h]) \in Way(h, q)
         /\ \A g \in Way(h, q) : g # Head(down[h]) => Rank(Head(down[h])) < Rank(g)
         /\ \A g \in Way(h, q)' : g \in Way(h, q) /\ Rank(Head(down[h])) < Rank(g)
<1> DEFINE f == Head(down[h])
           rest == ToSet(Tail(down[h])) \cup ToSet(outQ[h]) \cup Passed(h, q) \cup ToSet(up[q])
<1>1. /\ down[h] # <<>> /\ down' = [down EXCEPT ![h] = Tail(@)] /\ UNCHANGED <<outQ, sending, up>>
      /\ down \in [Member -> Seq(Frame)]
  BY DEF OnKeyFor, OnText, Reads, relayVars, OrderInv, KeyInv, Types
<1>2. /\ down[h] \in Seq(Frame) /\ Rising(down[h], h, q)
      /\ Row(Seen(h, q), OnDown(h, q), Waiting(h, q), Leaving(h, q), OnUp(h, q), Limit(q))
  BY RowFacts
<1>3. ToSet(down[h]) = ToSet(Tail(down[h])) \cup {f}
  BY <1>1, <1>2, BehindFirst
<1>4. /\ Ranks({f}, h, q) \subseteq OnDown(h, q)
      /\ Below(Ranks({f}, h, q), Ranks(ToSet(Tail(down[h])), h, q))
  BY <1>1, <1>2, FirstOff DEF OnDown
<1>5. Way(h, q)' = {g \in rest : Of(g, h, q)}
  BY <1>1, <1>2 DEF Way, Passed
<1>6. Way(h, q) = {g \in rest \cup {f} : Of(g, h, q)}
  BY <1>3 DEF Way
<1> HIDE DEF f
<1>7. Ranks({f}, h, q) = {Rank(f)}
  BY RankOfOne DEF f
<1>8. ASSUME NEW g \in rest, Of(g, h, q)
      PROVE  Rank(f) < Rank(g)
  <2>1. CASE g \in ToSet(Tail(down[h]))
    BY <1>4, <1>7, <1>8, <2>1 DEF Below, Ranks
  <2>2. CASE g \notin ToSet(Tail(down[h]))
    <3>1. Rank(g) \in Waiting(h, q) \cup Leaving(h, q) \cup OnUp(h, q)
      BY <1>8, <2>2 DEF Waiting, Leaving, OnUp, Ranks
    <3>2. Rank(f) \in OnDown(h, q)
      BY <1>4, <1>7
    <3> QED
      BY <1>2, <3>1, <3>2 DEF Row, Below
  <2> QED
    BY <2>1, <2>2
<1> HIDE DEF rest
<1>9. f \in Way(h, q)
  BY <1>6 DEF f
<1> QED
  BY <1>5, <1>6, <1>8, <1>9 DEF f

\* What comes on the way is what its author writes, or its key.
LEMMA WayGrows ==
  ASSUME OrderInv, NEW m \in Member, Step(m), NEW h \in Member, NEW q \in Member,
         NEW f \in Way(h, q)'
  PROVE  \/ f \in Way(h, q)
         \/ q = m /\ Write(m) /\ f.type = "Text" /\ f.ct.key = Len(written[q])
         \/ /\ q = m /\ OnRoster(m) /\ f.type = "KeyFor" /\ f.dist.chain = Len(written[q])
            /\ h \notin granted[q]
<1>0. Types /\ Lengths /\ Frames /\ Counts /\ MetInv
  BY DEF OrderInv, KeyInv
<1>1. /\ up \in [Member -> Seq(Frame)] /\ outQ \in [Member -> Seq(Frame)]
      /\ down \in [Member -> Seq(Frame)] /\ sending \in [Member -> SUBSET Delivery]
      /\ down[h] \in Seq(Frame) /\ outQ[h] \in Seq(Frame) /\ up[q] \in Seq(Frame) /\ up[m] \in Seq(Frame)
  BY <1>0 DEF Types
<1>2. Moves(m) /\ Of(f, h, q)
  BY <1>0, EveryMove DEF Step, Way, Of
<1>3. ASSUME f \in ToSet(down'[h])
      PROVE  f \in ToSet(down[h]) \cup ToSet(outQ[h])
  <2>1. CASE UNCHANGED down
    BY <1>3, <2>1
  <2>2. CASE down' = [down EXCEPT ![m] = <<>>]
    <3>1. down'[h] = <<>> \/ down'[h] = down[h]
      BY <1>1, <2>2
    <3> QED
      BY <1>3, <3>1 DEF ToSet
  <2>3. CASE down[m] # <<>> /\ down' = [down EXCEPT ![m] = Tail(@)]
    <3>1. (h = m /\ down'[h] = Tail(down[h])) \/ down'[h] = down[h]
      BY <1>1, <2>3
    <3>2. h = m => ToSet(Tail(down[h])) \subseteq ToSet(down[h])
      BY <1>1, <2>3, TakenOff
    <3> QED
      BY <1>3, <3>1, <3>2
  <2>4. CASE outQ[m] # <<>> /\ down' = [down EXCEPT ![m] = Append(@, Head(outQ[m]))]
    <3>1. (h = m /\ down'[h] = Append(down[h], Head(outQ[h]))) \/ down'[h] = down[h]
      BY <1>1, <2>4
    <3>2. h = m => Head(outQ[h]) \in ToSet(outQ[h]) /\ Head(outQ[h]) \in Frame
      BY <1>1, <2>4, TakenOff
    <3>3. h = m => ToSet(Append(down[h], Head(outQ[h]))) = ToSet(down[h]) \cup {Head(outQ[h])}
      BY <1>1, <3>2, BeforeLast
    <3> QED
      BY <1>3, <3>1, <3>2, <3>3
  <2> QED
    BY <1>2, <2>1, <2>2, <2>3, <2>4 DEF Moves, DownMoves
<1>4. ASSUME f \in ToSet(outQ'[h])
      PROVE  f \in ToSet(outQ[h]) \cup Passed(h, q)
  <2>1. CASE UNCHANGED outQ
    BY <1>4, <2>1
  <2>2. CASE outQ' = [outQ EXCEPT ![m] = <<>>]
    <3>1. outQ'[h] = <<>> \/ outQ'[h] = outQ[h]
      BY <1>1, <2>2
    <3> QED
      BY <1>4, <3>1 DEF ToSet
  <2>3. CASE outQ[m] # <<>> /\ outQ' = [outQ EXCEPT ![m] = Tail(@)]
    <3>1. (h = m /\ outQ'[h] = Tail(outQ[h])) \/ outQ'[h] = outQ[h]
      BY <1>1, <2>3
    <3>2. h = m => ToSet(Tail(outQ[h])) \subseteq ToSet(outQ[h])
      BY <1>1, <2>3, TakenOff
    <3> QED
      BY <1>4, <3>1, <3>2
  <2>4. ASSUME NEW d \in sending[m], outQ' = [outQ EXCEPT ![d.to] = Append(@, d.frame)]
        PROVE  f \in ToSet(outQ[h]) \cup Passed(h, q)
    <3>1. d.frame \in Frame /\ By(m, d.frame)
      BY <1>0, <1>1 DEF Frames, Delivery
    <3>2. (h = d.to /\ outQ'[h] = Append(outQ[h], d.frame)) \/ outQ'[h] = outQ[h]
      BY <1>1, <2>4
    <3>3. ToSet(Append(outQ[h], d.frame)) = ToSet(outQ[h]) \cup {d.frame}
      BY <1>1, <3>1, BeforeLast
    <3>4. f \in ToSet(outQ[h]) \/ (f = d.frame /\ h = d.to)
      BY <1>4, <3>2, <3>3
    <3>5. f = d.frame => q = m
      BY <1>2, <3>1 DEF By, Of
    <3> QED
      BY <3>4, <3>5 DEF Passed
  <2> QED
    BY <1>2, <2>1, <2>2, <2>3, <2>4 DEF Moves, OutMoves
<1>5. ASSUME f \in Passed(h, q)'
      PROVE  f \in Passed(h, q) \cup ToSet(up[q])
  <2>1. PICK d \in sending'[q] : d.to = h /\ d.frame = f
    BY <1>5 DEF Passed
  <2>2. CASE d \in sending[q]
    BY <2>1, <2>2 DEF Passed
  <2>3. CASE d \notin sending[q]
    <3>1. q = m /\ \E S : Routes(m, S) /\ d \in S
      BY <1>1, <1>2, <2>1, <2>3 DEF Moves, SendMoves
    <3>2. PICK S : Routes(m, S) /\ d \in S
      BY <3>1
    <3>3. d.frame.type \in {"Text", "KeyFor"}
      BY <1>2, <2>1 DEF Of
    <3>4. d.frame # Roster(roster)
      BY <3>3 DEF Roster
    <3>5. up[m] # <<>> /\ d.frame = Head(up[m])
      BY <2>3, <3>1, <3>2, <3>4 DEF Routes
    <3>6. Head(up[m]) \in ToSet(up[m])
      BY <1>1, <3>5, TakenOff
    <3> QED
      BY <2>1, <3>1, <3>5, <3>6
  <2> QED
    BY <2>2, <2>3
<1>6. ASSUME f \in ToSet(up'[q]), f \notin ToSet(up[q])
      PROVE  \/ q = m /\ Write(m) /\ f.type = "Text" /\ f.ct.key = Len(written[q])
             \/ /\ q = m /\ OnRoster(m) /\ f.type = "KeyFor" /\ f.dist.chain = Len(written[q])
                /\ h \notin granted[q]
  <2>1. UpMoves(m)
    BY <1>2 DEF Moves
  <2>2. q = m
    BY <1>1, <1>6, <2>1 DEF UpMoves, Keys
  <2>3. CASE Write(m)
    <3> DEFINE g == Text(m, Ciphertext(sender[m]))
    <3>1. g \in Frame /\ g.type = "Text" /\ g.ct.key = Len(written[q])
      BY <1>0, <2>2, OwnFrames DEF Counts, Text, Ciphertext
    <3> HIDE DEF g
    <3>2. up'[q] = up[q] \/ up'[q] = Append(up[q], g)
      BY <1>1, <2>2, <2>3 DEF Write, g
    <3>3. ToSet(Append(up[q], g)) = ToSet(up[q]) \cup {g}
      BY <1>1, <3>1, BeforeLast
    <3>4. f = g
      BY <1>6, <3>2, <3>3
    <3> QED
      BY <2>2, <2>3, <3>1, <3>4
  <2>4. CASE OnRoster(m)
    <3>1. PICK keys, to : Keys(m, keys, to) /\ Firsts(m, keys, to)
      BY <1>0, <2>4, OnRosterKeys
    <3>2. keys \in Seq(Frame) /\ up'[q] = up[q] \o keys
      BY <1>1, <2>2, <3>1 DEF Keys
    <3>3. f \in ToSet(keys)
      BY <1>1, <1>6, <3>2, PutTogether
    <3>4. PICK t \in to : f = KeyFor(t, m, Distribution(sender[m]))
      BY <3>1, <3>3 DEF Keys
    <3>5. f.type = "KeyFor" /\ f.to = t /\ f.dist.chain = Len(written[q])
      BY <1>0, <2>2, <3>4 DEF KeyFor, Counts, Distribution
    <3>6. h \notin granted[q]
      BY <1>0, <1>2, <2>2, <3>1, <3>5 DEF Of, Firsts, MetInv, Grantees
    <3> QED
      BY <2>2, <2>4, <3>5, <3>6
  <2>5. CASE ~Write(m) /\ ~OnRoster(m)
    <3>1. \/ UNCHANGED up \/ up' = [up EXCEPT ![m] = <<>>] \/ up' = [up EXCEPT ![m] = <<Hello(m)>>]
          \/ (up[m] # <<>> /\ up' = [up EXCEPT ![m] = Tail(@)])
      BY <2>5 DEF Step, Join, Client, OnKeyFor, OnText, Leave, Reader, Writer, Register, Takes,
        BroadcastRoster, RouteKey, RouteText, Enqueue, ReaderEnds, Forward, WriterEnds, linkVars
    <3>2. up[m] # <<>> => ToSet(Tail(up[m])) \subseteq ToSet(up[m])
      BY <1>1, TakenOff
    <3>3. ToSet(<<>>) = {} /\ ToSet(<<Hello(m)>>) = {Hello(m)} /\ ~Of(Hello(m), h, q)
      BY DEF ToSet, Hello, Of
    <3>4. \/ up'[q] = up[q] \/ up'[q] = <<>> \/ up'[q] = <<Hello(m)>>
          \/ (up[m] # <<>> /\ up'[q] = Tail(up[m]))
      BY <1>1, <2>2, <3>1
    <3> QED
      BY <1>2, <1>6, <2>2, <3>2, <3>3, <3>4
  <2> QED
    BY <2>3, <2>4, <2>5
<1>7. f \in ToSet(down'[h]) \cup ToSet(outQ'[h]) \cup Passed(h, q)' \cup ToSet(up'[q])
  BY DEF Way
<1> QED
  BY <1>2, <1>3, <1>4, <1>5, <1>6, <1>7 DEF Way

Reading(h, f) == (OnKeyFor(h) \/ OnText(h)) /\ down[h] # <<>> /\ f = Head(down[h])

\* Between two members in the room nothing is lost on the way: it goes on until it is read.
LEMMA WayKept ==
  ASSUME OrderInv, NEW m \in Member, Step(m), NEW h \in Member, NEW q \in Member,
         Live(h, q)', h \in granted[q], NEW f \in Way(h, q)
  PROVE  f \in Way(h, q)' \/ (h = m /\ Reading(h, f))
<1>0. Types /\ Lengths /\ Frames /\ MetInv
  BY DEF OrderInv, KeyInv
<1>1. /\ up \in [Member -> Seq(Frame)] /\ outQ \in [Member -> Seq(Frame)]
      /\ down \in [Member -> Seq(Frame)] /\ sending \in [Member -> SUBSET Delivery]
      /\ down[h] \in Seq(Frame) /\ outQ[h] \in Seq(Frame) /\ up[q] \in Seq(Frame)
      /\ writer \in [Member -> BOOLEAN] /\ stage \in [Member -> {"out", "in", "gone"}]
  BY <1>0 DEF Types
<1>2. f \in Frame /\ Of(f, h, q)
  BY WayFacts
<1>3. /\ stage[h] = "in" /\ stage[q] = "in" /\ h \in roster /\ h # q
      /\ stage'[h] # "gone" /\ stage'[q] # "gone" /\ writer'[h]
  BY <1>0, <1>1, MetStays DEF Live, MetInv, Grantees, Meetings, Met
<1>4. CASE f \in ToSet(up[q])
  <2>1. CASE up'[q] = up[q] \/ \E g \in Frame : up'[q] = Append(up[q], g)
    <3>1. \A g \in Frame : ToSet(Append(up[q], g)) = ToSet(up[q]) \cup {g}
      BY <1>1, BeforeLast
    <3>2. f \in ToSet(up'[q])
      BY <1>4, <2>1, <3>1
    <3> QED
      BY <1>2, <3>2 DEF Way
  <2>2. CASE q # m
    <3>1. up'[q] = up[q]
      <4>1. UpMoves(m)
        BY <1>0, EveryMove DEF Moves, Step
      <4> QED
        BY <1>1, <2>2, <4>1 DEF UpMoves, Keys
    <3> QED
      BY <2>1, <3>1
  <2>3. CASE q = m /\ Write(m)
    <3>1. up'[q] = up[q] \/ up'[q] = Append(up[q], Text(m, Ciphertext(sender[m])))
      BY <1>1, <2>3 DEF Write
    <3> QED
      BY <1>0, <2>1, <3>1, OwnFrames
  <2>4. CASE q = m /\ OnRoster(m)
    <3>1. PICK keys, to : Keys(m, keys, to)
      BY <1>0, <2>4, OnRosterKeys
    <3>2. keys \in Seq(Frame) /\ up'[q] = up[q] \o keys
      BY <1>1, <2>4, <3>1 DEF Keys
    <3>3. PICK i \in DOMAIN up[q] : f = up[q][i]
      BY <1>4 DEF ToSet
    <3>4. i \in DOMAIN (up[q] \o keys) /\ (up[q] \o keys)[i] = up[q][i]
      BY <1>1, <3>2, ConcatProperties, LenProperties
    <3> QED
      BY <1>2, <3>2, <3>3, <3>4 DEF Way, ToSet
  <2>5. CASE q = m /\ (Register(m) \/ RouteKey(m) \/ RouteText(m))
    <3> DEFINE g == Head(up[q])
    <3>1. up[q] # <<>> /\ up'[q] = Tail(up[q])
      BY <1>1, <2>5 DEF Register, RouteKey, RouteText, Takes
    <3>2. f \in ToSet(up'[q]) \/ f = g
      BY <1>1, <1>4, <3>1, BehindFirst
    <3>3. CASE f = g
      <4>1. ~Register(m)
        BY <1>2, <2>5, <3>3 DEF Register, Takes, Of
      <4>2. CASE RouteKey(m)
        <5>1. f.to = h /\ sending'[q] = {[to |-> t, frame |-> g] : t \in roster \cap {g.to}}
          BY <1>1, <1>2, <2>5, <3>3, <4>2 DEF RouteKey, Takes, Of
        <5>2. [to |-> h, frame |-> f] \in sending'[q]
          BY <1>3, <3>3, <5>1
        <5> QED
          BY <1>2, <5>2 DEF Way, Passed
      <4>3. CASE RouteText(m)
        <5>1. f.from = q /\ sending'[q] = {[to |-> t, frame |-> g] : t \in roster \ {g.from}}
          BY <1>1, <1>2, <2>5, <3>3, <4>3 DEF RouteText, Takes, Of
        <5>2. [to |-> h, frame |-> f] \in sending'[q]
          BY <1>3, <3>3, <5>1
        <5> QED
          BY <1>2, <5>2 DEF Way, Passed
      <4> QED
        BY <2>5, <4>1, <4>2, <4>3
    <3> QED
      BY <1>2, <3>2, <3>3 DEF Way
  <2>6. CASE UNCHANGED up
    BY <2>1, <2>6
  <2>7. ~(q = m /\ (Join(m) \/ Leave(m)))
    BY <1>1, <1>3 DEF Join, Leave
  <2> QED
    BY <2>2, <2>3, <2>4, <2>5, <2>6, <2>7
       DEF Step, Client, OnKeyFor, OnText, Reader, Writer, BroadcastRoster, Enqueue, ReaderEnds,
           Forward, WriterEnds, linkVars
<1>5. CASE f \in Passed(h, q)
  <2>1. PICK d \in sending[q] : d.to = h /\ d.frame = f
    BY <1>5 DEF Passed
  <2>2. CASE d \in sending'[q]
    BY <1>2, <2>1, <2>2 DEF Way, Passed
  <2>3. CASE d \notin sending'[q]
    <3>1. q = m
      BY <1>0, <1>1, <2>1, <2>3, EveryMove DEF Moves, SendMoves, Step
    <3>2. ~(Register(m) \/ RouteKey(m) \/ RouteText(m) \/ ReaderEnds(m) \/ BroadcastRoster(m))
      BY <1>0, <2>1, <3>1
         DEF Register, RouteKey, RouteText, ReaderEnds, BroadcastRoster, Takes, MetInv, Readers
    <3>3. Enqueue(m)
      BY <2>1, <2>3, <3>1, <3>2
         DEF Step, Join, Client, OnRoster, OnKeyFor, OnText, Write, Leave, Reader, Writer, Forward,
             WriterEnds, relayVars
    <3>4. writer' = writer
      BY <3>3 DEF Enqueue
    <3>5. outQ' = [outQ EXCEPT ![h] = Append(@, f)]
      BY <1>1, <1>3, <2>1, <2>3, <3>1, <3>3, <3>4 DEF Enqueue
    <3>6. f \in ToSet(outQ'[h])
      BY <1>1, <1>2, <3>5, BeforeLast
    <3> QED
      BY <1>2, <3>6 DEF Way
  <2> QED
    BY <2>2, <2>3
<1>6. CASE f \in ToSet(outQ[h])
  <2>1. CASE outQ'[h] = outQ[h]
    BY <1>2, <1>6, <2>1 DEF Way
  <2>2. CASE Enqueue(m)
    <3>1. PICK d \in sending[m] : outQ' = [outQ EXCEPT ![d.to] = Append(@, d.frame)] \/ outQ' = outQ
      BY <2>2 DEF Enqueue
    <3>2. outQ'[h] = outQ[h] \/ outQ'[h] = Append(outQ[h], d.frame)
      BY <1>1, <3>1
    <3>3. d.frame \in Frame
      BY <1>1 DEF Delivery
    <3>4. ToSet(Append(outQ[h], d.frame)) = ToSet(outQ[h]) \cup {d.frame}
      BY <1>1, <3>3, BeforeLast
    <3> QED
      BY <1>2, <1>6, <3>2, <3>4 DEF Way
  <2>3. CASE h = m /\ Forward(m)
    <3>1. outQ[h] # <<>> /\ outQ'[h] = Tail(outQ[h]) /\ down'[h] = Append(down[h], Head(outQ[h]))
      BY <1>1, <2>3 DEF Forward
    <3>2. ToSet(outQ[h]) = ToSet(Tail(outQ[h])) \cup {Head(outQ[h])} /\ Head(outQ[h]) \in Frame
      BY <1>1, <3>1, BehindFirst, TakenOff
    <3>3. ToSet(Append(down[h], Head(outQ[h]))) = ToSet(down[h]) \cup {Head(outQ[h])}
      BY <1>1, <3>2, BeforeLast
    <3> QED
      BY <1>2, <1>6, <3>1, <3>2, <3>3 DEF Way
  <2>4. ~(h = m /\ WriterEnds(m))
    BY <1>1, <1>3 DEF WriterEnds
  <2>5. h = m /\ ~Forward(m) /\ ~WriterEnds(m) /\ ~Enqueue(m) => UNCHANGED outQ
    BY DEF Step, Join, Client, OnRoster, OnKeyFor, OnText, Write, Leave, Reader, Writer, Register,
           BroadcastRoster, RouteKey, RouteText, ReaderEnds, relayVars
  <2>6. h # m /\ ~Enqueue(m) => outQ'[h] = outQ[h]
    BY <1>1 DEF Step, Join, Client, OnRoster, OnKeyFor, OnText, Write, Leave, Reader, Writer, Register,
           BroadcastRoster, RouteKey, RouteText, ReaderEnds, Forward, WriterEnds, relayVars
  <2> QED
    BY <2>1, <2>2, <2>3, <2>4, <2>5, <2>6
<1>7. CASE f \in ToSet(down[h])
  <2>1. CASE down'[h] = down[h]
    BY <1>2, <1>7, <2>1 DEF Way
  <2>2. CASE h # m
    BY <1>0, <1>1, <2>1, <2>2, EveryMove DEF Moves, DownMoves, Step
  <2>3. CASE h = m /\ (OnRoster(m) \/ OnKeyFor(m) \/ OnText(m))
    <3>1. down[h] # <<>> /\ down'[h] = Tail(down[h])
      BY <1>1, <2>3 DEF OnRoster, OnKeyFor, OnText, Reads
    <3>2. ToSet(down[h]) = ToSet(Tail(down[h])) \cup {Head(down[h])}
      BY <1>1, <3>1, BehindFirst
    <3>3. f = Head(down[h]) => ~OnRoster(m)
      BY <1>2, <2>3 DEF OnRoster, Reads, Of
    <3> QED
      BY <1>2, <1>7, <2>3, <3>1, <3>2, <3>3 DEF Way, Reading
  <2>4. CASE h = m /\ Forward(m)
    <3>1. outQ[h] # <<>> /\ down'[h] = Append(down[h], Head(outQ[h]))
      BY <1>1, <2>4 DEF Forward
    <3>2. Head(outQ[h]) \in Frame
      BY <1>1, <3>1, TakenOff
    <3>3. ToSet(Append(down[h], Head(outQ[h]))) = ToSet(down[h]) \cup {Head(outQ[h])}
      BY <1>1, <3>2, BeforeLast
    <3> QED
      BY <1>2, <1>7, <3>1, <3>3 DEF Way
  <2>5. ~(h = m /\ Leave(m))
    BY <1>1, <1>3 DEF Leave
  <2>6. h = m /\ ~(OnRoster(m) \/ OnKeyFor(m) \/ OnText(m)) /\ ~Forward(m) /\ ~Leave(m) => UNCHANGED down
    BY DEF Step, Join, Client, Write, Reader, Writer, Register, Enqueue, WriterEnds,
           BroadcastRoster, RouteKey, RouteText, ReaderEnds, linkVars
  <2> QED
    BY <2>1, <2>2, <2>3, <2>4, <2>5, <2>6
<1> QED
  BY <1>4, <1>5, <1>6, <1>7 DEF Way

\* What a receiver is.
LEMMA ReceiverOf ==
  ASSUME OrderInv, NEW h \in Member, NEW q \in Member, HasKey(h, q)
  PROVE  /\ receivers[h][q] \in Receiver /\ Granted(h, q, receivers[h][q])
         /\ receivers[h][q].chain \in Nat /\ receivers[h][q].iteration = Cap(receivers[h][q].chain)
         /\ h \in granted[q]
         /\ \A k \in DOMAIN written[q] : k > receivers[h][q].chain => Meant(h, q, k)
<1>1. receivers[h] \in Peers
  BY DEF OrderInv, KeyInv, Types
<1>2. receivers[h][q] \in Receiver
  BY <1>1, PeerType DEF HasKey
<1>3. Granted(h, q, receivers[h][q])
  BY DEF OrderInv, KeyInv, Receivers, HasKey
<1> QED
  BY <1>2, <1>3 DEF Granted, Whole, AtCap, Since, Meant, Receiver

\* What a text is meant for.
LEMMA MeantStays ==
  ASSUME OrderInv, NEW m \in Member, Step(m), NEW h \in Member, NEW q \in Member, NEW k,
         Meant(h, q, k)'
  PROVE  \/ Meant(h, q, k)
         \/ Write(m) /\ q = m /\ h \in granted[q] /\ k = Len(written[q]) + 1
<1>0. Types
  BY DEF OrderInv, KeyInv
<1>1. written \in [Member -> Seq(SUBSET Member)] /\ granted[q] \in SUBSET Member
  BY <1>0 DEF Types
<1>2. CASE written'[q] = written[q]
  BY <1>2 DEF Meant
<1>3. CASE Write(m) /\ q = m
  <2>1. written'[q] = Append(written[q], granted[q]) /\ written[q] \in Seq(SUBSET Member)
    BY <1>1, <1>3 DEF Write
  <2>2. \/ k \in DOMAIN written[q] /\ written'[q][k] = written[q][k]
        \/ k = Len(written[q]) + 1 /\ written'[q][k] = granted[q]
    BY <1>1, <2>1, PutBehind DEF Meant
  <2> QED
    BY <1>3, <2>2 DEF Meant
<1>4. CASE ~Write(m) \/ q # m
  <2>1. written'[q] = written[q]
    BY <1>1, <1>4
       DEF Step, Join, Client, OnRoster, OnKeyFor, OnText, Write, Leave, Reader, Writer, Register,
           BroadcastRoster, RouteKey, RouteText, Enqueue, ReaderEnds, Forward, WriterEnds, clientVars
  <2> QED
    BY <1>2, <2>1
<1> QED
  BY <1>3, <1>4

\* A receiver that reads nothing opens what it could open.
LEMMA OpeningStays ==
  ASSUME OrderInv, NEW m \in Member, Step(m), NEW h \in Member, NEW q \in Member, Opening(h, q),
         HasKey(h, q)' <=> HasKey(h, q),
         HasKey(h, q) => receivers'[h][q] = receivers[h][q],
         \A i \in DOMAIN shown'[h] : shown'[h][i].from = q =>
            i \in DOMAIN shown[h] /\ shown'[h][i] = shown[h][i]
  PROVE  Opening(h, q)'
<1>1. Len(written[q]) \in Nat /\ Len(written'[q]) \in Nat /\ Len(written[q]) <= Len(written'[q])
  <2>1. Types /\ Lengths /\ Frames /\ written[q] \in Seq(SUBSET Member) /\ granted[q] \in SUBSET Member
    BY DEF OrderInv, KeyInv, Types
  <2>2. Len(Append(written[q], granted[q])) = Len(written[q]) + 1 /\ Len(written[q]) \in Nat
    BY <2>1, PutBehind
  <2>3. written'[q] = written[q] \/ written'[q] = Append(written[q], granted[q])
    BY <2>1, Grants
  <2> QED
    BY <2>2, <2>3
<1>2. ASSUME HasKey(h, q)
      PROVE  /\ receivers'[h][q].chain <= Len(written'[q])
             /\ \A f \in Way(h, q)' : f.type = "Text" /\ receivers'[h][q].chain <= f.ct.key
             /\ \A i \in DOMAIN shown'[h] :
                  shown'[h][i].from = q => shown'[h][i].n < receivers'[h][q].chain
  <2>1. /\ receivers[h][q].chain \in Nat /\ h \in granted[q]
        /\ receivers'[h][q].chain = receivers[h][q].chain
        /\ receivers[h][q].chain <= Len(written[q])
    BY <1>2, ReceiverOf DEF Opening
  <2>2. receivers'[h][q].chain <= Len(written'[q])
    BY <1>1, <2>1
  <2>3. ASSUME NEW f \in Way(h, q)'
        PROVE  f.type = "Text" /\ receivers'[h][q].chain <= f.ct.key
    <3>1. CASE f \in Way(h, q)
      BY <1>2, <2>1, <3>1 DEF Opening
    <3>2. CASE f.type = "Text" /\ f.ct.key = Len(written[q])
      BY <2>1, <3>2
    <3> QED
      BY <2>1, <3>1, <3>2, WayGrows
  <2> QED
    BY <1>2, <2>1, <2>2, <2>3 DEF Opening
<1>3. ~HasKey(h, q)' => \A i \in DOMAIN shown'[h] : shown'[h][i].from # q
  BY DEF Opening
<1>4. ASSUME NEW f \in Way(h, q)', NEW g \in Way(h, q)', f.type = "KeyFor", g.type = "KeyFor"
      PROVE  f.dist.chain = g.dist.chain
  <2>1. \A x \in Way(h, q)' : x.type = "KeyFor" =>
           x \in Way(h, q) \/ (x.dist.chain = Len(written[q]) /\ h \notin granted[q])
    BY WayGrows
  <2>2. \A x \in Way(h, q) : x.type = "KeyFor" => h \in granted[q]
    BY WayFacts
  <2> QED
    BY <1>4, <2>1, <2>2 DEF Opening
<1>5. ASSUME NEW f \in Way(h, q)', f.type = "KeyFor", NEW k, Meant(h, q, k)'
      PROVE  f.dist.chain < k
  <2>1. CASE f \in Way(h, q)
    <3>1. f.dist.chain \in Nat /\ f.dist.chain <= Len(written[q])
      BY <1>5, <2>1, WayFacts DEF Position
    <3>2. CASE Meant(h, q, k)
      BY <1>5, <2>1, <3>2 DEF Opening
    <3>3. CASE k = Len(written[q]) + 1
      BY <1>1, <3>1, <3>3
    <3> QED
      BY <1>5, <3>2, <3>3, MeantStays
  <2>2. CASE f \notin Way(h, q)
    <3>1. h \notin granted[q] /\ OnRoster(m)
      BY <1>5, <2>2, WayGrows
    <3>2. Meant(h, q, k)
      BY <1>5, <3>1, MeantStays
    <3>3. Meant(h, q, k) => h \in granted[q]
      BY DEF Meant, OrderInv, MetInv, Grantees
    <3> QED
      BY <3>1, <3>2, <3>3
  <2> QED
    BY <2>1, <2>2
<1>6. HasKey(h, q)' => HasKey(h, q)
  OBVIOUS
<1> QED
  BY <1>2, <1>3, <1>4, <1>5, <1>6 DEF Opening

\* The key comes.
LEMMA OpeningKey ==
  ASSUME OrderInv, NEW m \in Member, OnKeyFor(m), NEW q \in Member, q = Head(down[m]).from,
         Opening(m, q)
  PROVE  Opening(m, q)'
<1> DEFINE f == Head(down[m])
<1>0. Step(m) /\ receivers \in [Member -> Peers] /\ down[m] \in Seq(Frame) /\ Frames
  BY DEF Step, Client, OrderInv, KeyInv, Types
<1>1. /\ down[m] # <<>> /\ f.type = "KeyFor" /\ UNCHANGED <<shown, written>>
      /\ receivers' = [receivers EXCEPT ![m] =
           [p \in DOMAIN @ \cup {f.from} |-> IF p = f.from THEN FromDistribution(f.dist) ELSE @[p]]]
  BY DEF OnKeyFor, Reads
<1>2. Of(f, m, q)
  <2>1. f \in ToSet(down[m])
    BY <1>0, <1>1, TakenOff
  <2> QED
    BY <1>0, <1>1, <2>1 DEF Frames, For, Of
<1>3. HasKey(m, q)' /\ receivers'[m][q].chain = f.dist.chain
  BY <1>0, <1>1 DEF HasKey, FromDistribution
<1>4. f \in Way(m, q) /\ \A g \in Way(m, q)' : g \in Way(m, q) /\ Rank(f) < Rank(g)
  BY <1>2, WayTaken
<1> HIDE DEF f
<1>5. /\ f.dist.chain \in Nat /\ f.dist.chain <= Len(written[q]) /\ Rank(f) = 2 * f.dist.chain
  BY <1>1, <1>4, WayFacts DEF Position
<1>6. \A i \in DOMAIN shown[m] : shown[m][i].from # q
  BY <1>1, <1>4 DEF Opening
<1>7. ASSUME NEW g \in Way(m, q)'
      PROVE  g.type = "Text" /\ f.dist.chain <= g.ct.key
  <2>1. g \in Way(m, q) /\ Rank(f) < Rank(g)
    BY <1>4
  <2>2. CASE g.type = "Text"
    <3>1. Rank(g) = 2 * g.ct.key + 1 /\ g.ct.key \in Nat
      BY <2>1, <2>2, WayFacts DEF Point
    <3> QED
      BY <1>5, <2>1, <2>2, <3>1
  <2>3. CASE g.type # "Text"
    <3>1. g.type = "KeyFor" /\ Rank(g) = 2 * g.dist.chain
      BY <2>1, <2>3, WayFacts
    <3>2. g.dist.chain = f.dist.chain
      BY <1>1, <1>4, <2>1, <3>1 DEF Opening
    <3> QED
      BY <1>5, <2>1, <3>1, <3>2
  <2> QED
    BY <2>2, <2>3
<1> QED
  BY <1>1, <1>3, <1>5, <1>6, <1>7 DEF Opening

\* A text of a member whose key was received opens the chain at its own place.
LEMMA TextOpens ==
  ASSUME OrderInv, NEW m \in Member, NEW q \in Member, HasKey(m, q), Opening(m, q),
         NEW f \in Way(m, q), f.type = "Text"
  PROVE  LET r == receivers[m][q]
         IN /\ Cached(r, f.ct) = {} /\ r.chain <= f.ct.key
            /\ Opened(r, f.ct).chain = f.ct.key + 1
            /\ Opens(r, f.ct) <=> /\ f.ct.iteration >= r.iteration /\ Gap(r, f.ct) <= MaxSkip
                                  /\ r.chain + Gap(r, f.ct) = f.ct.key
<1> DEFINE r == receivers[m][q]
<1>1. r \in Receiver /\ Whole(r) /\ r.chain \in Nat /\ r.iteration = Cap(r.chain)
  BY ReceiverOf DEF Granted
<1>2. f.ct \in Point /\ f.ct.iteration = Cap(f.ct.key)
  BY WayFacts DEF FrameOK
<1>3. r.chain <= f.ct.key
  BY DEF Opening
<1> HIDE DEF r
<1>4. /\ f.ct.key \in Nat /\ f.ct.iteration \in Nat /\ r.iteration \in Nat /\ LastIteration \in Nat
      /\ r.skipped \in SUBSET Point
  BY <1>1, <1>2, SenderKeyAssumption DEF Point, Receiver
<1>5. r.iteration <= f.ct.iteration
  BY <1>1, <1>2, <1>3, <1>4 DEF Cap
<1>6. \A s \in r.skipped : s.iteration \in Nat /\ s.iteration < r.iteration
  BY <1>1, <1>4 DEF Whole, Point
<1>7. Cached(r, f.ct) = {}
  BY <1>4, <1>5, <1>6 DEF Cached
<1>8. Opened(r, f.ct).chain = f.ct.key + 1
  BY <1>7 DEF Opened
<1> QED
  BY <1>3, <1>7, <1>8 DEF Opens, r

\* A text is opened and shown.
LEMMA OpeningText ==
  ASSUME OrderInv, NEW m \in Member, OnText(m), NEW q \in Member, q = Head(down[m]).from,
         Opening(m, q), HasKey(m, q), Opens(receivers[m][q], Head(down[m]).ct)
  PROVE  Opening(m, q)'
<1> DEFINE f == Head(down[m])
           x == [from |-> f.from, n |-> f.ct.key]
<1>0. /\ Step(m) /\ receivers \in [Member -> Peers] /\ down[m] \in Seq(Frame) /\ Frames
      /\ shown \in [Member -> Seq([from : Member, n : Nat])]
  BY DEF Step, Client, OrderInv, KeyInv, Types
<1>1. /\ down[m] # <<>> /\ f.type = "Text" /\ UNCHANGED written
      /\ receivers' = [receivers EXCEPT ![m][f.from] = Opened(@, f.ct)]
      /\ shown' = [shown EXCEPT ![m] = Append(@, x)]
  BY DEF OnText, Reads, HasKey
<1>2. Of(f, m, q)
  BY <1>1 DEF Of
<1>3. f \in Way(m, q) /\ \A g \in Way(m, q)' : g \in Way(m, q) /\ Rank(f) < Rank(g)
  BY <1>2, WayTaken
<1>4. HasKey(m, q)' /\ receivers'[m][q] = Opened(receivers[m][q], f.ct)
  BY <1>0, <1>1 DEF HasKey
<1> HIDE DEF f
<1>5. receivers'[m][q].chain = f.ct.key + 1 /\ receivers[m][q].chain <= f.ct.key
  BY <1>1, <1>3, <1>4, TextOpens
<1>6. /\ f.ct.key \in Nat /\ f.ct.key < Len(written[q]) /\ Rank(f) = 2 * f.ct.key + 1
      /\ Len(written[q]) \in Nat /\ receivers[m][q].chain \in Nat
  BY <1>1, <1>3, WayFacts, RowFacts, ReceiverOf DEF Point
<1>7. receivers'[m][q].chain <= Len(written'[q])
  BY <1>1, <1>5, <1>6
<1>8. ASSUME NEW g \in Way(m, q)'
      PROVE  g.type = "Text" /\ f.ct.key + 1 <= g.ct.key
  <2>1. g \in Way(m, q) /\ Rank(f) < Rank(g)
    BY <1>3
  <2>2. g.type = "Text"
    BY <2>1 DEF Opening
  <2>3. Rank(g) = 2 * g.ct.key + 1 /\ g.ct.key \in Nat
    BY <2>1, <2>2, WayFacts DEF Point
  <2> QED
    BY <1>6, <2>1, <2>2, <2>3
<1>9. ASSUME NEW i \in DOMAIN shown'[m], shown'[m][i].from = q
      PROVE  shown'[m][i].n < f.ct.key + 1
  <2>1. x \in [from : Member, n : Nat] /\ shown'[m] = Append(shown[m], x)
        /\ shown[m] \in Seq([from : Member, n : Nat]) /\ x.n = f.ct.key
    BY <1>0, <1>1, <1>6 DEF f
  <2> HIDE DEF x
  <2>2. (i \in DOMAIN shown[m] /\ shown'[m][i] = shown[m][i]) \/ shown'[m][i] = x
    BY <2>1, PutBehind
  <2>3. CASE i \in DOMAIN shown[m] /\ shown'[m][i] = shown[m][i]
    <3>1. shown[m][i] \in [from : Member, n : Nat]
      BY <2>1, <2>3, ElementOf
    <3>2. shown[m][i].n \in Nat /\ shown[m][i].n < receivers[m][q].chain
      BY <1>9, <2>3, <3>1 DEF Opening
    <3> QED
      BY <1>5, <1>6, <2>3, <3>2
  <2>4. CASE shown'[m][i] = x
    BY <1>6, <2>1, <2>4
  <2> QED
    BY <2>2, <2>3, <2>4
<1> QED
  BY <1>4, <1>5, <1>7, <1>8, <1>9 DEF Opening

\* Whatever is done.
LEMMA OpeningStep ==
  ASSUME OrderInv, NEW m \in Member, Step(m), NEW h \in Member, NEW q \in Member, Opening(h, q)
  PROVE  Opening(h, q)'
<1> DEFINE f == Head(down[m])
<1>0. /\ receivers \in [Member -> Peers] /\ shown \in [Member -> Seq([from : Member, n : Nat])]
      /\ down[m] \in Seq(Frame)
  BY DEF OrderInv, KeyInv, Types
<1>1. CASE receivers'[h] = receivers[h] /\ shown'[h] = shown[h]
  BY <1>1, OpeningStays DEF HasKey
<1>2. CASE OnKeyFor(m)
  <2>1. /\ UNCHANGED shown
        /\ receivers' = [receivers EXCEPT ![m] =
             [p \in DOMAIN @ \cup {f.from} |-> IF p = f.from THEN FromDistribution(f.dist) ELSE @[p]]]
    BY <1>2 DEF OnKeyFor
  <2>2. CASE h # m
    BY <1>0, <1>1, <2>1, <2>2
  <2>3. CASE h = m /\ q # f.from
    <3>1. (HasKey(h, q)' <=> HasKey(h, q)) /\ (HasKey(h, q) => receivers'[h][q] = receivers[h][q])
      BY <1>0, <2>1, <2>3 DEF HasKey
    <3> QED
      BY <2>1, <3>1, OpeningStays
  <2>4. CASE h = m /\ q = f.from
    BY <1>2, <2>4, OpeningKey
  <2> QED
    BY <2>2, <2>3, <2>4
<1>3. CASE OnText(m)
  <2>1. CASE UNCHANGED <<receivers, shown>>
    BY <1>1, <2>1
  <2>2. CASE ~UNCHANGED <<receivers, shown>>
    <3>1. /\ f.from \in DOMAIN receivers[m] /\ Opens(receivers[m][f.from], f.ct)
          /\ receivers' = [receivers EXCEPT ![m][f.from] = Opened(@, f.ct)]
          /\ shown' = [shown EXCEPT ![m] = Append(@, [from |-> f.from, n |-> f.ct.key])]
          /\ down[m] # <<>> /\ f.type = "Text"
      BY <1>3, <2>2 DEF OnText, Reads
    <3>2. CASE h # m
      BY <1>0, <1>1, <3>1, <3>2
    <3>3. CASE h = m /\ q # f.from
      <4>1. (HasKey(h, q)' <=> HasKey(h, q)) /\ (HasKey(h, q) => receivers'[h][q] = receivers[h][q])
        BY <1>0, <3>1, <3>3 DEF HasKey
      <4> DEFINE x == [from |-> f.from, n |-> f.ct.key]
      <4>2. f \in Frame
        BY <1>0, <3>1, TakenOff
      <4>3. x \in [from : Member, n : Nat] /\ x.from # q
        BY <3>1, <3>3, <4>2 DEF Frame, Point
      <4>4. shown'[h] = Append(shown[h], x) /\ shown[h] \in Seq([from : Member, n : Nat])
        BY <1>0, <3>1, <3>3
      <4> HIDE DEF x
      <4>5. \A i \in DOMAIN shown'[h] : shown'[h][i].from = q =>
              i \in DOMAIN shown[h] /\ shown'[h][i] = shown[h][i]
        BY <4>3, <4>4, PutBehind
      <4> QED
        BY <4>1, <4>5, OpeningStays
    <3>4. CASE h = m /\ q = f.from
      BY <1>3, <3>1, <3>4, OpeningText DEF HasKey
    <3> QED
      BY <3>2, <3>3, <3>4
  <2> QED
    BY <2>1, <2>2
<1>4. CASE UNCHANGED <<receivers, shown>>
  BY <1>1, <1>4
<1> QED
  BY <1>2, <1>3, <1>4
     DEF Step, Join, Client, OnRoster, Write, Leave, Reader, Writer, Register, BroadcastRoster,
         RouteKey, RouteText, Enqueue, ReaderEnds, Forward, WriterEnds, clientVars

\* Two in the room, one of them keyed, were there before.
LEMMA LiveBefore ==
  ASSUME OrderInv, NEW m \in Member, Step(m), NEW h \in Member, NEW q \in Member,
         Live(h, q)', h \in granted[q]
  PROVE  Live(h, q)
<1>0. /\ Types /\ MetInv /\ writer \in [Member -> BOOLEAN] /\ stage \in [Member -> {"out", "in", "gone"}]
  BY DEF OrderInv, KeyInv, Types
<1>1. stage[h] # "gone" /\ stage[q] # "gone"
  BY <1>0, MetStays DEF Live
<1>2. stage[h] # "out"
  BY <1>0, <1>1 DEF MetInv, Grantees, Meetings, Met
<1>3. CASE Join(m)
  <2>1. h # m
    BY <1>2, <1>3 DEF Join
  <2> QED
    BY <1>0, <1>1, <1>3, <2>1 DEF Join, Live
<1>4. CASE WriterEnds(m)
  <2>1. writer'[h] => writer[h]
    BY <1>0, <1>4 DEF WriterEnds
  <2> QED
    BY <1>1, <2>1 DEF Live
<1>5. CASE UNCHANGED writer
  BY <1>1, <1>5 DEF Live
<1> QED
  BY <1>3, <1>4, <1>5
     DEF Step, Client, OnRoster, OnKeyFor, OnText, Write, Leave, Reader, Writer, Register,
         BroadcastRoster, RouteKey, RouteText, Enqueue, ReaderEnds, Forward, relayVars

\* A key that was received stays, and one on its way is received.
LEMMA KeyKept ==
  ASSUME OrderInv, NEW m \in Member, Step(m), NEW h \in Member, NEW q \in Member,
         Kept(h, q), Live(h, q)', h \in granted[q]
  PROVE  HasKey(h, q)' \/ \E f \in Way(h, q)' : f.type = "KeyFor"
<1>0. receivers \in [Member -> Peers]
  BY DEF OrderInv, KeyInv, Types
<1>1. CASE HasKey(h, q)
  <2>1. CASE OnKeyFor(m)
    BY <1>0, <1>1, <2>1 DEF OnKeyFor, HasKey
  <2>2. CASE OnText(m)
    BY <1>0, <1>1, <2>2 DEF OnText, HasKey
  <2>3. CASE UNCHANGED receivers
    BY <1>1, <2>3 DEF HasKey
  <2> QED
    BY <2>1, <2>2, <2>3
       DEF Step, Join, Client, OnRoster, Write, Leave, Reader, Writer, Register, BroadcastRoster,
           RouteKey, RouteText, Enqueue, ReaderEnds, Forward, WriterEnds, clientVars
<1>2. CASE \E f \in Way(h, q) : f.type = "KeyFor"
  <2>1. PICK f \in Way(h, q) : f.type = "KeyFor"
    BY <1>2
  <2>2. f.from = q
    BY <2>1, WayFacts
  <2>3. CASE f \in Way(h, q)'
    BY <2>1, <2>3
  <2>4. CASE h = m /\ Reading(h, f)
    <3>1. OnKeyFor(h) /\ f = Head(down[h])
      BY <2>1, <2>4 DEF Reading, OnText, Reads
    <3>2. HasKey(h, q)'
      BY <1>0, <2>2, <3>1 DEF OnKeyFor, HasKey
    <3> QED
      BY <3>2
  <2> QED
    BY <2>3, <2>4, WayKept
<1> QED
  BY <1>1, <1>2, LiveBefore DEF Kept

\* A key that goes out is on its way, and no text is meant for its receiver yet.
LEMMA KeyGoesOut ==
  ASSUME OrderInv, NEW m \in Member, Step(m), NEW h \in Member, NEW q \in Member,
         h \notin granted[q], h \in granted'[q]
  PROVE  /\ \E f \in Way(h, q)' : f.type = "KeyFor"
         /\ \A k : ~Meant(h, q, k)'
<1>0. Types /\ Lengths /\ Frames /\ MetInv
  BY DEF OrderInv, KeyInv
<1>1. /\ granted \in [Member -> SUBSET Member] /\ up \in [Member -> Seq(Frame)] /\ up[q] \in Seq(Frame)
  BY <1>0 DEF Types
<1>2. OnRoster(m)
  BY DEF Step, Join, Client, OnKeyFor, OnText, Write, Leave, Reader, Writer, Register, BroadcastRoster,
         RouteKey, RouteText, Enqueue, ReaderEnds, Forward, WriterEnds, clientVars
<1>3. PICK keys, to : Keys(m, keys, to) /\ Firsts(m, keys, to)
  BY <1>0, <1>2, OnRosterKeys
<1>4. q = m /\ h \in to /\ keys \in Seq(Frame) /\ up'[q] = up[q] \o keys
  BY <1>1, <1>3 DEF Keys
<1>5. PICK f \in ToSet(keys) : f.to = h
  BY <1>3, <1>4 DEF Firsts
<1>6. f.type = "KeyFor" /\ Of(f, h, q)
  BY <1>3, <1>4, <1>5 DEF Keys, KeyFor, Of
<1>7. PICK i \in DOMAIN keys : f = keys[i]
  BY <1>5 DEF ToSet
<1>8. f \in ToSet(up'[q])
  <2>1. /\ Len(up[q]) \in Nat /\ Len(keys) \in Nat /\ i \in 1 .. Len(keys)
        /\ Len(up[q] \o keys) = Len(up[q]) + Len(keys)
        /\ \A j \in 1 .. Len(up[q]) + Len(keys) :
             (up[q] \o keys)[j] = IF j <= Len(up[q]) THEN up[q][j] ELSE keys[j - Len(up[q])]
    BY <1>1, <1>4, <1>7, ConcatProperties, LenProperties
  <2>2. up[q] \o keys \in Seq(Frame)
    BY <1>1, <1>4, ConcatProperties
  <2>3. /\ Len(up[q]) + i \in DOMAIN (up[q] \o keys) /\ (up[q] \o keys)[Len(up[q]) + i] = keys[i]
    BY <2>1, <2>2
  <2> QED
    BY <1>4, <1>7, <2>3 DEF ToSet
<1>9. f \in Way(h, q)'
  BY <1>6, <1>8 DEF Way
<1>10. ASSUME NEW k, Meant(h, q, k)'
       PROVE  FALSE
  <2>1. Meant(h, q, k)
    BY <1>10, MeantStays
  <2> QED
    BY <1>0, <2>1 DEF Meant, MetInv, Grantees
<1> QED
  BY <1>6, <1>9, <1>10

\* The texts a link refused.
Losses == refused \in [Member -> SUBSET Nat]

\* After too many losses in a row nothing is reached, whatever comes later.
LEMMA NeverReached ==
  ASSUME NEW q \in Member, NEW n \in Nat, NEW l \in Nat, n <= l, Unreachable(q, n)
  PROVE  Unreachable(q, l)
<1>1. PICK k \in 0 .. n : \A i \in 0 .. MaxSkip : k + i < n /\ k + i \in refused[q]
  BY DEF Unreachable
<1>2. k \in 0 .. l /\ \A i \in 0 .. MaxSkip : k + i < l /\ k + i \in refused[q]
  BY <1>1, SenderKeyAssumption
<1> QED
  BY <1>2 DEF Unreachable

\* What was shown, refused or out of reach remains so.
LEMMA PastStays ==
  ASSUME OrderInv, Losses, NEW m \in Member, Step(m), NEW h \in Member, NEW q \in Member, NEW n
  PROVE  /\ Shows(h, q, n) => Shows(h, q, n)'
         /\ n \in refused[q] => n \in refused'[q]
         /\ Unreachable(q, n) => Unreachable(q, n)'
<1>0. shown \in [Member -> Seq([from : Member, n : Nat])] /\ down \in [Member -> Seq(Frame)]
  BY DEF OrderInv, KeyInv, Types
<1>1. ASSUME Shows(h, q, n)
      PROVE  Shows(h, q, n)'
  <2>1. CASE shown'[h] = shown[h]
    BY <1>1, <2>1 DEF Shows
  <2>2. CASE OnText(m) /\ shown'[h] # shown[h]
    <3> DEFINE f == Head(down[m])
               x == [from |-> f.from, n |-> f.ct.key]
    <3>1. shown' = [shown EXCEPT ![m] = Append(@, x)] /\ down[m] # <<>> /\ f.type = "Text"
      BY <2>2 DEF OnText, Reads
    <3>2. h = m /\ shown'[h] = Append(shown[h], x) /\ shown[h] \in Seq([from : Member, n : Nat])
      BY <1>0, <2>2, <3>1
    <3>3. f \in Frame
      BY <1>0, <3>1, TakenOff
    <3>4. x \in [from : Member, n : Nat]
      BY <3>1, <3>3 DEF Frame, Point
    <3> HIDE DEF x, f
    <3>5. \A i \in DOMAIN shown[h] : i \in DOMAIN Append(shown[h], x) /\ Append(shown[h], x)[i] = shown[h][i]
      BY <3>2, <3>4
    <3> QED
      BY <1>1, <3>2, <3>5 DEF Shows
  <2>3. OnText(m) \/ shown'[h] = shown[h]
    BY DEF Step, Join, Client, OnRoster, OnKeyFor, Write, Leave, Reader, Writer, Register, BroadcastRoster,
           RouteKey, RouteText, Enqueue, ReaderEnds, Forward, WriterEnds, clientVars
  <2> QED
    BY <2>1, <2>2, <2>3
<1>2. refused[q] \subseteq refused'[q]
  <2>2. CASE Write(m)
    BY <2>2 DEF Write, Losses
  <2>3. CASE UNCHANGED refused
    BY <2>3
  <2> QED
    BY <2>2, <2>3
       DEF Step, Join, Client, OnRoster, OnKeyFor, OnText, Leave, Reader, Writer, Register,
           BroadcastRoster, RouteKey, RouteText, Enqueue, ReaderEnds, Forward, WriterEnds, clientVars
<1>3. Unreachable(q, n) => Unreachable(q, n)'
  BY <1>2 DEF Unreachable
<1> QED
  BY <1>1, <1>2, <1>3

\* The counter of a chain never saturates on the texts a member may write.
Unsaturated == MaxTexts <= LastIteration

\* A text that does not open came after more losses in a row than are skipped.
LEMMA TextMissed ==
  ASSUME OrderInv, Unsaturated, NEW m \in Member, NEW q \in Member, OnText(m), q = Head(down[m]).from,
         Opening(m, q), Kept(m, q), Live(m, q), HasKey(m, q),
         ~Opens(receivers[m][q], Head(down[m]).ct)
  PROVE  Unreachable(q, Head(down[m]).ct.key)
<1> DEFINE f == Head(down[m])
           r == receivers[m][q]
           lost(i) == r.chain + i
<1>1. f.type = "Text" /\ Of(f, m, q)
  BY DEF OnText, Reads, Of
<1>2. f \in Way(m, q) /\ \A g \in Way(m, q) : g # f => Rank(f) < Rank(g)
  BY <1>1, WayTaken
<1> HIDE DEF f
<1>3. /\ f.ct \in Point /\ f.ct.key \in Nat /\ f.ct.iteration = Cap(f.ct.key)
      /\ Rank(f) = 2 * f.ct.key + 1 /\ f.ct.key < Len(written[q])
  BY <1>1, <1>2, WayFacts DEF Point, FrameOK
<1>4. /\ Len(written[q]) \in Nat /\ Len(written[q]) <= MaxTexts /\ MaxTexts \in Nat
      /\ LastIteration \in Nat /\ MaxSkip \in Nat
  BY RowFacts, RelayAssumption, SenderKeyAssumption DEF OrderInv, KeyInv, Counts
<1>5. /\ r.chain \in Nat /\ r.iteration = Cap(r.chain) /\ m \in granted[q]
      /\ \A k \in DOMAIN written[q] : k > r.chain => Meant(m, q, k)
  BY ReceiverOf
<1>6. /\ r.chain <= f.ct.key
      /\ Opens(r, f.ct) <=> /\ f.ct.iteration >= r.iteration /\ Gap(r, f.ct) <= MaxSkip
                            /\ r.chain + Gap(r, f.ct) = f.ct.key
  BY <1>1, <1>2, TextOpens
<1>7. \A i \in DOMAIN shown[m] : shown[m][i].from = q => shown[m][i].n < r.chain
  BY DEF Opening
<1>8. ~Opens(r, f.ct)
  BY DEF f
<1> HIDE DEF r
<1>9. f.ct.iteration = f.ct.key /\ r.iteration = r.chain
  BY <1>3, <1>4, <1>5, <1>6 DEF Cap, Unsaturated
<1>10. f.ct.key - r.chain > MaxSkip
  BY <1>3, <1>4, <1>5, <1>6, <1>8, <1>9 DEF Gap
<1>11. ASSUME NEW i \in 0 .. MaxSkip
       PROVE  /\ lost(i) \in Nat /\ lost(i) < f.ct.key
              /\ lost(i) \in refused[q] \/ Unreachable(q, lost(i))
  <2>1. lost(i) \in Nat /\ lost(i) < f.ct.key /\ lost(i) >= r.chain
    BY <1>3, <1>4, <1>5, <1>10
  <2>2. lost(i) + 1 \in DOMAIN written[q]
    <3>1. written[q] \in Seq(SUBSET Member)
      BY DEF OrderInv, KeyInv, Types
    <3>2. DOMAIN written[q] = 1 .. Len(written[q])
      BY <3>1
    <3>3. lost(i) + 1 \in 1 .. Len(written[q])
      BY <1>3, <1>4, <2>1
    <3> QED
      BY <3>2, <3>3
  <2>3. Meant(m, q, lost(i) + 1)
    BY <1>5, <2>1, <2>2
  <2>4. Accounted(m, q, (lost(i) + 1) - 1)
    BY <1>5, <2>3 DEF Kept
  <2>5. Accounted(m, q, lost(i))
    <3>1. (lost(i) + 1) - 1 = lost(i)
      BY <2>1
    <3> QED
      BY <2>4, <3>1
  <2> HIDE DEF lost
  <2>6. ~Shows(m, q, lost(i))
    <3>1. ASSUME NEW j \in DOMAIN shown[m], shown[m][j] = [from |-> q, n |-> lost(i)]
          PROVE  FALSE
      <4>1. lost(i) < r.chain
        BY <1>7, <3>1
      <4> QED
        BY <1>5, <2>1, <4>1
    <3> QED
      BY <3>1 DEF Shows
  <2>7. ~Coming(m, q, lost(i))
    <3>1. ASSUME NEW g \in Way(m, q), g.type = "Text", g.ct.key = lost(i)
          PROVE  FALSE
      <4>1. Rank(g) = 2 * lost(i) + 1
        BY <3>1, WayFacts
      <4>2. g # f
        BY <1>3, <2>1, <3>1
      <4> QED
        BY <1>2, <1>3, <2>1, <4>1, <4>2
    <3> QED
      BY <3>1 DEF Coming
  <2> QED
    BY <2>1, <2>5, <2>6, <2>7 DEF Accounted
<1>12. CASE \E i \in 0 .. MaxSkip : Unreachable(q, lost(i))
  <2>1. PICK i \in 0 .. MaxSkip : Unreachable(q, lost(i))
    BY <1>12
  <2>2. lost(i) \in Nat /\ lost(i) <= f.ct.key
    BY <1>3, <1>11
  <2> HIDE DEF lost
  <2>3. Unreachable(q, f.ct.key)
    BY <1>3, <2>1, <2>2, NeverReached
  <2> QED
    BY <2>3 DEF f
<1>13. CASE \A i \in 0 .. MaxSkip : ~Unreachable(q, lost(i))
  <2>1. \A i \in 0 .. MaxSkip : r.chain + i < f.ct.key /\ r.chain + i \in refused[q]
    BY <1>11, <1>13
  <2>2. r.chain \in 0 .. f.ct.key
    BY <1>3, <1>5, <1>6
  <2>3. Unreachable(q, f.ct.key)
    BY <2>1, <2>2 DEF Unreachable
  <2> QED
    BY <2>3 DEF f
<1> QED
  BY <1>12, <1>13

\* A text that comes goes on, or is shown, or is out of reach.
LEMMA TextComes ==
  ASSUME OrderInv, Losses, Unsaturated, NEW m \in Member, Step(m), NEW h \in Member, NEW q \in Member,
         Opening(h, q), Kept(h, q), Live(h, q)', h \in granted[q], NEW n \in Nat, Meant(h, q, n + 1),
         Coming(h, q, n)
  PROVE  Accounted(h, q, n)'
<1>0. Live(h, q)
  BY LiveBefore
<1>1. PICK f \in Way(h, q) : f.type = "Text" /\ f.ct.key = n
  BY DEF Coming
<1>2. CASE f \in Way(h, q)'
  BY <1>1, <1>2 DEF Coming, Accounted
<1>3. CASE h = m /\ Reading(h, f)
  <2>1. OnText(h) /\ f = Head(down[h]) /\ down[h] # <<>>
    BY <1>1, <1>3 DEF Reading, OnKeyFor, Reads
  <2>2. f.from = q /\ Of(f, h, q)
    BY <1>1, WayFacts
  <2>3. HasKey(h, q)
    <3>1. SUFFICES ASSUME ~HasKey(h, q) PROVE FALSE
      OBVIOUS
    <3>2. PICK g \in Way(h, q) : g.type = "KeyFor"
      BY <1>0, <3>1 DEF Kept
    <3>3. Rank(f) < Rank(g)
      BY <1>1, <2>1, <2>2, <3>2, WayTaken
    <3>4. Rank(f) = 2 * n + 1
      BY <1>1, WayFacts
    <3>5. Rank(g) = 2 * g.dist.chain /\ g.dist.chain \in Nat
      BY <3>2, WayFacts DEF Position
    <3>6. g.dist.chain < n + 1
      BY <3>2 DEF Opening
    <3> QED
      BY <3>3, <3>4, <3>5, <3>6
  <2>4. CASE Opens(receivers[h][q], f.ct)
    <3> DEFINE x == [from |-> q, n |-> n]
    <3>1. shown' = [shown EXCEPT ![h] = Append(@, x)]
      BY <1>1, <2>1, <2>2, <2>3, <2>4 DEF OnText, HasKey
    <3>2. shown \in [Member -> Seq([from : Member, n : Nat])] /\ x \in [from : Member, n : Nat]
      BY DEF OrderInv, KeyInv, Types
    <3> HIDE DEF x
    <3>3. shown'[h] = Append(shown[h], x) /\ shown[h] \in Seq([from : Member, n : Nat])
      BY <3>1, <3>2
    <3>4. \E i \in DOMAIN shown'[h] : shown'[h][i] = x
      <4>1. /\ Len(shown[h]) + 1 \in DOMAIN Append(shown[h], x)
            /\ Append(shown[h], x)[Len(shown[h]) + 1] = x
        BY <3>2, <3>3
      <4> QED
        BY <3>3, <4>1
    <3>5. Shows(h, q, n)'
      BY <3>4 DEF Shows, x
    <3> QED
      BY <3>5 DEF Accounted
  <2>5. CASE ~Opens(receivers[h][q], f.ct)
    <3>1. Unreachable(q, n)
      BY <1>0, <1>1, <2>1, <2>2, <2>3, <2>5, TextMissed
    <3> QED
      BY <3>1, PastStays DEF Accounted
  <2> QED
    BY <2>4, <2>5
<1> QED
  BY <1>2, <1>3, WayKept

\* A text that is written goes on its way, or the link refuses it.
LEMMA TextGoesOut ==
  ASSUME OrderInv, Losses, NEW q \in Member, Write(q), NEW h \in Member,
         NEW n, n = Len(written[q])
  PROVE  Accounted(h, q, n)'
<1> DEFINE f == Text(q, Ciphertext(sender[q]))
<1>0. Types /\ sender[q].chain = n /\ up \in [Member -> Seq(Frame)]
  BY DEF OrderInv, KeyInv, Counts, Types
<1>1. f \in Frame /\ f.type = "Text" /\ f.ct.key = n /\ Of(f, h, q)
  BY <1>0, OwnFrames DEF Text, Ciphertext, Of
<1>2. CASE up' = [up EXCEPT ![q] = Append(@, f)]
  <2> HIDE DEF f
  <2>1. up'[q] = Append(up[q], f) /\ up[q] \in Seq(Frame)
    BY <1>0, <1>2
  <2>2. f \in ToSet(up'[q])
    BY <1>1, <2>1, BeforeLast
  <2>3. f \in Way(h, q)'
    BY <1>1, <2>2 DEF Way
  <2>4. \E g \in Way(h, q)' : g.type = "Text" /\ g.ct.key = n
    BY <1>1, <2>3
  <2> QED
    BY <2>4 DEF Coming, Accounted
<1>3. CASE refused' = [refused EXCEPT ![q] = @ \cup {sender[q].chain}]
  <2>1. n \in refused'[q]
    BY <1>0, <1>3 DEF Losses
  <2> QED
    BY <2>1 DEF Accounted
<1> QED
  BY <1>2, <1>3 DEF Write

\* Whatever is done.
LEMMA KeptStep ==
  ASSUME OrderInv, Losses, Unsaturated, NEW m \in Member, Step(m), NEW h \in Member, NEW q \in Member,
         Opening(h, q), Kept(h, q)
  PROVE  Kept(h, q)'
<1> SUFFICES ASSUME Live(h, q)', h \in granted'[q]
             PROVE  /\ HasKey(h, q)' \/ \E f \in Way(h, q)' : f.type = "KeyFor"
                    /\ \A k : Meant(h, q, k)' => Accounted(h, q, k - 1)'
  BY DEF Kept
<1>1. CASE h \notin granted[q]
  BY <1>1, KeyGoesOut
<1>2. CASE h \in granted[q]
  <2>1. Live(h, q)
    BY <1>2, LiveBefore
  <2>2. ASSUME NEW k, Meant(h, q, k)'
        PROVE  Accounted(h, q, k - 1)'
    <3>0. written[q] \in Seq(SUBSET Member) /\ Len(written[q]) \in Nat
      BY DEF OrderInv, KeyInv, Types
    <3>1. CASE Write(m) /\ q = m /\ k = Len(written[q]) + 1
      <4>1. k - 1 = Len(written[q])
        BY <3>0, <3>1
      <4> QED
        BY <3>1, <4>1, TextGoesOut
    <3>2. CASE Meant(h, q, k)
      <4>1. k \in Nat \ {0}
        BY <3>0, <3>2 DEF Meant
      <4>2. PICK n \in Nat : n = k - 1 /\ k = n + 1
        BY <4>1
      <4>3. Accounted(h, q, n)
        BY <1>2, <2>1, <3>2, <4>2 DEF Kept
      <4>4. CASE Coming(h, q, n)
        BY <1>2, <3>2, <4>2, <4>4, TextComes
      <4>5. CASE ~Coming(h, q, n)
        BY <4>2, <4>3, <4>5, PastStays DEF Accounted
      <4> QED
        BY <4>4, <4>5
    <3> QED
      BY <2>2, <3>1, <3>2, MeantStays
  <2> QED
    BY <1>2, <2>2, KeyKept
<1> QED
  BY <1>1, <1>2

\* The losses are told by their numbers.
LEMMA LossesStep ==
  ASSUME OrderInv, Losses, NEW m \in Member, Step(m)
  PROVE  Losses'
<1>1. CASE Write(m)
  <2>1. sender[m].chain \in Nat
    BY DEF OrderInv, KeyInv, Types, Position
  <2> QED
    BY <1>1, <2>1 DEF Write, Losses
<1>2. CASE UNCHANGED refused
  BY <1>2 DEF Losses
<1> QED
  BY <1>1, <1>2
     DEF Step, Join, Client, OnRoster, OnKeyFor, OnText, Leave, Reader, Writer, Register,
         BroadcastRoster, RouteKey, RouteText, Enqueue, ReaderEnds, Forward, WriterEnds, clientVars

Arrive == Losses /\ \A m, q \in Member : Opening(m, q) /\ Kept(m, q)

\* Nothing is on its way at first.
LEMMA ArriveInit == Init => Arrive
<1> SUFFICES ASSUME Init PROVE Arrive
  OBVIOUS
<1>1. Losses
  BY DEF Init, Losses
<1>2. ASSUME NEW m \in Member, NEW q \in Member
      PROVE  Opening(m, q) /\ Kept(m, q)
  <2>1. ToSet(<<>>) = {} /\ DOMAIN <<>> = {}
    BY DEF ToSet
  <2>2. Way(m, q) = {} /\ ~HasKey(m, q) /\ shown[m] = <<>> /\ m \notin granted[q]
    BY <2>1 DEF Init, Way, Passed, HasKey
  <2> QED
    BY <2>1, <2>2 DEF Opening, Kept
<1> QED
  BY <1>1, <1>2 DEF Arrive

\* Whatever is done.
LEMMA ArriveStep ==
  ASSUME OrderInv, Arrive, Unsaturated, [Next]_vars
  PROVE  Arrive'
<1>1. CASE UNCHANGED vars
  <2> USE <1>1 DEF vars, clientVars, relayVars, linkVars
  <2>1. Losses'
    BY DEF Arrive, Losses
  <2>2. ASSUME NEW m \in Member, NEW q \in Member
        PROVE  Opening(m, q)' /\ Kept(m, q)'
    <3>1. Opening(m, q) /\ Kept(m, q)
      BY DEF Arrive
    <3>2. Way(m, q)' = Way(m, q)
      BY DEF Way, Passed
    <3>3. Opening(m, q)'
      BY <3>1, <3>2 DEF Opening, HasKey, Meant
    <3>4. \A n : Accounted(m, q, n)' <=> Accounted(m, q, n)
      BY <3>2 DEF Accounted, Coming, Shows, Unreachable
    <3>5. Kept(m, q)'
      BY <3>1, <3>2, <3>4 DEF Kept, HasKey, Meant, Live
    <3> QED
      BY <3>3, <3>5
  <2> QED
    BY <2>1, <2>2 DEF Arrive
<1>2. CASE Next
  <2>1. PICK m \in Member : Step(m)
    BY <1>2 DEF Next, Step
  <2>2. Losses'
    BY <2>1, LossesStep DEF Arrive
  <2>3. \A h, q \in Member : Opening(h, q)' /\ Kept(h, q)'
    BY <2>1, OpeningStep, KeptStep DEF Arrive
  <2> QED
    BY <2>2, <2>3 DEF Arrive
<1> QED
  BY <1>1, <1>2

\* What the invariant says of a text is what the property does.
LEMMA AllAccounted ==
  ASSUME OrderInv, Arrive
  PROVE  TextsAccounted
<1> SUFFICES ASSUME NEW q \in Member, NEW k \in DOMAIN written[q], NEW m \in written[q][k]
             PROVE  LET n == k - 1
                    IN \/ Shows(m, q, n) \/ OnItsWay(m, q, n)
                       \/ n \in refused[q] \/ "gone" \in {stage[q], stage[m]} \/ ~writer[m]
                       \/ Unreachable(q, n)
  BY DEF TextsAccounted
<1> DEFINE n == k - 1
<1>1. m \in granted[q] /\ m \in Member /\ Meant(m, q, k)
  BY DEF OrderInv, KeyInv, Types, MetInv, Grantees, Meant
<1>2. CASE ~Live(m, q)
  BY <1>2 DEF Live
<1>3. CASE Live(m, q)
  <2>1. Accounted(m, q, n)
    BY <1>1, <1>3 DEF Arrive, Kept
  <2> HIDE DEF n
  <2>2. ASSUME Coming(m, q, n)
        PROVE  OnItsWay(m, q, n)
    <3>1. PICK f \in Way(m, q) : f.type = "Text" /\ f.ct.key = n
      BY <2>2 DEF Coming
    <3>2. f.from = q
      BY <1>1, <3>1, WayFacts
    <3> QED
      BY <3>1, <3>2 DEF Way, Passed, OnItsWay
  <2>3. Shows(m, q, n) \/ OnItsWay(m, q, n) \/ n \in refused[q] \/ Unreachable(q, n)
    BY <2>1, <2>2 DEF Accounted
  <2> QED
    BY <2>3 DEF n
<1> QED
  BY <1>2, <1>3

\* A text is shown to everyone its author had sent the key to, or is on its way to
\* her, unless the author's link refused it, one of the two is gone, her writer has
\* ended or more were refused before it than a receiver skips: neither the relay nor
\* a client in the room loses one, whatever the length of the queues and links.  The
\* counter of the chain must not saturate (u32::MAX): then no more texts open.
THEOREM TextsArrive ==
  ASSUME MaxTexts <= LastIteration
  PROVE  Spec => []TextsAccounted
<1>1. Unsaturated
  BY DEF Unsaturated
<1>2. Init => OrderInv /\ Arrive
  BY ArriveInit, KeyInit, MetInit, OrderInit DEF OrderInv
<1>3. OrderInv /\ Arrive /\ [Next]_vars => (OrderInv /\ Arrive)'
  BY <1>1, OrderStep, ArriveStep
<1>4. OrderInv /\ Arrive => TextsAccounted
  BY AllAccounted
<1> QED
  BY <1>2, <1>3, <1>4, PTL DEF Spec
=============================================================================
