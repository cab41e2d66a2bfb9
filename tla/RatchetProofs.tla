--------------------------- MODULE RatchetProofs ---------------------------
(***************************************************************************)
(* Theorems about RatchetPair: for all values of the four limits, for any  *)
(* number of messages and any order, loss and repetition of them.          *)
(*                                                                         *)
(* The argument is one about lengths.  Every turn of the DH ratchet mixes  *)
(* two results into the root key, so the length of the root key of a chain *)
(* tells whose chain it is (its parity) and which of her key pairs it      *)
(* belongs to (half of it), and the step along the chain is the message    *)
(* number.  A receiver's chain key thereby divides all keys into those     *)
(* behind it and the rest; it only moves on, and what it passes is stored  *)
(* unless it is the key of the message being opened.  A key that has been  *)
(* used is behind the chain key and not in the store, and stays so.        *)
(* What opens, and which gaps are bridged, needs more: see the second part.*)
(***************************************************************************)
EXTENDS RatchetPair, SequenceTheorems, TLAPS

\* Alice's chains have root keys of odd length, Bob's of even length.
Parity(p) == IF p = Alice THEN 1 ELSE 0

\* What a receiver with chain key ck can no longer derive from it.
Behind(ck, key) ==
  /\ ck # NoKey
  /\ \/ Len(key.root) < Len(ck.root)
     \/ key.root = ck.root /\ key.step < ck.step

\* One end by itself: its counters agree with the length of its root key, its
\* store holds each key once, and only keys its chain has passed.
EndOK(p, r) ==
  /\ r.dhs[1] = p
  /\ Len(r.rk) = 2 * r.dhs[2] + Parity(p)
  /\ r.cks # NoKey => r.cks.root = r.rk /\ r.cks.step = r.ns
  /\ r.ckr # NoKey => r.dhr # NoKey /\ Len(r.ckr.root) = Len(r.rk) - 1
  /\ \A i \in DOMAIN r.skipped : Behind(r.ckr, r.skipped[i].key)
  /\ \A i, j \in DOMAIN r.skipped : i # j => r.skipped[i].key # r.skipped[j].key

\* A message m of p, whose ratchet is r: made under the key pair in its header,
\* at the step that is its number, and before what r would make next.
SentOK(p, r, m) ==
  /\ m.dh[1] = p /\ m.dh[2] <= r.dhs[2]
  /\ Len(m.key.root) = 2 * m.dh[2] + Parity(p)
  /\ m.key.step = m.n
  /\ m.dh[2] = r.dhs[2] => m.n < r.ns

\* r can never come by this key again.
SpentOK(r, key) ==
  /\ Behind(r.ckr, key)
  /\ \A i \in DOMAIN r.skipped : r.skipped[i].key # key

(***************************************************************************)
(* The inductive invariant.                                                *)
(***************************************************************************)
IInv ==
  /\ TypeOK
  /\ \A p \in Party : EndOK(p, end[p])
  /\ \A p \in Party : \A i \in DOMAIN sent[p] : SentOK(p, end[p], sent[p][i])
  /\ \A p \in Party : \A i, j \in DOMAIN sent[p] :
       i # j => sent[p][i].dh # sent[p][j].dh \/ sent[p][i].n # sent[p][j].n
  /\ \A p \in Party : \A i \in 1 .. MaxSent :
       opened[p][i] > 0 => /\ opened[p][i] = 1
                           /\ i \in DOMAIN sent[Peer(p)]
                           /\ SpentOK(end[p], sent[Peer(p)][i].key)

(***************************************************************************)
(* Operators.                                                              *)
(***************************************************************************)

\* Applying kdf_ck k times moves a chain key k steps along its chain.
LEMMA AheadFacts ==
  ASSUME NEW ck \in ChainKey, NEW k \in Nat
  PROVE  /\ Ahead(ck, k) \in ChainKey
         /\ Ahead(ck, k).root = ck.root
         /\ Ahead(ck, k).step = ck.step + k
  BY DEF Ahead, ChainKey

\* kdf_rk makes the root key one result longer; its chain starts at step 0.
LEMMA KdfFacts ==
  ASSUME NEW rk \in Seq(SUBSET KeyPair), NEW a \in KeyPair, NEW b \in KeyPair
  PROVE  /\ KdfRk(rk, a, b) \in Seq(SUBSET KeyPair)
         /\ Len(KdfRk(rk, a, b)) = Len(rk) + 1
         /\ Chain(KdfRk(rk, a, b)) \in ChainKey
         /\ Chain(KdfRk(rk, a, b)).root = KdfRk(rk, a, b)
         /\ Chain(KdfRk(rk, a, b)).step = 0
<1>1. {a, b} \in SUBSET KeyPair
  OBVIOUS
<1>2. Append(rk, {a, b}) \in Seq(SUBSET KeyPair) /\ Len(Append(rk, {a, b})) = Len(rk) + 1
  BY <1>1, AppendProperties
<1> QED
  BY <1>2 DEF KdfRk, Chain, ChainKey

\* A new key pair is its owner's next one.
LEMMA FreshFacts ==
  ASSUME NEW r \in Ratchet
  PROVE  /\ Fresh(r) \in KeyPair
         /\ Fresh(r)[1] = r.dhs[1] /\ Fresh(r)[2] = r.dhs[2] + 1
  BY DEF Fresh, Ratchet, KeyPair

\* What skip_forward still has to derive takes it exactly to its goal.
LEMMA GapFacts ==
  ASSUME NEW nr \in Nat, NEW until \in Nat
  PROVE  Gap(nr, until) \in Nat /\ (Gap(nr, until) > 0 => nr + Gap(nr, until) = until)
  BY DEF Gap

\* The keys skip_forward banks are consecutive steps of one chain.
LEMMA SkipFacts ==
  ASSUME NEW dh \in KeyPair, NEW ck \in ChainKey,
         NEW nr \in 0 .. ChainEnd, NEW until \in 0 .. ChainEnd
  PROVE  LET s == SkipForward(dh, ck, nr, until)
         IN /\ s \in Seq(Skipped)
            /\ Len(s) = Gap(nr, until)
            /\ \A i \in 1 .. Len(s) : /\ s[i].key.root = ck.root
                                      /\ s[i].key.step = ck.step + i - 1
<1> DEFINE s == SkipForward(dh, ck, nr, until)
           g == Gap(nr, until)
<1>0. ChainEnd \in Nat
  BY RatchetAssumption
<1>1. g \in Nat /\ (g > 0 => nr + g = until)
  BY <1>0, GapFacts
<1>2. ASSUME NEW i \in 1 .. g
      PROVE  /\ s[i] = [dh |-> dh, n |-> nr + i - 1, key |-> Ahead(ck, i - 1)]
             /\ s[i] \in Skipped
             /\ s[i].key.root = ck.root /\ s[i].key.step = ck.step + i - 1
  <2>1. s[i] = [dh |-> dh, n |-> nr + i - 1, key |-> Ahead(ck, i - 1)]
    BY <1>2 DEF SkipForward
  <2>2. nr + i - 1 \in 0 .. ChainEnd
    BY <1>0, <1>1, <1>2
  <2>3. i - 1 \in Nat /\ ck.step \in Nat
    BY <1>1, <1>2 DEF ChainKey
  <2>4. /\ Ahead(ck, i - 1) \in ChainKey /\ Ahead(ck, i - 1).root = ck.root
        /\ Ahead(ck, i - 1).step = ck.step + (i - 1)
    BY <2>3, AheadFacts
  <2> QED
    BY <2>1, <2>2, <2>3, <2>4 DEF Skipped
<1>3. s = [i \in 1 .. g |-> s[i]] /\ DOMAIN s = 1 .. g
  BY DEF SkipForward
<1>4. s \in Seq(Skipped) /\ Len(s) = g
  <2>1. s \in [1 .. g -> Skipped]
    BY <1>2, <1>3
  <2> QED
    BY <2>1, <1>1
<1> QED
  BY <1>2, <1>4

\* The store after an insertion is a suffix of the old store followed by the
\* new keys, at most MAX_SKIP_STORE long.
LEMMA BankPosition ==
  ASSUME NEW S, NEW store \in Seq(S), NEW keys \in Seq(S)
  PROVE  LET all == store \o keys  d == Gap(MaxSkipStore, Len(store) + Len(keys))
         IN /\ Bank(store, keys) \in Seq(S) /\ Len(Bank(store, keys)) <= MaxSkipStore
            /\ d \in Nat /\ Len(Bank(store, keys)) + d = Len(store) + Len(keys)
            /\ \A i \in DOMAIN Bank(store, keys) :
                 i \in Nat /\ i + d \in 1 .. Len(store) + Len(keys) /\ Bank(store, keys)[i] = all[i + d]
<1> DEFINE all == store \o keys
           d == Gap(MaxSkipStore, Len(store) + Len(keys))
           b == SubSeq(all, 1 + d, Len(all))
<1>1. all \in Seq(S) /\ Len(all) \in Nat /\ Len(all) = Len(store) + Len(keys)
  BY ConcatProperties, LenProperties
<1>2. d \in Nat /\ d <= Len(all) /\ Len(all) - d <= MaxSkipStore
  BY <1>1, RatchetAssumption DEF Gap
<1>3. Bank(store, keys) = b
  BY <1>1 DEF Bank
<1> HIDE DEF all, d
<1>4. b = [i \in 1 .. Len(all) - d |-> all[i + d]] /\ DOMAIN b = 1 .. Len(all) - d
  BY <1>1, <1>2
<1>5. ASSUME NEW i \in DOMAIN b
      PROVE  i \in Nat /\ i + d \in 1 .. Len(all) /\ b[i] = all[i + d] /\ all[i + d] \in S
  <2>1. i \in Nat /\ i + d \in 1 .. Len(all) /\ b[i] = all[i + d]
    BY <1>1, <1>2, <1>4
  <2> QED
    BY <2>1, <1>1, ElementOfSeq
<1>6. Len(b) = Len(all) - d /\ b \in Seq(S)
  <2> DEFINE n == Len(all) - d
  <2>1. n \in Nat
    BY <1>1, <1>2
  <2>2. b \in [1 .. n -> S]
    BY <1>4, <1>5
  <2> HIDE DEF n, b
  <2>3. b \in Seq(S) /\ Len(b) = n
    BY <2>1, <2>2
  <2> QED
    BY <2>3 DEF n
<1> HIDE DEF b
<1>7. Len(b) + d = Len(store) + Len(keys)
  BY <1>1, <1>2, <1>6
<1>8. Len(b) <= MaxSkipStore
  BY <1>2, <1>6
<1> QED
  BY <1>1, <1>2, <1>3, <1>5, <1>6, <1>7, <1>8 DEF all, d

\* Inserting keys into the store makes up none.
LEMMA BankRange ==
  ASSUME NEW S, NEW store \in Seq(S), NEW keys \in Seq(S), NEW i \in DOMAIN Bank(store, keys)
  PROVE  \/ \E j \in DOMAIN store : Bank(store, keys)[i] = store[j]
         \/ \E j \in DOMAIN keys : Bank(store, keys)[i] = keys[j]
<1> DEFINE all == store \o keys
           x == i + Gap(MaxSkipStore, Len(store) + Len(keys))
<1>1. x \in 1 .. Len(store) + Len(keys) /\ Bank(store, keys)[i] = all[x]
  BY BankPosition
<1>2. \A k \in 1 .. Len(store) + Len(keys) :
        all[k] = IF k <= Len(store) THEN store[k] ELSE keys[k - Len(store)]
  BY ConcatProperties
<1>3. /\ Len(store) \in Nat /\ DOMAIN store = 1 .. Len(store)
      /\ Len(keys) \in Nat /\ DOMAIN keys = 1 .. Len(keys)
  BY LenProperties
<1> HIDE DEF all, x
<1>4. CASE x <= Len(store)
  BY <1>1, <1>2, <1>3, <1>4
<1>5. CASE ~(x <= Len(store))
  <2>1. x - Len(store) \in DOMAIN keys /\ Bank(store, keys)[i] = keys[x - Len(store)]
    BY <1>1, <1>2, <1>3, <1>5
  <2> QED
    BY <2>1
<1> QED
  BY <1>4, <1>5

\* Concatenation makes up no element.
LEMMA ConcatRange ==
  ASSUME NEW S, NEW a \in Seq(S), NEW b \in Seq(S)
  PROVE  /\ a \o b \in Seq(S)
         /\ \A i \in DOMAIN (a \o b) : \/ \E j \in DOMAIN a : (a \o b)[i] = a[j]
                                       \/ \E j \in DOMAIN b : (a \o b)[i] = b[j]
<1>1. /\ a \o b \in Seq(S) /\ Len(a \o b) = Len(a) + Len(b)
      /\ \A i \in 1 .. Len(a) + Len(b) :
           (a \o b)[i] = IF i <= Len(a) THEN a[i] ELSE b[i - Len(a)]
  BY ConcatProperties
<1>2. /\ Len(a) \in Nat /\ DOMAIN a = 1 .. Len(a) /\ Len(b) \in Nat /\ DOMAIN b = 1 .. Len(b)
      /\ DOMAIN (a \o b) = 1 .. Len(a) + Len(b)
  BY <1>1, LenProperties
<1> DEFINE z == a \o b
<1> HIDE DEF z
<1>3. ASSUME NEW i \in DOMAIN z
      PROVE  \/ i \in DOMAIN a /\ z[i] = a[i]
             \/ i - Len(a) \in DOMAIN b /\ z[i] = b[i - Len(a)]
  <2>1. CASE i <= Len(a)
    BY <1>1, <1>2, <2>1 DEF z
  <2>2. CASE ~(i <= Len(a))
    BY <1>1, <1>2, <2>2 DEF z
  <2> QED
    BY <2>1, <2>2
<1> QED
  BY <1>1, <1>3 DEF z

\* Nor does inserting them in two lots.
LEMMA BankConcatRange ==
  ASSUME NEW S, NEW store \in Seq(S), NEW a \in Seq(S), NEW b \in Seq(S),
         NEW i \in DOMAIN Bank(store, a \o b)
  PROVE  \/ \E j \in DOMAIN store : Bank(store, a \o b)[i] = store[j]
         \/ \E j \in DOMAIN a : Bank(store, a \o b)[i] = a[j]
         \/ \E j \in DOMAIN b : Bank(store, a \o b)[i] = b[j]
<1> DEFINE z == a \o b
<1>1. /\ z \in Seq(S)
      /\ \A k \in DOMAIN z : (\E j \in DOMAIN a : z[k] = a[j]) \/ \E j \in DOMAIN b : z[k] = b[j]
  BY ConcatRange
<1>2. i \in DOMAIN Bank(store, z)
  OBVIOUS
<1> HIDE DEF z
<1>3. \/ \E j \in DOMAIN store : Bank(store, z)[i] = store[j]
      \/ \E j \in DOMAIN z : Bank(store, z)[i] = z[j]
  BY <1>1, <1>2, BankRange
<1>4. \/ \E j \in DOMAIN store : Bank(store, z)[i] = store[j]
      \/ \E j \in DOMAIN a : Bank(store, z)[i] = a[j]
      \/ \E j \in DOMAIN b : Bank(store, z)[i] = b[j]
  BY <1>1, <1>3
<1> QED
  BY <1>4 DEF z

\* Inserting keys the store does not hold leaves its keys distinct.
LEMMA BankDistinct ==
  ASSUME NEW store \in Seq(Skipped), NEW keys \in Seq(Skipped),
         \A i, j \in DOMAIN store : i # j => store[i].key # store[j].key,
         \A i, j \in DOMAIN keys : i # j => keys[i].key # keys[j].key,
         \A i \in DOMAIN store : \A j \in DOMAIN keys : store[i].key # keys[j].key,
         NEW i \in DOMAIN Bank(store, keys), NEW j \in DOMAIN Bank(store, keys), i # j
  PROVE  Bank(store, keys)[i].key # Bank(store, keys)[j].key
<1> DEFINE all == store \o keys
           d == Gap(MaxSkipStore, Len(store) + Len(keys))
           x == i + d
           y == j + d
<1>1. /\ d \in Nat /\ i \in Nat /\ j \in Nat
      /\ x \in 1 .. Len(store) + Len(keys) /\ Bank(store, keys)[i] = all[x]
      /\ y \in 1 .. Len(store) + Len(keys) /\ Bank(store, keys)[j] = all[y]
  <2>1. /\ d \in Nat
        /\ \A k \in DOMAIN Bank(store, keys) :
             k \in Nat /\ k + d \in 1 .. Len(store) + Len(keys) /\ Bank(store, keys)[k] = all[k + d]
    BY BankPosition
  <2> HIDE DEF all, d
  <2> QED
    BY <2>1
<1>2. \A k \in 1 .. Len(store) + Len(keys) :
        all[k] = IF k <= Len(store) THEN store[k] ELSE keys[k - Len(store)]
  BY ConcatProperties
<1>3. /\ Len(store) \in Nat /\ DOMAIN store = 1 .. Len(store)
      /\ Len(keys) \in Nat /\ DOMAIN keys = 1 .. Len(keys)
  BY LenProperties
<1> HIDE DEF all, d
<1>4. x # y
  BY <1>1
<1> HIDE DEF x, y
<1>5. ASSUME NEW z \in 1 .. Len(store) + Len(keys)
      PROVE  \/ z \in DOMAIN store /\ all[z] = store[z]
             \/ ~(z <= Len(store)) /\ z - Len(store) \in DOMAIN keys /\ all[z] = keys[z - Len(store)]
  BY <1>2, <1>3
<1>6. CASE x \in DOMAIN store /\ all[x] = store[x] /\ y \in DOMAIN store /\ all[y] = store[y]
  BY <1>1, <1>4, <1>6
<1>7. CASE /\ x - Len(store) \in DOMAIN keys /\ all[x] = keys[x - Len(store)]
           /\ y - Len(store) \in DOMAIN keys /\ all[y] = keys[y - Len(store)]
  <2>1. x - Len(store) # y - Len(store)
    BY <1>1, <1>3, <1>4
  <2> QED
    BY <2>1, <1>1, <1>7
<1> QED
  BY <1>1, <1>5, <1>6, <1>7

\* Removing an entry keeps the others, in order.
LEMMA RemoveFacts ==
  ASSUME NEW S, NEW s \in Seq(S), NEW i \in 1 .. Len(s)
  PROVE  /\ RemoveAt(s, i) \in Seq(S)
         /\ Len(RemoveAt(s, i)) = Len(s) - 1
         /\ \A k \in 1 .. Len(s) - 1 : RemoveAt(s, i)[k] = s[IF k < i THEN k ELSE k + 1]
<1> DEFINE a == SubSeq(s, 1, i - 1)
           b == SubSeq(s, i + 1, Len(s))
<1>0. Len(s) \in Nat /\ i \in Nat
  BY LenProperties
<1>1. /\ a \in Seq(S) /\ Len(a) = i - 1 /\ \A k \in 1 .. i - 1 : a[k] = s[k]
  <2>1. a = [k \in 1 .. i - 1 |-> s[k]]
    BY <1>0
  <2>2. \A k \in 1 .. i - 1 : s[k] \in S
    BY <1>0, ElementOfSeq
  <2> QED
    BY <2>1, <2>2, <1>0
<1>2. /\ b \in Seq(S) /\ Len(b) = Len(s) - i /\ \A k \in 1 .. Len(s) - i : b[k] = s[k + i]
  <2>1. b = [k \in 1 .. Len(s) - i |-> s[k + i]]
    BY <1>0
  <2>2. \A k \in 1 .. Len(s) - i : s[k + i] \in S
    BY <1>0, ElementOfSeq
  <2>3. Len(s) - i \in Nat
    BY <1>0
  <2> QED
    BY <2>1, <2>2, <2>3, <1>0
<1>3. RemoveAt(s, i) = a \o b
  BY DEF RemoveAt
<1> HIDE DEF a, b
<1>4. a \o b \in Seq(S) /\ Len(a \o b) = Len(s) - 1
  <2>1. a \o b \in Seq(S) /\ Len(a \o b) = Len(a) + Len(b)
    BY <1>1, <1>2, ConcatProperties
  <2> QED
    BY <2>1, <1>0, <1>1, <1>2
<1>5. ASSUME NEW k \in 1 .. Len(s) - 1
      PROVE  (a \o b)[k] = s[IF k < i THEN k ELSE k + 1]
  <2>1. (a \o b)[k] = IF k <= Len(a) THEN a[k] ELSE b[k - Len(a)]
    BY <1>0, <1>1, <1>2, <1>5
  <2>2. CASE k < i
    BY <2>1, <2>2, <1>0, <1>1
  <2>3. CASE ~(k < i)
    <3>1. k - Len(a) \in 1 .. Len(s) - i /\ k - Len(a) + i = k + 1
      BY <2>3, <1>0, <1>1
    <3> QED
      BY <2>1, <2>3, <3>1, <1>0, <1>1, <1>2
  <2> QED
    BY <2>2, <2>3
<1> QED
  BY <1>3, <1>4, <1>5

\* The chain a message is on: a new one of the next generation, or the current.
LEMMA WorkingFacts ==
  ASSUME NEW p \in Party, NEW r \in Ratchet, EndOK(p, r), NEW m \in Message,
         Turns(r, m) \/ r.ckr # NoKey
  PROVE  /\ Working(r, m).ck \in ChainKey /\ Working(r, m).nr \in 0 .. ChainEnd
         /\ Turns(r, m) => Len(Working(r, m).ck.root) = Len(r.rk) + 1
         /\ ~Turns(r, m) => Working(r, m).ck = r.ckr
<1>0. ChainEnd \in Nat
  BY RatchetAssumption
<1>1. CASE Turns(r, m)
  <2>1. Working(r, m) = [ck |-> Chain(KdfRk(r.rk, r.dhs, m.dh)), nr |-> 0]
    BY <1>1 DEF Working
  <2>2. r.rk \in Seq(SUBSET KeyPair) /\ r.dhs \in KeyPair /\ m.dh \in KeyPair
    BY DEF Ratchet, Message
  <2> QED
    BY <1>0, <1>1, <2>1, <2>2, KdfFacts
<1>2. CASE ~Turns(r, m)
  BY <1>2 DEF Working, Ratchet
<1> QED
  BY <1>1, <1>2

\* The key decrypt tries is Gap steps along the working chain, and the chain
\* key it commits one further.
LEMMA TargetFacts ==
  ASSUME NEW p \in Party, NEW r \in Ratchet, EndOK(p, r), NEW m \in Message,
         Turns(r, m) \/ r.ckr # NoKey
  PROVE  LET w == Working(r, m)  t == Target(r, m)
         IN /\ Gap(w.nr, m.n) \in Nat
            /\ t \in ChainKey /\ t.root = w.ck.root /\ t.step = w.ck.step + Gap(w.nr, m.n)
            /\ Ahead(t, 1) \in ChainKey /\ Ahead(t, 1).root = w.ck.root
            /\ Ahead(t, 1).step = t.step + 1
<1> DEFINE w == Working(r, m)
<1>1. w.ck \in ChainKey /\ w.nr \in Nat /\ m.n \in Nat
  BY WorkingFacts, RatchetAssumption DEF Message
<1>2. Gap(w.nr, m.n) \in Nat
  BY <1>1, GapFacts
<1>3. Target(r, m) = Ahead(w.ck, Gap(w.nr, m.n))
  BY DEF Target
<1> DEFINE g == Gap(w.nr, m.n)
           ck == w.ck
<1>4. ck \in ChainKey /\ g \in Nat /\ Target(r, m) = Ahead(ck, g)
  BY <1>1, <1>2, <1>3
<1> HIDE DEF w, g, ck
<1>5. /\ Target(r, m) \in ChainKey /\ Target(r, m).root = ck.root
      /\ Target(r, m).step = ck.step + g
  BY <1>4, AheadFacts
<1>6. /\ Target(r, m) \in ChainKey /\ Target(r, m).root = w.ck.root
      /\ Target(r, m).step = w.ck.step + Gap(w.nr, m.n)
  BY <1>5 DEF g, ck
<1>7. /\ Ahead(Target(r, m), 1) \in ChainKey
      /\ Ahead(Target(r, m), 1).root = Target(r, m).root
      /\ Ahead(Target(r, m), 1).step = Target(r, m).step + 1
  BY <1>6, AheadFacts
<1> QED
  BY <1>2, <1>6, <1>7 DEF w

\* The keys banked for the packet itself lie on the working chain.
LEMMA CaughtUpFacts ==
  ASSUME NEW p \in Party, NEW r \in Ratchet, EndOK(p, r), NEW m \in Message,
         Turns(r, m) \/ r.ckr # NoKey
  PROVE  LET w == Working(r, m)  c == CaughtUp(r, m)
         IN /\ c \in Seq(Skipped) /\ Len(c) = Gap(w.nr, m.n)
            /\ \A i \in 1 .. Len(c) : /\ c[i].key.root = w.ck.root
                                      /\ c[i].key.step = w.ck.step + i - 1
<1> DEFINE ck == Working(r, m).ck
           nr == Working(r, m).nr
           dh == m.dh
           n == m.n
           c == CaughtUp(r, m)
<1>1. ck \in ChainKey /\ nr \in 0 .. ChainEnd
  BY WorkingFacts
<1>2. dh \in KeyPair /\ n \in 0 .. ChainEnd
  BY DEF Message
<1>3. c = SkipForward(dh, ck, nr, n)
  BY Zenon DEF CaughtUp
<1> HIDE DEF ck, nr, dh, n, c
<1>4. /\ c \in Seq(Skipped) /\ Len(c) = Gap(nr, n)
      /\ \A i \in 1 .. Len(c) : /\ c[i].key.root = ck.root
                                /\ c[i].key.step = ck.step + i - 1
  <2>1. LET b == SkipForward(dh, ck, nr, n)
        IN /\ b \in Seq(Skipped) /\ Len(b) = Gap(nr, n)
           /\ \A i \in 1 .. Len(b) : /\ b[i].key.root = ck.root
                                     /\ b[i].key.step = ck.step + i - 1
    BY <1>1, <1>2, SkipFacts
  <2> QED
    BY <1>3, <2>1, Zenon
<1> QED
  BY <1>4, Zenon DEF ck, nr, n, c

\* The keys flushed at a turn lie on the chain that ends.
LEMMA FlushedFacts ==
  ASSUME NEW p \in Party, NEW r \in Ratchet, EndOK(p, r), NEW m \in Message
  PROVE  LET f == Flushed(r, m)
         IN /\ f \in Seq(Skipped)
            /\ \A i \in 1 .. Len(f) : /\ Turns(r, m) /\ r.ckr # NoKey
                                      /\ f[i].key.root = r.ckr.root
                                      /\ f[i].key.step = r.ckr.step + i - 1
<1> DEFINE f == Flushed(r, m)
<1>1. CASE Turns(r, m) /\ r.ckr # NoKey
  <2> DEFINE dh == r.dhr
             ck == r.ckr
             nr == r.nr
             pn == m.pn
  <2>1. dh \in KeyPair /\ ck \in ChainKey /\ nr \in 0 .. ChainEnd /\ pn \in 0 .. ChainEnd
    BY <1>1 DEF EndOK, Ratchet, Message
  <2>2. f = SkipForward(dh, ck, nr, pn)
    BY <1>1 DEF Flushed
  <2> HIDE DEF dh, ck, nr, pn, f
  <2>3. /\ f \in Seq(Skipped)
        /\ \A i \in 1 .. Len(f) : /\ f[i].key.root = ck.root
                                  /\ f[i].key.step = ck.step + i - 1
    <3>1. LET b == SkipForward(dh, ck, nr, pn)
          IN /\ b \in Seq(Skipped) /\ Len(b) = Gap(nr, pn)
             /\ \A i \in 1 .. Len(b) : /\ b[i].key.root = ck.root
                                       /\ b[i].key.step = ck.step + i - 1
      BY <2>1, SkipFacts, Zenon
    <3> QED
      BY <2>2, <3>1, Zenon
  <2> QED
    BY <1>1, <2>3, Zenon DEF ck, f
<1>2. CASE ~(Turns(r, m) /\ r.ckr # NoKey)
  BY <1>2 DEF Flushed
<1> QED
  BY <1>1, <1>2

(***************************************************************************)
(* The keys one packet makes an end derive and store are ahead of all it   *)
(* had left behind, behind the chain key it ends up with, and distinct.    *)
(***************************************************************************)
LEMMA NewKeys ==
  ASSUME NEW p \in Party, NEW r \in Ratchet, EndOK(p, r), NEW m \in Message,
         Turns(r, m) \/ r.ckr # NoKey
  PROVE  LET new == Flushed(r, m) \o CaughtUp(r, m)
             next == Ahead(Target(r, m), 1)
         IN /\ new \in Seq(Skipped)
            /\ \A i \in 1 .. Len(new) : /\ ~Behind(r.ckr, new[i].key)
                                        /\ Behind(next, new[i].key)
                                        /\ new[i].key # Target(r, m)
            /\ \A i, j \in 1 .. Len(new) : i # j => new[i].key # new[j].key
<1> DEFINE w == Working(r, m)
           f == Flushed(r, m)
           c == CaughtUp(r, m)
           new == f \o c
           t == Target(r, m)
           next == Ahead(t, 1)
<1>0. ChainEnd \in Nat
  BY RatchetAssumption
<1>1. /\ w.ck \in ChainKey /\ w.nr \in 0 .. ChainEnd
      /\ Turns(r, m) => Len(w.ck.root) = Len(r.rk) + 1
      /\ ~Turns(r, m) => w.ck = r.ckr
  BY WorkingFacts
<1>2. /\ c \in Seq(Skipped) /\ Len(c) = Gap(w.nr, m.n)
      /\ \A i \in 1 .. Len(c) : c[i].key.root = w.ck.root /\ c[i].key.step = w.ck.step + i - 1
  BY CaughtUpFacts
<1>3. /\ f \in Seq(Skipped)
      /\ \A i \in 1 .. Len(f) : /\ Turns(r, m) /\ r.ckr # NoKey
                                /\ f[i].key.root = r.ckr.root
                                /\ f[i].key.step = r.ckr.step + i - 1
  BY FlushedFacts
<1>4. /\ t \in ChainKey /\ t.root = w.ck.root /\ t.step = w.ck.step + Gap(w.nr, m.n)
      /\ next.root = w.ck.root /\ next.step = t.step + 1 /\ next \in ChainKey
      /\ Gap(w.nr, m.n) \in Nat
  BY TargetFacts
<1> HIDE DEF f, c
<1>5. /\ new \in Seq(Skipped) /\ Len(new) = Len(f) + Len(c) /\ Len(f) \in Nat /\ Len(c) \in Nat
      /\ \A i \in 1 .. Len(new) : new[i] = IF i <= Len(f) THEN f[i] ELSE c[i - Len(f)]
  <2>1. f \in Seq(Skipped) /\ c \in Seq(Skipped)
    BY <1>2, <1>3
  <2>2. Len(f) \in Nat /\ Len(c) \in Nat
    BY <2>1, LenProperties
  <2>3. new \in Seq(Skipped) /\ Len(new) = Len(f) + Len(c)
    BY <2>1, ConcatProperties
  <2>4. \A i \in 1 .. Len(f) + Len(c) : new[i] = IF i <= Len(f) THEN f[i] ELSE c[i - Len(f)]
    BY <2>1, ConcatProperties
  <2> QED
    BY <2>2, <2>3, <2>4
<1>6. /\ Len(r.rk) \in Nat
      /\ r.ckr # NoKey => /\ r.ckr.step \in Nat /\ Len(r.ckr.root) \in Nat
                          /\ Len(r.ckr.root) = Len(r.rk) - 1
  BY DEF EndOK, Ratchet, ChainKey
<1>7. w.ck.step \in Nat /\ Len(w.ck.root) \in Nat
  BY <1>1 DEF ChainKey
<1>8. next # NoKey
  BY <1>4, PairAssumption
<1> HIDE DEF w, f, c, new, t, next
\* A turn's chain has a longer root key than the chain it ends.
<1>12. Turns(r, m) /\ r.ckr # NoKey => Len(r.ckr.root) < Len(w.ck.root)
  <2>1. Turns(r, m) => Len(w.ck.root) = Len(r.rk) + 1
    BY <1>1
  <2> QED
    BY <2>1, <1>6
<1>13. Turns(r, m) /\ r.ckr # NoKey => r.ckr.root # w.ck.root
  BY <1>7, <1>12
<1>14. /\ t.root = w.ck.root /\ next.root = w.ck.root
       /\ t.step \in Nat /\ t.step = w.ck.step + Len(c) /\ next.step = t.step + 1
  BY <1>2, <1>4, <1>7
<1>15. Len(f) \in Nat /\ Len(c) \in Nat /\ Len(new) = Len(f) + Len(c)
  BY <1>5
<1>9. ASSUME NEW i \in 1 .. Len(new)
      PROVE  \/ /\ i <= Len(f) /\ Turns(r, m) /\ r.ckr # NoKey
                /\ new[i].key.root = r.ckr.root /\ new[i].key.step = r.ckr.step + i - 1
             \/ /\ i > Len(f) /\ i - Len(f) \in 1 .. Len(c)
                /\ new[i].key.root = w.ck.root
                /\ new[i].key.step = w.ck.step + (i - Len(f)) - 1
  <2>1. CASE i <= Len(f)
    BY <1>3, <1>5, <2>1
  <2>2. CASE i > Len(f)
    <3> DEFINE k == i - Len(f)
    <3>1. k \in 1 .. Len(c) /\ new[i] = c[k]
      BY <1>5, <2>2
    <3> HIDE DEF k
    <3>2. new[i].key.root = w.ck.root /\ new[i].key.step = w.ck.step + k - 1
      BY <1>2, <3>1
    <3> QED
      BY <2>2, <3>1, <3>2 DEF k
  <2> QED
    BY <1>5, <2>1, <2>2
<1>10. ASSUME NEW i \in 1 .. Len(new)
       PROVE  ~Behind(r.ckr, new[i].key) /\ Behind(next, new[i].key) /\ new[i].key # t
  <2>1. CASE /\ i <= Len(f) /\ Turns(r, m) /\ r.ckr # NoKey
             /\ new[i].key.root = r.ckr.root /\ new[i].key.step = r.ckr.step + i - 1
    <3>1. Len(new[i].key.root) < Len(w.ck.root) /\ new[i].key.root # w.ck.root
      BY <1>12, <1>13, <2>1
    <3>2. new[i].key # t
      BY <3>1, <1>14
    <3>3. Behind(next, new[i].key)
      BY <1>8, <1>14, <3>1 DEF Behind
    <3>4. r.ckr.step \in Nat /\ Len(r.ckr.root) \in Nat /\ i \in Nat /\ i >= 1
      BY <1>6, <1>15, <2>1
    <3>5. ~(new[i].key.step < r.ckr.step)
      BY <2>1, <3>4
    <3>6. ~(Len(new[i].key.root) < Len(r.ckr.root))
      BY <2>1, <3>4
    <3>7. ~Behind(r.ckr, new[i].key)
      BY <3>5, <3>6 DEF Behind
    <3> QED
      BY <3>2, <3>3, <3>7
  <2>2. CASE /\ i > Len(f) /\ i - Len(f) \in 1 .. Len(c)
             /\ new[i].key.root = w.ck.root
             /\ new[i].key.step = w.ck.step + (i - Len(f)) - 1
    <3> DEFINE k == i - Len(f)
    <3>0. k \in 1 .. Len(c) /\ new[i].key.step = w.ck.step + k - 1
      BY <2>2
    <3> DEFINE z == w.ck.step
               x == new[i].key.step
               g == Len(c)
    <3>a. g \in Nat /\ z \in Nat /\ x = z + k - 1 /\ k \in 1 .. g
      BY <1>7, <1>15, <3>0
    <3>b. t.step = z + g /\ next.step = z + g + 1
      BY <1>14, <1>7, <1>15
    <3> HIDE DEF k, z, x, g
    <3>c. x < z + g /\ x < z + g + 1 /\ x >= z
      BY <3>a
    <3>1. new[i].key.step < t.step /\ new[i].key.step < next.step /\ new[i].key.step >= w.ck.step
      BY <3>b, <3>c DEF x, z
    <3>2. Behind(next, new[i].key)
      BY <1>8, <1>14, <2>2, <3>1 DEF Behind
    <3>3. ~Behind(r.ckr, new[i].key)
      <4>1. CASE Turns(r, m)
        <5>1. r.ckr # NoKey => ~(Len(w.ck.root) < Len(r.ckr.root))
          BY <4>1, <1>6, <1>7, <1>12
        <5>2. r.ckr # NoKey => w.ck.root # r.ckr.root
          BY <4>1, <1>13
        <5> QED
          BY <5>1, <5>2, <2>2 DEF Behind
      <4>2. CASE ~Turns(r, m)
        <5>0. w.ck = r.ckr
          BY <4>2, <1>1
        <5>1. ~(new[i].key.step < w.ck.step)
          BY <1>7, <3>0
        <5>2. ~(Len(new[i].key.root) < Len(w.ck.root))
          BY <2>2, <1>7
        <5> QED
          BY <5>0, <5>1, <5>2 DEF Behind
      <4> QED
        BY <4>1, <4>2
    <3>4. new[i].key # t
      BY <3>1, <1>14
    <3> QED
      BY <3>2, <3>3, <3>4
  <2> QED
    BY <1>9, <2>1, <2>2
<1>11. ASSUME NEW i \in 1 .. Len(new), NEW j \in 1 .. Len(new), i # j
       PROVE  new[i].key # new[j].key
  <2>1. CASE i <= Len(f) /\ j <= Len(f)
    <3>1. new[i].key.step = r.ckr.step + i - 1 /\ new[j].key.step = r.ckr.step + j - 1
          /\ r.ckr.step \in Nat
      BY <1>6, <1>9, <2>1
    <3>2. i \in Nat /\ j \in Nat
      OBVIOUS
    <3>3. new[i].key.step # new[j].key.step
      BY <3>1, <3>2, <1>11
    <3> QED
      BY <3>3
  <2>2. CASE i > Len(f) /\ j > Len(f)
    <3>1. /\ new[i].key.step = w.ck.step + (i - Len(f)) - 1
          /\ new[j].key.step = w.ck.step + (j - Len(f)) - 1
      BY <1>5, <1>9, <2>2
    <3> DEFINE k == i - Len(f)
               l == j - Len(f)
               z == w.ck.step
    <3>2. k \in Int /\ l \in Int /\ k # l /\ z \in Nat
      BY <1>7, <1>11, <1>15
    <3> HIDE DEF k, l, z
    <3>3. z + k - 1 # z + l - 1
      BY <3>2
    <3> QED
      BY <3>1, <3>3 DEF k, l, z
  <2>3. ASSUME NEW a \in 1 .. Len(new), NEW b \in 1 .. Len(new), a <= Len(f), b > Len(f)
        PROVE  new[a].key # new[b].key
    <3>1. /\ Turns(r, m) /\ r.ckr # NoKey /\ new[a].key.root = r.ckr.root
          /\ new[b].key.root = w.ck.root
      BY <1>5, <1>9, <2>3
    <3> QED
      BY <3>1, <1>13
  <2> QED
    BY <1>5, <2>1, <2>2, <2>3
<1>16. new \in Seq(Skipped)
  BY <1>5
<1> QED
  BY <1>10, <1>11, <1>16 DEF new, f, c, next, t

(***************************************************************************)
(* Opening a message.                                                      *)
(***************************************************************************)

\* Opening a message with a stored key (path 1 of decrypt) uses that key up
\* and brings back none.
LEMMA OpenedFromStore ==
  ASSUME NEW p \in Party, NEW r \in Ratchet, EndOK(p, r), Len(r.skipped) <= MaxSkipStore,
         NEW m \in Message, Opens(r, m), IsCached(r, m)
  PROVE  LET d == Decrypted(r, m)
         IN /\ d \in Ratchet /\ Len(d.skipped) <= MaxSkipStore /\ EndOK(p, d)
            /\ d.dhs = r.dhs /\ d.ns = r.ns /\ d.cks = r.cks
            /\ SpentOK(d, m.key) /\ ~SpentOK(r, m.key)
            /\ \A key \in ChainKey : SpentOK(r, key) => SpentOK(d, key)
            /\ d.ckr = r.ckr /\ d.dhr = r.dhr /\ d.nr = r.nr
            /\ \A k \in DOMAIN d.skipped : \E l \in DOMAIN r.skipped : d.skipped[k] = r.skipped[l]
<1> DEFINE i == Slot(r, m)
           s == r.skipped
           rest == RemoveAt(s, i)
           d == Decrypted(r, m)
<1>1. i \in DOMAIN s /\ s[i].key = m.key
  BY DEF Slot, Slots, IsCached, Opens
<1>2. s \in Seq(Skipped) /\ Len(s) \in Nat /\ DOMAIN s = 1 .. Len(s)
  BY LenProperties DEF Ratchet
<1>3. d = [r EXCEPT !.skipped = rest]
  BY DEF Decrypted
<1>4. /\ Behind(r.ckr, m.key)
      /\ \A k \in DOMAIN s : Behind(r.ckr, s[k].key)
      /\ \A k, l \in DOMAIN s : k # l => s[k].key # s[l].key
  BY <1>1 DEF EndOK
<1> HIDE DEF i, s
<1>5. /\ rest \in Seq(Skipped) /\ Len(rest) = Len(s) - 1 /\ DOMAIN rest = 1 .. Len(s) - 1
      /\ \A k \in 1 .. Len(s) - 1 : rest[k] = s[IF k < i THEN k ELSE k + 1]
  <2>1. i \in 1 .. Len(s) /\ s \in Seq(Skipped)
    BY <1>1, <1>2
  <2>2. /\ rest \in Seq(Skipped) /\ Len(rest) = Len(s) - 1
        /\ \A k \in 1 .. Len(s) - 1 : rest[k] = s[IF k < i THEN k ELSE k + 1]
    BY <2>1, RemoveFacts, Zenon
  <2> HIDE DEF rest
  <2> QED
    BY <2>2, LenProperties
<1> HIDE DEF rest
<1> DEFINE Old(k) == IF k < i THEN k ELSE k + 1
<1>13. ASSUME NEW k \in DOMAIN rest
       PROVE  /\ Old(k) \in DOMAIN s /\ Old(k) # i /\ rest[k] = s[Old(k)]
              /\ k \in Nat /\ i \in Nat
  <2> DEFINE n == Len(s)
  <2>1. k \in 1 .. n - 1 /\ n \in Nat /\ i \in 1 .. n
    BY <1>1, <1>2, <1>5
  <2>2. rest[k] = s[Old(k)]
    BY <1>5
  <2> HIDE DEF n
  <2>0. k \in Nat /\ 1 <= k /\ k <= n - 1 /\ i \in Nat /\ 1 <= i /\ i <= n
    BY <2>1
  <2>3. Old(k) \in 1 .. n /\ Old(k) # i /\ k \in Nat /\ i \in Nat
    <3>1. CASE k < i
      <4>1. Old(k) = k
        BY <3>1
      <4> HIDE DEF Old
      <4> QED
        BY <4>1, <3>1, <2>1, <2>0
    <3>2. CASE ~(k < i)
      <4>1. Old(k) = k + 1
        BY <3>2
      <4> HIDE DEF Old
      <4>2. k + 1 \in 1 .. n /\ k + 1 # i
        BY <3>2, <2>1, <2>0
      <4> QED
        BY <4>1, <4>2, <2>0
    <3> QED
      BY <3>1, <3>2
  <2> QED
    BY <1>2, <2>2, <2>3 DEF n
<1>14. ASSUME NEW k \in DOMAIN rest, NEW l \in DOMAIN rest, k # l
       PROVE  Old(k) # Old(l)
  <2>1. k \in Nat /\ l \in Nat /\ i \in Nat
    BY <1>13
  <2> QED
    BY <2>1, <1>14
<1> HIDE DEF Old
<1>6. \A k \in DOMAIN rest : /\ Behind(r.ckr, rest[k].key) /\ rest[k].key # m.key
                             /\ \E l \in DOMAIN s : rest[k] = s[l]
  BY <1>1, <1>4, <1>13
<1>7. \A k, l \in DOMAIN rest : k # l => rest[k].key # rest[l].key
  BY <1>4, <1>13, <1>14
<1>8. /\ d \in Ratchet /\ d.skipped = rest
      /\ d.dhs = r.dhs /\ d.dhr = r.dhr /\ d.rk = r.rk /\ d.cks = r.cks /\ d.ckr = r.ckr
      /\ d.ns = r.ns /\ d.nr = r.nr
  BY <1>3, <1>5 DEF Ratchet
<1> HIDE DEF d
<1>9. Len(d.skipped) <= MaxSkipStore
  BY <1>2, <1>5, <1>8, RatchetAssumption DEF s
<1>10. EndOK(p, d)
  BY <1>6, <1>7, <1>8 DEF EndOK
<1>11. SpentOK(d, m.key) /\ ~SpentOK(r, m.key)
  BY <1>1, <1>4, <1>6, <1>8 DEF SpentOK, s
<1>12. \A key \in ChainKey : SpentOK(r, key) => SpentOK(d, key)
  BY <1>6, <1>8 DEF SpentOK, s
<1>15. \A k \in DOMAIN d.skipped : \E l \in DOMAIN r.skipped : d.skipped[k] = r.skipped[l]
  BY <1>6, <1>8 DEF s
<1> QED
  BY <1>8, <1>9, <1>10, <1>11, <1>12, <1>15 DEF d

\* Opening a message along a chain, with or without a turn of the DH ratchet,
\* uses its key up and brings back none that was used before.
LEMMA OpenedByChain ==
  ASSUME NEW p \in Party, NEW r \in Ratchet, EndOK(p, r),
         NEW m \in Message, Opens(r, m), ~IsCached(r, m)
  PROVE  LET d == Decrypted(r, m)
         IN /\ d \in Ratchet /\ Len(d.skipped) <= MaxSkipStore /\ EndOK(p, d)
            /\ \/ d.dhs = r.dhs /\ d.ns = r.ns /\ d.cks = r.cks
               \/ d.dhs \in KeyPair /\ d.dhs[2] = r.dhs[2] + 1
            /\ SpentOK(d, m.key) /\ ~SpentOK(r, m.key) /\ ~Behind(r.ckr, m.key)
            /\ \A key \in ChainKey : SpentOK(r, key) => SpentOK(d, key)
<1> DEFINE w == Working(r, m)
           new == Flushed(r, m) \o CaughtUp(r, m)
           t == Target(r, m)
           next == Ahead(t, 1)
           s == r.skipped
           bank == Bank(s, new)
           d == Decrypted(r, m)
<1>0. Turns(r, m) \/ r.ckr # NoKey
  BY DEF Opens
<1>1. t = m.key
  BY DEF Opens
<1>2. /\ t \in ChainKey /\ t.root = w.ck.root /\ next \in ChainKey
      /\ next.root = w.ck.root /\ next.step = t.step + 1
      /\ t.step = w.ck.step + Gap(w.nr, m.n) /\ Gap(w.nr, m.n) \in Nat
  BY <1>0, TargetFacts
<1>3. /\ new \in Seq(Skipped)
      /\ \A i \in 1 .. Len(new) :
           ~Behind(r.ckr, new[i].key) /\ Behind(next, new[i].key) /\ new[i].key # t
      /\ \A i, j \in 1 .. Len(new) : i # j => new[i].key # new[j].key
  BY <1>0, NewKeys
<1>4. /\ w.ck \in ChainKey
      /\ Turns(r, m) => Len(w.ck.root) = Len(r.rk) + 1
      /\ ~Turns(r, m) => w.ck = r.ckr
  BY <1>0, WorkingFacts
<1>5. /\ s \in Seq(Skipped) /\ Len(s) \in Nat /\ DOMAIN s = 1 .. Len(s)
      /\ \A i \in DOMAIN s : Behind(r.ckr, s[i].key) /\ s[i].key \in ChainKey
      /\ \A i, j \in DOMAIN s : i # j => s[i].key # s[j].key
  <2>1. s \in Seq(Skipped)
    BY DEF Ratchet
  <2>2. Len(s) \in Nat /\ DOMAIN s = 1 .. Len(s) /\ \A i \in DOMAIN s : s[i] \in Skipped
    BY <2>1, LenProperties, ElementOfSeq
  <2> QED
    BY <2>1, <2>2 DEF EndOK, Skipped
<1>6. /\ Len(r.rk) \in Nat
      /\ r.ckr # NoKey => /\ r.ckr.step \in Nat /\ Len(r.ckr.root) \in Nat
                          /\ Len(r.ckr.root) = Len(r.rk) - 1
  BY DEF EndOK, Ratchet, ChainKey
<1>20. r.rk \in Seq(SUBSET KeyPair) /\ r.dhs \in KeyPair /\ m.dh \in KeyPair
  BY DEF Ratchet, Message
<1>21. m.dh # NoKey
  BY <1>20, PairAssumption
<1>22. r.dhs[2] \in Nat
  BY <1>20 DEF KeyPair
<1>23. r.dhs[1] = p /\ Len(r.rk) = 2 * r.dhs[2] + Parity(p)
  BY DEF EndOK
<1>7. /\ w.ck.step \in Nat /\ Len(w.ck.root) \in Nat /\ t.step \in Nat /\ next # NoKey
  BY <1>2, <1>4, PairAssumption DEF ChainKey
<1> HIDE DEF w, new, t, next, s
<1>24. /\ t.root = w.ck.root /\ next.root = w.ck.root
       /\ t.step \in Nat /\ next.step = t.step + 1 /\ w.ck.step <= t.step
  <2> DEFINE g == Gap(w.nr, m.n)
  <2>1. t.step = w.ck.step + g /\ g \in Nat
    BY <1>2
  <2> HIDE DEF g
  <2> QED
    BY <2>1, <1>2, <1>7
<1>25. /\ Turns(r, m) /\ r.ckr # NoKey => Len(r.ckr.root) < Len(w.ck.root)
       /\ ~Turns(r, m) => r.ckr = w.ck
  <2>1. /\ Turns(r, m) => Len(w.ck.root) = Len(r.rk) + 1
        /\ ~Turns(r, m) => r.ckr = w.ck
    BY <1>4
  <2> QED
    BY <2>1, <1>6

\* What was behind stays behind; the message that opened is left behind, and was not.
<1>8. \A key \in ChainKey : Behind(r.ckr, key) => Behind(next, key)
  <2> SUFFICES ASSUME NEW key \in ChainKey, Behind(r.ckr, key) PROVE Behind(next, key)
    OBVIOUS
  <2>1. key.step \in Nat /\ Len(key.root) \in Nat
    BY DEF ChainKey
  <2>2. r.ckr # NoKey /\ Len(r.ckr.root) \in Nat /\ Len(w.ck.root) \in Nat
    BY <1>6, <1>7 DEF Behind
  <2>3. CASE Turns(r, m)
    <3>1. Len(key.root) <= Len(r.ckr.root)
      BY <2>1, <2>2 DEF Behind
    <3>2. Len(key.root) < Len(w.ck.root)
      BY <2>1, <2>2, <2>3, <3>1, <1>25
    <3> QED
      BY <3>2, <1>7, <1>24 DEF Behind
  <2>4. CASE ~Turns(r, m)
    <3>1. r.ckr = w.ck /\ next.root = w.ck.root
      BY <2>4, <1>24, <1>25
    <3>2. w.ck.step < next.step /\ next.step \in Nat /\ w.ck.step \in Nat
      BY <1>7, <1>24
    <3>3. key.step < w.ck.step => key.step < next.step
      BY <2>1, <3>2
    <3> QED
      BY <3>1, <3>3, <1>7 DEF Behind
  <2> QED
    BY <2>3, <2>4
<1>9. Behind(next, t) /\ ~Behind(r.ckr, t)
  <2>1. Behind(next, t)
    BY <1>7, <1>24 DEF Behind
  <2>2. CASE Turns(r, m)
    <3>1. ASSUME r.ckr # NoKey
          PROVE  ~(Len(w.ck.root) < Len(r.ckr.root)) /\ w.ck.root # r.ckr.root
      BY <2>2, <3>1, <1>6, <1>7, <1>25
    <3> QED
      BY <2>1, <3>1, <1>24 DEF Behind
  <2>3. CASE ~Turns(r, m)
    <3>1. t.root = w.ck.root /\ r.ckr = w.ck
      BY <2>3, <1>24, <1>25
    <3>2. ~(Len(w.ck.root) < Len(w.ck.root)) /\ ~(t.step < w.ck.step)
      BY <1>7, <1>24
    <3> QED
      BY <2>1, <3>1, <3>2 DEF Behind
  <2> QED
    BY <2>2, <2>3

\* The store: keys it held before, or new ones.
<1>10. /\ bank \in Seq(Skipped) /\ Len(bank) <= MaxSkipStore
       /\ \A i \in DOMAIN bank : \/ \E j \in DOMAIN s : bank[i] = s[j]
                                \/ \E j \in DOMAIN new : bank[i] = new[j]
  <2>1. s \in Seq(Skipped) /\ new \in Seq(Skipped)
    BY <1>3, <1>5
  <2>2. bank \in Seq(Skipped) /\ Len(bank) <= MaxSkipStore
    BY <2>1, BankPosition
  <2>3. \A i \in DOMAIN bank : \/ \E j \in DOMAIN s : bank[i] = s[j]
                               \/ \E j \in DOMAIN new : bank[i] = new[j]
    BY <2>1, BankRange
  <2> QED
    BY <2>2, <2>3
<1>11. DOMAIN new = 1 .. Len(new)
  BY <1>3, LenProperties
<1>13. \A i, j \in DOMAIN bank : i # j => bank[i].key # bank[j].key
  <2>1. \A i \in DOMAIN s : \A j \in DOMAIN new : s[i].key # new[j].key
    BY <1>3, <1>5, <1>11
  <2>2. \A i, j \in DOMAIN new : i # j => new[i].key # new[j].key
    BY <1>3, <1>11
  <2> QED
    BY <1>3, <1>5, <2>1, <2>2, BankDistinct
<1> HIDE DEF bank
<1>12. \A i \in DOMAIN bank : Behind(next, bank[i].key) /\ bank[i].key # t
  BY <1>3, <1>5, <1>8, <1>9, <1>10, <1>11

\* The record.
<1>14. /\ d \in Ratchet /\ d.skipped = bank /\ d.ckr = next /\ d.dhr # NoKey
       /\ ~Turns(r, m) => d.dhs = r.dhs /\ d.rk = r.rk /\ d.cks = r.cks /\ d.ns = r.ns
       /\ Turns(r, m) =>
            /\ d.dhs \in KeyPair /\ d.dhs[1] = p /\ d.dhs[2] = r.dhs[2] + 1 /\ d.ns = 0
            /\ d.cks.root = d.rk /\ d.cks.step = 0 /\ Len(d.rk) = Len(r.rk) + 2
  <2>0. Succ(m.n) \in 0 .. ChainEnd /\ 0 \in 0 .. ChainEnd
    BY RatchetAssumption DEF Succ, Message
  <2>1. CASE Turns(r, m)
    <3> DEFINE rk1 == KdfRk(r.rk, r.dhs, m.dh)
               rk2 == KdfRk(rk1, Fresh(r), m.dh)
               u == [r EXCEPT !.dhs = Fresh(r), !.dhr = m.dh, !.rk = rk2, !.cks = Chain(rk2),
                              !.pn = r.ns, !.ns = 0]
    <3>1. Fresh(r) \in KeyPair /\ Fresh(r)[1] = p /\ Fresh(r)[2] = r.dhs[2] + 1
      BY <1>23, FreshFacts
    <3>2. rk1 \in Seq(SUBSET KeyPair) /\ Len(rk1) = Len(r.rk) + 1
      BY <1>20, KdfFacts
    <3> HIDE DEF rk1
    <3>3. /\ rk2 \in Seq(SUBSET KeyPair) /\ Len(rk2) = Len(rk1) + 1
          /\ Chain(rk2) \in ChainKey /\ Chain(rk2).root = rk2 /\ Chain(rk2).step = 0
      BY <1>20, <3>1, <3>2, KdfFacts
    <3>4. Turned(r, m) = u
      BY DEF Turned, rk1
    <3>5. d = [u EXCEPT !.ckr = next, !.nr = Succ(m.n), !.skipped = bank]
      BY <2>1, <3>4 DEF Decrypted, next, t, bank, s, new
    <3> HIDE DEF rk2
    <3>6. /\ u \in Ratchet /\ u.dhs = Fresh(r) /\ u.dhr = m.dh /\ u.rk = rk2
          /\ u.cks = Chain(rk2) /\ u.ns = 0
      BY <1>20, <2>0, <3>1, <3>3 DEF Ratchet
    <3> HIDE DEF u, d
    <3>7. /\ d \in Ratchet /\ d.skipped = bank /\ d.ckr = next /\ d.dhr = u.dhr
          /\ d.dhs = u.dhs /\ d.rk = u.rk /\ d.cks = u.cks /\ d.ns = u.ns
      BY <1>2, <1>10, <2>0, <3>5, <3>6 DEF Ratchet
    <3>8. Len(d.rk) = Len(r.rk) + 2
      <4>1. d.rk = rk2 /\ Len(rk2) = Len(rk1) + 1 /\ Len(rk1) = Len(r.rk) + 1
        BY <3>2, <3>3, <3>6, <3>7
      <4> QED
        BY <4>1, <1>6
    <3>9. d.dhr # NoKey
      BY <1>21, <3>6, <3>7
    <3> QED
      BY <2>1, <3>1, <3>3, <3>6, <3>7, <3>8, <3>9
  <2>2. CASE ~Turns(r, m)
    <3>1. d = [r EXCEPT !.ckr = next, !.nr = Succ(m.n), !.skipped = bank]
      BY <2>2 DEF Decrypted, next, t, bank, s, new
    <3>2. r.dhr # NoKey
      BY <1>0, <2>2 DEF EndOK
    <3> HIDE DEF d
    <3> QED
      BY <1>2, <1>10, <2>0, <2>2, <3>1, <3>2 DEF Ratchet
  <2> QED
    BY <2>1, <2>2
<1> HIDE DEF d
<1>15. Len(d.ckr.root) = Len(d.rk) - 1
  <2>0. d.ckr.root = w.ck.root
    BY <1>2, <1>14
  <2>1. CASE Turns(r, m)
    <3>1. Len(w.ck.root) = Len(r.rk) + 1 /\ Len(d.rk) = Len(r.rk) + 2
      BY <2>1, <1>4, <1>14
    <3> QED
      BY <2>0, <3>1, <1>6
  <2>2. CASE ~Turns(r, m)
    <3>1. w.ck = r.ckr /\ d.rk = r.rk /\ r.ckr # NoKey
      BY <2>2, <1>0, <1>4, <1>14
    <3> QED
      BY <2>0, <3>1, <1>6
  <2> QED
    BY <2>1, <2>2
<1>16. /\ d.dhs[1] = p /\ Len(d.rk) = 2 * d.dhs[2] + Parity(p)
       /\ d.cks # NoKey => d.cks.root = d.rk /\ d.cks.step = d.ns
  <2>1. CASE Turns(r, m)
    <3>1. Parity(p) \in Nat
      BY DEF Parity
    <3>2. /\ d.dhs[1] = p /\ d.dhs[2] = r.dhs[2] + 1 /\ Len(d.rk) = Len(r.rk) + 2
          /\ d.cks.root = d.rk /\ d.cks.step = d.ns
      BY <2>1, <1>14
    <3>3. Len(r.rk) = 2 * r.dhs[2] + Parity(p) /\ r.dhs[2] \in Nat
      BY <1>22, <1>23
    <3>4. Len(d.rk) = 2 * d.dhs[2] + Parity(p)
      BY <3>1, <3>2, <3>3
    <3> QED
      BY <3>2, <3>4
  <2>2. CASE ~Turns(r, m)
    BY <2>2, <1>14 DEF EndOK
  <2> QED
    BY <2>1, <2>2
<1>17. EndOK(p, d)
  BY <1>12, <1>13, <1>14, <1>15, <1>16 DEF EndOK
<1>18. SpentOK(d, m.key) /\ ~SpentOK(r, m.key) /\ ~Behind(r.ckr, m.key)
  BY <1>1, <1>9, <1>12, <1>14 DEF SpentOK
<1>19. ASSUME NEW key \in ChainKey, SpentOK(r, key)
       PROVE  SpentOK(d, key)
  <2>1. Behind(r.ckr, key) /\ Behind(next, key) /\ \A i \in DOMAIN s : s[i].key # key
    BY <1>8, <1>19 DEF SpentOK, s
  <2>2. \A i \in DOMAIN bank : bank[i].key # key
    BY <2>1, <1>3, <1>10, <1>11
  <2> QED
    BY <2>1, <2>2, <1>14 DEF SpentOK
<1> QED
  BY <1>10, <1>14, <1>17, <1>18, <1>19 DEF d

\* decrypt of a message that opens, on either path.
LEMMA OpeningFacts ==
  ASSUME NEW p \in Party, NEW r \in Ratchet, EndOK(p, r), Len(r.skipped) <= MaxSkipStore,
         NEW m \in Message, Opens(r, m)
  PROVE  LET d == Decrypted(r, m)
         IN /\ d \in Ratchet /\ Len(d.skipped) <= MaxSkipStore /\ EndOK(p, d)
            /\ \/ d.dhs = r.dhs /\ d.ns = r.ns /\ d.cks = r.cks
               \/ d.dhs \in KeyPair /\ d.dhs[2] = r.dhs[2] + 1
            /\ SpentOK(d, m.key) /\ ~SpentOK(r, m.key)
            /\ \A key \in ChainKey : SpentOK(r, key) => SpentOK(d, key)
<1>1. CASE IsCached(r, m)
  BY <1>1, OpenedFromStore
<1>2. CASE ~IsCached(r, m)
  BY <1>2, OpenedByChain
<1> QED
  BY <1>1, <1>2

(***************************************************************************)
(* Sealing a message.                                                      *)
(***************************************************************************)

\* encrypt takes the next key of the sending chain and leaves the receiving
\* side alone.
LEMMA SealingFacts ==
  ASSUME NEW p \in Party, NEW r \in Ratchet, EndOK(p, r), CanEncrypt(r)
  PROVE  LET e == Encrypted(r)  m == Sealed(r)
         IN /\ e \in Ratchet /\ EndOK(p, e) /\ e.dhs = r.dhs /\ e.ns = r.ns + 1
            /\ e.skipped = r.skipped /\ e.ckr = r.ckr
            /\ m \in Message /\ SentOK(p, e, m) /\ m.dh = r.dhs /\ m.n = r.ns
<1> DEFINE e == Encrypted(r)
           m == Sealed(r)
           up == Ahead(r.cks, 1)
<1>1. r.cks \in ChainKey /\ r.ns \in Nat /\ r.ns < ChainEnd /\ ChainEnd \in Nat
  BY RatchetAssumption DEF CanEncrypt, Ratchet
<1>2. up \in ChainKey /\ up.root = r.cks.root /\ up.step = r.cks.step + 1
  BY <1>1, AheadFacts
<1>3. Succ(r.ns) = r.ns + 1 /\ r.ns + 1 \in 0 .. ChainEnd
  BY <1>1 DEF Succ
<1>4. e = [r EXCEPT !.cks = up, !.ns = r.ns + 1]
  BY <1>3 DEF Encrypted
<1> HIDE DEF up, e
<1>5. /\ e \in Ratchet /\ e.cks = up /\ e.ns = r.ns + 1 /\ e.dhs = r.dhs /\ e.dhr = r.dhr
      /\ e.rk = r.rk /\ e.ckr = r.ckr /\ e.skipped = r.skipped
  BY <1>2, <1>3, <1>4 DEF Ratchet
<1>6. r.cks.root = r.rk /\ r.cks.step = r.ns
  BY <1>1, PairAssumption DEF EndOK
<1>7. EndOK(p, e)
  <2>1. e.cks.root = e.rk /\ e.cks.step = e.ns
    BY <1>2, <1>5, <1>6
  <2> QED
    BY <2>1, <1>5 DEF EndOK
<1>8. m \in Message /\ m.dh = r.dhs /\ m.n = r.ns /\ m.key = r.cks
  BY <1>1 DEF Sealed, Message, Ratchet
<1>9. SentOK(p, e, m)
  <2>1. r.dhs[2] \in Nat
    BY DEF Ratchet, KeyPair
  <2> QED
    BY <1>1, <1>5, <1>6, <1>8, <2>1 DEF SentOK, EndOK
<1> QED
  BY <1>5, <1>7, <1>8, <1>9 DEF e

(***************************************************************************)
(* The invariant.                                                          *)
(***************************************************************************)

\* There are two parties.
LEMMA PeerFacts ==
  ASSUME NEW p \in Party
  PROVE  Peer(p) \in Party /\ Peer(p) # p /\ Peer(Peer(p)) = p
  BY PairAssumption DEF Peer, Party

\* What init_alice and init_bob set up satisfies the invariant.
LEMMA InitInv == Init => IInv
<1> SUFFICES ASSUME Init PROVE IInv
  OBVIOUS
<1>0. /\ Alice \in Party /\ Bob \in Party /\ Alice # Bob /\ NoKey \notin KeyPair
      /\ 0 \in 0 .. ChainEnd /\ MaxSkipStore \in Nat
  BY PairAssumption, RatchetAssumption DEF Party
<1>1. <<Alice, 0>> \in KeyPair /\ <<Bob, 0>> \in KeyPair
  BY <1>0 DEF KeyPair
<1> DEFINE a == InitAlice(<<Alice, 0>>, <<Bob, 0>>)
           b == InitBob(<<Bob, 0>>)
<1>2. a \in Ratchet /\ EndOK(Alice, a) /\ Len(a.skipped) = 0
  <2> DEFINE rk == KdfRk(<<>>, <<Alice, 0>>, <<Bob, 0>>)
  <2>1. <<>> \in Seq(SUBSET KeyPair) /\ <<>> \in Seq(Skipped)
    OBVIOUS
  <2>2. /\ rk \in Seq(SUBSET KeyPair) /\ Len(rk) = 1 /\ Chain(rk) \in ChainKey
        /\ Chain(rk).root = rk /\ Chain(rk).step = 0
    <3> DEFINE z == <<>>
               ka == <<Alice, 0>>
               kb == <<Bob, 0>>
    <3>1. z \in Seq(SUBSET KeyPair) /\ Len(z) = 0 /\ ka \in KeyPair /\ kb \in KeyPair
      BY <1>1, <2>1
    <3>2. rk = KdfRk(z, ka, kb)
      OBVIOUS
    <3> HIDE DEF z, ka, kb
    <3>3. /\ KdfRk(z, ka, kb) \in Seq(SUBSET KeyPair) /\ Len(KdfRk(z, ka, kb)) = Len(z) + 1
          /\ Chain(KdfRk(z, ka, kb)) \in ChainKey
          /\ Chain(KdfRk(z, ka, kb)).root = KdfRk(z, ka, kb)
          /\ Chain(KdfRk(z, ka, kb)).step = 0
      BY <3>1, KdfFacts
    <3>4. Len(z) + 1 = 1
      BY <3>1
    <3> HIDE DEF rk
    <3> QED
      BY <3>2, <3>3, <3>4
  <2>3. a = [dhs |-> <<Alice, 0>>, dhr |-> <<Bob, 0>>, rk |-> rk, cks |-> Chain(rk),
             ckr |-> NoKey, ns |-> 0, nr |-> 0, pn |-> 0, skipped |-> <<>>]
    BY DEF InitAlice
  <2> HIDE DEF rk, a
  <2>4. a \in Ratchet
    BY <1>0, <1>1, <2>1, <2>2, <2>3 DEF Ratchet
  <2> QED
    BY <2>2, <2>3, <2>4 DEF EndOK, Parity
<1>3. b \in Ratchet /\ EndOK(Bob, b) /\ Len(b.skipped) = 0
  <2>1. <<>> \in Seq(SUBSET KeyPair) /\ <<>> \in Seq(Skipped)
    OBVIOUS
  <2>2. b \in Ratchet
    BY <1>0, <1>1, <2>1 DEF InitBob, Ratchet
  <2> QED
    BY <1>0, <2>2 DEF InitBob, EndOK, Parity
<1> HIDE DEF a, b
<1>4. \A p \in Party : end[p] = IF p = Alice THEN a ELSE b
  BY DEF Init, a, b
<1>5. \A p \in Party : end[p] \in Ratchet /\ EndOK(p, end[p]) /\ Len(end[p].skipped) = 0
  BY <1>0, <1>2, <1>3, <1>4 DEF Party
<1>6. end \in [Party -> Ratchet]
  BY <1>5 DEF Init
<1>7. /\ sent \in [Party -> Seq(Message)] /\ opened \in [Party -> [1 .. MaxSent -> Nat]]
      /\ \A p \in Party : DOMAIN sent[p] = {}
      /\ \A p \in Party : \A i \in 1 .. MaxSent : opened[p][i] = 0
  BY DEF Init
<1> QED
  BY <1>0, <1>5, <1>6, <1>7 DEF IInv, TypeOK

\* What the receiving side of q needs of the messages of its peer.
ReadOK(q, r, log, counts) ==
  \A i \in 1 .. MaxSent :
    counts[i] > 0 => counts[i] = 1 /\ i \in DOMAIN log /\ SpentOK(r, log[i].key)

\* encrypt preserves the invariant.
LEMMA EncryptInv ==
  ASSUME IInv, NEW p \in Party, Encrypt(p)
  PROVE  IInv'
<1> DEFINE r == end[p]
           e == Encrypted(r)
           m == Sealed(r)
<1>1. r \in Ratchet /\ EndOK(p, r) /\ CanEncrypt(r) /\ sent[p] \in Seq(Message)
      /\ Len(r.skipped) <= MaxSkipStore
  BY DEF IInv, TypeOK, Encrypt
<1>2. /\ e \in Ratchet /\ EndOK(p, e) /\ e.dhs = r.dhs /\ e.ns = r.ns + 1
      /\ e.skipped = r.skipped /\ e.ckr = r.ckr
      /\ m \in Message /\ SentOK(p, e, m) /\ m.dh = r.dhs /\ m.n = r.ns
  BY <1>1, SealingFacts
<1>3. /\ end' = [end EXCEPT ![p] = e] /\ sent' = [sent EXCEPT ![p] = Append(sent[p], m)]
      /\ opened' = opened
  BY DEF Encrypt
<1> HIDE DEF e, m
<1>4. /\ Len(sent[p]) \in Nat /\ DOMAIN sent[p] = 1 .. Len(sent[p])
      /\ Append(sent[p], m) \in Seq(Message)
      /\ DOMAIN Append(sent[p], m) = 1 .. Len(sent[p]) + 1
      /\ Append(sent[p], m)[Len(sent[p]) + 1] = m
      /\ \A i \in 1 .. Len(sent[p]) : Append(sent[p], m)[i] = sent[p][i]
  BY <1>1, <1>2, AppendProperties, LenProperties
<1>5. TypeOK'
  BY <1>1, <1>2, <1>3, <1>4 DEF IInv, TypeOK
<1>6. /\ end'[p] = e /\ sent'[p] = Append(sent[p], m)
      /\ \A q \in Party : q # p => end'[q] = end[q] /\ sent'[q] = sent[q]
  BY <1>3 DEF IInv, TypeOK
<1>7. \A q \in Party : EndOK(q, end'[q])
  BY <1>2, <1>6 DEF IInv
<1>8. \A i \in DOMAIN sent[p] : /\ SentOK(p, r, sent[p][i]) /\ SentOK(p, e, sent[p][i])
                                /\ sent[p][i].dh # m.dh \/ sent[p][i].n # m.n
  <2> SUFFICES ASSUME NEW i \in DOMAIN sent[p]
               PROVE  /\ SentOK(p, r, sent[p][i]) /\ SentOK(p, e, sent[p][i])
                      /\ sent[p][i].dh # m.dh \/ sent[p][i].n # m.n
    OBVIOUS
  <2>1. SentOK(p, r, sent[p][i])
    BY DEF IInv
  <2>2. sent[p][i] \in Message
    BY <1>1, <1>4, ElementOfSeq
  <2> DEFINE l == sent[p][i]
  <2> HIDE DEF r, l
  <2>3. l.n \in Nat
    BY <2>2, RatchetAssumption DEF Message, l
  <2>4. r.ns \in Nat
    BY <1>1, RatchetAssumption DEF Ratchet
  <2>5. SentOK(p, e, l)
    BY <1>2, <2>1, <2>3, <2>4 DEF SentOK, l
  <2>6. l.dh # m.dh \/ l.n # m.n
    BY <1>2, <2>1, <2>3, <2>4 DEF SentOK, l
  <2> QED
    BY <2>1, <2>5, <2>6 DEF l
<1>9. \A q \in Party : \A i \in DOMAIN sent'[q] : SentOK(q, end'[q], sent'[q][i])
  <2>1. \A i \in DOMAIN sent'[p] : SentOK(p, e, sent'[p][i])
    BY <1>2, <1>4, <1>6, <1>8
  <2>2. \A q \in Party : q # p => \A i \in DOMAIN sent'[q] : SentOK(q, end'[q], sent'[q][i])
    BY <1>6 DEF IInv
  <2> QED
    BY <1>6, <2>1, <2>2
<1>10. \A q \in Party : \A i, j \in DOMAIN sent'[q] :
         i # j => sent'[q][i].dh # sent'[q][j].dh \/ sent'[q][i].n # sent'[q][j].n
  <2>1. \A i, j \in DOMAIN sent[p] :
          i # j => sent[p][i].dh # sent[p][j].dh \/ sent[p][i].n # sent[p][j].n
    BY DEF IInv
  <2>2. \A i, j \in DOMAIN sent'[p] :
          i # j => sent'[p][i].dh # sent'[p][j].dh \/ sent'[p][i].n # sent'[p][j].n
    <3> DEFINE z == Len(sent[p]) + 1
    <3>1. /\ DOMAIN sent'[p] = DOMAIN sent[p] \cup {z}
          /\ sent'[p][z] = m
          /\ \A i \in DOMAIN sent[p] : sent'[p][i] = sent[p][i]
      BY <1>4, <1>6
    <3> HIDE DEF z
    <3>2. \A i \in DOMAIN sent[p] : sent[p][i].dh # m.dh \/ sent[p][i].n # m.n
      BY <1>8
    <3> QED
      BY <2>1, <3>1, <3>2
  <2>3. \A q \in Party : q # p => \A i, j \in DOMAIN sent'[q] :
          i # j => sent'[q][i].dh # sent'[q][j].dh \/ sent'[q][i].n # sent'[q][j].n
    BY <1>6 DEF IInv
  <2> QED
    BY <2>2, <2>3
<1>11. \A q \in Party : ReadOK(q, end'[q], sent'[Peer(q)], opened'[q])
  <2> SUFFICES ASSUME NEW q \in Party, NEW i \in 1 .. MaxSent, opened[q][i] > 0
               PROVE  /\ opened[q][i] = 1 /\ i \in DOMAIN sent'[Peer(q)]
                      /\ SpentOK(end'[q], sent'[Peer(q)][i].key)
    BY <1>3 DEF ReadOK
  <2>1. /\ opened[q][i] = 1 /\ i \in DOMAIN sent[Peer(q)]
        /\ SpentOK(end[q], sent[Peer(q)][i].key)
    BY DEF IInv
  <2>2. i \in DOMAIN sent'[Peer(q)] /\ sent'[Peer(q)][i] = sent[Peer(q)][i]
    <3>1. CASE Peer(q) = p
      BY <2>1, <3>1, <1>4, <1>6
    <3>2. CASE Peer(q) # p
      BY <2>1, <3>2, <1>6, PeerFacts
    <3> QED
      BY <3>1, <3>2
  <2>3. end'[q].ckr = end[q].ckr /\ end'[q].skipped = end[q].skipped
    BY <1>2, <1>6
  <2> QED
    BY <2>1, <2>2, <2>3 DEF SpentOK
<1> QED
  BY <1>5, <1>7, <1>9, <1>10, <1>11 DEF IInv, ReadOK

\* So does a step that changes nothing.
LEMMA StutterInv == ASSUME IInv, UNCHANGED vars PROVE IInv'
  BY DEF IInv, TypeOK, vars, EndOK, SentOK, SpentOK

\* Counting one more opening changes one entry, if it is one at all.
LEMMA CountFacts ==
  ASSUME NEW f \in [Party -> [1 .. MaxSent -> Nat]], NEW p \in Party, NEW i, NEW g,
         g = [f EXCEPT ![p][i] = @ + 1]
  PROVE  /\ g \in [Party -> [1 .. MaxSent -> Nat]]
         /\ \A q \in Party : q # p => g[q] = f[q]
         /\ \A k \in 1 .. MaxSent : k # i => g[p][k] = f[p][k]
         /\ i \in 1 .. MaxSent => g[p][i] = f[p][i] + 1
<1> DEFINE row == [f[p] EXCEPT ![i] = f[p][i] + 1]
<1>1. f[p] \in [1 .. MaxSent -> Nat]
  OBVIOUS
<1>2. /\ row \in [1 .. MaxSent -> Nat]
      /\ \A k \in 1 .. MaxSent : k # i => row[k] = f[p][k]
      /\ i \in 1 .. MaxSent => row[i] = f[p][i] + 1
  <2>1. CASE i \in 1 .. MaxSent
    <3>1. f[p][i] + 1 \in Nat
      BY <1>1, <2>1
    <3> QED
      BY <1>1, <2>1, <3>1
  <2>2. CASE i \notin 1 .. MaxSent
    <3>1. row = f[p]
      BY <1>1, <2>2
    <3> QED
      BY <1>1, <2>2, <3>1
  <2> QED
    BY <2>1, <2>2
<1>3. g = [f EXCEPT ![p] = row]
  OBVIOUS
<1> HIDE DEF row
<1> QED
  BY <1>2, <1>3

\* decrypt preserves the invariant, whichever message it is given.
LEMMA DecryptInv ==
  ASSUME IInv, NEW p \in Party, Decrypt(p)
  PROVE  IInv'
<1> DEFINE r == end[p]
           log == sent[Peer(p)]
<1>1. PICK i \in DOMAIN log :
        /\ end' = [end EXCEPT ![p] = Decrypted(@, log[i])]
        /\ opened' = IF Opens(r, log[i]) THEN [opened EXCEPT ![p][i] = @ + 1] ELSE opened
        /\ sent' = sent
  BY DEF Decrypt
<1> DEFINE m == log[i]
           d == Decrypted(r, m)
<1>2. /\ r \in Ratchet /\ EndOK(p, r) /\ Len(r.skipped) <= MaxSkipStore
      /\ end \in [Party -> Ratchet] /\ sent \in [Party -> Seq(Message)]
      /\ opened \in [Party -> [1 .. MaxSent -> Nat]]
  BY DEF IInv, TypeOK
<1>3. CASE ~Opens(r, m)
  <2>1. end' = end /\ opened' = opened
    BY <1>1, <1>2, <1>3 DEF Decrypted
  <2>2. UNCHANGED vars
    BY <1>1, <2>1 DEF vars
  <2> QED
    BY <2>2, StutterInv
<1>4. CASE Opens(r, m)
  <2>1. Peer(p) \in Party /\ m \in Message
    <3>1. Peer(p) \in Party
      BY PeerFacts
    <3>2. log \in Seq(Message)
      BY <1>2, <3>1
    <3> HIDE DEF log
    <3> QED
      BY <1>1, <3>1, <3>2, LenProperties, ElementOfSeq
  <2>2. /\ d \in Ratchet /\ Len(d.skipped) <= MaxSkipStore /\ EndOK(p, d)
        /\ \/ d.dhs = r.dhs /\ d.ns = r.ns /\ d.cks = r.cks
           \/ d.dhs \in KeyPair /\ d.dhs[2] = r.dhs[2] + 1
        /\ SpentOK(d, m.key) /\ ~SpentOK(r, m.key)
        /\ \A key \in ChainKey : SpentOK(r, key) => SpentOK(d, key)
    <3> HIDE DEF r, m
    <3> QED
      BY <1>2, <1>4, <2>1, OpeningFacts
  <2>3. end' = [end EXCEPT ![p] = d] /\ end'[p] = d /\ \A q \in Party : q # p => end'[q] = end[q]
    BY <1>1, <1>2
  <2> HIDE DEF d
  <2>4. opened' = [opened EXCEPT ![p][i] = @ + 1]
    BY <1>1, <1>4
  <2>5. /\ opened' \in [Party -> [1 .. MaxSent -> Nat]]
        /\ \A q \in Party : q # p => opened'[q] = opened[q]
        /\ \A k \in 1 .. MaxSent : k # i => opened'[p][k] = opened[p][k]
        /\ i \in 1 .. MaxSent => opened'[p][i] = opened[p][i] + 1
    <3> DEFINE f == opened
               g == opened'
    <3>1. f \in [Party -> [1 .. MaxSent -> Nat]] /\ g = [f EXCEPT ![p][i] = @ + 1]
      BY <1>2, <2>4
    <3> HIDE DEF f, g, log, r, m
    <3>2. /\ g \in [Party -> [1 .. MaxSent -> Nat]]
          /\ \A q \in Party : q # p => g[q] = f[q]
          /\ \A k \in 1 .. MaxSent : k # i => g[p][k] = f[p][k]
          /\ i \in 1 .. MaxSent => g[p][i] = f[p][i] + 1
      BY <3>1, CountFacts, Zenon
    <3> QED
      BY <3>2 DEF f, g
  <2>6. i \in 1 .. MaxSent => opened[p][i] = 0
    <3> SUFFICES ASSUME i \in 1 .. MaxSent PROVE opened[p][i] = 0
      OBVIOUS
    <3>1. opened[p] \in [1 .. MaxSent -> Nat] /\ opened[p][i] \in Nat
      BY <1>2
    <3>2. opened[p][i] > 0 => SpentOK(end[p], sent[Peer(p)][i].key)
      BY DEF IInv
    <3>3. ~(opened[p][i] > 0)
      BY <2>2, <3>2
    <3> QED
      BY <3>1, <3>3
  <2>7. i \in 1 .. MaxSent => opened'[p][i] = 1
    BY <2>5, <2>6
  <2>9. TypeOK'
    <3>2. end' \in [Party -> Ratchet]
      BY <1>2, <2>2, <2>3
    <3>3. \A q \in Party : Len(end'[q].skipped) <= MaxSkipStore
      BY <2>2, <2>3 DEF IInv, TypeOK
    <3> QED
      BY <1>1, <1>2, <2>5, <3>2, <3>3 DEF TypeOK
  <2>10. \A q \in Party : EndOK(q, end'[q])
    BY <2>2, <2>3 DEF IInv
  <2>11. \A q \in Party : \A k \in DOMAIN sent[q] : SentOK(q, end'[q], sent[q][k])
    <3>1. ASSUME NEW k \in DOMAIN sent[p]
          PROVE  SentOK(p, d, sent[p][k])
      <4>1. SentOK(p, r, sent[p][k])
        BY DEF IInv
      <4>2. sent[p][k].dh[2] \in Nat /\ r.dhs[2] \in Nat
        <5>1. sent[p] \in Seq(Message)
          BY <1>2
        <5>2. sent[p][k] \in Message
          BY <5>1, LenProperties, ElementOfSeq
        <5> QED
          BY <1>2, <5>2 DEF Message, Ratchet, KeyPair
      <4> HIDE DEF r
      <4>3. CASE d.dhs = r.dhs /\ d.ns = r.ns
        BY <4>1, <4>3 DEF SentOK
      <4>4. CASE d.dhs[2] = r.dhs[2] + 1
        BY <4>1, <4>2, <4>4 DEF SentOK
      <4> QED
        BY <2>2, <4>3, <4>4
    <3> QED
      BY <2>3, <3>1 DEF IInv
  <2>12. \A q \in Party : ReadOK(q, end'[q], sent[Peer(q)], opened'[q])
    <3>1. ReadOK(p, d, log, opened'[p])
      <4> SUFFICES ASSUME NEW k \in 1 .. MaxSent, opened'[p][k] > 0
                   PROVE  opened'[p][k] = 1 /\ k \in DOMAIN log /\ SpentOK(d, log[k].key)
        BY DEF ReadOK
      <4>1. CASE k = i
        BY <1>1, <2>2, <2>7, <4>1
      <4>2. CASE k # i
        <5>1. /\ opened'[p][k] = 1 /\ k \in DOMAIN log /\ SpentOK(r, log[k].key)
          BY <2>5, <4>2 DEF IInv
        <5>2. log[k].key \in ChainKey
          <6>1. log \in Seq(Message)
            BY <1>2, <2>1
          <6> HIDE DEF log
          <6>2. log[k] \in Message
            BY <5>1, <6>1, LenProperties, ElementOfSeq
          <6> QED
            BY <6>2 DEF Message
        <5> QED
          BY <2>2, <5>1, <5>2
      <4> QED
        BY <4>1, <4>2
    <3>2. \A q \in Party : q # p => ReadOK(q, end[q], sent[Peer(q)], opened[q])
      BY DEF IInv, ReadOK
    <3> QED
      BY <2>3, <2>5, <3>1, <3>2
  <2> QED
    BY <1>1, <2>9, <2>10, <2>11, <2>12 DEF IInv, ReadOK
<1> QED
  BY <1>3, <1>4

\* The inductive invariant holds in every behaviour.
THEOREM Invariance == Spec => []IInv
<1>1. IInv /\ [Next]_vars => IInv'
  <2> SUFFICES ASSUME IInv, [Next]_vars PROVE IInv'
    OBVIOUS
  <2>1. ASSUME NEW p \in Party, Encrypt(p) PROVE IInv'
    BY <2>1, EncryptInv
  <2>2. ASSUME NEW p \in Party, Decrypt(p) PROVE IInv'
    BY <2>2, DecryptInv
  <2>3. CASE UNCHANGED vars
    BY <2>3, StutterInv
  <2> QED
    BY <2>1, <2>2, <2>3 DEF Next
<1> QED
  BY InitInv, <1>1, PTL DEF Spec

\* The counters of every ratchet stay within their 32 bits, and its store
\* within MAX_SKIP_STORE, in every behaviour (TypeOK).
THEOREM TypeCorrect == Spec => []TypeOK
<1>1. IInv => TypeOK
  BY DEF IInv
<1> QED
  BY Invariance, <1>1, PTL

\* No message is opened twice, whatever the link loses, repeats and reorders
\* (OpenedAtMostOnce): decrypt detects every replay.
THEOREM AtMostOnce == Spec => []OpenedAtMostOnce
<1>1. IInv => OpenedAtMostOnce
  <2> SUFFICES ASSUME IInv, NEW p \in Party, NEW i \in 1 .. MaxSent
               PROVE  opened[p][i] <= 1
    BY DEF OpenedAtMostOnce
  <2>1. opened[p][i] \in Nat
    BY DEF IInv, TypeOK
  <2>2. opened[p][i] > 0 => opened[p][i] = 1
    BY DEF IInv
  <2> QED
    BY <2>1, <2>2
<1> QED
  BY Invariance, <1>1, PTL

\* No two messages of a session share a key or an address (NoReuse): encrypt
\* never returns to a position of a chain, and the two directions never meet.
THEOREM KeysUsedOnce == Spec => []NoReuse
<1>1. IInv => NoReuse
  <2> SUFFICES ASSUME IInv, NEW p \in Party, NEW q \in Party,
                      NEW i \in DOMAIN sent[p], NEW j \in DOMAIN sent[q]
               PROVE  LET m == sent[p][i]  l == sent[q][j]
                      IN m.key = l.key \/ (m.dh = l.dh /\ m.n = l.n) => p = q /\ i = j
    BY DEF NoReuse
  <2> DEFINE m == sent[p][i]
             l == sent[q][j]
  <2>1. SentOK(p, end[p], m) /\ SentOK(q, end[q], l)
    BY DEF IInv
  <2>2. m \in Message /\ l \in Message
    <3>1. sent[p] \in Seq(Message) /\ sent[q] \in Seq(Message)
      BY DEF IInv, TypeOK
    <3> QED
      BY <3>1, LenProperties, ElementOfSeq
  <2>3. m.dh \in KeyPair /\ l.dh \in KeyPair /\ m.dh[2] \in Nat /\ l.dh[2] \in Nat
    BY <2>2 DEF Message, KeyPair
  <2>4. p = q => i = j \/ m.dh # l.dh \/ m.n # l.n
    BY DEF IInv
  <2> HIDE DEF m, l
  <2>5. m.dh = l.dh => p = q
    BY <2>1 DEF SentOK
  <2>6. ASSUME m.key = l.key
        PROVE  m.dh = l.dh /\ m.n = l.n
    <3>1. 2 * m.dh[2] + Parity(p) = 2 * l.dh[2] + Parity(q) /\ m.n = l.n
      BY <2>1, <2>6 DEF SentOK
    <3>2. Parity(p) \in {0, 1} /\ Parity(q) \in {0, 1}
      BY DEF Parity
    <3>3. Parity(p) = Parity(q) /\ m.dh[2] = l.dh[2]
      BY <2>3, <3>1, <3>2
    <3>4. p = q
      BY <3>3, PairAssumption DEF Parity, Party
    <3>5. m.dh = <<m.dh[1], m.dh[2]>> /\ l.dh = <<l.dh[1], l.dh[2]>>
      BY <2>3 DEF KeyPair
    <3> QED
      BY <2>1, <3>1, <3>3, <3>4, <3>5 DEF SentOK
  <2> QED
    BY <2>4, <2>5, <2>6 DEF m, l
<1> QED
  BY Invariance, <1>1, PTL

\* Neither end keeps, or can derive, the key of a message it has opened or
\* sent (SpentKeysAreGone): what decrypt and encrypt leave behind is gone.
THEOREM ForwardSecrecy == Spec => []SpentKeysAreGone
<1>1. IInv => SpentKeysAreGone
  <2> SUFFICES ASSUME IInv, NEW p \in Party
               PROVE  /\ \A i \in DOMAIN sent[p] : ~Derivable(end[p].cks, sent[p][i].key)
                      /\ \A i \in Arrived(p) :
                           LET key == sent[Peer(p)][i].key
                           IN /\ ~Derivable(end[p].ckr, key)
                              /\ \A k \in DOMAIN end[p].skipped : end[p].skipped[k].key # key
    BY DEF SpentKeysAreGone
  <2>1. end[p] \in Ratchet /\ sent[p] \in Seq(Message) /\ Peer(p) \in Party
        /\ sent[Peer(p)] \in Seq(Message) /\ EndOK(p, end[p])
    BY PeerFacts DEF IInv, TypeOK
  <2>2. ASSUME NEW i \in DOMAIN sent[p]
        PROVE  ~Derivable(end[p].cks, sent[p][i].key)
    <3> DEFINE r == end[p]
               m == sent[p][i]
    <3>1. SentOK(p, r, m)
      BY DEF IInv
    <3>2. m \in Message
      BY <2>1, LenProperties, ElementOfSeq
    <3>3. /\ m.dh[2] \in Nat /\ r.dhs[2] \in Nat /\ m.n \in Nat /\ r.ns \in Nat
      <4>1. r \in Ratchet
        BY <2>1
      <4> HIDE DEF r, m
      <4>2. m.dh \in KeyPair /\ m.n \in 0 .. ChainEnd
        BY <3>2 DEF Message
      <4>3. r.dhs \in KeyPair /\ r.ns \in 0 .. ChainEnd
        BY <4>1 DEF Ratchet
      <4> QED
        BY <4>2, <4>3, RatchetAssumption DEF KeyPair
    <3>4. Parity(p) \in Nat
      BY DEF Parity
    <3> HIDE DEF r, m
    <3>5. ASSUME r.cks # NoKey, r.cks.root = m.key.root
          PROVE  ~(r.cks.step <= m.key.step)
      <4>1. Len(r.rk) = Len(m.key.root) /\ r.cks.step = r.ns
        BY <2>1, <3>5 DEF EndOK, r
      <4>2. m.dh[2] = r.dhs[2]
        <5>1. Len(r.rk) = 2 * r.dhs[2] + Parity(p)
          BY <2>1 DEF EndOK, r
        <5>2. Len(m.key.root) = 2 * m.dh[2] + Parity(p)
          BY <3>1 DEF SentOK
        <5> DEFINE a == m.dh[2]
                   b == r.dhs[2]
                   c == Parity(p)
        <5>3. 2 * b + c = 2 * a + c /\ a \in Nat /\ b \in Nat /\ c \in Nat
          BY <3>3, <3>4, <4>1, <5>1, <5>2
        <5> HIDE DEF a, b, c
        <5>4. a = b
          BY <5>3
        <5> QED
          BY <5>4 DEF a, b
      <4> QED
        BY <3>1, <3>3, <4>1, <4>2 DEF SentOK
    <3> QED
      BY <3>5 DEF Derivable, r, m
  <2>3. ASSUME NEW i \in Arrived(p)
        PROVE  LET key == sent[Peer(p)][i].key
               IN /\ ~Derivable(end[p].ckr, key)
                  /\ \A k \in DOMAIN end[p].skipped : end[p].skipped[k].key # key
    <3> DEFINE r == end[p]
               log == sent[Peer(p)]
               key == log[i].key
    <3>1. i \in DOMAIN log /\ SpentOK(r, key)
      BY DEF IInv, Arrived
    <3>2. log \in Seq(Message)
      BY <2>1
    <3>3. key \in ChainKey
      <4> HIDE DEF log
      <4>1. log[i] \in Message
        BY <3>1, <3>2, LenProperties, ElementOfSeq
      <4> QED
        BY <4>1 DEF Message
    <3>4. key.step \in Nat /\ Len(key.root) \in Nat
      BY <3>3 DEF ChainKey
    <3>5. r.ckr # NoKey => r.ckr.step \in Nat /\ Len(r.ckr.root) \in Nat
      <4>1. r \in Ratchet
        BY <2>1
      <4> HIDE DEF r
      <4>2. r.ckr # NoKey => r.ckr \in ChainKey
        BY <4>1 DEF Ratchet
      <4> QED
        BY <4>2 DEF ChainKey
    <3> HIDE DEF r, key
    <3>6. ~Derivable(r.ckr, key)
      BY <3>1, <3>4, <3>5 DEF SpentOK, Behind, Derivable
    <3> QED
      BY <3>1, <3>6 DEF SpentOK, r, key
  <2> QED
    BY <2>2, <2>3
<1> QED
  BY Invariance, <1>1, PTL

(***************************************************************************)
(* Addresses.  What a packet says of its place, the key pair in its header *)
(* and its number, fixes the length of the root key and the step of its    *)
(* key.  A store holds no two root keys of one length: a chain that a turn *)
(* opens is longer than all before it.  So a place names one key, and the  *)
(* store holds each key once.                                              *)
(***************************************************************************)

\* key lies where the address (dh, n) says.
OnChain(dh, n, key) == Len(key.root) = 2 * dh[2] + Parity(dh[1]) /\ key.step = n

\* The receiving chain and every stored key lie where their addresses say, and
\* stored keys with root keys of one length are on one chain.
AddressOK(r) ==
  /\ r.ckr # NoKey => OnChain(r.dhr, r.nr, r.ckr)
  /\ \A i \in DOMAIN r.skipped : OnChain(r.skipped[i].dh, r.skipped[i].n, r.skipped[i].key)
  /\ \A i, j \in DOMAIN r.skipped :
       Len(r.skipped[i].key.root) = Len(r.skipped[j].key.root)
         => r.skipped[i].key.root = r.skipped[j].key.root

AddressInv ==
  /\ \A p \in Party : AddressOK(end[p])
  /\ \A p \in Party : \A i \in DOMAIN sent[p] : sent[p][i].n < ChainEnd

\* skip_forward banks keys at the addresses that follow the chain's own.
LEMMA SkippedAddress ==
  ASSUME NEW dh \in KeyPair, NEW ck \in ChainKey,
         NEW nr \in 0 .. ChainEnd, NEW until \in 0 .. ChainEnd, OnChain(dh, nr, ck),
         NEW i \in DOMAIN SkipForward(dh, ck, nr, until)
  PROVE  LET x == SkipForward(dh, ck, nr, until)[i]
         IN OnChain(x.dh, x.n, x.key) /\ x.key.root = ck.root
<1> DEFINE g == Gap(nr, until)
           x == SkipForward(dh, ck, nr, until)[i]
<1>1. nr \in Nat /\ until \in Nat
  BY RatchetAssumption
<1>2. g \in Nat
  BY <1>1, GapFacts
<1>3. i \in 1 .. g /\ x = [dh |-> dh, n |-> nr + i - 1, key |-> Ahead(ck, i - 1)]
  BY DEF SkipForward
<1> HIDE DEF g, x
<1>4. i - 1 \in Nat /\ i \in Nat
  BY <1>2, <1>3
<1>5. Ahead(ck, i - 1).root = ck.root /\ Ahead(ck, i - 1).step = ck.step + (i - 1)
  BY <1>4, AheadFacts
<1>6. ck.step = nr /\ Len(ck.root) = 2 * dh[2] + Parity(dh[1])
  BY DEF OnChain
<1>7. nr + (i - 1) = nr + i - 1
  BY <1>1, <1>4
<1>8. x.dh = dh /\ x.n = nr + i - 1 /\ x.key = Ahead(ck, i - 1)
  BY <1>3
<1> QED
  BY <1>5, <1>6, <1>7, <1>8 DEF OnChain, x

\* What decrypt commits when it derives the key along a chain.
LEMMA ChainStep ==
  ASSUME NEW r \in Ratchet, NEW m \in Message, Opens(r, m), ~IsCached(r, m)
  PROVE  LET d == Decrypted(r, m)
         IN /\ d.ckr = Ahead(Target(r, m), 1) /\ d.nr = Succ(m.n) /\ d.dhr = m.dh
            /\ d.skipped = Bank(r.skipped, Flushed(r, m) \o CaughtUp(r, m))
<1> DEFINE u == IF Turns(r, m) THEN Turned(r, m) ELSE r
           ck == Ahead(Target(r, m), 1)
           new == Flushed(r, m) \o CaughtUp(r, m)
<1>1. Decrypted(r, m) = [u EXCEPT !.ckr = ck, !.nr = Succ(m.n), !.skipped = Bank(u.skipped, new)]
  BY DEF Decrypted
<1>2. u.skipped = r.skipped /\ u.dhr = m.dh
  BY DEF Turned, Turns, Ratchet
<1>3. DOMAIN u = DOMAIN r
  BY DEF Turned, Ratchet
<1>4. {"ckr", "nr", "skipped", "dhr"} \subseteq DOMAIN r
  BY DEF Ratchet
<1> HIDE DEF u, ck, new
<1> DEFINE d == Decrypted(r, m)
<1>5. d.ckr = ck /\ d.nr = Succ(m.n) /\ d.skipped = Bank(u.skipped, new) /\ d.dhr = u.dhr
  BY <1>1, <1>3, <1>4
<1> QED
  BY <1>2, <1>5 DEF ck, new

\* Opening a message leaves every key at its address.
LEMMA AddressOpened ==
  ASSUME NEW p \in Party, NEW r \in Ratchet, EndOK(p, r), Len(r.skipped) <= MaxSkipStore,
         AddressOK(r), NEW m \in Message, OnChain(m.dh, m.n, m.key), m.n < ChainEnd, Opens(r, m)
  PROVE  AddressOK(Decrypted(r, m))
<1> DEFINE d == Decrypted(r, m)
           s == r.skipped
<1>1. CASE IsCached(r, m)
  <2>1. /\ d.ckr = r.ckr /\ d.dhr = r.dhr /\ d.nr = r.nr
        /\ \A k \in DOMAIN d.skipped : \E l \in DOMAIN s : d.skipped[k] = s[l]
    BY <1>1, OpenedFromStore
  <2> HIDE DEF d, s
  <2>2. d.ckr # NoKey => OnChain(d.dhr, d.nr, d.ckr)
    BY <2>1 DEF AddressOK
  <2>3. /\ \A i \in DOMAIN s : OnChain(s[i].dh, s[i].n, s[i].key)
        /\ \A i, j \in DOMAIN s :
             Len(s[i].key.root) = Len(s[j].key.root) => s[i].key.root = s[j].key.root
    BY DEF AddressOK, s
  <2>4. \A i \in DOMAIN d.skipped : OnChain(d.skipped[i].dh, d.skipped[i].n, d.skipped[i].key)
    BY <2>1, <2>3
  <2>5. \A i, j \in DOMAIN d.skipped :
          Len(d.skipped[i].key.root) = Len(d.skipped[j].key.root)
            => d.skipped[i].key.root = d.skipped[j].key.root
    BY <2>1, <2>3
  <2> QED
    BY <2>2, <2>4, <2>5, Zenon DEF AddressOK, d
<1>2. CASE ~IsCached(r, m)
  <2> DEFINE w == Working(r, m)
             f == Flushed(r, m)
             c == CaughtUp(r, m)
             t == Target(r, m)
  <2>1. (Turns(r, m) \/ r.ckr # NoKey) /\ t = m.key
    BY <1>2 DEF Opens
  <2>2. /\ w.ck \in ChainKey /\ w.nr \in 0 .. ChainEnd
        /\ Turns(r, m) => Len(w.ck.root) = Len(r.rk) + 1
        /\ ~Turns(r, m) => w.ck = r.ckr
    BY <2>1, WorkingFacts
  <2>3. t.root = w.ck.root /\ Ahead(t, 1).root = t.root /\ Ahead(t, 1).step = t.step + 1
    BY <2>1, TargetFacts
  <2>4. f \in Seq(Skipped) /\ c \in Seq(Skipped) /\ s \in Seq(Skipped)
    BY <2>1, FlushedFacts, CaughtUpFacts DEF Ratchet
  <2>5. d.ckr = Ahead(t, 1) /\ d.nr = Succ(m.n) /\ d.dhr = m.dh /\ d.skipped = Bank(s, f \o c)
    BY <1>2, ChainStep
  <2>6. m.n \in Nat /\ Succ(m.n) = m.n + 1
    BY RatchetAssumption DEF Succ, Message
  <2>7. OnChain(d.dhr, d.nr, d.ckr)
    BY <2>1, <2>3, <2>5, <2>6 DEF OnChain
  <2>8. /\ Len(r.rk) \in Nat
        /\ r.ckr # NoKey => r.ckr \in ChainKey /\ r.dhr \in KeyPair
                            /\ Len(r.ckr.root) \in Nat /\ Len(r.ckr.root) = Len(r.rk) - 1
    BY DEF EndOK, Ratchet, ChainKey
  <2>9. \A i \in DOMAIN f : /\ Turns(r, m) /\ r.ckr # NoKey
                            /\ OnChain(f[i].dh, f[i].n, f[i].key) /\ f[i].key.root = r.ckr.root
    <3> SUFFICES ASSUME NEW i \in DOMAIN f
                 PROVE  /\ Turns(r, m) /\ r.ckr # NoKey
                        /\ OnChain(f[i].dh, f[i].n, f[i].key) /\ f[i].key.root = r.ckr.root
      OBVIOUS
    <3>1. Turns(r, m) /\ r.ckr # NoKey /\ f = SkipForward(r.dhr, r.ckr, r.nr, m.pn)
      BY DEF Flushed
    <3>2. /\ OnChain(r.dhr, r.nr, r.ckr) /\ r.dhr \in KeyPair /\ r.ckr \in ChainKey
          /\ r.nr \in 0 .. ChainEnd /\ m.pn \in 0 .. ChainEnd
      BY <2>8, <3>1 DEF AddressOK, Ratchet, Message
    <3> HIDE DEF f
    <3> QED
      BY <3>1, <3>2, SkippedAddress
  <2>10. \A i \in DOMAIN c : OnChain(c[i].dh, c[i].n, c[i].key) /\ c[i].key.root = w.ck.root
    <3> SUFFICES ASSUME NEW i \in DOMAIN c
                 PROVE  OnChain(c[i].dh, c[i].n, c[i].key) /\ c[i].key.root = w.ck.root
      OBVIOUS
    <3>1. c = SkipForward(m.dh, w.ck, w.nr, m.n) /\ m.dh \in KeyPair /\ m.n \in 0 .. ChainEnd
      BY DEF CaughtUp, Message
    <3>2. w.ck.step = w.nr
      <4>1. CASE Turns(r, m)
        BY <4>1 DEF Working, Chain
      <4>2. CASE ~Turns(r, m)
        BY <2>1, <4>2 DEF Working, AddressOK, OnChain
      <4> QED
        BY <4>1, <4>2
    <3>3. OnChain(m.dh, w.nr, w.ck)
      BY <2>1, <2>3, <3>2 DEF OnChain
    <3> HIDE DEF c, w
    <3> QED
      BY <2>2, <3>1, <3>3, SkippedAddress
  <2> DEFINE b == Bank(s, f \o c)
  <2>12. \A i \in DOMAIN b : \/ \E j \in DOMAIN s : b[i] = s[j]
                             \/ \E j \in DOMAIN f : b[i] = f[j]
                             \/ \E j \in DOMAIN c : b[i] = c[j]
    <3> HIDE DEF s, f, c
    <3> QED
      BY <2>4, BankConcatRange
  <2> HIDE DEF d, w, f, c, t, b
  <2>13. \A i \in DOMAIN b : OnChain(b[i].dh, b[i].n, b[i].key)
    BY <2>9, <2>10, <2>12 DEF AddressOK
  \* Which chain a key of the new store is on.
  <2>14. \A i \in DOMAIN b : \/ \E j \in DOMAIN s : b[i] = s[j]
                             \/ r.ckr # NoKey /\ b[i].key.root = r.ckr.root
                             \/ Turns(r, m) /\ b[i].key.root = w.ck.root
    BY <2>1, <2>2, <2>9, <2>10, <2>12
  <2>15. Turns(r, m) /\ r.ckr # NoKey => Len(r.ckr.root) < Len(w.ck.root)
    BY <2>2, <2>8
  <2>16. \A j \in DOMAIN s : /\ r.ckr # NoKey
                             /\ s[j].key.root = r.ckr.root \/ Len(s[j].key.root) < Len(r.ckr.root)
    BY DEF EndOK, Behind
  <2>17. \A j \in DOMAIN s : Len(s[j].key.root) \in Nat
    <3>1. \A j \in DOMAIN s : s[j] \in Skipped
      BY <2>4, LenProperties, ElementOfSeq
    <3> QED
      BY <3>1 DEF Skipped, ChainKey
  <2>20. Len(w.ck.root) \in Nat
    BY <2>2 DEF ChainKey
  <2>21. ASSUME Turns(r, m), NEW j \in DOMAIN b, Len(w.ck.root) = Len(b[j].key.root)
         PROVE  w.ck.root = b[j].key.root
    <3>1. CASE r.ckr # NoKey /\ b[j].key.root = r.ckr.root
      BY <2>8, <2>15, <2>20, <2>21, <3>1
    <3>2. CASE \E k \in DOMAIN s : b[j] = s[k]
      <4>1. PICK k \in DOMAIN s : b[j] = s[k]
        BY <3>2
      <4> DEFINE x == Len(s[k].key.root)
      <4>2. /\ x \in Nat /\ r.ckr # NoKey
            /\ x = Len(r.ckr.root) \/ x < Len(r.ckr.root)
        BY <2>16, <2>17
      <4>3. Len(w.ck.root) = x
        BY <2>21, <4>1
      <4> HIDE DEF x
      <4> QED
        BY <2>8, <2>15, <2>20, <2>21, <4>2, <4>3
    <3> QED
      BY <2>14, <3>1, <3>2
  <2>18. ASSUME NEW i \in DOMAIN b, NEW j \in DOMAIN b, Len(b[i].key.root) = Len(b[j].key.root)
         PROVE  b[i].key.root = b[j].key.root
    <3>1. CASE Turns(r, m) /\ b[i].key.root = w.ck.root
      BY <2>18, <2>21, <3>1
    <3>2. CASE Turns(r, m) /\ b[j].key.root = w.ck.root
      BY <2>18, <2>21, <3>2
    <3>3. CASE (\E k \in DOMAIN s : b[i] = s[k]) /\ (\E k \in DOMAIN s : b[j] = s[k])
      BY <2>18, <3>3 DEF AddressOK
    <3>4. CASE r.ckr # NoKey /\ b[i].key.root = r.ckr.root /\ \E k \in DOMAIN s : b[j] = s[k]
      BY <2>8, <2>16, <2>18, <3>4
    <3>5. CASE r.ckr # NoKey /\ b[j].key.root = r.ckr.root /\ \E k \in DOMAIN s : b[i] = s[k]
      BY <2>8, <2>16, <2>18, <3>5
    <3> QED
      BY <2>14, <3>1, <3>2, <3>3, <3>4, <3>5
  <2>19. d.skipped = b
    BY <2>5 DEF b
  <2> QED
    BY <2>7, <2>13, <2>18, <2>19, Zenon DEF AddressOK, d
<1> QED
  BY <1>1, <1>2

\* Places are unambiguous: a store whose keys are at their addresses and
\* distinct holds one key for each.
LEMMA AddressesDiffer ==
  ASSUME NEW p \in Party, NEW r \in Ratchet, EndOK(p, r), AddressOK(r),
         NEW i \in DOMAIN r.skipped, NEW j \in DOMAIN r.skipped,
         r.skipped[i].dh = r.skipped[j].dh, r.skipped[i].n = r.skipped[j].n
  PROVE  i = j
<1> DEFINE a == r.skipped[i]
           b == r.skipped[j]
<1>1. a \in Skipped /\ b \in Skipped
  <2>1. r.skipped \in Seq(Skipped)
    BY DEF Ratchet
  <2> QED
    BY <2>1, LenProperties, ElementOfSeq
<1>2. OnChain(a.dh, a.n, a.key) /\ OnChain(b.dh, b.n, b.key)
  BY DEF AddressOK
<1>3. Len(a.key.root) = Len(b.key.root) => a.key.root = b.key.root
  BY DEF AddressOK
<1>4. i # j => a.key # b.key
  BY DEF EndOK
<1>5. a.dh = b.dh /\ a.n = b.n
  OBVIOUS
<1> HIDE DEF a, b
<1>6. a.key.root = b.key.root /\ a.key.step = b.key.step
  BY <1>2, <1>3, <1>5 DEF OnChain
<1>7. a.key = b.key
  BY <1>1, <1>6 DEF Skipped, ChainKey
<1> QED
  BY <1>4, <1>7

\* encrypt gives no message the last number of a chain, and leaves the
\* receiving side alone.
LEMMA AddressEncrypt ==
  ASSUME IInv, AddressInv, NEW p \in Party, Encrypt(p)
  PROVE  AddressInv'
<1> DEFINE r == end[p]
           e == Encrypted(r)
           m == Sealed(r)
<1>1. /\ end \in [Party -> Ratchet] /\ sent \in [Party -> Seq(Message)] /\ r \in Ratchet
      /\ AddressOK(r) /\ CanEncrypt(r)
  BY DEF IInv, TypeOK, AddressInv, Encrypt
<1>2. e.skipped = r.skipped /\ e.ckr = r.ckr /\ e.dhr = r.dhr /\ e.nr = r.nr
  BY <1>1 DEF Encrypted, Ratchet
<1>3. m.n \in Nat /\ m.n < ChainEnd /\ m \in Message
  BY <1>1, RatchetAssumption DEF Sealed, CanEncrypt, Ratchet, Message
<1>4. /\ end'[p] = e /\ sent'[p] = Append(sent[p], m)
      /\ \A q \in Party : q # p => end'[q] = end[q] /\ sent'[q] = sent[q]
  BY <1>1 DEF Encrypt
<1> HIDE DEF e, m
<1>5. AddressOK(e)
  BY <1>1, <1>2 DEF AddressOK
<1> HIDE DEF r
<1>6. \A i \in DOMAIN sent'[p] : sent'[p][i].n < ChainEnd
  <2> DEFINE s == sent[p]
  <2>1. s \in Seq(Message)
    BY <1>1
  <2> HIDE DEF s
  <2>2. /\ Len(s) \in Nat /\ DOMAIN s = 1 .. Len(s)
        /\ DOMAIN Append(s, m) = 1 .. Len(s) + 1 /\ Append(s, m)[Len(s) + 1] = m
        /\ \A i \in 1 .. Len(s) : Append(s, m)[i] = s[i]
    BY <2>1, <1>3, AppendProperties, LenProperties
  <2>3. \A i \in DOMAIN s : s[i].n < ChainEnd
    BY DEF AddressInv, s
  <2>4. \A i \in DOMAIN Append(s, m) : i \in DOMAIN s \/ i = Len(s) + 1
    BY <2>2
  <2>5. \A i \in DOMAIN Append(s, m) : Append(s, m)[i].n < ChainEnd
    BY <1>3, <2>2, <2>3, <2>4
  <2> QED
    BY <1>4, <2>5 DEF s
<1>7. \A q \in Party : AddressOK(end'[q])
  BY <1>4, <1>5 DEF AddressInv
<1>8. \A q \in Party : \A i \in DOMAIN sent'[q] : sent'[q][i].n < ChainEnd
  BY <1>4, <1>6 DEF AddressInv
<1> QED
  BY <1>7, <1>8 DEF AddressInv

\* decrypt keeps every key at its address, whichever message it is given.
LEMMA AddressDecrypt ==
  ASSUME IInv, AddressInv, NEW p \in Party, Decrypt(p)
  PROVE  AddressInv'
<1> DEFINE r == end[p]
           log == sent[Peer(p)]
<1>1. PICK i \in DOMAIN log : end' = [end EXCEPT ![p] = Decrypted(@, log[i])] /\ sent' = sent
  BY DEF Decrypt
<1> DEFINE m == log[i]
           d == Decrypted(r, m)
<1>2. /\ end \in [Party -> Ratchet] /\ r \in Ratchet /\ EndOK(p, r) /\ AddressOK(r)
      /\ Len(r.skipped) <= MaxSkipStore /\ Peer(p) \in Party
  BY PeerFacts DEF IInv, TypeOK, AddressInv
<1>3. m \in Message
  <2>1. log \in Seq(Message)
    BY <1>2 DEF IInv, TypeOK
  <2> HIDE DEF log
  <2> QED
    BY <1>1, <2>1, LenProperties, ElementOfSeq
<1>4. SentOK(Peer(p), end[Peer(p)], m) /\ m.n < ChainEnd
  BY <1>1, <1>2 DEF IInv, AddressInv
<1> HIDE DEF m, r
<1>5. OnChain(m.dh, m.n, m.key)
  BY <1>4 DEF SentOK, OnChain
<1>6. AddressOK(d)
  <2>1. CASE Opens(r, m)
    BY <1>2, <1>3, <1>4, <1>5, <2>1, AddressOpened
  <2>2. CASE ~Opens(r, m)
    BY <1>2, <2>2 DEF Decrypted
  <2> QED
    BY <2>1, <2>2
<1>7. end'[p] = d /\ \A q \in Party : q # p => end'[q] = end[q]
  BY <1>1, <1>2 DEF r, m
<1> HIDE DEF d
<1>8. \A q \in Party : AddressOK(end'[q])
  BY <1>6, <1>7 DEF AddressInv
<1> QED
  BY <1>1, <1>8 DEF AddressInv

\* Every key is at its address in every behaviour.
THEOREM AddressInvariance == Spec => []AddressInv
<1>1. Init => AddressInv
  <2> SUFFICES ASSUME Init PROVE AddressInv
    OBVIOUS
  <2>1. \A p \in Party : end[p].ckr = NoKey /\ end[p].skipped = <<>>
    BY DEF Init, InitAlice, InitBob
  <2>2. \A p \in Party : sent[p] = <<>>
    BY DEF Init
  <2> QED
    BY <2>1, <2>2 DEF AddressInv, AddressOK
<1>2. IInv /\ AddressInv /\ [Next]_vars => AddressInv'
  <2> SUFFICES ASSUME IInv, AddressInv, [Next]_vars PROVE AddressInv'
    OBVIOUS
  <2>1. ASSUME NEW p \in Party, Encrypt(p) PROVE AddressInv'
    BY <2>1, AddressEncrypt
  <2>2. ASSUME NEW p \in Party, Decrypt(p) PROVE AddressInv'
    BY <2>2, AddressDecrypt
  <2>3. CASE UNCHANGED vars
    BY <2>3 DEF AddressInv, vars
  <2> QED
    BY <2>1, <2>2, <2>3 DEF Next
<1> QED
  BY Invariance, <1>1, <1>2, PTL DEF Spec

\* The store never holds two keys for one place (NoAddressTwice), so an
\* insertion of SkippedKeys never replaces a key and a look-up has one answer.
THEOREM AddressesOnce == Spec => []NoAddressTwice
<1>1. IInv /\ AddressInv => NoAddressTwice
  <2> SUFFICES ASSUME IInv, AddressInv, NEW p \in Party,
                      NEW i \in DOMAIN end[p].skipped, NEW j \in DOMAIN end[p].skipped,
                      end[p].skipped[i].dh = end[p].skipped[j].dh,
                      end[p].skipped[i].n = end[p].skipped[j].n
               PROVE  i = j
    BY DEF NoAddressTwice
  <2>1. end[p] \in Ratchet /\ EndOK(p, end[p]) /\ AddressOK(end[p])
    BY DEF IInv, TypeOK, AddressInv
  <2> QED
    BY <2>1, AddressesDiffer
<1> QED
  BY Invariance, AddressInvariance, <1>1, PTL

(***************************************************************************)
(* What a receiver has, against all that its peer ever sent.               *)
(* GapsAreBridged is about any two messages of a party, and the lengths    *)
(* above say nothing of how many were sent on a chain.  The headers do:    *)
(* where one chain ends and the next begins, pn is the length of the       *)
(* former.  So the messages of a party are one row (LogOK), in which the   *)
(* receiver has its place (ReadTo) and the keys it passed over (StoreOK);  *)
(* and it can derive the chain a later one is on, since one of the two     *)
(* ends has always mixed just what the other will mix when it turns        *)
(* (Leads).                                                                *)
(***************************************************************************)

\* The generation of the first key pair p seals under.
First(p) == 1 - Parity(p)

\* Message l is sealed k messages after m, by the same party: on the same chain
\* k positions on, or on the next one, whose header says how long the last was.
Precedes(m, l, k) ==
  /\ m.dh[2] <= l.dh[2]
  /\ l.dh[2] = m.dh[2] => l.key.root = m.key.root /\ l.pn = m.pn /\ l.n = m.n + k
  /\ l.dh[2] = m.dh[2] + 1 => m.n < l.pn /\ l.pn + l.n = m.n + k

\* The message p seals as its i-th, on its first chain or a later one.
Begins(p, m, i) ==
  /\ First(p) <= m.dh[2]
  /\ m.dh[2] = First(p) => m.n + 1 = i /\ m.pn = 0

\* All that p sent, and what its ratchet r would send next.
LogOK(p, r, log) ==
  /\ Len(log) <= MaxSent
  /\ r.cks = NoKey => Len(log) = 0 /\ r.ns = 0 /\ r.dhs[2] + 1 = First(p)
  /\ r.cks # NoKey => Begins(p, Sealed(r), Len(log) + 1)
  /\ \A i \in DOMAIN log : Begins(p, log[i], i) /\ Precedes(log[i], Sealed(r), Len(log) + 1 - i)
  /\ \A i, j \in DOMAIN log : i < j => Precedes(log[i], log[j], j - i)

\* Of the two ratchets l turned last: it has mixed what f will mix when it turns.
Leads(l, f) ==
  /\ l.dhr = f.dhs /\ f.dhr # l.dhs
  /\ l.rk = KdfRk(f.rk, f.dhs, l.dhs)
  /\ l.ckr # NoKey => l.ckr.root = f.rk
  /\ f.ckr # NoKey => f.dhr[2] + 1 = l.dhs[2]

\* n is the furthest of A, or 0 when there is none.
IsFurthest(A, n) == IF A = {} THEN n = 0 ELSE n \in A /\ \A j \in A : j <= n

\* The receiving chain of r is just past the n-th message of log.
ReadTo(r, log, n) ==
  /\ r.ckr = NoKey => n = 0 /\ r.nr = 0 /\ r.dhs[2] = 0
  /\ r.ckr # NoKey => /\ n \in DOMAIN log /\ r.dhr = log[n].dh
                      /\ r.nr = log[n].n + 1 /\ r.ckr = Ahead(log[n].key, 1)

\* x is the key of message m.
KeyOf(x, m) == x.dh = m.dh /\ x.n = m.n /\ x.key = m.key

\* The k-th key of the store is that of the i-th message, and no more were
\* stored since than lie between it and the n-th.
Holds(store, k, log, i, n) == KeyOf(store[k], log[i]) /\ Len(store) - k < n - i

\* Of the messages before the n-th the store holds the keys of those that were
\* passed over, as many as it can, and no others.
StoreOK(store, log, n, counts) ==
  /\ \A k \in DOMAIN store : \E i \in 1 .. n - 1 : Holds(store, k, log, i, n)
  /\ \A i \in 1 .. n - 1 : \/ counts[i] > 0
                           \/ \E k \in DOMAIN store : Holds(store, k, log, i, n)
                           \/ n - i > MaxSkipStore

BridgeInv ==
  /\ \A p \in Party : LogOK(p, end[p], sent[p])
  /\ \E p \in Party : Leads(end[p], end[Peer(p)])
  /\ \A p \in Party :
       /\ IsFurthest(Arrived(p), Reached(p))
       /\ ReadTo(end[p], sent[Peer(p)], Reached(p))
       /\ StoreOK(end[p].skipped, sent[Peer(p)], Reached(p), opened[p])

\* What p needs to open messages of its peer: r is its ratchet, l its peer's, log
\* what the peer sent, and the n-th of it the furthest that p has opened.
Facing(p, r, l, log, n) ==
  /\ r \in Ratchet /\ EndOK(p, r)
  /\ l \in Ratchet /\ EndOK(Peer(p), l)
  /\ log \in Seq(Message) /\ \A i \in DOMAIN log : SentOK(Peer(p), l, log[i])
  /\ LogOK(Peer(p), l, log)
  /\ Leads(r, l) \/ Leads(l, r)
  /\ n \in Nat /\ ReadTo(r, log, n)

\* The two parties' chains have different parities.
LEMMA ParityFacts ==
  ASSUME NEW p \in Party
  PROVE  /\ Parity(p) \in {0, 1} /\ First(p) \in {0, 1} /\ First(p) = Parity(Peer(p))
         /\ Parity(p) + Parity(Peer(p)) = 1
  BY PairAssumption DEF Parity, First, Peer, Party

\* The parts of a message.
LEMMA MessageFacts ==
  ASSUME NEW m \in Message
  PROVE  /\ m.dh \in KeyPair /\ m.dh[2] \in Nat /\ m.dh # NoKey
         /\ m.n \in Nat /\ m.n \in 0 .. ChainEnd /\ m.pn \in Nat /\ m.pn \in 0 .. ChainEnd
         /\ m.key \in ChainKey /\ Len(m.key.root) \in Nat
<1>1. m.dh \in KeyPair /\ m.key \in ChainKey
  BY DEF Message
<1>2. m.n \in 0 .. ChainEnd /\ m.pn \in 0 .. ChainEnd
  BY DEF Message
<1>3. m.dh[2] \in Nat /\ m.dh # NoKey
  BY <1>1, PairAssumption DEF KeyPair
<1>4. m.n \in Nat /\ m.pn \in Nat
  BY <1>2, RatchetAssumption
<1>5. Len(m.key.root) \in Nat
  BY <1>1 DEF ChainKey
<1> QED
  BY <1>1, <1>2, <1>3, <1>4, <1>5

\* The parts of a ratchet.
LEMMA RatchetFacts ==
  ASSUME NEW r \in Ratchet
  PROVE  /\ r.dhs \in KeyPair /\ r.dhs[2] \in Nat /\ r.dhr \in KeyPair \cup {NoKey}
         /\ r.rk \in Seq(SUBSET KeyPair) /\ Len(r.rk) \in Nat
         /\ r.ckr # NoKey => r.ckr \in ChainKey
         /\ r.cks # NoKey => r.cks \in ChainKey
         /\ r.ns \in Nat /\ r.ns \in 0 .. ChainEnd /\ r.nr \in Nat /\ r.nr \in 0 .. ChainEnd
         /\ r.skipped \in Seq(Skipped)
<1>1. /\ r.dhs \in KeyPair /\ r.dhr \in KeyPair \cup {NoKey} /\ r.rk \in Seq(SUBSET KeyPair)
      /\ r.ckr # NoKey => r.ckr \in ChainKey
      /\ r.cks # NoKey => r.cks \in ChainKey
      /\ r.ns \in 0 .. ChainEnd /\ r.nr \in 0 .. ChainEnd /\ r.skipped \in Seq(Skipped)
  BY DEF Ratchet
<1>2. r.dhs[2] \in Nat
  BY <1>1 DEF KeyPair
<1>3. r.ns \in Nat /\ r.nr \in Nat
  BY <1>1, RatchetAssumption
<1> QED
  BY <1>1, <1>2, <1>3, LenProperties

\* A key pair is its owner and its number; a chain key its root and its step.
LEMMA PairsAgree ==
  ASSUME NEW a \in KeyPair, NEW b \in KeyPair, a[1] = b[1], a[2] = b[2]
  PROVE  a = b
<1>1. a = <<a[1], a[2]>> /\ b = <<b[1], b[2]>>
  BY DEF KeyPair
<1> QED
  BY <1>1

\* Two keys at one step of one chain are the same.
LEMMA KeysAgree ==
  ASSUME NEW a \in ChainKey, NEW b \in ChainKey, a.root = b.root, a.step = b.step
  PROVE  a = b
  BY DEF ChainKey

\* A member of a log.
LEMMA LogMember ==
  ASSUME NEW log \in Seq(Message), NEW i \in DOMAIN log
  PROVE  log[i] \in Message /\ i \in Nat /\ i >= 1 /\ i <= Len(log) /\ Len(log) \in Nat
  BY LenProperties, ElementOfSeq

\* Both ends derive the same root key: the results mixed are sets of two.
LEMMA KdfCommutes ==
  ASSUME NEW rk, NEW a, NEW b
  PROVE  KdfRk(rk, a, b) = KdfRk(rk, b, a)
<1>1. {a, b} = {b, a}
  OBVIOUS
<1> QED
  BY <1>1 DEF KdfRk

(***************************************************************************)
(* Which chain a message beyond the front is on: the one being received,   *)
(* or the one the peer turned to when it had received p's own last turn.   *)
(***************************************************************************)
OnCurrent(r, m) == r.ckr # NoKey /\ m.dh = r.dhr
OnNext(r, m) ==
  /\ r.ckr # NoKey /\ Turns(r, m) /\ m.dh[2] = r.dhr[2] + 1
  /\ m.key.root = KdfRk(r.rk, r.dhs, m.dh)
OnFirst(p, r, m) ==
  /\ r.ckr = NoKey /\ Turns(r, m) /\ m.dh[2] = First(Peer(p))
  /\ m.key.root = KdfRk(r.rk, r.dhs, m.dh)

\* A message under the peer's present key pair is on the chain p turns to.
LEMMA TurnRoot ==
  ASSUME NEW p \in Party, NEW r, NEW l, NEW log, NEW n, Facing(p, r, l, log, n),
         Leads(l, r), NEW i \in DOMAIN log, log[i].dh[2] = l.dhs[2]
  PROVE  Turns(r, log[i]) /\ log[i].dh = l.dhs /\ log[i].key.root = KdfRk(r.rk, r.dhs, log[i].dh)
<1> DEFINE m == log[i]
<1>1. r \in Ratchet /\ l \in Ratchet /\ log \in Seq(Message) /\ SentOK(Peer(p), l, m)
      /\ EndOK(Peer(p), l) /\ LogOK(Peer(p), l, log)
  BY DEF Facing
<1>2. m \in Message /\ Len(log) # 0
  BY <1>1, LogMember
<1>3. l.cks # NoKey /\ Precedes(m, Sealed(l), Len(log) + 1 - i)
  BY <1>1, <1>2 DEF LogOK
<1> HIDE DEF m
<1>4. m.dh \in KeyPair /\ l.dhs \in KeyPair
  BY <1>1, <1>2, MessageFacts, RatchetFacts
<1>5. m.dh = l.dhs
  <2>1. m.dh[1] = l.dhs[1] /\ m.dh[2] = l.dhs[2]
    BY <1>1 DEF SentOK, EndOK, m
  <2> QED
    BY <1>4, <2>1, PairsAgree
<1>6. m.key.root = l.rk
  <2>1. Sealed(l).dh = l.dhs /\ Sealed(l).key = l.cks
    BY DEF Sealed
  <2>2. Sealed(l).key.root = m.key.root
    BY <1>3, <1>5, <2>1 DEF Precedes
  <2> QED
    BY <1>1, <1>3, <2>1, <2>2 DEF EndOK
<1>7. l.rk = KdfRk(r.rk, r.dhs, l.dhs) /\ r.dhr # l.dhs
  BY DEF Leads
<1> QED
  BY <1>5, <1>6, <1>7 DEF Turns, m

\* The generations of two ends, one of which leads.
LEMMA LeadGenerations ==
  ASSUME NEW q \in Party, NEW l \in Ratchet, NEW f \in Ratchet,
         EndOK(q, l), EndOK(Peer(q), f), Leads(l, f)
  PROVE  l.dhs[2] = f.dhs[2] + First(q)
<1>1. l.rk = KdfRk(f.rk, f.dhs, l.dhs)
  BY DEF Leads
<1>2. Len(l.rk) = Len(f.rk) + 1
  <2> DEFINE rk == f.rk
             a == f.dhs
             b == l.dhs
  <2>1. rk \in Seq(SUBSET KeyPair) /\ a \in KeyPair /\ b \in KeyPair /\ l.rk = KdfRk(rk, a, b)
    BY <1>1, RatchetFacts
  <2> HIDE DEF rk, a, b
  <2>2. Len(KdfRk(rk, a, b)) = Len(rk) + 1
    BY <2>1, KdfFacts
  <2> QED
    BY <2>1, <2>2 DEF rk
<1>3. Len(l.rk) = 2 * l.dhs[2] + Parity(q) /\ Len(f.rk) = 2 * f.dhs[2] + Parity(Peer(q))
  BY DEF EndOK
<1> DEFINE a == l.dhs[2]
           b == f.dhs[2]
           x == Parity(q)
           y == Parity(Peer(q))
<1>4. a \in Nat /\ b \in Nat /\ x \in {0, 1} /\ y = 1 - x /\ First(q) = y
  <2>1. x \in {0, 1} /\ x + y = 1 /\ First(q) = y /\ y \in {0, 1}
    BY ParityFacts
  <2> QED
    BY <2>1, RatchetFacts
<1>5. 2 * a + x = 2 * b + y + 1
  BY <1>2, <1>3
<1> HIDE DEF a, b, x, y
<1>6. a = b + y
  BY <1>4, <1>5
<1> QED
  BY <1>4, <1>6 DEF a, b

\* A message beyond the front is on one of three chains; if its header makes the
\* receiver turn, its sender has turned last and made it under the pair he has now.
LEMMA WhichChain ==
  ASSUME NEW p \in Party, NEW r, NEW l, NEW log, NEW n, Facing(p, r, l, log, n),
         NEW i \in DOMAIN log, n < i
  PROVE  /\ OnCurrent(r, log[i]) \/ OnNext(r, log[i]) \/ OnFirst(p, r, log[i])
         /\ Turns(r, log[i]) => Leads(l, r) /\ log[i].dh = l.dhs
<1> DEFINE m == log[i]
           q == Peer(p)
<1>1. /\ r \in Ratchet /\ l \in Ratchet /\ log \in Seq(Message) /\ SentOK(q, l, m)
      /\ EndOK(p, r) /\ EndOK(q, l) /\ LogOK(q, l, log) /\ n \in Nat /\ ReadTo(r, log, n)
  BY DEF Facing
<1>2. q \in Party /\ Peer(q) = p
  BY PeerFacts
<1>3. m \in Message /\ m.dh \in KeyPair /\ m.dh[2] \in Nat /\ i \in Nat
  BY <1>1, LogMember, MessageFacts
<1>4. r.dhs[2] \in Nat /\ l.dhs[2] \in Nat /\ l.dhs \in KeyPair
  BY <1>1, RatchetFacts
<1>5. First(q) <= m.dh[2] /\ m.dh[2] <= l.dhs[2]
  BY <1>1 DEF LogOK, Begins, SentOK
<1>6. First(p) \in {0, 1} /\ First(q) \in {0, 1} /\ First(p) + First(q) = 1
  BY <1>2, ParityFacts
<1>7. CASE r.ckr = NoKey
  <2>1. r.dhs[2] = 0
    BY <1>1, <1>7 DEF ReadTo
  <2>2. ASSUME Leads(r, l) PROVE FALSE
    <3>1. r.dhs[2] = l.dhs[2] + First(p)
      BY <1>1, <1>2, <2>2, LeadGenerations
    <3> HIDE DEF m, q
    <3> QED
      BY <1>3, <1>4, <1>5, <1>6, <2>1, <3>1
  <2>3. ASSUME Leads(l, r) PROVE OnFirst(p, r, m) /\ m.dh = l.dhs
    <3>1. l.dhs[2] = r.dhs[2] + First(q)
      BY <1>1, <1>2, <2>3, LeadGenerations
    <3>2. m.dh[2] = l.dhs[2] /\ m.dh[2] = First(q)
      <4> HIDE DEF m, q
      <4> QED
        BY <1>3, <1>4, <1>5, <1>6, <2>1, <3>1
    <3>4. log[i].dh[2] = l.dhs[2]
      BY <3>2
    <3>3. Turns(r, m) /\ m.dh = l.dhs /\ m.key.root = KdfRk(r.rk, r.dhs, m.dh)
      BY <2>3, <3>4, TurnRoot
    <3> QED
      BY <1>7, <3>2, <3>3 DEF OnFirst
  <2> QED
    BY <2>2, <2>3 DEF Facing, OnFirst
<1>8. CASE r.ckr # NoKey
  <2>1. n \in DOMAIN log /\ r.dhr = log[n].dh
    BY <1>1, <1>8 DEF ReadTo
  <2>2. Precedes(log[n], m, i - n)
    BY <1>1, <2>1 DEF LogOK
  <2>3. log[n] \in Message /\ SentOK(q, l, log[n])
    BY <1>1, <2>1, LogMember DEF Facing
  <2> DEFINE g == r.dhr[2]
  <2>4. g \in Nat /\ g <= m.dh[2] /\ r.dhr \in KeyPair
    BY <2>1, <2>2, <2>3, MessageFacts DEF Precedes
  <2>5. r.dhr[1] = m.dh[1]
    BY <1>1, <2>1, <2>3 DEF SentOK
  <2>6. ASSUME m.dh[2] = g PROVE OnCurrent(r, m)
    <3>1. m.dh = r.dhr
      <4> HIDE DEF m
      <4> QED
        BY <1>3, <2>4, <2>5, <2>6, PairsAgree
    <3> QED
      BY <1>8, <3>1 DEF OnCurrent
  <2>7. ASSUME Leads(r, l) PROVE OnCurrent(r, m)
    <3>1. r.dhr = l.dhs
      BY <2>7 DEF Leads
    <3>2. m.dh[2] = g
      <4> HIDE DEF m
      <4> QED
        BY <1>3, <1>4, <1>5, <2>4, <3>1
    <3> QED
      BY <2>6, <3>2
  <2>8. ASSUME Leads(l, r), m.dh[2] # g PROVE OnNext(r, m) /\ m.dh = l.dhs
    <3>1. g + 1 = l.dhs[2]
      BY <1>8, <2>8 DEF Leads
    <3>2. m.dh[2] = l.dhs[2]
      <4> HIDE DEF m, g
      <4> QED
        BY <1>3, <1>4, <1>5, <2>4, <2>8, <3>1
    <3>3. Turns(r, m) /\ m.dh = l.dhs /\ m.key.root = KdfRk(r.rk, r.dhs, m.dh)
      BY <2>8, <3>2, TurnRoot
    <3> QED
      BY <1>8, <3>1, <3>2, <3>3 DEF OnNext
  <2>9. OnCurrent(r, m) => ~Turns(r, m)
    BY DEF OnCurrent, Turns
  <2> QED
    BY <2>6, <2>7, <2>8, <2>9 DEF Facing
<1> QED
  BY <1>7, <1>8

\* A key k steps along a chain is what k applications of kdf_ck make.
LEMMA AheadIs ==
  ASSUME NEW ck \in ChainKey, NEW k \in Nat, NEW key \in ChainKey,
         key.root = ck.root, key.step = ck.step + k
  PROVE  Ahead(ck, k) = key
<1>1. Ahead(ck, k) \in ChainKey /\ Ahead(ck, k).root = key.root /\ Ahead(ck, k).step = key.step
  BY AheadFacts
<1> QED
  BY <1>1, KeysAgree

\* Where the messages after the n-th lie: those on the chain being received
\* follow it one by one.
LEMMA CurrentPlace ==
  ASSUME NEW p \in Party, NEW r, NEW l, NEW log, NEW n, Facing(p, r, l, log, n), r.ckr # NoKey,
         NEW j \in DOMAIN log, n < j, log[j].dh[2] = r.dhr[2]
  PROVE  /\ log[j].dh = r.dhr /\ log[j].n + n + 1 = r.nr + j
         /\ Ahead(r.ckr, j - n - 1) = log[j].key
<1> DEFINE q == Peer(p)
           x == log[n]
           m == log[j]
<1>1. /\ log \in Seq(Message) /\ n \in Nat /\ n \in DOMAIN log
      /\ r.dhr = x.dh /\ r.nr = x.n + 1 /\ r.ckr = Ahead(x.key, 1)
      /\ SentOK(q, l, x) /\ SentOK(q, l, m) /\ LogOK(q, l, log)
  BY DEF Facing, ReadTo
<1>2. x \in Message /\ m \in Message /\ j \in Nat
  BY <1>1, LogMember
<1>3. Precedes(x, m, j - n)
  BY <1>1 DEF LogOK
<1> HIDE DEF x, m
<1>4. /\ x.dh \in KeyPair /\ m.dh \in KeyPair /\ x.n \in Nat /\ m.n \in Nat
      /\ x.key \in ChainKey /\ m.key \in ChainKey
  BY <1>2, MessageFacts
<1>5. m.key.root = x.key.root /\ m.n = x.n + (j - n)
  BY <1>1, <1>3 DEF Precedes, m
<1>6. m.dh = x.dh
  <2>1. m.dh[1] = x.dh[1] /\ m.dh[2] = x.dh[2]
    BY <1>1 DEF SentOK, m
  <2> QED
    BY <1>4, <2>1, PairsAgree
<1>7. m.n + n + 1 = r.nr + j /\ j - n - 1 \in Nat
  <2> DEFINE a == x.n
             b == m.n
             c == r.nr
  <2>1. a \in Nat /\ b \in Nat /\ c = a + 1 /\ b = a + (j - n) /\ n \in Nat /\ j \in Nat
    BY <1>1, <1>2, <1>4, <1>5
  <2> HIDE DEF a, b, c
  <2>2. b + n + 1 = c + j /\ j - n - 1 \in Nat
    BY <2>1
  <2> QED
    BY <2>2 DEF b, c
<1>8. Ahead(r.ckr, j - n - 1) = m.key
  <2> DEFINE ck == Ahead(x.key, 1)
             k == j - n - 1
  <2>1. ck \in ChainKey /\ ck.root = x.key.root /\ ck.step = x.key.step + 1
    BY <1>4, AheadFacts
  <2>2. x.key.step = x.n /\ m.key.step = m.n
    BY <1>1 DEF SentOK
  <2>3. k \in Nat /\ m.key.step = ck.step + k
    <3> DEFINE a == x.n
               b == m.n
               c == ck.step
    <3>1. a \in Nat /\ c = a + 1 /\ b = a + (j - n) /\ n \in Nat /\ j \in Nat
      BY <1>1, <1>2, <1>4, <1>5, <2>1, <2>2
    <3> HIDE DEF a, b, c
    <3>2. k \in Nat /\ b = c + k
      BY <3>1
    <3> QED
      BY <2>2, <3>2 DEF b, c
  <2>4. r.ckr = ck /\ ck.root = m.key.root
    BY <1>1, <1>5, <2>1
  <2> HIDE DEF ck, k
  <2>5. Ahead(ck, k) = m.key
    BY <1>4, <2>1, <2>3, <2>4, AheadIs
  <2> QED
    BY <2>4, <2>5 DEF k
<1> QED
  BY <1>1, <1>6, <1>7, <1>8 DEF m

\* The chain of a message's root key, from its start.
LEMMA ChainIs ==
  ASSUME NEW rk \in Seq(SUBSET KeyPair), NEW a \in KeyPair, NEW b \in KeyPair,
         NEW key \in ChainKey, key.root = KdfRk(rk, a, b)
  PROVE  Chain(KdfRk(rk, a, b)) \in ChainKey /\ Ahead(Chain(KdfRk(rk, a, b)), key.step) = key
<1> DEFINE ck == Chain(KdfRk(rk, a, b))
<1>1. ck \in ChainKey /\ ck.root = key.root /\ ck.step = 0
  BY KdfFacts
<1>2. key.step \in Nat
  BY DEF ChainKey
<1> HIDE DEF ck
<1>3. key.step = ck.step + key.step
  BY <1>1, <1>2
<1>4. Ahead(ck, key.step) = key
  BY <1>1, <1>2, <1>3, AheadIs
<1> QED
  BY <1>1, <1>4 DEF ck

\* Two messages of one chain share its key pair, its root key and the length
\* of the chain before it.
LEMMA SameChain ==
  ASSUME NEW q \in Party, NEW l \in Ratchet, NEW log \in Seq(Message), LogOK(q, l, log),
         \A k \in DOMAIN log : SentOK(q, l, log[k]),
         NEW i \in DOMAIN log, NEW j \in DOMAIN log, j <= i, log[j].dh[2] = log[i].dh[2]
  PROVE  /\ log[j].dh = log[i].dh /\ log[j].pn = log[i].pn
         /\ log[j].key.root = log[i].key.root
         /\ log[i].n + j = log[j].n + i
<1>1. i \in Nat /\ j \in Nat /\ log[i] \in Message /\ log[j] \in Message
  BY LogMember
<1>2. CASE j = i
  BY <1>2
<1>3. CASE j # i
  <2>1. Precedes(log[j], log[i], i - j)
    BY <1>1, <1>3 DEF LogOK
  <2>2. log[j].pn = log[i].pn /\ log[j].key.root = log[i].key.root /\ log[i].n = log[j].n + (i - j)
    BY <2>1 DEF Precedes
  <2>3. log[j].dh[1] = log[i].dh[1]
    BY DEF SentOK
  <2>4. log[j].dh \in KeyPair /\ log[i].dh \in KeyPair /\ log[i].n \in Nat /\ log[j].n \in Nat
    BY <1>1, MessageFacts
  <2>5. log[j].dh = log[i].dh
    BY <2>3, <2>4, PairsAgree
  <2>6. log[i].n + j = log[j].n + i
    BY <1>1, <2>2, <2>4
  <2> QED
    BY <2>2, <2>5, <2>6
<1> QED
  BY <1>2, <1>3

\* What opening the i-th message beyond the n-th derives: its key, and on the
\* way, in order, the keys of the messages between, one for each.
Bridges(r, log, n, i) ==
  LET m == log[i]
      new == Flushed(r, m) \o CaughtUp(r, m)
  IN /\ Turns(r, m) \/ r.ckr # NoKey
     /\ Target(r, m) = m.key
     /\ WithinBudget(r, m) <=> i - n - 1 <= MaxSkip
     /\ Len(new) + n + 1 = i
     /\ \A t \in 1 .. Len(new) : KeyOf(new[t], log[n + t])

\* Two runs of keys that belong to two runs of messages, one after the other.
LEMMA Assembled ==
  ASSUME NEW f \in Seq(Skipped), NEW c \in Seq(Skipped), NEW log, NEW n \in Nat,
         \A t \in 1 .. Len(f) : KeyOf(f[t], log[n + t]),
         \A t \in 1 .. Len(c) : KeyOf(c[t], log[n + Len(f) + t])
  PROVE  /\ f \o c \in Seq(Skipped) /\ Len(f \o c) = Len(f) + Len(c)
         /\ Len(f) \in Nat /\ Len(c) \in Nat
         /\ \A t \in 1 .. Len(f \o c) : KeyOf((f \o c)[t], log[n + t])
<1> DEFINE z == f \o c
           a == Len(f)
           b == Len(c)
<1>1. a \in Nat /\ b \in Nat
  BY LenProperties
<1>2. /\ z \in Seq(Skipped) /\ Len(z) = a + b
      /\ \A t \in 1 .. a + b : z[t] = IF t <= a THEN f[t] ELSE c[t - a]
  BY ConcatProperties
<1>3. /\ \A t \in 1 .. a : KeyOf(f[t], log[n + t])
      /\ \A t \in 1 .. b : KeyOf(c[t], log[n + a + t])
  OBVIOUS
<1> HIDE DEF z, a, b
<1>4. ASSUME NEW t \in 1 .. a + b PROVE KeyOf(z[t], log[n + t])
  <2>1. CASE t <= a
    <3>1. t \in 1 .. a /\ z[t] = f[t]
      BY <1>1, <1>2, <2>1
    <3> QED
      BY <1>3, <3>1
  <2>2. CASE ~(t <= a)
    <3> DEFINE u == t - a
    <3>1. u \in 1 .. b /\ z[t] = c[u] /\ n + a + u = n + t
      BY <1>1, <1>2, <2>2
    <3> HIDE DEF u
    <3>2. KeyOf(c[u], log[n + a + u])
      BY <1>3, <3>1
    <3> QED
      BY <3>1, <3>2
  <2> QED
    BY <2>1, <2>2
<1> QED
  BY <1>1, <1>2, <1>4 DEF z, a, b

\* What Gap is when there is anything to derive.
LEMMA GapIs ==
  ASSUME NEW a \in Nat, NEW b \in Nat, a <= b
  PROVE  Gap(a, b) = b - a /\ Gap(a, b) \in Nat
  BY DEF Gap

\* The message is on the chain being received.
LEMMA BridgedCurrent ==
  ASSUME NEW p \in Party, NEW r, NEW l, NEW log, NEW n, Facing(p, r, l, log, n),
         NEW i \in DOMAIN log, n < i, OnCurrent(r, log[i])
  PROVE  Bridges(r, log, n, i)
<1> DEFINE m == log[i]
           f == Flushed(r, m)
           c == CaughtUp(r, m)
           g == Gap(r.nr, m.n)
<1>1. /\ r \in Ratchet /\ EndOK(p, r) /\ log \in Seq(Message) /\ n \in Nat
      /\ r.ckr # NoKey /\ m.dh = r.dhr /\ ~Turns(r, m) /\ r.dhr = log[n].dh /\ n \in DOMAIN log
      /\ LogOK(Peer(p), l, log)
  BY DEF Facing, OnCurrent, ReadTo, Turns
<1>2. m \in Message /\ i \in Nat /\ DOMAIN log = 1 .. Len(log) /\ Len(log) \in Nat
      /\ i <= Len(log)
  BY <1>1, LogMember, LenProperties
<1>3. r.nr \in Nat /\ m.n \in Nat /\ MaxSkip \in Nat
  BY <1>1, <1>2, RatchetFacts, MessageFacts, RatchetAssumption
<1>4. /\ \A j \in DOMAIN log : n < j /\ log[j].dh[2] = r.dhr[2] =>
           /\ log[j].dh = r.dhr /\ log[j].n + n + 1 = r.nr + j
           /\ Ahead(r.ckr, j - n - 1) = log[j].key
  <2> SUFFICES ASSUME NEW j \in DOMAIN log, n < j, log[j].dh[2] = r.dhr[2]
               PROVE  /\ log[j].dh = r.dhr /\ log[j].n + n + 1 = r.nr + j
                      /\ Ahead(r.ckr, j - n - 1) = log[j].key
    OBVIOUS
  <2>1. r.ckr # NoKey
    BY <1>1
  <2> HIDE DEF m, f, c, g
  <2> QED
    BY <2>1, CurrentPlace
<1>5. m.n + n + 1 = r.nr + i /\ Ahead(r.ckr, i - n - 1) = m.key
  BY <1>1, <1>4
<1>6. g \in Nat /\ g = i - n - 1
  <2> DEFINE a == r.nr
             b == m.n
  <2>1. a \in Nat /\ b \in Nat /\ b + n + 1 = a + i /\ n \in Nat /\ i \in Nat
    BY <1>1, <1>2, <1>3, <1>5
  <2> HIDE DEF a, b
  <2>2. a <= b /\ b - a = i - n - 1
    BY <2>1
  <2>3. Gap(a, b) = b - a /\ Gap(a, b) \in Nat
    BY <2>1, <2>2, GapIs
  <2> QED
    BY <2>2, <2>3 DEF a, b
<1>7. f = <<>> /\ Working(r, m) = [ck |-> r.ckr, nr |-> r.nr]
  BY <1>1 DEF Flushed, Working
<1>8. c = SkipForward(m.dh, r.ckr, r.nr, m.n) /\ Target(r, m) = Ahead(r.ckr, g)
  BY <1>7 DEF CaughtUp, Target
<1>9. Target(r, m) = m.key
  BY <1>5, <1>6, <1>8
<1>10. WithinBudget(r, m) <=> i - n - 1 <= MaxSkip
  <2>1. Len(f) = 0
    BY <1>7
  <2>2. Len(f) + Gap(Working(r, m).nr, m.n) = g
    BY <1>6, <1>7, <2>1
  <2> QED
    BY <1>1, <1>6, <2>2 DEF WithinBudget
<1>11. c \in Seq(Skipped) /\ Len(c) = g
  <2>1. c \in Seq(Skipped) /\ Len(c) = Gap(Working(r, m).nr, m.n)
    <3> HIDE DEF m
    <3> QED
      BY <1>1, <1>2, CaughtUpFacts
  <2> QED
    BY <1>7, <2>1
<1>12. ASSUME NEW t \in 1 .. g PROVE KeyOf(c[t], log[n + t])
  <2> DEFINE j == n + t
  <2>1. j \in DOMAIN log /\ n < j /\ j < i /\ j - n - 1 = t - 1 /\ t \in Nat /\ j \in Nat
    BY <1>1, <1>2, <1>6, <1>12
  <2>2. log[j].dh[2] = r.dhr[2]
    <3>1. Precedes(log[n], log[j], j - n) /\ Precedes(log[j], m, i - j)
      BY <1>1, <2>1 DEF LogOK
    <3>2. log[n].dh[2] <= log[j].dh[2] /\ log[j].dh[2] <= m.dh[2] /\ m.dh[2] = log[n].dh[2]
      BY <1>1, <3>1 DEF Precedes
    <3>3. log[j].dh[2] \in Nat /\ m.dh[2] \in Nat
      <4>1. log[j] \in Message
        BY <1>1, <2>1, LogMember
      <4> QED
        BY <1>2, <4>1, MessageFacts
    <3> DEFINE x == log[n].dh[2]
               y == log[j].dh[2]
    <3>4. x <= y /\ y <= x /\ x \in Nat /\ y \in Nat
      BY <3>2, <3>3
    <3> HIDE DEF x, y
    <3>5. y = x
      BY <3>4
    <3> QED
      BY <1>1, <3>5 DEF x, y
  <2>3. /\ log[j].dh = r.dhr /\ log[j].n + n + 1 = r.nr + j
        /\ Ahead(r.ckr, t - 1) = log[j].key
    BY <1>4, <2>1, <2>2
  <2>4. log[j].n = r.nr + t - 1
    <3> DEFINE a == log[j].n
               b == r.nr
    <3>1. a + n + 1 = b + j /\ a \in Nat /\ b \in Nat /\ n \in Nat /\ t \in Nat
      <4>1. log[j] \in Message
        BY <1>1, <2>1, LogMember
      <4> QED
        BY <1>1, <1>3, <2>1, <2>3, <4>1, MessageFacts
    <3> HIDE DEF a, b
    <3>2. a = b + t - 1
      BY <3>1
    <3> QED
      BY <3>2 DEF a, b
  <2>5. c[t] = [dh |-> m.dh, n |-> r.nr + t - 1, key |-> Ahead(r.ckr, t - 1)]
    <3> DEFINE dh == m.dh
               ck == r.ckr
               a == r.nr
               b == m.n
    <3>1. a \in Nat /\ b \in Nat /\ t \in 1 .. Gap(a, b) /\ c = SkipForward(dh, ck, a, b)
      BY <1>3, <1>8
    <3> HIDE DEF dh, ck, a, b, c
    <3>2. c[t] = [dh |-> dh, n |-> a + t - 1, key |-> Ahead(ck, t - 1)]
      BY <3>1 DEF SkipForward
    <3> QED
      BY <3>2 DEF dh, ck, a, b
  <2> HIDE DEF j, c
  <2>6. c[t].dh = log[j].dh /\ c[t].n = log[j].n /\ c[t].key = log[j].key
    BY <1>1, <2>3, <2>4, <2>5
  <2>7. KeyOf(c[t], log[j])
    BY <2>6 DEF KeyOf
  <2> QED
    BY <2>7 DEF j
<1>13. f \in Seq(Skipped) /\ Len(f) = 0
  BY <1>7
<1> HIDE DEF f, c, g, m
<1>14. /\ Len(f \o c) = Len(f) + Len(c)
       /\ \A t \in 1 .. Len(f \o c) : KeyOf((f \o c)[t], log[n + t])
  <2>1. \A t \in 1 .. Len(f) : KeyOf(f[t], log[n + t])
    BY <1>13
  <2>2. \A t \in 1 .. Len(c) : KeyOf(c[t], log[n + Len(f) + t])
    <3>1. n + Len(f) = n
      BY <1>1, <1>13
    <3> QED
      BY <1>11, <1>12, <3>1
  <2> QED
    BY <1>1, <1>11, <1>13, <2>1, <2>2, Assembled
<1>15. Len(f \o c) + n + 1 = i
  BY <1>1, <1>2, <1>6, <1>11, <1>13, <1>14
<1> QED
  BY <1>1, <1>9, <1>10, <1>14, <1>15 DEF Bridges, f, c, m

\* Across one turn of the peer: the messages up to the length its header gives
\* the old chain are on that chain, the others on the new.
LEMMA NextPlace ==
  ASSUME NEW p \in Party, NEW r, NEW l, NEW log, NEW n, Facing(p, r, l, log, n),
         NEW i \in DOMAIN log, n < i, OnNext(r, log[i]), NEW j \in DOMAIN log, n < j, j <= i
  PROVE  \/ log[j].dh[2] = r.dhr[2] /\ r.nr + j <= log[i].pn + n
         \/ log[j].dh[2] = log[i].dh[2] /\ log[i].pn + n < r.nr + j
<1> DEFINE q == Peer(p)
           x == log[n]
           y == log[j]
           z == log[i]
<1>1. /\ l \in Ratchet /\ log \in Seq(Message) /\ n \in Nat /\ r.ckr # NoKey
      /\ n \in DOMAIN log /\ r.dhr = x.dh /\ r.nr = x.n + 1 /\ z.dh[2] = x.dh[2] + 1
      /\ LogOK(q, l, log) /\ q \in Party /\ \A k \in DOMAIN log : SentOK(q, l, log[k])
  BY PeerFacts DEF Facing, OnNext, ReadTo
<1>2. x \in Message /\ y \in Message /\ z \in Message /\ i \in Nat /\ j \in Nat
  BY <1>1, LogMember
<1>3. Precedes(x, y, j - n) /\ (j = i \/ Precedes(y, z, i - j))
  <2>1. j = i \/ j < i
    BY <1>2
  <2> QED
    BY <1>1, <2>1 DEF LogOK
<1>4. CASE y.dh[2] = z.dh[2]
  <2>1. y.pn = z.pn
    <3>1. log[j].dh[2] = log[i].dh[2]
      BY <1>4
    <3> HIDE DEF q, x, y, z
    <3>2. log[j].pn = log[i].pn
      BY <1>1, <3>1, SameChain
    <3> QED
      BY <3>2 DEF y, z
  <2>2. y.pn + y.n = x.n + (j - n)
    BY <1>1, <1>3, <1>4 DEF Precedes
  <2> HIDE DEF x, y, z
  <2>3. x.n \in Nat /\ y.n \in Nat /\ z.pn \in Nat
    BY <1>2, MessageFacts
  <2> DEFINE a == x.n
             b == y.n
             c == z.pn
  <2>4. a \in Nat /\ b \in Nat /\ c \in Nat /\ c + b = a + (j - n) /\ n \in Nat /\ j \in Nat
    BY <1>1, <1>2, <2>1, <2>2, <2>3
  <2> HIDE DEF a, b, c
  <2>5. c + n < a + 1 + j
    BY <2>4
  <2>6. z.pn + n < r.nr + j
    BY <1>1, <2>5 DEF a, c
  <2> QED
    BY <1>4, <2>6 DEF y, z
<1>5. CASE y.dh[2] # z.dh[2]
  <2> HIDE DEF x, y, z
  <2>1. x.dh[2] \in Nat /\ y.dh[2] \in Nat /\ z.dh[2] \in Nat /\ x.n \in Nat /\ y.n \in Nat
        /\ z.pn \in Nat
    BY <1>2, MessageFacts
  <2>2. x.dh[2] <= y.dh[2] /\ y.dh[2] <= z.dh[2] /\ j # i
    BY <1>3, <1>5 DEF Precedes, y, z
  <2>3. y.dh[2] = x.dh[2]
    <3> DEFINE a == x.dh[2]
               b == y.dh[2]
               c == z.dh[2]
    <3>1. a \in Nat /\ b \in Nat /\ c = a + 1 /\ a <= b /\ b <= c /\ b # c
      BY <1>1, <1>5, <2>1, <2>2
    <3> HIDE DEF a, b, c
    <3>2. b = a
      BY <3>1
    <3> QED
      BY <3>2 DEF a, b
  <2>4. y.n < z.pn /\ y.n = x.n + (j - n)
    BY <1>1, <1>3, <2>2, <2>3 DEF Precedes
  <2> DEFINE a == x.n
             b == y.n
             c == z.pn
  <2>5. a \in Nat /\ b \in Nat /\ c \in Nat /\ b < c /\ b = a + (j - n) /\ n \in Nat /\ j \in Nat
    BY <1>1, <1>2, <2>1, <2>4
  <2> HIDE DEF a, b, c
  <2>6. a + 1 + j <= c + n
    BY <2>5
  <2>7. r.nr + j <= z.pn + n
    BY <1>1, <2>6 DEF a, c
  <2> QED
    BY <1>1, <2>3, <2>7 DEF y, z
<1> QED
  BY <1>4, <1>5

\* c is the keys of the messages between the k-th and the i-th, derived from the
\* start of their chain.
LeadsTo(c, ck, log, i, k) ==
  /\ c \in Seq(Skipped) /\ Len(c) = log[i].n /\ Gap(0, log[i].n) = log[i].n
  /\ Ahead(ck, log[i].n) = log[i].key
  /\ \A t \in 1 .. Len(c) : KeyOf(c[t], log[k + t])

\* The keys that lead from the start of a chain to the i-th message, when the
\* messages from the (k + 1)-th on are on that chain.
LEMMA FromStart ==
  ASSUME NEW q \in Party, NEW l \in Ratchet, NEW log \in Seq(Message), LogOK(q, l, log),
         \A j \in DOMAIN log : SentOK(q, l, log[j]),
         NEW i \in DOMAIN log, NEW k \in Nat, log[i].n + k + 1 = i,
         \A j \in DOMAIN log : k < j /\ j <= i => log[j].dh[2] = log[i].dh[2],
         NEW rk \in Seq(SUBSET KeyPair), NEW a \in KeyPair, NEW b \in KeyPair,
         log[i].key.root = KdfRk(rk, a, b),
         NEW c, c = SkipForward(log[i].dh, Chain(KdfRk(rk, a, b)), 0, log[i].n)
  PROVE  LeadsTo(c, Chain(KdfRk(rk, a, b)), log, i, k)
<1> DEFINE m == log[i]
           ck == Chain(KdfRk(rk, a, b))
           g == m.n
<1>1. /\ m \in Message /\ i \in Nat /\ i <= Len(log) /\ Len(log) \in Nat
      /\ DOMAIN log = 1 .. Len(log) /\ SentOK(q, l, m)
  BY LogMember, LenProperties
<1>2. m.key \in ChainKey /\ m.dh \in KeyPair /\ g \in Nat /\ g \in 0 .. ChainEnd
      /\ 0 \in 0 .. ChainEnd
  <2> HIDE DEF m
  <2> QED
    BY <1>1, MessageFacts, RatchetAssumption
<1>3. m.key.step = g
  BY <1>1 DEF SentOK
<1>4. ck \in ChainKey /\ Ahead(ck, g) = m.key
  <2>1. ck \in ChainKey /\ Ahead(ck, m.key.step) = m.key
    BY <1>2, ChainIs
  <2> QED
    BY <1>3, <2>1
<1>5. Gap(0, g) = g
  BY <1>2 DEF Gap
<1>6. c \in Seq(Skipped) /\ Len(c) = g
  <2> DEFINE dh == m.dh
             zero == 0
  <2>1. c = SkipForward(dh, ck, zero, g) /\ dh \in KeyPair /\ ck \in ChainKey
        /\ zero \in 0 .. ChainEnd /\ g \in 0 .. ChainEnd /\ Gap(zero, g) = g
    BY <1>2, <1>4, <1>5
  <2> HIDE DEF dh, ck, g, zero
  <2>2. LET s == SkipForward(dh, ck, zero, g)
        IN s \in Seq(Skipped) /\ Len(s) = Gap(zero, g)
    BY <2>1, SkipFacts, Zenon
  <2> QED
    BY <2>1, <2>2
<1>7. ASSUME NEW t \in 1 .. g PROVE KeyOf(c[t], log[k + t])
  <2> DEFINE j == k + t
             x == log[j]
  <2>1. t \in Nat /\ j \in DOMAIN log /\ k < j /\ j <= i
    BY <1>1, <1>2, <1>7
  <2>2. x.dh[2] = m.dh[2]
    BY <2>1
  <2>3. x \in Message /\ SentOK(q, l, x)
    BY <2>1, LogMember
  <2>4. x.dh = m.dh /\ x.key.root = m.key.root /\ m.n + j = x.n + i
    BY <2>1, <2>2, SameChain
  <2>5. x.n \in Nat /\ x.key \in ChainKey
    <3> HIDE DEF x
    <3> QED
      BY <2>3, MessageFacts
  <2>6. x.n = t - 1
    <3> DEFINE u == x.n
    <3>1. g + j = u + i /\ g + k + 1 = i /\ j = k + t /\ u \in Nat /\ g \in Nat /\ t \in Nat
          /\ i \in Nat /\ k \in Nat
      BY <1>1, <1>2, <2>1, <2>4, <2>5
    <3> HIDE DEF u, g, j
    <3>2. u = t - 1
      BY <3>1
    <3> QED
      BY <3>2 DEF u
  <2>7. Ahead(ck, x.n) = x.key
    <3>1. x.key.root = KdfRk(rk, a, b)
      BY <2>4
    <3>2. x.key.step = x.n
      BY <2>3 DEF SentOK
    <3> HIDE DEF x
    <3>3. Ahead(ck, x.key.step) = x.key
      BY <2>5, <3>1, ChainIs
    <3> QED
      BY <3>2, <3>3
  <2>8. c[t] = [dh |-> m.dh, n |-> 0 + t - 1, key |-> Ahead(ck, t - 1)]
    <3>1. c = SkipForward(m.dh, ck, 0, g) /\ t \in 1 .. Gap(0, g)
      BY <1>5, <1>7
    <3> HIDE DEF ck, g, m
    <3> QED
      BY <3>1 DEF SkipForward
  <2> HIDE DEF x, j, ck, m, g
  <2>9. c[t].dh = x.dh /\ c[t].n = x.n /\ c[t].key = x.key
    BY <2>1, <2>4, <2>6, <2>7, <2>8
  <2> QED
    BY <2>9 DEF KeyOf, x, j
<1> HIDE DEF g, m, ck
<1>8. \A t \in 1 .. Len(c) : KeyOf(c[t], log[k + t])
  BY <1>6, <1>7
<1> QED
  BY <1>4, <1>5, <1>6, <1>8 DEF LeadsTo, g, m, ck

\* It is on the next chain: what is left of this one is derived first.
LEMMA BridgedNext ==
  ASSUME NEW p \in Party, NEW r, NEW l, NEW log, NEW n, Facing(p, r, l, log, n),
         NEW i \in DOMAIN log, n < i, OnNext(r, log[i])
  PROVE  Bridges(r, log, n, i)
<1> DEFINE m == log[i]
           x == log[n]
           q == Peer(p)
           f == Flushed(r, m)
           c == CaughtUp(r, m)
           g == Gap(r.nr, m.pn)
           k == n + g
<1>1. /\ r \in Ratchet /\ EndOK(p, r) /\ l \in Ratchet /\ log \in Seq(Message) /\ n \in Nat
      /\ r.ckr # NoKey /\ Turns(r, m) /\ n \in DOMAIN log
      /\ r.dhr = x.dh /\ r.nr = x.n + 1 /\ m.dh[2] = x.dh[2] + 1
      /\ m.key.root = KdfRk(r.rk, r.dhs, m.dh)
      /\ LogOK(q, l, log) /\ q \in Party /\ \A j \in DOMAIN log : SentOK(q, l, log[j])
  BY PeerFacts DEF Facing, OnNext, ReadTo
<1>2. m \in Message /\ x \in Message /\ i \in Nat /\ DOMAIN log = 1 .. Len(log)
      /\ Len(log) \in Nat /\ i <= Len(log)
  BY <1>1, LogMember, LenProperties
<1>3. /\ r.nr \in Nat /\ m.n \in Nat /\ m.pn \in Nat /\ x.n \in Nat
      /\ r.rk \in Seq(SUBSET KeyPair) /\ r.dhs \in KeyPair /\ m.dh \in KeyPair
      /\ r.ckr \in ChainKey /\ r.nr \in 0 .. ChainEnd /\ m.pn \in 0 .. ChainEnd /\ r.dhr \in KeyPair
  <2> HIDE DEF m, x
  <2> QED
    BY <1>1, <1>2, RatchetFacts, MessageFacts
<1>4. x.n < m.pn /\ m.pn + m.n = x.n + (i - n)
  BY <1>1 DEF LogOK, Precedes
<1>5. g \in Nat /\ r.nr + g = m.pn /\ m.n + k + 1 = i
  <2> DEFINE a == r.nr
             b == m.pn
             d == m.n
             e == x.n
  <2>1. a \in Nat /\ b \in Nat /\ d \in Nat /\ e \in Nat /\ a = e + 1 /\ e < b
        /\ b + d = e + (i - n) /\ n \in Nat /\ i \in Nat
    BY <1>1, <1>2, <1>3, <1>4
  <2> HIDE DEF a, b, d, e
  <2>2. a <= b
    BY <2>1
  <2>3. Gap(a, b) = b - a
    BY <2>1, <2>2, GapIs
  <2>4. Gap(a, b) \in Nat /\ a + Gap(a, b) = b /\ d + (n + Gap(a, b)) + 1 = i
    BY <2>1, <2>2, <2>3
  <2> QED
    BY <2>4 DEF a, b, d
<1>6. /\ f = SkipForward(r.dhr, r.ckr, r.nr, m.pn)
      /\ Working(r, m) = [ck |-> Chain(KdfRk(r.rk, r.dhs, m.dh)), nr |-> 0]
  BY <1>1 DEF Flushed, Working
<1>7. /\ c = SkipForward(m.dh, Chain(KdfRk(r.rk, r.dhs, m.dh)), 0, m.n)
      /\ Target(r, m) = Ahead(Chain(KdfRk(r.rk, r.dhs, m.dh)), Gap(0, m.n))
  BY <1>6 DEF CaughtUp, Target
\* The new chain.
<1>8. k \in Nat /\ \A j \in DOMAIN log : k < j /\ j <= i => log[j].dh[2] = m.dh[2]
  <2>1. k \in Nat
    BY <1>1, <1>5
  <2>2. ASSUME NEW j \in DOMAIN log, k < j, j <= i PROVE log[j].dh[2] = m.dh[2]
    <3>1. j \in Nat /\ n < j
      BY <1>1, <1>2, <1>5, <2>2
    <3>2. \/ log[j].dh[2] = r.dhr[2] /\ r.nr + j <= m.pn + n
          \/ log[j].dh[2] = m.dh[2] /\ m.pn + n < r.nr + j
      BY <2>2, <3>1, NextPlace
    <3>3. ~(r.nr + j <= m.pn + n)
      <4> DEFINE a == r.nr
                 b == m.pn
      <4>1. a \in Nat /\ b \in Nat /\ g \in Nat /\ a + g = b /\ n + g < j /\ n \in Nat
            /\ j \in Nat
        BY <1>1, <1>3, <1>5, <2>2, <3>1
      <4> HIDE DEF a, b, g
      <4>2. ~(a + j <= b + n)
        BY <4>1
      <4> QED
        BY <4>2 DEF a, b
    <3> QED
      BY <3>2, <3>3
  <2> QED
    BY <2>1, <2>2
<1>9. /\ c \in Seq(Skipped) /\ Len(c) = m.n /\ Gap(0, m.n) = m.n
      /\ Ahead(Chain(KdfRk(r.rk, r.dhs, m.dh)), m.n) = m.key
      /\ \A t \in 1 .. Len(c) : KeyOf(c[t], log[k + t])
  <2> DEFINE rk == r.rk
             a == r.dhs
             b == m.dh
  <2>1. /\ log[i].n + k + 1 = i /\ rk \in Seq(SUBSET KeyPair) /\ a \in KeyPair /\ b \in KeyPair
        /\ log[i].key.root = KdfRk(rk, a, b)
        /\ c = SkipForward(log[i].dh, Chain(KdfRk(rk, a, b)), 0, log[i].n)
        /\ \A j \in DOMAIN log : k < j /\ j <= i => log[j].dh[2] = log[i].dh[2]
    BY <1>1, <1>3, <1>5, <1>7, <1>8
  <2>3. l \in Ratchet /\ log \in Seq(Message) /\ LogOK(q, l, log) /\ q \in Party
        /\ k \in Nat /\ \A j \in DOMAIN log : SentOK(q, l, log[j])
    BY <1>1, <1>8
  <2> HIDE DEF rk, a, b, c, k, q, m, x, f, g
  <2>2. LeadsTo(c, Chain(KdfRk(rk, a, b)), log, i, k)
    BY <2>1, <2>3, FromStart
  <2> QED
    BY <2>2 DEF LeadsTo, rk, a, b, m
<1>10. Target(r, m) = m.key
  BY <1>7, <1>9
\* What is left of the old one.
<1>11. f \in Seq(Skipped) /\ Len(f) = g
  <2> DEFINE dh == r.dhr
             ck == r.ckr
             a == r.nr
             b == m.pn
  <2>1. dh \in KeyPair /\ ck \in ChainKey /\ a \in 0 .. ChainEnd /\ b \in 0 .. ChainEnd
        /\ f = SkipForward(dh, ck, a, b)
    BY <1>3, <1>6
  <2> HIDE DEF dh, ck, a, b, f
  <2>2. LET s == SkipForward(dh, ck, a, b)
        IN s \in Seq(Skipped) /\ Len(s) = Gap(a, b)
    BY <2>1, SkipFacts, Zenon
  <2>3. f \in Seq(Skipped) /\ Len(f) = Gap(a, b)
    BY <2>1, <2>2
  <2> QED
    BY <2>3 DEF a, b
<1>12. ASSUME NEW t \in 1 .. g PROVE KeyOf(f[t], log[n + t])
  <2> DEFINE j == n + t
  <2>1. j \in DOMAIN log /\ n < j /\ j <= i /\ j - n - 1 = t - 1 /\ t \in Nat /\ j \in Nat
        /\ t <= g
    <3> DEFINE d == m.n
               z == Len(log)
    <3>1. /\ g \in Nat /\ n \in Nat /\ i \in Nat /\ d \in Nat /\ d + (n + g) + 1 = i
          /\ DOMAIN log = 1 .. z /\ z \in Nat /\ i <= z
      <4>1. DOMAIN log = 1 .. Len(log) /\ Len(log) \in Nat
        BY <1>1, LenProperties
      <4> QED
        BY <1>1, <1>3, <1>5, <4>1
    <3> HIDE DEF d, z, g
    <3>2. t \in Nat /\ 1 <= t /\ t <= g
      BY <3>1
    <3>3. j \in Nat /\ n < j /\ j <= i /\ 1 <= j /\ j <= z
      BY <3>1, <3>2
    <3>4. j - n - 1 = t - 1
      BY <3>1, <3>2
    <3> QED
      BY <3>1, <3>2, <3>3, <3>4
  <2>2. log[j].dh[2] = r.dhr[2]
    <3>1. \/ log[j].dh[2] = r.dhr[2] /\ r.nr + j <= m.pn + n
          \/ log[j].dh[2] = m.dh[2] /\ m.pn + n < r.nr + j
      <4> HIDE DEF j
      <4> QED
        BY <2>1, NextPlace
    <3>2. ~(m.pn + n < r.nr + j)
      <4> DEFINE a == r.nr
                 b == m.pn
      <4>1. a \in Nat /\ b \in Nat /\ g \in Nat /\ a + g = b /\ j = n + t /\ n \in Nat
            /\ t \in Nat /\ t <= g
        BY <1>1, <1>3, <1>5, <2>1
      <4> HIDE DEF a, b, g, j
      <4>2. ~(b + n < a + j)
        BY <4>1
      <4> QED
        BY <4>2 DEF a, b
    <3> QED
      BY <3>1, <3>2
  <2>3. /\ log[j].dh = r.dhr /\ log[j].n + n + 1 = r.nr + j
        /\ Ahead(r.ckr, t - 1) = log[j].key
    <3>1. r.ckr # NoKey
      BY <1>1
    <3> HIDE DEF j
    <3>2. /\ log[j].dh = r.dhr /\ log[j].n + n + 1 = r.nr + j
          /\ Ahead(r.ckr, j - n - 1) = log[j].key
      BY <2>1, <2>2, <3>1, CurrentPlace
    <3> QED
      BY <2>1, <3>2
  <2>4. log[j].n = r.nr + t - 1
    <3> DEFINE a == log[j].n
               b == r.nr
    <3>1. a + n + 1 = b + j /\ a \in Nat /\ b \in Nat /\ n \in Nat /\ t \in Nat
      <4>1. log[j] \in Message
        BY <1>1, <2>1, LogMember
      <4> QED
        BY <1>1, <1>3, <2>1, <2>3, <4>1, MessageFacts
    <3> HIDE DEF a, b
    <3>2. a = b + t - 1
      BY <3>1
    <3> QED
      BY <3>2 DEF a, b
  <2>5. f[t] = [dh |-> r.dhr, n |-> r.nr + t - 1, key |-> Ahead(r.ckr, t - 1)]
    <3> DEFINE a == r.nr
               b == m.pn
    <3>1. t \in 1 .. Gap(a, b) /\ f = SkipForward(r.dhr, r.ckr, a, b)
      BY <1>6
    <3> HIDE DEF a, b, f
    <3>2. f[t] = [dh |-> r.dhr, n |-> a + t - 1, key |-> Ahead(r.ckr, t - 1)]
      BY <3>1 DEF SkipForward
    <3> QED
      BY <3>2 DEF a
  <2> HIDE DEF j, f
  <2>6. f[t].dh = log[j].dh /\ f[t].n = log[j].n /\ f[t].key = log[j].key
    BY <2>3, <2>4, <2>5
  <2> QED
    BY <2>6 DEF KeyOf, j
<1>13. WithinBudget(r, m) <=> i - n - 1 <= MaxSkip
  <2> DEFINE a == m.n
             b == Len(f)
  <2>1. b + a = i - n - 1
    <3>1. a \in Nat /\ g \in Nat /\ a + (n + g) + 1 = i /\ n \in Nat /\ b = g
      BY <1>1, <1>3, <1>5, <1>11
    <3> HIDE DEF a, b, g
    <3> QED
      BY <3>1
  <2>2. Gap(Working(r, m).nr, m.n) = a
    BY <1>6, <1>9
  <2>3. r.ckr # NoKey
    BY <1>1
  <2> HIDE DEF a, m
  <2> QED
    BY <2>1, <2>2, <2>3 DEF WithinBudget, m
<1> HIDE DEF f, c, g, m
<1>14. /\ Len(f \o c) = Len(f) + Len(c)
       /\ \A t \in 1 .. Len(f \o c) : KeyOf((f \o c)[t], log[n + t])
  <2>1. \A t \in 1 .. Len(f) : KeyOf(f[t], log[n + t])
    BY <1>11, <1>12
  <2>2. \A t \in 1 .. Len(c) : KeyOf(c[t], log[n + Len(f) + t])
    BY <1>9, <1>11
  <2> QED
    BY <1>1, <1>9, <1>11, <2>1, <2>2, Assembled
<1>15. Len(f \o c) + n + 1 = i
  <2> DEFINE a == m.n
  <2>1. Len(f \o c) = g + a /\ a \in Nat /\ g \in Nat /\ a + (n + g) + 1 = i /\ n \in Nat
    BY <1>1, <1>3, <1>5, <1>9, <1>11, <1>14
  <2> HIDE DEF a
  <2> QED
    BY <2>1
<1> QED
  BY <1>1, <1>10, <1>13, <1>14, <1>15 DEF Bridges, f, c, m

\* It is on the first chain there is, of which nothing was received.
LEMMA BridgedFirst ==
  ASSUME NEW p \in Party, NEW r, NEW l, NEW log, NEW n, Facing(p, r, l, log, n),
         NEW i \in DOMAIN log, n < i, OnFirst(p, r, log[i])
  PROVE  Bridges(r, log, n, i)
<1> DEFINE m == log[i]
           q == Peer(p)
           f == Flushed(r, m)
           c == CaughtUp(r, m)
<1>1. /\ r \in Ratchet /\ EndOK(p, r) /\ l \in Ratchet /\ log \in Seq(Message) /\ n = 0
      /\ r.ckr = NoKey /\ Turns(r, m) /\ r.nr = 0 /\ m.dh[2] = First(q)
      /\ m.key.root = KdfRk(r.rk, r.dhs, m.dh)
      /\ LogOK(q, l, log) /\ q \in Party /\ \A j \in DOMAIN log : SentOK(q, l, log[j])
  BY PeerFacts DEF Facing, OnFirst, ReadTo
<1>2. m \in Message /\ i \in Nat
  BY <1>1, LogMember
<1>3. /\ m.n \in Nat /\ r.rk \in Seq(SUBSET KeyPair) /\ r.dhs \in KeyPair /\ m.dh \in KeyPair
  <2> HIDE DEF m
  <2> QED
    BY <1>1, <1>2, RatchetFacts, MessageFacts
<1>4. m.n + 1 = i /\ m.pn = 0
  BY <1>1 DEF LogOK, Begins
<1>5. \A j \in DOMAIN log : 0 < j /\ j <= i => log[j].dh[2] = m.dh[2]
  <2> SUFFICES ASSUME NEW j \in DOMAIN log, j <= i PROVE log[j].dh[2] = m.dh[2]
    OBVIOUS
  <2>1. j \in Nat /\ log[j] \in Message
    BY <1>1, LogMember
  <2>2. CASE j = i
    BY <2>2
  <2>3. CASE j # i
    <3>1. Precedes(log[j], m, i - j)
      BY <1>1, <1>2, <2>1, <2>3 DEF LogOK
    <3>2. log[j].dh[2] <= m.dh[2] /\ m.dh[2] <= log[j].dh[2]
      BY <1>1, <3>1 DEF LogOK, Begins, Precedes
    <3>3. log[j].dh[2] \in Nat /\ m.dh[2] \in Nat
      BY <1>2, <2>1, MessageFacts
    <3> DEFINE x == log[j].dh[2]
               y == m.dh[2]
    <3>4. x <= y /\ y <= x /\ x \in Nat /\ y \in Nat
      BY <3>2, <3>3
    <3> HIDE DEF x, y
    <3>5. x = y
      BY <3>4
    <3> QED
      BY <3>5 DEF x, y
  <2> QED
    BY <2>2, <2>3
<1>6. f = <<>> /\ Working(r, m) = [ck |-> Chain(KdfRk(r.rk, r.dhs, m.dh)), nr |-> 0]
  BY <1>1 DEF Flushed, Working
<1>7. /\ c = SkipForward(m.dh, Chain(KdfRk(r.rk, r.dhs, m.dh)), 0, m.n)
      /\ Target(r, m) = Ahead(Chain(KdfRk(r.rk, r.dhs, m.dh)), Gap(0, m.n))
  BY <1>6 DEF CaughtUp, Target
<1>9. /\ c \in Seq(Skipped) /\ Len(c) = m.n /\ Gap(0, m.n) = m.n
      /\ Ahead(Chain(KdfRk(r.rk, r.dhs, m.dh)), m.n) = m.key
      /\ \A t \in 1 .. Len(c) : KeyOf(c[t], log[0 + t])
  <2> DEFINE rk == r.rk
             a == r.dhs
             b == m.dh
             k == 0
  <2>1. /\ log[i].n + k + 1 = i /\ k \in Nat
        /\ rk \in Seq(SUBSET KeyPair) /\ a \in KeyPair /\ b \in KeyPair
        /\ log[i].key.root = KdfRk(rk, a, b)
        /\ c = SkipForward(log[i].dh, Chain(KdfRk(rk, a, b)), 0, log[i].n)
        /\ \A j \in DOMAIN log : k < j /\ j <= i => log[j].dh[2] = log[i].dh[2]
    BY <1>1, <1>3, <1>4, <1>5, <1>7
  <2>3. l \in Ratchet /\ log \in Seq(Message) /\ LogOK(q, l, log) /\ q \in Party
        /\ \A j \in DOMAIN log : SentOK(q, l, log[j])
    BY <1>1
  <2> HIDE DEF rk, a, b, c, k, q, m, f
  <2>2. LeadsTo(c, Chain(KdfRk(rk, a, b)), log, i, k)
    BY <2>1, <2>3, FromStart
  <2> QED
    BY <2>2 DEF LeadsTo, rk, a, b, m, k
<1>10. Target(r, m) = m.key
  BY <1>7, <1>9
<1>11. f \in Seq(Skipped) /\ Len(f) = 0
  BY <1>6
<1>13. WithinBudget(r, m) <=> i - n - 1 <= MaxSkip
  <2> DEFINE a == m.n
             b == Len(f)
  <2>1. b + a = i - n - 1
    <3>1. a \in Nat /\ a + 1 = i /\ n = 0 /\ b = 0
      BY <1>1, <1>3, <1>4, <1>11
    <3> HIDE DEF a, b
    <3> QED
      BY <3>1
  <2>2. Gap(Working(r, m).nr, m.n) = a
    BY <1>6, <1>9
  <2>3. Gap(r.nr, m.pn) <= MaxSkip
    BY <1>1, <1>4, RatchetAssumption DEF Gap
  <2> HIDE DEF a, m
  <2> QED
    BY <2>1, <2>2, <2>3 DEF WithinBudget, m
<1> HIDE DEF f, c, m
<1>14. /\ Len(f \o c) = Len(f) + Len(c)
       /\ \A t \in 1 .. Len(f \o c) : KeyOf((f \o c)[t], log[n + t])
  <2>1. \A t \in 1 .. Len(f) : KeyOf(f[t], log[n + t])
    BY <1>11
  <2>2. \A t \in 1 .. Len(c) : KeyOf(c[t], log[n + Len(f) + t])
    <3>1. n + Len(f) = 0 /\ n \in Nat
      BY <1>1, <1>11
    <3> QED
      BY <1>9, <3>1
  <2>3. n \in Nat
    BY <1>1
  <2> QED
    BY <1>9, <1>11, <2>1, <2>2, <2>3, Assembled
<1>15. Len(f \o c) + n + 1 = i
  BY <1>1, <1>3, <1>4, <1>9, <1>11, <1>14
<1> QED
  BY <1>1, <1>10, <1>13, <1>14, <1>15 DEF Bridges, f, c, m

\* Whatever chain it is on.
LEMMA Bridged ==
  ASSUME NEW p \in Party, NEW r, NEW l, NEW log, NEW n, Facing(p, r, l, log, n),
         NEW i \in DOMAIN log, n < i
  PROVE  Bridges(r, log, n, i)
  BY WhichChain, BridgedCurrent, BridgedNext, BridgedFirst

(***************************************************************************)
(* The store after an insertion, counted from its end: what a message      *)
(* finds there is as far from the end as keys were stored after it.        *)
(***************************************************************************)
LEMMA BankBack ==
  ASSUME NEW S, NEW store \in Seq(S), NEW keys \in Seq(S), NEW k \in DOMAIN Bank(store, keys)
  PROVE  LET b == Bank(store, keys)
         IN \/ \E x \in DOMAIN store :
                 b[k] = store[x] /\ Len(b) - k = (Len(store) - x) + Len(keys)
            \/ \E t \in DOMAIN keys : b[k] = keys[t] /\ Len(b) - k = Len(keys) - t
<1> DEFINE all == store \o keys
           b == Bank(store, keys)
           d == Gap(MaxSkipStore, Len(store) + Len(keys))
           u == Len(store)
           v == Len(keys)
           x == k + d
<1>1. d \in Nat /\ Len(b) + d = u + v /\ k \in Nat /\ x \in 1 .. u + v /\ b[k] = all[x]
      /\ Len(b) \in Nat
  <2>1. LET e == Gap(MaxSkipStore, Len(store) + Len(keys))
        IN /\ Bank(store, keys) \in Seq(S)
           /\ e \in Nat /\ Len(Bank(store, keys)) + e = Len(store) + Len(keys)
           /\ \A i \in DOMAIN Bank(store, keys) :
                i \in Nat /\ i + e \in 1 .. Len(store) + Len(keys)
                /\ Bank(store, keys)[i] = (store \o keys)[i + e]
    BY BankPosition
  <2>2. b \in Seq(S)
    BY <2>1
  <2>3. Len(b) \in Nat
    BY <2>2, LenProperties
  <2> HIDE DEF all, d, b
  <2> QED
    BY <2>1, <2>3 DEF all, d, b
<1>2. \A i \in 1 .. u + v : all[i] = IF i <= u THEN store[i] ELSE keys[i - u]
  BY ConcatProperties
<1>3. u \in Nat /\ DOMAIN store = 1 .. u /\ v \in Nat /\ DOMAIN keys = 1 .. v
  BY LenProperties
<1> HIDE DEF all, d, b, u, v
<1>4. Len(b) - k = (u + v) - x
  BY <1>1, <1>3
<1>5. CASE x <= u
  <2>1. x \in DOMAIN store /\ b[k] = store[x] /\ Len(b) - k = (u - x) + v
    BY <1>1, <1>2, <1>3, <1>4, <1>5
  <2> HIDE DEF x
  <2> QED
    BY <2>1 DEF b, u, v
<1>6. CASE ~(x <= u)
  <2> DEFINE t == x - u
  <2>1. t \in DOMAIN keys /\ b[k] = keys[t] /\ Len(b) - k = v - t
    BY <1>1, <1>2, <1>3, <1>4, <1>6
  <2> HIDE DEF t, x
  <2> QED
    BY <2>1 DEF b, v
<1> QED
  BY <1>5, <1>6

\* An insertion evicts a key only for MAX_SKIP_STORE later ones.
LEMMA BankKeeps ==
  ASSUME NEW S, NEW store \in Seq(S), NEW keys \in Seq(S)
  PROVE  LET b == Bank(store, keys)
         IN /\ \A x \in DOMAIN store :
                 \/ (Len(store) - x) + Len(keys) >= MaxSkipStore
                 \/ \E k \in DOMAIN b :
                      b[k] = store[x] /\ Len(b) - k = (Len(store) - x) + Len(keys)
            /\ \A t \in DOMAIN keys :
                 \/ Len(keys) - t >= MaxSkipStore
                 \/ \E k \in DOMAIN b : b[k] = keys[t] /\ Len(b) - k = Len(keys) - t
<1> DEFINE all == store \o keys
           b == Bank(store, keys)
           d == Gap(MaxSkipStore, Len(store) + Len(keys))
           u == Len(store)
           v == Len(keys)
<1>1. /\ d \in Nat /\ Len(b) + d = u + v /\ Len(b) \in Nat /\ DOMAIN b = 1 .. Len(b)
      /\ \A k \in DOMAIN b : b[k] = all[k + d]
  <2>1. LET e == Gap(MaxSkipStore, Len(store) + Len(keys))
        IN /\ Bank(store, keys) \in Seq(S)
           /\ e \in Nat /\ Len(Bank(store, keys)) + e = Len(store) + Len(keys)
           /\ \A i \in DOMAIN Bank(store, keys) :
                i \in Nat /\ i + e \in 1 .. Len(store) + Len(keys)
                /\ Bank(store, keys)[i] = (store \o keys)[i + e]
    BY BankPosition
  <2>2. b \in Seq(S)
    BY <2>1
  <2>3. Len(b) \in Nat /\ DOMAIN b = 1 .. Len(b)
    BY <2>2, LenProperties
  <2> HIDE DEF all, d, b
  <2> QED
    BY <2>1, <2>3 DEF all, d, b
<1>2. \A i \in 1 .. u + v : all[i] = IF i <= u THEN store[i] ELSE keys[i - u]
  BY ConcatProperties
<1>3. u \in Nat /\ DOMAIN store = 1 .. u /\ v \in Nat /\ DOMAIN keys = 1 .. v
  BY LenProperties
<1>4. MaxSkipStore \in Nat /\ (d > 0 => MaxSkipStore + d = u + v)
  <2>1. u + v \in Nat /\ MaxSkipStore \in Nat
    BY <1>3, RatchetAssumption
  <2> DEFINE w == u + v
             M == MaxSkipStore
  <2>2. d = Gap(M, w) /\ M \in Nat /\ w \in Nat
    BY <2>1
  <2> HIDE DEF w, M, d
  <2>3. d > 0 => M + d = w
    BY <2>2, GapFacts
  <2> QED
    BY <2>1, <2>3 DEF w, M
<1> HIDE DEF all, d, b, u, v
<1>5. ASSUME NEW x \in 1 .. u + v
      PROVE  \/ (u + v) - x >= MaxSkipStore
             \/ \E k \in DOMAIN b : b[k] = all[x] /\ Len(b) - k = (u + v) - x
  <2>1. CASE x <= d
    BY <1>1, <1>3, <1>4, <2>1
  <2>2. CASE ~(x <= d)
    <3> DEFINE k == x - d
    <3>1. k \in DOMAIN b /\ k + d = x /\ Len(b) - k = (u + v) - x
      BY <1>1, <1>3, <2>2
    <3> HIDE DEF k
    <3>2. b[k] = all[x]
      BY <1>1, <3>1
    <3> QED
      BY <3>1, <3>2
  <2> QED
    BY <2>1, <2>2
<1>6. ASSUME NEW x \in DOMAIN store
      PROVE  \/ (u - x) + v >= MaxSkipStore
             \/ \E k \in DOMAIN b : b[k] = store[x] /\ Len(b) - k = (u - x) + v
  <2>1. x \in 1 .. u + v /\ all[x] = store[x] /\ (u + v) - x = (u - x) + v
    BY <1>2, <1>3
  <2> QED
    BY <1>5, <2>1
<1>7. ASSUME NEW t \in DOMAIN keys
      PROVE  \/ v - t >= MaxSkipStore
             \/ \E k \in DOMAIN b : b[k] = keys[t] /\ Len(b) - k = v - t
  <2> DEFINE x == u + t
  <2>1. x \in 1 .. u + v /\ all[x] = keys[t] /\ (u + v) - x = v - t
    BY <1>2, <1>3
  <2> HIDE DEF x
  <2> QED
    BY <1>5, <2>1
<1> QED
  BY <1>6, <1>7 DEF b, u, v

\* Storing the keys of the messages between the n-th and the i-th.
LEMMA StoreAhead ==
  ASSUME NEW store \in Seq(Skipped), NEW new \in Seq(Skipped), NEW log,
         NEW n \in Nat, NEW i \in Nat, n < i, Len(new) + n + 1 = i,
         NEW counts, NEW now, StoreOK(store, log, n, counts),
         \A t \in 1 .. Len(new) : KeyOf(new[t], log[n + t]),
         \A e \in 1 .. n - 1 : counts[e] > 0 => now[e] > 0,
         n > 0 => now[n] > 0
  PROVE  StoreOK(Bank(store, new), log, i, now)
<1> DEFINE b == Bank(store, new)
           u == Len(store)
           v == Len(new)
<1>1. u \in Nat /\ DOMAIN store = 1 .. u /\ v \in Nat /\ DOMAIN new = 1 .. v /\ v + n + 1 = i
  BY LenProperties
<1>2. /\ \A k \in DOMAIN store : \E e \in 1 .. n - 1 : KeyOf(store[k], log[e]) /\ u - k < n - e
      /\ \A e \in 1 .. n - 1 : \/ counts[e] > 0
                               \/ \E k \in DOMAIN store : KeyOf(store[k], log[e]) /\ u - k < n - e
                               \/ n - e > MaxSkipStore
  BY DEF StoreOK, Holds
<1>3. \A k \in DOMAIN b :
        \/ \E x \in DOMAIN store : b[k] = store[x] /\ Len(b) - k = (u - x) + v
        \/ \E t \in DOMAIN new : b[k] = new[t] /\ Len(b) - k = v - t
  BY BankBack
<1>4. /\ \A x \in DOMAIN store :
           \/ (u - x) + v >= MaxSkipStore
           \/ \E k \in DOMAIN b : b[k] = store[x] /\ Len(b) - k = (u - x) + v
      /\ \A t \in DOMAIN new :
           \/ v - t >= MaxSkipStore
           \/ \E k \in DOMAIN b : b[k] = new[t] /\ Len(b) - k = v - t
  BY BankKeeps
<1>5. MaxSkipStore \in Nat
  BY RatchetAssumption
<1> HIDE DEF b, u, v
<1>6. ASSUME NEW k \in DOMAIN b
      PROVE  \E e \in 1 .. i - 1 : KeyOf(b[k], log[e]) /\ Len(b) - k < i - e
  <2>1. ASSUME NEW x \in DOMAIN store, b[k] = store[x], Len(b) - k = (u - x) + v
        PROVE  \E e \in 1 .. i - 1 : KeyOf(b[k], log[e]) /\ Len(b) - k < i - e
    <3>1. PICK e \in 1 .. n - 1 : KeyOf(store[x], log[e]) /\ u - x < n - e
      BY <1>2
    <3>2. e \in 1 .. i - 1 /\ (u - x) + v < i - e
      BY <1>1, <3>1
    <3> QED
      BY <2>1, <3>1, <3>2
  <2>2. ASSUME NEW t \in DOMAIN new, b[k] = new[t], Len(b) - k = v - t
        PROVE  \E e \in 1 .. i - 1 : KeyOf(b[k], log[e]) /\ Len(b) - k < i - e
    <3> DEFINE e == n + t
    <3>1. e \in 1 .. i - 1 /\ v - t < i - e /\ t \in 1 .. v
      BY <1>1
    <3>2. KeyOf(b[k], log[e])
      BY <2>2, <3>1 DEF v
    <3> HIDE DEF e
    <3> QED
      BY <2>2, <3>1, <3>2
  <2> QED
    BY <1>3, <2>1, <2>2
<1>7. ASSUME NEW e \in 1 .. i - 1
      PROVE  \/ now[e] > 0
             \/ \E k \in DOMAIN b : KeyOf(b[k], log[e]) /\ Len(b) - k < i - e
             \/ i - e > MaxSkipStore
  <2>1. CASE e < n
    <3>1. e \in 1 .. n - 1
      BY <2>1
    <3>2. CASE counts[e] > 0
      BY <3>1, <3>2
    <3>3. ASSUME NEW x \in DOMAIN store, KeyOf(store[x], log[e]), u - x < n - e
          PROVE  \/ \E k \in DOMAIN b : KeyOf(b[k], log[e]) /\ Len(b) - k < i - e
                 \/ i - e > MaxSkipStore
      <4>1. (u - x) + v < i - e
        BY <1>1, <3>1, <3>3
      <4>2. CASE (u - x) + v >= MaxSkipStore
        BY <1>1, <1>5, <3>1, <4>1, <4>2
      <4>3. ASSUME NEW k \in DOMAIN b, b[k] = store[x], Len(b) - k = (u - x) + v
            PROVE  KeyOf(b[k], log[e]) /\ Len(b) - k < i - e
        BY <3>3, <4>1, <4>3
      <4> QED
        BY <1>4, <4>2, <4>3
    <3>4. CASE n - e > MaxSkipStore
      <4>1. i - e > MaxSkipStore
        BY <1>5, <3>1, <3>4
      <4> QED
        BY <4>1
    <3> QED
      BY <1>2, <3>1, <3>2, <3>3, <3>4
  <2>2. CASE e = n
    BY <2>2
  <2>3. CASE n < e
    <3> DEFINE t == e - n
    <3>1. t \in 1 .. v /\ n + t = e /\ v - t < i - e
      BY <1>1, <2>3
    <3>2. KeyOf(new[t], log[e])
      BY <3>1 DEF v
    <3>3. t \in DOMAIN new /\ t \in Nat
      BY <1>1, <3>1
    <3> HIDE DEF t
    <3>4. CASE v - t >= MaxSkipStore
      BY <1>1, <1>5, <3>1, <3>3, <3>4
    <3>5. ASSUME NEW k \in DOMAIN b, b[k] = new[t], Len(b) - k = v - t
          PROVE  KeyOf(b[k], log[e]) /\ Len(b) - k < i - e
      BY <3>1, <3>2, <3>5
    <3> QED
      BY <1>4, <3>3, <3>4, <3>5
  <2> QED
    BY <2>1, <2>2, <2>3
<1> QED
  BY <1>6, <1>7 DEF StoreOK, Holds, b

\* Taking the key of the i-th message out of the store.
LEMMA StoreTaken ==
  ASSUME NEW store \in Seq(Skipped), NEW x \in 1 .. Len(store), NEW log, NEW n \in Nat, NEW i,
         NEW counts, NEW now, StoreOK(store, log, n, counts),
         \A e \in 1 .. n - 1 : counts[e] > 0 => now[e] > 0,
         now[i] > 0,
         \A e \in 1 .. n - 1 : KeyOf(store[x], log[e]) => e = i
  PROVE  StoreOK(RemoveAt(store, x), log, n, now)
<1> DEFINE s == RemoveAt(store, x)
           u == Len(store)
<1>1. u \in Nat /\ DOMAIN store = 1 .. u /\ x \in 1 .. u
  BY LenProperties
<1>2. s \in Seq(Skipped) /\ Len(s) = u - 1 /\ \A k \in 1 .. u - 1 : s[k] = store[IF k < x THEN k ELSE k + 1]
  BY RemoveFacts
<1>3. DOMAIN s = 1 .. u - 1
  BY <1>2, LenProperties
<1>4. /\ \A k \in DOMAIN store : \E e \in 1 .. n - 1 : KeyOf(store[k], log[e]) /\ u - k < n - e
      /\ \A e \in 1 .. n - 1 : \/ counts[e] > 0
                               \/ \E k \in DOMAIN store : KeyOf(store[k], log[e]) /\ u - k < n - e
                               \/ n - e > MaxSkipStore
  BY DEF StoreOK, Holds
<1> HIDE DEF s, u
<1>5. ASSUME NEW k \in DOMAIN s
      PROVE  \E e \in 1 .. n - 1 : KeyOf(s[k], log[e]) /\ Len(s) - k < n - e
  <2> DEFINE y == IF k < x THEN k ELSE k + 1
  <2>1. y \in DOMAIN store /\ s[k] = store[y] /\ y \in Nat /\ (u - 1) - k <= u - y /\ k \in Nat
    BY <1>1, <1>2, <1>3
  <2> HIDE DEF y
  <2>2. PICK e \in 1 .. n - 1 : KeyOf(store[y], log[e]) /\ u - y < n - e
    BY <1>4, <2>1
  <2>3. (u - 1) - k < n - e
    BY <1>1, <2>1, <2>2
  <2> QED
    BY <1>2, <2>1, <2>2, <2>3
<1>6. ASSUME NEW e \in 1 .. n - 1
      PROVE  \/ now[e] > 0
             \/ \E k \in DOMAIN s : KeyOf(s[k], log[e]) /\ Len(s) - k < n - e
             \/ n - e > MaxSkipStore
  <2>1. ASSUME NEW k \in DOMAIN store, KeyOf(store[k], log[e]), u - k < n - e, k # x
        PROVE  \E y \in DOMAIN s : KeyOf(s[y], log[e]) /\ Len(s) - y < n - e
    <3>1. CASE k < x
      <4>1. k \in DOMAIN s /\ s[k] = store[k] /\ (u - 1) - k < n - e
        BY <1>1, <1>2, <1>3, <2>1, <3>1
      <4> QED
        BY <1>2, <2>1, <4>1
    <3>2. CASE ~(k < x)
      <4> DEFINE y == k - 1
      <4>1. y \in DOMAIN s /\ ~(y < x) /\ y + 1 = k /\ (u - 1) - y < n - e
        BY <1>1, <1>3, <2>1, <3>2
      <4>2. s[y] = store[k]
        BY <1>2, <1>3, <4>1
      <4> HIDE DEF y
      <4> QED
        BY <1>2, <2>1, <4>1, <4>2
    <3> QED
      BY <3>1, <3>2
  <2>2. ASSUME KeyOf(store[x], log[e]) PROVE now[e] > 0
    BY <2>2
  <2>3. counts[e] > 0 => now[e] > 0
    OBVIOUS
  <2> QED
    BY <1>4, <2>1, <2>2, <2>3
<1> QED
  BY <1>5, <1>6 DEF StoreOK, Holds, s

(***************************************************************************)
(* What decrypt does to the sending side.                                  *)
(***************************************************************************)
LEMMA StayFields ==
  ASSUME NEW r \in Ratchet, NEW m \in Message, Opens(r, m), IsCached(r, m) \/ ~Turns(r, m)
  PROVE  LET d == Decrypted(r, m)
         IN d.dhs = r.dhs /\ d.rk = r.rk /\ d.cks = r.cks /\ d.ns = r.ns /\ d.pn = r.pn
<1>1. CASE IsCached(r, m)
  <2> DEFINE rest == RemoveAt(r.skipped, Slot(r, m))
  <2>1. Decrypted(r, m) = [r EXCEPT !.skipped = rest]
    BY <1>1 DEF Decrypted
  <2> HIDE DEF rest
  <2> QED
    BY <2>1 DEF Ratchet
<1>2. CASE ~IsCached(r, m) /\ ~Turns(r, m)
  <2> DEFINE ck == Ahead(Target(r, m), 1)
             bank == Bank(r.skipped, Flushed(r, m) \o CaughtUp(r, m))
  <2>1. Decrypted(r, m) = [r EXCEPT !.ckr = ck, !.nr = Succ(m.n), !.skipped = bank]
    BY <1>2 DEF Decrypted
  <2> HIDE DEF ck, bank
  <2> QED
    BY <2>1 DEF Ratchet
<1> QED
  BY <1>1, <1>2

\* What a turn gives the sending side.
LEMMA TurnFields ==
  ASSUME NEW r \in Ratchet, NEW m \in Message, Opens(r, m), ~IsCached(r, m), Turns(r, m)
  PROVE  LET d == Decrypted(r, m)
             rk == KdfRk(KdfRk(r.rk, r.dhs, m.dh), Fresh(r), m.dh)
         IN /\ d.dhs = Fresh(r) /\ d.rk = rk /\ d.cks = Chain(rk)
            /\ d.ns = 0 /\ d.pn = r.ns
<1> DEFINE ck == Ahead(Target(r, m), 1)
           rk == KdfRk(KdfRk(r.rk, r.dhs, m.dh), Fresh(r), m.dh)
           bank == Bank(r.skipped, Flushed(r, m) \o CaughtUp(r, m))
           new == Fresh(r)
           u == Turned(r, m)
<1>1. u = [r EXCEPT !.dhs = new, !.dhr = m.dh, !.rk = rk, !.cks = Chain(rk), !.pn = r.ns, !.ns = 0]
  BY DEF Turned
<1>2. u.skipped = r.skipped
  BY <1>1 DEF Ratchet
<1>3. Decrypted(r, m) = [u EXCEPT !.ckr = ck, !.nr = Succ(m.n), !.skipped = bank]
  <2>1. Decrypted(r, m) = [u EXCEPT !.ckr = ck, !.nr = Succ(m.n),
                             !.skipped = Bank(u.skipped, Flushed(r, m) \o CaughtUp(r, m))]
    BY DEF Decrypted
  <2> QED
    BY <1>2, <2>1
<1> HIDE DEF ck, rk, bank, new, u
<1>4. /\ u.dhs = new /\ u.rk = rk /\ u.cks = Chain(rk) /\ u.ns = 0 /\ u.pn = r.ns
      /\ DOMAIN u = DOMAIN r
  BY <1>1 DEF Ratchet
<1>5. LET d == Decrypted(r, m)
      IN d.dhs = u.dhs /\ d.rk = u.rk /\ d.cks = u.cks /\ d.ns = u.ns /\ d.pn = u.pn
  BY <1>3, <1>4 DEF Ratchet
<1> QED
  BY <1>4, <1>5 DEF rk, new

\* An end that turns takes the lead.
LEMMA LeadTurn ==
  ASSUME NEW p \in Party, NEW r \in Ratchet, NEW l \in Ratchet, EndOK(p, r), Leads(l, r),
         NEW m \in Message, m.dh = l.dhs, m.key.root = KdfRk(r.rk, r.dhs, m.dh),
         Opens(r, m), ~IsCached(r, m), Turns(r, m)
  PROVE  Leads(Decrypted(r, m), l)
<1> DEFINE d == Decrypted(r, m)
<1>1. /\ d.dhs = Fresh(r)
      /\ d.rk = KdfRk(KdfRk(r.rk, r.dhs, m.dh), Fresh(r), m.dh)
  BY TurnFields
<1>2. d.dhr = m.dh /\ d.ckr = Ahead(Target(r, m), 1)
  BY ChainStep
<1>3. d.ckr.root = m.key.root
  <2>1. Target(r, m) = m.key
    BY DEF Opens
  <2>2. m.key \in ChainKey
    BY MessageFacts
  <2> HIDE DEF d
  <2> QED
    BY <1>2, <2>1, <2>2, AheadFacts
<1>4. Fresh(r)[2] = r.dhs[2] + 1 /\ r.dhs[2] \in Nat
  BY FreshFacts, RatchetFacts
<1>5. l.dhr = r.dhs /\ r.dhr # l.dhs /\ l.rk = KdfRk(r.rk, r.dhs, l.dhs)
  BY DEF Leads
<1>6. d.rk = KdfRk(l.rk, l.dhs, d.dhs)
  <2>1. d.rk = KdfRk(l.rk, Fresh(r), l.dhs)
    BY <1>1, <1>5
  <2> QED
    BY <1>1, <2>1, KdfCommutes
<1> HIDE DEF d
<1>7. d.dhs # r.dhs
  BY <1>1, <1>4
<1>8. l.dhr # d.dhs /\ (l.ckr # NoKey => l.dhr[2] + 1 = d.dhs[2])
  BY <1>1, <1>4, <1>5, <1>7
<1>9. d.dhr = l.dhs /\ d.ckr.root = l.rk
  BY <1>2, <1>3, <1>5
<1> QED
  BY <1>6, <1>8, <1>9 DEF Leads, d

\* Nothing changes the lead but a turn: what it depends on.
LEMMA LeadStay ==
  ASSUME NEW r, NEW d, NEW l,
         d.dhs = r.dhs, d.rk = r.rk, d.dhr = r.dhr,
         r.ckr = NoKey <=> d.ckr = NoKey, r.ckr # NoKey => d.ckr.root = r.ckr.root
  PROVE  /\ Leads(r, l) => Leads(d, l)
         /\ Leads(l, r) => Leads(l, d)
  BY DEF Leads

\* An end that turns seals what it sends next under the new key pair.
LEMMA LogTurn ==
  ASSUME NEW p \in Party, NEW r \in Ratchet, NEW d \in Ratchet, NEW log \in Seq(Message),
         LogOK(p, r, log), \A i \in DOMAIN log : SentOK(p, r, log[i]),
         d.dhs[2] = r.dhs[2] + 1, d.pn = r.ns, d.ns = 0, d.cks # NoKey
  PROVE  LogOK(p, d, log)
<1>1. r.dhs[2] \in Nat /\ r.ns \in Nat /\ First(p) \in {0, 1}
  BY RatchetFacts, ParityFacts
<1> DEFINE a == Sealed(r)
           b == Sealed(d)
           z == Len(log) + 1
<1>2. /\ a.dh = r.dhs /\ a.n = r.ns
      /\ b.dh = d.dhs /\ b.n = 0 /\ b.pn = r.ns
  BY DEF Sealed
<1>3. /\ Len(log) <= MaxSent
      /\ r.cks = NoKey => Len(log) = 0 /\ r.ns = 0 /\ r.dhs[2] + 1 = First(p)
      /\ r.cks # NoKey => Begins(p, a, z)
      /\ \A i \in DOMAIN log : Begins(p, log[i], i) /\ Precedes(log[i], a, z - i)
      /\ \A i, j \in DOMAIN log : i < j => Precedes(log[i], log[j], j - i)
  BY DEF LogOK
<1>4. z \in Nat /\ DOMAIN log = 1 .. Len(log) /\ Len(log) \in Nat
  BY LenProperties
<1> HIDE DEF a, b, z
<1>5. Begins(p, b, z)
  <2>1. CASE r.cks = NoKey
    <3>1. Len(log) = 0 /\ r.ns = 0 /\ d.dhs[2] = First(p)
      BY <1>3, <2>1
    <3>2. z = 1
      BY <3>1 DEF z
    <3> QED
      BY <1>1, <1>2, <3>1, <3>2 DEF Begins
  <2>2. CASE r.cks # NoKey
    <3>1. First(p) <= r.dhs[2]
      BY <1>2, <1>3, <2>2 DEF Begins
    <3>2. First(p) <= d.dhs[2] /\ d.dhs[2] # First(p)
      <4> DEFINE x == r.dhs[2]
                 y == First(p)
      <4>1. y <= x /\ x \in Nat /\ y \in {0, 1} /\ d.dhs[2] = x + 1
        BY <1>1, <3>1
      <4> HIDE DEF x, y
      <4>2. y <= d.dhs[2] /\ d.dhs[2] # y
        BY <4>1
      <4> QED
        BY <4>2 DEF y
    <3> QED
      BY <1>2, <3>2 DEF Begins
  <2> QED
    BY <2>1, <2>2
<1>6. ASSUME NEW i \in DOMAIN log PROVE Precedes(log[i], b, z - i)
  <2> DEFINE m == log[i]
             x == m.dh[2]
             y == r.dhs[2]
  <2>1. m \in Message /\ SentOK(p, r, m) /\ Precedes(m, a, z - i)
    BY <1>3, LogMember
  <2>2. x \in Nat /\ x <= y /\ y \in Nat /\ m.n \in Nat
    <3> HIDE DEF m
    <3> QED
      BY <1>1, <2>1, MessageFacts DEF SentOK
  <2>3. b.dh[2] = y + 1
    BY <1>2
  <2>4. ASSUME x = y PROVE m.n < b.pn /\ b.pn + b.n = m.n + (z - i)
    <3>1. a.n = m.n + (z - i)
      BY <1>2, <2>1, <2>4 DEF Precedes
    <3>2. i \in Nat /\ i <= Len(log) /\ z = Len(log) + 1
      BY <1>4, LogMember DEF z
    <3> DEFINE u == m.n
    <3>3. b.pn = u + (z - i) /\ b.n = 0 /\ u \in Nat /\ i < z
      BY <1>2, <1>4, <2>2, <3>1, <3>2
    <3> HIDE DEF u
    <3>4. u < b.pn /\ b.pn + b.n = u + (z - i)
      BY <1>4, <3>2, <3>3
    <3> QED
      BY <3>4 DEF u
  <2> HIDE DEF x, y, m
  <2>5. x <= y + 1 /\ x # y + 1 /\ (y + 1 = x + 1 => x = y)
    BY <2>2
  <2> QED
    BY <2>3, <2>4, <2>5 DEF Precedes, x, m
<1> QED
  BY <1>3, <1>5, <1>6 DEF LogOK, b, z

\* What is sealed follows all that was, and so will what is sealed next.
LEMMA LogSealed ==
  ASSUME NEW p \in Party, NEW r \in Ratchet, EndOK(p, r), CanEncrypt(r),
         NEW log \in Seq(Message), LogOK(p, r, log), Len(log) < MaxSent
  PROVE  LogOK(p, Encrypted(r), Append(log, Sealed(r)))
<1> DEFINE a == Sealed(r)
           e == Encrypted(r)
           b == Sealed(e)
           z == Len(log) + 1
           all == Append(log, a)
<1>1. r.cks # NoKey /\ r.cks \in ChainKey /\ r.ns \in Nat /\ Succ(r.ns) = r.ns + 1
      /\ MaxSent \in Nat
  BY RatchetFacts, PairAssumption DEF CanEncrypt, Succ
<1>2. e.dhs = r.dhs /\ e.pn = r.pn /\ e.ns = r.ns + 1 /\ e.cks = Ahead(r.cks, 1)
  BY <1>1 DEF Encrypted, Ratchet
<1>3. /\ a.dh = r.dhs /\ a.pn = r.pn /\ a.n = r.ns /\ a.key = r.cks
      /\ b.dh = r.dhs /\ b.pn = r.pn /\ b.n = r.ns + 1 /\ b.key.root = r.cks.root
  <2>1. Ahead(r.cks, 1).root = r.cks.root
    BY <1>1, AheadFacts
  <2> HIDE DEF e
  <2> QED
    BY <1>2, <2>1 DEF Sealed
<1>4. e.cks # NoKey
  <2>1. Ahead(r.cks, 1) \in ChainKey
    BY <1>1, AheadFacts
  <2> HIDE DEF e
  <2> QED
    BY <1>2, <2>1, PairAssumption
<1>5. a \in Message
  BY <1>1 DEF Sealed, Message, Ratchet
<1>6. /\ Len(log) \in Nat /\ DOMAIN log = 1 .. Len(log) /\ z \in Nat
      /\ all \in Seq(Message) /\ Len(all) = z /\ DOMAIN all = 1 .. z /\ all[z] = a
      /\ \A i \in DOMAIN log : all[i] = log[i]
  <2> HIDE DEF a
  <2> QED
    BY <1>5, AppendProperties, LenProperties
<1>7. /\ Begins(p, a, z)
      /\ \A i \in DOMAIN log : Begins(p, log[i], i) /\ Precedes(log[i], a, z - i)
      /\ \A i, j \in DOMAIN log : i < j => Precedes(log[i], log[j], j - i)
  BY <1>1 DEF LogOK
<1> HIDE DEF a, b, e, all, z
<1>8. Begins(p, b, z + 1)
  <2>1. b.n + 1 = z + 1 <=> a.n + 1 = z
    BY <1>1, <1>3, <1>6
  <2> QED
    BY <1>3, <1>7, <2>1 DEF Begins
<1>9. ASSUME NEW i \in DOMAIN log PROVE Precedes(log[i], b, (z + 1) - i)
  <2> DEFINE m == log[i]
  <2>1. m \in Message /\ i \in Nat /\ Precedes(m, a, z - i)
    BY <1>7, LogMember
  <2> HIDE DEF m
  <2>2. m.n \in Nat
    BY <2>1, MessageFacts
  <2>3. a.n = m.n + (z - i) => b.n = m.n + ((z + 1) - i)
    BY <1>1, <1>3, <1>6, <2>1, <2>2
  <2>4. r.pn \in Nat
    BY RatchetAssumption DEF Ratchet
  <2>5. a.pn + a.n = m.n + (z - i) => b.pn + b.n = m.n + ((z + 1) - i)
    <3> DEFINE c == m.n
               u == r.pn
               v == r.ns
    <3>1. c \in Nat /\ u \in Nat /\ v \in Nat /\ z \in Nat /\ i \in Nat
          /\ a.pn = u /\ b.pn = u /\ a.n = v /\ b.n = v + 1
      BY <1>1, <1>3, <1>6, <2>1, <2>2, <2>4
    <3> HIDE DEF c, u, v
    <3>2. u + v = c + (z - i) => u + (v + 1) = c + ((z + 1) - i)
      BY <3>1
    <3> QED
      BY <3>1, <3>2 DEF c
  <2>6. Precedes(m, b, (z + 1) - i)
    BY <1>3, <2>1, <2>3, <2>5 DEF Precedes
  <2> QED
    BY <2>6 DEF m
<1>10. Precedes(a, b, 1)
  <2>1. r.dhs[2] \in Nat
    BY RatchetFacts
  <2>2. b.dh[2] = a.dh[2] /\ b.dh[2] # a.dh[2] + 1 /\ a.dh[2] <= b.dh[2]
    BY <1>3, <2>1
  <2> QED
    BY <1>3, <2>2 DEF Precedes
<1>11. \A i \in 1 .. z : i \in DOMAIN log \/ i = z
  BY <1>6 DEF z
<1>12. ASSUME NEW i \in DOMAIN all PROVE Begins(p, all[i], i) /\ Precedes(all[i], b, (z + 1) - i)
  <2>1. CASE i \in DOMAIN log
    BY <1>6, <1>7, <1>9, <2>1
  <2>2. CASE i = z
    <3>1. (z + 1) - i = 1
      BY <1>6, <2>2
    <3> QED
      BY <1>6, <1>7, <1>10, <2>2, <3>1
  <2> QED
    BY <1>6, <1>11, <2>1, <2>2
<1>13. ASSUME NEW i \in DOMAIN all, NEW j \in DOMAIN all, i < j
       PROVE  Precedes(all[i], all[j], j - i)
  <2>1. i \in DOMAIN log
    BY <1>6, <1>11, <1>13
  <2>2. CASE j \in DOMAIN log
    BY <1>6, <1>7, <1>13, <2>1, <2>2
  <2>3. CASE j = z
    BY <1>6, <1>7, <2>1, <2>3
  <2> QED
    BY <1>6, <1>11, <2>2, <2>3
<1>14. Len(all) <= MaxSent
  BY <1>1, <1>6 DEF z
<1>15. \A i \in DOMAIN all : Len(all) + 1 - i = (z + 1) - i
  BY <1>6
<1>16. /\ e.cks # NoKey => Begins(p, b, Len(all) + 1)
       /\ \A i \in DOMAIN all : Begins(p, all[i], i) /\ Precedes(all[i], b, Len(all) + 1 - i)
  BY <1>6, <1>8, <1>12, <1>15
<1> QED
  BY <1>4, <1>13, <1>14, <1>16 DEF LogOK, e, all, b, a

(***************************************************************************)
(* The steps.                                                              *)
(***************************************************************************)

\* What the invariants say of one party.
LEMMA FacingNow ==
  ASSUME IInv, BridgeInv, NEW p \in Party
  PROVE  /\ Facing(p, end[p], end[Peer(p)], sent[Peer(p)], Reached(p))
         /\ Reached(p) \in Nat /\ Peer(p) \in Party /\ Peer(p) # p
         /\ Len(end[p].skipped) <= MaxSkipStore
         /\ end[p].skipped \in Seq(Skipped)
<1> DEFINE q == Peer(p)
           n == Reached(p)
<1>1. q \in Party /\ q # p /\ Peer(q) = p
  BY PeerFacts
<1>2. n \in Nat
  <2>1. IsFurthest(Arrived(p), n)
    BY DEF BridgeInv
  <2> QED
    BY <2>1 DEF IsFurthest, Arrived
<1>3. /\ end[p] \in Ratchet /\ end[q] \in Ratchet /\ sent[q] \in Seq(Message)
      /\ EndOK(p, end[p]) /\ EndOK(q, end[q]) /\ Len(end[p].skipped) <= MaxSkipStore
      /\ \A i \in DOMAIN sent[q] : SentOK(q, end[q], sent[q][i])
  BY <1>1 DEF IInv, TypeOK
<1>4. LogOK(q, end[q], sent[q]) /\ ReadTo(end[p], sent[q], n)
  BY <1>1 DEF BridgeInv
<1>5. Leads(end[p], end[q]) \/ Leads(end[q], end[p])
  <2>1. PICK x \in Party : Leads(end[x], end[Peer(x)])
    BY DEF BridgeInv
  <2>2. x = p \/ x = q
    BY PairAssumption DEF Peer, Party
  <2> QED
    BY <1>1, <2>1, <2>2
<1>6. end[p].skipped \in Seq(Skipped)
  BY <1>3, RatchetFacts
<1> HIDE DEF n, q
<1>7. Facing(p, end[p], end[q], sent[q], n)
  BY <1>2, <1>3, <1>4, <1>5 DEF Facing, q
<1> QED
  BY <1>1, <1>2, <1>3, <1>6, <1>7 DEF n, q

\* All messages up to the n-th are behind the receiving chain.
LEMMA BehindReach ==
  ASSUME NEW p \in Party, NEW r, NEW l, NEW log, NEW n, Facing(p, r, l, log, n),
         NEW i \in DOMAIN log, i <= n
  PROVE  Behind(r.ckr, log[i].key)
<1> DEFINE q == Peer(p)
           x == log[n]
           m == log[i]
<1>1. /\ l \in Ratchet /\ log \in Seq(Message) /\ n \in Nat /\ LogOK(q, l, log) /\ q \in Party
      /\ \A k \in DOMAIN log : SentOK(q, l, log[k])
  BY PeerFacts DEF Facing
<1>2. i \in Nat /\ i >= 1 /\ m \in Message
  BY <1>1, LogMember
<1>3. r.ckr # NoKey /\ n \in DOMAIN log /\ r.ckr = Ahead(x.key, 1)
  <2>1. n # 0
    BY <1>1, <1>2
  <2> QED
    BY <2>1 DEF Facing, ReadTo
<1>4. x \in Message /\ SentOK(q, l, x) /\ SentOK(q, l, m)
  BY <1>1, <1>3, LogMember
<1>5. /\ x.key \in ChainKey /\ x.key.step \in Nat /\ x.dh[2] \in Nat /\ m.dh[2] \in Nat
      /\ x.n \in Nat /\ m.n \in Nat /\ x.key.step = x.n /\ m.key.step = m.n
      /\ Len(x.key.root) = 2 * x.dh[2] + Parity(q) /\ Len(m.key.root) = 2 * m.dh[2] + Parity(q)
  <2>1. /\ x.key.step = x.n /\ m.key.step = m.n
        /\ Len(x.key.root) = 2 * x.dh[2] + Parity(q) /\ Len(m.key.root) = 2 * m.dh[2] + Parity(q)
    BY <1>4 DEF SentOK
  <2> HIDE DEF x, m
  <2> QED
    BY <1>2, <1>4, <2>1, MessageFacts
<1>6. r.ckr.root = x.key.root /\ r.ckr.step = x.key.step + 1
  <2> DEFINE k == x.key
             one == 1
  <2>1. k \in ChainKey /\ one \in Nat /\ r.ckr = Ahead(k, one)
    BY <1>3, <1>5
  <2> HIDE DEF k, one
  <2>2. r.ckr.root = k.root /\ r.ckr.step = k.step + one
    BY <2>1, AheadFacts
  <2> QED
    BY <2>2 DEF k, one
<1>7. m.dh[2] <= x.dh[2] /\ (m.dh[2] = x.dh[2] => m.key.root = x.key.root /\ m.n <= x.n)
  <2>1. CASE i = n
    <3>1. m = x
      BY <2>1
    <3> HIDE DEF m, x
    <3> QED
      BY <1>5, <3>1
  <2>2. CASE i # n
    <3>1. Precedes(m, x, n - i) /\ i < n
      BY <1>1, <1>2, <1>3, <2>2 DEF LogOK
    <3> HIDE DEF m, x
    <3>2. x.n = m.n + (n - i) => m.n <= x.n
      BY <1>1, <1>2, <1>5, <3>1
    <3> QED
      BY <3>1, <3>2 DEF Precedes
  <2> QED
    BY <2>1, <2>2
<1> HIDE DEF m, x, q
<1>8. CASE m.dh[2] = x.dh[2]
  <2>1. m.key.root = r.ckr.root /\ m.key.step < r.ckr.step
    BY <1>5, <1>6, <1>7, <1>8
  <2> QED
    BY <1>3, <2>1 DEF Behind, m
<1>9. CASE m.dh[2] # x.dh[2]
  <2> DEFINE a == m.dh[2]
             b == x.dh[2]
             c == Parity(q)
  <2>1. a \in Nat /\ b \in Nat /\ a <= b /\ a # b /\ c \in {0, 1}
    BY <1>5, <1>7, <1>9 DEF Parity
  <2> HIDE DEF a, b, c
  <2>2. 2 * a + c < 2 * b + c
    BY <2>1
  <2>3. Len(m.key.root) < Len(r.ckr.root)
    BY <1>5, <1>6, <2>2 DEF a, b, c
  <2> QED
    BY <1>3, <2>3 DEF Behind, m
<1> QED
  BY <1>8, <1>9

\* No two messages are at one place.
Distinct(log) ==
  \A x, y \in DOMAIN log : x # y => log[x].dh # log[y].dh \/ log[x].n # log[y].n

\* The k-th key of the store is that of the i-th message and of no other before the n-th.
IsKeyOf(store, k, log, i, n) ==
  /\ k \in 1 .. Len(store) /\ i \in 1 .. n - 1 /\ KeyOf(store[k], log[i])
  /\ \A e \in 1 .. n - 1 : KeyOf(store[k], log[e]) => e = i

\* A stored key found for a message is that message's, which is before the n-th.
LEMMA StoredIs ==
  ASSUME NEW p \in Party, NEW r, NEW l, NEW log, NEW n, Facing(p, r, l, log, n),
         Distinct(log), NEW counts, StoreOK(r.skipped, log, n, counts),
         NEW i \in DOMAIN log, NEW k \in Slots(r, log[i])
  PROVE  IsKeyOf(r.skipped, k, log, i, n)
<1>1. r \in Ratchet /\ log \in Seq(Message) /\ n \in Nat /\ ReadTo(r, log, n)
  BY DEF Facing
<1>2. /\ k \in DOMAIN r.skipped /\ r.skipped[k].dh = log[i].dh /\ r.skipped[k].n = log[i].n
  BY DEF Slots
<1>3. k \in 1 .. Len(r.skipped)
  BY <1>1, <1>2, RatchetFacts, LenProperties
<1>4. \A e \in 1 .. n - 1 : e \in DOMAIN log
  <2> SUFFICES ASSUME NEW e \in 1 .. n - 1 PROVE e \in DOMAIN log
    OBVIOUS
  <2>1. n # 0
    BY <1>1
  <2>2. n \in DOMAIN log
    BY <1>1, <2>1 DEF ReadTo
  <2>3. DOMAIN log = 1 .. Len(log) /\ Len(log) \in Nat
    BY <1>1, LenProperties
  <2> QED
    BY <1>1, <2>2, <2>3
<1>5. \A e \in 1 .. n - 1 : KeyOf(r.skipped[k], log[e]) => e = i
  BY <1>2, <1>4 DEF KeyOf, Distinct
<1>6. PICK e \in 1 .. n - 1 : KeyOf(r.skipped[k], log[e])
  BY <1>2 DEF StoreOK, Holds
<1>7. e = i
  BY <1>5, <1>6
<1> QED
  BY <1>3, <1>5, <1>6, <1>7 DEF IsKeyOf

\* Opening a message moves an end on to it, or takes its key out of the store.
LEMMA OpenedOn ==
  ASSUME NEW p \in Party, NEW r, NEW l, NEW log, NEW n, Facing(p, r, l, log, n),
         Distinct(log), Len(r.skipped) <= MaxSkipStore,
         NEW counts, NEW now, StoreOK(r.skipped, log, n, counts),
         NEW i \in DOMAIN log, log[i].n < ChainEnd, Opens(r, log[i]),
         \A e \in 1 .. n - 1 : counts[e] > 0 => now[e] > 0,
         n > 0 => now[n] > 0, now[i] > 0
  PROVE  LET d == Decrypted(r, log[i])
         IN /\ n < i => ReadTo(d, log, i) /\ StoreOK(d.skipped, log, i, now)
            /\ ~(n < i) => ReadTo(d, log, n) /\ StoreOK(d.skipped, log, n, now)
            /\ (Leads(d, l) \/ Leads(l, d))
<1> DEFINE m == log[i]
           d == Decrypted(r, m)
           s == r.skipped
<1>1. /\ r \in Ratchet /\ EndOK(p, r) /\ l \in Ratchet /\ log \in Seq(Message) /\ n \in Nat
      /\ ReadTo(r, log, n) /\ (Leads(r, l) \/ Leads(l, r))
  BY DEF Facing
<1>2. m \in Message /\ i \in Nat /\ i >= 1
  BY <1>1, LogMember
<1>3. s \in Seq(Skipped)
  BY <1>1, RatchetFacts
<1>4. CASE IsCached(r, m)
  <2> DEFINE x == Slot(r, m)
  <2>1. x \in Slots(r, log[i])
    BY <1>4 DEF Slot, IsCached
  <2>2. /\ x \in 1 .. Len(s) /\ i \in 1 .. n - 1 /\ KeyOf(s[x], m)
        /\ \A e \in 1 .. n - 1 : KeyOf(s[x], log[e]) => e = i
    <3> HIDE DEF x, s, m, d
    <3>1. IsKeyOf(r.skipped, x, log, i, n)
      BY <2>1, StoredIs
    <3> QED
      BY <3>1 DEF IsKeyOf, s, m
  <2>3. /\ d.dhs = r.dhs /\ d.ckr = r.ckr /\ d.dhr = r.dhr /\ d.nr = r.nr
    <3> HIDE DEF m
    <3> QED
      BY <1>1, <1>2, <1>4, OpenedFromStore DEF m
  <2>4. d.rk = r.rk /\ d.skipped = RemoveAt(s, x)
    <3>1. d = [r EXCEPT !.skipped = RemoveAt(s, x)]
      BY <1>4 DEF Decrypted
    <3> HIDE DEF x, d, s
    <3> QED
      BY <1>1, <3>1 DEF Ratchet
  <2> HIDE DEF d, x, m
  <2>5. ReadTo(d, log, n)
    BY <1>1, <2>3 DEF ReadTo
  <2>6. StoreOK(d.skipped, log, n, now)
    <3> HIDE DEF s
    <3>1. StoreOK(s, log, n, counts)
      BY DEF s
    <3>2. StoreOK(RemoveAt(s, x), log, n, now)
      BY <1>1, <1>3, <2>2, <3>1, StoreTaken
    <3> QED
      BY <2>4, <3>2
  <2>7. Leads(d, l) \/ Leads(l, d)
    BY <1>1, <2>3, <2>4, LeadStay
  <2>8. ~(n < i)
    BY <1>1, <1>2, <2>2
  <2> QED
    BY <2>5, <2>6, <2>7, <2>8 DEF d, m
<1>5. CASE ~IsCached(r, m)
  <2>1. n < i
    <3>1. ~Behind(r.ckr, m.key)
      <4> HIDE DEF m
      <4> QED
        BY <1>1, <1>2, <1>5, OpenedByChain DEF m
    <3>2. ~(i <= n)
      BY <3>1, BehindReach
    <3> QED
      BY <1>1, <1>2, <3>2
  <2> DEFINE new == Flushed(r, m) \o CaughtUp(r, m)
  <2>2. /\ Turns(r, m) \/ r.ckr # NoKey
        /\ Target(r, m) = m.key
        /\ Len(new) + n + 1 = i
        /\ \A t \in 1 .. Len(new) : KeyOf(new[t], log[n + t])
    <3>1. Bridges(r, log, n, i)
      BY <2>1, Bridged
    <3> QED
      BY <3>1 DEF Bridges
  <2>3. new \in Seq(Skipped)
    <3> HIDE DEF m
    <3> QED
      BY <1>1, <1>2, <2>2, NewKeys
  <2>4. /\ d.ckr = Ahead(m.key, 1) /\ d.nr = Succ(m.n) /\ d.dhr = m.dh
        /\ d.skipped = Bank(s, new)
    <3>1. /\ d.ckr = Ahead(Target(r, m), 1) /\ d.nr = Succ(m.n) /\ d.dhr = m.dh
          /\ d.skipped = Bank(s, new)
      <4> HIDE DEF m
      <4> QED
        BY <1>1, <1>2, <1>5, ChainStep DEF m
    <3> QED
      BY <2>2, <3>1
  <2> HIDE DEF d, new, m
  <2>5. m.n \in Nat /\ m.key \in ChainKey
    BY <1>2, MessageFacts
  <2>6. Ahead(m.key, 1) # NoKey /\ Ahead(m.key, 1).root = m.key.root
    <3>1. Ahead(m.key, 1) \in ChainKey /\ Ahead(m.key, 1).root = m.key.root
      BY <2>5, AheadFacts
    <3> QED
      BY <3>1, PairAssumption
  <2>7. ReadTo(d, log, i)
    <3>1. Succ(m.n) = m.n + 1
      BY <2>5, RatchetAssumption DEF Succ, m
    <3> QED
      BY <2>4, <2>6, <3>1 DEF ReadTo, m
  <2>8. StoreOK(d.skipped, log, i, now)
    <3> HIDE DEF s
    <3>1. StoreOK(s, log, n, counts)
      BY DEF s
    <3>2. StoreOK(Bank(s, new), log, i, now)
      BY <1>1, <1>2, <1>3, <2>1, <2>2, <2>3, <3>1, StoreAhead
    <3> QED
      BY <2>4, <3>2
  <2>9. Leads(d, l) \/ Leads(l, d)
    <3>1. /\ OnCurrent(r, m) \/ OnNext(r, m) \/ OnFirst(p, r, m)
          /\ Turns(r, m) => Leads(l, r) /\ m.dh = l.dhs
      BY <2>1, WhichChain DEF m
    <3>2. CASE Turns(r, m)
      <4>1. m.key.root = KdfRk(r.rk, r.dhs, m.dh)
        BY <3>1, <3>2 DEF OnCurrent, OnNext, OnFirst, Turns
      <4>2. Opens(r, m)
        BY DEF m
      <4>3. Leads(Decrypted(r, m), l)
        BY <1>1, <1>2, <1>5, <3>1, <3>2, <4>1, <4>2, LeadTurn
      <4> QED
        BY <4>3 DEF d
    <3>3. CASE ~Turns(r, m)
      <4>1. r.ckr # NoKey /\ m.dh = r.dhr
        BY <2>2, <3>3 DEF Turns
      <4>2. d.dhs = r.dhs /\ d.rk = r.rk
        BY <1>1, <1>2, <3>3, StayFields DEF d, m
      <4>3. m.key.root = r.ckr.root
        <5>1. n \in DOMAIN log /\ r.dhr = log[n].dh
          BY <1>1, <4>1 DEF ReadTo
        <5>2. r.ckr \in ChainKey /\ log[i].dh[2] = r.dhr[2]
          BY <1>1, <4>1, RatchetFacts DEF m
        <5>3. Ahead(r.ckr, i - n - 1) = m.key
          BY <2>1, <4>1, <5>2, CurrentPlace DEF m
        <5>4. i - n - 1 \in Nat
          BY <1>1, <1>2, <2>1
        <5> DEFINE k == i - n - 1
        <5> HIDE DEF k
        <5>5. Ahead(r.ckr, k).root = r.ckr.root
          BY <5>2, <5>4, AheadFacts DEF k
        <5> QED
          BY <5>3, <5>5 DEF k
      <4>4. d.ckr # NoKey /\ d.ckr.root = r.ckr.root /\ d.dhr = r.dhr
        BY <2>4, <2>6, <4>1, <4>3
      <4> QED
        BY <1>1, <4>1, <4>2, <4>4, LeadStay
    <3> QED
      BY <3>2, <3>3
  <2> QED
    BY <2>1, <2>7, <2>8, <2>9 DEF d, m
<1> QED
  BY <1>4, <1>5

\* Nor does opening a message disturb what the end itself sent.
LEMMA OpenedLog ==
  ASSUME NEW p \in Party, NEW r \in Ratchet, EndOK(p, r), Len(r.skipped) <= MaxSkipStore,
         NEW m \in Message, Opens(r, m),
         NEW log \in Seq(Message), LogOK(p, r, log), \A i \in DOMAIN log : SentOK(p, r, log[i])
  PROVE  LogOK(p, Decrypted(r, m), log)
<1> DEFINE d == Decrypted(r, m)
<1>1. CASE IsCached(r, m) \/ ~Turns(r, m)
  <2>1. d.dhs = r.dhs /\ d.cks = r.cks /\ d.ns = r.ns /\ d.pn = r.pn
    BY <1>1, StayFields
  <2> HIDE DEF d
  <2>2. Sealed(d) = Sealed(r)
    BY <2>1 DEF Sealed
  <2>3. LogOK(p, d, log)
    BY <2>1, <2>2 DEF LogOK
  <2> QED
    BY <2>3 DEF d
<1>2. CASE ~IsCached(r, m) /\ Turns(r, m)
  <2> DEFINE rk1 == KdfRk(r.rk, r.dhs, m.dh)
             rk == KdfRk(rk1, Fresh(r), m.dh)
  <2>1. d.dhs = Fresh(r) /\ d.cks = Chain(rk) /\ d.ns = 0 /\ d.pn = r.ns
    BY <1>2, TurnFields
  <2>2. d \in Ratchet
    BY OpeningFacts
  <2>3. Fresh(r)[2] = r.dhs[2] + 1 /\ Fresh(r) \in KeyPair
    BY FreshFacts
  <2>4. Chain(rk) # NoKey
    <3>1. r.rk \in Seq(SUBSET KeyPair) /\ r.dhs \in KeyPair /\ m.dh \in KeyPair
      BY RatchetFacts, MessageFacts
    <3>2. rk1 \in Seq(SUBSET KeyPair)
      BY <3>1, KdfFacts
    <3> HIDE DEF rk1
    <3>3. Chain(rk) \in ChainKey
      BY <2>3, <3>1, <3>2, KdfFacts
    <3> QED
      BY <3>3, PairAssumption
  <2> HIDE DEF d, rk
  <2>5. d.dhs[2] = r.dhs[2] + 1 /\ d.cks # NoKey
    BY <2>1, <2>3, <2>4
  <2>6. LogOK(p, d, log)
    BY <2>1, <2>2, <2>5, LogTurn
  <2> QED
    BY <2>6 DEF d
<1> QED
  BY <1>1, <1>2

\* Whether the i-th message opens, when the n-th is the furthest opened so far.
OpensOK(r, log, i, n) ==
  IF i > n THEN Opens(r, log[i]) <=> i - n - 1 <= MaxSkip
           ELSE Opens(r, log[i]) \/ n - i > MaxSkipStore

\* A message beyond the n-th is derived within the budget; one before it is in
\* the store, or so many later ones were stored that it is no longer.
LEMMA OpensWhen ==
  ASSUME NEW p \in Party, NEW r, NEW l, NEW log, NEW n, Facing(p, r, l, log, n),
         Distinct(log), NEW counts, StoreOK(r.skipped, log, n, counts),
         NEW i \in DOMAIN log, ~(counts[i] > 0), n > 0 => counts[n] > 0
  PROVE  OpensOK(r, log, i, n)
<1>1. r \in Ratchet /\ log \in Seq(Message) /\ n \in Nat
  BY DEF Facing
<1>2. i \in Nat /\ i >= 1
  BY <1>1, LogMember
<1>3. \A k \in Slots(r, log[i]) : IsKeyOf(r.skipped, k, log, i, n)
  BY StoredIs
<1>4. CASE i > n
  <2>1. ~IsCached(r, log[i])
    <3> SUFFICES ASSUME NEW k \in Slots(r, log[i]) PROVE FALSE
      BY DEF IsCached
    <3>1. i \in 1 .. n - 1
      BY <1>3 DEF IsKeyOf
    <3> QED
      BY <1>1, <1>2, <1>4, <3>1
  <2>2. Bridges(r, log, n, i)
    <3>1. n < i
      BY <1>1, <1>2, <1>4
    <3> QED
      BY <3>1, Bridged
  <2>3. Opens(r, log[i]) <=> i - n - 1 <= MaxSkip
    BY <2>1, <2>2 DEF Opens, Bridges
  <2> QED
    BY <1>4, <2>3 DEF OpensOK
<1>5. CASE ~(i > n)
  <2>1. i # n
    BY <1>2
  <2>2. i \in 1 .. n - 1
    BY <1>1, <1>2, <1>5, <2>1
  <2>3. CASE n - i > MaxSkipStore
    BY <1>5, <2>3 DEF OpensOK
  <2>4. CASE \E k \in DOMAIN r.skipped : Holds(r.skipped, k, log, i, n)
    <3>1. PICK k \in DOMAIN r.skipped : KeyOf(r.skipped[k], log[i])
      BY <2>4 DEF Holds
    <3>2. k \in Slots(r, log[i])
      BY <3>1 DEF Slots, KeyOf
    <3>3. IsCached(r, log[i]) /\ Slot(r, log[i]) \in Slots(r, log[i])
      BY <3>2 DEF IsCached, Slot
    <3>4. r.skipped[Slot(r, log[i])].key = log[i].key
      BY <1>3, <3>3 DEF IsKeyOf, KeyOf
    <3> QED
      BY <1>5, <3>3, <3>4 DEF OpensOK, Opens
  <2> QED
    BY <2>2, <2>3, <2>4 DEF StoreOK
<1> QED
  BY <1>4, <1>5

\* The invariants put every gap a packet can meet within those two limits.
LEMMA GapsNow ==
  ASSUME IInv, BridgeInv
  PROVE  GapsAreBridged
<1> SUFFICES ASSUME NEW p \in Party, NEW i \in Waiting(p)
             PROVE  OpensOK(end[p], sent[Peer(p)], i, Reached(p))
  BY DEF GapsAreBridged, OpensOK
<1> DEFINE q == Peer(p)
           log == sent[q]
           n == Reached(p)
<1>1. /\ Facing(p, end[p], end[q], log, n)
      /\ n \in Nat /\ q \in Party
  BY FacingNow
<1>2. Distinct(log)
  BY <1>1 DEF IInv, Distinct
<1>3. StoreOK(end[p].skipped, log, n, opened[p]) /\ IsFurthest(Arrived(p), n)
  BY DEF BridgeInv
<1>4. i \in DOMAIN log /\ i \notin Arrived(p)
  BY DEF Waiting
<1>5. i \in 1 .. MaxSent
  <2>1. log \in Seq(Message)
    BY <1>1 DEF IInv, TypeOK
  <2>2. LogOK(q, end[q], log)
    BY <1>1 DEF BridgeInv
  <2>3. Len(log) <= MaxSent
    BY <2>2 DEF LogOK
  <2> HIDE DEF log
  <2>4. i \in Nat /\ i >= 1 /\ i <= Len(log) /\ Len(log) \in Nat
    BY <1>4, <2>1, LogMember
  <2> QED
    BY <2>3, <2>4, PairAssumption
<1>6. ~(opened[p][i] > 0)
  BY <1>4, <1>5 DEF Arrived
<1>7. n > 0 => opened[p][n] > 0
  <2> HIDE DEF n
  <2> QED
    BY <1>1, <1>3 DEF IsFurthest, Arrived
<1> HIDE DEF q, log, n
<1>8. OpensOK(end[p], log, i, n)
  BY <1>1, <1>2, <1>3, <1>4, <1>6, <1>7, OpensWhen
<1> QED
  BY <1>8 DEF q, log, n

\* The furthest of a set of numbers is the one Reached chooses.
LEMMA FurthestIs ==
  ASSUME NEW A \in SUBSET Nat, NEW n, IsFurthest(A, n)
  PROVE  n = IF A = {} THEN 0 ELSE CHOOSE i \in A : \A j \in A : j <= i
<1>1. CASE A = {}
  BY <1>1 DEF IsFurthest
<1>2. CASE A # {}
  <2> DEFINE c == CHOOSE i \in A : \A j \in A : j <= i
  <2>1. n \in A /\ \A j \in A : j <= n
    BY <1>2 DEF IsFurthest
  <2>2. c \in A /\ \A j \in A : j <= c
    BY <2>1
  <2> HIDE DEF c
  <2>3. n = c
    BY <2>1, <2>2
  <2>4. n = IF A = {} THEN 0 ELSE c
    BY <1>2, <2>3
  <2> QED
    BY <2>4 DEF c
<1> QED
  BY <1>1, <1>2

\* What one party has read, of what its peer sent, and counted as opened.
Reads(p, r, log, counts) ==
  \E n \in Nat : /\ IsFurthest({i \in 1 .. MaxSent : counts[i] > 0}, n)
                 /\ ReadTo(r, log, n)
                 /\ StoreOK(r.skipped, log, n, counts)

\* The parts of the invariant, each of a state or of the next one.
LEMMA BridgeParts ==
  /\ (/\ \A p \in Party : LogOK(p, end[p], sent[p])
      /\ \E p \in Party : Leads(end[p], end[Peer(p)])
      /\ \A p \in Party : Reads(p, end[p], sent[Peer(p)], opened[p])) => BridgeInv
  /\ (/\ \A p \in Party : LogOK(p, end'[p], sent'[p])
      /\ \E p \in Party : Leads(end'[p], end'[Peer(p)])
      /\ \A p \in Party : Reads(p, end'[p], sent'[Peer(p)], opened'[p])) => BridgeInv'
<1>1. ASSUME NEW p \in Party, Reads(p, end[p], sent[Peer(p)], opened[p])
      PROVE  /\ IsFurthest(Arrived(p), Reached(p))
             /\ ReadTo(end[p], sent[Peer(p)], Reached(p))
             /\ StoreOK(end[p].skipped, sent[Peer(p)], Reached(p), opened[p])
  <2>1. PICK n \in Nat : /\ IsFurthest(Arrived(p), n)
                         /\ ReadTo(end[p], sent[Peer(p)], n)
                         /\ StoreOK(end[p].skipped, sent[Peer(p)], n, opened[p])
    BY <1>1 DEF Reads, Arrived
  <2>2. Arrived(p) \in SUBSET Nat
    BY DEF Arrived
  <2>3. n = Reached(p)
    BY <2>1, <2>2, FurthestIs DEF Reached
  <2> QED
    BY <2>1, <2>3
<1>2. ASSUME NEW p \in Party, Reads(p, end'[p], sent'[Peer(p)], opened'[p])
      PROVE  /\ IsFurthest(Arrived(p), Reached(p))'
             /\ ReadTo(end[p], sent[Peer(p)], Reached(p))'
             /\ StoreOK(end[p].skipped, sent[Peer(p)], Reached(p), opened[p])'
  <2>1. PICK n \in Nat : /\ IsFurthest(Arrived(p)', n)
                         /\ ReadTo(end'[p], sent'[Peer(p)], n)
                         /\ StoreOK(end'[p].skipped, sent'[Peer(p)], n, opened'[p])
    BY <1>2 DEF Reads, Arrived
  <2>2. Arrived(p)' \in SUBSET Nat
    BY DEF Arrived
  <2>3. n = Reached(p)'
    BY <2>1, <2>2, FurthestIs DEF Reached
  <2> QED
    BY <2>1, <2>3
<1> QED
  BY <1>1, <1>2 DEF BridgeInv

\* Nobody has sent or opened anything; Alice has mixed what Bob will.
LEMMA BridgeStart == Init => BridgeInv
<1> SUFFICES ASSUME Init PROVE BridgeInv
  OBVIOUS
<1> DEFINE ka == <<Alice, 0>>
           kb == <<Bob, 0>>
           a == InitAlice(ka, kb)
           b == InitBob(kb)
           none == <<>>
           zero == [i \in 1 .. MaxSent |-> 0]
<1>0. Alice \in Party /\ Bob \in Party /\ Alice # Bob /\ Peer(Alice) = Bob /\ MaxSent \in Nat
  BY PairAssumption DEF Party, Peer
<1>1. ka \in KeyPair /\ kb \in KeyPair /\ ka[2] = 0 /\ kb[2] = 0
  BY <1>0 DEF KeyPair
<1>2. Len(none) = 0 /\ DOMAIN none = {}
  OBVIOUS
<1>3. /\ end[Alice] = a /\ end[Bob] = b
      /\ \A p \in Party : sent[p] = none /\ opened[p] = zero
  BY <1>0 DEF Init
<1> HIDE DEF ka, kb, none, zero
<1>4. /\ a.dhs = ka /\ a.dhr = kb /\ a.rk = KdfRk(none, ka, kb) /\ a.cks = Chain(a.rk)
      /\ a.ckr = NoKey /\ a.ns = 0 /\ a.nr = 0 /\ a.pn = 0 /\ a.skipped = none
  BY DEF InitAlice, none
<1>5. /\ b.dhs = kb /\ b.dhr = NoKey /\ b.rk = none /\ b.cks = NoKey
      /\ b.ckr = NoKey /\ b.ns = 0 /\ b.nr = 0 /\ b.pn = 0 /\ b.skipped = none
  BY DEF InitBob, none
<1> HIDE DEF a, b
<1>6. LogOK(Alice, a, none)
  <2>1. a.cks # NoKey
    <3>1. none \in Seq(SUBSET KeyPair)
      BY DEF none
    <3>2. Chain(KdfRk(none, ka, kb)) \in ChainKey
      BY <1>1, <3>1, KdfFacts
    <3>3. a.cks \in ChainKey
      BY <1>4, <3>2
    <3> QED
      BY <3>3, PairAssumption
  <2>2. Begins(Alice, Sealed(a), 1)
    <3>1. First(Alice) = 0
      BY DEF First, Parity
    <3>2. Sealed(a).dh[2] = 0 /\ Sealed(a).n = 0 /\ Sealed(a).pn = 0
      BY <1>1, <1>4 DEF Sealed
    <3> QED
      BY <3>1, <3>2 DEF Begins
  <2> QED
    BY <1>0, <1>2, <2>1, <2>2 DEF LogOK
<1>7. LogOK(Bob, b, none)
  <2>1. First(Bob) = 1
    BY <1>0 DEF First, Parity
  <2> QED
    BY <1>0, <1>1, <1>2, <1>5, <2>1 DEF LogOK
<1>8. Leads(a, b)
  <2>1. KdfRk(none, ka, kb) = KdfRk(none, kb, ka)
    BY KdfCommutes
  <2>2. ka # NoKey
    BY <1>1, PairAssumption
  <2> QED
    BY <1>4, <1>5, <2>1, <2>2 DEF Leads
<1>9. \A p \in Party : Reads(p, end[p], sent[Peer(p)], opened[p])
  <2> SUFFICES ASSUME NEW p \in Party PROVE Reads(p, end[p], sent[Peer(p)], opened[p])
    OBVIOUS
  <2>1. Peer(p) \in Party
    BY PeerFacts
  <2>2. p = Alice \/ p = Bob
    BY DEF Party
  <2>3. /\ end[p].ckr = NoKey /\ end[p].nr = 0 /\ end[p].dhs[2] = 0 /\ end[p].skipped = none
    BY <1>1, <1>3, <1>4, <1>5, <2>2
  <2>4. ReadTo(end[p], none, 0)
    BY <2>3 DEF ReadTo
  <2>5. StoreOK(end[p].skipped, none, 0, zero)
    BY <1>2, <2>3 DEF StoreOK
  <2>6. IsFurthest({i \in 1 .. MaxSent : zero[i] > 0}, 0)
    BY DEF IsFurthest, zero
  <2> QED
    BY <1>3, <2>1, <2>4, <2>5, <2>6 DEF Reads
<1>10. \A p \in Party : LogOK(p, end[p], sent[p])
  BY <1>3, <1>6, <1>7 DEF Party
<1>11. \E p \in Party : Leads(end[p], end[Peer(p)])
  BY <1>0, <1>3, <1>8
<1> QED
  BY <1>9, <1>10, <1>11, BridgeParts

\* What was read stays read when the peer sends one more.
LEMMA LogGrows ==
  ASSUME NEW log \in Seq(Message), NEW m \in Message, NEW p, NEW r, NEW counts,
         Reads(p, r, log, counts)
  PROVE  Reads(p, r, Append(log, m), counts)
<1> DEFINE all == Append(log, m)
<1>1. /\ DOMAIN log = 1 .. Len(log) /\ Len(log) \in Nat /\ DOMAIN all = 1 .. Len(log) + 1
      /\ \A i \in 1 .. Len(log) : all[i] = log[i]
  BY AppendProperties, LenProperties
<1> HIDE DEF all
<1>2. \A i \in DOMAIN log : i \in DOMAIN all /\ all[i] = log[i]
  BY <1>1
<1>3. PICK n \in Nat : /\ IsFurthest({i \in 1 .. MaxSent : counts[i] > 0}, n)
                       /\ ReadTo(r, log, n)
                       /\ StoreOK(r.skipped, log, n, counts)
  BY DEF Reads
<1>4. ReadTo(r, all, n)
  BY <1>2, <1>3 DEF ReadTo
<1>5. \A i \in 1 .. n - 1 : all[i] = log[i]
  <2> SUFFICES ASSUME NEW i \in 1 .. n - 1 PROVE all[i] = log[i]
    OBVIOUS
  <2>1. n \in DOMAIN log
    BY <1>3 DEF ReadTo
  <2>2. i \in DOMAIN log
    BY <1>1, <2>1
  <2> QED
    BY <1>2, <2>2
<1>6. \A k : \A i \in 1 .. n - 1 :
        Holds(r.skipped, k, log, i, n) <=> Holds(r.skipped, k, all, i, n)
  BY <1>5 DEF Holds, KeyOf
<1>7. StoreOK(r.skipped, all, n, counts)
  BY <1>3, <1>6 DEF StoreOK
<1>8. Reads(p, r, all, counts)
  BY <1>3, <1>4, <1>7 DEF Reads
<1> QED
  BY <1>8 DEF all

\* What the invariant says each party has read.
LEMMA ReadsNow ==
  ASSUME IInv, BridgeInv, NEW p \in Party
  PROVE  Reads(p, end[p], sent[Peer(p)], opened[p])
<1>1. Reached(p) \in Nat
  BY FacingNow
<1> QED
  BY <1>1 DEF BridgeInv, Reads, Arrived

\* encrypt extends what its party sent, and what its peer has yet to read.
LEMMA BridgeEncrypt ==
  ASSUME IInv, BridgeInv, NEW p \in Party, Encrypt(p)
  PROVE  BridgeInv'
<1> DEFINE r == end[p]
           q == Peer(p)
           e == Encrypted(r)
           m == Sealed(r)
<1>1. q \in Party /\ q # p /\ Peer(q) = p /\ \A x \in Party : x = p \/ x = q
  BY PeerFacts, PairAssumption DEF Peer, Party
<1>2. /\ r \in Ratchet /\ EndOK(p, r) /\ CanEncrypt(r) /\ sent[p] \in Seq(Message)
      /\ Len(sent[p]) < MaxSent
  BY DEF IInv, TypeOK, Encrypt
<1>3. m \in Message
  BY <1>2, SealingFacts
<1>4. /\ e.skipped = r.skipped /\ e.ckr = r.ckr /\ e.dhr = r.dhr /\ e.nr = r.nr
      /\ e.dhs = r.dhs /\ e.rk = r.rk
  BY <1>2 DEF Encrypted, Ratchet
<1>5. /\ end'[p] = e /\ sent'[p] = Append(sent[p], m) /\ end'[q] = end[q] /\ sent'[q] = sent[q]
      /\ opened' = opened
  <2>1. end \in [Party -> Ratchet] /\ sent \in [Party -> Seq(Message)]
    BY DEF IInv, TypeOK
  <2> QED
    BY <1>1, <2>1 DEF Encrypt
<1>6. LogOK(p, e, Append(sent[p], m))
  <2>1. LogOK(p, r, sent[p])
    BY DEF BridgeInv
  <2> DEFINE s == sent[p]
  <2> HIDE DEF s, r
  <2> QED
    BY <1>2, <2>1, LogSealed DEF s
<1> HIDE DEF e, m, q
<1>7. \A x \in Party : LogOK(x, end'[x], sent'[x])
  BY <1>1, <1>5, <1>6 DEF BridgeInv
<1>8. \E x \in Party : Leads(end'[x], end'[Peer(x)])
  <2>1. Leads(r, end[q]) \/ Leads(end[q], r)
    BY <1>1 DEF BridgeInv, q
  <2>2. Leads(e, end[q]) \/ Leads(end[q], e)
    <3> HIDE DEF r
    <3> QED
      BY <1>4, <2>1, LeadStay
  <2>3. Peer(p) = q
    BY DEF q
  <2> QED
    BY <1>1, <1>5, <2>2, <2>3
<1>9. Reads(p, e, sent[q], opened[p])
  <2>1. Reads(p, r, sent[q], opened[p])
    BY ReadsNow DEF q
  <2>2. \A n : ReadTo(r, sent[q], n) => ReadTo(e, sent[q], n)
    BY <1>4 DEF ReadTo
  <2> QED
    BY <1>4, <2>1, <2>2 DEF Reads
<1>10. Reads(q, end[q], Append(sent[p], m), opened[q])
  <2>1. Reads(q, end[q], sent[p], opened[q])
    BY <1>1, ReadsNow
  <2> DEFINE s == sent[p]
             t == end[q]
             c == opened[q]
  <2> HIDE DEF s, t, c
  <2>2. s \in Seq(Message) /\ Reads(q, t, s, c)
    BY <1>2, <2>1 DEF s, t, c
  <2>3. Reads(q, t, Append(s, m), c)
    BY <1>3, <2>2, LogGrows
  <2> QED
    BY <2>3 DEF s, t, c
<1>11. \A x \in Party : Reads(x, end'[x], sent'[Peer(x)], opened'[x])
  <2>1. Peer(p) = q
    BY DEF q
  <2> QED
    BY <1>1, <1>5, <1>9, <1>10, <2>1
<1> QED
  BY <1>7, <1>8, <1>11, BridgeParts

\* Opening a message moves its party on, as far as the message or not at all.
LEMMA OpenedReads ==
  ASSUME NEW p \in Party, NEW r, NEW l, NEW log, NEW n, Facing(p, r, l, log, n),
         Distinct(log), Len(r.skipped) <= MaxSkipStore,
         NEW counts, StoreOK(r.skipped, log, n, counts),
         IsFurthest({k \in 1 .. MaxSent : counts[k] > 0}, n),
         NEW i \in DOMAIN log, i \in 1 .. MaxSent, log[i].n < ChainEnd, Opens(r, log[i]),
         NEW now, now[i] > 0, \A k \in 1 .. MaxSent : k # i => now[k] = counts[k]
  PROVE  LET d == Decrypted(r, log[i])
         IN Reads(p, d, log, now) /\ (Leads(d, l) \/ Leads(l, d))
<1> DEFINE d == Decrypted(r, log[i])
           A == {k \in 1 .. MaxSent : counts[k] > 0}
           B == {k \in 1 .. MaxSent : now[k] > 0}
<1>1. n \in Nat /\ i \in Nat /\ MaxSent \in Nat
  BY PairAssumption DEF Facing
<1>2. \A k \in 1 .. MaxSent : counts[k] > 0 => now[k] > 0
  OBVIOUS
<1>3. n > 0 => n \in A
  BY <1>1 DEF IsFurthest
<1>4. n > 0 => now[n] > 0
  BY <1>2, <1>3
<1>5. \A k \in 1 .. n - 1 : counts[k] > 0 => now[k] > 0
  <2> SUFFICES ASSUME NEW k \in 1 .. n - 1 PROVE k \in 1 .. MaxSent
    BY <1>2
  <2>1. n > 0
    BY <1>1
  <2> QED
    BY <1>1, <1>3, <2>1
<1>6. /\ n < i => ReadTo(d, log, i) /\ StoreOK(d.skipped, log, i, now)
      /\ ~(n < i) => ReadTo(d, log, n) /\ StoreOK(d.skipped, log, n, now)
      /\ Leads(d, l) \/ Leads(l, d)
  BY <1>4, <1>5, OpenedOn
<1>7. B = A \cup {i}
  OBVIOUS
<1>8. A # {} => n \in A /\ \A j \in A : j <= n
  BY DEF IsFurthest
<1>9. A = {} => n = 0
  BY DEF IsFurthest
<1> HIDE DEF A, d
<1>10. n < i => IsFurthest(B, i)
  <2> HIDE DEF B
  <2>1. A \subseteq Nat
    BY DEF A
  <2> QED
    BY <1>1, <1>7, <1>8, <1>9, <2>1 DEF IsFurthest
<1>11. ~(n < i) => IsFurthest(B, n)
  <2> HIDE DEF B
  <2>1. i # 0
    OBVIOUS
  <2> QED
    BY <1>1, <1>7, <1>8, <1>9, <2>1 DEF IsFurthest
<1>12. Reads(p, d, log, now)
  <2>1. CASE n < i
    BY <1>1, <1>6, <1>10, <2>1 DEF Reads
  <2>2. CASE ~(n < i)
    BY <1>1, <1>6, <1>11, <2>2 DEF Reads
  <2> QED
    BY <2>1, <2>2
<1> QED
  BY <1>6, <1>12 DEF d

\* decrypt moves its party on, if the message opens, and nobody else.
LEMMA BridgeDecrypt ==
  ASSUME IInv, AddressInv, BridgeInv, NEW p \in Party, Decrypt(p)
  PROVE  BridgeInv'
<1> DEFINE r == end[p]
           q == Peer(p)
           log == sent[q]
           n == Reached(p)
<1>1. q \in Party /\ q # p /\ Peer(q) = p /\ \A x \in Party : x = p \/ x = q
  BY PeerFacts, PairAssumption DEF Peer, Party
<1>2. PICK i \in DOMAIN log :
        /\ end' = [end EXCEPT ![p] = Decrypted(@, log[i])]
        /\ opened' = IF Opens(r, log[i]) THEN [opened EXCEPT ![p][i] = @ + 1] ELSE opened
        /\ sent' = sent
  BY DEF Decrypt
<1> DEFINE m == log[i]
           d == Decrypted(r, m)
<1>3. /\ r \in Ratchet /\ EndOK(p, r) /\ Len(r.skipped) <= MaxSkipStore
      /\ end \in [Party -> Ratchet] /\ opened \in [Party -> [1 .. MaxSent -> Nat]]
      /\ sent[p] \in Seq(Message) /\ log \in Seq(Message) /\ log[i].n < ChainEnd
  BY <1>1, <1>2 DEF IInv, TypeOK, AddressInv
<1>4. m \in Message /\ i \in 1 .. MaxSent
  <2>1. LogOK(q, end[q], log)
    BY <1>1 DEF BridgeInv
  <2>2. Len(log) <= MaxSent
    BY <2>1 DEF LogOK
  <2> HIDE DEF log
  <2>3. m \in Message /\ i \in Nat /\ i >= 1 /\ i <= Len(log) /\ Len(log) \in Nat
    BY <1>3, LogMember
  <2> QED
    BY <2>2, <2>3, PairAssumption
<1>5. CASE ~Opens(r, m)
  <2>1. end' = end /\ opened' = opened
    BY <1>2, <1>3, <1>5 DEF Decrypted
  <2>2. sent' = sent
    BY <1>2
  <2> QED
    BY <2>1, <2>2 DEF BridgeInv, Reached, Arrived
<1>6. CASE Opens(r, m)
  <2>1. end'[p] = d /\ end'[q] = end[q]
    BY <1>1, <1>2, <1>3
  <2>2. /\ \A x \in Party : x # p => opened'[x] = opened[x]
        /\ \A k \in 1 .. MaxSent : k # i => opened'[p][k] = opened[p][k]
        /\ opened'[p][i] = opened[p][i] + 1
    <3> DEFINE f == opened
               g == opened'
    <3>1. f \in [Party -> [1 .. MaxSent -> Nat]] /\ g = [f EXCEPT ![p][i] = @ + 1]
      BY <1>2, <1>3, <1>6
    <3> HIDE DEF f, g, log, r, m
    <3>2. /\ g \in [Party -> [1 .. MaxSent -> Nat]]
          /\ \A x \in Party : x # p => g[x] = f[x]
          /\ \A k \in 1 .. MaxSent : k # i => g[p][k] = f[p][k]
          /\ i \in 1 .. MaxSent => g[p][i] = f[p][i] + 1
      BY <3>1, CountFacts, Zenon
    <3> QED
      BY <1>4, <3>2 DEF f, g
  <2>3. opened'[p][i] > 0
    <3>1. opened[p][i] \in Nat
      BY <1>3, <1>4
    <3> QED
      BY <2>2, <3>1
  <2>4. /\ Facing(p, r, end[q], log, n)
        /\ Distinct(log) /\ StoreOK(r.skipped, log, n, opened[p])
        /\ IsFurthest({k \in 1 .. MaxSent : opened[p][k] > 0}, n)
    <3>1. Facing(p, r, end[q], log, n)
      BY FacingNow
    <3>2. Distinct(log)
      BY <1>1 DEF IInv, Distinct
    <3>3. StoreOK(r.skipped, log, n, opened[p]) /\ IsFurthest(Arrived(p), n)
      BY DEF BridgeInv
    <3> QED
      BY <3>1, <3>2, <3>3 DEF Arrived
  <2>5. Reads(p, d, log, opened'[p]) /\ (Leads(d, end[q]) \/ Leads(end[q], d))
    <3> DEFINE counts == opened[p]
               now == opened'[p]
    <3>1. /\ IsFurthest({k \in 1 .. MaxSent : counts[k] > 0}, n)
          /\ StoreOK(r.skipped, log, n, counts)
          /\ now[i] > 0 /\ \A k \in 1 .. MaxSent : k # i => now[k] = counts[k]
      BY <2>2, <2>3, <2>4
    <3> HIDE DEF counts, now, r, q, log, n
    <3>2. Reads(p, d, log, now) /\ (Leads(d, end[q]) \/ Leads(end[q], d))
      BY <1>2, <1>3, <1>4, <1>6, <2>4, <3>1, OpenedReads
    <3> QED
      BY <3>2 DEF now
  <2>6. LogOK(p, d, sent[p])
    <3> DEFINE s == sent[p]
    <3>1. s \in Seq(Message) /\ LogOK(p, r, s) /\ \A k \in DOMAIN s : SentOK(p, r, s[k])
      BY <1>3 DEF IInv, BridgeInv
    <3> HIDE DEF s, r, m
    <3>2. LogOK(p, d, s)
      BY <1>3, <1>4, <1>6, <3>1, OpenedLog
    <3> QED
      BY <3>2 DEF s
  <2>7. Reads(q, end[q], sent[p], opened[q])
    BY <1>1, ReadsNow
  <2> HIDE DEF d
  <2>8. \A x \in Party : LogOK(x, end'[x], sent'[x])
    BY <1>1, <1>2, <2>1, <2>6 DEF BridgeInv
  <2>9. \E x \in Party : Leads(end'[x], end'[Peer(x)])
    BY <1>1, <2>1, <2>5
  <2>10. \A x \in Party : Reads(x, end'[x], sent'[Peer(x)], opened'[x])
    BY <1>1, <1>2, <2>1, <2>2, <2>5, <2>7
  <2> QED
    BY <2>8, <2>9, <2>10, BridgeParts
<1> QED
  BY <1>5, <1>6

\* The invariant of the gaps holds in every behaviour.
THEOREM BridgeInvariance == Spec => []BridgeInv
<1>1. IInv /\ AddressInv /\ BridgeInv /\ [Next]_vars => BridgeInv'
  <2> SUFFICES ASSUME IInv, AddressInv, BridgeInv, [Next]_vars PROVE BridgeInv'
    OBVIOUS
  <2>1. ASSUME NEW p \in Party, Encrypt(p) PROVE BridgeInv'
    BY <2>1, BridgeEncrypt
  <2>2. ASSUME NEW p \in Party, Decrypt(p) PROVE BridgeInv'
    BY <2>2, BridgeDecrypt
  <2>3. CASE UNCHANGED vars
    BY <2>3 DEF BridgeInv, Reached, Arrived, vars
  <2> QED
    BY <2>1, <2>2, <2>3 DEF Next
<1> QED
  BY Invariance, AddressInvariance, BridgeStart, <1>1, PTL DEF Spec

\* A packet beyond the front opens exactly when at most MAX_SKIP others were
\* passed over to reach it, one behind the front unless MAX_SKIP_STORE later
\* ones were passed too (GapsAreBridged): the tolerance the documentation of
\* decrypt promises, whatever turns of the DH ratchet lie in between.
THEOREM GapsBridged == Spec => []GapsAreBridged
<1>1. IInv /\ BridgeInv => GapsAreBridged
  BY GapsNow
<1> QED
  BY Invariance, BridgeInvariance, <1>1, PTL
=============================================================================
