---------------------------- MODULE CoverProofs ----------------------------
(***************************************************************************)
(* For any size of a cell, any capacities, any number and lengths of       *)
(* messages, and any interleaving of the tasks of a cover-traffic channel: *)
(* the receiver cuts the stream of bytes where the sender joined it, what  *)
(* is on its way is what was accepted and nothing else, and what the       *)
(* consumer is given is whole messages, in order, none twice.              *)
(*                                                                         *)
(* What a recursion over data returns - FlattenSeq, Ends - is shown for    *)
(* every input by taking the least number at which it would go wrong.      *)
(***************************************************************************)
EXTENDS CoverChannel, WellFoundedInduction, NaturalsInduction, FiniteSetTheorems,
        SequenceTheorems, TLAPS

-----------------------------------------------------------------------------
(* Sequences of sequences. *)

(* A non-empty set of naturals has a least element. *)
LEMMA NatMin ==
  ASSUME NEW T \in SUBSET Nat, T # {}
  PROVE  \E n \in T : \A m \in T : n <= m
<1>1. \E x \in T : \A y \in T : ~(<<y, x>> \in OpToRel(<, Nat))
  BY WFMin, NatLessThanWellFounded, Zenon
<1>2. \A x, y \in T : x \in Nat /\ y \in Nat
  OBVIOUS
<1>3. \E x \in T : \A y \in T : ~(y < x)
  BY <1>1, <1>2, Zenon DEF OpToRel
<1> QED BY <1>2, <1>3

(* Induction for a set: it holds 0 and with every number the next. *)
LEMMA NatSetInduction ==
  ASSUME NEW G, 0 \in G, \A n \in Nat : n \in G => n + 1 \in G
  PROVE  \A n \in Nat : n \in G
<1> SUFFICES ASSUME NEW k \in Nat, k \notin G PROVE FALSE
  OBVIOUS
<1> DEFINE Bad == {n \in Nat : n \notin G}
<1>1. Bad \in SUBSET Nat /\ Bad # {}
  OBVIOUS
<1>2. PICK n \in Bad : \A m \in Bad : n <= m
  <2> HIDE DEF Bad
  <2> QED BY <1>1, NatMin
<1>3. n \in Nat /\ n # 0 /\ n - 1 \in Nat /\ n - 1 \notin Bad
  BY <1>2
<1>4. n - 1 \in G /\ (n - 1) + 1 = n
  BY <1>3
<1> QED BY <1>2, <1>3, <1>4

(* f is the function flatten[i] of FlattenSeq over the first n of s. *)
IsFlat(f, s, n) == f = [i \in 1 .. n |-> IF i = 1 THEN s[i] ELSE f[i - 1] \o s[i]]

(* FlattenSeq's recursive function exists. *)
LEMMA FlatExists ==
  ASSUME NEW s, NEW n \in Nat
  PROVE  \E f : IsFlat(f, s, n)
<1> DEFINE G == {k \in Nat : \E f : IsFlat(f, s, k)}
<1>1. 0 \in G
  <2>1. IsFlat([i \in 1 .. 0 |-> 0], s, 0)
    BY DEF IsFlat
  <2> QED BY <2>1
<1>2. ASSUME NEW k \in Nat, k \in G PROVE k + 1 \in G
  <2>1. PICK f : IsFlat(f, s, k)
    BY <1>2
  <2> DEFINE g == [i \in 1 .. k + 1 |->
                     IF i = k + 1 THEN (IF k = 0 THEN s[1] ELSE f[k] \o s[k + 1]) ELSE f[i]]
  <2>2. ASSUME NEW i \in 1 .. k + 1
        PROVE  g[i] = IF i = 1 THEN s[i] ELSE g[i - 1] \o s[i]
    <3>1. CASE i = k + 1
      BY <3>1
    <3>2. CASE i # k + 1
      <4>1. i \in 1 .. k /\ g[i] = f[i]
        BY <3>2
      <4>2. f[i] = IF i = 1 THEN s[i] ELSE f[i - 1] \o s[i]
        BY <4>1, <2>1 DEF IsFlat
      <4>3. i # 1 => i - 1 \in 1 .. k /\ g[i - 1] = f[i - 1]
        BY <4>1
      <4> QED BY <4>1, <4>2, <4>3
    <3> QED BY <3>1, <3>2
  <2>3. g = [i \in 1 .. k + 1 |-> IF i = 1 THEN s[i] ELSE g[i - 1] \o s[i]]
    <3>1. g = [i \in 1 .. k + 1 |-> g[i]]
      OBVIOUS
    <3> HIDE DEF g
    <3> QED BY <2>2, <3>1
  <2>4. IsFlat(g, s, k + 1)
    <3> HIDE DEF g
    <3> QED BY <2>3 DEF IsFlat
  <2> QED BY <2>4
<1>3. \A k \in Nat : k \in G
  <2> HIDE DEF G
  <2> QED BY <1>1, <1>2, NatSetInduction
<1> QED BY <1>3

(* One step of it. *)
LEMMA FlatStep ==
  ASSUME NEW s, NEW n, NEW f, IsFlat(f, s, n), NEW i \in 1 .. n
  PROVE  f[i] = IF i = 1 THEN s[i] ELSE f[i - 1] \o s[i]
<1> DEFINE g == [j \in 1 .. n |-> IF j = 1 THEN s[j] ELSE f[j - 1] \o s[j]]
<1>1. f = g
  BY DEF IsFlat
<1>2. g[i] = IF i = 1 THEN s[i] ELSE f[i - 1] \o s[i]
  OBVIOUS
<1> HIDE DEF g
<1> QED BY <1>1, <1>2

(* What FlattenSeq is for a non-empty sequence. *)
LEMMA FlatIs ==
  ASSUME NEW s, Len(s) \in Nat, Len(s) # 0
  PROVE  \E f : IsFlat(f, s, Len(s)) /\ FlattenSeq(s) = f[Len(s)]
<1> DEFINE f == CHOOSE f : IsFlat(f, s, Len(s))
<1>1. IsFlat(f, s, Len(s))
  BY FlatExists
<1>2. FlattenSeq(s) = f[Len(s)]
  BY DEF FlattenSeq, IsFlat
<1> QED BY <1>1, <1>2

(* FlattenSeq of nothing. *)
LEMMA FlattenEmpty == FlattenSeq(<<>>) = <<>>
BY DEF FlattenSeq

(* FlattenSeq once one more sequence is appended. *)
LEMMA FlattenAppend ==
  ASSUME NEW T, NEW s \in Seq(Seq(T)), NEW e \in Seq(T)
  PROVE  FlattenSeq(Append(s, e)) = FlattenSeq(s) \o e
<1> DEFINE t == Append(s, e)
<1>1. /\ Len(s) \in Nat /\ Len(t) = Len(s) + 1 /\ t[Len(s) + 1] = e
      /\ \A i \in 1 .. Len(s) : t[i] = s[i]
  OBVIOUS
<1>2. PICK g : IsFlat(g, t, Len(t)) /\ FlattenSeq(t) = g[Len(t)]
  <2>1. Len(t) \in Nat /\ Len(t) # 0
    BY <1>1
  <2> HIDE DEF t
  <2> QED BY <2>1, FlatIs
<1>3. CASE s = <<>>
  <2>1. Len(s) = 0 /\ Len(t) = 1 /\ t[1] = e
    BY <1>3
  <2>2. g[1] = e
    BY <2>1, <1>2 DEF IsFlat
  <2>3. FlattenSeq(s) \o e = e
    BY <1>3, FlattenEmpty
  <2> QED BY <1>2, <2>1, <2>2, <2>3
<1>4. CASE s # <<>>
  <2>1. Len(s) # 0
    BY <1>4
  <2>2. PICK f : IsFlat(f, s, Len(s)) /\ FlattenSeq(s) = f[Len(s)]
    BY <1>1, <2>1, FlatIs
  <2> DEFINE G == {k \in Nat : k \in 1 .. Len(s) => f[k] = g[k]}
  <2>3. 0 \in G
    OBVIOUS
  <2>4. ASSUME NEW k \in Nat, k \in G PROVE k + 1 \in G
    <3> SUFFICES ASSUME k + 1 \in 1 .. Len(s) PROVE f[k + 1] = g[k + 1]
      OBVIOUS
    <3>1. f[k + 1] = IF k + 1 = 1 THEN s[k + 1] ELSE f[k + 1 - 1] \o s[k + 1]
      BY <2>2, FlatStep
    <3>2. k + 1 \in 1 .. Len(t)
      BY <1>1
    <3>3. g[k + 1] = IF k + 1 = 1 THEN t[k + 1] ELSE g[k + 1 - 1] \o t[k + 1]
      <4> HIDE DEF t
      <4> QED BY <1>2, <3>2, FlatStep
    <3>4. k + 1 # 1 => f[k + 1 - 1] = g[k + 1 - 1]
      BY <2>4
    <3>5. t[k + 1] = s[k + 1]
      BY <1>1
    <3> HIDE DEF t
    <3> QED BY <3>1, <3>3, <3>4, <3>5
  <2>5. \A k \in Nat : k \in G
    <3> HIDE DEF G
    <3> QED BY <2>3, <2>4, NatSetInduction
  <2>6. f[Len(s)] = g[Len(s)]
    BY <2>5, <2>1, <1>1
  <2>7. g[Len(t)] = g[Len(s)] \o e
    <3>1. Len(t) \in 1 .. Len(t) /\ Len(t) # 1 /\ Len(t) - 1 = Len(s)
      BY <1>1, <2>1
    <3>2. g[Len(t)] = IF Len(t) = 1 THEN t[Len(t)] ELSE g[Len(t) - 1] \o t[Len(t)]
      BY <3>1, <1>2 DEF IsFlat
    <3> QED BY <3>1, <3>2, <1>1
  <2> QED BY <1>2, <2>2, <2>6, <2>7
<1> QED BY <1>3, <1>4

(* A part of a sequence. *)
LEMMA PartFacts ==
  ASSUME NEW S, NEW s \in Seq(S), NEW a \in Nat \ {0}, NEW b \in Nat,
         b <= Len(s), a <= b + 1
  PROVE  /\ SubSeq(s, a, b) \in Seq(S)
         /\ Len(SubSeq(s, a, b)) = b - a + 1
         /\ \A i \in 1 .. b - a + 1 : SubSeq(s, a, b)[i] = s[a + i - 1]
<1>0. Len(s) \in Nat /\ a \in Int /\ b \in Int
  OBVIOUS
<1>1. \A i \in a .. b : s[i] \in S
  BY <1>0
<1>2. /\ SubSeq(s, a, b) \in Seq(S)
      /\ Len(SubSeq(s, a, b)) = IF a <= b THEN b - a + 1 ELSE 0
      /\ \A i \in 1 .. b - a + 1 : SubSeq(s, a, b)[i] = s[a + i - 1]
  BY <1>0, <1>1, SubSeqProperties
<1>3. Len(SubSeq(s, a, b)) = b - a + 1
  BY <1>2, <1>0
<1> QED BY <1>2, <1>3

(* A non-empty sequence is its first ones and the last appended. *)
LEMMA FrontAppend ==
  ASSUME NEW S, NEW s \in Seq(S), s # <<>>
  PROVE  /\ Len(s) \in Nat \ {0} /\ s[Len(s)] \in S
         /\ SubSeq(s, 1, Len(s) - 1) \in Seq(S)
         /\ Len(SubSeq(s, 1, Len(s) - 1)) = Len(s) - 1
         /\ s = Append(SubSeq(s, 1, Len(s) - 1), s[Len(s)])
<1>0. Len(s) \in Nat \ {0} /\ s[Len(s)] \in S
  OBVIOUS
<1> DEFINE u == SubSeq(s, 1, Len(s) - 1)
<1>1. u \in Seq(S) /\ Len(u) = Len(s) - 1 /\ \A i \in 1 .. Len(s) - 1 : u[i] = s[i]
  <2>1. 1 \in Nat \ {0} /\ Len(s) - 1 \in Nat /\ Len(s) - 1 <= Len(s) /\ 1 <= Len(s) - 1 + 1
        /\ (Len(s) - 1) - 1 + 1 = Len(s) - 1 /\ \A i \in 1 .. Len(s) - 1 : 1 + i - 1 = i
    BY <1>0
  <2>2. u \in Seq(S) /\ Len(u) = (Len(s) - 1) - 1 + 1
        /\ \A i \in 1 .. (Len(s) - 1) - 1 + 1 : u[i] = s[1 + i - 1]
    BY <2>1, PartFacts
  <2> HIDE DEF u
  <2> QED BY <2>1, <2>2
<1> HIDE DEF u
<1> DEFINE t == Append(u, s[Len(s)])
<1>2. t \in Seq(S) /\ Len(t) = Len(s)
  BY <1>0, <1>1
<1>3. \A i \in 1 .. Len(s) : t[i] = s[i]
  BY <1>0, <1>1
<1>4. s = t
  <2> HIDE DEF t
  <2> QED BY <1>2, <1>3, SeqEqual
<1> QED BY <1>0, <1>1, <1>4 DEF u

(* FlattenSeq keeps the elements' type. *)
LEMMA FlattenType ==
  ASSUME NEW T, NEW s \in Seq(Seq(T))
  PROVE  FlattenSeq(s) \in Seq(T)
<1> DEFINE G == {k \in Nat : \A x \in Seq(Seq(T)) : Len(x) = k => FlattenSeq(x) \in Seq(T)}
<1>1. 0 \in G
  <2>1. \A x \in Seq(Seq(T)) : Len(x) = 0 => x = <<>>
    OBVIOUS
  <2> QED BY <2>1, FlattenEmpty
<1>2. ASSUME NEW k \in Nat, k \in G PROVE k + 1 \in G
  <2> SUFFICES ASSUME NEW x \in Seq(Seq(T)), Len(x) = k + 1
               PROVE  FlattenSeq(x) \in Seq(T)
    OBVIOUS
  <2> DEFINE y == SubSeq(x, 1, Len(x) - 1)
  <2>0. x # <<>>
    OBVIOUS
  <2>1. y \in Seq(Seq(T)) /\ Len(y) = k /\ x[Len(x)] \in Seq(T) /\ x = Append(y, x[Len(x)])
    BY <2>0, FrontAppend
  <2>2. FlattenSeq(y) \in Seq(T)
    BY <1>2, <2>1
  <2> HIDE DEF y
  <2>3. FlattenSeq(x) = FlattenSeq(y) \o x[Len(x)]
    BY <2>1, FlattenAppend
  <2> QED BY <2>1, <2>2, <2>3
<1>3. \A k \in Nat : k \in G
  <2> HIDE DEF G
  <2> QED BY <1>1, <1>2, NatSetInduction
<1>4. Len(s) \in G
  BY <1>3
<1> QED BY <1>4

(* Concatenation is associative. *)
Assoc(x, y, z) == (x \o y) \o z = x \o (y \o z)

(* For sequences, that is. *)
LEMMA Associative ==
  ASSUME NEW T, NEW x \in Seq(T), NEW y \in Seq(T), NEW z \in Seq(T)
  PROVE  Assoc(x, y, z)
BY ConcatAssociative DEF Assoc

(* FlattenSeq of two sequences one after the other. *)
LEMMA FlattenConcat ==
  ASSUME NEW T, NEW r \in Seq(Seq(T)), NEW s \in Seq(Seq(T))
  PROVE  FlattenSeq(r \o s) = FlattenSeq(r) \o FlattenSeq(s)
<1> DEFINE G == {k \in Nat : \A x \in Seq(Seq(T)) :
                   Len(x) = k => FlattenSeq(r \o x) = FlattenSeq(r) \o FlattenSeq(x)}
<1>1. 0 \in G
  <2>1. \A x \in Seq(Seq(T)) : Len(x) = 0 => x = <<>> /\ r \o x = r
    OBVIOUS
  <2>2. FlattenSeq(r) \o <<>> = FlattenSeq(r)
    BY FlattenType
  <2> QED BY <2>1, <2>2, FlattenEmpty
<1>2. ASSUME NEW k \in Nat, k \in G PROVE k + 1 \in G
  <2> SUFFICES ASSUME NEW x \in Seq(Seq(T)), Len(x) = k + 1
               PROVE  FlattenSeq(r \o x) = FlattenSeq(r) \o FlattenSeq(x)
    OBVIOUS
  <2> DEFINE y == SubSeq(x, 1, Len(x) - 1)
             e == x[Len(x)]
  <2>0. x # <<>>
    OBVIOUS
  <2>1. y \in Seq(Seq(T)) /\ Len(y) = k /\ e \in Seq(T) /\ x = Append(y, e)
    BY <2>0, FrontAppend
  <2>2. FlattenSeq(r \o y) = FlattenSeq(r) \o FlattenSeq(y)
    BY <1>2, <2>1
  <2> HIDE DEF y, e
  <2>3. r \o x = Append(r \o y, e) /\ r \o y \in Seq(Seq(T))
    BY <2>1
  <2>4. FlattenSeq(r \o x) = FlattenSeq(r \o y) \o e
    BY <2>1, <2>3, FlattenAppend
  <2>5. FlattenSeq(x) = FlattenSeq(y) \o e
    BY <2>1, FlattenAppend
  <2>6. FlattenSeq(r) \in Seq(T) /\ FlattenSeq(y) \in Seq(T)
    BY <2>1, FlattenType
  <2>7. (FlattenSeq(r) \o FlattenSeq(y)) \o e = FlattenSeq(r) \o (FlattenSeq(y) \o e)
    <3>1. Assoc(FlattenSeq(r), FlattenSeq(y), e)
      BY <2>1, <2>6, Associative
    <3> QED BY <3>1 DEF Assoc
  <2> QED BY <2>2, <2>4, <2>5, <2>7
<1>3. \A k \in Nat : k \in G
  <2> HIDE DEF G
  <2> QED BY <1>1, <1>2, NatSetInduction
<1>4. Len(s) \in G
  BY <1>3
<1> QED BY <1>4

(* FlattenSeq of one sequence. *)
LEMMA FlattenOne ==
  ASSUME NEW T, NEW e \in Seq(T)
  PROVE  FlattenSeq(<<e>>) = e
<1>1. <<e>> = Append(<<>>, e) /\ <<>> \in Seq(Seq(T))
  OBVIOUS
<1>2. FlattenSeq(<<e>>) = FlattenSeq(<<>>) \o e
  BY <1>1, FlattenAppend
<1>3. <<>> \o e = e
  OBVIOUS
<1> QED BY <1>2, <1>3, FlattenEmpty

(* A function on 1 .. n is a sequence of length n. *)
LEMMA AsSeq ==
  ASSUME NEW S, NEW n \in Nat, NEW f \in [1 .. n -> S]
  PROVE  f \in Seq(S) /\ Len(f) = n /\ \A i \in 1 .. n : f[i] \in S
OBVIOUS

(* What it takes to be two sequences one after the other. *)
LEMMA Glue ==
  ASSUME NEW S, NEW u \in Seq(S), NEW v \in Seq(S), NEW w \in Seq(S),
         Len(w) = Len(u) + Len(v),
         \A i \in 1 .. Len(u) : w[i] = u[i],
         \A i \in 1 .. Len(v) : w[Len(u) + i] = v[i]
  PROVE  w = u \o v
<1>0. Len(u) \in Nat /\ Len(v) \in Nat
  OBVIOUS
<1>1. u \o v \in Seq(S) /\ Len(u \o v) = Len(u) + Len(v)
  OBVIOUS
<1>2. ASSUME NEW i \in 1 .. Len(w) PROVE w[i] = (u \o v)[i]
  <2>1. CASE i <= Len(u)
    <3>1. i \in 1 .. Len(u)
      BY <2>1
    <3>2. (u \o v)[i] = u[i]
      BY <3>1
    <3> QED BY <3>1, <3>2
  <2>2. CASE i > Len(u)
    <3>1. i - Len(u) \in 1 .. Len(v) /\ Len(u) + (i - Len(u)) = i
      BY <1>0, <2>2
    <3>2. (u \o v)[i] = v[i - Len(u)]
      BY <1>0, <2>2
    <3>3. w[Len(u) + (i - Len(u))] = v[i - Len(u)]
      BY <3>1
    <3> QED BY <3>1, <3>2, <3>3
  <2>3. i \in Nat
    OBVIOUS
  <2> QED BY <1>0, <2>1, <2>2, <2>3
<1> QED BY <1>1, <1>2, SeqEqual

-----------------------------------------------------------------------------
(* Two sequences that share a front. *)

(* Bytes read off the front of a stream leave the stream's own rest. *)
Spliced(b, t, x, y, T) ==
  /\ SubSeq(b, Len(x) + 1, Len(b)) \in Seq(T)
  /\ SubSeq(b, Len(x) + 1, Len(b)) \o t = y

(* So they do. *)
LEMMA Splice ==
  ASSUME NEW T, NEW b \in Seq(T), NEW t \in Seq(T), NEW x \in Seq(T), NEW y \in Seq(T),
         b \o t = x \o y, Len(x) <= Len(b)
  PROVE  Spliced(b, t, x, y, T)
<1> DEFINE r == SubSeq(b, Len(x) + 1, Len(b))
<1>0. Len(b) \in Nat /\ Len(t) \in Nat /\ Len(x) \in Nat /\ Len(y) \in Nat
  OBVIOUS
<1>1. r \in Seq(T) /\ Len(r) = Len(b) - Len(x)
      /\ \A i \in 1 .. Len(b) - Len(x) : r[i] = b[Len(x) + i]
  <2>1. Len(x) + 1 \in Nat \ {0} /\ Len(b) \in Nat /\ Len(b) <= Len(b) /\ Len(x) + 1 <= Len(b) + 1
        /\ Len(b) - (Len(x) + 1) + 1 = Len(b) - Len(x)
        /\ \A i \in 1 .. Len(b) - Len(x) : Len(x) + 1 + i - 1 = Len(x) + i
    BY <1>0
  <2>2. r \in Seq(T) /\ Len(r) = Len(b) - (Len(x) + 1) + 1
        /\ \A i \in 1 .. Len(b) - (Len(x) + 1) + 1 : r[i] = b[Len(x) + 1 + i - 1]
    BY <2>1, PartFacts
  <2> HIDE DEF r
  <2> QED BY <2>1, <2>2
<1> HIDE DEF r
<1>2. Len(b \o t) = Len(b) + Len(t) /\ Len(x \o y) = Len(x) + Len(y)
  OBVIOUS
<1>3. r \o t \in Seq(T) /\ Len(r \o t) = Len(y)
  BY <1>0, <1>1, <1>2
<1>4. ASSUME NEW i \in 1 .. Len(y) PROVE (r \o t)[i] = y[i]
  <2>1. (x \o y)[Len(x) + i] = y[i]
    BY <1>0
  <2>2. CASE i <= Len(r)
    <3>1. (r \o t)[i] = r[i] /\ r[i] = b[Len(x) + i]
      BY <1>0, <1>1, <2>2
    <3>2. (b \o t)[Len(x) + i] = b[Len(x) + i]
      BY <1>0, <1>1, <2>2
    <3> QED BY <2>1, <3>1, <3>2
  <2>3. CASE i > Len(r)
    <3>1. (r \o t)[i] = t[i - Len(r)]
      BY <1>0, <1>1, <1>2, <2>3
    <3>2. (b \o t)[Len(x) + i] = t[Len(x) + i - Len(b)]
      BY <1>0, <1>1, <1>2, <2>3
    <3>3. Len(x) + i - Len(b) = i - Len(r)
      BY <1>0, <1>1
    <3> QED BY <2>1, <3>1, <3>2, <3>3
  <2>4. i <= Len(r) \/ i > Len(r)
    BY <1>1, <1>0
  <2> QED BY <2>2, <2>3, <2>4
<1>5. r \o t = y
  BY <1>3, <1>4, SeqEqual
<1> QED BY <1>1, <1>5 DEF r, Spliced

(* A sequence is its first ones and the others. *)
LEMMA SplitAt ==
  ASSUME NEW S, NEW s \in Seq(S), NEW k \in 0 .. Len(s)
  PROVE  /\ SubSeq(s, 1, k) \in Seq(S) /\ Len(SubSeq(s, 1, k)) = k
         /\ \A i \in 1 .. k : SubSeq(s, 1, k)[i] = s[i]
         /\ SubSeq(s, k + 1, Len(s)) \in Seq(S)
         /\ Len(SubSeq(s, k + 1, Len(s))) = Len(s) - k
         /\ \A i \in 1 .. Len(s) - k : SubSeq(s, k + 1, Len(s))[i] = s[k + i]
         /\ s = SubSeq(s, 1, k) \o SubSeq(s, k + 1, Len(s))
<1> DEFINE u == SubSeq(s, 1, k)
           v == SubSeq(s, k + 1, Len(s))
<1>0. Len(s) \in Nat /\ k \in Nat /\ k <= Len(s)
  OBVIOUS
<1>1. u \in Seq(S) /\ Len(u) = k /\ \A i \in 1 .. k : u[i] = s[i]
  <2>1. 1 \in Nat \ {0} /\ k \in Nat /\ k <= Len(s) /\ 1 <= k + 1 /\ k - 1 + 1 = k
        /\ \A i \in 1 .. k : 1 + i - 1 = i
    BY <1>0
  <2>2. u \in Seq(S) /\ Len(u) = k - 1 + 1 /\ \A i \in 1 .. k - 1 + 1 : u[i] = s[1 + i - 1]
    BY <2>1, PartFacts
  <2> HIDE DEF u
  <2> QED BY <2>1, <2>2
<1>2. v \in Seq(S) /\ Len(v) = Len(s) - k /\ \A i \in 1 .. Len(s) - k : v[i] = s[k + i]
  <2>1. k + 1 \in Nat \ {0} /\ Len(s) \in Nat /\ Len(s) <= Len(s) /\ k + 1 <= Len(s) + 1
        /\ Len(s) - (k + 1) + 1 = Len(s) - k
        /\ \A i \in 1 .. Len(s) - k : k + 1 + i - 1 = k + i
    BY <1>0
  <2>2. ASSUME NEW a, NEW b, a = k + 1, b = Len(s)
        PROVE  SubSeq(s, a, b) \in Seq(S) /\ Len(SubSeq(s, a, b)) = b - a + 1
               /\ \A i \in 1 .. b - a + 1 : SubSeq(s, a, b)[i] = s[a + i - 1]
    <3>1. a \in Nat \ {0} /\ b \in Nat /\ b <= Len(s) /\ a <= b + 1
      BY <2>1, <2>2
    <3> QED BY <3>1, PartFacts
  <2>3. v \in Seq(S) /\ Len(v) = Len(s) - (k + 1) + 1
        /\ \A i \in 1 .. Len(s) - (k + 1) + 1 : v[i] = s[k + 1 + i - 1]
    BY <2>2
  <2> HIDE DEF v
  <2> QED BY <2>1, <2>3
<1> HIDE DEF u, v
<1>5. s = u \o v
  <2>1. Len(s) = Len(u) + Len(v)
    BY <1>0, <1>1, <1>2
  <2>2. \A i \in 1 .. Len(u) : s[i] = u[i]
    BY <1>1
  <2>3. \A i \in 1 .. Len(v) : s[Len(u) + i] = v[i]
    BY <1>1, <1>2
  <2> QED BY <1>1, <1>2, <2>1, <2>2, <2>3, Glue
<1> QED BY <1>1, <1>2, <1>5 DEF u, v

-----------------------------------------------------------------------------
(* Messages and their places in the stream *)

(* What TypeOK says of the messages accepted. *)
SizeOK == size \in Seq(0 .. MaxLen) /\ Len(size) <= MaxMsgs

(* A framed message: its bytes, the first one naming it. *)
LEMMA FramedFacts ==
  ASSUME CoverAssumption, SizeOK, NEW m \in 1 .. Len(size)
  PROVE  /\ Framed(m) \in Seq(Byte) /\ size[m] \in Nat
         /\ Len(Framed(m)) = PrefixLen + size[m] /\ Len(Framed(m)) >= 1
         /\ \A i \in 1 .. Len(Framed(m)) : Framed(m)[i] = [msg |-> m, at |-> i]
         /\ Framed(m)[1].msg = m
<1>1. size[m] \in 0 .. MaxLen /\ size[m] \in Nat /\ PrefixLen \in Nat \ {0} /\ MaxLen \in Nat
      /\ PrefixLen + size[m] \in Nat /\ PrefixLen + size[m] >= 1
      /\ PrefixLen + size[m] <= PrefixLen + MaxLen
      /\ m \in 1 .. MaxMsgs
  BY DEF CoverAssumption, SizeOK
<1>2. \A i \in 1 .. PrefixLen + size[m] : [msg |-> m, at |-> i] \in Byte
  BY <1>1 DEF Byte
<1>3. Framed(m) \in Seq(Byte) /\ Len(Framed(m)) = PrefixLen + size[m]
      /\ \A i \in 1 .. PrefixLen + size[m] : Framed(m)[i] = [msg |-> m, at |-> i]
  BY <1>1, <1>2 DEF Framed
<1>4. Framed(m)[1] = [msg |-> m, at |-> 1]
  BY <1>1, <1>3
<1> QED BY <1>1, <1>3, <1>4

(* Different messages are framed differently. *)
LEMMA FramedInjective ==
  ASSUME CoverAssumption, SizeOK, NEW m \in 1 .. Len(size), NEW k \in 1 .. Len(size),
         Framed(m) = Framed(k)
  PROVE  m = k
BY FramedFacts

(* Messages(n + 1, Len(size)) and its parts. *)
LEMMA MessagesFacts ==
  ASSUME CoverAssumption, SizeOK, NEW a \in Nat, NEW b \in Nat, a <= b, b <= Len(size)
  PROVE  /\ Messages(a + 1, b) \in Seq(Seq(Byte))
         /\ Len(Messages(a + 1, b)) = b - a
         /\ \A i \in 1 .. b - a : Messages(a + 1, b)[i] = Framed(a + i)
<1>0. Len(size) \in Nat
  BY DEF SizeOK
<1>1. \A i \in 1 .. b - a : a + i \in 1 .. Len(size) /\ a + 1 + i - 1 = a + i
  BY <1>0
<1>2. b - (a + 1) + 1 = b - a /\ b - a \in Nat
  OBVIOUS
<1>3. \A i \in 1 .. b - a : Framed(a + i) \in Seq(Byte)
  BY <1>1, FramedFacts
<1>4. Messages(a + 1, b) = [i \in 1 .. b - a |-> Framed(a + i)]
  <2>1. Messages(a + 1, b) = [i \in 1 .. b - a |-> Framed(a + 1 + i - 1)]
    BY <1>2 DEF Messages
  <2> QED BY <1>1, <2>1
<1>5. \A i \in 1 .. b - a : Messages(a + 1, b)[i] = Framed(a + i)
  BY <1>4
<1>6. Messages(a + 1, b) \in Seq(Seq(Byte)) /\ Len(Messages(a + 1, b)) = b - a
  <2>1. Messages(a + 1, b) \in [1 .. b - a -> Seq(Byte)]
    BY <1>3, <1>4
  <2> QED BY <1>2, <2>1, AsSeq
<1> QED BY <1>5, <1>6

(* Two runs of messages, one after the other, are one. *)
Joins(a, b, c) == Messages(a + 1, c) = Messages(a + 1, b) \o Messages(b + 1, c)

(* Consecutive runs of messages are one run. *)
LEMMA MessagesConcat ==
  ASSUME CoverAssumption, SizeOK, NEW a \in Nat, NEW b \in Nat, NEW c \in Nat,
         a <= b, b <= c, c <= Len(size)
  PROVE  Joins(a, b, c)
<1> DEFINE u == Messages(a + 1, b)
           v == Messages(b + 1, c)
           w == Messages(a + 1, c)
<1>0. Len(size) \in Nat
  BY DEF SizeOK
<1>1. u \in Seq(Seq(Byte)) /\ Len(u) = b - a /\ \A i \in 1 .. b - a : u[i] = Framed(a + i)
  BY <1>0, MessagesFacts
<1>2. v \in Seq(Seq(Byte)) /\ Len(v) = c - b /\ \A i \in 1 .. c - b : v[i] = Framed(b + i)
  BY <1>0, MessagesFacts
<1>3. w \in Seq(Seq(Byte)) /\ Len(w) = c - a /\ \A i \in 1 .. c - a : w[i] = Framed(a + i)
  BY <1>0, MessagesFacts
<1> HIDE DEF u, v, w
<1>6. w = u \o v
  <2>1. Len(w) = Len(u) + Len(v)
    BY <1>0, <1>1, <1>2, <1>3
  <2>2. \A i \in 1 .. Len(u) : w[i] = u[i]
    <3>1. \A i \in 1 .. Len(u) : i \in 1 .. b - a /\ i \in 1 .. c - a
      BY <1>0, <1>1
    <3> QED BY <1>1, <1>3, <3>1
  <2>3. \A i \in 1 .. Len(v) : w[Len(u) + i] = v[i]
    <3>1. \A i \in 1 .. Len(v) : i \in 1 .. c - b /\ Len(u) + i \in 1 .. c - a
                               /\ a + (Len(u) + i) = b + i
      <4>1. Len(v) = c - b /\ Len(u) = b - a
        BY <1>1, <1>2
      <4> QED BY <4>1
    <3> QED BY <1>2, <1>3, <3>1
  <2> QED BY <1>1, <1>2, <1>3, <2>1, <2>2, <2>3, Glue
<1> QED BY <1>6 DEF u, v, w, Joins

(* Where message a + k ends in the stream that starts with message a + 1.  *)
Off(a, k) == Len(FlattenSeq(Messages(a + 1, a + k)))

(* The first message's end is the start; each one ends its length later.   *)
LEMMA OffStep ==
  ASSUME CoverAssumption, SizeOK, NEW a \in Nat, NEW k \in Nat, a + k + 1 <= Len(size)
  PROVE  /\ FlattenSeq(Messages(a + 1, a + k + 1))
              = FlattenSeq(Messages(a + 1, a + k)) \o Framed(a + k + 1)
         /\ FlattenSeq(Messages(a + 1, a + k)) \in Seq(Byte)
         /\ Off(a, k) \in Nat
         /\ Off(a, k + 1) = Off(a, k) + PrefixLen + size[a + k + 1]
<1>0. Len(size) \in Nat /\ a + k \in Nat /\ a + k + 1 \in 1 .. Len(size) /\ a <= a + k
      /\ a + k <= Len(size) /\ a + k + 1 \in Nat /\ a + k <= a + k + 1
      /\ a + (k + 1) = a + k + 1
  BY DEF SizeOK
<1> DEFINE u == Messages(a + 1, a + k)
           v == Messages(a + k + 1, a + k + 1)
<1>1. u \in Seq(Seq(Byte))
  BY <1>0, MessagesFacts
<1>2. v = <<Framed(a + k + 1)>> /\ Framed(a + k + 1) \in Seq(Byte)
      /\ Len(Framed(a + k + 1)) = PrefixLen + size[a + k + 1] /\ size[a + k + 1] \in Nat
      /\ PrefixLen \in Nat
  <2>1. a + k + 1 - (a + k + 1) + 1 = 1 /\ \A i \in 1 .. 1 : a + k + 1 + i - 1 = a + k + 1
    BY <1>0
  <2>2. v = [i \in 1 .. 1 |-> Framed(a + k + 1)]
    BY <2>1 DEF Messages
  <2>3. v = <<Framed(a + k + 1)>>
    BY <2>2
  <2>4. PrefixLen \in Nat
    BY DEF CoverAssumption
  <2> QED BY <1>0, <2>3, <2>4, FramedFacts
<1>3. Messages(a + 1, a + k + 1) = u \o v
  <2>1. Joins(a, a + k, a + k + 1)
    BY <1>0, MessagesConcat
  <2> QED BY <2>1 DEF Joins
<1> HIDE DEF u, v
<1>4. FlattenSeq(u \o v) = FlattenSeq(u) \o FlattenSeq(v) /\ FlattenSeq(u) \in Seq(Byte)
  <2>1. v \in Seq(Seq(Byte))
    BY <1>2
  <2> QED BY <1>1, <2>1, FlattenConcat, FlattenType
<1>5. FlattenSeq(v) = Framed(a + k + 1)
  BY <1>2, FlattenOne
<1>6. FlattenSeq(u) = FlattenSeq(Messages(a + 1, a + k))
  BY DEF u
<1>7. Off(a, k) = Len(FlattenSeq(u))
  BY <1>6 DEF Off
<1>8. Off(a, k + 1) = Len(FlattenSeq(u) \o Framed(a + k + 1))
  <2>1. Messages(a + 1, a + (k + 1)) = u \o v
    BY <1>0, <1>3
  <2> QED BY <1>4, <1>5, <2>1 DEF Off
<1>9. Off(a, k) \in Nat
  BY <1>4, <1>7
<1>10. Len(FlattenSeq(u) \o Framed(a + k + 1)) = Len(FlattenSeq(u)) + Len(Framed(a + k + 1))
  BY <1>2, <1>4
<1>11. Off(a, k + 1) = Off(a, k) + PrefixLen + size[a + k + 1]
  <2>1. Off(a, k + 1) = Off(a, k) + Len(Framed(a + k + 1))
    BY <1>7, <1>8, <1>10
  <2>2. PICK z : z = size[a + k + 1]
    OBVIOUS
  <2>3. Len(Framed(a + k + 1)) = PrefixLen + z /\ PrefixLen \in Nat /\ z \in Nat
    BY <1>2, <2>2
  <2> QED BY <1>9, <2>1, <2>2, <2>3
<1> QED BY <1>3, <1>4, <1>5, <1>6, <1>9, <1>11

(* No message: nothing yet. *)
LEMMA OffZero ==
  ASSUME NEW a \in Nat
  PROVE  Off(a, 0) = 0 /\ Messages(a + 1, a) = <<>>
<1>1. a + 0 = a /\ a - (a + 1) + 1 = 0
  OBVIOUS
<1>2. Messages(a + 1, a) = <<>>
  <2>1. Messages(a + 1, a) = [i \in 1 .. 0 |-> Framed(a + 1 + i - 1)]
    BY <1>1 DEF Messages
  <2> QED BY <2>1
<1> QED BY <1>1, <1>2, FlattenEmpty DEF Off

(* The ends of the messages are in their order, and each at least one byte *)
(* after the last.                                                         *)
LEMMA OffMonotone ==
  ASSUME CoverAssumption, SizeOK, NEW a \in Nat, NEW M \in Nat, a + M <= Len(size)
  PROVE  /\ \A k \in 0 .. M : Off(a, k) \in Nat /\ k <= Off(a, k)
         /\ \A k \in 0 .. M : \A j \in 0 .. M : j < k => Off(a, j) < Off(a, k)
<1> DEFINE G == {k \in Nat : k <= M => /\ Off(a, k) \in Nat /\ k <= Off(a, k)
                                       /\ \A j \in 0 .. M : j < k => Off(a, j) < Off(a, k)}
<1>1. 0 \in G
  BY OffZero
<1>2. ASSUME NEW k \in Nat, k \in G PROVE k + 1 \in G
  <2> SUFFICES ASSUME k + 1 <= M
               PROVE  /\ Off(a, k + 1) \in Nat /\ k + 1 <= Off(a, k + 1)
                      /\ \A j \in 0 .. M : j < k + 1 => Off(a, j) < Off(a, k + 1)
    OBVIOUS
  <2>1. /\ Off(a, k) \in Nat /\ k <= Off(a, k)
        /\ \A j \in 0 .. M : j < k => Off(a, j) < Off(a, k)
    BY <1>2
  <2>2. Len(size) \in Nat /\ a + k + 1 \in 1 .. Len(size) /\ a + k + 1 <= Len(size)
    BY DEF SizeOK
  <2>3. Off(a, k + 1) = Off(a, k) + PrefixLen + size[a + k + 1]
    BY <2>2, OffStep
  <2>4. size[a + k + 1] \in Nat /\ PrefixLen \in Nat \ {0}
    BY <2>2, FramedFacts DEF CoverAssumption
  <2>5. Off(a, k + 1) \in Nat /\ Off(a, k) < Off(a, k + 1)
    BY <2>1, <2>3, <2>4
  <2>6. \A j \in 0 .. M : j < k + 1 => j < k \/ j = k
    OBVIOUS
  <2>7. \A j \in 0 .. M : j < k => Off(a, j) \in Int
    <3> SUFFICES ASSUME NEW j \in 0 .. M, j < k PROVE Off(a, j) \in Int
      OBVIOUS
    <3>1. a + j + 1 <= Len(size)
      BY <2>2
    <3> QED BY <3>1, OffStep
  <2>8. ASSUME NEW j \in 0 .. M, j < k + 1 PROVE Off(a, j) < Off(a, k + 1)
    <3>1. CASE j = k
      BY <3>1, <2>5
    <3>2. CASE j < k
      BY <3>2, <2>1, <2>5, <2>7
    <3> QED BY <2>6, <2>8, <3>1, <3>2
  <2> QED BY <2>1, <2>5, <2>8
<1>3. \A k \in Nat : k \in G
  <2> HIDE DEF G
  <2> QED BY <1>1, <1>2, NatSetInduction
<1> QED BY <1>3

(* Inside the stream the bytes of a message stand between two ends. *)
LEMMA StreamAt ==
  ASSUME CoverAssumption, SizeOK, NEW a \in Nat, NEW k \in Nat, a + k + 1 <= Len(size)
  PROVE  LET s == FlattenSeq(Messages(a + 1, Len(size)))
         IN /\ s \in Seq(Byte) /\ Off(a, k + 1) <= Len(s)
            /\ \A i \in 1 .. Len(Framed(a + k + 1)) : s[Off(a, k) + i] = Framed(a + k + 1)[i]
<1> DEFINE N == Len(size)
           u == FlattenSeq(Messages(a + 1, a + k))
           f == Framed(a + k + 1)
           v == FlattenSeq(Messages(a + k + 1 + 1, N))
           s == FlattenSeq(Messages(a + 1, N))
<1>0. N \in Nat /\ a + k \in Nat /\ a + k + 1 \in 1 .. N /\ a <= a + k + 1 /\ a + k + 1 \in Nat
      /\ a <= N /\ a + k + 1 <= N /\ N <= N
  BY DEF SizeOK
<1>1. Messages(a + 1, N) = Messages(a + 1, a + k + 1) \o Messages(a + k + 1 + 1, N)
  <2>1. ASSUME NEW b, b = a + k + 1
        PROVE  Messages(a + 1, N) = Messages(a + 1, b) \o Messages(b + 1, N)
    <3>1. b \in Nat /\ a <= b /\ b <= N /\ N \in Nat /\ N <= Len(size)
      BY <1>0, <2>1
    <3> HIDE DEF N
    <3>2. Joins(a, b, N)
      BY <3>1, MessagesConcat
    <3> QED BY <3>2 DEF Joins
  <2> QED BY <2>1
<1>2. Messages(a + 1, a + k + 1) \in Seq(Seq(Byte)) /\ Messages(a + k + 1 + 1, N) \in Seq(Seq(Byte))
  BY <1>0, MessagesFacts
<1>3. s = FlattenSeq(Messages(a + 1, a + k + 1)) \o v /\ v \in Seq(Byte)
  BY <1>1, <1>2, FlattenConcat, FlattenType
<1>4. FlattenSeq(Messages(a + 1, a + k + 1)) = u \o f /\ u \in Seq(Byte) /\ Off(a, k) = Len(u)
  BY OffStep DEF Off
<1>5. Off(a, k + 1) = Off(a, k) + PrefixLen + size[a + k + 1] /\ Off(a, k) \in Nat
  BY OffStep
<1>6. f \in Seq(Byte) /\ Len(f) = PrefixLen + size[a + k + 1] /\ size[a + k + 1] \in Nat
      /\ PrefixLen \in Nat
  BY <1>0, FramedFacts DEF CoverAssumption
<1> HIDE DEF N, u, f, v, s
<1>a. u \in Seq(Byte) /\ f \in Seq(Byte) /\ v \in Seq(Byte)
  BY <1>3, <1>4, <1>6
<1>b. u \o f \in Seq(Byte) /\ Len(u \o f) = Len(u) + Len(f)
      /\ Len(u) \in Nat /\ Len(f) \in Nat /\ Len(v) \in Nat
  BY <1>a
<1>7. s = (u \o f) \o v
  BY <1>3, <1>4
<1>8. s \in Seq(Byte) /\ Len(s) = Len(u) + Len(f) + Len(v)
  BY <1>a, <1>b, <1>7
<1>9. Off(a, k + 1) <= Len(s)
  <2>1. Off(a, k + 1) = Len(u) + Len(f)
    <3> DEFINE z == size[a + k + 1]
    <3>1. Off(a, k + 1) = Off(a, k) + PrefixLen + z /\ Off(a, k) = Len(u)
          /\ Len(f) = PrefixLen + z /\ z \in Nat /\ PrefixLen \in Nat
      BY <1>4, <1>5, <1>6
    <3> HIDE DEF z
    <3> QED BY <3>1, <1>b
  <2>2. Len(s) = Len(u) + Len(f) + Len(v)
    BY <1>8
  <2> QED BY <1>b, <2>1, <2>2
<1>10. ASSUME NEW i \in 1 .. Len(f) PROVE s[Len(u) + i] = f[i]
  <2>1. (u \o f)[Len(u) + i] = f[i]
    BY <1>4, <1>6
  <2>2. ((u \o f) \o v)[Len(u) + i] = (u \o f)[Len(u) + i]
    <3>2. Len(u) + i \in 1 .. Len(u \o f)
      BY <1>b
    <3> QED BY <1>a, <1>b, <3>2
  <2> QED BY <1>7, <2>1, <2>2
<1>11. \A i \in 1 .. Len(f) : s[Off(a, k) + i] = f[i]
  BY <1>4, <1>10
<1> QED BY <1>8, <1>9, <1>11 DEF N, f, s

-----------------------------------------------------------------------------
(* Ends, the loop that cuts messages off the front *)

(* Where the message that starts after e ends, if all of it is there; else e. *)
NextEnd(bytes, e) ==
  LET left == SubSeq(bytes, e + 1, Len(bytes))
  IN Len(bytes) - Len(left) +
     IF Len(left) < PrefixLen \/ Len(left) < PrefixLen + Declared(left[1])
     THEN 0 ELSE PrefixLen + Declared(left[1])

(* end is the recursive function of Ends, up to n. *)
IsEnd(end, bytes, n) ==
  end = [k \in 0 .. n |-> IF k = 0 THEN 0 ELSE NextEnd(bytes, end[k - 1])]

(* What the recursive function is at one place, by its body. *)
LEMMA EndStep ==
  ASSUME NEW bytes, NEW n, NEW f, IsEnd(f, bytes, n), NEW i \in 0 .. n
  PROVE  f[i] = IF i = 0 THEN 0 ELSE NextEnd(bytes, f[i - 1])
<1> DEFINE g == [j \in 0 .. n |-> IF j = 0 THEN 0 ELSE NextEnd(bytes, f[j - 1])]
<1>1. f = g
  BY DEF IsEnd
<1>2. g[i] = IF i = 0 THEN 0 ELSE NextEnd(bytes, f[i - 1])
  OBVIOUS
<1> HIDE DEF g
<1> QED BY <1>1, <1>2

(* There is such a function, up to any n. *)
LEMMA EndExists ==
  ASSUME NEW bytes, NEW n \in Nat
  PROVE  \E f : IsEnd(f, bytes, n)
<1> DEFINE G == {k \in Nat : \E f : IsEnd(f, bytes, k)}
<1>1. 0 \in G
  <2> DEFINE f == [i \in 0 .. 0 |-> 0]
  <2>1. f = [k \in 0 .. 0 |-> IF k = 0 THEN 0 ELSE NextEnd(bytes, f[k - 1])]
    <3>1. \A k \in 0 .. 0 : k = 0
      OBVIOUS
    <3> QED BY <3>1
  <2>2. IsEnd(f, bytes, 0)
    <3> HIDE DEF f
    <3> QED BY <2>1 DEF IsEnd
  <2> QED BY <2>2
<1>2. ASSUME NEW k \in Nat, k \in G PROVE k + 1 \in G
  <2>1. PICK f : IsEnd(f, bytes, k)
    BY <1>2
  <2> DEFINE g == [i \in 0 .. k + 1 |-> IF i = k + 1 THEN NextEnd(bytes, f[k]) ELSE f[i]]
  <2>2. ASSUME NEW i \in 0 .. k + 1
        PROVE  g[i] = IF i = 0 THEN 0 ELSE NextEnd(bytes, g[i - 1])
    <3>1. CASE i = k + 1
      BY <3>1
    <3>2. CASE i # k + 1
      <4>1. i \in 0 .. k /\ g[i] = f[i]
        BY <3>2
      <4>2. f[i] = IF i = 0 THEN 0 ELSE NextEnd(bytes, f[i - 1])
        BY <4>1, <2>1, EndStep
      <4>3. i # 0 => i - 1 \in 0 .. k /\ g[i - 1] = f[i - 1]
        BY <4>1
      <4> QED BY <4>1, <4>2, <4>3
    <3> QED BY <3>1, <3>2
  <2>3. g = [i \in 0 .. k + 1 |-> IF i = 0 THEN 0 ELSE NextEnd(bytes, g[i - 1])]
    <3>1. g = [i \in 0 .. k + 1 |-> g[i]]
      OBVIOUS
    <3> HIDE DEF g
    <3> QED BY <2>2, <3>1
  <2>4. IsEnd(g, bytes, k + 1)
    <3> HIDE DEF g
    <3> QED BY <2>3 DEF IsEnd
  <2> QED BY <2>4
<1>3. \A k \in Nat : k \in G
  <2> HIDE DEF G
  <2> QED BY <1>1, <1>2, NatSetInduction
<1> QED BY <1>3

(* Ends is it. *)
LEMMA EndsIs ==
  ASSUME NEW bytes, Len(bytes) \in Nat
  PROVE  IsEnd(Ends(bytes), bytes, Len(bytes))
<1> DEFINE f == CHOOSE f : IsEnd(f, bytes, Len(bytes))
<1>1. IsEnd(f, bytes, Len(bytes))
  BY EndExists
<1>2. Ends(bytes) = f
  BY DEF Ends, IsEnd, NextEnd
<1> QED BY <1>1, <1>2

(* The bytes read so far and those behind them are the stream that starts  *)
(* with message a + 1; k messages of it are complete and the next is not.  *)
Complete(a, k, bytes) ==
  /\ k \in Nat /\ a + k <= Len(size) /\ Off(a, k) <= Len(bytes)
  /\ a + k < Len(size) => Off(a, k + 1) > Len(bytes)

(* There is such a k. *)
LEMMA CompleteExists ==
  ASSUME CoverAssumption, SizeOK, NEW a \in Nat, a <= Len(size), NEW bytes, Len(bytes) \in Nat
  PROVE  \E k \in 0 .. Len(size) - a : Complete(a, k, bytes) /\ k <= Len(bytes)
<1>0. Len(size) \in Nat
  BY DEF SizeOK
<1> DEFINE T == {k \in Nat : a + k <= Len(size)
                              /\ (a + k < Len(size) => Off(a, k + 1) > Len(bytes))}
<1>1. Len(size) - a \in T
  BY <1>0
<1>2. PICK k \in T : \A m \in T : k <= m
  <2>1. T \in SUBSET Nat /\ T # {}
    BY <1>1
  <2> HIDE DEF T
  <2> QED BY <2>1, NatMin
<1>3. k \in Nat /\ a + k <= Len(size) /\ (a + k < Len(size) => Off(a, k + 1) > Len(bytes))
      /\ k \in 0 .. Len(size) - a
  BY <1>0, <1>2
<1>4. Off(a, k) \in Nat /\ k <= Off(a, k)
  <2>1. \A i \in 0 .. k : Off(a, i) \in Nat /\ i <= Off(a, i)
    BY <1>3, OffMonotone
  <2>2. k \in 0 .. k
    BY <1>3
  <2> QED BY <2>1, <2>2
<1>5. Off(a, k) <= Len(bytes)
  <2>1. CASE k = 0
    BY <2>1, OffZero
  <2>2. CASE k # 0
    <3>1. k - 1 \in Nat /\ k - 1 \notin T /\ (k - 1) + 1 = k /\ a + (k - 1) < Len(size)
      BY <1>0, <1>2, <1>3, <2>2
    <3>2. ~(Off(a, (k - 1) + 1) > Len(bytes))
      BY <3>1, <1>0
    <3> QED BY <1>4, <3>1, <3>2
  <2> QED BY <2>1, <2>2
<1>6. k <= Len(bytes)
  BY <1>3, <1>4, <1>5
<1> QED BY <1>3, <1>5, <1>6 DEF Complete

(* One turn of the loop: a complete message is stepped over, an incomplete *)
(* one is not.                                                             *)
LEMMA NextEndFacts ==
  ASSUME CoverAssumption, SizeOK, NEW a \in Nat, a <= Len(size),
         NEW bytes \in Seq(Byte), NEW tail \in Seq(Byte),
         bytes \o tail = FlattenSeq(Messages(a + 1, Len(size))),
         NEW k \in Nat, Complete(a, k, bytes), NEW j \in 0 .. k
  PROVE  NextEnd(bytes, Off(a, j)) = IF j < k THEN Off(a, j + 1) ELSE Off(a, k)
<1> DEFINE e == Off(a, j)
           left == SubSeq(bytes, e + 1, Len(bytes))
<1>0. Len(size) \in Nat /\ Len(bytes) \in Nat /\ Len(tail) \in Nat /\ PrefixLen \in Nat \ {0}
      /\ a + k <= Len(size) /\ Off(a, k) <= Len(bytes) /\ j \in Nat /\ j <= k
  BY DEF SizeOK, CoverAssumption, Complete
<1>1. e \in Nat /\ Off(a, k) \in Nat /\ e <= Off(a, k)
  <2>1. \A i \in 0 .. k : Off(a, i) \in Nat /\ i <= Off(a, i)
    BY <1>0, OffMonotone
  <2>2. \A i \in 0 .. k : \A l \in 0 .. k : l < i => Off(a, l) < Off(a, i)
    BY <1>0, OffMonotone
  <2>3. k \in 0 .. k /\ j \in 0 .. k /\ (j < k \/ j = k)
    BY <1>0
  <2>4. CASE j < k
    BY <2>1, <2>2, <2>3, <2>4
  <2>5. CASE j = k
    BY <2>1, <2>3, <2>5
  <2> QED BY <2>3, <2>4, <2>5
<1>2. left \in Seq(Byte) /\ Len(left) = Len(bytes) - e /\ (Len(left) >= 1 => left[1] = bytes[e + 1])
  <2> HIDE DEF e
  <2>1. e \in 0 .. Len(bytes)
    BY <1>0, <1>1
  <2>2. left \in Seq(Byte) /\ Len(left) = Len(bytes) - e
        /\ \A i \in 1 .. Len(bytes) - e : left[i] = bytes[e + i]
    BY <2>1, SplitAt
  <2>3. Len(left) >= 1 => 1 \in 1 .. Len(bytes) - e
    BY <2>2, <1>0, <1>1
  <2> QED BY <2>2, <2>3
<1>3. NextEnd(bytes, e) = Len(bytes) - Len(left) +
          IF Len(left) < PrefixLen \/ Len(left) < PrefixLen + Declared(left[1])
          THEN 0 ELSE PrefixLen + Declared(left[1])
  BY DEF NextEnd
<1>4. ASSUME a + j + 1 <= Len(size)
      PROVE  /\ Off(a, j + 1) = e + PrefixLen + size[a + j + 1] /\ size[a + j + 1] \in Nat
             /\ Len(left) >= 1 => Declared(left[1]) = size[a + j + 1]
  <2>1. Off(a, j + 1) = e + PrefixLen + size[a + j + 1]
    BY <1>0, <1>4, OffStep
  <2>2. a + j + 1 \in 1 .. Len(size)
    BY <1>0, <1>4
  <2>3. size[a + j + 1] \in Nat /\ Len(Framed(a + j + 1)) >= 1 /\ Framed(a + j + 1)[1].msg = a + j + 1
        /\ Len(Framed(a + j + 1)) \in Nat
    <3>1. PICK m : m = a + j + 1
      OBVIOUS
    <3>2. m \in 1 .. Len(size)
      BY <2>2, <3>1
    <3>3. size[m] \in Nat /\ Len(Framed(m)) >= 1 /\ Framed(m)[1].msg = m /\ Framed(m) \in Seq(Byte)
      BY <3>2, FramedFacts
    <3>4. Len(Framed(m)) \in Nat
      BY <3>3
    <3> QED BY <3>1, <3>3, <3>4
  <2>4. ASSUME Len(left) >= 1 PROVE Declared(left[1]) = size[a + j + 1]
    <3>1. (bytes \o tail)[e + 1] = Framed(a + j + 1)[1]
      <4>1. \A i \in 1 .. Len(Framed(a + j + 1)) :
              FlattenSeq(Messages(a + 1, Len(size)))[Off(a, j) + i] = Framed(a + j + 1)[i]
        BY <1>0, <1>4, StreamAt
      <4>2. 1 \in 1 .. Len(Framed(a + j + 1))
        BY <2>3
      <4> QED BY <4>1, <4>2
    <3>2. (bytes \o tail)[e + 1] = bytes[e + 1]
      <4>1. e + 1 \in 1 .. Len(bytes)
        BY <2>4, <1>0, <1>1, <1>2
      <4> HIDE DEF e
      <4> QED BY <4>1
    <3>3. left[1].msg = a + j + 1
      BY <1>2, <2>3, <2>4, <3>1, <3>2
    <3> HIDE DEF left
    <3> QED BY <3>3 DEF Declared
  <2> QED BY <2>1, <2>3, <2>4
<1> HIDE DEF e, left
<1>5. CASE j < k
  <2>1. a + j + 1 <= Len(size)
    BY <1>0, <1>5
  <2>2. Off(a, j + 1) <= Off(a, k) /\ Off(a, j + 1) \in Nat
    <3>1. \A i \in 0 .. k : Off(a, i) \in Nat
      BY <1>0, OffMonotone
    <3>2. \A i \in 0 .. k : \A l \in 0 .. k : l < i => Off(a, l) < Off(a, i)
      BY <1>0, OffMonotone
    <3>3. k \in 0 .. k /\ j + 1 \in 0 .. k /\ (j + 1 < k \/ j + 1 = k)
      BY <1>0, <1>5
    <3>4. CASE j + 1 < k
      BY <3>1, <3>2, <3>3, <3>4
    <3>5. CASE j + 1 = k
      BY <3>1, <3>3, <3>5
    <3> QED BY <3>3, <3>4, <3>5
  <2>b. Off(a, j + 1) = e + PrefixLen + size[a + j + 1] /\ size[a + j + 1] \in Nat
    BY <1>4, <2>1
  <2>c. Len(left) = Len(bytes) - e
    BY <1>2
  <2>3. Len(left) >= PrefixLen + size[a + j + 1] /\ Len(left) >= 1 /\ Len(left) >= PrefixLen
        /\ Len(left) \in Nat
    <3> DEFINE z == size[a + j + 1]
               o == Off(a, j + 1)
    <3>1. o = e + PrefixLen + z /\ z \in Nat /\ Len(left) = Len(bytes) - e
          /\ o <= Off(a, k) /\ o \in Nat
      BY <2>b, <2>c, <2>2
    <3> HIDE DEF z, o
    <3>2. Len(left) >= PrefixLen + z /\ Len(left) >= 1 /\ Len(left) >= PrefixLen /\ Len(left) \in Nat
      BY <1>0, <1>1, <3>1
    <3> QED BY <3>2 DEF z
  <2>4. Declared(left[1]) = size[a + j + 1]
    BY <1>4, <2>1, <2>3
  <2>5. NextEnd(bytes, e) = Off(a, j + 1)
    <3>1. ~(Len(left) < PrefixLen \/ Len(left) < PrefixLen + Declared(left[1]))
      BY <1>0, <2>b, <2>3, <2>4
    <3>2. NextEnd(bytes, e) = Len(bytes) - Len(left) + (PrefixLen + size[a + j + 1])
      BY <1>3, <2>4, <3>1
    <3> QED BY <1>0, <1>1, <2>b, <2>c, <3>2
  <2> QED BY <1>5, <2>5 DEF e
<1>6. CASE j = k
  <2>1. CASE a + k = Len(size)
    <3>1. Messages(a + 1, a + k) = Messages(a + 1, Len(size))
      BY <2>1
    <3>2. Off(a, k) = Len(bytes \o tail)
      BY <3>1 DEF Off
    <3>3. Off(a, k) = Len(bytes) + Len(tail)
      BY <3>2
    <3>4. Len(left) = 0
      BY <1>0, <1>1, <1>2, <1>6, <3>3 DEF e
    <3>5. NextEnd(bytes, e) = Len(bytes) - Len(left) + 0
      BY <1>0, <1>3, <3>4
    <3> QED BY <1>0, <1>1, <1>2, <1>6, <3>5 DEF e
  <2>2. CASE a + k # Len(size)
    <3>1. a + k < Len(size) /\ a + j + 1 <= Len(size)
      BY <1>0, <1>6, <2>2
    <3>2. Off(a, k + 1) > Len(bytes)
      BY <3>1 DEF Complete
    <3>a. Off(a, j + 1) = e + PrefixLen + size[a + j + 1] /\ size[a + j + 1] \in Nat
      BY <1>4, <3>1
    <3>b. Len(left) = Len(bytes) - e /\ Off(a, j + 1) > Len(bytes)
      BY <1>2, <1>6, <3>2
    <3>3. Len(left) < PrefixLen + size[a + j + 1]
      <4> DEFINE z == size[a + j + 1]
                 o == Off(a, j + 1)
      <4>1. o = e + PrefixLen + z /\ z \in Nat /\ Len(left) = Len(bytes) - e /\ o > Len(bytes)
        BY <3>a, <3>b
      <4> HIDE DEF z, o
      <4>2. Len(left) < PrefixLen + z
        BY <1>0, <1>1, <4>1
      <4> QED BY <4>2 DEF z
    <3>4. Len(left) < PrefixLen \/ Len(left) < PrefixLen + Declared(left[1])
      <4>1. CASE Len(left) >= 1
        BY <1>4, <3>1, <3>3, <4>1
      <4>2. CASE ~(Len(left) >= 1)
        BY <1>0, <1>1, <1>2, <4>2
      <4> QED BY <4>1, <4>2
    <3>5. NextEnd(bytes, e) = Len(bytes) - Len(left) + 0
      BY <1>3, <3>4
    <3> QED BY <1>0, <1>1, <1>2, <1>6, <3>5 DEF e
  <2> QED BY <2>1, <2>2
<1> QED BY <1>0, <1>5, <1>6

(* The loop's ends are those of the complete messages, and then the last. *)
LEMMA EndsFacts ==
  ASSUME CoverAssumption, SizeOK, NEW a \in Nat, a <= Len(size),
         NEW bytes \in Seq(Byte), NEW tail \in Seq(Byte),
         bytes \o tail = FlattenSeq(Messages(a + 1, Len(size))),
         NEW k \in Nat, Complete(a, k, bytes), k <= Len(bytes)
  PROVE  /\ DOMAIN Ends(bytes) = 0 .. Len(bytes)
         /\ \A j \in 0 .. Len(bytes) :
              Ends(bytes)[j] = IF j <= k THEN Off(a, j) ELSE Off(a, k)
         /\ Cardinality(Range(Ends(bytes))) = k + 1
<1> DEFINE E == Ends(bytes)
           L == Len(bytes)
<1>0. L \in Nat /\ a + k <= Len(size)
  BY DEF Complete
<1>1. IsEnd(E, bytes, L)
  BY <1>0, EndsIs
<1>2. DOMAIN E = 0 .. L
  <2> HIDE DEF E, L
  <2> QED BY <1>1 DEF IsEnd
<1> HIDE DEF E
<1> DEFINE G == {j \in Nat : j <= L => E[j] = IF j <= k THEN Off(a, j) ELSE Off(a, k)}
<1>3. 0 \in G
  <2>1. 0 \in 0 .. L /\ 0 <= k
    BY <1>0
  <2>2. E[0] = 0
    BY <1>1, <2>1, EndStep
  <2> QED BY <2>1, <2>2, OffZero
<1>4. ASSUME NEW j \in Nat, j \in G PROVE j + 1 \in G
  <2> SUFFICES ASSUME j + 1 <= L
               PROVE  E[j + 1] = IF j + 1 <= k THEN Off(a, j + 1) ELSE Off(a, k)
    OBVIOUS
  <2>1. j + 1 \in 0 .. L /\ j + 1 # 0 /\ j <= L /\ j + 1 - 1 = j
    BY <1>0
  <2>2. E[j + 1] = NextEnd(bytes, E[j])
    <3>1. E[j + 1] = IF j + 1 = 0 THEN 0 ELSE NextEnd(bytes, E[j + 1 - 1])
      BY <1>1, <2>1, EndStep
    <3> QED BY <2>1, <3>1
  <2>3. E[j] = IF j <= k THEN Off(a, j) ELSE Off(a, k)
    BY <1>4, <2>1
  <2>4. \A i \in 0 .. k : NextEnd(bytes, Off(a, i)) = IF i < k THEN Off(a, i + 1) ELSE Off(a, k)
    BY NextEndFacts
  <2>5. CASE j < k
    <3>1. j \in 0 .. k /\ j <= k /\ j + 1 <= k
      BY <2>5
    <3> QED BY <2>2, <2>3, <2>4, <2>5, <3>1
  <2>6. CASE j >= k
    <3>1. k \in 0 .. k /\ ~(k < k) /\ ~(j + 1 <= k) /\ (j <= k => j = k)
      BY <2>6
    <3>2. E[j] = Off(a, k)
      BY <2>3, <3>1
    <3> QED BY <2>2, <2>4, <3>1, <3>2
  <2> QED BY <2>5, <2>6
<1>5. \A j \in Nat : j \in G
  <2> HIDE DEF G
  <2> QED BY <1>3, <1>4, NatSetInduction
<1>6. \A j \in 0 .. L : E[j] = IF j <= k THEN Off(a, j) ELSE Off(a, k)
  BY <1>0, <1>5
<1>7. Range(E) = {Off(a, i) : i \in 0 .. k}
  <2>1. \A i \in 0 .. k : i \in 0 .. L /\ E[i] = Off(a, i)
    BY <1>0, <1>6
  <2>2. \A j \in 0 .. L : \E i \in 0 .. k : E[j] = Off(a, i)
    BY <1>6
  <2>3. Range(E) = {E[j] : j \in 0 .. L}
    BY <1>2 DEF Range
  <2> HIDE DEF L
  <2> QED BY <2>1, <2>2, <2>3
<1>8. Cardinality(Range(E)) = k + 1
  <2> DEFINE R == {Off(a, i) : i \in 0 .. k}
             f == [i \in 1 .. k + 1 |-> Off(a, i - 1)]
  <2>0. \A i \in 1 .. k + 1 : i - 1 \in 0 .. k
    OBVIOUS
  <2>1. f \in [1 .. k + 1 -> R]
    BY <2>0
  <2>2. \A r \in R : \E i \in 1 .. k + 1 : f[i] = r
    <3> SUFFICES ASSUME NEW i \in 0 .. k PROVE \E l \in 1 .. k + 1 : f[l] = Off(a, i)
      OBVIOUS
    <3>1. i + 1 \in 1 .. k + 1 /\ (i + 1) - 1 = i
      OBVIOUS
    <3> QED BY <3>1
  <2>3. ASSUME NEW i \in 1 .. k + 1, NEW j \in 1 .. k + 1, f[i] = f[j] PROVE i = j
    <3>1. /\ \A x \in 0 .. k : Off(a, x) \in Nat
          /\ \A x \in 0 .. k : \A y \in 0 .. k : y < x => Off(a, y) < Off(a, x)
      BY <1>0, OffMonotone
    <3>2. Off(a, i - 1) = Off(a, j - 1)
      BY <2>3
    <3>3. ~(i - 1 < j - 1) /\ ~(j - 1 < i - 1)
      BY <2>0, <3>1, <3>2
    <3> QED BY <3>3
  <2>4. DOMAIN f = 1 .. k + 1
    OBVIOUS
  <2> HIDE DEF f, R
  <2>5. f \in Bijection(1 .. k + 1, R)
    BY <2>1, <2>2, <2>3, <2>4 DEF Bijection, Injection, Surjection, IsInjective
  <2>6. k + 1 \in Nat /\ ExistsBijection(1 .. k + 1, R)
    BY <2>5 DEF ExistsBijection
  <2>7. Cardinality(R) = k + 1
    BY <2>6, FS_CountingElements
  <2> QED BY <1>7, <2>7 DEF R
<1> QED BY <1>2, <1>6, <1>8 DEF E

(* Cut gives the messages whose last byte has been read, and keeps the      *)
(* bytes behind them: with those not yet read they are the rest of the      *)
(* stream.                                                                  *)
LEMMA CutFacts ==
  ASSUME CoverAssumption, SizeOK, NEW a \in Nat, a <= Len(size),
         NEW bytes \in Seq(Byte), NEW tail \in Seq(Byte),
         bytes \o tail = FlattenSeq(Messages(a + 1, Len(size)))
  PROVE  \E k \in 0 .. Len(size) - a :
           /\ Cut(bytes).whole = Messages(a + 1, a + k)
           /\ Cut(bytes).rest \in Seq(Byte)
           /\ Cut(bytes).rest \o tail = FlattenSeq(Messages(a + k + 1, Len(size)))
<1> DEFINE E == Ends(bytes)
           L == Len(bytes)
           n == Cardinality(Range(E)) - 1
<1>0. L \in Nat /\ Len(size) \in Nat
  BY DEF SizeOK
<1>1. PICK k \in 0 .. Len(size) - a : Complete(a, k, bytes) /\ k <= L
  BY <1>0, CompleteExists
<1>2. k \in Nat /\ a + k <= Len(size) /\ Off(a, k) <= L
  BY <1>0, <1>1 DEF Complete
<1>3. /\ \A j \in 0 .. L : E[j] = IF j <= k THEN Off(a, j) ELSE Off(a, k)
      /\ Cardinality(Range(E)) = k + 1
  BY <1>1, <1>2, EndsFacts
<1>4. n = k /\ E[k] = Off(a, k)
  BY <1>0, <1>1, <1>2, <1>3
<1>5. ASSUME NEW i \in 1 .. k
      PROVE  SubSeq(bytes, E[i - 1] + 1, E[i]) = Framed(a + i)
  <2> DEFINE p == Off(a, i - 1)
             q == Off(a, i)
             f == Framed(a + i)
             s == FlattenSeq(Messages(a + 1, Len(size)))
  <2>0. i - 1 \in Nat /\ i \in 0 .. L /\ i - 1 \in 0 .. L /\ i - 1 <= k /\ i <= k
        /\ a + (i - 1) + 1 <= Len(size) /\ (i - 1) + 1 = i /\ a + (i - 1) + 1 = a + i
        /\ a + i \in 1 .. Len(size)
    BY <1>0, <1>1, <1>2
  <2>1. E[i - 1] = p /\ E[i] = q
    BY <1>3, <2>0
  <2>2. f \in Seq(Byte) /\ Len(f) \in Nat /\ q = p + Len(f) /\ p \in Nat
    <3>1. Off(a, (i - 1) + 1) = Off(a, i - 1) + PrefixLen + size[a + (i - 1) + 1]
          /\ Off(a, i - 1) \in Nat
      BY <2>0, OffStep
    <3>2. f \in Seq(Byte) /\ Len(f) = PrefixLen + size[a + i] /\ size[a + i] \in Nat
          /\ PrefixLen \in Nat
      BY <2>0, FramedFacts DEF CoverAssumption
    <3> DEFINE z == size[a + i]
    <3>3. q = p + PrefixLen + z /\ p \in Nat /\ Len(f) = PrefixLen + z /\ z \in Nat
          /\ PrefixLen \in Nat /\ f \in Seq(Byte)
      BY <2>0, <3>1, <3>2
    <3> HIDE DEF z, p, q, f
    <3>4. q = p + Len(f) /\ Len(f) \in Nat
      BY <3>3
    <3> QED BY <3>3, <3>4
  <2>3. q <= Off(a, k) /\ Off(a, k) \in Nat
    <3>1. /\ \A x \in 0 .. k : Off(a, x) \in Nat
          /\ \A x \in 0 .. k : \A y \in 0 .. k : y < x => Off(a, y) < Off(a, x)
      BY <1>2, OffMonotone
    <3>2. i \in 0 .. k /\ k \in 0 .. k /\ (i < k \/ i = k)
      BY <2>0, <1>2
    <3>3. CASE i < k
      BY <3>1, <3>2, <3>3
    <3>4. CASE i = k
      BY <3>1, <3>2, <3>4
    <3> QED BY <3>2, <3>3, <3>4
  <2>4. \A x \in 1 .. Len(f) : s[p + x] = f[x]
    <3>1. \A x \in 1 .. Len(Framed(a + (i - 1) + 1)) :
            s[Off(a, i - 1) + x] = Framed(a + (i - 1) + 1)[x]
      BY <2>0, StreamAt
    <3> HIDE DEF s
    <3> QED BY <2>0, <3>1
  <2> HIDE DEF p, q, f, s
  <2>5. SubSeq(bytes, p + 1, q) \in Seq(Byte) /\ Len(SubSeq(bytes, p + 1, q)) = Len(f)
        /\ \A x \in 1 .. Len(f) : SubSeq(bytes, p + 1, q)[x] = bytes[p + x]
    <3>1. p + 1 \in Nat \ {0} /\ q \in Nat /\ q <= Len(bytes) /\ p + 1 <= q + 1
          /\ q - (p + 1) + 1 = Len(f) /\ \A x \in 1 .. Len(f) : p + 1 + x - 1 = p + x
      BY <1>0, <1>2, <2>2, <2>3
    <3>2. ASSUME NEW b, b = p + 1
          PROVE  SubSeq(bytes, b, q) \in Seq(Byte) /\ Len(SubSeq(bytes, b, q)) = q - b + 1
                 /\ \A x \in 1 .. q - b + 1 : SubSeq(bytes, b, q)[x] = bytes[b + x - 1]
      <4>1. b \in Nat \ {0} /\ q \in Nat /\ q <= Len(bytes) /\ b <= q + 1
        BY <3>1, <3>2
      <4> QED BY <4>1, PartFacts
    <3> DEFINE w == SubSeq(bytes, p + 1, q)
    <3>3. w \in Seq(Byte) /\ Len(w) = q - (p + 1) + 1
          /\ \A x \in 1 .. q - (p + 1) + 1 : w[x] = bytes[p + 1 + x - 1]
      BY <3>2
    <3> HIDE DEF w
    <3>4. w \in Seq(Byte) /\ Len(w) = Len(f) /\ \A x \in 1 .. Len(f) : w[x] = bytes[p + x]
      BY <3>1, <3>3
    <3> QED BY <3>4 DEF w
  <2>6. \A x \in 1 .. Len(f) : bytes[p + x] = s[p + x]
    <3>1. s = bytes \o tail
      BY DEF s
    <3>2. \A x \in 1 .. Len(f) : p + x \in 1 .. Len(bytes)
      BY <1>0, <1>2, <2>2, <2>3
    <3>3. \A y \in 1 .. Len(bytes) : (bytes \o tail)[y] = bytes[y]
      OBVIOUS
    <3> QED BY <3>1, <3>2, <3>3
  <2>7. SubSeq(bytes, p + 1, q) = f
    BY <2>2, <2>4, <2>5, <2>6, SeqEqual
  <2> QED BY <2>1, <2>7 DEF f
<1>6. Cut(bytes).whole = Messages(a + 1, a + k)
  <2>1. Cut(bytes).whole = [i \in 1 .. n |-> SubSeq(bytes, E[i - 1] + 1, E[i])]
    BY DEF Cut
  <2>2. a + k - (a + 1) + 1 = k /\ \A i \in 1 .. k : a + 1 + i - 1 = a + i
    BY <1>2
  <2>3. Messages(a + 1, a + k) = [i \in 1 .. k |-> Framed(a + i)]
    <3>1. Messages(a + 1, a + k) = [i \in 1 .. a + k - (a + 1) + 1 |-> Framed(a + 1 + i - 1)]
      BY DEF Messages
    <3> QED BY <2>2, <3>1
  <2> HIDE DEF E, n
  <2> QED BY <1>4, <1>5, <2>1, <2>3
<1>7. Cut(bytes).rest = SubSeq(bytes, Off(a, k) + 1, L)
  <2>1. Cut(bytes).rest = SubSeq(bytes, E[n] + 1, L)
    BY DEF Cut
  <2> HIDE DEF E, n, L
  <2> QED BY <1>4, <2>1
<1>8. /\ SubSeq(bytes, Off(a, k) + 1, L) \in Seq(Byte)
      /\ SubSeq(bytes, Off(a, k) + 1, L) \o tail = FlattenSeq(Messages(a + k + 1, Len(size)))
  <2> DEFINE u == Messages(a + 1, a + k)
             v == Messages(a + k + 1, Len(size))
  <2>1. Messages(a + 1, Len(size)) = u \o v /\ u \in Seq(Seq(Byte)) /\ v \in Seq(Seq(Byte))
    <3>1. ASSUME NEW b, b = a + k
          PROVE  /\ Messages(a + 1, Len(size)) = Messages(a + 1, b) \o Messages(b + 1, Len(size))
                 /\ Messages(a + 1, b) \in Seq(Seq(Byte))
                 /\ Messages(b + 1, Len(size)) \in Seq(Seq(Byte))
      <4>1. b \in Nat /\ a <= b /\ b <= Len(size) /\ Len(size) \in Nat /\ Len(size) <= Len(size)
        BY <1>0, <1>2, <3>1
      <4>2. Messages(a + 1, Len(size)) = Messages(a + 1, b) \o Messages(b + 1, Len(size))
        <5>1. Joins(a, b, Len(size))
          BY <4>1, MessagesConcat
        <5> QED BY <5>1 DEF Joins
      <4>3. Messages(a + 1, b) \in Seq(Seq(Byte)) /\ Messages(b + 1, Len(size)) \in Seq(Seq(Byte))
        BY <4>1, MessagesFacts
      <4> QED BY <4>2, <4>3
    <3> QED BY <3>1
  <2> HIDE DEF u, v
  <2>2. FlattenSeq(u \o v) = FlattenSeq(u) \o FlattenSeq(v)
        /\ FlattenSeq(u) \in Seq(Byte) /\ FlattenSeq(v) \in Seq(Byte)
    BY <2>1, FlattenConcat, FlattenType
  <2>3. Off(a, k) = Len(FlattenSeq(u))
    BY DEF Off, u
  <2>4. bytes \o tail = FlattenSeq(u) \o FlattenSeq(v)
    BY <2>1, <2>2
  <2>5. /\ SubSeq(bytes, Len(FlattenSeq(u)) + 1, Len(bytes)) \in Seq(Byte)
        /\ SubSeq(bytes, Len(FlattenSeq(u)) + 1, Len(bytes)) \o tail = FlattenSeq(v)
    <3> DEFINE x == FlattenSeq(u)
               y == FlattenSeq(v)
    <3>1. x \in Seq(Byte) /\ y \in Seq(Byte) /\ bytes \o tail = x \o y /\ Len(x) <= Len(bytes)
      BY <1>2, <2>2, <2>3, <2>4
    <3> HIDE DEF x, y
    <3>2. SubSeq(bytes, Len(x) + 1, Len(bytes)) \in Seq(Byte)
          /\ SubSeq(bytes, Len(x) + 1, Len(bytes)) \o tail = y
      <4>1. Spliced(bytes, tail, x, y, Byte)
        BY <3>1, Splice
      <4> QED BY <4>1 DEF Spliced
    <3> QED BY <3>2 DEF x, y
  <2> QED BY <2>3, <2>5 DEF v
<1> QED BY <1>6, <1>7, <1>8

-----------------------------------------------------------------------------
(* The invariant *)

(* The queue holds the messages accepted last, in order. *)
QueueOK ==
  /\ Len(queue) <= Len(size)
  /\ \A i \in 1 .. Len(queue) : queue[i] = Len(size) - Len(queue) + i

(* A flush starts with an empty queue that nobody can fill. *)
PaceOK == pacing = "flushing" => outbound = "dropped" /\ queue = <<>>

(* Up to message n everything is put together; what is awaiting its end,   *)
(* the cells still to be read and some bytes t behind them are the messages *)
(* after it, and while the link is up t is all that is on the sending side. *)
Wire(n, t) ==
  /\ n \in 0 .. Len(size) /\ t \in Seq(Byte)
  /\ reasm \o (FlattenSeq(pipe) \o t) = FlattenSeq(Messages(n + 1, Len(size)))
  /\ link = "up" => t = FlattenSeq(cells) \o Stream(Len(queue))

(* Where the messages up to n are. *)
Put(n) ==
  /\ Len(ready) <= n /\ ready = Messages(n - Len(ready) + 1, n)
  /\ consumer = "open" => Past = Range(Messages(1, n))
  /\ \A b \in Range(taken) \cup Range(inbox) : Identity(b) <= n - Len(ready)

StreamOK == reading = "running" => \E n, t : Wire(n, t) /\ Put(n)

(* What was handed over is accepted messages, in order, none twice. *)
OrderOK ==
  LET out == taken \o inbox
  IN /\ \A i \in 1 .. Len(out) : Identity(out[i]) \in 1 .. Len(size)
     /\ \A i, j \in 1 .. Len(out) : i < j => Identity(out[i]) < Identity(out[j])

CInv == TypeOK /\ QueueOK /\ PaceOK /\ OrderOK /\ StreamOK

-----------------------------------------------------------------------------
(* Helpers *)

(* The smaller of two numbers. *)
LEMMA MinTwo ==
  ASSUME NEW a \in Int, NEW b \in Int
  PROVE  Min({a, b}) = IF a <= b THEN a ELSE b
<1> DEFINE m == IF a <= b THEN a ELSE b
<1>1. m \in {a, b} /\ \A y \in {a, b} : m <= y
  OBVIOUS
<1>2. \A x \in {a, b} : (\A y \in {a, b} : x <= y) => x = m
  OBVIOUS
<1> HIDE DEF m
<1>3. (CHOOSE x \in {a, b} : \A y \in {a, b} : x <= y) = m
  BY <1>1, <1>2
<1> QED BY <1>3 DEF m, Min

(* The larger of two numbers. *)
LEMMA MaxTwo ==
  ASSUME NEW a \in Int, NEW b \in Int
  PROVE  Max({a, b}) = IF a >= b THEN a ELSE b
<1> DEFINE m == IF a >= b THEN a ELSE b
<1>1. m \in {a, b} /\ \A y \in {a, b} : m >= y
  OBVIOUS
<1>2. \A x \in {a, b} : (\A y \in {a, b} : x >= y) => x = m
  OBVIOUS
<1> HIDE DEF m
<1>3. (CHOOSE x \in {a, b} : \A y \in {a, b} : x >= y) = m
  BY <1>1, <1>2
<1> QED BY <1>3 DEF m, Max

(* Drained is a number of queued messages that fills a cell, or all of them. *)
LEMMA DrainedFacts ==
  ASSUME Len(queue) \in Nat
  PROVE  /\ Drained \in 0 .. Len(queue)
         /\ Drained = Len(queue) \/ Len(Stream(Drained)) >= CellSize
<1> DEFINE S == {k \in 0 .. Len(queue) : k = Len(queue) \/ Len(Stream(k)) >= CellSize}
<1>1. S \in SUBSET Nat /\ Len(queue) \in S
  OBVIOUS
<1> HIDE DEF S
<1>2. \E x \in S : \A y \in S : x <= y
  BY <1>1, NatMin
<1>3. Min(S) \in S
  BY <1>2 DEF Min
<1> QED BY <1>3 DEF Drained, S

(* What TypeOK says of the size, by name. *)
LEMMA TypeSize ==
  ASSUME TypeOK
  PROVE  SizeOK /\ Len(size) \in Nat /\ Len(queue) \in Nat /\ DOMAIN size = 1 .. Len(size)
<1>1. SizeOK /\ queue \in Seq(1 .. MaxMsgs)
  BY DEF TypeOK, SizeOK
<1>2. size \in Seq(0 .. MaxLen)
  BY <1>1 DEF SizeOK
<1> QED BY <1>1, <1>2

(* All messages after a, up to b and then the others. *)
LEMMA MessagesTo ==
  ASSUME CoverAssumption, SizeOK, NEW a \in Nat, NEW b \in Nat, a <= b, b <= Len(size)
  PROVE  Messages(a + 1, Len(size)) = Messages(a + 1, b) \o Messages(b + 1, Len(size))
<1>1. Len(size) \in Nat /\ Len(size) <= Len(size)
  BY DEF SizeOK
<1>2. Joins(a, b, Len(size))
  BY <1>1, MessagesConcat
<1> QED BY <1>2 DEF Joins

(* The sender's stream: what is left of the message being cut, then those  *)
(* queued.                                                                 *)
LEMMA StreamFacts ==
  ASSUME CoverAssumption, TypeOK, QueueOK, NEW k \in 0 .. Len(queue),
         NEW q, q = Len(size) - Len(queue)
  PROVE  /\ q \in Nat /\ q + k <= Len(size)
         /\ Stream(k) = pending \o FlattenSeq(Messages(q + 1, q + k))
         /\ Stream(k) \in Seq(Byte)
         /\ Stream(Len(queue)) = Stream(k) \o FlattenSeq(Messages(q + k + 1, Len(size)))
         /\ FlattenSeq(Messages(q + k + 1, Len(size))) \in Seq(Byte)
<1>0. SizeOK /\ Len(size) \in Nat /\ Len(queue) \in Nat
  BY TypeSize
<1>1. q \in Nat /\ q + k <= Len(size) /\ k \in Nat /\ q + k \in Nat /\ q + Len(queue) = Len(size)
  BY <1>0 DEF QueueOK
<1>2. ASSUME NEW j \in 0 .. Len(queue)
      PROVE  /\ Stream(j) = pending \o FlattenSeq(Messages(q + 1, q + j))
             /\ Messages(q + 1, q + j) \in Seq(Seq(Byte))
  <2>1. q + j - (q + 1) + 1 = j /\ \A i \in 1 .. j : q + 1 + i - 1 = q + i
    BY <1>1
  <2>2. Messages(q + 1, q + j) = [i \in 1 .. j |-> Framed(q + i)]
    <3>1. Messages(q + 1, q + j) = [i \in 1 .. q + j - (q + 1) + 1 |-> Framed(q + 1 + i - 1)]
      BY DEF Messages
    <3> QED BY <2>1, <3>1
  <2>3. \A i \in 1 .. j : queue[i] = q + i
    <3>1. \A i \in 1 .. j : i \in 1 .. Len(queue)
      BY <1>0
    <3> QED BY <3>1 DEF QueueOK
  <2>4. [i \in 1 .. j |-> Framed(queue[i])] = [i \in 1 .. j |-> Framed(q + i)]
    BY <2>3
  <2>5. Stream(j) = pending \o FlattenSeq([i \in 1 .. j |-> Framed(q + i)])
    BY <2>4 DEF Stream
  <2>6. q + j \in Nat /\ q <= q + j /\ q + j <= Len(size)
    BY <1>0, <1>1
  <2>7. Messages(q + 1, q + j) \in Seq(Seq(Byte))
    BY <1>0, <1>1, <2>6, MessagesFacts
  <2> QED BY <2>2, <2>5, <2>7
<1>3. pending \in Seq(Byte)
  BY DEF TypeOK
<1> DEFINE u == Messages(q + 1, q + k)
           v == Messages(q + k + 1, Len(size))
<1>4. u \in Seq(Seq(Byte)) /\ Stream(k) = pending \o FlattenSeq(u)
  BY <1>2
<1>5. Messages(q + 1, Len(size)) = u \o v /\ v \in Seq(Seq(Byte))
  <2>1. ASSUME NEW b, b = q + k
        PROVE  /\ Messages(q + 1, Len(size)) = Messages(q + 1, b) \o Messages(b + 1, Len(size))
               /\ Messages(b + 1, Len(size)) \in Seq(Seq(Byte))
    <3>1. b \in Nat /\ q <= b /\ b <= Len(size) /\ Len(size) \in Nat /\ Len(size) <= Len(size)
      BY <1>0, <1>1, <2>1
    <3>2. Messages(q + 1, Len(size)) = Messages(q + 1, b) \o Messages(b + 1, Len(size))
      BY <1>0, <1>1, <3>1, MessagesTo
    <3>3. Messages(b + 1, Len(size)) \in Seq(Seq(Byte))
      BY <1>0, <3>1, MessagesFacts
    <3> QED BY <3>2, <3>3
  <2> QED BY <2>1
<1>6. Stream(Len(queue)) = pending \o FlattenSeq(Messages(q + 1, Len(size)))
  <2>1. Len(queue) \in 0 .. Len(queue)
    BY <1>0
  <2>2. Stream(Len(queue)) = pending \o FlattenSeq(Messages(q + 1, q + Len(queue)))
    BY <1>2, <2>1
  <2> QED BY <1>1, <2>2
<1> HIDE DEF u, v
<1>7. FlattenSeq(u) \in Seq(Byte) /\ FlattenSeq(v) \in Seq(Byte)
      /\ FlattenSeq(u \o v) = FlattenSeq(u) \o FlattenSeq(v)
  BY <1>4, <1>5, FlattenType, FlattenConcat
<1>8. pending \o (FlattenSeq(u) \o FlattenSeq(v)) = (pending \o FlattenSeq(u)) \o FlattenSeq(v)
  <2>1. Assoc(pending, FlattenSeq(u), FlattenSeq(v))
    BY <1>3, <1>7, Associative
  <2> QED BY <2>1 DEF Assoc
<1>9. Stream(k) \in Seq(Byte)
  BY <1>3, <1>4, <1>7
<1>10. Stream(Len(queue)) = Stream(k) \o FlattenSeq(v)
  BY <1>4, <1>5, <1>6, <1>7, <1>8
<1> QED BY <1>1, <1>4, <1>7, <1>9, <1>10 DEF u, v

(* The identity of a framed message is its number, and only those have one. *)
LEMMA IdentityFacts ==
  ASSUME CoverAssumption, SizeOK
  PROVE  /\ \A m \in 1 .. Len(size) : Identity(Framed(m)) = m
         /\ \A b : Identity(b) \in 1 .. Len(size) => b = Framed(Identity(b))
         /\ \A b : Identity(b) \in 0 .. Len(size)
<1>0. DOMAIN size = 1 .. Len(size) /\ Len(size) \in Nat
  BY DEF SizeOK
<1>1. ASSUME NEW m \in 1 .. Len(size) PROVE Identity(Framed(m)) = m
  <2>1. \A k \in 1 .. Len(size) : Framed(m) = Framed(k) => k = m
    BY FramedInjective
  <2>2. (CHOOSE k \in 1 .. Len(size) : Framed(m) = Framed(k)) = m
    BY <2>1
  <2> QED BY <1>0, <2>2 DEF Identity
<1>2. ASSUME NEW b
      PROVE  Identity(b) \in 0 .. Len(size) /\ (Identity(b) # 0 => b = Framed(Identity(b)))
  <2>1. CASE \E m \in DOMAIN size : b = Framed(m)
    <3> DEFINE i == CHOOSE m \in DOMAIN size : b = Framed(m)
    <3>1. i \in DOMAIN size /\ b = Framed(i)
      BY <2>1
    <3>2. Identity(b) = i
      BY <2>1 DEF Identity
    <3> HIDE DEF i
    <3> QED BY <1>0, <3>1, <3>2
  <2>2. CASE ~(\E m \in DOMAIN size : b = Framed(m))
    <3>1. Identity(b) = 0
      BY <2>2 DEF Identity
    <3> QED BY <1>0, <3>1
  <2> QED BY <2>1, <2>2
<1>3. \A b : Identity(b) \in 1 .. Len(size) => b = Framed(Identity(b))
  <2>1. \A b : Identity(b) \in 1 .. Len(size) => Identity(b) # 0
    BY <1>0
  <2> QED BY <1>2, <2>1
<1> QED BY <1>1, <1>2, <1>3

(* No message accepted: the framed ones are what they were. *)
LEMMA SizeSame ==
  ASSUME UNCHANGED size
  PROVE  /\ \A m : Framed(m)' = Framed(m)
         /\ \A a, b : Messages(a, b)' = Messages(a, b)
         /\ \A b : Identity(b)' = Identity(b)
<1>1. \A m : Framed(m)' = Framed(m)
  BY DEF Framed
<1>2. \A a, b : Messages(a, b)' = Messages(a, b)
  BY DEF Messages, Framed
<1>3. \A b : Identity(b)' = Identity(b)
  BY DEF Identity, Framed
<1> QED BY <1>1, <1>2, <1>3

(* Nor anything sent: the sender's stream too. *)
LEMMA StreamSame ==
  ASSUME UNCHANGED <<size, pending, queue>>
  PROVE  \A k : Stream(k)' = Stream(k)
BY DEF Stream, Framed

(* What holds at the start. *)
LEMMA InitInv ==
  ASSUME CoverAssumption, Init
  PROVE  CInv
<1>1. size = <<>> /\ queue = <<>> /\ Len(size) = 0 /\ Len(queue) = 0
  BY DEF Init
<1>2. TypeOK
  <2>1. /\ size \in Seq(0 .. MaxLen) /\ Len(size) <= MaxMsgs
        /\ queue \in Seq(1 .. MaxMsgs) /\ Len(queue) <= OutCap
    BY <1>1 DEF CoverAssumption
  <2>2. /\ pending \in Seq(Byte)
        /\ cells \in Seq(Seq(Byte)) /\ Len(cells) <= WriterCap
        /\ pipe \in Seq(Seq(Byte)) /\ Len(pipe) <= PipeCap
        /\ \A c \in Range(cells) \cup Range(pipe) : Len(c) <= CellSize
    BY DEF CoverAssumption, Init, Range
  <2>3. /\ reasm \in Seq(Byte)
        /\ ready \in Seq(Seq(Byte)) /\ Len(ready) <= ReadyCap
        /\ inbox \in Seq(Seq(Byte)) /\ Len(inbox) <= InCap
        /\ taken \in Seq(Seq(Byte)) /\ shed \cup stranded \subseteq Seq(Byte)
    BY DEF CoverAssumption, Init
  <2>4. /\ outbound \in {"open", "dropped"} /\ consumer \in {"open", "dropped"}
        /\ pacing \in {"running", "flushing", "ended"}
        /\ link \in {"up", "shut", "broken"} /\ reading \in {"running", "ended"}
    BY DEF Init
  <2> QED BY <2>1, <2>2, <2>3, <2>4 DEF TypeOK
<1>3. QueueOK
  BY <1>1 DEF QueueOK
<1>4. PaceOK
  BY DEF PaceOK, Init
<1>5. OrderOK
  <2>1. Len(taken \o inbox) = 0
    BY DEF Init
  <2> QED BY <2>1 DEF OrderOK
<1>6. Wire(0, <<>>) /\ Put(0)
  <2>1. Messages(1, 0) = <<>> /\ Messages(0 + 1, Len(size)) = <<>>
    BY <1>1, OffZero
  <2>2. Stream(Len(queue)) = <<>>
    <3>1. Len(queue) \in 0 .. Len(queue) /\ Len(size) - Len(queue) = 0
      BY <1>1
    <3>2. \A q : q = Len(size) - Len(queue) => Stream(Len(queue)) = pending \o FlattenSeq(Messages(q + 1, q + Len(queue)))
      BY <1>2, <1>3, <3>1, StreamFacts
    <3>3. Stream(Len(queue)) = pending \o FlattenSeq(Messages(0 + 1, 0 + Len(queue)))
      BY <3>1, <3>2
    <3>4. Messages(0 + 1, 0 + Len(queue)) = <<>> /\ pending = <<>>
      BY <1>1, OffZero DEF Init
    <3>5. pending \o FlattenSeq(<<>>) = <<>>
      BY <3>4, FlattenEmpty
    <3> QED BY <3>3, <3>4, <3>5
  <2>3. Wire(0, <<>>)
    <3>1. reasm = <<>> /\ pipe = <<>> /\ cells = <<>>
      BY DEF Init
    <3>2. reasm \o (FlattenSeq(pipe) \o <<>>) = <<>> /\ FlattenSeq(cells) \o <<>> = <<>>
      BY <3>1, FlattenEmpty
    <3>3. 0 \in 0 .. Len(size) /\ <<>> \in Seq(Byte)
      BY <1>1
    <3> QED BY <2>1, <2>2, <3>2, <3>3, FlattenEmpty DEF Wire
  <2>4. Put(0)
    <3>1. ready = <<>> /\ Len(ready) = 0 /\ Range(taken) = {} /\ Range(inbox) = {}
          /\ Range(ready) = {} /\ shed = {}
      BY DEF Init, Range
    <3>2. Messages(0 - Len(ready) + 1, 0) = <<>>
      BY <2>1, <3>1
    <3>3. Past = {} /\ Range(<<>>) = {}
      BY <3>1 DEF Past, Range
    <3> QED BY <2>1, <3>1, <3>2, <3>3 DEF Put
  <2> QED BY <2>3, <2>4
<1>7. StreamOK
  BY <1>6 DEF StreamOK
<1> QED BY <1>2, <1>3, <1>4, <1>5, <1>7 DEF CInv

(* A step that leaves messages, sending side and receiving side alone.     *)
LEMMA FrameStep ==
  ASSUME CoverAssumption, CInv, UNCHANGED <<size, queue, pending>>,
         UNCHANGED <<pipe, reasm>>, UNCHANGED recvVars,
         link' = "up" => link = "up" /\ UNCHANGED cells
  PROVE  OrderOK' /\ StreamOK' /\ QueueOK'
<1>1. /\ \A m : Framed(m)' = Framed(m)
      /\ \A a, b : Messages(a, b)' = Messages(a, b)
      /\ \A b : Identity(b)' = Identity(b)
      /\ \A k : Stream(k)' = Stream(k)
  BY SizeSame, StreamSame
<1>2. QueueOK'
  BY DEF QueueOK, CInv
<1>3. OrderOK'
  BY <1>1 DEF OrderOK, CInv, recvVars
<1>4. ASSUME NEW n, NEW t, Wire(n, t), Put(n)
      PROVE  Wire(n, t)' /\ Put(n)'
  <2>1. Wire(n, t)'
    BY <1>1, <1>4 DEF Wire, recvVars
  <2>2. Past' = Past
    BY DEF Past, recvVars, Range
  <2>3. Put(n)'
    BY <1>1, <1>4, <2>2 DEF Put, recvVars, Range
  <2> QED BY <2>1, <2>3
<1>5. StreamOK'
  BY <1>4 DEF StreamOK, CInv, recvVars
<1> QED BY <1>2, <1>3, <1>5

(* Dropping the sender touches no byte, and nobody can send after it. *)
LEMMA DropOutboundStep ==
  ASSUME CoverAssumption, CInv, DropOutbound
  PROVE  CInv'
<1>1. TypeOK'
  BY DEF CInv, TypeOK, DropOutbound, recvVars
<1>2. PaceOK'
  BY DEF CInv, PaceOK, DropOutbound
<1>3. OrderOK' /\ StreamOK' /\ QueueOK'
  BY FrameStep DEF DropOutbound, recvVars
<1> QED BY <1>1, <1>2, <1>3 DEF CInv

(* An orderly end loses nothing: all cells are written. *)
LEMMA ShutdownStep ==
  ASSUME CoverAssumption, CInv, Shutdown
  PROVE  CInv'
<1>1. TypeOK'
  BY DEF CInv, TypeOK, Shutdown, recvVars, sendVars
<1>2. PaceOK'
  BY DEF CInv, PaceOK, Shutdown, sendVars
<1>3. OrderOK' /\ StreamOK' /\ QueueOK'
  BY FrameStep DEF Shutdown, recvVars, sendVars
<1> QED BY <1>1, <1>2, <1>3 DEF CInv

(* Nor does a step that changes nothing. *)
LEMMA StutterStep ==
  ASSUME CoverAssumption, CInv, UNCHANGED vars
  PROVE  CInv'
<1>1. TypeOK'
  BY DEF CInv, TypeOK, vars, recvVars, sendVars
<1>2. PaceOK'
  BY DEF CInv, PaceOK, vars, sendVars
<1>3. OrderOK' /\ StreamOK' /\ QueueOK'
  BY FrameStep DEF vars, recvVars, sendVars
<1> QED BY <1>1, <1>2, <1>3 DEF CInv

(* What a sequence's elements are, by what is done to it. *)
LEMMA RangeSeq ==
  ASSUME NEW S, NEW s \in Seq(S)
  PROVE  Range(s) = {s[i] : i \in 1 .. Len(s)} /\ Range(s) \subseteq S
<1>1. DOMAIN s = 1 .. Len(s) /\ \A i \in 1 .. Len(s) : s[i] \in S
  OBVIOUS
<1> QED BY <1>1 DEF Range

(* The members of two sequences, one after the other. *)
LEMMA RangeConcat ==
  ASSUME NEW S, NEW u \in Seq(S), NEW v \in Seq(S)
  PROVE  Range(u \o v) = Range(u) \cup Range(v)
<1> DEFINE w == u \o v
<1>0. w \in Seq(S) /\ Len(w) = Len(u) + Len(v) /\ Len(u) \in Nat /\ Len(v) \in Nat
  OBVIOUS
<1>1. Range(u) = {u[i] : i \in 1 .. Len(u)} /\ Range(v) = {v[i] : i \in 1 .. Len(v)}
      /\ Range(w) = {w[i] : i \in 1 .. Len(w)}
  <2> HIDE DEF w
  <2> QED BY <1>0, RangeSeq
<1>2. \A i \in 1 .. Len(u) : i \in 1 .. Len(w) /\ w[i] = u[i]
  BY <1>0
<1>3. \A i \in 1 .. Len(v) : Len(u) + i \in 1 .. Len(w) /\ w[Len(u) + i] = v[i]
  BY <1>0
<1>4. ASSUME NEW i \in 1 .. Len(w) PROVE w[i] \in Range(u) \cup Range(v)
  <2>1. CASE i <= Len(u)
    BY <1>0, <1>1, <1>2, <2>1
  <2>2. CASE i > Len(u)
    <3>1. i - Len(u) \in 1 .. Len(v) /\ Len(u) + (i - Len(u)) = i
      BY <1>0, <2>2
    <3> HIDE DEF w
    <3> QED BY <1>1, <1>3, <3>1
  <2> QED BY <1>0, <2>1, <2>2
<1> HIDE DEF w
<1>5. Range(w) \subseteq Range(u) \cup Range(v)
  BY <1>1, <1>4
<1>6. Range(u) \subseteq Range(w)
  BY <1>1, <1>2
<1>7. Range(v) \subseteq Range(w)
  BY <1>1, <1>3
<1> QED BY <1>5, <1>6, <1>7 DEF w

(* A non-empty sequence is its head and its tail. *)
LEMMA HeadTail ==
  ASSUME NEW S, NEW s \in Seq(S), s # <<>>
  PROVE  /\ Head(s) \in S /\ Tail(s) \in Seq(S) /\ Len(Tail(s)) = Len(s) - 1
         /\ Len(s) \in Nat \ {0} /\ <<Head(s)>> \in Seq(S)
         /\ s = <<Head(s)>> \o Tail(s)
         /\ Range(s) = {Head(s)} \cup Range(Tail(s))
<1>1. /\ Head(s) \in S /\ Tail(s) \in Seq(S) /\ Len(Tail(s)) = Len(s) - 1
      /\ Len(s) \in Nat \ {0} /\ Head(s) = s[1]
      /\ \A i \in 1 .. Len(s) - 1 : Tail(s)[i] = s[i + 1]
  BY HeadTailProperties
<1> DEFINE u == <<Head(s)>>
           v == Tail(s)
<1>2. u \in Seq(S) /\ Len(u) = 1 /\ u[1] = s[1]
  BY <1>1
<1>3. v \in Seq(S) /\ Len(v) = Len(s) - 1 /\ \A i \in 1 .. Len(v) : s[1 + i] = v[i]
  <2>1. \A i \in 1 .. Len(s) - 1 : 1 + i = i + 1
    OBVIOUS
  <2> QED BY <1>1, <2>1
<1>4. Range(u) = {Head(s)}
  <2>1. DOMAIN u = {1} /\ u[1] = Head(s)
    OBVIOUS
  <2> HIDE DEF u
  <2> QED BY <2>1 DEF Range
<1> HIDE DEF u, v
<1>5. s = u \o v
  <2>1. Len(s) = Len(u) + Len(v) /\ \A i \in 1 .. Len(u) : s[i] = u[i]
    BY <1>1, <1>2, <1>3
  <2>2. \A i \in 1 .. Len(v) : s[Len(u) + i] = v[i]
    BY <1>2, <1>3
  <2> QED BY <1>2, <1>3, <2>1, <2>2, Glue
<1>6. Range(s) = Range(u) \cup Range(v)
  BY <1>2, <1>3, <1>5, RangeConcat
<1> QED BY <1>1, <1>2, <1>4, <1>5, <1>6 DEF u, v

(* FlattenSeq by the head. *)
LEMMA FlattenHead ==
  ASSUME NEW T, NEW s \in Seq(Seq(T)), s # <<>>
  PROVE  FlattenSeq(s) = Head(s) \o FlattenSeq(Tail(s))
<1>1. /\ Head(s) \in Seq(T) /\ Tail(s) \in Seq(Seq(T)) /\ <<Head(s)>> \in Seq(Seq(T))
      /\ s = <<Head(s)>> \o Tail(s)
  BY HeadTail
<1>2. FlattenSeq(<<Head(s)>> \o Tail(s)) = FlattenSeq(<<Head(s)>>) \o FlattenSeq(Tail(s))
  BY <1>1, FlattenConcat
<1>3. FlattenSeq(<<Head(s)>>) = Head(s)
  BY <1>1, FlattenOne
<1> QED BY <1>1, <1>2, <1>3

(* What a sequence gains by Append. *)
LEMMA AppendFacts ==
  ASSUME NEW S, NEW s \in Seq(S), NEW e \in S
  PROVE  /\ Append(s, e) \in Seq(S) /\ Len(Append(s, e)) = Len(s) + 1
         /\ Append(s, e) = s \o <<e>> /\ <<e>> \in Seq(S)
         /\ Range(Append(s, e)) = Range(s) \cup {e}
<1>1. Append(s, e) \in Seq(S) /\ Len(Append(s, e)) = Len(s) + 1 /\ <<e>> \in Seq(S)
  OBVIOUS
<1>2. Append(s, e) = s \o <<e>>
  BY AppendIsConcat
<1>3. Range(<<e>>) = {e}
  <2> DEFINE u == <<e>>
  <2>1. DOMAIN u = {1} /\ u[1] = e
    OBVIOUS
  <2> HIDE DEF u
  <2>2. Range(u) = {e}
    BY <2>1 DEF Range
  <2> QED BY <2>2 DEF u
<1>4. Range(s \o <<e>>) = Range(s) \cup Range(<<e>>)
  BY <1>1, RangeConcat
<1> QED BY <1>1, <1>2, <1>3, <1>4

(* A step of the transport: nothing accepted, and behind the link nothing   *)
(* happens.  What is left is that the bytes are still all there.            *)
LEMMA LinkStep ==
  ASSUME CoverAssumption, CInv, UNCHANGED sendVars, UNCHANGED recvVars,
         NEW n, NEW t, NEW u \in Seq(Byte), Wire(n, t), Put(n),
         FlattenSeq(pipe') \o u = FlattenSeq(pipe) \o t,
         link' = "up" => u = FlattenSeq(cells') \o Stream(Len(queue))
  PROVE  Wire(n, u)' /\ Put(n)' /\ QueueOK' /\ OrderOK' /\ PaceOK'
<1>1. /\ \A m : Framed(m)' = Framed(m)
      /\ \A a, b : Messages(a, b)' = Messages(a, b)
      /\ \A b : Identity(b)' = Identity(b)
      /\ \A k : Stream(k)' = Stream(k)
  BY SizeSame, StreamSame DEF sendVars
<1>2. QueueOK'
  BY DEF QueueOK, CInv, sendVars
<1>3. OrderOK'
  BY <1>1 DEF OrderOK, CInv, recvVars, sendVars
<1>4. PaceOK'
  BY DEF PaceOK, CInv, sendVars
<1>5. Wire(n, u)'
  <2>1. reasm' \o (FlattenSeq(pipe') \o u) = FlattenSeq(Messages(n + 1, Len(size)))'
    <3>1. reasm' = reasm /\ size' = size
      BY DEF recvVars, sendVars
    <3>2. Messages(n + 1, Len(size))' = Messages(n + 1, Len(size))
      BY <3>1 DEF Messages, Framed
    <3>3. reasm \o (FlattenSeq(pipe) \o t) = FlattenSeq(Messages(n + 1, Len(size)))
      BY DEF Wire
    <3> QED BY <3>1, <3>2, <3>3
  <2>2. n \in 0 .. Len(size') /\ u \in Seq(Byte)
    BY DEF Wire, sendVars
  <2>3. link' = "up" => u = FlattenSeq(cells') \o Stream(Len(queue))'
    <3>1. Stream(Len(queue))' = Stream(Len(queue))
      BY DEF sendVars, Stream, Framed
    <3> QED BY <3>1
  <2> QED BY <2>1, <2>2, <2>3 DEF Wire
<1>6. Put(n)'
  <2>1. Past' = Past
    BY DEF Past, recvVars, Range
  <2> QED BY <1>1, <2>1 DEF Put, recvVars, Range
<1> QED BY <1>2, <1>3, <1>4, <1>5, <1>6

(* The types the stream's parts have. *)
LEMMA TypeParts ==
  ASSUME TypeOK
  PROVE  /\ pending \in Seq(Byte) /\ reasm \in Seq(Byte)
         /\ cells \in Seq(Seq(Byte)) /\ pipe \in Seq(Seq(Byte))
         /\ FlattenSeq(cells) \in Seq(Byte) /\ FlattenSeq(pipe) \in Seq(Byte)
         /\ ready \in Seq(Seq(Byte)) /\ inbox \in Seq(Seq(Byte)) /\ taken \in Seq(Seq(Byte))
         /\ Len(cells) \in Nat /\ Len(pipe) \in Nat /\ Len(ready) \in Nat
         /\ Len(inbox) \in Nat /\ Len(taken) \in Nat
<1>1. /\ pending \in Seq(Byte) /\ reasm \in Seq(Byte)
      /\ cells \in Seq(Seq(Byte)) /\ pipe \in Seq(Seq(Byte))
      /\ ready \in Seq(Seq(Byte)) /\ inbox \in Seq(Seq(Byte)) /\ taken \in Seq(Seq(Byte))
  BY DEF TypeOK
<1>2. FlattenSeq(cells) \in Seq(Byte) /\ FlattenSeq(pipe) \in Seq(Byte)
  BY <1>1, FlattenType
<1> QED BY <1>1, <1>2

(* A cell written moves from the front of one queue to the end of the next. *)
LEMMA WriteCellStep ==
  ASSUME CoverAssumption, CInv, WriteCell
  PROVE  CInv'
<1>0. cells # <<>> /\ link = "up" /\ link' = link /\ UNCHANGED sendVars /\ UNCHANGED recvVars
      /\ cells' = Tail(cells) /\ pipe' = Append(pipe, Head(cells)) /\ Len(pipe) < PipeCap
  BY DEF WriteCell
<1>t. TypeOK
  BY DEF CInv
<1>1. cells \in Seq(Seq(Byte)) /\ pipe \in Seq(Seq(Byte)) /\ FlattenSeq(pipe) \in Seq(Byte)
      /\ Len(pipe) \in Nat
  BY <1>t, TypeParts
<1> DEFINE h == Head(cells)
           tl == Tail(cells)
<1>2. h \in Seq(Byte) /\ tl \in Seq(Seq(Byte)) /\ Len(tl) = Len(cells) - 1 /\ Len(cells) \in Nat
      /\ Range(cells) = {h} \cup Range(tl) /\ FlattenSeq(cells) = h \o FlattenSeq(tl)
  BY <1>0, <1>1, HeadTail, FlattenHead
<1> HIDE DEF h, tl
<1>3. cells' = tl /\ pipe' = Append(pipe, h)
  BY <1>0 DEF h, tl
<1>4. Append(pipe, h) \in Seq(Seq(Byte)) /\ Len(Append(pipe, h)) = Len(pipe) + 1
      /\ Range(Append(pipe, h)) = Range(pipe) \cup {h}
      /\ FlattenSeq(Append(pipe, h)) = FlattenSeq(pipe) \o h
  <2>1. FlattenSeq(Append(pipe, h)) = FlattenSeq(pipe) \o h
    BY <1>1, <1>2, FlattenAppend
  <2>2. Append(pipe, h) \in Seq(Seq(Byte)) /\ Len(Append(pipe, h)) = Len(pipe) + 1
        /\ Range(Append(pipe, h)) = Range(pipe) \cup {h}
    <3>1. pipe \in Seq(Seq(Byte)) /\ h \in Seq(Byte)
      BY <1>1, <1>2
    <3> DEFINE S == Seq(Byte)
    <3>2. pipe \in Seq(S) /\ h \in S
      BY <3>1
    <3> HIDE DEF S
    <3>3. Append(pipe, h) \in Seq(S) /\ Len(Append(pipe, h)) = Len(pipe) + 1
          /\ Range(Append(pipe, h)) = Range(pipe) \cup {h}
      BY <3>2, AppendFacts
    <3> QED BY <3>3 DEF S
  <2> QED BY <2>1, <2>2
<1>5. TypeOK'
  <2>1. /\ cells' \in Seq(Seq(Byte)) /\ Len(cells') <= WriterCap
        /\ pipe' \in Seq(Seq(Byte)) /\ Len(pipe') <= PipeCap
    <3>1. Len(cells) <= WriterCap
      BY <1>t DEF TypeOK
    <3>2. WriterCap \in Nat /\ PipeCap \in Nat
      BY DEF CoverAssumption
    <3>3. Len(cells') <= WriterCap
      BY <1>2, <1>3, <3>1, <3>2
    <3>4. Len(pipe') <= PipeCap
      BY <1>0, <1>1, <1>3, <1>4, <3>2
    <3> QED BY <1>2, <1>3, <1>4, <3>3, <3>4
  <2>2. \A c \in Range(cells') \cup Range(pipe') : Len(c) <= CellSize
    BY <1>2, <1>3, <1>4, <1>t DEF TypeOK
  <2> QED BY <1>0, <1>t, <2>1, <2>2 DEF TypeOK, sendVars, recvVars
<1>6. ASSUME NEW n, NEW t, Wire(n, t), Put(n)
      PROVE  \E u : Wire(n, u)' /\ Put(n)'
  <2> DEFINE s == Stream(Len(queue))
             u == FlattenSeq(tl) \o s
  <2>1. s \in Seq(Byte) /\ FlattenSeq(tl) \in Seq(Byte)
    <3>1. Len(queue) \in 0 .. Len(queue)
      BY <1>t, TypeSize
    <3>2. \A q : q = Len(size) - Len(queue) => Stream(Len(queue)) \in Seq(Byte)
      BY <1>t, <3>1, StreamFacts DEF CInv
    <3> QED BY <3>2, <1>2, FlattenType
  <2>2. t = FlattenSeq(cells) \o s
    BY <1>0, <1>6 DEF Wire
  <2> HIDE DEF s
  <2>3. t = h \o u /\ u \in Seq(Byte)
    <3>1. (h \o FlattenSeq(tl)) \o s = h \o (FlattenSeq(tl) \o s)
      <4>1. Assoc(h, FlattenSeq(tl), s)
        BY <1>2, <2>1, Associative
      <4> QED BY <4>1 DEF Assoc
    <3> QED BY <1>2, <2>1, <2>2, <3>1
  <2> HIDE DEF u
  <2>4. FlattenSeq(pipe') \o u = FlattenSeq(pipe) \o t
    <3>0. FlattenSeq(pipe) \in Seq(Byte) /\ h \in Seq(Byte) /\ u \in Seq(Byte)
      BY <1>1, <1>2, <2>3
    <3>1. (FlattenSeq(pipe) \o h) \o u = FlattenSeq(pipe) \o (h \o u)
      <4>1. Assoc(FlattenSeq(pipe), h, u)
        BY <3>0, Associative
      <4> QED BY <4>1 DEF Assoc
    <3> QED BY <1>3, <1>4, <2>3, <3>1
  <2>5. u = FlattenSeq(cells') \o Stream(Len(queue))
    BY <1>3 DEF u, s
  <2> QED BY <1>0, <1>6, <2>3, <2>4, <2>5, LinkStep
<1>7. QueueOK' /\ OrderOK' /\ PaceOK'
  <2>1. QueueOK'
    BY <1>0 DEF QueueOK, CInv, sendVars
  <2>2. PaceOK'
    BY <1>0 DEF PaceOK, CInv, sendVars
  <2>3. OrderOK'
    <3>1. \A b : Identity(b)' = Identity(b)
      BY <1>0, SizeSame DEF sendVars
    <3> QED BY <1>0, <3>1 DEF OrderOK, CInv, recvVars, sendVars
  <2> QED BY <2>1, <2>2, <2>3
<1>8. StreamOK'
  BY <1>0, <1>6 DEF StreamOK, CInv, recvVars
<1> QED BY <1>5, <1>7, <1>8 DEF CInv

(* What a dying link cuts off is a tail of what was on its way. *)
LEMMA BreakStep ==
  ASSUME CoverAssumption, CInv, Break
  PROVE  CInv'
<1>0. link' = "broken" /\ cells' = <<>> /\ UNCHANGED sendVars /\ UNCHANGED recvVars
  BY DEF Break
<1>t. TypeOK
  BY DEF CInv
<1>1. pipe \in Seq(Seq(Byte)) /\ Len(pipe) \in Nat
  BY <1>t, TypeParts
<1>2. PICK j \in 0 .. Len(pipe) : pipe' = SubSeq(pipe, 1, j)
  BY DEF Break
<1> DEFINE p == SubSeq(pipe, 1, j)
           q == SubSeq(pipe, j + 1, Len(pipe))
<1>3. /\ p \in Seq(Seq(Byte)) /\ Len(p) = j /\ q \in Seq(Seq(Byte)) /\ pipe = p \o q
  <2>1. j \in 0 .. Len(pipe)
    BY <1>2
  <2>2. pipe \in Seq(Seq(Byte))
    BY <1>1
  <2> HIDE DEF p, q
  <2>3. SubSeq(pipe, 1, j) \in Seq(Seq(Byte))
    BY <2>1, <2>2, SplitAt, Zenon
  <2>6. Len(SubSeq(pipe, 1, j)) = j
    <3>1. Len(pipe) \in Nat /\ j \in Nat /\ j <= Len(pipe) /\ 1 <= j + 1 /\ j - 1 + 1 = j
      BY <1>1, <2>1
    <3> QED BY <2>2, <3>1, PartFacts
  <2>4. SubSeq(pipe, j + 1, Len(pipe)) \in Seq(Seq(Byte))
    BY <2>1, <2>2, SplitAt, Zenon
  <2>5. pipe = SubSeq(pipe, 1, j) \o SubSeq(pipe, j + 1, Len(pipe))
    BY <2>1, <2>2, SplitAt, Zenon
  <2> QED BY <2>3, <2>4, <2>5, <2>6 DEF p, q
<1> HIDE DEF p, q
<1>4. FlattenSeq(pipe) = FlattenSeq(p) \o FlattenSeq(q)
      /\ FlattenSeq(p) \in Seq(Byte) /\ FlattenSeq(q) \in Seq(Byte)
  BY <1>3, FlattenConcat, FlattenType
<1>5. pipe' = p
  BY <1>2 DEF p
<1>6. TypeOK'
  <2>1. /\ cells' \in Seq(Seq(Byte)) /\ Len(cells') <= WriterCap
    BY <1>0 DEF CoverAssumption
  <2>2. /\ pipe' \in Seq(Seq(Byte)) /\ Len(pipe') <= PipeCap
    <3>1. Len(pipe) <= PipeCap /\ PipeCap \in Nat
      BY <1>t DEF TypeOK, CoverAssumption
    <3> QED BY <1>1, <1>2, <1>3, <1>5, <3>1
  <2>3. \A c \in Range(cells') \cup Range(pipe') : Len(c) <= CellSize
    <3>1. Range(cells') = {}
      BY <1>0 DEF Range
    <3>2. Range(pipe) = Range(p) \cup Range(q)
      BY <1>3, RangeConcat
    <3>3. \A c \in Range(pipe) : Len(c) <= CellSize
      BY <1>t DEF TypeOK
    <3> QED BY <1>5, <3>1, <3>2, <3>3
  <2> QED BY <1>0, <1>t, <2>1, <2>2, <2>3 DEF TypeOK, sendVars, recvVars
<1>7. ASSUME NEW n, NEW t, Wire(n, t), Put(n)
      PROVE  \E u : Wire(n, u)' /\ Put(n)'
  <2> DEFINE u == FlattenSeq(q) \o t
  <2>1. t \in Seq(Byte) /\ u \in Seq(Byte)
    BY <1>4, <1>7 DEF Wire
  <2>2. FlattenSeq(pipe') \o u = FlattenSeq(pipe) \o t
    <3>1. (FlattenSeq(p) \o FlattenSeq(q)) \o t = FlattenSeq(p) \o (FlattenSeq(q) \o t)
      <4>1. Assoc(FlattenSeq(p), FlattenSeq(q), t)
        BY <1>4, <2>1, Associative
      <4> QED BY <4>1 DEF Assoc
    <3> QED BY <1>4, <1>5, <3>1
  <2>3. ~(link' = "up")
    BY <1>0
  <2> HIDE DEF u
  <2> QED BY <1>0, <1>7, <2>1, <2>2, <2>3, LinkStep
<1>8. QueueOK' /\ OrderOK' /\ PaceOK'
  <2>1. QueueOK'
    BY <1>0 DEF QueueOK, CInv, sendVars
  <2>2. PaceOK'
    BY <1>0 DEF PaceOK, CInv, sendVars
  <2>3. OrderOK'
    <3>1. \A b : Identity(b)' = Identity(b)
      BY <1>0, SizeSame DEF sendVars
    <3> QED BY <1>0, <3>1 DEF OrderOK, CInv, recvVars, sendVars
  <2> QED BY <2>1, <2>2, <2>3
<1>9. StreamOK'
  BY <1>0, <1>7 DEF StreamOK, CInv, recvVars
<1> QED BY <1>6, <1>8, <1>9 DEF CInv

(* The sending side stays; the receiving side's stream stays.              *)
LEMMA ReceiverFrame ==
  ASSUME CoverAssumption, CInv, UNCHANGED sendVars
  PROVE  QueueOK' /\ PaceOK'
<1>1. QueueOK'
  BY DEF QueueOK, CInv, sendVars
<1>2. PaceOK'
  BY DEF PaceOK, CInv, sendVars
<1> QED BY <1>1, <1>2

(* When the stream ends, the receiver has nothing more to keep whole. *)
LEMMA EndOfStreamStep ==
  ASSUME CoverAssumption, CInv, EndOfStream
  PROVE  CInv'
<1>0. /\ UNCHANGED <<sendVars, cells, pipe, link, inbox, consumer, taken, shed>>
      /\ reading' = "ended" /\ reasm' = <<>> /\ ready' = <<>>
      /\ stranded' = stranded \cup Range(ready)
  BY DEF EndOfStream, StopReading
<1>t. TypeOK
  BY DEF CInv
<1>1. TypeOK'
  <2>1. Range(ready) \subseteq Seq(Byte)
    BY <1>t, TypeParts, RangeSeq
  <2>2. /\ reasm' \in Seq(Byte) /\ ready' \in Seq(Seq(Byte)) /\ Len(ready') <= ReadyCap
        /\ reading' \in {"running", "ended"}
    BY <1>0 DEF CoverAssumption
  <2>3. shed' \cup stranded' \subseteq Seq(Byte)
    BY <1>0, <1>t, <2>1 DEF TypeOK
  <2>4. UNCHANGED <<size, outbound, consumer, queue, pacing, pending, cells, pipe, link, inbox, taken>>
    BY <1>0 DEF sendVars
  <2> QED BY <1>t, <2>2, <2>3, <2>4 DEF TypeOK
<1>2. OrderOK'
  <2>1. \A b : Identity(b)' = Identity(b)
    BY <1>0, SizeSame DEF sendVars
  <2> QED BY <1>0, <2>1 DEF OrderOK, CInv, sendVars
<1>3. StreamOK'
  BY <1>0 DEF StreamOK
<1>4. QueueOK' /\ PaceOK'
  BY <1>0, ReceiverFrame
<1> QED BY <1>1, <1>2, <1>3, <1>4 DEF CInv

(* A message taken was handed over before, and stays so. *)
LEMMA TakeStep ==
  ASSUME CoverAssumption, CInv, Take
  PROVE  CInv'
<1>0. /\ inbox # <<>> /\ taken' = Append(taken, Head(inbox)) /\ inbox' = Tail(inbox)
      /\ UNCHANGED <<sendVars, cells, pipe, link, reading, reasm, ready, consumer, shed, stranded>>
  BY DEF Take
<1>t. TypeOK
  BY DEF CInv
<1>1. inbox \in Seq(Seq(Byte)) /\ taken \in Seq(Seq(Byte)) /\ Len(inbox) <= InCap
  BY <1>t, TypeParts DEF TypeOK
<1> DEFINE S == Seq(Byte)
           h == Head(inbox)
           tl == Tail(inbox)
           tk == Append(taken, h)
<1> HIDE DEF S
<1>2. inbox \in Seq(S) /\ taken \in Seq(S)
  BY <1>1 DEF S
<1>3. h \in S /\ tl \in Seq(S) /\ Len(tl) = Len(inbox) - 1 /\ Len(inbox) \in Nat
      /\ <<h>> \in Seq(S) /\ inbox = <<h>> \o tl /\ Range(inbox) = {h} \cup Range(tl)
  BY <1>0, <1>2, HeadTail
<1> HIDE DEF h, tl
<1>4. tk \in Seq(S) /\ tk = taken \o <<h>> /\ Range(tk) = Range(taken) \cup {h}
  BY <1>2, <1>3, AppendFacts
<1> HIDE DEF tk
<1>5. taken' = tk /\ inbox' = tl
  BY <1>0 DEF tk, tl, h
<1>6. tk \o tl = taken \o inbox
  BY <1>2, <1>3, <1>4, ConcatAssociative
<1>7. TypeOK'
  <2>1. inbox' \in Seq(Seq(Byte)) /\ taken' \in Seq(Seq(Byte))
    BY <1>3, <1>4, <1>5 DEF S
  <2>2. Len(inbox') <= InCap
    <3>1. InCap \in Nat
      BY DEF CoverAssumption
    <3> QED BY <1>1, <1>3, <1>5, <3>1
  <2>3. UNCHANGED <<size, outbound, consumer, queue, pacing, pending, cells, pipe, link, reading,
                    reasm, ready, shed, stranded>>
    BY <1>0 DEF sendVars
  <2> QED BY <1>t, <2>1, <2>2, <2>3 DEF TypeOK
<1>8. /\ \A m : Framed(m)' = Framed(m)
      /\ \A a, b : Messages(a, b)' = Messages(a, b)
      /\ \A b : Identity(b)' = Identity(b)
      /\ \A k : Stream(k)' = Stream(k)
  BY <1>0, SizeSame, StreamSame DEF sendVars
<1>9. OrderOK'
  <2>1. taken' \o inbox' = taken \o inbox /\ size' = size
    BY <1>0, <1>5, <1>6 DEF sendVars
  <2> QED BY <1>8, <2>1 DEF OrderOK, CInv
<1>10. ASSUME NEW n, NEW t, Wire(n, t), Put(n)
       PROVE  Wire(n, t)' /\ Put(n)'
  <2>1. Wire(n, t)'
    <3>1. UNCHANGED <<size, queue, pending, cells, pipe, link, reasm>>
      BY <1>0 DEF sendVars
    <3>2. FlattenSeq(Messages(n + 1, Len(size)))' = FlattenSeq(Messages(n + 1, Len(size)))
          /\ Stream(Len(queue))' = Stream(Len(queue))
      BY <3>1 DEF Messages, Framed, Stream
    <3> QED BY <1>10, <3>1, <3>2 DEF Wire
  <2>2. Range(taken') \cup Range(inbox') = Range(taken) \cup Range(inbox)
    BY <1>3, <1>4, <1>5
  <2>3. Past' = Past
    BY <1>0, <2>2 DEF Past, Range
  <2>4. Put(n)'
    <3>1. UNCHANGED <<ready, consumer>>
      BY <1>0
    <3>2. Messages(n - Len(ready) + 1, n)' = Messages(n - Len(ready) + 1, n)
          /\ Messages(1, n)' = Messages(1, n)
      BY <1>8, <3>1
    <3>3. Range(Messages(1, n))' = Range(Messages(1, n))
      BY <3>2 DEF Range
    <3>4. \A b \in Range(taken') \cup Range(inbox') : Identity(b)' <= n - Len(ready')
      BY <1>8, <1>10, <2>2, <3>1 DEF Put
    <3> QED BY <1>10, <2>3, <3>1, <3>2, <3>3, <3>4 DEF Put, Range
  <2> QED BY <2>1, <2>4
<1>11. StreamOK'
  BY <1>0, <1>10 DEF StreamOK, CInv
<1>12. QueueOK' /\ PaceOK'
  BY <1>0, ReceiverFrame
<1> QED BY <1>7, <1>9, <1>11, <1>12 DEF CInv

(* Without a consumer there is nothing more to be owed. *)
LEMMA DropInboundStep ==
  ASSUME CoverAssumption, CInv, DropInbound
  PROVE  CInv'
<1>0. /\ consumer' = "dropped" /\ inbox' = <<>>
      /\ UNCHANGED <<sendVars, cells, pipe, link, reading, reasm, ready, taken, shed, stranded>>
  BY DEF DropInbound
<1>t. TypeOK
  BY DEF CInv
<1>1. inbox \in Seq(Seq(Byte)) /\ taken \in Seq(Seq(Byte))
  BY <1>t, TypeParts
<1>2. TypeOK'
  <2>1. inbox' \in Seq(Seq(Byte)) /\ Len(inbox') <= InCap /\ consumer' \in {"open", "dropped"}
    BY <1>0 DEF CoverAssumption
  <2>2. UNCHANGED <<size, outbound, queue, pacing, pending, cells, pipe, link, reading,
                    reasm, ready, taken, shed, stranded>>
    BY <1>0 DEF sendVars
  <2> QED BY <1>t, <2>1, <2>2 DEF TypeOK
<1>3. \A b : Identity(b)' = Identity(b)
  BY <1>0, SizeSame DEF sendVars
<1>4. OrderOK'
  <2> DEFINE o == taken \o inbox
             o2 == taken' \o inbox'
  <2>1. o2 = taken /\ Len(taken) \in Nat /\ Len(o) = Len(taken) + Len(inbox) /\ Len(inbox) \in Nat
        /\ \A i \in 1 .. Len(taken) : o[i] = taken[i]
    BY <1>0, <1>1
  <2>2. \A i \in 1 .. Len(o2) : i \in 1 .. Len(o) /\ o2[i] = o[i]
    BY <2>1
  <2>3. size' = size
    BY <1>0 DEF sendVars
  <2>4. /\ \A i \in 1 .. Len(o) : Identity(o[i]) \in 1 .. Len(size)
        /\ \A i, j \in 1 .. Len(o) : i < j => Identity(o[i]) < Identity(o[j])
    BY DEF OrderOK, CInv
  <2> HIDE DEF o, o2
  <2>5. /\ \A i \in 1 .. Len(o2) : Identity(o2[i]) \in 1 .. Len(size)
        /\ \A i, j \in 1 .. Len(o2) : i < j => Identity(o2[i]) < Identity(o2[j])
    BY <2>2, <2>4
  <2> QED BY <1>3, <2>3, <2>5 DEF OrderOK, o2
<1>5. ASSUME NEW n, NEW t, Wire(n, t), Put(n)
      PROVE  Wire(n, t)' /\ Put(n)'
  <2>1. Wire(n, t)'
    <3>1. UNCHANGED <<size, queue, pending, cells, pipe, link, reasm>>
      BY <1>0 DEF sendVars
    <3>2. FlattenSeq(Messages(n + 1, Len(size)))' = FlattenSeq(Messages(n + 1, Len(size)))
          /\ Stream(Len(queue))' = Stream(Len(queue))
      BY <3>1 DEF Messages, Framed, Stream
    <3> QED BY <1>5, <3>1, <3>2 DEF Wire
  <2>4. Put(n)'
    <3>1. UNCHANGED <<ready, taken>> /\ consumer' # "open" /\ Range(inbox') = {}
      BY <1>0 DEF Range
    <3>2. Messages(n - Len(ready) + 1, n)' = Messages(n - Len(ready) + 1, n)
      BY <1>0, <3>1 DEF Messages, Framed, sendVars
    <3>4. \A b \in Range(taken') \cup Range(inbox') : Identity(b)' <= n - Len(ready')
      BY <1>3, <1>5, <3>1 DEF Put
    <3> QED BY <1>5, <3>1, <3>2, <3>4 DEF Put
  <2> QED BY <2>1, <2>4
<1>11. StreamOK'
  BY <1>0, <1>5 DEF StreamOK, CInv
<1>12. QueueOK' /\ PaceOK'
  BY <1>0, ReceiverFrame
<1> QED BY <1>2, <1>4, <1>11, <1>12 DEF CInv

(* One message more is accepted; there were N. *)
OneMore(N, len) ==
  /\ SizeOK /\ N = Len(size) /\ N < MaxMsgs /\ size' = Append(size, len)

(* One more message accepted: how long it is, and that there is room for it. *)
LEMMA OneMoreSize ==
  ASSUME CoverAssumption, NEW len \in 0 .. MaxLen, NEW N, OneMore(N, len)
  PROVE  /\ N \in Nat /\ Len(size') = N + 1 /\ DOMAIN size' = 1 .. N + 1
         /\ size' \in Seq(0 .. MaxLen) /\ size'[N + 1] = len
         /\ \A m \in 1 .. N : size'[m] = size[m]
         /\ \A m \in 1 .. N + 1 : size'[m] \in Nat
         /\ N + 1 \in 1 .. MaxMsgs /\ Len(size') <= MaxMsgs
<1>0. N \in Nat /\ size \in Seq(0 .. MaxLen) /\ MaxMsgs \in Nat /\ MaxLen \in Nat
      /\ N = Len(size) /\ N < MaxMsgs /\ size' = Append(size, len)
  BY DEF SizeOK, CoverAssumption, OneMore
<1>1. size' \in Seq(0 .. MaxLen) /\ Len(size') = N + 1 /\ size'[N + 1] = len
      /\ \A m \in 1 .. N : size'[m] = size[m]
  BY <1>0
<1>2. DOMAIN size' = 1 .. N + 1 /\ \A m \in 1 .. N + 1 : size'[m] \in 0 .. MaxLen
  BY <1>0, <1>1
<1>3. \A m \in 1 .. N + 1 : size'[m] \in Nat
  BY <1>0, <1>2
<1>4. N + 1 \in 1 .. MaxMsgs /\ Len(size') <= MaxMsgs
  BY <1>0, <1>1
<1> QED BY <1>0, <1>1, <1>2, <1>3, <1>4

(* Those accepted before are framed as they were, *)
LEMMA OneMoreFramed ==
  ASSUME CoverAssumption, NEW len \in 0 .. MaxLen, NEW N, OneMore(N, len)
  PROVE  \A m \in 1 .. N : Framed(m)' = Framed(m)
<1>1. \A m \in 1 .. N : size'[m] = size[m]
  BY OneMoreSize
<1> QED BY <1>1 DEF Framed

(* are still told apart, *)
LEMMA OneMoreInjective ==
  ASSUME CoverAssumption, NEW len \in 0 .. MaxLen, NEW N, OneMore(N, len),
         NEW m \in 1 .. N + 1, NEW k \in 1 .. N + 1, Framed(m)' = Framed(k)'
  PROVE  m = k
<1>1. size'[m] \in Nat /\ size'[k] \in Nat
  BY OneMoreSize
<1>2. \A z \in Nat : 1 \in 1 .. PrefixLen + z
  BY DEF CoverAssumption
<1>3. 1 \in 1 .. PrefixLen + size'[m] /\ 1 \in 1 .. PrefixLen + size'[k]
  BY <1>1, <1>2
<1>4. Framed(m)'[1] = [msg |-> m, at |-> 1] /\ Framed(k)'[1] = [msg |-> k, at |-> 1]
  BY <1>3 DEF Framed
<1> QED BY <1>4

(* and keep their identities. *)
LEMMA OneMoreIdentity ==
  ASSUME CoverAssumption, NEW len \in 0 .. MaxLen, NEW N, OneMore(N, len)
  PROVE  \A b : Identity(b) \in 1 .. N => Identity(b)' = Identity(b)
<1> SUFFICES ASSUME NEW b, Identity(b) \in 1 .. N PROVE Identity(b)' = Identity(b)
  OBVIOUS
<1>1. PICK i \in 1 .. N : i = Identity(b)
  OBVIOUS
<1>2. b = Framed(i)
  <2>1. N = Len(size) /\ SizeOK
    BY DEF OneMore
  <2> QED BY <1>1, <2>1, IdentityFacts
<1>3. b = Framed(i)' /\ i \in 1 .. N + 1
  <2>1. Framed(i)' = Framed(i)
    BY <1>1, OneMoreFramed
  <2>2. N \in Nat
    BY OneMoreSize
  <2> QED BY <1>1, <1>2, <2>1, <2>2
<1>4. DOMAIN size' = 1 .. N + 1
  BY OneMoreSize
<1>5. \A k \in 1 .. N + 1 : b = Framed(k)' => k = i
  BY <1>3, OneMoreInjective
<1>6. (CHOOSE k \in DOMAIN size' : b = Framed(k)') = i
  BY <1>3, <1>4, <1>5
<1>7. \E k \in DOMAIN size' : b = Framed(k)'
  BY <1>3, <1>4
<1>8. Identity(b)' = i
  BY <1>6, <1>7 DEF Identity
<1> QED BY <1>1, <1>8

(* The new one is framed bytes. *)
LEMMA OneMoreBytes ==
  ASSUME CoverAssumption, NEW len \in 0 .. MaxLen, NEW N, OneMore(N, len)
  PROVE  Framed(N + 1)' \in Seq(Byte)
<1> DEFINE f == Framed(N + 1)'
<1>0. PrefixLen \in Nat /\ MaxLen \in Nat
  BY DEF CoverAssumption
<1>1. f = [i \in 1 .. PrefixLen + len |-> [msg |-> N + 1, at |-> i]]
  <2>1. size'[N + 1] = len
    BY OneMoreSize
  <2> QED BY <2>1 DEF Framed
<1>2. N + 1 \in 1 .. MaxMsgs /\ PrefixLen + len \in Nat /\ PrefixLen + len <= PrefixLen + MaxLen
  BY <1>0, OneMoreSize
<1>3. \A i \in 1 .. PrefixLen + len : [msg |-> N + 1, at |-> i] \in Byte
  BY <1>0, <1>2 DEF Byte
<1> HIDE DEF f
<1>4. f \in [1 .. PrefixLen + len -> Byte]
  BY <1>1, <1>3
<1>5. f \in Seq(Byte)
  BY <1>2, <1>4, AsSeq
<1> QED BY <1>5 DEF f

(* Runs of messages accepted before are the same, one up to the new one    *)
(* ends in it.                                                             *)
LEMMA OneMoreMessages ==
  ASSUME CoverAssumption, NEW len \in 0 .. MaxLen, NEW N, OneMore(N, len)
  PROVE  /\ \A a, b \in Nat : b <= N => Messages(a + 1, b)' = Messages(a + 1, b)
         /\ \A a \in 0 .. N : Messages(a + 1, N + 1)' = Append(Messages(a + 1, N), Framed(N + 1)')
<1>0. N \in Nat /\ N = Len(size) /\ SizeOK
  BY OneMoreSize DEF OneMore
<1>1. ASSUME NEW a \in Nat, NEW b \in Nat, b <= N
      PROVE  Messages(a + 1, b)' = Messages(a + 1, b)
  <2>1. \A i \in 1 .. b - (a + 1) + 1 : a + 1 + i - 1 \in 1 .. N
    BY <1>0, <1>1
  <2>2. \A i \in 1 .. b - (a + 1) + 1 : Framed(a + 1 + i - 1)' = Framed(a + 1 + i - 1)
    BY <2>1, OneMoreFramed
  <2> QED BY <2>2 DEF Messages
<1>2. ASSUME NEW a \in 0 .. N
      PROVE  Messages(a + 1, N + 1)' = Append(Messages(a + 1, N), Framed(N + 1)')
  <2>a. Messages(a + 1, N + 1)' = [i \in 1 .. N + 1 - (a + 1) + 1 |-> Framed(a + 1 + i - 1)]'
    BY <1>0 DEF Messages
  <2>b. [i \in 1 .. N + 1 - (a + 1) + 1 |-> Framed(a + 1 + i - 1)]'
          = [i \in 1 .. N + 1 - (a + 1) + 1 |-> Framed(a + 1 + i - 1)']
    OBVIOUS
  <2> DEFINE u == Messages(a + 1, N)
             w == Messages(a + 1, N + 1)'
             f == Framed(N + 1)'
             S == Seq(Byte)
  <2>0. a \in Nat /\ a <= N /\ N <= Len(size) /\ N - a \in Nat
    BY <1>0
  <2>1. u \in Seq(S) /\ Len(u) = N - a /\ \A i \in 1 .. N - a : u[i] = Framed(a + i)
    BY <1>0, <2>0, MessagesFacts
  <2>2. N + 1 - (a + 1) + 1 = N - a + 1 /\ \A i \in 1 .. N - a + 1 : a + 1 + i - 1 = a + i
    BY <2>0, <1>0
  <2>3. w = [i \in 1 .. N - a + 1 |-> Framed(a + i)']
    <3>1. w = [i \in 1 .. N + 1 - (a + 1) + 1 |-> Framed(a + 1 + i - 1)']
      BY <2>a, <2>b
    <3> QED BY <2>2, <3>1
  <2>4. \A i \in 1 .. N - a : w[i] = u[i]
    <3>1. \A i \in 1 .. N - a : a + i \in 1 .. N /\ i \in 1 .. N - a + 1
      BY <1>0, <2>0
    <3>2. \A i \in 1 .. N - a : Framed(a + i)' = Framed(a + i)
      BY <3>1, OneMoreFramed
    <3> QED BY <2>1, <2>3, <3>1, <3>2
  <2>5. w[N - a + 1] = f
    <3>1. N - a + 1 \in 1 .. N - a + 1 /\ a + (N - a + 1) = N + 1
      BY <1>0, <2>0
    <3> QED BY <2>3, <3>1
  <2>6. f \in S
    BY OneMoreBytes
  <2>7. w \in Seq(S) /\ Len(w) = N - a + 1
    <3>1. \A i \in 1 .. N - a + 1 : i \in 1 .. N - a \/ i = N - a + 1
      BY <2>0
    <3>2. DOMAIN w = 1 .. N - a + 1 /\ w = [i \in 1 .. N - a + 1 |-> w[i]]
      BY <2>3
    <3> HIDE DEF w, u, f, S
    <3>3. \A i \in 1 .. N - a : u[i] \in S
      BY <2>0, <2>1
    <3>4. \A i \in 1 .. N - a + 1 : w[i] \in S
      BY <2>4, <2>5, <2>6, <3>1, <3>3
    <3>5. w \in [1 .. N - a + 1 -> S] /\ N - a + 1 \in Nat
      BY <2>0, <3>2, <3>4
    <3> QED BY <3>5, AsSeq
  <2> HIDE DEF w, u, f, S
  <2>8. Append(u, f) = u \o <<f>> /\ <<f>> \in Seq(S) /\ Len(<<f>>) = 1 /\ <<f>>[1] = f
    BY <2>1, <2>6, AppendFacts
  <2>9. w = u \o <<f>>
    <3>1. Len(w) = Len(u) + Len(<<f>>)
      BY <2>1, <2>7, <2>8
    <3>2. \A i \in 1 .. Len(u) : w[i] = u[i]
      BY <2>1, <2>4
    <3>3. \A i \in 1 .. Len(<<f>>) : w[Len(u) + i] = <<f>>[i]
      <4>1. \A i \in 1 .. Len(<<f>>) : i = 1 /\ Len(u) + i = N - a + 1
        BY <2>0, <2>1, <2>8
      <4> QED BY <2>5, <2>8, <4>1
    <3> QED BY <2>1, <2>7, <2>8, <3>1, <3>2, <3>3, Glue
  <2>10. w = Append(u, f)
    BY <2>8, <2>9
  <2> QED BY <2>10 DEF w, u, f
<1> QED BY <1>1, <1>2

(* What was handed over has an identity. *)
LEMMA GivenIdentity ==
  ASSUME TypeOK, OrderOK, NEW b \in Range(taken) \cup Range(inbox)
  PROVE  Identity(b) \in 1 .. Len(size)
<1>1. taken \in Seq(Seq(Byte)) /\ inbox \in Seq(Seq(Byte))
  BY TypeParts
<1> DEFINE o == taken \o inbox
<1>2. o \in Seq(Seq(Byte)) /\ Range(o) = Range(taken) \cup Range(inbox)
  BY <1>1, RangeConcat
<1>3. \A i \in 1 .. Len(o) : Identity(o[i]) \in 1 .. Len(size)
  BY DEF OrderOK
<1> HIDE DEF o
<1>4. Range(o) = {o[i] : i \in 1 .. Len(o)}
  BY <1>2, RangeSeq
<1> QED BY <1>2, <1>3, <1>4

(* TrySend, with the number of messages accepted before and of those queued. *)
LEMMA TrySendFacts ==
  ASSUME CoverAssumption, CInv, NEW len \in 0 .. MaxLen, TrySend(len),
         NEW N, N = Len(size), NEW L, L = Len(queue)
  PROVE  /\ OneMore(N, len) /\ outbound = "open" /\ L < OutCap
         /\ N \in Nat /\ L \in Nat /\ L <= N
         /\ queue' = Append(queue, N + 1) /\ queue' \in Seq(1 .. MaxMsgs)
         /\ Len(queue') = L + 1 /\ queue'[L + 1] = N + 1
         /\ \A i \in 1 .. L : queue'[i] = queue[i]
         /\ \A i \in 1 .. L : queue[i] = N - L + i
         /\ UNCHANGED <<outbound, pacing, pending, cells, pipe, link, recvVars>>
<1>0. /\ N < MaxMsgs /\ outbound = "open" /\ L < OutCap
      /\ size' = Append(size, len) /\ queue' = Append(queue, N + 1)
      /\ UNCHANGED <<outbound, pacing, pending, cells, pipe, link, recvVars>>
  BY DEF TrySend
<1>t. TypeOK /\ SizeOK /\ QueueOK
  BY TypeSize DEF CInv
<1>1. N \in Nat /\ L \in Nat /\ L <= N /\ queue \in Seq(1 .. MaxMsgs)
  BY <1>t, TypeSize DEF QueueOK, TypeOK
<1>2. OneMore(N, len)
  BY <1>0, <1>t DEF OneMore
<1>3. N + 1 \in 1 .. MaxMsgs
  BY <1>2, OneMoreSize
<1>4. queue' \in Seq(1 .. MaxMsgs) /\ Len(queue') = L + 1 /\ queue'[L + 1] = N + 1
      /\ \A i \in 1 .. L : queue'[i] = queue[i]
  BY <1>0, <1>1, <1>3
<1>5. \A i \in 1 .. L : queue[i] = N - L + i
  BY <1>t DEF QueueOK
<1> QED BY <1>0, <1>1, <1>2, <1>4, <1>5

(* The sender's stream gets the new message's bytes at its end. *)
LEMMA TrySendStream ==
  ASSUME CoverAssumption, CInv, NEW len \in 0 .. MaxLen, TrySend(len),
         NEW N, N = Len(size), NEW L, L = Len(queue)
  PROVE  Stream(L + 1)' = Stream(L) \o Framed(N + 1)' /\ Stream(L) \in Seq(Byte)
<1>1. /\ OneMore(N, len) /\ N \in Nat /\ L \in Nat /\ L <= N
      /\ queue'[L + 1] = N + 1
      /\ \A i \in 1 .. L : queue'[i] = queue[i]
  BY TrySendFacts
<1>q. \A i \in 1 .. L : queue[i] = N - L + i
  BY DEF QueueOK, CInv
<1>p. pending' = pending
  BY DEF TrySend
<1>s. SizeOK /\ pending \in Seq(Byte)
  BY TypeSize, TypeParts DEF CInv
<1>a. Stream(L + 1)' = pending \o FlattenSeq([i \in 1 .. L + 1 |-> Framed(queue[i])'])
  BY <1>p DEF Stream
<1>b. Stream(L) = pending \o FlattenSeq([i \in 1 .. L |-> Framed(queue[i])])
  BY DEF Stream
<1>2. \A i \in 1 .. L : queue[i] \in 1 .. N
  BY <1>1, <1>q
<1> DEFINE S == Seq(Byte)
           g == Framed(N + 1)'
           u == [i \in 1 .. L |-> Framed(queue[i])]
           w == [i \in 1 .. L + 1 |-> Framed(queue[i])']
<1>3. g \in S
  BY <1>1, OneMoreBytes
<1>4. u \in [1 .. L -> S]
  <2>1. \A i \in 1 .. L : Framed(queue[i]) \in S
    BY <1>2, <1>s, FramedFacts
  <2> HIDE DEF S
  <2> QED BY <2>1
<1>5. \A i \in 1 .. L : w[i] = u[i] /\ i \in 1 .. L + 1
  <2> SUFFICES ASSUME NEW i \in 1 .. L PROVE w[i] = u[i] /\ i \in 1 .. L + 1
    OBVIOUS
  <2>1. PICK m : m = queue[i]
    OBVIOUS
  <2>2. m \in 1 .. N /\ queue'[i] = m /\ i \in 1 .. L + 1
    BY <1>1, <1>2, <2>1
  <2>3. Framed(m)' = Framed(m)
    BY <1>1, <2>2, OneMoreFramed
  <2>4. Framed(queue[i])' = Framed(m)'
    BY <2>2 DEF Framed
  <2> QED BY <2>1, <2>2, <2>3, <2>4
<1>6. w[L + 1] = g
  <2>1. L + 1 \in 1 .. L + 1
    BY <1>1
  <2>2. PICK k : k = N + 1
    OBVIOUS
  <2>3. PICK j : j = L + 1
    OBVIOUS
  <2>4. Framed(queue[j])' = Framed(k)'
    BY <1>1, <2>2, <2>3 DEF Framed
  <2>5. w[j] = Framed(queue[j])'
    BY <2>1, <2>3
  <2> QED BY <2>2, <2>3, <2>4, <2>5
<1>7. w = [i \in 1 .. L + 1 |-> w[i]]
  OBVIOUS
<1> HIDE DEF S, g, u, w
<1>8. u \in Seq(S) /\ Len(u) = L /\ \A i \in 1 .. L : u[i] \in S
  BY <1>1, <1>4, AsSeq
<1>9. w \in Seq(S) /\ Len(w) = L + 1
  <2>1. \A i \in 1 .. L + 1 : i \in 1 .. L \/ i = L + 1
    BY <1>1
  <2>2. \A i \in 1 .. L + 1 : w[i] \in S
    BY <1>3, <1>5, <1>6, <1>8, <2>1
  <2>3. w \in [1 .. L + 1 -> S] /\ L + 1 \in Nat
    BY <1>1, <1>7, <2>2
  <2> QED BY <2>3, AsSeq
<1>10. Append(u, g) = u \o <<g>> /\ <<g>> \in Seq(S) /\ Len(<<g>>) = 1 /\ <<g>>[1] = g
  BY <1>3, <1>8, AppendFacts
<1>11. w = u \o <<g>>
  <2>1. Len(w) = Len(u) + Len(<<g>>)
    BY <1>8, <1>9, <1>10
  <2>2. \A i \in 1 .. Len(u) : w[i] = u[i]
    BY <1>5, <1>8
  <2>3. \A i \in 1 .. Len(<<g>>) : w[Len(u) + i] = <<g>>[i]
    <3>1. \A i \in 1 .. Len(<<g>>) : i = 1 /\ Len(u) + i = L + 1
      BY <1>1, <1>8, <1>10
    <3> QED BY <1>6, <1>10, <3>1
  <2> QED BY <1>8, <1>9, <1>10, <2>1, <2>2, <2>3, Glue
<1>12. w = Append(u, g)
  BY <1>10, <1>11
<1>13. u \in Seq(Seq(Byte)) /\ g \in Seq(Byte)
  BY <1>3, <1>8 DEF S
<1>14. FlattenSeq(Append(u, g)) = FlattenSeq(u) \o g /\ FlattenSeq(u) \in Seq(Byte)
  BY <1>13, FlattenAppend, FlattenType
<1>15. pending \o (FlattenSeq(u) \o g) = (pending \o FlattenSeq(u)) \o g
       /\ pending \o FlattenSeq(u) \in Seq(Byte)
  <2>0. PICK x : x = FlattenSeq(u)
    OBVIOUS
  <2>1. x \in Seq(Byte) /\ pending \in Seq(Byte) /\ g \in Seq(Byte)
    BY <1>s, <1>13, <1>14, <2>0
  <2>2. pending \o x \in Seq(Byte)
    BY <2>1
  <2>3. (pending \o x) \o g = pending \o (x \o g)
    <3>1. Assoc(pending, x, g)
      BY <2>1, Associative
    <3> QED BY <3>1 DEF Assoc
  <2> QED BY <2>0, <2>2, <2>3
<1>16. Stream(L + 1)' = pending \o FlattenSeq(w) /\ Stream(L) = pending \o FlattenSeq(u)
  BY <1>a, <1>b DEF w, u
<1>17. Stream(L + 1)' = Stream(L) \o g /\ Stream(L) \in Seq(Byte)
  BY <1>12, <1>14, <1>15, <1>16
<1> QED BY <1>17 DEF g

(* A message accepted goes to the end of the stream. *)
LEMMA TrySendStep ==
  ASSUME CoverAssumption, CInv, NEW len \in 0 .. MaxLen, TrySend(len)
  PROVE  CInv'
<1>n. PICK N : N = Len(size)
  OBVIOUS
<1>l. PICK L : L = Len(queue)
  OBVIOUS
<1>t. TypeOK /\ SizeOK /\ OrderOK
  BY TypeSize DEF CInv
<1>0. /\ OneMore(N, len) /\ outbound = "open" /\ L < OutCap
      /\ N \in Nat /\ L \in Nat /\ L <= N
      /\ queue' \in Seq(1 .. MaxMsgs)
      /\ Len(queue') = L + 1 /\ queue'[L + 1] = N + 1
      /\ \A i \in 1 .. L : queue'[i] = queue[i]
  BY <1>n, <1>l, TrySendFacts
<1>q. \A i \in 1 .. L : queue[i] = N - L + i
  BY <1>n, <1>l DEF QueueOK, CInv
<1>u. UNCHANGED <<outbound, pacing, pending, cells, pipe, link, recvVars>>
  BY <1>n, <1>l, TrySendFacts
<1>1. size' \in Seq(0 .. MaxLen) /\ Len(size') <= MaxMsgs /\ Len(size') = N + 1
  BY <1>0, OneMoreSize
<1>5. TypeOK'
  <2>1. Len(queue') <= OutCap
    <3>1. OutCap \in Nat
      BY DEF CoverAssumption
    <3> QED BY <1>0, <3>1
  <2>2. UNCHANGED <<outbound, consumer, pacing, pending, cells, pipe, link, reading,
                    reasm, ready, inbox, taken, shed, stranded>>
    BY <1>u DEF recvVars
  <2>3. queue' \in Seq(1 .. MaxMsgs)
    BY <1>0
  <2> QED BY <1>t, <1>1, <2>1, <2>2, <2>3 DEF TypeOK
<1>6. QueueOK'
  <2>1. Len(queue') <= Len(size')
    BY <1>0, <1>1
  <2>2. ASSUME NEW i \in 1 .. L + 1 PROVE queue'[i] = (N + 1) - (L + 1) + i
    <3>1. CASE i = L + 1
      BY <1>0, <3>1
    <3>2. CASE i # L + 1
      <4>1. i \in 1 .. L
        BY <1>0, <3>2
      <4>2. queue'[i] = N - L + i
        BY <1>0, <1>q, <4>1
      <4> QED BY <1>0, <4>1, <4>2
    <3> QED BY <3>1, <3>2
  <2>3. Len(queue') = L + 1 /\ Len(size') = N + 1
    BY <1>0, <1>1
  <2> QED BY <2>1, <2>2, <2>3 DEF QueueOK
<1>7. PaceOK'
  BY <1>0, <1>u DEF PaceOK, CInv
<1>8. \A b \in Range(taken) \cup Range(inbox) : Identity(b)' = Identity(b)
  <2>1. \A b \in Range(taken) \cup Range(inbox) : Identity(b) \in 1 .. N
    BY <1>n, <1>t, GivenIdentity
  <2>2. \A b : Identity(b) \in 1 .. N => Identity(b)' = Identity(b)
    BY <1>0, OneMoreIdentity
  <2> QED BY <2>1, <2>2
<1>9. OrderOK'
  <2>1. taken \in Seq(Seq(Byte)) /\ inbox \in Seq(Seq(Byte))
    BY <1>t, TypeParts
  <2>2. PICK o : o = taken \o inbox
    OBVIOUS
  <2>3. /\ \A i \in 1 .. Len(o) : Identity(o[i]) \in 1 .. N
        /\ \A i, j \in 1 .. Len(o) : i < j => Identity(o[i]) < Identity(o[j])
    BY <1>n, <1>t, <2>2 DEF OrderOK
  <2>4. o = taken' \o inbox'
    BY <1>u, <2>2 DEF recvVars
  <2>5. \A i \in 1 .. Len(o) : Identity(o[i])' = Identity(o[i])
    <3>1. \A b : Identity(b) \in 1 .. N => Identity(b)' = Identity(b)
      BY <1>0, OneMoreIdentity
    <3> QED BY <2>3, <3>1
  <2>6. \A i \in 1 .. N : i \in 1 .. N + 1
    BY <1>0
  <2>7. \A i \in 1 .. Len(o) : Identity(o[i])' \in 1 .. Len(size')
    BY <1>1, <2>3, <2>5, <2>6
  <2>8. \A i, j \in 1 .. Len(o) : i < j => Identity(o[i])' < Identity(o[j])'
    BY <2>3, <2>5
  <2> QED BY <2>4, <2>7, <2>8 DEF OrderOK
<1>10. ASSUME NEW n, NEW t, Wire(n, t), Put(n)
       PROVE  \E u : Wire(n, u)' /\ Put(n)'
  <2>1. n \in 0 .. N /\ n \in Nat /\ t \in Seq(Byte)
        /\ reasm \o (FlattenSeq(pipe) \o t) = FlattenSeq(Messages(n + 1, N))
        /\ (link = "up" => t = FlattenSeq(cells) \o Stream(L))
    BY <1>0, <1>n, <1>l, <1>10 DEF Wire
  <2>g. PICK g : g = Framed(N + 1)'
    OBVIOUS
  <2>h. g \in Seq(Byte)
    BY <1>0, <2>g, OneMoreBytes
  <2>2. t \o g \in Seq(Byte)
    BY <2>h, <2>1
  <2>3. FlattenSeq(Messages(n + 1, N + 1)') = FlattenSeq(Messages(n + 1, N)) \o g
    <3>1. Messages(n + 1, N + 1)' = Append(Messages(n + 1, N), g)
      BY <1>0, <2>1, <2>g, OneMoreMessages
    <3>2. Messages(n + 1, N) \in Seq(Seq(Byte))
      <4>1. n <= N /\ N <= Len(size)
        BY <1>0, <1>n, <2>1
      <4> QED BY <1>0, <1>t, <2>1, <4>1, MessagesFacts
    <3>3. FlattenSeq(Append(Messages(n + 1, N), g)) = FlattenSeq(Messages(n + 1, N)) \o g
      BY <2>h, <3>2, FlattenAppend
    <3> QED BY <3>1, <3>3
  <2>4. reasm \o (FlattenSeq(pipe) \o (t \o g)) = FlattenSeq(Messages(n + 1, N)) \o g
    <3>0. PICK p : p = FlattenSeq(pipe)
      OBVIOUS
    <3>1. reasm \in Seq(Byte) /\ p \in Seq(Byte) /\ t \in Seq(Byte) /\ g \in Seq(Byte)
      BY <1>t, <2>h, <2>1, <3>0, TypeParts
    <3>a. p \o t \in Seq(Byte)
      BY <3>1
    <3>b. (p \o t) \o g = p \o (t \o g)
      <4>1. Assoc(p, t, g)
        BY <3>1, Associative
      <4> QED BY <4>1 DEF Assoc
    <3>2. p \o (t \o g) = (p \o t) \o g /\ p \o t \in Seq(Byte)
      BY <3>a, <3>b
    <3>3. reasm \o ((p \o t) \o g) = (reasm \o (p \o t)) \o g
      <4>1. Assoc(reasm, (p \o t), g)
        BY <3>1, <3>2, Associative
      <4> QED BY <4>1 DEF Assoc
    <3>4. reasm \o (p \o t) = FlattenSeq(Messages(n + 1, N))
      BY <2>1, <3>0
    <3> QED BY <3>0, <3>2, <3>3, <3>4
  <2>5. Stream(L + 1)' = Stream(L) \o g /\ Stream(L) \in Seq(Byte)
    BY <1>n, <1>l, <2>g, TrySendStream
  <2>6. link = "up" => t \o g = FlattenSeq(cells) \o Stream(L + 1)'
    <3>1. FlattenSeq(cells) \in Seq(Byte)
      BY <1>t, TypeParts
    <3>2. (FlattenSeq(cells) \o Stream(L)) \o g = FlattenSeq(cells) \o (Stream(L) \o g)
      <4>1. Assoc(FlattenSeq(cells), Stream(L), g)
        BY <2>h, <2>5, <3>1, Associative
      <4> QED BY <4>1 DEF Assoc
    <3> QED BY <2>1, <2>5, <3>2
  <2>7. Wire(n, t \o g)'
    <3>1. reasm' = reasm /\ pipe' = pipe /\ link' = link /\ cells' = cells
      BY <1>u DEF recvVars
    <3>2. Messages(n + 1, Len(size))' = Messages(n + 1, N + 1)'
      BY <1>1 DEF Messages
    <3>3. Stream(Len(queue))' = Stream(L + 1)'
      BY <1>0 DEF Stream
    <3>4. n \in 0 .. Len(size')
      BY <1>0, <1>1, <2>1
    <3>5. FlattenSeq(Messages(n + 1, Len(size)))' = FlattenSeq(Messages(n + 1, N)) \o g
      BY <2>3, <3>2
    <3>6. reasm' \o (FlattenSeq(pipe') \o (t \o g)) = FlattenSeq(Messages(n + 1, Len(size)))'
      BY <2>4, <3>1, <3>5
    <3>7. link' = "up" => t \o g = FlattenSeq(cells') \o Stream(Len(queue))'
      BY <2>6, <3>1, <3>3
    <3> QED BY <2>2, <3>4, <3>6, <3>7 DEF Wire
  <2>8. Put(n)'
    <3>1. ready' = ready /\ consumer' = consumer /\ taken' = taken /\ inbox' = inbox /\ shed' = shed
      BY <1>u DEF recvVars
    <3>2. PICK k : k = Len(ready)
      OBVIOUS
    <3>3. k \in Nat /\ k <= n /\ n - k \in Nat
      BY <1>t, <1>10, <2>1, <3>2, TypeParts DEF Put
    <3>4. Messages(n - k + 1, n)' = Messages(n - k + 1, n) /\ Messages(0 + 1, n)' = Messages(0 + 1, n)
      <4>1. \A a, b \in Nat : b <= N => Messages(a + 1, b)' = Messages(a + 1, b)
        BY <1>0, OneMoreMessages
      <4>2. n <= N /\ 0 \in Nat
        BY <1>0, <2>1
      <4> QED BY <2>1, <3>3, <4>1, <4>2
    <3>5. Past' = Past
      BY <3>1 DEF Past, Range
    <3>6. ready = Messages(n - k + 1, n) /\ (consumer = "open" => Past = Range(Messages(1, n)))
      BY <1>10, <3>2 DEF Put
    <3>7. \A b \in Range(taken) \cup Range(inbox) : Identity(b)' <= n - k
      BY <1>8, <1>10, <3>2 DEF Put
    <3>8. Len(ready') = k /\ ready' = Messages(n - k + 1, n)'
      BY <3>1, <3>2, <3>4, <3>6
    <3>9. consumer' = "open" => Past' = Range(Messages(1, n))'
      <4>1. Messages(1, n)' = Messages(1, n)
        BY <3>4
      <4> QED BY <3>1, <3>5, <3>6, <4>1 DEF Range
    <3>10. \A b \in Range(taken)' \cup Range(inbox)' : Identity(b)' <= n - k
      BY <3>1, <3>7 DEF Range
    <3>11. (ready = Messages(n - Len(ready) + 1, n))'
      BY <3>8 DEF Messages, Framed
    <3> QED BY <3>3, <3>8, <3>9, <3>10, <3>11 DEF Put
  <2> QED BY <2>7, <2>8
<1>11. StreamOK'
  BY <1>u, <1>10 DEF StreamOK, CInv, recvVars
<1> QED BY <1>5, <1>6, <1>7, <1>9, <1>11 DEF CInv

(* The cell of one tick and what is left of the stream are the stream. *)
LEMMA CellCut ==
  ASSUME CoverAssumption, NEW s \in Seq(Byte)
  PROVE  /\ SubSeq(s, 1, Min({CellSize, Len(s)})) \in Seq(Byte)
         /\ Len(SubSeq(s, 1, Min({CellSize, Len(s)}))) <= CellSize
         /\ SubSeq(s, CellSize + 1, Len(s)) \in Seq(Byte)
         /\ SubSeq(s, 1, Min({CellSize, Len(s)})) \o SubSeq(s, CellSize + 1, Len(s)) = s
<1>0. Len(s) \in Nat /\ CellSize \in Nat \ {0}
  BY DEF CoverAssumption
<1>1. PICK k : k = Min({CellSize, Len(s)})
  OBVIOUS
<1>2. k = IF CellSize <= Len(s) THEN CellSize ELSE Len(s)
  BY <1>0, <1>1, MinTwo
<1>3. k \in 0 .. Len(s) /\ k <= CellSize /\ k \in Nat
  BY <1>0, <1>2
<1> DEFINE u == SubSeq(s, 1, k)
           v == SubSeq(s, k + 1, Len(s))
           r == SubSeq(s, CellSize + 1, Len(s))
<1>4. u \in Seq(Byte) /\ Len(u) = k
  BY <1>3, SplitAt
<1>5. v \in Seq(Byte)
  BY <1>3, SplitAt
<1>6. s = u \o v
  BY <1>3, SplitAt, Zenon
<1>7. r = v
  <2>1. CASE CellSize <= Len(s)
    BY <1>2, <2>1
  <2>2. CASE ~(CellSize <= Len(s))
    <3>1. k = Len(s) /\ Len(s) < CellSize + 1 /\ Len(s) < Len(s) + 1
          /\ CellSize + 1 \in Int /\ Len(s) \in Int /\ Len(s) + 1 \in Int
      BY <1>0, <1>2, <2>2
    <3>2. r = <<>>
      BY <3>1, SubSeqEmpty
    <3>3. v = <<>>
      BY <3>1, SubSeqEmpty
    <3> QED BY <3>2, <3>3
  <2> QED BY <2>1, <2>2
<1> HIDE DEF u, v, r
<1>8. Len(u) <= CellSize /\ u \o r = s /\ r \in Seq(Byte)
  BY <1>3, <1>4, <1>5, <1>6, <1>7
<1> QED BY <1>1, <1>4, <1>8 DEF u, r

(* What a tick does, in the terms of Tick. *)
TickIs(k, s, handed, left, flushing, stops) ==
  /\ k = Drained /\ s = Stream(k)
  /\ handed = (link = "up" /\ Len(cells) < WriterCap)
  /\ left = Rest(s, handed)
  /\ flushing = (pacing = "flushing" \/ (outbound = "dropped" /\ Len(s) < CellSize))
  /\ stops = (link # "up" \/ (flushing /\ left = <<>>))
  /\ queue' = IF stops THEN <<>> ELSE SubSeq(queue, k + 1, Len(queue))
  /\ cells' = IF handed THEN Append(cells, SubSeq(s, 1, Min({CellSize, Len(s)}))) ELSE cells
  /\ pending' = IF stops THEN <<>> ELSE left
  /\ pacing' = IF stops THEN "ended" ELSE IF flushing THEN "flushing" ELSE pacing

(* A tick is such a step. *)
LEMMA TickForm ==
  ASSUME Tick
  PROVE  /\ \E k, s, left : \E handed, flushing, stops \in BOOLEAN :
              TickIs(k, s, handed, left, flushing, stops)
         /\ UNCHANGED <<size, outbound, pipe, link, recvVars>>
<1>1. PICK k, s : /\ k = Drained /\ s = Stream(k)
                  /\ LET handed == link = "up" /\ Len(cells) < WriterCap
                         left == Rest(s, handed)
                         flushing == pacing = "flushing" \/ (outbound = "dropped" /\ Len(s) < CellSize)
                         stops == link # "up" \/ (flushing /\ left = <<>>)
                     IN TickIs(k, s, handed, left, flushing, stops)
  BY Zenon DEF Tick, TickIs
<1> DEFINE handed == link = "up" /\ Len(cells) < WriterCap
           left == Rest(s, handed)
           flushing == pacing = "flushing" \/ (outbound = "dropped" /\ Len(s) < CellSize)
           stops == link # "up" \/ (flushing /\ left = <<>>)
<1>2. TickIs(k, s, handed, left, flushing, stops)
  BY <1>1
<1>3. handed \in BOOLEAN /\ flushing \in BOOLEAN /\ stops \in BOOLEAN
  OBVIOUS
<1>4. \E h, f, p \in BOOLEAN : TickIs(k, s, h, left, f, p)
  <2> HIDE DEF handed, left, flushing, stops
  <2> QED BY <1>2, <1>3
<1>5. UNCHANGED <<size, outbound, pipe, link, recvVars>>
  BY DEF Tick
<1> QED BY <1>4, <1>5

(* The cell handed over, if one is, and the stream that remains are the    *)
(* stream that was.                                                        *)
BytesKept(k, s, left) ==
  /\ k \in 0 .. Len(queue) /\ s \in Seq(Byte) /\ left \in Seq(Byte)
  /\ cells' \in Seq(Seq(Byte)) /\ Len(cells') <= WriterCap
  /\ \A c \in Range(cells') : Len(c) <= CellSize
  /\ FlattenSeq(cells') \in Seq(Byte)
  /\ FlattenSeq(cells') \o left = FlattenSeq(cells) \o s

(* What it does to the queue and the stream of bytes: the cell handed over, *)
(* if one is, and the stream that remains are the stream that was.          *)
LEMMA TickBytes ==
  ASSUME CoverAssumption, CInv, Tick, NEW k, NEW s, NEW left,
         NEW handed \in BOOLEAN, NEW flushing \in BOOLEAN, NEW stops \in BOOLEAN,
         TickIs(k, s, handed, left, flushing, stops)
  PROVE  BytesKept(k, s, left)
<1>t. TypeOK /\ SizeOK /\ QueueOK /\ Len(queue) \in Nat
  BY TypeSize DEF CInv
<1>1. k \in 0 .. Len(queue)
  BY <1>t, DrainedFacts DEF TickIs
<1>2. s \in Seq(Byte)
  <2>1. PICK q : q = Len(size) - Len(queue)
    OBVIOUS
  <2> QED BY <1>t, <1>1, <2>1, StreamFacts DEF TickIs
<1>c. cells \in Seq(Seq(Byte)) /\ Len(cells) \in Nat /\ Len(cells) <= WriterCap
      /\ FlattenSeq(cells) \in Seq(Byte) /\ \A c \in Range(cells) : Len(c) <= CellSize
  BY <1>t, TypeParts DEF TypeOK
<1> DEFINE u == SubSeq(s, 1, Min({CellSize, Len(s)}))
           r == SubSeq(s, CellSize + 1, Len(s))
<1>3. u \in Seq(Byte) /\ Len(u) <= CellSize /\ r \in Seq(Byte) /\ u \o r = s
  BY <1>2, CellCut
<1>4. /\ left = IF handed THEN r ELSE s
      /\ cells' = IF handed THEN Append(cells, u) ELSE cells
      /\ handed => Len(cells) < WriterCap
  BY DEF TickIs, Rest
<1> HIDE DEF u, r
<1>5. CASE handed
  <2>1. left = r /\ cells' = Append(cells, u)
    BY <1>4, <1>5
  <2>2. FlattenSeq(Append(cells, u)) = FlattenSeq(cells) \o u
    BY <1>3, <1>c, FlattenAppend
  <2>3. PICK x : x = FlattenSeq(cells)
    OBVIOUS
  <2>4. x \in Seq(Byte)
    BY <1>c, <2>3
  <2>a. x \in Seq(Byte) /\ u \in Seq(Byte) /\ r \in Seq(Byte)
    BY <1>3, <2>4
  <2>5. (x \o u) \o r = x \o (u \o r)
    <3>1. Assoc(x, u, r)
      BY <2>a, Associative
    <3> QED BY <3>1 DEF Assoc
  <2>6. x \o u \in Seq(Byte)
    BY <1>3, <2>4
  <2>7. PICK S : S = Seq(Byte)
    OBVIOUS
  <2>8. cells \in Seq(S) /\ u \in S
    BY <1>3, <1>c, <2>7
  <2>9. Append(cells, u) \in Seq(S) /\ Len(Append(cells, u)) = Len(cells) + 1
    BY <2>8, AppendFacts
  <2>10. Range(Append(cells, u)) = Range(cells) \cup {u}
    BY <2>8, AppendFacts
  <2>11. Len(cells') <= WriterCap
    <3>1. WriterCap \in Nat
      BY DEF CoverAssumption
    <3> QED BY <1>4, <1>5, <1>c, <2>1, <2>9, <3>1
  <2>12. \A c \in Range(cells') : Len(c) <= CellSize
    BY <1>3, <1>c, <2>1, <2>10
  <2>13. FlattenSeq(cells') \in Seq(Byte) /\ FlattenSeq(cells') \o left = FlattenSeq(cells) \o s
    BY <1>3, <2>1, <2>2, <2>3, <2>5, <2>6
  <2> QED BY <1>1, <1>2, <1>3, <2>1, <2>7, <2>9, <2>11, <2>12, <2>13 DEF BytesKept
<1>6. CASE ~handed
  <2>1. left = s /\ cells' = cells
    BY <1>4, <1>6
  <2> QED BY <1>1, <1>2, <1>c, <2>1 DEF BytesKept
<1> QED BY <1>5, <1>6

(* When it stops on a link that is up, or starts to flush, the queue is    *)
(* empty.                                                                  *)
LEMMA TickQueue ==
  ASSUME CoverAssumption, CInv, Tick, NEW k, NEW s, NEW left,
         NEW handed \in BOOLEAN, NEW flushing \in BOOLEAN, NEW stops \in BOOLEAN,
         TickIs(k, s, handed, left, flushing, stops)
  PROVE  /\ flushing => outbound = "dropped" /\ k = Len(queue)
         /\ queue' \in Seq(1 .. MaxMsgs) /\ Len(queue') <= Len(queue)
         /\ stops => queue' = <<>>
         /\ ~stops => /\ Len(queue') = Len(queue) - k
                      /\ \A i \in 1 .. Len(queue) - k : queue'[i] = queue[k + i]
<1>t. TypeOK /\ QueueOK /\ Len(queue) \in Nat /\ queue \in Seq(1 .. MaxMsgs)
  BY TypeSize DEF CInv, TypeOK
<1>1. k \in 0 .. Len(queue) /\ s \in Seq(Byte)
  <2>1. BytesKept(k, s, left)
    BY TickBytes
  <2> QED BY <2>1 DEF BytesKept
<1>2. k = Len(queue) \/ Len(s) >= CellSize
  BY <1>t, DrainedFacts DEF TickIs
<1>3. flushing => outbound = "dropped" /\ k = Len(queue)
  <2>1. CASE pacing = "flushing"
    <3>1. outbound = "dropped" /\ queue = <<>>
      BY <2>1 DEF CInv, PaceOK
    <3>2. Len(queue) = 0
      BY <3>1
    <3> QED BY <1>1, <3>1, <3>2
  <2>2. CASE outbound = "dropped" /\ Len(s) < CellSize
    <3>1. Len(s) \in Nat /\ CellSize \in Nat
      BY <1>1 DEF CoverAssumption
    <3> QED BY <1>2, <2>2, <3>1
  <2> QED BY <2>1, <2>2 DEF TickIs
<1>4. queue' = IF stops THEN <<>> ELSE SubSeq(queue, k + 1, Len(queue))
  BY DEF TickIs
<1>5. CASE stops
  <2>1. queue' = <<>> /\ queue' \in Seq(1 .. MaxMsgs) /\ Len(queue') <= Len(queue)
    BY <1>4, <1>5, <1>t
  <2> QED BY <1>3, <1>5, <2>1
<1>6. CASE ~stops
  <2>1. queue' = SubSeq(queue, k + 1, Len(queue))
    BY <1>4, <1>6
  <2>2. SubSeq(queue, k + 1, Len(queue)) \in Seq(1 .. MaxMsgs)
    BY <1>1, <1>t, SplitAt
  <2>3. Len(SubSeq(queue, k + 1, Len(queue))) = Len(queue) - k
    BY <1>1, <1>t, SplitAt
  <2>4. \A i \in 1 .. Len(queue) - k : SubSeq(queue, k + 1, Len(queue))[i] = queue[k + i]
    BY <1>1, <1>t, SplitAt
  <2>5. Len(queue) - k <= Len(queue)
    BY <1>1, <1>t
  <2> QED BY <1>3, <1>6, <2>1, <2>2, <2>3, <2>4, <2>5
<1> QED BY <1>5, <1>6

(* Behind what a tick cut into a cell, the sender's stream is the same.    *)
StreamLeft(s, left) ==
  \E R : /\ R \in Seq(Byte) /\ Stream(Len(queue)) = s \o R
         /\ Stream(Len(queue))' = left \o R

(* What remains of the sender's stream after a tick. *)
LEMMA TickStream ==
  ASSUME CoverAssumption, CInv, Tick, NEW k, NEW s, NEW left,
         NEW handed \in BOOLEAN, NEW flushing \in BOOLEAN, NEW stops \in BOOLEAN,
         TickIs(k, s, handed, left, flushing, stops), link = "up", QueueOK', TypeOK'
  PROVE  StreamLeft(s, left)
<1>t. TypeOK /\ SizeOK /\ QueueOK /\ Len(queue) \in Nat /\ Len(size) \in Nat
  BY TypeSize DEF CInv
<1>s. size' = size
  BY DEF Tick
<1>b. k \in 0 .. Len(queue) /\ s \in Seq(Byte) /\ left \in Seq(Byte)
  <2>1. BytesKept(k, s, left)
    BY TickBytes
  <2> QED BY <2>1 DEF BytesKept
<1>q. PICK q : q = Len(size) - Len(queue)
  OBVIOUS
<1>r. PICK R : R = FlattenSeq(Messages(q + k + 1, Len(size)))
  OBVIOUS
<1>1. s = Stream(k)
  BY DEF TickIs
<1>2. Stream(Len(queue)) = s \o R /\ R \in Seq(Byte) /\ q \in Nat /\ q + k <= Len(size)
  BY <1>t, <1>b, <1>q, <1>r, <1>1, StreamFacts
<1>z. Messages(Len(size) + 1, Len(size)) = <<>> /\ FlattenSeq(<<>>) = <<>>
  BY <1>t, OffZero, FlattenEmpty
<1>3. Stream(Len(queue))' = left \o R
  <2>0. pending' = IF stops THEN <<>> ELSE left
    BY DEF TickIs
  <2>m. \A a, b : Messages(a, b)' = Messages(a, b)
    BY <1>s, SizeSame
  <2>1. ASSUME NEW p, p = Len(size) - Len(queue')
        PROVE  Stream(Len(queue))' = pending' \o FlattenSeq(Messages(p + 1, Len(size)))
    <3>1. SizeOK' /\ Len(queue') \in Nat
      BY <1>s, <1>t DEF TypeOK, SizeOK
    <3>2. \A j \in 1 .. Len(queue') : queue'[j] = p + j
      BY <1>s, <2>1 DEF QueueOK
    <3>3. Stream(Len(queue))' = pending' \o FlattenSeq([i \in 1 .. Len(queue') |-> Framed(queue'[i])])
      BY <1>s DEF Stream, Framed
    <3>4. [i \in 1 .. Len(queue') |-> Framed(queue'[i])] = [i \in 1 .. Len(queue') |-> Framed(p + i)]
      BY <3>2
    <3>5. Messages(p + 1, Len(size)) = [i \in 1 .. Len(queue') |-> Framed(p + i)]
      <4>1. Messages(p + 1, Len(size)) = [i \in 1 .. Len(size) - (p + 1) + 1 |-> Framed(p + 1 + i - 1)]
        BY DEF Messages
      <4>2. Len(size) - (p + 1) + 1 = Len(queue') /\ \A i \in 1 .. Len(queue') : p + 1 + i - 1 = p + i
        BY <1>t, <2>1, <3>1
      <4> QED BY <4>1, <4>2
    <3> QED BY <3>3, <3>4, <3>5
  <2>2. CASE stops
    <3>1. flushing /\ left = <<>>
      BY <2>2 DEF TickIs
    <3>2. k = Len(queue) /\ queue' = <<>>
      BY <2>2, <3>1, TickQueue
    <3>3. Len(queue') = 0 /\ Len(size) - Len(queue') = Len(size)
      BY <1>t, <3>2
    <3>4. Stream(Len(queue))' = <<>> \o FlattenSeq(Messages(Len(size) + 1, Len(size)))
      BY <2>0, <2>1, <2>2, <3>3
    <3>5. q + k = Len(size)
      BY <1>q, <1>t, <3>2
    <3>6. R = <<>>
      BY <1>r, <1>z, <3>5
    <3> QED BY <1>z, <3>1, <3>4, <3>6
  <2>3. CASE ~stops
    <3>1. Len(queue') = Len(queue) - k
      BY <2>3, TickQueue
    <3>2. q + k = Len(size) - Len(queue')
      BY <1>b, <1>q, <1>t, <3>1
    <3> QED BY <1>r, <2>0, <2>1, <2>3, <3>2
  <2> QED BY <2>2, <2>3
<1> QED BY <1>2, <1>3 DEF StreamLeft

(* A tick keeps the invariant: the bytes leave the stream exactly when     *)
(* their cell was accepted.                                                *)
LEMMA TickStep ==
  ASSUME CoverAssumption, CInv, Tick
  PROVE  CInv'
<1>t. TypeOK /\ SizeOK /\ QueueOK /\ Len(queue) \in Nat /\ Len(size) \in Nat
  BY TypeSize DEF CInv
<1>u. UNCHANGED <<size, outbound, pipe, link, recvVars>>
  BY TickForm
<1>f. PICK k, s, left : \E handed, flushing, stops \in BOOLEAN :
         TickIs(k, s, handed, left, flushing, stops)
  BY TickForm
<1>g. PICK handed \in BOOLEAN, flushing \in BOOLEAN, stops \in BOOLEAN :
         TickIs(k, s, handed, left, flushing, stops)
  BY <1>f
<1>b. /\ k \in 0 .. Len(queue) /\ s \in Seq(Byte) /\ left \in Seq(Byte)
      /\ cells' \in Seq(Seq(Byte)) /\ Len(cells') <= WriterCap
      /\ \A c \in Range(cells') : Len(c) <= CellSize
      /\ FlattenSeq(cells') \in Seq(Byte)
      /\ FlattenSeq(cells') \o left = FlattenSeq(cells) \o s
  <2>1. BytesKept(k, s, left)
    BY <1>g, TickBytes
  <2> QED BY <2>1 DEF BytesKept
<1>q. /\ flushing => outbound = "dropped" /\ k = Len(queue)
      /\ queue' \in Seq(1 .. MaxMsgs) /\ Len(queue') <= Len(queue)
      /\ stops => queue' = <<>>
      /\ ~stops => /\ Len(queue') = Len(queue) - k
                   /\ \A i \in 1 .. Len(queue) - k : queue'[i] = queue[k + i]
  BY <1>g, TickQueue
<1>1. QueueOK'
  <2>1. CASE stops
    <3>1. Len(queue') = 0
      BY <1>q, <2>1
    <3> QED BY <1>t, <1>u, <3>1 DEF QueueOK
  <2>2. CASE ~stops
    <3>1. Len(queue') = Len(queue) - k
      BY <1>q, <2>2
    <3>2. \A i \in 1 .. Len(queue') : queue'[i] = queue[k + i] /\ k + i \in 1 .. Len(queue)
      BY <1>b, <1>q, <1>t, <2>2, <3>1
    <3>3. \A i \in 1 .. Len(queue) : queue[i] = Len(size) - Len(queue) + i
      BY <1>t DEF QueueOK
    <3>4. Len(queue) <= Len(size)
      BY <1>t DEF QueueOK
    <3>5. \A i \in 1 .. Len(queue') : queue'[i] = Len(size) - Len(queue') + i
      <4> SUFFICES ASSUME NEW i \in 1 .. Len(queue')
                   PROVE  queue'[i] = Len(size) - Len(queue') + i
        OBVIOUS
      <4>1. queue'[i] = queue[k + i] /\ k + i \in 1 .. Len(queue)
        BY <3>2
      <4>2. queue[k + i] = Len(size) - Len(queue) + (k + i)
        BY <3>3, <4>1
      <4>3. Len(size) - Len(queue) + (k + i) = Len(size) - Len(queue') + i
        BY <1>b, <1>t, <3>1
      <4> QED BY <4>1, <4>2, <4>3
    <3>6. Len(queue') <= Len(size)
      BY <1>b, <1>t, <3>1, <3>4
    <3> QED BY <1>u, <3>5, <3>6 DEF QueueOK
  <2> QED BY <2>1, <2>2
<1>2. TypeOK'
  <2>1. pending' \in Seq(Byte)
    <3>1. pending' = IF stops THEN <<>> ELSE left
      BY <1>g DEF TickIs
    <3> QED BY <1>b, <3>1
  <2>2. pacing' \in {"running", "flushing", "ended"}
    <3>1. pacing' = IF stops THEN "ended" ELSE IF flushing THEN "flushing" ELSE pacing
      BY <1>g DEF TickIs
    <3> QED BY <1>t, <3>1 DEF TypeOK
  <2>3. queue' \in Seq(1 .. MaxMsgs) /\ Len(queue') <= OutCap
    <3>1. Len(queue) <= OutCap /\ OutCap \in Nat
      BY <1>t DEF TypeOK, CoverAssumption
    <3>2. Len(queue') \in Nat
      BY <1>q
    <3> QED BY <1>q, <1>t, <3>1, <3>2
  <2>4. \A c \in Range(cells') \cup Range(pipe') : Len(c) <= CellSize
    <3>1. \A c \in Range(pipe) : Len(c) <= CellSize
      BY <1>t DEF TypeOK
    <3> QED BY <1>b, <1>u, <3>1
  <2>5. UNCHANGED <<size, outbound, consumer, pipe, link, reading,
                    reasm, ready, inbox, taken, shed, stranded>>
    BY <1>u DEF recvVars
  <2> QED BY <1>b, <1>t, <2>1, <2>2, <2>3, <2>4, <2>5 DEF TypeOK
<1>3. PaceOK'
  <2> SUFFICES ASSUME pacing' = "flushing" PROVE outbound' = "dropped" /\ queue' = <<>>
    BY DEF PaceOK
  <2>1. pacing' = IF stops THEN "ended" ELSE IF flushing THEN "flushing" ELSE pacing
    BY <1>g DEF TickIs
  <2>2. flushing
    <3>1. pacing = "flushing" => flushing
      BY <1>g DEF TickIs
    <3> QED BY <2>1, <3>1
  <2>3. ~stops
    BY <2>1
  <2>4. Len(queue') = 0
    BY <1>q, <1>t, <2>2, <2>3
  <2>5. queue' = <<>>
    BY <1>q, <2>4
  <2> QED BY <1>q, <1>u, <2>2, <2>5
<1>4. OrderOK'
  <2>1. \A b : Identity(b)' = Identity(b)
    BY <1>u, SizeSame
  <2>2. UNCHANGED <<size, taken, inbox>>
    BY <1>u DEF recvVars
  <2> QED BY <2>1, <2>2 DEF OrderOK, CInv
<1>5. ASSUME NEW n, NEW t, Wire(n, t), Put(n)
      PROVE  Wire(n, t)' /\ Put(n)'
  <2>0. /\ \A a, b : Messages(a, b)' = Messages(a, b)
        /\ \A b : Identity(b)' = Identity(b)
    BY <1>u, SizeSame
  <2>r. UNCHANGED <<size, pipe, link, reasm, ready, inbox, consumer, taken, shed>>
    BY <1>u DEF recvVars
  <2>1. link = "up" => t = FlattenSeq(cells') \o Stream(Len(queue))'
    <3> SUFFICES ASSUME link = "up" PROVE t = FlattenSeq(cells') \o Stream(Len(queue))'
      OBVIOUS
    <3>1. PICK R : /\ R \in Seq(Byte) /\ Stream(Len(queue)) = s \o R
                   /\ Stream(Len(queue))' = left \o R
      <4>1. StreamLeft(s, left)
        BY <1>g, <1>1, <1>2, TickStream
      <4> QED BY <4>1 DEF StreamLeft
    <3>2. t = FlattenSeq(cells) \o (s \o R)
      BY <1>5, <3>1 DEF Wire
    <3>3. PICK x, y : x = FlattenSeq(cells) /\ y = FlattenSeq(cells')
      OBVIOUS
    <3>4. x \in Seq(Byte) /\ y \in Seq(Byte) /\ s \in Seq(Byte) /\ left \in Seq(Byte) /\ R \in Seq(Byte)
      BY <1>b, <1>t, <3>1, <3>3, TypeParts
    <3>5. (x \o s) \o R = x \o (s \o R)
      <4>1. Assoc(x, s, R)
        BY <3>4, Associative
      <4> QED BY <4>1 DEF Assoc
    <3>6. (y \o left) \o R = y \o (left \o R)
      <4>1. Assoc(y, left, R)
        BY <3>4, Associative
      <4> QED BY <4>1 DEF Assoc
    <3>7. y \o left = x \o s
      BY <1>b, <3>3
    <3> QED BY <3>1, <3>2, <3>3, <3>5, <3>6, <3>7
  <2>2. Wire(n, t)'
    <3>1. Messages(n + 1, Len(size))' = Messages(n + 1, Len(size))
      BY <2>r DEF Messages, Framed
    <3> QED BY <1>5, <2>1, <2>r, <3>1 DEF Wire
  <2>3. Past' = Past
    BY <2>r DEF Past, Range
  <2>4. Put(n)'
    BY <1>5, <2>0, <2>3, <2>r DEF Put, Range
  <2> QED BY <2>2, <2>4
<1>6. StreamOK'
  <2>1. reading' = reading
    BY <1>u DEF recvVars
  <2> QED BY <1>5, <2>1 DEF StreamOK, CInv
<1> QED BY <1>1, <1>2, <1>3, <1>4, <1>6 DEF CInv

(* A run of messages, cut in two at any place, is two runs of messages.    *)
InTwo(a, b, c) ==
  /\ SubSeq(Messages(a + 1, c), 1, b - a) = Messages(a + 1, b)
  /\ SubSeq(Messages(a + 1, c), b - a + 1, c - a) = Messages(b + 1, c)
  /\ Range(Messages(a + 1, c)) = Range(Messages(a + 1, b)) \cup Range(Messages(b + 1, c))

(* Every place in the run does. *)
LEMMA MessagesSplit ==
  ASSUME CoverAssumption, SizeOK, NEW a \in Nat, NEW b \in Nat, NEW c \in Nat,
         a <= b, b <= c, c <= Len(size)
  PROVE  InTwo(a, b, c)
<1>n. Len(size) \in Nat
  BY DEF SizeOK
<1>d. PICK d : d = b - a
  OBVIOUS
<1> DEFINE w == Messages(a + 1, c)
           u == Messages(a + 1, b)
           v == Messages(b + 1, c)
<1>1. u \in Seq(Seq(Byte)) /\ Len(u) = d
  BY <1>n, <1>d, MessagesFacts
<1>2. v \in Seq(Seq(Byte)) /\ Len(v) = c - b
  BY <1>n, MessagesFacts
<1>3. w = u \o v
  <2>1. Joins(a, b, c)
    BY MessagesConcat
  <2> QED BY <2>1 DEF Joins
<1>4. PICK S : S = Seq(Byte)
  OBVIOUS
<1> HIDE DEF u, v, w
<1>5. u \in Seq(S) /\ v \in Seq(S)
  BY <1>1, <1>2, <1>4
<1>6. Range(w) = Range(u) \cup Range(v)
  BY <1>3, <1>5, RangeConcat
<1>7. w \in Seq(S) /\ Len(w) = c - a /\ d \in 0 .. Len(w) /\ Len(u) = d
  <2>1. w \in Seq(S) /\ Len(w) = Len(u) + Len(v)
    BY <1>3, <1>5
  <2>2. Len(w) = c - a /\ d \in 0 .. c - a
    BY <1>1, <1>2, <1>d, <2>1
  <2> QED BY <1>1, <2>1, <2>2
<1>8. SubSeq(w, 1, d) = u
  <2>1. SubSeq(w, 1, d) \in Seq(S) /\ Len(SubSeq(w, 1, d)) = d
    BY <1>7, SplitAt
  <2>2. \A i \in 1 .. d : SubSeq(w, 1, d)[i] = w[i]
    BY <1>7, SplitAt
  <2>3. \A i \in 1 .. d : w[i] = u[i]
    BY <1>1, <1>3, <1>5
  <2>4. PICK x : x = SubSeq(w, 1, d)
    OBVIOUS
  <2>5. x \in Seq(S) /\ Len(x) = Len(u) /\ \A i \in 1 .. Len(u) : x[i] = u[i]
    BY <1>1, <2>1, <2>2, <2>3, <2>4
  <2>6. x = u
    BY <1>5, <2>5
  <2> QED BY <2>4, <2>6
<1>9. SubSeq(w, d + 1, c - a) = v
  <2>1. SubSeq(w, d + 1, Len(w)) \in Seq(S) /\ Len(SubSeq(w, d + 1, Len(w))) = Len(w) - d
    BY <1>7, SplitAt
  <2>2. \A i \in 1 .. Len(w) - d : SubSeq(w, d + 1, Len(w))[i] = w[d + i]
    BY <1>7, SplitAt
  <2>3. \A i \in 1 .. Len(v) : w[d + i] = v[i]
    <3>1. \A i \in 1 .. Len(v) : w[Len(u) + i] = v[i]
      BY <1>3, <1>5
    <3> QED BY <1>7, <3>1
  <2>4. PICK x : x = SubSeq(w, d + 1, Len(w))
    OBVIOUS
  <2>n. Len(v) = Len(w) - d
    BY <1>2, <1>d, <1>7
  <2>5. x \in Seq(S) /\ Len(x) = Len(v) /\ \A i \in 1 .. Len(v) : x[i] = v[i]
    BY <2>1, <2>2, <2>3, <2>4, <2>n
  <2>6. x = v
    BY <1>5, <2>5
  <2> QED BY <1>7, <2>4, <2>6
<1> QED BY <1>6, <1>8, <1>9, <1>d DEF u, v, w, InTwo

(* What cutting a cell more off the stream leaves.                         *)
LEMMA ReadCut ==
  ASSUME CoverAssumption, CInv, pipe # <<>>, NEW n, NEW t, Wire(n, t)
  PROVE  LET cut == Cut(reasm \o Head(pipe))
         IN \E k \in 0 .. Len(size) - n :
              /\ cut.whole = Messages(n + 1, n + k)
              /\ cut.rest \in Seq(Byte)
              /\ cut.rest \o (FlattenSeq(Tail(pipe)) \o t)
                   = FlattenSeq(Messages(n + k + 1, Len(size)))
<1>t. TypeOK /\ SizeOK /\ Len(size) \in Nat
  BY TypeSize DEF CInv
<1>0. n \in Nat /\ n <= Len(size) /\ t \in Seq(Byte)
      /\ reasm \o (FlattenSeq(pipe) \o t) = FlattenSeq(Messages(n + 1, Len(size)))
  BY <1>t DEF Wire
<1>1. pipe \in Seq(Seq(Byte)) /\ reasm \in Seq(Byte)
  BY <1>t, TypeParts
<1> DEFINE h == Head(pipe)
           f == FlattenSeq(Tail(pipe))
<1>2. h \in Seq(Byte) /\ Tail(pipe) \in Seq(Seq(Byte))
  BY <1>1, HeadTail
<1>3. f \in Seq(Byte)
  BY <1>2, FlattenType
<1>4. FlattenSeq(pipe) = h \o f
  BY <1>1, FlattenHead
<1> HIDE DEF h, f
<1>5. reasm \o h \in Seq(Byte) /\ f \o t \in Seq(Byte)
  BY <1>0, <1>1, <1>2, <1>3
<1>6. (reasm \o h) \o (f \o t) = FlattenSeq(Messages(n + 1, Len(size)))
  <2>0. h \in Seq(Byte) /\ f \in Seq(Byte) /\ t \in Seq(Byte) /\ reasm \in Seq(Byte)
    BY <1>0, <1>1, <1>2, <1>3
  <2>1. (h \o f) \o t = h \o (f \o t)
    <3>1. Assoc(h, f, t)
      BY <2>0, Associative
    <3> QED BY <3>1 DEF Assoc
  <2>2. PICK y : y = f \o t
    OBVIOUS
  <2>3. y \in Seq(Byte) /\ reasm \in Seq(Byte) /\ h \in Seq(Byte)
    BY <1>5, <2>0, <2>2
  <2>4. (reasm \o h) \o y = reasm \o (h \o y)
    <3>1. Assoc(reasm, h, y)
      BY <2>3, Associative
    <3> QED BY <3>1 DEF Assoc
  <2> QED BY <1>0, <1>4, <2>1, <2>2, <2>4
<1>7. \E k \in 0 .. Len(size) - n :
        /\ Cut(reasm \o h).whole = Messages(n + 1, n + k)
        /\ Cut(reasm \o h).rest \in Seq(Byte)
        /\ Cut(reasm \o h).rest \o (f \o t) = FlattenSeq(Messages(n + k + 1, Len(size)))
  BY <1>t, <1>0, <1>5, <1>6, CutFacts
<1> QED BY <1>7 DEF h, f

(* What is staged of the messages up to m: the c newest of the L there are. *)
Keeps(L, c, m, msgs, kept) ==
  /\ c \in 0 .. L /\ c <= ReadyCap
  /\ kept = Messages(m - c + 1, m) /\ Len(kept) = c /\ kept \in Seq(Seq(Byte))
  /\ Range(kept) \subseteq Range(msgs)

(* Staging keeps the newest of them. *)
LEMMA StagedFacts ==
  ASSUME CoverAssumption, SizeOK, NEW m \in Nat, m <= Len(size), NEW L \in 0 .. m,
         NEW msgs, msgs = Messages(m - L + 1, m)
  PROVE  \E c : Keeps(L, c, m, msgs, Staged(msgs))
<1>n. Len(size) \in Nat /\ ReadyCap \in Nat
  BY DEF SizeOK, CoverAssumption
<1>a. PICK a : a = m - L
  OBVIOUS
<1>0. a \in Nat /\ a <= m /\ L = m - a
  BY <1>a
<1>1. msgs \in Seq(Seq(Byte)) /\ Len(msgs) = L
  BY <1>n, <1>a, <1>0, MessagesFacts
<1>2. PICK d : d = Max({0, L - ReadyCap})
  OBVIOUS
<1>3. d = IF 0 >= L - ReadyCap THEN 0 ELSE L - ReadyCap
  BY <1>n, <1>2, MaxTwo
<1>4. d \in 0 .. L /\ L - d <= ReadyCap
  BY <1>n, <1>3
<1>5. PICK b : b = a + d
  OBVIOUS
<1>6. b \in Nat /\ a <= b /\ b <= m /\ d = b - a
  BY <1>0, <1>4, <1>5
<1>7. /\ SubSeq(Messages(a + 1, m), d + 1, m - a) = Messages(b + 1, m)
      /\ Range(Messages(a + 1, m)) = Range(Messages(a + 1, b)) \cup Range(Messages(b + 1, m))
  <2>0. m \in Nat /\ a \in Nat /\ b \in Nat /\ a <= b /\ b <= m /\ m <= Len(size)
    BY <1>0, <1>6
  <2>1. InTwo(a, b, m)
    BY <2>0, MessagesSplit
  <2>2. SubSeq(Messages(a + 1, m), b - a + 1, m - a) = Messages(b + 1, m)
    BY <2>1, Zenon DEF InTwo
  <2>3. Range(Messages(a + 1, m)) = Range(Messages(a + 1, b)) \cup Range(Messages(b + 1, m))
    BY <2>1, Zenon DEF InTwo
  <2> QED BY <1>6, <2>2, <2>3
<1>8. PICK c : c = L - d
  OBVIOUS
<1>9. c \in 0 .. L /\ c <= ReadyCap /\ b = m - c
  BY <1>n, <1>0, <1>4, <1>5, <1>8
<1>10. Staged(msgs) = SubSeq(msgs, 1 + d, Len(msgs))
  BY <1>1, <1>2 DEF Staged
<1>11. 1 + d = d + 1 /\ Len(msgs) = m - a
  BY <1>0, <1>1, <1>4
<1>12. Staged(msgs) = Messages(b + 1, m)
  BY <1>7, <1>10, <1>11, <1>a
<1>13. Messages(b + 1, m) \in Seq(Seq(Byte)) /\ Len(Messages(b + 1, m)) = m - b
  BY <1>n, <1>6, MessagesFacts
<1>14. Len(Staged(msgs)) = c
  BY <1>9, <1>12, <1>13
<1>15. Range(Staged(msgs)) \subseteq Range(msgs)
  BY <1>7, <1>12, <1>a
<1> QED BY <1>9, <1>12, <1>13, <1>14, <1>15 DEF Keeps

(* The order, of any sequence. *)
Ordered(out) ==
  /\ \A i \in 1 .. Len(out) : Identity(out[i]) \in 1 .. Len(size)
  /\ \A i, j \in 1 .. Len(out) : i < j => Identity(out[i]) < Identity(out[j])

(* Newer messages behind those handed over before are still in order.      *)
LEMMA OrderExtend ==
  ASSUME CoverAssumption, TypeOK, SizeOK, OrderOK, NEW e \in Nat, NEW j \in Nat,
         e + j <= Len(size),
         \A b \in Range(taken) \cup Range(inbox) : Identity(b) <= e,
         NEW X, X = Messages(e + 1, e + j)
  PROVE  /\ Ordered(taken \o (inbox \o X))
         /\ \A b \in Range(inbox \o X) : b \in Range(inbox) \/ Identity(b) <= e + j
<1>n. Len(size) \in Nat
  BY DEF SizeOK
<1>t. taken \in Seq(Seq(Byte)) /\ inbox \in Seq(Seq(Byte))
  BY TypeParts
<1>S. PICK S : S = Seq(Byte)
  OBVIOUS
<1>1. X \in Seq(Seq(Byte)) /\ Len(X) = j /\ \A i \in 1 .. j : X[i] = Framed(e + i)
  <2>1. e + j \in Nat /\ e <= e + j /\ (e + j) - e = j
    OBVIOUS
  <2>2. X \in Seq(Seq(Byte))
    BY <1>n, <2>1, MessagesFacts
  <2>3. Len(X) = (e + j) - e
    BY <1>n, <2>1, MessagesFacts
  <2>4. \A i \in 1 .. (e + j) - e : X[i] = Framed(e + i)
    BY <1>n, <2>1, MessagesFacts
  <2> QED BY <2>1, <2>2, <2>3, <2>4
<1>2. \A i \in 1 .. j : Identity(X[i]) = e + i
  <2>1. \A i \in 1 .. j : e + i \in 1 .. Len(size)
    BY <1>n
  <2> QED BY <1>1, <2>1, IdentityFacts
<1>s. taken \in Seq(S) /\ inbox \in Seq(S) /\ X \in Seq(S)
  BY <1>1, <1>S, <1>t
<1>3. PICK old : old = taken \o inbox
  OBVIOUS
<1>4. old \in Seq(S) /\ Range(old) = Range(taken) \cup Range(inbox)
  BY <1>3, <1>s, RangeConcat
<1>5. PICK out : out = taken \o (inbox \o X)
  OBVIOUS
<1>6. out = old \o X
  <2>1. (taken \o inbox) \o X = taken \o (inbox \o X)
    <3>1. Assoc(taken, inbox, X)
      BY <1>s, Associative
    <3> QED BY <3>1 DEF Assoc
  <2> QED BY <1>3, <1>5, <2>1
<1>L. PICK L : L = Len(old)
  OBVIOUS
<1>7. L \in Nat /\ Len(out) = L + j
  <2>1. Len(out) = Len(old) + Len(X)
    BY <1>4, <1>6, <1>s
  <2>2. Len(old) \in Nat
    BY <1>4
  <2> QED BY <1>1, <1>L, <2>1, <2>2
<1>8. \A i \in 1 .. L : out[i] = old[i]
  BY <1>4, <1>6, <1>L, <1>s
<1>9. \A i \in 1 .. j : out[L + i] = X[i]
  BY <1>1, <1>4, <1>6, <1>L, <1>s
<1>10. /\ \A i \in 1 .. L : Identity(old[i]) \in 1 .. Len(size)
       /\ \A i, k \in 1 .. L : i < k => Identity(old[i]) < Identity(old[k])
  BY <1>3, <1>L DEF OrderOK
<1>11. \A i \in 1 .. L : Identity(old[i]) <= e
  <2>1. \A i \in 1 .. L : old[i] \in Range(old)
    BY <1>4, <1>L, RangeSeq
  <2> QED BY <1>4, <2>1
<1>12. ASSUME NEW i \in 1 .. L + j
       PROVE  \/ i \in 1 .. L /\ out[i] = old[i]
              \/ \E k \in 1 .. j : i = L + k /\ out[i] = X[k]
  <2>1. CASE i \in 1 .. L
    BY <1>8, <2>1
  <2>2. CASE i \notin 1 .. L
    <3>1. i - L \in 1 .. j /\ i = L + (i - L)
      BY <1>7, <2>2
    <3>2. out[L + (i - L)] = X[i - L]
      BY <1>9, <3>1
    <3> QED BY <3>1, <3>2
  <2> QED BY <2>1, <2>2
<1>13. \A i \in 1 .. L + j : Identity(out[i]) \in 1 .. Len(size)
  <2> SUFFICES ASSUME NEW i \in 1 .. L + j PROVE Identity(out[i]) \in 1 .. Len(size)
    OBVIOUS
  <2>1. CASE i \in 1 .. L /\ out[i] = old[i]
    BY <1>10, <2>1
  <2>2. CASE \E k \in 1 .. j : i = L + k /\ out[i] = X[k]
    <3>1. PICK k \in 1 .. j : i = L + k /\ out[i] = X[k]
      BY <2>2
    <3>2. Identity(out[i]) = e + k /\ k \in 1 .. j
      BY <1>2, <3>1
    <3> QED BY <1>n, <3>2
  <2> QED BY <1>12, <2>1, <2>2
<1>14. \A i, k \in 1 .. L + j : i < k => Identity(out[i]) < Identity(out[k])
  <2> SUFFICES ASSUME NEW i \in 1 .. L + j, NEW k \in 1 .. L + j, i < k
               PROVE  Identity(out[i]) < Identity(out[k])
    OBVIOUS
  <2>1. CASE k \in 1 .. L /\ out[k] = old[k]
    <3>1. i \in 1 .. L
      BY <1>7, <2>1
    <3> QED BY <1>8, <1>10, <2>1, <3>1
  <2>2. CASE \E m \in 1 .. j : k = L + m /\ out[k] = X[m]
    <3>1. PICK m \in 1 .. j : k = L + m /\ out[k] = X[m]
      BY <2>2
    <3>2. Identity(out[k]) = e + m /\ m \in 1 .. j
      BY <1>2, <3>1
    <3>3. CASE i \in 1 .. L /\ out[i] = old[i]
      <4>1. Identity(out[i]) \in 1 .. Len(size) /\ Identity(out[i]) <= e
        BY <1>10, <1>11, <3>3
      <4> QED BY <1>n, <3>2, <4>1
    <3>4. CASE \E l \in 1 .. j : i = L + l /\ out[i] = X[l]
      <4>1. PICK l \in 1 .. j : i = L + l /\ out[i] = X[l]
        BY <3>4
      <4>2. Identity(out[i]) = e + l /\ l \in 1 .. j
        BY <1>2, <4>1
      <4>3. l < m
        BY <1>7, <3>1, <4>1
      <4> QED BY <3>2, <4>2, <4>3
    <3> QED BY <1>12, <3>3, <3>4
  <2> QED BY <1>12, <2>1, <2>2
<1>15. Ordered(out)
  BY <1>7, <1>13, <1>14 DEF Ordered
<1>16. \A b \in Range(inbox \o X) : b \in Range(inbox) \/ Identity(b) <= e + j
  <2>1. Range(inbox \o X) = Range(inbox) \cup Range(X)
    BY <1>s, RangeConcat
  <2>2. Range(X) = {X[i] : i \in 1 .. Len(X)}
    BY <1>s, RangeSeq
  <2>3. \A i \in 1 .. j : Identity(X[i]) <= e + j
    <3>1. \A i \in 1 .. j : e + i <= e + j
      OBVIOUS
    <3> QED BY <1>2, <3>1
  <2>4. \A b \in Range(X) : Identity(b) <= e + j
    BY <1>1, <2>2, <2>3
  <2> QED BY <2>1, <2>4
<1> QED BY <1>5, <1>15, <1>16

(* One more cell read: the messages up to m are put together, the c newest *)
(* of the L that wait are kept, and either the task ends or what the       *)
(* consumer has room for is handed over.                                   *)
ReadIs(n, t, m, L, c, msgs, kept, rest) ==
  /\ m \in Nat /\ n \in Nat /\ n <= m /\ m <= Len(size)
  /\ L \in 0 .. m /\ m - L = n - Len(ready)
  /\ Range(msgs) = Range(ready) \cup Range(Messages(n + 1, m))
  /\ msgs \in Seq(Seq(Byte))
  /\ Keeps(L, c, m, msgs, kept)
  /\ rest \in Seq(Byte)
  /\ rest \o (FlattenSeq(pipe') \o t) = FlattenSeq(Messages(m + 1, Len(size)))
  /\ shed' = shed \cup (Range(msgs) \ Range(kept))
  /\ \/ StopReading(kept) /\ inbox' = inbox
     \/ HandOver(kept) /\ reasm' = rest /\ UNCHANGED <<reading, stranded>>

(* Reading a cell is such a step. *)
LEMMA ReadFacts ==
  ASSUME CoverAssumption, CInv, ReadCell, NEW n, NEW t, Wire(n, t), Put(n)
  PROVE  \E m, L, c, msgs, kept, rest : ReadIs(n, t, m, L, c, msgs, kept, rest)
<1>t. TypeOK /\ SizeOK /\ Len(size) \in Nat
  BY TypeSize DEF CInv
<1>0. pipe # <<>> /\ pipe' = Tail(pipe)
  BY DEF ReadCell
<1>1. n \in Nat /\ n <= Len(size)
  BY <1>t DEF Wire
<1>cut. PICK cut : cut = Cut(reasm \o Head(pipe))
  OBVIOUS
<1>2. PICK k \in 0 .. Len(size) - n :
              /\ cut.whole = Messages(n + 1, n + k)
              /\ cut.rest \in Seq(Byte)
              /\ cut.rest \o (FlattenSeq(Tail(pipe)) \o t)
                   = FlattenSeq(Messages(n + k + 1, Len(size)))
  BY <1>0, <1>cut, ReadCut
<1>m. PICK m : m = n + k
  OBVIOUS
<1>3. m \in Nat /\ n <= m /\ m <= Len(size) /\ k = m - n
  BY <1>t, <1>1, <1>2, <1>m
<1>r. PICK r : r = Len(ready)
  OBVIOUS
<1>4. r \in Nat /\ r <= n /\ ready = Messages(n - r + 1, n)
  BY <1>t, <1>r, TypeParts DEF Put
<1>L. PICK L : L = r + (m - n)
  OBVIOUS
<1>5. L \in 0 .. m /\ m - L = n - r /\ n - r \in Nat /\ n - r <= n
  BY <1>1, <1>3, <1>4, <1>L
<1>msgs. PICK msgs : msgs = ready \o cut.whole
  OBVIOUS
<1>6. msgs = Messages(m - L + 1, m)
  <2>1. PICK a : a = n - r
    OBVIOUS
  <2>2. a \in Nat /\ a <= n /\ n <= m /\ m <= Len(size) /\ m \in Nat
    BY <1>3, <1>5, <2>1
  <2>3. Messages(a + 1, m) = Messages(a + 1, n) \o Messages(n + 1, m)
    <3>1. Joins(a, n, m)
      BY <1>t, <1>1, <2>2, MessagesConcat
    <3> QED BY <3>1 DEF Joins
  <2> QED BY <1>2, <1>4, <1>5, <1>m, <1>msgs, <2>1, <2>3
<1>7. Range(msgs) = Range(ready) \cup Range(Messages(n + 1, m)) /\ msgs \in Seq(Seq(Byte))
  <2>1. PICK S : S = Seq(Byte)
    OBVIOUS
  <2>2. ready \in Seq(S)
    BY <1>t, <2>1, TypeParts
  <2>3. Messages(n + 1, m) \in Seq(Seq(Byte))
    BY <1>t, <1>1, <1>3, MessagesFacts
  <2>4. PICK v : v = Messages(n + 1, m)
    OBVIOUS
  <2>5. v \in Seq(S) /\ msgs = ready \o v
    BY <1>2, <1>m, <1>msgs, <2>1, <2>3, <2>4
  <2>6. Range(ready \o v) = Range(ready) \cup Range(v)
    BY <2>2, <2>5, RangeConcat
  <2>7. msgs \in Seq(S)
    BY <2>2, <2>5
  <2> QED BY <2>1, <2>4, <2>5, <2>6, <2>7
<1>kept. PICK kept : kept = Staged(msgs)
  OBVIOUS
<1>8. PICK c : Keeps(L, c, m, msgs, kept)
  BY <1>t, <1>3, <1>5, <1>6, <1>kept, StagedFacts
<1>9. cut.rest \o (FlattenSeq(pipe') \o t) = FlattenSeq(Messages(m + 1, Len(size)))
  BY <1>0, <1>2, <1>m
<1>10. /\ shed' = shed \cup (Range(msgs) \ Range(kept))
       /\ \/ StopReading(kept) /\ inbox' = inbox
          \/ HandOver(kept) /\ reasm' = cut.rest /\ UNCHANGED <<reading, stranded>>
  <2>1. /\ shed' = shed \cup (Range(ready \o Cut(reasm \o Head(pipe)).whole)
                              \ Range(Staged(ready \o Cut(reasm \o Head(pipe)).whole)))
        /\ \/ StopReading(Staged(ready \o Cut(reasm \o Head(pipe)).whole)) /\ inbox' = inbox
           \/ /\ HandOver(Staged(ready \o Cut(reasm \o Head(pipe)).whole))
              /\ reasm' = Cut(reasm \o Head(pipe)).rest /\ UNCHANGED <<reading, stranded>>
    BY Zenon DEF ReadCell
  <2> QED BY <1>cut, <1>msgs, <1>kept, <2>1
<1>11. m - L = n - Len(ready)
  BY <1>5, <1>r
<1>12. ReadIs(n, t, m, L, c, msgs, kept, cut.rest)
  BY <1>1, <1>2, <1>3, <1>5, <1>7, <1>8, <1>9, <1>10, <1>11 DEF ReadIs
<1> QED BY <1>12

(* What is handed over of the c newest messages up to m: the first j of    *)
(* them.                                                                   *)
Hands(m, c, j, X) ==
  /\ j \in 0 .. c /\ X = Messages(m - c + 1, m - c + j)
  /\ inbox' = inbox \o X /\ Len(inbox') <= InCap /\ inbox' \in Seq(Seq(Byte))
  /\ Range(inbox') = Range(inbox) \cup Range(X)
  /\ ready' = Messages(m - (c - j) + 1, m) /\ Len(ready') = c - j
  /\ ready' \in Seq(Seq(Byte))
  /\ Range(Messages(m - c + 1, m)) = Range(X) \cup Range(ready')

(* Handing over takes the oldest of what was kept. *)
LEMMA HandOverFacts ==
  ASSUME CoverAssumption, TypeOK, SizeOK, NEW m \in Nat, m <= Len(size),
         NEW c \in 0 .. m, NEW kept, kept = Messages(m - c + 1, m), HandOver(kept)
  PROVE  \E j, X : Hands(m, c, j, X)
<1>n. Len(size) \in Nat /\ InCap \in Nat
  BY DEF SizeOK, CoverAssumption
<1>i. inbox \in Seq(Seq(Byte)) /\ Len(inbox) \in Nat /\ Len(inbox) <= InCap
  BY TypeParts DEF TypeOK
<1>a. PICK a : a = m - c
  OBVIOUS
<1>0. a \in Nat /\ a <= m /\ c = m - a
  BY <1>a
<1>1. Len(kept) = c
  BY <1>n, <1>a, <1>0, MessagesFacts
<1>j. PICK j : j = Min({Len(kept), InCap - Len(inbox)})
  OBVIOUS
<1>2. j = IF c <= InCap - Len(inbox) THEN c ELSE InCap - Len(inbox)
  <2>1. PICK y : y = InCap - Len(inbox)
    OBVIOUS
  <2>2. j = Min({c, y})
    BY <1>j, <1>1, <2>1
  <2>3. c \in Int /\ y \in Int
    BY <1>n, <1>i, <2>1
  <2>4. j = IF c <= y THEN c ELSE y
    BY <2>2, <2>3, MinTwo
  <2> QED BY <2>1, <2>4
<1>3. j \in 0 .. c /\ j <= InCap - Len(inbox)
  BY <1>n, <1>i, <1>2
<1>b. PICK b : b = a + j
  OBVIOUS
<1>4. b \in Nat /\ a <= b /\ b <= m /\ j = b - a
  BY <1>0, <1>3, <1>b
<1>5. InTwo(a, b, m)
  BY <1>0, <1>4, MessagesSplit
<1>6. /\ SubSeq(Messages(a + 1, m), 1, b - a) = Messages(a + 1, b)
      /\ SubSeq(Messages(a + 1, m), b - a + 1, m - a) = Messages(b + 1, m)
      /\ Range(Messages(a + 1, m)) = Range(Messages(a + 1, b)) \cup Range(Messages(b + 1, m))
  BY <1>5, Zenon DEF InTwo
<1>7. kept = Messages(a + 1, m)
  BY <1>a
<1>8. inbox' = inbox \o Messages(a + 1, b) /\ ready' = Messages(b + 1, m)
  <2>1. inbox' = inbox \o SubSeq(kept, 1, j) /\ ready' = SubSeq(kept, j + 1, Len(kept))
    BY <1>j DEF HandOver
  <2> QED BY <1>0, <1>1, <1>4, <1>6, <1>7, <2>1
<1>9. Messages(a + 1, b) \in Seq(Seq(Byte)) /\ Len(Messages(a + 1, b)) = b - a
  BY <1>n, <1>0, <1>4, MessagesFacts
<1>10. Messages(b + 1, m) \in Seq(Seq(Byte)) /\ Len(Messages(b + 1, m)) = m - b
  BY <1>n, <1>0, <1>4, MessagesFacts
<1>X. PICK X : X = Messages(a + 1, b)
  OBVIOUS
<1>11. inbox' \in Seq(Seq(Byte)) /\ Len(inbox') <= InCap
       /\ Range(inbox') = Range(inbox) \cup Range(X)
  <2>1. PICK S : S = Seq(Byte)
    OBVIOUS
  <2>2. inbox \in Seq(S) /\ X \in Seq(S) /\ inbox' = inbox \o X /\ Len(X) = j
    BY <1>i, <1>4, <1>8, <1>9, <1>X, <2>1
  <2>a. inbox \in Seq(S) /\ X \in Seq(S)
    BY <2>2
  <2>3. inbox \o X \in Seq(S)
    BY <2>a
  <2>4. Len(inbox \o X) = Len(inbox) + Len(X)
    BY <2>a
  <2>5. Range(inbox \o X) = Range(inbox) \cup Range(X)
    BY <2>2, RangeConcat
  <2>6. Len(inbox \o X) <= InCap
    BY <1>n, <1>i, <1>3, <2>2, <2>4
  <2> QED BY <2>1, <2>2, <2>3, <2>5, <2>6
<1>12. m - c + j = b /\ m - c = a /\ m - (c - j) = b /\ c - j = m - b
  BY <1>0, <1>3, <1>b
<1>13. X = Messages(m - c + 1, m - c + j)
  BY <1>X, <1>12
<1>14. ready' = Messages(m - (c - j) + 1, m) /\ Len(ready') = c - j /\ ready' \in Seq(Seq(Byte))
  BY <1>8, <1>10, <1>12
<1>15. Range(Messages(m - c + 1, m)) = Range(X) \cup Range(ready')
  BY <1>6, <1>8, <1>12, <1>X
<1>16. inbox' = inbox \o X
  BY <1>8, <1>X
<1>17. Hands(m, c, j, X)
  BY <1>3, <1>11, <1>13, <1>14, <1>15, <1>16 DEF Hands
<1> QED BY <1>17

(* What reading a cell does to the receiver, its types first.              *)
LEMMA ReadType ==
  ASSUME CoverAssumption, CInv, ReadCell,
         NEW n, NEW t, NEW m, NEW L, NEW c, NEW msgs, NEW kept, NEW rest,
         ReadIs(n, t, m, L, c, msgs, kept, rest)
  PROVE  TypeOK'
<1>t. TypeOK /\ SizeOK
  BY TypeSize DEF CInv
<1>0. /\ pipe # <<>> /\ pipe' = Tail(pipe)
      /\ UNCHANGED <<sendVars, cells, link, consumer, taken>>
  BY DEF ReadCell
<1>1. /\ m \in Nat /\ m <= Len(size) /\ L \in 0 .. m /\ Keeps(L, c, m, msgs, kept)
      /\ rest \in Seq(Byte) /\ msgs \in Seq(Seq(Byte))
      /\ shed' = shed \cup (Range(msgs) \ Range(kept))
      /\ \/ StopReading(kept) /\ inbox' = inbox
         \/ HandOver(kept) /\ reasm' = rest /\ UNCHANGED <<reading, stranded>>
  BY DEF ReadIs
<1>2. /\ c \in 0 .. L /\ c <= ReadyCap /\ kept = Messages(m - c + 1, m)
      /\ kept \in Seq(Seq(Byte)) /\ Range(kept) \subseteq Range(msgs)
  BY <1>1 DEF Keeps
<1>c. c \in 0 .. m /\ c \in Nat
  BY <1>1, <1>2
<1>p. pipe' \in Seq(Seq(Byte)) /\ Len(pipe') <= PipeCap
      /\ \A x \in Range(cells') \cup Range(pipe') : Len(x) <= CellSize
  <2>1. pipe \in Seq(Seq(Byte)) /\ Len(pipe) <= PipeCap
        /\ \A x \in Range(cells) \cup Range(pipe) : Len(x) <= CellSize
    BY <1>t DEF TypeOK
  <2>2. PICK S : S = Seq(Byte)
    OBVIOUS
  <2>3. pipe \in Seq(S)
    BY <2>1, <2>2
  <2>4. Tail(pipe) \in Seq(S) /\ Len(Tail(pipe)) = Len(pipe) - 1 /\ Len(pipe) \in Nat
        /\ Range(pipe) = {Head(pipe)} \cup Range(Tail(pipe))
    BY <1>0, <2>3, HeadTail
  <2>5. Len(Tail(pipe)) <= PipeCap
    <3>1. PipeCap \in Nat
      BY DEF CoverAssumption
    <3> QED BY <2>1, <2>4, <3>1
  <2>6. cells' = cells
    BY <1>0
  <2> QED BY <1>0, <2>1, <2>2, <2>4, <2>5, <2>6
<1>s. Range(msgs) \subseteq Seq(Byte) /\ Range(kept) \subseteq Seq(Byte)
  <2>1. PICK S : S = Seq(Byte)
    OBVIOUS
  <2>2. msgs \in Seq(S)
    BY <1>1, <2>1
  <2>3. Range(msgs) \subseteq S
    BY <2>2, RangeSeq
  <2> QED BY <1>2, <2>1, <2>3
<1>3. shed' \subseteq Seq(Byte)
  BY <1>1, <1>s, <1>t DEF TypeOK
<1>4. /\ reading' \in {"running", "ended"} /\ reasm' \in Seq(Byte)
      /\ ready' \in Seq(Seq(Byte)) /\ Len(ready') <= ReadyCap
      /\ inbox' \in Seq(Seq(Byte)) /\ Len(inbox') <= InCap
      /\ stranded' \subseteq Seq(Byte)
  <2>0. ReadyCap \in Nat /\ InCap \in Nat
    BY DEF CoverAssumption
  <2>1. CASE StopReading(kept) /\ inbox' = inbox
    <3>1. /\ reading' = "ended" /\ reasm' = <<>> /\ ready' = <<>>
          /\ stranded' = stranded \cup Range(kept)
      BY <2>1 DEF StopReading
    <3>2. stranded' \subseteq Seq(Byte)
      BY <1>s, <1>t, <3>1 DEF TypeOK
    <3>3. ready' \in Seq(Seq(Byte)) /\ Len(ready') = 0 /\ reasm' \in Seq(Byte)
      BY <3>1
    <3>4. Len(ready') <= ReadyCap
      BY <2>0, <3>3
    <3>5. inbox' \in Seq(Seq(Byte)) /\ Len(inbox') <= InCap
      BY <1>t, <2>1 DEF TypeOK
    <3> QED BY <3>1, <3>2, <3>3, <3>4, <3>5
  <2>2. CASE HandOver(kept) /\ reasm' = rest /\ UNCHANGED <<reading, stranded>>
    <3>1. PICK j, X : Hands(m, c, j, X)
      BY <1>1, <1>2, <1>c, <1>t, <2>2, HandOverFacts
    <3>2. /\ j \in 0 .. c /\ inbox' \in Seq(Seq(Byte)) /\ Len(inbox') <= InCap
          /\ Len(ready') = c - j /\ ready' \in Seq(Seq(Byte))
      BY <3>1 DEF Hands
    <3>3. Len(ready') <= ReadyCap
      BY <1>2, <1>c, <2>0, <3>2
    <3>4. reading' \in {"running", "ended"} /\ stranded' \subseteq Seq(Byte)
      BY <1>t, <2>2 DEF TypeOK
    <3> QED BY <1>1, <2>2, <3>2, <3>3, <3>4
  <2> QED BY <1>1, <2>1, <2>2
<1>5. UNCHANGED <<size, outbound, queue, pacing, pending, cells, link, consumer, taken>>
  BY <1>0 DEF sendVars
<1>6. shed' \cup stranded' \subseteq Seq(Byte)
  BY <1>3, <1>4
<1> QED BY <1>p, <1>t, <1>4, <1>5, <1>6 DEF TypeOK

(* What was handed over before is in order, and so is what is handed over  *)
(* now behind it.                                                          *)
LEMMA ReadOrder ==
  ASSUME CoverAssumption, CInv, ReadCell,
         NEW n, NEW t, NEW m, NEW L, NEW c, NEW msgs, NEW kept, NEW rest,
         ReadIs(n, t, m, L, c, msgs, kept, rest), Put(n)
  PROVE  OrderOK'
<1>t. TypeOK /\ SizeOK /\ OrderOK /\ Len(size) \in Nat
  BY TypeSize DEF CInv
<1>0. UNCHANGED <<sendVars, taken>>
  BY DEF ReadCell
<1>1. /\ m \in Nat /\ m <= Len(size) /\ L \in 0 .. m /\ Keeps(L, c, m, msgs, kept)
      /\ m - L = n - Len(ready)
      /\ \/ StopReading(kept) /\ inbox' = inbox
         \/ HandOver(kept) /\ reasm' = rest /\ UNCHANGED <<reading, stranded>>
  BY DEF ReadIs
<1>2. c \in 0 .. L /\ kept = Messages(m - c + 1, m)
  BY <1>1 DEF Keeps
<1>c. c \in 0 .. m /\ c \in Nat
  BY <1>1, <1>2
<1>3. size' = size /\ taken' = taken /\ \A b : Identity(b)' = Identity(b)
  <2>1. size' = size /\ taken' = taken
    BY <1>0 DEF sendVars
  <2> QED BY <2>1, SizeSame
<1>4. CASE StopReading(kept) /\ inbox' = inbox
  BY <1>3, <1>4, <1>t DEF OrderOK
<1>5. CASE HandOver(kept)
  <2>1. PICK j, X : Hands(m, c, j, X)
    BY <1>1, <1>2, <1>c, <1>t, <1>5, HandOverFacts
  <2>2. j \in 0 .. c /\ X = Messages(m - c + 1, m - c + j) /\ inbox' = inbox \o X
    BY <2>1 DEF Hands
  <2>e. PICK e : e = m - c
    OBVIOUS
  <2>3. e \in Nat /\ j \in Nat /\ e + j <= Len(size) /\ m - L <= e
    BY <1>1, <1>2, <1>c, <1>t, <2>2, <2>e
  <2>4. \A b \in Range(taken) \cup Range(inbox) : Identity(b) <= e
    <3>1. \A b \in Range(taken) \cup Range(inbox) : Identity(b) <= m - L
      BY <1>1 DEF Put
    <3>2. \A b \in Range(taken) \cup Range(inbox) : Identity(b) \in 1 .. Len(size)
      BY <1>t, GivenIdentity
    <3>3. m - L \in Int
      BY <1>1
    <3> QED BY <1>t, <2>3, <3>1, <3>2, <3>3
  <2>5. X = Messages(e + 1, e + j)
    BY <2>2, <2>e
  <2>6. Ordered(taken \o (inbox \o X))
    BY <1>t, <2>3, <2>4, <2>5, OrderExtend
  <2>7. Ordered(taken' \o inbox')
    BY <1>3, <2>2, <2>6
  <2>8. PICK out : out = taken' \o inbox'
    OBVIOUS
  <2>9. /\ \A i \in 1 .. Len(out) : Identity(out[i]) \in 1 .. Len(size)
        /\ \A i, k \in 1 .. Len(out) : i < k => Identity(out[i]) < Identity(out[k])
    BY <2>7, <2>8 DEF Ordered
  <2>10. /\ \A i \in 1 .. Len(out) : Identity(out[i])' \in 1 .. Len(size')
         /\ \A i, k \in 1 .. Len(out) : i < k => Identity(out[i])' < Identity(out[k])'
    BY <1>3, <2>9
  <2> QED BY <2>8, <2>10 DEF OrderOK
<1> QED BY <1>1, <1>4, <1>5

(* When the task goes on, the messages up to m are where they should be and *)
(* the bytes after them still on their way.                                *)
LEMMA ReadStream ==
  ASSUME CoverAssumption, CInv, ReadCell,
         NEW n, NEW t, NEW m, NEW L, NEW c, NEW msgs, NEW kept, NEW rest,
         ReadIs(n, t, m, L, c, msgs, kept, rest), Wire(n, t), Put(n),
         HandOver(kept), reasm' = rest
  PROVE  Wire(m, t)' /\ Put(m)'
<1>t. TypeOK /\ SizeOK /\ Len(size) \in Nat
  BY TypeSize DEF CInv
<1>0. UNCHANGED <<size, outbound, queue, pacing, pending, cells, link, consumer, taken>>
  BY DEF ReadCell, sendVars
<1>1. /\ m \in Nat /\ n \in Nat /\ n <= m /\ m <= Len(size)
      /\ L \in 0 .. m /\ Keeps(L, c, m, msgs, kept)
      /\ m - L = n - Len(ready) /\ rest \in Seq(Byte)
      /\ Range(msgs) = Range(ready) \cup Range(Messages(n + 1, m))
      /\ rest \o (FlattenSeq(pipe') \o t) = FlattenSeq(Messages(m + 1, Len(size)))
      /\ shed' = shed \cup (Range(msgs) \ Range(kept))
  BY DEF ReadIs
<1>2. c \in 0 .. L /\ kept = Messages(m - c + 1, m) /\ Range(kept) \subseteq Range(msgs)
  BY <1>1 DEF Keeps
<1>c. c \in 0 .. m /\ c \in Nat
  BY <1>1, <1>2
<1>3. /\ \A a, b : Messages(a, b)' = Messages(a, b)
      /\ \A b : Identity(b)' = Identity(b)
      /\ \A k : Stream(k)' = Stream(k)
  BY <1>0, SizeSame, StreamSame
<1>4. Wire(m, t)'
  <2>1. Messages(m + 1, Len(size))' = Messages(m + 1, Len(size))
    BY <1>0 DEF Messages, Framed
  <2>2. Stream(Len(queue))' = Stream(Len(queue))
    BY <1>0 DEF Stream, Framed
  <2>3. m \in 0 .. Len(size')
    BY <1>0, <1>1, <1>t
  <2>4. t \in Seq(Byte) /\ (link = "up" => t = FlattenSeq(cells) \o Stream(Len(queue)))
    BY DEF Wire
  <2>5. reasm' \o (FlattenSeq(pipe') \o t) = FlattenSeq(Messages(m + 1, Len(size)))'
    BY <1>1, <2>1
  <2>6. link' = "up" => t = FlattenSeq(cells') \o Stream(Len(queue))'
    BY <1>0, <2>2, <2>4
  <2> QED BY <2>3, <2>4, <2>5, <2>6 DEF Wire
<1>5. PICK j, X : Hands(m, c, j, X)
  BY <1>1, <1>2, <1>c, <1>t, HandOverFacts
<1>6. /\ j \in 0 .. c /\ X = Messages(m - c + 1, m - c + j)
      /\ inbox' = inbox \o X
      /\ Range(inbox') = Range(inbox) \cup Range(X)
      /\ ready' = Messages(m - (c - j) + 1, m) /\ Len(ready') = c - j
      /\ Range(Messages(m - c + 1, m)) = Range(X) \cup Range(ready')
  BY <1>5 DEF Hands
<1>7. Len(ready') <= m
  <2>1. j \in 0 .. c /\ Len(ready') = c - j
    BY <1>6
  <2>2. m \in Nat
    BY <1>1
  <2> QED BY <1>c, <2>1, <2>2
<1>9. ready' = Messages(m - Len(ready') + 1, m)
  BY <1>6
<1>10. (ready = Messages(m - Len(ready) + 1, m))'
  BY <1>0, <1>9 DEF Messages, Framed
<1>11. ASSUME consumer = "open" PROVE Past' = Range(Messages(1, m))
  <2>1. Past = Range(Messages(1, n))
    BY <1>11 DEF Put
  <2>2. InTwo(0, n, m)
    <3>1. 0 \in Nat /\ n \in Nat /\ m \in Nat /\ 0 <= n /\ n <= m /\ m <= Len(size)
      BY <1>1
    <3> QED BY <1>t, <3>1, MessagesSplit
  <2>3. Range(Messages(0 + 1, m)) = Range(Messages(0 + 1, n)) \cup Range(Messages(n + 1, m))
    BY <2>2, Zenon DEF InTwo
  <2>4. Past' = Range(taken) \cup Range(inbox') \cup Range(ready') \cup shed'
    BY <1>0 DEF Past, Range
  <2>5. Range(kept) = Range(X) \cup Range(ready')
    BY <1>2, <1>6
  <2>6. Past' = Range(taken) \cup Range(inbox) \cup shed \cup Range(msgs)
    BY <1>1, <1>2, <1>6, <2>4, <2>5
  <2>7. Past' = Past \cup Range(Messages(n + 1, m))
    BY <1>1, <2>6 DEF Past
  <2> QED BY <2>1, <2>3, <2>7
<1>12. consumer' = "open" => Past' = Range(Messages(1, m))'
  <2>1. Range(Messages(1, m))' = Range(Messages(1, m))
    BY <1>0 DEF Messages, Framed, Range
  <2> QED BY <1>0, <1>11, <2>1
<1>13. \A b \in Range(taken') \cup Range(inbox') : Identity(b) <= m - Len(ready')
  <2>e. PICK e : e = m - c
    OBVIOUS
  <2>1. e \in Nat /\ j \in Nat /\ e + j <= Len(size) /\ m - L <= e /\ m - Len(ready') = e + j
    <3>1. j \in 0 .. c /\ Len(ready') = c - j
      BY <1>6
    <3>2. m \in Nat /\ m <= Len(size) /\ L \in 0 .. m
      BY <1>1
    <3>3. c \in 0 .. L
      BY <1>2
    <3>4. j \in Nat /\ e \in Nat /\ m - L <= e /\ e + j <= m
      BY <1>c, <2>e, <3>1, <3>2, <3>3
    <3>5. m - Len(ready') = e + j
      BY <1>c, <2>e, <3>1, <3>2
    <3> QED BY <1>t, <3>2, <3>4, <3>5
  <2>2. \A b \in Range(taken) \cup Range(inbox) : Identity(b) <= e
    <3>1. \A b \in Range(taken) \cup Range(inbox) : Identity(b) <= m - L
      BY <1>1 DEF Put
    <3>2. \A b \in Range(taken) \cup Range(inbox) : Identity(b) \in 1 .. Len(size)
      BY <1>t, GivenIdentity DEF CInv
    <3>3. m - L \in Int
      BY <1>1
    <3> QED BY <1>t, <2>1, <3>1, <3>2, <3>3
  <2>3. X = Messages(e + 1, e + j)
    BY <1>6, <2>e
  <2>4. \A b \in Range(inbox \o X) : b \in Range(inbox) \/ Identity(b) <= e + j
    BY <1>t, <2>1, <2>2, <2>3, OrderExtend DEF CInv
  <2>5. \A b \in Range(taken) \cup Range(inbox) : Identity(b) <= e + j
    <3>1. \A b \in Range(taken) \cup Range(inbox) : Identity(b) \in 1 .. Len(size)
      BY <1>t, GivenIdentity DEF CInv
    <3> QED BY <1>t, <2>1, <2>2, <3>1
  <2>6. taken' = taken
    BY <1>0
  <2> QED BY <1>6, <2>1, <2>4, <2>5, <2>6
<1>14. \A b \in Range(taken)' \cup Range(inbox)' : Identity(b)' <= m - Len(ready')
  BY <1>3, <1>13 DEF Range
<1>15. Put(m)'
  BY <1>7, <1>10, <1>12, <1>14 DEF Put
<1> QED BY <1>4, <1>15

(* Reading a cell keeps the invariant.                                     *)
LEMMA ReadCellStep ==
  ASSUME CoverAssumption, CInv, ReadCell
  PROVE  CInv'
<1>1. QueueOK' /\ PaceOK'
  BY ReceiverFrame DEF ReadCell
<1>2. reading = "running"
  BY DEF ReadCell
<1>3. PICK n, t : Wire(n, t) /\ Put(n)
  BY <1>2 DEF CInv, StreamOK
<1>4. PICK m, L, c, msgs, kept, rest : ReadIs(n, t, m, L, c, msgs, kept, rest)
  BY <1>3, ReadFacts
<1>5. TypeOK'
  BY <1>4, ReadType
<1>6. OrderOK'
  BY <1>3, <1>4, ReadOrder
<1>7. StreamOK'
  <2>1. CASE StopReading(kept)
    BY <2>1 DEF StopReading, StreamOK
  <2>2. CASE HandOver(kept) /\ reasm' = rest
    <3>1. Wire(m, t)' /\ Put(m)'
      BY <1>3, <1>4, <2>2, ReadStream
    <3> QED BY <3>1 DEF StreamOK
  <2>3. StopReading(kept) \/ (HandOver(kept) /\ reasm' = rest)
    BY <1>4 DEF ReadIs
  <2> QED BY <2>1, <2>2, <2>3
<1> QED BY <1>1, <1>5, <1>6, <1>7 DEF CInv

(* Every step keeps the invariant.                                         *)
LEMMA CoverStep ==
  ASSUME CoverAssumption, CInv, [Next]_vars
  PROVE  CInv'
<1>1. CASE \E len \in 0 .. MaxLen : TrySend(len)
  BY <1>1, TrySendStep
<1>2. CASE DropOutbound
  BY <1>2, DropOutboundStep
<1>3. CASE Tick
  BY <1>3, TickStep
<1>4. CASE WriteCell
  BY <1>4, WriteCellStep
<1>5. CASE Shutdown
  BY <1>5, ShutdownStep
<1>6. CASE Break
  BY <1>6, BreakStep
<1>7. CASE ReadCell
  BY <1>7, ReadCellStep
<1>8. CASE EndOfStream
  BY <1>8, EndOfStreamStep
<1>9. CASE Take
  BY <1>9, TakeStep
<1>10. CASE DropInbound
  BY <1>10, DropInboundStep
<1>11. CASE UNCHANGED vars
  BY <1>11, StutterStep
<1> QED BY <1>1, <1>2, <1>3, <1>4, <1>5, <1>6, <1>7, <1>8, <1>9, <1>10, <1>11 DEF Next

(* The inductive invariant of the channel holds in every state of every    *)
(* run, for every cell size, capacity and length of messages.              *)
THEOREM CoverInvariant == Spec => []CInv
<1>1. Init => CInv
  BY CoverAssumption, InitInv
<1>2. CInv /\ [Next]_vars => CInv'
  BY CoverAssumption, CoverStep
<1> QED BY <1>1, <1>2, PTL DEF Spec

(* Every queue between an application and its peer stays within its        *)
(* capacity, whatever the consumer, the link and the clock do.             *)
THEOREM CoverTypes == Spec => []TypeOK
<1>1. CInv => TypeOK
  BY DEF CInv
<1> QED BY <1>1, CoverInvariant, PTL

(* The bytes on their way are the messages not yet put together, and those *)
(* put together are where StreamIsWhole says.                              *)
LEMMA WholeFacts ==
  ASSUME CoverAssumption, CInv
  PROVE  StreamIsWhole
<1> SUFFICES ASSUME link = "up", reading = "running", consumer = "open"
             PROVE  \E n \in 0 .. Len(size) :
                      /\ Past = Range(Messages(1, n))
                      /\ ready = Messages(n + 1 - Len(ready), n)
                      /\ OnTheWay = FlattenSeq(Messages(n + 1, Len(size)))
  BY DEF StreamIsWhole
<1>t. TypeOK /\ SizeOK /\ QueueOK /\ Len(size) \in Nat /\ Len(queue) \in Nat
  BY TypeSize DEF CInv
<1>1. PICK n, t : Wire(n, t) /\ Put(n)
  BY DEF CInv, StreamOK
<1>2. n \in 0 .. Len(size) /\ t = FlattenSeq(cells) \o Stream(Len(queue))
      /\ reasm \o (FlattenSeq(pipe) \o t) = FlattenSeq(Messages(n + 1, Len(size)))
  BY <1>1 DEF Wire
<1>3. Past = Range(Messages(1, n)) /\ ready = Messages(n - Len(ready) + 1, n)
  BY <1>1 DEF Put
<1>4. n - Len(ready) + 1 = n + 1 - Len(ready)
  <2>1. Len(ready) \in Nat /\ n \in Nat
    BY <1>2, <1>t, TypeParts
  <2> QED BY <2>1
<1>5. OnTheWay = reasm \o (FlattenSeq(pipe) \o t)
  <2>1. PICK p, c, s : p = FlattenSeq(pipe) /\ c = FlattenSeq(cells) /\ s = Stream(Len(queue))
    OBVIOUS
  <2>2. reasm \in Seq(Byte) /\ p \in Seq(Byte) /\ c \in Seq(Byte)
    BY <1>t, <2>1, TypeParts
  <2>3. s \in Seq(Byte)
    <3>1. Len(queue) \in 0 .. Len(queue)
      BY <1>t
    <3>2. \A q : q = Len(size) - Len(queue) => Stream(Len(queue)) \in Seq(Byte)
      BY <1>t, <3>1, StreamFacts
    <3> QED BY <2>1, <3>2
  <2>4. OnTheWay = ((reasm \o p) \o c) \o s
    BY <2>1 DEF OnTheWay
  <2>5. reasm \o p \in Seq(Byte) /\ c \o s \in Seq(Byte)
    BY <2>2, <2>3
  <2>6. PICK x, y : x = reasm \o p /\ y = c \o s
    OBVIOUS
  <2>7. x \in Seq(Byte) /\ y \in Seq(Byte)
    BY <2>5, <2>6
  <2>8. (x \o c) \o s = x \o (c \o s)
    <3>1. Assoc(x, c, s)
      BY <2>2, <2>3, <2>7, Associative
    <3> QED BY <3>1 DEF Assoc
  <2>9. (reasm \o p) \o y = reasm \o (p \o y)
    <3>1. Assoc(reasm, p, y)
      BY <2>2, <2>7, Associative
    <3> QED BY <3>1 DEF Assoc
  <2> QED BY <1>2, <2>1, <2>4, <2>6, <2>8, <2>9
<1> QED BY <1>2, <1>3, <1>4, <1>5

(* While the link is up and read, no byte of an accepted message is lost,  *)
(* moved or doubled: "dropping a DATA cell would desync the length-prefixed *)
(* stream", and no path through the queues does.                           *)
THEOREM CoverStreamIsWhole == Spec => []StreamIsWhole
<1>1. CInv => StreamIsWhole
  BY CoverAssumption, WholeFacts
<1> QED BY <1>1, CoverInvariant, PTL

(* What was delivered, by number.                                          *)
Delivered == [i \in DOMAIN taken |-> Identity(taken[i])]

(* It is a sequence of numbers of accepted messages.                       *)
LEMMA DeliveredFacts ==
  ASSUME TypeOK, OrderOK
  PROVE  /\ DOMAIN taken = 1 .. Len(taken) /\ Len(taken) \in Nat
         /\ Delivered \in Seq(1 .. Len(size)) /\ Len(Delivered) = Len(taken)
         /\ \A i \in 1 .. Len(taken) : Delivered[i] = Identity(taken[i])
<1>1. PICK S : S = Seq(Byte)
  OBVIOUS
<1>2. taken \in Seq(S)
  BY <1>1, TypeParts
<1>3. DOMAIN taken = 1 .. Len(taken) /\ Len(taken) \in Nat
  BY <1>2
<1>4. \A i \in 1 .. Len(taken) : taken[i] \in Range(taken)
  BY <1>2, RangeSeq
<1>5. \A i \in 1 .. Len(taken) : Identity(taken[i]) \in 1 .. Len(size)
  BY <1>4, GivenIdentity
<1>6. PICK T : T = 1 .. Len(size)
  OBVIOUS
<1>7. Delivered \in [1 .. Len(taken) -> T]
  BY <1>3, <1>5, <1>6 DEF Delivered
<1>8. Delivered \in Seq(T) /\ Len(Delivered) = Len(taken)
  BY <1>3, <1>7, AsSeq
<1>9. \A i \in 1 .. Len(taken) : Delivered[i] = Identity(taken[i])
  BY <1>3 DEF Delivered
<1> QED BY <1>3, <1>6, <1>8, <1>9

(* At the start nothing is accepted and nothing delivered.                 *)
LEMMA FifoInit ==
  ASSUME Init
  PROVE  Abstract!Init
<1>1. Len(size) = 0 /\ taken = <<>>
  BY DEF Init
<1>2. DOMAIN taken = {}
  BY <1>1
<1>3. [i \in DOMAIN taken |-> Identity(taken[i])] = <<>>
  BY <1>2
<1> QED BY <1>1, <1>3 DEF Abstract!Init

(* A step that accepts and delivers nothing is none of the fifo's.         *)
LEMMA FifoStutter ==
  ASSUME UNCHANGED <<size, taken>>
  PROVE  UNCHANGED Abstract!fifoVars
<1>1. \A b : Identity(b)' = Identity(b)
  BY SizeSame
<1>2. [i \in DOMAIN taken |-> Identity(taken[i])]' = [i \in DOMAIN taken |-> Identity(taken[i])]
  BY <1>1
<1>3. Len(size)' = Len(size)
  OBVIOUS
<1> QED BY <1>2, <1>3 DEF Abstract!fifoVars

(* An accepted message is one more; those delivered keep their numbers.    *)
LEMMA FifoAccept ==
  ASSUME CoverAssumption, CInv, NEW len \in 0 .. MaxLen, TrySend(len)
  PROVE  Abstract!Accept
<1>t. TypeOK /\ OrderOK
  BY DEF CInv
<1>n. PICK N : N = Len(size)
  OBVIOUS
<1>l. PICK L : L = Len(queue)
  OBVIOUS
<1>1. OneMore(N, len)
  BY <1>n, <1>l, TrySendFacts
<1>2. taken' = taken
  BY DEF TrySend, recvVars
<1>3. Len(size') = N + 1
  BY <1>1, OneMoreSize
<1>4. \A i \in DOMAIN taken : Identity(taken[i]) \in 1 .. N
  <2>1. PICK S : S = Seq(Byte)
    OBVIOUS
  <2>2. taken \in Seq(S)
    BY <1>t, <2>1, TypeParts
  <2>3. \A i \in DOMAIN taken : taken[i] \in Range(taken)
    BY DEF Range
  <2> QED BY <1>n, <1>t, <2>3, GivenIdentity
<1>5. \A i \in DOMAIN taken : Identity(taken[i])' = Identity(taken[i])
  BY <1>1, <1>2, <1>4, OneMoreIdentity
<1>6. [i \in DOMAIN taken |-> Identity(taken[i])]' = [i \in DOMAIN taken |-> Identity(taken[i])]
  BY <1>2, <1>5
<1> QED BY <1>3, <1>6, <1>n DEF Abstract!Accept

(* What is taken is newer than whatever was taken before.                  *)
LEMMA FifoDeliver ==
  ASSUME CoverAssumption, CInv, Take
  PROVE  \E i \in 1 .. Len(size) : Abstract!Deliver(i)
<1>t. TypeOK /\ OrderOK /\ SizeOK /\ Len(size) \in Nat
  BY TypeSize DEF CInv
<1>0. inbox # <<>> /\ taken' = Append(taken, Head(inbox)) /\ size' = size
  BY DEF Take, sendVars
<1>S. PICK S : S = Seq(Byte)
  OBVIOUS
<1>1. taken \in Seq(S) /\ inbox \in Seq(S)
  BY <1>t, <1>S, TypeParts
<1>h. PICK h : h = Head(inbox)
  OBVIOUS
<1>2. h \in S /\ h \in Range(inbox) /\ Len(inbox) \in Nat \ {0} /\ inbox[1] = h
  <2>1. Head(inbox) \in S /\ Len(inbox) \in Nat \ {0} /\ Range(inbox) = {Head(inbox)} \cup Range(Tail(inbox))
    BY <1>0, <1>1, HeadTail
  <2>2. Head(inbox) = inbox[1]
    BY <1>0, <1>1
  <2> QED BY <1>h, <2>1, <2>2
<1>i. PICK i : i = Identity(h)
  OBVIOUS
<1>3. i \in 1 .. Len(size)
  BY <1>2, <1>i, <1>t, GivenIdentity
<1>K. PICK K : K = Len(taken)
  OBVIOUS
<1>4. /\ DOMAIN taken = 1 .. K /\ K \in Nat
      /\ Delivered \in Seq(1 .. Len(size)) /\ Len(Delivered) = K
      /\ \A k \in 1 .. K : Delivered[k] = Identity(taken[k])
  BY <1>K, <1>t, DeliveredFacts
<1>5. ASSUME K # 0 PROVE Delivered[K] < i
  <2>1. PICK o : o = taken \o inbox
    OBVIOUS
  <2>2. \A k, l \in 1 .. Len(o) : k < l => Identity(o[k]) < Identity(o[l])
    BY <1>t, <2>1 DEF OrderOK
  <2>3. Len(o) = Len(taken) + Len(inbox)
    BY <1>1, <2>1
  <2>4. \A k \in 1 .. Len(taken) : o[k] = taken[k]
    BY <1>1, <2>1
  <2>5. \A k \in 1 .. Len(inbox) : o[Len(taken) + k] = inbox[k]
    BY <1>1, <2>1
  <2>6. K \in 1 .. K /\ K \in 1 .. Len(o) /\ K + 1 \in 1 .. Len(o) /\ K < K + 1
    BY <1>2, <1>4, <1>5, <1>K, <2>3
  <2>7. o[K] = taken[K]
    BY <1>K, <2>4, <2>6
  <2>8. o[K + 1] = h
    <3>1. 1 \in 1 .. Len(inbox)
      BY <1>2
    <3> QED BY <1>2, <1>K, <2>5, <3>1
  <2>9. Identity(taken[K]) < Identity(h)
    BY <2>2, <2>6, <2>7, <2>8
  <2> QED BY <1>4, <1>i, <2>6, <2>9
<1>6. Abstract!Front < i /\ Abstract!Front \in Int
  <2>1. Abstract!Front = IF Delivered = <<>> THEN 0 ELSE Delivered[Len(Delivered)]
    BY DEF Abstract!Front, Delivered
  <2>2. CASE K = 0
    <3>1. Delivered = <<>>
      BY <1>4, <2>2
    <3> QED BY <1>3, <1>t, <2>1, <3>1
  <2>3. CASE K # 0
    <3>1. Delivered # <<>> /\ K \in 1 .. K
      BY <1>4, <2>3
    <3>2. Abstract!Front = Delivered[K]
      BY <1>4, <2>1, <3>1
    <3>3. Delivered[K] \in 1 .. Len(size)
      BY <1>4, <3>1
    <3> QED BY <1>5, <1>t, <2>3, <3>2, <3>3
  <2> QED BY <2>2, <2>3
<1>7. i \in Abstract!Front + 1 .. Len(size)
  BY <1>3, <1>6, <1>t
<1>8. Delivered' = Append(Delivered, i)
  <2>0. PICK tk : tk = Append(taken, h)
    OBVIOUS
  <2>1. taken' = tk
    BY <1>0, <1>h, <2>0
  <2>2. DOMAIN tk = 1 .. K + 1 /\ tk[K + 1] = h /\ \A k \in 1 .. K : tk[k] = taken[k]
    BY <1>1, <1>2, <1>K, <2>0
  <2>3. \A b : Identity(b)' = Identity(b)
    BY <1>0, SizeSame
  <2>4. Delivered' = [k \in DOMAIN tk |-> Identity(tk[k])]
    <3>1. Delivered' = [k \in DOMAIN taken' |-> Identity(taken[k])']
      BY DEF Delivered
    <3>2. [k \in DOMAIN taken' |-> Identity(taken[k])'] = [k \in DOMAIN tk |-> Identity(tk[k])]
      BY <2>1, <2>3
    <3> QED BY <3>1, <3>2
  <2>5. PICK d, e : d = Delivered /\ e = [k \in DOMAIN tk |-> Identity(tk[k])]
    OBVIOUS
  <2>6. /\ DOMAIN e = 1 .. K + 1 /\ e[K + 1] = i
        /\ \A k \in 1 .. K : e[k] = d[k]
    <3>1. K + 1 \in 1 .. K + 1 /\ \A k \in 1 .. K : k \in 1 .. K + 1
      BY <1>4
    <3>2. DOMAIN e = 1 .. K + 1 /\ \A k \in 1 .. K + 1 : e[k] = Identity(tk[k])
      BY <2>2, <2>5
    <3> QED BY <1>4, <1>i, <2>2, <2>5, <3>1, <3>2
  <2>7. \A k \in 1 .. K + 1 : k \in 1 .. K \/ k = K + 1
    BY <1>4
  <2>8. Append(d, i) = [k \in 1 .. K + 1 |-> IF k = K + 1 THEN i ELSE d[k]]
    <3>1. d \in Seq(1 .. Len(size)) /\ Len(d) = K
      BY <1>4, <2>5
    <3>2. DOMAIN Append(d, i) = 1 .. K + 1 /\ Append(d, i)[K + 1] = i
          /\ \A k \in 1 .. K : Append(d, i)[k] = d[k]
      BY <1>3, <1>4, <3>1
    <3>3. Append(d, i) = [k \in DOMAIN Append(d, i) |-> Append(d, i)[k]]
      <4>1. PICK T : T = 1 .. Len(size)
        OBVIOUS
      <4>2. PICK z : z = Append(d, i)
        OBVIOUS
      <4>3. d \in Seq(T) /\ i \in T
        BY <1>3, <3>1, <4>1
      <4>4. z \in Seq(T)
        BY <4>2, <4>3
      <4>5. z = [k \in DOMAIN z |-> z[k]]
        BY <4>4
      <4> QED BY <4>2, <4>5
    <3> QED BY <2>7, <3>2, <3>3
  <2>9. e = [k \in 1 .. K + 1 |-> IF k = K + 1 THEN i ELSE d[k]]
    <3>1. e = [k \in DOMAIN e |-> e[k]]
      BY <2>5
    <3>2. \A k \in 1 .. K + 1 : e[k] = IF k = K + 1 THEN i ELSE d[k]
      BY <2>6, <2>7
    <3> QED BY <2>6, <3>1, <3>2
  <2> QED BY <2>4, <2>5, <2>8, <2>9
<1>9. Abstract!Deliver(i)
  <2>1. Delivered' = [k \in DOMAIN taken |-> Identity(taken[k])]'
    BY DEF Delivered
  <2>2. [k \in DOMAIN taken |-> Identity(taken[k])]' = Append([k \in DOMAIN taken |-> Identity(taken[k])], i)
    BY <1>8, <2>1 DEF Delivered
  <2>3. Len(size)' = Len(size)
    BY <1>0
  <2> QED BY <1>7, <2>2, <2>3 DEF Abstract!Deliver
<1> QED BY <1>3, <1>9

(* Every other step leaves what is accepted and delivered alone.           *)
LEMMA FifoStep ==
  ASSUME CoverAssumption, CInv, [Next]_vars
  PROVE  [Abstract!Next]_(Abstract!fifoVars)
<1>1. ASSUME NEW len \in 0 .. MaxLen, TrySend(len)
      PROVE  Abstract!Next
  BY <1>1, FifoAccept DEF Abstract!Next
<1>2. CASE Take
  BY <1>2, FifoDeliver DEF Abstract!Next
<1>3. ASSUME \/ DropOutbound \/ Tick \/ WriteCell \/ Shutdown \/ Break
             \/ ReadCell \/ EndOfStream \/ DropInbound \/ UNCHANGED vars
      PROVE  UNCHANGED Abstract!fifoVars
  <2>1. UNCHANGED <<size, taken>>
    BY <1>3 DEF DropOutbound, Tick, WriteCell, Shutdown, Break, ReadCell, EndOfStream,
                DropInbound, vars, sendVars, recvVars
  <2> QED BY <2>1, FifoStutter
<1> QED BY <1>1, <1>2, <1>3 DEF Next

(* cover.rs: "Reassembly is byte-for-byte exact and order-preserving."     *)
(* Whatever the lengths, the capacities and the interleaving of the tasks, *)
(* what the consumer is given is whole accepted messages, in order, none   *)
(* twice.                                                                  *)
THEOREM CoverImplementsLossyFifo == Spec => ImplementsLossyFifo
<1>1. Init => Abstract!Init
  BY FifoInit
<1>2. CInv /\ [Next]_vars => [Abstract!Next]_(Abstract!fifoVars)
  BY CoverAssumption, FifoStep
<1> QED BY <1>1, <1>2, CoverInvariant, PTL DEF Spec, ImplementsLossyFifo, Abstract!Spec
============================================================================
