---------------------------- MODULE RatchetPair ----------------------------
(***************************************************************************)
(* Two Double Ratchet sessions of one handshake, and between them a link   *)
(* that loses, reorders and repeats messages: what was sent stays          *)
(* available for ever, and either end may open any of it at any time, any  *)
(* number of times, or never.  A message that does not open changes        *)
(* nothing, so trying one that fails is a step that stutters.              *)
(***************************************************************************)
EXTENDS DoubleRatchet, FiniteSets

CONSTANTS
  Alice,     \* the initiator: inits from Bob's ratchet key, may send first
  Bob,       \* the responder: has no sending chain until he has opened a message
  MaxSent    \* bound: messages each end sends

Party == {Alice, Bob}
Peer(p) == IF p = Alice THEN Bob ELSE Alice

KeyPair == Party \X Nat
ChainKey == [root : Seq(SUBSET KeyPair), step : Nat]
Skipped == [dh : KeyPair, n : 0 .. ChainEnd, key : ChainKey]
Message == [dh : KeyPair, pn : 0 .. ChainEnd, n : 0 .. ChainEnd, key : ChainKey]
Ratchet ==
  [dhs : KeyPair, dhr : KeyPair \cup {NoKey}, rk : Seq(SUBSET KeyPair),
   cks : ChainKey \cup {NoKey}, ckr : ChainKey \cup {NoKey},
   ns : 0 .. ChainEnd, nr : 0 .. ChainEnd, pn : 0 .. ChainEnd, skipped : Seq(Skipped)]

ASSUME PairAssumption ==
  /\ Alice # Bob /\ MaxSent \in Nat
  /\ NoKey \notin KeyPair /\ NoKey \notin ChainKey

VARIABLES
  end,    \* each party's ratchet
  sent,   \* what each party sent, in the order it was encrypted
  opened  \* how often each party opened each message of its peer

vars == <<end, sent, opened>>

Init ==
  /\ end = [p \in Party |-> IF p = Alice THEN InitAlice(<<Alice, 0>>, <<Bob, 0>>)
                                         ELSE InitBob(<<Bob, 0>>)]
  /\ sent = [p \in Party |-> <<>>]
  /\ opened = [p \in Party |-> [i \in 1 .. MaxSent |-> 0]]

Encrypt(p) ==
  /\ Len(sent[p]) < MaxSent
  /\ CanEncrypt(end[p])
  /\ sent' = [sent EXCEPT ![p] = Append(@, Sealed(end[p]))]
  /\ end' = [end EXCEPT ![p] = Encrypted(@)]
  /\ UNCHANGED opened

Decrypt(p) ==
  \E i \in DOMAIN sent[Peer(p)] :
    LET m == sent[Peer(p)][i]
    IN /\ end' = [end EXCEPT ![p] = Decrypted(@, m)]
       /\ opened' = IF Opens(end[p], m) THEN [opened EXCEPT ![p][i] = @ + 1] ELSE opened
       /\ UNCHANGED sent

Next == \E p \in Party : Encrypt(p) \/ Decrypt(p)

Spec == Init /\ [][Next]_vars

----------------------------------------------------------------------------
Arrived(p) == {i \in 1 .. MaxSent : opened[p][i] > 0}
Waiting(p) == DOMAIN sent[Peer(p)] \ Arrived(p)

\* How far p has come: everything its peer sent up to here was opened or passed.
Reached(p) == IF Arrived(p) = {} THEN 0 ELSE CHOOSE i \in Arrived(p) : \A j \in Arrived(p) : j <= i

\* The fields of DoubleRatchet: no counter leaves its 32 bits, no store holds
\* more than MAX_SKIP_STORE keys.
TypeOK ==
  /\ end \in [Party -> Ratchet]
  /\ \A p \in Party : Len(end[p].skipped) <= MaxSkipStore
  /\ sent \in [Party -> Seq(Message)]
  /\ opened \in [Party -> [1 .. MaxSent -> Nat]]

\* No two retained keys are for the same place on the same chain, whichever
\* packets banked them: SkippedKeys::insert never replaces a key.
NoAddressTwice ==
  \A p \in Party : \A i, j \in DOMAIN end[p].skipped :
    end[p].skipped[i].dh = end[p].skipped[j].dh /\ end[p].skipped[i].n = end[p].skipped[j].n
      => i = j

\* No message is ever opened twice, however often it is delivered and whatever
\* was opened in between (decrypt's replay handling: a consumed position is
\* left behind by the chain or removed from the store).
OpenedAtMostOnce == \A p \in Party : \A i \in 1 .. MaxSent : opened[p][i] <= 1

\* No two messages of a session, of either party, share a key, and none share
\* an address: encrypt stops at the end of a chain rather than wrap its counter.
NoReuse ==
  \A p, q \in Party : \A i \in DOMAIN sent[p], j \in DOMAIN sent[q] :
    LET m == sent[p][i]  l == sent[q][j]
    IN m.key = l.key \/ (m.dh = l.dh /\ m.n = l.n) => p = q /\ i = j

\* The tolerance the module's documentation promises, in terms of the messages
\* alone and not of chains: a message beyond the front opens exactly when at
\* most MAX_SKIP others were passed over to reach it, turns of the DH ratchet in
\* between or not; one behind the front opens unless MAX_SKIP_STORE later ones
\* were passed too.
GapsAreBridged ==
  \A p \in Party : \A i \in Waiting(p) :
    LET m == sent[Peer(p)][i]
    IN IF i > Reached(p) THEN Opens(end[p], m) <=> i - Reached(p) - 1 <= MaxSkip
       ELSE Opens(end[p], m) \/ Reached(p) - i > MaxSkipStore

\* Forward secrecy: neither end retains the key of a message that has been
\* opened, or a chain key it could be derived from; nor does the sender of one
\* that has only been sent.
Derivable(ck, key) == ck # NoKey /\ ck.root = key.root /\ ck.step <= key.step
SpentKeysAreGone ==
  \A p \in Party :
    /\ \A i \in DOMAIN sent[p] : ~Derivable(end[p].cks, sent[p][i].key)
    /\ \A i \in Arrived(p) :
         LET key == sent[Peer(p)][i].key
         IN /\ ~Derivable(end[p].ckr, key)
            /\ \A k \in DOMAIN end[p].skipped : end[p].skipped[k].key # key
============================================================================
