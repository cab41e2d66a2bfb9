--------------------------- MODULE DoubleRatchet ---------------------------
(***************************************************************************)
(* One end of a Double Ratchet session (ratchet.rs of famchat-core) as a   *)
(* value, with the operations on it as operators: init_alice, init_bob,    *)
(* encrypt and decrypt.  RatchetPair runs two ends against each other.     *)
(*                                                                         *)
(* Cryptography is symbolic.  A Diffie-Hellman result is the pair of the   *)
(* two keys it mixes, in either order; the root key is the sequence of the *)
(* results mixed into it; a chain key is a position on the chain of a root *)
(* key; the message key drawn at a position is named by that position.  So *)
(* both ends hold the same key exactly when they mixed the same secrets,   *)
(* and a ciphertext opens under the key it was made with and no other.     *)
(* The handshake hash both ends start from is the empty sequence.          *)
(***************************************************************************)
EXTENDS Naturals, Sequences, SequencesExt

CONSTANTS
  MaxSkip,       \* MAX_SKIP, keys one packet may make an end derive
  MaxSkipStore,  \* MAX_SKIP_STORE, skipped keys an end retains
  ChainEnd,      \* u32::MAX, the largest value of the header's counters
  NoKey          \* the None of dhr, cks and ckr

ASSUME RatchetAssumption ==
  /\ MaxSkip \in Nat /\ MaxSkipStore \in Nat \ {0} /\ ChainEnd \in Nat \ {0}

Succ(n) == IF n = ChainEnd THEN 0 ELSE n + 1   \* of a u32

KdfRk(rk, ours, theirs) == Append(rk, {ours, theirs})
Chain(rk) == [root |-> rk, step |-> 0]
Ahead(ck, k) == [ck EXCEPT !.step = @ + k]   \* k applications of kdf_ck

(***************************************************************************)
(* A key pair is named by its owner and how many the owner drew before it. *)
(***************************************************************************)
Fresh(r) == <<r.dhs[1], r.dhs[2] + 1>>

InitAlice(own, bobs) ==
  LET rk == KdfRk(<<>>, own, bobs)
  IN [dhs |-> own, dhr |-> bobs, rk |-> rk, cks |-> Chain(rk), ckr |-> NoKey,
      ns |-> 0, nr |-> 0, pn |-> 0, skipped |-> <<>>]

InitBob(own) ==
  [dhs |-> own, dhr |-> NoKey, rk |-> <<>>, cks |-> NoKey, ckr |-> NoKey,
   ns |-> 0, nr |-> 0, pn |-> 0, skipped |-> <<>>]

----------------------------------------------------------------------------
(* encrypt *)

(* Mutant of CanEncrypt: no end of the chain.                              *)
EndlessChain(r) == r.cks # NoKey

CanEncrypt(r) == r.ns # ChainEnd /\ r.cks # NoKey

Sealed(r) == [dh |-> r.dhs, pn |-> r.pn, n |-> r.ns, key |-> r.cks]

Encrypted(r) == [r EXCEPT !.cks = Ahead(@, 1), !.ns = Succ(@)]

----------------------------------------------------------------------------
(* decrypt *)

Gap(nr, until) == IF until <= nr THEN 0 ELSE until - nr

\* The keys from position nr of a chain up to, not including, until.
SkipForward(dh, ck, nr, until) ==
  [i \in 1 .. Gap(nr, until) |-> [dh |-> dh, n |-> nr + i - 1, key |-> Ahead(ck, i - 1)]]

(* Mutant of Bank: nothing is ever evicted.                                *)
BankAll(store, keys) == store \o keys

\* SkippedKeys: ordered by insertion, the oldest evicted for a new one.  An
\* address is never inserted twice (NoAddressTwice of RatchetPair).
Bank(store, keys) ==
  LET all == store \o keys
  IN SubSeq(all, 1 + Gap(MaxSkipStore, Len(all)), Len(all))

Slots(r, m) == {i \in DOMAIN r.skipped : r.skipped[i].dh = m.dh /\ r.skipped[i].n = m.n}
IsCached(r, m) == Slots(r, m) # {}
Slot(r, m) == CHOOSE i \in Slots(r, m) : TRUE   \* there is no other

Turns(r, m) == r.dhr # m.dh   \* is_new_ratchet

(* Mutant of Flushed: the old chain is taken from its start.               *)
FlushedAnew(r, m) ==
  IF Turns(r, m) /\ r.ckr # NoKey THEN SkipForward(r.dhr, r.ckr, 0, m.pn) ELSE <<>>

\* What is left of the current receiving chain when the peer rolled to a new one.
Flushed(r, m) ==
  IF Turns(r, m) /\ r.ckr # NoKey THEN SkipForward(r.dhr, r.ckr, r.nr, m.pn) ELSE <<>>

\* The chain the message is on, and how far this end has come along it.
Working(r, m) ==
  IF Turns(r, m) THEN [ck |-> Chain(KdfRk(r.rk, r.dhs, m.dh)), nr |-> 0]
                 ELSE [ck |-> r.ckr, nr |-> r.nr]

(* Mutant of CaughtUp: the key the message is opened with is stored too.   *)
CaughtUpInclusive(r, m) == SkipForward(m.dh, Working(r, m).ck, Working(r, m).nr, m.n + 1)

CaughtUp(r, m) == SkipForward(m.dh, Working(r, m).ck, Working(r, m).nr, m.n)

Target(r, m) == Ahead(Working(r, m).ck, Gap(Working(r, m).nr, m.n))

(* Mutant of WithinBudget: each of the two derivations has its own.        *)
BudgetEach(r, m) ==
  Len(Flushed(r, m)) <= MaxSkip /\ Gap(Working(r, m).nr, m.n) <= MaxSkip

\* One budget for both derivations; without a chain to flush the count is
\* checked all the same.
WithinBudget(r, m) ==
  /\ Len(Flushed(r, m)) + Gap(Working(r, m).nr, m.n) <= MaxSkip
  /\ Turns(r, m) /\ r.ckr = NoKey => Gap(r.nr, m.pn) <= MaxSkip

Opens(r, m) ==
  IF IsCached(r, m)
  THEN r.skipped[Slot(r, m)].key = m.key
  ELSE /\ Turns(r, m) \/ r.ckr # NoKey
       /\ WithinBudget(r, m)
       /\ Target(r, m) = m.key

\* The new receiving chain, and a sending chain from a key pair drawn now.
Turned(r, m) ==
  LET rk == KdfRk(KdfRk(r.rk, r.dhs, m.dh), Fresh(r), m.dh)
  IN [r EXCEPT !.dhs = Fresh(r), !.dhr = m.dh, !.rk = rk, !.cks = Chain(rk),
               !.pn = r.ns, !.ns = 0]

(* Mutant of Decrypted: a skipped key stays in the store once it is used.  *)
DecryptedAgain(r, m) ==
  IF ~Opens(r, m) \/ IsCached(r, m) THEN r
  ELSE [(IF Turns(r, m) THEN Turned(r, m) ELSE r) EXCEPT
          !.ckr = Ahead(Target(r, m), 1), !.nr = Succ(m.n),
          !.skipped = Bank(@, Flushed(r, m) \o CaughtUp(r, m))]

\* Nothing changes unless the message opens.
Decrypted(r, m) ==
  IF ~Opens(r, m) THEN r
  ELSE IF IsCached(r, m)
  THEN [r EXCEPT !.skipped = RemoveAt(@, Slot(r, m))]
  ELSE [(IF Turns(r, m) THEN Turned(r, m) ELSE r) EXCEPT
          !.ckr = Ahead(Target(r, m), 1), !.nr = Succ(m.n),
          !.skipped = Bank(@, Flushed(r, m) \o CaughtUp(r, m))]
============================================================================
