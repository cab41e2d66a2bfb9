----------------------------- MODULE SenderKey -----------------------------
(***************************************************************************)
(* The sender keys of a group (group.rs of famchat-core) as values: the    *)
(* sending state of a member, what it distributes, and the receiving state *)
(* others build from that.  GroupRelay runs them.                          *)
(*                                                                         *)
(* Cryptography is symbolic.  A chain key is the number of times the       *)
(* sender's chain was ratcheted, and so is the message key drawn from it.  *)
(* The signature binds a text to the chain of its author: a text is only   *)
(* ever tried on the chain of the member it says it is from.               *)
(***************************************************************************)
EXTENDS Naturals, FiniteSets

CONSTANTS
  MaxSkip,          \* MAX_SKIP, chain steps one text may ask for
  MaxSkippedStore,  \* MAX_SKIPPED_STORE, skipped keys kept per sender
  LastIteration     \* u32::MAX, where the iteration stays

ASSUME SenderKeyAssumption ==
  /\ MaxSkip \in Nat /\ MaxSkippedStore \in Nat /\ LastIteration \in Nat

Next1(i) == IF i = LastIteration THEN i ELSE i + 1   \* saturating_add

NewSender == [chain |-> 0, iteration |-> 0]

(* Mutant of Distribution: the chain is handed out from its start.         *)
DistributionOfAll(s) == NewSender

Distribution(s) == [chain |-> s.chain, iteration |-> s.iteration]

Ciphertext(s) == [iteration |-> s.iteration, key |-> s.chain]
Ratcheted(s) == [chain |-> s.chain + 1, iteration |-> Next1(s.iteration)]

FromDistribution(d) == [chain |-> d.chain, iteration |-> d.iteration, skipped |-> {}]

----------------------------------------------------------------------------
(* ReceiverState::decrypt *)

Cached(r, ct) == {s \in r.skipped : s.iteration = ct.iteration}
Gap(r, ct) == ct.iteration - r.iteration

Opens(r, ct) ==
  IF Cached(r, ct) # {}
  THEN \E s \in Cached(r, ct) : s.key = ct.key
  ELSE /\ ct.iteration >= r.iteration
       /\ Gap(r, ct) <= MaxSkip
       /\ r.chain + Gap(r, ct) = ct.key

Pending(r, ct) ==
  {[iteration |-> r.iteration + k, key |-> r.chain + k] : k \in 0 .. Gap(r, ct) - 1}

\* At capacity the lowest iteration goes first.
Stored(store, keys) ==
  LET all == {s \in store : \A k \in keys : k.iteration # s.iteration} \cup keys
  IN {s \in all : Cardinality({t \in all : t.iteration > s.iteration}) < MaxSkippedStore}

\* What the receiver is after a text that opens.
Opened(r, ct) ==
  IF Cached(r, ct) # {}
  THEN [r EXCEPT !.skipped = @ \ Cached(r, ct)]
  ELSE [chain |-> ct.key + 1, iteration |-> Next1(ct.iteration),
        skipped |-> Stored(r.skipped, Pending(r, ct))]
============================================================================
