--------------------------- MODULE Conversations ---------------------------
(***************************************************************************)
(* What the hub promises the people who use it, without connections,       *)
(* cursors, queues or failures: every conversation is one log that only    *)
(* grows, in an order that is the same for everybody; the people in it see *)
(* other people's messages from that log, each at most once and never      *)
(* backwards, until they close the program; nobody else sees anything.     *)
(*                                                                         *)
(* It does not say that every message is seen: see HubSystem.              *)
(***************************************************************************)
EXTENDS Naturals, Sequences

CONSTANTS Person, ConvId, Family, Text

VARIABLES
  audience,  \* who is in each conversation; nobody before it is opened
  log,       \* what was said in it
  seen       \* seen[q][c]: the positions of log[c] that q was shown

absVars == <<audience, log, seen>>

(* The family room may already have people in it. *)
Init ==
  /\ \E S \in SUBSET Person :
       audience = [c \in ConvId |-> IF c = Family THEN S ELSE {}]
  /\ log = [c \in ConvId |-> <<>>]
  /\ seen = [q \in Person |-> [c \in ConvId |-> <<>>]]

(* Only the family room takes in people later on. *)
Join(q) ==
  /\ audience' = [audience EXCEPT ![Family] = @ \cup {q}]
  /\ UNCHANGED <<log, seen>>

Open(q, c, S) ==
  /\ audience[c] = {} /\ c # Family /\ q \in S
  /\ audience' = [audience EXCEPT ![c] = S]
  /\ UNCHANGED <<log, seen>>

Say(q, c, x) ==
  /\ q \in audience[c]
  /\ log' = [log EXCEPT ![c] = Append(@, [from |-> q, text |-> x])]
  /\ UNCHANGED <<audience, seen>>

See(q, c, i) ==
  /\ q \in audience[c] /\ i \in DOMAIN log[c] /\ log[c][i].from # q
  /\ \A j \in DOMAIN seen[q][c] : seen[q][c][j] < i
  /\ seen' = [seen EXCEPT ![q][c] = Append(@, i)]
  /\ UNCHANGED <<audience, log>>

Close(q) ==
  /\ seen' = [seen EXCEPT ![q] = [c \in ConvId |-> <<>>]]
  /\ UNCHANGED <<audience, log>>

Next ==
  \E q \in Person :
    \/ Join(q) \/ Close(q)
    \/ \E c \in ConvId : \/ \E S \in SUBSET Person : Open(q, c, S)
                         \/ \E x \in Text : Say(q, c, x)
                         \/ \E i \in DOMAIN log[c] : See(q, c, i)

Spec == Init /\ [][Next]_absVars
====
