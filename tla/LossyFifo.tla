----------------------------- MODULE LossyFifo -----------------------------
(***************************************************************************)
(* What a one-way channel promises its two ends, without cells, queues or  *)
(* a transport: items are accepted in an order, and handed out in that     *)
(* order, each at most once; some may never be handed out.                 *)
(***************************************************************************)
EXTENDS Naturals, Sequences

VARIABLES
  accepted,  \* how many items were accepted
  delivered  \* which of them were handed out, by their place, in order

fifoVars == <<accepted, delivered>>

Front == IF delivered = <<>> THEN 0 ELSE delivered[Len(delivered)]

Init == accepted = 0 /\ delivered = <<>>

Accept == accepted' = accepted + 1 /\ UNCHANGED delivered

(* Whatever lies between the front and i is lost for good. *)
Deliver(i) ==
  /\ i \in Front + 1 .. accepted
  /\ delivered' = Append(delivered, i)
  /\ UNCHANGED accepted

Next == Accept \/ \E i \in 1 .. accepted : Deliver(i)

Spec == Init /\ [][Next]_fifoVars
============================================================================
