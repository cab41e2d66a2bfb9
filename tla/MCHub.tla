------------------------------- MODULE MCHub -------------------------------
(* The hub with completely open clients, small enough for TLC.             *)
EXTENDS Hub, TLC

Symmetry == Permutations(Person) \cup Permutations(Conn)
====
