---------------------------- MODULE MCHubSystem ----------------------------
EXTENDS HubSystem, TLC

Symmetry == Permutations(Person) \cup Permutations(Conn) \cup Permutations(Text)
====
