---- MODULE MCClubs ----
EXTENDS Clubs, TLC

Symmetry == Permutations(People) \cup Permutations(Jobs)
====
