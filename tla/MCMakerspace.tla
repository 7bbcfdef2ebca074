---- MODULE MCMakerspace ----
EXTENDS Makerspace, TLC

Symmetry == Permutations(Handlers) \cup Permutations(Ids)
====
