---- MODULE MCExecomRoster ----
EXTENDS RosterDialog, TLC

Symmetry == Permutations(Jobs)
====
