---- MODULE MCMembership ----
EXTENDS Membership, TLC

CONSTANTS e1, c1

\* One lateral student from before the counters.
MCLegacy == {[email |-> e1, series |-> c1, lane |-> "lateral", num |-> 1, adm |-> None]}

Symmetry == Permutations(Jobs)
====
