---- MODULE MCRegistrationService ----
EXTENDS RegistrationService, TLC

NoLegacy == {}

Symmetry == Permutations(Emails) \cup Permutations(Calls)
====
