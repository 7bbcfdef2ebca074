---- MODULE MCOtpVerification ----
EXTENDS OtpVerification, TLC

Symmetry == Permutations(Calls)
====
