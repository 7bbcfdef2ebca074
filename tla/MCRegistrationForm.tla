---- MODULE MCRegistrationForm ----
EXTENDS RegistrationForm, TLC

NoLegacy == {}

Symmetry == Permutations(Emails) \cup Permutations(Calls) \cup Permutations(Jobs)

\* What the properties and the guards of this run tell apart: neither the
\* histories of other runs nor the membership numbers, which never make two
\* records clash (NumbersUnique).
Seen ==
    <<{<<d.email, d.adm>> : d \in registrations}, staffGuests,
      [j \in Jobs |-> [job[j] EXCEPT !.num = 0, !.lane = "plain"]], received,
      otps, sends, call, tokens, formVars>>
====
