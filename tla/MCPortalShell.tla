---- MODULE MCPortalShell ----
EXTENDS PortalShell, TLC

Has(admin, perms, clubs, leads) == [admin |-> admin, perms |-> perms, clubs |-> clubs, leads |-> leads]

\* An administrator, a lead, and members of a club: without permissions, with one
\* for a page of each kind, with two whose order matters, and for the makerspace.
MCAccounts ==
    {Has(TRUE, {}, {}, {}), Has(FALSE, {}, Clubs, Clubs), Has(FALSE, {}, {}, {})}
    \cup {Has(FALSE, {}, {c}, {}) : c \in Clubs}
    \cup {Has(FALSE, ps, Clubs, {}) :
             ps \in {{"settings"}, {"makerspace"}, {"registrations", "events"}}}

Symmetry == Permutations(Users) \cup Permutations(Clubs)
====
