---- MODULE MCMailerPage ----
EXTENDS MailerPage, TLC

CONSTANTS k1, a, r1, r2, r3, PageRequests, PageIds

\* A template an administrator had made under a key that is now seeded.
MCOlder == {[id |-> 1, key |-> k1, text |-> a, base |-> FALSE]}

\* No rows; too many; a row without a valid address, alone or among others; and
\* an address on two rows, of one batch and of two.
MCLists ==
    {[rows |-> 0, to |-> <<>>], [rows |-> 1, to |-> <<>>],
     [rows |-> MaxRows + 1, to |-> <<r1>>],
     [rows |-> MaxRows, to |-> <<r1, r1>>],
     [rows |-> MaxRows, to |-> <<r1, r2, r1>>]}

\* Bound: the page is opened on a database whose index is repaired, and with an
\* open page at most PageRequests requests are received, PageIds documents created,
\* and bulk mails go to one list or to the members in one order; without one,
\* MaxRequests requests and any addresses.
PageClosed == ui.mode = "view" /\ ui.selected = 0 /\ ui.latest = 0 /\ waiting = {}

PageBound ==
    \/ PageClosed
    \/ /\ index = "sparse" /\ ~missed
       /\ received <= PageRequests /\ created <= PageIds
       /\ \A j \in Jobs : job[j].to \in {<<>>, <<r1, r2, r1>>, <<r1, r2, r3>>}

MCSpec == Init /\ [][Next /\ PageBound']_vars

Symmetry == Permutations(Jobs)
====
