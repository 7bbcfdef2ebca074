---- MODULE MCEventsPage ----
EXTENDS EventsPage, FiniteSets, TLC

CONSTANT PageRequests

\* Bound: while the page is in use PageRequests requests are received, one deletion
\* at a time waits for its confirmation, with no dialog open, and a new event has
\* coordinators only if it is the first.  With the page closed there are MaxRequests.
PageClosed == clubs = {} /\ \A t \in Tasks : call[t] = NoCall

PageBound ==
    \/ PageClosed
    \/ /\ received <= PageRequests
       /\ Cardinality(toasts) <= 1
       /\ toasts # {} => ui.dialog = "closed" /\ draft = {}
       /\ draft # {} => received = 0

MCSpec == PageInit /\ [][PageNext /\ PageBound']_pageAndServerVars

Symmetry == Permutations(People) \cup Permutations(Clubs) \cup Permutations(Tasks)
====
