---- MODULE MCUsersPage ----
EXTENDS UsersPage, TLC

CONSTANTS PageRequests, PageAccounts

Wants(role, perms, access) == [role |-> role, perms |-> perms, access |-> access]

\* An administrator by role, one by permission, two accounts without a say, and
\* the ways to switch an account on or off or to leave its access alone.
MCAsks == {Wants("admin", {}, "on"), Wants("other", {"users"}, "keep"),
           Wants("other", {"events"}, "off"), Wants("other", {}, "on")}

\* Bound: while the page is open its administrator stays logged in and is the only
\* one; PageRequests requests are received and PageAccounts accounts created, links
\* are delivered, kept and not used, others ask for one thing, a form has one change,
\* of the role or of "users" only before the last request; with the last request received
\* no list is under way to an open dialog Edit.
\* Members are added with the first request and no fetch under way, the list fails to load before it, and a
\* deletion waits for its confirmation after it and with no dialog open.  With
\* the page closed there are MaxRequests requests, the last of them not before promotions
\* and deletions are answered, and MaxAccounts accounts, and the rest of this does not hold.
PageClosed ==
    /\ rows = Empty /\ fetching = "no" /\ ui = Closed /\ draft = NewDraft
    /\ ~failed /\ \A j \in Jobs : call[j] = NoCall

PageBound ==
    \/ /\ PageClosed
       /\ \A j \in Jobs : job[j].kind \in {"promote", "delete"} => received < MaxRequests
    \/ /\ received <= PageRequests /\ created <= PageAccounts
       /\ sessions = {Root} /\ used = {} /\ unsent = {}
       /\ \A a \in Accounts : Exists(a) => users[a].live = (users[a].link # 0)
       /\ \A j \in Jobs :
             /\ job[j].kind # "password"
             /\ call[j] = NoCall =>
                   /\ job[j].ask \in {NoAsk, Wants("other", {"events"}, "off")}
                   /\ job[j].kind = "promote" => received <= 1
       /\ Cardinality(ui.touched) <= 1
       /\ ui.touched \cap {"role", "users"} # {} => received < PageRequests
       /\ draft.ask \in {NewForm, Wants("admin", {}, "on"), Wants("other", {"events"}, "off")}
       /\ draft # NewDraft => received <= 1 /\ fetching = "no"
       /\ failed => received = 0
       /\ toasts # {} => received = 1 /\ ui.dialog = "closed"
       /\ fetching # "no" /\ ui.dialog = "edit" => received < PageRequests

MCSpec == PageInit /\ [][PageNext /\ PageBound']_pageAndServerVars

Symmetry == Permutations(Jobs)
====
