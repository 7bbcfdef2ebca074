---- MODULE UsersPage ----
(***************************************************************************)
(* The page Users of one administrator, over the accounts of PortalUsers:  *)
(* its list, which is as old as the last fetch, the dialogs that start     *)
(* from a row of it, and the mutations that send a whole form back         *)
(* (Users.jsx).  Others change the same accounts meanwhile.                *)
(***************************************************************************)
EXTENDS PortalUsers

VARIABLES
    rows,      \* the accounts as listed: the query "users"
    failed,    \* its last fetch failed: the table is not shown
    fetching,  \* "no", "asked" of the server or "read" there and on its way
    arriving,  \* what was read
    ui,        \* the dialog that is open and the form Edit
    draft,     \* the form Add, which outlives its dialog
    toasts,    \* accounts whose deletion is to be confirmed
    call,      \* the page's mutation a request belongs to, and its answer
    behind,    \* history: accounts changed since the list shown was read
    since      \* history: accounts changed since the list arriving was read

pageVars == <<rows, failed, fetching, arriving, ui, draft, toasts, call, behind, since>>
pageAndServerVars == <<vars, pageVars>>

\* What /users tells of an account and the page works with.
RowOf(u) == [role |-> u.role, perms |-> u.perms, access |-> u.access]

Listing == [a \in Accounts |-> IF Exists(a) THEN RowOf(users[a]) ELSE None]
Empty == [a \in Accounts |-> None]

Touchable == {"role", "access"} \cup Permissions

\* An account without access and without permissions, of role Execom.
NewForm == [role |-> "other", perms |-> {}, access |-> "off"]

Closed == [dialog |-> "closed", account |-> Root, form |-> NewForm,
           touched |-> {}, outdated |-> FALSE]

NewDraft == [member |-> None, ask |-> NewForm]

NoCall == [of |-> "none", answer |-> "waiting", touched |-> {}, outdated |-> FALSE]

PageTypeOK ==
    /\ rows \in [Accounts -> Ask \cup {None}] /\ arriving \in [Accounts -> Ask \cup {None}]
    /\ failed \in BOOLEAN
    /\ fetching \in {"no", "asked", "read"}
    /\ ui \in [dialog : {"closed", "edit", "add"}, account : Accounts, form : Ask,
               touched : SUBSET Touchable, outdated : BOOLEAN]
    /\ draft \in [member : Members \cup {None}, ask : Ask]
    /\ toasts \subseteq Accounts
    /\ call \in [Jobs -> [of : {"none", "edit", "add", "delete"},
                          answer : {"waiting", "done", "failed"},
                          touched : SUBSET Touchable, outdated : BOOLEAN]]
    /\ behind \subseteq Accounts /\ since \subseteq Accounts

PageInit ==
    /\ Init
    /\ rows = Empty /\ arriving = Empty
    /\ failed = FALSE
    /\ fetching = "no"
    /\ ui = Closed
    /\ draft = NewDraft
    /\ toasts = {}
    /\ call = [j \in Jobs |-> NoCall]
    /\ behind = {}
    /\ since = {}

\* useMutation: isPending, until the answer was heard.
Pending(of) == \E j \in Jobs : call[j].of = of

-----------------------------------------------------------------------------
(* The list.                                                               *)

\* The page is opened or comes into view again.
Refresh ==
    /\ fetching = "no" /\ Root \in sessions
    /\ fetching' = "asked"
    /\ UNCHANGED <<vars, rows, failed, arriving, ui, draft, toasts, call, behind, since>>

ListUsers ==
    /\ fetching = "asked"
    /\ fetching' = "read"
    /\ arriving' = Listing
    /\ since' = {}
    /\ UNCHANGED <<vars, rows, failed, ui, draft, toasts, call, behind>>

\* What was read is shown or given up.
Forget == arriving' = Empty /\ since' = {}

ShowList ==
    /\ fetching = "read"
    /\ fetching' = "no"
    /\ rows' = arriving
    /\ failed' = FALSE
    /\ behind' = since
    /\ Forget
    /\ UNCHANGED <<vars, ui, draft, toasts, call>>

\* Not tried again: the old list is kept but no table is shown.
ListFails ==
    /\ fetching # "no"
    /\ fetching' = "no"
    /\ failed' = TRUE
    /\ Forget
    /\ UNCHANGED <<vars, rows, ui, draft, toasts, call, behind>>

\* The role "other" stands for those of the tables; an account whose role is one of
\* its own is in none of them.
InTable(a) == rows[a] # None /\ ~failed

\* The buttons of a row, except that of the reserved account, behind no dialog.
RowButtons(a) == InTable(a) /\ a # Root /\ ui.dialog = "closed"

-----------------------------------------------------------------------------
(* The dialog Edit.                                                        *)

\* Variant: the access is taken for given.
FormOfPermissions(row) == [row EXCEPT !.access = "on"]

FormOf(row) == row

OpenEdit(a) ==
    /\ RowButtons(a)
    /\ ui' = [dialog |-> "edit", account |-> a, form |-> FormOf(rows[a]),
              touched |-> {}, outdated |-> a \in behind]
    /\ UNCHANGED <<vars, rows, failed, fetching, arriving, draft, toasts, call, behind, since>>

Flip(access) == IF access = "on" THEN "off" ELSE "on"
FlipIn(set, x) == IF x \in set THEN set \ {x} ELSE set \cup {x}

Fill(form, what) ==
    /\ ui.dialog = "edit"
    /\ ui' = [ui EXCEPT !.form = form, !.touched = @ \cup {what}]
    /\ UNCHANGED <<vars, rows, failed, fetching, arriving, draft, toasts, call, behind, since>>

ChooseRole(role) == role # ui.form.role /\ Fill([ui.form EXCEPT !.role = role], "role")
ToggleAccess == Fill([ui.form EXCEPT !.access = Flip(@)], "access")
ToggleEditPermission(p) == Fill([ui.form EXCEPT !.perms = FlipIn(@, p)], p)

\* Not while the answer to Save or Promote is awaited.
CloseDialog ==
    /\ ui.dialog # "closed"
    /\ ~Pending(ui.dialog)
    /\ ui' = Closed
    /\ UNCHANGED <<vars, rows, failed, fetching, arriving, draft, toasts, call, behind, since>>

\* One mutation of a kind at a time; without a cookie nothing is asked.
Call(j, of, request) ==
    /\ call[j] = NoCall
    /\ Root \in sessions
    /\ request
    /\ call' = [call EXCEPT ![j] = [of |-> of, answer |-> "waiting",
                                    touched |-> ui.touched, outdated |-> ui.outdated]]
    /\ UNCHANGED <<rows, failed, fetching, arriving, ui, draft, behind, since>>

MaySave == ui.dialog = "edit" /\ ~Pending("edit")

\* All of the form is sent, touched or not.
SubmitEdit(j) ==
    /\ MaySave
    /\ Call(j, "edit", Update(j, Root, ui.account, ui.form))
    /\ UNCHANGED toasts

-----------------------------------------------------------------------------
(* The dialog Add and the deletion.                                        *)

OpenAdd ==
    /\ ui.dialog = "closed"
    /\ ui' = [ui EXCEPT !.dialog = "add"]
    /\ UNCHANGED <<vars, rows, failed, fetching, arriving, draft, toasts, call, behind, since>>

FillDraft(new) ==
    /\ ui.dialog = "add"
    /\ draft' = new
    /\ UNCHANGED <<vars, rows, failed, fetching, arriving, ui, toasts, call, behind, since>>

\* One of those found; a change of the search text or of the type takes it back.
SelectMember(m) == m # draft.member /\ FillDraft([draft EXCEPT !.member = m])

\* The role decides on the access, which can be changed afterwards.
DraftRole(role) ==
    /\ role = "other" \/ draft.ask.role # role
    /\ \E access \in IF role = "admin" THEN {"on"} ELSE {"on", "off"} :
          FillDraft([draft EXCEPT !.ask.role = role, !.ask.access = access])

DraftAccess == FillDraft([draft EXCEPT !.ask.access = Flip(@)])
TogglePermission(p) == FillDraft([draft EXCEPT !.ask.perms = FlipIn(@, p)])

CanSubmit == ui.dialog = "add" /\ draft.member # None /\ ~Pending("add")

SubmitAdd(j) ==
    /\ CanSubmit
    /\ Call(j, "add", Promote(j, Root, draft.member, draft.ask))
    /\ UNCHANGED toasts

\* A message with two buttons, for eight seconds; it stays whatever else happens.
AskDelete(a) ==
    /\ RowButtons(a)
    /\ ~Pending("delete")
    /\ toasts' = toasts \cup {a}
    /\ UNCHANGED <<vars, rows, failed, fetching, arriving, ui, draft, call, behind, since>>

ToastGone(a) ==
    /\ a \in toasts
    /\ toasts' = toasts \ {a}
    /\ UNCHANGED <<vars, rows, failed, fetching, arriving, ui, draft, call, behind, since>>

ConfirmDelete(j, a) ==
    /\ a \in toasts
    /\ Call(j, "delete", Delete(j, Root, a))
    /\ toasts' = toasts \ {a}

-----------------------------------------------------------------------------
(* The server's steps, and their answers.                                  *)

Altered == {a \in Accounts : users'[a] # users[a]
                              /\ (Exists(a) /\ users'[a] # None => RowOf(users'[a]) # RowOf(users[a]))}

\* The histories that go with a step of the server.
Overtaken ==
    /\ behind' = behind \cup Altered
    /\ since' = IF fetching = "read" THEN since \cup Altered ELSE {}
    /\ ui' = [ui EXCEPT !.outdated = @ \/ (ui.dialog = "edit" /\ ui.account \in Altered)]
    /\ UNCHANGED <<rows, failed, fetching, arriving, draft, toasts>>

\* The step did what was asked for.
Carried(j) ==
    CASE job[j].at = "create" -> created' # created
      [] job[j].at = "save" -> Exists(Target(j)) /\ ~Conflict(j)
      [] OTHER -> job[j].at \in {"mail", "drop"}

\* The page's calls after a step of j: the answer to its own, if the step was its
\* last, and those whose account is no longer what their form was made from.
Calls(j, answer) ==
    [k \in Jobs |->
        IF k = j THEN IF call[k].of # "none" /\ job'[k] = Rest
                      THEN [call[k] EXCEPT !.answer = answer] ELSE call[k]
        ELSE IF call[k].of = "edit" /\ Target(k) \in Altered
             THEN [call[k] EXCEPT !.outdated = TRUE] ELSE call[k]]

Handle(j) ==
    /\ \/ Step(j) /\ call' = Calls(j, IF Carried(j) THEN "done" ELSE "failed")
       \/ Fail(j) /\ call' = Calls(j, "failed")
    /\ Overtaken

LoseAnswer(j) ==
    /\ call[j].answer = "done"
    /\ call' = [call EXCEPT ![j].answer = "failed"]
    /\ UNCHANGED <<vars, rows, failed, fetching, arriving, ui, draft, toasts, behind, since>>

\* A mutation that succeeds closes its dialog, and Add starts afresh.
DialogAfter(of) == IF of = "delete" THEN ui ELSE Closed
DraftAfter(of) == IF of = "add" THEN NewDraft ELSE draft

\* onSuccess: the list is asked for, whatever fetch of it is under way.
HearDone(j) ==
    /\ call[j].answer = "done"
    /\ call' = [call EXCEPT ![j] = NoCall]
    /\ fetching' = "asked"
    /\ Forget
    /\ ui' = DialogAfter(call[j].of)
    /\ draft' = DraftAfter(call[j].of)
    /\ UNCHANGED <<vars, rows, failed, toasts, behind>>

\* onError: the list and the form stay as they are.
HearFailed(j) ==
    /\ call[j].answer = "failed"
    /\ call' = [call EXCEPT ![j] = NoCall]
    /\ UNCHANGED <<vars, rows, failed, fetching, arriving, ui, draft, toasts, behind, since>>

\* Everything that does not come from the page.
Elsewhere ==
    /\ \/ \E j \in Jobs : call[j] = NoCall /\ Request(j)
       \/ \E a \in Accounts : Login(a)
       \/ SessionEnds
       \/ LinkExpires
    /\ UNCHANGED pageVars

ServerStops ==
    /\ Crash
    /\ call' = [j \in Jobs |-> IF call[j].of # "none" /\ call[j].answer = "waiting"
                               THEN [call[j] EXCEPT !.answer = "failed"] ELSE call[j]]
    /\ UNCHANGED <<rows, failed, fetching, arriving, ui, draft, toasts, behind, since>>

PageNext ==
    \/ Refresh \/ ListUsers \/ ShowList \/ ListFails
    \/ \E a \in Accounts : OpenEdit(a) \/ AskDelete(a) \/ ToastGone(a)
    \/ \E role \in {"admin", "other"} : ChooseRole(role) \/ DraftRole(role)
    \/ \E p \in Permissions : ToggleEditPermission(p) \/ TogglePermission(p)
    \/ ToggleAccess \/ DraftAccess \/ CloseDialog \/ OpenAdd
    \/ \E m \in Members \cup {None} : SelectMember(m)
    \/ \E j \in Jobs :
          \/ SubmitEdit(j) \/ SubmitAdd(j) \/ \E a \in Accounts : ConfirmDelete(j, a)
          \/ Handle(j) \/ LoseAnswer(j) \/ HearDone(j) \/ HearFailed(j)
    \/ Elsewhere
    \/ ServerStops

PageSpec == PageInit /\ [][PageNext]_pageAndServerVars

-----------------------------------------------------------------------------

Holds(u, what) ==
    CASE what = "role" -> u.role [] what = "access" -> u.access
      [] OTHER -> what \in u.perms

\* Saving the dialog changes of an account what was touched in it and nothing
\* else, although all of the form is sent (Users.jsx:1116), unless somebody changed
\* the account after the row the dialog started from was read.
EditsUndoOnlyWhatTheListMissed ==
    [][\A j \in Jobs :
          (call[j].of = "edit" /\ job[j].at = "save" /\ job'[j].at # "save"
             /\ ~call[j].outdated /\ Exists(Target(j)))
          => \A what \in Touchable \ call[j].touched :
                Holds(users'[Target(j)], what) = Holds(users[Target(j)], what)]_pageAndServerVars
====
