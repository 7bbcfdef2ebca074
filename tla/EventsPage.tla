---- MODULE EventsPage ----
(***************************************************************************)
(* The page Clubs and Events of one user (Events.jsx), over the events of  *)
(* ClubEvents: the clubs it lists, the one selected, the events cached for *)
(* each club, the dialogs that send a whole form and the messages that ask *)
(* before a deletion, which stay while the page moves on.  Others reach    *)
(* the same events from their own pages and by the older routes.           *)
(***************************************************************************)
EXTENDS ClubEvents

CONSTANT Choosers  \* whom /users answers: the holders of the permission "users"

ASSUME ChoosersAssumption == Choosers \subseteq Actors

VARIABLES
    viewer,  \* whose page it is
    clubs,   \* the query "clubs"
    chosen,  \* selectedClubId
    rows,    \* the queries "clubEvents", by club: the events as they were read
    ui,      \* the dialog that is open
    draft,   \* the coordinators of the form New Event, which outlive its dialog
    toasts,  \* deletions to be confirmed
    call     \* the page's mutation a task belongs to, and its answer

pageVars == <<viewer, clubs, chosen, rows, ui, draft, toasts, call>>
pageAndServerVars == <<vars, pageVars>>

Closed == [dialog |-> "closed", event |-> None, coords |-> {}, touched |-> {}, version |-> 0]

NoCall == [of |-> "none", answer |-> "waiting", touched |-> {}, version |-> 0]

NoRows == [e \in Events |-> None]

PageTypeOK ==
    /\ viewer \in Actors
    /\ clubs \subseteq Clubs
    /\ chosen \in Clubs \cup {None}
    /\ rows \in [Clubs -> [Events -> Event \cup {None}]]
    /\ ui \in [dialog : {"closed", "new", "edit"}, event : Events \cup {None},
               coords : SUBSET People, touched : SUBSET People, version : Nat]
    /\ draft \subseteq People
    /\ toasts \subseteq [club : Clubs, event : Events \cup {None}]
    /\ call \in [Tasks -> [of : Kinds \cup {"none"}, answer : {"waiting", "done", "failed"},
                           touched : SUBSET People, version : Nat]]

PageInit ==
    /\ Init
    /\ viewer \in Actors
    /\ clubs = {}
    /\ chosen = None
    /\ rows = [c \in Clubs |-> NoRows]
    /\ ui = Closed
    /\ draft = {}
    /\ toasts = {}
    /\ call = [t \in Tasks |-> NoCall]

\* useMutation: isPending, until the answer was heard.
Pending(of) == \E t \in Tasks : call[t].of = of

-----------------------------------------------------------------------------
(* The lists.                                                              *)

\* listClubs: all of them for an administrator, for others those they belong to.
FetchClubs ==
    /\ clubs' = {c \in Clubs : Access(viewer, c)}
    /\ UNCHANGED <<vars, viewer, chosen, rows, ui, draft, toasts, call>>

\* A club that is listed no more stays selected.
Select(c) ==
    /\ c \in clubs /\ c # chosen
    /\ ui.dialog = "closed"
    /\ chosen' = c
    /\ UNCHANGED <<vars, viewer, clubs, rows, ui, draft, toasts, call>>

\* listClubEvents.
EventsOf(c) == [e \in Events |-> IF event[e] # None /\ event[e].club = c THEN event[e] ELSE None]

\* When a club is selected, after a mutation or when the page comes into view; a
\* club that was selected before shows its old rows until then.
FetchEvents ==
    /\ chosen # None /\ Access(viewer, chosen)
    /\ rows' = [rows EXCEPT ![chosen] = EventsOf(chosen)]
    /\ UNCHANGED <<vars, viewer, clubs, chosen, ui, draft, toasts, call>>

\* Refused or lost: no rows are shown until a fetch succeeds.
FetchFails ==
    /\ chosen # None
    /\ rows' = [rows EXCEPT ![chosen] = NoRows]
    /\ UNCHANGED <<vars, viewer, clubs, chosen, ui, draft, toasts, call>>

\* The buttons of a row, behind no dialog.
RowButtons(e) == chosen # None /\ rows[chosen][e] # None /\ ui.dialog = "closed"

-----------------------------------------------------------------------------
(* The dialogs.                                                            *)

\* Variant: the coordinators are not taken over from the row.
EmptyForm(row) == {}

FormOf(row) == row.coords

OpenEdit(e) ==
    /\ RowButtons(e)
    /\ LET row == rows[chosen][e]
       IN ui' = [dialog |-> "edit", event |-> e, coords |-> FormOf(row),
                 touched |-> {}, version |-> row.version]
    /\ UNCHANGED <<vars, viewer, clubs, chosen, rows, draft, toasts, call>>

OpenNew ==
    /\ chosen # None /\ ui.dialog = "closed"
    /\ ui' = [Closed EXCEPT !.dialog = "new"]
    /\ UNCHANGED <<vars, viewer, clubs, chosen, rows, draft, toasts, call>>

FlipIn(set, p) == IF p \in set THEN set \ {p} ELSE set \cup {p}

\* The accounts to choose from are those of /users: without the permission the
\* dialogs offer nobody, and coordinators can only be sent back as they are.
ToggleCoordinator(p) ==
    /\ viewer \in Choosers
    /\ \/ /\ ui.dialog = "edit"
          /\ ui' = [ui EXCEPT !.coords = FlipIn(@, p), !.touched = @ \cup {p}]
          /\ UNCHANGED draft
       \/ /\ ui.dialog = "new"
          /\ draft' = FlipIn(draft, p)
          /\ UNCHANGED ui
    /\ UNCHANGED <<vars, viewer, clubs, chosen, rows, toasts, call>>

\* At any time: an answer still awaited is heard all the same.
Cancel ==
    /\ ui.dialog # "closed"
    /\ ui' = Closed
    /\ UNCHANGED <<vars, viewer, clubs, chosen, rows, draft, toasts, call>>

\* One mutation of a kind at a time.
Call(t, of, request) ==
    /\ call[t] = NoCall
    /\ request
    /\ call' = [call EXCEPT ![t] = [of |-> of, answer |-> "waiting",
                                    touched |-> ui.touched, version |-> ui.version]]
    /\ UNCHANGED <<viewer, clubs, rows, ui, draft>>

\* Nothing happens while no club is selected.
CanSubmit(dialog, of) == ui.dialog = dialog /\ chosen # None /\ ~Pending(of)

SubmitNew(t, e) ==
    /\ CanSubmit("new", "create")
    /\ Call(t, "create", AskToCreate(t, viewer, chosen, e, draft))
    /\ UNCHANGED <<chosen, toasts>>

\* For the club that is selected now.
SubmitEdit(t) ==
    /\ CanSubmit("edit", "edit")
    /\ Call(t, "edit", AskInClub(t, viewer, "edit", chosen, ui.event, ui.coords))
    /\ UNCHANGED <<chosen, toasts>>

-----------------------------------------------------------------------------
(* The deletions: a message with two buttons, for eight seconds, above     *)
(* whatever is open.  It remembers the club that was selected.             *)

AskDelete(e) ==
    /\ RowButtons(e) /\ ~Pending("drop")
    /\ toasts' = toasts \cup {[club |-> chosen, event |-> e]}
    /\ UNCHANGED <<vars, viewer, clubs, chosen, rows, ui, draft, call>>

AskDeleteClub ==
    /\ viewer = Root
    /\ chosen \in clubs /\ ui.dialog = "closed"
    /\ toasts' = toasts \cup {[club |-> chosen, event |-> None]}
    /\ UNCHANGED <<vars, viewer, clubs, chosen, rows, ui, draft, call>>

ToastGone(toast) ==
    /\ toast \in toasts
    /\ toasts' = toasts \ {toast}
    /\ UNCHANGED <<vars, viewer, clubs, chosen, rows, ui, draft, call>>

\* Variant: the club selected by now is named.
ClubSelected(toast) == chosen

ClubOf(toast) == toast.club

ConfirmDelete(t, toast) ==
    /\ toast \in toasts /\ toast.event # None
    /\ ClubOf(toast) # None
    /\ Call(t, "drop", AskInClub(t, viewer, "drop", ClubOf(toast), toast.event, {}))
    /\ toasts' = toasts \ {toast}
    /\ UNCHANGED chosen

\* deleteClub in one step.  The selection is cleared, whichever club it is by now.
ConfirmDeleteClub(toast) ==
    /\ toast \in toasts /\ toast.event = None
    /\ toasts' = toasts \ {toast}
    /\ chosen' = None
    /\ IF club[toast.club] = None THEN UNCHANGED vars ELSE ChangeClub(toast.club, None)
    /\ UNCHANGED <<viewer, clubs, rows, ui, draft, call>>

-----------------------------------------------------------------------------
(* The server's steps, and their answers.                                  *)

\* The step does what was asked for.
Carried(t) ==
    CASE task[t].at = "insert" -> TRUE
      [] task[t].at = "save" -> ~SaveFails(t)
      [] OTHER -> task[t].at = "remove" /\ OfClub(t)

Handle(t) ==
    /\ Step(t)
    /\ call' = [u \in Tasks |->
          IF call[u].of # "none" /\ task[u] # Rest /\ task'[u] = Rest
          THEN [call[u] EXCEPT !.answer = IF u = t /\ Carried(t) THEN "done" ELSE "failed"]
          ELSE call[u]]
    /\ UNCHANGED <<viewer, clubs, chosen, rows, ui, draft, toasts>>

\* onSuccess closes the dialog of its kind, also one opened meanwhile for another
\* event, and New Event starts afresh.
HearDone(t) ==
    /\ call[t].answer = "done"
    /\ call' = [call EXCEPT ![t] = NoCall]
    /\ ui' = IF <<call[t].of, ui.dialog>> \in {<<"create", "new">>, <<"edit", "edit">>}
             THEN Closed ELSE ui
    /\ draft' = IF call[t].of = "create" THEN {} ELSE draft
    /\ UNCHANGED <<vars, viewer, clubs, chosen, rows, toasts>>

\* onError: everything stays.
HearFailed(t) ==
    /\ call[t].answer = "failed"
    /\ call' = [call EXCEPT ![t] = NoCall]
    /\ UNCHANGED <<vars, viewer, clubs, chosen, rows, ui, draft, toasts>>

\* Everything that does not come from the page.
Elsewhere ==
    /\ \/ \E t \in Tasks, a \in Actors, e \in Events, coords \in SUBSET People :
             /\ call[t] = NoCall
             /\ \/ AskByEvent(t, a, "edit", e, coords)
                \/ a # viewer /\ \E c \in Clubs :
                      AskToCreate(t, a, c, e, coords) \/ AskInClub(t, a, "edit", c, e, coords)
       \/ \E t \in Tasks, a \in Actors, e \in Events :
             /\ call[t] = NoCall
             /\ \/ AskByEvent(t, a, "drop", e, {})
                \/ a # viewer /\ \E c \in Clubs : AskInClub(t, a, "drop", c, e, {})
       \/ \E c \in Clubs, people \in (SUBSET People) \cup {None} : ChangeClub(c, people)
    /\ UNCHANGED pageVars

PageNext ==
    \/ FetchClubs \/ FetchEvents \/ FetchFails \/ OpenNew \/ Cancel \/ AskDeleteClub
    \/ \E c \in Clubs : Select(c)
    \/ \E p \in People : ToggleCoordinator(p)
    \/ \E e \in Events : OpenEdit(e) \/ AskDelete(e)
    \/ \E toast \in toasts : ToastGone(toast) \/ ConfirmDeleteClub(toast)
    \/ \E t \in Tasks :
          \/ SubmitEdit(t) \/ \E e \in Events : SubmitNew(t, e)
          \/ \E toast \in toasts : ConfirmDelete(t, toast)
          \/ Handle(t) \/ HearDone(t) \/ HearFailed(t)
    \/ Elsewhere

PageSpec == PageInit /\ [][PageNext]_pageAndServerVars

-----------------------------------------------------------------------------

\* Saving the dialog changes the coordinators ticked or unticked in it and no
\* others, although all of them are sent (Events.jsx:514), unless somebody changed
\* them after the row was read.
CoordinatorsKept ==
    [][\A t \in Tasks :
          LET e == task[t].event
          IN (call[t].of = "edit" /\ task[t].at = "save" /\ task'[t] = Rest /\ downs' = downs
                /\ event[e].version = call[t].version)
             => \A p \in People :
                   (p \in event'[e].coords) # (p \in event[e].coords) => p \in call[t].touched]_pageAndServerVars

\* Whatever is selected, opened or confirmed in the meantime, the page names an
\* event together with its own club: while the event is there and its club open to
\* the user, a change or a deletion that is answered was carried out
\* (Events.jsx:507, 449).
AnsweredIsCarriedOut ==
    [][\A t \in Tasks :
          LET e == task[t].event
          IN (call[t].of \in {"edit", "drop"} /\ task[t] # Rest /\ task'[t] = Rest
                /\ downs' = downs /\ event[e] # None /\ Access(viewer, event[e].club))
             => task[t].at = "save" \/ event'[e] = None]_pageAndServerVars
====
