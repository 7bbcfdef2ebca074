---- MODULE MailerPage ----
(***************************************************************************)
(* The Mailer page of the portal as a client of MailCenter: selecting,     *)
(* loading, editing, creating and deleting templates, and the bulk mail.   *)
(* Loads and answers arrive in any order.  The search, the preview and the *)
(* test mail are left out, and so is a refetch of the selected template,   *)
(* which hides the fields for a while and leaves them as they are.         *)
(***************************************************************************)
EXTENDS MailCenter

VARIABLES
    ui,       \* mode, selectedId, latestSelectedIdRef, the draft and the bulk dialog
    loads,    \* requests for one template that selectTemplate waits for
    waiting,  \* kinds of requests the page waits for: isPending
    left,     \* history: the page has left the template still being loaded
    touched,  \* history: the draft sent to be created was replaced since
    crossed   \* history: since the last selection its template could not be loaded,
              \* or an answer met a selection it was not asked for

pageVars == <<ui, loads, waiting, left, touched, crossed>>
vars == <<serverVars, pageVars>>

\* `of` is the template the text came from: 0 for a new one.
Blank == [of |-> 0, key |-> None, text |-> None]

Drafts == [of : {0} \cup Ids, key : Keys \cup OwnKeys \cup {None},
           text : Texts \cup {Default, None}]

PageTypeOK ==
    /\ MailTypeOK
    /\ ui \in [mode : {"view", "new"}, selected : {0} \cup Ids, latest : {0} \cup Ids,
               draft : Drafts, chosen : {0} \cup Ids]
    /\ loads \subseteq [id : Ids, draft : Drafts, got : {"asked", "template", "failed"}]
    /\ waiting \subseteq Kinds
    /\ left \in BOOLEAN /\ touched \in BOOLEAN /\ crossed \in BOOLEAN

Init ==
    /\ MailInit
    /\ ui = [mode |-> "view", selected |-> 0, latest |-> 0, draft |-> Blank, chosen |-> 0]
    /\ loads = {} /\ waiting = {}
    /\ left = FALSE /\ touched = FALSE /\ crossed = FALSE

\* The dialog covers the page; `chosen` is what was selected when it opened.
DialogOpen == ui.chosen # 0

Loading == \E l \in loads : l.id = ui.selected

Awaited == \E l \in loads : l.id = ui.latest

-----------------------------------------------------------------------------
(* The administrator.                                                      *)

\* fetchQuery joins a request for the template that is on its way.
SelectTemplate(id) ==
    /\ ~DialogOpen
    /\ id <= created
    /\ ui' = [ui EXCEPT !.mode = "view", !.selected = id, !.latest = id]
    /\ loads' = IF \E l \in loads : l.id = id THEN loads
                ELSE loads \cup {[id |-> id, draft |-> Blank, got |-> "asked"]}
    /\ left' = FALSE /\ crossed' = FALSE
    /\ touched' = ("create" \in waiting)
    /\ UNCHANGED <<serverVars, waiting>>

\* latestSelectedIdRef keeps what was selected last.
StartNew ==
    /\ ~DialogOpen
    /\ ui' = [ui EXCEPT !.mode = "new", !.selected = 0, !.draft = Blank]
    /\ left' = Awaited
    /\ touched' = ("create" \in waiting)
    /\ UNCHANGED <<serverVars, loads, waiting, crossed>>

\* The fields are shown for a new template and for one that is loaded.
FieldsShown == ui.mode = "new" \/ (ui.selected # 0 /\ ~Loading)

Type ==
    /\ ~DialogOpen /\ FieldsShown
    /\ \/ \E text \in Texts : ui' = [ui EXCEPT !.draft.text = text]
       \/ /\ ui.mode = "new"
          /\ \E key \in Keys \cup OwnKeys : ui' = [ui EXCEPT !.draft.key = key]
    /\ UNCHANGED <<serverVars, loads, waiting, left, touched, crossed>>

\* The button does not wait for the template to be loaded.
ClickSave(j) ==
    /\ ~DialogOpen /\ ui.mode = "view" /\ ui.selected # 0
    /\ ui.draft.text # None /\ "save" \notin waiting
    /\ BeginSave(j, TRUE, ui.selected, ui.draft.text)
    /\ waiting' = waiting \cup {"save"}
    /\ UNCHANGED <<ui, loads, left, touched, crossed>>

ClickCreate(j) ==
    /\ ~DialogOpen /\ ui.mode = "new"
    /\ ui.draft.key # None /\ ui.draft.text # None /\ "create" \notin waiting
    /\ BeginCreate(j, TRUE, ui.draft.key, ui.draft.text)
    /\ waiting' = waiting \cup {"create"}
    /\ touched' = FALSE
    /\ UNCHANGED <<ui, loads, left, crossed>>

ClickDelete(j, id) ==
    /\ ~DialogOpen /\ id <= created /\ "delete" \notin waiting
    /\ BeginDelete(j, TRUE, id)
    /\ waiting' = waiting \cup {"delete"}
    /\ UNCHANGED <<ui, loads, left, touched, crossed>>

OpenBulk ==
    /\ ~DialogOpen /\ ui.mode = "view" /\ ui.selected # 0
    /\ ui' = [ui EXCEPT !.chosen = ui.selected]
    /\ UNCHANGED <<serverVars, loads, waiting, left, touched, crossed>>

CloseBulk ==
    /\ DialogOpen /\ "bulk" \notin waiting
    /\ ui' = [ui EXCEPT !.chosen = 0]
    /\ UNCHANGED <<serverVars, loads, waiting, left, touched, crossed>>

\* Every row of the file with something in its email column, valid or not and
\* repeats included, at least one.
Uploads == {list \in Lists : list.rows > 0}

\* To the uploaded list, or to all members.
SendBulkNow(j) ==
    /\ DialogOpen /\ "bulk" \notin waiting /\ ui.selected # 0
    /\ \E target \in Targets(Uploads) : BeginBulk(j, TRUE, ui.selected, target)
    /\ waiting' = waiting \cup {"bulk"}
    /\ UNCHANGED <<ui, loads, left, touched, crossed>>

-----------------------------------------------------------------------------
(* Templates and answers arrive.                                           *)

ServeLoad ==
    /\ \E l \in loads :
          /\ l.got = "asked"
          /\ \E m \in {[l EXCEPT !.got = "failed"]} \cup
                      {[l EXCEPT !.got = "template",
                                 !.draft = [of |-> t.id, key |-> t.key, text |-> t.text]] :
                          t \in IF phase = "up" THEN Found(l.id) ELSE {}} :
                loads' = (loads \ {l}) \cup {m}
    /\ UNCHANGED <<serverVars, ui, waiting, left, touched, crossed>>

\* Variant: whatever arrives is shown.
IsLatestOrOlder(id) == TRUE

\* latestSelectedIdRef.current !== id
IsLatest(id) == ui.latest = id

HearTemplate ==
    /\ \E l \in loads :
          /\ l.got # "asked"
          /\ loads' = loads \ {l}
          /\ IF ~IsLatest(l.id) THEN UNCHANGED <<ui, left, touched, crossed>>
             ELSE /\ ui' = IF l.got = "failed" THEN ui ELSE [ui EXCEPT !.draft = l.draft]
                  /\ crossed' = (crossed \/ left \/ l.got = "failed")
                  /\ touched' = ("create" \in waiting)
                  /\ left' = FALSE
    /\ UNCHANGED <<serverVars, waiting>>

\* The new template is selected, whatever the page shows by now.
ShowCreated(id) ==
    /\ ui' = [ui EXCEPT !.mode = "view", !.selected = id,
                        !.draft.of = IF touched THEN @ ELSE id]
    /\ crossed' = (crossed \/ touched \/ DialogOpen)
    /\ left' = Awaited

\* Whatever was deleted, the selection is dropped.
ShowDeleted ==
    IF ui.selected # 0 /\ ui.mode = "view"
    THEN /\ ui' = [ui EXCEPT !.selected = 0, !.draft = Blank]
         /\ left' = Awaited
         /\ UNCHANGED crossed
    ELSE UNCHANGED <<ui, left, crossed>>

HearAnswer ==
    /\ \E a \in answers :
          /\ answers' = answers \ {a}
          /\ waiting' = waiting \ {a.kind}
          /\ CASE a.ok /\ a.kind = "create" -> ShowCreated(a.id)
               [] a.ok /\ a.kind = "delete" -> ShowDeleted
               [] a.ok /\ a.kind = "bulk" -> /\ ui' = [ui EXCEPT !.chosen = 0]
                                             /\ UNCHANGED <<left, crossed>>
               [] OTHER -> UNCHANGED <<ui, left, crossed>>
    /\ touched' = (touched /\ "create" \in waiting')
    /\ UNCHANGED <<startVars, job, received, loads>>

\* The request died with the server, or its answer is lost.
HearNothing(kind) ==
    /\ kind \in waiting
    /\ ~\E j \in Jobs : job[j].mine /\ job[j].kind = kind
    /\ waiting' = waiting \ {kind}
    /\ answers' = {a \in answers : a.kind # kind}
    /\ touched' = (touched /\ "create" \in waiting')
    /\ UNCHANGED <<startVars, job, received, ui, loads, left, crossed>>

Next ==
    \/ ServerNext /\ UNCHANGED pageVars
    \/ \E id \in Ids : SelectTemplate(id)
    \/ StartNew
    \/ Type
    \/ \E j \in Jobs : \/ ClickSave(j) \/ ClickCreate(j) \/ SendBulkNow(j)
                       \/ \E id \in Ids : ClickDelete(j, id)
    \/ OpenBulk
    \/ CloseBulk
    \/ ServeLoad
    \/ HearTemplate
    \/ HearAnswer
    \/ \E kind \in Kinds : HearNothing(kind)

Spec == Init /\ [][Next]_vars

-----------------------------------------------------------------------------

\* What stands in the fields of a selected and loaded template is that
\* template's own text, and the bulk dialog sends the template it was opened
\* for, however loads overtake each other: unless the load failed (the former
\* text stays under the new selection), or a template arrived after the page had
\* left it, or a created one was selected after the page had moved on.
DraftFitsSelection ==
    /\ ui.mode = "view" /\ ui.selected # 0
    /\ ~crossed
    => /\ Loading \/ ui.draft.of = ui.selected
       /\ DialogOpen => ui.chosen = ui.selected
====
