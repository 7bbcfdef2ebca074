---- MODULE RosterDialog ----
(***************************************************************************)
(* The dialog in which the administrator of ExecomRoster's page edits one  *)
(* entry: its form, the upload of a cropped photo, which ends in the form  *)
(* that is open by then, and the save, whose success closes the dialog     *)
(* that is open by then.                                                   *)
(***************************************************************************)
EXTENDS ExecomRoster

VARIABLES
    dialog,    \* the entry whose dialog is open, if any
    form,      \* the photo in the form
    uploading, \* the entry whose photo is being uploaded, if any
    swapped    \* history: another entry was opened during an upload

dialogVars == <<dialog, form, uploading, swapped>>
vars == <<rosterVars, dialogVars>>

TypeOK ==
    /\ RosterTypeOK
    /\ dialog \in Entries \cup {None}
    /\ form \in Photo
    /\ uploading \in Entries \cup {None}
    /\ swapped \in BOOLEAN

Init ==
    /\ RosterInit
    /\ dialog = None
    /\ form = None
    /\ uploading = None
    /\ swapped = FALSE

\* Variant: a form without a photo of its own keeps the one it has.
LoadedKeeping(e) == IF PhotoOf(e) = None THEN {form} ELSE {PhotoOf(e)}

\* The list on screen may be older than the photo.
Loaded(e) == {None, PhotoOf(e)}

\* startEdit: the dialog covers the list.
OpenDialog(e) ==
    /\ dialog = None
    /\ e \in ToSet(screen)
    /\ received < MaxRequests
    /\ received' = received + 1
    /\ dialog' = e
    /\ form' \in Loaded(e)
    /\ swapped' = (swapped \/ uploading \notin {None, e})
    /\ UNCHANGED <<entry, issued, job, screen, fetching, misled, mixed, uploading>>

CloseDialog ==
    /\ dialog # None
    /\ dialog' = None
    /\ UNCHANGED <<rosterVars, form, uploading, swapped>>

\* The dialog for cropping can be closed while the photo is sent.
StartUpload ==
    /\ dialog # None /\ uploading = None
    /\ uploading' = dialog
    /\ UNCHANGED <<rosterVars, dialog, form, swapped>>

Uploaded ==
    /\ uploading # None
    /\ form' \in {form, uploading}
    /\ uploading' = None
    /\ UNCHANGED <<rosterVars, dialog, swapped>>

\* The button is disabled during an upload and while an update is pending.
MaySave ==
    /\ dialog # None /\ uploading = None
    /\ \A j \in Jobs : ~(job[j].mine /\ job[j].kind = "edit")

SaveDialog(j, year) ==
    /\ MaySave
    /\ AskEdit(j, TRUE, dialog, year, form)
    /\ UNCHANGED dialogVars

\* The answer closes whatever dialog is open.
HearSaved(j) ==
    /\ HearDone(j) /\ job[j].kind = "edit"
    /\ dialog' = None
    /\ UNCHANGED <<form, uploading, swapped>>

Other(j) ==
    \/ Request(j)
    \/ ReadLast(j) \/ Create(j) \/ FindEntry(j) \/ Upload(j) \/ SaveEntry(j) \/ DropEntry(j)
    \/ CheckReorder(j) \/ WriteOrder(j) \/ Refuse(j) \/ LoseAnswer(j) \/ HearFailed(j)
    \/ HearDone(j) /\ job[j].kind # "edit"

Next ==
    \/ \E j \in Jobs : Other(j) /\ UNCHANGED dialogVars
    \/ FetchList /\ UNCHANGED dialogVars
    \/ \E j \in Jobs : HearSaved(j) \/ \E year \in Years : SaveDialog(j, year)
    \/ \E e \in Entries : OpenDialog(e)
    \/ CloseDialog \/ StartUpload \/ Uploaded

Spec == Init /\ [][Next]_vars

-----------------------------------------------------------------------------

\* A photo ends up on another entry than its own only if that one's dialog was
\* opened while the photo was being uploaded (ExecomEntriesManager.jsx:418-419).
PhotosOfTheirOwn ==
    swapped \/ \A e \in Entries : PhotoOf(e) \in {None, e}
====
