---- MODULE ExecomRoster ----
(***************************************************************************)
(* The execom roster of the website: the entries of each year, their       *)
(* order, and the photos on them (teamController, WebsiteTeamEntry); one   *)
(* administrator's page with the list of one year, reordered on screen     *)
(* before the server answers (ExecomEntriesManager); other administrators; *)
(* and the members who change their own entry through a mailed link        *)
(* (TeamEntryUpdate).  The page stays on the year it shows: moving it to   *)
(* another one is left out.                                                *)
(*                                                                         *)
(* A photo is known by the entry it was taken for; what a save writes and  *)
(* whom it refuses follows the fields that differ from the loaded copy.    *)
(***************************************************************************)
EXTENDS Integers, Sequences, FiniteSets, SequencesExt, FiniteSetsExt

CONSTANTS
    Entries,     \* IDs of entries, in the order in which they are created
    Years,
    Shown,       \* the year on the page, which stays on it
    Jobs,        \* requests the server may be handling at once
    None,        \* no entry, no photo
    MaxRequests  \* bound: requests received in a behaviour

ASSUME BoundsAssumption == Entries \subseteq Nat /\ IsFiniteSet(Entries) /\ MaxRequests \in Nat

ASSUME ShownAssumption == Shown \in Years /\ None \notin Years \cup Entries

Photo == Entries \cup {None}
Entry == [year : Years, order : Nat, photo : Photo]

VARIABLES
    entry,     \* collection "website_team_entries"; None: not there
    issued,    \* entries created so far
    job,       \* the handlers in flight, and answers on their way
    received,  \* requests received so far
    screen,    \* the list on the page
    fetching,  \* the page is fetching it again
    misled,    \* history: the list differs because of others, or was rolled back
    mixed      \* history: years with overlapping requests, partial lists, entries moved in

rosterVars == <<entry, issued, job, received, screen, fetching, misled, mixed>>

Kinds == {"add", "edit", "self", "drop", "reorder"}
Places == {"rest", "last", "create", "find", "upload", "save", "drop", "check", "write", "failed", "done"}

Job == [at : Places, kind : Kinds, mine : BOOLEAN, entry : Photo, year : Years, photo : Photo,
        ids : Seq(Entries), before : Seq(Entries), order : Nat, copy : Entry \cup {None}]

Rest == [at |-> "rest", kind |-> "add", mine |-> FALSE, entry |-> None, year |-> Shown,
         photo |-> None, ids |-> <<>>, before |-> <<>>, order |-> 0, copy |-> None]

RosterTypeOK ==
    /\ entry \in [Entries -> Entry \cup {None}]
    /\ issued \subseteq Entries
    /\ job \in [Jobs -> Job]
    /\ received \in 0 .. MaxRequests
    /\ screen \in Seq(Entries)
    /\ fetching \in BOOLEAN
    /\ misled \in BOOLEAN
    /\ mixed \subseteq Years

Of(year) == {e \in Entries : entry[e] # None /\ entry[e].year = year}

PhotoOf(e) == IF entry[e] = None THEN None ELSE entry[e].photo

\* listWebsiteTeamEntries, and the page, which sorts again.
Before(a, b) ==
    \/ entry[a].order < entry[b].order
    \/ entry[a].order = entry[b].order /\ a < b

List(year) ==
    CHOOSE list \in [1 .. Cardinality(Of(year)) -> Of(year)] :
        \A m, n \in DOMAIN list : m < n => Before(list[m], list[n])

\* Some of the entries, not all, were added one after the other; the page is open.
RosterInit ==
    /\ \E next \in Entries : issued = {e \in Entries : e < next}
    /\ \E place \in [Entries -> Years] :
          entry = [e \in Entries |->
              IF e \notin issued THEN None
              ELSE [year |-> place[e], photo |-> None,
                    order |-> Cardinality({f \in issued : f < e /\ place[f] = place[e]})]]
    /\ job = [j \in Jobs |-> Rest]
    /\ received = 0
    /\ screen = List(Shown)
    /\ fetching = FALSE
    /\ misled = FALSE
    /\ mixed = {}

-----------------------------------------------------------------------------
(* Requests.                                                               *)

Arranges(j, year) == job[j].kind \in {"add", "reorder"} /\ job[j].at # "rest" /\ job[j].year = year

Send(j, request) ==
    /\ job[j] = Rest
    /\ received < MaxRequests
    /\ received' = received + 1
    /\ job' = [job EXCEPT ![j] = request]
    /\ mixed' = IF /\ request.kind \in {"add", "reorder"}
                   /\ \E k \in Jobs : Arranges(k, request.year) /\ job[k].at \notin {"failed", "done"}
                THEN mixed \cup {request.year} ELSE mixed
    /\ UNCHANGED <<entry, issued>>

AskAdd(j, mine, year) ==
    /\ Send(j, [Rest EXCEPT !.kind = "add", !.at = "last", !.mine = mine, !.year = year])
    /\ UNCHANGED <<screen, fetching, misled>>

\* From the dialog: the year and the photo go along, changed or not.
AskEdit(j, mine, e, year, photo) ==
    /\ Send(j, [Rest EXCEPT !.kind = "edit", !.at = "find", !.mine = mine, !.entry = e,
                            !.year = year, !.photo = photo])
    /\ UNCHANGED <<screen, fetching, misled>>

AskDrop(j, mine, e) ==
    /\ e \in issued
    /\ Send(j, [Rest EXCEPT !.kind = "drop", !.at = "drop", !.mine = mine, !.entry = e])
    /\ UNCHANGED <<screen, fetching, misled>>

\* arrayMove.
Moved(list, from, to) == InsertAt(RemoveAt(list, from), to, list[from])

\* Dropping a row elsewhere: the list changes on screen, a fetch under way is
\* cancelled, what was shown is kept for a refusal.
Drag(j) ==
    /\ \E from, to \in DOMAIN screen :
          LET next == Moved(screen, from, to)
          IN
          /\ from # to
          /\ Send(j, [Rest EXCEPT !.kind = "reorder", !.at = "check", !.mine = TRUE,
                                  !.year = Shown, !.ids = next, !.before = screen])
          /\ screen' = next
    /\ fetching' = FALSE
    /\ UNCHANGED misled

\* Another administrator, whose page is up to date, does the same.
OthersDrag(j, year) ==
    /\ LET list == List(year)
       IN \E from, to \in DOMAIN list :
             /\ from # to
             /\ Send(j, [Rest EXCEPT !.kind = "reorder", !.at = "check", !.year = year,
                                     !.ids = Moved(list, from, to)])
    /\ UNCHANGED <<screen, fetching, misled>>

\* The photo in a member's form: as loaded with the page, one cropped there since
\* for this entry, which is uploaded with the form, or none.
SelfPhotos(e) == {None, PhotoOf(e), e}

\* A member who opened the mailed link sends back the form.
AskSelf(j, e, photo) ==
    /\ e \in issued /\ photo \in SelfPhotos(e)
    /\ Send(j, [Rest EXCEPT !.kind = "self", !.at = "find", !.entry = e, !.photo = photo])
    /\ UNCHANGED <<screen, fetching, misled>>

-----------------------------------------------------------------------------
(* The handlers.                                                           *)

\* An answer is on its way to the page; nobody else's is looked at.
Answer(j, at) == job' = [job EXCEPT ![j] = IF @.mine THEN [@ EXCEPT !.at = at] ELSE Rest]

Go(j, to) == job' = [job EXCEPT ![j].at = to]

\* What a step of the database does to the page: nothing, but it may be behind.
Beside(j) ==
    /\ UNCHANGED <<received, screen, fetching>>
    /\ misled' = (misled \/ (~job[j].mine /\ List(Shown)' # List(Shown)))

\* Variant: the entries of the year are counted.
CountOf(year) == Cardinality(Of(year))

NextOrder(year) == IF Of(year) = {} THEN 0 ELSE Max({entry[e].order : e \in Of(year)}) + 1

ReadLast(j) ==
    /\ job[j].at = "last"
    /\ job' = [job EXCEPT ![j].order = NextOrder(job[j].year), ![j].at = "create"]
    /\ UNCHANGED <<entry, issued, received, screen, fetching, misled, mixed>>

Create(j) ==
    /\ job[j].at = "create"
    /\ LET e == Min(Entries \ issued)
       IN /\ issued # Entries
          /\ entry' = [entry EXCEPT ![e] =
                [year |-> job[j].year, order |-> job[j].order, photo |-> None]]
          /\ issued' = issued \cup {e}
    /\ Answer(j, "done")
    /\ UNCHANGED mixed
    /\ Beside(j)

FindEntry(j) ==
    /\ job[j].at = "find"
    /\ LET found == entry[job[j].entry]
       IN IF found = None THEN Answer(j, "failed")
          ELSE job' = [job EXCEPT ![j].copy = found,
                                  ![j].at = IF job[j].kind = "self" THEN "upload" ELSE "save"]
    /\ UNCHANGED <<entry, issued, received, screen, fetching, misled, mixed>>

\* uploadImageFromBase64, between the load and the save; a form without a new
\* photo does not wait.
Upload(j) ==
    /\ job[j].at = "upload"
    /\ Go(j, "save") \/ Answer(j, "failed")
    /\ UNCHANGED <<entry, issued, received, screen, fetching, misled, mixed>>

\* Variant: the loaded entry is written back as a whole.
SavedWhole(j) ==
    LET copy == job[j].copy
    IN [copy EXCEPT !.photo = job[j].photo,
                    !.year = IF job[j].kind = "edit" THEN job[j].year ELSE @]

\* A save writes what differs from the loaded copy.  A member's form without a
\* photo sends none, and it never has a year.
Saved(j) ==
    LET now == entry[job[j].entry]
        silent == job[j].kind = "self" /\ job[j].photo = None
    IN IF now = None THEN None
       ELSE [now EXCEPT
               !.photo = IF job[j].photo # job[j].copy.photo /\ ~silent THEN job[j].photo ELSE @,
               !.year = IF job[j].kind = "edit" /\ job[j].year # job[j].copy.year
                        THEN job[j].year ELSE @]

\* An entry moved to another year keeps its order.
SaveEntry(j) ==
    /\ job[j].at = "save"
    /\ LET e == job[j].entry
       IN /\ entry' = [entry EXCEPT ![e] = Saved(j)]
          /\ Answer(j, IF entry[e] = None THEN "failed" ELSE "done")
          /\ mixed' = IF entry[e] # None /\ entry'[e].year # entry[e].year
                      THEN mixed \cup {entry'[e].year} ELSE mixed
    /\ UNCHANGED issued
    /\ Beside(j)

DropEntry(j) ==
    /\ job[j].at = "drop"
    /\ entry' = [entry EXCEPT ![job[j].entry] = None]
    /\ Answer(j, IF entry[job[j].entry] = None THEN "failed" ELSE "done")
    /\ UNCHANGED <<issued, mixed>>
    /\ Beside(j)

\* All that is named must be of the year; not all of the year need be named.
CheckReorder(j) ==
    /\ job[j].at = "check"
    /\ LET named == ToSet(job[j].ids)
           year == job[j].year
       IN /\ IF named \subseteq Of(year) THEN Go(j, "write") ELSE Answer(j, "failed")
          /\ mixed' = IF named \subseteq Of(year) /\ named # Of(year) THEN mixed \cup {year} ELSE mixed
    /\ UNCHANGED <<entry, issued, received, screen, fetching, misled>>

\* bulkWrite: one entry at a time, if it is still of that year.
WriteOrder(j) ==
    /\ job[j].at = "write"
    /\ LET e == job[j].ids[job[j].order + 1]
       IN entry' = IF e \in Of(job[j].year) THEN [entry EXCEPT ![e].order = job[j].order] ELSE entry
    /\ IF job[j].order + 1 = Len(job[j].ids) THEN Answer(j, "done")
       ELSE job' = [job EXCEPT ![j].order = @ + 1]
    /\ UNCHANGED <<issued, mixed>>
    /\ Beside(j)

\* 409: the unique index on category, year and user refuses a second entry of a
\* user, created for the year or moved into it; custom entries it lets pass.  Or
\* 500: the database fails, a bulkWrite after some of its rows.
Refuse(j) ==
    /\ job[j].at \notin {"rest", "upload", "failed", "done"}
    /\ Answer(j, "failed")
    /\ mixed' = IF job[j].at = "write" THEN mixed \cup {job[j].year} ELSE mixed
    /\ UNCHANGED <<entry, issued, received, screen, fetching, misled>>

-----------------------------------------------------------------------------
(* The page hears the answers.                                             *)

LoseAnswer(j) ==
    /\ job[j].at = "done"
    /\ Go(j, "failed")
    /\ UNCHANGED <<entry, issued, received, screen, fetching, misled, mixed>>

\* Variant: the list on screen is taken for the server's.
HearWithoutFetch(j) ==
    /\ job[j].at = "done"
    /\ job' = [job EXCEPT ![j] = Rest]
    /\ UNCHANGED <<entry, issued, received, screen, fetching, misled, mixed>>

HearDone(j) ==
    /\ job[j].at = "done"
    /\ job' = [job EXCEPT ![j] = Rest]
    /\ fetching' = TRUE
    /\ UNCHANGED <<entry, issued, received, screen, misled, mixed>>

\* A refused reorder puts back what was shown before it.
HearFailed(j) ==
    /\ job[j].at = "failed"
    /\ job' = [job EXCEPT ![j] = Rest]
    /\ IF job[j].kind = "reorder" /\ job[j].year = Shown
       THEN screen' = job[j].before
       ELSE UNCHANGED screen
    /\ misled' = TRUE
    /\ UNCHANGED <<entry, issued, received, fetching, mixed>>

\* The list arrives; the page asks for it again whenever it is looked at.
FetchList ==
    /\ fetching' = FALSE
    /\ screen' = List(Shown)
    /\ misled' = FALSE
    /\ UNCHANGED <<entry, issued, job, received, mixed>>

Step(j) ==
    \/ ReadLast(j) \/ Create(j) \/ FindEntry(j) \/ Upload(j) \/ SaveEntry(j) \/ DropEntry(j)
    \/ CheckReorder(j) \/ WriteOrder(j) \/ Refuse(j)
    \/ LoseAnswer(j) \/ HearDone(j) \/ HearFailed(j)

Request(j) ==
    \/ \E mine \in BOOLEAN, year \in Years : (mine => year = Shown) /\ AskAdd(j, mine, year)
    \/ \E mine \in BOOLEAN, e \in Entries : AskDrop(j, mine, e)
    \/ \E e \in issued, year \in Years : AskEdit(j, FALSE, e, year, PhotoOf(e))
    \/ Drag(j) \/ \E year \in Years : OthersDrag(j, year)
    \/ \E e \in Entries, photo \in Photo : AskSelf(j, e, photo)

RosterNext ==
    \/ \E j \in Jobs : Request(j) \/ Step(j)
    \/ FetchList

RosterSpec == RosterInit /\ [][RosterNext]_rosterVars

-----------------------------------------------------------------------------

\* Between reorders, two entries of a year have the same order only if an addition
\* or a reorder of the year overlapped another one, a reorder failed half-way, a list
\* was dragged that lacked an entry of the year, or one was moved into it
\* (teamController.js:343, 655-670).
OrdersApart ==
    \A e, f \in Entries :
        (e # f /\ entry[e] # None /\ entry[f] # None /\ entry[e].year = entry[f].year)
           => \/ entry[e].order # entry[f].order
              \/ entry[e].year \in mixed
              \/ \E j \in Jobs : job[j].at = "write" /\ job[j].year = entry[e].year

\* Once every answer was heard and the fetch that follows it has landed, the page
\* shows the order on record, whatever was dragged meanwhile and in whichever
\* order the reorders reached the server, unless others changed the list or a
\* refusal rolled it back since (ExecomEntriesManager.jsx:205-242).
ScreenFollowsServer ==
    \/ fetching \/ misled \/ screen = List(Shown)
    \/ \E j \in Jobs : job[j].mine

\* A reorder, an edit or a member's own change that comes too late does not bring a
\* removed entry back (teamController.js:441, 663-670, 827).
RemovedStayRemoved ==
    [][\A e \in issued : entry[e] = None => entry'[e] = None]_rosterVars
====
