---- MODULE ClubEvents ----
(***************************************************************************)
(* The events of the clubs (eventController): a task is one request about  *)
(* an event, one step per awaited database call.  Two routes change an     *)
(* event and two delete it: one names the club it belongs to, the older    *)
(* one finds the club through the event.  Every change ends in one save    *)
(* whose failure no handler catches; it ends the process, with everything  *)
(* in flight.  The people of a club and its deletion are those of Clubs,   *)
(* seen here as single steps.                                              *)
(***************************************************************************)
EXTENDS Integers

CONSTANTS
    People,      \* students with an account
    Root,        \* an administrator
    Clubs,
    Events,      \* events that may be created
    Tasks,       \* event requests the server may be handling at once
    None,        \* no event, no club, nobody
    MaxRequests  \* bound: requests received and clubs changed in a behaviour

ASSUME BoundsAssumption == MaxRequests \in Nat

ASSUME ActorsAssumption == Root \notin People /\ None \notin People \cup Clubs \cup Events \cup {Root}

Actors == People \cup {Root}

\* Titles, dates and places are written without looking; coordinators are a list.
Event == [club : Clubs, coords : SUBSET People, version : Nat]

VARIABLES
    club,       \* the leads, editors and portal members of each club; None: no club
    event,      \* collection "events"; None: not there
    issued,     \* events created so far
    task,       \* the handlers in flight
    received,   \* requests received and clubs changed so far
    downs,      \* history: how often the process ended by itself
    overlapped, \* history: events that two requests were about at once
    late        \* history: tasks, and the clubs their sender has lost meanwhile

vars == <<club, event, issued, task, received, downs, overlapped, late>>

Places == {"rest", "club", "insert", "find", "event", "access", "save", "remove", "delete"}
Kinds == {"create", "edit", "drop"}

Task == [at : Places, kind : Kinds, by : Actors \cup {None}, club : Clubs \cup {None},
         event : Events \cup {None}, coords : SUBSET People, copy : Event \cup {None}]

Rest == [at |-> "rest", kind |-> "create", by |-> None, club |-> None, event |-> None,
         coords |-> {}, copy |-> None]

TypeOK ==
    /\ club \in [Clubs -> (SUBSET People) \cup {None}]
    /\ event \in [Events -> Event \cup {None}]
    /\ issued \subseteq Events
    /\ task \in [Tasks -> Task]
    /\ received \in 0 .. MaxRequests
    /\ downs \in Nat
    /\ overlapped \subseteq Events
    /\ late \subseteq Tasks \X Clubs

Init ==
    /\ club \in [Clubs -> SUBSET People]
    /\ event = [e \in Events |-> None]
    /\ issued = {}
    /\ task = [t \in Tasks |-> Rest]
    /\ received = 0
    /\ downs = 0
    /\ overlapped = {}
    /\ late = {}

\* ensureClubAccess: nobody has access to a club that is gone.
Access(a, c) == club[c] # None /\ (a = Root \/ a \in club[c])

Proceed(t, to) ==
    /\ task' = [task EXCEPT ![t].at = to]
    /\ UNCHANGED <<club, issued, received, downs, overlapped, late>>

Finish(t) ==
    /\ task' = [task EXCEPT ![t] = Rest]
    /\ late' = {l \in late : l[1] # t}
    /\ UNCHANGED <<club, received, downs, overlapped>>

-----------------------------------------------------------------------------
(* Requests.  The page Events names the club that is selected; the older   *)
(* routes name the event alone.                                            *)

Receive(t, request) ==
    /\ task[t] = Rest
    /\ task' = [task EXCEPT ![t] = request]
    /\ overlapped' = overlapped \cup {e \in Events : /\ e = request.event
                                                     /\ \E u \in Tasks : task[u].event = e}
    /\ UNCHANGED <<club, event, issued, downs, late>>

Counted == received < MaxRequests /\ received' = received + 1

\* An event gets its ID when it is created: nobody can name it before.
AskToCreate(t, a, c, e, coords) ==
    /\ e \notin issued
    /\ \A u \in Tasks : task[u].event # e
    /\ Receive(t, [Rest EXCEPT !.at = "club", !.by = a, !.club = c, !.event = e, !.coords = coords])
    /\ UNCHANGED received

AskInClub(t, a, kind, c, e, coords) ==
    /\ e \in issued /\ Counted
    /\ Receive(t, [at |-> "club", kind |-> kind, by |-> a, club |-> c, event |-> e,
                   coords |-> coords, copy |-> None])

AskByEvent(t, a, kind, e, coords) ==
    /\ e \in issued /\ Counted
    /\ Receive(t, [at |-> "event", kind |-> kind, by |-> a, club |-> None, event |-> e,
                   coords |-> coords, copy |-> None])

-----------------------------------------------------------------------------
(* createClubEvent, updateClubEvent, deleteClubEvent.                      *)

CheckClub(t) ==
    /\ task[t].at = "club"
    /\ IF Access(task[t].by, task[t].club)
       THEN Proceed(t, [create |-> "insert", edit |-> "find", drop |-> "remove"][task[t].kind])
       ELSE Finish(t) /\ UNCHANGED issued
    /\ UNCHANGED event

\* The club may be gone by now; the event is created all the same.
Insert(t) ==
    /\ task[t].at = "insert"
    /\ event' = [event EXCEPT ![task[t].event] =
          [club |-> task[t].club, coords |-> task[t].coords, version |-> 0]]
    /\ issued' = issued \cup {task[t].event}
    /\ Finish(t)

\* Variant: the event is looked up by its ID alone.
AnyClubs(t) == event[task[t].event] # None

OfClub(t) == event[task[t].event] # None /\ event[task[t].event].club = task[t].club

\* Variant: an event that is not found, or no more, is saved.
FindUnchecked(t) ==
    /\ task[t].at = "find"
    /\ task' = [task EXCEPT ![t].copy = event[task[t].event], ![t].at = "save"]
    /\ UNCHANGED <<club, event, issued, received, downs, overlapped, late>>

FindInClub(t) ==
    /\ task[t].at = "find"
    /\ IF OfClub(t)
       THEN /\ task' = [task EXCEPT ![t].copy = event[task[t].event], ![t].at = "save"]
            /\ UNCHANGED <<club, received, downs, overlapped, late>>
       ELSE Finish(t)
    /\ UNCHANGED <<event, issued>>

RemoveInClub(t) ==
    /\ task[t].at = "remove"
    /\ event' = IF OfClub(t) THEN [event EXCEPT ![task[t].event] = None] ELSE event
    /\ Finish(t)
    /\ UNCHANGED issued

-----------------------------------------------------------------------------
(* updateEvent, deleteEvent.                                               *)

\* A change loads the club with the event and takes an event whose club is gone
\* for one without a club, which is the administrators'.
FindEvent(t) ==
    /\ task[t].at = "event"
    /\ LET found == event[task[t].event]
           orphan == found # None /\ club[found.club] = None /\ task[t].kind = "edit"
       IN IF found = None \/ (orphan /\ task[t].by # Root)
          THEN Finish(t)
          ELSE /\ task' = [task EXCEPT ![t].copy = found,
                                       ![t].at = IF orphan THEN "save" ELSE "access"]
               /\ UNCHANGED <<club, received, downs, overlapped, late>>
    /\ UNCHANGED <<event, issued>>

CheckEventClub(t) ==
    /\ task[t].at = "access"
    /\ IF Access(task[t].by, task[t].copy.club)
       THEN Proceed(t, IF task[t].kind = "edit" THEN "save" ELSE "delete")
       ELSE Finish(t) /\ UNCHANGED issued
    /\ UNCHANGED event

Delete(t) ==
    /\ task[t].at = "delete"
    /\ event' = [event EXCEPT ![task[t].event] = None]
    /\ Finish(t)
    /\ UNCHANGED issued

-----------------------------------------------------------------------------
(* updateEventCommon.                                                      *)

\* Coordinators loaded with their accounts differ from the IDs that replace them.
Rewrites(t) == task[t].coords # {} \/ task[t].copy.coords # {}

SaveFails(t) ==
    event[task[t].event] # None
        => (Rewrites(t) /\ event[task[t].event].version # task[t].copy.version)

Save(t) ==
    /\ task[t].at = "save" /\ ~SaveFails(t)
    /\ event' = IF Rewrites(t)
                THEN [event EXCEPT ![task[t].event].coords = task[t].coords,
                                   ![task[t].event].version = @ + 1]
                ELSE event
    /\ Finish(t)
    /\ UNCHANGED issued

\* The rejected promise has no handler.
Down(t) ==
    /\ task[t].at = "save" /\ SaveFails(t)
    /\ task' = [u \in Tasks |-> Rest]
    /\ downs' = downs + 1
    /\ late' = {}
    /\ UNCHANGED <<club, event, issued, received, overlapped>>

-----------------------------------------------------------------------------

\* A save of Clubs that changes who belongs, or the deletion of the club.
ChangeClub(c, people) ==
    /\ club[c] # None /\ people # club[c]
    /\ Counted
    /\ club' = [club EXCEPT ![c] = people]
    /\ UNCHANGED <<event, issued, task, downs, overlapped>>
    /\ late' = late \cup {l \in Tasks \X {c} : /\ task[l[1]] # Rest
                                              /\ Access(task[l[1]].by, c)
                                              /\ ~Access(task[l[1]].by, c)'}

Step(t) ==
    \/ CheckClub(t) \/ Insert(t) \/ FindInClub(t) \/ RemoveInClub(t)
    \/ FindEvent(t) \/ CheckEventClub(t) \/ Delete(t) \/ Save(t) \/ Down(t)

Next ==
    \/ \E t \in Tasks : Step(t)
    \/ \E t \in Tasks, a \in Actors, e \in Events, coords \in SUBSET People :
          \/ \E c \in Clubs : AskToCreate(t, a, c, e, coords)
          \/ \E c \in Clubs : AskInClub(t, a, "edit", c, e, coords)
          \/ AskByEvent(t, a, "edit", e, coords)
    \/ \E t \in Tasks, a \in Actors, e \in Events :
          \/ \E c \in Clubs : AskInClub(t, a, "drop", c, e, {})
          \/ AskByEvent(t, a, "drop", e, {})
    \/ \E c \in Clubs, people \in (SUBSET People) \cup {None} : ChangeClub(c, people)

Spec == Init /\ [][Next]_vars

-----------------------------------------------------------------------------

\* Whichever route is taken, an event is created, changed or deleted only by
\* people who have had access to its own club since they asked, save that an
\* administrator may change one whose club is gone; nobody can delete that one
\* (eventController.js:251-263).
EventsStayWithTheirClub ==
    [][\A e \in Events :
          event'[e] # event[e]
             => \E t \in Tasks :
                   /\ task[t].event = e /\ task'[t] = Rest
                   /\ LET c == IF event[e] = None THEN event'[e].club ELSE event[e].club
                      IN \/ Access(task[t].by, c) \/ <<t, c>> \in late
                         \/ task[t].by = Root /\ task[t].kind = "edit"]_vars

\* The process ends by itself only if two requests about one event overlapped: a
\* request that finds no event, or no club, is answered (eventController.js:239).
ProcessEndsOnlyByOverlap == downs > 0 => overlapped # {}
====
