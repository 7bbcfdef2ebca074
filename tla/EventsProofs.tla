---- MODULE EventsProofs ----
(***************************************************************************)
(* Proofs about ClubEvents and the page over it, for every set of people,  *)
(* clubs, events and concurrent requests.                                  *)
(***************************************************************************)
EXTENDS EventsPage, TLAPS

-----------------------------------------------------------------------------
(* Types.                                                                  *)

\* Which kinds of request reach which step, and what they carry there.
Shaped(r) ==
    /\ r \in Task
    /\ r.at = "rest" => r = Rest
    /\ r.at # "rest" => r.by \in Actors /\ r.event \in Events
    /\ r.at \in {"club", "insert", "find", "remove"} => r.club \in Clubs
    /\ r.at = "insert" => r.kind = "create"
    /\ r.at \in {"find", "save"} => r.kind = "edit"
    /\ r.at \in {"remove", "delete"} => r.kind = "drop"
    /\ r.at \in {"event", "access"} => r.kind \in {"edit", "drop"}
    /\ r.at \in {"access", "save", "delete"} => r.copy \in Event \ {None}

Typed == TypeOK /\ \A t \in Tasks : Shaped(task[t])

LEMMA RestIsShaped == Shaped(Rest)
  BY DEF Shaped, Rest, Task, Places, Kinds

LEMMA OneTaskMoves ==
    ASSUME Typed, NEW t \in Tasks, NEW r, Shaped(r), task' = [task EXCEPT ![t] = r]
    PROVE  task' \in [Tasks -> Task] /\ \A u \in Tasks : Shaped(task'[u])
  BY DEF Typed, TypeOK, Shaped

LEMMA FinishTyped ==
    ASSUME Typed, NEW t \in Tasks, Finish(t),
           event' \in [Events -> Event \cup {None}], issued' \subseteq Events
    PROVE  Typed'
<1>1. task' \in [Tasks -> Task] /\ \A u \in Tasks : Shaped(task'[u])
  BY RestIsShaped, OneTaskMoves DEF Finish
<1> QED
  BY <1>1 DEF Finish, Typed, TypeOK

LEMMA MoveTyped ==
    ASSUME Typed, NEW t \in Tasks, NEW r, Shaped(r), task' = [task EXCEPT ![t] = r],
           UNCHANGED <<club, event, issued, received, downs, overlapped, late>>
    PROVE  Typed'
<1>1. task' \in [Tasks -> Task] /\ \A u \in Tasks : Shaped(task'[u])
  BY OneTaskMoves
<1> QED
  BY <1>1 DEF Typed, TypeOK

LEMMA ReceiveTyped ==
    ASSUME Typed, NEW t \in Tasks, NEW r, Shaped(r), Receive(t, r),
           received' \in 0 .. MaxRequests
    PROVE  Typed'
<1>1. task' \in [Tasks -> Task] /\ \A u \in Tasks : Shaped(task'[u])
  BY OneTaskMoves DEF Receive
<1> QED
  BY <1>1 DEF Receive, Typed, TypeOK

LEMMA CountedTyped == Typed /\ Counted => received' \in 0 .. MaxRequests
  BY BoundsAssumption DEF Typed, TypeOK, Counted

LEMMA AskTyped ==
    ASSUME Typed, NEW t \in Tasks, NEW a \in Actors, NEW e \in Events,
           NEW coords \in SUBSET People, NEW kind \in {"edit", "drop"},
           \/ \E c \in Clubs : AskToCreate(t, a, c, e, coords) \/ AskInClub(t, a, kind, c, e, coords)
           \/ AskByEvent(t, a, kind, e, coords)
    PROVE  Typed'
<1>1. ASSUME NEW c \in Clubs, AskToCreate(t, a, c, e, coords) PROVE Typed'
  <2> DEFINE r == [Rest EXCEPT !.at = "club", !.by = a, !.club = c, !.event = e, !.coords = coords]
  <2>1. Shaped(r)
    BY DEF Shaped, Rest, Task, Places, Kinds
  <2>2. Receive(t, r) /\ received' \in 0 .. MaxRequests
    BY <1>1 DEF AskToCreate, Typed, TypeOK
  <2> HIDE DEF r
  <2> QED
    BY <2>1, <2>2, ReceiveTyped
<1>2. ASSUME NEW c \in Clubs, AskInClub(t, a, kind, c, e, coords) PROVE Typed'
  <2> DEFINE r == [at |-> "club", kind |-> kind, by |-> a, club |-> c, event |-> e,
                   coords |-> coords, copy |-> None]
  <2>1. Shaped(r)
    BY DEF Shaped, Task, Places, Kinds
  <2>2. Receive(t, r) /\ received' \in 0 .. MaxRequests
    BY <1>2, CountedTyped DEF AskInClub
  <2> HIDE DEF r
  <2> QED
    BY <2>1, <2>2, ReceiveTyped
<1>3. ASSUME AskByEvent(t, a, kind, e, coords) PROVE Typed'
  <2> DEFINE r == [at |-> "event", kind |-> kind, by |-> a, club |-> None, event |-> e,
                   coords |-> coords, copy |-> None]
  <2>1. Shaped(r)
    BY DEF Shaped, Task, Places, Kinds
  <2>2. Receive(t, r) /\ received' \in 0 .. MaxRequests
    BY <1>3, CountedTyped DEF AskByEvent
  <2> HIDE DEF r
  <2> QED
    BY <2>1, <2>2, ReceiveTyped
<1> QED
  BY <1>1, <1>2, <1>3

LEMMA StepTyped ==
    ASSUME Typed, NEW t \in Tasks, Step(t)
    PROVE  Typed'
<1>1. Shaped(task[t]) /\ task[t] \in Task /\ Typed
  BY DEF Typed, TypeOK
<1>2. CASE CheckClub(t)
  <2> DEFINE to == [create |-> "insert", edit |-> "find", drop |-> "remove"][task[t].kind]
  <2>1. Shaped([task[t] EXCEPT !.at = to])
    BY <1>1, <1>2 DEF CheckClub, Shaped, Task, Places, Kinds
  <2>2. \/ Proceed(t, to) /\ UNCHANGED event
        \/ Finish(t) /\ UNCHANGED <<event, issued>>
    BY <1>2 DEF CheckClub
  <2> HIDE DEF to
  <2> QED
    BY <2>1, <2>2, MoveTyped, FinishTyped DEF Proceed, Typed, TypeOK
<1>3. CASE Insert(t)
  <2>1. event' \in [Events -> Event \cup {None}] /\ issued' \subseteq Events
    BY <1>1, <1>3 DEF Insert, Shaped, Typed, TypeOK, Task, Event
  <2> QED
    BY <1>3, <2>1, FinishTyped DEF Insert
<1>4. CASE FindInClub(t)
  <2> DEFINE r == [task[t] EXCEPT !.copy = event[task[t].event], !.at = "save"]
  <2>1. CASE OfClub(t)
    <3>1. Shaped(r)
      BY <1>1, <1>4, <2>1 DEF FindInClub, OfClub, Shaped, Typed, TypeOK, Task, Places, Kinds
    <3>2. task' = [task EXCEPT ![t] = r]
      BY <1>1, <1>4, <2>1 DEF FindInClub, Typed, TypeOK
    <3> HIDE DEF r
    <3> QED
      BY <1>4, <2>1, <3>1, <3>2, MoveTyped DEF FindInClub
  <2>2. CASE ~OfClub(t)
    BY <1>4, <2>2, FinishTyped DEF FindInClub, Typed, TypeOK
  <2> QED
    BY <2>1, <2>2
<1>5. CASE RemoveInClub(t)
  <2>1. event' \in [Events -> Event \cup {None}] /\ issued' \subseteq Events
    BY <1>1, <1>5 DEF RemoveInClub, Shaped, Typed, TypeOK
  <2> QED
    BY <1>5, <2>1, FinishTyped DEF RemoveInClub
<1>6. CASE FindEvent(t)
  <2> DEFINE found == event[task[t].event]
             orphan == found # None /\ club[found.club] = None /\ task[t].kind = "edit"
             r == [task[t] EXCEPT !.copy = found, !.at = IF orphan THEN "save" ELSE "access"]
  <2>1. CASE found = None \/ (orphan /\ task[t].by # Root)
    BY <1>6, <2>1, FinishTyped DEF FindEvent, Typed, TypeOK
  <2>2. CASE ~(found = None \/ (orphan /\ task[t].by # Root))
    <3>1. Shaped(r)
      BY <1>1, <1>6, <2>2 DEF FindEvent, Shaped, Typed, TypeOK, Task, Places, Kinds
    <3>2. task' = [task EXCEPT ![t] = r]
      BY <1>1, <1>6, <2>2 DEF FindEvent, Typed, TypeOK
    <3>3. UNCHANGED <<club, event, issued, received, downs, overlapped, late>>
      BY <1>6, <2>2 DEF FindEvent
    <3> HIDE DEF r
    <3> QED
      BY <3>1, <3>2, <3>3, MoveTyped
  <2> QED
    BY <2>1, <2>2
<1>7. CASE CheckEventClub(t)
  <2> DEFINE to == IF task[t].kind = "edit" THEN "save" ELSE "delete"
  <2>1. Shaped([task[t] EXCEPT !.at = to])
    BY <1>1, <1>7 DEF CheckEventClub, Shaped, Task, Places, Kinds
  <2>2. \/ Proceed(t, to) /\ UNCHANGED event
        \/ Finish(t) /\ UNCHANGED <<event, issued>>
    BY <1>7 DEF CheckEventClub
  <2> HIDE DEF to
  <2> QED
    BY <2>1, <2>2, MoveTyped, FinishTyped DEF Proceed, Typed, TypeOK
<1>8. CASE Delete(t)
  <2>1. event' \in [Events -> Event \cup {None}] /\ issued' \subseteq Events
    BY <1>1, <1>8 DEF Delete, Shaped, Typed, TypeOK
  <2> QED
    BY <1>8, <2>1, FinishTyped DEF Delete
<1>9. CASE Save(t)
  <2>1. event[task[t].event] \in Event /\ task[t].event \in Events
    BY <1>1, <1>9 DEF Save, SaveFails, Shaped, Typed, TypeOK
  <2>2. event' \in [Events -> Event \cup {None}] /\ issued' \subseteq Events
    BY <1>1, <1>9, <2>1 DEF Save, Typed, TypeOK, Task, Event
  <2> QED
    BY <1>9, <2>2, FinishTyped DEF Save
<1>10. CASE Down(t)
  BY <1>10, RestIsShaped DEF Down, Shaped, Typed, TypeOK
<1> QED
  BY <1>2, <1>3, <1>4, <1>5, <1>6, <1>7, <1>8, <1>9, <1>10 DEF Step

LEMMA ChangeClubTyped ==
    ASSUME Typed, NEW c \in Clubs, NEW people \in (SUBSET People) \cup {None}, ChangeClub(c, people)
    PROVE  Typed'
<1>1. received' \in 0 .. MaxRequests
  BY CountedTyped DEF ChangeClub
<1>2. late' \subseteq Tasks \X Clubs
  BY DEF ChangeClub, Typed, TypeOK
<1> QED
  BY <1>1, <1>2 DEF ChangeClub, Typed, TypeOK

\* What a step of Next is: one of a task, a request that is received, a change
\* of a club.
LEMMA NextIs ==
    ASSUME Next
    PROVE  \/ \E t \in Tasks : Step(t)
           \/ \E t \in Tasks, a \in Actors, e \in Events, coords \in SUBSET People,
                 kind \in {"edit", "drop"} :
                 \/ \E c \in Clubs : \/ AskToCreate(t, a, c, e, coords)
                                     \/ AskInClub(t, a, kind, c, e, coords)
                 \/ AskByEvent(t, a, kind, e, coords)
           \/ \E c \in Clubs, people \in (SUBSET People) \cup {None} : ChangeClub(c, people)
<1>1. {} \in SUBSET People
  OBVIOUS
<1> QED
  BY <1>1 DEF Next

LEMMA TypedInductive == Typed /\ [Next]_vars => Typed'
<1> SUFFICES ASSUME Typed, [Next]_vars PROVE Typed'
  OBVIOUS
<1>1. CASE Next
  BY <1>1, NextIs, StepTyped, AskTyped, ChangeClubTyped
<1>2. CASE UNCHANGED vars
  BY <1>2 DEF vars, Typed, TypeOK
<1> QED
  BY <1>1, <1>2

LEMMA TypedInitially == Init => Typed
  BY BoundsAssumption, RestIsShaped DEF Init, Typed, TypeOK, Shaped

\* Every variable keeps its type, whatever requests overlap or end the process.
THEOREM TypeCorrect == Spec => []TypeOK
<1>1. Typed => TypeOK
  BY DEF Typed
<1> QED
  BY <1>1, TypedInitially, TypedInductive, PTL DEF Spec

-----------------------------------------------------------------------------
(* The steps of a task: it goes on, having become r, it ends, or it ends   *)
(* the process.                                                            *)

GoesOn(t, r) ==
    /\ task' = [task EXCEPT ![t] = r]
    /\ UNCHANGED <<club, event, issued, received, downs, overlapped, late>>
    /\ Shaped(r) /\ task[t].at # "rest" /\ r.at # "rest"
    /\ r.kind = task[t].kind /\ r.by = task[t].by /\ r.club = task[t].club
    /\ r.event = task[t].event /\ r.coords = task[t].coords
    /\ r.at \in {"insert", "find", "remove"} => Access(r.by, r.club)
    /\ r.at \in {"access", "save", "delete"} =>
          \/ task[t].at \in {"find", "event"} /\ r.copy = event[r.event]
          \/ task[t].at = "access" /\ r.copy = task[t].copy
    /\ r.at = "save" =>
          \/ task[t].at = "find" /\ r.copy.club = r.club
          \/ r.by = Root
          \/ Access(r.by, r.copy.club)
    /\ r.at = "delete" => Access(r.by, r.copy.club)

Ends(t) ==
    /\ task[t].at # "rest" /\ Finish(t)
    /\ \/ UNCHANGED <<event, issued>> /\ task[t].at \notin {"insert", "delete"}
       \/ Insert(t) \/ RemoveInClub(t) \/ Delete(t) \/ Save(t)

LEMMA StepIs ==
    ASSUME Typed, NEW t \in Tasks, Step(t)
    PROVE  Down(t) \/ Ends(t) \/ \E r : GoesOn(t, r)
<1>1. Shaped(task[t]) /\ task[t] \in Task
  BY DEF Typed, TypeOK
<1>2. CASE CheckClub(t)
  <2> DEFINE to == [create |-> "insert", edit |-> "find", drop |-> "remove"][task[t].kind]
             r == [task[t] EXCEPT !.at = to]
  <2>1. CASE Access(task[t].by, task[t].club)
    <3>1. /\ Shaped(r) /\ r.at \in {"insert", "find", "remove"}
          /\ r.kind = task[t].kind /\ r.by = task[t].by /\ r.club = task[t].club
          /\ r.event = task[t].event /\ r.coords = task[t].coords
      BY <1>1, <1>2 DEF CheckClub, Shaped, Task, Places, Kinds
    <3>2. task' = [task EXCEPT ![t] = r]
      BY <1>2, <2>1 DEF CheckClub, Proceed, Typed, TypeOK
    <3> HIDE DEF r
    <3> QED
      BY <1>2, <2>1, <3>1, <3>2 DEF CheckClub, Proceed, GoesOn
  <2>2. CASE ~Access(task[t].by, task[t].club)
    BY <1>2, <2>2 DEF CheckClub, Ends
  <2> QED
    BY <2>1, <2>2
<1>3. CASE FindInClub(t)
  <2> DEFINE r == [task[t] EXCEPT !.copy = event[task[t].event], !.at = "save"]
  <2>1. CASE OfClub(t)
    <3>1. /\ Shaped(r) /\ r.at = "save" /\ r.copy = event[r.event] /\ r.copy.club = r.club
          /\ r.kind = task[t].kind /\ r.by = task[t].by /\ r.club = task[t].club
          /\ r.event = task[t].event /\ r.coords = task[t].coords
      BY <1>1, <1>3, <2>1 DEF FindInClub, OfClub, Shaped, Typed, TypeOK, Task, Places, Kinds
    <3>2. task' = [task EXCEPT ![t] = r]
      BY <1>1, <1>3, <2>1 DEF FindInClub, Typed, TypeOK
    <3> HIDE DEF r
    <3> QED
      BY <1>3, <2>1, <3>1, <3>2 DEF FindInClub, GoesOn
  <2>2. CASE ~OfClub(t)
    BY <1>3, <2>2 DEF FindInClub, Ends
  <2> QED
    BY <2>1, <2>2
<1>4. CASE FindEvent(t)
  <2> DEFINE found == event[task[t].event]
             orphan == found # None /\ club[found.club] = None /\ task[t].kind = "edit"
             r == [task[t] EXCEPT !.copy = found, !.at = IF orphan THEN "save" ELSE "access"]
  <2>1. CASE found = None \/ (orphan /\ task[t].by # Root)
    BY <1>4, <2>1 DEF FindEvent, Ends
  <2>2. CASE ~(found = None \/ (orphan /\ task[t].by # Root))
    <3>1. /\ Shaped(r) /\ r.copy = event[r.event]
          /\ r.at = "access" \/ (r.at = "save" /\ r.by = Root)
          /\ r.kind = task[t].kind /\ r.by = task[t].by /\ r.club = task[t].club
          /\ r.event = task[t].event /\ r.coords = task[t].coords
      BY <1>1, <1>4, <2>2 DEF FindEvent, Shaped, Typed, TypeOK, Task, Places, Kinds
    <3>2. task' = [task EXCEPT ![t] = r]
      BY <1>1, <1>4, <2>2 DEF FindEvent, Typed, TypeOK
    <3>3. UNCHANGED <<club, event, issued, received, downs, overlapped, late>>
      BY <1>4, <2>2 DEF FindEvent
    <3> HIDE DEF r
    <3> QED
      BY <1>4, <3>1, <3>2, <3>3 DEF FindEvent, GoesOn
  <2> QED
    BY <2>1, <2>2
<1>5. CASE CheckEventClub(t)
  <2> DEFINE r == [task[t] EXCEPT !.at = IF task[t].kind = "edit" THEN "save" ELSE "delete"]
  <2>1. CASE Access(task[t].by, task[t].copy.club)
    <3>1. /\ Shaped(r) /\ r.copy = task[t].copy /\ r.at \in {"save", "delete"}
          /\ r.kind = task[t].kind /\ r.by = task[t].by /\ r.club = task[t].club
          /\ r.event = task[t].event /\ r.coords = task[t].coords
      BY <1>1, <1>5 DEF CheckEventClub, Shaped, Task, Places, Kinds
    <3>2. task' = [task EXCEPT ![t] = r]
      BY <1>5, <2>1 DEF CheckEventClub, Proceed, Typed, TypeOK
    <3> HIDE DEF r
    <3> QED
      BY <1>5, <2>1, <3>1, <3>2 DEF CheckEventClub, Proceed, GoesOn
  <2>2. CASE ~Access(task[t].by, task[t].copy.club)
    BY <1>5, <2>2 DEF CheckEventClub, Ends
  <2> QED
    BY <2>1, <2>2
<1>6. CASE Insert(t) \/ RemoveInClub(t) \/ Delete(t) \/ Save(t)
  BY <1>6 DEF Insert, RemoveInClub, Delete, Save, Ends
<1> QED
  BY <1>2, <1>3, <1>4, <1>5, <1>6 DEF Step

\* A task that ends changes its own event at most.
LEMMA EndsIs ==
    ASSUME Typed, NEW t \in Tasks, Ends(t)
    PROVE  /\ task'[t] = Rest /\ \A u \in Tasks \ {t} : task'[u] = task[u]
           /\ \A e \in Events : e # task[t].event => event'[e] = event[e]
           /\ Finish(t)
  BY DEF Ends, Finish, Insert, RemoveInClub, Delete, Save, Typed, TypeOK

LEMMA GoesOnIs ==
    ASSUME Typed, NEW t \in Tasks, NEW r, GoesOn(t, r)
    PROVE  task'[t] = r /\ \A u \in Tasks \ {t} : task'[u] = task[u]
  BY DEF GoesOn, Typed, TypeOK

-----------------------------------------------------------------------------
(* The end of the process.                                                 *)

\* What a request has read of its event still holds unless another request was
\* about the event meanwhile.
Raced ==
    /\ \A t, u \in Tasks :
          t # u /\ task[t].event = task[u].event /\ task[t].event # None
             => task[t].event \in overlapped
    /\ \A t \in Tasks :
          task[t].at \in {"access", "save", "delete"}
             => event[task[t].event] = task[t].copy \/ task[t].event \in overlapped

RacedInv == Raced /\ ProcessEndsOnlyByOverlap

LEMMA RestIsNobodys == Rest.event = None /\ Rest.at = "rest" /\ None \notin Events
  BY ActorsAssumption DEF Rest

LEMMA StepKeepsRaced ==
    ASSUME Typed, RacedInv, NEW t \in Tasks, Step(t)
    PROVE  RacedInv'
<1>1. Shaped(task[t]) /\ task[t] \in Task
  BY DEF Typed, TypeOK
<1>2. CASE Down(t)
  <2>1. task[t].event \in overlapped
    BY <1>1, <1>2, ActorsAssumption DEF Down, SaveFails, Shaped, RacedInv, Raced, Event
  <2>2. Raced'
    BY <1>2, RestIsNobodys DEF Down, Raced
  <2> QED
    BY <1>2, <2>1, <2>2 DEF Down, RacedInv, ProcessEndsOnlyByOverlap
<1>3. CASE Ends(t)
  <2>1. task[t].event \in Events
    BY <1>1, <1>3 DEF Ends, Shaped
  <2> QED
    BY <1>3, <2>1, EndsIs, RestIsNobodys
       DEF RacedInv, Raced, ProcessEndsOnlyByOverlap, Finish, Typed, Shaped
<1>4. ASSUME NEW r, GoesOn(t, r) PROVE RacedInv'
  BY <1>4, GoesOnIs DEF GoesOn, RacedInv, Raced, ProcessEndsOnlyByOverlap
<1> QED
  BY <1>2, <1>3, <1>4, StepIs

\* What is received.
LEMMA AskIs ==
    ASSUME NEW t \in Tasks, NEW a \in Actors, NEW e \in Events,
           NEW coords \in SUBSET People, NEW kind \in {"edit", "drop"},
           \/ \E c \in Clubs : AskToCreate(t, a, c, e, coords) \/ AskInClub(t, a, kind, c, e, coords)
           \/ AskByEvent(t, a, kind, e, coords)
    PROVE  \E r : /\ Receive(t, r) /\ r.event = e /\ r.event \in Events
                  /\ r.at \in {"club", "event"} /\ r.by = a
                  /\ \/ r.kind = "create" /\ e \notin issued /\ \A u \in Tasks : task[u].event # e
                     \/ r.kind # "create" /\ e \in issued
<1>1. ASSUME NEW c \in Clubs, AskToCreate(t, a, c, e, coords)
      PROVE  LET r == [Rest EXCEPT !.at = "club", !.by = a, !.club = c, !.event = e,
                                   !.coords = coords]
             IN  /\ Receive(t, r) /\ r.event = e /\ r.at = "club" /\ r.by = a /\ r.kind = "create"
                 /\ e \notin issued /\ \A u \in Tasks : task[u].event # e
  BY <1>1 DEF AskToCreate, Rest
<1>2. ASSUME NEW c \in Clubs, AskInClub(t, a, kind, c, e, coords)
      PROVE  LET r == [at |-> "club", kind |-> kind, by |-> a, club |-> c, event |-> e,
                       coords |-> coords, copy |-> None]
             IN  /\ Receive(t, r) /\ r.event = e /\ r.at = "club" /\ r.by = a /\ r.kind # "create"
                 /\ e \in issued
  BY <1>2 DEF AskInClub
<1>3. ASSUME AskByEvent(t, a, kind, e, coords)
      PROVE  LET r == [at |-> "event", kind |-> kind, by |-> a, club |-> None, event |-> e,
                       coords |-> coords, copy |-> None]
             IN  /\ Receive(t, r) /\ r.event = e /\ r.at = "event" /\ r.by = a /\ r.kind # "create"
                 /\ e \in issued
  BY <1>3 DEF AskByEvent
<1> QED
  BY <1>1, <1>2, <1>3

LEMMA ReceiveKeepsRaced ==
    ASSUME Typed, RacedInv, NEW t \in Tasks, NEW r,
           r.event \in Events, r.at \in {"club", "event"}, Receive(t, r)
    PROVE  RacedInv'
<1>1. task'[t] = r /\ \A u \in Tasks \ {t} : task'[u] = task[u]
  BY DEF Receive, Typed, TypeOK
<1>2. Raced'
  BY <1>1 DEF Receive, RacedInv, Raced
<1> QED
  BY <1>2 DEF Receive, RacedInv, ProcessEndsOnlyByOverlap

LEMMA RacedInductive == Typed /\ RacedInv /\ [Next]_vars => RacedInv'
<1> SUFFICES ASSUME Typed, RacedInv, [Next]_vars PROVE RacedInv'
  OBVIOUS
<1>1. ASSUME NEW t \in Tasks, NEW a \in Actors, NEW e \in Events, NEW coords \in SUBSET People,
             NEW kind \in {"edit", "drop"},
             \/ \E c \in Clubs : \/ AskToCreate(t, a, c, e, coords)
                                 \/ AskInClub(t, a, kind, c, e, coords)
             \/ AskByEvent(t, a, kind, e, coords)
      PROVE  RacedInv'
  <2>1. PICK r : Receive(t, r) /\ r.event \in Events /\ r.at \in {"club", "event"}
    BY <1>1, AskIs
  <2> QED
    BY <2>1, ReceiveKeepsRaced
<1>2. ASSUME NEW c \in Clubs, NEW people, ChangeClub(c, people) PROVE RacedInv'
  BY <1>2 DEF ChangeClub, RacedInv, Raced, ProcessEndsOnlyByOverlap
<1>3. CASE UNCHANGED vars
  BY <1>3 DEF vars, RacedInv, Raced, ProcessEndsOnlyByOverlap
<1> QED
  BY <1>1, <1>2, <1>3, NextIs, StepKeepsRaced

\* The process ends by itself only after two requests about one event overlapped:
\* the failing save needs an event that changed or went after it was read.
THEOREM EndsByOverlapOnly == Spec => []ProcessEndsOnlyByOverlap
<1>1. Init => RacedInv
  BY RestIsNobodys DEF Init, RacedInv, Raced, ProcessEndsOnlyByOverlap
<1>2. RacedInv => ProcessEndsOnlyByOverlap
  BY DEF RacedInv
<1> QED
  BY <1>1, <1>2, TypedInitially, TypedInductive, RacedInductive, PTL DEF Spec

-----------------------------------------------------------------------------
(* Events and their clubs.                                                 *)

\* An ID is used once.
Fresh ==
    /\ \A e \in Events : event[e] # None => e \in issued
    /\ \A t \in Tasks : task[t].at # "rest" => (task[t].kind = "create" <=> task[t].event \notin issued)
    /\ \A t, u \in Tasks :
          t # u /\ task[t].at # "rest" /\ task[t].kind = "create" => task[u].event # task[t].event

\* The sender has access to the club, or lost it after the request came in.
Allowed(t, c) == Access(task[t].by, c) \/ <<t, c>> \in late

Vetted(t) ==
    /\ task[t].at \in {"insert", "find", "remove"} => Allowed(t, task[t].club)
    /\ task[t].at \in {"access", "save", "delete"} =>
          event[task[t].event] = None \/ event[task[t].event].club = task[t].copy.club
    /\ task[t].at = "save" => task[t].by = Root \/ Allowed(t, task[t].copy.club)
    /\ task[t].at = "delete" => Allowed(t, task[t].copy.club)

VettedInv == Fresh /\ \A t \in Tasks : Vetted(t)

\* What a step does to the events.
LEMMA EventChanges ==
    ASSUME Typed, Fresh, NEW t \in Tasks, Ends(t), NEW e \in Events, event'[e] # event[e]
    PROVE  /\ e = task[t].event
           /\ \/ event'[e] = None /\ task[t].at \in {"remove", "delete"} /\ issued' = issued
              \/ /\ event[e] # None /\ event'[e].club = event[e].club
                 /\ event'[e].version = event[e].version + 1
                 /\ task[t].at = "save" /\ issued' = issued
              \/ /\ event[e] = None /\ event'[e].club = task[t].club
                 /\ task[t].at = "insert" /\ issued' = issued \cup {e}
<1>1. Shaped(task[t]) /\ task[t] \in Task
  BY DEF Typed, TypeOK
<1>2. e = task[t].event
  BY EndsIs
<1>3. CASE Insert(t)
  BY <1>1, <1>2, <1>3 DEF Insert, Fresh, Shaped, Typed, TypeOK
<1>4. CASE RemoveInClub(t) \/ Delete(t)
  BY <1>1, <1>2, <1>4 DEF RemoveInClub, Delete, Typed, TypeOK
<1>5. CASE Save(t)
  <2>1. event[e] # None /\ event[e] \in Event
    BY <1>2, <1>5 DEF Save, SaveFails, Typed, TypeOK
  <2> QED
    BY <1>1, <1>2, <1>5, <2>1 DEF Save, Typed, TypeOK, Event
<1> QED
  BY <1>2, <1>3, <1>4, <1>5 DEF Ends

LEMMA StepKeepsVetted ==
    ASSUME Typed, VettedInv, NEW t \in Tasks, Step(t)
    PROVE  VettedInv'
<1>1. Shaped(task[t]) /\ task[t] \in Task
  BY DEF Typed, TypeOK
<1>2. CASE Down(t)
  BY <1>2, RestIsNobodys DEF Down, VettedInv, Fresh, Vetted
<1>3. CASE Ends(t)
  <2>1. task[t].event \in Events
    BY <1>1, <1>3 DEF Ends, Shaped
  <2>2. issued' = issued \/ (issued' = issued \cup {task[t].event} /\ task[t].kind = "create")
    BY <1>1, <1>3 DEF Ends, Insert, RemoveInClub, Delete, Save, Shaped
  <2>3. Fresh'
    BY <1>1, <1>3, <2>1, <2>2, EndsIs, EventChanges, RestIsNobodys DEF VettedInv, Fresh, Typed, Shaped
  <2>4. ASSUME NEW u \in Tasks PROVE Vetted(u)'
    <3>1. CASE u = t
      BY <1>3, <3>1, EndsIs, RestIsNobodys DEF Vetted
    <3>2. CASE u # t
      <4>1. task'[u] = task[u] /\ Shaped(task[u]) /\ club' = club
        BY <1>3, <3>2, EndsIs DEF Finish, Typed
      <4>2. \A c : Allowed(u, c)' <=> Allowed(u, c)
        BY <1>3, <3>2, <4>1, EndsIs DEF Allowed, Access, Finish
      <4>3. task[u].at \in {"access", "save", "delete"} =>
               \/ event'[task[u].event] = None
               \/ event'[task[u].event].club = task[u].copy.club
        BY <1>1, <1>3, <3>2, <4>1, EventChanges DEF VettedInv, Vetted, Fresh, Shaped, Ends
      <4> QED
        BY <4>1, <4>2, <4>3 DEF VettedInv, Vetted
    <3> QED
      BY <3>1, <3>2
  <2> QED
    BY <2>3, <2>4 DEF VettedInv
<1>4. ASSUME NEW r, GoesOn(t, r) PROVE VettedInv'
  <2>1. Fresh'
    BY <1>4, GoesOnIs DEF GoesOn, VettedInv, Fresh
  <2>2. ASSUME NEW u \in Tasks \ {t} PROVE Vetted(u)'
    BY <1>4, GoesOnIs DEF GoesOn, VettedInv, Vetted, Allowed, Access
  <2>3. Vetted(t)'
    <3>1. /\ task'[t] = r /\ club' = club /\ late' = late /\ event' = event
          /\ r.by = task[t].by /\ r.club = task[t].club /\ r.event = task[t].event
      BY <1>4, GoesOnIs DEF GoesOn
    <3>2. \A c : Access(r.by, c) \/ Allowed(t, c) => Allowed(t, c)'
      BY <3>1 DEF Allowed, Access
    <3>3. r.at \in {"insert", "find", "remove"} => Allowed(t, r.club)'
      BY <1>4, <3>2 DEF GoesOn
    <3>4. r.at \in {"access", "save", "delete"} =>
             event[r.event] = None \/ event[r.event].club = r.copy.club
      BY <1>4, <3>1 DEF GoesOn, VettedInv, Vetted
    <3>5. r.at = "save" => r.by = Root \/ Allowed(t, r.copy.club)'
      BY <1>4, <3>1, <3>2 DEF GoesOn, VettedInv, Vetted
    <3>6. r.at = "delete" => Allowed(t, r.copy.club)'
      BY <1>4, <3>2 DEF GoesOn
    <3> QED
      BY <3>1, <3>3, <3>4, <3>5, <3>6 DEF Vetted
  <2> QED
    BY <2>1, <2>2, <2>3 DEF VettedInv
<1> QED
  BY <1>2, <1>3, <1>4, StepIs

LEMMA ReceiveKeepsVetted ==
    ASSUME Typed, VettedInv, NEW t \in Tasks, NEW r, Receive(t, r),
           r.event \in Events, r.at \in {"club", "event"}, UNCHANGED club,
           \/ /\ r.kind = "create" /\ r.event \notin issued
              /\ \A u \in Tasks : task[u].event # r.event
           \/ r.kind # "create" /\ r.event \in issued
    PROVE  VettedInv'
<1>1. task'[t] = r /\ \A u \in Tasks \ {t} : task'[u] = task[u]
  BY DEF Receive, Typed, TypeOK
<1>2. Fresh'
  BY <1>1 DEF Receive, VettedInv, Fresh
<1>3. ASSUME NEW u \in Tasks PROVE Vetted(u)'
  BY <1>1 DEF Receive, VettedInv, Vetted, Allowed, Access
<1> QED
  BY <1>2, <1>3 DEF VettedInv

\* Whoever loses the club while a request is in flight is recorded.
LEMMA ChangeKeepsVetted ==
    ASSUME Typed, VettedInv, NEW c \in Clubs, NEW people \in (SUBSET People) \cup {None},
           ChangeClub(c, people)
    PROVE  VettedInv'
<1>1. task' = task /\ event' = event /\ issued' = issued
  BY DEF ChangeClub
<1>2. Fresh'
  BY <1>1 DEF VettedInv, Fresh
<1>3. ASSUME NEW t \in Tasks, NEW d, task[t].at # "rest", Allowed(t, d) PROVE Allowed(t, d)'
  <2>1. task[t] # Rest
    BY <1>3, RestIsNobodys
  <2>2. CASE d = c
    BY <1>1, <1>3, <2>1, <2>2 DEF ChangeClub, Allowed, Access
  <2>3. CASE d # c
    BY <1>1, <1>3, <2>3 DEF ChangeClub, Allowed, Access, Typed, TypeOK
  <2> QED
    BY <2>2, <2>3
<1>4. ASSUME NEW t \in Tasks PROVE Vetted(t)'
  BY <1>1, <1>3 DEF VettedInv, Vetted
<1> QED
  BY <1>2, <1>4 DEF VettedInv

LEMMA VettedInductive == Typed /\ VettedInv /\ [Next]_vars => VettedInv'
<1> SUFFICES ASSUME Typed, VettedInv, [Next]_vars PROVE VettedInv'
  OBVIOUS
<1>1. ASSUME NEW t \in Tasks, NEW a \in Actors, NEW e \in Events, NEW coords \in SUBSET People,
             NEW kind \in {"edit", "drop"},
             \/ \E c \in Clubs : \/ AskToCreate(t, a, c, e, coords)
                                 \/ AskInClub(t, a, kind, c, e, coords)
             \/ AskByEvent(t, a, kind, e, coords)
      PROVE  VettedInv'
  BY <1>1, AskIs, ReceiveKeepsVetted DEF Receive
<1>2. CASE UNCHANGED vars
  BY <1>2 DEF vars, VettedInv, Fresh, Vetted, Allowed, Access
<1> QED
  BY <1>1, <1>2, NextIs, StepKeepsVetted, ChangeKeepsVetted

\* The body of EventsStayWithTheirClub for one event.
Stays(e) ==
    event'[e] # event[e]
       => \E t \in Tasks :
             /\ task[t].event = e /\ task'[t] = Rest
             /\ LET c == IF event[e] = None THEN event'[e].club ELSE event[e].club
                IN \/ Access(task[t].by, c) \/ <<t, c>> \in late
                   \/ task[t].by = Root /\ task[t].kind = "edit"

LEMMA NextStays ==
    ASSUME Typed, VettedInv, [Next]_vars, NEW e \in Events
    PROVE  Stays(e)
<1> SUFFICES ASSUME event'[e] # event[e] PROVE Stays(e)
  BY DEF Stays
<1>1. PICK t \in Tasks : Step(t)
  <2>1. event' # event
    OBVIOUS
  <2>2. ASSUME NEW t \in Tasks, NEW a \in Actors, NEW f \in Events,
               NEW coords \in SUBSET People, NEW kind \in {"edit", "drop"},
               \/ \E c \in Clubs : \/ AskToCreate(t, a, c, f, coords)
                                   \/ AskInClub(t, a, kind, c, f, coords)
               \/ AskByEvent(t, a, kind, f, coords)
        PROVE  event' = event
    BY <2>2, AskIs DEF Receive
  <2>3. ASSUME NEW c \in Clubs, NEW people, ChangeClub(c, people) PROVE event' = event
    BY <2>3 DEF ChangeClub
  <2>4. Next
    BY <2>1 DEF vars
  <2> QED
    BY <2>1, <2>2, <2>3, <2>4, NextIs
<1>2. Ends(t)
  BY <1>1, StepIs DEF Down, GoesOn
<1>3. Shaped(task[t]) /\ Vetted(t)
  BY DEF Typed, VettedInv
<1>4. task[t].event = e /\ task'[t] = Rest
  BY <1>2, EventChanges, EndsIs DEF VettedInv
<1> DEFINE c == IF event[e] = None THEN event'[e].club ELSE event[e].club
<1>5. Allowed(t, c) \/ (task[t].by = Root /\ task[t].kind = "edit")
  <2>1. CASE event'[e] = None /\ task[t].at \in {"remove", "delete"}
    <3>1. CASE task[t].at = "remove"
      BY <1>2, <1>3, <1>4, <2>1, <3>1
         DEF Ends, RemoveInClub, OfClub, Insert, Delete, Save, Vetted
    <3>2. CASE task[t].at = "delete"
      BY <1>3, <1>4, <2>1, <3>2 DEF Vetted
    <3> QED
      BY <2>1, <3>1, <3>2
  <2>2. CASE event[e] # None /\ task[t].at = "save"
    BY <1>3, <1>4, <2>2 DEF Vetted, Shaped
  <2>3. CASE event[e] = None /\ event'[e].club = task[t].club /\ task[t].at = "insert"
    BY <1>3, <1>4, <2>3 DEF Vetted
  <2> QED
    BY <1>2, <2>1, <2>2, <2>3, EventChanges DEF VettedInv
<1> QED
  BY <1>4, <1>5 DEF Stays, Allowed

LEMMA VettedInitially == Init => VettedInv
  BY RestIsNobodys DEF Init, VettedInv, Fresh, Vetted

\* Whichever route is taken and whatever overlaps, an event is touched only for
\* somebody who has had access to its club since they asked, save that an
\* administrator may change one whose club is gone.
THEOREM EventsKeepTheirClub == Spec => EventsStayWithTheirClub
<1>1. Typed /\ VettedInv /\ [Next]_vars => \A e \in Events : Stays(e)
  BY NextStays
<1> QED
  BY <1>1, TypedInitially, VettedInitially, TypedInductive, VettedInductive, PTL
     DEF Spec, EventsStayWithTheirClub, Stays

-----------------------------------------------------------------------------
(* The page: every step of it is one of the server or none.                *)

PageTyped ==
    /\ PageTypeOK
    /\ ui.dialog = "edit" => ui.event \in Events

LEMMA NotClubs == None \notin Clubs /\ None \notin Events
  BY ActorsAssumption

LEMMA AskIsNext ==
    ASSUME NEW t \in Tasks, NEW a \in Actors, NEW e \in Events, NEW c \in Clubs
    PROVE  /\ \A coords \in SUBSET People : AskToCreate(t, a, c, e, coords) => Next
           /\ \A coords \in SUBSET People : AskInClub(t, a, "edit", c, e, coords) => Next
           /\ \A coords \in SUBSET People : AskByEvent(t, a, "edit", e, coords) => Next
           /\ AskInClub(t, a, "drop", c, e, {}) => Next
           /\ AskByEvent(t, a, "drop", e, {}) => Next
  BY DEF Next

LEMMA PageStepIsNext ==
    ASSUME PageTyped, [PageNext]_pageAndServerVars
    PROVE  [Next]_vars
<1>1. CASE FetchClubs \/ FetchEvents \/ FetchFails \/ OpenNew \/ Cancel \/ AskDeleteClub
  BY <1>1 DEF FetchClubs, FetchEvents, FetchFails, OpenNew, Cancel, AskDeleteClub
<1>2. ASSUME \/ \E c \in Clubs : Select(c)
             \/ \E p \in People : ToggleCoordinator(p)
             \/ \E e \in Events : OpenEdit(e) \/ AskDelete(e)
             \/ \E toast \in toasts : ToastGone(toast)
      PROVE  UNCHANGED vars
  BY <1>2 DEF Select, ToggleCoordinator, OpenEdit, AskDelete, ToastGone
<1>3. ASSUME NEW toast \in toasts, ConfirmDeleteClub(toast) PROVE [Next]_vars
  <2>1. toast.club \in Clubs
    BY DEF PageTyped, PageTypeOK
  <2> QED
    BY <1>3, <2>1 DEF ConfirmDeleteClub, Next
<1>4. ASSUME NEW t \in Tasks PROVE /\ SubmitEdit(t) => Next
                                   /\ \A e \in Events : SubmitNew(t, e) => Next
                                   /\ \A toast \in toasts : ConfirmDelete(t, toast) => Next
                                   /\ Handle(t) => Next
                                   /\ HearDone(t) \/ HearFailed(t) => UNCHANGED vars
  <2>1. viewer \in Actors /\ (chosen # None => chosen \in Clubs) /\ draft \in SUBSET People
        /\ ui.coords \in SUBSET People
    BY DEF PageTyped, PageTypeOK
  <2>2. SubmitEdit(t) => Next
    BY <2>1, AskIsNext DEF SubmitEdit, CanSubmit, Call, PageTyped
  <2>3. ASSUME NEW e \in Events, SubmitNew(t, e) PROVE Next
    BY <2>1, <2>3, AskIsNext DEF SubmitNew, CanSubmit, Call
  <2>4. ASSUME NEW toast \in toasts, ConfirmDelete(t, toast) PROVE Next
    <3>1. toast.club \in Clubs /\ toast.event \in Events
      BY <2>4 DEF ConfirmDelete, PageTyped, PageTypeOK
    <3> QED
      BY <2>1, <2>4, <3>1, AskIsNext DEF ConfirmDelete, ClubOf, Call
  <2>5. Handle(t) => Next
    BY DEF Handle, Next
  <2>6. HearDone(t) \/ HearFailed(t) => UNCHANGED vars
    BY DEF HearDone, HearFailed
  <2> QED
    BY <2>2, <2>3, <2>4, <2>5, <2>6
<1>5. Elsewhere => Next
  BY AskIsNext DEF Elsewhere, Next
<1>6. CASE UNCHANGED pageAndServerVars
  BY <1>6 DEF pageAndServerVars
<1>7. ASSUME NEW t \in Tasks,
             \/ SubmitEdit(t) \/ \E e \in Events : SubmitNew(t, e)
             \/ \E toast \in toasts : ConfirmDelete(t, toast)
             \/ Handle(t) \/ HearDone(t) \/ HearFailed(t)
      PROVE  [Next]_vars
  BY <1>4, <1>7
<1> QED
  BY <1>1, <1>2, <1>3, <1>5, <1>6, <1>7 DEF PageNext

LEMMA RowsTyped ==
    ASSUME Typed, PageTyped, chosen # None, NEW shown \in {EventsOf(chosen), NoRows}
    PROVE  [rows EXCEPT ![chosen] = shown] \in [Clubs -> [Events -> Event \cup {None}]]
<1>1. shown \in [Events -> Event \cup {None}]
  BY DEF EventsOf, NoRows, Typed, TypeOK
<1> QED
  BY <1>1 DEF PageTyped, PageTypeOK

LEMMA CallTyped ==
    ASSUME PageTyped, NEW t \in Tasks, NEW of \in Kinds, NEW request, Call(t, of, request)
    PROVE  call' \in [Tasks -> [of : Kinds \cup {"none"}, answer : {"waiting", "done", "failed"},
                                touched : SUBSET People, version : Nat]]
  BY DEF Call, PageTyped, PageTypeOK

LEMMA PageTypedInductive ==
    ASSUME Typed, PageTyped, [PageNext]_pageAndServerVars
    PROVE  PageTyped'
<1>1. CASE FetchClubs \/ OpenNew \/ Cancel \/ AskDeleteClub
  BY <1>1 DEF FetchClubs, OpenNew, Cancel, AskDeleteClub, Closed, PageTyped, PageTypeOK
<1>2. CASE FetchEvents \/ FetchFails
  BY <1>2, RowsTyped DEF FetchEvents, FetchFails, PageTyped, PageTypeOK
<1>3. ASSUME NEW c \in Clubs, Select(c) PROVE PageTyped'
  BY <1>3 DEF Select, PageTyped, PageTypeOK
<1>4. ASSUME NEW p \in People, ToggleCoordinator(p) PROVE PageTyped'
  <2>1. FlipIn(ui.coords, p) \in SUBSET People /\ FlipIn(draft, p) \in SUBSET People
    BY DEF FlipIn, PageTyped, PageTypeOK
  <2>2. ui.touched \cup {p} \in SUBSET People
    BY DEF PageTyped, PageTypeOK
  <2>3. \/ ui' = [ui EXCEPT !.coords = FlipIn(ui.coords, p), !.touched = ui.touched \cup {p}]
        \/ ui' = ui
    BY <1>4 DEF ToggleCoordinator
  <2>4. ui' \in [dialog : {"closed", "new", "edit"}, event : Events \cup {None},
                 coords : SUBSET People, touched : SUBSET People, version : Nat]
        /\ ui'.dialog = ui.dialog /\ ui'.event = ui.event
    BY <2>1, <2>2, <2>3 DEF PageTyped, PageTypeOK
  <2>5. draft' \in SUBSET People /\ UNCHANGED <<viewer, clubs, chosen, rows, toasts, call>>
    BY <1>4, <2>1 DEF ToggleCoordinator, PageTyped, PageTypeOK
  <2> QED
    BY <2>4, <2>5 DEF PageTyped, PageTypeOK
<1>5. ASSUME NEW e \in Events, OpenEdit(e) PROVE PageTyped'
  <2>1. chosen \in Clubs /\ rows[chosen][e] \in Event
    BY <1>5 DEF OpenEdit, RowButtons, PageTyped, PageTypeOK
  <2> QED
    BY <1>5, <2>1 DEF OpenEdit, FormOf, Event, PageTyped, PageTypeOK
<1>6. ASSUME NEW e \in Events, AskDelete(e) PROVE PageTyped'
  BY <1>6 DEF AskDelete, RowButtons, PageTyped, PageTypeOK
<1>7. ASSUME NEW toast \in toasts, ToastGone(toast) \/ ConfirmDeleteClub(toast) PROVE PageTyped'
  BY <1>7 DEF ToastGone, ConfirmDeleteClub, PageTyped, PageTypeOK
<1>8. ASSUME NEW t \in Tasks, \/ SubmitEdit(t) \/ \E e \in Events : SubmitNew(t, e)
                              \/ \E toast \in toasts : ConfirmDelete(t, toast)
      PROVE  PageTyped'
  <2>1. PICK of, request : of \in Kinds /\ Call(t, of, request)
    BY <1>8 DEF SubmitEdit, SubmitNew, ConfirmDelete, Kinds
  <2> QED
    BY <1>8, <2>1, CallTyped DEF SubmitEdit, SubmitNew, ConfirmDelete, Call, PageTyped, PageTypeOK
<1>9. ASSUME NEW t \in Tasks, Handle(t) PROVE PageTyped'
  BY <1>9 DEF Handle, PageTyped, PageTypeOK
<1>10. ASSUME NEW t \in Tasks, HearDone(t) \/ HearFailed(t) PROVE PageTyped'
  <2>1. ui' \in {ui, Closed} /\ draft' \in {draft, {}}
    BY <1>10 DEF HearDone, HearFailed
  <2>2. call' = [call EXCEPT ![t] = NoCall] /\ UNCHANGED <<viewer, clubs, chosen, rows, toasts>>
    BY <1>10 DEF HearDone, HearFailed
  <2> QED
    BY <2>1, <2>2 DEF NoCall, Closed, PageTyped, PageTypeOK
<1>11. CASE Elsewhere \/ UNCHANGED pageAndServerVars
  BY <1>11 DEF Elsewhere, pageAndServerVars, pageVars, PageTyped, PageTypeOK
<1> QED
  BY <1>1, <1>2, <1>3, <1>4, <1>5, <1>6, <1>7, <1>8, <1>9, <1>10, <1>11 DEF PageNext

LEMMA PageTypedInitially == PageInit => PageTyped
  BY DEF PageInit, PageTyped, PageTypeOK, NoRows, Closed, NoCall

LEMMA PageTypedAlways == PageSpec => [](Typed /\ PageTyped) /\ [][Next]_vars
<1>1. PageInit => Init
  BY DEF PageInit
<1> QED
  BY <1>1, TypedInitially, TypedInductive, PageTypedInitially, PageTypedInductive,
     PageStepIsNext, PTL DEF PageSpec

\* Every variable of the page keeps its type.
THEOREM PageTypeCorrect == PageSpec => []PageTypeOK
<1>1. PageTyped => PageTypeOK
  BY DEF PageTyped
<1> QED
  BY <1>1, PageTypedAlways, PTL

\* The page uses the routes and nothing else: with it, ClubEvents behaves as it
\* does for any clients, and keeps what it keeps for them.
THEOREM PageRefinesClubEvents == PageSpec => Spec
<1>1. PageInit => Init
  BY DEF PageInit
<1> QED
  BY <1>1, PageTypedAlways, PTL DEF PageSpec, Spec

-----------------------------------------------------------------------------
(* What the page has read, and what became of it.                          *)

\* What a step does to an event whose ID was given: it goes, or is saved with a
\* new version, in the same club.
Evolves ==
    /\ issued \subseteq issued'
    /\ \A e \in issued :
          event'[e] = event[e] \/ event'[e] = None
          \/ /\ event[e] # None /\ event'[e].club = event[e].club
             /\ event'[e].version > event[e].version

LEMMA NextEvolves ==
    ASSUME Typed, VettedInv, [Next]_vars
    PROVE  Evolves
<1>1. ASSUME NEW t \in Tasks, Step(t) PROVE Evolves
  <2>1. CASE Down(t) \/ \E r : GoesOn(t, r)
    BY <2>1 DEF Down, GoesOn, Evolves
  <2>2. CASE Ends(t)
    <3>1. issued \subseteq issued'
      BY <2>2 DEF Ends, Insert, RemoveInClub, Delete, Save
    <3>2. ASSUME NEW e \in issued, event'[e] # event[e], event'[e] # None
          PROVE  /\ event[e] # None /\ event'[e].club = event[e].club
                 /\ event'[e].version > event[e].version
      <4>1. e \in Events /\ e = task[t].event
        BY <2>2, <3>2, EventChanges DEF VettedInv, Typed, TypeOK
      <4>2. task[t].at # "insert"
        BY <4>1 DEF VettedInv, Fresh, Typed, Shaped
      <4>3. event[e] # None /\ event'[e].club = event[e].club
            /\ event'[e].version = event[e].version + 1
        BY <2>2, <3>2, <4>1, <4>2, EventChanges DEF VettedInv
      <4>4. event[e].version \in Nat
        BY <4>1, <4>3 DEF Typed, TypeOK, Event
      <4> QED
        BY <4>3, <4>4
    <3> QED
      BY <3>1, <3>2 DEF Evolves
  <2> QED
    BY <1>1, <2>1, <2>2, StepIs
<1>2. ASSUME NEW t \in Tasks, NEW r, Receive(t, r) PROVE event' = event /\ issued' = issued
  BY <1>2 DEF Receive
<1>3. ASSUME NEW c \in Clubs, NEW people, ChangeClub(c, people)
      PROVE  event' = event /\ issued' = issued
  BY <1>3 DEF ChangeClub
<1>4. CASE UNCHANGED vars
  BY <1>4 DEF vars, Evolves
<1>5. event' = event /\ issued' = issued => Evolves
  BY DEF Evolves
<1>6. ASSUME NEW t \in Tasks, NEW a \in Actors, NEW e \in Events, NEW coords \in SUBSET People,
             NEW kind \in {"edit", "drop"},
             \/ \E c \in Clubs : \/ AskToCreate(t, a, c, e, coords)
                                 \/ AskInClub(t, a, kind, c, e, coords)
             \/ AskByEvent(t, a, kind, e, coords)
      PROVE  Evolves
  BY <1>2, <1>5, <1>6, AskIs
<1> QED
  BY <1>1, <1>3, <1>4, <1>5, <1>6, NextIs

\* A form read from version v of e, whose fields in touched were changed since,
\* would put nothing else back.
Based(e, v, coords, touched) ==
    /\ e \in issued
    /\ event[e] # None =>
          /\ v <= event[e].version
          /\ v = event[e].version =>
                \A p \in People : (p \in coords) # (p \in event[e].coords) => p \in touched

\* The event is in the club, or gone for good.
InClub(e, c) == e \in issued /\ (event[e] # None => event[e].club = c)

LEMMA BasedStays ==
    ASSUME Typed, Typed', Evolves, NEW e, NEW v \in Nat, NEW coords, NEW touched,
           Based(e, v, coords, touched)
    PROVE  Based(e, v, coords, touched)'
<1>1. e \in issued /\ e \in Events /\ e \in issued'
  BY DEF Based, Evolves, Typed, TypeOK
<1>2. CASE event'[e] = event[e] \/ event'[e] = None
  BY <1>1, <1>2 DEF Based
<1>3. CASE event[e] # None /\ event'[e] # None /\ event'[e].version > event[e].version
  <2>1. event[e].version \in Nat /\ event'[e].version \in Nat /\ v <= event[e].version
    BY <1>1, <1>3 DEF Based, Typed, TypeOK, Event
  <2> QED
    BY <1>1, <1>3, <2>1 DEF Based
<1> QED
  BY <1>1, <1>2, <1>3 DEF Evolves

LEMMA InClubStays ==
    ASSUME Evolves, NEW e, NEW c, InClub(e, c)
    PROVE  InClub(e, c)'
  BY DEF Evolves, InClub

RowsInv ==
    \A c \in Clubs, e \in Events :
       rows[c][e] # None => Based(e, rows[c][e].version, rows[c][e].coords, {}) /\ InClub(e, c)

UiInv ==
    ui.dialog = "edit" =>
       /\ Based(ui.event, ui.version, ui.coords, ui.touched)
       /\ chosen # None => InClub(ui.event, chosen)

ToastsInv == \A toast \in toasts : toast.event # None => InClub(toast.event, toast.club)

\* The page's own calls are those in flight that were received with them.
CallInv(t) ==
    call[t].of # "none" /\ task[t].at # "rest" =>
       /\ task[t].kind = call[t].of /\ task[t].by = viewer
       /\ task[t].at \in {"club", "insert", "find", "remove", "save"}
       /\ call[t].of \in {"edit", "drop"} => InClub(task[t].event, task[t].club)
       /\ call[t].of = "edit" =>
             Based(task[t].event, call[t].version, task[t].coords, call[t].touched)

PageInv == RowsInv /\ UiInv /\ ToastsInv /\ \A t \in Tasks : CallInv(t)

\* The parts of PageInv under a step that leaves the part of the page alone.
LEMMA RowsStay ==
    ASSUME Typed, Typed', PageTyped, Evolves, RowsInv, UNCHANGED rows
    PROVE  RowsInv'
<1> SUFFICES ASSUME NEW c \in Clubs, NEW e \in Events, rows[c][e] # None
             PROVE  Based(e, rows[c][e].version, rows[c][e].coords, {})' /\ InClub(e, c)'
  BY DEF RowsInv
<1>1. rows[c][e].version \in Nat
  BY DEF PageTyped, PageTypeOK, Event
<1> QED
  BY <1>1, BasedStays, InClubStays DEF RowsInv

LEMMA UiStays ==
    ASSUME Typed, Typed', PageTyped, Evolves, UiInv, UNCHANGED ui, chosen' \in {chosen, None}
    PROVE  UiInv'
<1> SUFFICES ASSUME ui.dialog = "edit"
             PROVE  /\ Based(ui.event, ui.version, ui.coords, ui.touched)'
                    /\ chosen' # None => InClub(ui.event, chosen)'
  BY DEF UiInv
<1>1. ui.version \in Nat
  BY DEF PageTyped, PageTypeOK
<1> QED
  BY <1>1, BasedStays, InClubStays DEF UiInv

LEMMA ToastsStay ==
    ASSUME Evolves, ToastsInv, toasts' \subseteq toasts
    PROVE  ToastsInv'
  BY InClubStays DEF ToastsInv

LEMMA CallStays ==
    ASSUME Typed, Typed', PageTyped, Evolves, NEW t \in Tasks, CallInv(t), UNCHANGED viewer,
           call'[t] = call[t] \/ (call'[t].of = call[t].of /\ call'[t].version = call[t].version
                                    /\ call'[t].touched = call[t].touched),
           task'[t] = task[t]
    PROVE  CallInv(t)'
<1>1. call[t].version \in Nat
  BY DEF PageTyped, PageTypeOK
<1>2. /\ InClub(task[t].event, task[t].club) => InClub(task[t].event, task[t].club)'
      /\ Based(task[t].event, call[t].version, task[t].coords, call[t].touched)
            => Based(task[t].event, call[t].version, task[t].coords, call[t].touched)'
  BY <1>1, BasedStays, InClubStays
<1> QED
  BY <1>2 DEF CallInv

\* A step of the page alone.
LEMMA PageOnlyEvolves == ASSUME UNCHANGED vars PROVE Evolves
  BY DEF vars, Evolves

LEMMA ReadKeepsPage ==
    ASSUME Typed, Typed', PageTyped, VettedInv, PageInv,
           \/ FetchClubs \/ FetchEvents \/ FetchFails \/ OpenNew \/ Cancel \/ AskDeleteClub
           \/ \E c \in Clubs : Select(c)
           \/ \E p \in People : ToggleCoordinator(p)
           \/ \E e \in Events : OpenEdit(e) \/ AskDelete(e)
           \/ \E toast \in toasts : ToastGone(toast)
    PROVE  PageInv'
<1>1. UNCHANGED vars /\ UNCHANGED <<viewer, call>>
  BY DEF FetchClubs, FetchEvents, FetchFails, OpenNew, Cancel, AskDeleteClub, Select,
         ToggleCoordinator, OpenEdit, AskDelete, ToastGone
<1>2. \A t \in Tasks : CallInv(t)'
  BY <1>1, PageOnlyEvolves, CallStays DEF PageInv, vars
<1>3. RowsInv'
  <2>1. CASE UNCHANGED rows
    BY <1>1, <2>1, PageOnlyEvolves, RowsStay DEF PageInv
  <2>2. CASE FetchEvents
    <3> SUFFICES ASSUME NEW c \in Clubs, NEW e \in Events, rows'[c][e] # None
                 PROVE  Based(e, rows[c][e].version, rows[c][e].coords, {})' /\ InClub(e, c)'
      BY DEF RowsInv
    <3>1. CASE c = chosen
      <4>1. rows'[c][e] = event[e] /\ event[e].club = c /\ event[e] # None /\ event[e] \in Event
        BY <2>2, <3>1 DEF FetchEvents, EventsOf, PageTyped, PageTypeOK, Typed, TypeOK
      <4>2. e \in issued
        BY <4>1 DEF VettedInv, Fresh
      <4> QED
        BY <1>1, <4>1, <4>2 DEF vars, Based, InClub, Event
    <3>2. CASE c # chosen
      <4>1. rows'[c][e] = rows[c][e]
        BY <2>2, <3>2 DEF FetchEvents, PageTyped, PageTypeOK
      <4> QED
        BY <1>1, <4>1 DEF vars, Based, InClub, PageInv, RowsInv
    <3> QED
      BY <3>1, <3>2
  <2>3. CASE FetchFails
    <3> SUFFICES ASSUME NEW c \in Clubs, NEW e \in Events, rows'[c][e] # None
                 PROVE  Based(e, rows[c][e].version, rows[c][e].coords, {})' /\ InClub(e, c)'
      BY DEF RowsInv
    <3>1. rows'[c][e] = rows[c][e]
      BY <2>3 DEF FetchFails, NoRows, PageTyped, PageTypeOK
    <3> QED
      BY <1>1, <3>1 DEF vars, Based, InClub, PageInv, RowsInv
  <2> QED
    BY <2>1, <2>2, <2>3 DEF FetchClubs, OpenNew, Cancel, AskDeleteClub, Select,
         ToggleCoordinator, OpenEdit, AskDelete, ToastGone
<1>4. UiInv'
  <2>1. CASE UNCHANGED <<ui, chosen>>
    BY <1>1, <2>1, PageOnlyEvolves, UiStays DEF PageInv
  <2>2. ASSUME NEW p \in People, ToggleCoordinator(p), ui.dialog = "edit" PROVE UiInv'
    <3>1. /\ ui'.event = ui.event /\ ui'.version = ui.version
          /\ ui'.coords = FlipIn(ui.coords, p) /\ ui'.touched = ui.touched \cup {p}
          /\ chosen' = chosen
      BY <2>2 DEF ToggleCoordinator, PageTyped, PageTypeOK
    <3>2. \A q \in People : (q \in ui'.coords) # (q \in ui.coords) => q = p
      BY <3>1 DEF FlipIn
    <3> QED
      BY <1>1, <2>2, <3>1, <3>2 DEF vars, UiInv, PageInv, Based, InClub
  <2>3. ASSUME NEW e \in Events, OpenEdit(e) PROVE UiInv'
    <3>1. /\ chosen \in Clubs /\ rows[chosen][e] # None /\ chosen' = chosen
          /\ ui'.event = e /\ ui'.version = rows[chosen][e].version
          /\ ui'.coords = rows[chosen][e].coords /\ ui'.touched = {}
      BY <2>3 DEF OpenEdit, RowButtons, FormOf, PageTyped, PageTypeOK
    <3> QED
      BY <1>1, <3>1 DEF vars, PageInv, RowsInv, UiInv, Based, InClub
  <2>4. ASSUME ui'.dialog # "edit" PROVE UiInv'
    BY <2>4 DEF UiInv
  <2>5. OpenNew \/ Cancel \/ (\E c \in Clubs : Select(c)) => ui'.dialog # "edit"
    BY DEF OpenNew, Cancel, Select, Closed
  <2>6. ASSUME NEW p \in People, ToggleCoordinator(p), ui.dialog # "edit"
        PROVE  UNCHANGED <<ui, chosen>>
    BY <2>6 DEF ToggleCoordinator
  <2>7. ASSUME \/ FetchClubs \/ FetchEvents \/ FetchFails \/ AskDeleteClub
               \/ \E e \in Events : AskDelete(e)
               \/ \E toast \in toasts : ToastGone(toast)
        PROVE  UNCHANGED <<ui, chosen>>
    BY <2>7 DEF FetchClubs, FetchEvents, FetchFails, AskDeleteClub, AskDelete, ToastGone
  <2> QED
    BY <2>1, <2>2, <2>3, <2>4, <2>5, <2>6, <2>7
<1>5. ToastsInv'
  <2>1. CASE toasts' \subseteq toasts
    BY <1>1, <2>1, PageOnlyEvolves, ToastsStay DEF PageInv
  <2>2. ASSUME NEW e \in Events, AskDelete(e) PROVE ToastsInv'
    <3>1. InClub(e, chosen) /\ toasts' = toasts \cup {[club |-> chosen, event |-> e]}
      BY <2>2 DEF AskDelete, RowButtons, PageInv, RowsInv, PageTyped, PageTypeOK
    <3> QED
      BY <1>1, <3>1 DEF vars, PageInv, ToastsInv, InClub
  <2>3. CASE AskDeleteClub
    <3>1. toasts' = toasts \cup {[club |-> chosen, event |-> None]}
      BY <2>3 DEF AskDeleteClub
    <3> QED
      BY <1>1, <3>1 DEF vars, PageInv, ToastsInv, InClub
  <2> QED
    BY <2>1, <2>2, <2>3 DEF FetchClubs, FetchEvents, FetchFails, OpenNew, Cancel,
         Select, ToggleCoordinator, OpenEdit, ToastGone
<1> QED
  BY <1>2, <1>3, <1>4, <1>5 DEF PageInv

LEMMA HearKeepsPage ==
    ASSUME Typed, Typed', PageTyped, PageInv, NEW t \in Tasks, HearDone(t) \/ HearFailed(t)
    PROVE  PageInv'
<1>1. /\ UNCHANGED vars /\ UNCHANGED <<viewer, chosen, rows, toasts>>
      /\ call' = [call EXCEPT ![t] = NoCall] /\ ui' \in {ui, Closed}
  BY DEF HearDone, HearFailed
<1>2. UiInv'
  <2>1. CASE ui' = ui
    BY <1>1, <2>1, PageOnlyEvolves, UiStays DEF PageInv
  <2>2. CASE ui' = Closed
    BY <2>2 DEF UiInv, Closed
  <2> QED
    BY <1>1, <2>1, <2>2
<1>3. ASSUME NEW u \in Tasks PROVE CallInv(u)'
  <2>1. CASE u = t
    BY <1>1, <2>1 DEF CallInv, NoCall, PageTyped, PageTypeOK
  <2>2. CASE u # t
    BY <1>1, <2>2, PageOnlyEvolves, CallStays DEF PageInv, vars, PageTyped, PageTypeOK
  <2> QED
    BY <2>1, <2>2
<1> QED
  BY <1>1, <1>2, <1>3, PageOnlyEvolves, RowsStay, ToastsStay DEF PageInv

LEMMA HandleKeepsPage ==
    ASSUME Typed, Typed', PageTyped, PageInv, Evolves, NEW t \in Tasks, Handle(t)
    PROVE  PageInv'
<1>1. Step(t) /\ UNCHANGED <<viewer, clubs, chosen, rows, ui, draft, toasts>>
  BY DEF Handle
<1>2. \A u \in Tasks : /\ call'[u].of = call[u].of /\ call'[u].version = call[u].version
                       /\ call'[u].touched = call[u].touched
  BY DEF Handle, PageTyped, PageTypeOK
<1>3. ASSUME NEW u \in Tasks PROVE CallInv(u)'
  <2>1. CASE task'[u] = task[u]
    BY <1>1, <1>2, <2>1, CallStays DEF PageInv
  <2>2. CASE task'[u].at = "rest"
    BY <2>2 DEF CallInv
  <2>3. ASSUME NEW r, GoesOn(t, r), u = t PROVE CallInv(u)'
    <3>1. /\ task'[u] = r /\ task[u].at # "rest" /\ event' = event /\ issued' = issued
          /\ r.kind = task[u].kind /\ r.by = task[u].by /\ r.club = task[u].club
          /\ r.event = task[u].event /\ r.coords = task[u].coords
      BY <2>3, GoesOnIs DEF GoesOn
    <3>2. ASSUME task[u].at \in {"club", "find"}
          PROVE  r.at \in {"insert", "find", "remove", "save"}
      <4>1. r # Rest /\ task[u].kind \in Kinds
        BY <3>1, RestIsNobodys, <2>3 DEF GoesOn, Typed, TypeOK, Task
      <4>2. CASE CheckClub(t)
        <5>1. Proceed(t, [create |-> "insert", edit |-> "find", drop |-> "remove"][task[t].kind])
          BY <2>3, <3>1, <4>1, <4>2 DEF CheckClub, Finish, Typed, TypeOK
        <5>2. r.at = [create |-> "insert", edit |-> "find", drop |-> "remove"][task[t].kind]
          BY <2>3, <3>1, <5>1 DEF Proceed, Typed, TypeOK, Task
        <5> QED
          BY <2>3, <4>1, <5>2 DEF Kinds
      <4>3. CASE FindInClub(t)
        <5>1. OfClub(t)
          BY <2>3, <3>1, <4>1, <4>3 DEF FindInClub, Finish, Typed, TypeOK
        <5> QED
          BY <2>3, <3>1, <4>3, <5>1 DEF FindInClub, Typed, TypeOK, Task
      <4> QED
        BY <1>1, <2>3, <3>2, <4>2, <4>3 DEF Step, Insert, RemoveInClub, FindEvent,
             CheckEventClub, Delete, Save, Down
    <3>3. task[u].at \in {"insert", "remove", "save"} => r.at = "rest"
      BY <1>1, <2>3, <3>1, RestIsNobodys DEF Step, CheckClub, FindInClub, Insert, RemoveInClub, FindEvent,
            CheckEventClub, Delete, Save, Down, Finish, Typed, TypeOK
    <3> QED
      BY <1>1, <1>2, <3>1, <3>2, <3>3 DEF PageInv, CallInv, InClub, Based
  <2> QED
    BY <1>1, <2>1, <2>2, <2>3, StepIs, EndsIs, GoesOnIs, RestIsNobodys DEF Down
<1> QED
  BY <1>1, <1>3, RowsStay, UiStays, ToastsStay DEF PageInv

\* Somebody else's request comes in, or the page's own.
LEMMA OthersStay ==
    ASSUME Typed, Typed', PageTyped, PageInv, Evolves, NEW t \in Tasks, NEW r, Receive(t, r),
           UNCHANGED <<viewer, rows, ui, chosen>>, toasts' \subseteq toasts,
           \A u \in Tasks \ {t} : call'[u] = call[u],
           CallInv(t)'
    PROVE  PageInv'
<1>1. \A u \in Tasks \ {t} : task'[u] = task[u]
  BY DEF Receive, Typed, TypeOK
<1>2. \A u \in Tasks \ {t} : CallInv(u)'
  BY <1>1, CallStays DEF PageInv
<1> QED
  BY <1>2, RowsStay, UiStays, ToastsStay DEF PageInv

LEMMA SubmitKeepsPage ==
    ASSUME Typed, Typed', PageTyped, PageInv, Evolves, NEW t \in Tasks,
           \/ SubmitEdit(t) \/ \E e \in Events : SubmitNew(t, e)
           \/ \E toast \in toasts : ConfirmDelete(t, toast)
    PROVE  PageInv'
<1>1. ASSUME NEW of, NEW request, Call(t, of, request)
      PROVE  /\ UNCHANGED <<viewer, rows, ui>> /\ request
             /\ \A u \in Tasks \ {t} : call'[u] = call[u]
             /\ call'[t].of = of /\ call'[t].touched = ui.touched /\ call'[t].version = ui.version
  BY <1>1 DEF Call, PageTyped, PageTypeOK
<1>2. CASE SubmitEdit(t)
  <2> DEFINE r == [at |-> "club", kind |-> "edit", by |-> viewer, club |-> chosen,
                   event |-> ui.event, coords |-> ui.coords, copy |-> None]
  <2>1. Call(t, "edit", AskInClub(t, viewer, "edit", chosen, ui.event, ui.coords))
        /\ UNCHANGED <<chosen, toasts>> /\ ui.dialog = "edit" /\ chosen # None
    BY <1>2 DEF SubmitEdit, CanSubmit
  <2>2. Receive(t, r)
    BY <1>1, <2>1 DEF AskInClub
  <2>3. task'[t] = r /\ event' = event /\ issued' = issued
    BY <2>2 DEF Receive, Typed, TypeOK
  <2>4. CallInv(t)'
    BY <1>1, <2>1, <2>3 DEF CallInv, PageInv, UiInv, InClub, Based
  <2> HIDE DEF r
  <2> QED
    BY <1>1, <2>1, <2>2, <2>4, OthersStay
<1>3. ASSUME NEW e \in Events, SubmitNew(t, e) PROVE PageInv'
  <2> DEFINE r == [Rest EXCEPT !.at = "club", !.by = viewer, !.club = chosen, !.event = e,
                               !.coords = draft]
  <2>1. Call(t, "create", AskToCreate(t, viewer, chosen, e, draft)) /\ UNCHANGED <<chosen, toasts>>
    BY <1>3 DEF SubmitNew
  <2>2. Receive(t, r)
    BY <1>1, <2>1 DEF AskToCreate
  <2>3. task'[t] = r
    BY <2>2 DEF Receive, Typed, TypeOK
  <2>4. CallInv(t)'
    BY <1>1, <2>1, <2>3 DEF CallInv, Rest
  <2> HIDE DEF r
  <2> QED
    BY <1>1, <2>1, <2>2, <2>4, OthersStay
<1>4. ASSUME NEW toast \in toasts, ConfirmDelete(t, toast) PROVE PageInv'
  <2> DEFINE r == [at |-> "club", kind |-> "drop", by |-> viewer, club |-> toast.club,
                   event |-> toast.event, coords |-> {}, copy |-> None]
  <2>1. Call(t, "drop", AskInClub(t, viewer, "drop", toast.club, toast.event, {}))
        /\ chosen' = chosen /\ toasts' \subseteq toasts /\ toast.event # None
    BY <1>4 DEF ConfirmDelete, ClubOf
  <2>2. Receive(t, r)
    BY <1>1, <2>1 DEF AskInClub
  <2>3. task'[t] = r /\ event' = event /\ issued' = issued
    BY <2>2 DEF Receive, Typed, TypeOK
  <2>4. CallInv(t)'
    BY <1>1, <2>1, <2>3 DEF CallInv, PageInv, ToastsInv, InClub
  <2> HIDE DEF r
  <2> QED
    BY <1>1, <2>1, <2>2, <2>4, OthersStay
<1> QED
  BY <1>2, <1>3, <1>4

LEMMA ElsewhereKeepsPage ==
    ASSUME Typed, Typed', PageTyped, PageInv, Evolves, Elsewhere
    PROVE  PageInv'
<1>1. UNCHANGED <<viewer, clubs, chosen, rows, ui, draft, toasts, call>>
  BY DEF Elsewhere, pageVars
<1>2. ASSUME NEW t \in Tasks, NEW r, Receive(t, r), call[t] = NoCall PROVE PageInv'
  <2>1. CallInv(t)'
    BY <1>1, <1>2 DEF CallInv, NoCall
  <2> QED
    BY <1>1, <1>2, <2>1, OthersStay
<1>3. ASSUME NEW c \in Clubs, NEW people, ChangeClub(c, people) PROVE PageInv'
  <2>1. \A t \in Tasks : CallInv(t)'
    BY <1>1, <1>3, CallStays DEF ChangeClub, PageInv
  <2> QED
    BY <1>1, <2>1, RowsStay, UiStays, ToastsStay DEF PageInv
<1>4. ASSUME NEW t \in Tasks, NEW a \in Actors, NEW e \in Events, NEW coords \in SUBSET People,
             NEW kind \in {"edit", "drop"}, call[t] = NoCall,
             \/ \E c \in Clubs : \/ AskToCreate(t, a, c, e, coords)
                                 \/ AskInClub(t, a, kind, c, e, coords)
             \/ AskByEvent(t, a, kind, e, coords)
      PROVE  PageInv'
  BY <1>2, <1>4, AskIs
<1>5. {} \in SUBSET People
  OBVIOUS
<1> QED
  BY <1>3, <1>4, <1>5 DEF Elsewhere

LEMMA ClubDeletionKeepsPage ==
    ASSUME Typed, Typed', PageTyped, PageInv, Evolves,
           NEW toast \in toasts, ConfirmDeleteClub(toast)
    PROVE  PageInv'
<1>1. /\ UNCHANGED <<viewer, rows, ui, call>> /\ chosen' = None /\ toasts' \subseteq toasts
      /\ task' = task
  BY DEF ConfirmDeleteClub, ChangeClub, vars
<1>2. \A t \in Tasks : CallInv(t)'
  BY <1>1, CallStays DEF PageInv
<1> QED
  BY <1>1, <1>2, RowsStay, UiStays, ToastsStay DEF PageInv

LEMMA PageInductive ==
    ASSUME Typed, Typed', PageTyped, VettedInv, PageInv, [PageNext]_pageAndServerVars
    PROVE  PageInv'
<1>1. Evolves
  BY PageStepIsNext, NextEvolves
<1>2. CASE UNCHANGED pageAndServerVars
  <2>1. \A t \in Tasks : CallInv(t)'
    BY <1>1, <1>2, CallStays DEF pageAndServerVars, pageVars, vars, PageInv
  <2> QED
    BY <1>1, <1>2, <2>1, RowsStay, UiStays, ToastsStay DEF pageAndServerVars, pageVars, PageInv
<1>3. CASE PageNext
  BY <1>1, <1>3, ReadKeepsPage, HearKeepsPage, HandleKeepsPage, SubmitKeepsPage,
     ElsewhereKeepsPage, ClubDeletionKeepsPage DEF PageNext
<1> QED
  BY <1>2, <1>3

\* The bodies of the two properties, for one task.
KeepsCoordinators(t) ==
    LET e == task[t].event
    IN (call[t].of = "edit" /\ task[t].at = "save" /\ task'[t] = Rest /\ downs' = downs
          /\ event[e].version = call[t].version)
       => \A p \in People :
             (p \in event'[e].coords) # (p \in event[e].coords) => p \in call[t].touched

CarriesOut(t) ==
    LET e == task[t].event
    IN (call[t].of \in {"edit", "drop"} /\ task[t] # Rest /\ task'[t] = Rest
          /\ downs' = downs /\ event[e] # None /\ Access(viewer, event[e].club))
       => task[t].at = "save" \/ event'[e] = None

\* Only its own step, or the end of the process, ends a task.
LEMMA OwnStepEnds ==
    ASSUME Typed, [Next]_vars, NEW t \in Tasks, task[t] # Rest, task'[t] = Rest, downs' = downs
    PROVE  Step(t) /\ Ends(t)
<1>1. ASSUME NEW u \in Tasks, Step(u) PROVE u = t /\ Ends(t)
  <2>1. ~Down(u)
    BY DEF Down, Typed, TypeOK
  <2>2. CASE Ends(u)
    BY <2>2, EndsIs
  <2>3. ASSUME NEW r, GoesOn(u, r) PROVE FALSE
    BY <2>3, GoesOnIs, RestIsNobodys DEF GoesOn
  <2> QED
    BY <1>1, <2>1, <2>2, <2>3, StepIs
<1>2. ASSUME NEW u \in Tasks, NEW r, Receive(u, r), r.at \in {"club", "event"} PROVE FALSE
  BY <1>2, RestIsNobodys DEF Receive, Typed, TypeOK
<1>3. ASSUME NEW u \in Tasks, NEW a \in Actors, NEW e \in Events, NEW coords \in SUBSET People,
             NEW kind \in {"edit", "drop"},
             \/ \E c \in Clubs : \/ AskToCreate(u, a, c, e, coords)
                                 \/ AskInClub(u, a, kind, c, e, coords)
             \/ AskByEvent(u, a, kind, e, coords)
      PROVE  FALSE
  BY <1>2, <1>3, AskIs
<1>4. ASSUME NEW c \in Clubs, NEW people, ChangeClub(c, people) PROVE FALSE
  BY <1>4 DEF ChangeClub
<1>5. CASE UNCHANGED vars
  BY <1>5 DEF vars
<1> QED
  BY <1>1, <1>3, <1>4, <1>5, NextIs

LEMMA NextKeepsCoordinators ==
    ASSUME Typed, PageInv, [Next]_vars, NEW t \in Tasks
    PROVE  KeepsCoordinators(t)
<1> DEFINE e == task[t].event
<1> SUFFICES ASSUME call[t].of = "edit", task[t].at = "save", task'[t] = Rest, downs' = downs,
                    event[e].version = call[t].version
             PROVE  \A p \in People :
                       (p \in event'[e].coords) # (p \in event[e].coords) => p \in call[t].touched
  BY DEF KeepsCoordinators
<1>1. Step(t) /\ e \in Events /\ task[t] \in Task
  BY OwnStepEnds, RestIsNobodys DEF Typed, TypeOK, Shaped
<1>2. Save(t) \/ Down(t)
  BY <1>1 DEF Step, CheckClub, Insert, FindInClub, RemoveInClub, FindEvent, CheckEventClub, Delete
<1>3. Save(t)
  BY <1>2 DEF Down, Typed, TypeOK
<1>4. event[e] # None /\ event[e] \in Event
  BY <1>1, <1>3 DEF Save, SaveFails, Typed, TypeOK
<1>5. event'[e].coords \in {event[e].coords, task[t].coords}
  BY <1>1, <1>3, <1>4 DEF Save, Typed, TypeOK, Event
<1>6. Based(e, call[t].version, task[t].coords, call[t].touched)
  BY DEF PageInv, CallInv
<1> QED
  BY <1>4, <1>5, <1>6 DEF Based

LEMMA NextCarriesOut ==
    ASSUME Typed, PageInv, [Next]_vars, NEW t \in Tasks
    PROVE  CarriesOut(t)
<1> DEFINE e == task[t].event
<1> SUFFICES ASSUME call[t].of \in {"edit", "drop"}, task[t] # Rest, task'[t] = Rest,
                    downs' = downs, event[e] # None, Access(viewer, event[e].club),
                    task[t].at # "save"
             PROVE  event'[e] = None
  BY DEF CarriesOut
<1>1. Step(t) /\ Ends(t) /\ task[t].at # "rest" /\ e \in Events
  BY OwnStepEnds DEF Typed, Shaped
<1>2. /\ task[t].kind \in {"edit", "drop"} /\ task[t].by = viewer /\ task[t].club = event[e].club
      /\ task[t].at \in {"club", "insert", "find", "remove", "save"}
  BY <1>1 DEF PageInv, CallInv, InClub
<1>3. ~CheckClub(t)
  BY <1>1, <1>2, RestIsNobodys DEF CheckClub, Proceed, Typed, TypeOK, Task
<1>4. ~FindInClub(t)
  BY <1>1, <1>2, RestIsNobodys DEF FindInClub, OfClub, Typed, TypeOK, Task
<1>5. RemoveInClub(t)
  BY <1>1, <1>2, <1>3, <1>4 DEF Step, Insert, FindEvent, CheckEventClub, Delete, Save, Down,
       Typed, Shaped
<1> QED
  BY <1>1, <1>2, <1>5 DEF RemoveInClub, OfClub, Typed, TypeOK

LEMMA PageInitially == PageInit => PageInv
  BY RestIsNobodys DEF PageInit, Init, PageInv, RowsInv, NoRows, UiInv, Closed, ToastsInv,
     CallInv, NoCall

LEMMA PageAlways == PageSpec => [](Typed /\ PageInv) /\ [][Next]_vars
<1>1. PageInit => VettedInv
  BY VettedInitially DEF PageInit
<1>2. Typed /\ PageTyped /\ VettedInv /\ [PageNext]_pageAndServerVars => VettedInv'
  BY PageStepIsNext, VettedInductive
<1> QED
  BY <1>1, <1>2, PageTypedAlways, PageInitially, PageInductive, PTL DEF PageSpec

\* A saved dialog puts back nothing that somebody changed after the row was read
\* and that its user did not touch, unless the version says that the row is old.
THEOREM CoordinatorsAreKept == PageSpec => CoordinatorsKept
<1>1. Typed /\ PageInv /\ [Next]_vars => \A t \in Tasks : KeepsCoordinators(t)
  BY NextKeepsCoordinators
<1> QED
  BY <1>1, PageAlways, PTL DEF PageSpec, CoordinatorsKept, KeepsCoordinators

\* What the page names together, an event and its club, belongs together whatever
\* happened since it was shown: no change or deletion is answered without effect.
THEOREM AnswersAreTrue == PageSpec => AnsweredIsCarriedOut
<1>1. Typed /\ PageInv /\ [Next]_vars => \A t \in Tasks : CarriesOut(t)
  BY NextCarriesOut
<1> QED
  BY <1>1, PageAlways, PTL DEF PageSpec, AnsweredIsCarriedOut, CarriesOut
====
