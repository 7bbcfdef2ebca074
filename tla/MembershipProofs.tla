---- MODULE MembershipProofs ----
(***************************************************************************)
(* Proofs about Membership, for every set of emails, cohorts, prefixes and *)
(* concurrent requests and every Limit.                                    *)
(***************************************************************************)
EXTENDS Membership, TLAPS

USE SeriesAssumption, NoneAssumption

-----------------------------------------------------------------------------
(* Types.                                                                  *)

\* A handler past its start has an email and a series, and the steps of the
\* student hook are taken for students only.
Shaped(r) ==
    /\ r \in Job
    /\ r.at # "rest" => r.email \in Emails /\ r.series \in Series
    /\ r.at \in {"seed", "inc"} => r.series \in Cohorts
    /\ r.at = "scan" /\ r.series \notin Cohorts => r.todo = {}
    /\ r.at = "seed" => r.todo = {}

Typed == TypeOK /\ \A j \in Jobs : Shaped(job[j])

LEMMA RestIsShaped == Shaped(Rest)
  BY DEF Shaped, Rest, Job, Steps, Lanes

\* A step that sets one job to a shaped record and leaves the collections alone.
LEMMA OneJobMoves ==
    ASSUME Typed, NEW j \in Jobs, NEW r, Shaped(r), job' = [job EXCEPT ![j] = r]
    PROVE  job' \in [Jobs -> Job] /\ \A k \in Jobs : Shaped(job'[k])
  BY DEF Typed, TypeOK, Shaped

LEMMA BeginTyped ==
    ASSUME Typed, NEW j \in Jobs, NEW e \in Emails, NEW s \in Series, NEW lane \in Lanes,
           NEW adm \in Admissions \cup {None}, Begin(j, e, s, lane, adm)
    PROVE  Typed'
<1> DEFINE r == [at |-> "check", email |-> e, series |-> s, lane |-> lane, adm |-> adm,
                 num |-> 0, todo |-> Collections, hit |-> FALSE]
<1>1. Shaped(r)
  BY DEF Shaped, Job, Steps
<1>2. job' = [job EXCEPT ![j] = r]
  BY DEF Begin
<1>3. job' \in [Jobs -> Job] /\ \A k \in Jobs : Shaped(job'[k])
  <2> HIDE DEF r
  <2> QED BY <1>1, <1>2, OneJobMoves
<1>4. received' \in 0 .. MaxRequests
  BY RequestsAssumption DEF Begin, Typed, TypeOK
<1> QED
  BY <1>3, <1>4 DEF Begin, Typed, TypeOK

LEMMA CheckEmailTyped ==
    ASSUME Typed, NEW j \in Jobs, NEW coll \in Collections, CheckEmail(j, coll)
    PROVE  Typed'
<1> DEFINE left == job[j].todo \ {coll}
           hit == job[j].hit \/ Registered(job[j].email, coll)
           r == IF left # {} THEN [job[j] EXCEPT !.todo = left, !.hit = hit]
                ELSE IF hit THEN Rest
                ELSE [job[j] EXCEPT !.at = "scan",
                                    !.todo = IF IsStudent(j) THEN Lanes ELSE {}]
<1>1. Shaped(job[j]) /\ job[j] \in Job /\ job[j].at = "check"
  BY DEF Typed, TypeOK, CheckEmail
<1>2. left \in SUBSET (Collections \cup Lanes) /\ hit \in BOOLEAN
  BY <1>1 DEF Job, Registered
<1>3. Shaped([job[j] EXCEPT !.todo = left, !.hit = hit])
  <2> HIDE DEF left, hit
  <2> QED BY <1>1, <1>2 DEF Shaped, Job
<1>4. Shaped([job[j] EXCEPT !.at = "scan", !.todo = IF IsStudent(j) THEN Lanes ELSE {}])
  BY <1>1 DEF Shaped, Job, Steps, IsStudent
<1>5. Shaped(r)
  <2> HIDE DEF left, hit
  <2> QED BY <1>3, <1>4, RestIsShaped
<1>6. job' = [job EXCEPT ![j] = r]
  BY <1>1 DEF CheckEmail, Typed, TypeOK
<1>7. job' \in [Jobs -> Job] /\ \A k \in Jobs : Shaped(job'[k])
  <2> HIDE DEF r
  <2> QED BY <1>5, <1>6, OneJobMoves
<1> QED
  BY <1>7 DEF CheckEmail, Typed, TypeOK

LEMMA ScanLaneTyped ==
    ASSUME Typed, NEW j \in Jobs, NEW lane \in Lanes, ScanLane(j, lane)
    PROVE  Typed'
<1>1. Shaped(job[j]) /\ job[j] \in Job /\ job[j].at = "scan" /\ lane \in job[j].todo
  BY DEF Typed, TypeOK, ScanLane
<1>2. PICK n \in StudentNumbers(job[j].series) \cup {0} :
         job' = [job EXCEPT ![j] = Scanned(job[j], lane, n)]
  BY DEF ScanLane
<1>3. n \in Nat
  BY DEF StudentNumbers, Student, Typed, TypeOK
<1>4. job[j].series \in Cohorts
  BY <1>1 DEF Shaped
<1>5. Shaped(Scanned(job[j], lane, n))
  BY <1>1, <1>3, <1>4 DEF Shaped, Scanned, Job, Steps
<1>6. job' \in [Jobs -> Job] /\ \A k \in Jobs : Shaped(job'[k])
  BY <1>2, <1>5, OneJobMoves
<1> QED
  BY <1>6 DEF ScanLane, Typed, TypeOK

LEMMA CounterStepTyped ==
    ASSUME Typed, NEW j \in Jobs, Seed(j) \/ Increment(j)
    PROVE  Typed'
<1>1. Shaped(job[j]) /\ job[j] \in Job /\ job[j].at \in {"seed", "inc"}
  BY DEF Typed, TypeOK, Seed, Increment
<1>2. job[j].series \in Cohorts
  BY <1>1 DEF Shaped
<1>3. CASE Seed(j)
  <2>1. Shaped([job[j] EXCEPT !.at = "inc"])
    BY <1>1, <1>2 DEF Shaped, Job, Steps
  <2>2. job' \in [Jobs -> Job] /\ \A k \in Jobs : Shaped(job'[k])
    BY <1>3, <2>1, OneJobMoves DEF Seed, Move
  <2>3. counter' \in [Cohorts -> Nat \cup {Absent}]
    BY <1>1, <1>2, <1>3 DEF Seed, SeededCounter, Job, Typed, TypeOK
  <2> QED
    BY <1>3, <2>2, <2>3 DEF Seed, Typed, TypeOK
<1>4. CASE Increment(j)
  <2> DEFINE n == counter[job[j].series] + 1
             r == [job[j] EXCEPT !.at = "insert", !.num = n]
  <2>1. n \in Nat
    BY <1>2 DEF Typed, TypeOK, Absent
  <2>2. Shaped(r)
    <3> HIDE DEF n
    <3> QED BY <1>1, <1>2, <2>1 DEF Shaped, Job, Steps, Series
  <2>3. job' = [job EXCEPT ![j] = r]
    BY <1>4 DEF Increment, Typed, TypeOK
  <2>4. job' \in [Jobs -> Job] /\ \A k \in Jobs : Shaped(job'[k])
    <3> HIDE DEF r
    <3> QED BY <2>2, <2>3, OneJobMoves
  <2>5. counter' \in [Cohorts -> Nat \cup {Absent}]
    BY <1>4, <2>1 DEF Increment, Typed, TypeOK
  <2> QED
    BY <1>4, <2>4, <2>5 DEF Increment, Typed, TypeOK
<1> QED
  BY <1>3, <1>4

LEMMA InsertTyped ==
    ASSUME Typed, NEW j \in Jobs, InsertStudent(j) \/ InsertStaffGuest(j)
    PROVE  Typed'
<1>1. /\ Shaped(job[j]) /\ job[j] \in Job /\ job[j].at = "insert"
      /\ job[j].email \in Emails /\ job[j].series \in Series
  BY DEF Typed, TypeOK, InsertStudent, InsertStaffGuest, Shaped
<1>2. Shaped([job[j] EXCEPT !.at = "mail"])
  BY <1>1 DEF Shaped, Job, Steps
<1>3. job' \in [Jobs -> Job] /\ \A k \in Jobs : Shaped(job'[k])
  BY <1>2, OneJobMoves DEF InsertStudent, InsertStaffGuest, Move
<1>4. CASE InsertStudent(j)
  <2>1. StudentRecord(j) \in Student
    BY <1>1, <1>4 DEF InsertStudent, IsStudent, StudentRecord, Student, Job
  <2> QED
    BY <1>3, <1>4, <2>1 DEF InsertStudent, Rivals, Typed, TypeOK
<1>5. CASE InsertStaffGuest(j)
  <2>1. [email |-> job[j].email, series |-> job[j].series, num |-> job[j].num] \in StaffGuest
    BY <1>1, <1>5 DEF InsertStaffGuest, IsStudent, StaffGuest, Job, Series
  <2> QED
    BY <1>3, <1>5, <2>1 DEF InsertStaffGuest, Rivals, Typed, TypeOK
<1> QED
  BY <1>4, <1>5

LEMMA ScanStaffGuestTyped ==
    ASSUME Typed, NEW j \in Jobs, ScanStaffGuest(j)
    PROVE  Typed'
<1>1. Shaped(job[j]) /\ job[j] \in Job /\ job[j].at = "scan"
  BY DEF Typed, TypeOK, ScanStaffGuest
<1>2. PICK n \in StaffNumbers(job[j].series) \cup {0} :
         job' = [job EXCEPT ![j] = [@ EXCEPT !.at = "insert", !.num = NextNumber(n)]]
  BY DEF ScanStaffGuest
<1>3. NextNumber(n) \in Nat
  BY DEF NextNumber, StaffNumbers, StaffGuest, Typed, TypeOK
<1> DEFINE r == [job[j] EXCEPT !.at = "insert", !.num = NextNumber(n)]
<1>4. Shaped(r)
  BY <1>1, <1>3 DEF Shaped, Job, Steps
<1>5. job' = [job EXCEPT ![j] = r]
  BY <1>2 DEF Typed, TypeOK
<1>6. job' \in [Jobs -> Job] /\ \A k \in Jobs : Shaped(job'[k])
  <2> HIDE DEF r
  <2> QED BY <1>4, <1>5, OneJobMoves
<1> QED
  BY <1>6 DEF ScanStaffGuest, Typed, TypeOK

\* A step that ends a request and touches nothing else.
LEMMA FinishTyped ==
    ASSUME Typed, NEW j \in Jobs, Finish(j),
           UNCHANGED <<registrations, staffGuests, counter, received, overtaken, forestalled>>
    PROVE  Typed'
  BY RestIsShaped, OneJobMoves DEF Finish, Typed, TypeOK

LEMMA TypedInductive == Typed /\ [Next]_vars => Typed'
<1> SUFFICES ASSUME Typed, [Next]_vars PROVE Typed'
  OBVIOUS
<1>1. ASSUME NEW j \in Jobs, Arrive(j) PROVE Typed'
  BY <1>1, BeginTyped DEF Arrive, BeginStudent, BeginStaffGuest, Series, Lanes
<1>2. ASSUME NEW j \in Jobs, Step(j) PROVE Typed'
  <2>1. ASSUME RefuseStudent(j) \/ RefuseStaffGuest(j) \/ MailAndAnswer(j) PROVE Typed'
    BY <2>1, FinishTyped DEF RefuseStudent, RefuseStaffGuest, MailAndAnswer
  <2> QED
    BY <1>2, <2>1, CheckEmailTyped, ScanLaneTyped, CounterStepTyped, InsertTyped,
       ScanStaffGuestTyped DEF Step
<1>3. ASSUME NEW j \in Jobs, Fail(j) PROVE Typed'
  BY <1>3, FinishTyped DEF Fail
<1>4. CASE DeleteStudent
  BY <1>4 DEF DeleteStudent, Typed, TypeOK
<1>5. CASE DeleteStaffGuest
  BY <1>5 DEF DeleteStaffGuest, Typed, TypeOK
<1>6. CASE Crash
  BY <1>6, RestIsShaped DEF Crash, Typed, TypeOK, Shaped
<1>7. CASE UNCHANGED vars
  BY <1>7 DEF vars, Typed, TypeOK
<1> QED
  BY <1>1, <1>2, <1>3, <1>4, <1>5, <1>6, <1>7 DEF Next

LEMMA TypedInitially == Init => Typed
  BY LegacyAssumption, RequestsAssumption, RestIsShaped
  DEF Init, Typed, TypeOK, Absent, Shaped

\* Every variable keeps its type, whatever requests overlap, fail or crash.
THEOREM TypeCorrect == Spec => []TypeOK
<1>1. Typed => TypeOK
  BY DEF Typed
<1> QED
  BY <1>1, TypedInitially, TypedInductive, PTL DEF Spec

-----------------------------------------------------------------------------
(* Numbers.                                                                *)

\* Before the cohort has a counter its records are the legacy ones, nobody is
\* past seeding, and whoever read a lane knows a number no lower than its own.
UncountedInv ==
    \A c \in Cohorts : counter[c] = Absent =>
        /\ \A d \in registrations : d.series = c => d \in Legacy
        /\ \A j \in Jobs : job[j].series = c => job[j].at \notin {"inc", "insert"}
        /\ \A j \in Jobs, d \in registrations :
              /\ job[j].series = c /\ job[j].at \in {"scan", "seed"}
              /\ d.series = c /\ d.lane \notin job[j].todo
              => d.num <= job[j].num

\* From then on the counter is at least every number in use or about to be.
CountedInv ==
    \A c \in Cohorts : counter[c] # Absent =>
        /\ \A d \in registrations : d.series = c => d.num <= counter[c]
        /\ \A j \in Jobs : job[j].series = c /\ job[j].at = "insert"
                           => job[j].num <= counter[c]

NumbersInv ==
    /\ UncountedInv
    /\ CountedInv
    /\ ReservedNumbersFree
    /\ NumbersUnique

\* A step of one job that neither reads, takes nor uses a student number.
LEMMA QuietStep ==
    ASSUME Typed, NumbersInv, NEW j \in Jobs, NEW r, job' = [job EXCEPT ![j] = r],
           r.series \in Cohorts => /\ r.at \notin {"seed", "inc", "insert"}
                                   /\ r.at = "scan" => Lanes \subseteq r.todo,
           UNCHANGED <<registrations, counter>>
    PROVE  NumbersInv'
<1>1. \A k \in Jobs :
         \/ job'[k] = job[k]
         \/ job'[k].series \notin Cohorts
         \/ /\ job'[k].at \notin {"seed", "inc", "insert"}
            /\ job'[k].at = "scan" => Lanes \subseteq job'[k].todo
  <2>1. \A k \in Jobs : job'[k] = IF k = j THEN r ELSE job[k]
    BY DEF Typed, TypeOK
  <2> QED
    BY <2>1
<1>2. \A d \in registrations : d.lane \in Lanes
  BY DEF Typed, TypeOK, Student
<1>0. registrations' = registrations /\ counter' = counter
  OBVIOUS
<1>3. UncountedInv'
  <2> SUFFICES ASSUME NEW c \in Cohorts, counter[c] = Absent
               PROVE  /\ \A d \in registrations : d.series = c => d \in Legacy
                      /\ \A k \in Jobs : job'[k].series = c => job'[k].at \notin {"inc", "insert"}
                      /\ \A k \in Jobs, d \in registrations :
                            /\ job'[k].series = c /\ job'[k].at \in {"scan", "seed"}
                            /\ d.series = c /\ d.lane \notin job'[k].todo
                            => d.num <= job'[k].num
    BY <1>0 DEF UncountedInv
  <2> QED
    BY <1>1, <1>2 DEF NumbersInv, UncountedInv
<1>4. CountedInv'
  BY <1>0, <1>1 DEF NumbersInv, CountedInv
<1>5. ReservedNumbersFree'
  BY <1>0, <1>1 DEF NumbersInv, ReservedNumbersFree, IsStudent, StudentNumbers
<1>6. NumbersUnique'
  BY <1>0 DEF NumbersInv, NumbersUnique
<1> QED
  BY <1>3, <1>4, <1>5, <1>6 DEF NumbersInv

LEMMA ScanLaneNumbers ==
    ASSUME Typed, NumbersInv, NEW j \in Jobs, NEW lane \in Lanes, ScanLane(j, lane)
    PROVE  NumbersInv'
<1> DEFINE c == job[j].series
<1>1. c \in Cohorts /\ job[j] \in Job /\ job[j].at = "scan" /\ lane \in job[j].todo
  BY DEF Typed, TypeOK, Shaped, ScanLane
<1>2. PICK n \in StudentNumbers(c) \cup {0} :
         /\ IsTop(n, LaneNumbers(c, lane))
         /\ job' = [job EXCEPT ![j] = Scanned(job[j], lane, n)]
  BY DEF ScanLane
<1>3. n \in Nat /\ job[j].num \in Nat
  BY <1>1 DEF StudentNumbers, Student, Typed, TypeOK, Job
<1> DEFINE r == Scanned(job[j], lane, n)
<1>4. \A k \in Jobs : job'[k] = IF k = j THEN r ELSE job[k]
  BY <1>2 DEF Typed, TypeOK
<1>5. /\ r.series = c /\ r.todo = job[j].todo \ {lane} /\ r.at \in {"scan", "seed"}
      /\ r.num \in Nat /\ r.num >= n /\ r.num >= job[j].num
  BY <1>1, <1>3 DEF Scanned, Job
<1>6. ASSUME counter[c] = Absent, NEW d \in registrations, d.series = c, d.lane \notin r.todo
      PROVE  d.num <= r.num
  <2>1. d \in Legacy /\ d.num \in Nat /\ d.num <= Limit
    BY <1>1, <1>6, LegacyAssumption, LimitAssumption DEF NumbersInv, UncountedInv
  <2>2. CASE d.lane = lane
    <3>1. d.num \in Seen(LaneNumbers(c, lane))
      BY <1>6, <2>1, <2>2 DEF Seen, LaneNumbers
    <3> QED
      BY <1>2, <1>3, <1>5, <2>1, <3>1 DEF IsTop
  <2>3. CASE d.lane # lane
    <3>1. d.num <= job[j].num
      BY <1>1, <1>5, <1>6, <2>3 DEF NumbersInv, UncountedInv
    <3> QED
      BY <1>3, <1>5, <2>1, <3>1
  <2> QED
    BY <2>2, <2>3
<1>7. UNCHANGED <<registrations, counter>>
  BY DEF ScanLane
<1> HIDE DEF r
<1>8. UncountedInv'
  BY <1>4, <1>5, <1>6, <1>7 DEF NumbersInv, UncountedInv
<1>9. CountedInv'
  BY <1>4, <1>5, <1>7 DEF NumbersInv, CountedInv
<1>10. ReservedNumbersFree'
  BY <1>4, <1>5, <1>7 DEF NumbersInv, ReservedNumbersFree, IsStudent, StudentNumbers
<1>11. NumbersUnique'
  BY <1>7 DEF NumbersInv, NumbersUnique
<1> QED
  BY <1>8, <1>9, <1>10, <1>11 DEF NumbersInv

LEMMA SeedNumbers ==
    ASSUME Typed, NumbersInv, NEW j \in Jobs, Seed(j)
    PROVE  NumbersInv'
<1> DEFINE c == job[j].series
           r == [job[j] EXCEPT !.at = "inc"]
<1>1. c \in Cohorts /\ job[j] \in Job /\ job[j].at = "seed" /\ job[j].num \in Nat
  BY DEF Typed, TypeOK, Shaped, Seed, Job
<1>2. \A k \in Jobs : job'[k] = IF k = j THEN r ELSE job[k]
  BY DEF Seed, Move, Typed, TypeOK
<1>3. /\ counter'[c] = IF counter[c] = Absent THEN job[j].num ELSE counter[c]
      /\ \A x \in Cohorts \ {c} : counter'[x] = counter[x]
      /\ counter'[c] # Absent
      /\ registrations' = registrations
  BY <1>1 DEF Seed, SeededCounter, Typed, TypeOK, Absent
<1>4. r.series = c /\ r.at = "inc"
  BY <1>1 DEF Job
<1> HIDE DEF r
<1>5. UncountedInv'
  BY <1>2, <1>3, <1>4 DEF NumbersInv, UncountedInv
<1>6. ASSUME counter[c] = Absent, NEW d \in registrations, d.series = c
      PROVE  d.num <= job[j].num
  <2>1. d.lane \notin job[j].todo
    BY <1>1 DEF Typed, Shaped
  <2> QED
    BY <1>1, <1>6, <2>1 DEF NumbersInv, UncountedInv
<1>7. CountedInv'
  BY <1>1, <1>2, <1>3, <1>4, <1>6 DEF NumbersInv, CountedInv, UncountedInv
<1>8. ReservedNumbersFree'
  BY <1>2, <1>3, <1>4 DEF NumbersInv, ReservedNumbersFree, IsStudent, StudentNumbers
<1>9. NumbersUnique'
  BY <1>3 DEF NumbersInv, NumbersUnique
<1> QED
  BY <1>5, <1>7, <1>8, <1>9 DEF NumbersInv

LEMMA IncrementNumbers ==
    ASSUME Typed, NumbersInv, NEW j \in Jobs, Increment(j)
    PROVE  NumbersInv'
<1> DEFINE c == job[j].series
           n == counter[c] + 1
           r == [job[j] EXCEPT !.at = "insert", !.num = n]
<1>1. c \in Cohorts /\ job[j] \in Job /\ job[j].at = "inc"
  BY DEF Typed, TypeOK, Shaped, Increment
<1>2. counter[c] # Absent /\ counter[c] \in Nat
  BY <1>1 DEF NumbersInv, UncountedInv, Typed, TypeOK
<1>3. \A k \in Jobs : job'[k] = IF k = j THEN r ELSE job[k]
  BY DEF Increment, Typed, TypeOK
<1>4. r.series = c /\ r.at = "insert" /\ r.num = n
  BY <1>1 DEF Job
<1>5. /\ counter'[c] = n /\ n \in Nat /\ n # Absent /\ n > counter[c]
      /\ \A x \in Cohorts \ {c} : counter'[x] = counter[x]
      /\ registrations' = registrations
  BY <1>1, <1>2 DEF Increment, Typed, TypeOK, Absent
<1>6. \A d \in registrations : d.num \in Nat
  BY DEF Typed, TypeOK, Student
<1>7. \A k \in Jobs : job[k].num \in Nat
  BY DEF Typed, TypeOK, Job
<1> HIDE DEF r, n
<1>8. UncountedInv'
  BY <1>3, <1>4, <1>5 DEF NumbersInv, UncountedInv
<1>9. CountedInv'
  BY <1>1, <1>2, <1>3, <1>4, <1>5, <1>6, <1>7 DEF NumbersInv, CountedInv
<1>10. ASSUME NEW d \in registrations, d.series = c PROVE d.num # n
  BY <1>1, <1>2, <1>5, <1>6, <1>10 DEF NumbersInv, CountedInv
<1>11. ASSUME NEW k \in Jobs, job[k].series = c, job[k].at = "insert" PROVE job[k].num # n
  BY <1>1, <1>2, <1>5, <1>7, <1>11 DEF NumbersInv, CountedInv
<1>12. ReservedNumbersFree'
  BY <1>1, <1>3, <1>4, <1>5, <1>10, <1>11
  DEF NumbersInv, ReservedNumbersFree, IsStudent, StudentNumbers
<1>13. NumbersUnique'
  BY <1>5 DEF NumbersInv, NumbersUnique
<1> QED
  BY <1>8, <1>9, <1>12, <1>13 DEF NumbersInv

LEMMA InsertStudentNumbers ==
    ASSUME Typed, NumbersInv, NEW j \in Jobs, InsertStudent(j)
    PROVE  NumbersInv'
<1> DEFINE c == job[j].series
           new == StudentRecord(j)
           r == [job[j] EXCEPT !.at = "mail"]
<1>1. c \in Cohorts /\ job[j] \in Job /\ job[j].at = "insert"
  BY DEF Typed, TypeOK, InsertStudent, IsStudent
<1>2. \A k \in Jobs : job'[k] = IF k = j THEN r ELSE job[k]
  BY DEF InsertStudent, Move, Typed, TypeOK
<1>3. r.series = c /\ r.at = "mail"
  BY <1>1 DEF Job
<1>4. /\ registrations' = registrations \cup {new} /\ counter' = counter
      /\ new.series = c /\ new.num = job[j].num
  BY DEF InsertStudent, StudentRecord
<1>5. counter[c] # Absent
  BY <1>1 DEF NumbersInv, UncountedInv
<1> HIDE DEF r, new
<1>6. UncountedInv'
  BY <1>2, <1>3, <1>4, <1>5 DEF NumbersInv, UncountedInv
<1>7. CountedInv'
  BY <1>1, <1>2, <1>3, <1>4 DEF NumbersInv, CountedInv
<1>8. /\ \A d \in registrations : d.series = c => d.num # job[j].num
      /\ \A k \in Jobs \ {j} : job[k].at = "insert" /\ job[k].series = c
                              => job[k].num # job[j].num
  BY <1>1 DEF NumbersInv, ReservedNumbersFree, IsStudent, StudentNumbers
<1>9. ReservedNumbersFree'
  BY <1>2, <1>3, <1>4, <1>8 DEF NumbersInv, ReservedNumbersFree, IsStudent, StudentNumbers
<1>10. NumbersUnique'
  BY <1>4, <1>8 DEF NumbersInv, NumbersUnique
<1> QED
  BY <1>6, <1>7, <1>9, <1>10 DEF NumbersInv

LEMMA FewerRecords ==
    ASSUME Typed, NumbersInv, registrations' \subseteq registrations,
           UNCHANGED <<counter, job>>
    PROVE  NumbersInv'
<1>1. UncountedInv' /\ CountedInv' /\ NumbersUnique'
  BY DEF NumbersInv, UncountedInv, CountedInv, NumbersUnique
<1>2. ReservedNumbersFree'
  BY DEF NumbersInv, ReservedNumbersFree, IsStudent, StudentNumbers
<1> QED
  BY <1>1, <1>2 DEF NumbersInv

LEMMA NumbersInductive == Typed /\ NumbersInv /\ [Next]_vars => NumbersInv'
<1> SUFFICES ASSUME Typed, NumbersInv, [Next]_vars PROVE NumbersInv'
  OBVIOUS
<1>1. ASSUME NEW j \in Jobs, Finish(j), UNCHANGED <<registrations, counter>>
      PROVE  NumbersInv'
  BY <1>1, QuietStep DEF Finish, Rest
<1>2. ASSUME NEW j \in Jobs, Arrive(j) PROVE NumbersInv'
  BY <1>2, QuietStep DEF Arrive, BeginStudent, BeginStaffGuest, Begin
<1>3. ASSUME NEW j \in Jobs, NEW coll \in Collections, CheckEmail(j, coll) PROVE NumbersInv'
  <2> DEFINE left == job[j].todo \ {coll}
             hit == job[j].hit \/ Registered(job[j].email, coll)
             r == IF left # {} THEN [job[j] EXCEPT !.todo = left, !.hit = hit]
                  ELSE IF hit THEN Rest
                  ELSE [job[j] EXCEPT !.at = "scan",
                                      !.todo = IF IsStudent(j) THEN Lanes ELSE {}]
  <2>1. job[j] \in Job /\ job[j].at = "check"
    BY <1>3 DEF CheckEmail, Typed, TypeOK
  <2>2. job' = [job EXCEPT ![j] = r]
    BY <1>3 DEF CheckEmail, Typed, TypeOK
  <2>3. r.series \in Cohorts => /\ r.at \notin {"seed", "inc", "insert"}
                                /\ r.at = "scan" => Lanes \subseteq r.todo
    BY <2>1 DEF Job, Rest, IsStudent
  <2> QED
    <3> HIDE DEF r
    <3> QED BY <1>3, <2>2, <2>3, QuietStep DEF CheckEmail
<1>4. ASSUME NEW j \in Jobs, ScanStaffGuest(j) PROVE NumbersInv'
  <2>1. PICK n \in StaffNumbers(job[j].series) \cup {0} :
           job' = [job EXCEPT ![j] = [@ EXCEPT !.at = "insert", !.num = NextNumber(n)]]
    BY <1>4 DEF ScanStaffGuest
  <2>2. job[j] \in Job /\ job[j].series \notin Cohorts
    BY <1>4 DEF ScanStaffGuest, IsStudent, Typed, TypeOK
  <2>3. job' = [job EXCEPT ![j] = [job[j] EXCEPT !.at = "insert", !.num = NextNumber(n)]]
    BY <2>1 DEF Typed, TypeOK
  <2>4. [job[j] EXCEPT !.at = "insert", !.num = NextNumber(n)].series \notin Cohorts
    BY <2>2 DEF Job
  <2> QED
    BY <1>4, <2>3, <2>4, QuietStep DEF ScanStaffGuest
<1>5. ASSUME NEW j \in Jobs, InsertStaffGuest(j) PROVE NumbersInv'
  <2>1. job' = [job EXCEPT ![j] = [job[j] EXCEPT !.at = "mail"]]
    BY <1>5 DEF InsertStaffGuest, Move, Typed, TypeOK
  <2>2. [job[j] EXCEPT !.at = "mail"].series \notin Cohorts
    BY <1>5 DEF InsertStaffGuest, IsStudent, Typed, TypeOK, Job
  <2> QED
    BY <1>5, <2>1, <2>2, QuietStep DEF InsertStaffGuest
<1>6. ASSUME NEW j \in Jobs, Step(j) PROVE NumbersInv'
  <2>1. ASSUME RefuseStudent(j) \/ RefuseStaffGuest(j) \/ MailAndAnswer(j) PROVE NumbersInv'
    BY <1>1, <2>1 DEF RefuseStudent, RefuseStaffGuest, MailAndAnswer
  <2> QED
    BY <1>3, <1>4, <1>5, <1>6, <2>1, ScanLaneNumbers, SeedNumbers, IncrementNumbers,
       InsertStudentNumbers DEF Step
<1>7. ASSUME NEW j \in Jobs, Fail(j) PROVE NumbersInv'
  BY <1>1, <1>7 DEF Fail
<1>8. CASE DeleteStudent
  BY <1>8, FewerRecords DEF DeleteStudent
<1>9. CASE DeleteStaffGuest
  BY <1>9, FewerRecords DEF DeleteStaffGuest
<1>10. CASE Crash
  <2>1. \A k \in Jobs : job'[k].at = "rest" /\ job'[k].series \notin Cohorts
    BY <1>10 DEF Crash, Rest, Series
  <2>2. UNCHANGED <<registrations, counter>>
    BY <1>10 DEF Crash
  <2> QED
    BY <2>1, <2>2 DEF NumbersInv, UncountedInv, CountedInv, ReservedNumbersFree,
                      NumbersUnique, IsStudent
<1>11. CASE UNCHANGED vars
  BY <1>11, FewerRecords DEF vars
<1> QED
  BY <1>2, <1>6, <1>7, <1>8, <1>9, <1>10, <1>11 DEF Next

LEMMA NumbersInitially == Init => NumbersInv
<1> SUFFICES ASSUME Init PROVE NumbersInv
  OBVIOUS
<1>1. \A j \in Jobs : job[j].at = "rest" /\ job[j].series \notin Cohorts
  BY DEF Init, Rest, Series
<1>2. NumbersUnique
  BY LegacyAssumption DEF Init, NumbersUnique
<1> QED
  BY <1>1, <1>2 DEF Init, NumbersInv, UncountedInv, CountedInv, ReservedNumbersFree, IsStudent

LEMMA NumbersAlways == Spec => []NumbersInv
<1>1. Typed /\ NumbersInv /\ [Next]_vars => (Typed /\ NumbersInv)'
  BY TypedInductive, NumbersInductive
<1> QED
  BY <1>1, TypedInitially, NumbersInitially, PTL DEF Spec

\* No two student records of a cohort carry the same number, plain or lateral.
THEOREM StudentNumbersUnique == Spec => []NumbersUnique
<1>1. NumbersInv => NumbersUnique
  BY DEF NumbersInv
<1> QED
  BY <1>1, NumbersAlways, PTL

\* A number taken from the counter is free when its record is written.
THEOREM NumbersReservedSafely == Spec => []ReservedNumbersFree
<1>1. NumbersInv => ReservedNumbersFree
  BY DEF NumbersInv
<1> QED
  BY <1>1, NumbersAlways, PTL

-----------------------------------------------------------------------------
(* Staff and guest IDs.                                                    *)

StaffInv ==
    /\ \A d \in staffGuests : d.num <= Limit + 1
    /\ \A j \in Jobs : job[j].at = "insert" /\ ~IsStudent(j) => job[j].num <= Limit + 1
    /\ NoSpuriousDuplicate

\* A step of one job that computes no staff/guest ID; the records may get fewer.
LEMMA QuietStaffStep ==
    ASSUME Typed, StaffInv, NEW j \in Jobs, NEW r, job' = [job EXCEPT ![j] = r],
           r.series \notin Cohorts => r.at # "insert",
           staffGuests' = staffGuests, overtaken' = overtaken
    PROVE  StaffInv'
<1>1. \A k \in Jobs : job'[k] = IF k = j THEN r ELSE job[k]
  BY DEF Typed, TypeOK
<1> QED
  BY <1>1 DEF StaffInv, NoSpuriousDuplicate, StaffIdTaken, StaffNumbers, IsStudent

LEMMA ScanStaff ==
    ASSUME Typed, StaffInv, NEW j \in Jobs, ScanStaffGuest(j)
    PROVE  StaffInv'
<1> DEFINE p == job[j].series
<1>1. job[j] \in Job /\ p \notin Cohorts
  BY DEF Typed, TypeOK, ScanStaffGuest, IsStudent
<1>2. PICK n \in StaffNumbers(p) \cup {0} :
         /\ IsTop(n, StaffNumbers(p))
         /\ job' = [job EXCEPT ![j] = [@ EXCEPT !.at = "insert", !.num = NextNumber(n)]]
  BY DEF ScanStaffGuest
<1> DEFINE r == [job[j] EXCEPT !.at = "insert", !.num = n + 1]
<1>3. \A k \in Jobs : job'[k] = IF k = j THEN r ELSE job[k]
  BY <1>2 DEF Typed, TypeOK, NextNumber
<1>4. r.at = "insert" /\ r.series = p /\ r.num = n + 1
  BY <1>1 DEF Job
<1>5. n \in Nat /\ n <= Limit
  BY <1>2, LimitAssumption DEF IsTop, Seen, StaffNumbers, Typed, TypeOK, StaffGuest
<1>6. ASSUME n + 1 <= Limit PROVE n + 1 \notin StaffNumbers(p)
  BY <1>2, <1>5, <1>6, LimitAssumption DEF IsTop, Seen
<1>7. staffGuests' = staffGuests /\ overtaken' = overtaken \ {j}
  BY DEF ScanStaffGuest
<1> HIDE DEF r
<1>8. \A d \in staffGuests' : d.num <= Limit + 1
  BY <1>7 DEF StaffInv
<1>9. \A k \in Jobs : job'[k].at = "insert" /\ ~IsStudent(k)' => job'[k].num <= Limit + 1
  BY <1>3, <1>4, <1>5, LimitAssumption DEF StaffInv, IsStudent
<1>10. NoSpuriousDuplicate'
  BY <1>3, <1>4, <1>6, <1>7
  DEF StaffInv, NoSpuriousDuplicate, StaffIdTaken, StaffNumbers, IsStudent
<1> QED
  BY <1>8, <1>9, <1>10 DEF StaffInv

LEMMA InsertStaff ==
    ASSUME Typed, StaffInv, NEW j \in Jobs, InsertStaffGuest(j)
    PROVE  StaffInv'
<1> DEFINE new == [email |-> job[j].email, series |-> job[j].series, num |-> job[j].num]
           r == [job[j] EXCEPT !.at = "mail"]
<1>1. job[j] \in Job /\ job[j].at = "insert" /\ ~IsStudent(j)
  BY DEF Typed, TypeOK, InsertStaffGuest
<1>2. \A k \in Jobs : job'[k] = IF k = j THEN r ELSE job[k]
  BY DEF InsertStaffGuest, Move, Typed, TypeOK
<1>3. r.at = "mail"
  BY <1>1 DEF Job
<1>4. /\ staffGuests' = staffGuests \cup {new}
      /\ new.series = job[j].series /\ new.num = job[j].num
      /\ overtaken' = overtaken \cup
            {k \in Jobs \ {j} : job[k].at = "insert" /\ job[k].series = job[j].series}
  BY DEF InsertStaffGuest
<1> HIDE DEF new, r
<1>5. \A d \in staffGuests' : d.num <= Limit + 1
  BY <1>1, <1>4 DEF StaffInv
<1>6. \A k \in Jobs : job'[k].at = "insert" /\ ~IsStudent(k)' => job'[k].num <= Limit + 1
  BY <1>2, <1>3 DEF StaffInv, IsStudent
<1>7. NoSpuriousDuplicate'
  BY <1>2, <1>3, <1>4 DEF StaffInv, NoSpuriousDuplicate, StaffIdTaken, StaffNumbers, IsStudent
<1> QED
  BY <1>5, <1>6, <1>7 DEF StaffInv

LEMMA StaffInductive == Typed /\ StaffInv /\ [Next]_vars => StaffInv'
<1> SUFFICES ASSUME Typed, StaffInv, [Next]_vars PROVE StaffInv'
  OBVIOUS
<1>1. ASSUME NEW j \in Jobs, Finish(j), UNCHANGED <<staffGuests, overtaken>>
      PROVE  StaffInv'
  BY <1>1, QuietStaffStep DEF Finish, Rest
<1>2. ASSUME NEW j \in Jobs, Arrive(j) PROVE StaffInv'
  BY <1>2, QuietStaffStep DEF Arrive, BeginStudent, BeginStaffGuest, Begin
<1>3. ASSUME NEW j \in Jobs, NEW coll \in Collections, CheckEmail(j, coll) PROVE StaffInv'
  <2> DEFINE left == job[j].todo \ {coll}
             hit == job[j].hit \/ Registered(job[j].email, coll)
             r == IF left # {} THEN [job[j] EXCEPT !.todo = left, !.hit = hit]
                  ELSE IF hit THEN Rest
                  ELSE [job[j] EXCEPT !.at = "scan",
                                      !.todo = IF IsStudent(j) THEN Lanes ELSE {}]
  <2>1. job[j] \in Job /\ job[j].at = "check"
    BY <1>3 DEF CheckEmail, Typed, TypeOK
  <2>2. job' = [job EXCEPT ![j] = r]
    BY <1>3 DEF CheckEmail, Typed, TypeOK
  <2>3. r.at # "insert"
    BY <2>1 DEF Job, Rest
  <2> QED
    <3> HIDE DEF r
    <3> QED BY <1>3, <2>2, <2>3, QuietStaffStep DEF CheckEmail
<1>4. ASSUME NEW j \in Jobs, NEW lane \in Lanes, ScanLane(j, lane) PROVE StaffInv'
  <2>1. job[j] \in Job
    BY DEF Typed, TypeOK
  <2>2. PICK n : job' = [job EXCEPT ![j] = Scanned(job[j], lane, n)]
    BY <1>4 DEF ScanLane
  <2>3. Scanned(job[j], lane, n).at # "insert"
    BY <2>1 DEF Scanned, Job
  <2> QED
    BY <1>4, <2>2, <2>3, QuietStaffStep DEF ScanLane
<1>5. ASSUME NEW j \in Jobs, Seed(j) PROVE StaffInv'
  <2>1. job' = [job EXCEPT ![j] = [job[j] EXCEPT !.at = "inc"]]
    BY <1>5 DEF Seed, Move, Typed, TypeOK
  <2>2. [job[j] EXCEPT !.at = "inc"].at # "insert"
    BY DEF Typed, TypeOK, Job
  <2> QED
    BY <1>5, <2>1, <2>2, QuietStaffStep DEF Seed
<1>6. ASSUME NEW j \in Jobs, Increment(j) PROVE StaffInv'
  <2> DEFINE r == [job[j] EXCEPT !.at = "insert", !.num = counter[job[j].series] + 1]
  <2>1. job[j] \in Job /\ job[j].series \in Cohorts
    BY <1>6 DEF Increment, Typed, TypeOK, Shaped
  <2>2. job' = [job EXCEPT ![j] = r]
    BY <1>6 DEF Increment, Typed, TypeOK
  <2>3. r.series \in Cohorts
    BY <2>1 DEF Job
  <2> QED
    <3> HIDE DEF r
    <3> QED BY <1>6, <2>2, <2>3, QuietStaffStep DEF Increment
<1>7. ASSUME NEW j \in Jobs, InsertStudent(j) PROVE StaffInv'
  <2>1. job' = [job EXCEPT ![j] = [job[j] EXCEPT !.at = "mail"]]
    BY <1>7 DEF InsertStudent, Move, Typed, TypeOK
  <2>2. [job[j] EXCEPT !.at = "mail"].at # "insert"
    BY DEF Typed, TypeOK, Job
  <2> QED
    BY <1>7, <2>1, <2>2, QuietStaffStep DEF InsertStudent
<1>8. ASSUME NEW j \in Jobs, Step(j) PROVE StaffInv'
  <2>1. ASSUME RefuseStudent(j) \/ RefuseStaffGuest(j) \/ MailAndAnswer(j) PROVE StaffInv'
    BY <1>1, <2>1 DEF RefuseStudent, RefuseStaffGuest, MailAndAnswer
  <2> QED
    BY <1>3, <1>4, <1>5, <1>6, <1>7, <1>8, <2>1, ScanStaff, InsertStaff DEF Step
<1>9. ASSUME NEW j \in Jobs, Fail(j) PROVE StaffInv'
  BY <1>1, <1>9 DEF Fail
<1>10. CASE DeleteStudent
  BY <1>10 DEF DeleteStudent, StaffInv, NoSpuriousDuplicate, StaffIdTaken, StaffNumbers, IsStudent
<1>11. CASE DeleteStaffGuest
  BY <1>11 DEF DeleteStaffGuest, StaffInv, NoSpuriousDuplicate, StaffIdTaken, StaffNumbers,
               IsStudent
<1>12. CASE Crash
  <2>1. \A k \in Jobs : job'[k].at = "rest"
    BY <1>12 DEF Crash, Rest
  <2> QED
    BY <1>12, <2>1 DEF Crash, StaffInv, NoSpuriousDuplicate
<1>13. CASE UNCHANGED vars
  BY <1>13 DEF vars, StaffInv, NoSpuriousDuplicate, StaffIdTaken, StaffNumbers, IsStudent
<1> QED
  BY <1>2, <1>8, <1>9, <1>10, <1>11, <1>12, <1>13 DEF Next

LEMMA StaffAlways == Spec => []StaffInv
<1>1. Init => StaffInv
  BY DEF Init, Rest, StaffInv, NoSpuriousDuplicate
<1>2. Typed /\ StaffInv /\ [Next]_vars => (Typed /\ StaffInv)'
  BY TypedInductive, StaffInductive
<1> QED
  BY <1>1, <1>2, TypedInitially, PTL DEF Spec

\* A three-digit staff/guest ID is refused only to a request that was overtaken.
THEOREM StaffRefusedOnlyIfOvertaken == Spec => []NoSpuriousDuplicate
<1>1. StaffInv => NoSpuriousDuplicate
  BY DEF StaffInv
<1> QED
  BY <1>1, StaffAlways, PTL

\* A staff/guest series never gets past one number more than three digits hold.
THEOREM StaffCapped == Spec => []StaffSeriesCapped
<1>1. StaffInv => StaffSeriesCapped
  BY DEF StaffInv, StaffSeriesCapped
<1> QED
  BY <1>1, StaffAlways, PTL

-----------------------------------------------------------------------------
(* Emails.                                                                 *)

Past == {"scan", "seed", "inc", "insert"}

\* A collection that was looked up without a hit still lacks the email, unless
\* another request has recorded it since.
EmailInv ==
    \A j \in Jobs \ forestalled, coll \in Collections :
        \/ job[j].at \in Past
        \/ job[j].at = "check" /\ coll \notin job[j].todo /\ ~job[j].hit
        => ~Registered(job[j].email, coll)

\* Emails only disappear, and one job moves to a record that vouches for no more
\* than it did before, or than it has just looked up.
LEMMA QuietEmailStep ==
    ASSUME Typed, EmailInv, NEW j \in Jobs, NEW r, job' = [job EXCEPT ![j] = r],
           registrations' \subseteq registrations, staffGuests' \subseteq staffGuests,
           forestalled' = forestalled \/ forestalled' = forestalled \ {j},
           \A coll \in Collections :
              \/ r.at \in Past
              \/ r.at = "check" /\ coll \notin r.todo /\ ~r.hit
              => j \in forestalled' \/ ~Registered(r.email, coll)
    PROVE  EmailInv'
<1>1. \A k \in Jobs : job'[k] = IF k = j THEN r ELSE job[k]
  BY DEF Typed, TypeOK
<1>2. \A e, coll : ~Registered(e, coll) => ~Registered(e, coll)'
  BY DEF Registered
<1>3. SUFFICES ASSUME NEW k \in Jobs \ forestalled', NEW coll \in Collections,
                      \/ job'[k].at \in Past
                      \/ job'[k].at = "check" /\ coll \notin job'[k].todo /\ ~job'[k].hit
               PROVE  ~Registered(job[k].email, coll)'
  BY DEF EmailInv
<1>4. CASE k = j
  BY <1>1, <1>2, <1>3, <1>4
<1>5. CASE k # j
  <2>1. job'[k] = job[k] /\ k \notin forestalled
    BY <1>1, <1>3, <1>5
  <2>2. ~Registered(job[k].email, coll)
    BY <1>3, <2>1 DEF EmailInv
  <2> QED
    BY <1>2, <2>1, <2>2
<1> QED
  BY <1>4, <1>5

\* A step between the check and the write, or one that ends the request.
LEMMA PastEmailStep ==
    ASSUME Typed, EmailInv, NEW j \in Jobs, NEW r, job' = [job EXCEPT ![j] = r],
           registrations' = registrations, staffGuests' = staffGuests,
           forestalled' = forestalled,
           \/ r.at \notin Past \cup {"check"}
           \/ job[j].at \in Past /\ r.at \in Past /\ r.email = job[j].email
    PROVE  EmailInv'
<1>1. ASSUME NEW coll \in Collections,
             \/ r.at \in Past
             \/ r.at = "check" /\ coll \notin r.todo /\ ~r.hit
      PROVE  j \in forestalled' \/ ~Registered(r.email, coll)
  BY <1>1 DEF EmailInv, Past
<1> QED
  BY <1>1, QuietEmailStep

LEMMA CheckEmailKeepsEmails ==
    ASSUME Typed, EmailInv, NEW j \in Jobs, NEW coll \in Collections, CheckEmail(j, coll)
    PROVE  EmailInv'
<1> DEFINE left == job[j].todo \ {coll}
           hit == job[j].hit \/ Registered(job[j].email, coll)
           r == IF left # {} THEN [job[j] EXCEPT !.todo = left, !.hit = hit]
                ELSE IF hit THEN Rest
                ELSE [job[j] EXCEPT !.at = "scan",
                                    !.todo = IF IsStudent(j) THEN Lanes ELSE {}]
<1>1. job[j] \in Job /\ job[j].at = "check" /\ coll \in job[j].todo
  BY DEF Typed, TypeOK, CheckEmail
<1>2. job' = [job EXCEPT ![j] = r]
  BY DEF CheckEmail, Typed, TypeOK
<1>3. ASSUME NEW c \in Collections, c \notin left, ~hit, j \notin forestalled
      PROVE  ~Registered(job[j].email, c)
  BY <1>1, <1>3 DEF EmailInv
<1>4. \/ r.at = "rest"
      \/ r.at = "check" /\ r.todo = left /\ r.hit = hit /\ r.email = job[j].email
      \/ r.at = "scan" /\ left = {} /\ ~hit /\ r.email = job[j].email
  BY <1>1 DEF Job, Rest
<1> HIDE DEF r, left, hit
<1>5. ASSUME NEW c \in Collections,
             r.at \in Past \/ (r.at = "check" /\ c \notin r.todo /\ ~r.hit)
      PROVE  j \in forestalled' \/ ~Registered(r.email, c)
  BY <1>3, <1>4, <1>5 DEF Past, CheckEmail
<1> QED
  BY <1>2, <1>5, QuietEmailStep DEF CheckEmail

\* The new record forestalls whoever else is at its email.
LEMMA InsertKeepsEmails ==
    ASSUME Typed, EmailInv, NEW j \in Jobs, InsertStudent(j) \/ InsertStaffGuest(j)
    PROVE  EmailInv'
<1>1. job[j] \in Job /\ job' = [job EXCEPT ![j] = [job[j] EXCEPT !.at = "mail"]]
  BY DEF InsertStudent, InsertStaffGuest, Move, Typed, TypeOK
<1>2. \A k \in Jobs : job'[k] = IF k = j THEN [job[j] EXCEPT !.at = "mail"] ELSE job[k]
  BY <1>1 DEF Typed, TypeOK
<1>3. job'[j].at = "mail"
  BY <1>1, <1>2 DEF Job
<1>4. forestalled' = forestalled \cup Rivals(j)
  BY DEF InsertStudent, InsertStaffGuest
<1>5. \A e, coll : e # job[j].email /\ ~Registered(e, coll) => ~Registered(e, coll)'
  <2>1. CASE InsertStudent(j)
    BY <2>1 DEF InsertStudent, StudentRecord, Registered
  <2>2. CASE InsertStaffGuest(j)
    BY <2>2 DEF InsertStaffGuest, Registered
  <2> QED
    BY <2>1, <2>2
<1> QED
  BY <1>2, <1>3, <1>4, <1>5 DEF EmailInv, Rivals, Past

LEMMA EmailInductive == Typed /\ EmailInv /\ [Next]_vars => EmailInv'
<1> SUFFICES ASSUME Typed, EmailInv, [Next]_vars PROVE EmailInv'
  OBVIOUS
<1>1. ASSUME NEW j \in Jobs, Finish(j),
             UNCHANGED <<registrations, staffGuests, forestalled>>
      PROVE  EmailInv'
  BY <1>1, PastEmailStep DEF Finish, Rest, Past
<1>2. ASSUME NEW j \in Jobs, Arrive(j) PROVE EmailInv'
  <2>1. PICK e, s, lane, adm : Begin(j, e, s, lane, adm)
    BY <1>2 DEF Arrive, BeginStudent, BeginStaffGuest
  <2> DEFINE r == [at |-> "check", email |-> e, series |-> s, lane |-> lane, adm |-> adm,
                   num |-> 0, todo |-> Collections, hit |-> FALSE]
  <2>2. job' = [job EXCEPT ![j] = r] /\ r.at = "check" /\ r.todo = Collections
    BY <2>1 DEF Begin
  <2> HIDE DEF r
  <2>3. /\ registrations' = registrations /\ staffGuests' = staffGuests
        /\ forestalled' = forestalled \ {j}
    BY <2>1 DEF Begin
  <2> QED
    BY <2>2, <2>3, QuietEmailStep DEF Past
<1>3. ASSUME NEW j \in Jobs, NEW lane \in Lanes, ScanLane(j, lane) PROVE EmailInv'
  <2>1. PICK n : job' = [job EXCEPT ![j] = Scanned(job[j], lane, n)]
    BY <1>3 DEF ScanLane
  <2>2. /\ job[j].at \in Past /\ Scanned(job[j], lane, n).at \in Past
        /\ Scanned(job[j], lane, n).email = job[j].email
    BY <1>3 DEF Scanned, ScanLane, Past, Job, Typed, TypeOK
  <2> QED
    BY <1>3, <2>1, <2>2, PastEmailStep DEF ScanLane
<1>4. ASSUME NEW j \in Jobs, Seed(j) PROVE EmailInv'
  <2>1. job' = [job EXCEPT ![j] = [job[j] EXCEPT !.at = "inc"]]
    BY <1>4 DEF Seed, Move, Typed, TypeOK
  <2>2. /\ job[j].at \in Past /\ [job[j] EXCEPT !.at = "inc"].at \in Past
        /\ [job[j] EXCEPT !.at = "inc"].email = job[j].email
    BY <1>4 DEF Seed, Past, Job, Typed, TypeOK
  <2> QED
    BY <1>4, <2>1, <2>2, PastEmailStep DEF Seed
<1>5. ASSUME NEW j \in Jobs, Increment(j) \/ ScanStaffGuest(j) PROVE EmailInv'
  <2>1. PICK n : job' = [job EXCEPT ![j] = [job[j] EXCEPT !.at = "insert", !.num = n]]
    BY <1>5 DEF Increment, ScanStaffGuest, NextNumber, Typed, TypeOK
  <2> DEFINE r == [job[j] EXCEPT !.at = "insert", !.num = n]
  <2>2. job[j].at \in Past
    BY <1>5 DEF Increment, ScanStaffGuest, Past
  <2>3. r.at \in Past /\ r.email = job[j].email
    BY DEF Past, Job, Typed, TypeOK
  <2> QED
    BY <1>5, <2>1, <2>2, <2>3, PastEmailStep DEF Increment, ScanStaffGuest
<1>6. ASSUME NEW j \in Jobs, Step(j) PROVE EmailInv'
  <2>1. ASSUME RefuseStudent(j) \/ RefuseStaffGuest(j) \/ MailAndAnswer(j) PROVE EmailInv'
    BY <1>1, <2>1 DEF RefuseStudent, RefuseStaffGuest, MailAndAnswer
  <2> QED
    BY <1>3, <1>4, <1>5, <1>6, <2>1, CheckEmailKeepsEmails, InsertKeepsEmails DEF Step
<1>7. ASSUME NEW j \in Jobs, Fail(j) PROVE EmailInv'
  BY <1>1, <1>7 DEF Fail
<1>8. CASE DeleteStudent \/ DeleteStaffGuest
  BY <1>8 DEF DeleteStudent, DeleteStaffGuest, EmailInv, Registered
<1>9. CASE Crash
  <2>1. \A k \in Jobs : job'[k].at = "rest"
    BY <1>9 DEF Crash, Rest
  <2> QED
    BY <2>1 DEF EmailInv, Past
<1>10. CASE UNCHANGED vars
  BY <1>10 DEF vars, EmailInv, Registered
<1> QED
  BY <1>2, <1>6, <1>7, <1>8, <1>9, <1>10 DEF Next

\* Past its duplicate check a request writes an email that is on record in neither
\* collection, unless another request has recorded it since it began.
THEOREM EmailsDoubledOnlyByOverlap == Spec => []EmailFreeUnlessForestalled
<1>1. Init => EmailInv
  BY DEF Init, Rest, EmailInv, Past
<1>2. Typed /\ EmailInv /\ [Next]_vars => (Typed /\ EmailInv)'
  BY TypedInductive, EmailInductive
<1>3. EmailInv => EmailFreeUnlessForestalled
  BY DEF EmailInv, EmailFreeUnlessForestalled, Past
<1> QED
  BY <1>1, <1>2, <1>3, TypedInitially, PTL DEF Spec

-----------------------------------------------------------------------------
(* The student numbering implements MemberNumbers.                         *)

LEMMA HeldIsTyped == ASSUME Typed PROVE Held \subseteq (Cohorts \X Nat)
  BY DEF Typed, TypeOK, Held, Student

\* A step that leaves records and counters alone and lets no new job write
\* drops what is no longer reserved.
LEMMA QuietDrops ==
    ASSUME UNCHANGED <<registrations, counter>>,
           \A k \in Jobs : job'[k] = job[k] \/ job'[k].at # "insert"
                           \/ job'[k].series \notin Cohorts
    PROVE  Numbers!Drop
<1>1. Writing' \subseteq Writing /\ \A k \in Writing' : job'[k] = job[k]
  BY DEF Writing, IsStudent
<1>2. Reserved' \subseteq Reserved
  BY <1>1 DEF Reserved
<1>3. Held' = Held /\ counter' = counter
  BY DEF Held
<1> QED
  BY <1>2, <1>3 DEF Numbers!Drop

LEMMA JobDrops ==
    ASSUME Typed, NEW j \in Jobs, NEW r, job' = [job EXCEPT ![j] = r],
           r.at # "insert" \/ r.series \notin Cohorts,
           UNCHANGED <<registrations, counter>>
    PROVE  Numbers!Next
<1>1. \A k \in Jobs : job'[k] = IF k = j THEN r ELSE job[k]
  BY DEF Typed, TypeOK
<1>2. Numbers!Drop
  BY <1>1, QuietDrops
<1> QED
  BY <1>2 DEF Numbers!Next

LEMMA SeedOpens ==
    ASSUME Typed, NumbersInv, NEW j \in Jobs, Seed(j)
    PROVE  Numbers!Next
<1> DEFINE c == job[j].series
           r == [job[j] EXCEPT !.at = "inc"]
<1>1. c \in Cohorts /\ job[j] \in Job /\ job[j].at = "seed" /\ job[j].num \in Nat
  BY DEF Typed, TypeOK, Shaped, Seed, Job
<1>2. job' = [job EXCEPT ![j] = r]
  BY DEF Seed, Move, Typed, TypeOK
<1>3. \A k \in Jobs : job'[k] = IF k = j THEN r ELSE job[k]
  BY <1>2 DEF Typed, TypeOK
<1>4. r.at # "insert"
  BY <1>1 DEF Job
<1>5. registrations' = registrations /\ Held' = Held
  BY DEF Seed, Held
<1> HIDE DEF r
<1>6. CASE counter[c] = Absent
  <2>1. counter' = [counter EXCEPT ![c] = job[j].num] /\ counter'[c] = job[j].num
    BY <1>1, <1>6 DEF Seed, SeededCounter, Typed, TypeOK
  <2>2. \A x \in Held : x[1] = c => x[2] <= job[j].num
    <3>1. ASSUME NEW d \in registrations, d.series = c PROVE d.num <= job[j].num
      <4>1. d.lane \notin job[j].todo
        BY <1>1 DEF Typed, Shaped
      <4> QED
        BY <1>1, <1>6, <3>1, <4>1 DEF NumbersInv, UncountedInv
    <3> QED
      BY <3>1 DEF Held
  <2>3. Writing' = Writing /\ \A k \in Writing : job'[k] = job[k]
    BY <1>1, <1>3, <1>4 DEF Writing, IsStudent
  <2>4. Reserved' = Reserved
    BY <2>3 DEF Reserved
  <2>5. Numbers!Open(c)
    BY <1>1, <1>5, <1>6, <2>1, <2>2, <2>4 DEF Numbers!Open, Numbers!Closed, Absent
  <2> QED
    BY <1>1, <2>5 DEF Numbers!Next
<1>7. CASE counter[c] # Absent
  <2>1. counter' = counter
    BY <1>1, <1>7 DEF Seed, SeededCounter, Typed, TypeOK
  <2> QED
    BY <1>2, <1>4, <1>5, <2>1, JobDrops
<1> QED
  BY <1>6, <1>7

LEMMA IncrementReserves ==
    ASSUME Typed, NumbersInv, NEW j \in Jobs, Increment(j)
    PROVE  Numbers!Next
<1> DEFINE c == job[j].series
           n == counter[c] + 1
           r == [job[j] EXCEPT !.at = "insert", !.num = n]
<1>1. c \in Cohorts /\ job[j] \in Job /\ job[j].at = "inc"
  BY DEF Typed, TypeOK, Shaped, Increment
<1>2. counter[c] # Absent
  BY <1>1 DEF NumbersInv, UncountedInv
<1>3. \A k \in Jobs : job'[k] = IF k = j THEN r ELSE job[k]
  BY DEF Increment, Typed, TypeOK
<1>4. r.series = c /\ r.at = "insert" /\ r.num = n
  BY <1>1 DEF Job
<1>5. counter' = [counter EXCEPT ![c] = n] /\ Held' = Held
  BY DEF Increment, Held
<1> HIDE DEF r
<1>6. /\ Writing' = Writing \cup {j} /\ j \notin Writing
      /\ \A k \in Writing : job'[k] = job[k]
      /\ job'[j] = r
  BY <1>1, <1>3, <1>4 DEF Writing, IsStudent
<1>7. Reserved' = Reserved \cup {<<c, n>>}
  BY <1>4, <1>6 DEF Reserved
<1>8. Numbers!Reserve(c)
  BY <1>2, <1>5, <1>7 DEF Numbers!Reserve, Numbers!Closed, Absent
<1> QED
  BY <1>1, <1>8 DEF Numbers!Next

LEMMA InsertGrants ==
    ASSUME Typed, NumbersInv, NEW j \in Jobs, InsertStudent(j)
    PROVE  Numbers!Next
<1> DEFINE x == <<job[j].series, job[j].num>>
           r == [job[j] EXCEPT !.at = "mail"]
<1>1. job[j] \in Job /\ j \in Writing
  BY DEF Typed, TypeOK, InsertStudent, Writing
<1>2. \A k \in Jobs : job'[k] = IF k = j THEN r ELSE job[k]
  BY DEF InsertStudent, Move, Typed, TypeOK
<1>3. r.at = "mail"
  BY <1>1 DEF Job
<1>4. Held' = Held \cup {x} /\ counter' = counter
  <2>1. /\ registrations' = registrations \cup {StudentRecord(j)} /\ counter' = counter
        /\ StudentRecord(j).series = job[j].series /\ StudentRecord(j).num = job[j].num
    BY DEF InsertStudent, StudentRecord
  <2> QED
    BY <2>1 DEF Held
<1> HIDE DEF r
<1>5. Writing' = Writing \ {j} /\ \A k \in Writing \ {j} : job'[k] = job[k]
  BY <1>2, <1>3 DEF Writing, IsStudent
<1>6. \A k \in Writing \ {j} : <<job[k].series, job[k].num>> # x
  BY <1>1 DEF NumbersInv, ReservedNumbersFree, Writing
<1>7. Reserved' = Reserved \ {x} /\ x \in Reserved
  BY <1>1, <1>5, <1>6 DEF Reserved
<1>8. Numbers!Grant
  BY <1>4, <1>7 DEF Numbers!Grant
<1> QED
  BY <1>8 DEF Numbers!Next

LEMMA DeleteGivesBack ==
    ASSUME Typed, NumbersInv, DeleteStudent
    PROVE  Numbers!Next
<1>1. PICK d \in registrations : registrations' = registrations \ {d}
  BY DEF DeleteStudent
<1> DEFINE x == <<d.series, d.num>>
<1>2. job' = job /\ counter' = counter
  BY DEF DeleteStudent
<1>3. Reserved' = Reserved
  BY <1>2 DEF Reserved, Writing, IsStudent
<1>4. \A o \in registrations \ {d} : <<o.series, o.num>> # x
  BY <1>1 DEF NumbersInv, NumbersUnique
<1>5. Held' = Held \ {x} /\ x \in Held
  BY <1>1, <1>4 DEF Held
<1>6. Numbers!GiveBack
  BY <1>2, <1>3, <1>5 DEF Numbers!GiveBack
<1> QED
  BY <1>6 DEF Numbers!Next

LEMMA StepRefines ==
    Typed /\ NumbersInv /\ [Next]_vars => [Numbers!Next]_(Numbers!vars)
<1> SUFFICES ASSUME Typed, NumbersInv, [Next]_vars PROVE [Numbers!Next]_(Numbers!vars)
  OBVIOUS
<1>1. ASSUME NEW j \in Jobs, Finish(j), UNCHANGED <<registrations, counter>>
      PROVE  Numbers!Next
  BY <1>1, JobDrops DEF Finish, Rest
<1>2. ASSUME NEW j \in Jobs, Arrive(j) PROVE Numbers!Next
  BY <1>2, JobDrops DEF Arrive, BeginStudent, BeginStaffGuest, Begin
<1>3. ASSUME NEW j \in Jobs, NEW coll \in Collections, CheckEmail(j, coll) PROVE Numbers!Next
  <2> DEFINE left == job[j].todo \ {coll}
             hit == job[j].hit \/ Registered(job[j].email, coll)
             r == IF left # {} THEN [job[j] EXCEPT !.todo = left, !.hit = hit]
                  ELSE IF hit THEN Rest
                  ELSE [job[j] EXCEPT !.at = "scan",
                                      !.todo = IF IsStudent(j) THEN Lanes ELSE {}]
  <2>1. job[j] \in Job /\ job[j].at = "check"
    BY <1>3 DEF CheckEmail, Typed, TypeOK
  <2>2. job' = [job EXCEPT ![j] = r]
    BY <1>3 DEF CheckEmail, Typed, TypeOK
  <2>3. r.at # "insert"
    BY <2>1 DEF Job, Rest
  <2> QED
    <3> HIDE DEF r
    <3> QED BY <1>3, <2>2, <2>3, JobDrops DEF CheckEmail
<1>4. ASSUME NEW j \in Jobs, NEW lane \in Lanes, ScanLane(j, lane) PROVE Numbers!Next
  <2>1. PICK n : job' = [job EXCEPT ![j] = Scanned(job[j], lane, n)]
    BY <1>4 DEF ScanLane
  <2>2. Scanned(job[j], lane, n).at # "insert"
    BY DEF Scanned, Typed, TypeOK, Job
  <2> QED
    BY <1>4, <2>1, <2>2, JobDrops DEF ScanLane
<1>5. ASSUME NEW j \in Jobs, ScanStaffGuest(j) PROVE Numbers!Next
  <2>1. PICK n : job' = [job EXCEPT ![j] = [job[j] EXCEPT !.at = "insert",
                                                          !.num = NextNumber(n)]]
    BY <1>5 DEF ScanStaffGuest, Typed, TypeOK
  <2>2. [job[j] EXCEPT !.at = "insert", !.num = NextNumber(n)].series \notin Cohorts
    BY <1>5 DEF ScanStaffGuest, IsStudent, Typed, TypeOK, Job
  <2> QED
    BY <1>5, <2>1, <2>2, JobDrops DEF ScanStaffGuest
<1>6. ASSUME NEW j \in Jobs, InsertStaffGuest(j) PROVE Numbers!Next
  <2>1. job' = [job EXCEPT ![j] = [job[j] EXCEPT !.at = "mail"]]
    BY <1>6 DEF InsertStaffGuest, Move, Typed, TypeOK
  <2>2. [job[j] EXCEPT !.at = "mail"].at # "insert"
    BY DEF Typed, TypeOK, Job
  <2> QED
    BY <1>6, <2>1, <2>2, JobDrops DEF InsertStaffGuest
<1>7. ASSUME NEW j \in Jobs, Step(j) PROVE Numbers!Next
  <2>1. ASSUME RefuseStudent(j) \/ RefuseStaffGuest(j) \/ MailAndAnswer(j) PROVE Numbers!Next
    BY <1>1, <2>1 DEF RefuseStudent, RefuseStaffGuest, MailAndAnswer
  <2> QED
    BY <1>3, <1>4, <1>5, <1>6, <1>7, <2>1, SeedOpens, IncrementReserves, InsertGrants DEF Step
<1>8. ASSUME NEW j \in Jobs, Fail(j) PROVE Numbers!Next
  BY <1>1, <1>8 DEF Fail
<1>9. CASE DeleteStudent
  BY <1>9, DeleteGivesBack
<1>10. CASE DeleteStaffGuest \/ UNCHANGED vars
  <2>1. UNCHANGED <<registrations, counter, job>>
    BY <1>10 DEF DeleteStaffGuest, vars
  <2> QED
    BY <2>1, QuietDrops DEF Numbers!Next
<1>11. CASE Crash
  <2>1. \A k \in Jobs : job'[k].at # "insert"
    BY <1>11 DEF Crash, Rest
  <2> QED
    BY <1>11, <2>1, QuietDrops DEF Crash, Numbers!Next
<1> QED
  BY <1>2, <1>7, <1>8, <1>9, <1>10, <1>11 DEF Next

LEMMA InitRefines == Init => Numbers!Init
<1> SUFFICES ASSUME Init PROVE Numbers!Init
  OBVIOUS
<1>1. Writing = {}
  BY DEF Init, Writing, Rest
<1>2. Reserved = {}
  BY <1>1 DEF Reserved
<1> QED
  BY <1>2, TypedInitially, HeldIsTyped DEF Init, Numbers!Init, Numbers!Closed, Absent

\* Student numbering implements MemberNumbers: a number that was dropped by a
\* failed request, lost in a crash or deleted with its record is not reissued.
THEOREM NumberingRefines == Spec => NumbersPromise
<1>1. Typed /\ NumbersInv /\ [Next]_vars => (Typed /\ NumbersInv)'
  BY TypedInductive, NumbersInductive
<1> QED
  BY <1>1, InitRefines, StepRefines, TypedInitially, NumbersInitially, PTL
  DEF Spec, NumbersPromise, Numbers!Spec
====
