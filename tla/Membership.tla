---- MODULE Membership ----
(***************************************************************************)
(* Membership registration: the two collections of members (students in    *)
(* `registrations`, staff and guests in `staffGuests`), the per-cohort     *)
(* student counter, and the request handlers createStudentRegistration,    *)
(* registerStaffGuest and deleteRegistration over them.                    *)
(*                                                                         *)
(* A handler is an entry of `job`; it takes one step per awaited database  *)
(* call, so the steps of concurrent requests interleave as they do on the  *)
(* server.  A handler enters here once its proof of email ownership was    *)
(* accepted (RegistrationService adds that part).                          *)
(***************************************************************************)
EXTENDS Integers, FiniteSets

CONSTANTS
    Emails,       \* email addresses, normalised
    Cohorts,      \* student number series: joining year and department code
    Prefixes,     \* staff/guest number series: current year and ST or GT
    Admissions,   \* admission numbers a student may state
    Jobs,         \* requests the server may be handling at once
    None,         \* no email, no series, no admission number
    Limit,        \* the largest number that fits the \d{3} of an ID (999)
    Legacy,       \* student records older than the counters
    MaxRequests   \* bound: registration requests received in a behaviour

Series == Cohorts \cup Prefixes
Collections == {"registrations", "staffGuests"}

\* The two shapes of a student ID, IEDCyyDDnnn and IEDCyyDDLnnn.
Lanes == {"plain", "lateral"}

Student == [email : Emails, series : Cohorts, lane : Lanes,
            num : Nat, adm : Admissions \cup {None}]
StaffGuest == [email : Emails, series : Prefixes, num : Nat]

ASSUME LimitAssumption == Limit \in Nat \ {0}

ASSUME RequestsAssumption == MaxRequests \in Nat

\* Student and staff/guest prefixes never coincide: no department code is ST or GT.
ASSUME SeriesAssumption == Cohorts \cap Prefixes = {}

ASSUME NoneAssumption == None \notin Emails \cup Series \cup Admissions

\* The unique indexes held for the records the counters were introduced over,
\* and a lateral and a plain ID of one cohort did not share a number.
ASSUME LegacyAssumption ==
    /\ Legacy \subseteq Student
    /\ IsFiniteSet(Legacy)
    /\ \A d \in Legacy : d.num \in 1 .. Limit
    /\ \A d1, d2 \in Legacy :
          (d1.email = d2.email \/ (d1.series = d2.series /\ d1.num = d2.num))
             => d1 = d2

VARIABLES
    registrations,  \* collection "registrations"
    staffGuests,    \* collection "staff_guest_registrations"
    counter,        \* collection "registration_counters": seq per cohort
    job,            \* the handlers in flight
    received,       \* registration requests received so far
    overtaken,      \* history: staff/guest jobs whose series grew after they read it
    forestalled     \* history: jobs whose email was recorded by another since they began

vars == <<registrations, staffGuests, counter, job, received, overtaken, forestalled>>

\* No counter document exists for the cohort yet.
Absent == -1

Steps == {"rest", "check", "scan", "seed", "inc", "insert", "mail"}

Job == [at : Steps, email : Emails \cup {None}, series : Series \cup {None},
        lane : Lanes, adm : Admissions \cup {None}, num : Nat,
        todo : SUBSET (Collections \cup Lanes), hit : BOOLEAN]

Rest == [at |-> "rest", email |-> None, series |-> None, lane |-> "plain",
         adm |-> None, num |-> 0, todo |-> {}, hit |-> FALSE]

TypeOK ==
    /\ registrations \subseteq Student
    /\ staffGuests \subseteq StaffGuest
    /\ counter \in [Cohorts -> Nat \cup {Absent}]
    /\ job \in [Jobs -> Job]
    /\ received \in 0 .. MaxRequests
    /\ overtaken \subseteq Jobs
    /\ forestalled \subseteq Jobs

Init ==
    /\ registrations = Legacy
    /\ staffGuests = {}
    /\ counter = [c \in Cohorts |-> Absent]
    /\ job = [j \in Jobs |-> Rest]
    /\ received = 0
    /\ overtaken = {}
    /\ forestalled = {}

-----------------------------------------------------------------------------
(* Numbers in the collections, as the ID queries see them.                 *)

StudentNumbers(c) == {d.num : d \in {x \in registrations : x.series = c}}
\* Variant: the lateral IDs are forgotten.
PlainNumbers(c, lane) ==
    {d.num : d \in {x \in registrations : x.series = c /\ x.lane = "plain"}}

LaneNumbers(c, lane) ==
    {d.num : d \in {x \in registrations : x.series = c /\ x.lane = lane}}
StaffNumbers(p) == {d.num : d \in {x \in staffGuests : x.series = p}}

\* Variant: the queries match longer numbers too.
SeenAll(S) == S

\* The ID queries match exactly three digits, so a longer number is not seen.
Seen(S) == {n \in S : n <= Limit}

\* Variant: sorted the other way round.
IsBottom(n, S) == n \in Seen(S) \cup {0} /\ \A m \in Seen(S) : n > 0 /\ n <= m

\* findOne(...).sort({membershipId: -1}): the highest number seen, or 0.
IsTop(n, S) == n \in Seen(S) \cup {0} /\ \A m \in Seen(S) : m <= n

Registered(e, coll) ==
    IF coll = "registrations" THEN \E d \in registrations : d.email = e
                              ELSE \E d \in staffGuests : d.email = e

IsStudent(j) == job[j].series \in Cohorts

Move(j, to) == job' = [job EXCEPT ![j].at = to]
Finish(j) == job' = [job EXCEPT ![j] = Rest]

-----------------------------------------------------------------------------
(* A request arrives.                                                      *)

Begin(j, e, s, lane, adm) ==
    /\ job[j] = Rest
    /\ received < MaxRequests
    /\ received' = received + 1
    /\ job' = [job EXCEPT ![j] =
                 [at |-> "check", email |-> e, series |-> s, lane |-> lane,
                  adm |-> adm, num |-> 0, todo |-> Collections, hit |-> FALSE]]
    /\ forestalled' = forestalled \ {j}
    /\ UNCHANGED <<registrations, staffGuests, counter, overtaken>>

BeginStudent(j, e, c, lane, adm) == Begin(j, e, c, lane, adm)
BeginStaffGuest(j, e, p) == Begin(j, e, p, "plain", None)

\* Variant: only the last answer counts.
CheckLastEmail(j, coll) ==
    LET left == job[j].todo \ {coll}
    IN  /\ job[j].at = "check"
        /\ coll \in job[j].todo
        /\ job' = [job EXCEPT ![j] =
                     IF left # {} THEN [@ EXCEPT !.todo = left]
                     ELSE IF Registered(job[j].email, coll) THEN Rest
                     ELSE [@ EXCEPT !.at = "scan",
                                    !.todo = IF IsStudent(j) THEN Lanes ELSE {}]]
        /\ UNCHANGED <<registrations, staffGuests, counter, received, overtaken, forestalled>>

\* One of the two parallel lookups of the email; the last one to answer
\* decides: 409 if either found it, else on to the ID.
CheckEmail(j, coll) ==
    LET left == job[j].todo \ {coll}
        hit == job[j].hit \/ Registered(job[j].email, coll)
    IN  /\ job[j].at = "check"
        /\ coll \in job[j].todo
        /\ job' = [job EXCEPT ![j] =
                     IF left # {} THEN [@ EXCEPT !.todo = left, !.hit = hit]
                     ELSE IF hit THEN Rest
                     ELSE [@ EXCEPT !.at = "scan",
                                    !.todo = IF IsStudent(j) THEN Lanes ELSE {}]]
        /\ UNCHANGED <<registrations, staffGuests, counter, received, overtaken, forestalled>>

-----------------------------------------------------------------------------
(* The pre-save hook of a student record.                                  *)

\* The higher of the two answers counts; the second one leads on.
Scanned(r, lane, n) ==
    [r EXCEPT !.num = IF n > r.num THEN n ELSE r.num,
              !.todo = r.todo \ {lane},
              !.at = IF r.todo = {lane} THEN "seed" ELSE "scan"]

\* One of the two parallel reads of the highest ID in use.
ScanLane(j, lane) ==
    /\ job[j].at = "scan"
    /\ lane \in job[j].todo
    /\ \E n \in StudentNumbers(job[j].series) \cup {0} :
          /\ IsTop(n, LaneNumbers(job[j].series, lane))
          /\ job' = [job EXCEPT ![j] = Scanned(job[j], lane, n)]
    /\ UNCHANGED <<registrations, staffGuests, counter, received, overtaken, forestalled>>

\* updateOne with $setOnInsert: a counter that exists is left alone.
SeededCounter(c, n) == IF counter[c] = Absent THEN n ELSE counter[c]

Seed(j) ==
    /\ job[j].at = "seed"
    /\ counter' = [counter EXCEPT ![job[j].series] =
                     SeededCounter(job[j].series, job[j].num)]
    /\ Move(j, "inc")
    /\ UNCHANGED <<registrations, staffGuests, received, overtaken, forestalled>>

\* findOneAndUpdate with $inc, returning the new value.
Increment(j) ==
    LET n == counter[job[j].series] + 1
    IN  /\ job[j].at = "inc"
        /\ counter' = [counter EXCEPT ![job[j].series] = n]
        /\ job' = [job EXCEPT ![j] = [@ EXCEPT !.at = "insert", !.num = n]]
        /\ UNCHANGED <<registrations, staffGuests, received, overtaken, forestalled>>

\* The unique indexes of "registrations": email, admissionNo (sparse), membershipId.
StudentClash(j) ==
    \E d \in registrations :
        \/ d.email = job[j].email
        \/ d.adm # None /\ d.adm = job[j].adm
        \/ d.series = job[j].series /\ d.lane = job[j].lane /\ d.num = job[j].num

\* Other requests in flight for the same email.
Rivals(j) == {k \in Jobs \ {j} : job[k].email = job[j].email}

StudentRecord(j) ==
    [email |-> job[j].email, series |-> job[j].series, lane |-> job[j].lane,
     num |-> job[j].num, adm |-> job[j].adm]

InsertStudent(j) ==
    /\ job[j].at = "insert" /\ IsStudent(j)
    /\ ~StudentClash(j)
    /\ registrations' = registrations \cup {StudentRecord(j)}
    /\ Move(j, "mail")
    /\ forestalled' = forestalled \cup Rivals(j)
    /\ UNCHANGED <<staffGuests, counter, received, overtaken>>

\* Variant: the number of a refused record is given back.
RefuseGivingBack(j) ==
    /\ job[j].at = "insert" /\ IsStudent(j)
    /\ StudentClash(j)
    /\ counter' = [counter EXCEPT ![job[j].series] = @ - 1]
    /\ Finish(j)
    /\ UNCHANGED <<registrations, staffGuests, received, overtaken, forestalled>>

\* Error 11000 is answered with 409; the number taken from the counter is lost.
RefuseStudent(j) ==
    /\ job[j].at = "insert" /\ IsStudent(j)
    /\ StudentClash(j)
    /\ Finish(j)
    /\ UNCHANGED <<registrations, staffGuests, counter, received, overtaken, forestalled>>

-----------------------------------------------------------------------------
(* The ID of a staff or guest record.                                      *)

NextNumber(top) == top + 1

\* generateNextMembershipId: no student ID carries a staff/guest prefix, so the
\* highest ID is always one of `staffGuests`.
ScanStaffGuest(j) ==
    /\ job[j].at = "scan" /\ ~IsStudent(j)
    /\ \E n \in StaffNumbers(job[j].series) \cup {0} :
          /\ IsTop(n, StaffNumbers(job[j].series))
          /\ job' = [job EXCEPT ![j] = [@ EXCEPT !.at = "insert",
                                                 !.num = NextNumber(n)]]
    /\ overtaken' = overtaken \ {j}
    /\ UNCHANGED <<registrations, staffGuests, counter, received, forestalled>>

StaffIdTaken(j) == job[j].num \in StaffNumbers(job[j].series)

StaffClash(j) == Registered(job[j].email, "staffGuests") \/ StaffIdTaken(j)

InsertStaffGuest(j) ==
    /\ job[j].at = "insert" /\ ~IsStudent(j)
    /\ ~StaffClash(j)
    /\ staffGuests' = staffGuests \cup
          {[email |-> job[j].email, series |-> job[j].series, num |-> job[j].num]}
    /\ Move(j, "mail")
    /\ overtaken' = overtaken \cup
          {k \in Jobs \ {j} : job[k].at = "insert" /\ job[k].series = job[j].series}
    /\ forestalled' = forestalled \cup Rivals(j)
    /\ UNCHANGED <<registrations, counter, received>>

RefuseStaffGuest(j) ==
    /\ job[j].at = "insert" /\ ~IsStudent(j)
    /\ StaffClash(j)
    /\ Finish(j)
    /\ UNCHANGED <<registrations, staffGuests, counter, received, overtaken, forestalled>>

-----------------------------------------------------------------------------
(* Ends of a request, deletion and failure.                                *)

\* Template lookup and sendMail, whose errors are swallowed, then 201.
MailAndAnswer(j) ==
    /\ job[j].at = "mail"
    /\ Finish(j)
    /\ UNCHANGED <<registrations, staffGuests, counter, received, overtaken, forestalled>>

\* Variant: an error of the mail is answered with 500 as well.
FailMailing(j) ==
    /\ job[j].at # "rest"
    /\ Finish(j)
    /\ UNCHANGED <<registrations, staffGuests, counter, received, overtaken, forestalled>>

\* A missing or invalid field, or a failed database call: 400 or 500, and
\* nothing that was already written is undone.
Fail(j) ==
    /\ job[j].at \notin {"rest", "mail"}
    /\ Finish(j)
    /\ UNCHANGED <<registrations, staffGuests, counter, received, overtaken, forestalled>>

\* deleteRegistration: findByIdAndDelete, counters untouched.
DeleteStudent ==
    \E d \in registrations :
        /\ registrations' = registrations \ {d}
        /\ UNCHANGED <<staffGuests, counter, job, received, overtaken, forestalled>>

DeleteStaffGuest ==
    \E d \in staffGuests :
        /\ staffGuests' = staffGuests \ {d}
        /\ UNCHANGED <<registrations, counter, job, received, overtaken, forestalled>>

\* The process dies (Makerspace shows one way) and is started again: the
\* handlers in flight are gone, the database stays.
Crash ==
    /\ job' = [j \in Jobs |-> Rest]
    /\ UNCHANGED <<registrations, staffGuests, counter, received, overtaken, forestalled>>

Step(j) ==
    \/ \E coll \in Collections : CheckEmail(j, coll)
    \/ \E lane \in Lanes : ScanLane(j, lane)
    \/ Seed(j)
    \/ Increment(j)
    \/ InsertStudent(j)
    \/ RefuseStudent(j)
    \/ ScanStaffGuest(j)
    \/ InsertStaffGuest(j)
    \/ RefuseStaffGuest(j)
    \/ MailAndAnswer(j)

Arrive(j) ==
    \/ \E e \in Emails, c \in Cohorts, lane \in Lanes, adm \in Admissions \cup {None} :
          BeginStudent(j, e, c, lane, adm)
    \/ \E e \in Emails, p \in Prefixes : BeginStaffGuest(j, e, p)

Next ==
    \/ \E j \in Jobs : Arrive(j) \/ Step(j) \/ Fail(j)
    \/ DeleteStudent
    \/ DeleteStaffGuest
    \/ Crash

Spec == Init /\ [][Next]_vars

-----------------------------------------------------------------------------
(* Properties.                                                             *)

\* No two student records of a cohort carry the same number, not even one in
\* the plain and one in the lateral form of the ID, which no index excludes:
\* the counter is shared by both forms and starts above every older record.
NumbersUnique ==
    \A d1, d2 \in registrations :
        d1.series = d2.series /\ d1.num = d2.num => d1 = d2

\* A number taken from the counter is free when the record carrying it is
\* written: no record has it and no other request is about to write it, so no
\* student is ever refused with "Duplicate membershipId".
ReservedNumbersFree ==
    \A j \in Jobs :
        job[j].at = "insert" /\ IsStudent(j) =>
            /\ job[j].num \notin StudentNumbers(job[j].series)
            /\ \A k \in Jobs \ {j} :
                  ~(/\ job[k].at = "insert" /\ job[k].series = job[j].series
                    /\ job[k].num = job[j].num)

\* Staff/guest IDs are the highest plus one, read before the write.  A request
\* is refused for its ID only if another member of its series was recorded in
\* between (or the three digits are used up): some request always gets through.
NoSpuriousDuplicate ==
    \A j \in Jobs :
        /\ job[j].at = "insert" /\ ~IsStudent(j)
        /\ job[j].num <= Limit
        /\ StaffIdTaken(j)
        => j \in overtaken

\* generateNextMembershipId matches three digits, so after IEDCyyST999 every
\* request computes 1000: a series never grows past that one extra member.
StaffSeriesCapped == \A d \in staffGuests : d.num <= Limit + 1

\* "Prevent duplicates by email across both collections."  A student and a
\* staff/guest request that overlap both pass the look-up, and each index covers
\* one collection: it does not hold.
OneRecordPerEmail ==
    \A d \in registrations, g \in staffGuests : d.email # g.email

\* What holds of that under concurrency: past its duplicate check a request
\* writes an email that is on record in neither collection, unless another
\* request recorded it since this one began.
EmailFreeUnlessForestalled ==
    \A j \in Jobs \ forestalled : job[j].at = "insert" =>
        \A coll \in Collections : ~Registered(job[j].email, coll)

\* The student numbering keeps the promise of MemberNumbers: a number that was
\* dropped by a failed request or deleted with its record is not reissued.
Writing == {j \in Jobs : job[j].at = "insert" /\ IsStudent(j)}
Reserved == {<<job[j].series, job[j].num>> : j \in Writing}
Held == {<<d.series, d.num>> : d \in registrations}

Numbers == INSTANCE MemberNumbers WITH
    top <- counter, reserved <- Reserved, held <- Held

NumbersPromise == Numbers!Spec
====
