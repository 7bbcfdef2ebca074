---- MODULE RegistrationProofs ----
(***************************************************************************)
(* Proofs about RegistrationService and its client RegistrationForm, for   *)
(* every set of emails, codes and concurrent requests.  The lemmas on the  *)
(* handlers of Membership and OtpVerification are about their instances    *)
(* here: the emails sendOTP finds are those on record.                     *)
(***************************************************************************)
EXTENDS RegistrationForm, TLAPS

USE NoneAssumption, MaxOtpsAssumption, MaxOthersAssumption

-----------------------------------------------------------------------------
(* Types of the registration handlers.                                     *)

\* A handler past its start has an email and a series, and the steps of the
\* student hook are taken for students only.
JobShaped(r) ==
    /\ r \in Members!Job
    /\ r.at # "rest" => r.email \in Emails /\ r.series \in Members!Series
    /\ r.at \in {"seed", "inc"} => r.series \in Cohorts
    /\ r.at = "scan" /\ r.series \notin Cohorts => r.todo = {}

RecordsTyped ==
    /\ registrations \subseteq Members!Student
    /\ staffGuests \subseteq Members!StaffGuest
    /\ counter \in [Cohorts -> Nat \cup {Members!Absent}]

JobsTyped == job \in [Jobs -> Members!Job] /\ \A j \in Jobs : JobShaped(job[j])

\* A step of a handler: it goes on for the same person, or is done.
Onward(j, r) ==
    /\ job' = [job EXCEPT ![j] = r]
    /\ JobShaped(r)
    /\ \/ r = Members!Rest
       \/ r.email = job[j].email /\ r.series = job[j].series /\ r.at \notin {"rest", "check"}
       \/ r.email = job[j].email /\ r.series = job[j].series /\ r.at = "check" /\ job[j].at = "check"

LEMMA RestIsShaped == JobShaped(Members!Rest) /\ Members!Rest.at = "rest"
  BY DEF JobShaped, Members!Rest, Members!Job, Members!Steps, Members!Lanes

LEMMA OneJobMoves ==
    ASSUME JobsTyped, NEW j \in Jobs, NEW r, JobShaped(r), job' = [job EXCEPT ![j] = r]
    PROVE  JobsTyped' /\ job'[j] = r /\ \A k \in Jobs \ {j} : job'[k] = job[k]
  BY DEF JobsTyped, JobShaped

LEMMA CheckGoesOn ==
    ASSUME JobsTyped, NEW j \in Jobs, NEW coll \in Members!Collections,
           Members!CheckEmail(j, coll)
    PROVE  \E r : Onward(j, r)
<1> DEFINE left == job[j].todo \ {coll}
           hit == job[j].hit \/ Members!Registered(job[j].email, coll)
           going == [job[j] EXCEPT !.todo = left, !.hit = hit]
           found == [job[j] EXCEPT !.at = "scan",
                                   !.todo = IF Members!IsStudent(j) THEN Members!Lanes ELSE {}]
<1>1. JobShaped(job[j]) /\ job[j] \in Members!Job /\ job[j].at = "check"
  BY DEF JobsTyped, Members!CheckEmail
<1>2. left \in SUBSET (Members!Collections \cup Members!Lanes) /\ hit \in BOOLEAN
  BY <1>1 DEF Members!Job, Members!Registered
<1>3. JobShaped(going) /\ going.at = "check" /\ going.email = job[j].email /\ going.series = job[j].series
  <2> HIDE DEF left, hit
  <2> QED BY <1>1, <1>2 DEF JobShaped, Members!Job
<1>4. JobShaped(found) /\ found.at = "scan" /\ found.email = job[j].email /\ found.series = job[j].series
  BY <1>1 DEF JobShaped, Members!Job, Members!Steps, Members!IsStudent
<1>5. job' = [job EXCEPT ![j] = IF left # {} THEN going ELSE IF hit THEN Members!Rest ELSE found]
  BY <1>1 DEF Members!CheckEmail, JobsTyped
<1> HIDE DEF left, hit, going, found
<1>6. CASE left # {}
  BY <1>1, <1>3, <1>5, <1>6 DEF Onward
<1>7. CASE left = {} /\ hit
  BY <1>5, <1>7, RestIsShaped DEF Onward
<1>8. CASE left = {} /\ ~hit
  BY <1>4, <1>5, <1>8 DEF Onward
<1> QED
  BY <1>6, <1>7, <1>8

LEMMA ScanGoesOn ==
    ASSUME RecordsTyped, JobsTyped, NEW j \in Jobs,
           \/ \E lane \in Members!Lanes : Members!ScanLane(j, lane)
           \/ Members!ScanStaffGuest(j)
    PROVE  \E r : Onward(j, r)
<1>1. JobShaped(job[j]) /\ job[j] \in Members!Job /\ job[j].at = "scan"
  BY DEF JobsTyped, Members!ScanLane, Members!ScanStaffGuest
<1>2. ASSUME NEW lane \in Members!Lanes, Members!ScanLane(j, lane)
      PROVE  \E r : Onward(j, r)
  <2>1. PICK n \in Members!StudentNumbers(job[j].series) \cup {0} :
           job' = [job EXCEPT ![j] = Members!Scanned(job[j], lane, n)]
    BY <1>2 DEF Members!ScanLane
  <2>2. n \in Nat
    BY DEF Members!StudentNumbers, Members!Student, RecordsTyped
  <2>3. job[j].series \in Cohorts
    BY <1>1, <1>2 DEF JobShaped, Members!ScanLane
  <2> DEFINE r == Members!Scanned(job[j], lane, n)
  <2>4. /\ JobShaped(r) /\ r.at \in {"seed", "scan"}
        /\ r.email = job[j].email /\ r.series = job[j].series
    BY <1>1, <2>2, <2>3 DEF JobShaped, Members!Scanned, Members!Job, Members!Steps
  <2> HIDE DEF r
  <2>5. job' = [job EXCEPT ![j] = r]
    BY <2>1 DEF r
  <2> QED
    BY <2>4, <2>5 DEF Onward
<1>3. ASSUME Members!ScanStaffGuest(j) PROVE \E r : Onward(j, r)
  <2>1. PICK n \in Members!StaffNumbers(job[j].series) \cup {0} :
           job' = [job EXCEPT ![j] = [@ EXCEPT !.at = "insert", !.num = Members!NextNumber(n)]]
    BY <1>3 DEF Members!ScanStaffGuest
  <2>2. Members!NextNumber(n) \in Nat
    BY DEF Members!NextNumber, Members!StaffNumbers, Members!StaffGuest, RecordsTyped
  <2> DEFINE r == [job[j] EXCEPT !.at = "insert", !.num = Members!NextNumber(n)]
  <2>3. /\ JobShaped(r) /\ r.at = "insert"
        /\ r.email = job[j].email /\ r.series = job[j].series
    BY <1>1, <2>2 DEF JobShaped, Members!Job, Members!Steps
  <2>4. job' = [job EXCEPT ![j] = r]
    BY <2>1 DEF JobsTyped
  <2> HIDE DEF r
  <2> QED
    BY <2>3, <2>4 DEF Onward
<1> QED
  BY <1>2, <1>3

LEMMA CounterGoesOn ==
    ASSUME RecordsTyped, JobsTyped, NEW j \in Jobs, Members!Seed(j) \/ Members!Increment(j)
    PROVE  (\E r : Onward(j, r)) /\ RecordsTyped'
<1>1. /\ JobShaped(job[j]) /\ job[j] \in Members!Job /\ job[j].at \in {"seed", "inc"}
      /\ job[j].series \in Cohorts /\ job[j].email \in Emails
  BY DEF JobsTyped, JobShaped, Members!Seed, Members!Increment
<1>2. CASE Members!Seed(j)
  <2> DEFINE r == [job[j] EXCEPT !.at = "inc"]
  <2>1. JobShaped(r) /\ r.at = "inc" /\ r.email = job[j].email /\ r.series = job[j].series
    BY <1>1 DEF JobShaped, Members!Job, Members!Steps, Members!Series
  <2>2. job' = [job EXCEPT ![j] = r]
    BY <1>2 DEF Members!Seed, Members!Move
  <2> HIDE DEF r
  <2>3. Onward(j, r)
    BY <2>1, <2>2 DEF Onward
  <2>4. counter' \in [Cohorts -> Nat \cup {Members!Absent}]
    BY <1>1, <1>2 DEF Members!Seed, Members!SeededCounter, Members!Job, RecordsTyped
  <2> QED
    BY <1>2, <2>3, <2>4 DEF Members!Seed, RecordsTyped
<1>3. CASE Members!Increment(j)
  <2> DEFINE n == counter[job[j].series] + 1
             r == [job[j] EXCEPT !.at = "insert", !.num = n]
  <2>1. n \in Nat
    BY <1>1 DEF RecordsTyped, Members!Absent
  <2>2. JobShaped(r) /\ r.at = "insert" /\ r.email = job[j].email /\ r.series = job[j].series
    <3> HIDE DEF n
    <3> QED BY <1>1, <2>1 DEF JobShaped, Members!Job, Members!Steps, Members!Series
  <2>3. job' = [job EXCEPT ![j] = r]
    BY <1>3 DEF Members!Increment, JobsTyped
  <2>4. counter' \in [Cohorts -> Nat \cup {Members!Absent}]
    BY <1>3, <2>1 DEF Members!Increment, RecordsTyped
  <2> HIDE DEF r, n
  <2>5. Onward(j, r)
    BY <2>2, <2>3 DEF Onward
  <2> QED
    BY <1>3, <2>4, <2>5 DEF Members!Increment, RecordsTyped
<1> QED
  BY <1>2, <1>3

\* What a step of a handler adds to the collections is for its own email.
AddsOnly(j) ==
    /\ job[j].at # "rest"
    /\ \A d \in registrations' : d \in registrations \/ d.email = job[j].email
    /\ \A g \in staffGuests' : g \in staffGuests \/ g.email = job[j].email

LEMMA InsertGoesOn ==
    ASSUME RecordsTyped, JobsTyped, NEW j \in Jobs,
           Members!InsertStudent(j) \/ Members!InsertStaffGuest(j)
    PROVE  (\E r : Onward(j, r)) /\ RecordsTyped' /\ AddsOnly(j)
<1>1. /\ JobShaped(job[j]) /\ job[j] \in Members!Job /\ job[j].at = "insert"
      /\ job[j].email \in Emails /\ job[j].series \in Members!Series
  BY DEF JobsTyped, JobShaped, Members!InsertStudent, Members!InsertStaffGuest
<1> DEFINE r == [job[j] EXCEPT !.at = "mail"]
<1>2. JobShaped(r) /\ r.at = "mail" /\ r.email = job[j].email /\ r.series = job[j].series
  BY <1>1 DEF JobShaped, Members!Job, Members!Steps
<1>3. job' = [job EXCEPT ![j] = r]
  BY DEF Members!InsertStudent, Members!InsertStaffGuest, Members!Move
<1> HIDE DEF r
<1>4. Onward(j, r)
  BY <1>2, <1>3 DEF Onward
<1>5. CASE Members!InsertStudent(j)
  <2>1. Members!StudentRecord(j) \in Members!Student
    BY <1>1, <1>5 DEF Members!InsertStudent, Members!IsStudent, Members!StudentRecord,
                      Members!Student, Members!Job
  <2>2. Members!StudentRecord(j).email = job[j].email
    BY DEF Members!StudentRecord
  <2> QED
    BY <1>1, <1>4, <1>5, <2>1, <2>2 DEF Members!InsertStudent, RecordsTyped, AddsOnly
<1>6. CASE Members!InsertStaffGuest(j)
  <2> DEFINE g == [email |-> job[j].email, series |-> job[j].series, num |-> job[j].num]
  <2>1. g \in Members!StaffGuest /\ g.email = job[j].email
    BY <1>1, <1>6 DEF Members!InsertStaffGuest, Members!IsStudent, Members!StaffGuest,
                      Members!Job, Members!Series
  <2>2. staffGuests' = staffGuests \cup {g}
    BY <1>6 DEF Members!InsertStaffGuest
  <2> HIDE DEF g
  <2> QED
    BY <1>1, <1>4, <1>6, <2>1, <2>2 DEF Members!InsertStaffGuest, RecordsTyped, AddsOnly
<1> QED
  BY <1>5, <1>6

\* Everything a registration handler does, up to the details of its numbers.
LEMMA JobGoesOn ==
    ASSUME RecordsTyped, JobsTyped, NEW j \in Jobs, Members!Step(j) \/ Members!Fail(j)
    PROVE  (\E r : Onward(j, r)) /\ RecordsTyped' /\ AddsOnly(j)
<1>1. ASSUME NEW coll \in Members!Collections, Members!CheckEmail(j, coll)
      PROVE  (\E r : Onward(j, r)) /\ RecordsTyped' /\ AddsOnly(j)
  <2>1. \E r : Onward(j, r)
    BY <1>1, CheckGoesOn
  <2> QED
    BY <1>1, <2>1 DEF Members!CheckEmail, RecordsTyped, AddsOnly
<1>2. ASSUME \/ \E lane \in Members!Lanes : Members!ScanLane(j, lane)
             \/ Members!ScanStaffGuest(j)
      PROVE  (\E r : Onward(j, r)) /\ RecordsTyped' /\ AddsOnly(j)
  <2>1. \E r : Onward(j, r)
    BY <1>2, ScanGoesOn
  <2> QED
    BY <1>2, <2>1 DEF Members!ScanLane, Members!ScanStaffGuest, RecordsTyped, AddsOnly
<1>3. ASSUME Members!Seed(j) \/ Members!Increment(j)
      PROVE  (\E r : Onward(j, r)) /\ RecordsTyped' /\ AddsOnly(j)
  BY <1>3, CounterGoesOn DEF Members!Seed, Members!Increment, AddsOnly
<1>4. ASSUME \/ Members!RefuseStudent(j) \/ Members!RefuseStaffGuest(j)
             \/ Members!MailAndAnswer(j) \/ Members!Fail(j)
      PROVE  (\E r : Onward(j, r)) /\ RecordsTyped' /\ AddsOnly(j)
  <2>1. Onward(j, Members!Rest)
    BY <1>4, RestIsShaped DEF Members!RefuseStudent, Members!RefuseStaffGuest,
       Members!MailAndAnswer, Members!Fail, Members!Finish, Onward
  <2> QED
    BY <1>4, <2>1 DEF Members!RefuseStudent, Members!RefuseStaffGuest,
       Members!MailAndAnswer, Members!Fail, RecordsTyped, AddsOnly
<1> QED
  BY <1>1, <1>2, <1>3, <1>4, InsertGoesOn DEF Members!Step

LEMMA BeginTyped ==
    ASSUME RecordsTyped, JobsTyped, NEW j \in Jobs, NEW e \in Emails, Enter(j, e)
    PROVE  /\ RecordsTyped' /\ JobsTyped'
           /\ job[j] = Members!Rest /\ job'[j].at = "check" /\ job'[j].email = e
           /\ \A k \in Jobs \ {j} : job'[k] = job[k]
           /\ UNCHANGED <<registrations, staffGuests>>
<1>1. PICK s \in Members!Series, lane \in Members!Lanes, adm \in Admissions \cup {None} :
         Members!Begin(j, e, s, lane, adm)
  BY DEF Enter, Members!BeginStudent, Members!BeginStaffGuest, Members!Series, Members!Lanes
<1> DEFINE r == [at |-> "check", email |-> e, series |-> s, lane |-> lane, adm |-> adm,
                 num |-> 0, todo |-> Members!Collections, hit |-> FALSE]
<1>2. JobShaped(r) /\ r.at = "check" /\ r.email = e
  BY DEF JobShaped, Members!Job, Members!Steps
<1>3. job' = [job EXCEPT ![j] = r] /\ job[j] = Members!Rest
  BY <1>1 DEF Members!Begin
<1> HIDE DEF r
<1>4. JobsTyped' /\ job'[j] = r /\ \A k \in Jobs \ {j} : job'[k] = job[k]
  BY <1>2, <1>3, OneJobMoves
<1> QED
  BY <1>1, <1>2, <1>3, <1>4 DEF Members!Begin, RecordsTyped

-----------------------------------------------------------------------------
(* Types of the OTP handlers.                                              *)

\* What a handler at a step carries, and which request it serves there.
CallShaped(r) ==
    /\ r \in Otps!Call
    /\ r.at # "rest" => r.email \in Emails
    /\ r.at \in {"check", "clear", "store", "mail"} => r.kind = "send" /\ r.id \in Otps!Ids
    /\ r.at \in {"read", "purge", "consume"} => r.kind \in {"verify", "raw"}
    /\ r.at = "consume" => r.id \in Otps!Ids

CodesTyped ==
    /\ otps \subseteq Otps!Otp
    /\ sends \in 0 .. MaxOtps
    /\ tokens \subseteq Otps!Token
    /\ mailedTo \in [Otps!Ids -> Emails \cup {None}]
    /\ accepted \in [Otps!Ids -> Nat]

CallsTyped == call \in [Calls -> Otps!Call] /\ \A k \in Calls : CallShaped(call[k])

\* A step of a handler: it goes on with the same request, or is done.
CallOnward(k, r) ==
    /\ call' = [call EXCEPT ![k] = r]
    /\ CallShaped(r)
    /\ \/ r = Otps!Rest
       \/ r.at # "rest" /\ r.email = call[k].email /\ r.kind = call[k].kind

LEMMA RestCallIsShaped == CallShaped(Otps!Rest) /\ Otps!Rest.at = "rest"
  BY DEF CallShaped, Otps!Rest, Otps!Call, Otps!Steps, Otps!Kinds

LEMMA OneCallMoves ==
    ASSUME CallsTyped, NEW k \in Calls, NEW r, CallShaped(r), call' = [call EXCEPT ![k] = r]
    PROVE  CallsTyped' /\ call'[k] = r /\ \A l \in Calls \ {k} : call'[l] = call[l]
  BY DEF CallsTyped, CallShaped

\* A handler that moves on without learning anything.
LEMMA CallMoves ==
    ASSUME CallsTyped, NEW k \in Calls, NEW to, Otps!Move(k, to),
           \/ call[k].at = "clear" /\ to = "store"
           \/ call[k].at = "store" /\ to = "mail"
           \/ call[k].at = "read" /\ to = "purge"
           \/ call[k].at = "consume" /\ to = "passed"
    PROVE  /\ \E r : CallOnward(k, r)
           /\ call'[k].at = to /\ call'[k].email = call[k].email /\ call'[k].id = call[k].id
<1> DEFINE r == [call[k] EXCEPT !.at = to]
<1>1. CallShaped(call[k]) /\ call[k] \in Otps!Call
  BY DEF CallsTyped
<1>2. /\ CallShaped(r) /\ r.at = to /\ r.at # "rest" /\ r.email = call[k].email
      /\ r.kind = call[k].kind /\ r.id = call[k].id
  BY <1>1 DEF CallShaped, Otps!Call, Otps!Steps
<1>3. call' = [call EXCEPT ![k] = r]
  BY DEF Otps!Move
<1> HIDE DEF r
<1>4. call'[k] = r
  BY <1>2, <1>3, OneCallMoves
<1> QED
  BY <1>2, <1>3, <1>4 DEF CallOnward

\* A handler that answers.
LEMMA CallEnds ==
    ASSUME CallsTyped, NEW k \in Calls, Otps!Finish(k)
    PROVE  CallOnward(k, Otps!Rest) /\ call'[k].at = "rest"
<1>1. call' = [call EXCEPT ![k] = Otps!Rest]
  BY DEF Otps!Finish
<1>2. call'[k] = Otps!Rest
  BY <1>1, RestCallIsShaped, OneCallMoves
<1> QED
  BY <1>1, <1>2, RestCallIsShaped DEF CallOnward

LEMMA LookUpGoesOn ==
    ASSUME CallsTyped, NEW k \in Calls, NEW coll \in Otps!Collections, Otps!CheckEmail(k, coll)
    PROVE  /\ \E r : CallOnward(k, r)
           /\ call'[k].at \in {"check", "clear", "rest"}
           /\ call'[k].at # "rest" => call'[k].id = call[k].id
<1> DEFINE left == call[k].todo \ {coll}
           hit == call[k].hit \/ <<call[k].email, coll>> \in Enrolled
           going == [call[k] EXCEPT !.todo = left, !.hit = hit]
           free == [call[k] EXCEPT !.at = "clear", !.todo = {}]
<1>1. CallShaped(call[k]) /\ call[k] \in Otps!Call /\ call[k].at = "check"
  BY DEF CallsTyped, Otps!CheckEmail
<1>2. left \in SUBSET Otps!Collections /\ hit \in BOOLEAN
  BY <1>1 DEF Otps!Call
<1>3. /\ CallShaped(going) /\ going.at = "check" /\ going.email = call[k].email
      /\ going.kind = call[k].kind /\ going.id = call[k].id
  <2> HIDE DEF left, hit
  <2> QED BY <1>1, <1>2 DEF CallShaped, Otps!Call
<1>4. /\ CallShaped(free) /\ free.at = "clear" /\ free.email = call[k].email
      /\ free.kind = call[k].kind /\ free.id = call[k].id
  BY <1>1 DEF CallShaped, Otps!Call, Otps!Steps
<1>5. call' = [call EXCEPT ![k] = IF left # {} THEN going ELSE IF hit THEN Otps!Rest ELSE free]
  BY <1>1 DEF Otps!CheckEmail, CallsTyped
<1> HIDE DEF left, hit, going, free
<1>6. CASE left # {}
  <2>1. call' = [call EXCEPT ![k] = going]
    BY <1>5, <1>6
  <2>2. call'[k] = going
    BY <1>3, <2>1, OneCallMoves
  <2> QED
    BY <1>1, <1>3, <2>1, <2>2 DEF CallOnward
<1>7. CASE left = {} /\ hit
  BY <1>5, <1>7, CallEnds DEF Otps!Finish
<1>8. CASE left = {} /\ ~hit
  <2>1. call' = [call EXCEPT ![k] = free]
    BY <1>5, <1>8
  <2>2. call'[k] = free
    BY <1>4, <2>1, OneCallMoves
  <2> QED
    BY <1>4, <2>1, <2>2 DEF CallOnward
<1> QED
  BY <1>6, <1>7, <1>8

LEMMA ReadGoesOn ==
    ASSUME CodesTyped, CallsTyped, NEW k \in Calls, Otps!ReadCode(k)
    PROVE  /\ \E r : CallOnward(k, r)
           /\ \/ call'[k].at \in {"purge", "rest"}
              \/ /\ call'[k].at = "consume"
                 /\ \E o \in otps : call'[k].id = o.id /\ call'[k].email = o.email
<1>1. PICK o \in Otps!Records(call[k].email) : call' = [call EXCEPT ![k] = Otps!Judge(k, o)]
  BY DEF Otps!ReadCode
<1>2. /\ call[k] \in Otps!Call /\ CallShaped(call[k]) /\ call[k].at = "read"
      /\ o \in otps /\ o.id \in Otps!Ids /\ o.email = call[k].email
  BY DEF CallsTyped, CodesTyped, Otps!ReadCode, Otps!Records, Otps!Otp
<1> DEFINE r == [call[k] EXCEPT !.at = "purge"]
           q == [call[k] EXCEPT !.at = "consume", !.id = o.id]
<1>3. CallShaped(r) /\ r.at = "purge" /\ r.email = call[k].email /\ r.kind = call[k].kind
  BY <1>2 DEF CallShaped, Otps!Call, Otps!Steps
<1>4. /\ CallShaped(q) /\ q.at = "consume" /\ q.email = call[k].email
      /\ q.kind = call[k].kind /\ q.id = o.id
  BY <1>2 DEF CallShaped, Otps!Call, Otps!Steps
<1>5. Otps!Judge(k, o) \in {r, Otps!Rest, q}
  BY DEF Otps!Judge
<1> HIDE DEF r, q
<1>6. CASE Otps!Judge(k, o) = r
  <2>1. call'[k] = r
    BY <1>1, <1>3, <1>6, OneCallMoves
  <2> QED
    BY <1>1, <1>3, <1>6, <2>1 DEF CallOnward
<1>7. CASE Otps!Judge(k, o) = Otps!Rest
  BY <1>1, <1>7, CallEnds DEF Otps!Finish
<1>8. CASE Otps!Judge(k, o) = q
  <2>1. call'[k] = q
    BY <1>1, <1>4, <1>8, OneCallMoves
  <2> QED
    BY <1>1, <1>2, <1>4, <1>8, <2>1 DEF CallOnward
<1> QED
  BY <1>5, <1>6, <1>7, <1>8

LEMMA StoreTyped ==
    ASSUME CodesTyped, CallsTyped, NEW k \in Calls, Otps!Store(k)
    PROVE  CodesTyped'
<1>1. call[k].id \in Otps!Ids /\ call[k].email \in Emails
  BY DEF CallsTyped, CallShaped, Otps!Store
<1>2. PICK code \in Codes :
         otps' = otps \cup {[id |-> call[k].id, email |-> call[k].email,
                             code |-> code, live |-> TRUE]}
  BY DEF Otps!Store
<1>3. [id |-> call[k].id, email |-> call[k].email, code |-> code, live |-> TRUE] \in Otps!Otp
  BY <1>1 DEF Otps!Otp
<1>4. mailedTo' \in [Otps!Ids -> Emails \cup {None}]
  BY <1>1 DEF Otps!Store, CodesTyped
<1> QED
  BY <1>2, <1>3, <1>4 DEF Otps!Store, CodesTyped

LEMMA ConsumeTyped ==
    ASSUME CodesTyped, CallsTyped, NEW k \in Calls, Otps!Consume(k)
    PROVE  CodesTyped'
<1>1. call[k].id \in Otps!Ids /\ call[k].email \in Emails
  BY DEF CallsTyped, CallShaped, Otps!Consume
<1>2. accepted' \in [Otps!Ids -> Nat]
  BY <1>1 DEF Otps!Consume, CodesTyped
<1>3. tokens' \subseteq Otps!Token
  BY <1>1 DEF Otps!Consume, Otps!Token, CodesTyped
<1>4. otps' \subseteq otps /\ UNCHANGED <<sends, mailedTo>>
  BY DEF Otps!Consume
<1> QED
  BY <1>2, <1>3, <1>4 DEF CodesTyped

\* Everything an OTP handler does, up to what it writes.
LEMMA CallGoesOn ==
    ASSUME CodesTyped, CallsTyped, NEW k \in Calls, Otps!Step(k) \/ Otps!Fail(k)
    PROVE  (\E r : CallOnward(k, r)) /\ CodesTyped'
<1>1. ASSUME NEW coll \in Otps!Collections, Otps!CheckEmail(k, coll)
      PROVE  (\E r : CallOnward(k, r)) /\ CodesTyped'
  BY <1>1, LookUpGoesOn DEF Otps!CheckEmail, CodesTyped
<1>2. CASE Otps!ClearOld(k)
  BY <1>2, CallMoves DEF Otps!ClearOld, CodesTyped
<1>3. CASE Otps!Store(k)
  BY <1>3, CallMoves, StoreTyped DEF Otps!Store
<1>4. CASE Otps!ReadNothing(k)
  BY <1>4, CallMoves DEF Otps!ReadNothing, CodesTyped
<1>5. CASE Otps!ReadCode(k)
  BY <1>5, ReadGoesOn DEF Otps!ReadCode, CodesTyped
<1>6. CASE Otps!MailCode(k) \/ Otps!Purge(k) \/ Otps!Fail(k)
  <2>1. \E r : CallOnward(k, r)
    BY <1>6, CallEnds DEF Otps!MailCode, Otps!Purge, Otps!Fail
  <2> QED
    BY <1>6, <2>1 DEF Otps!MailCode, Otps!Purge, Otps!Fail, CodesTyped
<1>7. CASE Otps!Consume(k)
  <2>1. \E r : CallOnward(k, r)
    BY <1>7, CallMoves, CallEnds DEF Otps!Consume
  <2> QED
    BY <1>7, <2>1, ConsumeTyped
<1> QED
  BY <1>1, <1>2, <1>3, <1>4, <1>5, <1>6, <1>7 DEF Otps!Step

LEMMA SendTyped ==
    ASSUME CodesTyped, CallsTyped, NEW k \in Calls, NEW e \in Emails,
           NEW checked \in BOOLEAN, Otps!BeginSend(k, e, checked)
    PROVE  /\ CodesTyped' /\ CallsTyped'
           /\ call[k] = Otps!Rest /\ \A l \in Calls \ {k} : call'[l] = call[l]
           /\ call'[k].at \in {"check", "clear"} /\ call'[k].id = sends + 1
           /\ (checked => call'[k].at = "check")
           /\ call'[k].email = e /\ call'[k].kind = "send"
           /\ sends' = sends + 1 /\ sends + 1 \in Otps!Ids
<1> DEFINE r == [at |-> IF checked THEN "check" ELSE "clear", kind |-> "send",
                 email |-> e, code |-> None,
                 todo |-> IF checked THEN Otps!Collections ELSE {},
                 hit |-> FALSE, id |-> sends + 1]
<1>1. sends + 1 \in Otps!Ids /\ sends' \in 0 .. MaxOtps
  BY DEF Otps!BeginSend, CodesTyped, Otps!Ids
<1>2. /\ CallShaped(r) /\ r.at \in {"check", "clear"} /\ r.id = sends + 1
      /\ (checked => r.at = "check")
      /\ r.email = e /\ r.kind = "send"
  BY <1>1 DEF CallShaped, Otps!Call, Otps!Steps, Otps!Kinds
<1>3. call' = [call EXCEPT ![k] = r]
  BY DEF Otps!BeginSend
<1> HIDE DEF r
<1>4. CallsTyped' /\ call'[k] = r /\ \A l \in Calls \ {k} : call'[l] = call[l]
  BY <1>2, <1>3, OneCallMoves
<1> QED
  BY <1>1, <1>2, <1>4 DEF Otps!BeginSend, CodesTyped

LEMMA VerifyTyped ==
    ASSUME CodesTyped, CallsTyped, NEW k \in Calls, NEW e \in Emails, NEW code \in Codes,
           NEW kind \in {"verify", "raw"}, Otps!BeginVerify(k, e, code, kind)
    PROVE  /\ CodesTyped' /\ CallsTyped'
           /\ call[k] = Otps!Rest /\ \A l \in Calls \ {k} : call'[l] = call[l]
           /\ call'[k].at = "read" /\ call'[k].email = e /\ call'[k].kind = kind
           /\ UNCHANGED <<otps, sends, tokens, mailedTo, accepted>>
<1> DEFINE r == [Otps!Rest EXCEPT !.at = "read", !.kind = kind, !.email = e, !.code = code]
<1>1. CallShaped(r) /\ r.at = "read" /\ r.email = e /\ r.kind = kind
  BY DEF CallShaped, Otps!Rest, Otps!Call, Otps!Steps, Otps!Kinds
<1>2. call' = [call EXCEPT ![k] = r]
  BY DEF Otps!BeginVerify
<1> HIDE DEF r
<1>3. CallsTyped' /\ call'[k] = r /\ \A l \in Calls \ {k} : call'[l] = call[l]
  BY <1>1, <1>2, OneCallMoves
<1> QED
  BY <1>1, <1>3 DEF Otps!BeginVerify, CodesTyped

LEMMA ClockTyped ==
    ASSUME CodesTyped, Otps!Clock
    PROVE  /\ CodesTyped'
           /\ UNCHANGED <<call, sends, mailedTo, accepted>> /\ tokens' \subseteq tokens
           /\ \A o \in otps' : \E p \in otps : p.id = o.id /\ p.email = o.email
<1>1. CASE Otps!OtpExpires
  BY <1>1 DEF Otps!OtpExpires, Otps!Otp, CodesTyped
<1>2. CASE Otps!TtlSweep \/ Otps!TokenExpires
  BY <1>2 DEF Otps!TtlSweep, Otps!TokenExpires, CodesTyped
<1> QED
  BY <1>1, <1>2 DEF Otps!Clock

-----------------------------------------------------------------------------
(* Who has shown a code that was mailed to the address.                    *)

Pending(k) == call[k].at \in {"check", "clear", "store"}

\* An accepted code proves the address it was mailed to.
Verified(e) == \E i \in Otps!Ids : mailedTo[i] = e /\ accepted[i] > 0

\* The number of a code is drawn once and nothing is known of it until it is
\* stored; what is stored, read or accepted carries the address it was mailed to.
LedgerInv ==
    /\ \A i \in Otps!Ids : i > sends => mailedTo[i] = None
    /\ \A k \in Calls : Pending(k) =>
          /\ call[k].id <= sends /\ mailedTo[call[k].id] = None
          /\ \A l \in Calls : Pending(l) /\ call[l].id = call[k].id => l = k
    /\ \A o \in otps : mailedTo[o.id] = o.email
    /\ \A k \in Calls : call[k].at = "consume" => mailedTo[call[k].id] = call[k].email
    /\ \A t \in tokens : mailedTo[t.from] = t.email /\ accepted[t.from] > 0
    /\ \A k \in Calls : call[k].at = "passed" => Verified(call[k].email)

\* What is known of a code stays.
LedgerGrows ==
    \A i \in Otps!Ids : /\ mailedTo[i] # None => mailedTo'[i] = mailedTo[i]
                        /\ accepted'[i] >= accepted[i]

\* Steps that draw, store and accept no code: some codes and tokens may go, some
\* requests may have found a code.
LEMMA QuietLedger ==
    ASSUME CodesTyped, CallsTyped, CodesTyped', CallsTyped', LedgerInv,
           UNCHANGED <<sends, mailedTo, accepted>>, tokens' \subseteq tokens,
           \A o \in otps' : \E p \in otps : p.id = o.id /\ p.email = o.email,
           \A k \in Calls : Pending(k)' => Pending(k) /\ call'[k].id = call[k].id,
           \A k \in Calls : call'[k].at = "consume" =>
              \/ call[k].at = "consume" /\ call'[k].id = call[k].id
                                        /\ call'[k].email = call[k].email
              \/ \E o \in otps : call'[k].id = o.id /\ call'[k].email = o.email,
           \A k \in Calls : call'[k].at = "passed" =>
              call[k].at = "passed" /\ call'[k].email = call[k].email
    PROVE  LedgerInv' /\ LedgerGrows
<1>1. LedgerGrows
  BY DEF LedgerGrows, CodesTyped
<1>2. \A k \in Calls : call'[k].at = "consume" => mailedTo[call'[k].id] = call'[k].email
  BY DEF LedgerInv
<1>3. \A k \in Calls : (Pending(k) =>
          /\ call[k].id <= sends /\ mailedTo[call[k].id] = None
          /\ \A l \in Calls : Pending(l) /\ call[l].id = call[k].id => l = k)'
  BY DEF LedgerInv
<1>4. \A k \in Calls : call'[k].at = "passed" => Verified(call[k].email) /\ call'[k].email = call[k].email
  BY DEF LedgerInv
<1>5. \A k \in Calls : (call[k].at = "passed" => Verified(call[k].email))'
  BY <1>4 DEF Verified
<1>6. \A i \in Otps!Ids : i > sends' => mailedTo'[i] = None
  BY DEF LedgerInv
<1>7. \A o \in otps' : mailedTo'[o.id] = o.email
  BY DEF LedgerInv
<1>8. \A t \in tokens' : mailedTo'[t.from] = t.email /\ accepted'[t.from] > 0
  BY DEF LedgerInv
<1> QED
  BY <1>1, <1>2, <1>3, <1>5, <1>6, <1>7, <1>8 DEF LedgerInv

LEMMA SendKeepsLedger ==
    ASSUME CodesTyped, CallsTyped, LedgerInv, NEW k \in Calls, NEW e \in Emails,
           NEW checked \in BOOLEAN, Otps!BeginSend(k, e, checked)
    PROVE  LedgerInv' /\ LedgerGrows
<1>1. /\ CodesTyped' /\ CallsTyped'
      /\ call[k] = Otps!Rest /\ \A l \in Calls \ {k} : call'[l] = call[l]
      /\ call'[k].at \in {"check", "clear"} /\ call'[k].id = sends + 1
      /\ sends' = sends + 1 /\ sends + 1 \in Otps!Ids
  BY SendTyped
<1>2. UNCHANGED <<otps, tokens, mailedTo, accepted>>
  BY DEF Otps!BeginSend
<1>3. ~Pending(k) /\ Pending(k)' /\ \A l \in Calls \ {k} : Pending(l)' <=> Pending(l)
  BY <1>1, RestCallIsShaped DEF Pending
<1>4. sends \in Nat /\ mailedTo[sends + 1] = None
  BY <1>1 DEF CodesTyped, LedgerInv
<1>5. \A i \in Otps!Ids : i > sends' => mailedTo'[i] = None
  BY <1>1, <1>2, <1>4 DEF LedgerInv, Otps!Ids
<1>6. \A l \in Calls : Pending(l) => call[l].id \in Otps!Ids /\ call[l].id <= sends
  BY DEF LedgerInv, Pending, CallsTyped, CallShaped
<1>7. \A l \in Calls : (Pending(l) =>
          /\ call[l].id <= sends /\ mailedTo[call[l].id] = None
          /\ \A m \in Calls : Pending(m) /\ call[m].id = call[l].id => m = l)'
  <2> SUFFICES ASSUME NEW l \in Calls, Pending(l)'
               PROVE  /\ call'[l].id <= sends' /\ mailedTo'[call'[l].id] = None
                      /\ \A m \in Calls : Pending(m)' /\ call'[m].id = call'[l].id => m = l
    OBVIOUS
  <2>1. CASE l = k
    BY <1>1, <1>2, <1>3, <1>4, <1>6, <2>1 DEF Otps!Ids
  <2>2. CASE l # k
    BY <1>1, <1>2, <1>3, <1>4, <1>6, <2>2 DEF LedgerInv, Otps!Ids
  <2> QED
    BY <2>1, <2>2
<1>8. \A l \in Calls : call'[l].at \in {"consume", "passed"} => call'[l] = call[l]
  BY <1>1
<1>9. LedgerGrows
  BY <1>2 DEF LedgerGrows, CodesTyped
<1>10. \A l \in Calls : (call[l].at = "passed" => Verified(call[l].email))'
  BY <1>2, <1>8 DEF LedgerInv, Verified
<1>11. \A l \in Calls : (call[l].at = "consume" => mailedTo[call[l].id] = call[l].email)'
  BY <1>2, <1>8 DEF LedgerInv
<1> QED
  BY <1>2, <1>5, <1>7, <1>9, <1>10, <1>11 DEF LedgerInv

LEMMA StoreKeepsLedger ==
    ASSUME CodesTyped, CallsTyped, LedgerInv, NEW k \in Calls, Otps!Store(k)
    PROVE  LedgerInv' /\ LedgerGrows
<1> DEFINE n == call[k].id
<1>1. /\ call[k].at = "store" /\ Pending(k) /\ n \in Otps!Ids /\ n <= sends /\ mailedTo[n] = None
      /\ call[k].email \in Emails
  BY DEF Otps!Store, Pending, CallsTyped, CallShaped, LedgerInv
<1>2. call'[k].at = "mail" /\ \A l \in Calls \ {k} : call'[l] = call[l]
  BY CallMoves DEF Otps!Store, Otps!Move, CallsTyped
<1>3. mailedTo'[n] = call[k].email /\ \A i \in Otps!Ids \ {n} : mailedTo'[i] = mailedTo[i]
  BY <1>1 DEF Otps!Store, CodesTyped
<1>4. UNCHANGED <<sends, tokens, accepted>>
  BY DEF Otps!Store
<1>5. PICK code \in Codes :
         otps' = otps \cup {[id |-> n, email |-> call[k].email, code |-> code, live |-> TRUE]}
  BY DEF Otps!Store
<1> HIDE DEF n
<1>6. \A i \in Otps!Ids : mailedTo[i] # None => i # n /\ mailedTo'[i] = mailedTo[i]
  BY <1>1, <1>3
<1>7. LedgerGrows
  BY <1>4, <1>6 DEF LedgerGrows, CodesTyped
<1>8. \A i \in Otps!Ids : i > sends' => mailedTo'[i] = None
  BY <1>1, <1>3, <1>4 DEF LedgerInv, CodesTyped, Otps!Ids
<1>9. \A l \in Calls : (Pending(l) =>
          /\ call[l].id <= sends /\ mailedTo[call[l].id] = None
          /\ \A m \in Calls : Pending(m) /\ call[m].id = call[l].id => m = l)'
  <2> SUFFICES ASSUME NEW l \in Calls, Pending(l)'
               PROVE  /\ call'[l].id <= sends' /\ mailedTo'[call'[l].id] = None
                      /\ \A m \in Calls : Pending(m)' /\ call'[m].id = call'[l].id => m = l
    OBVIOUS
  <2>1. l # k /\ call'[l] = call[l] /\ Pending(l)
    BY <1>2 DEF Pending
  <2>2. call[l].id # n /\ call[l].id \in Otps!Ids
    BY <1>1, <2>1 DEF LedgerInv, CallsTyped, CallShaped, Pending, n
  <2>3. \A m \in Calls : Pending(m)' => Pending(m) /\ call'[m] = call[m]
    BY <1>2 DEF Pending
  <2> QED
    BY <1>3, <1>4, <2>1, <2>2, <2>3 DEF LedgerInv
<1>10. \A o \in otps' : mailedTo'[o.id] = o.email
  BY <1>3, <1>5, <1>6 DEF LedgerInv, CodesTyped, Otps!Otp
<1>11. \A l \in Calls : (call[l].at = "consume" => mailedTo[call[l].id] = call[l].email)'
  BY <1>2, <1>6 DEF LedgerInv, CallsTyped, CallShaped
<1>12. \A t \in tokens' : mailedTo'[t.from] = t.email /\ accepted'[t.from] > 0
  BY <1>4, <1>6 DEF LedgerInv, CodesTyped, Otps!Token
<1>13. \A l \in Calls : (call[l].at = "passed" => Verified(call[l].email))'
  <2> SUFFICES ASSUME NEW l \in Calls, call'[l].at = "passed"
               PROVE  \E i \in Otps!Ids : mailedTo'[i] = call'[l].email /\ accepted'[i] > 0
    BY DEF Verified
  <2>1. call'[l] = call[l] /\ call[l].email \in Emails
    BY <1>2 DEF CallsTyped, CallShaped
  <2>2. PICK i \in Otps!Ids : mailedTo[i] = call[l].email /\ accepted[i] > 0
    BY <2>1 DEF LedgerInv, Verified
  <2> QED
    BY <1>4, <1>6, <2>1, <2>2
<1> QED
  BY <1>7, <1>8, <1>9, <1>10, <1>11, <1>12, <1>13 DEF LedgerInv

LEMMA ConsumeKeepsLedger ==
    ASSUME CodesTyped, CallsTyped, LedgerInv, NEW k \in Calls, Otps!Consume(k)
    PROVE  LedgerInv' /\ LedgerGrows
<1> DEFINE n == call[k].id
<1>1. call[k].at = "consume" /\ n \in Otps!Ids /\ mailedTo[n] = call[k].email
  BY DEF Otps!Consume, CallsTyped, CallShaped, LedgerInv
<1>2. /\ \A l \in Calls \ {k} : call'[l] = call[l]
      /\ \/ call'[k].at = "passed" /\ call'[k].email = call[k].email
         \/ call'[k].at = "rest"
  BY CallMoves, CallEnds DEF Otps!Consume, Otps!Move, Otps!Finish, CallsTyped
<1>3. /\ accepted'[n] > 0 /\ \A i \in Otps!Ids : accepted'[i] >= accepted[i]
      /\ otps' \subseteq otps /\ UNCHANGED <<sends, mailedTo>>
  BY <1>1 DEF Otps!Consume, CodesTyped
<1>4. \A t \in tokens' : t \in tokens \/ t = [email |-> call[k].email, from |-> n]
  BY DEF Otps!Consume
<1> HIDE DEF n
<1>5. LedgerGrows
  BY <1>3 DEF LedgerGrows
<1>6. \A t \in tokens' : mailedTo'[t.from] = t.email /\ accepted'[t.from] > 0
  <2> SUFFICES ASSUME NEW t \in tokens' PROVE mailedTo'[t.from] = t.email /\ accepted'[t.from] > 0
    OBVIOUS
  <2>1. CASE t \in tokens
    <3>1. t.from \in Otps!Ids /\ mailedTo[t.from] = t.email /\ accepted[t.from] > 0
      BY <2>1 DEF LedgerInv, CodesTyped, Otps!Token
    <3>2. accepted[t.from] \in Nat /\ accepted'[t.from] \in Nat
      BY <3>1, ConsumeTyped DEF CodesTyped
    <3> QED
      BY <1>3, <3>1, <3>2
  <2>2. CASE t = [email |-> call[k].email, from |-> n]
    BY <1>1, <1>3, <2>2
  <2> QED
    BY <1>4, <2>1, <2>2
<1>7. \A l \in Calls : (call[l].at = "passed" => Verified(call[l].email))'
  <2> SUFFICES ASSUME NEW l \in Calls, call'[l].at = "passed"
               PROVE  \E i \in Otps!Ids : mailedTo'[i] = call'[l].email /\ accepted'[i] > 0
    BY DEF Verified
  <2>1. CASE l = k
    BY <1>1, <1>2, <1>3, <2>1
  <2>2. CASE l # k
    <3>1. PICK i \in Otps!Ids : mailedTo[i] = call[l].email /\ accepted[i] > 0
      BY <1>2, <2>2 DEF LedgerInv, Verified
    <3>2. accepted[i] \in Nat /\ accepted'[i] \in Nat
      BY ConsumeTyped DEF CodesTyped
    <3> QED
      BY <1>2, <1>3, <2>2, <3>1, <3>2
  <2> QED
    BY <2>1, <2>2
<1>8. \A l \in Calls : Pending(l)' => Pending(l) /\ call'[l] = call[l]
  BY <1>2 DEF Pending
<1>9. \A l \in Calls : call'[l].at = "consume" => call'[l] = call[l]
  BY <1>2
<1> QED
  BY <1>3, <1>5, <1>6, <1>7, <1>8, <1>9 DEF LedgerInv

LEMMA StepKeepsLedger ==
    ASSUME CodesTyped, CallsTyped, CallsTyped', LedgerInv, NEW k \in Calls,
           Otps!Step(k) \/ Otps!Fail(k) \/ Otps!Return(k)
    PROVE  LedgerInv' /\ LedgerGrows
<1>1. CASE Otps!Store(k)
  BY <1>1, StoreKeepsLedger
<1>2. CASE Otps!Consume(k)
  BY <1>2, ConsumeKeepsLedger
<1>3. CASE \E coll \in Otps!Collections : Otps!CheckEmail(k, coll)
  <2>1. /\ \A l \in Calls \ {k} : call'[l] = call[l]
        /\ call[k].at = "check" /\ call'[k].at \in {"check", "clear", "rest"}
        /\ call'[k].at # "rest" => call'[k].id = call[k].id
    BY <1>3, LookUpGoesOn DEF Otps!CheckEmail, CallsTyped
  <2>2. UNCHANGED <<otps, sends, tokens, mailedTo, accepted>>
    BY <1>3 DEF Otps!CheckEmail
  <2>3. CodesTyped'
    BY <2>2 DEF CodesTyped
  <2> QED
    BY <2>1, <2>2, <2>3, QuietLedger DEF Pending
<1>4. CASE Otps!ClearOld(k) \/ Otps!ReadNothing(k)
  <2>1. /\ \A l \in Calls \ {k} : call'[l] = call[l]
        /\ call'[k].id = call[k].id
        /\ \/ call[k].at = "clear" /\ call'[k].at = "store"
           \/ call[k].at = "read" /\ call'[k].at = "purge"
    BY <1>4, CallMoves DEF Otps!ClearOld, Otps!ReadNothing, Otps!Move, CallsTyped
  <2>2. otps' \subseteq otps /\ UNCHANGED <<sends, tokens, mailedTo, accepted>>
    BY <1>4 DEF Otps!ClearOld, Otps!ReadNothing
  <2>3. CodesTyped'
    BY <2>2 DEF CodesTyped
  <2> QED
    BY <2>1, <2>2, <2>3, QuietLedger DEF Pending
<1>5. CASE Otps!ReadCode(k)
  <2>1. /\ \A l \in Calls \ {k} : call'[l] = call[l]
        /\ \/ call'[k].at \in {"purge", "rest"}
           \/ /\ call'[k].at = "consume"
              /\ \E o \in otps : call'[k].id = o.id /\ call'[k].email = o.email
    BY <1>5, ReadGoesOn DEF Otps!ReadCode, CallsTyped
  <2>2. UNCHANGED <<otps, sends, tokens, mailedTo, accepted>>
    BY <1>5 DEF Otps!ReadCode
  <2>3. CodesTyped'
    BY <2>2 DEF CodesTyped
  <2>4. \A l \in Calls : Pending(l)' => Pending(l) /\ call'[l].id = call[l].id
    BY <2>1 DEF Pending
  <2>5. \A l \in Calls : call'[l].at = "consume" =>
           \/ call[l].at = "consume" /\ call'[l].id = call[l].id /\ call'[l].email = call[l].email
           \/ \E o \in otps : call'[l].id = o.id /\ call'[l].email = o.email
    BY <2>1
  <2> QED
    BY <2>1, <2>2, <2>3, <2>4, <2>5, QuietLedger
<1>6. CASE Otps!MailCode(k) \/ Otps!Purge(k) \/ Otps!Fail(k) \/ Otps!Return(k)
  <2>1. call'[k].at = "rest" /\ \A l \in Calls \ {k} : call'[l] = call[l]
    BY <1>6, CallEnds
       DEF Otps!MailCode, Otps!Purge, Otps!Fail, Otps!Return, Otps!Finish, CallsTyped
  <2>2. otps' \subseteq otps /\ UNCHANGED <<sends, tokens, mailedTo, accepted>>
    BY <1>6 DEF Otps!MailCode, Otps!Purge, Otps!Fail, Otps!Return
  <2>3. CodesTyped'
    BY <2>2 DEF CodesTyped
  <2> QED
    BY <2>1, <2>2, <2>3, QuietLedger DEF Pending
<1> QED
  BY <1>1, <1>2, <1>3, <1>4, <1>5, <1>6 DEF Otps!Step

-----------------------------------------------------------------------------
(* The service.                                                            *)

Typed == RecordsTyped /\ JobsTyped /\ CodesTyped /\ CallsTyped

\* Every handler past its entry, and every record, has a verified address.
VerifiedInv ==
    /\ \A j \in Jobs : job[j].at # "rest" => Verified(job[j].email)
    /\ \A d \in registrations : d \in Legacy \/ Verified(d.email)
    /\ \A g \in staffGuests : Verified(g.email)

LEMMA OnwardTyped ==
    ASSUME JobsTyped, NEW j \in Jobs, NEW r, Onward(j, r)
    PROVE  /\ JobsTyped' /\ \A k \in Jobs \ {j} : job'[k] = job[k]
           /\ job'[j].at = "rest" \/ (job'[j].email = job[j].email /\ job'[j].series = job[j].series)
  BY OneJobMoves, RestIsShaped DEF Onward

LEMMA CallOnwardTyped ==
    ASSUME CallsTyped, NEW k \in Calls, NEW r, CallOnward(k, r)
    PROVE  /\ CallsTyped' /\ \A l \in Calls \ {k} : call'[l] = call[l]
           /\ \/ call'[k] = Otps!Rest
              \/ /\ call'[k].at # "rest" /\ call'[k].email = call[k].email
                 /\ call'[k].kind = call[k].kind
  BY OneCallMoves DEF CallOnward

LEMMA VerifiedStays ==
    ASSUME CodesTyped, CodesTyped', LedgerGrows, NEW e \in Emails, Verified(e)
    PROVE  Verified(e)'
<1>1. PICK i \in Otps!Ids : mailedTo[i] = e /\ accepted[i] > 0
  BY DEF Verified
<1>2. mailedTo'[i] = e /\ accepted'[i] >= accepted[i]
  BY <1>1 DEF LedgerGrows
<1>3. accepted[i] \in Nat /\ accepted'[i] \in Nat
  BY DEF CodesTyped
<1> QED
  BY <1>1, <1>2, <1>3 DEF Verified

\* The OTP side only ever verifies more addresses.
LEMMA GrowthKeepsVerified ==
    ASSUME Typed, Typed', VerifiedInv, LedgerGrows, UNCHANGED <<registrations, staffGuests, job>>
    PROVE  VerifiedInv'
<1>1. \A j \in Jobs : job[j].at # "rest" => job[j].email \in Emails
  BY DEF Typed, JobsTyped, JobShaped
<1>2. \A d \in registrations : d.email \in Emails
  BY DEF Typed, RecordsTyped, Members!Student
<1>3. \A g \in staffGuests : g.email \in Emails
  BY DEF Typed, RecordsTyped, Members!StaffGuest
<1>4. \A e \in Emails : Verified(e) => Verified(e)'
  BY VerifiedStays DEF Typed
<1> QED
  BY <1>1, <1>2, <1>3, <1>4 DEF VerifiedInv

LEMMA EnterKeepsVerified ==
    ASSUME Typed, VerifiedInv, NEW j \in Jobs, NEW e \in Emails, Verified(e), Enter(j, e),
           UNCHANGED <<mailedTo, accepted>>
    PROVE  VerifiedInv'
<1>1. \A x : Verified(x)' <=> Verified(x)
  BY DEF Verified
<1>2. /\ job'[j].email = e /\ \A k \in Jobs \ {j} : job'[k] = job[k]
      /\ UNCHANGED <<registrations, staffGuests>>
  BY BeginTyped DEF Typed
<1>3. \A k \in Jobs : job'[k].at # "rest" => Verified(job'[k].email)
  BY <1>2 DEF VerifiedInv
<1>4. \A k \in Jobs : (job[k].at # "rest" => Verified(job[k].email))'
  BY <1>3 DEF Verified
<1> QED
  BY <1>1, <1>2, <1>4 DEF VerifiedInv

LEMMA MemberStepKeepsAll ==
    ASSUME Typed, VerifiedInv, LedgerInv, MemberStep
    PROVE  Typed' /\ VerifiedInv' /\ LedgerInv'
<1>1. UNCHANGED <<otps, sends, call, tokens, mailedTo, accepted>>
  BY DEF MemberStep, otpVars
<1>2. CodesTyped' /\ CallsTyped'
  BY <1>1 DEF Typed, CodesTyped, CallsTyped
<1>3. LedgerInv'
  BY <1>1 DEF LedgerInv, Pending, Verified
<1>4. \A e : Verified(e)' <=> Verified(e)
  BY <1>1 DEF Verified
<1>5. ASSUME NEW j \in Jobs, Members!Step(j) \/ Members!Fail(j)
      PROVE  RecordsTyped' /\ JobsTyped' /\ VerifiedInv'
  <2>1. (\E r : Onward(j, r)) /\ RecordsTyped' /\ AddsOnly(j)
    BY <1>5, JobGoesOn DEF Typed
  <2>2. /\ JobsTyped' /\ \A k \in Jobs \ {j} : job'[k] = job[k]
        /\ job'[j].at = "rest" \/ job'[j].email = job[j].email
    BY <2>1, OnwardTyped DEF Typed
  <2>3. Verified(job[j].email)
    BY <2>1 DEF AddsOnly, VerifiedInv
  <2>4. \A k \in Jobs : job'[k].at # "rest" => Verified(job'[k].email)
    BY <2>2, <2>3 DEF VerifiedInv
  <2>5. \A d \in registrations' : d \in Legacy \/ Verified(d.email)
    BY <2>1, <2>3 DEF AddsOnly, VerifiedInv
  <2>6. \A g \in staffGuests' : Verified(g.email)
    BY <2>1, <2>3 DEF AddsOnly, VerifiedInv
  <2>7. VerifiedInv'
    BY <1>1, <2>4, <2>5, <2>6 DEF VerifiedInv, Verified
  <2> QED
    BY <2>1, <2>2, <2>7
<1>6. ASSUME Members!DeleteStudent \/ Members!DeleteStaffGuest
      PROVE  RecordsTyped' /\ JobsTyped' /\ VerifiedInv'
  <2>1. /\ registrations' \subseteq registrations /\ staffGuests' \subseteq staffGuests
        /\ UNCHANGED <<job, counter>>
    BY <1>6 DEF Members!DeleteStudent, Members!DeleteStaffGuest
  <2> QED
    BY <1>4, <2>1 DEF Typed, RecordsTyped, JobsTyped, VerifiedInv
<1> QED
  BY <1>2, <1>3, <1>5, <1>6 DEF MemberStep, Typed

LEMMA OtpStepKeepsAll ==
    ASSUME Typed, VerifiedInv, LedgerInv, OtpStep
    PROVE  Typed' /\ VerifiedInv' /\ LedgerInv'
<1>1. UNCHANGED <<registrations, staffGuests, counter, job>>
  BY DEF OtpStep, memberVars
<1>2. RecordsTyped' /\ JobsTyped'
  BY <1>1 DEF Typed, RecordsTyped, JobsTyped
<1>3. ASSUME NEW k \in Calls, Otps!Arrive(k)
      PROVE  CodesTyped' /\ CallsTyped' /\ LedgerInv' /\ LedgerGrows
  <2>1. ASSUME NEW e \in Emails, NEW checked \in BOOLEAN, Otps!BeginSend(k, e, checked)
        PROVE  CodesTyped' /\ CallsTyped' /\ LedgerInv' /\ LedgerGrows
    BY <2>1, SendTyped, SendKeepsLedger DEF Typed
  <2>2. ASSUME NEW e \in Emails, NEW code \in Codes, NEW kind \in {"verify", "raw"},
               Otps!BeginVerify(k, e, code, kind)
        PROVE  CodesTyped' /\ CallsTyped' /\ LedgerInv' /\ LedgerGrows
    <3>1. /\ CodesTyped' /\ CallsTyped' /\ \A l \in Calls \ {k} : call'[l] = call[l]
          /\ call'[k].at = "read" /\ UNCHANGED <<otps, sends, tokens, mailedTo, accepted>>
      BY <2>2, VerifyTyped DEF Typed
    <3> QED
      BY <3>1, QuietLedger DEF Typed, Pending
  <2> QED
    BY <1>3, <2>1, <2>2 DEF Otps!Arrive
<1>4. ASSUME NEW k \in Calls, Otps!Step(k) \/ Otps!Fail(k)
      PROVE  CodesTyped' /\ CallsTyped' /\ LedgerInv' /\ LedgerGrows
  <2>1. CodesTyped' /\ CallsTyped'
    BY <1>4, CallGoesOn, CallOnwardTyped DEF Typed
  <2> QED
    BY <1>4, <2>1, StepKeepsLedger DEF Typed
<1>5. ASSUME Otps!Clock PROVE CodesTyped' /\ CallsTyped' /\ LedgerInv' /\ LedgerGrows
  <2>1. /\ CodesTyped' /\ UNCHANGED <<call, sends, mailedTo, accepted>> /\ tokens' \subseteq tokens
        /\ \A o \in otps' : \E p \in otps : p.id = o.id /\ p.email = o.email
    BY <1>5, ClockTyped DEF Typed
  <2>2. CallsTyped'
    BY <2>1 DEF Typed, CallsTyped
  <2> QED
    BY <2>1, <2>2, QuietLedger DEF Typed, Pending
<1>6. CodesTyped' /\ CallsTyped' /\ LedgerInv' /\ LedgerGrows
  BY <1>3, <1>4, <1>5 DEF OtpStep
<1>7. Typed'
  BY <1>2, <1>6 DEF Typed
<1> QED
  BY <1>1, <1>6, <1>7, GrowthKeepsVerified

LEMMA CrashKeepsAll ==
    ASSUME Typed, VerifiedInv, LedgerInv, Crash
    PROVE  Typed' /\ VerifiedInv' /\ LedgerInv'
<1>1. /\ job' = [j \in Jobs |-> Members!Rest] /\ call' = [k \in Calls |-> Otps!Rest]
      /\ UNCHANGED <<registrations, staffGuests, counter>>
      /\ UNCHANGED <<otps, sends, tokens, mailedTo, accepted>>
  BY DEF Crash, Members!Crash, Otps!Crash
<1>2. JobsTyped' /\ \A j \in Jobs : job'[j].at = "rest"
  BY <1>1, RestIsShaped DEF JobsTyped, JobShaped
<1>3. CallsTyped' /\ \A k \in Calls : call'[k].at = "rest"
  BY <1>1, RestCallIsShaped DEF CallsTyped, CallShaped
<1>4. Typed'
  BY <1>1, <1>2, <1>3 DEF Typed, RecordsTyped, CodesTyped
<1>5. LedgerInv'
  BY <1>1, <1>3 DEF LedgerInv, Pending
<1>6. VerifiedInv'
  BY <1>1, <1>2 DEF VerifiedInv, Verified
<1> QED
  BY <1>4, <1>5, <1>6

LEMMA ServiceInductive ==
    Typed /\ VerifiedInv /\ LedgerInv /\ [Next]_vars => (Typed /\ VerifiedInv /\ LedgerInv)'
<1> SUFFICES ASSUME Typed, VerifiedInv, LedgerInv, [Next]_vars
             PROVE  Typed' /\ VerifiedInv' /\ LedgerInv'
  OBVIOUS
<1>1. ASSUME NEW j \in Jobs, RegisterWithToken(j) PROVE Typed' /\ VerifiedInv' /\ LedgerInv'
  <2>1. PICK t \in tokens, e \in Emails : TokenVouches(t, e) /\ Enter(j, e)
    BY <1>1 DEF RegisterWithToken
  <2>2. UNCHANGED <<otps, sends, call, tokens, mailedTo, accepted>>
    BY <1>1 DEF RegisterWithToken, otpVars
  <2>3. Verified(e)
    BY <2>1 DEF TokenVouches, LedgerInv, Verified, Typed, CodesTyped, Otps!Token
  <2>4. RecordsTyped' /\ JobsTyped'
    BY <2>1, BeginTyped DEF Typed
  <2>5. CodesTyped' /\ CallsTyped' /\ LedgerInv'
    BY <2>2 DEF Typed, CodesTyped, CallsTyped, LedgerInv, Pending, Verified
  <2>6. VerifiedInv'
    BY <2>1, <2>2, <2>3, EnterKeepsVerified
  <2> QED
    BY <2>4, <2>5, <2>6 DEF Typed
<1>2. ASSUME NEW j \in Jobs, RegisterWithCode(j) PROVE Typed' /\ VerifiedInv' /\ LedgerInv'
  <2>1. PICK k \in Calls : call[k].at = "passed" /\ Enter(j, call[k].email) /\ Otps!Return(k)
    BY <1>2 DEF RegisterWithCode
  <2>2. UNCHANGED <<otps, sends, tokens, mailedTo, accepted>>
    BY <2>1 DEF Otps!Return
  <2>3. Verified(call[k].email) /\ call[k].email \in Emails
    BY <2>1 DEF LedgerInv, Typed, CallsTyped, CallShaped
  <2>4. RecordsTyped' /\ JobsTyped'
    BY <2>1, <2>3, BeginTyped DEF Typed
  <2>5. CodesTyped' /\ CallsTyped'
    BY <2>1, <2>2, CallEnds, CallOnwardTyped DEF Otps!Return, Typed, CodesTyped
  <2>6. LedgerInv'
    BY <2>1, <2>5, StepKeepsLedger DEF Typed
  <2>7. VerifiedInv'
    BY <2>1, <2>2, <2>3, EnterKeepsVerified
  <2> QED
    BY <2>4, <2>5, <2>6, <2>7 DEF Typed
<1>3. CASE UNCHANGED vars
  BY <1>3 DEF vars, memberVars, otpVars, Typed, RecordsTyped, JobsTyped, CodesTyped, CallsTyped,
              VerifiedInv, LedgerInv, Pending, Verified
<1> QED
  BY <1>1, <1>2, <1>3, MemberStepKeepsAll, OtpStepKeepsAll, CrashKeepsAll DEF Next

LEMMA ServiceInitially == Init => Typed /\ VerifiedInv /\ LedgerInv
<1> SUFFICES ASSUME Init PROVE Typed /\ VerifiedInv /\ LedgerInv
  OBVIOUS
<1>1. /\ registrations = Legacy /\ staffGuests = {} /\ counter = [c \in Cohorts |-> Members!Absent]
      /\ job = [j \in Jobs |-> Members!Rest]
  BY DEF Init, Members!Init
<1>2. /\ otps = {} /\ sends = 0 /\ call = [k \in Calls |-> Otps!Rest] /\ tokens = {}
      /\ mailedTo = [i \in Otps!Ids |-> None] /\ accepted = [i \in Otps!Ids |-> 0]
  BY DEF Init, Otps!Ids
<1>3. RecordsTyped /\ JobsTyped
  BY <1>1, LegacyAssumption, RestIsShaped DEF RecordsTyped, JobsTyped, JobShaped
<1>4. CodesTyped /\ CallsTyped
  BY <1>2, RestCallIsShaped DEF CodesTyped, CallsTyped, CallShaped
<1>5. LedgerInv
  BY <1>2, RestCallIsShaped DEF LedgerInv, Pending
<1>6. VerifiedInv
  BY <1>1, RestIsShaped DEF VerifiedInv
<1> QED
  BY <1>3, <1>4, <1>5, <1>6 DEF Typed

LEMMA ServiceAlways == Spec => [](Typed /\ VerifiedInv /\ LedgerInv)
  BY ServiceInitially, ServiceInductive, PTL DEF Spec

LEMMA VerifiedSuffices == VerifiedInv => EveryMemberVerified
  BY DEF VerifiedInv, EveryMemberVerified, Verified, Otps!Ids

\* Nobody becomes a member without a code mailed to the very address on the
\* record and shown (createStudentRegistration, registerStaffGuest, verifyOTP),
\* however requests, deletions, expiries, failures and crashes interleave.
THEOREM MembersAreVerified == Spec => []EveryMemberVerified
  BY ServiceAlways, VerifiedSuffices, PTL

-----------------------------------------------------------------------------
(* The form.                                                               *)

\* What the form waits for, by the kind of request.
PendingShaped ==
    /\ pending.of = "none" => pending = Idle
    /\ pending.of # "none" => pending.email \in Emails /\ page.email \in Emails
    /\ pending.of \in {"send", "verify"} => pending.handler \in Calls
    /\ pending.of = "submit" => pending.handler \in Jobs \/ (pending.handler = None
                                                              /\ pending.answer = "refused")
    /\ pending.answer = "member" => pending.of = "submit"
    /\ page.verified => page.email \in Emails
    /\ page.verified <=> page.token # None
    /\ pending.of # "verify" \/ pending.answer # "done" => pending.token = None

FormTyped == FormTypeOK /\ PendingShaped

\* The handler the form waits for, while it runs, serves that very request.
ServedInv ==
    /\ \A k \in Calls : Awaited(k) /\ call[k].at # "rest" =>
          call[k].email = pending.email /\ call[k].kind = pending.of
    /\ \A j \in Jobs : Awaited(j) /\ job[j].at # "rest" => job[j].email = pending.email

\* Where the form's token comes from.
OwnerInv ==
    /\ pending.of \in {"send", "verify"} => ~page.verified
    /\ pending.of = "verify" => edited \/ pending.email = page.email
    /\ pending.of = "verify" /\ pending.answer = "done" =>
          pending.token # None /\ pending.token.email = pending.email
    /\ pending.of = "submit" =>
          /\ page.verified
          /\ pending.handler = None => pending.email = page.email
          /\ pending.handler # None => pending.email = page.token.email
    /\ VerifiedOwnsToken

\* Who was found, recorded or welcomed is on record, unless taken off it.
Known == OnRecord \cup removed

WelcomeInv ==
    /\ \A j \in Jobs : job[j].at = "mail" \/ job[j].hit => job[j].email \in Known
    /\ pending.answer = "member" \/ (pending.of = "submit" /\ pending.answer = "done")
          => pending.email \in Known
    /\ WelcomedAreOnRecord

\* A sendOTP handler past its look-ups, or part of them, saw nobody on record.
Honest(k) ==
    /\ call[k].at \in {"clear", "store", "mail", "consume"} => call[k].email \notin OnRecord
    /\ call[k].at = "check" /\ ~call[k].hit =>
          \A coll \in Otps!Collections \ call[k].todo : <<call[k].email, coll>> \notin Enrolled

\* While no answer was lost the server does for an email nobody else asks for
\* nothing but what the form waits for; if it was verified it has no code left,
\* and on record it has no code, no handler that would lead to one and no token
\* but the one it registered with.
CalmInv ==
    /\ \A k \in Calls : call[k].at # "rest" /\ call[k].email \notin elsewhere => Awaited(k)
    /\ \A j \in Jobs : job[j].at # "rest" /\ job[j].email \notin elsewhere => Awaited(j)
    /\ \A o \in otps : o.email \notin elsewhere =>
          /\ page.token # None => o.email # page.token.email
          /\ pending.token # None => o.email # pending.token.email
          /\ o.email \notin OnRecord
    /\ \A k \in Calls : call[k].email \notin elsewhere => Honest(k)
    /\ \A j \in Jobs : job[j].email \notin elsewhere => ~job[j].hit
    /\ pending.answer = "member" => page.token # None /\ page.token.email \in elsewhere
    /\ pending.token # None => pending.token.email \notin OnRecord \ elsewhere
    /\ page.token # None /\ page.token.email \in OnRecord \ elsewhere =>
          /\ pending.of = "submit"
          /\ \/ pending.answer = "done"
             \/ /\ pending.answer = "none"
                /\ \A j \in Jobs : pending.handler = j => job[j].at \in {"mail", "rest"}

QuietInv == ~lost => CalmInv

-----------------------------------------------------------------------------
(* The steps of the form and of the server behind it.                      *)

USE HandlersAssumption

LEMMA TokensAreTokens == Token = Otps!Token /\ None \notin Token
  BY DEF Token, Otps!Token, Otps!Ids

LEMMA PendingFields ==
    ASSUME FormTypeOK
    PROVE  /\ pending.of \in {"none", "send", "verify", "submit"}
           /\ pending.email \in Emails \cup {None}
           /\ pending.handler \in Calls \cup Jobs \cup {None}
           /\ pending.token \in Token \cup {None}
           /\ pending.answer \in {"none", "done", "member", "refused"}
           /\ page.step \in 1 .. 3 /\ page.email \in Emails \cup {None}
           /\ page.verified \in BOOLEAN /\ page.shown \in BOOLEAN
           /\ page.token \in Token \cup {None}
  BY DEF FormTypeOK

\* An answer changes what the form waits for in nothing else.
LEMMA ReplyMeans ==
    ASSUME FormTypeOK, NEW h, NEW answer \in {"done", "member", "refused"},
           NEW token \in Token \cup {None}, Reply(h, answer, token)
    PROVE  /\ pending' \in [of : {"none", "send", "verify", "submit"}, email : Emails \cup {None},
                            handler : Calls \cup Jobs \cup {None}, token : Token \cup {None},
                            answer : {"none", "done", "member", "refused"}]
           /\ pending'.of = pending.of /\ pending'.email = pending.email
           /\ pending'.handler = pending.handler
           /\ IF pending.handler = h /\ pending.answer = "none"
              THEN pending'.answer = answer /\ pending'.token = token
              ELSE pending' = pending
<1> DEFINE P == [of : {"none", "send", "verify", "submit"}, email : Emails \cup {None},
                 handler : Calls \cup Jobs \cup {None}, token : Token \cup {None},
                 answer : {"none", "done", "member", "refused"}]
           r == [pending EXCEPT !.answer = answer, !.token = token]
<1>1. pending \in P
  BY DEF FormTypeOK
<1>2. /\ r \in P /\ r.of = pending.of /\ r.email = pending.email /\ r.handler = pending.handler
      /\ r.answer = answer /\ r.token = token
  BY <1>1
<1>3. pending' = IF pending.handler = h /\ pending.answer = "none" THEN r ELSE pending
  BY DEF Reply
<1> HIDE DEF r
<1> QED
  BY <1>1, <1>2, <1>3

\* The person's side of the form but for a request.
PersonActs ==
    \/ \E e \in Emails : TypeEmail(e)
    \/ TurnPage \/ SubmitUnvouched \/ Reload
    \/ HearCode \/ HearVerdict \/ HearSubmitted \/ HearNotSubmitted \/ LoseAnswer

CallServed(k) ==
    /\ Otps!Step(k) \/ Otps!Fail(k)
    /\ UNCHANGED <<memberVars, page, edited, lost, asked, elsewhere, welcomed, removed>>

JobServed(j) ==
    /\ Members!Step(j) \/ Members!Fail(j)
    /\ UNCHANGED <<otpVars, page, edited, lost, asked, elsewhere, welcomed, removed>>

OthersAct == (\E k \in Calls : OthersAsk(k)) \/ (\E j \in Jobs : OthersRegister(j))

LEMMA FormCases ==
    ASSUME [FormNext]_allVars
    PROVE  \/ PersonActs
           \/ \E k \in Calls : AskCode(k) \/ AskVerify(k)
           \/ \E j \in Jobs : Submit(j)
           \/ \E k \in Calls :
                 /\ CallServed(k)
                 /\ OtpServes(k) \/ (Otps!Fail(k) /\ Reply(k, "refused", None))
           \/ \E j \in Jobs :
                 /\ JobServed(j)
                 /\ MembersServe(j) \/ (Members!Fail(j) /\ Reply(j, "refused", None))
           \/ OthersAct
           \/ ServerCrashes \/ TimePasses \/ AdminDeletes
           \/ UNCHANGED allVars
  BY DEF FormNext, OthersAct, PersonActs, CallServed, JobServed, OtpServes, MembersServe, ServerFails

\* What the form hears from an OTP handler.
HeardCall(k) ==
    /\ pending'.of = pending.of /\ pending'.email = pending.email
    /\ pending'.handler = pending.handler
    /\ \/ /\ pending' = pending
          /\ call'[k].at # "rest" \/ pending.handler # k \/ pending.answer # "none"
       \/ /\ pending.handler = k /\ pending.answer = "none" /\ call'[k].at = "rest"
          /\ \/ pending'.answer = "refused" /\ pending'.token = None
             \/ pending'.answer = "done" /\ pending'.token = None /\ call[k].at = "mail"
             \/ /\ pending'.answer = "done" /\ call[k].at = "consume"
                /\ pending'.token = [email |-> call[k].email, from |-> call[k].id]
                /\ \A o \in otps' : o.email # call[k].email

LEMMA CallIsHeard ==
    ASSUME Typed, FormTypeOK, NEW k \in Calls, CallServed(k),
           OtpServes(k) \/ (Otps!Fail(k) /\ Reply(k, "refused", None))
    PROVE  HeardCall(k) /\ FormTypeOK' /\ call[k].at # "rest"
<1>1. call[k].at # "rest"
  BY DEF CallServed, Otps!Step, Otps!Fail, Otps!CheckEmail, Otps!ClearOld, Otps!Store,
         Otps!MailCode, Otps!ReadNothing, Otps!ReadCode, Otps!Purge, Otps!Consume
<1>2. call[k].at = "consume" => [email |-> call[k].email, from |-> call[k].id] \in Token
  BY DEF Typed, CallsTyped, CallShaped, Token, Otps!Ids
<1>3. UNCHANGED <<page, edited, lost, asked, elsewhere, welcomed, removed>>
  BY DEF CallServed
<1>4. CASE Otps!Fail(k) /\ Reply(k, "refused", None)
  <2>1. call'[k].at = "rest"
    BY <1>4, CallEnds DEF Otps!Fail, Typed
  <2>2. FormTypeOK'
    BY <1>3, <1>4, ReplyMeans DEF FormTypeOK
  <2>3. /\ pending'.of = pending.of /\ pending'.email = pending.email
        /\ pending'.handler = pending.handler
        /\ IF pending.handler = k /\ pending.answer = "none"
           THEN pending'.answer = "refused" /\ pending'.token = None
           ELSE pending' = pending
    BY <1>4, ReplyMeans
  <2> QED
    BY <1>1, <2>1, <2>2, <2>3 DEF HeardCall
<1>5. CASE OtpServes(k)
  <2>1. CASE call'[k].at # "rest"
    <3>1. pending' = pending
      BY <1>5, <2>1 DEF OtpServes
    <3> QED
      BY <1>1, <1>3, <2>1, <3>1 DEF HeardCall, FormTypeOK
  <2>2. CASE call'[k].at = "rest" /\ call[k].at = "mail"
    <3>1. Reply(k, "done", None)
      BY <1>5, <2>2 DEF OtpServes
    <3> QED
      BY <1>1, <1>3, <2>2, <3>1, ReplyMeans DEF HeardCall, FormTypeOK
  <2>3. CASE call'[k].at = "rest" /\ call[k].at = "consume"
    <3>1. Reply(k, "done", [email |-> call[k].email, from |-> call[k].id])
      BY <1>5, <2>3 DEF OtpServes
    <3>2. Otps!Consume(k)
      BY <1>5, <2>3 DEF OtpServes, Otps!Step, Otps!CheckEmail, Otps!ClearOld, Otps!Store,
         Otps!MailCode, Otps!ReadNothing, Otps!ReadCode, Otps!Purge
    <3>3. \A o \in otps' : o.email # call[k].email
      BY <3>2 DEF Otps!Consume, Otps!Records
    <3> QED
      BY <1>1, <1>2, <1>3, <2>3, <3>1, <3>3, ReplyMeans DEF HeardCall, FormTypeOK
  <2>4. CASE call'[k].at = "rest" /\ call[k].at \notin {"mail", "consume"}
    <3>1. Reply(k, "refused", None)
      BY <1>5, <2>4 DEF OtpServes
    <3> QED
      BY <1>1, <1>3, <2>4, <3>1, ReplyMeans DEF HeardCall, FormTypeOK
  <2> QED
    BY <2>1, <2>2, <2>3, <2>4
<1> QED
  BY <1>4, <1>5

\* What the form hears from a registration handler.
HeardJob(j) ==
    /\ pending'.of = pending.of /\ pending'.email = pending.email
    /\ pending'.handler = pending.handler
    /\ \/ /\ pending' = pending
          /\ job'[j].at # "rest" \/ pending.handler # j \/ pending.answer # "none"
       \/ /\ pending.handler = j /\ pending.answer = "none" /\ job'[j].at = "rest"
          /\ pending'.token = None
          /\ \/ pending'.answer = "refused" /\ job[j].at # "mail"
             \/ pending'.answer = "done" /\ job[j].at = "mail"
             \/ /\ pending'.answer = "member" /\ job[j].at = "check"
                /\ \E coll \in Members!Collections :
                      job[j].hit \/ Members!Registered(job[j].email, coll)

LEMMA JobIsHeard ==
    ASSUME Typed, FormTypeOK, NEW j \in Jobs, JobServed(j),
           MembersServe(j) \/ (Members!Fail(j) /\ Reply(j, "refused", None))
    PROVE  HeardJob(j) /\ FormTypeOK' /\ job[j].at # "rest"
<1>1. job[j].at # "rest"
  BY DEF JobServed, Members!Step, Members!Fail, Members!CheckEmail, Members!ScanLane,
         Members!Seed, Members!Increment, Members!InsertStudent, Members!RefuseStudent,
         Members!ScanStaffGuest, Members!InsertStaffGuest, Members!RefuseStaffGuest,
         Members!MailAndAnswer
<1>2. UNCHANGED <<page, edited, lost, asked, elsewhere, welcomed, removed>>
  BY DEF JobServed
<1>3. CASE Members!Fail(j) /\ Reply(j, "refused", None)
  <2>1. job'[j].at = "rest" /\ job[j].at # "mail"
    BY <1>3, RestIsShaped DEF Members!Fail, Members!Finish, Typed, JobsTyped
  <2> QED
    BY <1>1, <1>2, <1>3, <2>1, ReplyMeans DEF HeardJob, FormTypeOK
<1>4. CASE MembersServe(j)
  <2>1. CASE job'[j].at # "rest"
    <3>1. pending' = pending
      BY <1>4, <2>1 DEF MembersServe
    <3> QED
      BY <1>1, <1>2, <2>1, <3>1 DEF HeardJob, FormTypeOK
  <2>2. CASE job'[j].at = "rest" /\ job[j].at = "mail"
    <3>1. Reply(j, "done", None)
      BY <1>4, <2>2 DEF MembersServe
    <3> QED
      BY <1>1, <1>2, <2>2, <3>1, ReplyMeans DEF HeardJob, FormTypeOK
  <2>3. CASE job'[j].at = "rest" /\ job[j].at = "check"
    <3>1. Reply(j, "member", None)
      BY <1>4, <2>3 DEF MembersServe
    <3>2. PICK coll \in Members!Collections : Members!CheckEmail(j, coll)
      BY <1>4, <2>3 DEF MembersServe, Members!Step, Members!ScanLane, Members!Seed,
         Members!Increment, Members!InsertStudent, Members!RefuseStudent,
         Members!ScanStaffGuest, Members!InsertStaffGuest, Members!RefuseStaffGuest,
         Members!MailAndAnswer
    <3>3. job[j].hit \/ Members!Registered(job[j].email, coll)
      BY <2>3, <3>2 DEF Members!CheckEmail, Members!Job, Typed, JobsTyped
    <3> QED
      BY <1>1, <1>2, <2>3, <3>1, <3>3, ReplyMeans DEF HeardJob, FormTypeOK
  <2>4. CASE job'[j].at = "rest" /\ job[j].at \notin {"mail", "check"}
    <3>1. Reply(j, "refused", None)
      BY <1>4, <2>4 DEF MembersServe
    <3> QED
      BY <1>1, <1>2, <2>4, <3>1, ReplyMeans DEF HeardJob, FormTypeOK
  <2> QED
    BY <2>1, <2>2, <2>3, <2>4
<1> QED
  BY <1>3, <1>4

-----------------------------------------------------------------------------
(* The form is a client of the service: every step of it is a step the     *)
(* service allows, or none of its business.                                *)

LEMMA FormStepIsServiceStep ==
    ASSUME Typed, FormTyped, [FormNext]_allVars
    PROVE  [Next]_vars
<1>1. CASE PersonActs
  BY <1>1 DEF PersonActs, TypeEmail, TurnPage, SubmitUnvouched, Reload, HearCode, HearVerdict,
              HearSubmitted, HearNotSubmitted, LoseAnswer
<1>2. ASSUME NEW k \in Calls, AskCode(k) \/ AskVerify(k) PROVE Next
  <2>1. page.email \in Emails
    BY <1>2, PendingFields DEF AskCode, AskVerify, FormTyped
  <2>2. Otps!Arrive(k) /\ UNCHANGED memberVars
    BY <1>2, <2>1 DEF AskCode, AskVerify, Otps!Arrive
  <2> QED
    BY <2>2 DEF Next, OtpStep
<1>3. ASSUME NEW j \in Jobs, Submit(j) PROVE Next
  <2>1. page.token \in tokens /\ TokenVouches(page.token, page.email) /\ UNCHANGED otpVars
    BY <1>3 DEF Submit, Vouched
  <2>2. page.email \in Emails
    BY <1>3 DEF Submit, FormTyped, PendingShaped
  <2>3. Enter(j, page.email)
    BY <1>3 DEF Submit, Enter, Members!Lanes
  <2>4. RegisterWithToken(j)
    BY <2>1, <2>2, <2>3 DEF RegisterWithToken
  <2> QED
    BY <2>4 DEF Next
<1>4. ASSUME NEW k \in Calls, CallServed(k) PROVE Next
  <2>1. OtpStep
    BY <1>4 DEF CallServed, OtpStep
  <2> QED
    BY <2>1 DEF Next
<1>5. ASSUME NEW j \in Jobs, JobServed(j) PROVE Next
  <2>1. MemberStep
    BY <1>5 DEF JobServed, MemberStep
  <2> QED
    BY <2>1 DEF Next
<1>6. CASE ServerCrashes
  BY <1>6 DEF ServerCrashes, Next
<1>7. CASE TimePasses
  BY <1>7 DEF TimePasses, Next, OtpStep
<1>8. CASE AdminDeletes
  BY <1>8 DEF AdminDeletes, Next, MemberStep
<1>9. CASE UNCHANGED allVars
  BY <1>9 DEF allVars
<1>10. CASE OthersAct
  <2>1. ASSUME NEW k \in Calls, OthersAsk(k) PROVE Next
    <3>1. Otps!Arrive(k) /\ UNCHANGED memberVars
      BY <2>1 DEF OthersAsk
    <3> QED
      BY <3>1 DEF Next, OtpStep
  <2>2. ASSUME NEW j \in Jobs, OthersRegister(j) PROVE Next
    BY <2>2 DEF OthersRegister, Next
  <2> QED
    BY <1>10, <2>1, <2>2 DEF OthersAct
<1> QED
  BY <1>1, <1>2, <1>3, <1>4, <1>5, <1>6, <1>7, <1>8, <1>9, <1>10, FormCases

\* What other clients do is start handlers of their own, for emails in
\* `elsewhere`; a code they had accepted by the registration ends its handler.
LEMMA OthersDo ==
    ASSUME Typed, FormTyped, OthersAct
    PROVE  /\ UNCHANGED <<page, pending, edited, lost, welcomed, removed>>
           /\ UNCHANGED <<registrations, staffGuests, otps>>
           /\ elsewhere \subseteq elsewhere' /\ elsewhere' \subseteq Emails
           /\ asked' \in 0 .. MaxOthers
           /\ \A k \in Calls : \/ call'[k] = call[k]
                               \/ call'[k] = Otps!Rest
                               \/ ~Awaited(k) /\ call'[k].email \in elsewhere'
           /\ \A j \in Jobs : \/ job'[j] = job[j]
                              \/ /\ ~Awaited(j) /\ job'[j].email \in elsewhere'
                                 /\ job'[j].at = "check" /\ ~job'[j].hit
<1>0. elsewhere \subseteq Emails /\ asked \in 0 .. MaxOthers
  BY DEF FormTyped, FormTypeOK
<1>1. ASSUME NEW k \in Calls, OthersAsk(k)
      PROVE  /\ UNCHANGED <<page, pending, edited, lost, welcomed, removed, memberVars, otps>>
             /\ elsewhere' = elsewhere \cup {call'[k].email} /\ call'[k].email \in Emails
             /\ asked' \in 0 .. MaxOthers
             /\ ~Awaited(k) /\ \A l \in Calls \ {k} : call'[l] = call[l]
  <2>1. Otps!Arrive(k)
    BY <1>1 DEF OthersAsk
  <2>2. /\ UNCHANGED otps /\ call'[k].email \in Emails
        /\ \A l \in Calls \ {k} : call'[l] = call[l]
    <3>1. ASSUME NEW e \in Emails, NEW checked \in BOOLEAN, Otps!BeginSend(k, e, checked)
          PROVE  /\ UNCHANGED otps /\ call'[k].email \in Emails
                 /\ \A l \in Calls \ {k} : call'[l] = call[l]
      <4>1. UNCHANGED otps
        BY <3>1 DEF Otps!BeginSend
      <4> QED
        BY <3>1, <4>1, SendTyped DEF Typed
    <3>2. ASSUME NEW e \in Emails, NEW code \in Codes, NEW kind \in {"verify", "raw"},
                 Otps!BeginVerify(k, e, code, kind)
          PROVE  /\ UNCHANGED otps /\ call'[k].email \in Emails
                 /\ \A l \in Calls \ {k} : call'[l] = call[l]
      BY <3>2, VerifyTyped DEF Typed
    <3> QED
      BY <2>1, <3>1, <3>2 DEF Otps!Arrive
  <2>3. asked' \in 0 .. MaxOthers
    BY <1>0, <1>1 DEF OthersAsk
  <2> QED
    BY <1>1, <2>2, <2>3 DEF OthersAsk
<1>2. ASSUME NEW j \in Jobs, OthersRegister(j)
      PROVE  /\ UNCHANGED <<formVars, registrations, staffGuests, otps>>
             /\ ~Awaited(j) /\ job'[j].email \in elsewhere
             /\ job'[j].at = "check" /\ ~job'[j].hit
             /\ \A i \in Jobs \ {j} : job'[i] = job[i]
             /\ \A k \in Calls : call'[k] = call[k] \/ call'[k] = Otps!Rest
  <2>1. UNCHANGED formVars /\ ~Awaited(j) /\ job'[j].email \in elsewhere
    BY <1>2 DEF OthersRegister
  <2>2. PICK e \in Emails : Enter(j, e)
    <3>1. CASE RegisterWithToken(j)
      BY <3>1 DEF RegisterWithToken
    <3>2. CASE RegisterWithCode(j)
      BY <3>2 DEF RegisterWithCode, Typed, CallsTyped, CallShaped
    <3> QED
      BY <1>2, <3>1, <3>2 DEF OthersRegister
  <2>3. /\ job'[j].at = "check" /\ \A i \in Jobs \ {j} : job'[i] = job[i]
        /\ UNCHANGED <<registrations, staffGuests>>
    BY <2>2, BeginTyped DEF Typed
  <2>4. ~job'[j].hit
    BY <2>2 DEF Enter, Members!BeginStudent, Members!BeginStaffGuest, Members!Begin, Typed, JobsTyped
  <2>5. UNCHANGED otps /\ \A k \in Calls : call'[k] = call[k] \/ call'[k] = Otps!Rest
    <3>1. CASE RegisterWithToken(j)
      BY <3>1 DEF RegisterWithToken, otpVars
    <3>2. CASE RegisterWithCode(j)
      <4>1. PICK k \in Calls : Otps!Return(k)
        BY <3>2 DEF RegisterWithCode
      <4> QED
        BY <4>1 DEF Otps!Return, Otps!Finish, Typed, CallsTyped
    <3> QED
      BY <1>2, <3>1, <3>2 DEF OthersRegister
  <2> QED
    BY <2>1, <2>3, <2>4, <2>5
<1>3. CASE \E k \in Calls : OthersAsk(k)
  BY <1>0, <1>1, <1>3 DEF memberVars
<1>4. CASE \E j \in Jobs : OthersRegister(j)
  BY <1>0, <1>2, <1>4 DEF formVars
<1> QED
  BY <1>3, <1>4 DEF OthersAct

Pages == [step : 1 .. 3, email : Emails \cup {None}, verified : BOOLEAN,
          shown : BOOLEAN, token : Token \cup {None}]

Requests == [of : {"none", "send", "verify", "submit"}, email : Emails \cup {None},
             handler : Calls \cup Jobs \cup {None}, token : Token \cup {None},
             answer : {"none", "done", "member", "refused"}]

LEMMA FormTypeParts ==
    FormTypeOK <=> /\ page \in Pages /\ pending \in Requests
                   /\ edited \in BOOLEAN /\ lost \in BOOLEAN /\ asked \in 0 .. MaxOthers
                   /\ elsewhere \subseteq Emails /\ welcomed \subseteq Emails
                   /\ removed \subseteq Emails
  BY DEF FormTypeOK, Pages, Requests

LEMMA BlankAndIdle ==
    /\ Blank \in Pages
    /\ Idle \in Requests
    /\ \A of \in {"send", "verify", "submit"}, h \in Calls \cup Jobs, e \in Emails :
          [Idle EXCEPT !.of = of, !.email = e, !.handler = h] \in Requests
    /\ \A e \in Emails :
          [Idle EXCEPT !.of = "submit", !.email = e, !.answer = "refused"] \in Requests
<1>1. Blank \in Pages
  BY DEF Blank, Pages
<1>2. Idle \in Requests
  BY DEF Idle, Requests
<1>3. ASSUME NEW of \in {"send", "verify", "submit"}, NEW h \in Calls \cup Jobs, NEW e \in Emails
      PROVE  [Idle EXCEPT !.of = of, !.email = e, !.handler = h] \in Requests
  BY <1>2 DEF Requests
<1>4. ASSUME NEW e \in Emails
      PROVE  [Idle EXCEPT !.of = "submit", !.email = e, !.answer = "refused"] \in Requests
  BY <1>2 DEF Requests
<1> QED
  BY <1>1, <1>2, <1>3, <1>4

LEMMA FormTypeKept ==
    ASSUME Typed, FormTyped, [FormNext]_allVars
    PROVE  FormTypeOK'
<1>0. /\ page \in Pages /\ pending \in Requests /\ edited \in BOOLEAN /\ lost \in BOOLEAN
      /\ asked \in 0 .. MaxOthers /\ elsewhere \subseteq Emails
      /\ welcomed \subseteq Emails /\ removed \subseteq Emails
  BY FormTypeParts DEF FormTyped
<1>10. /\ page' \in Pages /\ pending' \in Requests /\ edited' \in BOOLEAN /\ lost' \in BOOLEAN
       /\ asked' \in 0 .. MaxOthers /\ elsewhere' \subseteq Emails
       /\ welcomed' \subseteq Emails /\ removed' \subseteq Emails
       => FormTypeOK'
  BY DEF FormTypeOK, Pages, Requests
<1>1. CASE PersonActs
  <2>1. CASE \E e \in Emails : TypeEmail(e)
    <3>1. page' \in Pages
      BY <1>0, <2>1 DEF TypeEmail, Pages
    <3> QED
      BY <1>0, <1>10, <2>1, <3>1 DEF TypeEmail
  <2>2. CASE TurnPage
    <3>1. page' \in Pages
      BY <1>0, <2>2 DEF TurnPage, Pages
    <3> QED
      BY <1>0, <1>10, <2>2, <3>1 DEF TurnPage
  <2>3. CASE SubmitUnvouched
    <3>1. page.email \in Emails
      BY <2>3 DEF SubmitUnvouched, FormTyped, PendingShaped
    <3> QED
      BY <1>0, <1>10, <2>3, <3>1, BlankAndIdle DEF SubmitUnvouched
  <2>4. CASE Reload
    BY <1>0, <1>10, <2>4, BlankAndIdle DEF Reload
  <2>5. CASE HearCode \/ HearVerdict
    <3>1. page' \in Pages
      <4>1. CASE HearCode
        <5>1. page' = [page EXCEPT !.shown = (pending.answer = "done")]
          BY <4>1 DEF HearCode
        <5> QED
          BY <1>0, <5>1 DEF Pages
      <4>2. CASE HearVerdict
        <5>1. pending.token \in Token \cup {None}
          BY PendingFields DEF FormTyped
        <5>2. \/ page' = page
              \/ page' = [page EXCEPT !.verified = TRUE, !.shown = FALSE, !.token = pending.token]
          BY <4>2 DEF HearVerdict
        <5> QED
          BY <1>0, <5>1, <5>2 DEF Pages
      <4> QED
        BY <2>5, <4>1, <4>2
    <3> QED
      BY <1>0, <1>10, <2>5, <3>1, BlankAndIdle DEF HearCode, HearVerdict
  <2>6. CASE HearSubmitted \/ HearNotSubmitted
    <3>1. pending.email \in Emails
      BY <2>6 DEF HearSubmitted, HearNotSubmitted, FormTyped, PendingShaped
    <3>2. page' \in Pages /\ pending' \in Requests /\ welcomed' \subseteq Emails
      BY <1>0, <2>6, <3>1, BlankAndIdle DEF HearSubmitted, HearNotSubmitted
    <3> QED
      BY <1>0, <1>10, <2>6, <3>2 DEF HearSubmitted, HearNotSubmitted
  <2>7. CASE LoseAnswer
    BY <1>0, <1>10, <2>7, BlankAndIdle DEF LoseAnswer
  <2> QED
    BY <1>1, <2>1, <2>2, <2>3, <2>4, <2>5, <2>6, <2>7 DEF PersonActs
<1>2. ASSUME NEW k \in Calls, AskCode(k) \/ AskVerify(k) PROVE FormTypeOK'
  <2>1. page.email \in Emails
    <3>1. page.email # None
      BY <1>2 DEF AskCode, AskVerify
    <3> QED
      BY <3>1, PendingFields DEF FormTyped
  <2>2. PICK of \in {"send", "verify"} : Wait(of, k)
    BY <1>2 DEF AskCode, AskVerify
  <2>3. pending' \in Requests
    BY <2>1, <2>2, BlankAndIdle DEF Wait
  <2> QED
    BY <1>0, <1>10, <1>2, <2>3 DEF AskCode, AskVerify
<1>3. ASSUME NEW j \in Jobs, Submit(j) PROVE FormTypeOK'
  <2>1. page.email \in Emails
    BY <1>3 DEF Submit, FormTyped, PendingShaped
  <2>2. pending' \in Requests
    BY <1>3, <2>1, BlankAndIdle DEF Submit, Wait
  <2> QED
    BY <1>0, <1>10, <1>3, <2>2 DEF Submit
<1>4. ASSUME NEW k \in Calls, CallServed(k),
             OtpServes(k) \/ (Otps!Fail(k) /\ Reply(k, "refused", None))
      PROVE  FormTypeOK'
  BY <1>4, CallIsHeard DEF FormTyped
<1>5. ASSUME NEW j \in Jobs, JobServed(j),
             MembersServe(j) \/ (Members!Fail(j) /\ Reply(j, "refused", None))
      PROVE  FormTypeOK'
  BY <1>5, JobIsHeard DEF FormTyped
<1>6. CASE ServerCrashes \/ TimePasses \/ UNCHANGED allVars
  BY <1>0, <1>10, <1>6 DEF ServerCrashes, TimePasses, allVars, formVars
<1>7. CASE AdminDeletes
  <2>1. OnRecord \subseteq Emails
    BY DEF OnRecord, Enrolled, Typed, RecordsTyped, Members!Student, Members!StaffGuest
  <2> QED
    BY <1>0, <1>10, <1>7, <2>1 DEF AdminDeletes
<1>8. CASE OthersAct
  BY <1>0, <1>8, <1>10, OthersDo
<1> QED
  BY <1>1, <1>2, <1>3, <1>4, <1>5, <1>6, <1>7, <1>8, FormCases

LEMMA PendingShapedKept ==
    ASSUME Typed, FormTyped, ServedInv, OwnerInv, [FormNext]_allVars
    PROVE  PendingShaped'
<1> USE DEF FormTyped
<1>0. FormTypeOK'
  BY FormTypeKept
<1>1. CASE PersonActs
  <2>1. CASE (\E e \in Emails : TypeEmail(e)) \/ TurnPage
    BY <2>1, PendingFields DEF TypeEmail, TurnPage, PendingShaped, FormTypeOK
  <2>2. CASE SubmitUnvouched
    BY <2>2 DEF SubmitUnvouched, Idle, PendingShaped
  <2>3. CASE Reload
    BY <2>3 DEF Reload, Idle, Blank, PendingShaped
  <2>4. CASE HearCode
    BY <2>4, PendingFields DEF HearCode, Idle, PendingShaped, FormTypeOK
  <2>5. CASE HearVerdict
    <3>1. pending.answer = "done" => pending.token # None
      BY <2>5 DEF HearVerdict, OwnerInv
    <3> QED
      BY <2>5, <3>1, PendingFields DEF HearVerdict, Idle, PendingShaped, FormTypeOK
  <2>6. CASE HearSubmitted \/ HearNotSubmitted \/ LoseAnswer
    BY <2>6 DEF HearSubmitted, HearNotSubmitted, LoseAnswer, Idle, Blank, PendingShaped
  <2> QED
    BY <1>1, <2>1, <2>2, <2>3, <2>4, <2>5, <2>6 DEF PersonActs
<1>2. ASSUME NEW k \in Calls, AskCode(k) \/ AskVerify(k) PROVE PendingShaped'
  BY <1>2, PendingFields DEF AskCode, AskVerify, Wait, Idle, PendingShaped
<1>3. ASSUME NEW j \in Jobs, Submit(j) PROVE PendingShaped'
  BY <1>3 DEF Submit, Wait, Idle, PendingShaped
<1>4. ASSUME NEW k \in Calls, CallServed(k),
             OtpServes(k) \/ (Otps!Fail(k) /\ Reply(k, "refused", None))
      PROVE  PendingShaped'
  <2>1. HeardCall(k) /\ page' = page
    BY <1>4, CallIsHeard DEF CallServed
  <2>2. CASE pending' = pending
    BY <2>1, <2>2 DEF PendingShaped
  <2>3. CASE pending' # pending
    <3>1. /\ pending.handler = k /\ pending.answer = "none" /\ pending'.answer \in {"done", "refused"}
          /\ pending'.token = None \/ pending'.answer = "done"
      BY <2>1, <2>3 DEF HeardCall
    <3>2. pending.of \in {"send", "verify"}
      <4>1. k \notin Jobs /\ k # None
        OBVIOUS
      <4>2. pending.of # "none"
        BY <3>1, <4>1 DEF PendingShaped, Idle
      <4>3. pending.of # "submit"
        BY <3>1, <4>1 DEF PendingShaped
      <4> QED
        BY <4>2, <4>3, PendingFields
    <3>3. pending.of = "send" => call[k].at # "consume"
      BY <3>1, CallIsHeard, <1>4 DEF ServedInv, Awaited, Typed, CallsTyped, CallShaped
    <3>4. pending'.of # "verify" \/ pending'.answer # "done" => pending'.token = None
      BY <2>1, <2>3, <3>1, <3>2, <3>3 DEF HeardCall
    <3> QED
      BY <2>1, <3>1, <3>2, <3>4 DEF HeardCall, PendingShaped
  <2> QED
    BY <2>2, <2>3
<1>5. ASSUME NEW j \in Jobs, JobServed(j),
             MembersServe(j) \/ (Members!Fail(j) /\ Reply(j, "refused", None))
      PROVE  PendingShaped'
  <2>1. HeardJob(j) /\ page' = page
    BY <1>5, JobIsHeard DEF JobServed
  <2>2. CASE pending' = pending
    BY <2>1, <2>2 DEF PendingShaped
  <2>3. CASE pending' # pending
    BY <2>1, <2>3, PendingFields DEF HeardJob, PendingShaped, Idle
  <2> QED
    BY <2>2, <2>3
<1>6. CASE ServerCrashes \/ TimePasses \/ AdminDeletes \/ UNCHANGED allVars
  BY <1>6 DEF ServerCrashes, TimePasses, AdminDeletes, allVars, formVars, PendingShaped
<1>7. CASE OthersAct
  BY <1>7, OthersDo DEF PendingShaped
<1> QED
  BY <1>1, <1>2, <1>3, <1>4, <1>5, <1>6, <1>7, FormCases

-----------------------------------------------------------------------------
(* The handler the form waits for serves the request it waits with.        *)

LEMMA ServedInductive ==
    ASSUME Typed, FormTyped, ServedInv, [FormNext]_allVars
    PROVE  ServedInv'
<1>1. CASE PersonActs
  <2>1. UNCHANGED <<call, job>>
    BY <1>1 DEF PersonActs, TypeEmail, TurnPage, SubmitUnvouched, Reload, HearCode, HearVerdict,
                HearSubmitted, HearNotSubmitted, LoseAnswer, vars, memberVars, otpVars
  <2>2. pending' = pending \/ pending'.handler = None
    <3>1. Idle.handler = None /\ \A e : [Idle EXCEPT !.of = "submit", !.email = e,
                                                    !.answer = "refused"].handler = None
      BY DEF Idle
    <3>2. CASE SubmitUnvouched
      BY <3>1, <3>2 DEF SubmitUnvouched
    <3>3. CASE ~SubmitUnvouched
      <4>1. pending' \in {pending, Idle}
        BY <1>1, <3>3 DEF PersonActs, TypeEmail, TurnPage, Reload, HearCode, HearVerdict,
                          HearSubmitted, HearNotSubmitted, LoseAnswer
      <4> QED
        BY <3>1, <4>1
    <3> QED
      BY <3>2, <3>3
  <2>3. CASE pending' = pending
    BY <2>1, <2>3 DEF ServedInv, Awaited
  <2>4. CASE pending'.handler = None
    BY <2>4 DEF ServedInv, Awaited
  <2> QED
    BY <2>2, <2>3, <2>4
<1>2. ASSUME NEW k \in Calls, AskCode(k) \/ AskVerify(k) PROVE ServedInv'
  <2>1. page.email \in Emails
    <3>1. page.email # None
      BY <1>2 DEF AskCode, AskVerify
    <3> QED
      BY <3>1, PendingFields DEF FormTyped
  <2>2. /\ call'[k].email = page.email /\ UNCHANGED job
        /\ \/ call'[k].kind = "send" /\ pending' = [Idle EXCEPT !.of = "send",
                                                       !.email = page.email, !.handler = k]
           \/ call'[k].kind = "verify" /\ pending' = [Idle EXCEPT !.of = "verify",
                                                       !.email = page.email, !.handler = k]
    <3>1. CASE AskCode(k)
      BY <2>1, <3>1, SendTyped DEF AskCode, Wait, memberVars, Typed
    <3>2. CASE AskVerify(k)
      <4>1. PICK code \in Codes : Otps!BeginVerify(k, page.email, code, "verify")
        BY <3>2 DEF AskVerify
      <4> QED
        BY <2>1, <3>2, <4>1, VerifyTyped DEF AskVerify, Wait, memberVars, Typed
    <3> QED
      BY <1>2, <3>1, <3>2
  <2>3. /\ pending'.handler = k /\ pending'.answer = "none" /\ pending'.email = page.email
        /\ pending'.of = call'[k].kind
    BY <2>2 DEF Idle
  <2>4. k \notin Jobs /\ k # None
    OBVIOUS
  <2> QED
    BY <2>2, <2>3, <2>4 DEF ServedInv, Awaited
<1>3. ASSUME NEW j \in Jobs, Submit(j) PROVE ServedInv'
  <2>1. page.email \in Emails
    BY <1>3 DEF Submit, FormTyped, PendingShaped
  <2>2. Enter(j, page.email)
    BY <1>3 DEF Submit, Enter, Members!Lanes
  <2>3. job'[j].email = page.email /\ UNCHANGED call
    BY <1>3, <2>1, <2>2, BeginTyped DEF Submit, otpVars, Typed
  <2>4. pending'.handler = j /\ pending'.answer = "none" /\ pending'.email = page.email
    BY <1>3 DEF Submit, Wait, Idle
  <2>5. j \notin Calls /\ j # None
    OBVIOUS
  <2> QED
    BY <2>3, <2>4, <2>5 DEF ServedInv, Awaited
<1>4. ASSUME NEW k \in Calls, CallServed(k),
             OtpServes(k) \/ (Otps!Fail(k) /\ Reply(k, "refused", None))
      PROVE  ServedInv'
  <2>1. HeardCall(k) /\ call[k].at # "rest"
    BY <1>4, CallIsHeard DEF FormTyped
  <2>2. /\ \A l \in Calls \ {k} : call'[l] = call[l]
        /\ \/ call'[k].at = "rest"
           \/ call'[k].email = call[k].email /\ call'[k].kind = call[k].kind
        /\ UNCHANGED job
    BY <1>4, CallGoesOn, CallOnwardTyped, RestCallIsShaped DEF CallServed, Typed, memberVars
  <2>3. k \notin Jobs /\ k # None
    OBVIOUS
  <2>4. CASE pending' = pending
    BY <2>1, <2>2, <2>4 DEF ServedInv, Awaited
  <2>5. CASE pending' # pending
    <3>1. pending'.handler = k /\ pending'.answer # "none" /\ call'[k].at = "rest"
      BY <2>1, <2>5 DEF HeardCall
    <3> QED
      BY <2>3, <3>1 DEF ServedInv, Awaited
  <2> QED
    BY <2>4, <2>5
<1>5. ASSUME NEW j \in Jobs, JobServed(j),
             MembersServe(j) \/ (Members!Fail(j) /\ Reply(j, "refused", None))
      PROVE  ServedInv'
  <2>1. HeardJob(j) /\ job[j].at # "rest"
    BY <1>5, JobIsHeard DEF FormTyped
  <2>2. /\ \A k \in Jobs \ {j} : job'[k] = job[k]
        /\ job'[j].at = "rest" \/ job'[j].email = job[j].email
        /\ UNCHANGED call
    BY <1>5, JobGoesOn, OnwardTyped DEF JobServed, Typed, otpVars
  <2>3. j \notin Calls /\ j # None
    OBVIOUS
  <2>4. CASE pending' = pending
    BY <2>1, <2>2, <2>4 DEF ServedInv, Awaited
  <2>5. CASE pending' # pending
    <3>1. pending'.handler = j /\ pending'.answer # "none" /\ job'[j].at = "rest"
      BY <2>1, <2>5 DEF HeardJob
    <3> QED
      BY <2>3, <3>1 DEF ServedInv, Awaited
  <2> QED
    BY <2>4, <2>5
<1>6. CASE ServerCrashes
  <2>1. /\ \A k \in Calls : call'[k].at = "rest"
        /\ \A j \in Jobs : job'[j].at = "rest"
        /\ UNCHANGED pending
    BY <1>6, RestIsShaped, RestCallIsShaped
       DEF ServerCrashes, Crash, Members!Crash, Otps!Crash, formVars
  <2> QED
    BY <2>1 DEF ServedInv, Awaited
<1>7. CASE TimePasses \/ AdminDeletes \/ UNCHANGED allVars
  <2>1. UNCHANGED <<call, job, pending>>
    BY <1>7, ClockTyped DEF TimePasses, AdminDeletes, Members!DeleteStudent,
       Members!DeleteStaffGuest, allVars, vars, memberVars, otpVars, formVars, Typed
  <2> QED
    BY <2>1 DEF ServedInv, Awaited
<1>8. CASE OthersAct
  <2>1. UNCHANGED pending /\ \A h : Awaited(h)' <=> Awaited(h)
    BY <1>8, OthersDo DEF Awaited
  <2>2. \A k \in Calls : Awaited(k) => call'[k] = call[k] \/ call'[k].at = "rest"
    BY <1>8, OthersDo, RestCallIsShaped
  <2>3. \A j \in Jobs : Awaited(j) => job'[j] = job[j]
    BY <1>8, OthersDo
  <2> QED
    BY <2>1, <2>2, <2>3 DEF ServedInv
<1> QED
  BY <1>1, <1>2, <1>3, <1>4, <1>5, <1>6, <1>7, <1>8, FormCases

-----------------------------------------------------------------------------
(* The form's token and the email it shows.                                *)

LEMMA OwnerInductive ==
    ASSUME Typed, FormTyped, ServedInv, OwnerInv, [FormNext]_allVars
    PROVE  OwnerInv'
<1>1. CASE PersonActs
  <2>1. CASE \E e \in Emails : TypeEmail(e)
    <3>1. PICK e \in Emails : TypeEmail(e)
      BY <2>1
    <3>2. ~page.verified /\ pending.of # "submit"
      BY <3>1 DEF TypeEmail, EmailOpen, OwnerInv
    <3>3. page'.verified = page.verified /\ page'.token = page.token
      BY <3>1, FormTypeParts DEF TypeEmail, Pages, FormTyped
    <3>4. edited' = (edited \/ pending.of = "verify") /\ pending' = pending
      BY <3>1 DEF TypeEmail
    <3> QED
      BY <3>2, <3>3, <3>4 DEF OwnerInv, VerifiedOwnsToken
  <2>2. CASE TurnPage
    <3>1. /\ page'.verified = page.verified /\ page'.token = page.token
          /\ page'.email = page.email
      BY <2>2, FormTypeParts DEF TurnPage, Pages, FormTyped
    <3> QED
      BY <2>2, <3>1 DEF TurnPage, OwnerInv, VerifiedOwnsToken
  <2>3. CASE SubmitUnvouched
    <3>1. /\ pending'.of = "submit" /\ pending'.email = page.email /\ pending'.handler = None
          /\ page.verified /\ UNCHANGED <<page, edited>>
      BY <2>3 DEF SubmitUnvouched, Idle
    <3> QED
      BY <3>1 DEF OwnerInv, VerifiedOwnsToken
  <2>4. CASE Reload \/ HearSubmitted
    BY <2>4 DEF Reload, HearSubmitted, Blank, Idle, OwnerInv, VerifiedOwnsToken
  <2>5. CASE HearCode
    <3>1. /\ page'.verified = page.verified /\ page'.token = page.token
          /\ page'.email = page.email
      BY <2>5, FormTypeParts DEF HearCode, Pages, FormTyped
    <3> QED
      BY <2>5, <3>1 DEF HearCode, Idle, OwnerInv, VerifiedOwnsToken
  <2>6. CASE HearVerdict
    <3>1. pending'.of = "none" /\ UNCHANGED edited
      BY <2>6 DEF HearVerdict, Idle
    <3>2. CASE pending.answer = "done"
      <4>1. page' = [page EXCEPT !.verified = TRUE, !.shown = FALSE, !.token = pending.token]
        BY <2>6, <3>2 DEF HearVerdict
      <4>2. page'.token = pending.token /\ page'.email = page.email
        BY <4>1, FormTypeParts DEF Pages, FormTyped
      <4>3. /\ pending.token # None /\ pending.token.email = pending.email
            /\ edited \/ pending.email = page.email
        BY <2>6, <3>2 DEF HearVerdict, OwnerInv
      <4> QED
        BY <3>1, <4>2, <4>3 DEF OwnerInv, VerifiedOwnsToken
    <3>3. CASE pending.answer # "done"
      BY <2>6, <3>1, <3>3 DEF HearVerdict, OwnerInv, VerifiedOwnsToken
    <3> QED
      BY <3>2, <3>3
  <2>7. CASE HearNotSubmitted \/ LoseAnswer
    <3>1. pending'.of = "none" /\ UNCHANGED <<page, edited>>
      BY <2>7 DEF HearNotSubmitted, LoseAnswer, Idle
    <3> QED
      BY <3>1 DEF OwnerInv, VerifiedOwnsToken
  <2> QED
    BY <1>1, <2>1, <2>2, <2>3, <2>4, <2>5, <2>6, <2>7 DEF PersonActs
<1>2. ASSUME NEW k \in Calls, AskCode(k) \/ AskVerify(k) PROVE OwnerInv'
  <2>1. ~page.verified /\ page' = page
    BY <1>2 DEF AskCode, AskVerify, CodeButton, CodeField
  <2>2. pending'.of \in {"send", "verify"} /\ pending'.answer = "none" /\ pending'.email = page.email
    BY <1>2 DEF AskCode, AskVerify, Wait, Idle
  <2> QED
    BY <2>1, <2>2 DEF OwnerInv, VerifiedOwnsToken
<1>3. ASSUME NEW j \in Jobs, Submit(j) PROVE OwnerInv'
  <2>1. /\ page.verified /\ page.token \in tokens /\ page.token.email = page.email
        /\ UNCHANGED <<page, edited>>
    BY <1>3 DEF Submit, Vouched, TokenVouches
  <2>2. pending'.of = "submit" /\ pending'.handler = j /\ pending'.email = page.email
    BY <1>3 DEF Submit, Wait, Idle
  <2>3. j # None
    OBVIOUS
  <2> QED
    BY <2>1, <2>2, <2>3 DEF OwnerInv, VerifiedOwnsToken
<1>4. ASSUME NEW k \in Calls, CallServed(k),
             OtpServes(k) \/ (Otps!Fail(k) /\ Reply(k, "refused", None))
      PROVE  OwnerInv'
  <2>1. HeardCall(k) /\ UNCHANGED <<page, edited>> /\ call[k].at # "rest"
    BY <1>4, CallIsHeard DEF FormTyped, CallServed
  <2>2. CASE pending' = pending
    BY <2>1, <2>2 DEF OwnerInv, VerifiedOwnsToken
  <2>3. CASE pending' # pending
    <3>1. /\ pending.handler = k /\ pending.answer = "none"
          /\ \/ pending'.answer = "refused"
             \/ pending'.answer = "done" /\ call[k].at = "mail"
             \/ /\ pending'.answer = "done" /\ call[k].at = "consume"
                /\ pending'.token = [email |-> call[k].email, from |-> call[k].id]
      BY <2>1, <2>3 DEF HeardCall
    <3>2. call[k].kind = pending.of /\ call[k].email = pending.email
      BY <2>1, <3>1 DEF ServedInv, Awaited
    <3>3. call[k].at = "mail" => pending.of = "send"
      BY <3>2 DEF Typed, CallsTyped, CallShaped
    <3>4. [email |-> call[k].email, from |-> call[k].id].email = pending.email
      BY <3>2
    <3>5. call[k].at = "consume" => [email |-> call[k].email, from |-> call[k].id] # None
      BY TokensAreTokens DEF Typed, CallsTyped, CallShaped, Token, Otps!Ids
    <3>6. pending'.of = pending.of /\ pending'.email = pending.email /\ pending'.handler = pending.handler
      BY <2>1 DEF HeardCall
    <3>7. pending.of = "verify" /\ pending'.answer = "done" =>
             pending'.token # None /\ pending'.token.email = pending.email
      BY <3>1, <3>3, <3>4, <3>5
    <3> QED
      BY <2>1, <3>6, <3>7 DEF OwnerInv, VerifiedOwnsToken
  <2> QED
    BY <2>2, <2>3
<1>5. ASSUME NEW j \in Jobs, JobServed(j),
             MembersServe(j) \/ (Members!Fail(j) /\ Reply(j, "refused", None))
      PROVE  OwnerInv'
  <2>1. HeardJob(j) /\ UNCHANGED <<page, edited>>
    BY <1>5, JobIsHeard DEF FormTyped, JobServed
  <2>2. CASE pending' = pending
    BY <2>1, <2>2 DEF OwnerInv, VerifiedOwnsToken
  <2>3. CASE pending' # pending
    <3>1. pending.handler = j
      BY <2>1, <2>3 DEF HeardJob
    <3>2. pending.of # "verify"
      BY <3>1 DEF FormTyped, PendingShaped
    <3>3. pending'.of = pending.of /\ pending'.email = pending.email /\ pending'.handler = pending.handler
      BY <2>1 DEF HeardJob
    <3> QED
      BY <2>1, <3>2, <3>3 DEF OwnerInv, VerifiedOwnsToken
  <2> QED
    BY <2>2, <2>3
<1>6. CASE ServerCrashes \/ TimePasses \/ AdminDeletes \/ UNCHANGED allVars
  <2>1. UNCHANGED <<page, pending, edited>>
    BY <1>6 DEF ServerCrashes, TimePasses, AdminDeletes, allVars, formVars
  <2> QED
    BY <2>1 DEF OwnerInv, VerifiedOwnsToken
<1>7. CASE OthersAct
  BY <1>7, OthersDo DEF OwnerInv, VerifiedOwnsToken
<1> QED
  BY <1>1, <1>2, <1>3, <1>4, <1>5, <1>6, <1>7, FormCases

-----------------------------------------------------------------------------
(* Who is on record.                                                       *)

LEMMA FirstsOfPairs ==
    ASSUME NEW A, NEW B
    PROVE  {x[1] : x \in {<<d.email, "registrations">> : d \in A}
                            \cup {<<g.email, "staffGuests">> : g \in B}}
             = {d.email : d \in A} \cup {g.email : g \in B}
<1> DEFINE E == {<<d.email, "registrations">> : d \in A}
                   \cup {<<g.email, "staffGuests">> : g \in B}
           F == {x[1] : x \in E}
           G == {d.email : d \in A} \cup {g.email : g \in B}
<1>1. ASSUME NEW x \in E PROVE x[1] \in G
  <2>1. CASE \E d \in A : x = <<d.email, "registrations">>
    BY <2>1
  <2>2. CASE \E g \in B : x = <<g.email, "staffGuests">>
    BY <2>2
  <2> QED
    BY <2>1, <2>2
<1>2. ASSUME NEW d \in A PROVE d.email \in F
  <2>1. <<d.email, "registrations">> \in E /\ <<d.email, "registrations">>[1] = d.email
    OBVIOUS
  <2> HIDE DEF E
  <2> QED
    BY <2>1
<1>3. ASSUME NEW g \in B PROVE g.email \in F
  <2>1. <<g.email, "staffGuests">> \in E /\ <<g.email, "staffGuests">>[1] = g.email
    OBVIOUS
  <2> HIDE DEF E
  <2> QED
    BY <2>1
<1>4. F \subseteq G
  <2> HIDE DEF E
  <2> QED
    BY <1>1
<1>5. G \subseteq F
  <2> HIDE DEF F
  <2> QED
    BY <1>2, <1>3
<1> QED
  BY <1>4, <1>5

LEMMA RecordAsSet ==
    /\ OnRecord = {d.email : d \in registrations} \cup {g.email : g \in staffGuests}
    /\ OnRecord' = {d.email : d \in registrations'} \cup {g.email : g \in staffGuests'}
  BY FirstsOfPairs DEF OnRecord, Enrolled

LEMMA WhoIsOnRecord ==
    ASSUME NEW e
    PROVE  /\ e \in OnRecord <=> \/ \E d \in registrations : d.email = e
                                \/ \E g \in staffGuests : g.email = e
           /\ e \in OnRecord <=> \E coll \in Otps!Collections : <<e, coll>> \in Enrolled
<1>1. e \in OnRecord <=> \/ \E d \in registrations : d.email = e
                         \/ \E g \in staffGuests : g.email = e
  BY RecordAsSet
<1>2. \A x : x \in Enrolled <=> \/ \E d \in registrations : x = <<d.email, "registrations">>
                                \/ \E g \in staffGuests : x = <<g.email, "staffGuests">>
  BY DEF Enrolled
<1>3. e \in OnRecord => \E coll \in Otps!Collections : <<e, coll>> \in Enrolled
  BY <1>1, <1>2 DEF Otps!Collections
<1>4. ASSUME NEW coll, <<e, coll>> \in Enrolled PROVE e \in OnRecord
  BY <1>1, <1>2, <1>4
<1> QED
  BY <1>1, <1>3, <1>4

\* What a registration handler does to the record, and finds there.
PersonServed(j) ==
    /\ \/ OnRecord' = OnRecord /\ job'[j].at # "mail"
       \/ /\ job[j].at = "insert" /\ job'[j].at = "mail"
          /\ OnRecord' = OnRecord \cup {job[j].email}
    /\ job'[j].hit => job[j].hit \/ job[j].email \in OnRecord

LEMMA FoundIsOnRecord ==
    ASSUME NEW e, NEW coll \in Members!Collections, Members!Registered(e, coll)
    PROVE  e \in OnRecord
  BY WhoIsOnRecord DEF Members!Collections, Members!Registered

LEMMA PersonIsServed ==
    ASSUME Typed, NEW j \in Jobs, Members!Step(j) \/ Members!Fail(j)
    PROVE  PersonServed(j)
<1>1. job[j] \in Members!Job /\ JobShaped(job[j]) /\ JobsTyped
  BY DEF Typed, JobsTyped
<1>2. ASSUME NEW coll \in Members!Collections, Members!CheckEmail(j, coll)
      PROVE  PersonServed(j)
  <2> DEFINE hit == job[j].hit \/ Members!Registered(job[j].email, coll)
             left == job[j].todo \ {coll}
             going == [job[j] EXCEPT !.todo = left, !.hit = hit]
             found == [job[j] EXCEPT !.at = "scan",
                                     !.todo = IF Members!IsStudent(j) THEN Members!Lanes ELSE {}]
  <2>1. job[j].at = "check" /\ UNCHANGED <<registrations, staffGuests>>
    BY <1>2 DEF Members!CheckEmail
  <2>2. going.at = "check" /\ going.hit = hit /\ found.at = "scan" /\ found.hit = job[j].hit
    <3> HIDE DEF hit, left
    <3> QED BY <1>1, <2>1 DEF Members!Job
  <2>3. Members!Rest.hit = FALSE /\ Members!Rest.at = "rest"
    BY DEF Members!Rest
  <2>4. job'[j] = IF left # {} THEN going ELSE IF hit THEN Members!Rest ELSE found
    BY <1>1, <1>2 DEF Members!CheckEmail, JobsTyped
  <2>5. hit => job[j].hit \/ job[j].email \in OnRecord
    BY FoundIsOnRecord
  <2> HIDE DEF going, found, hit, left
  <2>6. job'[j] \in {going, Members!Rest, found}
    BY <2>4
  <2>7. job'[j].at # "mail" /\ (job'[j].hit => job[j].hit \/ job[j].email \in OnRecord)
    BY <2>2, <2>3, <2>5, <2>6
  <2> QED
    BY <2>1, <2>7 DEF PersonServed, OnRecord, Enrolled
<1>3. ASSUME NEW lane \in Members!Lanes, Members!ScanLane(j, lane)
      PROVE  PersonServed(j)
  <2>1. PICK n : job' = [job EXCEPT ![j] = Members!Scanned(job[j], lane, n)]
    BY <1>3 DEF Members!ScanLane
  <2>2. /\ Members!Scanned(job[j], lane, n).hit = job[j].hit
        /\ Members!Scanned(job[j], lane, n).at # "mail"
    BY <1>1 DEF Members!Scanned, Members!Job
  <2> QED
    BY <1>1, <1>3, <2>1, <2>2 DEF Members!ScanLane, PersonServed, OnRecord, Enrolled, JobsTyped
<1>4. ASSUME Members!Seed(j) PROVE PersonServed(j)
  <2>1. job'[j] = [job[j] EXCEPT !.at = "inc"]
    BY <1>1, <1>4 DEF Members!Seed, Members!Move, JobsTyped
  <2>2. job'[j].hit = job[j].hit /\ job'[j].at # "mail"
    BY <1>1, <2>1 DEF Members!Job
  <2> QED
    BY <1>4, <2>2 DEF Members!Seed, PersonServed, OnRecord, Enrolled
<1>5. ASSUME Members!Increment(j) \/ Members!ScanStaffGuest(j) PROVE PersonServed(j)
  <2>1. PICK n : job'[j] = [job[j] EXCEPT !.at = "insert", !.num = n]
    BY <1>1, <1>5 DEF Members!Increment, Members!ScanStaffGuest, JobsTyped
  <2>2. job'[j].hit = job[j].hit /\ job'[j].at # "mail"
    BY <1>1, <2>1 DEF Members!Job
  <2>3. UNCHANGED <<registrations, staffGuests>>
    BY <1>5 DEF Members!Increment, Members!ScanStaffGuest
  <2> QED
    BY <2>2, <2>3 DEF PersonServed, OnRecord, Enrolled
<1>6. ASSUME Members!InsertStudent(j) PROVE PersonServed(j)
  <2>1. job'[j] = [job[j] EXCEPT !.at = "mail"]
    BY <1>1, <1>6 DEF Members!InsertStudent, Members!Move, JobsTyped
  <2>2. job'[j].hit = job[j].hit /\ job'[j].at = "mail" /\ job[j].at = "insert"
    BY <1>1, <1>6, <2>1 DEF Members!Job, Members!InsertStudent
  <2>3. registrations' = registrations \cup {Members!StudentRecord(j)}
    BY <1>6 DEF Members!InsertStudent
  <2>4. Members!StudentRecord(j).email = job[j].email
    BY DEF Members!StudentRecord
  <2>5. OnRecord' = OnRecord \cup {job[j].email}
    BY <1>6, <2>3, <2>4, RecordAsSet DEF Members!InsertStudent
  <2> QED
    BY <1>6, <2>2, <2>5 DEF PersonServed, Members!InsertStudent
<1>7. ASSUME Members!InsertStaffGuest(j) PROVE PersonServed(j)
  <2> DEFINE g == [email |-> job[j].email, series |-> job[j].series, num |-> job[j].num]
  <2>1. job'[j] = [job[j] EXCEPT !.at = "mail"]
    BY <1>1, <1>7 DEF Members!InsertStaffGuest, Members!Move, JobsTyped
  <2>2. job'[j].hit = job[j].hit /\ job'[j].at = "mail" /\ job[j].at = "insert"
    BY <1>1, <1>7, <2>1 DEF Members!Job, Members!InsertStaffGuest
  <2>3. staffGuests' = staffGuests \cup {g} /\ registrations' = registrations /\ g.email = job[j].email
    BY <1>7 DEF Members!InsertStaffGuest
  <2>4. OnRecord' = OnRecord \cup {job[j].email}
    <3> HIDE DEF g
    <3> QED
      BY <2>3, RecordAsSet
  <2> QED
    BY <2>2, <2>4 DEF PersonServed
<1>8. ASSUME \/ Members!RefuseStudent(j) \/ Members!RefuseStaffGuest(j)
             \/ Members!MailAndAnswer(j) \/ Members!Fail(j)
      PROVE  PersonServed(j)
  <2>1. job'[j] = Members!Rest /\ UNCHANGED <<registrations, staffGuests>>
    BY <1>1, <1>8 DEF Members!RefuseStudent, Members!RefuseStaffGuest,
       Members!MailAndAnswer, Members!Fail, Members!Finish, JobsTyped
  <2> QED
    BY <2>1 DEF PersonServed, OnRecord, Enrolled, Members!Rest
<1> QED
  BY <1>2, <1>3, <1>4, <1>5, <1>6, <1>7, <1>8 DEF Members!Step

\* Nothing is forgotten of whom the handlers and the form know.
LEMMA WelcomeKept ==
    ASSUME WelcomeInv, Known \subseteq Known', UNCHANGED <<pending, welcomed>>,
           \A j \in Jobs : job'[j] = job[j] \/ (job'[j].at = "rest" /\ ~job'[j].hit)
    PROVE  WelcomeInv'
<1>1. welcomed' \subseteq OnRecord' \cup removed'
  BY DEF WelcomeInv, WelcomedAreOnRecord, Known
<1> QED
  BY <1>1 DEF WelcomeInv, WelcomedAreOnRecord

LEMMA RestIsFree == Members!Rest.at = "rest" /\ ~Members!Rest.hit
  BY DEF Members!Rest

LEMMA WelcomeInductive ==
    ASSUME Typed, FormTyped, ServedInv, WelcomeInv, [FormNext]_allVars
    PROVE  WelcomeInv'
<1>1. CASE PersonActs
  <2>1. UNCHANGED <<registrations, staffGuests, job, removed>>
    BY <1>1 DEF PersonActs, TypeEmail, TurnPage, SubmitUnvouched, Reload, HearCode, HearVerdict,
                HearSubmitted, HearNotSubmitted, LoseAnswer, vars, memberVars
  <2>2. Known' = Known /\ OnRecord' = OnRecord
    BY <2>1 DEF Known, OnRecord, Enrolled
  <2>3. /\ welcomed' \subseteq welcomed \cup {pending.email}
        /\ \/ welcomed' = welcomed
           \/ pending.answer = "member"
           \/ pending.of = "submit" /\ pending.answer = "done"
    <3>1. CASE HearSubmitted \/ HearNotSubmitted
      BY <3>1 DEF HearSubmitted, HearNotSubmitted, SaysMember
    <3>2. CASE ~(HearSubmitted \/ HearNotSubmitted)
      BY <1>1, <3>2 DEF PersonActs, TypeEmail, TurnPage, SubmitUnvouched, Reload, HearCode,
                        HearVerdict, LoseAnswer
    <3> QED
      BY <3>1, <3>2
  <2>4. pending' = pending \/ pending'.answer \in {"none", "refused"}
    <3>1. CASE SubmitUnvouched
      BY <3>1 DEF SubmitUnvouched, Idle
    <3>2. CASE ~SubmitUnvouched
      <4>1. pending' \in {pending, Idle}
        BY <1>1, <3>2 DEF PersonActs, TypeEmail, TurnPage, Reload, HearCode, HearVerdict,
                          HearSubmitted, HearNotSubmitted, LoseAnswer
      <4> QED
        BY <4>1 DEF Idle
    <3> QED
      BY <3>1, <3>2
  <2>5. welcomed' \subseteq Known
    BY <2>3 DEF WelcomeInv, WelcomedAreOnRecord, Known
  <2> QED
    BY <2>1, <2>2, <2>4, <2>5 DEF WelcomeInv, WelcomedAreOnRecord, Known
<1>2. ASSUME NEW k \in Calls, AskCode(k) \/ AskVerify(k) PROVE WelcomeInv'
  <2>1. UNCHANGED <<registrations, staffGuests, job, removed, welcomed>>
    BY <1>2 DEF AskCode, AskVerify, memberVars
  <2>2. pending'.answer = "none"
    BY <1>2 DEF AskCode, AskVerify, Wait, Idle
  <2> QED
    BY <2>1, <2>2 DEF WelcomeInv, WelcomedAreOnRecord, Known, OnRecord, Enrolled
<1>3. ASSUME NEW j \in Jobs, Submit(j) PROVE WelcomeInv'
  <2>1. PICK c \in Cohorts, adm \in Admissions :
           Members!BeginStudent(j, page.email, c, "plain", adm)
    BY <1>3 DEF Submit
  <2>2. /\ job'[j].at = "check" /\ job'[j].hit = FALSE /\ \A k \in Jobs \ {j} : job'[k] = job[k]
        /\ UNCHANGED <<registrations, staffGuests>>
    BY <2>1 DEF Members!BeginStudent, Members!Begin, Typed, JobsTyped
  <2>3. pending'.answer = "none"
    BY <1>3 DEF Submit, Wait, Idle
  <2>4. UNCHANGED <<removed, welcomed>>
    BY <1>3 DEF Submit
  <2> QED
    BY <2>2, <2>3, <2>4 DEF WelcomeInv, WelcomedAreOnRecord, Known, OnRecord, Enrolled
<1>4. ASSUME NEW k \in Calls, CallServed(k),
             OtpServes(k) \/ (Otps!Fail(k) /\ Reply(k, "refused", None))
      PROVE  WelcomeInv'
  <2>1. HeardCall(k)
    BY <1>4, CallIsHeard DEF FormTyped
  <2>2. UNCHANGED <<registrations, staffGuests, job, removed, welcomed>>
    BY <1>4 DEF CallServed, memberVars
  <2>3. Known' = Known /\ OnRecord' = OnRecord
    BY <2>2 DEF Known, OnRecord, Enrolled
  <2>4. CASE pending' = pending
    BY <2>2, <2>3, <2>4, WelcomeKept
  <2>5. CASE pending' # pending
    <3>1. pending.handler = k /\ pending'.of = pending.of /\ pending'.answer \in {"done", "refused"}
      BY <2>1, <2>5 DEF HeardCall
    <3>2. k \notin Jobs /\ k # None
      OBVIOUS
    <3>3. pending.of # "submit"
      BY <3>1, <3>2 DEF FormTyped, PendingShaped
    <3> QED
      BY <2>2, <2>3, <3>1, <3>3 DEF WelcomeInv, WelcomedAreOnRecord
  <2> QED
    BY <2>4, <2>5
<1>5. ASSUME NEW j \in Jobs, JobServed(j),
             MembersServe(j) \/ (Members!Fail(j) /\ Reply(j, "refused", None))
      PROVE  WelcomeInv'
  <2>1. HeardJob(j) /\ job[j].at # "rest"
    BY <1>5, JobIsHeard DEF FormTyped
  <2>2. PersonServed(j)
    BY <1>5, PersonIsServed DEF JobServed
  <2>3. /\ \A k \in Jobs \ {j} : job'[k] = job[k]
        /\ job'[j].at = "rest" \/ job'[j].email = job[j].email
    BY <1>5, JobGoesOn, OnwardTyped DEF JobServed, Typed
  <2>4. UNCHANGED <<removed, welcomed>>
    BY <1>5 DEF JobServed
  <2>5. Known \subseteq Known' /\ OnRecord \subseteq OnRecord'
    BY <2>2, <2>4 DEF PersonServed, Known
  <2>6. job[j].hit => job[j].email \in Known
    BY DEF WelcomeInv
  <2>7. job'[j].at = "mail" \/ job'[j].hit => job[j].email \in Known'
    BY <2>2, <2>5, <2>6 DEF PersonServed, Known
  <2>8. job'[j].hit => job'[j].at # "rest"
    BY <1>5, JobGoesOn, OneJobMoves, RestIsFree DEF Onward, JobServed, Typed
  <2>9. \A k \in Jobs : job'[k].at = "mail" \/ job'[k].hit => job'[k].email \in Known'
    BY <2>3, <2>5, <2>7, <2>8 DEF WelcomeInv
  <2>10. pending'.answer = "member" \/ (pending'.of = "submit" /\ pending'.answer = "done")
            => pending'.email \in Known'
    <3>1. CASE pending' = pending
      BY <2>5, <3>1 DEF WelcomeInv
    <3>2. CASE pending' # pending
      <4>1. /\ pending.handler = j /\ pending.answer = "none" /\ pending'.email = pending.email
            /\ \/ pending'.answer = "refused"
               \/ pending'.answer = "done" /\ job[j].at = "mail"
               \/ /\ pending'.answer = "member"
                  /\ \E coll \in Members!Collections :
                        job[j].hit \/ Members!Registered(job[j].email, coll)
        BY <2>1, <3>2 DEF HeardJob
      <4>2. job[j].email = pending.email
        BY <2>1, <4>1 DEF ServedInv, Awaited
      <4>3. pending'.answer \in {"done", "member"} => job[j].email \in Known
        BY <4>1, FoundIsOnRecord DEF WelcomeInv, Known
      <4> QED
        BY <2>5, <4>1, <4>2, <4>3
    <3> QED
      BY <3>1, <3>2
  <2>11. welcomed' \subseteq OnRecord' \cup removed'
    BY <2>4, <2>5 DEF WelcomeInv, WelcomedAreOnRecord
  <2> QED
    BY <2>9, <2>10, <2>11 DEF WelcomeInv, WelcomedAreOnRecord
<1>6. CASE ServerCrashes
  <2>1. /\ \A j \in Jobs : job'[j].at = "rest" /\ ~job'[j].hit
        /\ UNCHANGED <<registrations, staffGuests, removed, pending, welcomed>>
    BY <1>6, RestIsFree DEF ServerCrashes, Crash, Members!Crash, formVars
  <2>2. Known' = Known
    BY <2>1 DEF Known, OnRecord, Enrolled
  <2> QED
    BY <2>1, <2>2, WelcomeKept
<1>7. CASE AdminDeletes
  <2>1. /\ UNCHANGED <<job, pending, welcomed>>
        /\ removed' = removed \cup (OnRecord \ OnRecord')
    BY <1>7 DEF AdminDeletes, Members!DeleteStudent, Members!DeleteStaffGuest
  <2>2. Known \subseteq Known'
    BY <2>1 DEF Known
  <2> QED
    BY <2>1, <2>2, WelcomeKept
<1>8. CASE TimePasses \/ UNCHANGED allVars
  <2>1. UNCHANGED <<registrations, staffGuests, removed, job, pending, welcomed>>
    BY <1>8 DEF TimePasses, allVars, vars, memberVars, formVars
  <2>2. Known' = Known
    BY <2>1 DEF Known, OnRecord, Enrolled
  <2> QED
    BY <2>1, <2>2, WelcomeKept
<1>9. CASE OthersAct
  <2>1. UNCHANGED <<registrations, staffGuests, removed, pending, welcomed>>
    BY <1>9, OthersDo
  <2>2. Known' = Known /\ OnRecord' = OnRecord
    BY <2>1 DEF Known, OnRecord, Enrolled
  <2>3. \A j \in Jobs : job'[j] = job[j] \/ (job'[j].at = "check" /\ ~job'[j].hit)
    BY <1>9, OthersDo
  <2> QED
    BY <2>1, <2>2, <2>3 DEF WelcomeInv, WelcomedAreOnRecord
<1> QED
  BY <1>1, <1>2, <1>3, <1>4, <1>5, <1>6, <1>7, <1>8, <1>9, FormCases

-----------------------------------------------------------------------------
(* What is known as long as every answer reached the form.                 *)

\* What the person's acts do to the request and the token, if no answer is lost.
LEMMA PersonIsCalm ==
    ASSUME FormTyped, OwnerInv, CalmInv, PersonActs, ~lost'
    PROVE  /\ UNCHANGED vars /\ elsewhere' = elsewhere
           /\ \/ pending' = pending
              \/ /\ pending.answer # "none" \/ pending.handler = None
                 /\ pending'.token = None /\ pending'.answer \in {"none", "refused"}
           /\ \/ page'.token = None
              \/ page'.token = pending.token /\ pending.token # None
              \/ /\ page'.token = page.token
                 /\ pending' = pending \/ page.token.email \notin OnRecord \ elsewhere
<1> USE FormTypeParts DEF FormTyped
<1>1. ASSUME NEW e \in Emails, TypeEmail(e) PROVE pending' = pending /\ page'.token = page.token
  BY <1>1 DEF TypeEmail, Pages
<1>2. CASE TurnPage
  BY <1>2 DEF TurnPage, Pages
<1>3. CASE SubmitUnvouched
  <2>1. /\ pending.handler = None /\ pending.of = "none" /\ page' = page
        /\ pending'.token = None /\ pending'.answer = "refused"
    BY <1>3 DEF SubmitUnvouched, Idle
  <2>2. page.token # None => page.token.email \notin OnRecord \ elsewhere
    BY <2>1 DEF CalmInv
  <2> QED
    BY <1>3, <2>1, <2>2 DEF SubmitUnvouched
<1>4. CASE Reload
  <2>1. pending = Idle /\ pending' = pending /\ page'.token = None
    BY <1>4 DEF Reload, Blank
  <2> QED
    BY <1>4, <2>1 DEF Reload
<1>5. CASE HearCode
  <2>1. /\ pending.answer # "none" /\ pending.of = "send" /\ page'.token = page.token
        /\ pending'.token = None /\ pending'.answer = "none"
    BY <1>5 DEF HearCode, Idle, Pages
  <2>2. page.token # None => page.token.email \notin OnRecord \ elsewhere
    BY <2>1 DEF CalmInv
  <2> QED
    BY <1>5, <2>1, <2>2 DEF HearCode
<1>6. CASE HearVerdict
  <2>1. /\ pending.answer # "none" /\ pending.of = "verify" /\ ~page.verified
        /\ pending'.token = None /\ pending'.answer = "none"
    BY <1>6 DEF HearVerdict, Idle, OwnerInv
  <2>2. page.token = None
    BY <2>1 DEF PendingShaped
  <2>3. CASE pending.answer = "done"
    <3>1. page' = [page EXCEPT !.verified = TRUE, !.shown = FALSE, !.token = pending.token]
      BY <1>6, <2>3 DEF HearVerdict
    <3>2. page'.token = pending.token
      BY <3>1 DEF Pages
    <3>3. pending.token # None
      BY <2>1, <2>3 DEF OwnerInv
    <3> QED
      BY <1>6, <2>1, <3>2, <3>3 DEF HearVerdict
  <2>4. CASE pending.answer # "done"
    BY <1>6, <2>1, <2>2, <2>4 DEF HearVerdict
  <2> QED
    BY <2>3, <2>4
<1>7. CASE HearSubmitted
  BY <1>7 DEF HearSubmitted, Blank, Idle
<1>8. CASE HearNotSubmitted
  <2>1. /\ pending.answer \in {"member", "refused"} /\ page' = page
        /\ pending'.token = None /\ pending'.answer = "none"
    BY <1>8 DEF HearNotSubmitted, Idle
  <2>2. page.token # None => page.token.email \notin OnRecord \ elsewhere
    BY <2>1 DEF CalmInv
  <2> QED
    BY <1>8, <2>1, <2>2 DEF HearNotSubmitted
<1>9. CASE LoseAnswer
  BY <1>9 DEF LoseAnswer
<1>10. UNCHANGED vars /\ elsewhere' = elsewhere
  BY DEF PersonActs, TypeEmail, TurnPage, SubmitUnvouched, Reload, HearCode, HearVerdict,
         HearSubmitted, HearNotSubmitted, LoseAnswer
<1> QED
  BY <1>1, <1>2, <1>3, <1>4, <1>5, <1>6, <1>7, <1>8, <1>9, <1>10 DEF PersonActs

LEMMA PersonKeepsCalm ==
    ASSUME FormTyped, OwnerInv, CalmInv, PersonActs, ~lost'
    PROVE  CalmInv'
<1>1. UNCHANGED <<registrations, staffGuests, job, otps, call, elsewhere>>
  BY PersonIsCalm DEF vars, memberVars, otpVars
<1>2. /\ OnRecord' = OnRecord /\ Enrolled' = Enrolled
      /\ \A k \in Calls : Honest(k)' <=> Honest(k)
  BY <1>1 DEF OnRecord, Enrolled, Honest
<1>3. pending' = pending
      \/ /\ pending.answer # "none" \/ pending.handler = None
         /\ pending'.token = None /\ pending'.answer \in {"none", "refused"}
  BY PersonIsCalm
<1>4. \/ page'.token = None
      \/ page'.token = pending.token /\ pending.token # None
      \/ /\ page'.token = page.token
         /\ pending' = pending \/ page.token.email \notin OnRecord \ elsewhere
  BY PersonIsCalm
<1>5. \A h \in Calls \cup Jobs : Awaited(h) => Awaited(h)'
  BY <1>3 DEF Awaited
<1>6. /\ \A k \in Calls : call'[k].at # "rest" /\ call'[k].email \notin elsewhere' => Awaited(k)'
      /\ \A j \in Jobs : job'[j].at # "rest" /\ job'[j].email \notin elsewhere' => Awaited(j)'
  BY <1>1, <1>5 DEF CalmInv
<1>7. \A o \in otps' : o.email \notin elsewhere' =>
          /\ page'.token # None => o.email # page'.token.email
          /\ pending'.token # None => o.email # pending'.token.email
          /\ o.email \notin OnRecord'
  BY <1>1, <1>2, <1>3, <1>4 DEF CalmInv
<1>8. /\ \A k \in Calls : call'[k].email \notin elsewhere' => Honest(k)'
      /\ \A j \in Jobs : job'[j].email \notin elsewhere' => ~job'[j].hit
      /\ pending'.token # None => pending'.token.email \notin OnRecord' \ elsewhere'
  BY <1>1, <1>2, <1>3 DEF CalmInv
<1>9. pending'.answer = "member" => page'.token # None /\ page'.token.email \in elsewhere'
  <2> SUFFICES ASSUME pending'.answer = "member"
               PROVE  page'.token # None /\ page'.token.email \in elsewhere
    BY <1>1
  <2>1. pending' = pending /\ pending.answer = "member"
    BY <1>3
  <2>2. page.token # None /\ page.token.email \in elsewhere /\ pending.of = "submit"
    BY <2>1 DEF CalmInv, FormTyped, PendingShaped
  <2>3. page'.token = page.token
    <3>1. pending # Idle
      BY <2>1 DEF Idle
    <3>2. ASSUME NEW e \in Emails, TypeEmail(e) PROVE page'.token = page.token
      BY <3>2, FormTypeParts DEF TypeEmail, FormTyped, Pages
    <3>3. CASE TurnPage
      BY <3>3, FormTypeParts DEF TurnPage, FormTyped, Pages
    <3> QED
      BY <2>1, <2>2, <3>1, <3>2, <3>3
         DEF PersonActs, SubmitUnvouched, Reload, HearCode, HearVerdict, HearSubmitted,
             HearNotSubmitted, LoseAnswer
  <2> QED
    BY <2>2, <2>3
<1>10. page'.token # None /\ page'.token.email \in OnRecord' \ elsewhere' =>
          /\ pending'.of = "submit"
          /\ \/ pending'.answer = "done"
             \/ /\ pending'.answer = "none"
                /\ \A j \in Jobs : pending'.handler = j => job'[j].at \in {"mail", "rest"}
  BY <1>1, <1>2, <1>4 DEF CalmInv
<1> QED
  BY <1>6, <1>7, <1>8, <1>9, <1>10 DEF CalmInv

LEMMA NothingRuns ==
    ASSUME CalmInv, pending = Idle
    PROVE  /\ \A k \in Calls : call[k].at # "rest" => call[k].email \in elsewhere
           /\ \A j \in Jobs : job[j].at # "rest" => job[j].email \in elsewhere
           /\ page.token # None => page.token.email \notin OnRecord \ elsewhere
<1>1. pending.handler = None /\ pending.of = "none"
  BY DEF Idle
<1>2. \A h \in Calls \cup Jobs : ~Awaited(h)
  BY <1>1 DEF Awaited
<1> QED
  BY <1>1, <1>2 DEF CalmInv

LEMMA AskKeepsCalm ==
    ASSUME Typed, FormTyped, CalmInv, NEW k \in Calls, AskCode(k) \/ AskVerify(k)
    PROVE  CalmInv'
<1>1. /\ pending = Idle /\ page' = page /\ ~page.verified
      /\ UNCHANGED <<registrations, staffGuests, job, elsewhere>>
  BY DEF AskCode, AskVerify, Wait, CodeButton, CodeField, memberVars
<1>2. page.token = None
  BY <1>1 DEF FormTyped, PendingShaped
<1>3. /\ \A l \in Calls : call[l].at # "rest" => call[l].email \in elsewhere
      /\ \A j \in Jobs : job[j].at # "rest" => job[j].email \in elsewhere
  BY <1>1, NothingRuns
<1>4. pending'.handler = k /\ pending'.answer = "none" /\ pending'.token = None
  BY DEF AskCode, AskVerify, Wait, Idle
<1>5. /\ otps' = otps /\ \A l \in Calls \ {k} : call'[l] = call[l]
      /\ \/ call'[k].at = "check" /\ call'[k].todo = Otps!Collections
         \/ call'[k].at = "read"
  <2>1. CASE AskCode(k)
    BY <2>1 DEF AskCode, Otps!BeginSend, Typed, CallsTyped
  <2>2. CASE AskVerify(k)
    <3>1. PICK code \in Codes : Otps!BeginVerify(k, page.email, code, "verify")
      BY <2>2 DEF AskVerify
    <3> QED
      BY <3>1 DEF Otps!BeginVerify, Otps!Rest, Typed, CallsTyped
  <2> QED
    BY <2>1, <2>2
<1>6. OnRecord' = OnRecord /\ Enrolled' = Enrolled
  BY <1>1 DEF OnRecord, Enrolled
<1>7. /\ \A l \in Calls : call'[l].at # "rest" /\ call'[l].email \notin elsewhere' => Awaited(l)'
      /\ \A j \in Jobs : job'[j].at # "rest" /\ job'[j].email \notin elsewhere' => Awaited(j)'
  BY <1>1, <1>3, <1>4, <1>5 DEF Awaited
<1>8. Honest(k)' /\ \A l \in Calls \ {k} : Honest(l)' <=> Honest(l)
  BY <1>5, <1>6 DEF Honest
<1>9. \A l \in Calls : call'[l].email \notin elsewhere' => Honest(l)'
  BY <1>1, <1>5, <1>8 DEF CalmInv
<1>10. \A o \in otps' : o.email \notin elsewhere' =>
          /\ page'.token # None => o.email # page'.token.email
          /\ pending'.token # None => o.email # pending'.token.email
          /\ o.email \notin OnRecord'
  BY <1>1, <1>2, <1>4, <1>5, <1>6 DEF CalmInv
<1>11. \A j \in Jobs : job'[j].email \notin elsewhere' => ~job'[j].hit
  BY <1>1 DEF CalmInv
<1> QED
  BY <1>1, <1>2, <1>4, <1>7, <1>9, <1>10, <1>11 DEF CalmInv

LEMMA SubmitKeepsCalm ==
    ASSUME Typed, FormTyped, CalmInv, NEW j \in Jobs, Submit(j)
    PROVE  CalmInv'
<1>1. /\ pending = Idle /\ page.verified /\ page.token.email = page.email
      /\ UNCHANGED <<page, otps, call, elsewhere>>
  BY DEF Submit, Wait, Vouched, TokenVouches, otpVars
<1>2. page.token # None /\ page.token.email \notin OnRecord \ elsewhere
  BY <1>1, NothingRuns DEF FormTyped, PendingShaped
<1>3. /\ \A l \in Calls : call[l].at # "rest" => call[l].email \in elsewhere
      /\ \A i \in Jobs : job[i].at # "rest" => job[i].email \in elsewhere
  BY <1>1, NothingRuns
<1>4. pending'.handler = j /\ pending'.answer = "none" /\ pending'.token = None
  BY DEF Submit, Wait, Idle
<1>5. PICK c \in Cohorts, adm \in Admissions :
         Members!BeginStudent(j, page.email, c, "plain", adm)
  BY DEF Submit
<1>6. /\ job'[j].at = "check" /\ job'[j].hit = FALSE /\ \A k \in Jobs \ {j} : job'[k] = job[k]
      /\ UNCHANGED <<registrations, staffGuests>>
  BY <1>5 DEF Members!BeginStudent, Members!Begin, Typed, JobsTyped
<1>7. /\ OnRecord' = OnRecord /\ Enrolled' = Enrolled
      /\ \A l \in Calls : Honest(l)' <=> Honest(l)
  BY <1>1, <1>6 DEF OnRecord, Enrolled, Honest
<1>8. /\ \A l \in Calls : call'[l].at # "rest" /\ call'[l].email \notin elsewhere' => Awaited(l)'
      /\ \A i \in Jobs : job'[i].at # "rest" /\ job'[i].email \notin elsewhere' => Awaited(i)'
  BY <1>1, <1>3, <1>4, <1>6 DEF Awaited
<1>9. \A i \in Jobs : job'[i].email \notin elsewhere' => ~job'[i].hit
  BY <1>1, <1>6 DEF CalmInv
<1>10. \A o \in otps' : o.email \notin elsewhere' =>
          /\ page'.token # None => o.email # page'.token.email
          /\ pending'.token # None => o.email # pending'.token.email
          /\ o.email \notin OnRecord'
  BY <1>1, <1>4, <1>7 DEF CalmInv
<1>11. \A l \in Calls : call'[l].email \notin elsewhere' => Honest(l)'
  BY <1>1, <1>7 DEF CalmInv
<1> QED
  BY <1>1, <1>2, <1>4, <1>7, <1>8, <1>9, <1>10, <1>11 DEF CalmInv

LEMMA OthersKeepCalm ==
    ASSUME Typed, FormTyped, CalmInv, OthersAct
    PROVE  CalmInv'
<1>1. /\ UNCHANGED <<page, pending, registrations, staffGuests, otps>>
      /\ elsewhere \subseteq elsewhere'
  BY OthersDo
<1>2. OnRecord' = OnRecord /\ Enrolled' = Enrolled /\ \A h : Awaited(h)' <=> Awaited(h)
  BY <1>1 DEF OnRecord, Enrolled, Awaited
<1>3. \A k \in Calls :
         call'[k] = call[k] \/ call'[k] = Otps!Rest \/ call'[k].email \in elsewhere'
  BY OthersDo
<1>4. \A j \in Jobs : job'[j] = job[j] \/ (job'[j].email \in elsewhere' /\ ~job'[j].hit)
  BY OthersDo
<1>5. \A j \in Jobs : Awaited(j) => job'[j] = job[j]
  BY OthersDo
<1>6. /\ \A k \in Calls : call'[k].at # "rest" /\ call'[k].email \notin elsewhere' => Awaited(k)'
      /\ \A j \in Jobs : job'[j].at # "rest" /\ job'[j].email \notin elsewhere' => Awaited(j)'
  BY <1>1, <1>2, <1>3, <1>4, RestCallIsShaped DEF CalmInv
<1>7. \A k \in Calls : call'[k].email \notin elsewhere' => Honest(k)'
  <2> SUFFICES ASSUME NEW k \in Calls, call'[k].email \notin elsewhere' PROVE Honest(k)'
    OBVIOUS
  <2>1. CASE call'[k] = call[k]
    BY <1>1, <1>2, <2>1 DEF CalmInv, Honest
  <2>2. CASE call'[k] = Otps!Rest
    BY <2>2, RestCallIsShaped DEF Honest
  <2> QED
    BY <1>3, <2>1, <2>2
<1>8. \A j \in Jobs : job'[j].email \notin elsewhere' => ~job'[j].hit
  BY <1>1, <1>4 DEF CalmInv
<1>9. page'.token # None /\ page'.token.email \in OnRecord' \ elsewhere' =>
          /\ pending'.of = "submit"
          /\ \/ pending'.answer = "done"
             \/ /\ pending'.answer = "none"
                /\ \A j \in Jobs : pending'.handler = j => job'[j].at \in {"mail", "rest"}
  BY <1>1, <1>2, <1>5 DEF CalmInv, Awaited
<1>10. \A o \in otps' : o.email \notin elsewhere' =>
          /\ page'.token # None => o.email # page'.token.email
          /\ pending'.token # None => o.email # pending'.token.email
          /\ o.email \notin OnRecord'
  BY <1>1, <1>2 DEF CalmInv
<1>11. /\ pending'.answer = "member" => page'.token # None /\ page'.token.email \in elsewhere'
       /\ pending'.token # None => pending'.token.email \notin OnRecord' \ elsewhere'
  BY <1>1, <1>2 DEF CalmInv
<1> QED
  BY <1>6, <1>7, <1>8, <1>9, <1>10, <1>11 DEF CalmInv

\* The look-up of sendOTP goes on only for an email it did not find on record.
LEMMA LookUpIsHonest ==
    ASSUME Typed, NEW k \in Calls, NEW coll \in Otps!Collections, Otps!CheckEmail(k, coll),
           Honest(k), UNCHANGED <<registrations, staffGuests>>
    PROVE  Honest(k)'
<1> DEFINE left == call[k].todo \ {coll}
           hit == call[k].hit \/ <<call[k].email, coll>> \in Enrolled
           going == [call[k] EXCEPT !.todo = left, !.hit = hit]
           free == [call[k] EXCEPT !.at = "clear", !.todo = {}]
<1>1. call[k] \in Otps!Call /\ call[k].at = "check"
  BY DEF Typed, CallsTyped, Otps!CheckEmail
<1>2. left \in SUBSET Otps!Collections /\ hit \in BOOLEAN
  BY <1>1 DEF Otps!Call
<1>3. /\ going.at = "check" /\ going.email = call[k].email /\ going.todo = left /\ going.hit = hit
      /\ free.at = "clear" /\ free.email = call[k].email
  <2> HIDE DEF left, hit
  <2> QED BY <1>1 DEF Otps!Call
<1>4. call'[k] = IF left # {} THEN going ELSE IF hit THEN Otps!Rest ELSE free
  BY <1>1 DEF Otps!CheckEmail, Typed, CallsTyped
<1>5. ~hit => \A c \in Otps!Collections \ left : <<call[k].email, c>> \notin Enrolled
  BY <1>1 DEF Honest
<1>6. ~hit /\ left = {} => call[k].email \notin OnRecord
  <2>1. call[k].email \in OnRecord
           <=> \E c \in Otps!Collections : <<call[k].email, c>> \in Enrolled
    BY WhoIsOnRecord
  <2> QED
    BY <1>5, <2>1
<1>7. OnRecord' = OnRecord /\ Enrolled' = Enrolled
  BY DEF OnRecord, Enrolled
<1>8. Otps!Rest.at = "rest"
  BY RestCallIsShaped
<1> HIDE DEF left, hit, going, free
<1>9. CASE left # {}
  BY <1>3, <1>4, <1>5, <1>7, <1>9 DEF Honest
<1>10. CASE left = {} /\ hit
  BY <1>4, <1>8, <1>10 DEF Honest
<1>11. CASE left = {} /\ ~hit
  BY <1>3, <1>4, <1>6, <1>7, <1>11 DEF Honest
<1> QED
  BY <1>9, <1>10, <1>11

\* An OTP handler that saw nobody on record goes on like that, and stores a code
\* only for such an email.
LEMMA CallStaysHonest ==
    ASSUME Typed, NEW k \in Calls, Otps!Step(k) \/ Otps!Fail(k), Honest(k),
           UNCHANGED <<registrations, staffGuests>>,
           \A o \in otps : o.email = call[k].email => o.email \notin OnRecord
    PROVE  /\ Honest(k)'
           /\ \A o \in otps' : o \in otps \/ (o.email = call[k].email /\ o.email \notin OnRecord)
<1>0. CodesTyped /\ CallsTyped
  BY DEF Typed
<1>1. OnRecord' = OnRecord /\ Enrolled' = Enrolled
  BY DEF OnRecord, Enrolled
<1> DEFINE Goal == /\ Honest(k)'
                   /\ \A o \in otps' : o \in otps \/ (o.email = call[k].email /\ o.email \notin OnRecord)
<1>2. ASSUME NEW coll \in Otps!Collections, Otps!CheckEmail(k, coll) PROVE Goal
  BY <1>2, LookUpIsHonest DEF Otps!CheckEmail
<1>3. CASE Otps!ClearOld(k) \/ Otps!Store(k)
  <2>1. /\ call'[k].email = call[k].email /\ call[k].at \in {"clear", "store"}
        /\ call'[k].at # "check"
    BY <1>0, <1>3, CallMoves DEF Otps!ClearOld, Otps!Store
  <2>2. \A o \in otps' : o \in otps \/ (call[k].at = "store" /\ o.email = call[k].email)
    BY <1>3 DEF Otps!ClearOld, Otps!Store
  <2>3. call[k].email \notin OnRecord
    BY <2>1 DEF Honest
  <2> QED
    BY <1>1, <2>1, <2>2, <2>3 DEF Honest
<1>4. CASE Otps!ReadNothing(k)
  <2>1. call'[k].at = "purge" /\ otps' = otps
    BY <1>0, <1>4, CallMoves DEF Otps!ReadNothing
  <2> QED
    BY <2>1 DEF Honest
<1>5. CASE Otps!ReadCode(k)
  <2>1. otps' = otps
    BY <1>5 DEF Otps!ReadCode
  <2>2. call'[k].at # "check" /\ (call'[k].at \in {"clear", "store", "mail", "consume"} =>
                                     \E p \in otps : p.email = call'[k].email)
    BY <1>0, <1>5, ReadGoesOn
  <2>3. call'[k].at = "rest" \/ call'[k].email = call[k].email
    BY <1>0, CallGoesOn, CallOnwardTyped, RestCallIsShaped
  <2> QED
    BY <1>1, <2>1, <2>2, <2>3 DEF Honest
<1>6. CASE Otps!MailCode(k) \/ Otps!Purge(k) \/ Otps!Fail(k)
  <2>1. call'[k].at = "rest" /\ otps' \subseteq otps
    BY <1>0, <1>6, CallEnds DEF Otps!MailCode, Otps!Purge, Otps!Fail
  <2> QED
    BY <2>1 DEF Honest
<1>7. CASE Otps!Consume(k)
  <2>1. call'[k].at \in {"rest", "passed"} /\ otps' \subseteq otps
    BY <1>0, <1>7, CallMoves, CallEnds DEF Otps!Consume
  <2> QED
    BY <2>1 DEF Honest
<1> QED
  BY <1>2, <1>3, <1>4, <1>5, <1>6, <1>7 DEF Otps!Step

LEMMA StoresOwn ==
    ASSUME Typed, NEW k \in Calls, Otps!Step(k) \/ Otps!Fail(k)
    PROVE  \A o \in otps' : o \in otps \/ o.email = call[k].email
<1>1. CASE Otps!Store(k)
  BY <1>1 DEF Otps!Store
<1>2. CASE ~Otps!Store(k)
  <2>1. otps' \subseteq otps
    BY <1>2 DEF Otps!Step, Otps!Fail, Otps!CheckEmail, Otps!ClearOld, Otps!MailCode,
       Otps!ReadNothing, Otps!ReadCode, Otps!Purge, Otps!Consume
  <2> QED
    BY <2>1
<1> QED
  BY <1>1, <1>2

LEMMA CallKeepsCalm ==
    ASSUME Typed, FormTyped, ServedInv, OwnerInv, CalmInv, NEW k \in Calls, CallServed(k),
           OtpServes(k) \/ (Otps!Fail(k) /\ Reply(k, "refused", None))
    PROVE  CalmInv'
<1> DEFINE e == call[k].email
<1>1. /\ HeardCall(k) /\ call[k].at # "rest" /\ (Otps!Step(k) \/ Otps!Fail(k))
      /\ UNCHANGED <<page, elsewhere, registrations, staffGuests, job>>
  BY CallIsHeard DEF FormTyped, CallServed, memberVars
<1>2. k \notin Jobs /\ k # None
  OBVIOUS
<1>3. OnRecord' = OnRecord /\ Enrolled' = Enrolled
  BY <1>1 DEF OnRecord, Enrolled
<1>4. /\ \A l \in Calls \ {k} : call'[l] = call[l]
      /\ call'[k].at = "rest" \/ call'[k].email = e
  BY <1>1, CallGoesOn, CallOnwardTyped, RestCallIsShaped DEF Typed
<1>5. /\ \A h : h # k /\ Awaited(h) => Awaited(h)'
      /\ call'[k].at # "rest" /\ Awaited(k) => Awaited(k)'
  BY <1>1 DEF HeardCall, Awaited
\* If the form waits for it, it waits for no submission and holds no token.
<1>6. Awaited(k) => pending.of \in {"send", "verify"} /\ pending.token = None /\ page.token = None
  <2> SUFFICES ASSUME Awaited(k)
               PROVE  pending.of \in {"send", "verify"} /\ pending.token = None /\ page.token = None
    OBVIOUS
  <2>1. pending.of # "none" /\ pending.of # "submit"
    BY <1>2 DEF FormTyped, PendingShaped, Idle, Awaited
  <2>2. pending.token = None
    BY DEF FormTyped, PendingShaped, Awaited
  <2>3. pending.of \in {"send", "verify"}
    BY <2>1, PendingFields DEF FormTyped
  <2> QED
    BY <2>2, <2>3 DEF OwnerInv, FormTyped, PendingShaped
<1>7. e \notin elsewhere => Awaited(k) /\ Honest(k)
  BY <1>1 DEF CalmInv
<1>8. \A o \in otps' : o \in otps \/ (o.email = e /\ (e \notin elsewhere => e \notin OnRecord))
  <2>1. CASE e \in elsewhere
    BY <1>1, <2>1, StoresOwn
  <2>2. CASE e \notin elsewhere
    <3>1. \A o \in otps : o.email = e => o.email \notin OnRecord
      BY <2>2 DEF CalmInv
    <3> QED
      BY <1>1, <1>7, <2>2, <3>1, CallStaysHonest
  <2> QED
    BY <2>1, <2>2
<1>9. e \notin elsewhere => Honest(k)'
  <2> SUFFICES ASSUME e \notin elsewhere PROVE Honest(k)'
    OBVIOUS
  <2>1. \A o \in otps : o.email = e => o.email \notin OnRecord
    BY DEF CalmInv
  <2> QED
    BY <1>1, <1>7, <2>1, CallStaysHonest
<1>10. \/ pending' = pending
       \/ /\ Awaited(k) /\ pending'.answer # "member"
          /\ \/ pending'.token = None
             \/ /\ pending'.token.email = e /\ call[k].at = "consume"
                /\ \A o \in otps' : o.email # e
  <2>1. CASE pending' = pending
    BY <2>1
  <2>2. CASE pending' # pending
    <3>1. Awaited(k) /\ pending'.answer # "member"
      BY <1>1, <2>2 DEF HeardCall, Awaited
    <3>2. \/ pending'.token = None
          \/ /\ pending'.token = [email |-> e, from |-> call[k].id] /\ call[k].at = "consume"
             /\ \A o \in otps' : o.email # e
      BY <1>1, <2>2 DEF HeardCall
    <3> QED
      BY <3>1, <3>2
  <2> QED
    BY <2>1, <2>2
<1> HIDE DEF e
<1>11. /\ \A l \in Calls : call'[l].at # "rest" /\ call'[l].email \notin elsewhere' => Awaited(l)'
       /\ \A j \in Jobs : job'[j].at # "rest" /\ job'[j].email \notin elsewhere' => Awaited(j)'
  <2>1. ASSUME NEW l \in Calls, call'[l].at # "rest", call'[l].email \notin elsewhere'
        PROVE  Awaited(l)'
    <3>1. CASE l = k
      BY <1>1, <1>4, <1>5, <1>7, <2>1, <3>1
    <3>2. CASE l # k
      BY <1>1, <1>4, <1>5, <2>1, <3>2 DEF CalmInv
    <3> QED
      BY <3>1, <3>2
  <2>2. ASSUME NEW j \in Jobs, job'[j].at # "rest", job'[j].email \notin elsewhere'
        PROVE  Awaited(j)'
    BY <1>1, <1>2, <1>5, <2>2 DEF CalmInv
  <2> QED
    BY <2>1, <2>2
<1>12. \A o \in otps' : o.email \notin elsewhere' =>
          /\ page'.token # None => o.email # page'.token.email
          /\ pending'.token # None => o.email # pending'.token.email
          /\ o.email \notin OnRecord'
  <2> SUFFICES ASSUME NEW o \in otps', o.email \notin elsewhere
               PROVE  /\ page.token # None => o.email # page.token.email
                      /\ pending'.token # None => o.email # pending'.token.email
                      /\ o.email \notin OnRecord
    BY <1>1, <1>3
  <2>1. CASE o \in otps
    BY <1>10, <2>1 DEF CalmInv
  <2>2. CASE o \notin otps
    <3>1. o.email = e /\ e \notin OnRecord /\ Awaited(k)
      BY <1>7, <1>8, <2>2
    <3> QED
      BY <1>6, <1>10, <3>1
  <2> QED
    BY <2>1, <2>2
<1>13. \A l \in Calls : call'[l].email \notin elsewhere' => Honest(l)'
  <2> SUFFICES ASSUME NEW l \in Calls, call'[l].email \notin elsewhere PROVE Honest(l)'
    BY <1>1
  <2>1. CASE l # k
    BY <1>3, <1>4, <2>1 DEF CalmInv, Honest
  <2>2. CASE l = k /\ call'[k].at = "rest"
    BY <2>2 DEF Honest
  <2>3. CASE l = k /\ call'[k].at # "rest"
    BY <1>4, <1>9, <2>3
  <2> QED
    BY <2>1, <2>2, <2>3
<1>14. \A j \in Jobs : job'[j].email \notin elsewhere' => ~job'[j].hit
  BY <1>1 DEF CalmInv
<1>15. pending'.answer = "member" => page'.token # None /\ page'.token.email \in elsewhere'
  BY <1>1, <1>10 DEF CalmInv
<1>16. pending'.token # None => pending'.token.email \notin OnRecord' \ elsewhere'
  <2>1. call[k].at = "consume" => e \notin OnRecord \ elsewhere
    BY <1>7 DEF Honest, e
  <2> QED
    BY <1>1, <1>3, <1>10, <2>1 DEF CalmInv
<1>17. page'.token # None /\ page'.token.email \in OnRecord' \ elsewhere' =>
          /\ pending'.of = "submit"
          /\ \/ pending'.answer = "done"
             \/ /\ pending'.answer = "none"
                /\ \A j \in Jobs : pending'.handler = j => job'[j].at \in {"mail", "rest"}
  BY <1>1, <1>3, <1>6, <1>10 DEF CalmInv
<1> QED
  BY <1>11, <1>12, <1>13, <1>14, <1>15, <1>16, <1>17 DEF CalmInv

\* The mail is the last step of a registration, and it cannot fail.
LEMMA MailEnds ==
    ASSUME Typed, NEW j \in Jobs, Members!Step(j) \/ Members!Fail(j), job[j].at = "mail"
    PROVE  job'[j] = Members!Rest
<1>1. Members!MailAndAnswer(j)
  BY DEF Members!Step, Members!Fail, Members!CheckEmail, Members!ScanLane, Members!Seed,
         Members!Increment, Members!InsertStudent, Members!RefuseStudent,
         Members!ScanStaffGuest, Members!InsertStaffGuest, Members!RefuseStaffGuest
<1> QED
  BY <1>1 DEF Members!MailAndAnswer, Members!Finish, Typed, JobsTyped

LEMMA JobKeepsCalm ==
    ASSUME Typed, FormTyped, ServedInv, OwnerInv, CalmInv, NEW j \in Jobs, JobServed(j),
           MembersServe(j) \/ (Members!Fail(j) /\ Reply(j, "refused", None))
    PROVE  CalmInv'
<1> DEFINE e == job[j].email
<1>1. /\ HeardJob(j) /\ job[j].at # "rest" /\ (Members!Step(j) \/ Members!Fail(j))
      /\ UNCHANGED <<page, elsewhere, otps, call>>
  BY JobIsHeard DEF FormTyped, JobServed, otpVars
<1>2. j \notin Calls /\ j # None
  OBVIOUS
<1>3. /\ \A i \in Jobs \ {j} : job'[i] = job[i]
      /\ job'[j] = Members!Rest \/ (job'[j].at # "rest" /\ job'[j].email = e)
  <2>1. PICK q : Onward(j, q)
    BY <1>1, JobGoesOn DEF Typed
  <2>2. job'[j] = q /\ \A i \in Jobs \ {j} : job'[i] = job[i]
    BY <2>1, OneJobMoves DEF Onward, Typed
  <2> QED
    BY <2>1, <2>2 DEF Onward
<1>4. PersonServed(j)
  BY <1>1, PersonIsServed
<1>5. \A x, coll : <<x, coll>> \in Enrolled' => <<x, coll>> \in Enrolled \/ x = e
  <2>1. AddsOnly(j)
    BY <1>1, JobGoesOn DEF Typed
  <2> QED
    BY <2>1 DEF Enrolled, AddsOnly
<1>6. /\ \A h : h # j /\ Awaited(h) => Awaited(h)'
      /\ job'[j].at # "rest" /\ Awaited(j) => Awaited(j)'
  BY <1>1 DEF HeardJob, Awaited
<1>7. Awaited(j) => /\ pending.of = "submit" /\ pending.token = None
                    /\ page.token # None /\ page.token.email = e /\ pending.email = e
  <2> SUFFICES ASSUME Awaited(j)
               PROVE  /\ pending.of = "submit" /\ pending.token = None
                      /\ page.token # None /\ page.token.email = e /\ pending.email = e
    OBVIOUS
  <2>1. pending.of # "none" /\ pending.of \notin {"send", "verify"}
    BY <1>2 DEF FormTyped, PendingShaped, Idle, Awaited
  <2>2. pending.token = None
    BY DEF FormTyped, PendingShaped, Awaited
  <2>3. pending.of = "submit"
    BY <2>1, PendingFields DEF FormTyped
  <2>4. pending.email = e
    BY <1>1 DEF ServedInv
  <2> QED
    BY <1>2, <2>2, <2>3, <2>4 DEF OwnerInv, FormTyped, PendingShaped, Awaited
<1>8. e \notin elsewhere => Awaited(j) /\ ~job[j].hit /\ (job[j].at # "mail" => e \notin OnRecord)
  <2> SUFFICES ASSUME e \notin elsewhere
               PROVE  Awaited(j) /\ ~job[j].hit /\ (job[j].at # "mail" => e \notin OnRecord)
    OBVIOUS
  <2>1. Awaited(j) /\ ~job[j].hit
    BY <1>1 DEF CalmInv
  <2> QED
    BY <1>1, <1>7, <2>1 DEF CalmInv, Awaited
<1>9. OnRecord' \subseteq OnRecord \cup {e}
  BY <1>4 DEF PersonServed
<1>10. \/ pending' = pending
       \/ Awaited(j) /\ pending'.token = None /\ pending'.of = pending.of
          /\ pending'.handler = pending.handler
  BY <1>1 DEF HeardJob, Awaited
<1>11. /\ \A k \in Calls : call'[k].at # "rest" /\ call'[k].email \notin elsewhere' => Awaited(k)'
       /\ \A i \in Jobs : job'[i].at # "rest" /\ job'[i].email \notin elsewhere' => Awaited(i)'
  <2>1. ASSUME NEW k \in Calls, call'[k].at # "rest", call'[k].email \notin elsewhere'
        PROVE  Awaited(k)'
    BY <1>1, <1>2, <1>6, <2>1 DEF CalmInv
  <2>2. ASSUME NEW i \in Jobs, job'[i].at # "rest", job'[i].email \notin elsewhere'
        PROVE  Awaited(i)'
    <3>1. CASE i = j
      BY <1>1, <1>3, <1>6, <1>8, <2>2, <3>1, RestIsFree
    <3>2. CASE i # j
      BY <1>1, <1>3, <1>6, <2>2, <3>2 DEF CalmInv
    <3> QED
      BY <3>1, <3>2
  <2> QED
    BY <2>1, <2>2
<1>12. \A o \in otps' : o.email \notin elsewhere' =>
          /\ page'.token # None => o.email # page'.token.email
          /\ pending'.token # None => o.email # pending'.token.email
          /\ o.email \notin OnRecord'
  <2> SUFFICES ASSUME NEW o \in otps, o.email \notin elsewhere
               PROVE  /\ page.token # None => o.email # page.token.email
                      /\ pending'.token # None => o.email # pending'.token.email
                      /\ o.email \notin OnRecord'
    BY <1>1
  <2>1. /\ page.token # None => o.email # page.token.email
        /\ pending.token # None => o.email # pending.token.email
        /\ o.email \notin OnRecord
    BY DEF CalmInv
  <2>2. o.email # e
    <3> HIDE DEF e
    <3> QED BY <1>7, <1>8, <2>1
  <2> HIDE DEF e
  <2> QED
    BY <1>9, <1>10, <2>1, <2>2
<1>13. \A k \in Calls : call'[k].email \notin elsewhere' => Honest(k)'
  <2> SUFFICES ASSUME NEW k \in Calls, call[k].email \notin elsewhere PROVE Honest(k)'
    BY <1>1
  <2>1. CASE e \in elsewhere
    <3>1. call[k].email # e /\ Honest(k)
      BY <2>1 DEF CalmInv
    <3> HIDE DEF e
    <3> QED BY <1>1, <1>5, <1>9, <3>1 DEF Honest
  <2>2. CASE e \notin elsewhere
    <3>1. ~Awaited(k)
      BY <1>2, <1>8, <2>2 DEF Awaited
    <3>2. call[k].at = "rest"
      BY <3>1 DEF CalmInv
    <3> QED BY <1>1, <3>2 DEF Honest
  <2> QED
    BY <2>1, <2>2
<1>14. \A i \in Jobs : job'[i].email \notin elsewhere' => ~job'[i].hit
  <2> SUFFICES ASSUME NEW i \in Jobs, job'[i].email \notin elsewhere PROVE ~job'[i].hit
    BY <1>1
  <2>1. CASE i # j
    BY <1>3, <2>1 DEF CalmInv
  <2>2. CASE i = j /\ job'[j] = Members!Rest
    BY <2>2, RestIsFree
  <2>3. CASE i = j /\ job'[j] # Members!Rest
    <3>1. e \notin elsewhere /\ job[j].at # "mail"
      BY <1>1, <1>3, <2>3, MailEnds
    <3> QED
      BY <1>4, <1>8, <2>3, <3>1 DEF PersonServed
  <2> QED
    BY <2>1, <2>2, <2>3
<1>15. pending'.answer = "member" => page'.token # None /\ page'.token.email \in elsewhere'
  <2> SUFFICES ASSUME pending'.answer = "member"
               PROVE  page.token # None /\ page.token.email \in elsewhere
    BY <1>1
  <2>1. CASE pending' = pending
    BY <2>1 DEF CalmInv
  <2>2. CASE pending' # pending
    <3>1. /\ Awaited(j) /\ job[j].at = "check"
          /\ \E coll \in Members!Collections :
                job[j].hit \/ Members!Registered(job[j].email, coll)
      BY <1>1, <2>2 DEF HeardJob, Awaited
    <3>2. job[j].hit \/ e \in OnRecord
      BY <3>1, FoundIsOnRecord
    <3>3. e \in elsewhere
      BY <1>8, <3>1, <3>2
    <3> HIDE DEF e
    <3> QED
      BY <1>7, <3>1, <3>3
  <2> QED
    BY <2>1, <2>2
<1>16. pending'.token # None => pending'.token.email \notin OnRecord' \ elsewhere'
  <2> SUFFICES ASSUME pending'.token # None
               PROVE  pending'.token.email \notin OnRecord' \ elsewhere
    BY <1>1
  <2>1. pending' = pending /\ pending.token.email \notin OnRecord \ elsewhere
    BY <1>10 DEF CalmInv
  <2>2. e \in elsewhere
    <3> HIDE DEF e
    <3> QED BY <1>7, <1>8, <2>1
  <2> HIDE DEF e
  <2> QED
    BY <1>9, <2>1, <2>2
<1>17. page'.token # None /\ page'.token.email \in OnRecord' \ elsewhere' =>
          /\ pending'.of = "submit"
          /\ \/ pending'.answer = "done"
             \/ /\ pending'.answer = "none"
                /\ \A i \in Jobs : pending'.handler = i => job'[i].at \in {"mail", "rest"}
  <2> SUFFICES ASSUME page.token # None, page.token.email \in OnRecord', page.token.email \notin elsewhere
               PROVE  /\ pending'.of = "submit"
                      /\ \/ pending'.answer = "done"
                         \/ /\ pending'.answer = "none"
                            /\ \A i \in Jobs : pending'.handler = i => job'[i].at \in {"mail", "rest"}
    BY <1>1
  <2>1. CASE e \in elsewhere
    <3>1. ~Awaited(j) /\ pending' = pending /\ page.token.email \in OnRecord
      <4> HIDE DEF e
      <4> QED BY <1>7, <1>9, <1>10, <2>1
    <3> QED
      BY <1>3, <3>1 DEF CalmInv, Awaited
  <2>2. CASE e \notin elsewhere
    <3>1. e \in OnRecord' => job'[j].at = "mail" \/ (job[j].at = "mail" /\ job'[j].at = "rest")
      BY <1>1, <1>4, <1>8, <2>2, MailEnds, RestIsFree DEF PersonServed
    <3>2. pending'.of = "submit" /\ pending'.handler = j /\ page.token.email = e
      BY <1>7, <1>8, <1>10, <2>2 DEF Awaited
    <3>3. pending'.answer \in {"none", "done"} \/ (job[j].at # "mail" /\ job'[j].at = "rest")
      <4>1. job[j].at = "check" => \A coll \in Members!Collections :
               ~job[j].hit /\ ~Members!Registered(job[j].email, coll)
        BY <1>8, <2>2, FoundIsOnRecord
      <4> QED
        BY <1>1, <1>8, <2>2, <4>1 DEF HeardJob, Awaited
    <3> HIDE DEF e
    <3> QED
      BY <3>1, <3>2, <3>3
  <2> QED
    BY <2>1, <2>2
<1> QED
  BY <1>11, <1>12, <1>13, <1>14, <1>15, <1>16, <1>17 DEF CalmInv

LEMMA WorldKeepsCalm ==
    ASSUME Typed, CalmInv,
           ServerCrashes \/ TimePasses \/ AdminDeletes \/ UNCHANGED allVars
    PROVE  CalmInv'
<1>1. UNCHANGED <<page, pending, elsewhere>> /\ OnRecord' \subseteq OnRecord /\ Enrolled' \subseteq Enrolled
  <2>1. UNCHANGED <<page, pending, elsewhere>>
    BY DEF ServerCrashes, TimePasses, AdminDeletes, allVars, formVars
  <2>2. registrations' \subseteq registrations /\ staffGuests' \subseteq staffGuests
    BY DEF ServerCrashes, Crash, Members!Crash, TimePasses, AdminDeletes,
           Members!DeleteStudent, Members!DeleteStaffGuest, allVars, vars, memberVars
  <2> QED
    BY <2>1, <2>2 DEF OnRecord, Enrolled
<1>2. \A o \in otps' : \E p \in otps : p.email = o.email
  <2>1. CASE TimePasses
    BY <2>1, ClockTyped DEF TimePasses, Typed
  <2>2. CASE ~TimePasses
    <3>1. otps' = otps
      BY <2>2 DEF ServerCrashes, Crash, Otps!Crash, AdminDeletes, otpVars, allVars, vars
    <3> QED
      BY <3>1
  <2> QED
    BY <2>1, <2>2
<1>3. \/ UNCHANGED <<job, call>>
      \/ /\ \A j \in Jobs : job'[j].at = "rest" /\ ~job'[j].hit
         /\ \A k \in Calls : call'[k].at = "rest"
  <2>1. CASE ServerCrashes
    BY <2>1, RestIsFree, RestCallIsShaped DEF ServerCrashes, Crash, Members!Crash, Otps!Crash
  <2>2. CASE TimePasses
    BY <2>2, ClockTyped DEF TimePasses, memberVars, Typed
  <2>3. CASE AdminDeletes \/ UNCHANGED allVars
    BY <2>3 DEF AdminDeletes, Members!DeleteStudent, Members!DeleteStaffGuest, otpVars,
                memberVars, allVars, vars
  <2> QED
    BY <2>1, <2>2, <2>3
<1>4. /\ \A k \in Calls : call'[k].at # "rest" /\ call'[k].email \notin elsewhere' => Awaited(k)'
      /\ \A j \in Jobs : job'[j].at # "rest" /\ job'[j].email \notin elsewhere' => Awaited(j)'
  BY <1>1, <1>3 DEF CalmInv, Awaited
<1>5. \A o \in otps' : o.email \notin elsewhere' =>
          /\ page'.token # None => o.email # page'.token.email
          /\ pending'.token # None => o.email # pending'.token.email
          /\ o.email \notin OnRecord'
  BY <1>1, <1>2 DEF CalmInv
<1>6. \A k \in Calls : call'[k].email \notin elsewhere' => Honest(k)'
  BY <1>1, <1>3 DEF CalmInv, Honest
<1>7. page'.token # None /\ page'.token.email \in OnRecord' \ elsewhere' =>
          /\ pending'.of = "submit"
          /\ \/ pending'.answer = "done"
             \/ /\ pending'.answer = "none"
                /\ \A j \in Jobs : pending'.handler = j => job'[j].at \in {"mail", "rest"}
  BY <1>1, <1>3 DEF CalmInv
<1>8. \A j \in Jobs : job'[j].email \notin elsewhere' => ~job'[j].hit
  BY <1>1, <1>3 DEF CalmInv
<1>9. /\ pending'.answer = "member" => page'.token # None /\ page'.token.email \in elsewhere'
      /\ pending'.token # None => pending'.token.email \notin OnRecord' \ elsewhere'
  BY <1>1 DEF CalmInv
<1> QED
  BY <1>4, <1>5, <1>6, <1>7, <1>8, <1>9 DEF CalmInv

LEMMA QuietInductive ==
    ASSUME Typed, FormTyped, ServedInv, OwnerInv, QuietInv, [FormNext]_allVars
    PROVE  QuietInv'
<1> SUFFICES ASSUME ~lost' PROVE CalmInv'
  BY DEF QuietInv
<1>1. ~lost
  BY DEF FormNext, TypeEmail, AskCode, AskVerify, OtpServes, Submit, MembersServe, OthersAsk,
         OthersRegister, SubmitUnvouched, TurnPage, Reload, ServerFails, ServerCrashes, TimePasses,
         AdminDeletes, HearCode, HearVerdict, HearSubmitted, HearNotSubmitted, LoseAnswer,
         formVars, allVars
<1>2. CalmInv
  BY <1>1 DEF QuietInv
<1> QED
  BY <1>2, PersonKeepsCalm, AskKeepsCalm, SubmitKeepsCalm, OthersKeepCalm, CallKeepsCalm,
     JobKeepsCalm, WorldKeepsCalm, FormCases

-----------------------------------------------------------------------------
(* The form with the service behind it.                                    *)

FormInv ==
    /\ Typed /\ FormTyped
    /\ ServedInv /\ OwnerInv
    /\ WelcomeInv /\ QuietInv

LEMMA FormInductive == FormInv /\ VerifiedInv /\ LedgerInv /\ [FormNext]_allVars => FormInv'
<1> SUFFICES ASSUME FormInv, VerifiedInv, LedgerInv, [FormNext]_allVars PROVE FormInv'
  OBVIOUS
<1> USE DEF FormInv
<1>1. Typed'
  BY FormStepIsServiceStep, ServiceInductive
<1>2. FormTyped'
  BY FormTypeKept, PendingShapedKept DEF FormTyped
<1> QED
  BY <1>1, <1>2, ServedInductive, OwnerInductive, WelcomeInductive,
     QuietInductive

LEMMA FormInitially == FormInit => FormInv
<1> SUFFICES ASSUME FormInit PROVE FormInv
  OBVIOUS
<1>1. /\ page = Blank /\ pending = Idle /\ edited = FALSE /\ lost = FALSE
      /\ asked = 0 /\ elsewhere = {} /\ welcomed = {} /\ removed = {}
  BY DEF FormInit
<1>2. /\ staffGuests = {} /\ otps = {}
      /\ \A j \in Jobs : job[j] = Members!Rest
      /\ \A k \in Calls : call[k] = Otps!Rest
  BY DEF FormInit, Init, Members!Init
<1>3. Typed
  BY ServiceInitially DEF FormInit
<1>4. FormTypeOK
  <2>1. asked \in 0 .. MaxOthers
    BY <1>1, MaxOthersAssumption DEF MaxOthersAssumption
  <2> QED
    BY <1>1, <2>1, BlankAndIdle, FormTypeParts
<1>5. PendingShaped
  BY <1>1 DEF PendingShaped, Idle, Blank
<1>6. /\ \A j \in Jobs : job[j].at = "rest" /\ ~job[j].hit
      /\ \A k \in Calls : call[k].at = "rest"
  BY <1>2, RestIsFree, RestCallIsShaped
<1>7. ServedInv /\ OwnerInv
  BY <1>1, <1>6 DEF ServedInv, OwnerInv, VerifiedOwnsToken, Idle, Blank, Awaited
<1>8. WelcomeInv
  BY <1>1, <1>2, <1>6 DEF WelcomeInv, WelcomedAreOnRecord, Idle
<1>9. CalmInv
  BY <1>1, <1>2, <1>6 DEF CalmInv, Honest, Idle, Blank
<1> QED
  BY <1>3, <1>4, <1>5, <1>7, <1>8, <1>9 DEF FormInv, FormTyped, QuietInv

LEMMA FormAlways == FormSpec => [](FormInv /\ VerifiedInv /\ LedgerInv)
<1>1. FormInit => FormInv /\ VerifiedInv /\ LedgerInv
  BY FormInitially, ServiceInitially DEF FormInit
<1>2. FormInv /\ VerifiedInv /\ LedgerInv /\ [FormNext]_allVars
         => (FormInv /\ VerifiedInv /\ LedgerInv)'
  <2> SUFFICES ASSUME FormInv, VerifiedInv, LedgerInv, [FormNext]_allVars
               PROVE  (FormInv /\ VerifiedInv /\ LedgerInv)'
    OBVIOUS
  <2>1. [Next]_vars
    BY FormStepIsServiceStep DEF FormInv
  <2> QED
    BY <2>1, FormInductive, ServiceInductive DEF FormInv
<1> QED
  BY <1>1, <1>2, PTL DEF FormSpec

\* What the form holds and waits for keeps its type, whichever request is
\* served, lost, refused or overtaken by a reload.
THEOREM FormTypeCorrect == FormSpec => []FormTypeOK
<1>1. FormInv => FormTypeOK
  BY DEF FormInv, FormTyped
<1> QED
  BY <1>1, FormAlways, PTL

\* The form and the other clients are clients the service allows: with their
\* handlers, the answers and their loss, the server behind them does nothing but
\* what RegistrationService says, so all that is proved of it holds with them.
THEOREM FormRefinesService == FormSpec => Spec
<1>1. FormInit => Init
  BY DEF FormInit
<1>2. FormInv /\ [FormNext]_allVars => [Next]_vars
  BY FormStepIsServiceStep DEF FormInv
<1> QED
  BY <1>1, <1>2, FormAlways, PTL DEF FormSpec, Spec

\* Nobody becomes a member through the form without a code mailed to the
\* address on the record and shown.
THEOREM FormMembersAreVerified == FormSpec => []EveryMemberVerified
  BY FormRefinesService, MembersAreVerified, PTL

\* The email the form shows as verified is the one its token was signed for,
\* unless it was changed while its code was being verified.
THEOREM TheTokenIsTheEmails == FormSpec => []VerifiedOwnsToken
<1>1. FormInv => VerifiedOwnsToken
  BY DEF FormInv, OwnerInv
<1> QED
  BY <1>1, FormAlways, PTL

\* Whoever the form told "Submitted" or "Already submitted" was put on record,
\* and off it only by an administrator.
THEOREM TheWelcomedAreOnRecord == FormSpec => []WelcomedAreOnRecord
<1>1. FormInv => WelcomedAreOnRecord
  BY DEF FormInv, WelcomeInv
<1> QED
  BY <1>1, FormAlways, PTL

LEMMA CalmIsTrue == FormInv => FailureToldTruly
<1> SUFFICES ASSUME FormInv, pending.of = "submit", pending.answer = "refused",
                    pending.email \in OnRecord, ~lost, ~edited,
                    pending.email \notin elsewhere
             PROVE  FALSE
  BY DEF FailureToldTruly
<1> USE DEF FormInv, FormTyped
<1>1. CalmInv
  BY DEF QuietInv
<1>2. page.verified /\ page.token # None
  BY DEF OwnerInv, PendingShaped
<1>3. pending.email = page.token.email
  BY <1>2 DEF OwnerInv, VerifiedOwnsToken
<1> QED
  BY <1>1, <1>2, <1>3 DEF CalmInv

\* As long as every answer reached the form, the email was not changed under its
\* own verification and no other client asked for anything for it, nobody on
\* record is shown "Transmission Failed", whatever other clients do with other
\* emails (and their handlers with the counters and indexes all share).
THEOREM FailureIsToldTruly == FormSpec => []FailureToldTruly
  BY CalmIsTrue, FormAlways, PTL
====
