---- MODULE RegistrationService ----
(***************************************************************************)
(* Registration end to end: a handler of Membership starts once its proof  *)
(* of email ownership, issued by OtpVerification, is accepted; and sendOTP *)
(* turns away emails that Membership has on record.                        *)
(***************************************************************************)
EXTENDS Integers, FiniteSets

CONSTANTS
    Emails, Cohorts, Prefixes, Admissions, Jobs, Limit, Legacy, MaxRequests,
    Codes, Calls, MaxOtps,
    None

ASSUME NoneAssumption == None \notin Emails \cup Cohorts \cup Prefixes \cup Admissions \cup Codes

ASSUME MaxOtpsAssumption == MaxOtps \in Nat

VARIABLES
    registrations, staffGuests, counter, job, received, overtaken, forestalled,
    otps, sends, call, tokens, mailedTo, accepted

memberVars == <<registrations, staffGuests, counter, job, received, overtaken, forestalled>>
otpVars == <<otps, sends, call, tokens, mailedTo, accepted>>
vars == <<memberVars, otpVars>>

\* The emails sendOTP finds in the two registration collections.
Enrolled ==
    {<<d.email, "registrations">> : d \in registrations}
      \cup {<<d.email, "staffGuests">> : d \in staffGuests}

Members == INSTANCE Membership
Otps == INSTANCE OtpVerification WITH enrolled <- Enrolled

ASSUME LegacyAssumption == Legacy \subseteq Members!Student

Init ==
    /\ Members!Init
    /\ otps = {}
    /\ sends = 0
    /\ call = [k \in Calls |-> Otps!Rest]
    /\ tokens = {}
    /\ mailedTo = [i \in 1 .. MaxOtps |-> None]
    /\ accepted = [i \in 1 .. MaxOtps |-> 0]

\* Variant: the token's email is not compared with the request's.
AnyTokenVouches(t, e) == TRUE

\* verifyOtpTokenOrThrow: a signed, unexpired token of this very email.
TokenVouches(t, e) == t.email = e

\* The handler's entry, whichever form it serves.
Enter(j, e) ==
    \/ \E c \in Cohorts, lane \in Members!Lanes, adm \in Admissions \cup {None} :
          Members!BeginStudent(j, e, c, lane, adm)
    \/ \E p \in Prefixes : Members!BeginStaffGuest(j, e, p)

\* The token is checked without a wait and is not used up.
RegisterWithToken(j) ==
    /\ \E t \in tokens, e \in Emails : TokenVouches(t, e) /\ Enter(j, e)
    /\ UNCHANGED otpVars

\* The legacy form sends the code itself; verifyOtpOrThrow has just passed.
RegisterWithCode(j) ==
    \E k \in Calls :
        /\ call[k].at = "passed"
        /\ Enter(j, call[k].email)
        /\ Otps!Return(k)

MemberStep ==
    /\ \/ \E j \in Jobs : Members!Step(j) \/ Members!Fail(j)
       \/ Members!DeleteStudent
       \/ Members!DeleteStaffGuest
    /\ UNCHANGED otpVars

OtpStep ==
    /\ UNCHANGED memberVars
    /\ \/ \E k \in Calls : Otps!Arrive(k) \/ Otps!Step(k) \/ Otps!Fail(k)
       \/ Otps!Clock

Crash == Members!Crash /\ Otps!Crash

Next ==
    \/ \E j \in Jobs : RegisterWithToken(j) \/ RegisterWithCode(j)
    \/ MemberStep
    \/ OtpStep
    \/ Crash

Spec == Init /\ [][Next]_vars

-----------------------------------------------------------------------------

\* Nobody becomes a member without having shown a code that was mailed to the
\* very address on the record, whichever form and proof was used and however
\* requests, deletions, expiries and crashes interleave.
EveryMemberVerified ==
    \A e \in {d.email : d \in registrations \ Legacy} \cup {d.email : d \in staffGuests} :
        \E i \in 1 .. MaxOtps : mailedTo[i] = e /\ accepted[i] > 0
====
