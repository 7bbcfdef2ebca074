---- MODULE OtpVerification ----
(***************************************************************************)
(* Proof of email ownership: sendOTP, verifyOTP and the raw-code check     *)
(* verifyOtpOrThrow over the OTP collection, and the signed tokens that    *)
(* verifyOTP hands out.  A handler is an entry of `call` and takes one     *)
(* step per awaited database call.                                         *)
(*                                                                         *)
(* `enrolled` is the pairs <<email, collection>> of the registration       *)
(* collections, which sendOTP reads and another component changes.         *)
(***************************************************************************)
EXTENDS Integers, FiniteSets

CONSTANTS
    Emails,       \* email addresses, normalised
    Codes,        \* what generateNumericOtp can draw
    Calls,        \* OTP requests the server may be handling at once
    None,         \* no email, no code
    MaxOtps       \* bound: sendOTP requests received in a behaviour

Collections == {"registrations", "staffGuests"}

ASSUME MaxOtpsAssumption == MaxOtps \in Nat

ASSUME CallsAssumption == IsFiniteSet(Calls)

ASSUME NoneAssumption == None \notin Emails \cup Codes

VARIABLES
    otps,      \* collection "otps"; `live` until expiresAt has passed
    sends,     \* sendOTP requests received, which numbers the codes
    call,      \* the handlers in flight
    tokens,    \* otpTokens signed and not yet expired: whose email, from which code
    mailedTo,  \* history: the address each code was drawn for
    accepted,  \* history: how often each code was accepted
    enrolled   \* environment: emails per registration collection

vars == <<otps, sends, call, tokens, mailedTo, accepted, enrolled>>

Ids == 1 .. MaxOtps

Otp == [id : Ids, email : Emails, code : Codes, live : BOOLEAN]

Kinds == {"send", "verify", "raw"}
Steps == {"rest", "check", "clear", "store", "mail", "read", "purge", "consume", "passed"}

\* `id` is the code a send is about to store, or the one a verify has matched.
Call == [at : Steps, kind : Kinds, email : Emails \cup {None},
         code : Codes \cup {None}, todo : SUBSET Collections, hit : BOOLEAN,
         id : {0} \cup Ids]

Rest == [at |-> "rest", kind |-> "send", email |-> None, code |-> None,
         todo |-> {}, hit |-> FALSE, id |-> 0]

Token == [email : Emails, from : Ids]

TypeOK ==
    /\ otps \subseteq Otp
    /\ sends \in 0 .. MaxOtps
    /\ call \in [Calls -> Call]
    /\ tokens \subseteq Token
    /\ mailedTo \in [Ids -> Emails \cup {None}]
    /\ accepted \in [Ids -> Nat]
    /\ enrolled \subseteq (Emails \X Collections)

Init ==
    /\ otps = {}
    /\ sends = 0
    /\ call = [k \in Calls |-> Rest]
    /\ tokens = {}
    /\ mailedTo = [i \in Ids |-> None]
    /\ accepted = [i \in Ids |-> 0]
    /\ enrolled = {}

Records(e) == {o \in otps : o.email = e}

Move(k, to) == call' = [call EXCEPT ![k].at = to]
Finish(k) == call' = [call EXCEPT ![k] = Rest]

-----------------------------------------------------------------------------
(* sendOTP.                                                                *)

\* Only the registration flow, which identifies itself by email, is checked
\* against the members on record.
BeginSend(k, e, checked) ==
    /\ call[k] = Rest
    /\ sends < MaxOtps
    /\ sends' = sends + 1
    /\ call' = [call EXCEPT ![k] =
                  [at |-> IF checked THEN "check" ELSE "clear", kind |-> "send",
                   email |-> e, code |-> None,
                   todo |-> IF checked THEN Collections ELSE {},
                   hit |-> FALSE, id |-> sends + 1]]
    /\ UNCHANGED <<otps, tokens, mailedTo, accepted, enrolled>>

\* One of the two parallel lookups; the last one decides: 409 or on.
CheckEmail(k, coll) ==
    LET left == call[k].todo \ {coll}
        hit == call[k].hit \/ <<call[k].email, coll>> \in enrolled
    IN  /\ call[k].at = "check"
        /\ coll \in call[k].todo
        /\ call' = [call EXCEPT ![k] =
                      IF left # {} THEN [@ EXCEPT !.todo = left, !.hit = hit]
                      ELSE IF hit THEN Rest
                      ELSE [@ EXCEPT !.at = "clear", !.todo = {}]]
        /\ UNCHANGED <<otps, sends, tokens, mailedTo, accepted, enrolled>>

\* Variant: the old codes are kept.
ClearNothing(k) ==
    /\ call[k].at = "clear"
    /\ Move(k, "store")
    /\ UNCHANGED <<otps, sends, tokens, mailedTo, accepted, enrolled>>

\* OTP.deleteMany({ email })
ClearOld(k) ==
    /\ call[k].at = "clear"
    /\ otps' = otps \ Records(call[k].email)
    /\ Move(k, "store")
    /\ UNCHANGED <<sends, tokens, mailedTo, accepted, enrolled>>

\* OTP.create; the code was drawn before the delete, which no step can tell.
Store(k) ==
    /\ call[k].at = "store"
    /\ \E code \in Codes :
          otps' = otps \cup {[id |-> call[k].id, email |-> call[k].email,
                              code |-> code, live |-> TRUE]}
    /\ mailedTo' = [mailedTo EXCEPT ![call[k].id] = call[k].email]
    /\ Move(k, "mail")
    /\ UNCHANGED <<sends, tokens, accepted, enrolled>>

\* sendMail reports its failure instead of throwing; the answer is 200.
MailCode(k) ==
    /\ call[k].at = "mail"
    /\ Finish(k)
    /\ UNCHANGED <<otps, sends, tokens, mailedTo, accepted, enrolled>>

-----------------------------------------------------------------------------
(* verifyOTP, and verifyOtpOrThrow inside a registration ("raw").          *)

BeginVerify(k, e, code, kind) ==
    /\ call[k] = Rest
    /\ call' = [call EXCEPT ![k] = [Rest EXCEPT !.at = "read", !.kind = kind,
                                               !.email = e, !.code = code]]
    /\ UNCHANGED <<otps, sends, tokens, mailedTo, accepted, enrolled>>

\* OTP.findOne({ email }): any one record, if several are there.
ReadNothing(k) ==
    /\ call[k].at = "read"
    /\ Records(call[k].email) = {}
    /\ Move(k, "purge")
    /\ UNCHANGED <<otps, sends, tokens, mailedTo, accepted, enrolled>>

\* What the record read makes of the request: an expired one is purged, a
\* wrong code is answered with 400, the right one is consumed.
Judge(k, o) ==
    IF ~o.live THEN [call[k] EXCEPT !.at = "purge"]
    ELSE IF o.code # call[k].code THEN Rest
    ELSE [call[k] EXCEPT !.at = "consume", !.id = o.id]

ReadCode(k) ==
    /\ call[k].at = "read"
    /\ \E o \in Records(call[k].email) :
          call' = [call EXCEPT ![k] = Judge(k, o)]
    /\ UNCHANGED <<otps, sends, tokens, mailedTo, accepted, enrolled>>

\* Missing or expired: delete whatever is stored for the email by now, 400.
Purge(k) ==
    /\ call[k].at = "purge"
    /\ otps' = otps \ Records(call[k].email)
    /\ Finish(k)
    /\ UNCHANGED <<sends, tokens, mailedTo, accepted, enrolled>>

\* Variant: the code stays after it was accepted.
ConsumeKeeping(k) ==
    /\ call[k].at = "consume"
    /\ accepted' = [accepted EXCEPT ![call[k].id] = @ + 1]
    /\ tokens' = tokens \cup {[email |-> call[k].email, from |-> call[k].id]}
    /\ Finish(k)
    /\ UNCHANGED <<otps, sends, mailedTo, enrolled>>

\* Delete the email's codes and accept: verifyOTP signs a token and answers,
\* the raw check returns to the registration handler that called it.
Consume(k) ==
    /\ call[k].at = "consume"
    /\ otps' = otps \ Records(call[k].email)
    /\ accepted' = [accepted EXCEPT ![call[k].id] = @ + 1]
    /\ IF call[k].kind = "raw"
       THEN Move(k, "passed") /\ UNCHANGED tokens
       ELSE /\ tokens' = tokens \cup {[email |-> call[k].email, from |-> call[k].id]}
            /\ Finish(k)
    /\ UNCHANGED <<sends, mailedTo, enrolled>>

\* The registration handler takes over.
Return(k) ==
    /\ call[k].at = "passed"
    /\ Finish(k)
    /\ UNCHANGED <<otps, sends, tokens, mailedTo, accepted, enrolled>>

-----------------------------------------------------------------------------
(* Time, failure and the environment.                                      *)

\* expiresAt passes (5 minutes); the TTL index removes the document later.
OtpExpires ==
    \E o \in otps :
        /\ o.live
        /\ otps' = (otps \ {o}) \cup {[o EXCEPT !.live = FALSE]}
        /\ UNCHANGED <<sends, call, tokens, mailedTo, accepted, enrolled>>

TtlSweep ==
    \E o \in otps :
        /\ ~o.live
        /\ otps' = otps \ {o}
        /\ UNCHANGED <<sends, call, tokens, mailedTo, accepted, enrolled>>

\* The 10 minutes of a token end.
TokenExpires ==
    \E t \in tokens :
        /\ tokens' = tokens \ {t}
        /\ UNCHANGED <<otps, sends, call, mailedTo, accepted, enrolled>>

\* A database error: 500 (or 400 from the raw check), nothing undone.
Fail(k) ==
    /\ call[k].at \notin {"rest", "mail", "passed"}
    /\ Finish(k)
    /\ UNCHANGED <<otps, sends, tokens, mailedTo, accepted, enrolled>>

\* The process dies and restarts: tokens live with the clients.
Crash ==
    /\ call' = [k \in Calls |-> Rest]
    /\ UNCHANGED <<otps, sends, tokens, mailedTo, accepted, enrolled>>

\* Registrations come and go.
EnrolledChanges ==
    /\ \E x \in Emails \X Collections :
          enrolled' = IF x \in enrolled THEN enrolled \ {x} ELSE enrolled \cup {x}
    /\ UNCHANGED <<otps, sends, call, tokens, mailedTo, accepted>>

Step(k) ==
    \/ \E coll \in Collections : CheckEmail(k, coll)
    \/ ClearOld(k)
    \/ Store(k)
    \/ MailCode(k)
    \/ ReadNothing(k)
    \/ ReadCode(k)
    \/ Purge(k)
    \/ Consume(k)

Arrive(k) ==
    \/ \E e \in Emails, checked \in BOOLEAN : BeginSend(k, e, checked)
    \/ \E e \in Emails, code \in Codes, kind \in {"verify", "raw"} :
          BeginVerify(k, e, code, kind)

Clock == OtpExpires \/ TtlSweep \/ TokenExpires

Next ==
    \/ \E k \in Calls : Arrive(k) \/ Step(k) \/ Return(k) \/ Fail(k)
    \/ Clock
    \/ Crash
    \/ EnrolledChanges

Spec == Init /\ [][Next]_vars

-----------------------------------------------------------------------------
(* Properties.                                                             *)

\* "One-time use." (verifyOTP): a code is accepted once.  Two overlapping calls
\* both read the code before either deletes it: it does not hold.
OneTimeUse == \A i \in Ids : accepted[i] <= 1

\* What holds under concurrency: a code is accepted at most once by each
\* request the server may be handling at once, because whoever accepts it
\* deletes it and only requests that had read it before can follow.
AcceptedOncePerCall == \A i \in Ids : accepted[i] <= Cardinality(Calls)

\* sendOTP deletes the email's codes before it stores a new one, so several
\* codes for one email can be valid together only if as many requests overlap.
FewCodes ==
    \A e \in Emails :
        Cardinality(Records(e))
          + Cardinality({k \in Calls : call[k].at = "store" /\ call[k].email = e})
        <= Cardinality(Calls)

\* A token vouches for the mailbox the accepted code was sent to.
TokenProvesMailbox ==
    \A t \in tokens : mailedTo[t.from] = t.email /\ accepted[t.from] > 0
====
