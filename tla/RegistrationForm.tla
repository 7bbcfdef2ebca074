---- MODULE RegistrationForm ----
(***************************************************************************)
(* The membership form of the main site (RegistrationPage) in one browser  *)
(* tab, as a client of RegistrationService: its three steps, the proof of  *)
(* the email on the first and the submission on the last.  The server has  *)
(* other clients too (a second tab or device, the forms of other members), *)
(* which ask it for anything it serves.                                    *)
(*                                                                         *)
(* `pending` is the request the form waits for.  Its handler runs on the   *)
(* server whether or not the form still waits; the answer travels and may  *)
(* be lost.  The fields other than the email are filled in whenever the    *)
(* person goes on.  The countdown to a second code is left out: while it   *)
(* runs the field for the code stands in the place of its button.          *)
(***************************************************************************)
EXTENDS RegistrationService

CONSTANTS
    MaxOthers,        \* bound: codes and verifications other clients ask for
    OtherAdmissions   \* bound: the admission numbers they state, None for none

ASSUME MaxOthersAssumption == MaxOthers \in Nat

\* Handlers are told apart, and None is no handler and no token.
ASSUME HandlersAssumption ==
    /\ Calls \cap Jobs = {}
    /\ None \notin Calls \cup Jobs \cup [email : Emails, from : 1 .. MaxOtps]

VARIABLES
    page,      \* what the form holds
    pending,   \* the request it waits for
    edited,    \* history: the email was changed while its code was being verified
    lost,      \* history: an answer did not reach the form
    asked,     \* codes and verifications other clients asked for so far
    elsewhere, \* history: emails for which another client asked for something
    welcomed,  \* history: emails told they are submitted, now or already
    removed    \* history: emails an administrator took off the record

formVars == <<page, pending, edited, lost, asked, elsewhere, welcomed, removed>>
allVars == <<vars, formVars>>

Token == [email : Emails, from : 1 .. MaxOtps]

Blank == [step |-> 1, email |-> None, verified |-> FALSE, shown |-> FALSE, token |-> None]

Idle == [of |-> "none", email |-> None, handler |-> None, answer |-> "none", token |-> None]

FormTypeOK ==
    /\ page \in [step : 1 .. 3, email : Emails \cup {None}, verified : BOOLEAN,
                 shown : BOOLEAN, token : Token \cup {None}]
    /\ pending \in [of : {"none", "send", "verify", "submit"}, email : Emails \cup {None},
                    handler : Calls \cup Jobs \cup {None}, token : Token \cup {None},
                    answer : {"none", "done", "member", "refused"}]
    /\ edited \in BOOLEAN /\ lost \in BOOLEAN /\ asked \in 0 .. MaxOthers
    /\ elsewhere \subseteq Emails /\ welcomed \subseteq Emails /\ removed \subseteq Emails

FormInit ==
    /\ Init
    /\ page = Blank
    /\ pending = Idle
    /\ edited = FALSE /\ lost = FALSE /\ asked = 0
    /\ elsewhere = {} /\ welcomed = {} /\ removed = {}

\* The emails on record, in either collection.
OnRecord == {x[1] : x \in Enrolled}

-----------------------------------------------------------------------------
(* The person at the form.                                                 *)

\* Variant: the field stays open after the verification.
EmailAlwaysOpen == page.step = 1

\* The field is locked by the verification, not by a verification in flight.
EmailOpen == page.step = 1 /\ ~page.verified

\* Once the field for the code is shown nothing brings the button back.
CodeButton == page.step = 1 /\ ~page.verified /\ ~page.shown
CodeField == page.step = 1 /\ ~page.verified /\ page.shown

\* The step of the skills carries the submit button.
SubmitButton == page.step = 3

TypeEmail(e) ==
    /\ EmailOpen
    /\ e # page.email
    /\ page' = [page EXCEPT !.email = e]
    /\ edited' = (edited \/ pending.of = "verify")
    /\ UNCHANGED <<vars, pending, lost, asked, elsewhere, welcomed, removed>>

Wait(of, h) ==
    /\ pending = Idle
    /\ pending' = [Idle EXCEPT !.of = of, !.email = page.email, !.handler = h]

AskCode(k) ==
    /\ CodeButton /\ page.email # None
    /\ Wait("send", k)
    /\ UNCHANGED <<memberVars, page, edited, lost, asked, elsewhere, welcomed, removed>>
    /\ Otps!BeginSend(k, page.email, TRUE)

AskVerify(k) ==
    /\ CodeField /\ page.email # None
    /\ Wait("verify", k)
    /\ edited' = FALSE
    /\ UNCHANGED <<memberVars, page, lost, asked, elsewhere, welcomed, removed>>
    /\ \E code \in Codes : Otps!BeginVerify(k, page.email, code, "verify")

TurnPage ==
    /\ \/ page.step < 3 /\ page.verified /\ page' = [page EXCEPT !.step = @ + 1]
       \/ page.step > 1 /\ page' = [page EXCEPT !.step = @ - 1]
    /\ UNCHANGED <<vars, pending, edited, lost, asked, elsewhere, welcomed, removed>>

\* The server checks the token before anything else: signature and expiry
\* (`tokens` holds what has not expired), then the email it was signed for.
Vouched == page.token \in tokens /\ TokenVouches(page.token, page.email)

Submit(j) ==
    /\ SubmitButton /\ page.verified
    /\ job[j] = Members!Rest
    /\ Wait("submit", j)
    /\ Vouched
    /\ \E c \in Cohorts, adm \in Admissions :
          Members!BeginStudent(j, page.email, c, "plain", adm)
    /\ UNCHANGED <<otpVars, page, edited, lost, asked, elsewhere, welcomed, removed>>

SubmitUnvouched ==
    /\ SubmitButton /\ page.verified
    /\ ~Vouched
    /\ pending = Idle
    /\ pending' = [Idle EXCEPT !.of = "submit", !.email = page.email, !.answer = "refused"]
    /\ UNCHANGED <<vars, page, edited, lost, asked, elsewhere, welcomed, removed>>

\* Every state of the page is local and gone.
Reload ==
    /\ page # Blank
    /\ page' = Blank
    /\ pending' = Idle
    /\ edited' = FALSE
    /\ lost' = (lost \/ pending # Idle)
    /\ UNCHANGED <<vars, asked, elsewhere, welcomed, removed>>

-----------------------------------------------------------------------------
(* The server works on; the handler the form waits for ends with an answer. *)

Reply(h, answer, token) ==
    IF pending.handler = h /\ pending.answer = "none"
    THEN pending' = [pending EXCEPT !.answer = answer, !.token = token]
    ELSE UNCHANGED pending

OtpServes(k) ==
    /\ UNCHANGED <<memberVars, page, edited, lost, asked, elsewhere, welcomed, removed>>
    /\ Otps!Step(k)
    /\ IF call'[k].at # "rest" THEN UNCHANGED pending
       ELSE CASE call[k].at = "mail" -> Reply(k, "done", None)
              [] call[k].at = "consume" ->
                    Reply(k, "done", [email |-> call[k].email, from |-> call[k].id])
              [] OTHER -> Reply(k, "refused", None)

\* 409 of the look-up names the member's ID, 409 of an index does not.
MembersServe(j) ==
    /\ Members!Step(j)
    /\ IF job'[j].at # "rest" THEN UNCHANGED pending
       ELSE CASE job[j].at = "mail" -> Reply(j, "done", None)
              [] job[j].at = "check" -> Reply(j, "member", None)
              [] OTHER -> Reply(j, "refused", None)
    /\ UNCHANGED <<otpVars, page, edited, lost, asked, elsewhere, welcomed, removed>>

ServerFails ==
    /\ \/ \E k \in Calls : /\ UNCHANGED memberVars
                           /\ Otps!Fail(k)
                           /\ Reply(k, "refused", None)
       \/ \E j \in Jobs : /\ Members!Fail(j)
                          /\ Reply(j, "refused", None)
                          /\ UNCHANGED otpVars
    /\ UNCHANGED <<page, edited, lost, asked, elsewhere, welcomed, removed>>

ServerCrashes == Crash /\ UNCHANGED formVars

TimePasses == UNCHANGED <<memberVars, formVars>> /\ Otps!Clock

AdminDeletes ==
    /\ Members!DeleteStudent \/ Members!DeleteStaffGuest
    /\ removed' = removed \cup (OnRecord \ OnRecord')
    /\ UNCHANGED <<otpVars, page, pending, edited, lost, asked, elsewhere, welcomed>>

-----------------------------------------------------------------------------
(* The other clients.  A request of theirs gets a handler of its own.      *)

Awaited(h) == pending.handler = h /\ pending.answer = "none"

OthersAsk(k) ==
    /\ ~Awaited(k)
    /\ asked < MaxOthers
    /\ asked' = asked + 1
    /\ UNCHANGED <<memberVars, page, pending, edited, lost, welcomed, removed>>
    /\ Otps!Arrive(k)
    /\ elsewhere' = elsewhere \cup {call'[k].email}

\* Through any form the server has, for an email they had verified.
OthersRegister(j) ==
    /\ ~Awaited(j)
    /\ RegisterWithToken(j) \/ RegisterWithCode(j)
    /\ job'[j].email \in elsewhere
    /\ job'[j].adm \in OtherAdmissions
    /\ UNCHANGED formVars

-----------------------------------------------------------------------------
(* The form hears.                                                         *)

HearCode ==
    /\ pending.of = "send" /\ pending.answer # "none"
    /\ page' = [page EXCEPT !.shown = pending.answer = "done"]
    /\ pending' = Idle
    /\ UNCHANGED <<vars, edited, lost, asked, elsewhere, welcomed, removed>>

\* Whatever email the form shows by now is the verified one.
HearVerdict ==
    /\ pending.of = "verify" /\ pending.answer # "none"
    /\ page' = IF pending.answer = "done"
               THEN [page EXCEPT !.verified = TRUE, !.shown = FALSE, !.token = pending.token]
               ELSE page
    /\ pending' = Idle
    /\ UNCHANGED <<vars, edited, lost, asked, elsewhere, welcomed, removed>>

\* 201: the form is emptied for another person.
HearSubmitted ==
    /\ pending.of = "submit" /\ pending.answer = "done"
    /\ page' = Blank
    /\ pending' = Idle
    /\ welcomed' = welcomed \cup {pending.email}
    /\ UNCHANGED <<vars, edited, lost, asked, elsewhere, removed>>

\* Variant: any refusal is taken for a double submission.
SaysMemberAlways == pending.answer \in {"member", "refused"}

\* "If the user double-submits, the first request can succeed and the second can return 409."
SaysMember == pending.answer = "member"

\* Already submitted, or "Transmission Failed": the form stays as it is.
HearNotSubmitted ==
    /\ pending.of = "submit" /\ pending.answer \in {"member", "refused"}
    /\ welcomed' = IF SaysMember THEN welcomed \cup {pending.email} ELSE welcomed
    /\ pending' = Idle
    /\ UNCHANGED <<vars, page, edited, lost, asked, elsewhere, removed>>

\* "No response from server": the request may have been served, or be running.
LoseAnswer ==
    /\ pending # Idle
    /\ pending' = Idle
    /\ lost' = TRUE
    /\ UNCHANGED <<vars, page, edited, asked, elsewhere, welcomed, removed>>

FormNext ==
    \/ \E e \in Emails : TypeEmail(e)
    \/ \E k \in Calls : AskCode(k) \/ AskVerify(k) \/ OtpServes(k) \/ OthersAsk(k)
    \/ \E j \in Jobs : Submit(j) \/ MembersServe(j) \/ OthersRegister(j)
    \/ SubmitUnvouched
    \/ TurnPage
    \/ Reload
    \/ ServerFails
    \/ ServerCrashes
    \/ TimePasses
    \/ AdminDeletes
    \/ HearCode
    \/ HearVerdict
    \/ HearSubmitted
    \/ HearNotSubmitted
    \/ LoseAnswer

FormSpec == FormInit /\ [][FormNext]_allVars

-----------------------------------------------------------------------------
(* Properties.                                                             *)

\* An email the form shows as verified is the one its token was signed for,
\* unless the person changed it while the code was being verified: then the
\* field is locked, the server refuses every submission, and only a reload
\* helps.
VerifiedOwnsToken ==
    page.verified => edited \/ (page.token # None /\ page.token.email = page.email)

\* As long as every answer reaches the form, nobody on record whose email only
\* this form asked about is shown "Transmission Failed", whatever other clients
\* ask for other emails meanwhile: what is answered with it has recorded
\* nothing, and who is on record gets no code to verify the email with again.
\* After a lost answer, or when a second tab or device asks for the same email,
\* it happens: the token has expired since (it is checked before the member is
\* looked up), an index refuses the second of two overlapping submissions, or a
\* code asked for earlier arrives after the registration.  (Or the token is
\* another email's, which VerifiedOwnsToken is about.)
FailureToldTruly ==
    /\ pending.of = "submit" /\ pending.answer = "refused"
    /\ pending.email \in OnRecord
    => lost \/ edited \/ pending.email \in elsewhere

\* Whoever was told "Submitted" or "Already submitted" was put on record, and
\* off it only by an administrator, whatever answers were lost or handlers died.
WelcomedAreOnRecord == welcomed \subseteq OnRecord \cup removed
====
