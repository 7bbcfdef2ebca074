# IEDC ecosystem: formal models

TLA+ models of the IEDC ecosystem: the API server (`src/server`), the admin portal
(`src/apps/admin-portal`) and the main site (`src/apps/main-site`). The modules are translated from the
server's handlers and from the pages that call them; TLC checks them on small instances and TLAPS proves
the main results for every size.

## The system

One Node process (Express 4, Mongoose) serves both web applications over one MongoDB database. All
state that lasts is in the database; what is in memory is the handlers that are waiting for an answer.
There are no transactions: a handler is a sequence of single-document calls, and at every `await`
another handler may run. Most handlers catch a rejected call and answer 500. Those of
`routes/checkinRoutes.js` do not, nor does the save at the end of a change of an event, and since
nothing in the server handles an unhandled rejection, the process ends. A restarted process finds the
database as the last completed call left it.

A page of the portal (React, react-query) holds lists that are as old as their last fetch, forms that
were filled from a row of such a list and are sent back whole, and messages that ask for confirmation. It
waits for answers that may come late, in another order or never.

| Component | State | Operations | What is hard | What makes it correct |
| --- | --- | --- | --- | --- |
| Membership registration | `registrations`, `staff_guest_registrations`, `registration_counters` | register a student, register staff or guest, delete | read, then write, over two collections and a counter; failures between the counter and the insert | student numbers are unique and never reissued; one record per email; every request is answered |
| OTP verification | `otps`, signed tokens held by clients | send a code, verify it, verify inside a registration | find and delete in two calls, delete and create in two calls, expiry | a code is accepted once; a token proves its mailbox; only proven addresses become members |
| Registration form | one tab: email, code, token, step | ask for a code, verify, submit, reload | late and lost answers, edits while waiting, double submission, a second tab or device | what the form says of the person is what the server holds |
| Makerspace check-in | `checkin_logs`, `user_statuses`, `banned_membership_ids` | scan in and out, forced checkout, ban, unban | four reads before two writes; ban against scan; a crash between two writes; an uncaught rejection | log, status and ban list agree |
| Portal users and setup links | `users`, mailed links, cookies; the page's list, dialogs and toasts | promote, update, delete, set password, log in | load, wait, save; links replaced while in use; forms older than the account | a link works once; a switched-off account has no access; a dialog changes what was touched in it |
| Portal shell and permissions | one tab: cookie, cached `/me` and `/clubs`, view mode, page | log in and out, open a page, switch views | storage shared by everybody at the browser; cached rights; effects that redirect | redirection ends; who has a usable page gets it |
| Clubs | `clubs`, the accounts' permissions; lists on screens | create, edit, delete, toggle members, add and remove leads, grant and manage access | whole lists sent from stale screens; an account saved before its club; rights lost on the way | clicks add up; who was granted access belongs; nobody hands out what they lack |
| Events | `events`; cached rows, dialogs and toasts per club | create, change, delete by two routes | the club is named by the page or found through the event; deleted clubs; an unhandled rejection | an event stays with its club's people; the page names an event with its own club |
| Execom roster | `websiteteamentries`; the list and dialog of a page; members' own page | add, edit, move, reorder, self-update by mailed link | highest-plus-one order, non-atomic reorder, optimistic list, uploads that end in another dialog | orders stay apart; the page shows what is stored; photos stay with their owner |
| Mail center | `emailtemplates`; the Mailer page | create, edit, delete, seed on use, bulk mail | seed against edit, batches, loads that overtake each other | an edit is not lost to a seed; every row of a bulk mail is mailed once; a text stands under its own template |
| Start-up | the index on the admission number, seeded documents | connect, repair the index, seed, listen | a stop between dropping and creating an index; ignored failures | uniqueness is in force while requests are served |
| Public check-in log, member lookup | `checkins` | append, list, look up | nothing: single calls | |

The components meet in the database (a registration reads what an OTP verification may use to refuse;
a promotion turns a registration into an account; a scan looks for that account; clubs, events and the
roster name accounts), in the proofs that clients carry from one handler to the next (codes, tokens,
links, the session cookie), and in the process whose end takes every handler with it.

## Modules

| Module | Models | Built on |
| --- | --- | --- |
| `MemberNumbers` | what student numbering promises, with no counter or handlers in sight | |
| `SetupLinks` | what the portal promises about the links that set a password, with no handlers, mails or page in sight | |
| `Membership` | `createStudentRegistration`, `registerStaffGuest`, the ID hook of `models/Registration.js`, `deleteRegistration` | implements `MemberNumbers` |
| `OtpVerification` | `sendOTP`, `verifyOTP`, `verifyOtpOrThrow`, tokens and expiry | |
| `RegistrationService` | the checks that lead from a proof of ownership into a registration, and from the records back into `sendOTP` | composes `Membership`, `OtpVerification` |
| `RegistrationForm` | `RegistrationPage.jsx` in one tab | client of `RegistrationService` |
| `Makerspace` | `routes/checkinRoutes.js` | |
| `PortalUsers` | `promoteToTeam`, `updateUser`, `deleteUser`, `login`, `setPassword`, `requireAuth` | implements `SetupLinks` |
| `UsersPage` | the page `Users.jsx` of an administrator | client of `PortalUsers` |
| `PortalShell` | `App.jsx`, `RequireAuth`, `RequirePermission`, `AdminLayout`, `ViewModeContext`, `Login` | |
| `Clubs` | `clubController.js`, `promoteClubPortalMember`, `updateClubPortalMember`, and what `Users.jsx` and `Events.jsx` ask of them | |
| `ClubEvents` | `eventController.js` | |
| `EventsPage` | the page `Events.jsx` of one user | client of `ClubEvents` |
| `ExecomRoster` | the roster's handlers in `teamController.js`, the list of `ExecomEntriesManager.jsx`, `TeamEntryUpdate.jsx` | |
| `RosterDialog` | the edit dialog of `ExecomEntriesManager.jsx` | client of `ExecomRoster` |
| `Startup` | `server.js`, `ensureIndexes.js`, `seedEmailTemplates.js` | |
| `MailCenter` | `emailTemplateController.js`, `upsertSystemTemplate`, the bulk mail | extends `Startup` |
| `MailerPage` | `Mailer.jsx` | client of `MailCenter` |
| `MembershipProofs`, `OtpProofs`, `ClubsProofs` | theorems about `Membership`, `OtpVerification`, `Clubs` and their proofs | each extends its module |
| `RegistrationProofs`, `AccountsProofs`, `EventsProofs`, `MailProofs` | theorems about the servers `RegistrationService`, `PortalUsers`, `ClubEvents`, `MailCenter` and about the pages in front of them | each extends the page |
| `PortalProofs` | theorems about the portal's smaller parts: `ExecomRoster` with `RosterDialog`, `Makerspace`, `PortalShell` | extends all three, whose names differ; each part is proved on its own |
| `MC...` | constants, bounds and symmetry for TLC | |

In each module a handler in flight is an entry of a function (`job`, `call`, `task`, `handler`) whose field `at` names the
call it waits for; the other fields are the local variables that a later step reads. One action is
the code from the answer of one database call to the next call, so handlers interleave exactly at the
`await`s. Two calls awaited together (`Promise.all`) are answered in either order, which is what the
field `todo` is for. A handler that answers goes back to `Rest` (`Idle`). `Fail` is a database error that is
caught (500, nothing undone), `Crash` or `Down` the end of the process.

A page is the state its components keep, one action per control, and one per fetch or answer that arrives.
A client that the properties are about is modelled with its answers: the handler's last step puts the answer
on its way, it is heard in a later step or lost, and `onSuccess` and `onError` act on whatever the page shows by
then. Other people's clients are requests with any input their pages can send.

Saving follows Mongoose: a loaded document writes back the fields that differ from what was loaded, an
array that was replaced makes the save compare the document's version, and a save of a document that is
gone is refused.

Data is reduced to what the properties tell apart. An ID is its series and its number: `IEDC24CS007` is
number 7 of a cohort, with a lane that says whether the `L` of a lateral entry is in it; staff and guest
IDs are numbers of a prefix. The three-digit match of the queries is `Limit` (999 in the code), and
numbers are not bounded otherwise. A code is a model value and has an `id` that says which `sendOTP`
drew it; a token is its email and that `id`. An account is what it may do; a photo is the entry it was
taken for; a template is its key and text; a scan's time is whether the
newest log entry is younger than the cooldown (`hot`). Wording, mail bodies and profile fields are
left out; mail is a step that cannot fail the handler, as in the code, which swallows its errors, except
where the code answers by it.

Variables commented "history" are read by properties only: they collect the requests that
another one got ahead of, the accounts, clubs or members whose requests overlapped or were cut short, and what a
page missed. The operators commented "Variant" are not part of the models: each is the definition
after it with a plausible mistake, and shows that the properties would notice it.

### Membership

`CheckEmail`, `ScanLane`, `Seed`, `Increment`, `InsertStudent`/`RefuseStudent` follow a student's
request through the duplicate check and the `pre("save")` hook: the highest number of both lanes is
read, the counter is created with it unless it exists, then incremented, then the record is written
under the unique indexes. `ScanStaffGuest`, `InsertStaffGuest`/`RefuseStaffGuest` are the
read-the-highest-and-add-one of staff and guests, which has no counter. `Legacy` are student records
from before the counters, which the code's seeding is for.

The unique index on student IDs cannot see that `IEDC24CS007` and `IEDC24CSL007` share a number; that
they never do (`NumbersUnique`) rests on the shared counter and on seeding it above both lanes.
`MemberNumbers` states the promise behind it: a number is taken once, then written or dropped, and never
handed out again. `Membership` implements it under the mapping from the counter, the numbers carried
by requests about to insert, and the numbers on record.

### OtpVerification and RegistrationService

`ClearOld` and `Store` are the two calls of a send; `ReadCode` and `Consume`, or `Purge`, those of a
verification. `findOne` without an order may return any record of an email. `RegistrationService` lets
a registration start with a token of its own email or with a code that `verifyOtpOrThrow` has just
accepted, and passes the records of `Membership` to `sendOTP`, which turns known addresses away. The
module proves nothing about tokens being unforgeable; they are.

### Makerspace

`ScanBanned`, `FindUser`, `ReadStatus`, `CheckCooldown`, `WriteLog`, `WriteStatus` are the calls of a scan;
a forced checkout enters at `FindUser` and skips the cooldown; a ban is `FindBan`, `StoreBan`,
`ForceOut`. A ban that meets the unique index (`StoreBanTwice`) is a rejection nobody catches and ends
the process. `trail` is the log with a mark where a ban changed the status, which the code does
without a log entry.

### RegistrationForm

The wizard holds the email, whether it counts as verified, the token, whether the field for the code is shown, and
the step. `AskCode`, `AskVerify` and `Submit` start a handler of `RegistrationService`; the form waits for one request
at a time but its email field stays open until the email is verified, so `HearVerdict` marks whatever email is shown by
then. `Reload` loses everything the page knows while the handler goes on. The other fields are filled in whenever the person goes on.
The server has other clients: a second tab or device, other people's forms, the registration of staff and guests. `OthersAsk` and
`OthersRegister` let them ask for whatever `RegistrationService` serves, under any email; `elsewhere` keeps the emails they asked for.
A registration of theirs needs a code or token of its email, and so a request that put the email there.

### PortalUsers and UsersPage

A promotion is `Authorise`, `FindMember`, `FindExisting`, `Create`/`CreateTwice`, `Mail`; an update
`Authorise`, `Load`, `Save`/`SaveRefused`, `Mail`; a deletion `Authorise`, `FindToDrop`, `Drop`; setting a
password, which is not behind `requireAuth`, `OpenLink`, `SetPassword`/`SetPasswordOfNobody`. Only permissions
are an array (`Conflict`), so two edits of permissions cannot both succeed unseen, while two edits of role or access can.

A link is a number in the order of issue; `users[a].link` is the one whose hash is stored, `live` that its
hour is not over. Two permissions stand for all: `"users"`, which these handlers ask for, and one
they do not. The cookie is that the account is in `sessions`; what it says of roles is never used.
The reserved account is seeded with `ADMIN_MEMBERSHIP_ID` at its default "admin", the name the handlers
except.

`SetupLinks` is the promise behind it: a password is chosen only through a link that was mailed and that, when it was opened,
was the newest of its account and unused; whoever is removed does not return; a session begins with a password. `PortalUsers`
implements it with `Stage`, the account's temporary or chosen password or its absence, and `Opened`, the links that requests
found in order and are about to use. A replaced or used link may still be in such a request's hands.

`UsersPage` adds the page of the reserved administrator: `rows` is the list as it was read, `arriving` one that
is on its way, `ui` the open dialog with its form and `touched`, what was changed in it, `draft` the dialog Add,
`toasts` the deletions that wait for a confirmation. Saving sends the whole form. `behind` and `since`
follow what others changed after a row was read.

### PortalShell

`account` is what the server holds of each person, `me` and `listed` what the tab has cached, `view` what its
storage remembers over log-outs. `Redirect` is the guard's effect, which runs for every location (`visit` tells two
visits to one page apart); `KeepInClubView` is the layout's. `Fallback` goes through `PermissionOrder`, which the code
lists apart from the pages.

### Clubs

`seen` is the list of clubs each person fetched last, `listed` the administrator's list of accounts. A click on a
member (`ToggleMember`), the form of a club (`SubmitClub`) and the removal of a lead send a whole list computed from the
screen: `LoadClub`, `SaveClub`. A lead grants access to somebody without an account or with one (`FindUser`, `CreateUser`
or `SaveUser`, then `Join`, which saves the club) and manages those who have it (`ManageUser`). `Given` is
`limitClubPortalPermissions`, by what `requireAuth` had read of the sender. Adding a lead first promotes or switches
on the account where the screen says so (`PromoteLead`, `SwitchLeadOn`). Creation and deletion are one call each.

### ClubEvents and EventsPage

A request names a club and an event (`CheckClub`, then `Insert`, `FindInClub` or `RemoveInClub`) or, by the older routes, an
event alone (`FindEvent`, `CheckEventClub`, then `Save` or `Delete`). `Save` of either route is returned without being
awaited: if it is refused, `Down` follows. The people of a club and its deletion are single steps here (`ChangeClub`).
`EventsPage` is one viewer's page: the clubs it lists, the one selected, rows cached per club, the dialogs, and toasts that
remember the club under which they were opened. `Choosers` are those whom `/users` answers: others are offered no coordinators.

### ExecomRoster and RosterDialog

`ReadLast`, `Create` add an entry with the highest order plus one; `FindEntry`, `Upload`, `SaveEntry` change one, for an
administrator or for the member behind a mailed link; `CheckReorder`, `WriteOrder` write a reorder one entry at a time. `Refuse` is
what the unique index on year and person (409) and failures of the database (500) do to any of them; which person an entry is of is
not in the model, so it may refuse any, and it may cut a reorder off after some of its rows. The page
of one administrator shows one year, `Shown`: `Drag` reorders it on screen and sends the list, a refusal puts back what was
shown before. The dialog's upload ends in the form that is open by then.

### Startup, MailCenter and MailerPage

`Connect`, `ReadIndexes`, `DropIndex`, `CreateIndex`, `Seed` and `Listen` are awaited in turn; index errors are ignored (`missed`), and
Mongoose builds the schema's index on its own some time after connecting (`AutoIndex`). The handlers of templates run once the
server listens. `FindForMail`, `LookForUpsert`, `InsertMissing`/`Overwrite` are the update mail of the execom page, which writes
the template it misses. A bulk mail goes to all members, each once, or to a list (`Lists`): a number of rows, which `Refused` compares with 2000
(`MaxRows`), and the valid addresses among them in their order, where an address may stand on several rows. `NextBatch` and
`RestAfter` take five rows (`Batch`) at a time for `SendBatch`. The page, whose `Uploads` keep every row of the file, too, keeps `selected` and `latest`
(`latestSelectedIdRef`), what it loads, and what it waits for.

## Runs

| Run | Shows | Bounds |
| --- | --- | --- |
| `members` | `NumbersUnique`, `NumbersPromise`, `NoSpuriousDuplicate`, `StaffSeriesCapped`, `EmailFreeUnlessForestalled` | 2 emails, a cohort and a prefix, both lanes, 1 older lateral student, 2 handlers, 4 requests, `Limit` 2, so that a series fills up |
| `otp` | `AcceptedOncePerCall`, `FewCodes` | 1 mailbox, 2 codes, 2 handlers, 3 sends, any number of verifications |
| `register_end_to_end` | `EveryMemberVerified` | 2 mailboxes, 2 OTP handlers, 2 sends, 2 registrations |
| `registration_form` | `VerifiedOwnsToken`, `FailureToldTruly`, `WelcomedAreOnRecord` | 2 mailboxes, 1 admission number, 1 registration handler, 1 OTP handler, 2 sends, 2 registrations, 1 request for a code or its verification by another client, any number of edits, lost answers and reloads |
| `makerspace` | `CalmLogAlternates`, `CalmStatusFollowsLog`, `CalmBannedOutside`, `OnlyLateScansEnterBanned`, `CooldownKept`, `RequestsAnswered` | 1 member, 2 handlers, 5 requests, 1 crash |
| `portal_users` | `LinksPromise`, `NewestLinkCounts`, `NobodyWaitsInVain`, `RevokedActOnlyLate`, `PermissionsReplacedKnowingly`, `EditsUndoOnlyWhatTheListMissed` | 1 member, 2 accounts besides the reserved one, 2 handlers, 4 requests, 4 kinds of input; with the page open 3 requests, 1 account; requests of a closed page overlap, but a last one waits for promotions and deletions |
| `portal_shell` | `PageSettles`, `SentAwayOnlyWithoutPages` | 2 people, 1 club, 7 kinds of account, 2 changes of accounts, any number of clicks |
| `clubs` | `ClicksAddUp`, `GrantedBelong`, `LeadsGrantWhatTheyHold` | 3 people, 1 club, 2 handlers, 2 requests |
| `lead_wipes_permissions` | `LeadsChangeWhatTheyToggle` fails | as `clubs` |
| `club_events` | `ProcessEndsOnlyByOverlap`, `EventsStayWithTheirClub`, `CoordinatorsKept`, `AnsweredIsCarriedOut` | 1 person and an administrator, 2 clubs, 1 event, 2 handlers, 3 requests; with the page open 2 requests |
| `roster` | `OrdersApart`, `ScreenFollowsServer`, `PhotosOfTheirOwn`, `RemovedStayRemoved` | 3 entries, some of them still to be added, 2 years, 2 handlers, 3 requests, any number of refusals |
| `mail_center` | `ListensWithIndex`, `EditsGiveWayOnlyToRaces`, `EveryRowMailedOnce`, `DraftFitsSelection` | 1 seeded key, 1 other key, 1 text, 3 documents, 3 recipients in batches of 2, 5 lists (none, no valid address, more than `MaxRows` = 3 rows, an address twice in one batch and in two), 2 handlers, 3 requests; with the page open 2 requests, 2 documents |

Two handlers are enough for every race listed as a hazard, since each is between two requests; the
theorems remove the bound for the properties they cover. `registration_form` has one handler of either kind, so that two requests of one
kind follow each other and those of different kinds overlap; overlapping registrations are in `members`, and in the theorems. Its `VIEW` leaves out what neither the
form nor its properties look at: histories of other runs and membership numbers, which never make two records clash
(`NumbersUnique`), so that states it identifies have the same successors. Requests are counted so that the state space is
finite: two to five let a handler meet the traces of earlier ones, a deletion and another start.
`Limit` 2 stands for 999: the same definitions with the boundary in reach. Two clubs, two years and two mailboxes
are what it takes to confuse one with another, and one event is enough to confuse its club. A batch of 2
over 3 addresses has a full batch and a rest.

Three runs put a page on a server that is checked in depth without it. Their `PageBound` (in `MCUsersPage`, `MCEventsPage`,
`MCMailerPage`) lets the server run to its full bound while the page is closed, and to a smaller one while it is open. What the smaller one
leaves out is named there: the cases that tell the page's own properties apart (a row read before
another's change, a dialog open across it, an answer that arrives after the selection moved) all take one
request of the page and one of somebody else.

The modules also define what their variables may hold (`TypeOK`, `PageTypeOK`, `FormTypeOK` and the like). These are theorems (see below); what `Startup` and
`MailCenter` define is part of `PageTypeOK` of `MailerPage`.

Deadlock is not checked: when the bounded number of requests is used up and all are answered, the
model rests, which is what an idle server does. Handlers getting stuck is what `RequestsAnswered` is
for. It assumes weak fairness of each handler's steps only: the event loop runs the continuation of
every answered call, and a call is answered or rejected. Clients, failures, expiry, deletion and
restarts have no fairness, and a request that dies with the process counts as ended. `PageSettles` assumes weak
fairness of the two effects that redirect, which React runs after every render, and of the two fetches, whose queries are
asked again; nobody need click.

Several properties name the exceptions under which a promise of the code breaks; the run shows that nothing else
breaks it.

- *Makerspace.* `CalmLogAlternates`, `CalmStatusFollowsLog`, `CalmBannedOutside` and
  `CooldownKept` hold for every member whose own requests do not overlap and are not cut
  short, whatever happens around them (`disturbed` collects the others). `OnlyLateScansEnterBanned`
  bounds the damage: only a scan that had passed the ban list before the ban was stored can bring a
  banned member inside.
- *Accounts.* `LinksPromise`, `RevokedActOnlyLate` and
  `PermissionsReplacedKnowingly` hold whatever overlaps. `NewestLinkCounts` and `NobodyWaitsInVain`
  are about accounts whose requests did not overlap and were not cut short:
  a password that is set while access is switched off and on erases the newer link, and a stop between creating
  an account and its mail leaves its owner without one. `EditsUndoOnlyWhatTheListMissed`: a dialog takes back
  another's change of role or access only if that change came after the row was read.
- *Clubs.* Clicks add up on a screen that shows what is stored; the next click does not wait for the new list
  and may undo the one before. A granted account stays outside its club only if the club's save failed after the account's.
- *Events.* The process ends only when two requests about one event overlap, by either route.
- *Roster.* Two entries share an order only after overlapping additions or reorders, a reorder that failed half-way, a reorder of an
  incomplete list, or a move into the year. A photo lands on another's entry only if that entry's dialog was opened during the upload.
- *Mail center.* An edited template gives way to the built-in text only if it was created between the two look-ups of an update mail,
  or if an administrator saves that very text.
  A row of a list is mailed once; a person on two rows is mailed twice, since nothing takes repeats out.
  A text stands under another template only if that template's own load failed, or an answer met a selection it was not asked for.
- *Form.* A verified email differs from its token's only if it was edited while being verified; then the server refuses
  every submission and only a reload helps. A failure is told wrongly only after an answer, to any of its requests, had
  not reached the form (`lost`), or after another client asked for the same email (`elsewhere`): a code, a token or a record may then exist that
  the form knows nothing of. What other clients do for other emails makes no difference.
- *Shell.* Redirection never ends for an account in a club's view whose first permitted page that view hides; a holder of the
  makerspace permission alone is sent to the log-in form, because the order of fallback pages lacks that page.

## Disagreements with the code's own words

`lead_wipes_permissions` is a finding: the dialog in which a lead manages a portal member says "Update access and permissions for
this member.", but starts from a list that tells no permissions, so that saving it takes away whatever is not ticked
again. In the trace a lead grants somebody a permission, the new member joins the club, the lead fetches the list, opens the
dialog and saves it without a tick, and the permission is gone.

The following were met while modelling and are covered by the exceptions above or by the models' actions, without a run of their own:

- "Prevent duplicates by email across both collections" (registrationController) and "One-time use" (authController) hold for
  requests that do not overlap; `EmailFreeUnlessForestalled` and `AcceptedOncePerCall` say what holds otherwise.
- Two overlapping scans are both logged as IN and two overlapping bans end the process, where the API description promises 409; "Force
  checkout if currently checked in" misses a scan in flight.
- A verification that reads an older or expired code deletes codes mailed since. The ID of the last staff member or guest, deleted,
  is issued again. Deleting an account leaves its ID in clubs, events and the roster.
- An event whose club was deleted can be changed by an administrator and deleted by nobody (eventController.js:251).
- A club lead without the permission "users" is offered no coordinators, on a page that says "Manage your club events and
  coordinators" (Events.jsx:524). The answer to one event's save closes the dialog opened meanwhile for another (Events.jsx:339). Confirming
  a club's deletion clears whatever club is selected by then (Events.jsx:395).
- On the page Users, accounts whose role is not one of the tables' are shown in none; the draft of Add keeps its ticks when another member is
  chosen; adding a club lead again after its second half failed promotes again and is refused (Users.jsx:944).
- Saving a template while another is loading writes the text on the screen under the new selection (Mailer.jsx).
- A club chosen in the view mode stays chosen for the next person at the browser, whether or not it is theirs (AdminLayout.jsx:109).

## Proofs

The theorems hold for every set of emails, members, accounts, clubs, events, templates, entries and
handlers, every `Limit` and `Batch` and any number of requests:

| Module | Theorem | States |
| --- | --- | --- |
| `MembershipProofs` | `TypeCorrect` | `Spec => []TypeOK` |
| | `StudentNumbersUnique`, `NumbersReservedSafely` | `NumbersUnique`; `ReservedNumbersFree`: a number on its way is on no record and on no other way |
| | `NumberingRefines` | `Spec => NumbersPromise`: the handlers implement `MemberNumbers` |
| | `StaffRefusedOnlyIfOvertaken`, `StaffCapped` | `NoSpuriousDuplicate`, `StaffSeriesCapped` |
| | `EmailsDoubledOnlyByOverlap` | `EmailFreeUnlessForestalled` |
| `OtpProofs` | `TypeCorrect` | `Spec => []TypeOK` |
| | `AcceptanceBounded`, `CodesFew` | `AcceptedOncePerCall`, `FewCodes` |
| | `TokensProveMailboxes` | `TokenProvesMailbox` |
| `RegistrationProofs` | `MembersAreVerified` | `EveryMemberVerified` |
| | `FormTypeCorrect` | `FormSpec => []FormTypeOK` |
| | `FormRefinesService`, `FormMembersAreVerified` | `FormSpec => Spec`: the form with the service behaves as the service; so `EveryMemberVerified` holds with it |
| | `TheTokenIsTheEmails`, `TheWelcomedAreOnRecord`, `FailureIsToldTruly` | `VerifiedOwnsToken`, `WelcomedAreOnRecord`, `FailureToldTruly` |
| `AccountsProofs` | `TypeCorrect`, `PageTypeCorrect` | `Spec => []TypeOK`, `PageSpec => []PageTypeOK` |
| | `SessionsAreEarned`, `TheNewestLinkWorks`, `NobodyIsForgotten`, `RevokedAreServedLate` | `SessionsFollowLinks`, `NewestLinkCounts`, `NobodyWaitsInVain`, `RevokedActOnlyLate`, of the server alone |
| | `AccountsWithThePage` | the same four with the page in front of it |
| | `LinksAreAsPromised`, `LinksWithThePage` | `LinksPromise`: the handlers implement `SetupLinks`, without and with the page |
| | `NoPermissionsLostUnseen`, `NoPermissionsLostWithThePage` | `PermissionsReplacedKnowingly`, without and with the page |
| | `EditsTouchOnlyTheTouched` | `EditsUndoOnlyWhatTheListMissed` |
| `EventsProofs` | `TypeCorrect`, `PageTypeCorrect` | `Spec => []TypeOK`, `PageSpec => []PageTypeOK` |
| | `EndsByOverlapOnly`, `EventsKeepTheirClub` | `ProcessEndsOnlyByOverlap`, `EventsStayWithTheirClub` |
| | `PageRefinesClubEvents` | `PageSpec => Spec`, which carries both over to the page |
| | `CoordinatorsAreKept`, `AnswersAreTrue` | `CoordinatorsKept`, `AnsweredIsCarriedOut` |
| `MailProofs` | `Inductive`, `PageTypeCorrect` | the invariant of start-up, handlers and page; `PageTypeOK` |
| | `IndexIsRepaired` | `ListensWithIndex` |
| | `BulkMailsEveryRow` | `EveryRowMailedOnce` |
| | `FieldsAreTheSelections`, `EditsAreKept` | `DraftFitsSelection`, `EditsGiveWayOnlyToRaces` |
| `ClubsProofs` | `Inductive`, `TypeCorrect` | the invariant of handlers and screens; `TypeOK` |
| | `TogglesAddUp`, `AccessComesWithTheClub` | `ClicksAddUp`, `GrantedBelong` |
| | `OnlyWhatTheyHold` | `LeadsGrantWhatTheyHold` |
| `PortalProofs` | `TypeCorrect` | `Spec => []TypeOK` of the roster with its page and dialog |
| | `OrdersStayApart`, `PageFollows`, `RemovedStay`, `PhotosAreTheirOwn` | `OrdersApart`, `ScreenFollowsServer`, `RemovedStayRemoved`, `PhotosOfTheirOwn` |
| | `SpaceTypeCorrect` | `SpaceSpec => []SpaceTypeOK` |
| | `LateScansOnly` | `OnlyLateScansEnterBanned` |
| | `CalmLogsAlternate`, `CalmStatusTrue`, `CalmBannedOut`, `CooldownHolds` | `CalmLogAlternates`, `CalmStatusFollowsLog`, `CalmBannedOutside`, `CooldownKept` |
| | `ShellTypeCorrect` | `ShellSpec => []ShellTypeOK` |
| | `OnlyThoseWithoutPagesLeave` | `SentAwayOnlyWithoutPages` |

They assume what the modules' ASSUMEs say. Bounds on requests are natural numbers and `Limit` and `Batch` positive ones; no
series is both a cohort and a prefix; `None` is not a value of anything, and a template's built-in text is not among those that
administrators write of their own; the server handles finitely many OTP requests at once and there are finitely many addresses, while lists are of any length and may repeat them; the roster's
entries are a finite set of natural numbers, the older the smaller, and the page shows one of the years; a handler
of a registration is not one of an OTP request; and what is found at the start is what the code can have left there: the older
records respected the indexes and the convention that lanes do not share a number, and the templates found by the first start differ in key and number.
TLC evaluates the assumptions in every run.

`AccountsProofs` is about more than the runs: its accounts are asked for anything (`AnyNext`), not only for the few kinds of input
that `Asks` lists or the page can send, and the theorems for `Spec` and for the page follow from that one proof.

### Registration, codes and presence

*Types.* `TypeOK` is not inductive: an insertion needs to know that a handler past its start has an
email and a series, and the hook's steps that their series is a cohort. `Typed` adds that (`Shaped`), here and in the other modules.

*Numbers.* Uniqueness is not inductive either. While a cohort has no counter, all its records are
older ones and a handler that has read a lane knows a number at least as high as any in it
(`UncountedInv`); so whoever creates the counter creates it high enough, however the reads of several
first requests interleave, and a second seeding changes nothing. Once there is a counter it is at least every
number on record and every number taken (`CountedInv`), so an increment takes a new one. With
`ReservedNumbersFree` and `NumbersUnique` this is `NumbersInv`. The refinement uses it to show that an
increment takes a number that was neither held nor reserved, and an insertion writes a reserved one.

*Staff and guests.* `StaffInv` bounds the numbers on record and under way, and says that a handler
whose number is taken was overtaken: the number was free when computed, and an insertion of that
number marks every other handler of the series that has computed one.

*Emails.* `EmailInv`: a handler that looked into a collection without a hit, and is not forestalled, still
finds no record there; an insertion forestalls the other handlers at its email.

*Codes.* What bounds acceptance is that an accepted code is gone. `CodesInv` follows a code's life: until it is
stored nobody has read or accepted it (`Unborn`); while it is stored it has not been accepted; once
accepted it is not stored, so that nobody can join those who have read it. Acceptances and requests
about to accept therefore never exceed the handlers (`CountInv`); a code's record and its readers
agree on the email it was drawn for, which makes tokens true. For `FewCodes` a send between its delete
and its create counts as the code it will store; the delete makes room for all of them.

*Presence.* `OnlyLateScansEnterBanned` is inductive with the types. The other four come from `CalmInv`:
at most one request is about a member who is not `disturbed` (`Single`), and status, log, ban and
cooldown fit the step it is at (`Fits`): except between the log entry and the update of the status the
two agree, a scan past its checks still satisfies them, and a banned member is outside unless the ban's
own checkout is pending. `OneMember` reduces a step to the member it is about.

*Verified members.* Who is a member is decided in one part and who proved an address in another; `LedgerInv` joins them. It keeps, for
each code that was drawn, the address it was mailed to: whatever is stored, read or accepted carries that address, and a token
names an accepted code of its own. `VerifiedInv` then says that every handler past its entry has a verified address, which
no later step can take back (`LedgerGrows`).

*The form.* A step of the form is a step of the service or leaves it alone, which is the refinement. What the form says is
true because the handler it waits for serves the request it sent (`ServedInv`). `OwnerInv` follows the token from the answer that brought it;
`WelcomeInv` says that whoever was found or recorded is on record or was deleted. `FailureToldTruly` needs the most (`QuietInv`): while
every answer has arrived, nothing runs for an email outside `elsewhere` but what the form waits for, and such a person on record has no code, no handler that would
lead to one and no token but the one the registration used (`CalmInv`, email by email, since the server is shared). An attempt at it with answers lost only to a registration failed, and TLC
found the case: the lost answer of a verification leaves a token's code used and a second one to be asked for. `lost` therefore counts every answer.

### Accounts and events

*Links.* Every link is stored, mailed and used for the account it was issued for, and a password that was chosen was chosen through
a used link of that account (`LinkInv`), so a session follows a link. That a request admitted earlier cannot bring a revoked administrator back is
inductive with the types alone.

*Newest links.* For accounts that are not `disturbed`: their requests do not overlap, except with a mail on its way, and one that is
setting a password holds the stored link (`Apart`); the stored link is the newest issued, or none if that was used (`NewestStored`). Whoever waits
for a link has one mailed or on its way (`MailOnItsWay`).

*The promise about links.* Disturbed accounts have it, too. What `SetupLinks` needs of them is `Current`: a link that is stored was never used and
is the newest of its account, and a link that a request carries was mailed. So a request that compares its link with the stored one opens
a newest, unused link, and choosing a password, the only step that uses one, takes it from the account. Every other
database call renews or removes an account, or looks and changes nothing the promise speaks of; a failure or the end of the process
forgets opened links.

*Permissions.* An account whose version is the one that was loaded has the permissions that were loaded (`VersionsTell`), so the save that
passes the comparison replaces what it knew.

*The page Users.* A row of the list says what is on record unless somebody changed that account since (`ListInv`, with
the list that is on its way); a form, open or sent, agrees with the account wherever it was not touched, unless it is
outdated (`FormFits`, `CallsFit`). The change that makes a form untrue is the change that marks it.

*Events.* `Raced`: what a handler has loaded is on record unless a request about the event overlapped, so an unawaited save
that is refused means overlap. `VettedInv`: a handler past a check still has access to the club it checked, or lost it since (`late`), and the club it
checked is that of the event, which never changes. With the page, `Based` says of everything that carries coordinators (cached rows, the open dialog, a
call in flight) that they are those of some version, changed by touches only; `InClub` that an event was issued in the club
under whose name the page keeps it. Both survive any step of the server (`Evolves`).

### Mail and clubs

*Start-up.* Without an ignored error the phase tells how far the index is (`IndexInv`), also after a stop between any two steps, since
a start begins by looking.

*Templates and the page.* Numbers and keys of templates are unique (`UniqueInv`). A mail that had found no template overwrites only one that is
younger than its search (`RaceInv`). The rows already mailed, followed by those still to come, are the rows asked for (`Halves`), which `BatchAndRest` keeps for any batch and list. The field's template is the one selected,
or that one is being loaded, or a named exception occurred (`FieldsFit`, with `LoadsInv` for loads that overtake each other). The attempt to prove
`EditsGiveWayOnlyToRaces` as it first stood failed on an administrator who saves the built-in text by hand, which is no loss; the property now says so.

*Clubs.* What a handler has loaded of a club that is still there is an older version of it or the same (`CopyInv`), and nobody is taken off
its portal members: a save that passes the comparison of versions, or that changes nothing, keeps them. So whoever joins stays
(`GrantedBelong` is inductive with that). Nothing is known of a club before it is made, and none is made twice (`MadeInv`). Where nothing
muddles a club, at most one request changes it, that is a click, the list it carries is the list wanted, and if none is under way the
record is (`CalmInv`). What a handler takes its sender to hold is what they hold, unless they lost some of it since (`HoldsInv`), and it hands out no more.

### Roster and shell

*The list.* What the code gets by sorting is said by what a sorted list is, each entry of the year once, none before one of a lower order (`List`).
That there is one is `Arrangement`: an entry's place is the number of those before it, so no induction over the entries is needed.

*Orders.* `OrdersApart` is not inductive: an addition must come after every entry of its year, a reorder under way has given each entry it has
reached the place of one of its rows in the list, and that list leaves nobody out (`WrittenFits`). While nothing has mixed up a year,
one request at a time is at work on it and the orders are apart unless that one is writing (`OrderedIn`). What breaks this, a second request, a reorder cut off half-way, a drag of a stale
list or a move into the year, is what `mixed` records in the same step.

*The page.* `ScreenFollowsServer` is inductive with the types. A request of the page keeps saying so until its answer is heard (`MineKept`), and hearing
it fetches the list; a change of the order on record by anybody else, and a refusal, mark the page as misled until the fetch.

*Photos.* `PhotosFit`: everything that carries a photo, the entry, a request, the form, the upload, belongs to the same entry, until a dialog is opened in
the middle of an upload.

*The shell.* Only `Redirect` leads from a page to the log-in form while an account is cached, and only if `Fallback` finds no page. It takes the
first permitted page of `PermissionOrder`, which names every page but the makerspace (`FallbackTyped`), so such an account has no other permission.

### Only model-checked

`RequestsAnswered` and `PageSettles` are about liveness and ENABLED, which are beyond the prover.
`LeadsChangeWhatTheyToggle` is false. Nothing that is proved needs an induction over data.

`ReservedNumbersFree`, `TokenProvesMailbox`, `SessionsFollowLinks` and the type invariants are proved and in no configuration.

## Not modelled

- *Portal pages.* The makerspace page reads lists and posts what `Makerspace` handles (its list of banned members starts empty, so it can
  lift a ban only of somebody it still lists as inside); Settings is a mock-up that calls nothing.
- *Public check-in log, public member lookup, main site pages, route tables and the API description*: single calls, presentation and wiring; no state that
  another part relies on.
- Within modelled parts: the choice of another year on the roster's page (the list it then shows is a fetch of its own, like that of a page opened there); a roster row's own title and visibility and the check of the link that admits a member; the website profile of an account;
  the countdown to a second code and the lateral-entry box of the form; the test mail, search and preview of the mail center; the component `LegacyEvents`,
  which nothing uses; the list of events over all clubs; several clubs chosen at once in Add Club Lead (modelled one at a time);
  the refetch on focus that resets a member's form; image storage and mail transport; CORS and cookie flags.

## The plan

What remains, in order:

1. An abstract specification of what `Clubs` promises about membership and access, and its refinement.
2. The makerspace page as a client of `Makerspace`.
