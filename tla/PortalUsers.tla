---- MODULE PortalUsers ----
(***************************************************************************)
(* Accounts of the admin portal: promotion of members, changes and         *)
(* deletion of accounts, mailed links that set a password, log-in, and the *)
(* check of every request against the account it comes from               *)
(* (teamController, authController, requireAuth).  A handler is an entry   *)
(* of `job` and takes one step per awaited database call.                  *)
(*                                                                         *)
(* A document is loaded, changed and saved: saving writes the fields that  *)
(* differ from what was loaded and no others, and compares the version     *)
(* only if an array, here the permissions, is among them (Mongoose).       *)
(***************************************************************************)
EXTENDS Integers, Sequences, FiniteSets

CONSTANTS
    Members,      \* registrations that have a membership ID
    Jobs,         \* requests the server may be handling at once
    None,         \* no account, no member
    Asks,         \* what a promotion or an update may ask for
    MaxAccounts,  \* bound: accounts created in a behaviour
    MaxRequests   \* bound: requests received in a behaviour

ASSUME BoundsAssumption == MaxAccounts \in Nat /\ MaxRequests \in Nat

\* The two permissions that stand for the others: one matters here.
Permissions == {"users", "events"}

\* An update may leave the access as it is.
Ask == [role : {"admin", "other"}, perms : SUBSET Permissions, access : {"on", "off", "keep"}]

ASSUME AsksAssumption == Asks \subseteq Ask

\* The reserved account "admin"; the others are numbered as they are created.
Root == 0
Accounts == 0 .. MaxAccounts

Account == [member : Members \cup {None}, role : {"admin", "other"}, perms : SUBSET Permissions,
            access : {"on", "off"}, password : {"temporary", "chosen"},
            link : Nat, live : BOOLEAN, version : Nat]

ASSUME NoneAssumption == None \notin Members \cup Accounts \cup Account

VARIABLES
    users,      \* collection "users", by account; `link` 0 is no link
    created,    \* accounts created so far
    issued,     \* the links stored so far: the account each is for
    mailed,     \* links that were delivered
    sessions,   \* accounts that hold an unexpired cookie
    job,        \* the handlers in flight
    received,   \* requests received so far
    used,       \* history: links with which a password was set
    late,       \* history: jobs past requireAuth when their account lost its right
    disturbed,  \* history: accounts about which requests overlapped or were cut short
    unsent      \* history: accounts a link of which was not delivered

vars == <<users, created, issued, mailed, sessions, job, received,
          used, late, disturbed, unsent>>

Kinds == {"promote", "update", "delete", "password"}
Steps == {"rest", "auth", "member", "existing", "create", "load", "save",
          "find", "drop", "mail", "open", "set"}

NoAsk == [role |-> "other", perms |-> {}, access |-> "keep"]
Unread == [role |-> "other", perms |-> {}, access |-> "off", version |-> 0]

\* The target of a promotion is known once the account is created.
Rest == [at |-> "rest", kind |-> "update", by |-> None, target |-> None, member |-> None,
         ask |-> NoAsk, read |-> Unread, link |-> 0]

Job == [at : Steps, kind : Kinds, by : Accounts \cup {None},
        target : Accounts \cup {None}, member : Members \cup {None}, ask : Ask,
        read : [role : {"admin", "other"}, perms : SUBSET Permissions,
                access : {"on", "off"}, version : Nat],
        link : Nat]

Links == 1 .. Len(issued)

TypeOK ==
    /\ users \in [Accounts -> Account \cup {None}]
    /\ created \in Accounts
    /\ issued \in Seq(Accounts)
    /\ mailed \subseteq Links
    /\ sessions \subseteq Accounts
    /\ job \in [Jobs -> Job]
    /\ received \in 0 .. MaxRequests
    /\ used \subseteq Links
    /\ late \subseteq Jobs
    /\ disturbed \subseteq Accounts
    /\ unsent \subseteq Accounts

Seeded == [member |-> None, role |-> "admin", perms |-> {"users"}, access |-> "on",
           password |-> "chosen", link |-> 0, live |-> FALSE, version |-> 0]

Init ==
    /\ users = [a \in Accounts |-> IF a = Root THEN Seeded ELSE None]
    /\ created = 0
    /\ issued = <<>>
    /\ mailed = {}
    /\ sessions = {}
    /\ job = [j \in Jobs |-> Rest]
    /\ received = 0
    /\ used = {}
    /\ late = {}
    /\ disturbed = {}
    /\ unsent = {}

Target(j) == job[j].target
Exists(a) == users[a] # None

Settled(a) == \A j \in Jobs : Target(j) # a

Move(j, to) == job' = [job EXCEPT ![j].at = to]
Finish(j) == job' = [job EXCEPT ![j] = Rest]

\* A read that lets the request go on, or answers it with an error.
Decide(j, ok, to) ==
    /\ IF ok THEN Move(j, to) ELSE Finish(j)
    /\ UNCHANGED <<users, created, issued, mailed, sessions, received, used, late,
                   disturbed, unsent>>

-----------------------------------------------------------------------------
(* Who may.                                                                *)

MayManage(u) == u.role = "admin" \/ "users" \in u.perms

\* The account as requireAuth and hasPermission("users") see it.
Can(docs, a) == docs[a] # None /\ docs[a].access = "on" /\ MayManage(docs[a])

PastAuth(j) == job[j].at \notin {"rest", "auth"} /\ job[j].by # None

\* A new state of the collection, and who loses a right by it.
Write(docs) ==
    /\ users' = docs
    /\ late' = late \cup {j \in Jobs : /\ PastAuth(j)
                                       /\ Can(users, job[j].by) /\ ~Can(docs, job[j].by)}

\* The password of an account in use is checked; the cookie carries its _id and
\* what it may do, of which only the _id is used later.  Nothing is written, so the
\* step stands at the look-up, and the client uses the cookie when it has come.
Login(a) ==
    /\ Exists(a)
    /\ users[a].access = "on" /\ users[a].password = "chosen"
    /\ sessions' = sessions \cup {a}
    /\ UNCHANGED <<users, created, issued, mailed, job, received, used, late,
                   disturbed, unsent>>

\* Logged out, or seven days over.
SessionEnds ==
    /\ \E a \in sessions : sessions' = sessions \ {a}
    /\ UNCHANGED <<users, created, issued, mailed, job, received, used, late,
                   disturbed, unsent>>

Arrive(j, r) ==
    /\ job[j] = Rest
    /\ received < MaxRequests
    /\ received' = received + 1
    /\ job' = [job EXCEPT ![j] = r]
    /\ late' = late \ {j}
    /\ disturbed' = IF r.target = None \/ Settled(r.target) THEN disturbed
                    ELSE disturbed \cup {r.target}
    /\ UNCHANGED <<users, created, issued, mailed, sessions, used, unsent>>

Promote(j, by, m, ask) ==
    Arrive(j, [Rest EXCEPT !.at = "auth", !.kind = "promote", !.by = by,
                           !.member = m, !.ask = ask])

Update(j, by, a, ask) ==
    Arrive(j, [Rest EXCEPT !.at = "auth", !.kind = "update", !.by = by,
                           !.target = a, !.ask = ask])

Delete(j, by, a) ==
    Arrive(j, [Rest EXCEPT !.at = "auth", !.kind = "delete", !.by = by, !.target = a])

\* The page behind the mailed link; not behind requireAuth.  The link names the
\* account, and so does the request.
UseLink(j, a, l) ==
    Arrive(j, [Rest EXCEPT !.at = "open", !.kind = "password", !.target = a, !.link = l])

FirstStep(kind) ==
    CASE kind = "promote" -> "member" [] kind = "update" -> "load" [] kind = "delete" -> "find"

\* Variant: what the cookie says is believed.
AuthoriseByCookie(j) ==
    /\ job[j].at = "auth"
    /\ Decide(j, TRUE, FirstStep(job[j].kind))

\* The account is read again at every request: 401, 403, or on.
Authorise(j) ==
    /\ job[j].at = "auth"
    /\ Decide(j, Can(users, job[j].by), FirstStep(job[j].kind))

-----------------------------------------------------------------------------
(* Promotion.                                                              *)

\* 404 if the member is gone or of another type.
FindMember(j) ==
    /\ job[j].at = "member"
    /\ \E found \in BOOLEAN : Decide(j, found, "existing")

Holder(m) == {a \in Accounts : Exists(a) /\ users[a].member = m}

FindExisting(j) ==
    /\ job[j].at = "existing"
    /\ Decide(j, Holder(job[j].member) = {}, "create")

\* By default an execom account has no access and every other one has.
Granted(ask) ==
    IF ask.access # "keep" THEN {ask.access}
    ELSE IF ask.role = "admin" THEN {"on"} ELSE {"on", "off"}

NextLink == Len(issued) + 1

CreatedFor(j, access) ==
    [member |-> job[j].member, role |-> job[j].ask.role, perms |-> job[j].ask.perms,
     access |-> access, password |-> "temporary",
     link |-> IF access = "on" THEN NextLink ELSE 0, live |-> access = "on", version |-> 0]

\* The unique indexes refuse a second account of a member: 500.
CreateTwice(j) ==
    /\ job[j].at = "create"
    /\ Holder(job[j].member) # {}
    /\ Decide(j, FALSE, "mail")

\* With a link, if the account has access.
Create(j) ==
    /\ job[j].at = "create"
    /\ Holder(job[j].member) = {}
    /\ created < MaxAccounts
    /\ created' = created + 1
    /\ \E access \in Granted(job[j].ask) :
          /\ Write([users EXCEPT ![created'] = CreatedFor(j, access)])
          /\ IF access = "on"
             THEN /\ issued' = Append(issued, created')
                  /\ job' = [job EXCEPT ![j].at = "mail", ![j].target = created',
                                        ![j].link = NextLink]
             ELSE Finish(j) /\ UNCHANGED issued
    /\ UNCHANGED <<mailed, sessions, received, used, disturbed, unsent>>

\* sendMail reports its failure instead of throwing.
Mail(j) ==
    /\ job[j].at = "mail"
    /\ \/ mailed' = mailed \cup {job[j].link} /\ UNCHANGED unsent
       \/ unsent' = unsent \cup {Target(j)} /\ UNCHANGED mailed
    /\ Finish(j)
    /\ UNCHANGED <<users, created, issued, sessions, received, used, late, disturbed>>

-----------------------------------------------------------------------------
(* Update.                                                                 *)

ReadOf(u) == [role |-> u.role, perms |-> u.perms, access |-> u.access,
              version |-> u.version]

\* 404, or 400 for the reserved account.
Load(j) ==
    /\ job[j].at = "load"
    /\ IF Exists(Target(j)) /\ Target(j) # Root
       THEN job' = [job EXCEPT ![j].at = "save", ![j].read = ReadOf(users[Target(j)])]
       ELSE Finish(j)
    /\ UNCHANGED <<users, created, issued, mailed, sessions, received, used, late,
                   disturbed, unsent>>

Wanted(j) == [job[j].ask EXCEPT !.access = IF @ = "keep" THEN job[j].read.access ELSE @]

\* Variant: only a promotion mails a link.
NeverSwitchedOn(j) == FALSE

SwitchedOn(j) == job[j].read.access = "off" /\ Wanted(j).access = "on"

\* Variant: the version is not compared.
NeverConflicts(j) == FALSE

\* VersionError: the permissions are to change and were changed meanwhile.
Conflict(j) ==
    /\ Wanted(j).perms # job[j].read.perms
    /\ users[Target(j)].version # job[j].read.version

\* Only what differs from what was read is written; a link, if access was off.
Saved(j) ==
    LET old == job[j].read
        new == Wanted(j)
        doc == users[Target(j)]
    IN  [doc EXCEPT
            !.role = IF new.role # old.role THEN new.role ELSE @,
            !.perms = IF new.perms # old.perms THEN new.perms ELSE @,
            !.version = IF new.perms # old.perms THEN @ + 1 ELSE @,
            !.access = IF new.access # old.access THEN new.access ELSE @,
            !.link = IF SwitchedOn(j) THEN NextLink ELSE @,
            !.live = IF SwitchedOn(j) THEN TRUE ELSE @]

\* 500 if the account is gone or was changed.
SaveRefused(j) ==
    /\ job[j].at = "save"
    /\ Exists(Target(j)) => Conflict(j)
    /\ Decide(j, FALSE, "mail")

Save(j) ==
    /\ job[j].at = "save"
    /\ Exists(Target(j)) /\ ~Conflict(j)
    /\ Write([users EXCEPT ![Target(j)] = Saved(j)])
    /\ IF SwitchedOn(j)
       THEN /\ issued' = Append(issued, Target(j))
            /\ job' = [job EXCEPT ![j].at = "mail", ![j].link = NextLink]
       ELSE Finish(j) /\ UNCHANGED issued
    /\ UNCHANGED <<created, mailed, sessions, received, used, disturbed, unsent>>

-----------------------------------------------------------------------------
(* Deletion.                                                               *)

\* 404, or 400 for the reserved account.
FindToDrop(j) ==
    /\ job[j].at = "find"
    /\ Decide(j, Exists(Target(j)) /\ Target(j) # Root, "drop")

Drop(j) ==
    /\ job[j].at = "drop"
    /\ Write([users EXCEPT ![Target(j)] = None])
    /\ Finish(j)
    /\ UNCHANGED <<created, issued, mailed, sessions, received, used, disturbed, unsent>>

-----------------------------------------------------------------------------
(* Setting a password.                                                     *)

\* Variant: any link will do, if the account waits for one.
AcceptsAny(a, l) == Exists(a) /\ users[a].link # 0 /\ users[a].live

\* The account's own link, not expired; 404 or 400 otherwise.
Accepts(a, l) == Exists(a) /\ users[a].link = l /\ users[a].live

OpenLink(j) ==
    /\ job[j].at = "open"
    /\ Decide(j, Accepts(Target(j), job[j].link), "set")

\* Variant: the link stays.
SetPasswordOnly(j) ==
    /\ job[j].at = "set"
    /\ Exists(Target(j))
    /\ Write([users EXCEPT ![Target(j)].password = "chosen"])
    /\ used' = used \cup {job[j].link}
    /\ Finish(j)
    /\ UNCHANGED <<created, issued, mailed, sessions, received, disturbed, unsent>>

\* Removes the link that is stored by now, be it another one.
SetPassword(j) ==
    /\ job[j].at = "set"
    /\ Exists(Target(j))
    /\ Write([users EXCEPT ![Target(j)].password = "chosen",
                           ![Target(j)].link = 0, ![Target(j)].live = FALSE])
    /\ used' = used \cup {job[j].link}
    /\ Finish(j)
    /\ UNCHANGED <<created, issued, mailed, sessions, received, disturbed, unsent>>

\* The account is gone: 500.
SetPasswordOfNobody(j) ==
    /\ job[j].at = "set"
    /\ ~Exists(Target(j))
    /\ Decide(j, FALSE, "set")

-----------------------------------------------------------------------------
(* Time and failure.                                                       *)

\* A link lasts an hour.
LinkExpires ==
    /\ \E a \in Accounts :
          /\ Exists(a) /\ users[a].live
          /\ users' = [users EXCEPT ![a].live = FALSE]
    /\ UNCHANGED <<created, issued, mailed, sessions, job, received, used, late,
                   disturbed, unsent>>

\* A database error: 500 (401 from requireAuth), nothing written.
Fail(j) ==
    /\ job[j].at \notin {"rest", "mail"}
    /\ Decide(j, FALSE, "rest")

\* The process dies and restarts; seeding finds the reserved account as it was.
Crash ==
    /\ job' = [j \in Jobs |-> Rest]
    /\ disturbed' = disturbed \cup {a \in Accounts : ~Settled(a)}
    /\ UNCHANGED <<users, created, issued, mailed, sessions, received, used, late, unsent>>

Step(j) ==
    \/ Authorise(j)
    \/ FindMember(j)
    \/ FindExisting(j)
    \/ CreateTwice(j)
    \/ Create(j)
    \/ Mail(j)
    \/ Load(j)
    \/ SaveRefused(j)
    \/ Save(j)
    \/ FindToDrop(j)
    \/ Drop(j)
    \/ OpenLink(j)
    \/ SetPassword(j)
    \/ SetPasswordOfNobody(j)

Request(j) ==
    \/ \E by \in sessions, m \in Members, ask \in Asks : Promote(j, by, m, ask)
    \/ \E by \in sessions, a \in Accounts, ask \in Asks : Update(j, by, a, ask)
    \/ \E by \in sessions, a \in Accounts : Delete(j, by, a)
    \/ \E a \in Accounts, l \in mailed : UseLink(j, a, l)

Next ==
    \/ \E j \in Jobs : Request(j) \/ Step(j) \/ Fail(j)
    \/ \E a \in Accounts : Login(a)
    \/ SessionEnds
    \/ LinkExpires
    \/ Crash

Spec == Init /\ [][Next]_vars

-----------------------------------------------------------------------------
(* Properties.                                                             *)

\* The newest link stored for the account, or none.
Newest(a) ==
    LET for == {l \in Links : issued[l] = a}
    IN  IF for = {} THEN 0 ELSE CHOOSE l \in for : \A k \in for : k <= l

Quiet(a) == Exists(a) /\ Settled(a) /\ a \notin disturbed

\* Whoever is logged in chose their password through a link for their own account
\* ("Password setup link is invalid" for any other), except the seeded one.
SessionsFollowLinks ==
    \A a \in sessions \ {Root} : \E l \in used : issued[l] = a

\* The newest link works until it is used, and no other does: switching access off
\* and on replaces it, nothing else takes it away.
NewestLinkCounts ==
    \A a \in Accounts \ {Root} :
        Quiet(a) => users[a].link = IF Newest(a) \in used THEN 0 ELSE Newest(a)

\* "If you were just promoted, check your email for the password setup link": who
\* has access and no password was mailed a link, unless the mail was not delivered.
NobodyWaitsInVain ==
    \A a \in Accounts \ unsent :
        Quiet(a) /\ users[a].access = "on" /\ users[a].password = "temporary"
            => \E l \in mailed : issued[l] = a

Stage == [a \in Accounts |-> IF Exists(a) THEN users[a].password
                            ELSE IF a <= created THEN "gone" ELSE "unborn"]
Opened == {job[j].link : j \in {k \in Jobs : job[k].at = "set"}}

Promise == INSTANCE SetupLinks WITH stage <- Stage, opened <- Opened

\* The accounts keep the promise of SetupLinks, however requests overlap, fail or die: a
\* link that was used or replaced is refused ("Password setup link is invalid"), and only
\* requests that had found it in order before still choose a password through it.
LinksPromise == Promise!Spec

\* However requests overlap, permissions are replaced only by a request that had
\* read them: no change of them is lost unseen.
PermissionsReplacedKnowingly ==
    [][\A j \in Jobs :
          LET a == Target(j)
          IN  Save(j) /\ users'[a].perms # users[a].perms
              => users[a].perms = job[j].read.perms]_vars

\* Requests of an account that was switched off, demoted or deleted are served
\* only if they had passed requireAuth before.
RevokedActOnlyLate ==
    \A j \in Jobs : PastAuth(j) => Can(users, job[j].by) \/ j \in late
====
