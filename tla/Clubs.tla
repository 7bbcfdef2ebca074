---- MODULE Clubs ----
(***************************************************************************)
(* Clubs and the portal accounts their leads hand out: the handlers of     *)
(* clubController and the club-scoped promotion and update of              *)
(* teamController, one step per awaited database call, driven from the     *)
(* pages Users and Events of the portal, which show what was fetched some  *)
(* time ago and send whole lists back.                                     *)
(*                                                                         *)
(* A save writes the lists that differ from what was loaded and compares   *)
(* the document's version if there is one (Mongoose).  A person stands for *)
(* a registration and for the account made from it.  Setup links and the   *)
(* administrators' own handlers are those of PortalUsers.                  *)
(***************************************************************************)
EXTENDS Integers, FiniteSets

CONSTANTS
    People,      \* students, each with the account made for them, if any
    Root,        \* an administrator by role
    Clubs,
    Jobs,        \* requests the server may be handling at once
    None,        \* no club, no account, nobody
    MaxRequests  \* bound: requests received in a behaviour

ASSUME BoundsAssumption == MaxRequests \in Nat

ASSUME ActorsAssumption == Root \notin People /\ None \notin People \cup Clubs \cup {Root}

Actors == People \cup {Root}

\* One permission that a club may hand out stands for all of them, one for the rest.
Permissions == {"events", "mailer"}
ClubPortalPermissions == {"events"}

Account == [perms : SUBSET Permissions, access : BOOLEAN, version : Nat]

Fields == {"leads", "editors", "members", "regs"}
Lists == [Fields -> SUBSET People]
Club == [lists : Lists, version : Nat]

ASSUME NoneAssumption == None \notin Account \cup Club \cup Lists

NoLists == [f \in Fields |-> {}]

NewClub(leads) == [lists |-> [NoLists EXCEPT !["leads"] = leads], version |-> 0]

VARIABLES
    club,      \* collection "clubs"
    account,   \* collection "users", by person
    job,       \* the handlers in flight
    received,  \* requests received so far
    seen,      \* the lists of the clubs on each actor's screen
    listed,    \* the accounts on the administrator's screen
    wanted,    \* history: a club's members as the clicks meant them
    muddled,   \* history: clubs changed from a stale screen, by two at once, or in vain
    made,      \* history: clubs created so far
    granted,   \* history: whose account was saved for which club
    unjoined,  \* history: those of them for whom the club was not saved
    late       \* history: jobs whose sender lost a permission after it was read

clubVars == <<club, account, job, received, seen, listed, wanted, muddled, made, granted, unjoined, late>>

Steps == {"rest", "promote", "switch", "club", "save", "user", "create", "account", "join"}
Kinds == {"update", "grant", "manage"}

Job == [at : Steps, kind : Kinds, by : Actors \cup {None}, club : Clubs \cup {None},
        who : People \cup {None}, fields : SUBSET Fields, lists : Lists,
        asked : SUBSET Permissions, toggled : SUBSET Permissions, access : BOOLEAN,
        holds : SUBSET Permissions, copy : Club, read : Account]

NoAccount == [perms |-> {}, access |-> FALSE, version |-> 0]

Rest == [at |-> "rest", kind |-> "update", by |-> None, club |-> None, who |-> None,
         fields |-> {}, lists |-> NoLists, asked |-> {}, toggled |-> {}, access |-> FALSE,
         holds |-> {}, copy |-> NewClub({}), read |-> NoAccount]

TypeOK ==
    /\ club \in [Clubs -> Club \cup {None}]
    /\ account \in [People -> Account \cup {None}]
    /\ job \in [Jobs -> Job]
    /\ received \in 0 .. MaxRequests
    /\ seen \in [Actors -> [Clubs -> Lists \cup {None}]]
    /\ listed \in [People -> Account \cup {None}]
    /\ wanted \in [Clubs -> SUBSET People]
    /\ muddled \subseteq Clubs
    /\ made \subseteq Clubs
    /\ granted \subseteq People \X Clubs
    /\ unjoined \subseteq granted
    /\ late \subseteq Jobs

\* One person has been given both permissions; there is no club yet.
ClubsInit ==
    /\ club = [c \in Clubs |-> None]
    /\ \E first \in People :
          account = [p \in People |->
              IF p = first THEN [perms |-> Permissions, access |-> TRUE, version |-> 0] ELSE None]
    /\ job = [j \in Jobs |-> Rest]
    /\ received = 0
    /\ seen = [a \in Actors |-> [c \in Clubs |-> None]]
    /\ listed = [p \in People |-> None]
    /\ wanted = [c \in Clubs |-> {}]
    /\ muddled = {}
    /\ made = {}
    /\ granted = {}
    /\ unjoined = {}
    /\ late = {}

Holds(a) == IF a = Root THEN Permissions ELSE account[a].perms

\* requireAuth: a person needs an account that is switched on.
MayAct(a) == a \in People => (account[a] # None /\ account[a].access)

Belongs(a, c) ==
    club[c] # None /\ (a = Root \/ \E f \in {"leads", "editors", "members"} : a \in club[c].lists[f])

Busy(c) == \E j \in Jobs : job[j].club = c

-----------------------------------------------------------------------------
(* The portal's pages.                                                     *)

\* listClubs: an administrator sees every club, others their own.
Fetch(a) ==
    /\ MayAct(a)
    /\ seen' = [seen EXCEPT ![a] = [c \in Clubs |-> IF Belongs(a, c) THEN club[c].lists ELSE None]]
    /\ UNCHANGED <<club, account, job, received, wanted, muddled, made, granted, unjoined, late>>

\* listUsers, for administrators.
FetchUsers ==
    /\ listed' = account
    /\ UNCHANGED <<club, account, job, received, seen, wanted, muddled, made, granted, unjoined, late>>

Shown(a, c, f) == IF seen[a][c] = None THEN {} ELSE seen[a][c][f]

Flip(set, p) == IF p \in set THEN set \ {p} ELSE set \cup {p}

\* A handler starts once requireAuth has read the sender's account.
Send(j, a, request) ==
    /\ job[j] = Rest
    /\ received < MaxRequests
    /\ received' = received + 1
    /\ MayAct(a)
    /\ job' = [job EXCEPT ![j] = [request EXCEPT !.by = a, !.holds = Holds(a)]]
    /\ late' = late \ {j}
    /\ UNCHANGED <<club, account, seen>>

Updating(c, field, set) ==
    [Rest EXCEPT !.at = "club", !.club = c, !.fields = {field}, !.lists[field] = set]

\* Variant: a second click does not wait for the first one's answer.
NeverPending(a) == FALSE

\* The mutation of the page is still pending.
Pending(a) == \E j \in Jobs : job[j].by = a /\ job[j].kind = "update"

\* A lead adds or removes a member with a click: the list on the screen, with
\* the one changed, is sent.  The page does not wait for the new list.
ToggleMember(j, a, c, p) ==
    /\ a \in Shown(a, c, "leads")
    /\ ~Pending(a)
    /\ Send(j, a, Updating(c, "regs", Flip(Shown(a, c, "regs"), p)))
    /\ wanted' = [wanted EXCEPT ![c] = IF p \in Shown(a, c, "regs") THEN @ \ {p} ELSE @ \cup {p}]
    /\ muddled' = IF club[c] # None /\ club[c].lists["regs"] = Shown(a, c, "regs")
                     /\ \A k \in Jobs : job[k].club = c => job[k].by = a
                  THEN muddled ELSE muddled \cup {c}
    /\ UNCHANGED <<made, granted, unjoined>>

\* The form of a club sends back every list its user may change.
FormFields(a, c) ==
    IF a = Root THEN {"leads", "editors", "regs"}
    ELSE IF a \in Shown(a, c, "leads") THEN {"editors", "regs"} ELSE {}

\* It is filled from the list on the screen.
ClubForm(a, c) == seen[a][c]

SubmitClub(j, a, c, field, p) ==
    /\ ClubForm(a, c) # None
    /\ field \in FormFields(a, c)
    /\ ~Pending(a)
    /\ Send(j, a, [Updating(c, field, {}) EXCEPT
                     !.fields = FormFields(a, c),
                     !.lists = [ClubForm(a, c) EXCEPT ![field] = Flip(@, p)]])
    /\ muddled' = muddled \cup {c}
    /\ UNCHANGED <<wanted, made, granted, unjoined>>

LeadsShown(c) == Shown(Root, c, "leads")

\* The dialog Add Club Lead: anybody on record, for a club on the screen, while no
\* other one is being added.
CanAddLead(c) ==
    /\ seen[Root][c] # None
    /\ \A j \in Jobs : job[j].by = Root => job[j].who = None

\* Whoever is not among the accounts on the screen is promoted first; one whose
\* account is off there may be switched on, its permissions being sent along.
AddLead(j, c, p, access) ==
    /\ CanAddLead(c)
    /\ Send(j, Root,
            [Updating(c, "leads", LeadsShown(c) \cup {p}) EXCEPT
               !.who = p, !.access = access,
               !.at = IF listed[p] = None THEN "promote"
                      ELSE IF access /\ ~listed[p].access THEN "switch" ELSE "club",
               !.asked = IF listed[p] = None THEN {} ELSE listed[p].perms])
    /\ muddled' = muddled \cup {c}
    /\ UNCHANGED <<wanted, made, granted, unjoined>>

\* Asked once more: whoever is no lead any more by then is left alone.
ConfirmsRemoval(c, p) == p \in LeadsShown(c)

RemoveLead(j, c, p) ==
    /\ ConfirmsRemoval(c, p)
    /\ Send(j, Root, Updating(c, "leads", LeadsShown(c) \ {p}))
    /\ muddled' = muddled \cup {c}
    /\ UNCHANGED <<wanted, made, granted, unjoined>>

\* The dialogs offer the permissions that a club may hand out.
GrantAccess(j, a, c, p, ticked, access) ==
    /\ a \in Shown(a, c, "leads")
    /\ ticked \subseteq ClubPortalPermissions
    /\ Send(j, a, [Rest EXCEPT !.at = "club", !.kind = "grant", !.club = c, !.who = p,
                               !.asked = ticked, !.toggled = ticked, !.access = access])
    /\ muddled' = muddled \cup {c}
    /\ UNCHANGED <<wanted, made, granted, unjoined>>

\* What the dialog of a portal member starts from: /clubs tells names, emails, IDs
\* and roles of members, so no permission is ticked and the access is on.
DialogPermissions(p) == {}

ManageAccess(j, a, c, p, toggled, access) ==
    /\ a \in Shown(a, c, "leads") /\ p \in Shown(a, c, "members")
    /\ toggled \subseteq ClubPortalPermissions
    /\ Send(j, a, [Rest EXCEPT
                     !.at = "club", !.kind = "manage", !.club = c, !.who = p, !.access = access,
                     !.toggled = toggled,
                     !.asked = (DialogPermissions(p) \ toggled) \cup (toggled \ DialogPermissions(p))])
    /\ UNCHANGED <<wanted, muddled, made, granted, unjoined>>

-----------------------------------------------------------------------------
(* The handlers.                                                           *)

Club0(j) == club[job[j].club]
Who(j) == job[j].who

\* The requests whose sender is losing a permission they were admitted with.
Losing(p, perms) == {k \in Jobs : job[k].by = p /\ ~(account[p].perms \subseteq perms)}

Go(j, to) == [job EXCEPT ![j].at = to]
Answer(j) == job' = [job EXCEPT ![j] = Rest]

\* A refused request leaves what it was to do undone.
Refused(j) ==
    /\ Answer(j)
    /\ muddled' = muddled \cup {job[j].club}
    /\ UNCHANGED <<club, account, received, seen, wanted, made, granted, unjoined, late>>

\* promoteUser, for a lead to be: no permissions.
PromoteLead(j) ==
    /\ job[j].at = "promote"
    /\ IF account[Who(j)] # None THEN Refused(j)
       ELSE /\ account' = [account EXCEPT ![Who(j)] = [NoAccount EXCEPT !.access = job[j].access]]
            /\ job' = Go(j, "club")
            /\ UNCHANGED <<club, received, seen, wanted, muddled, made, granted, unjoined, late>>

\* Administrators may change every list, leads those below them, editors none.
MayChange(j) ==
    IF job[j].by = Root THEN Fields
    ELSE IF job[j].by \in Club0(j).lists["leads"] THEN Fields \ {"leads"} ELSE {}

Admitted(j) ==
    CASE job[j].kind = "update" -> job[j].fields \subseteq MayChange(j)
      [] job[j].kind = "grant" -> job[j].by \in Club0(j).lists["leads"]
      [] job[j].kind = "manage" -> /\ job[j].by \in Club0(j).lists["leads"]
                                   /\ Who(j) \in Club0(j).lists["members"]

\* updateUser, for a lead to be whose account is off.
SwitchLeadOn(j) ==
    /\ job[j].at = "switch"
    /\ account' = [account EXCEPT ![Who(j)] =
          [perms |-> job[j].asked, access |-> TRUE,
           version |-> IF job[j].asked # @.perms THEN @.version + 1 ELSE @.version]]
    /\ job' = Go(j, "club")
    /\ late' = late \cup Losing(Who(j), job[j].asked)
    /\ UNCHANGED <<club, received, seen, wanted, muddled, made, granted, unjoined>>

LoadClub(j) ==
    /\ job[j].at = "club"
    /\ IF Club0(j) # None /\ Admitted(j)
       THEN /\ job' = [job EXCEPT ![j].copy = Club0(j),
                                  ![j].at = IF job[j].kind = "update" THEN "save" ELSE "user"]
            /\ UNCHANGED <<club, account, received, seen, wanted, muddled, made, granted, unjoined, late>>
       ELSE Refused(j)

\* The lists a save writes, and what stops it.
Changed(j, lists) == {f \in Fields : lists[f] # job[j].copy.lists[f]}

Stale(j, lists) ==
    Club0(j) = None \/ (Changed(j, lists) # {} /\ Club0(j).version # job[j].copy.version)

Written(j, lists) ==
    IF Changed(j, lists) = {} THEN club
    ELSE [club EXCEPT ![job[j].club] =
             [lists |-> [f \in Fields |-> IF f \in Changed(j, lists) THEN lists[f] ELSE @.lists[f]],
              version |-> @.version + 1]]

Asked(j) == [f \in Fields |-> IF f \in job[j].fields THEN job[j].lists[f] ELSE job[j].copy.lists[f]]

SaveClub(j) ==
    /\ job[j].at = "save"
    /\ IF Stale(j, Asked(j)) THEN Refused(j)
       ELSE /\ club' = Written(j, Asked(j))
            /\ Answer(j)
            /\ UNCHANGED <<account, received, seen, wanted, muddled, made, granted, unjoined, late>>

FindUser(j) ==
    /\ job[j].at = "user"
    /\ IF account[Who(j)] # None
       THEN job' = [job EXCEPT ![j].read = account[Who(j)], ![j].at = "account"]
       ELSE IF job[j].kind = "grant" THEN job' = Go(j, "create") ELSE Answer(j)
    /\ UNCHANGED <<club, account, received, seen, wanted, muddled, made, granted, unjoined, late>>

\* Variant: what was asked for is given.
AllAsked(j) == job[j].asked

\* limitClubPortalPermissions, by what requireAuth read of the sender.
Given(j) == job[j].asked \cap job[j].holds \cap ClubPortalPermissions

CreateUser(j) ==
    /\ job[j].at = "create"
    /\ IF account[Who(j)] # None THEN Refused(j)
       ELSE /\ account' = [account EXCEPT ![Who(j)] =
                             [perms |-> Given(j), access |-> job[j].access, version |-> 0]]
            /\ job' = Go(j, "join")
            /\ granted' = granted \cup {<<Who(j), job[j].club>>}
            /\ UNCHANGED <<club, received, seen, wanted, muddled, made, unjoined, late>>

\* The permissions of an account on record are replaced.
Replaces(j) == Given(j) # job[j].read.perms

SavedUser(j) ==
    LET user == account[Who(j)]
    IN [perms |-> IF Replaces(j) THEN Given(j) ELSE user.perms,
        access |-> IF job[j].access # job[j].read.access THEN job[j].access ELSE user.access,
        version |-> IF Replaces(j) THEN user.version + 1 ELSE user.version]

RefusedSave(j) == Replaces(j) /\ account[Who(j)].version # job[j].read.version

Save(j) ==
    /\ ~RefusedSave(j)
    /\ account' = [account EXCEPT ![Who(j)] = SavedUser(j)]
    /\ late' = IF Replaces(j) THEN late \cup Losing(Who(j), Given(j)) ELSE late
    /\ UNCHANGED <<club, received, seen, wanted, muddled, made, unjoined>>

\* Somebody who had an account is granted more of it and joins the club.
SaveUser(j) ==
    /\ job[j].at = "account" /\ job[j].kind = "grant"
    /\ \/ RefusedSave(j) /\ Refused(j)
       \/ /\ Save(j)
          /\ job' = Go(j, "join")
          /\ granted' = granted \cup {<<Who(j), job[j].club>>}

ManageUser(j) ==
    /\ job[j].at = "account" /\ job[j].kind = "manage"
    /\ \/ RefusedSave(j) /\ Refused(j)
       \/ Save(j) /\ Answer(j) /\ UNCHANGED granted

\* Variant: the list of portal members is left out.
JoinedRegsOnly(j) == [job[j].copy.lists EXCEPT !["regs"] = @ \cup {Who(j)}]

Joined(j) ==
    [job[j].copy.lists EXCEPT !["regs"] = @ \cup {Who(j)}, !["members"] = @ \cup {Who(j)}]

\* The account is on record by now: if the club is not saved it stays outside.
Join(j) ==
    /\ job[j].at = "join"
    /\ IF Stale(j, Joined(j))
       THEN /\ unjoined' = unjoined \cup {<<Who(j), job[j].club>>}
            /\ UNCHANGED club
       ELSE /\ club' = Written(j, Joined(j))
            /\ UNCHANGED <<made, granted, unjoined>>
    /\ Answer(j)
    /\ UNCHANGED <<account, received, seen, wanted, muddled, made, granted, late>>

\* The dialog offers the accounts on the screen as leads of a new club.
LeadsOffered == {p \in People : listed[p] # None}

\* createClub and deleteClub are one call each; only administrators may.  A new
\* club has leads and nobody else.
CreateClub(c, leads) ==
    /\ c \notin made
    /\ leads \subseteq LeadsOffered
    /\ club' = [club EXCEPT ![c] = NewClub(leads)]
    /\ made' = made \cup {c}
    /\ UNCHANGED <<account, job, received, seen, wanted, muddled, granted, unjoined, late>>

DeleteClub(c) ==
    /\ club[c] # None
    /\ received < MaxRequests
    /\ received' = received + 1
    /\ club' = [club EXCEPT ![c] = None]
    /\ muddled' = muddled \cup {c}
    /\ UNCHANGED <<account, job, seen, wanted, made, granted, unjoined, late>>

\* updateUser of PortalUsers, in one step: an administrator changes an account.
ChangeUser(p, perms, access) ==
    /\ account[p] # None
    /\ received < MaxRequests
    /\ received' = received + 1
    /\ account' = [account EXCEPT ![p] =
          [perms |-> perms, access |-> access,
           version |-> IF perms # @.perms THEN @.version + 1 ELSE @.version]]
    /\ late' = late \cup Losing(p, perms)
    /\ UNCHANGED <<club, job, seen, wanted, muddled, made, granted, unjoined>>

\* The process ends: the handlers in flight are gone.
Drop ==
    /\ job' = [j \in Jobs |-> Rest]
    /\ muddled' = muddled \cup {c \in Clubs : Busy(c)}
    /\ unjoined' = unjoined \cup {<<job[j].who, job[j].club>> : j \in {k \in Jobs : job[k].at = "join"}}
    /\ UNCHANGED <<club, account, received, seen, wanted, made, granted, late>>

Step(j) ==
    \/ PromoteLead(j) \/ SwitchLeadOn(j) \/ LoadClub(j) \/ SaveClub(j)
    \/ FindUser(j) \/ CreateUser(j) \/ SaveUser(j) \/ ManageUser(j) \/ Join(j)

Request(j) ==
    \E c \in Clubs, p \in People :
        \/ RemoveLead(j, c, p) \/ \E access \in BOOLEAN : AddLead(j, c, p, access)
        \/ \E a \in Actors, f \in Fields : SubmitClub(j, a, c, f, p)
        \/ \E a \in People :
              \/ ToggleMember(j, a, c, p)
              \/ \E perms \in SUBSET Permissions, access \in BOOLEAN :
                    GrantAccess(j, a, c, p, perms, access) \/ ManageAccess(j, a, c, p, perms, access)

ClubStep ==
    \/ Drop
    \/ \E a \in Actors : Fetch(a)
    \/ \E j \in Jobs : Request(j) \/ Step(j)
    \/ \E c \in Clubs : DeleteClub(c) \/ \E leads \in SUBSET People : CreateClub(c, leads)
    \/ \E p \in People, perms \in SUBSET Permissions, access \in BOOLEAN : ChangeUser(p, perms, access)

ClubsNext == FetchUsers \/ (ClubStep /\ UNCHANGED listed)

ClubsSpec == ClubsInit /\ [][ClubsNext]_clubVars

-----------------------------------------------------------------------------

\* Clicks add up: while the members of a club are only ever toggled, from a screen
\* that shows them as they are and by one lead at a time, the record ends up as
\* the clicks meant it.  A click on a screen not yet refetched is not so safe:
\* the whole list is sent and the one before is lost (Users.jsx:109-116).
ClicksAddUp ==
    \A c \in Clubs :
        club[c] = None \/ c \in muddled \/ Busy(c) \/ club[c].lists["regs"] = wanted[c]

\* Whose account was saved for a club stays a portal member of it, however saves
\* of the club overlap, unless the club's save was refused or cut off after the
\* account's (teamController.js:1304).
GrantedBelong ==
    \A grant \in granted \ unjoined :
        LET p == grant[1]
            c == grant[2]
        IN \/ club[c] = None \/ p \in club[c].lists["members"]
           \/ \E j \in Jobs : job[j].at = "join" /\ job[j].who = p /\ job[j].club = c

\* A lead hands out permissions it holds, and of those only what a club may,
\* whatever the screen offered; one that lost them can do so only through a
\* request that was already admitted (teamController.js:35-53).
LeadsGrantWhatTheyHold ==
    [][\A j \in Jobs :
          (job[j].at \in {"create", "account"} /\ job'[j].at # job[j].at /\ account' # account)
             => LET p == job[j].who
                    before == IF account[p] = None THEN {} ELSE account[p].perms
                IN account'[p].perms \ before
                     \subseteq IF j \in late THEN ClubPortalPermissions
                               ELSE ClubPortalPermissions \cap Holds(job[j].by)]_clubVars

\* What a lead saves in the dialog of another portal member changes the permissions
\* that were toggled in it and no others ("Update access and permissions for this
\* member.", Users.jsx:653).
LeadsChangeWhatTheyToggle ==
    [][\A j \in Jobs :
          (/\ job[j].at = "account" /\ job[j].kind = "manage" /\ job'[j].at # "account"
           /\ job[j].who # job[j].by)
             => LET p == job[j].who
                IN \A perm \in Permissions :
                      (perm \in account[p].perms) # (perm \in account'[p].perms)
                         => perm \in job[j].toggled]_clubVars
====
