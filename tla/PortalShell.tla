---- MODULE PortalShell ----
(***************************************************************************)
(* The admin portal in one browser tab: log-in and log-out, the cached     *)
(* answers of /me and /clubs, the view mode kept in the browser's storage, *)
(* the layout with its menus, and the guard around every page              *)
(* (App.jsx, RequireAuth, RequirePermission, AdminLayout, Login).          *)
(* Storage, and so the view, outlives log-outs and is shared by everyone   *)
(* who uses the browser; the account behind a cookie may change meanwhile. *)
(***************************************************************************)
EXTENDS Integers, Sequences, FiniteSetsExt

CONSTANTS
    Users,       \* accounts that use this browser
    Clubs,       \* clubs
    Nobody,      \* nobody, nothing cached yet
    Iedc,        \* the view that is no club's
    Accounts,    \* what an account may be: role, permissions, clubs
    MaxActs      \* bound: addresses opened and accounts changed in a behaviour

ASSUME ActsAssumption == MaxActs \in Nat

\* A page and the permission it requires have one name.
Pages == {"dashboard", "registrations", "events", "users", "mailer", "settings", "makerspace"}
ClubViewPages == {"dashboard", "events", "users"}

Account == [admin : BOOLEAN, perms : SUBSET Pages, clubs : SUBSET Clubs, leads : SUBSET Clubs]

ASSUME AccountsAssumption == Accounts \subseteq Account /\ \A a \in Accounts : a.leads \subseteq a.clubs

ASSUME NobodyAssumption == Nobody \notin Users \cup Accounts /\ Iedc \notin Clubs

VARIABLES
    account,  \* the server's accounts
    acts,     \* addresses opened and accounts changed so far
    cookie,   \* whose session cookie the browser holds
    me,       \* cached answer of /me
    listed,   \* cached answer of /clubs: the clubs it shows each user in
    view,     \* view mode, in the browser's storage: a club or Iedc
    page,     \* the page of the location, or "login"
    visit     \* key of the location: every navigation makes a new one (0 and 1)

tab == <<account, acts, cookie, me, listed, view, page, visit>>

NoClubs == [u \in Users |-> {}]

ShellTypeOK ==
    /\ account \in [Users -> Account]
    /\ acts \in 0 .. MaxActs
    /\ cookie \in Users \cup {Nobody}
    /\ me \in Account \cup {Nobody}
    /\ listed \in [Users -> SUBSET Clubs]
    /\ view \in Clubs \cup {Iedc}
    /\ page \in Pages \cup {"login"}
    /\ visit \in {0, 1}

ShellInit ==
    /\ account \in [Users -> Accounts]
    /\ acts = 0
    /\ cookie = Nobody
    /\ me = Nobody
    /\ listed = NoClubs
    /\ view = Iedc
    /\ page = "login"
    /\ visit = 0

\* A navigation, also to where one is, makes a new location.
Navigate(to) == page' = to /\ visit' = 1 - visit

-----------------------------------------------------------------------------
(* The guard around a page.                                                *)

Permitted(who, required) ==
    \/ who.admin
    \/ required \in ClubViewPages /\ who.leads # {}
    \/ required \in who.perms

\* In a club's view its pages are open to every account, the others to none.
Allowed(who, required) ==
    /\ view # Iedc => required \in ClubViewPages
    /\ view # Iedc \/ Permitted(who, required)

\* Makerspace is not among them.
PermissionOrder == <<"dashboard", "registrations", "events", "users", "mailer", "settings">>

\* Variant: everybody is sent to the dashboard.
DashboardForAll(who) == "dashboard"

\* The first of the permissions that leads to a page; the log-in form, if none does.
FirstOf(perms) ==
    LET mine == {n \in DOMAIN PermissionOrder : PermissionOrder[n] \in perms}
    IN IF mine = {} THEN "login" ELSE PermissionOrder[Min(mine)]

\* Variant: the order lacks another page.
FallbackWithoutSettings(who) ==
    IF who.admin \/ who.leads # {} THEN "dashboard" ELSE FirstOf(who.perms \ {"settings"})

\* Where an account is sent that may not see the page.
Fallback(who) ==
    IF who.admin \/ who.leads # {} THEN "dashboard" ELSE FirstOf(who.perms)

\* The effect runs again for every location.
Redirect ==
    /\ page \in Pages /\ me # Nobody
    /\ ~Allowed(me, page)
    /\ Navigate(Fallback(me))
    /\ UNCHANGED <<account, acts, cookie, me, listed, view>>

-----------------------------------------------------------------------------
(* The session.                                                            *)

\* The dashboard follows once /me has answered.
SignIn(u) ==
    /\ page = "login"
    /\ cookie' = u
    /\ me' = account[u]
    /\ Navigate("dashboard")
    /\ UNCHANGED <<account, acts, listed, view>>

\* The log-in succeeds, /me does not answer: the form stays.
SignInUnconfirmed(u) ==
    /\ page = "login"
    /\ cookie' = u
    /\ me' = Nobody
    /\ UNCHANGED <<account, acts, listed, view, page, visit>>

\* Only the answer of /me is forgotten.
SignOut ==
    /\ page \in Pages /\ me # Nobody
    /\ cookie' = Nobody
    /\ me' = Nobody
    /\ Navigate("login")
    /\ UNCHANGED <<account, acts, listed, view>>

CookieExpires ==
    /\ cookie # Nobody
    /\ cookie' = Nobody
    /\ UNCHANGED <<account, acts, me, listed, view, page, visit>>

\* Asked when a page is opened, and again whenever the window gains the focus.
FetchMe ==
    /\ page \in Pages
    /\ IF cookie # Nobody
       THEN me' = account[cookie] /\ UNCHANGED <<page, visit>>
       ELSE me' = Nobody /\ Navigate("login")
    /\ UNCHANGED <<account, acts, cookie, listed, view>>

\* An administrator's list has every club, others have their own.
FetchClubs ==
    /\ page \in Pages /\ me # Nobody /\ cookie # Nobody
    /\ LET own == account[cookie]
           shown == IF own.admin THEN Clubs ELSE own.clubs
       IN listed' = [u \in Users |-> account[u].clubs \cap shown]
    /\ UNCHANGED <<account, acts, cookie, me, view, page, visit>>

\* Opening an address, or reloading, drops what is cached.
Open(p) ==
    /\ acts < MaxActs
    /\ acts' = acts + 1
    /\ me' = Nobody
    /\ listed' = NoClubs
    /\ Navigate(p)
    /\ UNCHANGED <<account, cookie, view>>

-----------------------------------------------------------------------------
(* The layout: menus and view mode.                                        *)

MyClubs == IF cookie = Nobody THEN {} ELSE listed[cookie]

CanUseIedcMode(who) == who.admin \/ \E p \in who.perms : p \notin ClubViewPages

VisibleMenu(who) ==
    {p \in Pages : IF view # Iedc /\ ~who.admin THEN p \in ClubViewPages ELSE Permitted(who, p)}

InLayout == page \in Pages /\ me # Nobody

FollowMenu(p) ==
    /\ InLayout
    /\ p \in VisibleMenu(me)
    /\ Navigate(p)
    /\ UNCHANGED <<account, acts, cookie, me, listed, view>>

SetIedcMode ==
    /\ InLayout
    /\ CanUseIedcMode(me)
    /\ view' = Iedc
    /\ UNCHANGED <<account, acts, cookie, me, listed, page, visit>>

SetClubMode(c) ==
    /\ InLayout
    /\ c \in MyClubs
    /\ view' = c
    /\ UNCHANGED <<account, acts, cookie, me, listed, page, visit>>

\* An account with nothing but club pages is put in its first club's view.  A
\* club that is chosen already is not looked at.
KeepInClubView ==
    /\ InLayout
    /\ ~CanUseIedcMode(me)
    /\ view = Iedc
    /\ view' \in MyClubs
    /\ UNCHANGED <<account, acts, cookie, me, listed, page, visit>>

-----------------------------------------------------------------------------

\* An administrator changes an account or the people of a club.
ChangeAccount(u, to) ==
    /\ acts < MaxActs
    /\ to # account[u]
    /\ account' = [account EXCEPT ![u] = to]
    /\ acts' = acts + 1
    /\ UNCHANGED <<cookie, me, listed, view, page, visit>>

ShellNext ==
    \/ \E u \in Users : SignIn(u) \/ SignInUnconfirmed(u)
    \/ SignOut \/ CookieExpires
    \/ FetchMe \/ FetchClubs \/ Redirect \/ KeepInClubView
    \/ SetIedcMode \/ \E c \in Clubs : SetClubMode(c)
    \/ \E p \in Pages : FollowMenu(p) \/ Open(p)
    \/ \E u \in Users, to \in Accounts : ChangeAccount(u, to)

ShellSpec == ShellInit /\ [][ShellNext]_tab

\* Effects run and requests are answered; people need not click.
ShellFairSpec ==
    /\ ShellSpec
    /\ WF_tab(Redirect) /\ WF_tab(KeepInClubView)
    /\ WF_tab(FetchMe) /\ WF_tab(FetchClubs)

-----------------------------------------------------------------------------

ShowsPage == page = "login" \/ (me # Nobody /\ Allowed(me, page))

\* In a club's view, and the first page the account is permitted is not a club's.
Trapped ==
    /\ view # Iedc /\ me # Nobody
    /\ ~me.admin /\ me.leads = {} /\ "dashboard" \notin me.perms
    /\ \/ "registrations" \in me.perms
       \/ me.perms \cap ClubViewPages = {} /\ me.perms \cap {"mailer", "settings"} # {}

\* Redirection comes to an end: whatever was opened, cached, expired or changed
\* meanwhile, a page that may be seen is shown or the log-in form is, except to
\* an account whose first permitted page the club view hides: RequirePermission
\* sends it from that page to that page again (RequirePermission.jsx:85).
PageSettles == (page \in Pages) ~> (ShowsPage \/ Trapped)

\* A signed-in account is sent to the log-in form for lack of permission only if
\* it has none, or just the one for the makerspace (RequirePermission.jsx:38-52).
SentAwayOnlyWithoutPages ==
    [][(page \in Pages /\ page' = "login" /\ me' # Nobody)
         => (~me.admin /\ me.perms \subseteq {"makerspace"})]_tab

====
