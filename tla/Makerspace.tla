---- MODULE Makerspace ----
(***************************************************************************)
(* Makerspace presence: scans in and out, forced checkout, ban and unban   *)
(* (routes/checkinRoutes.js) over the check-in log, the current status of  *)
(* each member and the ban list.  A request being handled is an entry of   *)
(* `handler` and takes one step per awaited database call.  The handlers   *)
(* do not catch a rejected call, which ends the process and every handler. *)
(***************************************************************************)
EXTENDS Integers, Sequences, FiniteSets

CONSTANTS
    Ids,          \* membership IDs, normalised
    Handlers,     \* requests the server may be handling at once
    Unset,        \* no membership ID, no status
    MaxArrivals,  \* bound: requests received in a behaviour
    MaxCrashes    \* bound: failures from outside (a rejected database call, a kill)

ASSUME ArrivalsAssumption == MaxArrivals \in Nat /\ MaxCrashes \in Nat

ASSUME UnsetAssumption == Unset \notin Ids \cup {"IN", "OUT"}

VARIABLES
    users,     \* collection "users": the IDs that have an account
    status,    \* collection "user_statuses": currentStatus, or Unset
    trail,     \* collection "checkin_logs" per ID in order of writing, with a
               \* mark (history) where a ban changed the status without an entry
    banned,    \* collection "banned_membership_ids"
    hot,       \* IDs whose newest log entry is younger than the cooldown
    handler,   \* the handlers in flight
    up,        \* the process is running
    arrived,   \* requests received so far
    crashes,   \* failures from outside so far
    late,      \* history: handlers past the ban check when their ID was banned
    rushed,    \* history: IDs with a scan logged within the cooldown
    disturbed  \* history: IDs about which requests overlapped or were cut short

data == <<users, status, trail, banned, hot>>
presence == <<data, handler, up, arrived, crashes, late, rushed, disturbed>>

Requests == {"IN", "OUT", "checkout", "ban"}
Scans == {"IN", "OUT"}
Steps == {"rest", "banned", "user", "status", "cooldown", "log", "write",
          "store", "force"}

Handler == [at : Steps, kind : Requests, id : Ids \cup {Unset}]
Idle == [at |-> "rest", kind |-> "IN", id |-> Unset]

Events == {"IN", "OUT", "forced"}

SpaceTypeOK ==
    /\ users \subseteq Ids
    /\ status \in [Ids -> {"IN", "OUT", Unset}]
    /\ trail \in [Ids -> Seq(Events)]
    /\ banned \subseteq Ids
    /\ hot \subseteq Ids
    /\ handler \in [Handlers -> Handler]
    /\ up \in BOOLEAN
    /\ arrived \in 0 .. MaxArrivals
    /\ crashes \in 0 .. MaxCrashes
    /\ late \subseteq Handlers
    /\ rushed \subseteq Ids
    /\ disturbed \subseteq Ids

SpaceInit ==
    /\ users = Ids
    /\ status = [i \in Ids |-> Unset]
    /\ trail = [i \in Ids |-> <<>>]
    /\ banned = {}
    /\ hot = {}
    /\ handler = [j \in Handlers |-> Idle]
    /\ up = TRUE
    /\ arrived = 0
    /\ crashes = 0
    /\ late = {}
    /\ rushed = {}
    /\ disturbed = {}

Id(j) == handler[j].id
Kind(j) == handler[j].kind

Move(j, to) == handler' = [handler EXCEPT ![j].at = to]
Finish(j) == handler' = [handler EXCEPT ![j] = Idle]

\* A read that lets the request go on, or answers it with an error.
Decide(j, ok, to) ==
    /\ IF ok THEN Move(j, to) ELSE Finish(j)
    /\ UNCHANGED <<data, up, arrived, crashes, late, rushed, disturbed>>

\* No request about the member is being handled.
Settled(i) == \A j \in Handlers : Id(j) # i

-----------------------------------------------------------------------------
(* Requests.                                                               *)

FirstStep(kind) == IF kind = "checkout" THEN "user" ELSE "banned"

Arrive(j, kind, i) ==
    /\ handler[j] = Idle
    /\ arrived < MaxArrivals
    /\ arrived' = arrived + 1
    /\ handler' = [handler EXCEPT ![j] = [at |-> FirstStep(kind), kind |-> kind, id |-> i]]
    /\ late' = late \ {j}
    /\ disturbed' = IF Settled(i) THEN disturbed ELSE disturbed \cup {i}
    /\ UNCHANGED <<data, up, crashes, rushed>>

\* Variant: the ban list is not consulted.
AnyoneAdmitted(kind, i) == TRUE

\* A banned member may still leave.
Admitted(kind, i) == kind = "IN" => i \notin banned

ScanBanned(j) ==
    /\ handler[j].at = "banned" /\ Kind(j) \in Scans
    /\ Decide(j, Admitted(Kind(j), Id(j)), "user")

\* User.findOne: 404 without an account, for scans and forced checkouts.
FindUser(j) ==
    /\ handler[j].at = "user"
    /\ Decide(j, Id(j) \in users, "status")

\* Variant: leaving is always possible.
AllowsLoosely(kind, i) == kind = "IN" => status[i] # "IN"

\* 409 for entering twice and for leaving without being inside.
Allows(kind, i) ==
    IF kind = "IN" THEN status[i] # "IN" ELSE status[i] = "IN"

ReadStatus(j) ==
    /\ handler[j].at = "status"
    /\ Decide(j, Allows(Kind(j), Id(j)), IF Kind(j) \in Scans THEN "cooldown" ELSE "log")

\* Variant: no cooldown.
NoCooldown(i) == TRUE

Cooled(i) == i \notin hot

\* Variant: the scan waits instead of being refused.
AwaitCooldown(j) ==
    /\ handler[j].at = "cooldown"
    /\ Cooled(Id(j))
    /\ Decide(j, TRUE, "log")

\* 429 if the newest entry is too young; a forced checkout does not ask.
CheckCooldown(j) ==
    /\ handler[j].at = "cooldown"
    /\ Decide(j, Cooled(Id(j)), "log")

Direction(kind) == IF kind = "IN" THEN "IN" ELSE "OUT"

WriteLog(j) ==
    /\ handler[j].at = "log"
    /\ trail' = [trail EXCEPT ![Id(j)] = Append(@, Direction(Kind(j)))]
    /\ hot' = hot \cup {Id(j)}
    /\ rushed' = IF Kind(j) \in Scans /\ Id(j) \in hot THEN rushed \cup {Id(j)} ELSE rushed
    /\ Move(j, "write")
    /\ UNCHANGED <<users, status, banned, up, arrived, crashes, late, disturbed>>

\* Variant: the update of the status is forgotten.
LogOnly(j) ==
    /\ handler[j].at = "write"
    /\ Finish(j)
    /\ UNCHANGED <<data, up, arrived, crashes, late, rushed, disturbed>>

\* Writes what the request came for, whatever the status is by now.
WriteStatus(j) ==
    /\ handler[j].at = "write"
    /\ status' = [status EXCEPT ![Id(j)] = Direction(Kind(j))]
    /\ Finish(j)
    /\ UNCHANGED <<users, trail, banned, hot, up, arrived, crashes, late, rushed, disturbed>>

-----------------------------------------------------------------------------
(* Ban and unban.                                                          *)

Down == /\ up' = FALSE
        /\ handler' = [j \in Handlers |-> Idle]
        /\ disturbed' = disturbed \cup {i \in Ids : ~Settled(i)}

FindBan(j) ==
    /\ handler[j].at = "banned" /\ Kind(j) = "ban"
    /\ Decide(j, Id(j) \notin banned, "store")

\* Scans of i that are past the ban check.
UnderWay(i) ==
    {k \in Handlers : Id(k) = i /\ Kind(k) = "IN" /\ handler[k].at \notin {"rest", "banned"}}

StoreBan(j) ==
    /\ handler[j].at = "store"
    /\ Id(j) \notin banned
    /\ banned' = banned \cup {Id(j)}
    /\ late' = late \cup UnderWay(Id(j))
    /\ Move(j, "force")
    /\ UNCHANGED <<users, status, trail, hot, up, arrived, crashes, rushed, disturbed>>

\* Somebody else stored the ban since it was looked up: the duplicate key
\* error is caught by nobody.
StoreBanTwice(j) ==
    /\ handler[j].at = "store"
    /\ Id(j) \in banned
    /\ Down
    /\ UNCHANGED <<data, arrived, crashes, late, rushed>>

\* Variant: the ban is only stored.
BanOnly(j) ==
    /\ handler[j].at = "force"
    /\ Finish(j)
    /\ UNCHANGED <<data, up, arrived, crashes, late, rushed, disturbed>>

\* Update of an existing status only; no log entry.
ForceOut(j) ==
    /\ handler[j].at = "force"
    /\ status' = [status EXCEPT ![Id(j)] = IF @ = Unset THEN Unset ELSE "OUT"]
    /\ trail' = IF status[Id(j)] = "IN"
                THEN [trail EXCEPT ![Id(j)] = Append(@, "forced")]
                ELSE trail
    /\ Finish(j)
    /\ UNCHANGED <<users, banned, hot, up, arrived, crashes, late, rushed, disturbed>>

\* One call; 404 if nothing was deleted.
Unban ==
    /\ up
    /\ \E i \in banned : banned' = banned \ {i}
    /\ UNCHANGED <<users, status, trail, hot, handler, up, arrived, crashes, late, rushed, disturbed>>

-----------------------------------------------------------------------------
(* Accounts, time and failure.                                             *)

\* deleteUser and promotion on the portal; status and log are not touched.
AccountChanges ==
    /\ up
    /\ \E i \in Ids : users' = IF i \in users THEN users \ {i} ELSE users \cup {i}
    /\ UNCHANGED <<status, trail, banned, hot, handler, up, arrived, crashes, late, rushed, disturbed>>

CooldownEnds ==
    /\ \E i \in hot : hot' = hot \ {i}
    /\ UNCHANGED <<users, status, trail, banned, handler, up, arrived, crashes, late, rushed, disturbed>>

Crash ==
    /\ up
    /\ crashes < MaxCrashes
    /\ crashes' = crashes + 1
    /\ Down
    /\ UNCHANGED <<data, arrived, late, rushed>>

Restart ==
    /\ ~up
    /\ up' = TRUE
    /\ UNCHANGED <<data, handler, arrived, crashes, late, rushed, disturbed>>

HandlerStep(j) ==
    \/ ScanBanned(j)
    \/ FindUser(j)
    \/ ReadStatus(j)
    \/ CheckCooldown(j)
    \/ WriteLog(j)
    \/ WriteStatus(j)
    \/ FindBan(j)
    \/ StoreBan(j)
    \/ StoreBanTwice(j)
    \/ ForceOut(j)

SpaceNext ==
    \/ /\ up
       /\ \E j \in Handlers, kind \in Requests, i \in Ids : Arrive(j, kind, i)
    \/ \E j \in Handlers : HandlerStep(j)
    \/ Unban
    \/ AccountChanges
    \/ CooldownEnds
    \/ Crash
    \/ Restart

SpaceSpec == SpaceInit /\ [][SpaceNext]_presence

\* The event loop runs the continuation of every answered database call.
Fairness == \A j \in Handlers : WF_presence(HandlerStep(j))

SpaceFairSpec == SpaceSpec /\ Fairness

-----------------------------------------------------------------------------
(* Properties.  Some hold of every member, the others of the members whose *)
(* requests were handled one after the other, whatever else goes on.       *)

Calm == Ids \ disturbed

Inside(t) == t # <<>> /\ t[Len(t)] = "IN"

Alternates(t) ==
    \A n \in DOMAIN t : (t[n] = "IN") <=> (n = 1 \/ t[n - 1] # "IN")

\* Entries alternate: nobody enters twice without having left or having been put
\* out by a ban, and nobody leaves who is not inside ("Invalid state transition
\* (already IN / not IN yet)" is answered with 409).  Two overlapping scans of one
\* member are both logged, so it holds of members whose requests do not overlap.
CalmLogAlternates == \A i \in Calm : Alternates(trail[i])

\* Once the requests are done, a member is shown inside exactly if their last
\* trace is an entry; unban, deletion of the account and a late restart included.
CalmStatusFollowsLog ==
    \A i \in Calm : Settled(i) => (status[i] = "IN" <=> Inside(trail[i]))

Outside(S) == \A i \in S : Settled(i) => status[i] # "IN"

\* "Force checkout if currently checked in" (ban): a banned member is outside.  A
\* scan in flight while the ban is stored still leads inside, so it holds of members
\* whose requests neither overlap nor die half-way.
CalmBannedOutside == Outside(banned \cap Calm)

\* Even under concurrency a scan gets past the ban list only if it had done so
\* before the ban was stored: once a ban is stored no new scan leads inside.
OnlyLateScansEnterBanned ==
    \A j \in Handlers :
        /\ Kind(j) = "IN" /\ handler[j].at \notin {"rest", "banned"}
        /\ Id(j) \in banned
        => j \in late

\* "Scan too frequent (cooldown)": only overlapping scans of a member get past the
\* cooldown; a restart, or scans of others, do not.
CooldownKept == rushed \subseteq disturbed

\* Every request is answered or dies with the process: of two overlapping bans of
\* one member the second is rejected by the index and ends it (no handler of the
\* router catches), where a repeated one is answered "Already banned".
RequestsAnswered == \A j \in Handlers : handler[j] # Idle ~> handler[j] = Idle
====
