---- MODULE ClubsProofs ----
(***************************************************************************)
(* Proofs about Clubs, for every set of people, clubs and concurrent       *)
(* requests: clicks on members add up, whoever is granted access belongs,  *)
(* and leads hand out what they hold.                                      *)
(***************************************************************************)
EXTENDS Clubs, TLAPS

USE BoundsAssumption, ActorsAssumption, NoneAssumption

-----------------------------------------------------------------------------
(* Types.                                                                  *)

Granting(r) == r.at \in {"user", "create", "account", "join"}

Copied(r) == r.at = "save" \/ Granting(r)

\* What a handler at a step carries, and whose request it is.
Shaped(r) ==
    /\ r \in Job
    /\ r.at = "rest" <=> r = Rest
    /\ r.at # "rest" => r.club \in Clubs /\ r.by \in Actors
    /\ r.at # "rest" /\ r.kind # "update" => r.who \in People /\ r.by \in People
    /\ r.at \in {"promote", "switch", "save"} => r.kind = "update"
    /\ r.at \in {"promote", "switch"} => r.who \in People /\ r.by = Root
    /\ Granting(r) => r.kind # "update"
    /\ r.at \in {"create", "join"} => r.kind = "grant"
    /\ r.at # "rest" /\ r.kind = "update" => "members" \notin r.fields

\* An account stays on record: those on the administrator's screen, of senders,
\* and of the people whom a handler has found are there.  Who joins was granted.
AccountsInv ==
    /\ \A p \in People : listed[p] # None => account[p] # None
    /\ \A j \in Jobs : job[j].by \in People => account[job[j].by] # None
    /\ \A j \in Jobs : job[j].at \in {"switch", "account"} => account[job[j].who] # None
    /\ \A j \in Jobs : job[j].at = "join" => <<job[j].who, job[j].club>> \in granted

Typed ==
    /\ TypeOK
    /\ \A j \in Jobs : Shaped(job[j])
    /\ AccountsInv

\* What a handler becomes: its copy of the club is fresh or the one it had, and so
\* is what it knows of its sender.
Goes(j, r) ==
    /\ job' = [job EXCEPT ![j] = r]
    /\ Shaped(r)
    /\ r.by \in People => account'[r.by] # None
    /\ r.at \in {"switch", "account"} => account'[r.who] # None
    /\ r.at = "join" => <<r.who, r.club>> \in granted'
    /\ \/ ~Copied(r)
       \/ club' = club /\ r.copy = club[r.club]
       \/ Copied(job[j]) /\ r.copy = job[j].copy /\ r.club = job[j].club
    /\ r.at # "rest" =>
          \/ /\ job[j].at # "rest"
             /\ r.by = job[j].by /\ r.holds = job[j].holds /\ r.club = job[j].club
          \/ account' = account /\ r.holds = Holds(r.by) /\ \E a \in Actors : seen[a][r.club] # None

JobsGo ==
    \/ \E j \in Jobs : \E r \in Job : Goes(j, r)
    \/ job' = job
    \/ job' = [j \in Jobs |-> Rest]

\* A club is created once; then its version tells, and nobody is taken off the list
\* of its portal members.
ClubGoes(c) ==
    \/ club'[c] = club[c]
    \/ club'[c] = None
    \/ c \notin made
    \/ /\ club[c] # None
       /\ club'[c].version = club[c].version + 1
       /\ club[c].lists["members"] \subseteq club'[c].lists["members"]

\* Requests of senders who lose a permission are marked late.
AccountsGo ==
    \A p \in People : account[p] # None =>
        /\ account'[p] # None
        /\ Losing(p, account'[p].perms) \subseteq late'

LateGo == \A k \in late \ late' : job[k] = Rest

Moves ==
    /\ JobsGo
    /\ club' \in [Clubs -> Club \cup {None}] /\ \A c \in Clubs : ClubGoes(c)
    /\ account' \in [People -> Account \cup {None}] /\ AccountsGo
    /\ received' \in 0 .. MaxRequests
    /\ seen' \in [Actors -> [Clubs -> Lists \cup {None}]]
    /\ listed' \in {listed, account}
    /\ wanted' \in [Clubs -> SUBSET People]
    /\ muddled' \subseteq Clubs
    /\ made' \subseteq Clubs
    /\ granted \subseteq granted' /\ granted' \subseteq People \X Clubs
    /\ unjoined' \subseteq granted'
    /\ late' \subseteq Jobs /\ LateGo

LEMMA RestShaped ==
    /\ Shaped(Rest) /\ ~Copied(Rest) /\ Rest.at = "rest" /\ Rest.club = None /\ Rest.by = None
    /\ Rest.kind = "update" /\ Rest.who = None /\ Rest.lists = NoLists
<1>1. NoLists \in Lists /\ [NoLists EXCEPT !["leads"] = {}] \in Lists
  BY DEF NoLists, Lists, Fields
<1>2. NewClub({}) \in Club /\ NoAccount \in Account
  BY <1>1 DEF NewClub, Club, NoAccount, Account
<1>3. Rest \in Job
  BY <1>1, <1>2 DEF Rest, Job, Steps, Kinds
<1>4. /\ Rest.at = "rest" /\ Rest.club = None /\ Rest.by = None /\ Rest.kind = "update"
      /\ Rest.who = None /\ Rest.lists = NoLists
  BY DEF Rest
<1> QED
  BY <1>3, <1>4 DEF Shaped, Granting, Copied

LEMMA Answers ==
    ASSUME NEW j \in Jobs, Answer(j)
    PROVE  JobsGo
<1>1. Goes(j, Rest) /\ Rest \in Job
  BY RestShaped DEF Goes, Answer, Shaped
<1> QED
  BY <1>1 DEF JobsGo

\* Accounts left alone.
LEMMA SameAccounts ==
    ASSUME Typed, account' = account
    PROVE  AccountsGo
  BY DEF AccountsGo, Losing

LEMMA MovesTyped ==
    ASSUME Typed, Moves
    PROVE  Typed'
<1>1. ASSUME NEW k \in Jobs
      PROVE  /\ Shaped(job'[k])
             /\ job'[k].by \in People => account'[job'[k].by] # None
             /\ job'[k].at \in {"switch", "account"} => account'[job'[k].who] # None
             /\ job'[k].at = "join" => <<job'[k].who, job'[k].club>> \in granted'
  <2>1. CASE job'[k] = job[k]
    <3>1. Shaped(job[k])
      BY DEF Typed
    <3>2. job[k].at \in {"switch", "account"} => job[k].who \in People
      BY <3>1 DEF Shaped, Granting
    <3> QED
      BY <2>1, <3>1, <3>2 DEF Typed, AccountsInv, Moves, AccountsGo
  <2>2. CASE job'[k] = Rest
    BY <2>2, RestShaped
  <2>3. ASSUME NEW j \in Jobs, NEW r \in Job, Goes(j, r), k = j
        PROVE  job'[k] = r
    BY <2>3 DEF Goes, Typed, TypeOK
  <2>4. ASSUME NEW j \in Jobs, NEW r \in Job, Goes(j, r), k # j
        PROVE  job'[k] = job[k]
    BY <2>4 DEF Goes, Typed, TypeOK
  <2>5. ASSUME NEW j \in Jobs, NEW r \in Job, Goes(j, r), k = j
        PROVE  /\ Shaped(job'[k])
               /\ job'[k].by \in People => account'[job'[k].by] # None
               /\ job'[k].at \in {"switch", "account"} => account'[job'[k].who] # None
               /\ job'[k].at = "join" => <<job'[k].who, job'[k].club>> \in granted'
    <3>1. job'[k] = r
      BY <2>3, <2>5
    <3> QED
      BY <2>5, <3>1 DEF Goes
  <2>6. CASE \E j \in Jobs : \E r \in Job : Goes(j, r)
    BY <2>1, <2>4, <2>5, <2>6
  <2>7. CASE job' = job
    BY <2>1, <2>7
  <2>8. CASE job' = [j \in Jobs |-> Rest]
    BY <2>2, <2>8
  <2>9. JobsGo
    BY DEF Moves
  <2> QED
    BY <2>6, <2>7, <2>8, <2>9 DEF JobsGo
<1>2. job' \in [Jobs -> Job]
  <2>1. job \in [Jobs -> Job] /\ Rest \in Job
    BY RestShaped DEF Shaped, Typed, TypeOK
  <2>2. ASSUME NEW j \in Jobs, NEW r \in Job, Goes(j, r)
        PROVE  job' \in [Jobs -> Job]
    BY <2>1, <2>2 DEF Goes
  <2>3. JobsGo
    BY DEF Moves
  <2> QED
    BY <2>1, <2>2, <2>3 DEF JobsGo
<1>3. listed' \in [People -> Account \cup {None}] /\ \A p \in People : listed'[p] # None => account'[p] # None
  BY DEF Moves, AccountsGo, Typed, TypeOK, AccountsInv
<1>4. TypeOK'
  BY <1>2, <1>3 DEF TypeOK, Moves
<1>5. (\A k \in Jobs : Shaped(job[k]))'
  BY <1>1 DEF Shaped, Granting
<1>6. AccountsInv'
  BY <1>1, <1>3 DEF AccountsInv
<1> QED
  BY <1>4, <1>5, <1>6 DEF Typed

-----------------------------------------------------------------------------
(* Requests.                                                               *)

\* What a request says, but for its sender.
Said(a, r) ==
    /\ r \in Job
    /\ r.at \in {"club", "promote", "switch"}
    /\ r.club \in Clubs /\ \E b \in Actors : seen[b][r.club] # None
    /\ r.kind # "update" => r.who \in People /\ a \in People /\ r.at = "club"
    /\ r.at # "club" => r.who \in People /\ a = Root
    /\ r.at = "switch" => account[r.who] # None
    /\ r.kind = "update" => "members" \notin r.fields

LEMMA SendGoes ==
    ASSUME Typed, NEW j \in Jobs, NEW a \in Actors, NEW request,
           Send(j, a, request), Said(a, request)
    PROVE  /\ JobsGo /\ AccountsGo /\ LateGo
           /\ received' \in 0 .. MaxRequests
           /\ late' \subseteq Jobs
<1> DEFINE r == [request EXCEPT !.by = a, !.holds = Holds(a)]
<1>1. request \in Job
  BY DEF Said
<1>2. a \in People => account[a] # None
  BY DEF Send, MayAct
<1>3. Holds(a) \in SUBSET Permissions
  <2>1. CASE a = Root
    BY <2>1 DEF Holds
  <2>2. CASE a # Root
    <3>1. a \in People
      BY <2>2 DEF Actors
    <3>2. account[a] \in Account
      BY <1>2, <3>1 DEF Typed, TypeOK
    <3> QED
      BY <2>2, <3>2 DEF Holds, Account
  <2> QED
    BY <2>1, <2>2
<1>4. r \in Job
  BY <1>1, <1>3 DEF Job
<1>5. /\ r.at = request.at /\ r.kind = request.kind /\ r.club = request.club /\ r.who = request.who
      /\ r.fields = request.fields /\ r.by = a /\ r.holds = Holds(a)
  BY <1>1 DEF Job
<1>6. job' = [job EXCEPT ![j] = r] /\ account' = account /\ job[j] = Rest
  BY DEF Send
<1> HIDE DEF r
<1>7. Shaped(r)
  BY <1>4, <1>5, RestShaped DEF Said, Shaped, Granting
<1>8. Goes(j, r)
  BY <1>2, <1>5, <1>6, <1>7 DEF Said, Goes, Copied, Granting
<1>9. received' \in 0 .. MaxRequests
  BY DEF Send, Typed, TypeOK
<1> QED
  BY <1>4, <1>6, <1>8, <1>9, SameAccounts DEF JobsGo, LateGo, Send, Typed, TypeOK

LEMMA UpdatingSays ==
    ASSUME NEW c \in Clubs, NEW field \in Fields, NEW set \in SUBSET People
    PROVE  LET r == Updating(c, field, set)
           IN  /\ r \in Job
               /\ r.at = "club" /\ r.kind = "update" /\ r.club = c /\ r.who = None
               /\ r.fields = {field} /\ r.lists[field] = set
<1>1. Rest \in Job
  BY RestShaped DEF Shaped
<1>2. [Rest.lists EXCEPT ![field] = set] \in Lists /\ [Rest.lists EXCEPT ![field] = set][field] = set
  BY <1>1 DEF Job, Lists
<1> DEFINE lists == [Rest.lists EXCEPT ![field] = set]
<1> HIDE DEF lists
<1> DEFINE r == [Rest EXCEPT !.at = "club", !.club = c, !.fields = {field}, !.lists = lists]
<1>3. r \in Job
  BY <1>1, <1>2 DEF Job, Steps, lists
<1>4. /\ r.at = "club" /\ r.kind = "update" /\ r.club = c /\ r.who = None
      /\ r.fields = {field} /\ r.lists = lists
  BY <1>1, RestShaped DEF Job
<1>5. Updating(c, field, set) = r
  BY DEF Updating, lists
<1> HIDE DEF r
<1> QED
  BY <1>2, <1>3, <1>4, <1>5 DEF lists

LEMMA ShownTyped ==
    ASSUME Typed, NEW a \in Actors, NEW c \in Clubs, NEW f \in Fields
    PROVE  /\ Shown(a, c, f) \in SUBSET People
           /\ Shown(a, c, f) # {} => seen[a][c] # None
  BY DEF Shown, Typed, TypeOK, Lists

LEMMA Flips ==
    ASSUME NEW set \in SUBSET People, NEW p \in People
    PROVE  Flip(set, p) \in SUBSET People
  BY DEF Flip

\* What a request leaves alone.
Asks(j) ==
    /\ job[j] = Rest
    /\ JobsGo /\ AccountsGo /\ LateGo
    /\ received' \in 0 .. MaxRequests
    /\ late' \subseteq Jobs
    /\ UNCHANGED <<club, account, seen, made, granted, unjoined>>
    /\ wanted' \in [Clubs -> SUBSET People]
    /\ muddled \subseteq muddled' /\ muddled' \subseteq Clubs

LEMMA SentJob ==
    ASSUME Typed, NEW j \in Jobs, NEW a, NEW request \in Job, Send(j, a, request)
    PROVE  /\ \A k \in Jobs : k # j => job'[k] = job[k]
           /\ job[j] = Rest
           /\ job'[j].at = request.at /\ job'[j].kind = request.kind
           /\ job'[j].club = request.club /\ job'[j].fields = request.fields
           /\ job'[j].lists = request.lists /\ job'[j].by = a
           /\ UNCHANGED <<club, account, seen>>
<1> DEFINE r == [request EXCEPT !.by = a, !.holds = Holds(a)]
<1>1. job' = [job EXCEPT ![j] = r] /\ job[j] = Rest /\ UNCHANGED <<club, account, seen>>
  BY DEF Send
<1>2. /\ r.at = request.at /\ r.kind = request.kind /\ r.club = request.club
      /\ r.fields = request.fields /\ r.lists = request.lists /\ r.by = a
  BY DEF Job
<1> HIDE DEF r
<1>3. job'[j] = r /\ \A k \in Jobs : k # j => job'[k] = job[k]
  BY <1>1 DEF Typed, TypeOK
<1> QED
  BY <1>1, <1>2, <1>3

\* What a request means for the members of the clubs that nothing has come in
\* between at: it is none about them, or a click that says what is wanted.
Minds(j) ==
    /\ \A k \in Jobs : k # j => job'[k] = job[k]
    /\ \A c \in Clubs : wanted'[c] # wanted[c] => \E a \in Actors : seen[a][c] # None
    /\ \A c \in Clubs \ muddled' :
          \/ wanted'[c] = wanted[c] /\ (job'[j].club # c \/ job'[j].kind = "manage")
          \/ /\ job'[j].kind = "update" /\ job'[j].at = "club" /\ job'[j].fields = {"regs"}
             /\ job'[j].lists["regs"] = wanted'[c] /\ job'[j].club = c
             /\ \A k \in Jobs : job[k].club = c => job[k].kind # "update"
             /\ club[c] # None /\ club[c].lists["regs"] \in SUBSET People
             /\ \A d \in Clubs : d # c => wanted'[d] = wanted[d]

\* A request other than a click on a member: the club counts as muddled from then
\* on, or the request leaves it alone.
LEMMA OthersFit ==
    ASSUME Typed, NEW j \in Jobs, NEW a \in Actors, NEW request,
           Send(j, a, request), Said(a, request),
           request.kind = "manage" \/ request.club \in muddled',
           muddled \subseteq muddled', muddled' \subseteq Clubs,
           UNCHANGED <<wanted, made, granted, unjoined>>
    PROVE  Asks(j) /\ Minds(j)
<1>1. request \in Job
  BY DEF Said
<1>2. Minds(j)
  BY <1>1, SentJob DEF Minds
<1>3. Asks(j)
  BY SendGoes DEF Send, Asks, Typed, TypeOK
<1> QED
  BY <1>2, <1>3

LEMMA ToggleFits ==
    ASSUME Typed, NEW j \in Jobs, NEW a \in People, NEW c \in Clubs, NEW p \in People,
           ToggleMember(j, a, c, p)
    PROVE  Asks(j)
<1>1. /\ "regs" \in Fields /\ "leads" \in Fields /\ a \in Actors
      /\ a \in Shown(a, c, "leads")
  BY DEF Fields, Actors, ToggleMember
<1>2. Flip(Shown(a, c, "regs"), p) \in SUBSET People /\ seen[a][c] # None
  BY <1>1, ShownTyped, Flips
<1>3. Said(a, Updating(c, "regs", Flip(Shown(a, c, "regs"), p)))
  BY <1>1, <1>2, UpdatingSays DEF Said
<1>4. Send(j, a, Updating(c, "regs", Flip(Shown(a, c, "regs"), p)))
  BY DEF ToggleMember
<1>5. wanted' \in [Clubs -> SUBSET People] /\ muddled \subseteq muddled' /\ muddled' \subseteq Clubs
  BY DEF ToggleMember, Typed, TypeOK
<1> QED
  BY <1>1, <1>3, <1>4, <1>5, SendGoes DEF ToggleMember, Send, Asks

LEMMA FormFieldsKnown ==
    ASSUME NEW a, NEW c
    PROVE  FormFields(a, c) \in SUBSET Fields /\ "members" \notin FormFields(a, c)
  BY DEF FormFields, Fields

LEMMA SubmitFits ==
    ASSUME Typed, NEW j \in Jobs, NEW a \in Actors, NEW c \in Clubs, NEW f \in Fields,
           NEW p \in People, SubmitClub(j, a, c, f, p)
    PROVE  Asks(j) /\ Minds(j)
<1>1. ClubForm(a, c) \in Lists /\ seen[a][c] # None
  BY DEF SubmitClub, ClubForm, Typed, TypeOK
<1> DEFINE lists == [ClubForm(a, c) EXCEPT ![f] = Flip(@, p)]
<1>2. lists \in Lists
  <2>1. Flip(ClubForm(a, c)[f], p) \in SUBSET People
    BY <1>1, Flips DEF Lists
  <2> QED
    BY <1>1, <2>1 DEF Lists
<1> DEFINE u == Updating(c, f, {})
<1>3. u \in Job /\ u.at = "club" /\ u.kind = "update" /\ u.club = c
  BY UpdatingSays
<1>4. Send(j, a, [u EXCEPT !.fields = FormFields(a, c), !.lists = lists])
  BY DEF SubmitClub
<1> HIDE DEF lists, u
<1> DEFINE r == [u EXCEPT !.fields = FormFields(a, c), !.lists = lists]
<1>5. r \in Job
  BY <1>2, <1>3, FormFieldsKnown DEF Job
<1>6. r.at = "club" /\ r.kind = "update" /\ r.club = c /\ r.fields = FormFields(a, c)
  BY <1>3 DEF Job
<1> HIDE DEF r
<1>7. Said(a, r)
  BY <1>1, <1>5, <1>6, FormFieldsKnown DEF Said
<1>8. muddled' = muddled \cup {c} /\ UNCHANGED <<wanted, made, granted, unjoined>>
  BY DEF SubmitClub
<1> QED
  <2>1. c \in muddled' /\ muddled \subseteq muddled' /\ muddled' \subseteq Clubs
    BY <1>8 DEF Typed, TypeOK
  <2>2. Send(j, a, r)
    BY <1>4 DEF r
  <2> QED
    BY <1>6, <1>7, <1>8, <2>1, <2>2, OthersFit

LEMMA LeadFits ==
    ASSUME Typed, NEW j \in Jobs, NEW c \in Clubs, NEW p \in People, NEW access \in BOOLEAN,
           AddLead(j, c, p, access) \/ RemoveLead(j, c, p)
    PROVE  Asks(j) /\ Minds(j)
<1>0. /\ c \in muddled' /\ muddled \subseteq muddled' /\ muddled' \subseteq Clubs
      /\ UNCHANGED <<wanted, made, granted, unjoined>>
  BY DEF AddLead, RemoveLead, Typed, TypeOK
<1>1. "leads" \in Fields /\ Root \in Actors
  BY DEF Fields, Actors
<1>2. LeadsShown(c) \in SUBSET People /\ (LeadsShown(c) # {} => seen[Root][c] # None)
  BY <1>1, ShownTyped DEF LeadsShown
<1>3. CASE RemoveLead(j, c, p)
  <2>1. Said(Root, Updating(c, "leads", LeadsShown(c) \ {p}))
    BY <1>1, <1>2, <1>3, UpdatingSays DEF Said, RemoveLead, ConfirmsRemoval
  <2>2. Send(j, Root, Updating(c, "leads", LeadsShown(c) \ {p}))
    BY <1>3 DEF RemoveLead
  <2>3. Updating(c, "leads", LeadsShown(c) \ {p}).club = c
    BY <1>1, <1>2, UpdatingSays
  <2> QED
    BY <1>0, <1>1, <2>1, <2>2, <2>3, OthersFit
<1>4. CASE AddLead(j, c, p, access)
  <2> DEFINE u == Updating(c, "leads", LeadsShown(c) \cup {p})
             at == IF listed[p] = None THEN "promote"
                   ELSE IF access /\ ~listed[p].access THEN "switch" ELSE "club"
             asked == IF listed[p] = None THEN {} ELSE listed[p].perms
  <2>1. u \in Job /\ u.kind = "update" /\ u.club = c /\ u.fields = {"leads"}
    BY <1>1, <1>2, UpdatingSays
  <2>2. at \in {"promote", "switch", "club"} /\ (at = "switch" => account[p] # None)
    BY DEF Typed, AccountsInv
  <2>3. asked \in SUBSET Permissions
    BY DEF Typed, TypeOK, Account
  <2>4. Send(j, Root, [u EXCEPT !.who = p, !.access = access, !.at = at, !.asked = asked])
    BY <1>4 DEF AddLead
  <2> HIDE DEF u, at, asked
  <2> DEFINE r == [u EXCEPT !.who = p, !.access = access, !.at = at, !.asked = asked]
  <2>5. r \in Job
    BY <2>1, <2>2, <2>3 DEF Job, Steps
  <2>6. r.at = at /\ r.kind = "update" /\ r.club = c /\ r.fields = {"leads"} /\ r.who = p
    BY <2>1 DEF Job
  <2> HIDE DEF r
  <2>7. Said(Root, r)
    BY <1>1, <1>4, <2>2, <2>5, <2>6 DEF Said, AddLead, CanAddLead
  <2> QED
    BY <1>0, <1>1, <2>4, <2>6, <2>7, OthersFit DEF r
<1> QED
  BY <1>3, <1>4

LEMMA AccessFits ==
    ASSUME Typed, NEW j \in Jobs, NEW a \in People, NEW c \in Clubs, NEW p \in People,
           NEW perms \in SUBSET Permissions, NEW access \in BOOLEAN,
           GrantAccess(j, a, c, p, perms, access) \/ ManageAccess(j, a, c, p, perms, access)
    PROVE  Asks(j) /\ Minds(j)
<1>1. "leads" \in Fields /\ a \in Actors /\ a \in Shown(a, c, "leads")
  BY DEF Fields, Actors, GrantAccess, ManageAccess
<1>2. seen[a][c] # None
  BY <1>1, ShownTyped
<1>3. PICK kind \in {"grant", "manage"}, asked \in SUBSET Permissions :
         /\ Send(j, a, [Rest EXCEPT !.at = "club", !.kind = kind, !.club = c, !.who = p,
                                    !.asked = asked, !.toggled = perms, !.access = access])
         /\ kind = "manage" \/ c \in muddled'
  <2>1. CASE GrantAccess(j, a, c, p, perms, access)
    BY <2>1 DEF GrantAccess
  <2>2. CASE ManageAccess(j, a, c, p, perms, access)
    <3> DEFINE asked == (DialogPermissions(p) \ perms) \cup (perms \ DialogPermissions(p))
    <3>1. asked \in SUBSET Permissions
      BY DEF DialogPermissions
    <3>2. Send(j, a, [Rest EXCEPT !.at = "club", !.kind = "manage", !.club = c, !.who = p,
                                  !.access = access, !.toggled = perms, !.asked = asked])
      BY <2>2 DEF ManageAccess
    <3> HIDE DEF asked
    <3>3. [Rest EXCEPT !.at = "club", !.kind = "manage", !.club = c, !.who = p,
                       !.access = access, !.toggled = perms, !.asked = asked]
            = [Rest EXCEPT !.at = "club", !.kind = "manage", !.club = c, !.who = p,
                           !.asked = asked, !.toggled = perms, !.access = access]
      BY DEF Rest
    <3> QED
      BY <3>1, <3>2, <3>3
  <2> QED
    BY <2>1, <2>2
<1> DEFINE r == [Rest EXCEPT !.at = "club", !.kind = kind, !.club = c, !.who = p,
                             !.asked = asked, !.toggled = perms, !.access = access]
<1>4. Rest \in Job
  BY RestShaped DEF Shaped
<1>5. r \in Job
  BY <1>4 DEF Job, Steps, Kinds
<1>6. r.at = "club" /\ r.kind = kind /\ r.club = c /\ r.who = p
  BY <1>4 DEF Job
<1>7. Send(j, a, r)
  BY <1>3
<1> HIDE DEF r
<1>8. Said(a, r)
  BY <1>1, <1>2, <1>5, <1>6 DEF Said
<1>9. /\ muddled \subseteq muddled' /\ muddled' \subseteq Clubs
      /\ UNCHANGED <<wanted, made, granted, unjoined>>
  BY DEF GrantAccess, ManageAccess, Typed, TypeOK
<1> QED
  BY <1>1, <1>3, <1>6, <1>7, <1>8, <1>9, OthersFit

LEMMA RequestFits ==
    ASSUME Typed, NEW j \in Jobs, Request(j)
    PROVE  Asks(j) /\ (Minds(j) \/ \E a \in People, c \in Clubs, p \in People : ToggleMember(j, a, c, p))
<1>1. PICK c \in Clubs, p \in People :
        \/ RemoveLead(j, c, p) \/ \E access \in BOOLEAN : AddLead(j, c, p, access)
        \/ \E a \in Actors, f \in Fields : SubmitClub(j, a, c, f, p)
        \/ \E a \in People :
              \/ ToggleMember(j, a, c, p)
              \/ \E perms \in SUBSET Permissions, access \in BOOLEAN :
                    GrantAccess(j, a, c, p, perms, access) \/ ManageAccess(j, a, c, p, perms, access)
  BY DEF Request
<1>2. ASSUME \E access \in BOOLEAN : RemoveLead(j, c, p) \/ AddLead(j, c, p, access)
      PROVE  Asks(j) /\ Minds(j)
  BY <1>2, LeadFits
<1>3. ASSUME NEW a \in Actors, NEW f \in Fields, SubmitClub(j, a, c, f, p)
      PROVE  Asks(j) /\ Minds(j)
  BY <1>3, SubmitFits
<1>4. ASSUME NEW a \in People, ToggleMember(j, a, c, p)
      PROVE  Asks(j)
  BY <1>4, ToggleFits
<1>5. ASSUME NEW a \in People, NEW perms \in SUBSET Permissions, NEW access \in BOOLEAN,
             GrantAccess(j, a, c, p, perms, access) \/ ManageAccess(j, a, c, p, perms, access)
      PROVE  Asks(j) /\ Minds(j)
  BY <1>5, AccessFits
<1> QED
  BY <1>1, <1>2, <1>3, <1>4, <1>5

-----------------------------------------------------------------------------
(* The handlers.                                                           *)

\* What a handler has loaded of a club that is still there is what is on record,
\* or an older version of it.
CopyTrue(r) ==
    Copied(r) /\ club[r.club] # None =>
        /\ r.copy.version <= club[r.club].version
        /\ r.copy.version = club[r.club].version => r.copy = club[r.club]
        /\ r.copy.lists["members"] \subseteq club[r.club].lists["members"]

CopyInv == \A j \in Jobs : CopyTrue(job[j])

\* What a step of a handler leaves alone.
Serves(j) ==
    /\ JobsGo
    /\ club' \in [Clubs -> Club \cup {None}] /\ \A c \in Clubs : ClubGoes(c)
    /\ account' \in [People -> Account \cup {None}] /\ AccountsGo
    /\ muddled \subseteq muddled' /\ muddled' \subseteq Clubs
    /\ granted \subseteq granted' /\ granted' \subseteq granted \cup {<<job[j].who, job[j].club>>}
    /\ granted' \subseteq People \X Clubs
    /\ unjoined' \subseteq granted'
    /\ late \subseteq late' /\ late' \subseteq Jobs
    /\ UNCHANGED <<received, seen, wanted, made>>

LEMMA SameClubs ==
    ASSUME Typed, club' = club
    PROVE  club' \in [Clubs -> Club \cup {None}] /\ \A c \in Clubs : ClubGoes(c)
  BY DEF Typed, TypeOK, ClubGoes

LEMMA RefusedServes ==
    ASSUME Typed, NEW j \in Jobs, job[j].at # "rest", Refused(j)
    PROVE  Serves(j)
<1>1. job[j].club \in Clubs
  BY DEF Typed, Shaped
<1>2. JobsGo
  BY Answers DEF Refused
<1> QED
  BY <1>1, <1>2, SameClubs, SameAccounts DEF Refused, Serves, Typed, TypeOK

LEMMA GoesOn ==
    ASSUME Typed, AccountsGo, NEW j \in Jobs, NEW to, job' = Go(j, to),
           granted \subseteq granted', to = "join" => <<job[j].who, job[j].club>> \in granted',
           \/ job[j].at \in {"promote", "switch"} /\ to = "club"
           \/ job[j].at = "user" /\ job[j].kind = "grant" /\ to = "create"
           \/ job[j].at \in {"create", "account"} /\ job[j].kind = "grant" /\ to = "join"
    PROVE  JobsGo
<1> DEFINE r == [job[j] EXCEPT !.at = to]
<1>1. job[j] \in Job /\ Shaped(job[j])
  BY DEF Typed, TypeOK
<1>2. r \in Job
  BY <1>1 DEF Job, Steps
<1>3. /\ r.at = to /\ r.kind = job[j].kind /\ r.club = job[j].club /\ r.who = job[j].who
      /\ r.fields = job[j].fields /\ r.by = job[j].by /\ r.holds = job[j].holds
      /\ r.copy = job[j].copy
  BY <1>1 DEF Job
<1>4. job' = [job EXCEPT ![j] = r]
  BY DEF Go, Typed, TypeOK
<1> HIDE DEF r
<1>5. Shaped(r)
  BY <1>1, <1>2, <1>3, RestShaped DEF Shaped, Granting
<1>6. r.by \in People => account'[r.by] # None
  BY <1>3 DEF Typed, AccountsInv, AccountsGo
<1>7. Goes(j, r)
  BY <1>1, <1>3, <1>4, <1>5, <1>6 DEF Goes, Copied, Granting
<1> QED
  BY <1>2, <1>7 DEF JobsGo

\* An account's permissions become others, and those who lose some are marked.
LEMMA AccountGoes ==
    ASSUME Typed, NEW p \in People, NEW u \in Account,
           account' = [account EXCEPT ![p] = u],
           account[p] # None => Losing(p, u.perms) \subseteq late'
    PROVE  account' \in [People -> Account \cup {None}] /\ AccountsGo
<1>1. account' \in [People -> Account \cup {None}]
  BY DEF Typed, TypeOK
<1>2. account'[p] = u /\ \A q \in People \ {p} : account'[q] = account[q]
  BY DEF Typed, TypeOK
<1>3. \A q \in People : account[q] # None => Losing(q, account[q].perms) = {}
  BY DEF Losing
<1> QED
  BY <1>1, <1>2, <1>3 DEF AccountsGo

LEMMA LeadServes ==
    ASSUME Typed, NEW j \in Jobs, PromoteLead(j) \/ SwitchLeadOn(j)
    PROVE  Serves(j)
<1>1. /\ job[j] \in Job /\ Shaped(job[j]) /\ job[j].at # "rest" /\ job[j].who \in People
  BY DEF Typed, TypeOK, Shaped, PromoteLead, SwitchLeadOn
<1>2. CASE PromoteLead(j) /\ account[Who(j)] # None
  BY <1>1, <1>2, RefusedServes DEF PromoteLead
<1>3. CASE PromoteLead(j) /\ account[Who(j)] = None
  <2> DEFINE u == [NoAccount EXCEPT !.access = job[j].access]
  <2>1. u \in Account
    BY <1>1 DEF NoAccount, Account, Job
  <2>2. /\ account' = [account EXCEPT ![job[j].who] = u]
        /\ job' = Go(j, "club")
        /\ UNCHANGED <<club, received, seen, wanted, muddled, made, granted, unjoined, late>>
        /\ account[job[j].who] = None /\ job[j].at = "promote"
    BY <1>3 DEF PromoteLead, Who
  <2> HIDE DEF u
  <2>3. account' \in [People -> Account \cup {None}] /\ AccountsGo
    BY <1>1, <2>1, <2>2, AccountGoes
  <2>4. JobsGo
    BY <2>2, <2>3, GoesOn
  <2> QED
    BY <2>2, <2>3, <2>4, SameClubs DEF Serves, Typed, TypeOK
<1>4. CASE SwitchLeadOn(j)
  <2>1. account[job[j].who] \in Account
    BY <1>1, <1>4 DEF Typed, TypeOK, AccountsInv, SwitchLeadOn
  <2> DEFINE old == account[job[j].who]
             u == [perms |-> job[j].asked, access |-> TRUE,
                   version |-> IF job[j].asked # old.perms THEN old.version + 1 ELSE old.version]
  <2>2. u \in Account /\ u.perms = job[j].asked
    BY <1>1, <2>1 DEF Account, Job
  <2>3. /\ account' = [account EXCEPT ![job[j].who] = u]
        /\ job' = Go(j, "club") /\ job[j].at = "switch"
        /\ late' = late \cup Losing(job[j].who, job[j].asked)
        /\ UNCHANGED <<club, received, seen, wanted, muddled, made, granted, unjoined>>
    BY <1>4 DEF SwitchLeadOn, Who
  <2> HIDE DEF u
  <2>4. account' \in [People -> Account \cup {None}] /\ AccountsGo
    BY <1>1, <2>2, <2>3, AccountGoes
  <2>5. JobsGo
    BY <2>3, <2>4, GoesOn
  <2>6. late' \subseteq Jobs
    BY <2>3 DEF Losing, Typed, TypeOK
  <2> QED
    BY <2>3, <2>4, <2>5, <2>6, SameClubs DEF Serves, Typed, TypeOK
<1> QED
  BY <1>2, <1>3, <1>4

LEMMA LoadServes ==
    ASSUME Typed, NEW j \in Jobs, LoadClub(j)
    PROVE  Serves(j)
<1>1. job[j] \in Job /\ Shaped(job[j]) /\ job[j].at = "club" /\ job[j].club \in Clubs
  BY DEF Typed, TypeOK, Shaped, LoadClub
<1>2. CASE ~(Club0(j) # None /\ Admitted(j))
  BY <1>1, <1>2, RefusedServes DEF LoadClub
<1>3. CASE Club0(j) # None /\ Admitted(j)
  <2> DEFINE at == IF job[j].kind = "update" THEN "save" ELSE "user"
             r == [job[j] EXCEPT !.copy = Club0(j), !.at = at]
  <2>1. /\ job' = [job EXCEPT ![j] = r]
        /\ UNCHANGED <<club, account, received, seen, wanted, muddled, made, granted, unjoined, late>>
    BY <1>3 DEF LoadClub, Typed, TypeOK
  <2>2. Club0(j) \in Club
    BY <1>1, <1>3 DEF Club0, Typed, TypeOK
  <2>3. at \in Steps
    BY DEF Steps
  <2>4. r \in Job
    BY <1>1, <2>2, <2>3 DEF Job
  <2>5. /\ r.at = at /\ r.kind = job[j].kind /\ r.club = job[j].club /\ r.who = job[j].who
        /\ r.fields = job[j].fields /\ r.by = job[j].by /\ r.holds = job[j].holds
        /\ r.copy = club[job[j].club]
    BY <1>1 DEF Job, Club0
  <2> HIDE DEF r
  <2>6. Shaped(r)
    BY <1>1, <2>4, <2>5, RestShaped DEF Shaped, Granting
  <2>7. Goes(j, r)
    BY <1>1, <2>1, <2>5, <2>6 DEF Goes, Typed, AccountsInv
  <2>8. JobsGo
    BY <2>4, <2>7 DEF JobsGo
  <2> QED
    BY <2>1, <2>8, SameClubs, SameAccounts DEF Serves, Typed, TypeOK
<1> QED
  BY <1>2, <1>3

\* What a save leaves on record: each list as it was given, or, where that is what
\* had been loaded, as it is by now.
LEMMA WrittenGoes ==
    ASSUME Typed, CopyInv, NEW j \in Jobs, Copied(job[j]), NEW lists \in Lists,
           job[j].copy.lists["members"] \subseteq lists["members"],
           ~Stale(j, lists), club' = Written(j, lists)
    PROVE  /\ club' \in [Clubs -> Club \cup {None}] /\ \A c \in Clubs : ClubGoes(c)
           /\ \A c \in Clubs : c # job[j].club => club'[c] = club[c]
           /\ club'[job[j].club] # None
           /\ \A f \in Fields :
                 \/ club'[job[j].club].lists[f] = lists[f]
                 \/ /\ lists[f] = job[j].copy.lists[f]
                    /\ club'[job[j].club].lists[f] = club[job[j].club].lists[f]
<1> DEFINE d == job[j].club
           changed == Changed(j, lists)
<1>1. d \in Clubs
  BY DEF Typed, Shaped, Copied, Granting
<1>2. club[d] # None /\ club[d] \in Club /\ (changed # {} => club[d].version = job[j].copy.version)
  BY <1>1 DEF Stale, Club0, Typed, TypeOK
<1>3. /\ club[d].lists \in Lists /\ club[d].version \in Nat
      /\ job[j].copy.lists["members"] \subseteq club[d].lists["members"]
  BY <1>2 DEF Club, CopyInv, CopyTrue
<1>4. \A f \in Fields : f \in changed \/ lists[f] = job[j].copy.lists[f]
  BY DEF Changed
<1>5. CASE changed = {}
  <2>1. club' = club
    BY <1>5 DEF Written
  <2> QED
    BY <1>2, <1>4, <1>5, <2>1, SameClubs
<1>6. CASE changed # {}
  <2> DEFINE new == [f \in Fields |-> IF f \in changed THEN lists[f] ELSE club[d].lists[f]]
             record == [lists |-> new, version |-> club[d].version + 1]
  <2>1. new \in Lists
    BY <1>3 DEF Lists
  <2>2. record \in Club /\ record.lists = new /\ record.version = club[d].version + 1
    BY <1>3, <2>1 DEF Club
  <2>3. club' = [club EXCEPT ![d] = record]
    BY <1>6 DEF Written
  <2>4. \A f \in Fields : new[f] = IF f \in changed THEN lists[f] ELSE club[d].lists[f]
    OBVIOUS
  <2>5. "members" \in Fields /\ record # None
    BY <2>2 DEF Fields
  <2>6. club[d].lists["members"] \subseteq new["members"]
    <3>1. CASE "members" \in changed
      <4>1. club[d].version = job[j].copy.version
        BY <1>2, <1>6
      <4>2. job[j].copy = club[d]
        BY <1>2, <4>1 DEF CopyInv, CopyTrue
      <4> QED
        BY <2>4, <2>5, <3>1, <4>2
    <3>2. CASE "members" \notin changed
      BY <2>4, <2>5, <3>2
    <3> QED
      BY <3>1, <3>2
  <2> HIDE DEF new, record, changed
  <2>7. club' \in [Clubs -> Club \cup {None}] /\ club'[d] = record
    BY <1>1, <2>2, <2>3 DEF Typed, TypeOK
  <2>8. \A c \in Clubs : c # d => club'[c] = club[c]
    BY <2>3 DEF Typed, TypeOK
  <2>9. \A c \in Clubs : ClubGoes(c)
    BY <1>2, <2>2, <2>6, <2>7, <2>8 DEF ClubGoes
  <2> QED
    BY <1>4, <2>2, <2>4, <2>5, <2>7, <2>8, <2>9
<1> QED
  BY <1>5, <1>6

LEMMA AskedTyped ==
    ASSUME Typed, NEW j \in Jobs, job[j].at = "save"
    PROVE  Asked(j) \in Lists /\ Asked(j)["members"] = job[j].copy.lists["members"]
<1>1. /\ job[j].lists \in Lists /\ job[j].copy.lists \in Lists /\ "members" \notin job[j].fields
  BY DEF Typed, TypeOK, Shaped, Job, Club
<1> QED
  BY <1>1 DEF Asked, Lists, Fields

LEMMA SaveServes ==
    ASSUME Typed, CopyInv, NEW j \in Jobs, SaveClub(j)
    PROVE  Serves(j)
<1>1. job[j].at = "save" /\ Copied(job[j])
  BY DEF SaveClub, Copied
<1>2. CASE Stale(j, Asked(j))
  BY <1>1, <1>2, RefusedServes DEF SaveClub
<1>3. CASE ~Stale(j, Asked(j))
  <2>1. /\ club' = Written(j, Asked(j)) /\ Answer(j)
        /\ UNCHANGED <<account, received, seen, wanted, muddled, made, granted, unjoined, late>>
    BY <1>3 DEF SaveClub
  <2>2. club' \in [Clubs -> Club \cup {None}] /\ \A c \in Clubs : ClubGoes(c)
    BY <1>1, <1>3, <2>1, AskedTyped, WrittenGoes
  <2> QED
    BY <2>1, <2>2, Answers, SameAccounts DEF Serves, Typed, TypeOK
<1> QED
  BY <1>2, <1>3

LEMMA JoinedTyped ==
    ASSUME Typed, NEW j \in Jobs, job[j].at = "join"
    PROVE  /\ Joined(j) \in Lists /\ job[j].who \in Joined(j)["members"]
           /\ job[j].copy.lists["members"] \subseteq Joined(j)["members"]
<1>1. job[j].copy.lists \in Lists /\ job[j].who \in People
  BY DEF Typed, TypeOK, Shaped, Job, Club
<1> DEFINE lists == job[j].copy.lists
           first == [lists EXCEPT !["regs"] = @ \cup {job[j].who}]
<1>2. first \in Lists /\ first["members"] = lists["members"]
  BY <1>1 DEF Lists, Fields
<1>3. Joined(j) = [first EXCEPT !["members"] = first["members"] \cup {job[j].who}]
  BY DEF Joined, Who
<1> HIDE DEF first
<1> QED
  BY <1>1, <1>2, <1>3 DEF Lists, Fields

LEMMA JoinServes ==
    ASSUME Typed, CopyInv, NEW j \in Jobs, Join(j)
    PROVE  Serves(j)
<1>1. /\ job[j].at = "join" /\ Copied(job[j]) /\ <<job[j].who, job[j].club>> \in granted
      /\ Answer(j) /\ UNCHANGED <<account, received, seen, wanted, muddled, made, granted, late>>
  BY DEF Join, Copied, Granting, Typed, AccountsInv
<1>2. CASE Stale(j, Joined(j))
  <2>1. unjoined' = unjoined \cup {<<job[j].who, job[j].club>>} /\ club' = club
    BY <1>2 DEF Join, Who
  <2> QED
    BY <1>1, <2>1, Answers, SameAccounts, SameClubs DEF Serves, Typed, TypeOK
<1>3. CASE ~Stale(j, Joined(j))
  <2>1. club' = Written(j, Joined(j)) /\ unjoined' = unjoined
    BY <1>3 DEF Join
  <2>2. club' \in [Clubs -> Club \cup {None}] /\ \A c \in Clubs : ClubGoes(c)
    BY <1>1, <1>3, <2>1, JoinedTyped, WrittenGoes
  <2> QED
    BY <1>1, <2>1, <2>2, Answers, SameAccounts DEF Serves, Typed, TypeOK
<1> QED
  BY <1>2, <1>3

LEMMA GivenTyped ==
    ASSUME NEW j \in Jobs, job[j] \in Job
    PROVE  /\ Given(j) \in SUBSET Permissions
           /\ Given(j) \subseteq job[j].holds \cap ClubPortalPermissions
  BY DEF Given, Job

LEMMA FindServes ==
    ASSUME Typed, NEW j \in Jobs, FindUser(j)
    PROVE  Serves(j)
<1>1. /\ job[j] \in Job /\ Shaped(job[j]) /\ job[j].at = "user" /\ job[j].who \in People
      /\ Granting(job[j])
  BY DEF Typed, TypeOK, Shaped, FindUser, Granting
<1>2. UNCHANGED <<club, account, received, seen, wanted, muddled, made, granted, unjoined, late>>
  BY DEF FindUser
<1>3. AccountsGo
  BY <1>2, SameAccounts
<1>4. JobsGo
  <2>1. CASE account[Who(j)] # None
    <3> DEFINE r == [job[j] EXCEPT !.read = account[Who(j)], !.at = "account"]
    <3>1. account[Who(j)] \in Account
      BY <1>1, <2>1 DEF Who, Typed, TypeOK
    <3>2. job' = [job EXCEPT ![j] = r]
      BY <2>1 DEF FindUser, Typed, TypeOK
    <3>3. r \in Job
      BY <1>1, <3>1 DEF Job, Steps
    <3>4. /\ r.at = "account" /\ r.kind = job[j].kind /\ r.club = job[j].club
          /\ r.who = job[j].who /\ r.fields = job[j].fields /\ r.by = job[j].by
          /\ r.holds = job[j].holds /\ r.copy = job[j].copy
      BY <1>1 DEF Job
    <3> HIDE DEF r
    <3>5. Shaped(r)
      BY <1>1, <3>3, <3>4, RestShaped DEF Shaped, Granting
    <3>6. Copied(job[j])
      BY <1>1 DEF Copied
    <3>7. account'[r.who] # None /\ (r.by \in People => account'[r.by] # None)
      BY <1>2, <2>1, <3>4 DEF Who, Typed, AccountsInv
    <3>8. Goes(j, r)
      BY <1>1, <3>2, <3>4, <3>5, <3>6, <3>7 DEF Goes
    <3> QED
      BY <3>3, <3>8 DEF JobsGo
  <2>2. CASE account[Who(j)] = None /\ job[j].kind = "grant"
    <3>1. job' = Go(j, "create")
      BY <2>2 DEF FindUser
    <3> QED
      BY <1>1, <1>2, <1>3, <2>2, <3>1, GoesOn
  <2>3. CASE account[Who(j)] = None /\ job[j].kind # "grant"
    BY <2>3, Answers DEF FindUser
  <2> QED
    BY <2>1, <2>2, <2>3
<1> QED
  BY <1>2, <1>3, <1>4, SameClubs DEF Serves, Typed, TypeOK

LEMMA CreateServes ==
    ASSUME Typed, NEW j \in Jobs, CreateUser(j)
    PROVE  Serves(j)
<1>1. /\ job[j] \in Job /\ Shaped(job[j]) /\ job[j].at = "create" /\ job[j].who \in People
      /\ job[j].kind = "grant" /\ job[j].club \in Clubs
  BY DEF Typed, TypeOK, Shaped, CreateUser, Granting
<1>2. CASE account[Who(j)] # None
  BY <1>1, <1>2, RefusedServes DEF CreateUser
<1>3. CASE account[Who(j)] = None
  <2> DEFINE u == [perms |-> Given(j), access |-> job[j].access, version |-> 0]
  <2>1. u \in Account
    BY <1>1, GivenTyped DEF Account, Job
  <2>2. /\ account' = [account EXCEPT ![job[j].who] = u]
        /\ job' = Go(j, "join")
        /\ granted' = granted \cup {<<job[j].who, job[j].club>>}
        /\ UNCHANGED <<club, received, seen, wanted, muddled, made, unjoined, late>>
    BY <1>3 DEF CreateUser, Who
  <2> HIDE DEF u
  <2>3. account' \in [People -> Account \cup {None}] /\ AccountsGo
    BY <1>1, <1>3, <2>1, <2>2, AccountGoes DEF Who
  <2>4. JobsGo
    BY <1>1, <2>2, <2>3, GoesOn
  <2> QED
    BY <1>1, <2>2, <2>3, <2>4, SameClubs DEF Serves, Typed, TypeOK
<1> QED
  BY <1>2, <1>3

LEMMA SavedTyped ==
    ASSUME Typed, NEW j \in Jobs, job[j].at = "account", Save(j)
    PROVE  /\ account' \in [People -> Account \cup {None}] /\ AccountsGo
           /\ late \subseteq late' /\ late' \subseteq Jobs
           /\ job[j].who \in People
           /\ account[job[j].who] # None
           /\ account'[job[j].who].perms \in {Given(j), account[job[j].who].perms}
           /\ \A p \in People : p # job[j].who => account'[p] = account[p]
<1>1. /\ job[j] \in Job /\ job[j].who \in People
      /\ account[job[j].who] # None /\ account[job[j].who] \in Account
  BY DEF Typed, TypeOK, Shaped, AccountsInv, Granting
<1> DEFINE old == account[job[j].who]
           u == SavedUser(j)
<1>2. u \in Account
  BY <1>1, GivenTyped DEF SavedUser, Who, Account, Job
<1>3. u.perms = IF Replaces(j) THEN Given(j) ELSE old.perms
  BY DEF SavedUser, Who
<1>4. /\ account' = [account EXCEPT ![job[j].who] = u]
      /\ late' = IF Replaces(j) THEN late \cup Losing(job[j].who, Given(j)) ELSE late
  BY DEF Save, Who
<1> HIDE DEF u
<1>5. Losing(job[j].who, u.perms) \subseteq late'
  BY <1>3, <1>4 DEF Losing
<1>6. account' \in [People -> Account \cup {None}] /\ AccountsGo
  BY <1>1, <1>2, <1>4, <1>5, AccountGoes
<1>7. late \subseteq late' /\ late' \subseteq Jobs
  BY <1>4 DEF Losing, Typed, TypeOK
<1>8. account'[job[j].who] = u /\ \A p \in People : p # job[j].who => account'[p] = account[p]
  BY <1>1, <1>4 DEF Typed, TypeOK
<1> QED
  BY <1>1, <1>3, <1>6, <1>7, <1>8

LEMMA AccountServes ==
    ASSUME Typed, NEW j \in Jobs, SaveUser(j) \/ ManageUser(j)
    PROVE  Serves(j)
<1>1. /\ job[j].at = "account" /\ job[j].at # "rest"
      /\ job[j].who \in People /\ job[j].club \in Clubs
  BY DEF SaveUser, ManageUser, Typed, Shaped, Granting
<1>2. CASE Refused(j)
  BY <1>1, <1>2, RefusedServes
<1>3. ASSUME Save(j), job[j].kind = "grant", job' = Go(j, "join"),
             granted' = granted \cup {<<Who(j), job[j].club>>}
      PROVE  Serves(j)
  <2>1. JobsGo
    BY <1>1, <1>3, SavedTyped, GoesOn DEF Who
  <2>2. /\ account' \in [People -> Account \cup {None}] /\ AccountsGo
        /\ late \subseteq late' /\ late' \subseteq Jobs
    BY <1>1, <1>3, SavedTyped
  <2>3. /\ granted \subseteq granted' /\ granted' = granted \cup {<<job[j].who, job[j].club>>}
        /\ granted' \subseteq People \X Clubs
    BY <1>1, <1>3 DEF Who, Typed, TypeOK
  <2>4. UNCHANGED <<club, received, seen, wanted, muddled, made, unjoined>>
    BY <1>3 DEF Save
  <2> QED
    BY <2>1, <2>2, <2>3, <2>4, SameClubs DEF Serves, Typed, TypeOK
<1>4. ASSUME Save(j), Answer(j), UNCHANGED granted
      PROVE  Serves(j)
  BY <1>1, <1>4, SavedTyped, SameClubs, Answers DEF Save, Serves, Typed, TypeOK
<1> QED
  BY <1>2, <1>3, <1>4 DEF SaveUser, ManageUser

LEMMA StepServes ==
    ASSUME Typed, CopyInv, NEW j \in Jobs, Step(j)
    PROVE  Serves(j)
  BY LeadServes, LoadServes, SaveServes, FindServes, CreateServes, AccountServes, JoinServes
     DEF Step

-----------------------------------------------------------------------------
(* What any step does.                                                     *)

LEMMA CreatesMove ==
    ASSUME Typed, NEW c \in Clubs, NEW leads \in SUBSET People, CreateClub(c, leads),
           UNCHANGED listed
    PROVE  /\ Moves
           /\ c \notin made /\ made' = made \cup {c}
           /\ club'[c] \in Club /\ club'[c].lists = [NoLists EXCEPT !["leads"] = leads]
           /\ \A d \in Clubs : d # c => club'[d] = club[d]
           /\ UNCHANGED <<account, job, received, seen, wanted, muddled, granted, unjoined, late>>
<1>1. NewClub(leads) \in Club /\ NewClub(leads).lists = [NoLists EXCEPT !["leads"] = leads]
  BY DEF NewClub, Club, Lists, NoLists, Fields
<1>2. club' = [club EXCEPT ![c] = NewClub(leads)] /\ c \notin made /\ made' = made \cup {c}
  BY DEF CreateClub
<1> HIDE DEF NewClub
<1>3. club' \in [Clubs -> Club \cup {None}] /\ club'[c] = NewClub(leads)
      /\ \A d \in Clubs : d # c => club'[d] = club[d]
  BY <1>1, <1>2 DEF Typed, TypeOK
<1>4. \A d \in Clubs : ClubGoes(d)
  BY <1>2, <1>3 DEF ClubGoes
<1>5. UNCHANGED <<account, job, received, seen, wanted, muddled, granted, unjoined, late>>
  BY DEF CreateClub
<1>6. JobsGo /\ AccountsGo /\ LateGo
  BY <1>5, SameAccounts DEF JobsGo, LateGo
<1> QED
  BY <1>1, <1>2, <1>3, <1>4, <1>5, <1>6 DEF Moves, Typed, TypeOK

LEMMA DeletesMove ==
    ASSUME Typed, NEW c \in Clubs, DeleteClub(c), UNCHANGED listed
    PROVE  /\ Moves
           /\ club[c] # None
           /\ club'[c] = None /\ \A d \in Clubs : d # c => club'[d] = club[d]
           /\ muddled' = muddled \cup {c}
           /\ UNCHANGED <<account, job, seen, wanted, made, granted, unjoined, late>>
<1>1. /\ club' = [club EXCEPT ![c] = None] /\ muddled' = muddled \cup {c} /\ club[c] # None
      /\ received' = received + 1 /\ received < MaxRequests
      /\ UNCHANGED <<account, job, seen, wanted, made, granted, unjoined, late>>
  BY DEF DeleteClub
<1>2. club' \in [Clubs -> Club \cup {None}] /\ club'[c] = None
      /\ \A d \in Clubs : d # c => club'[d] = club[d]
  BY <1>1 DEF Typed, TypeOK
<1>3. \A d \in Clubs : ClubGoes(d)
  BY <1>2 DEF ClubGoes
<1>4. JobsGo /\ AccountsGo /\ LateGo
  BY <1>1, SameAccounts DEF JobsGo, LateGo
<1>5. received' \in 0 .. MaxRequests
  BY <1>1 DEF Typed, TypeOK
<1> QED
  BY <1>1, <1>2, <1>3, <1>4, <1>5 DEF Moves, Typed, TypeOK

LEMMA ChangesMove ==
    ASSUME Typed, NEW p \in People, NEW perms \in SUBSET Permissions, NEW access \in BOOLEAN,
           ChangeUser(p, perms, access), UNCHANGED listed
    PROVE  Moves /\ UNCHANGED <<club, job, seen, wanted, muddled, made, granted, unjoined>>
<1>1. account[p] # None /\ account[p] \in Account
  BY DEF ChangeUser, Typed, TypeOK
<1> DEFINE old == account[p]
           u == [perms |-> perms, access |-> access,
                 version |-> IF perms # old.perms THEN old.version + 1 ELSE old.version]
<1>2. u \in Account /\ u.perms = perms
  BY <1>1 DEF Account
<1>3. /\ account' = [account EXCEPT ![p] = u] /\ late' = late \cup Losing(p, perms)
      /\ received' = received + 1 /\ received < MaxRequests
      /\ UNCHANGED <<club, job, seen, wanted, muddled, made, granted, unjoined>>
  BY DEF ChangeUser
<1> HIDE DEF u
<1>4. account' \in [People -> Account \cup {None}] /\ AccountsGo
  BY <1>2, <1>3, AccountGoes
<1>5. JobsGo /\ LateGo /\ late' \subseteq Jobs /\ received' \in 0 .. MaxRequests
  BY <1>3 DEF JobsGo, LateGo, Losing, Typed, TypeOK
<1> QED
  BY <1>3, <1>4, <1>5, SameClubs DEF Moves, Typed, TypeOK

LEMMA FetchesMove ==
    ASSUME Typed, NEW a \in Actors, Fetch(a), UNCHANGED listed
    PROVE  Moves
<1>1. \A c \in Clubs : Belongs(a, c) => club[c].lists \in Lists
  BY DEF Belongs, Typed, TypeOK, Club
<1> DEFINE row == [c \in Clubs |-> IF Belongs(a, c) THEN club[c].lists ELSE None]
<1>2. row \in [Clubs -> Lists \cup {None}]
  BY <1>1
<1>3. /\ seen' = [seen EXCEPT ![a] = row]
      /\ UNCHANGED <<club, account, job, received, wanted, muddled, made, granted, unjoined, late>>
  BY DEF Fetch
<1> HIDE DEF row
<1>4. JobsGo /\ AccountsGo /\ LateGo
  BY <1>3, SameAccounts DEF JobsGo, LateGo
<1> QED
  BY <1>2, <1>3, <1>4, SameClubs DEF Moves, Typed, TypeOK

LEMMA DropMoves ==
    ASSUME Typed, Drop, UNCHANGED listed
    PROVE  Moves
<1>1. /\ job' = [j \in Jobs |-> Rest]
      /\ muddled' = muddled \cup {c \in Clubs : Busy(c)}
      /\ unjoined' = unjoined \cup {<<job[j].who, job[j].club>> : j \in {k \in Jobs : job[k].at = "join"}}
      /\ UNCHANGED <<club, account, received, seen, wanted, made, granted, late>>
  BY DEF Drop
<1>2. unjoined' \subseteq granted'
  BY <1>1 DEF Typed, TypeOK, AccountsInv
<1>3. JobsGo /\ LateGo
  BY <1>1 DEF JobsGo, LateGo
<1> QED
  BY <1>1, <1>2, <1>3, SameAccounts, SameClubs DEF Moves, Typed, TypeOK

LEMMA SameMoves ==
    ASSUME Typed,
           UNCHANGED <<club, account, job, received, seen, wanted, muddled, made, granted, unjoined, late>>,
           listed' \in {listed, account}
    PROVE  Moves
<1>1. JobsGo /\ AccountsGo /\ LateGo
  BY SameAccounts DEF JobsGo, LateGo
<1> QED
  BY <1>1, SameClubs DEF Moves, Typed, TypeOK

LEMMA NextMoves ==
    ASSUME Typed, CopyInv, [ClubsNext]_clubVars
    PROVE  Moves
<1>1. CASE FetchUsers \/ UNCHANGED clubVars
  BY <1>1, SameMoves DEF FetchUsers, clubVars
<1>2. CASE Drop /\ UNCHANGED listed
  BY <1>2, DropMoves
<1>3. ASSUME NEW a \in Actors, Fetch(a), UNCHANGED listed
      PROVE  Moves
  BY <1>3, FetchesMove
<1>4. ASSUME NEW j \in Jobs, Request(j), UNCHANGED listed
      PROVE  Moves
  BY <1>4, RequestFits, SameClubs DEF Asks, Moves, Typed, TypeOK
<1>5. ASSUME NEW j \in Jobs, Step(j), UNCHANGED listed
      PROVE  Moves
  <2>1. Serves(j)
    BY <1>5, StepServes
  <2>2. LateGo
    BY <2>1 DEF Serves, LateGo
  <2> QED
    BY <1>5, <2>1, <2>2 DEF Serves, Moves, Typed, TypeOK
<1>6. ASSUME NEW c \in Clubs, DeleteClub(c), UNCHANGED listed
      PROVE  Moves
  BY <1>6, DeletesMove
<1>7. ASSUME NEW c \in Clubs, NEW leads \in SUBSET People, CreateClub(c, leads), UNCHANGED listed
      PROVE  Moves
  BY <1>7, CreatesMove
<1>8. ASSUME NEW p \in People, NEW perms \in SUBSET Permissions, NEW access \in BOOLEAN,
             ChangeUser(p, perms, access), UNCHANGED listed
      PROVE  Moves
  BY <1>8, ChangesMove
<1> QED
  BY <1>1, <1>2, <1>3, <1>4, <1>5, <1>6, <1>7, <1>8 DEF ClubsNext, ClubStep

-----------------------------------------------------------------------------
(* The inductive invariant.                                                *)

\* Clubs that are not yet made: nobody has seen them, wants or is granted anything there.
MadeInv ==
    /\ granted \subseteq People \X made
    /\ \A j \in Jobs : job[j].at # "rest" => job[j].club \in made
    /\ \A c \in Clubs \ made :
          club[c] = None /\ wanted[c] = {} /\ \A a \in Actors : seen[a][c] = None

\* A handler knows its sender to hold no more than they do, unless they lost some.
HoldsTrue(r) == r.holds \subseteq Holds(r.by)

HoldsInv == \A j \in Jobs \ late : job[j].at # "rest" => HoldsTrue(job[j])

\* What a click asks for, and the record while nothing has come in between.
Click(r, c) ==
    /\ r.at \in {"club", "save"}
    /\ r.fields = {"regs"}
    /\ r.lists["regs"] = wanted[c]
    /\ r.at = "save" => r.copy = club[c]

CalmAt(c) ==
    /\ club[c] # None
    /\ \A j \in Jobs : job[j].club = c =>
          \/ job[j].kind = "manage"
          \/ job[j].kind = "update" /\ Click(job[j], c)
    /\ \A j, k \in Jobs :
          (job[j].club = c /\ job[k].club = c /\ job[j].kind = "update" /\ job[k].kind = "update") => j = k
    /\ \/ \E j \in Jobs : job[j].club = c /\ job[j].kind = "update"
       \/ club[c].lists["regs"] = wanted[c]

CalmInv == \A c \in made \ muddled : CalmAt(c)

Inv == Typed /\ MadeInv /\ CopyInv /\ HoldsInv /\ GrantedBelong /\ CalmInv

LEMMA CopyKept ==
    ASSUME Typed, MadeInv, CopyInv, Moves
    PROVE  CopyInv'
<1>1. ASSUME NEW r \in Job, r.club \in made, CopyTrue(r)
      PROVE  CopyTrue(r)'
  <2>1. CASE Copied(r) /\ club'[r.club] # None
    <3>1. r.club \in Clubs /\ ClubGoes(r.club) /\ club'[r.club] \in Club
      BY <1>1, <2>1 DEF Typed, TypeOK, Moves
    <3>2. r.copy.version \in Nat /\ club'[r.club].version \in Nat
      BY <3>1 DEF Job, Club
    <3>3. club[r.club] # None => club[r.club] \in Club /\ club[r.club].version \in Nat
      BY <3>1 DEF Club, Typed, TypeOK
    <3>4. CASE club'[r.club] = club[r.club]
      BY <1>1, <2>1, <3>4 DEF CopyTrue, Copied
    <3>5. CASE /\ club[r.club] # None
               /\ club'[r.club].version = club[r.club].version + 1
               /\ club[r.club].lists["members"] \subseteq club'[r.club].lists["members"]
      <4>1. /\ r.copy.version <= club[r.club].version
            /\ r.copy.lists["members"] \subseteq club[r.club].lists["members"]
        BY <1>1, <2>1, <3>5 DEF CopyTrue
      <4>2. r.copy.version <= club'[r.club].version /\ r.copy.version # club'[r.club].version
        BY <3>2, <3>3, <3>5, <4>1
      <4> QED
        BY <3>5, <4>1, <4>2 DEF CopyTrue, Copied
    <3> QED
      BY <1>1, <2>1, <3>1, <3>4, <3>5 DEF ClubGoes
  <2>2. CASE ~(Copied(r) /\ club'[r.club] # None)
    BY <2>2 DEF CopyTrue, Copied, Granting
  <2> QED
    BY <2>1, <2>2
<1>2. ASSUME NEW r \in Job, ~Copied(r)
      PROVE  CopyTrue(r)'
  BY <1>2 DEF CopyTrue, Copied, Granting
<1>3. ASSUME NEW k \in Jobs
      PROVE  CopyTrue(job[k])' \/ job'[k] # job[k]
  <2>1. PICK r \in Job : r = job[k]
    BY DEF Typed, TypeOK
  <2>2. CopyTrue(r) /\ (Copied(r) => r.club \in made)
    BY <2>1 DEF CopyInv, MadeInv, Copied, Granting
  <2>3. CopyTrue(r)'
    BY <1>1, <1>2, <2>2
  <2> QED
    BY <2>1, <2>3 DEF CopyTrue, Copied, Granting
<1>4. ASSUME NEW k \in Jobs, job'[k] = Rest
      PROVE  CopyTrue(job[k])'
  BY <1>4, RestShaped DEF CopyTrue, Copied, Granting
<1>5. ASSUME NEW j \in Jobs, NEW r \in Job, Goes(j, r)
      PROVE  CopyTrue(r)'
  <2>1. CASE ~Copied(r)
    BY <1>2, <2>1
  <2>2. CASE club' = club /\ r.copy = club[r.club]
    <3>1. ASSUME club[r.club] # None, Copied(r)
          PROVE  club[r.club].version \in Nat
      <4>1. r.club \in Clubs
        BY <1>5, <3>1 DEF Goes, Shaped, Copied, Granting
      <4> QED
        BY <3>1, <4>1 DEF Typed, TypeOK, Club
    <3> QED
      BY <2>2, <3>1 DEF CopyTrue, Copied, Granting
  <2>3. CASE Copied(r) /\ Copied(job[j]) /\ r.copy = job[j].copy /\ r.club = job[j].club
    <3>1. CopyTrue(job[j]) /\ job[j].club \in made
      BY <2>3 DEF CopyInv, MadeInv, Copied, Granting
    <3>2. CopyTrue(r) /\ r.club \in made
      BY <2>3, <3>1 DEF CopyTrue
    <3> QED
      BY <1>1, <3>2
  <2> QED
    BY <1>5, <2>1, <2>2, <2>3 DEF Goes
<1>6. ASSUME NEW k \in Jobs
      PROVE  CopyTrue(job[k])'
  <2>1. CASE job' = job
    BY <1>3, <2>1
  <2>2. CASE job' = [j \in Jobs |-> Rest]
    BY <1>4, <2>2
  <2>3. ASSUME NEW j \in Jobs, NEW r \in Job, Goes(j, r)
        PROVE  CopyTrue(job[k])'
    <3>1. job'[k] = IF k = j THEN r ELSE job[k]
      BY <2>3 DEF Goes, Typed, TypeOK
    <3>2. CopyTrue(r)'
      BY <1>5, <2>3
    <3>3. CASE k = j
      BY <3>1, <3>2, <3>3 DEF CopyTrue, Copied, Granting
    <3>4. CASE k # j
      BY <1>3, <3>1, <3>4
    <3> QED
      BY <3>3, <3>4
  <2>4. JobsGo
    BY DEF Moves
  <2> QED
    BY <2>1, <2>2, <2>3, <2>4 DEF JobsGo
<1> QED
  BY <1>6 DEF CopyInv

LEMMA HoldsKept ==
    ASSUME Typed, HoldsInv, Moves
    PROVE  HoldsInv'
<1>1. ASSUME NEW k \in Jobs \ late', NEW r \in Job, r = job[k], r.at # "rest"
      PROVE  HoldsTrue(r)'
  <2>1. k \notin late
    BY <1>1, RestShaped DEF Moves, LateGo
  <2>2. r.holds \subseteq Holds(r.by) /\ r.by \in Actors
    BY <1>1, <2>1 DEF HoldsInv, HoldsTrue, Typed, Shaped
  <2>3. CASE r.by = Root
    BY <2>2, <2>3 DEF HoldsTrue, Holds
  <2>4. CASE r.by # Root
    <3>1. r.by \in People /\ account[r.by] # None
      BY <1>1, <2>2, <2>4 DEF Actors, Typed, AccountsInv
    <3>2. Losing(r.by, account'[r.by].perms) \subseteq late'
      BY <3>1 DEF Moves, AccountsGo
    <3>3. account[r.by].perms \subseteq account'[r.by].perms
      BY <1>1, <3>2 DEF Losing
    <3> QED
      BY <2>2, <2>4, <3>3 DEF HoldsTrue, Holds
  <2> QED
    BY <2>3, <2>4
<1>2. ASSUME NEW k \in Jobs \ late', job'[k].at # "rest", job'[k] = job[k]
      PROVE  HoldsTrue(job[k])'
  <2>1. PICK r \in Job : r = job[k]
    BY DEF Typed, TypeOK
  <2>2. HoldsTrue(r)'
    BY <1>1, <1>2, <2>1
  <2> QED
    BY <1>2, <2>1, <2>2 DEF HoldsTrue, Holds
<1>3. ASSUME NEW k \in Jobs \ late', NEW r \in Job, Goes(k, r), r.at # "rest"
      PROVE  HoldsTrue(r)'
  <2>1. CASE job[k].at # "rest" /\ r.by = job[k].by /\ r.holds = job[k].holds
    <3>1. PICK old \in Job : old = job[k]
      BY DEF Typed, TypeOK
    <3>2. HoldsTrue(old)'
      BY <1>1, <2>1, <3>1
    <3> QED
      BY <2>1, <3>1, <3>2 DEF HoldsTrue, Holds
  <2>2. CASE account' = account /\ r.holds = Holds(r.by)
    BY <2>2 DEF HoldsTrue, Holds
  <2> QED
    BY <1>3, <2>1, <2>2 DEF Goes
<1>4. ASSUME NEW k \in Jobs \ late', job'[k].at # "rest"
      PROVE  HoldsTrue(job[k])'
  <2>1. CASE job' = job
    BY <1>2, <1>4, <2>1
  <2>2. CASE job' = [j \in Jobs |-> Rest]
    BY <1>4, <2>2, RestShaped
  <2>3. ASSUME NEW j \in Jobs, NEW r \in Job, Goes(j, r)
        PROVE  HoldsTrue(job[k])'
    <3>1. job'[k] = IF k = j THEN r ELSE job[k]
      BY <2>3 DEF Goes, Typed, TypeOK
    <3>2. CASE k = j
      <4>1. HoldsTrue(r)'
        BY <1>3, <1>4, <2>3, <3>1, <3>2
      <4> QED
        BY <3>1, <3>2, <4>1 DEF HoldsTrue, Holds
    <3>3. CASE k # j
      BY <1>2, <1>4, <3>1, <3>3
    <3> QED
      BY <3>2, <3>3
  <2>4. JobsGo
    BY DEF Moves
  <2> QED
    BY <2>1, <2>2, <2>3, <2>4 DEF JobsGo
<1> QED
  BY <1>4 DEF HoldsInv

\* A person on the list of portal members stays there, as long as there is the club.
LEMMA MembersStay ==
    ASSUME Typed, MadeInv, Moves, NEW grant \in granted,
           club[grant[2]] = None \/ grant[1] \in club[grant[2]].lists["members"]
    PROVE  club'[grant[2]] = None \/ grant[1] \in club'[grant[2]].lists["members"]
<1>1. grant[2] \in made /\ grant[2] \in Clubs
  BY DEF MadeInv, Typed, TypeOK
<1>2. ClubGoes(grant[2])
  BY <1>1 DEF Moves
<1> QED
  BY <1>1, <1>2 DEF ClubGoes

\* Where nobody stops joining, those who belong keep belonging.
LEMMA BelongStays ==
    ASSUME Typed, MadeInv, Moves, GrantedBelong, NEW grant \in granted' \ unjoined',
           grant \in granted, unjoined \subseteq unjoined',
           \A k \in Jobs : (job[k].at = "join" /\ job[k].who = grant[1] /\ job[k].club = grant[2])
                               => job'[k] = job[k]
    PROVE  \/ club'[grant[2]] = None \/ grant[1] \in club'[grant[2]].lists["members"]
           \/ \E k \in Jobs : job'[k].at = "join" /\ job'[k].who = grant[1] /\ job'[k].club = grant[2]
<1>1. CASE club[grant[2]] = None \/ grant[1] \in club[grant[2]].lists["members"]
  BY <1>1, MembersStay
<1>2. CASE \E k \in Jobs : job[k].at = "join" /\ job[k].who = grant[1] /\ job[k].club = grant[2]
  BY <1>2
<1> QED
  BY <1>1, <1>2 DEF GrantedBelong

\* A handler's step leaves the other requests alone.
LEMMA StepAside ==
    ASSUME Typed, NEW j \in Jobs, Step(j)
    PROVE  /\ \A k \in Jobs : k # j => job'[k] = job[k]
           /\ job[j].at # "rest"
           /\ \A c \in Clubs : c # job[j].club => club'[c] = club[c]
           /\ UNCHANGED <<wanted, made, seen>>
<1>1. (Answer(j) \/ \E to : job' = Go(j, to)) => \A k \in Jobs : k # j => job'[k] = job[k]
  BY DEF Answer, Go, Typed, TypeOK
<1>2. (LoadClub(j) \/ FindUser(j)) => \A k \in Jobs : k # j => job'[k] = job[k]
  BY <1>1 DEF LoadClub, FindUser, Refused, Typed, TypeOK
<1>3. ~(LoadClub(j) \/ FindUser(j)) => \A k \in Jobs : k # j => job'[k] = job[k]
  <2>1. ~(LoadClub(j) \/ FindUser(j)) => Answer(j) \/ \E to : job' = Go(j, to)
    BY DEF Step, PromoteLead, SwitchLeadOn, SaveClub, CreateUser, SaveUser, ManageUser,
                Join, Refused
  <2> QED
    BY <1>1, <2>1
<1>4. \A k \in Jobs : k # j => job'[k] = job[k]
  BY <1>2, <1>3
<1>5. job[j].at # "rest"
  BY DEF Step, PromoteLead, SwitchLeadOn, LoadClub, SaveClub, FindUser, CreateUser, SaveUser,
         ManageUser, Join
<1>6. UNCHANGED <<wanted, made, seen>>
  BY DEF Step, PromoteLead, SwitchLeadOn, LoadClub, SaveClub, FindUser, CreateUser, SaveUser,
         ManageUser, Join, Refused, Save
<1>7. club' = club \/ \E lists : club' = Written(j, lists)
  BY DEF Step, PromoteLead, SwitchLeadOn, LoadClub, SaveClub, FindUser, CreateUser, SaveUser,
         ManageUser, Join, Refused, Save
<1>8. \A c \in Clubs : c # job[j].club => club'[c] = club[c]
  BY <1>7 DEF Written, Typed, TypeOK
<1> QED
  BY <1>4, <1>5, <1>6, <1>8

LEMMA ToggleMinds ==
    ASSUME Typed, MadeInv, CalmInv,
           NEW j \in Jobs, NEW a \in People, NEW c \in Clubs, NEW p \in People,
           ToggleMember(j, a, c, p)
    PROVE  Minds(j)
<1>1. "regs" \in Fields /\ "leads" \in Fields /\ a \in Actors /\ a \in Shown(a, c, "leads")
  BY DEF Fields, Actors, ToggleMember
<1> DEFINE shown == Shown(a, c, "regs")
           u == Updating(c, "regs", Flip(shown, p))
<1>2. shown \in SUBSET People /\ Flip(shown, p) \in SUBSET People /\ seen[a][c] # None
  BY <1>1, ShownTyped, Flips
<1>3. /\ u \in Job /\ u.at = "club" /\ u.kind = "update" /\ u.club = c
      /\ u.fields = {"regs"} /\ u.lists["regs"] = Flip(shown, p)
  BY <1>1, <1>2, UpdatingSays
<1>4. Send(j, a, u)
  BY DEF ToggleMember
<1>5. /\ wanted' = [wanted EXCEPT ![c] = IF p \in shown THEN @ \ {p} ELSE @ \cup {p}]
      /\ ~Pending(a)
      /\ muddled' = IF club[c] # None /\ club[c].lists["regs"] = shown
                         /\ \A k \in Jobs : job[k].club = c => job[k].by = a
                    THEN muddled ELSE muddled \cup {c}
  BY DEF ToggleMember
<1> HIDE DEF u, shown
<1>6. /\ \A k \in Jobs : k # j => job'[k] = job[k]
      /\ job'[j].at = "club" /\ job'[j].kind = "update" /\ job'[j].club = c
      /\ job'[j].fields = {"regs"} /\ job'[j].lists["regs"] = Flip(shown, p)
  BY <1>3, <1>4, SentJob
<1>7. \A d \in Clubs : d # c => wanted'[d] = wanted[d]
  BY <1>5 DEF Typed, TypeOK
<1>8. ASSUME c \notin muddled'
      PROVE  /\ job'[j].lists["regs"] = wanted'[c]
             /\ \A k \in Jobs : job[k].club = c => job[k].kind # "update"
             /\ club[c] # None /\ club[c].lists["regs"] \in SUBSET People
  <2>1. /\ club[c] # None /\ club[c].lists["regs"] = shown /\ c \notin muddled
        /\ \A k \in Jobs : job[k].club = c => job[k].by = a
    BY <1>5, <1>8
  <2>2. \A k \in Jobs : job[k].club = c => job[k].kind # "update"
    BY <1>5, <2>1 DEF Pending
  <2>3. c \in made
    BY <2>1 DEF MadeInv
  <2>4. CalmAt(c)
    BY <2>1, <2>3 DEF CalmInv
  <2>5. wanted[c] = shown
    BY <2>1, <2>2, <2>4 DEF CalmAt
  <2>6. wanted'[c] = Flip(shown, p)
    BY <1>5, <2>5 DEF Typed, TypeOK, Flip
  <2> QED
    BY <1>2, <1>6, <2>1, <2>2, <2>6
<1> QED
  BY <1>1, <1>2, <1>6, <1>7, <1>8 DEF Minds

LEMMA RequestMinds ==
    ASSUME Typed, MadeInv, CalmInv, NEW j \in Jobs, Request(j)
    PROVE  Minds(j)
  BY RequestFits, ToggleMinds

-----------------------------------------------------------------------------
(* What each part of the invariant rests on.                               *)

LEMMA JobsMade ==
    ASSUME Typed, MadeInv, JobsGo, made \subseteq made', NEW k \in Jobs, job'[k].at # "rest"
    PROVE  job'[k].club \in made'
<1>1. CASE job' = job
  BY <1>1 DEF MadeInv
<1>2. CASE job' = [j \in Jobs |-> Rest]
  BY <1>2, RestShaped
<1>3. ASSUME NEW j \in Jobs, NEW r \in Job, Goes(j, r)
      PROVE  job'[k].club \in made'
  <2>1. job'[k] = IF k = j THEN r ELSE job[k]
    BY <1>3 DEF Goes, Typed, TypeOK
  <2>2. CASE k # j
    BY <2>1, <2>2 DEF MadeInv
  <2>3. CASE k = j /\ job[j].at # "rest" /\ r.club = job[j].club
    BY <2>1, <2>3 DEF MadeInv
  <2>4. CASE k = j /\ \E a \in Actors : seen[a][r.club] # None
    <3>1. r.club \in Clubs
      BY <1>3, <2>1, <2>4 DEF Goes, Shaped
    <3> QED
      BY <2>1, <2>4, <3>1 DEF MadeInv
  <2> QED
    BY <1>3, <2>1, <2>2, <2>3, <2>4 DEF Goes
<1> QED
  BY <1>1, <1>2, <1>3 DEF JobsGo

\* Nothing happens at a club before it is made.
Untouched ==
    /\ made \subseteq made' /\ granted' \subseteq People \X made'
    /\ \A c \in Clubs \ made' :
          club'[c] = None /\ wanted'[c] = {} /\ \A a \in Actors : seen'[a][c] = None

LEMMA NextUntouched ==
    ASSUME Typed, MadeInv, CopyInv, CalmInv, [ClubsNext]_clubVars
    PROVE  Untouched
<1>1. CASE FetchUsers \/ UNCHANGED clubVars \/ Drop
  BY <1>1 DEF FetchUsers, clubVars, Drop, MadeInv, Untouched
<1>2. ASSUME NEW a \in Actors, Fetch(a)
      PROVE  Untouched
  <2>1. UNCHANGED <<club, wanted, made, granted>>
    BY <1>2 DEF Fetch
  <2>2. ASSUME NEW c \in Clubs \ made, NEW b \in Actors
        PROVE  seen'[b][c] = None
    <3>1. ~Belongs(a, c)
      BY <2>2 DEF Belongs, MadeInv
    <3> QED
      BY <1>2, <2>2, <3>1 DEF Fetch, MadeInv, Typed, TypeOK
  <2> QED
    BY <2>1, <2>2 DEF MadeInv, Untouched
<1>3. ASSUME NEW j \in Jobs, Request(j)
      PROVE  Untouched
  BY <1>3, RequestFits, RequestMinds DEF Asks, Minds, MadeInv, Untouched
<1>4. ASSUME NEW j \in Jobs, Step(j)
      PROVE  Untouched
  <2>1. Serves(j) /\ job[j].at # "rest" /\ UNCHANGED <<wanted, made, seen>>
    BY <1>4, StepServes, StepAside
  <2>2. \A c \in Clubs \ made : club'[c] = None
    BY <1>4, <2>1, StepAside DEF MadeInv
  <2>3. granted' \subseteq People \X made
    <3>1. job[j].club \in made
      BY <2>1 DEF MadeInv
    <3> QED
      BY <2>1, <3>1 DEF Serves, MadeInv
  <2> QED
    BY <2>1, <2>2, <2>3 DEF MadeInv, Untouched
<1>5. ASSUME NEW c \in Clubs, DeleteClub(c), UNCHANGED listed
      PROVE  Untouched
  BY <1>5, DeletesMove DEF MadeInv, Untouched
<1>6. ASSUME NEW c \in Clubs, NEW leads \in SUBSET People, CreateClub(c, leads), UNCHANGED listed
      PROVE  Untouched
  <2>1. /\ made' = made \cup {c} /\ granted' = granted /\ wanted' = wanted /\ seen' = seen
        /\ \A d \in Clubs : d # c => club'[d] = club[d]
    BY <1>6, CreatesMove
  <2>2. granted' \subseteq People \X made'
    BY <2>1 DEF MadeInv
  <2> QED
    BY <2>1, <2>2 DEF MadeInv, Untouched
<1>7. ASSUME NEW p \in People, NEW perms \in SUBSET Permissions, NEW access \in BOOLEAN,
             ChangeUser(p, perms, access), UNCHANGED listed
      PROVE  Untouched
  BY <1>7, ChangesMove DEF MadeInv, Untouched
<1> QED
  BY <1>1, <1>2, <1>3, <1>4, <1>5, <1>6, <1>7 DEF ClubsNext, ClubStep

LEMMA MadeKept ==
    ASSUME Typed, MadeInv, CopyInv, CalmInv, [ClubsNext]_clubVars
    PROVE  MadeInv'
<1>1. Moves /\ Untouched
  BY NextMoves, NextUntouched
<1> QED
  BY <1>1, JobsMade DEF MadeInv, Moves, Untouched

\* Where a grant leaves a person.
BelongsNow(grant) ==
    \/ club[grant[2]] = None
    \/ grant[1] \in club[grant[2]].lists["members"]
    \/ \E k \in Jobs : job[k].at = "join" /\ job[k].who = grant[1] /\ job[k].club = grant[2]

LEMMA JoinBelongs ==
    ASSUME Typed, MadeInv, CopyInv, GrantedBelong, NEW j \in Jobs, Join(j),
           Moves, NEW grant \in granted' \ unjoined'
    PROVE  BelongsNow(grant)'
<1>1. /\ job[j].at = "join" /\ Copied(job[j]) /\ granted' = granted
      /\ \A k \in Jobs : k # j => job'[k] = job[k]
      /\ job[j].club \in Clubs
  BY StepAside DEF Join, Step, Copied, Granting, Typed, Shaped
<1>2. CASE Stale(j, Joined(j))
  <2>1. unjoined' = unjoined \cup {<<job[j].who, job[j].club>>}
    BY <1>2 DEF Join, Who
  <2>2. \A k \in Jobs : (job[k].at = "join" /\ job[k].who = grant[1] /\ job[k].club = grant[2])
                            => k # j
    BY <2>1, <1>1 DEF Typed, TypeOK
  <2> QED
    BY <1>1, <2>1, <2>2, BelongStays DEF BelongsNow
<1>3. CASE ~Stale(j, Joined(j))
  <2>1. club' = Written(j, Joined(j)) /\ unjoined' = unjoined
    BY <1>3 DEF Join
  <2>2. /\ "members" \in Fields
        /\ Joined(j) \in Lists /\ job[j].who \in Joined(j)["members"]
        /\ job[j].copy.lists["members"] \subseteq Joined(j)["members"]
    BY <1>1, JoinedTyped DEF Fields
  <2>3. /\ club'[job[j].club] # None
        /\ \/ club'[job[j].club].lists["members"] = Joined(j)["members"]
           \/ /\ Joined(j)["members"] = job[j].copy.lists["members"]
              /\ club'[job[j].club].lists["members"] = club[job[j].club].lists["members"]
    BY <1>1, <1>3, <2>1, <2>2, WrittenGoes
  <2>4. club[job[j].club] # None
    BY <1>3 DEF Stale, Club0
  <2>5. job[j].copy.lists["members"] \subseteq club[job[j].club].lists["members"]
    BY <1>1, <2>4 DEF CopyInv, CopyTrue
  <2>6. job[j].who \in club'[job[j].club].lists["members"]
    BY <2>2, <2>3, <2>5
  <2>7. CASE grant[1] = job[j].who /\ grant[2] = job[j].club
    BY <2>6, <2>7 DEF BelongsNow
  <2>8. CASE ~(grant[1] = job[j].who /\ grant[2] = job[j].club)
    BY <1>1, <2>1, <2>8, BelongStays DEF BelongsNow
  <2> QED
    BY <2>7, <2>8
<1> QED
  BY <1>2, <1>3

\* Whoever is granted something new is about to join.
LEMMA GrantsJoin ==
    ASSUME Typed, NEW j \in Jobs, Step(j), NEW grant \in granted' \ granted
    PROVE  /\ job'[j].at = "join" /\ job'[j].who = grant[1] /\ job'[j].club = grant[2]
<1>1. grant = <<job[j].who, job[j].club>> /\ job' = Go(j, "join")
  BY DEF Step, PromoteLead, SwitchLeadOn, LoadClub, SaveClub, FindUser, CreateUser, SaveUser,
         ManageUser, Join, Refused, Save, Who
<1>2. job[j] \in Job
  BY DEF Typed, TypeOK
<1>3. job'[j] = [job[j] EXCEPT !.at = "join"]
  BY <1>1 DEF Go, Typed, TypeOK
<1> QED
  BY <1>1, <1>2, <1>3 DEF Job

LEMMA StepBelongs ==
    ASSUME Typed, MadeInv, CopyInv, GrantedBelong, NEW j \in Jobs, Step(j), ~Join(j),
           Moves, NEW grant \in granted' \ unjoined'
    PROVE  BelongsNow(grant)'
<1>1. /\ job[j].at # "join" /\ unjoined' = unjoined
      /\ \A k \in Jobs : k # j => job'[k] = job[k]
  <2>1. job[j].at # "join" /\ unjoined' = unjoined
    BY DEF Step, PromoteLead, SwitchLeadOn, LoadClub, SaveClub, FindUser, CreateUser, SaveUser,
           ManageUser, Refused, Save
  <2> QED
    BY <2>1, StepAside
<1>2. CASE grant \in granted
  BY <1>1, <1>2, BelongStays DEF BelongsNow
<1>3. CASE grant \notin granted
  BY <1>3, GrantsJoin DEF BelongsNow
<1> QED
  BY <1>2, <1>3

LEMMA BelongKept ==
    ASSUME Typed, MadeInv, CopyInv, CalmInv, GrantedBelong, [ClubsNext]_clubVars
    PROVE  GrantedBelong'
<1>1. Moves
  BY NextMoves
<1>2. SUFFICES ASSUME NEW grant \in granted' \ unjoined'
               PROVE  BelongsNow(grant)'
  BY DEF GrantedBelong, BelongsNow
<1>3. ASSUME UNCHANGED <<job, granted, unjoined>>
      PROVE  BelongsNow(grant)'
  BY <1>1, <1>3, BelongStays DEF BelongsNow
<1>4. CASE FetchUsers \/ UNCHANGED clubVars
  BY <1>3, <1>4 DEF FetchUsers, clubVars
<1>5. CASE Drop
  <2>1. granted' = granted /\ unjoined \subseteq unjoined'
    BY <1>5 DEF Drop
  <2>2. \A k \in Jobs : job[k].at = "join" => <<job[k].who, job[k].club>> \in unjoined'
    BY <1>5 DEF Drop
  <2>3. \A k \in Jobs : (job[k].at = "join" /\ job[k].who = grant[1] /\ job[k].club = grant[2])
                            => FALSE
    BY <2>1, <2>2 DEF Typed, TypeOK
  <2> QED
    BY <1>1, <2>1, <2>3, BelongStays DEF BelongsNow
<1>6. ASSUME NEW a \in Actors, Fetch(a)
      PROVE  BelongsNow(grant)'
  BY <1>3, <1>6 DEF Fetch
<1>7. ASSUME NEW j \in Jobs, Request(j)
      PROVE  BelongsNow(grant)'
  <2>1. /\ granted' = granted /\ unjoined' = unjoined /\ job[j] = Rest
        /\ \A k \in Jobs : k # j => job'[k] = job[k]
    BY <1>7, RequestFits, RequestMinds DEF Asks, Minds
  <2> QED
    BY <1>1, <2>1, RestShaped, BelongStays DEF BelongsNow
<1>8. ASSUME NEW j \in Jobs, Step(j)
      PROVE  BelongsNow(grant)'
  BY <1>1, <1>8, JoinBelongs, StepBelongs
<1>9. ASSUME NEW c \in Clubs, DeleteClub(c), UNCHANGED listed
      PROVE  BelongsNow(grant)'
  BY <1>3, <1>9, DeletesMove
<1>10. ASSUME NEW c \in Clubs, NEW leads \in SUBSET People, CreateClub(c, leads), UNCHANGED listed
       PROVE  BelongsNow(grant)'
  BY <1>3, <1>10, CreatesMove
<1>11. ASSUME NEW p \in People, NEW perms \in SUBSET Permissions, NEW access \in BOOLEAN,
              ChangeUser(p, perms, access), UNCHANGED listed
       PROVE  BelongsNow(grant)'
  BY <1>3, <1>11, ChangesMove
<1> QED
  BY <1>4, <1>5, <1>6, <1>7, <1>8, <1>9, <1>10, <1>11 DEF ClubsNext, ClubStep

\* A club at which nothing changes.
LEMMA CalmStays ==
    ASSUME NEW c \in Clubs, CalmAt(c), club'[c] = club[c], wanted'[c] = wanted[c],
           \A k \in Jobs : job'[k] = job[k] \/ (job[k].club # c /\ job'[k].club # c)
    PROVE  CalmAt(c)'
<1>1. club'[c] # None
  BY DEF CalmAt
<1>2. \A k \in Jobs : job'[k].club = c => job'[k] = job[k]
  OBVIOUS
<1>3. ASSUME NEW k \in Jobs, job'[k].club = c
      PROVE  job'[k].kind = "manage" \/ (job'[k].kind = "update" /\ Click(job[k], c)')
  <2>1. job'[k] = job[k] /\ job[k].club = c
    BY <1>2, <1>3
  <2> QED
    BY <2>1 DEF CalmAt, Click
<1>4. \A k, l \in Jobs :
         (job'[k].club = c /\ job'[l].club = c /\ job'[k].kind = "update" /\ job'[l].kind = "update")
            => k = l
  BY <1>2 DEF CalmAt
<1>5. \/ \E k \in Jobs : job'[k].club = c /\ job'[k].kind = "update"
      \/ club'[c].lists["regs"] = wanted'[c]
  BY DEF CalmAt
<1> QED
  BY <1>1, <1>3, <1>4, <1>5 DEF CalmAt

\* The handler of a portal member's access leaves the club alone.
LEMMA ManageCalm ==
    ASSUME NEW c \in Clubs, CalmAt(c), club'[c] = club[c], wanted'[c] = wanted[c],
           NEW j \in Jobs, job[j].club # c \/ job[j].kind # "update",
           \A k \in Jobs : k # j => job'[k] = job[k],
           job'[j].club # c \/ job'[j].kind = "manage"
    PROVE  CalmAt(c)'
<1>1. club'[c] # None
  BY DEF CalmAt
<1>2. ASSUME NEW k \in Jobs, job'[k].club = c
      PROVE  job'[k].kind = "manage" \/ (job'[k].kind = "update" /\ Click(job[k], c)')
  <2>1. CASE k = j
    BY <1>2, <2>1
  <2>2. CASE k # j
    BY <1>2, <2>2 DEF CalmAt, Click
  <2> QED
    BY <2>1, <2>2
<1>3. \A k \in Jobs : (job'[k].club = c /\ job'[k].kind = "update")
                         <=> (job[k].club = c /\ job[k].kind = "update")
  OBVIOUS
<1>4. \A k, l \in Jobs :
         (job'[k].club = c /\ job'[l].club = c /\ job'[k].kind = "update" /\ job'[l].kind = "update")
            => k = l
  BY <1>3 DEF CalmAt
<1>5. \/ \E k \in Jobs : job'[k].club = c /\ job'[k].kind = "update"
      \/ club'[c].lists["regs"] = wanted'[c]
  BY <1>3 DEF CalmAt
<1> QED
  BY <1>1, <1>2, <1>4, <1>5 DEF CalmAt

\* A click while no other one is under way.
LEMMA ClickCalm ==
    ASSUME Typed, NEW c \in Clubs, CalmAt(c), club' = club, NEW j \in Jobs,
           \A k \in Jobs : k # j => job'[k] = job[k],
           job'[j].kind = "update", job'[j].at = "club", job'[j].fields = {"regs"},
           job'[j].lists["regs"] = wanted'[c], job'[j].club = c,
           \A k \in Jobs : job[k].club = c => job[k].kind # "update"
    PROVE  CalmAt(c)'
<1>1. club'[c] # None
  BY DEF CalmAt
<1>2. Click(job[j], c)'
  BY DEF Click
<1>3. ASSUME NEW k \in Jobs, job'[k].club = c, k # j
      PROVE  job'[k].kind = "manage"
  BY <1>3 DEF CalmAt
<1>4. \A k \in Jobs : job'[k].club = c =>
          job'[k].kind = "manage" \/ (job'[k].kind = "update" /\ Click(job[k], c)')
  BY <1>2, <1>3
<1>5. \A k, l \in Jobs :
         (job'[k].club = c /\ job'[l].club = c /\ job'[k].kind = "update" /\ job'[l].kind = "update")
            => k = l
  BY <1>3
<1> QED
  BY <1>1, <1>4, <1>5 DEF CalmAt

LEMMA RequestCalm ==
    ASSUME Typed, MadeInv, CalmInv, NEW j \in Jobs, Request(j),
           NEW c \in made' \ muddled'
    PROVE  CalmAt(c)'
<1>1. Asks(j) /\ Minds(j)
  BY RequestFits, RequestMinds
<1>2. c \in made \ muddled /\ c \in Clubs /\ CalmAt(c) /\ club' = club
  BY <1>1 DEF Asks, CalmInv, Typed, TypeOK
<1>3. job[j].club # c
  BY <1>1, <1>2, RestShaped DEF Asks
<1>4. CASE wanted'[c] = wanted[c] /\ (job'[j].club # c \/ job'[j].kind = "manage")
  BY <1>1, <1>2, <1>3, <1>4, ManageCalm DEF Minds
<1>5. CASE ~(wanted'[c] = wanted[c] /\ (job'[j].club # c \/ job'[j].kind = "manage"))
  BY <1>1, <1>2, <1>5, ClickCalm DEF Minds
<1> QED
  BY <1>4, <1>5

\* A handler works for one club and one kind of request.
LEMMA StepStays ==
    ASSUME Typed, NEW j \in Jobs, Step(j)
    PROVE  job'[j] = Rest \/ (job'[j].club = job[j].club /\ job'[j].kind = job[j].kind)
<1>1. job[j] \in Job
  BY DEF Typed, TypeOK
<1>2. ASSUME NEW to, job' = Go(j, to)
      PROVE  job'[j].club = job[j].club /\ job'[j].kind = job[j].kind
  BY <1>1, <1>2 DEF Go, Job, Typed, TypeOK
<1>3. Answer(j) => job'[j] = Rest
  BY DEF Answer, Typed, TypeOK
<1>4. CASE LoadClub(j)
  <2> DEFINE at == IF job[j].kind = "update" THEN "save" ELSE "user"
             r == [job[j] EXCEPT !.copy = Club0(j), !.at = at]
  <2>1. job'[j] = r \/ Refused(j)
    BY <1>4 DEF LoadClub, Typed, TypeOK
  <2>2. r.club = job[j].club /\ r.kind = job[j].kind
    BY <1>1 DEF Job
  <2> HIDE DEF r
  <2> QED
    BY <1>3, <2>1, <2>2 DEF Refused
<1>5. CASE FindUser(j)
  <2> DEFINE r == [job[j] EXCEPT !.read = account[Who(j)], !.at = "account"]
  <2>1. job'[j] = r \/ Answer(j) \/ \E to : job' = Go(j, to)
    BY <1>5 DEF FindUser, Typed, TypeOK
  <2>2. r.club = job[j].club /\ r.kind = job[j].kind
    BY <1>1 DEF Job
  <2> HIDE DEF r
  <2> QED
    BY <1>2, <1>3, <2>1, <2>2
<1>6. CASE ~(LoadClub(j) \/ FindUser(j))
  <2>1. Answer(j) \/ \E to : job' = Go(j, to)
    BY <1>6 DEF Step, PromoteLead, SwitchLeadOn, SaveClub, CreateUser, SaveUser, ManageUser,
                Join, Refused
  <2> QED
    BY <1>2, <1>3, <2>1
<1> QED
  BY <1>4, <1>5, <1>6

LEMMA LoadCalm ==
    ASSUME Typed, CalmInv, NEW j \in Jobs, LoadClub(j), NEW c \in Clubs, c = job[j].club,
           CalmAt(c), ~Refused(j), job[j].kind = "update"
    PROVE  CalmAt(c)'
<1>1. /\ job' = [job EXCEPT ![j].copy = Club0(j), ![j].at = "save"]
      /\ club' = club /\ wanted' = wanted
  BY DEF LoadClub
<1> DEFINE r == [job[j] EXCEPT !.copy = Club0(j), !.at = "save"]
<1>2. job[j] \in Job
  BY DEF Typed, TypeOK
<1>3. /\ r.at = "save" /\ r.kind = "update" /\ r.club = c /\ r.fields = job[j].fields
      /\ r.lists = job[j].lists /\ r.copy = club[c]
  BY <1>2 DEF Job, Club0
<1>4. job'[j] = r /\ \A k \in Jobs : k # j => job'[k] = job[k]
  BY <1>1 DEF Typed, TypeOK
<1> HIDE DEF r
<1>5. Click(job[j], c)
  BY DEF CalmAt
<1>6. Click(job[j], c)'
  BY <1>1, <1>3, <1>4, <1>5 DEF Click
<1>7. \A k \in Jobs : job'[k].club = c =>
          job'[k].kind = "manage" \/ (job'[k].kind = "update" /\ Click(job[k], c)')
  <2>1. \A k \in Jobs : job'[k].club = c /\ k # j => job'[k].kind = "manage"
    BY <1>3, <1>4 DEF CalmAt
  <2> QED
    BY <1>3, <1>4, <1>6, <2>1
<1>8. \A k, l \in Jobs :
         (job'[k].club = c /\ job'[l].club = c /\ job'[k].kind = "update" /\ job'[l].kind = "update")
            => k = l
  BY <1>3, <1>4 DEF CalmAt
<1>9. \E k \in Jobs : job'[k].club = c /\ job'[k].kind = "update"
  BY <1>3, <1>4
<1> QED
  BY <1>1, <1>7, <1>8, <1>9 DEF CalmAt

LEMMA SaveCalm ==
    ASSUME Typed, CopyInv, CalmInv, NEW j \in Jobs, SaveClub(j), NEW c \in Clubs, c = job[j].club,
           CalmAt(c), ~Refused(j), job[j].kind = "update"
    PROVE  CalmAt(c)'
<1>1. /\ ~Stale(j, Asked(j)) /\ club' = Written(j, Asked(j)) /\ Answer(j) /\ wanted' = wanted
      /\ job[j].at = "save" /\ Copied(job[j])
  BY DEF SaveClub, Copied
<1>2. /\ "regs" \in Fields /\ Asked(j) \in Lists
      /\ job[j].copy.lists["members"] \subseteq Asked(j)["members"]
  BY <1>1, AskedTyped DEF Fields
<1>3. job'[j] = Rest /\ \A k \in Jobs : k # j => job'[k] = job[k]
  BY <1>1 DEF Answer, Typed, TypeOK
<1>4. Click(job[j], c) /\ job[j].copy = club[c]
  BY <1>1 DEF CalmAt, Click
<1>5. Asked(j)["regs"] = wanted[c]
  BY <1>2, <1>4 DEF Asked, Click
<1>6. club'[c] # None /\ club'[c].lists["regs"] = wanted'[c]
  BY <1>1, <1>2, <1>4, <1>5, WrittenGoes
<1>7. \A k \in Jobs : job'[k].club = c => job'[k].kind = "manage"
  BY <1>3, RestShaped DEF CalmAt
<1> QED
  BY <1>6, <1>7 DEF CalmAt

LEMMA StepCalm ==
    ASSUME Typed, CopyInv, CalmInv, NEW j \in Jobs, Step(j), NEW c \in made' \ muddled'
    PROVE  CalmAt(c)'
<1>1. /\ \A k \in Jobs : k # j => job'[k] = job[k]
      /\ UNCHANGED <<wanted, made>>
      /\ \A d \in Clubs : d # job[j].club => club'[d] = club[d]
      /\ job'[j] = Rest \/ (job'[j].club = job[j].club /\ job'[j].kind = job[j].kind)
  BY StepAside, StepStays
<1>2. muddled \subseteq muddled'
  BY StepServes DEF Serves
<1>3. c \in made \ muddled /\ c \in Clubs /\ CalmAt(c)
  BY <1>1, <1>2 DEF CalmInv, Typed, TypeOK
<1>4. CASE job[j].club # c
  <2>1. job'[j].club # c
    BY <1>1, <1>3, <1>4, RestShaped
  <2> QED
    BY <1>1, <1>3, <1>4, <2>1, CalmStays
<1>5. CASE job[j].club = c
  <2>1. ~Refused(j)
    BY <1>5 DEF Refused
  <2>2. CASE job[j].kind = "update"
    <3>1. job[j].at \in {"club", "save"}
      BY <1>3, <1>5, <2>2 DEF CalmAt, Click
    <3>2. LoadClub(j) \/ SaveClub(j)
      BY <3>1 DEF Step, PromoteLead, SwitchLeadOn, FindUser, CreateUser, SaveUser, ManageUser, Join
    <3> QED
      BY <1>3, <1>5, <2>1, <2>2, <3>2, LoadCalm, SaveCalm
  <2>3. CASE job[j].kind # "update"
    <3>1. job[j].kind = "manage"
      BY <1>3, <1>5, <2>3 DEF CalmAt
    <3>2. Shaped(job[j])
      BY DEF Typed
    <3>3. club' = club
      BY <3>1, <3>2 DEF Shaped, Step, PromoteLead, SwitchLeadOn, LoadClub, SaveClub, FindUser,
                        CreateUser, SaveUser, ManageUser, Join, Refused, Save
    <3>4. job'[j].club # c \/ job'[j].kind = "manage"
      BY <1>1, <1>3, <3>1, RestShaped
    <3> QED
      BY <1>1, <1>3, <2>3, <3>3, <3>4, ManageCalm
  <2> QED
    BY <2>2, <2>3
<1> QED
  BY <1>4, <1>5

LEMMA CalmKept ==
    ASSUME Typed, MadeInv, CopyInv, CalmInv, [ClubsNext]_clubVars
    PROVE  CalmInv'
<1>1. SUFFICES ASSUME NEW c \in made' \ muddled'
               PROVE  CalmAt(c)'
  BY DEF CalmInv
<1>2. ASSUME c \in made \ muddled, club'[c] = club[c], UNCHANGED <<job, wanted>>
      PROVE  CalmAt(c)'
  BY <1>2, CalmStays DEF CalmInv, Typed, TypeOK
<1>3. CASE FetchUsers \/ UNCHANGED clubVars
  BY <1>2, <1>3 DEF FetchUsers, clubVars
<1>4. CASE Drop
  <2>1. /\ job' = [j \in Jobs |-> Rest] /\ muddled' = muddled \cup {d \in Clubs : Busy(d)}
        /\ UNCHANGED <<club, wanted, made>>
    BY <1>4 DEF Drop
  <2>2. c \in made \ muddled /\ c \in Clubs
    BY <2>1 DEF Typed, TypeOK
  <2>3. \A k \in Jobs : job[k].club # c /\ job'[k].club # c
    BY <2>1, <2>2, RestShaped DEF Busy
  <2> QED
    BY <2>1, <2>2, <2>3, CalmStays DEF CalmInv
<1>5. ASSUME NEW a \in Actors, Fetch(a)
      PROVE  CalmAt(c)'
  BY <1>2, <1>5 DEF Fetch
<1>6. ASSUME NEW j \in Jobs, Request(j)
      PROVE  CalmAt(c)'
  BY <1>6, RequestCalm
<1>7. ASSUME NEW j \in Jobs, Step(j)
      PROVE  CalmAt(c)'
  BY <1>7, StepCalm
<1>8. ASSUME NEW d \in Clubs, DeleteClub(d), UNCHANGED listed
      PROVE  CalmAt(c)'
  <2>1. c # d /\ c \in made \ muddled /\ c \in Clubs
    BY <1>8, DeletesMove DEF Typed, TypeOK
  <2> QED
    BY <1>2, <1>8, <2>1, DeletesMove
<1>9. ASSUME NEW d \in Clubs, NEW leads \in SUBSET People, CreateClub(d, leads), UNCHANGED listed
      PROVE  CalmAt(c)'
  <2>1. /\ made' = made \cup {d} /\ d \notin made /\ club'[d] \in Club
        /\ club'[d].lists = [NoLists EXCEPT !["leads"] = leads]
        /\ \A e \in Clubs : e # d => club'[e] = club[e]
        /\ UNCHANGED <<job, wanted, muddled>>
    BY <1>9, CreatesMove
  <2>2. CASE c # d
    BY <1>2, <2>1, <2>2 DEF Typed, TypeOK
  <2>3. CASE c = d
    <3>1. club'[c] # None
      BY <2>1, <2>3
    <3>2. \A k \in Jobs : job'[k].club # c
      <4>1. \A k \in Jobs : job[k].at # "rest" => job[k].club \in made
        BY DEF MadeInv
      <4>2. \A k \in Jobs : job[k].at = "rest" => job[k].club = None
        BY RestShaped DEF Typed, Shaped
      <4> QED
        BY <2>1, <2>3, <4>1, <4>2
    <3>3. wanted[c] = {}
      BY <2>1, <2>3 DEF MadeInv
    <3>4. club'[c].lists["regs"] = {}
      BY <2>1, <2>3 DEF NoLists, Fields
    <3> QED
      BY <2>1, <3>1, <3>2, <3>3, <3>4 DEF CalmAt
  <2> QED
    BY <2>2, <2>3
<1>10. ASSUME NEW p \in People, NEW perms \in SUBSET Permissions, NEW access \in BOOLEAN,
              ChangeUser(p, perms, access), UNCHANGED listed
       PROVE  CalmAt(c)'
  BY <1>2, <1>10, ChangesMove
<1> QED
  BY <1>3, <1>4, <1>5, <1>6, <1>7, <1>8, <1>9, <1>10 DEF ClubsNext, ClubStep

-----------------------------------------------------------------------------
(* The properties.                                                         *)

LEMMA Starts ==
    ASSUME ClubsInit
    PROVE  Inv
<1>1. PICK first \in People :
         account = [p \in People |->
            IF p = first THEN [perms |-> Permissions, access |-> TRUE, version |-> 0] ELSE None]
  BY DEF ClubsInit
<1>2. account \in [People -> Account \cup {None}]
  BY <1>1 DEF Account
<1>3. /\ club = [c \in Clubs |-> None] /\ job = [j \in Jobs |-> Rest] /\ received = 0
      /\ seen = [a \in Actors |-> [c \in Clubs |-> None]] /\ listed = [p \in People |-> None]
      /\ wanted = [c \in Clubs |-> {}] /\ muddled = {} /\ made = {} /\ granted = {}
      /\ unjoined = {} /\ late = {}
  BY DEF ClubsInit
<1>4. Rest \in Job
  BY RestShaped DEF Shaped
<1>5. TypeOK
  BY <1>2, <1>3, <1>4 DEF TypeOK
<1>6. Typed
  BY <1>3, <1>5, RestShaped DEF Typed, AccountsInv
<1>7. MadeInv /\ CopyInv /\ HoldsInv /\ GrantedBelong /\ CalmInv
  BY <1>3, RestShaped DEF MadeInv, CopyInv, CopyTrue, HoldsInv, GrantedBelong, CalmInv
<1> QED
  BY <1>6, <1>7 DEF Inv

LEMMA Keeps ==
    ASSUME Inv, [ClubsNext]_clubVars
    PROVE  Inv'
<1>1. Moves
  BY NextMoves DEF Inv
<1> QED
  BY <1>1, MovesTyped, CopyKept, HoldsKept, MadeKept, BelongKept, CalmKept DEF Inv

\* The invariant that the properties below follow from.
THEOREM Inductive == ClubsSpec => []Inv
  BY Starts, Keeps, PTL DEF ClubsSpec

\* The state keeps its types.
THEOREM TypeCorrect == ClubsSpec => []TypeOK
<1>1. Inv => TypeOK
  BY DEF Inv, Typed
<1> QED
  BY <1>1, Inductive, PTL

\* While the members of a club are only ever toggled, from a screen that shows them
\* as they are and by one lead at a time, the record is what the clicks meant.
THEOREM TogglesAddUp == ClubsSpec => []ClicksAddUp
<1>1. Inv => ClicksAddUp
  <2> SUFFICES ASSUME Inv, NEW c \in Clubs, club[c] # None, c \notin muddled, ~Busy(c)
               PROVE  club[c].lists["regs"] = wanted[c]
    BY DEF ClicksAddUp
  <2>1. c \in made
    BY DEF Inv, MadeInv
  <2>2. CalmAt(c)
    BY <2>1 DEF Inv, CalmInv
  <2> QED
    BY <2>2 DEF CalmAt, Busy
<1> QED
  BY <1>1, Inductive, PTL

\* Whose account was saved for a club is, or is about to become, a portal member of
\* it, unless the club's own save was refused or cut off.
THEOREM AccessComesWithTheClub == ClubsSpec => []GrantedBelong
<1>1. Inv => GrantedBelong
  BY DEF Inv
<1> QED
  BY <1>1, Inductive, PTL

\* Only the step of a handler moves that handler on while an account changes.
LEMMA OneActs ==
    ASSUME Inv, [ClubsNext]_clubVars, NEW j \in Jobs, job[j].at \in {"create", "account"},
           job'[j].at # job[j].at, account' # account
    PROVE  Step(j)
<1>1. ASSUME NEW k \in Jobs, Step(k), k # j
      PROVE  FALSE
  BY <1>1, StepAside DEF Inv
<1>2. ASSUME NEW k \in Jobs, Request(k)
      PROVE  FALSE
  BY <1>2, RequestFits DEF Inv, Asks
<1>3. CASE Drop \/ FetchUsers \/ UNCHANGED clubVars
  BY <1>3 DEF Drop, FetchUsers, clubVars
<1>4. ASSUME NEW a \in Actors, Fetch(a)
      PROVE  FALSE
  BY <1>4 DEF Fetch
<1>5. ASSUME NEW c \in Clubs, DeleteClub(c) \/ \E leads \in SUBSET People : CreateClub(c, leads)
      PROVE  FALSE
  BY <1>5 DEF DeleteClub, CreateClub
<1>6. ASSUME NEW p \in People, NEW perms \in SUBSET Permissions, NEW access \in BOOLEAN,
             ChangeUser(p, perms, access)
      PROVE  FALSE
  BY <1>6 DEF ChangeUser
<1> QED
  BY <1>1, <1>2, <1>3, <1>4, <1>5, <1>6 DEF ClubsNext, ClubStep

\* A lead hands out permissions that it holds and that a club may hand out, whatever
\* the screen offered.
THEOREM OnlyWhatTheyHold == ClubsSpec => LeadsGrantWhatTheyHold
<1> DEFINE Grants(j) ==
      LET p == job[j].who
          before == IF account[p] = None THEN {} ELSE account[p].perms
      IN account'[p].perms \ before
           \subseteq IF j \in late THEN ClubPortalPermissions
                     ELSE ClubPortalPermissions \cap Holds(job[j].by)
<1>1. ASSUME Inv, [ClubsNext]_clubVars, NEW j \in Jobs,
             job[j].at \in {"create", "account"}, job'[j].at # job[j].at, account' # account
      PROVE  Grants(j)
  <2>1. Step(j) /\ job[j] \in Job /\ Typed
    BY <1>1, OneActs DEF Inv, Typed, TypeOK
  <2>2. Given(j) \subseteq IF j \in late THEN ClubPortalPermissions
                           ELSE ClubPortalPermissions \cap Holds(job[j].by)
    <3>1. j \notin late => job[j].holds \subseteq Holds(job[j].by)
      BY <1>1 DEF Inv, HoldsInv, HoldsTrue
    <3> QED
      BY <2>1, <3>1, GivenTyped
  <2>3. CASE CreateUser(j)
    <3>1. account[job[j].who] = None
          /\ account' = [account EXCEPT ![job[j].who] =
                            [perms |-> Given(j), access |-> job[j].access, version |-> 0]]
      BY <1>1, <2>3 DEF CreateUser, Refused, Who
    <3>2. job[j].who \in People
      BY <1>1, <2>1, <2>3 DEF Typed, Shaped, CreateUser, Granting
    <3>3. account'[job[j].who].perms = Given(j)
      BY <2>1, <3>1, <3>2 DEF Typed, TypeOK
    <3> QED
      BY <2>2, <3>3
  <2>4. CASE SaveUser(j) \/ ManageUser(j)
    <3>1. job[j].at = "account" /\ Save(j)
      BY <1>1, <2>4 DEF SaveUser, ManageUser, Refused
    <3>2. account[job[j].who] # None
          /\ account'[job[j].who].perms \in {Given(j), account[job[j].who].perms}
      BY <2>1, <3>1, SavedTyped
    <3> QED
      BY <2>2, <3>2
  <2> QED
    BY <1>1, <2>1, <2>3, <2>4 DEF Step, PromoteLead, SwitchLeadOn, LoadClub, SaveClub, FindUser, Join
<1> HIDE DEF Grants
<1>2. Inv /\ [ClubsNext]_clubVars =>
        [\A j \in Jobs :
            (job[j].at \in {"create", "account"} /\ job'[j].at # job[j].at /\ account' # account)
               => Grants(j)]_clubVars
  BY <1>1
<1>3. ClubsSpec => [][\A j \in Jobs :
            (job[j].at \in {"create", "account"} /\ job'[j].at # job[j].at /\ account' # account)
               => Grants(j)]_clubVars
  BY <1>2, Inductive, PTL DEF ClubsSpec
<1> QED
  BY <1>3 DEF Grants, LeadsGrantWhatTheyHold
====
