---- MODULE AccountsProofs ----
(***************************************************************************)
(* Proofs about PortalUsers and the page over it, for every set of members *)
(* and of concurrent requests, and any number of accounts.                 *)
(***************************************************************************)
EXTENDS UsersPage, TLAPS

-----------------------------------------------------------------------------
(* What a client may ask for is bounded by Asks in the runs, and by what   *)
(* the forms can say on the page.  Here it is anything.                    *)

AnyRequest(j) ==
    \/ \E by \in Accounts, m \in Members, ask \in Ask : Promote(j, by, m, ask)
    \/ \E by \in Accounts, a \in Accounts, ask \in Ask : Update(j, by, a, ask)
    \/ \E by \in Accounts, a \in Accounts : Delete(j, by, a)
    \/ \E a \in Accounts, l \in mailed : UseLink(j, a, l)

AnyNext ==
    \/ \E j \in Jobs : AnyRequest(j) \/ Step(j) \/ Fail(j)
    \/ \E a \in Accounts : Login(a)
    \/ SessionEnds
    \/ LinkExpires
    \/ Crash

-----------------------------------------------------------------------------
(* Types.                                                                  *)

\* Which kinds of request reach which step, and what they carry there.
Shaped(r) ==
    /\ r \in Job
    /\ r.at = "rest" => r = Rest
    /\ r.at \in {"auth", "member", "existing", "create", "load", "save", "find", "drop", "mail"}
          => r.by \in Accounts
    /\ r.at = "auth" => r.kind \in {"promote", "update", "delete"}
    /\ r.at \in {"member", "existing", "create"} => r.kind = "promote"
    /\ r.at \in {"load", "save"} => r.kind = "update"
    /\ r.at \in {"find", "drop"} => r.kind = "delete"
    /\ r.at \in {"open", "set"} => r.by = None /\ r.kind = "password"
    /\ r.at \in {"load", "save", "find", "drop", "mail", "open", "set"} => r.target \in Accounts
    /\ r.at = "auth" /\ r.kind # "promote" => r.target \in Accounts
    /\ r.at \in {"member", "existing", "create"} \/ (r.at = "auth" /\ r.kind = "promote")
          => r.member \in Members /\ r.target = None
    /\ r.at \in {"save", "drop"} => r.target # Root

\* A link that a request is about was issued.
Typed ==
    /\ TypeOK
    /\ \A j \in Jobs : /\ Shaped(job[j])
                       /\ job[j].at \in {"mail", "open", "set"} => job[j].link \in Links

LEMMA RestIsShaped == Shaped(Rest) /\ Rest.at = "rest" /\ Rest.target = None /\ Rest.by = None
  BY DEF Shaped, Rest, Job, Steps, Kinds, NoAsk, Unread, Ask

LEMMA RootIsAccount == Root \in Accounts
  BY BoundsAssumption DEF Root, Accounts

\* A job that becomes r.
LEMMA OneJobMoves ==
    ASSUME Typed, NEW j \in Jobs, NEW r, Shaped(r), job' = [job EXCEPT ![j] = r],
           r.at \in {"mail", "open", "set"} => r.link \in Links',
           Links \subseteq Links'
    PROVE  /\ job' \in [Jobs -> Job]
           /\ \A k \in Jobs : /\ Shaped(job'[k])
                              /\ job'[k].at \in {"mail", "open", "set"} => job'[k].link \in Links'
  BY DEF Typed, TypeOK, Shaped

LEMMA DecideTyped ==
    ASSUME Typed, NEW j \in Jobs, NEW ok, NEW to, Decide(j, ok, to),
           ok => Shaped([job[j] EXCEPT !.at = to]),
           ok /\ to \in {"mail", "open", "set"} => job[j].link \in Links
    PROVE  Typed'
<1> DEFINE r == IF ok THEN [job[j] EXCEPT !.at = to] ELSE Rest
<1>1. job' = [job EXCEPT ![j] = r]
  BY DEF Decide, Move, Finish, Typed, TypeOK
<1>2. Shaped(r)
  BY RestIsShaped
<1>3. Links' = Links
  BY DEF Decide, Links
<1>4. r.at \in {"mail", "open", "set"} => r.link \in Links
  <2>1. job[j] \in Job
    BY DEF Typed, TypeOK
  <2> QED
    BY <2>1, RestIsShaped DEF Job
<1> HIDE DEF r
<1>5. /\ job' \in [Jobs -> Job]
      /\ \A k \in Jobs : /\ Shaped(job'[k])
                         /\ job'[k].at \in {"mail", "open", "set"} => job'[k].link \in Links'
  BY <1>1, <1>2, <1>3, <1>4, OneJobMoves
<1> QED
  BY <1>3, <1>5 DEF Decide, Typed, TypeOK, Links

LEMMA ArriveTyped ==
    ASSUME Typed, NEW j \in Jobs, AnyRequest(j)
    PROVE  Typed'
<1>1. ASSUME NEW r, Shaped(r), r.at \in {"mail", "open", "set"} => r.link \in Links, Arrive(j, r)
      PROVE  Typed'
  <2>1. Links' = Links
    BY <1>1 DEF Arrive, Links
  <2>2. /\ job' \in [Jobs -> Job]
        /\ \A k \in Jobs : /\ Shaped(job'[k])
                           /\ job'[k].at \in {"mail", "open", "set"} => job'[k].link \in Links'
    BY <1>1, <2>1, OneJobMoves DEF Arrive
  <2>3. received' \in 0 .. MaxRequests
    BY <1>1, BoundsAssumption DEF Arrive, Typed, TypeOK
  <2>4. disturbed' \subseteq Accounts
    BY <1>1 DEF Arrive, Typed, TypeOK, Shaped, Job
  <2> QED
    BY <1>1, <2>1, <2>2, <2>3, <2>4 DEF Arrive, Typed, TypeOK, Links
<1>2. ASSUME NEW by \in Accounts, NEW m \in Members, NEW ask \in Ask
      PROVE  Shaped([Rest EXCEPT !.at = "auth", !.kind = "promote", !.by = by,
                                 !.member = m, !.ask = ask])
  BY DEF Shaped, Rest, Job, Steps, Kinds, Unread, NoAsk
<1>3. ASSUME NEW by \in Accounts, NEW a \in Accounts, NEW ask \in Ask
      PROVE  Shaped([Rest EXCEPT !.at = "auth", !.kind = "update", !.by = by,
                                 !.target = a, !.ask = ask])
  BY DEF Shaped, Rest, Job, Steps, Kinds, Unread, NoAsk
<1>4. ASSUME NEW by \in Accounts, NEW a \in Accounts
      PROVE  Shaped([Rest EXCEPT !.at = "auth", !.kind = "delete", !.by = by, !.target = a])
  BY DEF Shaped, Rest, Job, Steps, Kinds, Unread, NoAsk, Ask
<1>5. ASSUME NEW a \in Accounts, NEW l \in mailed
      PROVE  /\ Shaped([Rest EXCEPT !.at = "open", !.kind = "password", !.target = a, !.link = l])
             /\ l \in Links
  <2>1. l \in Links /\ l \in Nat
    BY DEF Typed, TypeOK, Links
  <2> QED
    BY <2>1 DEF Shaped, Rest, Job, Steps, Kinds, Unread, NoAsk, Ask
<1> QED
  BY <1>1, <1>2, <1>3, <1>4, <1>5 DEF AnyRequest, Promote, Update, Delete, UseLink, Rest

LEMMA LinksGrow ==
    ASSUME Typed, NEW a \in Accounts
    PROVE  /\ NextLink \in Nat \ {0} /\ NextLink \notin Links
           /\ Append(issued, a) \in Seq(Accounts)
           /\ issued' = Append(issued, a) =>
                 /\ Links' = Links \cup {NextLink}
                 /\ issued'[NextLink] = a
                 /\ \A l \in Links : issued'[l] = issued[l]
                 /\ \A l \in Links : l < NextLink
<1>1. issued \in Seq(Accounts) /\ Len(issued) \in Nat
  BY DEF Typed, TypeOK
<1>2. /\ Append(issued, a) \in Seq(Accounts) /\ Len(Append(issued, a)) = Len(issued) + 1
      /\ Append(issued, a)[Len(issued) + 1] = a
      /\ \A l \in 1 .. Len(issued) : Append(issued, a)[l] = issued[l]
  BY <1>1
<1> QED
  BY <1>1, <1>2 DEF NextLink, Links

LEMMA FinishTyped ==
    ASSUME Typed, NEW j \in Jobs, Finish(j), UNCHANGED issued
    PROVE  /\ job' \in [Jobs -> Job] /\ Links' = Links
           /\ \A k \in Jobs : /\ Shaped(job'[k])
                              /\ job'[k].at \in {"mail", "open", "set"} => job'[k].link \in Links'
<1>1. Links' = Links
  BY DEF Links
<1> QED
  BY <1>1, RestIsShaped, OneJobMoves DEF Finish

LEMMA OneDocTyped ==
    ASSUME Typed, NEW a, NEW doc \in Account \cup {None}, Write([users EXCEPT ![a] = doc])
    PROVE  users' \in [Accounts -> Account \cup {None}] /\ late' \subseteq Jobs
  BY DEF Write, Typed, TypeOK

\* What Create and Save write is an account.
LEMMA CreatedForTyped ==
    ASSUME Typed, NEW j \in Jobs, job[j].at = "create", NEW access \in {"on", "off"}
    PROVE  CreatedFor(j, access) \in Account
<1>1. job[j] \in Job /\ job[j].member \in Members /\ job[j].ask \in Ask
  BY DEF Typed, TypeOK, Shaped, Job
<1>2. NextLink \in Nat
  BY LinksGrow, RootIsAccount
<1> QED
  BY <1>1, <1>2 DEF CreatedFor, Account, Ask

LEMMA GrantedTyped ==
    ASSUME NEW ask \in Ask
    PROVE  Granted(ask) \subseteq {"on", "off"}
  BY DEF Granted, Ask

\* The new contents of a saved document, one field after the other.
LEMMA SavedIs ==
    ASSUME Typed, NEW j \in Jobs, job[j].at = "save", Exists(Target(j))
    PROVE  LET old == job[j].read
               ask == job[j].ask
               doc == users[Target(j)]
               access == IF ask.access = "keep" THEN old.access ELSE ask.access
           IN  /\ Target(j) \in Accounts /\ Target(j) # Root /\ doc \in Account
               /\ old.access \in {"on", "off"} /\ access \in {"on", "off"}
               /\ SwitchedOn(j) <=> (old.access = "off" /\ access = "on")
               /\ Conflict(j) <=> (ask.perms # old.perms /\ doc.version # old.version)
               /\ Saved(j) \in Account
               /\ Saved(j).member = doc.member /\ Saved(j).password = doc.password
               /\ Saved(j).role = IF ask.role # old.role THEN ask.role ELSE doc.role
               /\ Saved(j).perms = IF ask.perms # old.perms THEN ask.perms ELSE doc.perms
               /\ Saved(j).version = IF ask.perms # old.perms THEN doc.version + 1 ELSE doc.version
               /\ Saved(j).access = IF access # old.access THEN access ELSE doc.access
               /\ Saved(j).link = IF SwitchedOn(j) THEN NextLink ELSE doc.link
               /\ Saved(j).live = IF SwitchedOn(j) THEN TRUE ELSE doc.live
<1>1. job[j] \in Job /\ Target(j) \in Accounts /\ Target(j) # Root
  BY DEF Typed, TypeOK, Shaped, Target
<1>2. users[Target(j)] \in Account /\ job[j].ask \in Ask
      /\ job[j].read \in [role : {"admin", "other"}, perms : SUBSET Permissions,
                          access : {"on", "off"}, version : Nat]
  BY <1>1 DEF Typed, TypeOK, Exists, Job
<1>3. NextLink \in Nat
  BY LinksGrow, RootIsAccount
<1>4. Wanted(j) = [role |-> job[j].ask.role, perms |-> job[j].ask.perms,
                   access |-> IF job[j].ask.access = "keep" THEN job[j].read.access
                              ELSE job[j].ask.access]
  BY <1>2 DEF Wanted, Ask
<1>5. SwitchedOn(j) \in BOOLEAN
  BY DEF SwitchedOn
<1> DEFINE old == job[j].read
           ask == job[j].ask
           doc == users[Target(j)]
           access == IF ask.access = "keep" THEN old.access ELSE ask.access
<1> DEFINE role == IF ask.role # old.role THEN ask.role ELSE doc.role
           perms == IF ask.perms # old.perms THEN ask.perms ELSE doc.perms
           version == IF ask.perms # old.perms THEN doc.version + 1 ELSE doc.version
           acc == IF access # old.access THEN access ELSE doc.access
           link == IF SwitchedOn(j) THEN NextLink ELSE doc.link
           live == IF SwitchedOn(j) THEN TRUE ELSE doc.live
<1>6. Saved(j) = [doc EXCEPT !.role = role, !.perms = perms, !.version = version,
                             !.access = acc, !.link = link, !.live = live]
  <2>1. Wanted(j).role = ask.role /\ Wanted(j).perms = ask.perms /\ Wanted(j).access = access
    BY <1>4
  <2> QED
    BY <2>1, Zenon DEF Saved
<1>7. access \in {"on", "off"} /\ old.access \in {"on", "off"}
  BY <1>2 DEF Ask
<1>8. /\ role \in {"admin", "other"} /\ perms \in SUBSET Permissions /\ acc \in {"on", "off"}
      /\ version \in Nat /\ link \in Nat /\ live \in BOOLEAN
  <2>1. role \in {"admin", "other"} /\ perms \in SUBSET Permissions /\ acc \in {"on", "off"}
    BY <1>2, <1>7 DEF Account, Ask
  <2>2. version \in Nat /\ link \in Nat
    BY <1>2, <1>3 DEF Account
  <2>3. live \in BOOLEAN
    BY <1>2, <1>5 DEF Account
  <2> QED
    BY <2>1, <2>2, <2>3
<1>10. /\ Saved(j) \in Account
       /\ Saved(j).member = doc.member /\ Saved(j).role = role /\ Saved(j).perms = perms
       /\ Saved(j).access = acc /\ Saved(j).password = doc.password /\ Saved(j).link = link
       /\ Saved(j).live = live /\ Saved(j).version = version
  <2>1. doc \in Account
    BY <1>2
  <2> HIDE DEF role, perms, version, acc, link, live, doc
  <2> QED
    BY <1>6, <1>8, <2>1 DEF Account
<1>9. /\ SwitchedOn(j) <=> (old.access = "off" /\ access = "on")
      /\ Conflict(j) <=> (ask.perms # old.perms /\ doc.version # old.version)
  BY <1>4 DEF SwitchedOn, Conflict
<1> QED
  BY <1>1, <1>2, <1>7, <1>9, <1>10

\* Every step that reads and goes on, or gives up.
Reads(j) ==
    \/ Authorise(j) \/ FindMember(j) \/ FindExisting(j) \/ CreateTwice(j) \/ Load(j)
    \/ SaveRefused(j) \/ FindToDrop(j) \/ OpenLink(j) \/ SetPasswordOfNobody(j) \/ Fail(j)

\* What a request has become when a read lets it go on.
MovesTo(j, r) ==
    /\ Shaped(r) /\ r.at \notin {"rest", "auth", "open", "mail"}
    /\ r.kind = job[j].kind /\ r.by = job[j].by /\ r.target = job[j].target
    /\ r.member = job[j].member /\ r.ask = job[j].ask /\ r.link = job[j].link
    /\ r.at = "set" <=> job[j].at = "open"
    /\ r.at = "save" <=> job[j].at = "load"
    /\ job[j].at = "auth" => Can(users, r.by)
    /\ r.at = "set" => Accepts(r.target, r.link)
    /\ r.at = "save" => /\ r.target # Root /\ Exists(r.target)
                        /\ r.read = ReadOf(users[r.target])
    /\ r.at \in {"drop", "create"} => job[j].at \in {"find", "existing"}

\* A read changes its own request, and nothing else.
LEMMA ReadIs ==
    ASSUME Typed, NEW j \in Jobs, Reads(j)
    PROVE  /\ UNCHANGED <<users, created, issued, mailed, sessions, received, used, late,
                          disturbed, unsent>>
           /\ job[j].at # "rest"
           /\ \E r : job' = [job EXCEPT ![j] = r] /\ (r = Rest \/ MovesTo(j, r))
<1>1. job[j] \in Job /\ Shaped(job[j]) /\ job \in [Jobs -> Job]
  BY DEF Typed, TypeOK
<1>2. Shaped(Rest) /\ (Finish(j) => job' = [job EXCEPT ![j] = Rest])
  BY RestIsShaped DEF Finish
<1>3. ASSUME NEW ok, NEW to \in Steps, Decide(j, ok, to)
      PROVE  \/ job' = [job EXCEPT ![j] = Rest]
             \/ /\ ok /\ job' = [job EXCEPT ![j] = [job[j] EXCEPT !.at = to]]
                /\ [job[j] EXCEPT !.at = to].at = to
                /\ [job[j] EXCEPT !.at = to].kind = job[j].kind
                /\ [job[j] EXCEPT !.at = to].by = job[j].by
                /\ [job[j] EXCEPT !.at = to].target = job[j].target
                /\ [job[j] EXCEPT !.at = to].member = job[j].member
                /\ [job[j] EXCEPT !.at = to].ask = job[j].ask
                /\ [job[j] EXCEPT !.at = to].link = job[j].link
                /\ [job[j] EXCEPT !.at = to].read = job[j].read
                /\ [job[j] EXCEPT !.at = to] \in Job
  BY <1>1, <1>3 DEF Decide, Move, Finish, Job
<1>4. CASE Authorise(j)
  <2> DEFINE r == [job[j] EXCEPT !.at = FirstStep(job[j].kind)]
  <2>1. FirstStep(job[j].kind) \in Steps /\ job[j].kind \in {"promote", "update", "delete"}
    BY <1>1, <1>4 DEF Authorise, Shaped, FirstStep, Steps
  <2>2. Decide(j, Can(users, job[j].by), FirstStep(job[j].kind))
    BY <1>4 DEF Authorise
  <2>3. ASSUME job' # [job EXCEPT ![j] = Rest]
        PROVE  job' = [job EXCEPT ![j] = r] /\ MovesTo(j, r)
    BY <1>1, <1>3, <1>4, <2>1, <2>2, <2>3 DEF Authorise, Shaped, FirstStep, MovesTo
  <2> HIDE DEF r
  <2> QED
    BY <1>2, <1>4, <2>2, <2>3 DEF Authorise, Decide
<1>5. CASE FindMember(j)
  <2>1. PICK found \in BOOLEAN : Decide(j, found, "existing")
    BY <1>5 DEF FindMember
  <2> DEFINE r == [job[j] EXCEPT !.at = "existing"]
  <2>2. ASSUME job' # [job EXCEPT ![j] = Rest]
        PROVE  job' = [job EXCEPT ![j] = r] /\ MovesTo(j, r)
    BY <1>1, <1>3, <1>5, <2>1, <2>2 DEF FindMember, Shaped, Steps, MovesTo
  <2> HIDE DEF r
  <2> QED
    BY <1>2, <1>5, <2>1, <2>2 DEF FindMember, Decide
<1>6. CASE FindExisting(j)
  <2> DEFINE r == [job[j] EXCEPT !.at = "create"]
  <2>1. ASSUME job' # [job EXCEPT ![j] = Rest]
        PROVE  job' = [job EXCEPT ![j] = r] /\ MovesTo(j, r)
    BY <1>1, <1>3, <1>6, <2>1 DEF FindExisting, Shaped, Steps, MovesTo
  <2> HIDE DEF r
  <2> QED
    BY <1>2, <1>6, <2>1 DEF FindExisting, Decide
<1>7. CASE CreateTwice(j) \/ SaveRefused(j) \/ SetPasswordOfNobody(j) \/ Fail(j)
  BY <1>2, <1>7 DEF CreateTwice, SaveRefused, SetPasswordOfNobody, Fail, Decide, Finish
<1>8. CASE Load(j)
  <2> DEFINE r == [job[j] EXCEPT !.at = "save", !.read = ReadOf(users[Target(j)])]
  <2>1. CASE Exists(Target(j)) /\ Target(j) # Root
    <3>1. users[Target(j)] \in Account
      BY <1>1, <1>8, <2>1 DEF Load, Exists, Target, Shaped, Typed, TypeOK
    <3>2. ReadOf(users[Target(j)]) \in [role : {"admin", "other"}, perms : SUBSET Permissions,
                                        access : {"on", "off"}, version : Nat]
      BY <3>1 DEF ReadOf, Account
    <3>3. r \in Job /\ r.at = "save" /\ r.read = ReadOf(users[Target(j)])
          /\ r.kind = job[j].kind /\ r.by = job[j].by /\ r.target = job[j].target
          /\ r.member = job[j].member /\ r.ask = job[j].ask /\ r.link = job[j].link
      BY <1>1, <3>2 DEF Job, Steps
    <3>4. job' = [job EXCEPT ![j] = r]
      BY <1>1, <1>8, <2>1 DEF Load
    <3> HIDE DEF r
    <3>5. MovesTo(j, r)
      BY <1>1, <1>8, <2>1, <3>3 DEF Load, Shaped, Target, MovesTo
    <3> QED
      BY <1>8, <3>4, <3>5 DEF Load
  <2>2. CASE ~(Exists(Target(j)) /\ Target(j) # Root)
    BY <1>2, <1>8, <2>2 DEF Load, Finish
  <2> QED
    BY <2>1, <2>2
<1>9. CASE FindToDrop(j)
  <2> DEFINE r == [job[j] EXCEPT !.at = "drop"]
  <2>1. ASSUME job' # [job EXCEPT ![j] = Rest]
        PROVE  job' = [job EXCEPT ![j] = r] /\ MovesTo(j, r)
    BY <1>1, <1>3, <1>9, <2>1 DEF FindToDrop, Shaped, Steps, Target, MovesTo
  <2> HIDE DEF r
  <2> QED
    BY <1>2, <1>9, <2>1 DEF FindToDrop, Decide
<1>11. CASE OpenLink(j)
  <2> DEFINE r == [job[j] EXCEPT !.at = "set"]
  <2>1. ASSUME job' # [job EXCEPT ![j] = Rest]
        PROVE  job' = [job EXCEPT ![j] = r] /\ MovesTo(j, r)
    BY <1>1, <1>3, <1>11, <2>1 DEF OpenLink, Shaped, Steps, Target, MovesTo
  <2> HIDE DEF r
  <2> QED
    BY <1>2, <1>11, <2>1 DEF OpenLink, Decide
<1> QED
  BY <1>4, <1>5, <1>6, <1>7, <1>8, <1>9, <1>11 DEF Reads

LEMMA ReadTyped ==
    ASSUME Typed, NEW j \in Jobs, Reads(j)
    PROVE  Typed'
<1>1. PICK r : job' = [job EXCEPT ![j] = r] /\ (r = Rest \/ MovesTo(j, r))
  BY ReadIs
<1>2. issued' = issued /\ Links' = Links
  BY ReadIs DEF Links
<1>3. r.at \in {"mail", "open", "set"} => r.link \in Links'
  BY <1>1, <1>2, RestIsShaped DEF MovesTo, Typed
<1>4. /\ job' \in [Jobs -> Job]
      /\ \A k \in Jobs : /\ Shaped(job'[k])
                         /\ job'[k].at \in {"mail", "open", "set"} => job'[k].link \in Links'
  BY <1>1, <1>2, <1>3, RestIsShaped, OneJobMoves DEF MovesTo
<1> QED
  BY <1>2, <1>4, ReadIs DEF Typed, TypeOK

\* Create, Save: the request that mails what was issued.
LEMMA MailsTyped ==
    ASSUME Typed, NEW j \in Jobs, NEW a \in Accounts, job[j].by \in Accounts,
           issued' = Append(issued, a),
           job' = [job EXCEPT ![j].at = "mail", ![j].target = a, ![j].link = NextLink]
           \/ (job' = [job EXCEPT ![j].at = "mail", ![j].link = NextLink] /\ Target(j) = a)
    PROVE  /\ job' \in [Jobs -> Job] /\ issued' \in Seq(Accounts)
           /\ Links \subseteq Links'
           /\ job'[j].at = "mail" /\ job'[j].target = a /\ job'[j].link = NextLink
           /\ job'[j].by = job[j].by
           /\ \A k \in Jobs \ {j} : job'[k] = job[k]
           /\ \A k \in Jobs : /\ Shaped(job'[k])
                              /\ job'[k].at \in {"mail", "open", "set"} => job'[k].link \in Links'
<1>1. job[j] \in Job /\ job \in [Jobs -> Job]
  BY DEF Typed, TypeOK
<1>2. /\ NextLink \in Nat /\ Links' = Links \cup {NextLink} /\ issued' \in Seq(Accounts)
  BY LinksGrow
<1>3. job'[j] \in Job /\ job'[j].at = "mail" /\ job'[j].target = a /\ job'[j].link = NextLink
      /\ job'[j].by = job[j].by
  <2>1. CASE job' = [job EXCEPT ![j].at = "mail", ![j].target = a, ![j].link = NextLink]
    BY <1>1, <1>2, <2>1 DEF Job, Steps
  <2>2. CASE job' = [job EXCEPT ![j].at = "mail", ![j].link = NextLink] /\ Target(j) = a
    BY <1>1, <1>2, <2>2 DEF Job, Steps, Target
  <2> QED
    BY <2>1, <2>2
<1>4. Shaped(job'[j])
  BY <1>3 DEF Shaped
<1>5. job' \in [Jobs -> Job] /\ \A k \in Jobs \ {j} : job'[k] = job[k]
  BY <1>1, <1>3
<1> QED
  BY <1>2, <1>3, <1>4, <1>5 DEF Typed

\* What a step that writes an account does to the request.
Mails(j, a) ==
    /\ issued' = Append(issued, a)
    /\ job' = [job EXCEPT ![j].at = "mail", ![j].target = a, ![j].link = NextLink]
       \/ (job' = [job EXCEPT ![j].at = "mail", ![j].link = NextLink] /\ Target(j) = a)

LEMMA CreateTyped ==
    ASSUME Typed, NEW j \in Jobs, Create(j)
    PROVE  Typed' /\ created' = created + 1 /\ created' \in Accounts /\ created' # Root
<1>1. created' \in Accounts /\ created' = created + 1 /\ created' # Root
  BY BoundsAssumption DEF Create, Typed, TypeOK, Accounts, Root
<1>2. job[j] \in Job /\ Shaped(job[j]) /\ job[j].at = "create"
  BY DEF Create, Typed, TypeOK
<1>3. PICK access \in {"on", "off"} :
          /\ Write([users EXCEPT ![created'] = CreatedFor(j, access)])
          /\ Mails(j, created') \/ (Finish(j) /\ UNCHANGED issued)
  <2>1. Granted(job[j].ask) \subseteq {"on", "off"}
    BY <1>2, GrantedTyped DEF Job
  <2> QED
    BY <2>1 DEF Create, Mails
<1>4. users' \in [Accounts -> Account \cup {None}] /\ late' \subseteq Jobs
  <2>1. PICK doc \in Account : Write([users EXCEPT ![created'] = doc])
    BY <1>2, <1>3, CreatedForTyped
  <2> QED
    BY <2>1, OneDocTyped
<1>5. /\ job' \in [Jobs -> Job] /\ issued' \in Seq(Accounts) /\ Links \subseteq Links'
      /\ \A k \in Jobs : /\ Shaped(job'[k])
                         /\ job'[k].at \in {"mail", "open", "set"} => job'[k].link \in Links'
  <2>1. job[j].by \in Accounts
    BY <1>2 DEF Shaped
  <2> QED
    BY <1>1, <1>3, <2>1, FinishTyped, MailsTyped DEF Mails, Typed, TypeOK
<1>6. UNCHANGED <<mailed, sessions, received, used, disturbed, unsent>>
  BY DEF Create
<1> QED
  BY <1>1, <1>4, <1>5, <1>6 DEF Typed, TypeOK

LEMMA SaveTyped ==
    ASSUME Typed, NEW j \in Jobs, Save(j)
    PROVE  Typed'
<1>1. job[j] \in Job /\ Shaped(job[j]) /\ job[j].at = "save" /\ Target(j) \in Accounts
      /\ job[j].by \in Accounts
  BY DEF Save, Typed, TypeOK, Shaped, Target
<1>2. users' \in [Accounts -> Account \cup {None}] /\ late' \subseteq Jobs
  <2>1. Saved(j) \in Account
    BY <1>1, SavedIs DEF Save
  <2>2. Write([users EXCEPT ![Target(j)] = Saved(j)])
    BY DEF Save
  <2> HIDE DEF Saved
  <2> QED
    BY <2>1, <2>2, OneDocTyped
<1>3. Mails(j, Target(j)) \/ (Finish(j) /\ UNCHANGED issued)
  BY DEF Save, Mails
<1>4. /\ job' \in [Jobs -> Job] /\ issued' \in Seq(Accounts) /\ Links \subseteq Links'
      /\ \A k \in Jobs : /\ Shaped(job'[k])
                         /\ job'[k].at \in {"mail", "open", "set"} => job'[k].link \in Links'
  BY <1>1, <1>3, FinishTyped, MailsTyped DEF Mails, Typed, TypeOK
<1> QED
  BY <1>2, <1>4 DEF Save, Typed, TypeOK

LEMMA EndTyped ==
    ASSUME Typed, NEW j \in Jobs, Mail(j) \/ Drop(j) \/ SetPassword(j)
    PROVE  Typed'
<1>1. job[j] \in Job /\ Shaped(job[j]) /\ Target(j) \in Accounts
  BY DEF Mail, Drop, SetPassword, Typed, TypeOK, Shaped, Target
<1>2. Finish(j) /\ UNCHANGED <<created, issued, sessions, received, disturbed>>
  BY DEF Mail, Drop, SetPassword
<1>3. /\ job' \in [Jobs -> Job] /\ Links' = Links
      /\ \A k \in Jobs : /\ Shaped(job'[k])
                         /\ job'[k].at \in {"mail", "open", "set"} => job'[k].link \in Links'
  BY <1>2, FinishTyped
<1>4. users' \in [Accounts -> Account \cup {None}] /\ late' \subseteq Jobs
  <2>1. CASE Mail(j)
    BY <2>1 DEF Mail, Typed, TypeOK
  <2>2. CASE Drop(j)
    BY <2>2, OneDocTyped DEF Drop
  <2>3. CASE SetPassword(j)
    <3>1. users[Target(j)] \in Account
      BY <1>1, <2>3 DEF SetPassword, Exists, Typed, TypeOK
    <3> DEFINE doc == [users[Target(j)] EXCEPT !.password = "chosen", !.link = 0, !.live = FALSE]
    <3>2. doc \in Account
      BY <3>1 DEF Account
    <3>3. Write([users EXCEPT ![Target(j)] = doc])
      BY <1>1, <2>3 DEF SetPassword, Typed, TypeOK
    <3> HIDE DEF doc
    <3> QED
      BY <3>2, <3>3, OneDocTyped
  <2> QED
    BY <2>1, <2>2, <2>3
<1>5. job[j].link \in Links \/ Drop(j)
  BY DEF Mail, SetPassword, Typed
<1>6. mailed' \subseteq Links /\ used' \subseteq Links /\ unsent' \subseteq Accounts
  BY <1>1, <1>5 DEF Mail, Drop, SetPassword, Typed, TypeOK
<1> QED
  BY <1>2, <1>3, <1>4, <1>6 DEF Typed, TypeOK

LEMMA CrashTyped ==
    ASSUME Typed, Crash
    PROVE  Typed'
<1>1. job' = [j \in Jobs |-> Rest] /\ disturbed' \subseteq Accounts /\ Links' = Links
      /\ UNCHANGED <<users, created, issued, mailed, sessions, received, used, late, unsent>>
  BY DEF Crash, Typed, TypeOK, Links
<1>2. Rest \in Job
  BY RestIsShaped DEF Shaped
<1> QED
  BY <1>1, <1>2, RestIsShaped DEF Typed, TypeOK

LEMMA StepIs == ASSUME NEW j \in Jobs, Step(j) \/ Fail(j)
                PROVE  Reads(j) \/ Create(j) \/ Save(j) \/ Mail(j) \/ Drop(j) \/ SetPassword(j)
  BY DEF Step, Reads

LEMMA TypedInductive == Typed /\ [AnyNext]_vars => Typed'
<1> SUFFICES ASSUME Typed, [AnyNext]_vars PROVE Typed'
  OBVIOUS
<1>1. ASSUME NEW j \in Jobs, Step(j) \/ Fail(j) PROVE Typed'
  BY <1>1, StepIs, ReadTyped, CreateTyped, SaveTyped, EndTyped
<1>2. ASSUME NEW a \in Accounts, Login(a) PROVE Typed'
  BY <1>2 DEF Login, Typed, TypeOK, Links
<1>3. CASE SessionEnds
  BY <1>3 DEF SessionEnds, Typed, TypeOK, Links
<1>4. CASE LinkExpires
  <2>1. PICK a \in Accounts : Exists(a) /\ users' = [users EXCEPT ![a].live = FALSE]
    BY <1>4 DEF LinkExpires
  <2>2. users[a] \in Account
    BY <2>1 DEF Exists, Typed, TypeOK
  <2>3. users' \in [Accounts -> Account \cup {None}]
    BY <2>1, <2>2 DEF Typed, TypeOK, Account
  <2> QED
    BY <1>4, <2>3 DEF LinkExpires, Typed, TypeOK, Links
<1>5. CASE UNCHANGED vars
  BY <1>5 DEF vars, Typed, TypeOK, Links
<1> QED
  BY <1>1, <1>2, <1>3, <1>4, <1>5, ArriveTyped, CrashTyped DEF AnyNext

LEMMA TypedInitially == Init => Typed
<1>1. Seeded \in Account
  BY DEF Seeded, Account, Permissions
<1>2. <<>> \in Seq(Accounts) /\ Len(<<>>) = 0
  OBVIOUS
<1>3. Init => TypeOK
  <2> SUFFICES ASSUME Init PROVE TypeOK
    OBVIOUS
  <2>1. users \in [Accounts -> Account \cup {None}] /\ created \in Accounts
    BY <1>1, RootIsAccount DEF Init, Root
  <2>2. job \in [Jobs -> Job]
    BY RestIsShaped DEF Init, Shaped
  <2>3. received \in 0 .. MaxRequests
    BY BoundsAssumption DEF Init
  <2> QED
    BY <1>2, <2>1, <2>2, <2>3 DEF Init, TypeOK
<1> QED
  BY <1>3, RestIsShaped DEF Init, Typed

\* What the runs ask for, and what the page can, is something.
LEMMA NextIsAny == Typed /\ [Next]_vars => [AnyNext]_vars
<1> SUFFICES ASSUME Typed, Next PROVE AnyNext
  OBVIOUS
<1>1. ASSUME NEW j \in Jobs, Request(j) PROVE AnyRequest(j)
  <2>1. sessions \subseteq Accounts
    BY DEF Typed, TypeOK
  <2> QED
    BY <1>1, <2>1, AsksAssumption DEF Request, AnyRequest
<1> QED
  BY <1>1 DEF Next, AnyNext

\* Every variable keeps its type, whatever is asked for and however it overlaps.
THEOREM TypeCorrect == Spec => []TypeOK
<1>1. Typed => TypeOK
  BY DEF Typed
<1> QED
  BY <1>1, TypedInitially, TypedInductive, NextIsAny, PTL DEF Spec

\* What the other steps do to the requests.
Writes(j) == Create(j) \/ Save(j) \/ Mail(j) \/ Drop(j) \/ SetPassword(j)

LEMMA WriteIs ==
    ASSUME Typed, NEW j \in Jobs, Writes(j)
    PROVE  /\ job[j].at \in {"create", "save", "mail", "drop", "set"}
           /\ \A k \in Jobs \ {j} : job'[k] = job[k]
           /\ UNCHANGED <<sessions, received, disturbed>>
           /\ \/ job'[j] = Rest /\ issued' = issued
              \/ /\ job'[j].at = "mail" /\ job'[j].by = job[j].by /\ job'[j].link = NextLink
                 /\ job'[j].target \in Accounts /\ issued' = Append(issued, job'[j].target)
                 /\ \/ Create(j) /\ job'[j].target = created'
                    \/ Save(j) /\ SwitchedOn(j) /\ job'[j].target = Target(j)
<1>1. job[j] \in Job /\ Shaped(job[j]) /\ job \in [Jobs -> Job]
  BY DEF Typed, TypeOK
<1>2. CASE Mail(j) \/ Drop(j) \/ SetPassword(j)
  BY <1>1, <1>2 DEF Mail, Drop, SetPassword, Finish
<1>3. CASE Create(j)
  <2>1. created' \in Accounts /\ job[j].by \in Accounts /\ job[j].at = "create"
    BY <1>1, <1>3, CreateTyped DEF Create, Shaped
  <2>2. UNCHANGED <<sessions, received, disturbed>>
    BY <1>3 DEF Create
  <2>3. Mails(j, created') \/ (Finish(j) /\ UNCHANGED issued)
    BY <1>3 DEF Create, Mails
  <2>4. CASE Mails(j, created')
    <3>1. /\ job'[j].at = "mail" /\ job'[j].target = created' /\ job'[j].link = NextLink
          /\ job'[j].by = job[j].by /\ \A k \in Jobs \ {j} : job'[k] = job[k]
      BY <2>1, <2>4, MailsTyped DEF Mails
    <3> QED
      BY <1>3, <2>1, <2>2, <2>4, <3>1 DEF Mails
  <2>5. CASE Finish(j) /\ UNCHANGED issued
    BY <1>1, <2>1, <2>2, <2>5 DEF Finish
  <2> QED
    BY <2>3, <2>4, <2>5
<1>4. CASE Save(j)
  <2>1. Target(j) \in Accounts /\ job[j].by \in Accounts /\ job[j].at = "save"
    BY <1>1, <1>4 DEF Save, Shaped, Target
  <2>2. UNCHANGED <<sessions, received, disturbed>>
    BY <1>4 DEF Save
  <2>3. (Mails(j, Target(j)) /\ SwitchedOn(j)) \/ (Finish(j) /\ UNCHANGED issued)
    BY <1>4 DEF Save, Mails
  <2>4. CASE Mails(j, Target(j)) /\ SwitchedOn(j)
    <3>1. /\ job'[j].at = "mail" /\ job'[j].target = Target(j) /\ job'[j].link = NextLink
          /\ job'[j].by = job[j].by /\ \A k \in Jobs \ {j} : job'[k] = job[k]
      BY <2>1, <2>4, MailsTyped DEF Mails
    <3> QED
      BY <1>4, <2>1, <2>2, <2>4, <3>1 DEF Mails
  <2>5. CASE Finish(j) /\ UNCHANGED issued
    BY <1>1, <2>1, <2>2, <2>5 DEF Finish
  <2> QED
    BY <2>3, <2>4, <2>5
<1> QED
  BY <1>2, <1>3, <1>4 DEF Writes

LEMMA ReadMoves ==
    ASSUME Typed, NEW j \in Jobs, NEW r, job' = [job EXCEPT ![j] = r]
    PROVE  job'[j] = r /\ \A k \in Jobs \ {j} : job'[k] = job[k]
  BY DEF Typed, TypeOK

\* What a request that comes in is.
LEMMA ArriveIs ==
    ASSUME Typed, NEW j \in Jobs, AnyRequest(j)
    PROVE  /\ job[j] = Rest /\ \A k \in Jobs \ {j} : job'[k] = job[k]
           /\ UNCHANGED <<users, created, issued, mailed, sessions, used, unsent>>
           /\ late' = late \ {j}
           /\ \/ /\ job'[j].at = "auth" /\ job'[j].target \in Accounts \cup {None}
                 /\ job'[j].by \in Accounts
              \/ /\ job'[j].at = "open" /\ job'[j].target \in Accounts /\ job'[j].by = None
                 /\ job'[j].link \in mailed
           /\ disturbed \subseteq disturbed'
           /\ job'[j].target # None /\ ~Settled(job'[j].target) => job'[j].target \in disturbed'
<1>1. ASSUME NEW r, Arrive(j, r)
      PROVE  /\ job'[j] = r /\ \A k \in Jobs \ {j} : job'[k] = job[k]
             /\ job[j] = Rest
             /\ UNCHANGED <<users, created, issued, mailed, sessions, used, unsent>>
             /\ late' = late \ {j} /\ disturbed \subseteq disturbed'
             /\ r.target # None /\ ~Settled(r.target) => r.target \in disturbed'
  BY <1>1 DEF Arrive, Typed, TypeOK
<1> DEFINE Comes(r) == \/ /\ r.at = "auth" /\ r.target \in Accounts \cup {None}
                          /\ r.by \in Accounts
                       \/ /\ r.at = "open" /\ r.target \in Accounts /\ r.by = None
                          /\ r.link \in mailed
<1>2. ASSUME NEW by \in Accounts, NEW m \in Members, NEW ask \in Ask, Promote(j, by, m, ask)
      PROVE  \E r : Arrive(j, r) /\ Comes(r)
  <2>1. Comes([Rest EXCEPT !.at = "auth", !.kind = "promote", !.by = by,
                           !.member = m, !.ask = ask])
    BY DEF Rest
  <2> QED
    BY <1>2, <2>1 DEF Promote
<1>3. ASSUME NEW by \in Accounts, NEW a \in Accounts, NEW ask \in Ask, Update(j, by, a, ask)
      PROVE  \E r : Arrive(j, r) /\ Comes(r)
  <2>1. Comes([Rest EXCEPT !.at = "auth", !.kind = "update", !.by = by,
                           !.target = a, !.ask = ask])
    BY DEF Rest
  <2> QED
    BY <1>3, <2>1 DEF Update
<1>4. ASSUME NEW by \in Accounts, NEW a \in Accounts, Delete(j, by, a)
      PROVE  \E r : Arrive(j, r) /\ Comes(r)
  <2>1. Comes([Rest EXCEPT !.at = "auth", !.kind = "delete", !.by = by, !.target = a])
    BY DEF Rest
  <2> QED
    BY <1>4, <2>1 DEF Delete
<1>5. ASSUME NEW a \in Accounts, NEW l \in mailed, UseLink(j, a, l)
      PROVE  \E r : Arrive(j, r) /\ Comes(r)
  <2>1. Comes([Rest EXCEPT !.at = "open", !.kind = "password", !.target = a, !.link = l])
    BY DEF Rest
  <2> QED
    BY <1>5, <2>1 DEF UseLink
<1>6. PICK r : Arrive(j, r) /\ Comes(r)
  BY <1>2, <1>3, <1>4, <1>5 DEF AnyRequest
<1> QED
  BY <1>1, <1>6

-----------------------------------------------------------------------------
(* Rights that were lost.                                                  *)

\* A write records whose rights it takes.
LEMMA WriteKeepsLate ==
    ASSUME Typed, RevokedActOnlyLate, NEW j \in Jobs, Writes(j)
    PROVE  RevokedActOnlyLate'
<1> SUFFICES ASSUME NEW k \in Jobs, PastAuth(k)' PROVE Can(users', job'[k].by) \/ k \in late'
  BY DEF RevokedActOnlyLate
<1>1. PastAuth(k) /\ job'[k].by = job[k].by
  BY WriteIs, RestIsShaped DEF PastAuth
<1>2. Can(users, job[k].by) \/ k \in late
  BY <1>1 DEF RevokedActOnlyLate
<1>3. \/ UNCHANGED <<users, late>>
      \/ Write(users')
  BY DEF Writes, Create, Save, Mail, Drop, SetPassword, Write
<1> QED
  BY <1>1, <1>2, <1>3 DEF Write

LEMMA LateInductive == Typed /\ RevokedActOnlyLate /\ [AnyNext]_vars => RevokedActOnlyLate'
<1> SUFFICES ASSUME Typed, RevokedActOnlyLate, [AnyNext]_vars PROVE RevokedActOnlyLate'
  OBVIOUS
<1>1. ASSUME NEW j \in Jobs, Reads(j) PROVE RevokedActOnlyLate'
  <2>1. PICK r : job' = [job EXCEPT ![j] = r] /\ (r = Rest \/ MovesTo(j, r))
    BY <1>1, ReadIs
  <2>2. r = Rest \/ MovesTo(j, r)
    BY <2>1
  <2>3. UNCHANGED <<users, late>> /\ job[j].at # "rest"
    BY <1>1, ReadIs
  <2>4. job'[j] = r /\ \A k \in Jobs \ {j} : job'[k] = job[k]
    BY <2>1, ReadMoves
  <2> QED
    BY <2>2, <2>3, <2>4, RestIsShaped DEF MovesTo, RevokedActOnlyLate, PastAuth
<1>2. ASSUME NEW j \in Jobs, AnyRequest(j) PROVE RevokedActOnlyLate'
  BY <1>2, ArriveIs DEF RevokedActOnlyLate, PastAuth
<1>3. CASE (\E a \in Accounts : Login(a)) \/ SessionEnds \/ UNCHANGED vars
  BY <1>3 DEF Login, SessionEnds, vars, RevokedActOnlyLate, PastAuth
<1>4. CASE LinkExpires
  <2>1. PICK a \in Accounts : Exists(a) /\ users' = [users EXCEPT ![a].live = FALSE]
    BY <1>4 DEF LinkExpires
  <2>2. users[a] \in Account
    BY <2>1 DEF Exists, Typed, TypeOK
  <2>3. ASSUME NEW b \in Accounts, Can(users, b) PROVE Can(users', b)
    BY <2>1, <2>2, <2>3, NoneAssumption DEF Can, MayManage, Account, Typed, TypeOK
  <2>4. \A j \in Jobs : PastAuth(j) => job[j].by \in Accounts
    BY DEF PastAuth, Typed, TypeOK, Job
  <2> QED
    BY <1>4, <2>3, <2>4 DEF LinkExpires, RevokedActOnlyLate, PastAuth
<1>5. CASE Crash
  BY <1>5, RestIsShaped DEF Crash, RevokedActOnlyLate, PastAuth
<1> QED
  BY <1>1, <1>2, <1>3, <1>4, <1>5, StepIs, WriteKeepsLate DEF AnyNext, Writes

\* A request is served on the strength of a right that its sender lost only if it
\* was past requireAuth when the right was lost.
THEOREM RevokedAreServedLate == Spec => []RevokedActOnlyLate
<1>1. Init => RevokedActOnlyLate
  BY RestIsShaped DEF Init, RevokedActOnlyLate, PastAuth
<1> QED
  BY <1>1, TypedInitially, TypedInductive, LateInductive, NextIsAny, PTL DEF Spec

-----------------------------------------------------------------------------
(* What each write does to the accounts.                                   *)

OneAccount(a) == \A b \in Accounts \ {a} : users'[b] = users[b]

LEMMA NoneIsNoAccount == None \notin Account /\ None \notin Accounts
  BY NoneAssumption

LEMMA CreateIs ==
    ASSUME Typed, NEW j \in Jobs, Create(j)
    PROVE  LET new == users'[created']
           IN  /\ created' = created + 1 /\ created' \in Accounts /\ created' # Root
               /\ OneAccount(created') /\ new \in Account /\ new # None
               /\ new.password = "temporary"
               /\ \/ /\ new.link = NextLink /\ new.access = "on"
                     /\ issued' = Append(issued, created')
                     /\ job'[j].at = "mail" /\ job'[j].target = created' /\ job'[j].link = NextLink
                  \/ /\ new.link = 0 /\ new.access = "off" /\ issued' = issued /\ job'[j] = Rest
               /\ UNCHANGED <<mailed, sessions, used, disturbed, unsent>>
<1>1. created' \in Accounts /\ created' = created + 1 /\ created' # Root
  BY CreateTyped
<1>2. PICK access \in Granted(job[j].ask) :
          /\ Write([users EXCEPT ![created'] = CreatedFor(j, access)])
          /\ IF access = "on" THEN Mails(j, created') ELSE Finish(j) /\ UNCHANGED issued
  BY DEF Create, Mails
<1>3. access \in {"on", "off"} /\ job[j].at = "create"
  BY GrantedTyped DEF Create, Typed, TypeOK, Job
<1>4. CreatedFor(j, access) \in Account
  BY <1>3, CreatedForTyped
<1>5. users'[created'] = CreatedFor(j, access) /\ OneAccount(created')
  BY <1>1, <1>2 DEF Write, OneAccount, Typed, TypeOK
<1>6. access = "on" => Mails(j, created')
  BY <1>2
<1>7. access = "off" => Finish(j) /\ issued' = issued
  BY <1>2
<1>8. job[j].by \in Accounts
  BY <1>3 DEF Typed, Shaped
<1>9. access = "on" => job'[j].at = "mail" /\ job'[j].target = created' /\ job'[j].link = NextLink
                       /\ issued' = Append(issued, created')
  BY <1>1, <1>6, <1>8, MailsTyped DEF Mails
<1>10. access = "off" => job'[j] = Rest
  BY <1>7 DEF Finish, Typed, TypeOK
<1>11. UNCHANGED <<mailed, sessions, used, disturbed, unsent>>
  BY DEF Create
<1>12. LET new == users'[created']
       IN  /\ new \in Account /\ new # None /\ new.password = "temporary" /\ new.access = access
           /\ new.link = IF access = "on" THEN NextLink ELSE 0
  BY <1>4, <1>5, NoneIsNoAccount DEF CreatedFor
<1> QED
  BY <1>1, <1>3, <1>5, <1>7, <1>9, <1>10, <1>11, <1>12

LEMMA SaveIs ==
    ASSUME Typed, NEW j \in Jobs, Save(j)
    PROVE  LET old == users[Target(j)]
               new == users'[Target(j)]
           IN  /\ Target(j) \in Accounts /\ Target(j) # Root /\ Exists(Target(j))
               /\ OneAccount(Target(j)) /\ new = Saved(j)
               /\ old \in Account /\ new \in Account /\ new # None
               /\ new.password = old.password
               /\ \/ /\ SwitchedOn(j) /\ new.link = NextLink /\ issued' = Append(issued, Target(j))
                     /\ job'[j].at = "mail" /\ job'[j].target = Target(j) /\ job'[j].link = NextLink
                  \/ /\ ~SwitchedOn(j) /\ new.link = old.link /\ issued' = issued /\ job'[j] = Rest
                     /\ new.access = "on" => old.access = "on"
               /\ old.version <= new.version /\ (old.version = new.version => old.perms = new.perms)
               /\ UNCHANGED <<created, mailed, sessions, used, disturbed, unsent>>
<1>1. job[j].at = "save" /\ Exists(Target(j)) /\ ~Conflict(j)
  BY DEF Save
<1>2. /\ Target(j) \in Accounts /\ Target(j) # Root /\ users[Target(j)] \in Account
      /\ Saved(j) \in Account /\ Saved(j).password = users[Target(j)].password
      /\ Saved(j).link = IF SwitchedOn(j) THEN NextLink ELSE users[Target(j)].link
  BY <1>1, SavedIs
<1>3. /\ users[Target(j)].version <= Saved(j).version
      /\ users[Target(j)].version = Saved(j).version => users[Target(j)].perms = Saved(j).perms
  <2> DEFINE changes == job[j].ask.perms # job[j].read.perms
  <2>1. users[Target(j)].version \in Nat
    BY <1>2 DEF Account
  <2>2. Saved(j).version = IF changes THEN users[Target(j)].version + 1
                                      ELSE users[Target(j)].version
    BY <1>1, SavedIs
  <2>3. ~changes => Saved(j).perms = users[Target(j)].perms
    BY <1>1, SavedIs
  <2> HIDE DEF changes, Saved
  <2> QED
    BY <2>1, <2>2, <2>3
<1>4. ~SwitchedOn(j) /\ Saved(j).access = "on" => users[Target(j)].access = "on"
  BY <1>1, SavedIs
<1>5. users'[Target(j)] = Saved(j) /\ OneAccount(Target(j))
  BY <1>2 DEF Save, Write, OneAccount, Typed, TypeOK
<1>6. IF SwitchedOn(j) THEN Mails(j, Target(j)) ELSE Finish(j) /\ UNCHANGED issued
  BY DEF Save, Mails
<1>7. job[j].by \in Accounts
  BY <1>1 DEF Typed, Shaped
<1>8. SwitchedOn(j) => /\ job'[j].at = "mail" /\ job'[j].target = Target(j)
                       /\ job'[j].link = NextLink /\ issued' = Append(issued, Target(j))
  BY <1>2, <1>6, <1>7, MailsTyped DEF Mails
<1>9. ~SwitchedOn(j) => job'[j] = Rest /\ issued' = issued
  BY <1>6 DEF Finish, Typed, TypeOK
<1>10. UNCHANGED <<created, mailed, sessions, used, disturbed, unsent>>
  BY DEF Save
<1> HIDE DEF Saved
<1> QED
  BY <1>1, <1>2, <1>3, <1>4, <1>5, <1>8, <1>9, <1>10, NoneIsNoAccount

LEMMA DropIs ==
    ASSUME Typed, NEW j \in Jobs, Drop(j)
    PROVE  /\ Target(j) \in Accounts /\ Target(j) # Root
           /\ users'[Target(j)] = None /\ OneAccount(Target(j)) /\ job'[j] = Rest
           /\ UNCHANGED <<created, issued, mailed, sessions, used, disturbed, unsent>>
  BY DEF Drop, Write, Finish, Target, OneAccount, Typed, TypeOK, Shaped

LEMMA SetPasswordIs ==
    ASSUME Typed, NEW j \in Jobs, SetPassword(j)
    PROVE  LET old == users[Target(j)]
               new == users'[Target(j)]
           IN  /\ job[j].at = "set" /\ Target(j) \in Accounts /\ Exists(Target(j))
               /\ OneAccount(Target(j)) /\ job'[j] = Rest
               /\ old \in Account /\ new \in Account /\ new # None
               /\ new.password = "chosen" /\ new.link = 0 /\ new.perms = old.perms
               /\ new.version = old.version /\ new.access = old.access /\ new.role = old.role
               /\ job[j].link \in Links /\ used' = used \cup {job[j].link}
               /\ UNCHANGED <<created, issued, mailed, sessions, disturbed, unsent>>
<1>1. job[j].at = "set" /\ Target(j) \in Accounts /\ Exists(Target(j)) /\ job[j].link \in Links
  BY DEF SetPassword, Target, Typed, Shaped
<1>2. users[Target(j)] \in Account
  BY <1>1 DEF Exists, Typed, TypeOK
<1> DEFINE new == [users[Target(j)] EXCEPT !.password = "chosen", !.link = 0, !.live = FALSE]
<1>3. /\ new \in Account /\ new.password = "chosen" /\ new.link = 0
      /\ new.perms = users[Target(j)].perms /\ new.version = users[Target(j)].version
      /\ new.access = users[Target(j)].access /\ new.role = users[Target(j)].role
  BY <1>2 DEF Account
<1>4. users'[Target(j)] = new /\ OneAccount(Target(j))
  BY <1>1 DEF SetPassword, Write, OneAccount, Typed, TypeOK
<1>5. /\ job'[j] = Rest /\ used' = used \cup {job[j].link}
      /\ UNCHANGED <<created, issued, mailed, sessions, disturbed, unsent>>
  BY DEF SetPassword, Finish, Typed, TypeOK
<1> HIDE DEF new
<1> QED
  BY <1>1, <1>2, <1>3, <1>4, <1>5, NoneIsNoAccount

LEMMA MailIs ==
    ASSUME Typed, NEW j \in Jobs, Mail(j)
    PROVE  /\ job[j].at = "mail" /\ job'[j] = Rest /\ job[j].link \in Links
           /\ \/ mailed' = mailed \cup {job[j].link} /\ unsent' = unsent
              \/ mailed' = mailed /\ unsent' = unsent \cup {Target(j)}
           /\ UNCHANGED <<users, created, issued, sessions, used, disturbed>>
  BY DEF Mail, Finish, Typed, TypeOK

\* A link that expires keeps its number.
LEMMA ExpiryIs ==
    ASSUME Typed, LinkExpires
    PROVE  \E a \in Accounts :
              /\ Exists(a) /\ users[a] \in Account /\ users'[a] # None /\ users'[a] \in Account
              /\ OneAccount(a)
              /\ users'[a].link = users[a].link /\ users'[a].password = users[a].password
              /\ users'[a].access = users[a].access /\ users'[a].role = users[a].role
              /\ users'[a].perms = users[a].perms /\ users'[a].version = users[a].version
              /\ UNCHANGED <<created, issued, mailed, sessions, job, received, used, late,
                             disturbed, unsent>>
<1>1. PICK a \in Accounts : Exists(a) /\ users' = [users EXCEPT ![a].live = FALSE]
  BY DEF LinkExpires
<1>2. users[a] \in Account
  BY <1>1 DEF Exists, Typed, TypeOK
<1>3. users'[a] = [users[a] EXCEPT !.live = FALSE] /\ OneAccount(a)
  BY <1>1 DEF OneAccount, Typed, TypeOK
<1>4. /\ users'[a] \in Account
      /\ users'[a].link = users[a].link /\ users'[a].password = users[a].password
      /\ users'[a].access = users[a].access /\ users'[a].role = users[a].role
      /\ users'[a].perms = users[a].perms /\ users'[a].version = users[a].version
  BY <1>2, <1>3 DEF Account
<1> QED
  BY <1>1, <1>2, <1>3, <1>4, NoneIsNoAccount DEF LinkExpires

-----------------------------------------------------------------------------
(* The steps by what they do to the accounts: most only look.              *)

\* What may have become of request k by a step that writes no account and no link.
Onward(k) ==
    \/ job'[k] = job[k]
    \/ job'[k] = Rest /\ (job[k].at = "mail" => Target(k) \in disturbed')
    \/ MovesTo(k, job'[k]) /\ job[k].at # "mail"
    \/ /\ job'[k].at \in {"auth", "open"} /\ job[k] = Rest
       /\ job'[k].at = "open" => job'[k].link \in mailed
       /\ \/ job'[k].target \in {None} \cup disturbed'
          \/ \A i \in Jobs \ {k} : job[i].target # job'[k].target /\ job'[i] = job[i]

Looks ==
    /\ UNCHANGED <<users, created, issued, mailed, used, unsent>>
    /\ disturbed \subseteq disturbed'
    /\ \A a \in sessions' : \/ a \in sessions
                            \/ a \in Accounts /\ Exists(a) /\ users[a].password = "chosen"
    /\ \A k \in Jobs : Onward(k)

LEMMA ReadLooks == ASSUME Typed, NEW j \in Jobs, Reads(j) PROVE Looks
<1>1. PICK r : job' = [job EXCEPT ![j] = r] /\ (r = Rest \/ MovesTo(j, r))
  BY ReadIs
<1>2. job'[j] = r /\ \A k \in Jobs \ {j} : job'[k] = job[k]
  BY <1>1, ReadMoves
<1>3. job[j].at # "mail"
  BY DEF Reads, Authorise, FindMember, FindExisting, CreateTwice, Load, SaveRefused,
         FindToDrop, OpenLink, SetPasswordOfNobody, Fail
<1>4. UNCHANGED <<users, created, issued, mailed, used, unsent, disturbed, sessions>>
  BY ReadIs
<1> QED
  BY <1>1, <1>2, <1>3, <1>4 DEF Looks, Onward

LEMMA ArriveLooks == ASSUME Typed, NEW j \in Jobs, AnyRequest(j) PROVE Looks
<1>1. Onward(j)
  <2>1. /\ job'[j].at \in {"auth", "open"} /\ job[j] = Rest
        /\ job'[j].at = "open" => job'[j].link \in mailed
    BY ArriveIs
  <2>2. CASE job'[j].target # None /\ Settled(job'[j].target)
    BY <2>1, <2>2, ArriveIs DEF Onward, Settled, Target
  <2>3. CASE ~(job'[j].target # None /\ Settled(job'[j].target))
    BY <2>1, <2>3, ArriveIs DEF Onward
  <2> QED
    BY <2>2, <2>3
<1> QED
  BY <1>1, ArriveIs DEF Looks, Onward

LEMMA CrashLooks == ASSUME Typed, Crash PROVE Looks
<1>1. \A k \in Jobs : job'[k] = Rest
  BY DEF Crash
<1>2. disturbed' = disturbed \cup {a \in Accounts : ~Settled(a)}
  BY DEF Crash
<1>3. \A k \in Jobs : job[k].at = "mail" => Target(k) \in disturbed'
  BY <1>2 DEF Typed, Shaped, Settled, Target
<1> QED
  BY <1>1, <1>2, <1>3 DEF Looks, Onward, Crash

LEMMA StepCases ==
    ASSUME Typed, [AnyNext]_vars
    PROVE  \/ Looks \/ LinkExpires
           \/ \E j \in Jobs : Create(j) \/ Save(j) \/ Drop(j) \/ SetPassword(j) \/ Mail(j)
<1>1. ASSUME NEW a \in Accounts, Login(a) PROVE Looks
  BY <1>1 DEF Login, Looks, Onward
<1>2. CASE SessionEnds \/ UNCHANGED vars
  BY <1>2 DEF SessionEnds, vars, Looks, Onward
<1> QED
  BY <1>1, <1>2, StepIs, ReadLooks, ArriveLooks, CrashLooks DEF AnyNext

-----------------------------------------------------------------------------
(* Links and who they are for.                                             *)

\* Accounts are numbered as they are created, and nothing is about a later one, except
\* a request that has not looked yet.
Numbered ==
    /\ \A a \in Accounts : Exists(a) => a <= created
    /\ \A l \in Links : issued[l] <= created
    /\ \A j \in Jobs : job[j].at \in {"save", "set"} => Target(j) <= created

\* A stored link, and one that is mailed or accepted, is of the account.
Owned ==
    /\ \A a \in Accounts : Exists(a) /\ users[a].link # 0
          => users[a].link \in Links /\ issued[users[a].link] = a
    /\ \A j \in Jobs : job[j].at \in {"mail", "set"} => issued[job[j].link] = Target(j)

\* Whoever has a password chose it through a link of their own.
Chosen ==
    \A a \in Accounts \ {Root} :
        Exists(a) /\ users[a].password = "chosen" => \E l \in used : issued[l] = a

LinkInv == Numbered /\ Owned /\ Chosen /\ SessionsFollowLinks

LEMMA LooksKeepLinks ==
    ASSUME Typed, LinkInv, Looks
    PROVE  LinkInv'
<1>1. UNCHANGED <<users, created, issued, mailed, used, unsent>> /\ Links' = Links
  BY DEF Looks, Links
<1>2. ASSUME NEW k \in Jobs, job'[k].at \in {"save", "set", "mail"}, job'[k] # job[k]
      PROVE  /\ job'[k].at \in {"save", "set"} /\ job'[k].target \in Accounts
             /\ Exists(job'[k].target)
             /\ job'[k].at = "set" => /\ users[job'[k].target].link = job'[k].link
                                      /\ job'[k].link \in Links
  <2>1. MovesTo(k, job'[k])
    BY <1>2, RestIsShaped DEF Looks, Onward
  <2>2. job'[k].at = "set" => job'[k].link \in Links
    BY <2>1 DEF MovesTo, Typed
  <2> QED
    BY <1>2, <2>1, <2>2 DEF MovesTo, Accepts, Shaped
<1>3. Numbered'
  BY <1>1, <1>2 DEF LinkInv, Numbered, Exists, Target
<1>4. Owned'
  <2>1. ASSUME NEW k \in Jobs, job'[k].at \in {"mail", "set"}
        PROVE  issued[job'[k].link] = job'[k].target
    <3>1. CASE job'[k] = job[k]
      BY <2>1, <3>1 DEF LinkInv, Owned, Target
    <3>2. CASE job'[k] # job[k]
      <4>1. job'[k].at = "set" /\ 0 \notin Links
        BY <1>2, <2>1, <3>2 DEF Links
      <4> QED
        BY <1>2, <2>1, <3>2, <4>1 DEF LinkInv, Owned
    <3> QED
      BY <3>1, <3>2
  <2> QED
    BY <1>1, <2>1 DEF LinkInv, Owned, Exists, Target
<1>5. Chosen' /\ SessionsFollowLinks'
  BY <1>1 DEF LinkInv, Chosen, SessionsFollowLinks, Exists, Looks
<1> QED
  BY <1>3, <1>4, <1>5 DEF LinkInv

LEMMA LinksAfter ==
    ASSUME Typed, NEW a \in Accounts, issued' = issued \/ issued' = Append(issued, a)
    PROVE  /\ Links \subseteq Links' /\ \A l \in Links : issued'[l] = issued[l] /\ l < NextLink
           /\ issued' = issued => Links' = Links
           /\ issued' # issued => NextLink \in Links' /\ issued'[NextLink] = a
           /\ \A l \in Links' \ Links : l = NextLink /\ issued'[l] = a
           /\ NextLink \notin Links /\ NextLink # 0
<1>1. /\ NextLink \in Nat \ {0} /\ NextLink \notin Links
      /\ \A l \in Links : l < NextLink
  BY LinksGrow DEF Links, NextLink, Typed, TypeOK
<1>2. CASE issued' = issued
  BY <1>1, <1>2 DEF Links
<1>3. CASE issued' = Append(issued, a)
  <2>1. /\ Links' = Links \cup {NextLink} /\ issued'[NextLink] = a
        /\ \A l \in Links : issued'[l] = issued[l]
    BY <1>3, LinksGrow
  <2>2. issued' # issued
    BY <1>1, <2>1 DEF Links
  <2> QED
    BY <1>1, <2>1, <2>2
<1> QED
  BY <1>2, <1>3

\* What the four steps that write an account have in common.
Puts(j, a) ==
    /\ a \in Accounts /\ OneAccount(a) /\ users'[a] \in Account \cup {None}
    /\ \A k \in Jobs \ {j} : job'[k] = job[k]
    /\ UNCHANGED <<sessions, mailed, disturbed, unsent>>
    /\ \/ /\ issued' = issued /\ job'[j] = Rest
          /\ users'[a] # None => \/ users'[a].link = 0
                                 \/ Exists(a) /\ users'[a].link = users[a].link
       \/ /\ issued' = Append(issued, a) /\ users'[a] # None /\ users'[a].link = NextLink
          /\ job'[j].at = "mail" /\ job'[j].target = a /\ job'[j].link = NextLink
    /\ \/ a = created' /\ created' = created + 1 /\ Create(j)
       \/ a = Target(j) /\ created' = created /\ job[j].at \in {"save", "drop", "set"}
          /\ (users'[a] # None => Exists(a))

LEMMA WritesPut ==
    ASSUME Typed, NEW j \in Jobs
    PROVE  /\ Create(j) => /\ Puts(j, created') /\ used' = used
                           /\ users'[created'].password = "temporary"
           /\ Save(j) => /\ Puts(j, Target(j)) /\ used' = used
                         /\ users'[Target(j)].password = users[Target(j)].password
           /\ Drop(j) => Puts(j, Target(j)) /\ used' = used /\ users'[Target(j)] = None
           /\ SetPassword(j) => Puts(j, Target(j)) /\ used' = used \cup {job[j].link}
<1>1. Writes(j) => (\A k \in Jobs \ {j} : job'[k] = job[k]) /\ UNCHANGED <<sessions, disturbed>>
  BY WriteIs
<1>2. Create(j) => /\ Puts(j, created') /\ used' = used
                   /\ users'[created'].password = "temporary"
  BY <1>1, CreateIs DEF Puts, Writes
<1>3. Save(j) => /\ Puts(j, Target(j)) /\ used' = used
                 /\ users'[Target(j)].password = users[Target(j)].password
  <2>1. Save(j) => job[j].at = "save"
    BY DEF Save
  <2> QED
    BY <1>1, <2>1, SaveIs DEF Puts, Writes
<1>4. Drop(j) => Puts(j, Target(j)) /\ used' = used /\ users'[Target(j)] = None
  <2>1. Drop(j) => job[j].at = "drop"
    BY DEF Drop
  <2> QED
    BY <1>1, <2>1, DropIs DEF Puts, Writes
<1>5. SetPassword(j) => Puts(j, Target(j)) /\ used' = used \cup {job[j].link}
  BY <1>1, SetPasswordIs DEF Puts, Writes
<1> QED
  BY <1>2, <1>3, <1>4, <1>5

LEMMA PutsKeepLinks ==
    ASSUME Typed, LinkInv, NEW j \in Jobs, NEW a, Puts(j, a), used \subseteq used',
           users'[a] # None /\ users'[a].password = "chosen" /\ a # Root
              => \/ Exists(a) /\ users[a].password = "chosen"
                 \/ \E l \in used' : l \in Links /\ issued[l] = a
    PROVE  LinkInv'
<1>1. /\ Links \subseteq Links' /\ \A l \in Links : issued'[l] = issued[l]
      /\ \A l \in Links' \ Links : l = NextLink /\ issued'[l] = a
      /\ issued' # issued => NextLink \in Links' /\ issued'[NextLink] = a
  BY LinksAfter DEF Puts
<1>2. created \in Int /\ created' \in Int /\ created <= created' /\ Accounts \subseteq Int
  BY DEF Puts, Typed, TypeOK, Accounts
<1>3. ASSUME NEW b \in Accounts, users'[b] # None PROVE b <= created'
  <2>1. CASE b = a /\ a = created'
    BY <1>2, <2>1
  <2>2. CASE ~(b = a /\ a = created')
    BY <1>2, <1>3, <2>2 DEF Puts, OneAccount, LinkInv, Numbered, Exists
  <2> QED
    BY <2>1, <2>2
<1>4. a <= created' \/ issued' = issued
  BY <1>3 DEF Puts
<1>5. \A l \in Links' : issued'[l] <= created'
  <2>1. \A l \in Links : issued[l] \in Accounts
    BY DEF Typed, TypeOK, Links
  <2>2. ASSUME NEW l \in Links PROVE issued'[l] <= created'
    <3>1. issued'[l] = issued[l] /\ issued[l] <= created /\ issued[l] \in Int
      BY <1>1, <1>2, <2>1 DEF LinkInv, Numbered
    <3> HIDE DEF Links
    <3> QED
      BY <1>2, <3>1
  <2> QED
    BY <1>1, <1>4, <2>2 DEF Links
<1>6. ASSUME NEW k \in Jobs, job'[k].at \in {"save", "set"} PROVE job'[k].target <= created'
  <2>1. k # j
    BY <1>6, RestIsShaped DEF Puts
  <2>2. job'[k] = job[k]
    BY <2>1 DEF Puts
  <2>3. Target(k) \in Accounts /\ Target(k) <= created
    BY <1>6, <2>2 DEF LinkInv, Numbered, Typed, Shaped, Target
  <2>4. ASSUME NEW x \in Int, x <= created PROVE x <= created'
    BY <1>2, <2>4
  <2>5. Target(k) = job'[k].target /\ Target(k) \in Int
    BY <1>2, <2>2, <2>3 DEF Target
  <2> HIDE DEF Target
  <2> QED
    BY <2>3, <2>4, <2>5
<1>7. ASSUME NEW b \in Accounts, users'[b] # None, users'[b].link # 0
      PROVE  users'[b].link \in Links' /\ issued'[users'[b].link] = b
  <2>1. CASE b = a
    BY <1>1, <1>7, <2>1 DEF Puts, LinkInv, Owned
  <2>2. CASE b # a
    BY <1>1, <1>7, <2>2 DEF Puts, OneAccount, LinkInv, Owned, Exists
  <2> QED
    BY <2>1, <2>2
<1>8. ASSUME NEW k \in Jobs, job'[k].at \in {"mail", "set"}
      PROVE  issued'[job'[k].link] = job'[k].target
  <2>1. CASE k = j
    BY <1>1, <1>8, <2>1, RestIsShaped, LinksGrow DEF Puts
  <2>2. CASE k # j
    BY <1>1, <1>8, <2>2 DEF Puts, LinkInv, Owned, Target, Typed
  <2> QED
    BY <2>1, <2>2
<1>9. used \subseteq Links
  BY DEF Typed, TypeOK
<1>10. ASSUME NEW b \in Accounts \ {Root}, users'[b] # None, users'[b].password = "chosen"
       PROVE  \E l \in used' : issued'[l] = b
  <2>1. \/ Exists(b) /\ users[b].password = "chosen"
        \/ \E l \in used' : l \in Links /\ issued[l] = b
    BY <1>10 DEF Puts, OneAccount, Exists
  <2>2. (\E l \in used : issued[l] = b) \/ \E l \in used' : l \in Links /\ issued[l] = b
    BY <2>1 DEF LinkInv, Chosen
  <2> QED
    BY <1>1, <1>9, <2>2
<1>11. SessionsFollowLinks'
  BY <1>1, <1>9 DEF Puts, LinkInv, SessionsFollowLinks
<1> QED
  BY <1>3, <1>5, <1>6, <1>7, <1>8, <1>10, <1>11
  DEF LinkInv, Numbered, Owned, Chosen, Exists, Target

LEMMA LinksInductive == Typed /\ LinkInv /\ [AnyNext]_vars => LinkInv'
<1> SUFFICES ASSUME Typed, LinkInv, [AnyNext]_vars PROVE LinkInv'
  OBVIOUS
<1>1. ASSUME NEW j \in Jobs, Create(j) \/ Save(j) \/ Drop(j) PROVE LinkInv'
  <2>1. PICK a : /\ Puts(j, a) /\ used' = used
                 /\ \/ users'[a] = None \/ users'[a].password = "temporary"
                    \/ users'[a].password = users[a].password
                 /\ Create(j) => users'[a].password = "temporary"
    BY <1>1, WritesPut
  <2>2. users'[a] # None /\ users'[a].password = "chosen"
          => Exists(a) /\ users[a].password = "chosen"
    BY <2>1 DEF Puts
  <2> QED
    BY <2>1, <2>2, PutsKeepLinks
<1>2. ASSUME NEW j \in Jobs, SetPassword(j) PROVE LinkInv'
  <2>1. Puts(j, Target(j)) /\ used' = used \cup {job[j].link}
    BY <1>2, WritesPut
  <2>2. job[j].link \in Links /\ issued[job[j].link] = Target(j)
    BY <1>2 DEF SetPassword, Typed, LinkInv, Owned
  <2> QED
    BY <2>1, <2>2, PutsKeepLinks
<1>3. ASSUME NEW j \in Jobs, Mail(j) PROVE LinkInv'
  <2>1. \A k \in Jobs : job'[k] = job[k] \/ job'[k].at = "rest"
    BY <1>3, WriteIs, MailIs, RestIsShaped DEF Writes
  <2> QED
    BY <1>3, <2>1, MailIs DEF LinkInv, Numbered, Owned, Chosen, SessionsFollowLinks,
                              Exists, Target, Links
<1>4. CASE LinkExpires
  <2>1. /\ \A a \in Accounts : /\ users'[a] # None <=> Exists(a)
                               /\ Exists(a) => /\ users'[a].link = users[a].link
                                               /\ users'[a].password = users[a].password
        /\ UNCHANGED <<created, issued, sessions, job, used>>
    BY <1>4, ExpiryIs DEF OneAccount, Exists
  <2> QED
    BY <2>1 DEF LinkInv, Numbered, Owned, Chosen, SessionsFollowLinks, Exists, Target, Links
<1> QED
  BY <1>1, <1>2, <1>3, <1>4, StepCases, LooksKeepLinks

LEMMA LinksInitially == Init => LinkInv
<1> SUFFICES ASSUME Init PROVE LinkInv
  OBVIOUS
<1>1. Links = {}
  BY DEF Init, Links
<1>2. \A a \in Accounts : Exists(a) => a = Root /\ users[a].link = 0
  BY DEF Init, Exists, Seeded
<1>3. created = 0 /\ sessions = {} /\ \A j \in Jobs : job[j].at = "rest"
  BY RestIsShaped DEF Init
<1> QED
  BY <1>1, <1>2, <1>3 DEF LinkInv, Numbered, Owned, Chosen, SessionsFollowLinks, Root

\* Whoever is logged in, other than the seeded account, set the password through a
\* link that was issued for the very account.
THEOREM SessionsAreEarned == Spec => []SessionsFollowLinks
<1>1. LinkInv => SessionsFollowLinks
  BY DEF LinkInv
<1> QED
  BY <1>1, TypedInitially, TypedInductive, LinksInitially, LinksInductive, NextIsAny, PTL DEF Spec

\* Undisturbed requests about an account do not overlap, except with its mail.
Apart ==
    /\ \A j, k \in Jobs :
          j # k /\ Target(j) = Target(k) /\ Target(j) # None /\ job[j].at # "mail"
                /\ job[k].at # "mail" => Target(j) \in disturbed
    /\ \A j \in Jobs :
          job[j].at = "set" /\ Exists(Target(j)) /\ Target(j) \notin disturbed
             => users[Target(j)].link = job[j].link

\* No link at all, or the newest.
IsNewest(a, l) ==
    \/ l = 0 /\ \A k \in Links : issued[k] # a
    \/ l \in Links /\ issued[l] = a /\ \A k \in Links : issued[k] = a => k <= l

NewestStored ==
    \A a \in Accounts \ {Root} :
        Exists(a) /\ a \notin disturbed
        => \E l \in {0} \cup Links : IsNewest(a, l) /\ users[a].link = IF l \in used THEN 0 ELSE l

MailOnItsWay ==
    \A a \in Accounts \ unsent :
        Exists(a) /\ a \notin disturbed /\ users[a].access = "on" /\ users[a].password = "temporary"
        => \/ \E l \in mailed : issued[l] = a
           \/ \E j \in Jobs : job[j].at = "mail" /\ Target(j) = a

VersionsTell ==
    \A j \in Jobs :
        job[j].at = "save" /\ Exists(Target(j))
        => /\ job[j].read.version <= users[Target(j)].version
           /\ job[j].read.version = users[Target(j)].version
                 => job[j].read.perms = users[Target(j)].perms

CountInv == Apart /\ NewestStored

LEMMA LooksKeepCount ==
    ASSUME Typed, Apart, NewestStored, Looks
    PROVE  CountInv'
<1>1. UNCHANGED <<users, issued, used>> /\ Links' = Links /\ disturbed \subseteq disturbed'
  BY DEF Looks, Links
<1>2. ASSUME NEW i \in Jobs, NEW k \in Jobs, i # k, job'[i].target = job'[k].target,
             job'[i].target # None, job'[i].at # "mail", job'[k].at # "mail"
      PROVE  job'[i].target \in disturbed'
  <2> DEFINE Comes(x) == /\ \A y \in Jobs \ {x} : /\ job[y].target # job'[x].target
                                                  /\ job'[y] = job[y]
             Stays(x) == job'[x].target = job[x].target /\ job[x].at # "mail"
  <2>1. ASSUME NEW x \in {i, k} PROVE job'[x].target \in disturbed' \/ Comes(x) \/ Stays(x)
    BY <1>2, <2>1, RestIsShaped DEF Looks, Onward, MovesTo
  <2>2. Comes(i) \/ Comes(k) => FALSE
    BY <1>2
  <2>3. Stays(i) /\ Stays(k) => job'[i].target \in disturbed'
    BY <1>1, <1>2 DEF Apart, Target
  <2> HIDE DEF Comes, Stays
  <2> QED
    BY <1>2, <2>1, <2>2, <2>3
<1>3. ASSUME NEW k \in Jobs, job'[k].at = "set", users[job'[k].target] # None,
             job'[k].target \notin disturbed'
      PROVE  users[job'[k].target].link = job'[k].link
  BY <1>1, <1>3, RestIsShaped DEF Looks, Onward, MovesTo, Accepts, Apart, Target, Exists
<1>4. NewestStored'
  BY <1>1 DEF NewestStored, IsNewest, Exists
<1> QED
  BY <1>1, <1>2, <1>3, <1>4 DEF CountInv, Apart, Target, Exists

LEMMA PutsKeepApart ==
    ASSUME Typed, Numbered, Apart, NEW j \in Jobs, NEW a, Puts(j, a)
    PROVE  Apart'
<1>1. job'[j].at = "mail" \/ job'[j].target = None
  BY RestIsShaped DEF Puts
<1>2. ASSUME NEW k \in Jobs, job'[k].at = "set", users'[job'[k].target] # None,
             job'[k].target \notin disturbed
      PROVE  users'[job'[k].target].link = job'[k].link
  <2>1. k # j /\ job'[k] = job[k]
    BY <1>2, RestIsShaped DEF Puts
  <2>2. Target(k) \in Accounts /\ Target(k) # None
    BY <1>2, <2>1, NoneIsNoAccount DEF Typed, Shaped, Target
  <2>3. a # Target(k)
    <3>1. CASE a = created' /\ created' = created + 1
      BY <1>2, <2>1, <2>2, <3>1 DEF Numbered, Typed, TypeOK, Accounts
    <3>2. CASE a = Target(j) /\ job[j].at \in {"save", "drop", "set"}
      BY <1>2, <2>1, <2>2, <3>2 DEF Apart, Target
    <3> QED
      BY <3>1, <3>2 DEF Puts
  <2> QED
    BY <1>2, <2>1, <2>2, <2>3 DEF Puts, OneAccount, Apart, Target, Exists
<1> QED
  BY <1>1, <1>2 DEF Puts, Apart, Target, Exists

\* A link that is stored for another account leaves the newest of this one.
LEMMA NewestOfOthers ==
    ASSUME Typed, NEW j \in Jobs, NEW a, Puts(j, a), NEW b \in Accounts \ {a}, NEW l,
           IsNewest(b, l)
    PROVE  IsNewest(b, l)'
<1>1. /\ Links \subseteq Links' /\ \A k \in Links : issued'[k] = issued[k]
      /\ \A k \in Links' \ Links : issued'[k] = a
  BY LinksAfter DEF Puts
<1> QED
  BY <1>1 DEF IsNewest

LEMMA NewLinkIsNewest ==
    ASSUME Typed, NEW j \in Jobs, NEW a, Puts(j, a), issued' # issued, NEW n, n = NextLink
    PROVE  IsNewest(a, n)' /\ users'[a].link = n /\ n \notin used
<1>1. /\ n \in Links' /\ issued'[n] = a /\ n \notin Links
      /\ \A k \in Links' \ Links : k = n
      /\ \A k \in Links : k < n
  BY LinksAfter DEF Puts
<1>2. n \in Int
  BY DEF NextLink, Typed, TypeOK
<1>3. IsNewest(a, n)'
  BY <1>1, <1>2 DEF IsNewest
<1> QED
  BY <1>1, <1>2, <1>3 DEF Puts, Typed, TypeOK

\* The account that is written, and the others.
LEMMA PutsKeepOthersNewest ==
    ASSUME Typed, NewestStored, NEW j \in Jobs, NEW a, Puts(j, a),
           used \subseteq used', \A l \in used' \ used : l \in Links /\ issued[l] = a,
           NEW b \in Accounts \ {a, Root}, users'[b] # None, b \notin disturbed
    PROVE  (\E l \in {0} \cup Links :
              IsNewest(b, l) /\ users[b].link = IF l \in used THEN 0 ELSE l)'
<1>1. users'[b] = users[b] /\ Exists(b)
  BY DEF Puts, OneAccount, Exists
<1>2. PICK l \in {0} \cup Links : IsNewest(b, l) /\ users[b].link = IF l \in used THEN 0 ELSE l
  BY <1>1 DEF NewestStored
<1>3. IsNewest(b, l)'
  BY <1>2, NewestOfOthers
<1>4. l \in {0} \cup Links'
  BY <1>2, LinksAfter DEF Puts
<1>5. l \in Links => issued[l] = b
  BY <1>2 DEF IsNewest, Links
<1>6. l \in used' => l \in used
  BY <1>2, <1>5
<1> QED
  BY <1>1, <1>2, <1>3, <1>4, <1>6

LEMMA CreateKeepsNewest ==
    ASSUME Typed, LinkInv, NewestStored, NEW j \in Jobs, Create(j)
    PROVE  NewestStored'
<1>1. PICK a : a = created + 1
  OBVIOUS
<1>4. created' = a /\ Puts(j, a) /\ used' = used /\ used \subseteq Links
  BY <1>1, WritesPut, CreateIs DEF Typed, TypeOK
<1>2. \A l \in Links : issued[l] # a
  BY <1>1 DEF LinkInv, Numbered, Typed, TypeOK, Accounts
<1>3. \E l \in {0} \cup Links' : IsNewest(a, l)' /\ users'[a].link = IF l \in used THEN 0 ELSE l
  <2>1. CASE issued' = issued
    <3>1. IsNewest(a, 0)' /\ 0 \notin Links
      BY <1>2, <2>1 DEF IsNewest, Links
    <3>2. users'[a].link = 0
      <4>1. NextLink \notin Links
        BY <1>4, LinksAfter DEF Puts
      <4>2. issued' # Append(issued, a)
        BY <1>4, <2>1, <4>1, LinksGrow DEF Puts, Links
      <4> QED
        BY <1>4, <4>2, CreateIs
    <3> QED
      BY <1>4, <3>1, <3>2
  <2>2. CASE issued' # issued
    <3>1. PICK n : n = NextLink
      OBVIOUS
    <3>2. IsNewest(a, n)' /\ users'[a].link = n /\ n \notin used
      BY <1>4, <2>2, <3>1, NewLinkIsNewest
    <3>3. n \in Links'
      BY <1>4, <2>2, <3>1, LinksAfter DEF Puts
    <3> QED
      BY <3>2, <3>3
  <2> QED
    BY <2>1, <2>2
<1> QED
  BY <1>4, <1>3, PutsKeepOthersNewest DEF NewestStored, Exists, Puts

LEMMA SaveKeepsNewest ==
    ASSUME Typed, LinkInv, NewestStored, NEW j \in Jobs, Save(j)
    PROVE  NewestStored'
<1>4. PICK a : a = Target(j)
  OBVIOUS
<1>1. Puts(j, a) /\ used' = used /\ used \subseteq Links /\ Exists(a) /\ a \in Accounts \ {Root}
  BY <1>4, WritesPut, SaveIs DEF Typed, TypeOK
<1>2. ASSUME issued' = issued PROVE users'[a].link = users[a].link
  <2>1. NextLink \notin Links
    BY <1>1, LinksAfter DEF Puts
  <2>2. issued' # Append(issued, a)
    BY <1>1, <1>2, <2>1, LinksGrow DEF Puts, Links
  <2> QED
    BY <1>4, <2>2, SaveIs
<1>3. ASSUME a \notin disturbed
      PROVE  \E l \in {0} \cup Links' : IsNewest(a, l)' /\ users'[a].link = IF l \in used THEN 0 ELSE l
  <2>1. CASE issued' = issued
    BY <1>1, <1>2, <1>3, <2>1 DEF NewestStored, IsNewest, Links
  <2>2. CASE issued' # issued
    <3>1. PICK n : n = NextLink
      OBVIOUS
    <3>2. IsNewest(a, n)' /\ users'[a].link = n /\ n \notin used
      BY <1>1, <2>2, <3>1, NewLinkIsNewest
    <3>3. n \in Links'
      BY <1>1, <2>2, <3>1, LinksAfter DEF Puts
    <3> QED
      BY <3>2, <3>3
  <2> QED
    BY <2>1, <2>2
<1> QED
  BY <1>1, <1>3, PutsKeepOthersNewest DEF NewestStored, Exists, Puts

LEMMA SetPasswordKeepsNewest ==
    ASSUME Typed, LinkInv, Apart, NewestStored, NEW j \in Jobs, SetPassword(j)
    PROVE  NewestStored'
<1>5. PICK a : a = Target(j)
  OBVIOUS
<1>6. PICK n : n = job[j].link
  OBVIOUS
<1>1. /\ Puts(j, a) /\ used' = used \cup {n} /\ used \subseteq Links /\ n \in Links
      /\ Exists(a) /\ a \in Accounts /\ users'[a].link = 0 /\ job[j].at = "set"
  BY <1>5, <1>6, WritesPut, SetPasswordIs DEF Typed, TypeOK
<1>2. issued[n] = a /\ (a \notin disturbed => users[a].link = n)
  BY <1>1, <1>5, <1>6 DEF LinkInv, Owned, Apart
<1>3. issued' = issued
  BY SetPasswordIs
<1>4. ASSUME a \notin disturbed, a # Root
      PROVE  \E l \in {0} \cup Links' : IsNewest(a, l)' /\ users'[a].link = IF l \in used' THEN 0 ELSE l
  <2>1. PICK l \in {0} \cup Links : IsNewest(a, l) /\ users[a].link = IF l \in used THEN 0 ELSE l
    BY <1>1, <1>4 DEF NewestStored
  <2>2. n # 0
    BY <1>1 DEF Links
  <2>3. l = n
    BY <1>2, <1>4, <2>1, <2>2
  <2> QED
    BY <1>1, <1>3, <2>1, <2>3 DEF IsNewest, Links
<1> QED
  BY <1>1, <1>2, <1>4, PutsKeepOthersNewest DEF NewestStored, Exists, Puts

LEMMA CountInductive == Typed /\ LinkInv /\ CountInv /\ [AnyNext]_vars => CountInv'
<1> SUFFICES ASSUME Typed, LinkInv, Apart, NewestStored, [AnyNext]_vars PROVE CountInv'
  BY DEF CountInv
<1>1. ASSUME NEW j \in Jobs, Create(j) \/ Save(j) \/ Drop(j) \/ SetPassword(j) PROVE Apart'
  BY <1>1, WritesPut, PutsKeepApart DEF LinkInv
<1>2. ASSUME NEW j \in Jobs, Drop(j) PROVE NewestStored'
  <2>1. Puts(j, Target(j)) /\ used' = used /\ users'[Target(j)] = None
    BY <1>2, WritesPut
  <2> QED
    BY <2>1, PutsKeepOthersNewest DEF NewestStored, Exists, Puts
<1>3. ASSUME NEW j \in Jobs, Mail(j) PROVE CountInv'
  <2>1. \A k \in Jobs : job'[k] = job[k] \/ job'[k] = Rest
    BY <1>3, WriteIs, MailIs DEF Writes
  <2> QED
    BY <1>3, <2>1, MailIs, RestIsShaped DEF CountInv, Apart, NewestStored, IsNewest, Exists,
                                            Target, Links
<1>4. CASE LinkExpires
  <2>1. /\ \A a \in Accounts : /\ users'[a] # None <=> Exists(a)
                               /\ Exists(a) => users'[a].link = users[a].link
        /\ UNCHANGED <<issued, job, used, disturbed>>
    BY <1>4, ExpiryIs DEF OneAccount, Exists
  <2>2. \A j \in Jobs : job[j].at = "set" => Target(j) \in Accounts
    BY DEF Typed, Shaped, Target
  <2> QED
    BY <2>1, <2>2 DEF CountInv, Apart, NewestStored, IsNewest, Exists, Target, Links
<1> QED
  BY <1>1, <1>2, <1>3, <1>4, StepCases, LooksKeepCount, CreateKeepsNewest, SaveKeepsNewest,
     SetPasswordKeepsNewest DEF CountInv

LEMMA CountInitially == Init => CountInv
<1> SUFFICES ASSUME Init PROVE CountInv
  OBVIOUS
<1>1. \A a \in Accounts : Exists(a) => a = Root
  BY DEF Init, Exists
<1>2. \A j \in Jobs : Target(j) = None /\ job[j].at = "rest"
  BY RestIsShaped DEF Init, Target
<1> QED
  BY <1>1, <1>2 DEF CountInv, Apart, NewestStored

LEMMA NewestIs ==
    ASSUME Typed, NEW a, NEW l \in {0} \cup Links, IsNewest(a, l)
    PROVE  Newest(a) = l
<1> DEFINE for == {k \in Links : issued[k] = a}
           Tops(k) == \A i \in for : i <= k
<1>1. CASE for = {}
  BY <1>1 DEF IsNewest, Newest
<1>2. CASE for # {}
  <2>1. l \in for /\ Tops(l)
    BY <1>2 DEF IsNewest
  <2>2. PICK n : n = CHOOSE k \in for : Tops(k)
    OBVIOUS
  <2>3. n \in for /\ Tops(n)
    BY <2>1, <2>2
  <2>4. Newest(a) = n
    BY <1>2, <2>2 DEF Newest
  <2>5. n <= l /\ l <= n /\ n \in Int /\ l \in Int
    BY <2>1, <2>3 DEF Links
  <2> QED
    BY <2>4, <2>5
<1> QED
  BY <1>1, <1>2

\* Unless requests about an account overlapped, the newest link issued for it is the
\* one that is stored, until it is used: then none is.
THEOREM TheNewestLinkWorks == Spec => []NewestLinkCounts
<1>1. Typed /\ CountInv => NewestLinkCounts
  BY NewestIs DEF CountInv, NewestStored, NewestLinkCounts, Quiet
<1> QED
  BY <1>1, TypedInitially, TypedInductive, LinksInitially, LinksInductive, CountInitially,
     CountInductive, NextIsAny, PTL DEF Spec

-----------------------------------------------------------------------------
(* What SetupLinks promises.                                               *)

\* A stored link, whatever overlaps, is the newest of its account and unused; a
\* link that a request carries was mailed.
Current ==
    /\ \A a \in Accounts : Exists(a) /\ users[a].link # 0
          => /\ users[a].link \notin used
             /\ \A l \in Links : issued[l] = a => l <= users[a].link
    /\ \A j \in Jobs : job[j].at \in {"open", "set"} => job[j].link \in mailed

LEMMA LooksKeepCurrent ==
    ASSUME Typed, Current, Looks
    PROVE  Current'
<1>1. UNCHANGED <<users, issued, mailed, used>> /\ Links' = Links
  BY DEF Looks, Links
<1>2. ASSUME NEW k \in Jobs, job'[k].at \in {"open", "set"} PROVE job'[k].link \in mailed
  BY <1>2, RestIsShaped DEF Looks, Onward, MovesTo, Current
<1> QED
  BY <1>1, <1>2 DEF Current, Exists

LEMMA PutsKeepCurrent ==
    ASSUME Typed, LinkInv, Current, NEW j \in Jobs, NEW a, Puts(j, a),
           \/ used' = used
           \/ /\ users'[a] # None => users'[a].link = 0
              /\ \E n \in Links : issued[n] = a /\ used' = used \cup {n}
    PROVE  Current'
<1>1. /\ \A l \in Links : issued'[l] = issued[l]
      /\ \A l \in Links' \ Links : issued'[l] = a
      /\ issued' = issued => Links' = Links
  BY LinksAfter DEF Puts
<1>2. ASSUME NEW b \in Accounts \ {a}, users'[b] # None, users'[b].link # 0
      PROVE  /\ users'[b].link \notin used'
             /\ \A l \in Links' : issued'[l] = b => l <= users'[b].link
  <2>1. users'[b] = users[b] /\ Exists(b)
    BY <1>2 DEF Puts, OneAccount, Exists
  <2>2. /\ users[b].link \in Links /\ issued[users[b].link] = b /\ users[b].link \notin used
        /\ \A l \in Links : issued[l] = b => l <= users[b].link
    BY <1>2, <2>1 DEF LinkInv, Owned, Current
  <2> QED
    BY <1>1, <1>2, <2>1, <2>2
<1>3. ASSUME users'[a] # None, users'[a].link # 0
      PROVE  /\ users'[a].link \notin used'
             /\ \A l \in Links' : issued'[l] = a => l <= users'[a].link
  <2>1. used' = used
    BY <1>3
  <2>2. CASE issued' = issued
    <3>1. Exists(a) /\ users'[a].link = users[a].link /\ a \in Accounts
      <4>1. issued' # Append(issued, a)
        BY <2>2, LinksGrow DEF Puts, Links
      <4> QED
        BY <1>3, <4>1 DEF Puts
    <3> QED
      BY <1>1, <1>3, <2>1, <2>2, <3>1 DEF Current
  <2>3. CASE issued' # issued
    <3>1. PICK n : n = NextLink
      OBVIOUS
    <3>2. IsNewest(a, n)' /\ users'[a].link = n /\ n \notin used
      BY <2>3, <3>1, NewLinkIsNewest
    <3> QED
      BY <1>3, <2>1, <3>2 DEF IsNewest
  <2> QED
    BY <2>2, <2>3
<1>4. ASSUME NEW k \in Jobs, job'[k].at \in {"open", "set"} PROVE job'[k].link \in mailed'
  BY <1>4, RestIsShaped DEF Puts, Current
<1> QED
  BY <1>2, <1>3, <1>4 DEF Current, Exists, Puts

LEMMA CurrentInductive == Typed /\ LinkInv /\ Current /\ [AnyNext]_vars => Current'
<1> SUFFICES ASSUME Typed, LinkInv, Current, [AnyNext]_vars PROVE Current'
  OBVIOUS
<1>1. ASSUME NEW j \in Jobs, Create(j) \/ Save(j) \/ Drop(j) PROVE Current'
  <2>1. PICK a : Puts(j, a) /\ used' = used
    BY <1>1, WritesPut
  <2> QED
    BY <2>1, PutsKeepCurrent
<1>2. ASSUME NEW j \in Jobs, SetPassword(j) PROVE Current'
  <2>1. PICK a : a = Target(j)
    OBVIOUS
  <2>2. /\ Puts(j, a) /\ users'[a].link = 0 /\ used' = used \cup {job[j].link}
        /\ job[j].link \in Links /\ issued[job[j].link] = a
    BY <1>2, <2>1, WritesPut, SetPasswordIs DEF LinkInv, Owned
  <2> QED
    BY <2>2, PutsKeepCurrent
<1>3. ASSUME NEW j \in Jobs, Mail(j) PROVE Current'
  <2>1. \A k \in Jobs : job'[k] = job[k] \/ job'[k].at = "rest"
    BY <1>3, WriteIs, MailIs, RestIsShaped DEF Writes
  <2> QED
    BY <1>3, <2>1, MailIs DEF Current, Exists, Links
<1>4. CASE LinkExpires
  <2>1. /\ \A a \in Accounts : /\ users'[a] # None <=> Exists(a)
                               /\ Exists(a) => users'[a].link = users[a].link
        /\ UNCHANGED <<issued, mailed, job, used>>
    BY <1>4, ExpiryIs DEF OneAccount, Exists
  <2> QED
    BY <2>1 DEF Current, Exists, Links
<1> QED
  BY <1>1, <1>2, <1>3, <1>4, StepCases, LooksKeepCurrent

\* The stage of an account that exists is its password's.
LEMMA StageIs ==
    ASSUME Typed, NEW a \in Accounts
    PROVE  /\ Exists(a) => Stage[a] = users[a].password /\ Promise!Present(a)
           /\ ~Exists(a) => Stage[a] = IF a <= created THEN "gone" ELSE "unborn"
  BY DEF Stage, Promise!Present, Exists, Typed, TypeOK, Account

\* The stages after a step that concerns one account.
LEMMA StageAfter ==
    ASSUME Typed, NEW a \in Accounts, OneAccount(a),
           created' = created \/ (created' = created + 1 /\ a = created')
    PROVE  Stage' = [Stage EXCEPT ![a] = IF users'[a] # None THEN users'[a].password
                                         ELSE IF a <= created' THEN "gone" ELSE "unborn"]
<1>1. \A b \in Accounts \ {a} : users'[b] = users[b] /\ (b <= created' <=> b <= created)
  BY DEF OneAccount, Typed, TypeOK, Accounts
<1> QED
  BY <1>1 DEF Stage, Exists

LEMMA StageStays ==
    ASSUME created' = created,
           \A a \in Accounts : /\ users'[a] # None <=> Exists(a)
                               /\ Exists(a) => users'[a].password = users[a].password
    PROVE  Stage' = Stage
  BY DEF Stage, Exists

\* The links in hand after a step of one request.
LEMMA OpenedAfter ==
    ASSUME NEW j \in Jobs, \A k \in Jobs \ {j} : job'[k] = job[k]
    PROVE  /\ job'[j].at # "set" => Opened' \subseteq Opened
           /\ job'[j].at # "set" /\ job[j].at # "set" => Opened' = Opened
           /\ job'[j].at = "set" /\ job[j].at # "set" => Opened' = Opened \cup {job'[j].link}
  BY DEF Opened

LEMMA ReadKeepsPromise ==
    ASSUME Typed, LinkInv, Current, NEW j \in Jobs, Reads(j)
    PROVE  Promise!Next
<1>1. PICK r : job' = [job EXCEPT ![j] = r] /\ (r = Rest \/ MovesTo(j, r))
  BY ReadIs
<1>2. job'[j] = r /\ \A k \in Jobs \ {j} : job'[k] = job[k]
  BY <1>1, ReadMoves
<1>3. UNCHANGED <<Stage, issued, mailed, used, sessions>>
  BY ReadIs DEF Stage, Exists
<1>4. CASE r.at # "set"
  <2>1. Promise!Forget
    BY <1>2, <1>3, <1>4, OpenedAfter DEF Promise!Forget
  <2> QED
    BY <2>1 DEF Promise!Next
<1>5. CASE r.at = "set"
  <2>1. /\ MovesTo(j, r) /\ job[j].at = "open" /\ r.link = job[j].link /\ Accepts(r.target, r.link)
    BY <1>1, <1>5, RestIsShaped DEF MovesTo
  <2>2. PICK l : l = r.link
    OBVIOUS
  <2>3. PICK a : a = r.target
    OBVIOUS
  <2>4. l \in mailed /\ l \in Links /\ l # 0 /\ a \in Accounts /\ Exists(a) /\ users[a].link = l
    BY <1>5, <2>1, <2>2, <2>3 DEF Current, Typed, Links, Accepts, MovesTo, Shaped
  <2>5. l \notin used /\ issued[l] = a /\ \A k \in Links : issued[k] = a => k <= l
    BY <2>4 DEF Current, LinkInv, Owned
  <2>6. Promise!Newest(l) /\ Promise!Present(issued[l]) /\ Promise!Links = Links
    BY <2>4, <2>5, StageIs DEF Promise!Newest, Promise!Links, Links
  <2>7. Opened' = Opened \cup {l}
    BY <1>2, <1>5, <2>1, <2>2, OpenedAfter
  <2>8. Promise!Open(l) /\ l \in Promise!Links
    BY <1>3, <2>4, <2>5, <2>6, <2>7 DEF Promise!Open
  <2> QED
    BY <2>8 DEF Promise!Next
<1> QED
  BY <1>4, <1>5

LEMMA CreateKeepsPromise ==
    ASSUME Typed, LinkInv, NEW j \in Jobs, Create(j)
    PROVE  Promise!Next
<1>1. PICK a : a = created'
  OBVIOUS
<1>2. /\ a \in Accounts /\ created' = created + 1 /\ OneAccount(a)
      /\ users'[a] # None /\ users'[a].password = "temporary"
      /\ issued' = issued \/ issued' = Append(issued, a)
      /\ UNCHANGED <<mailed, used, sessions>>
  BY <1>1, CreateIs
<1>3. ~Exists(a) /\ ~(a <= created)
  BY <1>1, <1>2 DEF LinkInv, Numbered, Typed, TypeOK, Accounts
<1>4. Stage[a] = "unborn"
  BY <1>2, <1>3, StageIs
<1>5. Stage' = [Stage EXCEPT ![a] = "temporary"]
  BY <1>1, <1>2, StageAfter
<1>6. Opened' = Opened
  <2>1. job[j].at = "create"
    BY DEF Create
  <2>2. job'[j].at # "set" /\ \A k \in Jobs \ {j} : job'[k] = job[k]
    BY WriteIs, RestIsShaped DEF Writes
  <2> QED
    BY <2>1, <2>2, OpenedAfter
<1>7. Promise!Join(a)
  BY <1>2, <1>4, <1>5, <1>6 DEF Promise!Join
<1> QED
  BY <1>2, <1>7 DEF Promise!Next

LEMMA SaveKeepsPromise ==
    ASSUME Typed, NEW j \in Jobs, Save(j)
    PROVE  Promise!Next \/ UNCHANGED Promise!promised
<1>1. PICK a : a = Target(j)
  OBVIOUS
<1>2. /\ a \in Accounts /\ a # Root /\ Exists(a) /\ OneAccount(a) /\ users'[a] # None
      /\ users'[a].password = users[a].password
      /\ issued' = issued \/ issued' = Append(issued, a)
      /\ UNCHANGED <<created, mailed, used, sessions>>
  BY <1>1, SaveIs
<1>3. Stage' = Stage
  BY <1>2, StageStays DEF OneAccount, Exists
<1>4. Opened' = Opened
  <2>1. job[j].at = "save" /\ job'[j].at # "set" /\ \A k \in Jobs \ {j} : job'[k] = job[k]
    BY WriteIs, RestIsShaped DEF Writes, Save
  <2> QED
    BY <2>1, OpenedAfter
<1>5. CASE issued' = issued
  BY <1>2, <1>3, <1>4, <1>5 DEF Promise!promised
<1>6. CASE issued' = Append(issued, a)
  <2>1. Promise!Renew(a)
    BY <1>2, <1>3, <1>4, <1>6, StageIs DEF Promise!Renew
  <2> QED
    BY <1>2, <2>1 DEF Promise!Next
<1> QED
  BY <1>2, <1>5, <1>6

LEMMA DropKeepsPromise ==
    ASSUME Typed, LinkInv, NEW j \in Jobs, Drop(j)
    PROVE  Promise!Next \/ UNCHANGED Promise!promised
<1>1. PICK a : a = Target(j)
  OBVIOUS
<1>2. /\ a \in Accounts /\ a # Root /\ OneAccount(a) /\ users'[a] = None
      /\ UNCHANGED <<created, issued, mailed, used, sessions>>
  BY <1>1, DropIs
<1>3. Opened' = Opened
  <2>1. job[j].at = "drop" /\ job'[j].at # "set" /\ \A k \in Jobs \ {j} : job'[k] = job[k]
    BY WriteIs, DropIs, RestIsShaped DEF Writes, Drop
  <2> QED
    BY <2>1, OpenedAfter
<1>4. CASE Exists(a)
  <2>1. a <= created
    BY <1>2, <1>4 DEF LinkInv, Numbered
  <2>2. Stage' = [Stage EXCEPT ![a] = "gone"]
    BY <1>2, <2>1, StageAfter
  <2>3. Promise!Remove(a)
    BY <1>2, <1>3, <1>4, <2>2, StageIs DEF Promise!Remove
  <2> QED
    BY <1>2, <2>3 DEF Promise!Next
<1>5. CASE ~Exists(a)
  <2>1. Stage' = Stage
    BY <1>2, <1>5, StageStays DEF OneAccount, Exists
  <2> QED
    BY <1>2, <1>3, <2>1 DEF Promise!promised
<1> QED
  BY <1>4, <1>5

LEMMA SetPasswordKeepsPromise ==
    ASSUME Typed, LinkInv, NEW j \in Jobs, SetPassword(j)
    PROVE  Promise!Next
<1>1. PICK a : a = Target(j)
  OBVIOUS
<1>2. PICK l : l = job[j].link
  OBVIOUS
<1>3. /\ a \in Accounts /\ Exists(a) /\ OneAccount(a) /\ users'[a] # None
      /\ users'[a].password = "chosen" /\ job[j].at = "set" /\ job'[j] = Rest
      /\ l \in Links /\ used' = used \cup {l}
      /\ UNCHANGED <<created, issued, mailed, sessions>>
  BY <1>1, <1>2, SetPasswordIs
<1>4. issued[l] = a
  BY <1>1, <1>2, <1>3 DEF LinkInv, Owned
<1>5. Stage' = [Stage EXCEPT ![a] = "chosen"]
  BY <1>3, StageAfter
<1>6. l \in Opened
  BY <1>2, <1>3 DEF Opened
<1>7. Opened' \subseteq Opened
  BY <1>3, WriteIs, RestIsShaped, OpenedAfter DEF Writes
<1>8. Promise!Choose(l) /\ l \in Promise!Links
  BY <1>3, <1>4, <1>5, <1>6, <1>7, StageIs DEF Promise!Choose, Promise!Links, Links
<1> QED
  BY <1>8 DEF Promise!Next

LEMMA MailKeepsPromise ==
    ASSUME Typed, NEW j \in Jobs, Mail(j)
    PROVE  Promise!Next \/ UNCHANGED Promise!promised
<1>1. Opened' = Opened
  <2>1. job[j].at = "mail" /\ job'[j].at # "set" /\ \A k \in Jobs \ {j} : job'[k] = job[k]
    BY WriteIs, MailIs, RestIsShaped DEF Writes
  <2> QED
    BY <2>1, OpenedAfter
<1>2. UNCHANGED <<Stage, issued, used, sessions>>
  BY MailIs DEF Stage, Exists
<1>3. job[j].link \in Promise!Links /\ mailed' \in {mailed, mailed \cup {job[j].link}}
  BY MailIs DEF Promise!Links, Links
<1>4. CASE mailed' = mailed
  BY <1>1, <1>2, <1>4 DEF Promise!promised
<1>5. CASE mailed' # mailed
  <2>1. Promise!Deliver
    BY <1>1, <1>2, <1>3, <1>5 DEF Promise!Deliver
  <2> QED
    BY <2>1 DEF Promise!Next
<1> QED
  BY <1>4, <1>5

LEMMA OthersKeepPromise ==
    ASSUME Typed, SessionEnds \/ LinkExpires \/ Crash \/ UNCHANGED vars
    PROVE  Promise!Next \/ UNCHANGED Promise!promised
<1>1. CASE SessionEnds
  <2>1. Promise!Leave
    BY <1>1 DEF SessionEnds, Promise!Leave, Stage, Exists, Opened
  <2> QED
    BY <2>1 DEF Promise!Next
<1>2. CASE LinkExpires
  <2>1. Stage' = Stage
    BY <1>2, ExpiryIs, StageStays DEF OneAccount, Exists
  <2>2. Opened' = Opened
    BY <1>2 DEF LinkExpires, Opened
  <2> QED
    BY <1>2, <2>1, <2>2 DEF LinkExpires, Promise!promised
<1>3. CASE Crash
  <2>1. Opened' = {}
    BY <1>3, RestIsShaped DEF Crash, Opened
  <2>2. Promise!Forget
    BY <1>3, <2>1 DEF Crash, Promise!Forget, Stage, Exists
  <2> QED
    BY <2>2 DEF Promise!Next
<1>4. CASE UNCHANGED vars
  BY <1>4 DEF vars, Promise!promised, Stage, Exists, Opened
<1> QED
  BY <1>1, <1>2, <1>3, <1>4

LEMMA PromiseKept ==
    Typed /\ LinkInv /\ Current /\ [AnyNext]_vars => [Promise!Next]_(Promise!promised)
<1> SUFFICES ASSUME Typed, LinkInv, Current, [AnyNext]_vars
             PROVE  Promise!Next \/ UNCHANGED Promise!promised
  OBVIOUS
<1>1. ASSUME NEW j \in Jobs, AnyRequest(j) PROVE Promise!Next
  <2>1. Opened' = Opened
    BY <1>1, ArriveIs, OpenedAfter, RestIsShaped
  <2>2. Promise!Forget
    BY <1>1, <2>1, ArriveIs DEF Promise!Forget, Stage, Exists
  <2> QED
    BY <2>2 DEF Promise!Next
<1>2. ASSUME NEW a \in Accounts, Login(a) PROVE Promise!Next
  <2>1. Stage[a] = "chosen"
    BY <1>2, StageIs DEF Login
  <2>2. Promise!Enter(a)
    BY <1>2, <2>1 DEF Login, Promise!Enter, Stage, Exists, Opened
  <2> QED
    BY <1>2, <2>2 DEF Promise!Next
<1>3. ASSUME NEW j \in Jobs, Step(j) \/ Fail(j) PROVE Promise!Next \/ UNCHANGED Promise!promised
  BY <1>3, StepIs, ReadKeepsPromise, CreateKeepsPromise, SaveKeepsPromise, DropKeepsPromise,
     SetPasswordKeepsPromise, MailKeepsPromise
<1>4. CASE SessionEnds \/ LinkExpires \/ Crash \/ UNCHANGED vars
  BY <1>4, OthersKeepPromise
<1> QED
  BY <1>1, <1>2, <1>3, <1>4 DEF AnyNext

LEMMA PromiseInitially == Init => Current /\ Promise!Init
<1> SUFFICES ASSUME Init PROVE Current /\ Promise!Init
  OBVIOUS
<1>1. \A a \in Accounts : Exists(a) <=> a = Root
  <2>1. Seeded \in Account
    BY DEF Seeded, Account, Permissions
  <2> QED
    BY <2>1, NoneIsNoAccount DEF Init, Exists
<1>2. \A j \in Jobs : job[j].at = "rest"
  BY RestIsShaped DEF Init
<1>3. Current
  BY <1>1, <1>2 DEF Init, Current, Seeded, Exists
<1>4. Stage = [a \in Accounts |-> IF a = Root THEN "chosen" ELSE "unborn"]
  BY <1>1, RootIsAccount DEF Init, Stage, Seeded, Accounts, Root, Exists
<1>5. Opened = {}
  BY <1>2 DEF Opened
<1> QED
  BY <1>3, <1>4, <1>5 DEF Init, Promise!Init

\* Every step of the handlers is one that SetupLinks allows, or none to it: passwords are
\* chosen only through mailed links that were the newest and unused when opened.
THEOREM LinksAreAsPromised == Spec => LinksPromise
<1> QED
  BY TypedInitially, TypedInductive, LinksInitially, LinksInductive, CurrentInductive,
     PromiseInitially, PromiseKept, NextIsAny, PTL DEF Spec, LinksPromise, Promise!Spec

-----------------------------------------------------------------------------
(* The mail with the link.                                                 *)

\* A switch-on in one step is answered by a mail in a later one, which a crash may
\* prevent: the account is then disturbed.
LEMMA PutsKeepMail ==
    ASSUME Typed, Owned, MailOnItsWay, NEW j \in Jobs, NEW a, Puts(j, a),
           job[j].at # "mail",
           a \notin disturbed /\ users'[a] # None /\ users'[a].access = "on"
                /\ users'[a].password = "temporary" /\ a \notin unsent
             => \/ job'[j].at = "mail" /\ job'[j].target = a
                \/ Exists(a) /\ users[a].access = "on" /\ users[a].password = "temporary"
    PROVE  MailOnItsWay'
<1> SUFFICES ASSUME NEW b \in Accounts \ unsent', users'[b] # None, b \notin disturbed',
                    users'[b].access = "on", users'[b].password = "temporary"
             PROVE  \/ \E l \in mailed' : issued'[l] = b
                    \/ \E k \in Jobs : job'[k].at = "mail" /\ job'[k].target = b
  BY DEF MailOnItsWay, Exists, Target
<1>1. mailed' = mailed /\ mailed \subseteq Links /\ \A l \in Links : issued'[l] = issued[l]
  BY LinksAfter DEF Puts, Typed, TypeOK
<1>2. \/ job'[j].at = "mail" /\ job'[j].target = b
      \/ Exists(b) /\ users[b].access = "on" /\ users[b].password = "temporary"
  BY DEF Puts, OneAccount, Exists
<1>3. CASE Exists(b) /\ users[b].access = "on" /\ users[b].password = "temporary"
  <2>1. \/ \E l \in mailed : issued[l] = b
        \/ \E k \in Jobs : job[k].at = "mail" /\ Target(k) = b
    BY <1>3 DEF MailOnItsWay, Puts
  <2> QED
    BY <1>1, <2>1 DEF Puts, Target
<1> QED
  BY <1>2, <1>3

LEMMA MailInductive == Typed /\ Owned /\ MailOnItsWay /\ [AnyNext]_vars => MailOnItsWay'
<1> SUFFICES ASSUME Typed, Owned, MailOnItsWay, [AnyNext]_vars PROVE MailOnItsWay'
  OBVIOUS
<1>1. CASE Looks
  <2>1. ASSUME NEW k \in Jobs, job[k].at = "mail"
        PROVE  job'[k] = job[k] \/ Target(k) \in disturbed'
    <3>1. Onward(k)
      BY <1>1 DEF Looks
    <3> QED
      BY <2>1, <3>1, RestIsShaped DEF Onward
  <2> QED
    BY <1>1, <2>1 DEF Looks, MailOnItsWay, Exists, Target
<1>2. ASSUME NEW j \in Jobs, Create(j) PROVE MailOnItsWay'
  <2>1. Puts(j, created') /\ job[j].at # "mail"
    BY <1>2, WritesPut DEF Create
  <2>2. users'[created'].access = "on" => job'[j].at = "mail" /\ job'[j].target = created'
    BY <1>2, CreateIs
  <2> QED
    BY <2>1, <2>2, PutsKeepMail
<1>3. ASSUME NEW j \in Jobs, Save(j) PROVE MailOnItsWay'
  <2>1. /\ Puts(j, Target(j)) /\ job[j].at # "mail" /\ Exists(Target(j))
        /\ users'[Target(j)].password = users[Target(j)].password
    BY <1>3, WritesPut DEF Save
  <2>2. users'[Target(j)].access = "on"
          => (job'[j].at = "mail" /\ job'[j].target = Target(j)) \/ users[Target(j)].access = "on"
    BY <1>3, SaveIs
  <2> QED
    BY <2>1, <2>2, PutsKeepMail
<1>4. ASSUME NEW j \in Jobs, Drop(j) \/ SetPassword(j) PROVE MailOnItsWay'
  <2>1. /\ Puts(j, Target(j)) /\ job[j].at # "mail"
        /\ users'[Target(j)] = None \/ users'[Target(j)].password = "chosen"
    BY <1>4, WritesPut, SetPasswordIs DEF Drop, SetPassword
  <2> QED
    BY <2>1, PutsKeepMail
<1>5. ASSUME NEW j \in Jobs, Mail(j) PROVE MailOnItsWay'
  <2>1. \A k \in Jobs \ {j} : job'[k] = job[k]
    BY <1>5, WriteIs DEF Writes
  <2>2. issued[job[j].link] = Target(j)
    BY <1>5, MailIs DEF Owned
  <2> QED
    BY <1>5, <2>1, <2>2, MailIs DEF MailOnItsWay, Exists, Target
<1>6. CASE LinkExpires
  <2>1. /\ \A a \in Accounts : /\ users'[a] # None <=> Exists(a)
                               /\ Exists(a) => /\ users'[a].access = users[a].access
                                               /\ users'[a].password = users[a].password
        /\ UNCHANGED <<issued, job, mailed, unsent, disturbed>>
    BY <1>6, ExpiryIs DEF OneAccount, Exists
  <2> QED
    BY <2>1 DEF MailOnItsWay, Exists, Target
<1> QED
  BY <1>1, <1>2, <1>3, <1>4, <1>5, <1>6, StepCases

\* An account with access and no password was mailed a link of its own, unless a mail
\* was lost or a request about the account was cut short or overlapped.
THEOREM NobodyIsForgotten == Spec => []NobodyWaitsInVain
<1>1. Init => MailOnItsWay
  BY DEF Init, MailOnItsWay, Exists, Seeded
<1>2. MailOnItsWay => NobodyWaitsInVain
  BY DEF MailOnItsWay, NobodyWaitsInVain, Quiet, Settled
<1>3. LinkInv => Owned
  BY DEF LinkInv
<1> QED
  BY <1>1, <1>2, <1>3, TypedInitially, TypedInductive, LinksInitially, LinksInductive,
     MailInductive, NextIsAny, PTL DEF Spec

-----------------------------------------------------------------------------
(* Permissions and versions.                                               *)

LEMMA PutsKeepVersions ==
    ASSUME Typed, Numbered, VersionsTell, NEW j \in Jobs, NEW a, Puts(j, a),
           Exists(a) /\ users'[a] # None
              => /\ users[a].version <= users'[a].version
                 /\ users[a].version = users'[a].version => users[a].perms = users'[a].perms
    PROVE  VersionsTell'
<1> SUFFICES ASSUME NEW k \in Jobs, job'[k].at = "save", users'[job'[k].target] # None
             PROVE  /\ job'[k].read.version <= users'[job'[k].target].version
                    /\ job'[k].read.version = users'[job'[k].target].version
                          => job'[k].read.perms = users'[job'[k].target].perms
  BY DEF VersionsTell, Exists, Target
<1>1. k # j /\ job'[k] = job[k]
  BY RestIsShaped DEF Puts
<1>2. Target(k) \in Accounts /\ Target(k) <= created /\ job[k].read.version \in Nat
  BY <1>1 DEF Typed, TypeOK, Shaped, Numbered, Target, Job
<1>3. CASE a = Target(k)
  <2>1. ~(a = created' /\ created' = created + 1)
    BY <1>2, <1>3 DEF Typed, TypeOK, Accounts
  <2>2. Exists(a) /\ users'[a] # None
    BY <1>1, <1>3, <2>1 DEF Puts, Target
  <2>3. users[a] \in Account /\ users'[a] \in Account
    BY <2>2 DEF Puts, Exists, Typed, TypeOK
  <2>4. users[a].version \in Int /\ users'[a].version \in Int
    BY <2>3 DEF Account
  <2>5. /\ job[k].read.version <= users[a].version
        /\ job[k].read.version = users[a].version => job[k].read.perms = users[a].perms
    BY <1>1, <1>3, <2>2 DEF VersionsTell
  <2> QED
    BY <1>1, <1>2, <1>3, <2>2, <2>4, <2>5 DEF Target
<1>4. CASE a # Target(k)
  BY <1>1, <1>2, <1>4 DEF VersionsTell, Puts, OneAccount, Exists, Target
<1> QED
  BY <1>3, <1>4

LEMMA VersionsInductive == Typed /\ Numbered /\ VersionsTell /\ [AnyNext]_vars => VersionsTell'
<1> SUFFICES ASSUME Typed, Numbered, VersionsTell, [AnyNext]_vars PROVE VersionsTell'
  OBVIOUS
<1>1. CASE Looks
  <2>1. ASSUME NEW k \in Jobs, job'[k].at = "save", users[job'[k].target] # None
        PROVE  /\ job'[k].read.version <= users[job'[k].target].version
               /\ job'[k].read.version = users[job'[k].target].version
                     => job'[k].read.perms = users[job'[k].target].perms
    <3>1. CASE job'[k] = job[k]
      BY <2>1, <3>1 DEF VersionsTell, Exists, Target
    <3>2. CASE job'[k] # job[k]
      <4>1. MovesTo(k, job'[k])
        BY <1>1, <2>1, <3>2, RestIsShaped DEF Looks, Onward
      <4>2. job'[k].read = ReadOf(users[job'[k].target]) /\ job'[k].target \in Accounts
        BY <2>1, <4>1 DEF MovesTo, Shaped
      <4>3. users[job'[k].target].version \in Int
        BY <2>1, <4>2 DEF Typed, TypeOK, Account
      <4> QED
        BY <4>2, <4>3 DEF ReadOf
    <3> QED
      BY <3>1, <3>2
  <2> QED
    BY <1>1, <2>1 DEF Looks, VersionsTell, Exists, Target
<1>2. ASSUME NEW j \in Jobs, Create(j) PROVE VersionsTell'
  <2>1. Puts(j, created') /\ created' = created + 1
    BY <1>2, WritesPut, CreateIs
  <2>2. ~Exists(created')
    BY <2>1 DEF Puts, Numbered, Typed, TypeOK, Accounts
  <2> QED
    BY <2>1, <2>2, PutsKeepVersions
<1>3. ASSUME NEW j \in Jobs, Save(j) PROVE VersionsTell'
  BY <1>3, WritesPut, SaveIs, PutsKeepVersions
<1>4. ASSUME NEW j \in Jobs, Drop(j) PROVE VersionsTell'
  BY <1>4, WritesPut, PutsKeepVersions
<1>5. ASSUME NEW j \in Jobs, SetPassword(j) PROVE VersionsTell'
  <2>1. users[Target(j)].version \in Int
    BY <1>5, SetPasswordIs DEF Account
  <2> QED
    BY <1>5, <2>1, WritesPut, SetPasswordIs, PutsKeepVersions
<1>6. ASSUME NEW j \in Jobs, Mail(j) PROVE VersionsTell'
  <2>1. \A k \in Jobs : job'[k] = job[k] \/ job'[k] = Rest
    BY <1>6, WriteIs, MailIs DEF Writes
  <2> QED
    BY <1>6, <2>1, MailIs, RestIsShaped DEF VersionsTell, Exists, Target
<1>7. CASE LinkExpires
  <2>1. /\ \A a \in Accounts : /\ users'[a] # None <=> Exists(a)
                               /\ Exists(a) => /\ users'[a].version = users[a].version
                                               /\ users'[a].perms = users[a].perms
        /\ UNCHANGED job
    BY <1>7, ExpiryIs DEF OneAccount, Exists
  <2>2. \A j \in Jobs : job[j].at = "save" => Target(j) \in Accounts
    BY DEF Typed, Shaped, Target
  <2> QED
    BY <2>1, <2>2 DEF VersionsTell, Exists, Target
<1> QED
  BY <1>1, <1>2, <1>3, <1>4, <1>5, <1>6, <1>7, StepCases

LEMMA SavedKnowingly ==
    ASSUME Typed, VersionsTell, NEW j \in Jobs, Save(j), users'[Target(j)].perms # users[Target(j)].perms
    PROVE  users[Target(j)].perms = job[j].read.perms
<1>1. job[j].at = "save" /\ Exists(Target(j)) /\ ~Conflict(j)
  BY DEF Save
<1>2. users'[Target(j)] = Saved(j)
  BY SaveIs
<1>3. /\ Conflict(j) <=> /\ job[j].ask.perms # job[j].read.perms
                         /\ users[Target(j)].version # job[j].read.version
      /\ Saved(j).perms = IF job[j].ask.perms # job[j].read.perms THEN job[j].ask.perms
                                                                 ELSE users[Target(j)].perms
  BY <1>1, SavedIs
<1>4. job[j].read.version = users[Target(j)].version
  <2> HIDE DEF Saved, Conflict
  <2> QED
    BY <1>1, <1>2, <1>3
<1> QED
  BY <1>1, <1>4 DEF VersionsTell

\* Permissions are replaced by a request that had read what it replaces: the version
\* that is compared tells that they changed.
THEOREM NoPermissionsLostUnseen == Spec => PermissionsReplacedKnowingly
<1>1. Init => VersionsTell
  BY RestIsShaped DEF Init, VersionsTell
<1>2. ASSUME Typed, VersionsTell, [Next]_vars
      PROVE  \A j \in Jobs :
                Save(j) /\ users'[Target(j)].perms # users[Target(j)].perms
                => users[Target(j)].perms = job[j].read.perms
  BY <1>2, SavedKnowingly
<1>3. LinkInv => Numbered
  BY DEF LinkInv
<1> QED
  BY <1>1, <1>2, <1>3, TypedInitially, TypedInductive, LinksInitially, LinksInductive,
     VersionsInductive, NextIsAny, PTL DEF Spec, PermissionsReplacedKnowingly

-----------------------------------------------------------------------------
(* The page.                                                               *)

PageTyped == Typed /\ PageTypeOK

\* A form says what the account holds, except where it was touched.
Agrees(form, u, touched) ==
    \A what \in Touchable \ touched : Holds(form, what) = Holds(u, what)

\* What is listed is so, unless it was changed since it was read.
Lists(list, missed) ==
    \A a \in Accounts \ missed :
        list[a] # None => Exists(a) /\ list[a] = RowOf(users[a])

FormsFit(docs, form, a, touched) ==
    a \in Accounts /\ docs[a] # None /\ Agrees(form, docs[a], touched) /\ form.access # "keep"

ListInv ==
    /\ Lists(rows, behind)
    /\ fetching = "read" => Lists(arriving, since)

\* The steps of an update that come before it is saved.
Ahead(j) == job[j].at \in {"auth", "load", "save"}

\* The form that is open, and those that were sent.
FormFits == ui.dialog = "edit" /\ ~ui.outdated => FormsFit(users, ui.form, ui.account, ui.touched)
CallsFit == \A j \in Jobs : call[j].of = "edit" /\ ~call[j].outdated /\ Ahead(j)
                            => FormsFit(users, job[j].ask, Target(j), call[j].touched)

LEMMA FormsAreTyped ==
    ASSUME PageTypeOK
    PROVE  /\ ui.dialog \in {"closed", "edit", "add"} /\ ui.account \in Accounts /\ ui.form \in Ask
           /\ ui.touched \in SUBSET Touchable /\ ui.outdated \in BOOLEAN
           /\ draft.member \in Members \cup {None} /\ draft.ask \in Ask
           /\ \A j \in Jobs : /\ call[j].of \in {"none", "edit", "add", "delete"}
                              /\ call[j].touched \in SUBSET Touchable
  BY DEF PageTypeOK

\* What the page sends is a request like any other.
LEMMA PageSteps == PageTyped /\ [PageNext]_pageAndServerVars => [AnyNext]_vars
<1> SUFFICES ASSUME PageTyped, [PageNext]_pageAndServerVars PROVE [AnyNext]_vars
  OBVIOUS
<1>1. ASSUME NEW j \in Jobs, SubmitEdit(j) PROVE AnyRequest(j)
  <2>1. Update(j, Root, ui.account, ui.form)
    BY <1>1 DEF SubmitEdit, Call
  <2> QED
    BY <2>1, FormsAreTyped, RootIsAccount DEF AnyRequest, PageTyped
<1>2. ASSUME NEW j \in Jobs, SubmitAdd(j) PROVE AnyRequest(j)
  <2>1. Promote(j, Root, draft.member, draft.ask) /\ draft.member # None
    BY <1>2 DEF SubmitAdd, CanSubmit, Call
  <2> QED
    BY <2>1, FormsAreTyped, RootIsAccount DEF AnyRequest, PageTyped
<1>3. ASSUME NEW j \in Jobs, NEW a \in Accounts, ConfirmDelete(j, a) PROVE AnyRequest(j)
  BY <1>3, RootIsAccount DEF ConfirmDelete, Call, AnyRequest
<1>4. ASSUME NEW j \in Jobs, Handle(j) PROVE Step(j) \/ Fail(j)
  BY <1>4 DEF Handle
<1>5. CASE Elsewhere
  <2>1. [Next]_vars
    BY <1>5 DEF Elsewhere, Next
  <2> QED
    BY <2>1, NextIsAny DEF PageTyped
<1>6. CASE ServerStops
  BY <1>6 DEF ServerStops, AnyNext
<1>7. CASE UNCHANGED pageAndServerVars
  BY <1>7 DEF pageAndServerVars
<1>8. ASSUME \/ Refresh \/ ListUsers \/ ShowList \/ ListFails
             \/ \E a \in Accounts : OpenEdit(a) \/ AskDelete(a) \/ ToastGone(a)
             \/ CloseDialog \/ OpenAdd
             \/ \E j \in Jobs : LoseAnswer(j) \/ HearDone(j) \/ HearFailed(j)
      PROVE  UNCHANGED vars
  BY <1>8 DEF Refresh, ListUsers, ShowList, ListFails, OpenEdit, AskDelete, ToastGone,
              CloseDialog, OpenAdd, LoseAnswer, HearDone, HearFailed
<1>9. ASSUME \/ \E role \in {"admin", "other"} : ChooseRole(role) \/ DraftRole(role)
             \/ \E p \in Permissions : ToggleEditPermission(p) \/ TogglePermission(p)
             \/ ToggleAccess \/ DraftAccess
             \/ \E m \in Members \cup {None} : SelectMember(m)
      PROVE  UNCHANGED vars
  BY <1>9 DEF ChooseRole, DraftRole, ToggleEditPermission, TogglePermission, ToggleAccess,
              DraftAccess, SelectMember, Fill, FillDraft
<1> QED
  BY <1>1, <1>2, <1>3, <1>4, <1>5, <1>6, <1>7, <1>8, <1>9 DEF PageNext, AnyNext

\* Rows and forms are what an update may ask for.
LEMMA RowsAreTyped ==
    ASSUME NEW u \in Account
    PROVE  RowOf(u) \in Ask /\ RowOf(u).access \in {"on", "off"}
           /\ RowOf(u).role = u.role /\ RowOf(u).perms = u.perms /\ RowOf(u).access = u.access
  BY DEF RowOf, Ask, Account

\* A form as filled in is a form.
LEMMA FillsAreTyped ==
    ASSUME NEW form \in Ask, NEW role \in {"admin", "other"}, NEW p \in Permissions,
           NEW access \in {"on", "off"}
    PROVE  /\ [form EXCEPT !.role = role] \in Ask
           /\ [form EXCEPT !.access = access] \in Ask
           /\ [form EXCEPT !.role = role, !.access = access] \in Ask
           /\ [form EXCEPT !.access = Flip(@)] \in Ask
           /\ [form EXCEPT !.perms = FlipIn(@, p)] \in Ask
  BY DEF Ask, Flip, FlipIn

Dialogs == [dialog : {"closed", "edit", "add"}, account : Accounts, form : Ask,
            touched : SUBSET Touchable, outdated : BOOLEAN]
Answers == [of : {"none", "edit", "add", "delete"}, answer : {"waiting", "done", "failed"},
            touched : SUBSET Touchable, outdated : BOOLEAN]
Drafts == [member : Members \cup {None}, ask : Ask]

LEMMA ClosedIsTyped ==
    /\ NewForm \in Ask
    /\ Closed \in Dialogs /\ NewDraft \in Drafts /\ NoCall \in Answers
    /\ Empty \in [Accounts -> Ask \cup {None}]
<1>1. NewForm \in Ask
  BY DEF NewForm, Ask
<1> QED
  BY <1>1, RootIsAccount DEF Closed, NewDraft, NoCall, Empty, Dialogs, Drafts, Answers

LEMMA ListTyped ==
    ASSUME PageTyped, Refresh \/ ListUsers \/ ShowList \/ ListFails
    PROVE  PageTypeOK'
<1>1. Listing \in [Accounts -> Ask \cup {None}]
  BY RowsAreTyped DEF Listing, Exists, PageTyped, Typed, TypeOK
<1> QED
  BY <1>1, ClosedIsTyped DEF Refresh, ListUsers, ShowList, ListFails, Forget, PageTyped, PageTypeOK

LEMMA DialogTyped ==
    ASSUME PageTyped
    PROVE  /\ \A a \in Accounts : OpenEdit(a) \/ AskDelete(a) \/ ToastGone(a) => PageTypeOK'
           /\ CloseDialog \/ OpenAdd \/ ToggleAccess \/ DraftAccess => PageTypeOK'
           /\ \A role \in {"admin", "other"} : ChooseRole(role) \/ DraftRole(role) => PageTypeOK'
           /\ \A p \in Permissions : ToggleEditPermission(p) \/ TogglePermission(p) => PageTypeOK'
           /\ \A m \in Members \cup {None} : SelectMember(m) => PageTypeOK'
<1> USE DEF PageTyped
<1>1. /\ ui \in Dialogs /\ ui.form \in Ask /\ draft \in Drafts /\ draft.ask \in Ask
  BY DEF PageTypeOK, Dialogs, Drafts
<1>2. ASSUME ui' \in Dialogs,
             UNCHANGED <<rows, failed, fetching, arriving, draft, toasts, call, behind, since>>
      PROVE  PageTypeOK'
  BY <1>2 DEF PageTypeOK, Dialogs
<1>3. ASSUME draft' \in Drafts,
             UNCHANGED <<rows, failed, fetching, arriving, ui, toasts, call, behind, since>>
      PROVE  PageTypeOK'
  BY <1>3 DEF PageTypeOK, Drafts
<1>4. ASSUME NEW form \in Ask, NEW what \in Touchable, Fill(form, what) PROVE PageTypeOK'
  <2>1. [ui EXCEPT !.form = form, !.touched = @ \cup {what}] \in Dialogs
    BY <1>1 DEF Dialogs
  <2> QED
    BY <1>2, <1>4, <2>1 DEF Fill
<1>5. ASSUME NEW new \in Drafts, FillDraft(new) PROVE PageTypeOK'
  BY <1>3, <1>5 DEF FillDraft
<1>6. ASSUME NEW a \in Accounts, OpenEdit(a) PROVE PageTypeOK'
  <2>1. rows[a] \in Ask /\ (a \in behind) \in BOOLEAN
    BY <1>6 DEF OpenEdit, RowButtons, InTable, PageTypeOK
  <2>2. ui' \in Dialogs
    BY <1>6, <2>1 DEF OpenEdit, FormOf, Dialogs
  <2> QED
    BY <1>2, <1>6, <2>2 DEF OpenEdit
<1>7. ASSUME NEW a \in Accounts, AskDelete(a) \/ ToastGone(a) PROVE PageTypeOK'
  BY <1>7 DEF AskDelete, ToastGone, PageTypeOK
<1>8. CASE CloseDialog \/ OpenAdd
  <2>1. ui' \in Dialogs
    BY <1>1, <1>8, ClosedIsTyped DEF CloseDialog, OpenAdd, Dialogs
  <2> QED
    BY <1>2, <1>8, <2>1 DEF CloseDialog, OpenAdd
<1>9. Permissions # {} /\ Permissions \subseteq Touchable /\ {"role", "access"} \subseteq Touchable
  BY DEF Permissions, Touchable
<1>10. [ui.form EXCEPT !.access = Flip(@)] \in Ask /\ [draft.ask EXCEPT !.access = Flip(@)] \in Ask
  BY <1>1, <1>9, FillsAreTyped
<1>11. CASE ToggleAccess
  BY <1>4, <1>9, <1>10, <1>11 DEF ToggleAccess
<1>12. ASSUME NEW ask \in Ask PROVE [draft EXCEPT !.ask = ask] \in Drafts
  BY <1>1 DEF Drafts
<1>13. CASE DraftAccess
  <2>1. [draft EXCEPT !.ask.access = Flip(@)] = [draft EXCEPT !.ask = [draft.ask EXCEPT !.access = Flip(@)]]
    BY <1>1 DEF Drafts
  <2> QED
    BY <1>5, <1>10, <1>12, <1>13, <2>1 DEF DraftAccess
<1>14. ASSUME NEW role \in {"admin", "other"}, ChooseRole(role) PROVE PageTypeOK'
  BY <1>1, <1>4, <1>9, <1>14, FillsAreTyped DEF ChooseRole
<1>15. ASSUME NEW role \in {"admin", "other"}, DraftRole(role) PROVE PageTypeOK'
  <2>1. PICK access \in {"on", "off"} : FillDraft([draft EXCEPT !.ask.role = role, !.ask.access = access])
    BY <1>15 DEF DraftRole
  <2>2. [draft EXCEPT !.ask.role = role, !.ask.access = access]
          = [draft EXCEPT !.ask = [draft.ask EXCEPT !.role = role, !.access = access]]
    BY <1>1 DEF Drafts
  <2> QED
    BY <1>1, <1>5, <1>9, <1>12, <2>1, <2>2, FillsAreTyped
<1>16. ASSUME NEW p \in Permissions, ToggleEditPermission(p) PROVE PageTypeOK'
  BY <1>1, <1>4, <1>9, <1>16, FillsAreTyped DEF ToggleEditPermission
<1>17. ASSUME NEW p \in Permissions, TogglePermission(p) PROVE PageTypeOK'
  <2>1. [draft EXCEPT !.ask.perms = FlipIn(@, p)]
          = [draft EXCEPT !.ask = [draft.ask EXCEPT !.perms = FlipIn(@, p)]]
    BY <1>1 DEF Drafts
  <2> QED
    BY <1>1, <1>5, <1>12, <1>17, <2>1, FillsAreTyped DEF TogglePermission
<1>18. ASSUME NEW m \in Members \cup {None}, SelectMember(m) PROVE PageTypeOK'
  <2>1. [draft EXCEPT !.member = m] \in Drafts
    BY <1>1 DEF Drafts
  <2> QED
    BY <1>5, <1>18, <2>1 DEF SelectMember
<1> QED
  BY <1>6, <1>7, <1>8, <1>11, <1>13, <1>14, <1>15, <1>16, <1>17, <1>18

LEMMA CallsTyped ==
    ASSUME PageTyped
    PROVE  /\ \A j \in Jobs : SubmitEdit(j) \/ SubmitAdd(j) \/ Handle(j) \/ LoseAnswer(j)
                                 \/ HearDone(j) \/ HearFailed(j) => PageTypeOK'
           /\ \A j \in Jobs, a \in Accounts : ConfirmDelete(j, a) => PageTypeOK'
           /\ ServerStops \/ Elsewhere \/ UNCHANGED pageAndServerVars => PageTypeOK'
<1> USE DEF PageTyped
<1>1. ui \in Dialogs /\ draft \in Drafts /\ call \in [Jobs -> Answers]
  BY DEF PageTypeOK, Dialogs, Drafts, Answers
<1>2. ASSUME NEW j \in Jobs, NEW of \in {"edit", "add", "delete"}, NEW request, Call(j, of, request),
             toasts' \subseteq Accounts
      PROVE  PageTypeOK'
  <2>1. [of |-> of, answer |-> "waiting", touched |-> ui.touched, outdated |-> ui.outdated] \in Answers
    BY <1>1 DEF Dialogs, Answers
  <2>2. call' \in [Jobs -> Answers]
    BY <1>1, <1>2, <2>1 DEF Call
  <2> QED
    BY <1>2, <2>2 DEF Call, PageTypeOK, Answers
<1>3. ASSUME NEW c \in Answers, NEW answer \in {"waiting", "done", "failed"}
      PROVE  [c EXCEPT !.answer = answer] \in Answers /\ [c EXCEPT !.outdated = TRUE] \in Answers
  BY DEF Answers
<1>4. ASSUME NEW j \in Jobs, Handle(j) PROVE PageTypeOK'
  <2>1. PICK answer \in {"done", "failed"} : call' = Calls(j, answer)
    BY <1>4 DEF Handle
  <2>2. call' \in [Jobs -> Answers]
    BY <1>1, <1>3, <2>1 DEF Calls
  <2>3. ui' \in Dialogs
    <3>1. (ui.outdated \/ (ui.dialog = "edit" /\ ui.account \in Altered)) \in BOOLEAN
      BY <1>1 DEF Dialogs
    <3> QED
      BY <1>1, <1>4, <3>1 DEF Handle, Overtaken, Dialogs
  <2>4. Altered \subseteq Accounts
    BY DEF Altered
  <2> QED
    BY <1>4, <2>2, <2>3, <2>4 DEF Handle, Overtaken, PageTypeOK, Dialogs, Answers
<1>5. ASSUME NEW j \in Jobs, LoseAnswer(j) PROVE PageTypeOK'
  <2>1. call' \in [Jobs -> Answers]
    BY <1>1, <1>3, <1>5 DEF LoseAnswer
  <2> QED
    BY <1>5, <2>1 DEF LoseAnswer, PageTypeOK, Answers
<1>6. ASSUME NEW j \in Jobs, HearDone(j) \/ HearFailed(j) PROVE PageTypeOK'
  <2>1. NoCall \in Answers /\ Closed \in Dialogs /\ NewDraft \in Drafts
    BY ClosedIsTyped
  <2>2. call' \in [Jobs -> Answers] /\ ui' \in Dialogs /\ draft' \in Drafts
    BY <1>1, <1>6, <2>1 DEF HearDone, HearFailed, DialogAfter, DraftAfter
  <2>3. UNCHANGED <<rows, failed, toasts, behind>>
        /\ \/ UNCHANGED <<fetching, arriving, since>>
           \/ fetching' = "asked" /\ arriving' = Empty /\ since' = {}
    BY <1>6 DEF HearDone, HearFailed, Forget
  <2> QED
    BY <2>2, <2>3, ClosedIsTyped DEF PageTypeOK, Dialogs, Drafts, Answers
<1>7. CASE ServerStops
  <2>1. call' \in [Jobs -> Answers]
    BY <1>1, <1>3, <1>7 DEF ServerStops
  <2> QED
    BY <1>7, <2>1 DEF ServerStops, PageTypeOK, Answers
<1>8. CASE Elsewhere \/ UNCHANGED pageAndServerVars
  BY <1>8 DEF Elsewhere, pageVars, pageAndServerVars, PageTypeOK
<1>9. ASSUME NEW j \in Jobs, SubmitEdit(j) \/ SubmitAdd(j) PROVE PageTypeOK'
  BY <1>2, <1>9 DEF SubmitEdit, SubmitAdd, PageTypeOK
<1>10. ASSUME NEW j \in Jobs, NEW a \in Accounts, ConfirmDelete(j, a) PROVE PageTypeOK'
  BY <1>2, <1>10 DEF ConfirmDelete, PageTypeOK
<1> QED
  BY <1>4, <1>5, <1>6, <1>7, <1>8, <1>9, <1>10

LEMMA PageTypedInductive == PageTyped /\ [PageNext]_pageAndServerVars => PageTyped'
<1> SUFFICES ASSUME PageTyped, [PageNext]_pageAndServerVars PROVE PageTyped'
  OBVIOUS
<1>1. Typed'
  BY PageSteps, TypedInductive DEF PageTyped
<1>2. PageTypeOK'
  BY ListTyped, DialogTyped, CallsTyped DEF PageNext
<1> QED
  BY <1>1, <1>2 DEF PageTyped

LEMMA PageTypedInitially == PageInit => PageTyped
  BY TypedInitially, ClosedIsTyped DEF PageInit, PageTyped, PageTypeOK, Dialogs, Drafts, Answers

\* Every variable of the page keeps its type.
THEOREM PageTypeCorrect == PageSpec => []PageTypeOK
<1>1. PageTyped => PageTypeOK
  BY DEF PageTyped
<1> QED
  BY <1>1, PageTypedInitially, PageTypedInductive, PTL DEF PageSpec

\* With the page at work, too, sessions are earned, the newest link works, nobody is
\* forgotten and the revoked are served late at most.
THEOREM AccountsWithThePage ==
    PageSpec => [](SessionsFollowLinks /\ NewestLinkCounts /\ NobodyWaitsInVain /\ RevokedActOnlyLate)
<1> DEFINE AllInv == LinkInv /\ CountInv /\ MailOnItsWay /\ RevokedActOnlyLate
<1>1. PageInit => PageTyped /\ AllInv
  <2>1. Init => MailOnItsWay /\ RevokedActOnlyLate
    BY RestIsShaped DEF Init, MailOnItsWay, Exists, Seeded, RevokedActOnlyLate, PastAuth
  <2> QED
    BY <2>1, PageTypedInitially, LinksInitially, CountInitially DEF PageInit
<1>2. PageTyped /\ AllInv /\ [PageNext]_pageAndServerVars => PageTyped' /\ AllInv'
  <2>1. PageTyped => Typed
    BY DEF PageTyped
  <2>2. LinkInv => Owned
    BY DEF LinkInv
  <2> QED
    BY <2>1, <2>2, PageSteps, PageTypedInductive, LinksInductive, CountInductive, MailInductive,
       LateInductive
<1>3. PageTyped /\ AllInv
        => SessionsFollowLinks /\ NewestLinkCounts /\ NobodyWaitsInVain /\ RevokedActOnlyLate
  BY NewestIs DEF PageTyped, LinkInv, CountInv, NewestStored, NewestLinkCounts, Quiet, MailOnItsWay,
                  NobodyWaitsInVain, Settled
<1> QED
  BY <1>1, <1>2, <1>3, PTL DEF PageSpec

\* With the page at work, too, the accounts keep what SetupLinks promises.
THEOREM LinksWithThePage == PageSpec => LinksPromise
<1>1. PageInit => PageTyped /\ LinkInv /\ Current /\ Promise!Init
  BY PageTypedInitially, LinksInitially, PromiseInitially DEF PageInit
<1>2. PageTyped /\ LinkInv /\ Current /\ [PageNext]_pageAndServerVars
        => PageTyped' /\ LinkInv' /\ Current' /\ [Promise!Next]_(Promise!promised)
  <2>1. PageTyped => Typed
    BY DEF PageTyped
  <2> QED
    BY <2>1, PageSteps, PageTypedInductive, LinksInductive, CurrentInductive, PromiseKept
<1> QED
  BY <1>1, <1>2, PTL DEF PageSpec, LinksPromise, Promise!Spec

-----------------------------------------------------------------------------
(* Edits and what the list missed.                                         *)

\* Nothing the page can see of an account changes.
Unseen(a) == Exists(a) => users'[a] # None /\ RowOf(users'[a]) = RowOf(users[a])

LEMMA FitsStill ==
    ASSUME NEW form, NEW a, NEW touched, FormsFit(users, form, a, touched), Unseen(a)
    PROVE  FormsFit(users', form, a, touched)
<1>1. RowOf(users'[a]) = RowOf(users[a]) /\ users'[a] # None
  BY DEF FormsFit, Exists, Unseen
<1>2. /\ RowOf(users'[a]).role = users'[a].role /\ RowOf(users[a]).role = users[a].role
      /\ RowOf(users'[a]).perms = users'[a].perms /\ RowOf(users[a]).perms = users[a].perms
      /\ RowOf(users'[a]).access = users'[a].access /\ RowOf(users[a]).access = users[a].access
  BY DEF RowOf
<1>4. /\ users'[a].role = users[a].role /\ users'[a].perms = users[a].perms
      /\ users'[a].access = users[a].access
  BY <1>1, <1>2
<1>3. ASSUME NEW what \in Touchable PROVE Holds(users'[a], what) = Holds(users[a], what)
  BY <1>4 DEF Holds
<1> QED
  BY <1>1, <1>3 DEF FormsFit, Agrees

LEMMA NotAltered == \A a \in Accounts : a \in Altered \/ Unseen(a)
  BY DEF Altered, Unseen, Exists

\* A request of Edit goes on with what it was sent with, and its history tells if the
\* account was altered.
CallsKept ==
    \A k \in Jobs :
        call'[k].of = "edit" /\ ~call'[k].outdated /\ job'[k].at \in {"auth", "load", "save"}
        => /\ call[k].of = "edit" /\ ~call[k].outdated /\ call'[k].touched = call[k].touched
           /\ Ahead(k) /\ job'[k].ask = job[k].ask /\ job'[k].target = job[k].target
           /\ Unseen(Target(k))

FormKept ==
    ui'.dialog = "edit" /\ ~ui'.outdated
    => /\ ui.dialog = "edit" /\ ~ui.outdated
       /\ ui'.form = ui.form /\ ui'.account = ui.account /\ ui'.touched = ui.touched
       /\ Unseen(ui.account)

LEMMA KeptFits == /\ CallsFit /\ CallsKept => CallsFit'
                  /\ FormFits /\ FormKept => FormFits'
<1>1. ASSUME CallsFit, CallsKept, NEW k \in Jobs, call'[k].of = "edit", ~call'[k].outdated, 
             job'[k].at \in {"auth", "load", "save"}
      PROVE  FormsFit(users', job'[k].ask, job'[k].target, call'[k].touched)
  <2>1. FormsFit(users, job[k].ask, Target(k), call[k].touched) /\ Unseen(Target(k))
    BY <1>1 DEF CallsFit, CallsKept
  <2>2. FormsFit(users', job[k].ask, Target(k), call[k].touched)
    BY <2>1, FitsStill
  <2> QED
    BY <1>1, <2>2 DEF CallsKept, Target
<1>2. ASSUME FormFits, FormKept, ui'.dialog = "edit", ~ui'.outdated
      PROVE  FormsFit(users', ui'.form, ui'.account, ui'.touched)
  BY <1>2, FitsStill DEF FormFits, FormKept
<1> QED
  BY <1>1, <1>2 DEF CallsFit, FormFits, Target, Ahead

\* A handler's step is about its own request, which says what it said.
LEMMA HandleIs ==
    ASSUME Typed, NEW j \in Jobs, Step(j) \/ Fail(j)
    PROVE  /\ \A k \in Jobs \ {j} : job'[k] = job[k]
           /\ job'[j].at \in {"auth", "load", "save"}
              => Ahead(j) /\ job'[j].ask = job[j].ask /\ job'[j].target = job[j].target
                 /\ users' = users
<1>1. CASE Reads(j)
  <2>1. PICK r : job' = [job EXCEPT ![j] = r] /\ (r = Rest \/ MovesTo(j, r))
    BY <1>1, ReadIs
  <2>2. job'[j] = r /\ \A k \in Jobs \ {j} : job'[k] = job[k]
    BY <2>1, ReadMoves
  <2>3. users' = users /\ job[j].at # "rest"
    BY <1>1, ReadIs
  <2>4. ASSUME r.at \in {"auth", "load", "save"}
        PROVE  MovesTo(j, r) /\ Ahead(j)
    <3>1. MovesTo(j, r)
      BY <2>1, <2>4, RestIsShaped
    <3>2. job[j].kind = "update"
      BY <2>4, <3>1 DEF MovesTo, Shaped
    <3>3. job[j].at # "mail"
      BY <1>1 DEF Reads, Authorise, FindMember, FindExisting, CreateTwice, Load, SaveRefused,
                  FindToDrop, OpenLink, SetPasswordOfNobody, Fail
    <3>4. Shaped(job[j]) /\ job[j].at \in Steps
      BY DEF Typed, TypeOK, Job
    <3> QED
      BY <2>3, <3>1, <3>2, <3>3, <3>4 DEF Shaped, Steps, Ahead
  <2> QED
    BY <2>2, <2>3, <2>4 DEF MovesTo
<1>2. CASE Writes(j)
  BY <1>2, WriteIs, RestIsShaped
<1> QED
  BY <1>1, <1>2, StepIs DEF Writes

LEMMA HandleKeeps ==
    ASSUME PageTyped, CallsFit, NEW j \in Jobs, Handle(j)
    PROVE  CallsKept /\ FormKept
<1>1. /\ \A k \in Jobs \ {j} : job'[k] = job[k]
      /\ job'[j].at \in {"auth", "load", "save"}
         => Ahead(j) /\ job'[j].ask = job[j].ask /\ job'[j].target = job[j].target
            /\ users' = users
  BY HandleIs DEF Handle, PageTyped
<1>2. PICK answer : call' = Calls(j, answer)
  BY DEF Handle
<1>3. call \in [Jobs -> Answers]
  BY DEF PageTyped, PageTypeOK, Answers
<1>4. ASSUME NEW k \in Jobs, call'[k].of = "edit", ~call'[k].outdated,
             job'[k].at \in {"auth", "load", "save"}
      PROVE  /\ call[k].of = "edit" /\ ~call[k].outdated /\ call'[k].touched = call[k].touched
             /\ Ahead(k) /\ job'[k].ask = job[k].ask /\ job'[k].target = job[k].target
             /\ Unseen(Target(k))
  <2>1. CASE k = j
    <3>1. /\ call'[j].of = call[j].of /\ call'[j].touched = call[j].touched
          /\ call'[j].outdated = call[j].outdated
      BY <1>2, <1>3 DEF Calls, Answers
    <3> QED
      BY <1>1, <1>4, <2>1, <3>1 DEF Unseen, Exists
  <2>2. CASE k # j
    <3>1. /\ call'[k].of = call[k].of /\ call'[k].touched = call[k].touched
          /\ call'[k].outdated = (call[k].outdated \/ (call[k].of = "edit" /\ Target(k) \in Altered))
      BY <1>2, <1>3, <2>2 DEF Calls, Answers
    <3>2. job'[k] = job[k]
      BY <1>1, <2>2
    <3>3. Target(k) \in Accounts
      <4>1. Ahead(k) /\ ~call[k].outdated /\ call[k].of = "edit"
        BY <1>4, <3>1, <3>2 DEF Ahead
      <4> QED
        BY <4>1 DEF CallsFit, FormsFit
    <3> QED
      BY <1>4, <3>1, <3>2, <3>3, NotAltered DEF Ahead
  <2> QED
    BY <2>1, <2>2
<1>5. FormKept
  <2>1. ui \in Dialogs
    BY DEF PageTyped, PageTypeOK, Dialogs
  <2>2. /\ ui'.dialog = ui.dialog /\ ui'.form = ui.form /\ ui'.account = ui.account
        /\ ui'.touched = ui.touched
        /\ ui'.outdated = (ui.outdated \/ (ui.dialog = "edit" /\ ui.account \in Altered))
    BY <2>1 DEF Handle, Overtaken, Dialogs
  <2> QED
    BY <2>1, <2>2, NotAltered DEF FormKept, Dialogs
<1> QED
  BY <1>4, <1>5 DEF CallsKept

LEMMA SubmitFits ==
    ASSUME PageTyped, CallsFit, FormFits, NEW j \in Jobs
    PROVE  /\ SubmitEdit(j) => CallsFit'
           /\ SubmitAdd(j) => CallsFit'
           /\ \A a \in Accounts : ConfirmDelete(j, a) => CallsFit'
<1>1. call \in [Jobs -> Answers] /\ job \in [Jobs -> Job]
  BY DEF PageTyped, PageTypeOK, Answers, Typed, TypeOK
<1>2. ASSUME NEW of, NEW request, Call(j, of, request), users' = users,
             \A k \in Jobs \ {j} : job'[k] = job[k],
             of = "edit" => job'[j].ask = ui.form /\ job'[j].target = ui.account
                            /\ ui.dialog = "edit"
      PROVE  CallsFit'
  <2>1. /\ call'[j].of = of /\ call'[j].touched = ui.touched /\ call'[j].outdated = ui.outdated
        /\ \A k \in Jobs \ {j} : call'[k] = call[k]
    BY <1>1, <1>2 DEF Call
  <2> QED
    BY <1>2, <2>1 DEF CallsFit, FormFits, Ahead, Target
<1>3. CASE SubmitEdit(j)
  <2>1. Call(j, "edit", Update(j, Root, ui.account, ui.form)) /\ ui.dialog = "edit"
    BY <1>3 DEF SubmitEdit, MaySave
  <2>2. Update(j, Root, ui.account, ui.form)
    BY <2>1 DEF Call
  <2>3. /\ job'[j].ask = ui.form /\ job'[j].target = ui.account
        /\ \A k \in Jobs \ {j} : job'[k] = job[k]
        /\ users' = users
    BY <1>1, <2>2 DEF Update, Arrive, Rest
  <2> QED
    BY <1>2, <2>1, <2>3
<1>4. CASE SubmitAdd(j)
  <2>1. Call(j, "add", Promote(j, Root, draft.member, draft.ask))
    BY <1>4 DEF SubmitAdd
  <2>2. (\A k \in Jobs \ {j} : job'[k] = job[k]) /\ users' = users
    BY <1>1, <2>1 DEF Call, Promote, Arrive
  <2> QED
    BY <1>2, <2>1, <2>2
<1>5. ASSUME NEW a \in Accounts, ConfirmDelete(j, a) PROVE CallsFit'
  <2>1. Call(j, "delete", Delete(j, Root, a))
    BY <1>5 DEF ConfirmDelete
  <2>2. (\A k \in Jobs \ {j} : job'[k] = job[k]) /\ users' = users
    BY <1>1, <2>1 DEF Call, Delete, Arrive
  <2> QED
    BY <1>2, <2>1, <2>2
<1> QED
  BY <1>3, <1>4, <1>5

\* A form that is opened or filled in.
LEMMA FillFits ==
    ASSUME PageTyped, ListInv, FormFits, UNCHANGED <<users>>,
           \/ \E a \in Accounts : OpenEdit(a)
           \/ \E role \in {"admin", "other"} : ChooseRole(role)
           \/ \E p \in Permissions : ToggleEditPermission(p)
           \/ ToggleAccess
    PROVE  FormFits'
<1>1. ui \in Dialogs /\ ui.form \in Ask /\ ui.account \in Accounts
  BY DEF PageTyped, PageTypeOK, Dialogs
<1>2. ASSUME NEW a \in Accounts, OpenEdit(a) PROVE FormFits'
  <2>1. /\ ui'.form = rows[a] /\ ui'.account = a /\ ui'.outdated = (a \in behind)
        /\ rows[a] # None
    BY <1>2 DEF OpenEdit, RowButtons, InTable, FormOf
  <2>2. ASSUME a \notin behind PROVE FormsFit(users, rows[a], a, ui'.touched)
    <3>1. users[a] # None /\ rows[a] = RowOf(users[a])
      BY <2>1, <2>2 DEF ListInv, Lists, Exists
    <3>2. users[a] \in Account
      BY <3>1 DEF PageTyped, Typed, TypeOK
    <3>3. /\ rows[a].role = users[a].role /\ rows[a].perms = users[a].perms
          /\ rows[a].access = users[a].access /\ rows[a].access \in {"on", "off"}
      BY <3>1, <3>2, RowsAreTyped
    <3>4. ASSUME NEW what \in Touchable PROVE Holds(rows[a], what) = Holds(users[a], what)
      BY <3>3 DEF Holds
    <3> QED
      BY <3>1, <3>3, <3>4 DEF FormsFit, Agrees
  <2> QED
    BY <2>1, <2>2 DEF FormFits
<1>3. ASSUME NEW form \in Ask, NEW what, Fill(form, what), ui.form.access # "keep" => form.access # "keep",
             \A x \in Touchable \ {what} : Holds(form, x) = Holds(ui.form, x)
      PROVE  FormFits'
  <2>1. /\ ui'.form = form /\ ui'.touched = ui.touched \cup {what} /\ ui'.account = ui.account
        /\ ui'.outdated = ui.outdated /\ ui.dialog = "edit"
    BY <1>1, <1>3 DEF Fill, Dialogs
  <2> QED
    BY <1>3, <2>1 DEF FormFits, FormsFit, Agrees
<1>4. ASSUME NEW role \in {"admin", "other"}, ChooseRole(role) PROVE FormFits'
  <2> DEFINE form == [ui.form EXCEPT !.role = role]
  <2>1. /\ form \in Ask /\ form.access = ui.form.access /\ form.perms = ui.form.perms
    BY <1>1 DEF Ask
  <2>2. Fill(form, "role")
    BY <1>4 DEF ChooseRole
  <2> HIDE DEF form
  <2>3. \A x \in Touchable \ {"role"} : Holds(form, x) = Holds(ui.form, x)
    BY <2>1 DEF Holds
  <2> QED
    BY <1>3, <2>1, <2>2, <2>3
<1>5. CASE ToggleAccess
  <2> DEFINE form == [ui.form EXCEPT !.access = Flip(@)]
  <2>1. /\ form \in Ask /\ form.access # "keep" /\ form.perms = ui.form.perms
        /\ form.role = ui.form.role
    BY <1>1 DEF Ask, Flip
  <2>2. Fill(form, "access")
    BY <1>5 DEF ToggleAccess
  <2> HIDE DEF form
  <2>3. \A x \in Touchable \ {"access"} : Holds(form, x) = Holds(ui.form, x)
    BY <2>1 DEF Holds
  <2> QED
    BY <1>3, <2>1, <2>2, <2>3
<1>6. ASSUME NEW p \in Permissions, ToggleEditPermission(p) PROVE FormFits'
  <2> DEFINE form == [ui.form EXCEPT !.perms = FlipIn(@, p)]
  <2>1. /\ form \in Ask /\ form.access = ui.form.access /\ form.role = ui.form.role
        /\ \A x \in Permissions \ {p} : x \in form.perms <=> x \in ui.form.perms
    BY <1>1 DEF Ask, FlipIn
  <2>2. Fill(form, p)
    BY <1>6 DEF ToggleEditPermission
  <2> HIDE DEF form
  <2>3. ASSUME NEW x \in Touchable \ {p} PROVE Holds(form, x) = Holds(ui.form, x)
    <3>1. CASE x \in {"role", "access"}
      BY <2>1, <3>1 DEF Holds
    <3>2. CASE x \in Permissions
      <4>1. (x \in form.perms) = (x \in ui.form.perms)
        BY <2>1, <3>2
      <4>2. x # "role" /\ x # "access"
        BY <3>2 DEF Permissions
      <4> QED
        BY <4>1, <4>2 DEF Holds
    <3> QED
      BY <3>1, <3>2 DEF Touchable
  <2> QED
    BY <1>3, <2>1, <2>2, <2>3
<1> QED
  BY <1>2, <1>4, <1>5, <1>6

\* Everything else leaves what is sent and what is filled in, or gives it up.
LEMMA OthersKeep ==
    ASSUME PageTyped, CallsFit, [PageNext]_pageAndServerVars
    PROVE  \/ CallsKept /\ FormKept /\ (\A a \in Accounts : Unseen(a))
           \/ \E j \in Jobs : Handle(j)
           \/ \E j \in Jobs : SubmitEdit(j) \/ SubmitAdd(j) \/ \E a \in Accounts : ConfirmDelete(j, a)
           \/ /\ UNCHANGED <<vars, call>>
              /\ \/ \E a \in Accounts : OpenEdit(a)
                 \/ \E role \in {"admin", "other"} : ChooseRole(role)
                 \/ \E p \in Permissions : ToggleEditPermission(p)
                 \/ ToggleAccess
<1>1. call \in [Jobs -> Answers] /\ ui \in Dialogs
  BY DEF PageTyped, PageTypeOK, Answers, Dialogs
<1>2. users' = users => \A a : Unseen(a)
  BY DEF Unseen, Exists
<1>3. UNCHANGED <<users, job, call>> => CallsKept
  BY <1>2 DEF CallsKept, Ahead
<1>4. UNCHANGED <<users, ui>> => FormKept
  BY <1>2 DEF FormKept
<1>5. UNCHANGED <<users, job, call, ui>> => CallsKept /\ FormKept /\ \A a \in Accounts : Unseen(a)
  BY <1>2, <1>3, <1>4
<1>6. CASE \/ Refresh \/ ListUsers \/ ShowList \/ ListFails
           \/ (\E a \in Accounts : AskDelete(a) \/ ToastGone(a))
           \/ DraftAccess \/ (\E role \in {"admin", "other"} : DraftRole(role))
           \/ (\E p \in Permissions : TogglePermission(p))
           \/ (\E m \in Members \cup {None} : SelectMember(m))
           \/ UNCHANGED pageAndServerVars
  <2>1. UNCHANGED <<users, job, call, ui>>
    BY <1>6 DEF Refresh, ListUsers, ShowList, ListFails, AskDelete, ToastGone, DraftAccess, DraftRole,
                TogglePermission, SelectMember, FillDraft, vars, pageVars, pageAndServerVars
  <2> QED
    BY <1>5, <2>1
<1>7. CASE CloseDialog \/ OpenAdd
  <2>1. UNCHANGED <<users, job, call>> /\ ui'.dialog # "edit"
    BY <1>1, <1>7 DEF CloseDialog, OpenAdd, Closed, vars, Dialogs
  <2> QED
    BY <1>2, <1>3, <2>1 DEF FormKept
<1>8. ASSUME NEW j \in Jobs, LoseAnswer(j) \/ HearFailed(j) \/ HearDone(j)
      PROVE  CallsKept /\ FormKept /\ \A a \in Accounts : Unseen(a)
  <2>1. UNCHANGED <<users, job>> /\ (ui' = ui \/ ui' = Closed)
    BY <1>8 DEF LoseAnswer, HearFailed, HearDone, DialogAfter, vars
  <2>2. \A k \in Jobs : \/ call'[k].of = "none"
                        \/ /\ call'[k].of = call[k].of /\ call'[k].touched = call[k].touched
                           /\ call'[k].outdated = call[k].outdated
    BY <1>1, <1>8 DEF LoseAnswer, HearFailed, HearDone, NoCall, Answers
  <2> QED
    BY <1>2, <2>1, <2>2 DEF CallsKept, FormKept, Ahead, Closed
<1>9. CASE ServerStops
  <2>1. users' = users /\ ui' = ui /\ \A k \in Jobs : job'[k] = Rest
    BY <1>9 DEF ServerStops, Crash
  <2> QED
    BY <1>2, <2>1, RestIsShaped DEF CallsKept, FormKept
<1>10. CASE Elsewhere
  <2>1. UNCHANGED pageVars
    BY <1>10 DEF Elsewhere
  <2>2. ASSUME NEW j \in Jobs, call[j] = NoCall, Request(j)
        PROVE  CallsKept /\ FormKept /\ \A a \in Accounts : Unseen(a)
    <3>1. AnyRequest(j)
      <4>1. sessions \subseteq Accounts
        BY DEF PageTyped, Typed, TypeOK
      <4> QED
        BY <2>2, <4>1, AsksAssumption DEF Request, AnyRequest
    <3>2. users' = users /\ \A k \in Jobs \ {j} : job'[k] = job[k]
      BY <3>1, ArriveIs DEF PageTyped
    <3> QED
      BY <1>2, <2>1, <2>2, <3>2 DEF CallsKept, FormKept, Ahead, NoCall, pageVars
  <2>3. CASE (\E a \in Accounts : Login(a)) \/ SessionEnds
    BY <1>5, <2>1, <2>3 DEF Login, SessionEnds, pageVars
  <2>4. CASE LinkExpires
    <3>1. (\A a \in Accounts : Unseen(a)) /\ job' = job
      BY <2>4, ExpiryIs DEF PageTyped, OneAccount, Unseen, Exists, RowOf
    <3>2. \A k \in Jobs : call[k].of = "edit" /\ ~call[k].outdated /\ Ahead(k)
                          => Unseen(Target(k))
      BY <3>1 DEF CallsFit, FormsFit
    <3>3. Unseen(ui.account)
      BY <1>1, <3>1 DEF Dialogs
    <3> QED
      BY <2>1, <3>1, <3>2, <3>3 DEF CallsKept, FormKept, Ahead, pageVars
  <2> QED
    BY <1>10, <2>2, <2>3, <2>4 DEF Elsewhere
<1>11. ASSUME \/ \E a \in Accounts : OpenEdit(a)
              \/ \E role \in {"admin", "other"} : ChooseRole(role)
              \/ \E p \in Permissions : ToggleEditPermission(p)
              \/ ToggleAccess
       PROVE  UNCHANGED <<vars, call>>
  BY <1>11 DEF OpenEdit, ChooseRole, ToggleEditPermission, ToggleAccess, Fill
<1> QED
  BY <1>6, <1>7, <1>8, <1>9, <1>10, <1>11 DEF PageNext

LEMMA EditInductive ==
    PageTyped /\ ListInv /\ CallsFit /\ FormFits /\ [PageNext]_pageAndServerVars
    => CallsFit' /\ FormFits'
<1> SUFFICES ASSUME PageTyped, ListInv, CallsFit, FormFits, [PageNext]_pageAndServerVars
             PROVE  CallsFit' /\ FormFits'
  OBVIOUS
<1>1. CASE CallsKept /\ FormKept
  BY <1>1, KeptFits
<1>2. ASSUME NEW j \in Jobs, Handle(j) PROVE CallsFit' /\ FormFits'
  BY <1>2, HandleKeeps, KeptFits
<1>3. ASSUME NEW j \in Jobs, SubmitEdit(j) \/ SubmitAdd(j) \/ \E a \in Accounts : ConfirmDelete(j, a)
      PROVE  CallsFit' /\ FormFits'
  <2>1. UNCHANGED <<users, ui>>
    BY <1>3 DEF SubmitEdit, SubmitAdd, ConfirmDelete, Call, Update, Promote, Delete, Arrive
  <2> QED
    BY <1>3, <2>1, SubmitFits DEF FormFits
<1>4. CASE /\ UNCHANGED <<vars, call>>
           /\ \/ \E a \in Accounts : OpenEdit(a)
              \/ \E role \in {"admin", "other"} : ChooseRole(role)
              \/ \E p \in Permissions : ToggleEditPermission(p)
              \/ ToggleAccess
  BY <1>4, FillFits DEF CallsFit, Ahead, Target, vars
<1> QED
  BY <1>1, <1>2, <1>3, <1>4, OthersKeep

\* The list, and what is read of it, grow old together with their histories.
LEMMA ListStill ==
    ASSUME NEW list, NEW missed, NEW more, Lists(list, missed), missed \subseteq more,
           \A a \in Accounts \ more : Unseen(a)
    PROVE  \A a \in Accounts \ more :
              list[a] # None => users'[a] # None /\ list[a] = RowOf(users'[a])
  BY DEF Lists, Unseen, Exists

LEMMA ListInductive ==
    PageTyped /\ ListInv /\ CallsFit /\ [PageNext]_pageAndServerVars => ListInv'
<1> SUFFICES ASSUME PageTyped, ListInv, CallsFit, [PageNext]_pageAndServerVars PROVE ListInv'
  OBVIOUS
<1>1. ASSUME NEW j \in Jobs, Handle(j) PROVE ListInv'
  <2>1. /\ behind' = behind \cup Altered /\ UNCHANGED <<rows, fetching, arriving>>
        /\ fetching = "read" => since' = since \cup Altered
    BY <1>1 DEF Handle, Overtaken
  <2> QED
    <3>1. \A a \in Accounts \ behind' : Unseen(a)
      BY <2>1, NotAltered
    <3>2. \A a \in Accounts \ behind' :
             rows[a] # None => users'[a] # None /\ rows[a] = RowOf(users'[a])
      BY <2>1, <3>1, ListStill DEF ListInv
    <3>3. fetching = "read" =>
             \A a \in Accounts \ since' :
                arriving[a] # None => users'[a] # None /\ arriving[a] = RowOf(users'[a])
      <4>1. fetching = "read" => \A a \in Accounts \ since' : Unseen(a)
        BY <2>1, NotAltered
      <4> QED
        BY <2>1, <4>1, ListStill DEF ListInv
    <3> QED
      BY <2>1, <3>2, <3>3 DEF ListInv, Lists, Exists
<1>2. CASE ListUsers
  <2>1. users' = users /\ rows' = rows /\ behind' = behind /\ arriving' = Listing
    BY <1>2 DEF ListUsers, vars
  <2>2. \A a \in Accounts : Listing[a] # None => users[a] # None /\ Listing[a] = RowOf(users[a])
    BY DEF Listing, Exists
  <2> QED
    BY <2>1, <2>2 DEF ListInv, Lists, Exists
<1>3. CASE ShowList
  BY <1>3 DEF ShowList, ListInv, Lists, Exists, vars
<1>4. CASE Refresh \/ ListFails \/ \E j \in Jobs : HearDone(j)
  BY <1>4 DEF Refresh, ListFails, HearDone, ListInv, Lists, Exists, vars
<1>5. ASSUME UNCHANGED <<rows, fetching, arriving, behind, since>>, \A a \in Accounts : Unseen(a)
      PROVE  ListInv'
  <2>1. \A a \in Accounts \ behind : rows[a] # None => users'[a] # None /\ rows[a] = RowOf(users'[a])
    BY <1>5, ListStill DEF ListInv
  <2>2. fetching = "read" =>
           \A a \in Accounts \ since :
              arriving[a] # None => users'[a] # None /\ arriving[a] = RowOf(users'[a])
    BY <1>5, ListStill DEF ListInv
  <2> QED
    BY <1>5, <2>1, <2>2 DEF ListInv, Lists, Exists
<1>6. CASE \/ \E a \in Accounts : OpenEdit(a) \/ AskDelete(a) \/ ToastGone(a)
           \/ \E role \in {"admin", "other"} : ChooseRole(role) \/ DraftRole(role)
           \/ \E p \in Permissions : ToggleEditPermission(p) \/ TogglePermission(p)
           \/ ToggleAccess \/ DraftAccess \/ CloseDialog \/ OpenAdd
           \/ \E m \in Members \cup {None} : SelectMember(m)
  <2>1. UNCHANGED <<users, rows, fetching, arriving, behind, since>>
    BY <1>6 DEF OpenEdit, AskDelete, ToastGone, ChooseRole, DraftRole, ToggleEditPermission,
                TogglePermission, ToggleAccess, DraftAccess, CloseDialog, OpenAdd, SelectMember,
                Fill, FillDraft, vars
  <2> QED
    BY <1>5, <2>1 DEF Unseen, Exists
<1>7. ASSUME NEW j \in Jobs, \/ SubmitEdit(j) \/ SubmitAdd(j) \/ LoseAnswer(j) \/ HearFailed(j)
                             \/ \E a \in Accounts : ConfirmDelete(j, a)
      PROVE  ListInv'
  <2>1. UNCHANGED <<users, rows, fetching, arriving, behind, since>>
    BY <1>7 DEF SubmitEdit, SubmitAdd, ConfirmDelete, Call, Update, Promote, Delete, Arrive,
                LoseAnswer, HearFailed, vars
  <2> QED
    BY <1>5, <2>1 DEF Unseen, Exists
<1>8. CASE Elsewhere \/ ServerStops
  <2>1. UNCHANGED <<rows, fetching, arriving, behind, since>>
    BY <1>8 DEF Elsewhere, ServerStops, pageVars
  <2>2. \A a \in Accounts : Unseen(a)
    <3>1. CASE LinkExpires
      BY <3>1, ExpiryIs DEF PageTyped, OneAccount, Unseen, Exists, RowOf
    <3>2. CASE ~LinkExpires
      <4>3. ASSUME NEW j, NEW r, Arrive(j, r) PROVE users' = users
        BY <4>3 DEF Arrive
      <4>2. \A j \in Jobs : Request(j) => users' = users
        BY <4>3 DEF Request, Promote, Update, Delete, UseLink
      <4>1. users' = users
        BY <1>8, <3>2, <4>2 DEF Elsewhere, ServerStops, Crash, Login, SessionEnds
      <4> QED
        BY <4>1 DEF Unseen, Exists
    <3> QED
      BY <3>1, <3>2
  <2> QED
    BY <1>5, <2>1, <2>2
<1>9. CASE UNCHANGED pageAndServerVars
  BY <1>9 DEF pageAndServerVars, vars, pageVars, ListInv, Lists, Exists
<1> QED
  BY <1>1, <1>2, <1>3, <1>4, <1>6, <1>7, <1>8, <1>9 DEF PageNext

LEMMA HoldsIs ==
    ASSUME NEW u
    PROVE  /\ Holds(u, "role") = u.role /\ Holds(u, "access") = u.access
           /\ \A p \in Permissions : Holds(u, p) = (p \in u.perms)
  BY DEF Holds, Permissions

\* Saving the form changes what was touched.
LEMMA SaveChangesTheTouched ==
    ASSUME PageTyped, CallsFit, NEW j \in Jobs, Save(j), call[j].of = "edit", ~call[j].outdated,
           NEW what \in Touchable \ call[j].touched
    PROVE  Holds(users'[Target(j)], what) = Holds(users[Target(j)], what)
<1>1. job[j].at = "save" /\ Exists(Target(j)) /\ Typed
  BY DEF Save, PageTyped
<1>2. FormsFit(users, job[j].ask, Target(j), call[j].touched)
  BY <1>1 DEF CallsFit, Ahead
<1>3. Holds(job[j].ask, what) = Holds(users[Target(j)], what) /\ job[j].ask.access # "keep"
  BY <1>2 DEF FormsFit, Agrees
<1>4. users'[Target(j)] = Saved(j)
  BY <1>1, SaveIs
<1>5. PICK new, old, ask, read : /\ new = Saved(j) /\ old = users[Target(j)]
                                 /\ ask = job[j].ask /\ read = job[j].read
  OBVIOUS
<1>6. /\ new.role = IF ask.role # read.role THEN ask.role ELSE old.role
      /\ new.perms = IF ask.perms # read.perms THEN ask.perms ELSE old.perms
      /\ new.access = IF ask.access # read.access THEN ask.access ELSE old.access
  BY <1>1, <1>3, <1>5, SavedIs
<1>7. Holds(ask, what) = Holds(old, what) /\ ask.access # "keep"
  BY <1>3, <1>5
<1>8. Holds(new, what) = Holds(old, what)
  <2>1. CASE what = "role"
    BY <1>6, <1>7, <2>1, HoldsIs
  <2>2. CASE what = "access"
    BY <1>6, <1>7, <2>2, HoldsIs
  <2>3. CASE what \in Permissions
    BY <1>6, <1>7, <2>3, HoldsIs
  <2> QED
    BY <2>1, <2>2, <2>3 DEF Touchable
<1> HIDE DEF Saved
<1> QED
  BY <1>4, <1>5, <1>8

LEMMA EditsOnlyTouch ==
    ASSUME PageTyped, CallsFit, [PageNext]_pageAndServerVars,
           NEW j \in Jobs, call[j].of = "edit", job[j].at = "save", job'[j].at # "save",
           ~call[j].outdated, Exists(Target(j)), NEW what \in Touchable \ call[j].touched
    PROVE  Holds(users'[Target(j)], what) = Holds(users[Target(j)], what)
<1>1. Typed /\ [AnyNext]_vars
  BY PageSteps DEF PageTyped
<1>2. CASE Looks
  BY <1>2 DEF Looks
<1>3. CASE LinkExpires
  BY <1>3 DEF LinkExpires
<1>4. ASSUME NEW k \in Jobs, Create(k) \/ Save(k) \/ Drop(k) \/ SetPassword(k) \/ Mail(k)
      PROVE  Save(j)
  <2>1. k = j
    BY <1>1, <1>4, WriteIs DEF Writes
  <2> QED
    BY <1>4, <2>1 DEF Create, Drop, SetPassword, Mail
<1>5. CASE Save(j)
  BY <1>5, SaveChangesTheTouched
<1> QED
  BY <1>1, <1>2, <1>3, <1>4, <1>5, StepCases

LEMMA EditInitially == PageInit => ListInv /\ CallsFit /\ FormFits
  BY DEF PageInit, ListInv, CallsFit, FormFits, Lists, Empty, NoCall, Closed

\* Saving the dialog of an account changes what was touched in it and nothing else,
\* although all of the form is sent, unless the account was changed since the row the
\* dialog started from was read.
THEOREM EditsTouchOnlyTheTouched == PageSpec => EditsUndoOnlyWhatTheListMissed
<1>1. ASSUME PageTyped, CallsFit, [PageNext]_pageAndServerVars
      PROVE  \A j \in Jobs :
                (call[j].of = "edit" /\ job[j].at = "save" /\ job'[j].at # "save"
                   /\ ~call[j].outdated /\ Exists(Target(j)))
                => \A what \in Touchable \ call[j].touched :
                      Holds(users'[Target(j)], what) = Holds(users[Target(j)], what)
  BY <1>1, EditsOnlyTouch
<1> QED
  BY <1>1, PageTypedInitially, PageTypedInductive, EditInitially, EditInductive, ListInductive,
     PTL DEF PageSpec, EditsUndoOnlyWhatTheListMissed

\* With the page at work, too, no change of permissions is lost unseen.
THEOREM NoPermissionsLostWithThePage == PageSpec => PermissionsReplacedKnowingly
<1>1. PageInit => LinkInv /\ VersionsTell
  BY LinksInitially, RestIsShaped DEF PageInit, Init, VersionsTell
<1>2. PageTyped /\ LinkInv /\ VersionsTell /\ [PageNext]_pageAndServerVars
      => LinkInv' /\ VersionsTell'
  BY PageSteps, LinksInductive, VersionsInductive DEF PageTyped, LinkInv
<1>3. ASSUME PageTyped, VersionsTell, [PageNext]_pageAndServerVars
      PROVE  [\A j \in Jobs :
                Save(j) /\ users'[Target(j)].perms # users[Target(j)].perms
                => users[Target(j)].perms = job[j].read.perms]_vars
  BY <1>3, SavedKnowingly DEF PageTyped
<1> QED
  BY <1>1, <1>2, <1>3, PageTypedInitially, PageTypedInductive, PTL
  DEF PageSpec, PermissionsReplacedKnowingly
====
