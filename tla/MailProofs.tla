---- MODULE MailProofs ----
(***************************************************************************)
(* Proofs about Startup, MailCenter and the MailerPage in front of it, for *)
(* every set of templates, addresses and concurrent requests.              *)
(***************************************************************************)
EXTENDS MailerPage, FiniteSetTheorems, SequenceTheorems, TLAPS

USE DefaultAssumption, OlderAssumption

-----------------------------------------------------------------------------
(* The start-up.                                                           *)

\* How far the index is at each step, unless an error was ignored.
IndexInv ==
    ~missed => /\ ~doubled
               /\ phase = "drop" => index = "legacy"
               /\ phase = "create" => index \in {"none", "sparse"}
               /\ phase \in {"seed", "up"} => index = "sparse"

StartTyped == StartTypeOK /\ IndexInv

\* What a step does to the templates: none, one more, or the same ones with
\* another text or fewer of them.
OneMore(key, text, base) ==
    /\ created < MaxIds /\ created' = created + 1
    /\ ~Holds(key)
    /\ templates' = templates \cup
          {[id |-> created + 1, key |-> key, text |-> text, base |-> base]}

Rewritten ==
    /\ created' = created
    /\ \A n \in templates' : \E t \in templates : n.id = t.id /\ n.key = t.key
    /\ \A n, m \in templates' : n.id = m.id => n = m

TemplatesGo ==
    \/ \E key \in Keys \cup OwnKeys, text \in Texts \cup {Default}, base \in BOOLEAN :
          OneMore(key, text, base)
    \/ Rewritten /\ templates' \subseteq Template

\* The numbers and the keys of the templates are unique.
UniqueInv ==
    /\ \A t \in templates : t.id <= created
    /\ \A t, u \in templates : t.id = u.id \/ t.key = u.key => t = u

LEMMA TemplatesStay ==
    ASSUME StartTypeOK, UniqueInv, templates' \subseteq templates, created' = created
    PROVE  TemplatesGo
  BY DEF TemplatesGo, Rewritten, UniqueInv, StartTypeOK

LEMMA TemplatesTyped ==
    ASSUME StartTypeOK, UniqueInv, TemplatesGo
    PROVE  templates' \subseteq Template /\ created' \in 0 .. MaxIds /\ created <= created' /\ UniqueInv'
<1>0. created \in Nat /\ \A t \in templates : t.id \in Nat
  BY DEF StartTypeOK, Template
<1>1. ASSUME NEW key \in Keys \cup OwnKeys, NEW text \in Texts \cup {Default},
             NEW base \in BOOLEAN, OneMore(key, text, base)
      PROVE  templates' \subseteq Template /\ created' \in 0 .. MaxIds /\ created <= created' /\ UniqueInv'
  <2> DEFINE n == [id |-> created + 1, key |-> key, text |-> text, base |-> base]
  <2>1. n \in Template /\ created' \in 0 .. MaxIds /\ created' = created + 1
    BY <1>0, <1>1 DEF OneMore, Template, StartTypeOK
  <2>2. n.id = created + 1 /\ n.key = key
    OBVIOUS
  <2>3. templates' = templates \cup {n}
    BY <1>1 DEF OneMore
  <2>4. \A t \in templates : t.id # n.id /\ t.key # n.key
    BY <1>0, <1>1, <2>2 DEF OneMore, Holds, UniqueInv
  <2> HIDE DEF n
  <2>5. UniqueInv'
    BY <1>0, <2>1, <2>2, <2>3, <2>4 DEF UniqueInv
  <2> QED
    BY <1>0, <2>1, <2>3, <2>5 DEF StartTypeOK
<1>2. CASE Rewritten /\ templates' \subseteq Template
  <2>1. UniqueInv'
    <3>1. \A n \in templates' : n.id <= created'
      BY <1>2 DEF Rewritten, UniqueInv
    <3>2. ASSUME NEW n \in templates', NEW m \in templates', n.key = m.key PROVE n = m
      <4>1. PICK t \in templates : n.id = t.id /\ n.key = t.key
        BY <1>2 DEF Rewritten
      <4>2. PICK u \in templates : m.id = u.id /\ m.key = u.key
        BY <1>2 DEF Rewritten
      <4>3. t = u
        BY <3>2, <4>1, <4>2 DEF UniqueInv
      <4> QED
        BY <1>2, <4>1, <4>2, <4>3 DEF Rewritten
    <3> QED
      BY <1>2, <3>1, <3>2 DEF Rewritten, UniqueInv
  <2> QED
    BY <1>0, <1>2, <2>1 DEF Rewritten, StartTypeOK
<1> QED
  BY <1>1, <1>2 DEF TemplatesGo

LEMMA StartUpTyped ==
    ASSUME StartTyped, UniqueInv, StartUp \/ DoubleAdmission
    PROVE  /\ phase' \in {"down", "index", "drop", "create", "seed", "up"}
           /\ index' \in {"legacy", "none", "sparse"}
           /\ doubled' \in BOOLEAN /\ missed' \in BOOLEAN
           /\ IndexInv' /\ TemplatesGo
<1> USE DEF StartTyped
<1>1. ASSUME NEW key \in Keys, Seed(key) PROVE TemplatesGo /\ UNCHANGED <<phase, index, doubled, missed>>
  <2>1. OneMore(key, Default, TRUE)
    BY <1>1 DEF Seed, OneMore
  <2> QED
    BY <1>1, <2>1 DEF Seed, TemplatesGo
<1>2. CASE ~\E key \in Keys : Seed(key)
  <2>1. templates' = templates /\ created' = created
    BY <1>2 DEF StartUp, Connect, ReadIndexes, DropIndex, CreateIndex, AutoIndex, Listen,
                DoubleAdmission
  <2>2. TemplatesGo
    BY <2>1, TemplatesStay
  <2>3. /\ phase' \in {"down", "index", "drop", "create", "seed", "up"}
        /\ index' \in {"legacy", "none", "sparse"}
        /\ doubled' \in BOOLEAN /\ missed' \in BOOLEAN
    BY <1>2 DEF StartTypeOK, StartUp, Connect, ReadIndexes, RepairOf, DropIndex, CreateIndex,
                AutoIndex, Listen, DoubleAdmission
  <2>4. IndexInv'
    BY <1>2 DEF StartTypeOK, IndexInv, StartUp, Connect, ReadIndexes, RepairOf, DropIndex,
                CreateIndex, AutoIndex, Listen, DoubleAdmission
  <2> QED
    BY <2>2, <2>3, <2>4
<1>3. CASE \E key \in Keys : Seed(key)
  BY <1>1, <1>3 DEF StartTypeOK, IndexInv
<1> QED
  BY <1>2, <1>3

-----------------------------------------------------------------------------
(* The batches of a bulk mail.                                             *)

\* A batch and the rest after it are, in their order, what was left before.
LEMMA BatchAndRest ==
    ASSUME NEW todo \in Seq(Recipients)
    PROVE  /\ NextBatch(todo) \in Seq(Recipients)
           /\ RestAfter(todo, NextBatch(todo)) \in Seq(Recipients)
           /\ NextBatch(todo) \o RestAfter(todo, NextBatch(todo)) = todo
<1> DEFINE n == IF Len(todo) < Batch THEN Len(todo) ELSE Batch
<1>1. Len(todo) \in Nat /\ Batch \in Nat /\ \A i \in 1 .. Len(todo) : todo[i] \in Recipients
  BY BatchAssumption, LenProperties, ElementOfSeq
<1>2. n \in 0 .. Len(todo) /\ NextBatch(todo) = SubSeq(todo, 1, n)
  BY <1>1 DEF NextBatch
<1> HIDE DEF n
<1>3. NextBatch(todo) \in Seq(Recipients) /\ Len(NextBatch(todo)) = n
  BY <1>1, <1>2, SubSeqProperties
<1>4. RestAfter(todo, NextBatch(todo)) = SubSeq(todo, n + 1, Len(todo))
  BY <1>3 DEF RestAfter
<1>5. SubSeq(todo, n + 1, Len(todo)) \in Seq(Recipients)
  BY <1>1, <1>2, SubSeqProperties
<1>6. SubSeq(todo, 1, n) \o SubSeq(todo, n + 1, Len(todo)) = todo
  <2>1. 1 \in 1 .. Len(todo) + 1 /\ n \in 1 - 1 .. Len(todo) /\ Len(todo) \in n .. Len(todo)
    BY <1>1, <1>2
  <2>2. SubSeq(todo, 1, n) \o SubSeq(todo, n + 1, Len(todo)) = SubSeq(todo, 1, Len(todo))
    BY <2>1, ConcatAdjacentSubSeq, Zenon
  <2> QED
    BY <2>2, SubSeqFull, Zenon
<1> QED
  BY <1>2, <1>3, <1>4, <1>5, <1>6

LEMMA TriedGrows ==
    ASSUME NEW tried \in Seq(Recipients), NEW batch \in Seq(Recipients),
           NEW rest \in Seq(Recipients)
    PROVE  (tried \o batch) \o rest = tried \o (batch \o rest)
  BY ConcatAssociative

\* The members are addresses, none of them twice.
LEMMA MembersAreASeq ==
    ASSUME NEW to \in MemberLists
    PROVE  to \in Seq(Recipients) /\ NoneTwice(to)
<1>1. PICK n \in 0 .. Cardinality(Recipients) : to \in [1 .. n -> Recipients]
  BY DEF MemberLists
<1>2. Cardinality(Recipients) \in Nat
  BY ListsAssumption, FS_CardinalityType
<1>3. n \in Nat
  BY <1>1, <1>2
<1>4. to \in Seq(Recipients)
  BY <1>1, <1>3, SeqDef
<1> QED
  BY <1>4 DEF MemberLists, NoneTwice

-----------------------------------------------------------------------------
(* The handlers.                                                           *)

\* What was tried and what is left are what the mail goes to.
Halves(r) == r.tried \o r.todo = r.to

ListOf(r) == r.mode = "all" => NoneTwice(r.to)

\* What a handler at a step carries, and which request it serves there.
JobShaped(r) ==
    /\ r \in Job
    /\ r.at = "look" => r.kind = "create"
    /\ r.at = "insert" => r.kind \in {"create", "notify"}
    /\ r.at \in {"find", "upsert", "overwrite"} => r.kind = "notify"
    /\ r.at \in {"look", "insert"} /\ r.kind = "create" =>
          r.key \in Keys \cup OwnKeys /\ r.text \in Texts \cup {Default}
    /\ r.at \in {"find", "upsert", "insert", "overwrite"} /\ r.kind = "notify" => r.key \in Keys
    /\ r.at = "load" => r.kind \in {"save", "delete", "bulk"}
    /\ r.at = "save" \/ (r.at = "load" /\ r.kind = "save") => r.text \in Texts \cup {Default}
    /\ r.at = "members" => r.kind = "bulk" /\ r.mode = "all"
    /\ r.at \in {"load", "members"} => r.tried = <<>>
    /\ r.at = "batch" => Halves(r) /\ ListOf(r)

Upserting(r) == r.at \in {"upsert", "insert", "overwrite"} /\ r.kind = "notify"

\* A step of a handler; how it comes to write a template it had missed.
JobOnward(j, r) ==
    /\ job' = [job EXCEPT ![j] = r]
    /\ JobShaped(r)
    /\ \/ ~Upserting(r)
       \/ r.at = "upsert" /\ r.since = created /\ ~Holds(r.key)
       \/ /\ job[j].at = "upsert" /\ job[j].kind = "notify"
          /\ r.key = job[j].key /\ r.since = job[j].since
          /\ r.at = "overwrite" => \E t \in templates : t.key = r.key /\ t.id = r.id

JobsTyped == job \in [Jobs -> Job] /\ \A j \in Jobs : JobShaped(job[j])

LEMMA RestIsAJob == Rest \in Job
<1>1. <<>> \in Seq(Recipients)
  BY EmptySeq, Zenon
<1> QED
  BY <1>1 DEF Rest, Job, Kinds

LEMMA RestIsShaped ==
    JobShaped(Rest) /\ ~Upserting(Rest) /\ Rest.at = "rest" /\ ~Rest.mine
  BY RestIsAJob DEF JobShaped, Rest, Upserting

LEMMA JobRests ==
    ASSUME NEW j \in Jobs, job' = [job EXCEPT ![j] = Rest]
    PROVE  JobOnward(j, Rest)
  BY RestIsShaped DEF JobOnward

LEMMA JobFinishes ==
    ASSUME JobsTyped, answers \subseteq Answer, NEW j \in Jobs,
           NEW ok \in BOOLEAN, NEW id \in {0} \cup Ids, Finish(j, ok, id)
    PROVE  JobOnward(j, Rest) /\ answers' \subseteq Answer
<1>1. JobOnward(j, Rest)
  BY JobRests DEF Finish
<1>2. [kind |-> job[j].kind, ok |-> ok, id |-> id] \in Answer
  BY DEF JobsTyped, Job, Answer
<1> QED
  BY <1>1, <1>2 DEF Finish

\* A handler that moves on with nothing learnt.
LEMMA JobMoves ==
    ASSUME JobsTyped, NEW j \in Jobs, NEW to, job' = [job EXCEPT ![j].at = to],
           \/ job[j].at = "look" /\ to = "insert" /\ job[j].kind = "create"
           \/ job[j].at = "load" /\ job[j].kind = "delete" /\ to = "drop"
           \/ job[j].at = "load" /\ job[j].kind = "bulk" /\ job[j].mode = "all" /\ to = "members"
           \/ to = "mail"
           \/ job[j].at = "upsert" /\ to = "insert"
    PROVE  \E r : JobOnward(j, r)
<1> DEFINE r == [job[j] EXCEPT !.at = to]
<1>1. job[j] \in Job /\ JobShaped(job[j])
  BY DEF JobsTyped
<1>2. /\ r.at = to /\ r.kind = job[j].kind /\ r.key = job[j].key /\ r.text = job[j].text
      /\ r.mode = job[j].mode /\ r.tried = job[j].tried /\ r.since = job[j].since
  BY <1>1 DEF Job
<1>3. r \in Job
  BY <1>1 DEF Job
<1>4. job' = [job EXCEPT ![j] = r]
  OBVIOUS
<1> HIDE DEF r
<1>5. JobShaped(r)
  BY <1>1, <1>2, <1>3 DEF JobShaped
<1>6. JobOnward(j, r)
  BY <1>1, <1>2, <1>4, <1>5 DEF JobOnward, Upserting, JobShaped
<1> QED
  BY <1>6

\* A bulk mail whose addresses are known.
LEMMA SendingStarts ==
    ASSUME JobsTyped, NEW j \in Jobs, job[j].at \in {"load", "members"}, job[j].kind = "bulk",
           NEW to \in Seq(Recipients), StartSending(j, to), job[j].mode = "all" => NoneTwice(to)
    PROVE  \E r : JobOnward(j, r)
<1> DEFINE r == [job[j] EXCEPT !.at = "batch", !.to = to, !.todo = to]
<1>1. job[j] \in Job /\ job[j].tried = <<>>
  BY DEF JobsTyped, JobShaped
<1>2. job' = [job EXCEPT ![j] = r]
  BY DEF StartSending, JobsTyped
<1>3. r \in Job
  BY <1>1 DEF Job
<1>4. /\ r.at = "batch" /\ r.kind = "bulk" /\ r.mode = job[j].mode
      /\ r.tried = <<>> /\ r.todo = to /\ r.to = to
  BY <1>1 DEF Job
<1> HIDE DEF r
<1>5. Halves(r) /\ ListOf(r)
  BY <1>4, ConcatEmptySeq DEF Halves, ListOf
<1>6. JobShaped(r) /\ ~Upserting(r)
  BY <1>3, <1>4, <1>5 DEF JobShaped, Upserting
<1> QED
  BY <1>2, <1>6 DEF JobOnward

ServerTyped ==
    /\ StartTyped /\ UniqueInv
    /\ JobsTyped
    /\ received \in 0 .. MaxRequests
    /\ answers \subseteq Answer

\* What a step of a handler does besides.
Serves(j) ==
    /\ \E r : JobOnward(j, r)
    /\ TemplatesGo
    /\ answers' \subseteq Answer
    /\ UNCHANGED <<phase, index, doubled, missed, received>>

LEMMA ReadsServe ==
    ASSUME ServerTyped, NEW j \in Jobs, UNCHANGED <<startVars, received>>,
           \E r : JobOnward(j, r), answers' \subseteq Answer
    PROVE  Serves(j)
<1>1. TemplatesGo
  BY TemplatesStay DEF startVars, ServerTyped, StartTyped
<1> QED
  BY <1>1 DEF Serves, startVars

\* Rewriting the one document under an ID.
LEMMA RewriteTyped ==
    ASSUME StartTypeOK, UniqueInv, NEW id, NEW S,
           templates' = (templates \ Found(id)) \cup S, created' = created,
           \A n \in S : n \in Template /\ \E t \in Found(id) : n.id = t.id /\ n.key = t.key,
           \A n, m \in S : n = m
    PROVE  TemplatesGo
<1>1. templates' \subseteq Template
  BY DEF StartTypeOK
<1>2. \A n \in templates' : \E t \in templates : n.id = t.id /\ n.key = t.key
  BY DEF Found
<1>3. \A n, m \in templates' : n.id = m.id => n = m
  BY DEF Found, UniqueInv
<1> QED
  BY <1>1, <1>2, <1>3 DEF TemplatesGo, Rewritten

LEMMA FoundIsOne ==
    ASSUME StartTypeOK, UniqueInv, NEW id
    PROVE  /\ \A t \in Found(id) : t \in templates /\ t \in Template /\ t.id = id
           /\ \A t, u \in Found(id) : t = u
  BY DEF StartTypeOK, UniqueInv, Found

LEMMA BuiltInTyped ==
    ASSUME NEW t \in Template, NEW j
    PROVE  /\ BuiltIn(t, j) \in Template
           /\ BuiltIn(t, j).id = t.id /\ BuiltIn(t, j).key = t.key
<1>1. BuiltIn(t, j) \in Template
  BY DEF BuiltIn, Template
<1>2. BuiltIn(t, j).id = t.id /\ BuiltIn(t, j).key = t.key
  BY DEF BuiltIn, Template
<1> QED
  BY <1>1, <1>2

LEMMA LookServes ==
    ASSUME ServerTyped, NEW j \in Jobs, LookForKey(j) \/ InsertTemplate(j)
    PROVE  Serves(j)
<1> USE DEF ServerTyped, StartTyped
<1>0. job[j] \in Job /\ JobShaped(job[j])
  BY DEF JobsTyped
<1>1. CASE LookForKey(j)
  <2>1. (\E r : JobOnward(j, r)) /\ answers' \subseteq Answer
    <3>1. CASE Finish(j, FALSE, 0)
      BY <3>1, JobFinishes
    <3>2. CASE Move(j, "insert")
      BY <1>0, <1>1, <3>2, JobMoves DEF Move, LookForKey, JobShaped
    <3> QED
      BY <1>1, <3>1, <3>2 DEF LookForKey
  <2> QED
    BY <1>1, <2>1, ReadsServe DEF LookForKey
<1>2. CASE InsertTemplate(j)
  <2>1. CASE Holds(job[j].key)
    <3>1. Finish(j, FALSE, 0) /\ UNCHANGED <<templates, created>>
      BY <1>2, <2>1 DEF InsertTemplate
    <3> QED
      BY <1>2, <3>1, JobFinishes, TemplatesStay DEF InsertTemplate, Serves
  <2>2. CASE ~Holds(job[j].key)
    <3>1. /\ Insert(job[j].key, job[j].text, FALSE) /\ Finish(j, TRUE, created + 1)
          /\ job[j].kind = "create" /\ job[j].at = "insert"
      BY <1>2, <2>2 DEF InsertTemplate
    <3>2. job[j].key \in Keys \cup OwnKeys /\ job[j].text \in Texts \cup {Default}
      BY <1>0, <3>1 DEF JobShaped
    <3>3. OneMore(job[j].key, job[j].text, FALSE)
      BY <2>2, <3>1 DEF OneMore, Insert
    <3>4. created + 1 \in Ids
      BY <3>1 DEF Insert, Ids, StartTypeOK
    <3>5. TemplatesGo
      BY <3>2, <3>3 DEF TemplatesGo
    <3> QED
      BY <1>2, <3>1, <3>4, <3>5, JobFinishes DEF InsertTemplate, Serves
  <2> QED
    BY <2>1, <2>2
<1> QED
  BY <1>1, <1>2

LEMMA LoadServes ==
    ASSUME ServerTyped, NEW j \in Jobs, LoadTemplate(j)
    PROVE  Serves(j)
<1> USE DEF ServerTyped, StartTyped
<1>0. job[j] \in Job /\ JobShaped(job[j]) /\ job[j].at = "load"
  BY DEF JobsTyped, LoadTemplate
<1>1. ASSUME Finish(j, FALSE, 0) PROVE (\E r : JobOnward(j, r)) /\ answers' \subseteq Answer
  BY <1>1, JobFinishes
<1>2. ASSUME NEW t \in Found(job[j].id), job[j].kind = "save",
             job' = [job EXCEPT ![j].at = "save", ![j].had = t.text]
      PROVE  \E r : JobOnward(j, r)
  <2> DEFINE r == [job[j] EXCEPT !.at = "save", !.had = t.text]
  <2>1. job' = [job EXCEPT ![j] = r]
    BY <1>2 DEF JobsTyped
  <2>2. t.text \in Texts \cup {Default}
    BY FoundIsOne DEF Template
  <2>3. r \in Job
    BY <1>0, <2>2 DEF Job
  <2>4. r.at = "save" /\ r.kind = "save" /\ r.text = job[j].text
    BY <1>0, <1>2 DEF Job
  <2> HIDE DEF r
  <2>5. JobShaped(r) /\ ~Upserting(r)
    BY <1>0, <1>2, <2>3, <2>4 DEF JobShaped, Upserting
  <2> QED
    BY <2>1, <2>5 DEF JobOnward
<1>3. ASSUME NEW t \in Found(job[j].id), job[j].kind # "save",
             \/ Finish(j, FALSE, 0)
             \/ job[j].kind = "delete" /\ Move(j, "drop")
             \/ job[j].kind # "delete" /\ AddressBulk(j)
      PROVE  (\E r : JobOnward(j, r)) /\ answers' \subseteq Answer
  <2>1. CASE Finish(j, FALSE, 0)
    BY <1>1, <2>1
  <2>2. CASE job[j].kind = "delete" /\ Move(j, "drop")
    BY <1>0, <2>2, JobMoves DEF Move
  <2>3. CASE job[j].kind # "delete" /\ AddressBulk(j)
    <3>1. job[j].kind = "bulk"
      BY <1>0, <1>3, <2>3 DEF JobShaped
    <3>2. CASE job[j].mode = "all" /\ Move(j, "members")
      BY <1>0, <3>1, <3>2, JobMoves DEF Move
    <3>3. CASE Finish(j, FALSE, 0)
      BY <1>1, <3>3
    <3>4. CASE job[j].mode # "all" /\ StartSending(j, job[j].to)
      <4>1. job[j].to \in Seq(Recipients)
        BY <1>0 DEF Job
      <4> QED
        BY <1>0, <3>1, <3>4, <4>1, SendingStarts DEF StartSending
    <3> QED
      BY <2>3, <3>2, <3>3, <3>4 DEF AddressBulk
  <2> QED
    BY <1>3, <2>1, <2>2, <2>3
<1>4. (\E r : JobOnward(j, r)) /\ answers' \subseteq Answer
  <2>1. CASE Found(job[j].id) = {} /\ Finish(j, FALSE, 0)
    BY <1>1, <2>1
  <2>2. ASSUME NEW t \in Found(job[j].id),
               CASE job[j].kind = "save" ->
                      /\ job' = [job EXCEPT ![j].at = "save", ![j].had = t.text]
                      /\ UNCHANGED answers
                 [] job[j].kind = "delete" ->
                      IF t.base THEN Finish(j, FALSE, 0) ELSE Move(j, "drop")
                 [] OTHER -> AddressBulk(j)
        PROVE  (\E r : JobOnward(j, r)) /\ answers' \subseteq Answer
    <3>1. CASE job[j].kind = "save"
      BY <1>2, <2>2, <3>1
    <3>2. CASE job[j].kind # "save"
      BY <1>3, <2>2, <3>2
    <3> QED
      BY <3>1, <3>2
  <2> QED
    BY <2>1, <2>2 DEF LoadTemplate
<1> QED
  BY <1>4, ReadsServe DEF LoadTemplate

LEMMA WriteServes ==
    ASSUME ServerTyped, NEW j \in Jobs, SaveTemplate(j) \/ DropTemplate(j) \/ Overwrite(j)
    PROVE  Serves(j)
<1> USE DEF ServerTyped, StartTyped
<1>0. job[j] \in Job /\ JobShaped(job[j])
  BY DEF JobsTyped
<1>1. CASE SaveTemplate(j)
  <2> DEFINE S == {Written(t, j) : t \in Found(job[j].id)}
  <2>1. job[j].text \in Texts \cup {Default}
    BY <1>0, <1>1 DEF SaveTemplate, JobShaped
  <2>2. ASSUME NEW t \in Found(job[j].id)
        PROVE  Written(t, j) \in Template /\ Written(t, j).id = t.id /\ Written(t, j).key = t.key
    <3>1. t \in Template
      BY FoundIsOne
    <3> QED
      BY <2>1, <3>1 DEF Written, Template
  <2>3. \A n \in S : n \in Template /\ \E t \in Found(job[j].id) : n.id = t.id /\ n.key = t.key
    BY <2>2
  <2>4. \A n, m \in S : n = m
    BY FoundIsOne
  <2>5. templates' = (templates \ Found(job[j].id)) \cup S /\ created' = created
    BY <1>1 DEF SaveTemplate
  <2>6. TemplatesGo
    <3> HIDE DEF S
    <3> QED BY <2>3, <2>4, <2>5, RewriteTyped
  <2>7. JobOnward(j, Rest) /\ answers' \subseteq Answer
    BY <1>1, JobFinishes DEF SaveTemplate
  <2> QED
    BY <1>1, <2>6, <2>7 DEF SaveTemplate, Serves
<1>2. CASE DropTemplate(j)
  <2>1. TemplatesGo
    BY <1>2, TemplatesStay DEF DropTemplate
  <2>2. JobOnward(j, Rest) /\ answers' \subseteq Answer
    BY <1>2, JobFinishes DEF DropTemplate
  <2> QED
    BY <1>2, <2>1, <2>2 DEF DropTemplate, Serves
<1>3. CASE Overwrite(j)
  <2> DEFINE S == {BuiltIn(t, j) : t \in Found(job[j].id)}
  <2>1. \A t \in Found(job[j].id) :
           BuiltIn(t, j) \in Template /\ BuiltIn(t, j).id = t.id /\ BuiltIn(t, j).key = t.key
    BY FoundIsOne, BuiltInTyped
  <2>2. \A n \in S : n \in Template /\ \E t \in Found(job[j].id) : n.id = t.id /\ n.key = t.key
    BY <2>1
  <2>3. \A n, m \in S : n = m
    BY FoundIsOne
  <2>4. templates' = (templates \ Found(job[j].id)) \cup S /\ created' = created
    BY <1>3 DEF Overwrite
  <2>5. TemplatesGo
    <3> HIDE DEF S
    <3> QED BY <2>2, <2>3, <2>4, RewriteTyped
  <2>6. (\E r : JobOnward(j, r)) /\ answers' \subseteq Answer
    <3>1. CASE Finish(j, FALSE, 0)
      BY <3>1, JobFinishes
    <3>2. CASE Move(j, "mail")
      BY <3>2, JobMoves DEF Move
    <3> QED
      BY <1>3, <3>1, <3>2 DEF Overwrite
  <2> QED
    BY <1>3, <2>5, <2>6 DEF Overwrite, Serves
<1> QED
  BY <1>1, <1>2, <1>3

LEMMA FindServes ==
    ASSUME ServerTyped, NEW j \in Jobs, FindForMail(j) \/ LookForUpsert(j) \/ InsertMissing(j)
    PROVE  Serves(j)
<1> USE DEF ServerTyped, StartTyped
<1>0. job[j] \in Job /\ JobShaped(job[j])
  BY DEF JobsTyped
<1>1. CASE FindForMail(j)
  <2>1. CASE Misses(job[j].key)
    <3> DEFINE r == [job[j] EXCEPT !.at = "upsert", !.since = created]
    <3>1. job' = [job EXCEPT ![j] = r]
      BY <1>1, <2>1 DEF FindForMail, JobsTyped
    <3>2. created \in {0} \cup Ids
      BY DEF StartTypeOK, Ids
    <3>3. r \in Job
      BY <1>0, <3>2 DEF Job
    <3>4. r.at = "upsert" /\ r.kind = job[j].kind /\ r.key = job[j].key /\ r.since = created
      BY <1>0 DEF Job
    <3> HIDE DEF r
    <3>5. JobShaped(r)
      BY <1>0, <1>1, <3>3, <3>4 DEF JobShaped, FindForMail
    <3>6. JobOnward(j, r)
      BY <2>1, <3>1, <3>4, <3>5 DEF JobOnward, Misses
    <3> QED
      BY <1>1, <2>1, <3>6, ReadsServe DEF FindForMail
  <2>2. CASE ~Misses(job[j].key)
    BY <1>1, <2>2, JobMoves, ReadsServe DEF FindForMail, Move
  <2> QED
    BY <2>1, <2>2
<1>2. CASE LookForUpsert(j)
  <2>1. CASE Holds(job[j].key)
    <3>1. PICK t \in templates :
             /\ t.key = job[j].key
             /\ job' = [job EXCEPT ![j].at = "overwrite", ![j].id = t.id, ![j].had = t.text]
      BY <1>2, <2>1 DEF LookForUpsert
    <3> DEFINE r == [job[j] EXCEPT !.at = "overwrite", !.id = t.id, !.had = t.text]
    <3>2. job' = [job EXCEPT ![j] = r]
      BY <3>1 DEF JobsTyped
    <3>3. t.id \in Ids /\ t.text \in Texts \cup {Default}
      BY DEF StartTypeOK, Template, Ids
    <3>4. r \in Job
      BY <1>0, <3>3 DEF Job
    <3>5. /\ r.at = "overwrite" /\ r.kind = job[j].kind /\ r.key = job[j].key
          /\ r.since = job[j].since /\ r.id = t.id
      BY <1>0 DEF Job
    <3> HIDE DEF r
    <3>6. JobShaped(r)
      BY <1>0, <1>2, <3>4, <3>5 DEF JobShaped, LookForUpsert
    <3>7. job[j].at = "upsert" /\ job[j].kind = "notify"
      BY <1>0, <1>2 DEF JobShaped, LookForUpsert
    <3>8. JobOnward(j, r)
      BY <3>1, <3>2, <3>5, <3>6, <3>7 DEF JobOnward
    <3> QED
      BY <1>2, <3>8, ReadsServe DEF LookForUpsert
  <2>2. CASE ~Holds(job[j].key)
    BY <1>2, <2>2, JobMoves, ReadsServe DEF LookForUpsert
  <2> QED
    BY <2>1, <2>2
<1>3. CASE InsertMissing(j)
  <2>1. job[j].key \in Keys
    BY <1>0, <1>3 DEF JobShaped, InsertMissing
  <2>2. OneMore(job[j].key, Default, TRUE)
    BY <1>3 DEF InsertMissing, Insert, OneMore
  <2>3. TemplatesGo
    BY <2>1, <2>2 DEF TemplatesGo
  <2>4. \E r : JobOnward(j, r)
    BY <1>3, JobMoves DEF InsertMissing, Move
  <2> QED
    BY <1>3, <2>3, <2>4 DEF InsertMissing, Move, Serves
<1> QED
  BY <1>1, <1>2, <1>3

LEMMA SendServes ==
    ASSUME ServerTyped, NEW j \in Jobs,
           SendUpdateMail(j) \/ ReadMembers(j) \/ SendBatch(j) \/ ReportBulk(j) \/ Fail(j)
    PROVE  Serves(j)
<1> USE DEF ServerTyped, StartTyped
<1>0. job[j] \in Job /\ JobShaped(job[j])
  BY DEF JobsTyped
<1>1. CASE SendUpdateMail(j) \/ ReportBulk(j) \/ Fail(j)
  <2>1. (\E ok \in BOOLEAN : Finish(j, ok, 0)) /\ UNCHANGED <<startVars, received>>
    BY <1>1 DEF SendUpdateMail, ReportBulk, Fail
  <2> QED
    BY <2>1, JobFinishes, ReadsServe
<1>2. CASE SendBatch(j)
  <2> DEFINE batch == NextBatch(job[j].todo)
             rest == RestAfter(job[j].todo, batch)
             r == [job[j] EXCEPT !.todo = rest, !.tried = @ \o batch]
  <2>1. job' = [job EXCEPT ![j] = r]
    BY <1>2 DEF SendBatch, JobsTyped
  <2>2. /\ job[j].todo \in Seq(Recipients) /\ job[j].tried \in Seq(Recipients)
        /\ job[j].at = "batch" /\ Halves(job[j]) /\ ListOf(job[j])
    BY <1>0, <1>2 DEF Job, SendBatch, JobShaped
  <2>3. batch \in Seq(Recipients) /\ rest \in Seq(Recipients) /\ batch \o rest = job[j].todo
    BY <2>2, BatchAndRest
  <2> HIDE DEF batch, rest
  <2>4. job[j].tried \o batch \in Seq(Recipients)
    BY <2>2, <2>3, ConcatProperties
  <2>5. r \in Job
    BY <1>0, <2>3, <2>4 DEF Job
  <2>6. /\ r.at = "batch" /\ r.to = job[j].to /\ r.mode = job[j].mode
        /\ r.todo = rest /\ r.tried = job[j].tried \o batch
    BY <1>0, <2>2 DEF Job
  <2> HIDE DEF r
  <2>7. (job[j].tried \o batch) \o rest = job[j].tried \o (batch \o rest)
    <3>1. /\ job[j].tried \in Seq(Recipients) /\ batch \in Seq(Recipients)
          /\ rest \in Seq(Recipients)
      BY <2>2, <2>3
    <3> QED
      BY <3>1, TriedGrows, Zenon
  <2>8. Halves(r) /\ ListOf(r)
    BY <2>2, <2>3, <2>6, <2>7 DEF Halves, ListOf
  <2>9. JobOnward(j, r)
    BY <2>1, <2>5, <2>6, <2>8 DEF JobOnward, JobShaped, Upserting
  <2> QED
    BY <1>2, <2>9, ReadsServe DEF SendBatch
<1>3. CASE ReadMembers(j)
  <2>1. PICK to \in MemberLists : StartSending(j, to)
    BY <1>3 DEF ReadMembers
  <2>2. job[j].at = "members" /\ job[j].kind = "bulk"
    BY <1>0, <1>3 DEF ReadMembers, JobShaped
  <2>3. \E r : JobOnward(j, r)
    BY <2>1, <2>2, MembersAreASeq, SendingStarts
  <2> QED
    BY <1>3, <2>1, <2>3, ReadsServe DEF ReadMembers, StartSending
<1> QED
  BY <1>1, <1>2, <1>3

LEMMA StepServes ==
    ASSUME ServerTyped, NEW j \in Jobs, Step(j)
    PROVE  Serves(j)
  BY LookServes, LoadServes, WriteServes, FindServes, SendServes DEF Step

-----------------------------------------------------------------------------
(* A step of the server.                                                   *)

\* A request for a mail that found no template: whatever template has come since
\* is younger than its search, and so is the one it is about to overwrite.
Raced(r) ==
    Upserting(r) =>
        /\ r.since <= created
        /\ \A t \in templates : t.key = r.key => t.id > r.since
        /\ r.at = "overwrite" => r.id > r.since

RaceInv == \A j \in Jobs : Raced(job[j])

JobsGo ==
    \/ \E j \in Jobs, r \in Job : JobOnward(j, r)
    \/ job' = job
    \/ job' = [j \in Jobs |-> Rest]

ServerGoes ==
    /\ phase' \in {"down", "index", "drop", "create", "seed", "up"}
    /\ index' \in {"legacy", "none", "sparse"}
    /\ doubled' \in BOOLEAN /\ missed' \in BOOLEAN
    /\ IndexInv'
    /\ TemplatesGo
    /\ JobsGo
    /\ received' \in 0 .. MaxRequests
    /\ answers' \subseteq Answer

ServerInv == ServerTyped /\ RaceInv

LEMMA RaceStays ==
    ASSUME StartTypeOK, UniqueInv, TemplatesGo, NEW r \in Job, Raced(r)
    PROVE  Raced(r)'
<1>0. /\ created \in Nat /\ created' \in Nat /\ created <= created' /\ r.since \in Nat
      /\ \A t \in templates : t.id \in Nat
      /\ \A t \in templates' : t.id \in Nat
  BY TemplatesTyped DEF StartTypeOK, Template, Job, Ids
<1>1. ASSUME Upserting(r), NEW n \in templates', n.key = r.key PROVE n.id > r.since
  <2>1. r.since <= created /\ \A t \in templates : t.key = r.key => t.id > r.since
    BY <1>1 DEF Raced
  <2>2. CASE \E t \in templates : n.id = t.id /\ n.key = t.key
    BY <1>1, <2>1, <2>2
  <2>3. CASE n.id = created + 1
    BY <1>0, <2>1, <2>3
  <2>4. (\E t \in templates : n.id = t.id /\ n.key = t.key) \/ n.id = created + 1
    BY <1>1 DEF TemplatesGo, Rewritten, OneMore
  <2> QED
    BY <2>2, <2>3, <2>4
<1>2. Upserting(r) => r.since <= created' /\ (r.at = "overwrite" => r.id > r.since)
  BY <1>0 DEF Raced
<1> QED
  BY <1>1, <1>2 DEF Raced, Upserting

LEMMA RaceBegins ==
    ASSUME ServerInv, TemplatesGo, NEW j \in Jobs, NEW r \in Job, JobOnward(j, r)
    PROVE  Raced(r)'
<1> USE DEF ServerInv, ServerTyped, StartTyped
<1>0. created \in Nat /\ created' \in Nat /\ created <= created' /\ r.since \in Nat
  BY TemplatesTyped DEF StartTypeOK, Job, Ids
<1>1. CASE ~Upserting(r)
  BY <1>1 DEF Raced, Upserting
<1>2. CASE r.at = "upsert" /\ r.since = created /\ ~Holds(r.key)
  <2>1. Raced(r)
    BY <1>0, <1>2 DEF Raced, Holds
  <2> QED
    BY <2>1, RaceStays
<1>3. CASE /\ job[j].at = "upsert" /\ job[j].kind = "notify"
           /\ r.key = job[j].key /\ r.since = job[j].since
           /\ r.at = "overwrite" => \E t \in templates : t.key = r.key /\ t.id = r.id
  <2>1. Upserting(job[j]) /\ Raced(job[j])
    BY <1>3 DEF RaceInv, Upserting
  <2>2. Raced(r)
    BY <1>3, <2>1 DEF Raced
  <2> QED
    BY <2>2, RaceStays
<1> QED
  BY <1>1, <1>2, <1>3 DEF JobOnward

LEMMA ServerGoesOn ==
    ASSUME ServerInv, ServerGoes
    PROVE  ServerInv'
<1> USE DEF ServerInv
<1>1. StartTyped' /\ UniqueInv'
  BY TemplatesTyped DEF ServerGoes, ServerTyped, StartTyped, StartTypeOK
<1>2. TemplatesGo /\ StartTypeOK /\ UniqueInv
  BY DEF ServerGoes, ServerTyped, StartTyped
<1>3. ASSUME NEW k \in Jobs, job' = job PROVE JobShaped(job'[k]) /\ Raced(job[k])'
  <2>1. PICK r \in Job : r = job[k]
    BY DEF ServerTyped, JobsTyped
  <2>2. Raced(r)'
    BY <1>2, <2>1, RaceStays DEF RaceInv
  <2>3. job[k]' = r
    BY <1>3, <2>1
  <2> QED
    BY <1>3, <2>1, <2>2, <2>3 DEF ServerTyped, JobsTyped, Raced, Upserting
<1>4. ASSUME NEW j \in Jobs, NEW s \in Job, JobOnward(j, s), NEW k \in Jobs
      PROVE  JobShaped(job'[k]) /\ Raced(job[k])'
  <2>1. CASE k = j
    <3>1. job[k]' = s
      BY <1>4, <2>1 DEF JobOnward, ServerTyped, JobsTyped
    <3>2. Raced(s)' /\ JobShaped(s)
      BY <1>2, <1>4, RaceBegins DEF JobOnward
    <3> QED
      BY <3>1, <3>2 DEF Raced, Upserting
  <2>2. CASE k # j
    <3>1. PICK r \in Job : r = job[k]
      BY DEF ServerTyped, JobsTyped
    <3>2. Raced(r)'
      BY <1>2, <3>1, RaceStays DEF RaceInv
    <3>3. job[k]' = r
      BY <1>4, <2>2, <3>1 DEF JobOnward, ServerTyped, JobsTyped
    <3>4. JobShaped(r)
      BY <3>1 DEF ServerTyped, JobsTyped
    <3> QED
      BY <3>2, <3>3, <3>4 DEF Raced, Upserting
  <2> QED
    BY <2>1, <2>2
<1>5. ASSUME NEW k \in Jobs, job' = [j \in Jobs |-> Rest]
      PROVE  JobShaped(job'[k]) /\ Raced(job[k])'
  <2>1. job[k]' = Rest
    BY <1>5
  <2> QED
    BY <2>1, RestIsShaped DEF Raced
<1>6. \A k \in Jobs : JobShaped(job'[k]) /\ Raced(job[k])'
  BY <1>3, <1>4, <1>5 DEF ServerGoes, JobsGo
<1>7. job' \in [Jobs -> Job]
  <2>1. Rest \in Job
    BY RestIsShaped DEF JobShaped
  <2> QED
    BY <2>1 DEF ServerGoes, JobsGo, JobOnward, ServerTyped, JobsTyped
<1>8. JobsTyped'
  BY <1>6, <1>7 DEF JobsTyped, JobShaped, Halves
<1> QED
  BY <1>1, <1>6, <1>8 DEF ServerTyped, RaceInv, ServerGoes

\* The requests that may begin.
Request(j, mine) ==
    \/ \E key \in Keys \cup OwnKeys, text \in Texts \cup {Default} : BeginCreate(j, mine, key, text)
    \/ \E id \in Ids, text \in Texts \cup {Default} : BeginSave(j, mine, id, text)
    \/ \E id \in Ids : BeginDelete(j, mine, id)
    \/ \E key \in Keys : BeginNotify(j, key)
    \/ \E id \in Ids, target \in Targets(Lists) : BeginBulk(j, mine, id, target)

LEMMA RequestsFit ==
    ASSUME ServerTyped, NEW j \in Jobs, NEW mine \in BOOLEAN, Request(j, mine)
    PROVE  ServerGoes
<1> USE DEF ServerTyped, StartTyped
<1>1. ASSUME NEW r \in Job, JobShaped(r), ~Upserting(r), Begin(j, r), UNCHANGED <<startVars, answers>>
      PROVE  ServerGoes
  <2>1. JobOnward(j, r)
    BY <1>1 DEF JobOnward, Begin
  <2>2. TemplatesGo
    BY <1>1, TemplatesStay DEF startVars
  <2>3. IndexInv'
    BY <1>1 DEF IndexInv, startVars
  <2>4. received' \in 0 .. MaxRequests
    BY <1>1, MaxRequestsAssumption DEF Begin
  <2> QED
    BY <1>1, <2>1, <2>2, <2>3, <2>4 DEF ServerGoes, JobsGo, startVars, StartTypeOK
<1>2. ASSUME NEW key \in Keys \cup OwnKeys, NEW text \in Texts \cup {Default},
             BeginCreate(j, mine, key, text)
      PROVE  ServerGoes
  <2> DEFINE r == [Rest EXCEPT !.at = "look", !.kind = "create", !.mine = mine,
                               !.key = key, !.text = text]
  <2>1. r \in Job
    BY RestIsAJob DEF Job, Kinds
  <2>2. r.at = "look" /\ r.kind = "create" /\ r.key = key /\ r.text = text
    BY DEF Rest
  <2>3. Begin(j, r) /\ UNCHANGED <<startVars, answers>>
    BY <1>2 DEF BeginCreate
  <2> HIDE DEF r
  <2> QED
    BY <1>1, <2>1, <2>2, <2>3 DEF JobShaped, Upserting
<1>3. ASSUME NEW id \in Ids, NEW text \in Texts \cup {Default}, BeginSave(j, mine, id, text)
      PROVE  ServerGoes
  <2> DEFINE r == [Rest EXCEPT !.at = "load", !.kind = "save", !.mine = mine,
                               !.id = id, !.text = text]
  <2>1. r \in Job
    BY RestIsAJob DEF Job, Kinds
  <2>2. r.at = "load" /\ r.kind = "save" /\ r.text = text /\ r.tried = <<>>
    BY DEF Rest
  <2>3. Begin(j, r) /\ UNCHANGED <<startVars, answers>>
    BY <1>3 DEF BeginSave
  <2> HIDE DEF r
  <2> QED
    BY <1>1, <2>1, <2>2, <2>3 DEF JobShaped, Upserting
<1>4. ASSUME NEW id \in Ids, BeginDelete(j, mine, id)
      PROVE  ServerGoes
  <2> DEFINE r == [Rest EXCEPT !.at = "load", !.kind = "delete", !.mine = mine, !.id = id]
  <2>1. r \in Job
    BY RestIsAJob DEF Job, Kinds
  <2>2. r.at = "load" /\ r.kind = "delete" /\ r.tried = <<>>
    BY DEF Rest
  <2>3. Begin(j, r) /\ UNCHANGED <<startVars, answers>>
    BY <1>4 DEF BeginDelete
  <2> HIDE DEF r
  <2> QED
    BY <1>1, <2>1, <2>2, <2>3 DEF JobShaped, Upserting
<1>5. ASSUME NEW key \in Keys, BeginNotify(j, key)
      PROVE  ServerGoes
  <2> DEFINE r == [Rest EXCEPT !.at = "find", !.kind = "notify", !.key = key]
  <2>1. r \in Job
    BY RestIsAJob DEF Job, Kinds
  <2>2. r.at = "find" /\ r.kind = "notify" /\ r.key = key
    BY DEF Rest
  <2>3. Begin(j, r) /\ UNCHANGED <<startVars, answers>>
    BY <1>5 DEF BeginNotify
  <2> HIDE DEF r
  <2> QED
    BY <1>1, <2>1, <2>2, <2>3 DEF JobShaped, Upserting
<1>6. ASSUME NEW id \in Ids, NEW target \in Targets(Lists), BeginBulk(j, mine, id, target)
      PROVE  ServerGoes
  <2> DEFINE r == [Rest EXCEPT !.at = "load", !.kind = "bulk", !.mine = mine, !.id = id,
                               !.mode = target.mode, !.rows = target.list.rows,
                               !.to = target.list.to]
  <2>1. /\ target.mode \in {"all", "list"}
        /\ target.list.rows \in Nat /\ target.list.to \in Seq(Recipients)
    <3>1. <<>> \in Seq(Recipients)
      BY EmptySeq, Zenon
    <3>2. CASE target \in [mode : {"list"}, list : Lists]
      <4>1. target.mode = "list" /\ target.list \in Lists
        BY <3>2
      <4> QED
        BY <4>1, ListsAssumption
    <3>3. CASE target = [mode |-> "all", list |-> NoList]
      <4>1. target.mode = "all" /\ target.list = NoList
        BY <3>3
      <4> QED
        BY <3>1, <4>1 DEF NoList
    <3> QED
      BY <3>2, <3>3 DEF Targets
  <2>2. r \in Job
    BY <2>1, RestIsAJob DEF Job, Kinds
  <2>3. r.at = "load" /\ r.kind = "bulk" /\ r.tried = <<>>
    BY DEF Rest
  <2>4. Begin(j, r) /\ UNCHANGED <<startVars, answers>>
    BY <1>6 DEF BeginBulk
  <2> HIDE DEF r
  <2> QED
    BY <1>1, <2>2, <2>3, <2>4 DEF JobShaped, Upserting
<1> QED
  BY <1>2, <1>3, <1>4, <1>5, <1>6 DEF Request

LEMMA ServerGoesSteps ==
    ASSUME ServerTyped, ServerNext
    PROVE  ServerGoes
<1> USE DEF ServerTyped, StartTyped
<1>1. ASSUME NEW j \in Jobs, Step(j) PROVE ServerGoes
  <2>1. Serves(j)
    BY <1>1, StepServes
  <2>2. IndexInv'
    BY <2>1 DEF Serves, IndexInv
  <2>3. JobsGo
    BY <2>1 DEF Serves, JobsGo, JobOnward, JobShaped
  <2> QED
    BY <2>1, <2>2, <2>3 DEF Serves, ServerGoes, StartTypeOK
<1>2. ASSUME NEW j \in Jobs, Others(j) PROVE ServerGoes
  <2>1. Request(j, FALSE)
    BY <1>2 DEF Others, Request
  <2> QED
    BY <2>1, RequestsFit
<1>3. CASE (StartUp \/ DoubleAdmission) /\ UNCHANGED <<job, received, answers>>
  BY <1>3, StartUpTyped DEF ServerGoes, JobsGo
<1>4. CASE Crash
  <2>1. TemplatesGo
    BY <1>4, TemplatesStay DEF Crash
  <2>2. IndexInv'
    BY <1>4 DEF Crash, IndexInv
  <2> QED
    BY <1>4, <2>1, <2>2 DEF Crash, ServerGoes, JobsGo, StartTypeOK
<1> QED
  BY <1>1, <1>2, <1>3, <1>4 DEF ServerNext

LEMMA ServerStarts ==
    ASSUME MailInit
    PROVE  ServerInv
<1>1. /\ templates = Older /\ created = Cardinality(Older) /\ Cardinality(Older) \in Nat
      /\ job = [j \in Jobs |-> Rest] /\ received = 0 /\ answers = {}
  BY FS_CardinalityType DEF MailInit, StartInit
<1>2. StartTypeOK
  <2>1. created \in 0 .. MaxIds
    BY <1>1
  <2>2. /\ phase \in {"down", "index", "drop", "create", "seed", "up"}
        /\ index \in {"legacy", "none", "sparse"}
        /\ doubled \in BOOLEAN /\ missed \in BOOLEAN
    BY DEF MailInit, StartInit
  <2>3. templates \subseteq Template
    BY <1>1
  <2> QED
    BY <2>1, <2>2, <2>3 DEF StartTypeOK
<1>3. UniqueInv
  BY <1>1 DEF UniqueInv
<1>4. IndexInv
  BY DEF MailInit, StartInit, IndexInv
<1>5. JobsTyped /\ RaceInv
  BY <1>1, RestIsShaped DEF JobsTyped, JobShaped, RaceInv, Raced
<1> QED
  BY <1>1, <1>2, <1>3, <1>4, <1>5, MaxRequestsAssumption DEF ServerInv, ServerTyped, StartTyped

-----------------------------------------------------------------------------
(* Edits and the built-in text.                                            *)

\* A template keeps its text but for a save, an overwriting, and new documents.
LEMMA TextsChange ==
    ASSUME ServerNext
    PROVE  \/ templates' \subseteq templates
           \/ \E key, text, base : OneMore(key, text, base)
           \/ \E j \in Jobs : SaveTemplate(j) \/ Overwrite(j)
<1>1. ASSUME NEW j \in Jobs, Step(j), ~SaveTemplate(j), ~Overwrite(j)
      PROVE  templates' \subseteq templates \/ \E key, text, base : OneMore(key, text, base)
  <2>1. CASE InsertTemplate(j)
    BY <2>1 DEF InsertTemplate, Insert, OneMore
  <2>2. CASE InsertMissing(j)
    BY <2>2 DEF InsertMissing, Insert, OneMore
  <2>3. CASE DropTemplate(j)
    BY <2>3 DEF DropTemplate
  <2>4. CASE LookForKey(j) \/ LoadTemplate(j) \/ FindForMail(j) \/ LookForUpsert(j)
    BY <2>4 DEF LookForKey, LoadTemplate, FindForMail, LookForUpsert, startVars
  <2>5. CASE SendUpdateMail(j) \/ ReadMembers(j) \/ SendBatch(j) \/ ReportBulk(j) \/ Fail(j)
    BY <2>5 DEF SendUpdateMail, ReadMembers, SendBatch, ReportBulk, Fail, startVars
  <2> QED
    BY <1>1, <2>1, <2>2, <2>3, <2>4, <2>5 DEF Step
<1>2. ASSUME NEW j \in Jobs, Others(j) PROVE templates' = templates
  BY <1>2 DEF Others, BeginCreate, BeginSave, BeginDelete, BeginNotify, BeginBulk, startVars
<1>3. CASE StartUp
  <2>1. ASSUME NEW key \in Keys, Seed(key) PROVE OneMore(key, Default, TRUE)
    BY <2>1 DEF Seed, OneMore
  <2>2. CASE ~\E key \in Keys : Seed(key)
    BY <1>3, <2>2 DEF StartUp, Connect, ReadIndexes, DropIndex, CreateIndex, AutoIndex, Listen
  <2> QED
    BY <2>1, <2>2
<1>4. CASE DoubleAdmission \/ Crash
  BY <1>4 DEF DoubleAdmission, Crash
<1> QED
  BY <1>1, <1>2, <1>3, <1>4 DEF ServerNext

LEMMA EditsGiveWay ==
    ASSUME ServerInv, ServerNext, NEW t \in templates, t.text # Default,
           NEW n \in templates', n.key = t.key, n.text = Default
    PROVE  \E j \in Jobs :
              \/ job[j].at = "overwrite" /\ job[j].id = t.id /\ t.id > job[j].since
              \/ SavesDefault(j, t)
<1> USE DEF ServerInv, ServerTyped, StartTyped
<1>1. n \notin templates
  BY DEF UniqueInv
<1>2. ~\E key, text, base : OneMore(key, text, base)
  <2>1. ASSUME NEW key, NEW text, NEW base, OneMore(key, text, base) PROVE FALSE
    <3>1. n = [id |-> created + 1, key |-> key, text |-> text, base |-> base]
      BY <1>1, <2>1 DEF OneMore
    <3> QED
      BY <2>1, <3>1 DEF OneMore, Holds
  <2> QED
    BY <2>1
<1>3. PICK j \in Jobs : SaveTemplate(j) \/ Overwrite(j)
  BY <1>1, <1>2, TextsChange
<1>4. \A u \in Found(job[j].id) : u.key = t.key => u = t
  BY DEF Found, UniqueInv
<1>5. t \in Template
  BY DEF StartTypeOK
<1>6. CASE SaveTemplate(j)
  <2>1. PICK u \in Found(job[j].id) : n = Written(u, j)
    BY <1>1, <1>6 DEF SaveTemplate
  <2>2. u \in Template
    BY <2>1, FoundIsOne
  <2>3. Written(u, j).key = u.key
    BY <2>2 DEF Written, Template
  <2>4. u = t
    BY <1>4, <2>1, <2>3
  <2>5. job[j].text # job[j].had /\ n.text = job[j].text
    BY <1>1, <1>5, <2>1, <2>4 DEF Written, Template
  <2>6. job[j].at = "save" /\ job[j].id = t.id
    BY <1>6, <2>1, <2>4 DEF SaveTemplate, Found
  <2> QED
    BY <2>5, <2>6 DEF SavesDefault
<1>7. CASE Overwrite(j)
  <2>1. PICK u \in Found(job[j].id) : n = BuiltIn(u, j)
    BY <1>1, <1>7 DEF Overwrite
  <2>2. u = t
    BY <1>4, <2>1, FoundIsOne, BuiltInTyped
  <2>3. job[j].at = "overwrite" /\ job[j].id = t.id
    BY <1>7, <2>1, <2>2 DEF Overwrite, Found
  <2>4. job[j].id > job[j].since
    BY <2>3 DEF RaceInv, Raced, Upserting, JobsTyped, JobShaped
  <2> QED
    BY <2>3, <2>4
<1> QED
  BY <1>3, <1>6, <1>7

-----------------------------------------------------------------------------
(* The Mailer page.                                                        *)

PageTyped ==
    /\ ui \in [mode : {"view", "new"}, selected : {0} \cup Ids, latest : {0} \cup Ids,
               draft : Drafts, chosen : {0} \cup Ids]
    /\ loads \subseteq [id : Ids, draft : Drafts, got : {"asked", "template", "failed"}]
    /\ waiting \subseteq Kinds
    /\ left \in BOOLEAN /\ touched \in BOOLEAN /\ crossed \in BOOLEAN

\* One load of a template at a time, which brings that template; the page knows
\* when it has left the one it waits for.
LoadsInv ==
    /\ \A l, m \in loads : l.id = m.id => l = m
    /\ \A l \in loads : l.got = "template" => l.draft.of = l.id
    /\ Awaited /\ ui.selected # ui.latest => left

\* The template being loaded is the one selected last, or the fields are its own.
FieldsFit ==
    /\ ui.mode = "view" /\ ui.selected # 0 /\ ~crossed
    => /\ (ui.selected = ui.latest /\ Loading) \/ ui.draft.of = ui.selected
       /\ DialogOpen => ui.chosen = ui.selected

PageInv == PageTyped /\ LoadsInv /\ FieldsFit

Inv == ServerInv /\ PageInv

LEMMA PageStays ==
    ASSUME PageInv, UNCHANGED pageVars
    PROVE  PageInv'
  BY DEF PageInv, PageTyped, LoadsInv, FieldsFit, Awaited, Loading, DialogOpen, pageVars

\* A template taken from the server: the load it was asked by now has it.
LEMMA LoadServed ==
    ASSUME Inv, ServeLoad
    PROVE  \E l \in loads, m \in [id : Ids, draft : Drafts, got : {"asked", "template", "failed"}] :
              /\ m.id = l.id
              /\ m.got = "template" => m.draft.of = m.id
              /\ loads' = (loads \ {l}) \cup {m}
<1> USE DEF Inv, PageInv, PageTyped
<1>1. PICK l \in loads :
         \E m \in {[l EXCEPT !.got = "failed"]} \cup
                  {[l EXCEPT !.got = "template",
                             !.draft = [of |-> t.id, key |-> t.key, text |-> t.text]] :
                      t \in IF phase = "up" THEN Found(l.id) ELSE {}} :
            loads' = (loads \ {l}) \cup {m}
  BY DEF ServeLoad
<1>2. l \in [id : Ids, draft : Drafts, got : {"asked", "template", "failed"}]
  OBVIOUS
<1>3. CASE loads' = (loads \ {l}) \cup {[l EXCEPT !.got = "failed"]}
  <2> DEFINE m == [l EXCEPT !.got = "failed"]
  <2>1. /\ m \in [id : Ids, draft : Drafts, got : {"asked", "template", "failed"}]
        /\ m.id = l.id /\ m.got = "failed"
    BY <1>2
  <2> HIDE DEF m
  <2> QED
    BY <1>3, <2>1 DEF m
<1>4. ASSUME NEW t \in Found(l.id),
             loads' = (loads \ {l}) \cup
                {[l EXCEPT !.got = "template",
                           !.draft = [of |-> t.id, key |-> t.key, text |-> t.text]]}
      PROVE  \E m \in [id : Ids, draft : Drafts, got : {"asked", "template", "failed"}] :
                /\ m.id = l.id
                /\ m.got = "template" => m.draft.of = m.id
                /\ loads' = (loads \ {l}) \cup {m}
  <2> DEFINE d == [of |-> t.id, key |-> t.key, text |-> t.text]
  <2>1. t \in Template /\ t.id = l.id
    BY FoundIsOne DEF ServerInv, ServerTyped, StartTyped
  <2>2. d \in Drafts /\ d.of = t.id
    BY <2>1 DEF Drafts, Template, Ids
  <2> HIDE DEF d
  <2> DEFINE m == [l EXCEPT !.got = "template", !.draft = d]
  <2>3. m \in [id : Ids, draft : Drafts, got : {"asked", "template", "failed"}]
    BY <1>2, <2>2
  <2>4. m.id = l.id /\ m.draft = d
    BY <1>2
  <2>5. loads' = (loads \ {l}) \cup {m}
    BY <1>4 DEF d
  <2> HIDE DEF m
  <2> QED
    BY <2>1, <2>2, <2>3, <2>4, <2>5
<1> QED
  BY <1>1, <1>2, <1>3, <1>4

\* The page after a step that leaves the loads alone.
LEMMA PageMoves ==
    ASSUME PageInv, PageTyped', loads' = loads, ui'.latest = ui.latest,
           left' = Awaited \/ (ui'.selected = ui.selected /\ left' = left), FieldsFit'
    PROVE  PageInv'
<1>1. LoadsInv'
  BY DEF PageInv, LoadsInv, Awaited
<1> QED
  BY <1>1 DEF PageInv

LEMMA SelectFits ==
    ASSUME Inv, NEW id \in Ids, SelectTemplate(id)
    PROVE  PageInv'
<1> USE DEF Inv, PageInv, PageTyped, SelectTemplate
<1>1. PICK m : m = [id |-> id, draft |-> Blank, got |-> "asked"]
  OBVIOUS
<1>2. /\ m \in [id : Ids, draft : Drafts, got : {"asked", "template", "failed"}]
      /\ m.id = id /\ m.got = "asked"
  BY <1>1 DEF Blank, Drafts
<1>3. loads' = IF \E l \in loads : l.id = id THEN loads ELSE loads \cup {m}
  BY <1>1
<1>4. /\ ui' \in [mode : {"view", "new"}, selected : {0} \cup Ids, latest : {0} \cup Ids,
                  draft : Drafts, chosen : {0} \cup Ids]
      /\ ui'.selected = id /\ ui'.latest = id /\ ui'.chosen = 0
  BY DEF DialogOpen
<1>5. PageTyped'
  <2>1. loads' \subseteq [id : Ids, draft : Drafts, got : {"asked", "template", "failed"}]
    BY <1>2, <1>3
  <2>2. waiting' \subseteq Kinds
    OBVIOUS
  <2>3. left' \in BOOLEAN /\ crossed' \in BOOLEAN
    OBVIOUS
  <2>4. touched' \in BOOLEAN
    BY ONLY SelectTemplate(id) DEF SelectTemplate
  <2> QED
    BY <1>4, <2>1, <2>2, <2>3, <2>4
<1>6. LoadsInv'
  BY <1>2, <1>3, <1>4 DEF LoadsInv, Awaited
<1>7. FieldsFit'
  BY <1>2, <1>3, <1>4 DEF FieldsFit, Loading, DialogOpen
<1> QED
  BY <1>5, <1>6, <1>7

LEMMA EditFits ==
    ASSUME Inv, StartNew \/ Type \/ OpenBulk \/ CloseBulk
    PROVE  PageInv'
<1> USE DEF Inv, PageInv, PageTyped
<1>1. CASE StartNew
  <2>1. /\ ui' \in [mode : {"view", "new"}, selected : {0} \cup Ids, latest : {0} \cup Ids,
                     draft : Drafts, chosen : {0} \cup Ids]
        /\ ui'.mode = "new" /\ ui'.latest = ui.latest
    BY <1>1 DEF StartNew, Blank, Drafts
  <2>2. left' = Awaited /\ PageTyped' /\ loads' = loads
    BY <1>1, <2>1 DEF StartNew, Awaited
  <2> QED
    BY <2>1, <2>2, PageMoves DEF FieldsFit
<1>2. CASE Type
  <2>1. PICK d \in Drafts : ui' = [ui EXCEPT !.draft = d] /\ d.of = ui.draft.of
    <3>1. ASSUME NEW text \in Texts, ui' = [ui EXCEPT !.draft.text = text]
          PROVE  \E d \in Drafts : ui' = [ui EXCEPT !.draft = d] /\ d.of = ui.draft.of
      <4> DEFINE d == [ui.draft EXCEPT !.text = text]
      <4>1. d \in Drafts /\ d.of = ui.draft.of
        BY DEF Drafts
      <4>2. ui' = [ui EXCEPT !.draft = d]
        BY <3>1
      <4> QED
        BY <4>1, <4>2
    <3>2. ASSUME NEW key \in Keys \cup OwnKeys, ui' = [ui EXCEPT !.draft.key = key]
          PROVE  \E d \in Drafts : ui' = [ui EXCEPT !.draft = d] /\ d.of = ui.draft.of
      <4> DEFINE d == [ui.draft EXCEPT !.key = key]
      <4>1. d \in Drafts /\ d.of = ui.draft.of
        BY DEF Drafts
      <4>2. ui' = [ui EXCEPT !.draft = d]
        BY <3>2
      <4> QED
        BY <4>1, <4>2
    <3> QED
      BY <1>2, <3>1, <3>2 DEF Type
  <2>2. UNCHANGED <<loads, waiting, left, touched, crossed>>
    BY <1>2 DEF Type
  <2>3. /\ ui' \in [mode : {"view", "new"}, selected : {0} \cup Ids, latest : {0} \cup Ids,
                     draft : Drafts, chosen : {0} \cup Ids]
        /\ ui'.mode = ui.mode /\ ui'.selected = ui.selected /\ ui'.latest = ui.latest
        /\ ui'.chosen = ui.chosen /\ ui'.draft.of = ui.draft.of
    BY <2>1
  <2>4. FieldsFit'
    BY <2>2, <2>3 DEF FieldsFit, Loading, DialogOpen
  <2> QED
    BY <2>2, <2>3, <2>4, PageMoves
<1>3. CASE OpenBulk \/ CloseBulk
  <2>1. UNCHANGED <<loads, waiting, left, touched, crossed>>
    BY <1>3 DEF OpenBulk, CloseBulk
  <2>2. /\ ui' \in [mode : {"view", "new"}, selected : {0} \cup Ids, latest : {0} \cup Ids,
                     draft : Drafts, chosen : {0} \cup Ids]
        /\ ui'.mode = ui.mode /\ ui'.selected = ui.selected /\ ui'.latest = ui.latest
        /\ ui'.draft = ui.draft /\ ui'.chosen \in {0, ui.selected}
    BY <1>3 DEF OpenBulk, CloseBulk
  <2>3. FieldsFit'
    BY <2>1, <2>2 DEF FieldsFit, Loading, DialogOpen
  <2> QED
    BY <2>1, <2>2, <2>3, PageMoves
<1> QED
  BY <1>1, <1>2, <1>3

LEMMA LoadFits ==
    ASSUME Inv, ServeLoad \/ HearTemplate
    PROVE  PageInv'
<1> USE DEF Inv, PageInv, PageTyped
<1>1. CASE ServeLoad
  <2>1. PICK l \in loads, m \in [id : Ids, draft : Drafts, got : {"asked", "template", "failed"}] :
           /\ m.id = l.id
           /\ m.got = "template" => m.draft.of = m.id
           /\ loads' = (loads \ {l}) \cup {m}
    BY <1>1, LoadServed
  <2>2. UNCHANGED <<ui, waiting, left, touched, crossed>>
    BY <1>1 DEF ServeLoad
  <2>3. LoadsInv'
    BY <2>1, <2>2 DEF LoadsInv, Awaited
  <2>4. FieldsFit'
    BY <2>1, <2>2 DEF FieldsFit, Loading, DialogOpen
  <2> QED
    BY <2>1, <2>2, <2>3, <2>4
<1>2. CASE HearTemplate
  <2>1. PICK l \in loads :
           /\ l.got # "asked"
           /\ loads' = loads \ {l}
           /\ IF ~IsLatest(l.id) THEN UNCHANGED <<ui, left, touched, crossed>>
              ELSE /\ ui' = IF l.got = "failed" THEN ui ELSE [ui EXCEPT !.draft = l.draft]
                   /\ crossed' = (crossed \/ left \/ l.got = "failed")
                   /\ touched' = ("create" \in waiting)
                   /\ left' = FALSE
    BY <1>2 DEF HearTemplate
  <2>2. waiting' = waiting
    BY <1>2 DEF HearTemplate
  <2>3. CASE ~IsLatest(l.id)
    <3>1. LoadsInv'
      BY <2>1, <2>3 DEF LoadsInv, Awaited, IsLatest
    <3>2. FieldsFit'
      BY <2>1, <2>3 DEF FieldsFit, Loading, DialogOpen, IsLatest
    <3> QED
      BY <2>1, <2>2, <2>3, <3>1, <3>2
  <2>4. CASE IsLatest(l.id)
    <3>1. /\ ui' \in [mode : {"view", "new"}, selected : {0} \cup Ids, latest : {0} \cup Ids,
                       draft : Drafts, chosen : {0} \cup Ids]
          /\ ui'.mode = ui.mode /\ ui'.selected = ui.selected /\ ui'.latest = ui.latest
          /\ ui'.chosen = ui.chosen
          /\ l.got # "failed" => ui'.draft = l.draft
      BY <2>1, <2>4
    <3>2. PageTyped'
      <4>1. left' \in BOOLEAN
        BY <2>1, <2>4
      <4>2. touched' \in BOOLEAN
        <5>1. touched' = ("create" \in waiting)
          BY <2>1, <2>4
        <5> QED
          BY ONLY <5>1
      <4>3. crossed' \in BOOLEAN
        BY <2>1, <2>4, Zenon
      <4>4. /\ loads' \subseteq [id : Ids, draft : Drafts, got : {"asked", "template", "failed"}]
            /\ waiting' \subseteq Kinds
        BY <2>1, <2>2
      <4> QED
        BY <3>1, <4>1, <4>2, <4>3, <4>4
    <3>3. ~Awaited'
      BY <2>1, <2>4, <3>1 DEF Awaited, LoadsInv, IsLatest
    <3>4. LoadsInv'
      BY <2>1, <3>3 DEF LoadsInv
    <3>5. l.got # "failed" => l.draft.of = ui.latest
      BY <2>1, <2>4 DEF LoadsInv, IsLatest
    <3>6. ui.selected # ui.latest => left
      BY <2>4 DEF LoadsInv, Awaited, IsLatest
    <3>7. FieldsFit'
      BY <2>1, <2>4, <3>1, <3>5, <3>6 DEF FieldsFit, DialogOpen
    <3> QED
      BY <3>2, <3>4, <3>7
  <2> QED
    BY <2>3, <2>4
<1> QED
  BY <1>1, <1>2

LEMMA HearFits ==
    ASSUME Inv, HearAnswer \/ \E kind \in Kinds : HearNothing(kind)
    PROVE  PageInv'
<1> USE DEF Inv, PageInv, PageTyped
<1>1. ASSUME NEW kind, HearNothing(kind) PROVE PageInv'
  <2>1. UNCHANGED <<ui, loads, left, crossed>> /\ PageTyped'
    BY <1>1 DEF HearNothing
  <2>2. FieldsFit'
    BY <2>1 DEF FieldsFit, Loading, DialogOpen
  <2> QED
    BY <2>1, <2>2, PageMoves
<1>2. CASE HearAnswer
  <2>1. PICK a \in answers :
           /\ waiting' = waiting \ {a.kind}
           /\ CASE a.ok /\ a.kind = "create" -> ShowCreated(a.id)
                [] a.ok /\ a.kind = "delete" -> ShowDeleted
                [] a.ok /\ a.kind = "bulk" -> /\ ui' = [ui EXCEPT !.chosen = 0]
                                              /\ UNCHANGED <<left, crossed>>
                [] OTHER -> UNCHANGED <<ui, left, crossed>>
    BY <1>2 DEF HearAnswer
  <2>2. touched' \in BOOLEAN /\ waiting' \subseteq Kinds /\ loads' = loads
    BY <1>2, <2>1 DEF HearAnswer
  <2>3. CASE ShowCreated(a.id)
    <3>1. a.id \in {0} \cup Ids
      BY DEF ServerInv, ServerTyped, Answer
    <3> DEFINE d == [ui.draft EXCEPT !.of = IF touched THEN @ ELSE a.id]
    <3>2. d \in Drafts /\ (~touched => d.of = a.id)
      BY <3>1 DEF Drafts
    <3>3. ui' = [ui EXCEPT !.mode = "view", !.selected = a.id, !.draft = d]
      BY <2>3 DEF ShowCreated
    <3> HIDE DEF d
    <3>4. /\ ui' \in [mode : {"view", "new"}, selected : {0} \cup Ids, latest : {0} \cup Ids,
                       draft : Drafts, chosen : {0} \cup Ids]
          /\ ui'.selected = a.id /\ ui'.latest = ui.latest
          /\ ui'.chosen = ui.chosen /\ ui'.draft = d
      BY <3>1, <3>2, <3>3
    <3>5. /\ crossed' = (crossed \/ touched \/ DialogOpen) /\ crossed' \in BOOLEAN
          /\ left' = Awaited /\ left' \in BOOLEAN
      BY <2>3 DEF ShowCreated, DialogOpen, Awaited
    <3>6. FieldsFit'
      BY <3>2, <3>4, <3>5 DEF FieldsFit, DialogOpen
    <3> QED
      BY <2>2, <3>4, <3>5, <3>6, PageMoves
  <2>4. CASE ShowDeleted /\ ui.selected # 0 /\ ui.mode = "view"
    <3>1. /\ ui' \in [mode : {"view", "new"}, selected : {0} \cup Ids, latest : {0} \cup Ids,
                       draft : Drafts, chosen : {0} \cup Ids]
          /\ ui'.selected = 0 /\ ui'.latest = ui.latest
      <4>1. Blank \in Drafts
        BY DEF Blank, Drafts
      <4>2. ui' = [ui EXCEPT !.selected = 0, !.draft = Blank]
        BY <2>4 DEF ShowDeleted
      <4> QED
        BY <4>1, <4>2
    <3>2. left' = Awaited /\ left' \in BOOLEAN /\ crossed' = crossed
      BY <2>4 DEF ShowDeleted, Awaited
    <3> QED
      BY <2>2, <3>1, <3>2, PageMoves DEF FieldsFit
  <2>5. CASE ui' = [ui EXCEPT !.chosen = 0] /\ UNCHANGED <<left, crossed>>
    <3>1. /\ ui' \in [mode : {"view", "new"}, selected : {0} \cup Ids, latest : {0} \cup Ids,
                       draft : Drafts, chosen : {0} \cup Ids]
          /\ ui'.mode = ui.mode /\ ui'.selected = ui.selected /\ ui'.latest = ui.latest
          /\ ui'.draft = ui.draft /\ ui'.chosen = 0
      BY <2>5
    <3>2. FieldsFit'
      BY <2>2, <2>5, <3>1 DEF FieldsFit, Loading, DialogOpen
    <3> QED
      BY <2>2, <2>5, <3>1, <3>2, PageMoves
  <2>6. CASE UNCHANGED <<ui, left, crossed>>
    <3>1. FieldsFit'
      BY <2>2, <2>6 DEF FieldsFit, Loading, DialogOpen
    <3> QED
      BY <2>2, <2>6, <3>1, PageMoves
  <2> QED
    BY <2>1, <2>3, <2>4, <2>5, <2>6 DEF ShowDeleted
<1> QED
  BY <1>1, <1>2

LEMMA ClickFits ==
    ASSUME Inv, NEW j \in Jobs,
           ClickSave(j) \/ ClickCreate(j) \/ SendBulkNow(j) \/ \E id \in Ids : ClickDelete(j, id)
    PROVE  PageInv' /\ Request(j, TRUE)
<1> USE DEF Inv, PageInv, PageTyped
<1>1. Request(j, TRUE)
  <2>1. /\ ui.selected # 0 => ui.selected \in Ids
        /\ ui.draft.key # None => ui.draft.key \in Keys \cup OwnKeys
        /\ ui.draft.text # None => ui.draft.text \in Texts \cup {Default}
    BY DEF Drafts
  <2> QED
    BY <2>1 DEF ClickSave, ClickCreate, SendBulkNow, ClickDelete, Uploads, Targets, Request
<1>2. UNCHANGED <<ui, loads, left, crossed>> /\ waiting' \subseteq Kinds /\ touched' \in BOOLEAN
  BY DEF ClickSave, ClickCreate, SendBulkNow, ClickDelete, Kinds
<1>3. FieldsFit'
  BY <1>2 DEF FieldsFit, Loading, DialogOpen
<1> QED
  BY <1>1, <1>2, <1>3, PageMoves

-----------------------------------------------------------------------------
(* The behaviours.                                                         *)

LEMMA Starts ==
    ASSUME Init
    PROVE  Inv
<1>1. ServerInv
  BY ServerStarts DEF Init
<1>2. PageTyped
  <2>1. Blank \in Drafts
    BY DEF Blank, Drafts
  <2> QED
    BY <2>1 DEF Init, PageTyped
<1>3. LoadsInv /\ FieldsFit
  BY DEF Init, LoadsInv, FieldsFit, Awaited
<1> QED
  BY <1>1, <1>2, <1>3 DEF Inv, PageInv

\* What the page does to the server: nothing, or a request; an answer is heard.
LEMMA ServerRests ==
    ASSUME ServerInv, UNCHANGED <<startVars, job, received>>, answers' \subseteq answers
    PROVE  ServerGoes
<1> USE DEF ServerInv, ServerTyped, StartTyped
<1>1. TemplatesGo
  BY TemplatesStay DEF startVars
<1>2. IndexInv'
  BY DEF IndexInv, startVars
<1> QED
  BY <1>1, <1>2 DEF ServerGoes, JobsGo, startVars, StartTypeOK

LEMMA Stays ==
    ASSUME Inv, [Next]_vars
    PROVE  Inv'
<1> USE DEF Inv
<1>1. ASSUME ServerGoes PROVE ServerInv'
  BY <1>1, ServerGoesOn
<1>2. CASE ServerNext /\ UNCHANGED pageVars
  BY <1>1, <1>2, ServerGoesSteps, PageStays DEF ServerInv
<1>3. ASSUME NEW id \in Ids, SelectTemplate(id) PROVE Inv'
  <2>1. ServerGoes
    BY <1>3, ServerRests DEF SelectTemplate, serverVars
  <2> QED
    BY <1>1, <1>3, <2>1, SelectFits
<1>4. CASE StartNew \/ Type \/ OpenBulk \/ CloseBulk
  <2>1. ServerGoes
    BY <1>4, ServerRests DEF StartNew, Type, OpenBulk, CloseBulk, serverVars
  <2> QED
    BY <1>1, <1>4, <2>1, EditFits
<1>5. ASSUME NEW j \in Jobs,
             ClickSave(j) \/ ClickCreate(j) \/ SendBulkNow(j) \/ \E id \in Ids : ClickDelete(j, id)
      PROVE  Inv'
  <2>1. PageInv' /\ ServerGoes
    BY <1>5, ClickFits, RequestsFit DEF ServerInv
  <2> QED
    BY <1>1, <2>1
<1>6. CASE ServeLoad \/ HearTemplate
  <2>1. ServerGoes
    BY <1>6, ServerRests DEF ServeLoad, HearTemplate, serverVars
  <2> QED
    BY <1>1, <1>6, <2>1, LoadFits
<1>7. CASE HearAnswer \/ \E kind \in Kinds : HearNothing(kind)
  <2>1. ServerGoes
    BY <1>7, ServerRests DEF HearAnswer, HearNothing
  <2> QED
    BY <1>1, <1>7, <2>1, HearFits
<1>8. CASE UNCHANGED vars
  <2>1. ServerGoes
    BY <1>8, ServerRests DEF vars, serverVars
  <2> QED
    BY <1>1, <1>8, <2>1, PageStays DEF vars
<1> QED
  BY <1>2, <1>3, <1>4, <1>5, <1>6, <1>7, <1>8 DEF Next

\* Start-up, handlers and page keep, together, what the theorems below follow from.
THEOREM Inductive == Spec => []Inv
<1>1. Init => Inv
  BY Starts
<1>2. Inv /\ [Next]_vars => Inv'
  BY Stays
<1> QED
  BY <1>1, <1>2, PTL DEF Spec

\* Every variable of the server, of its handlers and of the page has its type.
THEOREM PageTypeCorrect == Spec => []PageTypeOK
<1>1. Inv => PageTypeOK
  BY DEF Inv, ServerInv, ServerTyped, StartTyped, JobsTyped, PageInv, PageTyped, PageTypeOK, MailTypeOK
<1> QED
  BY <1>1, Inductive, PTL

\* However often a start is cut off between dropping the old index and building
\* its replacement (dropIndex, createIndex in server.js), a server that listens
\* has the right index and no admission number twice, unless it ignored an error.
THEOREM IndexIsRepaired == Spec => []ListensWithIndex
<1>1. Inv => ListensWithIndex
  BY DEF Inv, ServerInv, ServerTyped, StartTyped, IndexInv, ListensWithIndex
<1> QED
  BY <1>1, Inductive, PTL

\* The batches of one bulk mail, of whatever size and to lists of whatever length,
\* go through the rows in their order and neither skip one nor mail one twice, and
\* a mail to all members mails no address twice (sendBulkEmailTemplate).
THEOREM BulkMailsEveryRow == Spec => []EveryRowMailedOnce
<1>1. Inv => EveryRowMailedOnce
  BY DEF Inv, ServerInv, ServerTyped, JobsTyped, JobShaped, Halves, ListOf, NoneTwice,
         EveryRowMailedOnce
<1> QED
  BY <1>1, Inductive, PTL

\* The fields of a selected and loaded template are that template's own, and the
\* bulk dialog sends the one it was opened for, in whatever order the loads and
\* the answers arrive (selectTemplate and latestSelectedIdRef in Mailer.jsx).
THEOREM FieldsAreTheSelections == Spec => []DraftFitsSelection
<1>1. Inv => DraftFitsSelection
  BY DEF Inv, PageInv, FieldsFit, DraftFitsSelection
<1> QED
  BY <1>1, Inductive, PTL

\* No restart and no mail writes the built-in text over an administrator's, but a
\* mail whose search had found no template, over one created since; or another
\* administrator does, from a page with the built-in text on it (upsertSystemTemplate).
THEOREM EditsAreKept == Spec => EditsGiveWayOnlyToRaces
<1> DEFINE Body == \A t \in EditsOverwritten : \E j \in Jobs :
                     \/ job[j].at = "overwrite" /\ job[j].id = t.id /\ t.id > job[j].since
                     \/ SavesDefault(j, t)
<1>1. ASSUME Inv, [Next]_vars PROVE [Body]_serverVars
  <2>1. CASE ServerNext
    BY <1>1, <2>1, EditsGiveWay DEF Inv, EditsOverwritten
  <2>2. CASE templates' = templates
    BY <1>1, <2>2 DEF Inv, ServerInv, ServerTyped, UniqueInv, EditsOverwritten
  <2>3. ServerNext \/ templates' = templates
    BY <1>1 DEF Next, vars, serverVars, startVars, SelectTemplate, StartNew, Type, OpenBulk, CloseBulk,
                ClickSave, ClickCreate, ClickDelete, SendBulkNow, BeginSave, BeginCreate, BeginDelete,
                BeginBulk, ServeLoad, HearTemplate, HearAnswer, HearNothing
  <2> QED
    BY <2>1, <2>2, <2>3
<1>2. Inv /\ [Next]_vars => [Body]_serverVars
  BY <1>1
<1> QED
  BY <1>2, Inductive, PTL DEF Spec, EditsGiveWayOnlyToRaces
====
