---- MODULE MailCenter ----
(***************************************************************************)
(* The mail templates and the handlers over them: create, update, delete,  *)
(* the bulk mail, and the update mail of the execom page, which writes the *)
(* template it misses.  A handler is an entry of `job` and takes one step  *)
(* per awaited database call or batch of mails; a request of the Mailer    *)
(* page is `mine` and ends with an answer to it.                           *)
(***************************************************************************)
EXTENDS Startup, Sequences

CONSTANTS
    Jobs,         \* requests the server may be handling at once
    Recipients,   \* addresses a bulk mail may go to
    Lists,        \* lists a request for one may carry
    MaxRows,      \* rows a list may have (2000)
    Batch,        \* mails sent at once (5)
    MaxRequests   \* bound: requests received in a behaviour

ASSUME BatchAssumption == Batch \in Nat \ {0}

\* A list is its number of rows and the valid addresses among them, in their
\* order: the same address may stand on several rows.
ASSUME ListsAssumption ==
    /\ IsFiniteSet(Recipients)
    /\ \A list \in Lists : list.rows \in Nat /\ list.to \in Seq(Recipients)

ASSUME MaxRequestsAssumption == MaxRequests \in Nat

VARIABLES
    job,        \* the handlers in flight
    received,   \* requests received so far
    answers     \* answers on their way to the Mailer page

serverVars == <<startVars, job, received, answers>>

Ids == 1 .. MaxIds
Kinds == {"create", "save", "delete", "notify", "bulk"}

\* `text` is what is to be written, `had` what the handler loaded; `since` is
\* the number of documents when a notify found none; a bulk mail goes to all members
\* or to a list of `rows`, and of its addresses `to`, in order and with repeats,
\* `tried` were given to the mail server and `todo` are left.
Job == [at : {"rest", "look", "insert", "load", "save", "drop", "find", "upsert", "overwrite",
              "mail", "members", "batch"},
        kind : Kinds, mine : BOOLEAN, id : {0} \cup Ids, key : Keys \cup OwnKeys \cup {None},
        text : Texts \cup {Default, None}, had : Texts \cup {Default, None},
        mode : {"all", "list"}, rows : Nat, to : Seq(Recipients),
        tried : Seq(Recipients), todo : Seq(Recipients), since : {0} \cup Ids]

Rest == [at |-> "rest", kind |-> "bulk", mine |-> FALSE, id |-> 0, key |-> None,
         text |-> None, had |-> None, mode |-> "list", rows |-> 0, to |-> <<>>,
         tried |-> <<>>, todo |-> <<>>, since |-> 0]

Answer == [kind : Kinds, ok : BOOLEAN, id : {0} \cup Ids]

MailTypeOK ==
    /\ StartTypeOK
    /\ job \in [Jobs -> Job]
    /\ received \in 0 .. MaxRequests
    /\ answers \subseteq Answer

MailInit ==
    /\ StartInit
    /\ job = [j \in Jobs |-> Rest]
    /\ received = 0
    /\ answers = {}

Begin(j, request) ==
    /\ phase = "up"
    /\ job[j] = Rest
    /\ received < MaxRequests
    /\ received' = received + 1
    /\ job' = [job EXCEPT ![j] = request]

Move(j, to) == job' = [job EXCEPT ![j].at = to] /\ UNCHANGED answers

\* The request ends; `id` is the document a create has made.
Finish(j, ok, id) ==
    /\ job' = [job EXCEPT ![j] = Rest]
    /\ answers' = IF job[j].mine
                  THEN answers \cup {[kind |-> job[j].kind, ok |-> ok, id |-> id]}
                  ELSE answers

\* The document under an ID, as a set of at most one.
Found(id) == {t \in templates : t.id = id}

Insert(key, text, base) ==
    /\ created < MaxIds
    /\ templates' = templates \cup
          {[id |-> created + 1, key |-> key, text |-> text, base |-> base]}
    /\ created' = created + 1

-----------------------------------------------------------------------------
(* Requests.                                                               *)

BeginCreate(j, mine, key, text) ==
    /\ Begin(j, [Rest EXCEPT !.at = "look", !.kind = "create", !.mine = mine,
                             !.key = key, !.text = text])
    /\ UNCHANGED <<startVars, answers>>

BeginSave(j, mine, id, text) ==
    /\ Begin(j, [Rest EXCEPT !.at = "load", !.kind = "save", !.mine = mine,
                             !.id = id, !.text = text])
    /\ UNCHANGED <<startVars, answers>>

BeginDelete(j, mine, id) ==
    /\ Begin(j, [Rest EXCEPT !.at = "load", !.kind = "delete", !.mine = mine, !.id = id])
    /\ UNCHANGED <<startVars, answers>>

BeginNotify(j, key) ==
    /\ Begin(j, [Rest EXCEPT !.at = "find", !.kind = "notify", !.key = key])
    /\ UNCHANGED <<startVars, answers>>

NoList == [rows |-> 0, to |-> <<>>]

\* To all members, without a list, or to one of these lists; no list at all and
\* an unknown mode are answered like a list of no rows.
Targets(lists) == [mode : {"list"}, list : lists] \cup {[mode |-> "all", list |-> NoList]}

BeginBulk(j, mine, id, target) ==
    /\ Begin(j, [Rest EXCEPT !.at = "load", !.kind = "bulk", !.mine = mine, !.id = id,
                             !.mode = target.mode, !.rows = target.list.rows,
                             !.to = target.list.to])
    /\ UNCHANGED <<startVars, answers>>

-----------------------------------------------------------------------------
(* createEmailTemplate.                                                    *)

LookForKey(j) ==
    /\ job[j].at = "look"
    /\ IF Holds(job[j].key) THEN Finish(j, FALSE, 0) ELSE Move(j, "insert")
    /\ UNCHANGED <<startVars, received>>

\* The unique index on the key decides: a second document is a 500, for an
\* upsert too.
InsertTemplate(j) ==
    /\ job[j].at = "insert"
    /\ IF Holds(job[j].key)
       THEN /\ Finish(j, FALSE, 0)
            /\ UNCHANGED <<templates, created>>
       ELSE /\ job[j].kind = "create"
            /\ Insert(job[j].key, job[j].text, FALSE)
            /\ Finish(j, TRUE, created + 1)
    /\ UNCHANGED <<phase, index, doubled, missed, received>>

-----------------------------------------------------------------------------
(* updateEmailTemplate, deleteEmailTemplate, sendBulkEmailTemplate.        *)

\* A list of no rows, of too many, or without a valid address: 400.
Refused(r) == r.rows = 0 \/ r.rows > MaxRows \/ r.to = <<>>

StartSending(j, to) ==
    /\ job' = [job EXCEPT ![j].at = "batch", ![j].to = to, ![j].todo = to]
    /\ UNCHANGED answers

AddressBulk(j) ==
    IF job[j].mode = "all" THEN Move(j, "members")
    ELSE IF Refused(job[j]) THEN Finish(j, FALSE, 0)
    ELSE StartSending(j, job[j].to)

\* findById: 404, or on with what was found; a base template is not deleted.
LoadTemplate(j) ==
    /\ job[j].at = "load"
    /\ \/ Found(job[j].id) = {} /\ Finish(j, FALSE, 0)
       \/ \E t \in Found(job[j].id) :
             CASE job[j].kind = "save" ->
                    /\ job' = [job EXCEPT ![j].at = "save", ![j].had = t.text]
                    /\ UNCHANGED answers
               [] job[j].kind = "delete" ->
                    IF t.base THEN Finish(j, FALSE, 0) ELSE Move(j, "drop")
               [] OTHER -> AddressBulk(j)
    /\ UNCHANGED <<startVars, received>>

\* save() writes what differs from what was loaded, into a document that is
\* still there.
Written(t, j) ==
    IF job[j].text = job[j].had THEN t ELSE [t EXCEPT !.text = job[j].text]

SaveTemplate(j) ==
    /\ job[j].at = "save"
    /\ templates' = (templates \ Found(job[j].id))
                       \cup {Written(t, j) : t \in Found(job[j].id)}
    /\ Finish(j, Found(job[j].id) # {}, 0)
    /\ UNCHANGED <<phase, index, doubled, missed, created, received>>

DropTemplate(j) ==
    /\ job[j].at = "drop"
    /\ templates' = templates \ Found(job[j].id)
    /\ Finish(j, TRUE, 0)
    /\ UNCHANGED <<phase, index, doubled, missed, created, received>>

-----------------------------------------------------------------------------
(* requestWebsiteTeamUpdateEmail and upsertSystemTemplate.                 *)

\* Variant: the template is brought up to date with every mail.
MissesAlways(key) == TRUE

Misses(key) == ~Holds(key)

\* The template in the mail center, or the one in the code.
FindForMail(j) ==
    /\ job[j].at = "find"
    /\ IF Misses(job[j].key)
       THEN /\ job' = [job EXCEPT ![j].at = "upsert", ![j].since = created]
            /\ UNCHANGED answers
       ELSE Move(j, "mail")
    /\ UNCHANGED <<startVars, received>>

\* upsertSystemTemplate looks again.
LookForUpsert(j) ==
    /\ job[j].at = "upsert"
    /\ IF Holds(job[j].key)
       THEN \E t \in templates :
               /\ t.key = job[j].key
               /\ job' = [job EXCEPT ![j].at = "overwrite", ![j].id = t.id, ![j].had = t.text]
       ELSE job' = [job EXCEPT ![j].at = "insert"]
    /\ UNCHANGED <<startVars, answers, received>>

InsertMissing(j) ==
    /\ job[j].at = "insert" /\ job[j].kind = "notify"
    /\ ~Holds(job[j].key)
    /\ Insert(job[j].key, Default, TRUE)
    /\ Move(j, "mail")
    /\ UNCHANGED <<phase, index, doubled, missed, received>>

\* Again save() writes the text only where the one loaded differs from it; a
\* template never stops being a base template.
BuiltIn(t, j) ==
    [t EXCEPT !.text = IF job[j].had = Default THEN @ ELSE Default, !.base = TRUE]

Overwrite(j) ==
    /\ job[j].at = "overwrite"
    /\ templates' = (templates \ Found(job[j].id))
                       \cup {BuiltIn(t, j) : t \in Found(job[j].id)}
    /\ IF Found(job[j].id) = {} THEN Finish(j, FALSE, 0) ELSE Move(j, "mail")
    /\ UNCHANGED <<phase, index, doubled, missed, created, received>>

\* sendMail reports its failure, which is answered with 500.
SendUpdateMail(j) ==
    /\ job[j].at = "mail"
    /\ \E ok \in BOOLEAN : Finish(j, ok, 0)
    /\ UNCHANGED <<startVars, received>>

-----------------------------------------------------------------------------
(* sendBulkEmailTemplate.                                                  *)

NoneTwice(to) == \A m, n \in DOMAIN to : to[m] = to[n] => m = n

\* The active members' addresses, of whom no two have the same, in whatever order
\* the database returns them; there may be none.
MemberLists ==
    {to \in UNION {[1 .. n -> Recipients] : n \in 0 .. Cardinality(Recipients)} : NoneTwice(to)}

ReadMembers(j) ==
    /\ job[j].at = "members"
    /\ \E to \in MemberLists : StartSending(j, to)
    /\ UNCHANGED <<startVars, received>>

\* The next slice of the list.
NextBatch(todo) == SubSeq(todo, 1, IF Len(todo) < Batch THEN Len(todo) ELSE Batch)

\* Variant: the next batch starts at the last address of this one.
RestAfterOverlap(todo, batch) ==
    IF batch = todo THEN <<>> ELSE SubSeq(todo, Len(batch), Len(todo))

RestAfter(todo, batch) == SubSeq(todo, Len(batch) + 1, Len(todo))

\* Promise.allSettled over one batch: each mail is sent or counted as failed.
SendBatch(j) ==
    /\ job[j].at = "batch" /\ job[j].todo # <<>>
    /\ LET batch == NextBatch(job[j].todo)
       IN  job' = [job EXCEPT ![j].todo = RestAfter(job[j].todo, batch),
                              ![j].tried = @ \o batch]
    /\ UNCHANGED <<startVars, received, answers>>

\* The mails sent and failed are counted and answered; nothing else records them.
ReportBulk(j) ==
    /\ job[j].at = "batch" /\ job[j].todo = <<>>
    /\ Finish(j, TRUE, 0)
    /\ UNCHANGED <<startVars, received>>

-----------------------------------------------------------------------------

\* A failed database call: 500.
Fail(j) ==
    /\ job[j].at \notin {"rest", "mail", "batch"}
    /\ Finish(j, FALSE, 0)
    /\ UNCHANGED <<startVars, received>>

\* The process stops, during start-up or later.
Crash ==
    /\ phase # "down"
    /\ phase' = "down"
    /\ job' = [j \in Jobs |-> Rest]
    /\ UNCHANGED <<index, doubled, missed, templates, created, received, answers>>

Step(j) ==
    \/ LookForKey(j) \/ InsertTemplate(j)
    \/ LoadTemplate(j) \/ SaveTemplate(j) \/ DropTemplate(j)
    \/ FindForMail(j) \/ LookForUpsert(j) \/ InsertMissing(j) \/ Overwrite(j)
    \/ SendUpdateMail(j)
    \/ ReadMembers(j) \/ SendBatch(j) \/ ReportBulk(j)
    \/ Fail(j)

\* Requests of other administrators.
Others(j) ==
    \/ \E key \in Keys \cup OwnKeys, text \in Texts : BeginCreate(j, FALSE, key, text)
    \/ \E id \in Ids, text \in Texts : BeginSave(j, FALSE, id, text)
    \/ \E id \in Ids : BeginDelete(j, FALSE, id)
    \/ \E key \in Keys : BeginNotify(j, key)
    \/ \E id \in Ids, target \in Targets(Lists) : BeginBulk(j, FALSE, id, target)

ServerNext ==
    \/ \E j \in Jobs : Step(j) \/ Others(j)
    \/ StartUp /\ UNCHANGED <<job, received, answers>>
    \/ DoubleAdmission /\ UNCHANGED <<job, received, answers>>
    \/ Crash

-----------------------------------------------------------------------------

\* "Ensure template exists in email center without overwriting user edits",
\* "never overwrite user-edited templates": an administrator's text gives way to
\* the built-in one only in a template created after the request for a mail had
\* found none, never by a restart or by a template that was there to be found;
\* or an administrator saves the built-in text over it, from a page that had
\* loaded it before.
EditsOverwritten ==
    {t \in templates : t.text # Default /\ \E n \in templates' : n.key = t.key /\ n.text = Default}

SavesDefault(j, t) == job[j].at = "save" /\ job[j].id = t.id /\ job[j].text = Default

EditsGiveWayOnlyToRaces ==
    [][\A t \in EditsOverwritten : \E j \in Jobs :
          \/ job[j].at = "overwrite" /\ job[j].id = t.id /\ t.id > job[j].since
          \/ SavesDefault(j, t)]_serverVars

\* Between two batches the rows tried and those still to come are, in their order,
\* the rows asked for: one request skips no row and mails none twice, so each
\* address is mailed once for every row it stands on, and each member once when
\* the mail goes to all.  (An address that stands on two rows of a list is mailed
\* twice: neither the page nor the handler takes repeats out.  Nothing survives the
\* request, so a repeat after a crash or a lost answer mails again those who had it.)
EveryRowMailedOnce ==
    \A j \in Jobs : job[j].at = "batch" =>
        LET mailed == job[j].tried \o job[j].todo
        IN  /\ mailed = job[j].to
            /\ job[j].mode = "all" => NoneTwice(mailed)
====
