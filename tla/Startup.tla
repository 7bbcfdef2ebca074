---- MODULE Startup ----
(***************************************************************************)
(* What the server does before it listens: repair the index on the         *)
(* admission number, seed the administrator (PortalUsers) and the mail     *)
(* templates, each awaited in turn; and what a stop between two of those   *)
(* steps leaves for the next start.                                        *)
(***************************************************************************)
EXTENDS Integers, FiniteSets

CONSTANTS
    Keys,      \* the keys seedEmailTemplates knows
    OwnKeys,   \* keys an administrator may invent
    Texts,     \* what an administrator may write into a template
    Default,   \* the text a template is seeded with
    Older,     \* templates from before the seeding: an administrator's own
    None,      \* no template, no text
    MaxIds     \* bound: template documents ever created

VARIABLES
    phase,      \* how far the start-up is; "up" once the server listens
    index,      \* the index admissionNo_1 of "registrations"
    doubled,    \* two students carry one admission number
    missed,     \* history: an index call failed, which start-up ignores
    templates,  \* collection "emailtemplates"
    created     \* documents created so far, which numbers them

startVars == <<phase, index, doubled, missed, templates, created>>

ASSUME DefaultAssumption == Default \notin Texts \cup {None}

Template == [id : 1 .. MaxIds, key : Keys \cup OwnKeys, text : Texts \cup {Default}, base : BOOLEAN]

\* The unique index on the key is as old as the collection.
ASSUME OlderAssumption ==
    /\ MaxIds \in Nat
    /\ Older \subseteq Template /\ IsFiniteSet(Older) /\ Cardinality(Older) <= MaxIds
    /\ \A t \in Older : t.id <= Cardinality(Older)
    /\ \A t, u \in Older : t.id = u.id \/ t.key = u.key => t = u

StartTypeOK ==
    /\ phase \in {"down", "index", "drop", "create", "seed", "up"}
    /\ index \in {"legacy", "none", "sparse"}
    /\ doubled \in BOOLEAN /\ missed \in BOOLEAN
    /\ templates \subseteq Template
    /\ created \in 0 .. MaxIds

\* A database of an earlier version: the index unique but not sparse, or none.
StartInit ==
    /\ phase = "down"
    /\ index \in {"legacy", "none"}
    /\ doubled = FALSE
    /\ missed = FALSE
    /\ templates = Older
    /\ created = Cardinality(Older)

Holds(key) == \E t \in templates : t.key = key

-----------------------------------------------------------------------------

\* connectDB; when it fails the process exits.
Connect ==
    /\ phase = "down"
    /\ phase' = "index"
    /\ UNCHANGED <<index, doubled, missed, templates, created>>

\* Variant: nothing is done for an index that is missing.
RepairLegacyOnly == CASE index = "legacy" -> "drop" [] OTHER -> "seed"

RepairOf == CASE index = "legacy" -> "drop" [] index = "none" -> "create" [] OTHER -> "seed"

\* collection.indexes(); an error ends the repair.
ReadIndexes ==
    /\ phase = "index"
    /\ \/ phase' = RepairOf /\ UNCHANGED missed
       \/ phase' = "seed" /\ missed' = TRUE
    /\ UNCHANGED <<index, doubled, templates, created>>

\* "ignore drop errors; we'll still try to create the right index"
DropIndex ==
    /\ phase = "drop"
    /\ phase' = "create"
    /\ \/ index' = "none" /\ UNCHANGED missed
       \/ UNCHANGED index /\ missed' = TRUE
    /\ UNCHANGED <<doubled, templates, created>>

\* The index cannot be built over the old one of its name or over duplicates.
CreateIndex ==
    /\ phase = "create"
    /\ phase' = "seed"
    /\ \/ /\ index = "none" /\ ~doubled
          /\ index' = "sparse"
          /\ UNCHANGED missed
       \/ /\ UNCHANGED index
          /\ missed' = (missed \/ (index # "sparse" /\ ~doubled))
    /\ UNCHANGED <<doubled, templates, created>>

\* Mongoose builds the indexes of its schemas some time after connecting.
AutoIndex ==
    /\ phase # "down"
    /\ index = "none" /\ ~doubled
    /\ index' = "sparse"
    /\ UNCHANGED <<phase, doubled, missed, templates, created>>

\* "never overwrite user-edited templates"
Seed(key) ==
    /\ phase = "seed"
    /\ ~Holds(key)
    /\ created < MaxIds
    /\ templates' = templates \cup
          {[id |-> created + 1, key |-> key, text |-> Default, base |-> TRUE]}
    /\ created' = created + 1
    /\ UNCHANGED <<phase, index, doubled, missed>>

Listen ==
    /\ phase = "seed"
    /\ \A key \in Keys : Holds(key)
    /\ phase' = "up"
    /\ UNCHANGED <<index, doubled, missed, templates, created>>

StartUp == Connect \/ ReadIndexes \/ DropIndex \/ CreateIndex \/ AutoIndex \/ Listen
              \/ \E key \in Keys : Seed(key)

\* While no index excludes it, a second student registers the same number.
DoubleAdmission ==
    /\ phase = "up" /\ index = "none"
    /\ doubled' = TRUE
    /\ UNCHANGED <<phase, index, missed, templates, created>>

-----------------------------------------------------------------------------

\* However often the process stopped on its way, in particular between dropping
\* the old index and creating its replacement: a server that listens has the
\* right index, and no two students share an admission number, unless a call to
\* the database failed and was ignored.
ListensWithIndex ==
    ~missed => ~doubled /\ (phase = "up" => index = "sparse")
====
