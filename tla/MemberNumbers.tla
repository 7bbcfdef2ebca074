---- MODULE MemberNumbers ----
(***************************************************************************)
(* What the student numbering promises, free of how it is done: in every   *)
(* cohort (joining year and department) a number is first reserved, then   *)
(* either held by a member or dropped, and a number that was dropped or    *)
(* given back is never handed out again once the cohort's numbering is     *)
(* open.  Membership implements this specification.                        *)
(***************************************************************************)
EXTENDS Integers

CONSTANT Cohorts

VARIABLES
    top,       \* the last number handed out per cohort, -1 while numbering is closed
    reserved,  \* <<cohort, number>> pairs handed to a request in flight
    held       \* <<cohort, number>> pairs carried by a member

vars == <<top, reserved, held>>

Closed == -1

Init ==
    /\ top = [c \in Cohorts |-> Closed]
    /\ reserved = {}
    /\ held \subseteq (Cohorts \X Nat)

\* Numbering of a cohort starts above every number already carried in it.
Open(c) ==
    /\ top[c] = Closed
    /\ top'[c] \in Nat
    /\ \A x \in held : x[1] = c => x[2] <= top'[c]
    /\ top' = [top EXCEPT ![c] = top'[c]]
    /\ UNCHANGED <<reserved, held>>

Reserve(c) ==
    /\ top[c] # Closed
    /\ top' = [top EXCEPT ![c] = @ + 1]
    /\ reserved' = reserved \cup {<<c, top[c] + 1>>}
    /\ UNCHANGED held

Grant ==
    \E x \in reserved :
        /\ reserved' = reserved \ {x}
        /\ held' = held \cup {x}
        /\ UNCHANGED top

\* A request that fails drops its number; a crash drops several at once.
Drop ==
    /\ reserved' \subseteq reserved
    /\ UNCHANGED <<top, held>>

GiveBack ==
    \E x \in held :
        /\ held' = held \ {x}
        /\ UNCHANGED <<top, reserved>>

Next ==
    \/ \E c \in Cohorts : Open(c) \/ Reserve(c)
    \/ Grant
    \/ Drop
    \/ GiveBack

Spec == Init /\ [][Next]_vars
====
