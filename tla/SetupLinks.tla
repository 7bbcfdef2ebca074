---- MODULE SetupLinks ----
(***************************************************************************)
(* What the portal promises about the links that set a password, free of   *)
(* how it is done: a password is chosen through a link that was mailed and *)
(* that, when it was opened, was the newest of its account and had not     *)
(* been used; a password once chosen stays until its account is removed;   *)
(* who is removed does not return; and a session begins with a password.   *)
(* PortalUsers implements this specification.                              *)
(***************************************************************************)
EXTENDS Integers, Sequences

CONSTANTS
    Accounts,
    Root       \* the account that is there from the start

VARIABLES
    stage,     \* per account: "unborn", "temporary", "chosen" (its password) or "gone"
    issued,    \* the account each link is for
    mailed,    \* links delivered
    opened,    \* links in the hands of a request that found them in order
    used,      \* links with which a password was chosen
    sessions   \* accounts logged in

promised == <<stage, issued, mailed, opened, used, sessions>>

Links == 1 .. Len(issued)

Present(a) == stage[a] \in {"temporary", "chosen"}

Newest(l) == \A k \in Links : issued[k] = issued[l] => k <= l

Init ==
    /\ stage = [a \in Accounts |-> IF a = Root THEN "chosen" ELSE "unborn"]
    /\ issued = <<>>
    /\ mailed = {} /\ opened = {} /\ used = {}
    /\ sessions = {}

\* With a link, or without access and a link.
Join(a) ==
    /\ stage[a] = "unborn"
    /\ stage' = [stage EXCEPT ![a] = "temporary"]
    /\ issued' \in {issued, Append(issued, a)}
    /\ UNCHANGED <<mailed, opened, used, sessions>>

\* The links before this one can no longer be opened.
Renew(a) ==
    /\ Present(a) /\ a # Root
    /\ issued' = Append(issued, a)
    /\ UNCHANGED <<stage, mailed, opened, used, sessions>>

Deliver ==
    /\ \E l \in Links : mailed' = mailed \cup {l}
    /\ UNCHANGED <<stage, issued, opened, used, sessions>>

Open(l) ==
    /\ l \in mailed \ used
    /\ Newest(l) /\ Present(issued[l])
    /\ opened' = opened \cup {l}
    /\ UNCHANGED <<stage, issued, mailed, used, sessions>>

\* Requests fail, or die with the process.
Forget ==
    /\ opened' \subseteq opened
    /\ UNCHANGED <<stage, issued, mailed, used, sessions>>

\* Another request may still have the link open.
Choose(l) ==
    /\ l \in opened /\ Present(issued[l])
    /\ stage' = [stage EXCEPT ![issued[l]] = "chosen"]
    /\ used' = used \cup {l}
    /\ opened' \subseteq opened
    /\ UNCHANGED <<issued, mailed, sessions>>

Remove(a) ==
    /\ Present(a) /\ a # Root
    /\ stage' = [stage EXCEPT ![a] = "gone"]
    /\ UNCHANGED <<issued, mailed, opened, used, sessions>>

Enter(a) ==
    /\ stage[a] = "chosen"
    /\ sessions' = sessions \cup {a}
    /\ UNCHANGED <<stage, issued, mailed, opened, used>>

Leave ==
    /\ sessions' \subseteq sessions
    /\ UNCHANGED <<stage, issued, mailed, opened, used>>

Next ==
    \/ Forget \/ Leave \/ Deliver
    \/ \E a \in Accounts : Join(a) \/ Renew(a) \/ Remove(a) \/ Enter(a)
    \/ \E l \in Links : Open(l) \/ Choose(l)

Spec == Init /\ [][Next]_promised
====
