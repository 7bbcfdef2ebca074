---- MODULE OtpProofs ----
(***************************************************************************)
(* Proofs about OtpVerification, for every set of emails and codes and any *)
(* number of concurrent requests.                                          *)
(***************************************************************************)
EXTENDS OtpVerification, FiniteSetTheorems, TLAPS

-----------------------------------------------------------------------------
(* Types.                                                                  *)

\* What the request of a handler at a step carries.
Shaped(r) ==
    /\ r \in Call
    /\ r.at \in {"check", "clear", "store", "read", "purge", "consume"} => r.email \in Emails
    /\ r.at \in {"check", "clear", "store", "consume"} => r.id \in Ids

Typed == TypeOK /\ \A k \in Calls : Shaped(call[k])

LEMMA RestIsShaped == Shaped(Rest)
  BY DEF Shaped, Rest, Call, Steps, Kinds

LEMMA OneCallMoves ==
    ASSUME Typed, NEW k \in Calls, NEW r, Shaped(r), call' = [call EXCEPT ![k] = r]
    PROVE  call' \in [Calls -> Call] /\ \A l \in Calls : Shaped(call'[l])
  BY DEF Typed, TypeOK, Shaped

\* A handler that only moves on, or is done.
LEMMA MoveTyped ==
    ASSUME Typed, NEW k \in Calls, NEW to, Move(k, to) \/ Finish(k),
           to \in {"store", "mail", "purge", "passed"},
           to = "store" => call[k].at = "clear", to = "purge" => call[k].at = "read"
    PROVE  call' \in [Calls -> Call] /\ \A l \in Calls : Shaped(call'[l])
<1>1. Shaped([call[k] EXCEPT !.at = to])
  BY DEF Typed, Shaped, Call, Steps
<1>2. CASE Move(k, to)
  <2>1. call' = [call EXCEPT ![k] = [call[k] EXCEPT !.at = to]]
    BY <1>2 DEF Move, Typed, TypeOK
  <2> QED
    BY <1>1, <2>1, OneCallMoves
<1>3. CASE Finish(k)
  BY <1>3, RestIsShaped, OneCallMoves DEF Finish
<1> QED
  BY <1>2, <1>3

LEMMA CheckEmailTyped ==
    ASSUME Typed, NEW k \in Calls, NEW coll \in Collections, CheckEmail(k, coll)
    PROVE  Typed'
<1> DEFINE left == call[k].todo \ {coll}
           hit == call[k].hit \/ <<call[k].email, coll>> \in enrolled
           r == IF left # {} THEN [call[k] EXCEPT !.todo = left, !.hit = hit]
                ELSE IF hit THEN Rest
                ELSE [call[k] EXCEPT !.at = "clear", !.todo = {}]
<1>1. Shaped(call[k]) /\ call[k] \in Call /\ call[k].at = "check"
  BY DEF Typed, TypeOK, CheckEmail
<1>2. left \in SUBSET Collections /\ hit \in BOOLEAN
  BY <1>1 DEF Call
<1>3. Shaped(r)
  <2>1. Shaped([call[k] EXCEPT !.todo = left, !.hit = hit])
    <3> HIDE DEF left, hit
    <3> QED BY <1>1, <1>2 DEF Shaped, Call
  <2>2. Shaped([call[k] EXCEPT !.at = "clear", !.todo = {}])
    BY <1>1 DEF Shaped, Call, Steps
  <2> QED
    BY <2>1, <2>2, RestIsShaped
<1>4. call' = [call EXCEPT ![k] = r]
  BY DEF CheckEmail, Typed, TypeOK
<1>5. call' \in [Calls -> Call] /\ \A l \in Calls : Shaped(call'[l])
  <2> HIDE DEF r
  <2> QED BY <1>3, <1>4, OneCallMoves
<1> QED
  BY <1>5 DEF CheckEmail, Typed, TypeOK

LEMMA BeginTyped ==
    ASSUME Typed, NEW k \in Calls, Arrive(k)
    PROVE  Typed'
<1>1. ASSUME NEW e \in Emails, NEW checked \in BOOLEAN, BeginSend(k, e, checked)
      PROVE  Typed'
  <2> DEFINE r == [at |-> IF checked THEN "check" ELSE "clear", kind |-> "send",
                   email |-> e, code |-> None,
                   todo |-> IF checked THEN Collections ELSE {},
                   hit |-> FALSE, id |-> sends + 1]
  <2>1. sends + 1 \in Ids /\ sends' \in 0 .. MaxOtps
    BY <1>1, MaxOtpsAssumption DEF BeginSend, Typed, TypeOK, Ids
  <2>2. Shaped(r)
    BY <2>1 DEF Shaped, Call, Steps, Kinds
  <2>3. call' = [call EXCEPT ![k] = r]
    BY <1>1 DEF BeginSend
  <2>4. call' \in [Calls -> Call] /\ \A l \in Calls : Shaped(call'[l])
    <3> HIDE DEF r
    <3> QED BY <2>2, <2>3, OneCallMoves
  <2> QED
    BY <1>1, <2>1, <2>4 DEF BeginSend, Typed, TypeOK
<1>2. ASSUME NEW e \in Emails, NEW code \in Codes, NEW kind \in {"verify", "raw"},
             BeginVerify(k, e, code, kind)
      PROVE  Typed'
  <2> DEFINE r == [Rest EXCEPT !.at = "read", !.kind = kind, !.email = e, !.code = code]
  <2>1. Shaped(r)
    BY DEF Shaped, Rest, Call, Steps, Kinds
  <2>2. call' = [call EXCEPT ![k] = r]
    BY <1>2 DEF BeginVerify
  <2>3. call' \in [Calls -> Call] /\ \A l \in Calls : Shaped(call'[l])
    <3> HIDE DEF r
    <3> QED BY <2>1, <2>2, OneCallMoves
  <2> QED
    BY <1>2, <2>3 DEF BeginVerify, Typed, TypeOK
<1> QED
  BY <1>1, <1>2 DEF Arrive

LEMMA ReadCodeTyped ==
    ASSUME Typed, NEW k \in Calls, ReadCode(k)
    PROVE  Typed'
<1>1. PICK o \in Records(call[k].email) : call' = [call EXCEPT ![k] = Judge(k, o)]
  BY DEF ReadCode
<1>2. call[k] \in Call /\ Shaped(call[k]) /\ call[k].at = "read" /\ o.id \in Ids
  BY DEF Typed, TypeOK, ReadCode, Records, Otp
<1>3. Shaped(Judge(k, o))
  <2>1. Shaped([call[k] EXCEPT !.at = "purge"])
    BY <1>2 DEF Shaped, Call, Steps
  <2>2. Shaped([call[k] EXCEPT !.at = "consume", !.id = o.id])
    BY <1>2 DEF Shaped, Call, Steps
  <2> QED
    BY <2>1, <2>2, RestIsShaped DEF Judge
<1>4. call' \in [Calls -> Call] /\ \A l \in Calls : Shaped(call'[l])
  BY <1>1, <1>3, OneCallMoves
<1> QED
  BY <1>4 DEF ReadCode, Typed, TypeOK

LEMMA WriteTyped ==
    ASSUME Typed, NEW k \in Calls,
           ClearOld(k) \/ Store(k) \/ Purge(k) \/ Consume(k)
    PROVE  Typed'
<1>1. call[k] \in Call /\ Shaped(call[k])
  BY DEF Typed, TypeOK
<1>2. CASE ClearOld(k)
  <2>1. call' \in [Calls -> Call] /\ \A l \in Calls : Shaped(call'[l])
    BY <1>2, MoveTyped DEF ClearOld
  <2> QED
    BY <1>2, <2>1 DEF ClearOld, Typed, TypeOK
<1>3. CASE Store(k)
  <2>1. Shaped([call[k] EXCEPT !.at = "mail"])
    BY <1>1 DEF Shaped, Call, Steps
  <2>2. call' \in [Calls -> Call] /\ \A l \in Calls : Shaped(call'[l])
    BY <1>3, <2>1, OneCallMoves DEF Store, Move, Typed, TypeOK
  <2>3. call[k].id \in Ids /\ call[k].email \in Emails
    BY <1>1, <1>3 DEF Store, Shaped
  <2>4. otps' \subseteq Otp
    <3>1. PICK code \in Codes :
            otps' = otps \cup {[id |-> call[k].id, email |-> call[k].email,
                                code |-> code, live |-> TRUE]}
      BY <1>3 DEF Store
    <3>2. [id |-> call[k].id, email |-> call[k].email, code |-> code, live |-> TRUE] \in Otp
      BY <2>3 DEF Otp
    <3> QED
      BY <3>1, <3>2 DEF Typed, TypeOK
  <2>5. mailedTo' \in [Ids -> Emails \cup {None}]
    BY <1>3, <2>3 DEF Store, Typed, TypeOK
  <2> QED
    BY <1>3, <2>2, <2>4, <2>5 DEF Store, Typed, TypeOK
<1>4. CASE Purge(k)
  <2>1. call' \in [Calls -> Call] /\ \A l \in Calls : Shaped(call'[l])
    BY <1>4, RestIsShaped, OneCallMoves DEF Purge, Finish
  <2> QED
    BY <1>4, <2>1 DEF Purge, Typed, TypeOK
<1>5. CASE Consume(k)
  <2>1. call[k].id \in Ids /\ call[k].email \in Emails
    BY <1>1, <1>5 DEF Consume, Shaped
  <2>2. call' \in [Calls -> Call] /\ \A l \in Calls : Shaped(call'[l])
    BY <1>5, MoveTyped DEF Consume
  <2>3. accepted' \in [Ids -> Nat]
    BY <1>5, <2>1 DEF Consume, Typed, TypeOK
  <2>4. tokens' \subseteq Token
    BY <1>5, <2>1 DEF Consume, Token, Typed, TypeOK
  <2> QED
    BY <1>5, <2>2, <2>3, <2>4 DEF Consume, Typed, TypeOK
<1> QED
  BY <1>2, <1>3, <1>4, <1>5

LEMMA QuietTyped ==
    ASSUME Typed, NEW k \in Calls, MailCode(k) \/ ReadNothing(k) \/ Return(k) \/ Fail(k)
    PROVE  Typed'
<1>1. call' \in [Calls -> Call] /\ \A l \in Calls : Shaped(call'[l])
  <2>1. CASE ReadNothing(k)
    BY <2>1, MoveTyped DEF ReadNothing
  <2>2. CASE MailCode(k) \/ Return(k) \/ Fail(k)
    BY <2>2, RestIsShaped, OneCallMoves DEF MailCode, Return, Fail, Finish
  <2> QED
    BY <2>1, <2>2
<1> QED
  BY <1>1 DEF MailCode, ReadNothing, Return, Fail, Typed, TypeOK

LEMMA TypedInductive == Typed /\ [Next]_vars => Typed'
<1> SUFFICES ASSUME Typed, [Next]_vars PROVE Typed'
  OBVIOUS
<1>1. ASSUME NEW k \in Calls, Step(k) PROVE Typed'
  BY <1>1, CheckEmailTyped, ReadCodeTyped, WriteTyped, QuietTyped DEF Step
<1>2. CASE Clock
  <2>1. CASE OtpExpires
    BY <2>1 DEF OtpExpires, Otp, Typed, TypeOK
  <2>2. CASE TtlSweep \/ TokenExpires
    BY <2>2 DEF TtlSweep, TokenExpires, Typed, TypeOK
  <2> QED
    BY <1>2, <2>1, <2>2 DEF Clock
<1>3. CASE Crash
  BY <1>3, RestIsShaped DEF Crash, Typed, TypeOK, Shaped
<1>4. CASE EnrolledChanges
  BY <1>4 DEF EnrolledChanges, Typed, TypeOK
<1>5. CASE UNCHANGED vars
  BY <1>5 DEF vars, Typed, TypeOK
<1> QED
  BY <1>1, <1>2, <1>3, <1>4, <1>5, BeginTyped, QuietTyped DEF Next

LEMMA TypedInitially == Init => Typed
  BY MaxOtpsAssumption, RestIsShaped DEF Init, Typed, TypeOK, Shaped

\* Codes, tokens and handlers keep their types, whatever requests overlap.
THEOREM TypeCorrect == Spec => []TypeOK
<1>1. Typed => TypeOK
  BY DEF Typed
<1> QED
  BY <1>1, TypedInitially, TypedInductive, PTL DEF Spec

-----------------------------------------------------------------------------
(* The life of a code: numbered when the request comes in, stored once,    *)
(* read by any number of requests while it is stored, and deleted by the   *)
(* first of them to accept it.                                             *)

Pending(k) == call[k].at \in {"check", "clear", "store"}
Accepting(k) == call[k].at = "consume"
Acceptors(i) == {k \in Calls : Accepting(k) /\ call[k].id = i}

\* Nothing is known yet of a code that is not stored.
Unborn(i) == i > sends \/ \E k \in Calls : Pending(k) /\ call[k].id = i

NumbersInv ==
    \A k \in Calls : Pending(k) =>
        /\ call[k].id <= sends
        /\ \A l \in Calls : Pending(l) /\ call[l].id = call[k].id => l = k

RecordsInv ==
    \A o \in otps : ~Unborn(o.id) /\ mailedTo[o.id] = o.email /\ accepted[o.id] = 0

AcceptorsInv ==
    \A k \in Calls : Accepting(k) =>
        ~Unborn(call[k].id) /\ mailedTo[call[k].id] = call[k].email

CountInv ==
    \A i \in Ids : /\ Unborn(i) => accepted[i] = 0
                   /\ accepted[i] + Cardinality(Acceptors(i)) <= Cardinality(Calls)

CodesInv == NumbersInv /\ RecordsInv /\ AcceptorsInv /\ CountInv /\ TokenProvesMailbox

\* Steps that draw, store and accept no code: some codes may go, some requests
\* may have found one.
LEMMA LedgerKept ==
    ASSUME Typed, CodesInv, Typed',
           UNCHANGED <<sends, mailedTo, accepted>>, tokens' \subseteq tokens,
           \A o \in otps' : \E p \in otps : p.id = o.id /\ p.email = o.email,
           \A k \in Calls : Pending(k)' => Pending(k) /\ call'[k].id = call[k].id,
           \A k \in Calls : Accepting(k)' =>
              \/ Accepting(k) /\ call'[k].id = call[k].id /\ call'[k].email = call[k].email
              \/ \E o \in otps : call'[k].id = o.id /\ call'[k].email = o.email
    PROVE  CodesInv'
<1>1. \A i \in Ids : Unborn(i)' => Unborn(i)
  BY DEF Unborn
<1>2. NumbersInv'
  BY DEF CodesInv, NumbersInv
<1>3. RecordsInv'
  BY <1>1 DEF CodesInv, RecordsInv, Typed, TypeOK, Otp
<1>4. AcceptorsInv'
  BY <1>1 DEF CodesInv, AcceptorsInv, RecordsInv, Typed, TypeOK, Shaped, Otp, Accepting
<1>5. ASSUME NEW i \in Ids
      PROVE  /\ Unborn(i)' => accepted'[i] = 0
             /\ accepted'[i] + Cardinality(Acceptors(i)') <= Cardinality(Calls)
  <2>1. Unborn(i)' => accepted'[i] = 0
    BY <1>1 DEF CodesInv, CountInv
  <2>2. /\ Acceptors(i) \subseteq Calls /\ IsFiniteSet(Acceptors(i))
        /\ Acceptors(i)' \subseteq Calls /\ Cardinality(Acceptors(i)') \in Nat
        /\ Cardinality(Calls) \in Nat /\ Cardinality(Acceptors(i)) \in Nat
        /\ Cardinality(Acceptors(i)') <= Cardinality(Calls)
    BY CallsAssumption, FS_Subset, FS_CardinalityType DEF Acceptors
  <2>3. CASE accepted[i] = 0
    BY <2>1, <2>2, <2>3
  <2>4. CASE accepted[i] # 0
    <3>1. Acceptors(i)' \subseteq Acceptors(i)
      BY <2>4 DEF Acceptors, CodesInv, RecordsInv
    <3>2. Cardinality(Acceptors(i)') <= Cardinality(Acceptors(i))
      BY <2>2, <3>1, FS_Subset
    <3> QED
      BY <2>1, <2>2, <3>2 DEF CodesInv, CountInv, Typed, TypeOK
  <2> QED
    BY <2>3, <2>4
<1>6. TokenProvesMailbox'
  BY DEF CodesInv, TokenProvesMailbox
<1> QED
  BY <1>2, <1>3, <1>4, <1>5, <1>6 DEF CodesInv, CountInv

LEMMA BeginSendKeepsCodes ==
    ASSUME Typed, CodesInv, Typed', NEW k \in Calls, NEW e \in Emails,
           NEW checked \in BOOLEAN, BeginSend(k, e, checked)
    PROVE  CodesInv'
<1>1. /\ call'[k].id = sends + 1 /\ Pending(k)' /\ sends' = sends + 1
      /\ sends \in Nat /\ sends + 1 \in Ids /\ ~Pending(k) /\ ~Accepting(k)
  BY MaxOtpsAssumption DEF BeginSend, Pending, Accepting, Rest, Typed, TypeOK, Ids
<1>2. \A l \in Calls \ {k} : call'[l] = call[l]
  BY DEF BeginSend, Typed, TypeOK
<1>3. \A i \in Ids : Unborn(i)' => Unborn(i)
  BY <1>1, <1>2 DEF Unborn, Pending, Ids
<1>4. NumbersInv'
  BY <1>1, <1>2 DEF CodesInv, NumbersInv, Pending, Typed, Shaped, Ids
<1>5. UNCHANGED <<otps, mailedTo, accepted, tokens>>
  BY DEF BeginSend
<1>6. RecordsInv'
  BY <1>3, <1>5 DEF CodesInv, RecordsInv, Typed, TypeOK, Otp
<1>7. \A l \in Calls : Accepting(l)' => Accepting(l) /\ call'[l] = call[l]
  BY <1>1, <1>2 DEF Accepting, Pending
<1>8. AcceptorsInv'
  BY <1>3, <1>5, <1>7 DEF CodesInv, AcceptorsInv, Typed, Shaped, Accepting
<1>9. \A i \in Ids : Acceptors(i)' = Acceptors(i)
  BY <1>1, <1>2 DEF Acceptors, Accepting, Pending
<1>10. CountInv'
  BY <1>3, <1>5, <1>9 DEF CodesInv, CountInv
<1> QED
  BY <1>4, <1>5, <1>6, <1>8, <1>10 DEF CodesInv, TokenProvesMailbox

\* The code is born: nobody can have read or accepted it.
LEMMA StoreKeepsCodes ==
    ASSUME Typed, CodesInv, Typed', NEW k \in Calls, Store(k)
    PROVE  CodesInv'
<1> DEFINE i == call[k].id
<1>1. call[k].at = "store" /\ Pending(k) /\ i \in Ids /\ Unborn(i)
  BY DEF Store, Pending, Typed, Shaped, Unborn
<1>2. call'[k].at = "mail" /\ call'[k].id = i
  BY DEF Store, Move, Typed, TypeOK, Call
<1>3. \A l \in Calls \ {k} : call'[l] = call[l]
  BY DEF Store, Move, Typed, TypeOK
<1>4. mailedTo'[i] = call[k].email /\ \A n \in Ids \ {i} : mailedTo'[n] = mailedTo[n]
  BY <1>1 DEF Store, Typed, TypeOK
<1>5. UNCHANGED <<sends, tokens, accepted>>
  BY DEF Store
<1>6. PICK code \in Codes :
         otps' = otps \cup {[id |-> i, email |-> call[k].email, code |-> code, live |-> TRUE]}
  BY DEF Store
<1>7. NumbersInv'
  BY <1>2, <1>3, <1>5 DEF CodesInv, NumbersInv, Pending
<1>8. \A n \in Ids : (n = i => ~Unborn(n)') /\ (Unborn(n)' => Unborn(n))
  BY <1>1, <1>2, <1>3, <1>5 DEF CodesInv, NumbersInv, Unborn, Pending, Ids, Typed, TypeOK
<1>9. accepted[i] = 0
  BY <1>1 DEF CodesInv, CountInv
<1>10. RecordsInv'
  <2> SUFFICES ASSUME NEW o \in otps'
               PROVE  ~Unborn(o.id)' /\ mailedTo'[o.id] = o.email /\ accepted'[o.id] = 0
    BY DEF RecordsInv
  <2>1. CASE o \in otps
    BY <1>1, <1>4, <1>5, <1>8, <2>1 DEF CodesInv, RecordsInv, Typed, TypeOK, Otp
  <2>2. CASE o = [id |-> i, email |-> call[k].email, code |-> code, live |-> TRUE]
    BY <1>1, <1>4, <1>5, <1>8, <1>9, <2>2
  <2> QED
    BY <1>6, <2>1, <2>2
<1>11. \A l \in Calls : Accepting(l)' => Accepting(l) /\ call'[l] = call[l]
  BY <1>2, <1>3 DEF Accepting
<1>12. AcceptorsInv'
  BY <1>1, <1>4, <1>8, <1>11 DEF CodesInv, AcceptorsInv, Typed, Shaped, Accepting
<1>13. \A n \in Ids : Acceptors(n)' = Acceptors(n)
  BY <1>1, <1>2, <1>3 DEF Acceptors, Accepting
<1>14. CountInv'
  BY <1>5, <1>8, <1>13 DEF CodesInv, CountInv
<1>15. TokenProvesMailbox'
  BY <1>4, <1>5, <1>9 DEF CodesInv, TokenProvesMailbox, Typed, TypeOK, Token
<1> QED
  BY <1>7, <1>10, <1>12, <1>14, <1>15 DEF CodesInv

\* One acceptor less, one acceptance more; nobody finds the code any more.
LEMMA ConsumeKeepsCodes ==
    ASSUME Typed, CodesInv, Typed', NEW k \in Calls, Consume(k)
    PROVE  CodesInv'
<1> DEFINE i == call[k].id
<1>1. Accepting(k) /\ i \in Ids /\ ~Unborn(i) /\ mailedTo[i] = call[k].email
  BY DEF Consume, Accepting, Typed, Shaped, CodesInv, AcceptorsInv
<1>2. call'[k].at \in {"passed", "rest"}
  BY DEF Consume, Move, Finish, Rest, Typed, TypeOK, Call
<1>3. \A l \in Calls \ {k} : call'[l] = call[l]
  BY DEF Consume, Move, Finish, Typed, TypeOK
<1>4. accepted'[i] = accepted[i] + 1 /\ \A n \in Ids \ {i} : accepted'[n] = accepted[n]
  BY <1>1 DEF Consume, Typed, TypeOK
<1>5. UNCHANGED <<sends, mailedTo>>
  BY DEF Consume
<1>6. \A l \in Calls : (Pending(l)' \/ Accepting(l)') => l # k /\ call'[l] = call[l]
  BY <1>2, <1>3 DEF Pending, Accepting
<1>7. \A n \in Ids : Unborn(n)' => Unborn(n)
  BY <1>5, <1>6 DEF Unborn, Pending
<1>8. NumbersInv'
  BY <1>5, <1>6 DEF CodesInv, NumbersInv, Pending
<1>9. \A o \in otps' : o \in otps /\ o.id # i
  BY <1>1 DEF Consume, Records, CodesInv, RecordsInv
<1>10. RecordsInv'
  BY <1>4, <1>5, <1>7, <1>9 DEF CodesInv, RecordsInv, Typed, TypeOK, Otp
<1>11. AcceptorsInv'
  BY <1>5, <1>6, <1>7 DEF CodesInv, AcceptorsInv, Typed, Shaped, Accepting
<1>12. ASSUME NEW n \in Ids
       PROVE  /\ Unborn(n)' => accepted'[n] = 0
              /\ accepted'[n] + Cardinality(Acceptors(n)') <= Cardinality(Calls)
  <2>1. Unborn(n)' => accepted'[n] = 0
    BY <1>1, <1>4, <1>7 DEF CodesInv, CountInv
  <2>2. accepted[n] + Cardinality(Acceptors(n)) <= Cardinality(Calls) /\ accepted[n] \in Nat
    BY DEF CodesInv, CountInv, Typed, TypeOK
  <2>3. IsFiniteSet(Acceptors(n)) /\ Cardinality(Acceptors(n)) \in Nat
        /\ Cardinality(Calls) \in Nat
    BY CallsAssumption, FS_Subset, FS_CardinalityType DEF Acceptors
  <2>4. CASE n = i
    <3>1. Acceptors(n)' = Acceptors(n) \ {k} /\ k \in Acceptors(n)
      BY <1>1, <1>2, <1>3, <2>4 DEF Acceptors, Accepting
    <3>2. Cardinality(Acceptors(n)') = Cardinality(Acceptors(n)) - 1
      BY <2>3, <3>1, FS_RemoveElement
    <3> QED
      BY <1>4, <2>1, <2>2, <2>3, <2>4, <3>2
  <2>5. CASE n # i
    <3>1. Acceptors(n)' = Acceptors(n)
      BY <1>2, <1>3, <2>5 DEF Acceptors, Accepting
    <3> QED
      BY <1>4, <2>1, <2>2, <2>5, <3>1
  <2> QED
    BY <2>4, <2>5
<1>13. \A t \in tokens' : t \in tokens \/ t = [email |-> call[k].email, from |-> i]
  BY DEF Consume
<1>14. \A n \in Ids : accepted'[n] >= accepted[n] /\ accepted[n] \in Nat
  BY <1>4 DEF Typed, TypeOK
<1>15. TokenProvesMailbox'
  <2> SUFFICES ASSUME NEW t \in tokens'
               PROVE  mailedTo'[t.from] = t.email /\ accepted'[t.from] > 0
    BY DEF TokenProvesMailbox
  <2>1. CASE t \in tokens
    <3>1. t.from \in Ids
      BY <2>1 DEF Typed, TypeOK, Token
    <3>2. accepted[t.from] > 0 /\ mailedTo[t.from] = t.email
      BY <2>1 DEF CodesInv, TokenProvesMailbox
    <3> QED
      BY <1>4, <1>5, <1>14, <3>1, <3>2
  <2>2. CASE t = [email |-> call[k].email, from |-> i]
    BY <1>1, <1>4, <1>5, <1>14, <2>2
  <2> QED
    BY <1>13, <2>1, <2>2
<1> QED
  BY <1>8, <1>10, <1>11, <1>12, <1>15 DEF CodesInv, CountInv

LEMMA StepKeepsLedger ==
    ASSUME Typed, CodesInv, Typed', NEW k \in Calls,
           \/ \E coll \in Collections : CheckEmail(k, coll)
           \/ ClearOld(k) \/ MailCode(k) \/ ReadNothing(k) \/ ReadCode(k) \/ Purge(k)
           \/ Return(k) \/ Fail(k)
           \/ \E e \in Emails, code \in Codes, kind \in {"verify", "raw"} :
                 BeginVerify(k, e, code, kind)
    PROVE  CodesInv'
<1>1. /\ UNCHANGED <<sends, mailedTo, accepted, tokens>> /\ otps' \subseteq otps
      /\ \A l \in Calls \ {k} : call'[l] = call[l]
  BY DEF CheckEmail, ClearOld, MailCode, ReadNothing, ReadCode, Purge, Return, Fail,
         BeginVerify, Move, Finish, Typed, TypeOK
<1>2. /\ Pending(k)' => Pending(k) /\ call'[k].id = call[k].id
      /\ Accepting(k)' =>
           \E o \in otps : call'[k].id = o.id /\ call'[k].email = o.email
  <2>1. CASE ReadCode(k)
    <3>1. PICK o \in Records(call[k].email) : call'[k] = Judge(k, o)
      BY <2>1 DEF ReadCode, Typed, TypeOK
    <3>2. call[k] \in Call /\ o \in otps /\ o.email = call[k].email
      BY DEF Records, Typed, TypeOK
    <3>3. CASE call'[k].at \in {"rest", "purge"}
      BY <3>3 DEF Pending, Accepting
    <3>4. CASE call'[k] = [call[k] EXCEPT !.at = "consume", !.id = o.id]
      <4>1. call'[k].at = "consume" /\ call'[k].id = o.id /\ call'[k].email = o.email
        BY <3>2, <3>4 DEF Call
      <4> QED
        BY <3>2, <4>1 DEF Pending, Accepting
    <3> QED
      BY <3>1, <3>2, <3>3, <3>4 DEF Judge, Rest, Call
  <2>2. CASE \E coll \in Collections : CheckEmail(k, coll)
    <3>1. call[k].at = "check" /\ call[k] \in Call
      BY <2>2 DEF CheckEmail, Typed, TypeOK
    <3> PICK coll \in Collections : CheckEmail(k, coll)
      BY <2>2
    <3> DEFINE left == call[k].todo \ {coll}
               hit == call[k].hit \/ <<call[k].email, coll>> \in enrolled
    <3>2. \/ call'[k] = [call[k] EXCEPT !.todo = left, !.hit = hit]
          \/ call'[k] = Rest
          \/ call'[k] = [call[k] EXCEPT !.at = "clear", !.todo = {}]
      BY DEF CheckEmail, Typed, TypeOK
    <3> HIDE DEF left, hit
    <3>3. call'[k].at # "consume" /\ (call'[k].at # "rest" => call'[k].id = call[k].id)
      <4>1. CASE call'[k] = [call[k] EXCEPT !.todo = left, !.hit = hit]
        BY <3>1, <4>1 DEF Call
      <4>2. CASE call'[k] = Rest
        BY <4>2 DEF Rest
      <4>3. CASE call'[k] = [call[k] EXCEPT !.at = "clear", !.todo = {}]
        BY <3>1, <4>3 DEF Call
      <4> QED
        BY <3>2, <4>1, <4>2, <4>3
    <3> QED
      BY <3>1, <3>3 DEF Pending, Accepting
  <2>3. CASE ClearOld(k) \/ ReadNothing(k)
    BY <2>3 DEF ClearOld, ReadNothing, Move, Pending, Accepting, Typed, TypeOK, Call
  <2>4. CASE MailCode(k) \/ Purge(k) \/ Return(k) \/ Fail(k)
    BY <2>4 DEF MailCode, Purge, Return, Fail, Finish, Rest, Pending, Accepting, Typed, TypeOK
  <2>5. CASE \E e \in Emails, code \in Codes, kind \in {"verify", "raw"} :
                BeginVerify(k, e, code, kind)
    <3>1. call'[k].at = "read"
      BY <2>5 DEF BeginVerify, Rest, Typed, TypeOK
    <3> QED
      BY <3>1 DEF Pending, Accepting
  <2> QED
    BY <2>1, <2>2, <2>3, <2>4, <2>5
<1>3. \A l \in Calls : Pending(l)' => Pending(l) /\ call'[l].id = call[l].id
  BY <1>1, <1>2 DEF Pending
<1>4. \A l \in Calls : Accepting(l)' =>
         \/ Accepting(l) /\ call'[l].id = call[l].id /\ call'[l].email = call[l].email
         \/ \E o \in otps : call'[l].id = o.id /\ call'[l].email = o.email
  BY <1>1, <1>2 DEF Accepting
<1> QED
  BY <1>1, <1>3, <1>4, LedgerKept

LEMMA CodesInductive == Typed /\ CodesInv /\ [Next]_vars => CodesInv'
<1> SUFFICES ASSUME Typed, CodesInv, [Next]_vars PROVE CodesInv'
  OBVIOUS
<1> USE TypedInductive
<1>1. ASSUME NEW k \in Calls, Step(k) \/ Arrive(k) PROVE CodesInv'
  BY <1>1, StepKeepsLedger, BeginSendKeepsCodes, StoreKeepsCodes, ConsumeKeepsCodes
     DEF Step, Arrive
<1>2. ASSUME NEW k \in Calls, Return(k) \/ Fail(k) PROVE CodesInv'
  BY <1>2, StepKeepsLedger
<1>3. CASE Clock
  <2>1. call' = call /\ UNCHANGED <<sends, mailedTo, accepted>> /\ tokens' \subseteq tokens
    BY <1>3 DEF Clock, OtpExpires, TtlSweep, TokenExpires
  <2>2. \A o \in otps' : \E p \in otps : p.id = o.id /\ p.email = o.email
    BY <1>3 DEF Clock, OtpExpires, TtlSweep, TokenExpires, Typed, TypeOK, Otp
  <2> QED
    BY <2>1, <2>2, LedgerKept DEF Pending, Accepting
<1>4. CASE Crash
  BY <1>4, LedgerKept DEF Crash, Pending, Accepting, Rest
<1>5. CASE EnrolledChanges \/ UNCHANGED vars
  BY <1>5, LedgerKept DEF EnrolledChanges, vars, Pending, Accepting
<1> QED
  BY <1>1, <1>2, <1>3, <1>4, <1>5 DEF Next

LEMMA CodesInitially == Init => CodesInv
<1> SUFFICES ASSUME Init PROVE CodesInv
  OBVIOUS
<1>1. \A i : Acceptors(i) = {}
  BY DEF Init, Acceptors, Accepting, Rest
<1>2. CountInv
  BY <1>1, CallsAssumption, FS_EmptySet, FS_CardinalityType DEF Init, CountInv
<1> QED
  BY <1>2 DEF Init, CodesInv, NumbersInv, RecordsInv, AcceptorsInv, TokenProvesMailbox,
              Pending, Accepting, Rest

LEMMA CodesAlways == Spec => [](Typed /\ CodesInv)
  BY TypedInitially, CodesInitially, TypedInductive, CodesInductive, PTL DEF Spec

\* However requests for codes and checks of codes overlap, fail or crash, a code
\* is accepted at most once by each request handled at once (verifyOTP).
THEOREM AcceptanceBounded == Spec => []AcceptedOncePerCall
<1>1. Typed /\ CodesInv => AcceptedOncePerCall
  <2> SUFFICES ASSUME Typed, CodesInv, NEW i \in Ids
               PROVE  accepted[i] <= Cardinality(Calls)
    BY DEF AcceptedOncePerCall
  <2>1. Cardinality(Acceptors(i)) \in Nat /\ Cardinality(Calls) \in Nat
    BY CallsAssumption, FS_Subset, FS_CardinalityType DEF Acceptors
  <2> QED
    BY <2>1 DEF CodesInv, CountInv, Typed, TypeOK
<1> QED
  BY <1>1, CodesAlways, PTL

\* A token vouches for the mailbox to which its code was sent (verifyOTP).
THEOREM TokensProveMailboxes == Spec => []TokenProvesMailbox
<1>1. CodesInv => TokenProvesMailbox
  BY DEF CodesInv
<1> QED
  BY <1>1, CodesAlways, PTL

-----------------------------------------------------------------------------
(* The number of codes stored for an email.  A send that has deleted the   *)
(* old codes counts as the code it is about to store.                      *)

Storing(e) == {k \in Calls : call[k].at = "store" /\ call[k].email = e}

FewInv == IsFiniteSet(otps) /\ FewCodes

LEMMA OneMore ==
    ASSUME NEW S, NEW x, IsFiniteSet(S)
    PROVE  /\ IsFiniteSet(S \cup {x}) /\ Cardinality(S \cup {x}) \in Nat
           /\ Cardinality(S \cup {x}) <= Cardinality(S) + 1
<1>1. /\ IsFiniteSet(S \cup {x})
      /\ x \in S \/ Cardinality(S \cup {x}) = Cardinality(S) + 1
  BY FS_AddElement
<1>2. Cardinality(S) \in Nat /\ Cardinality(S \cup {x}) \in Nat
  BY <1>1, FS_CardinalityType
<1>3. CASE x \in S
  <2>1. S \cup {x} = S
    BY <1>3
  <2> QED
    BY <1>1, <1>2, <2>1
<1> QED
  BY <1>1, <1>2, <1>3

LEMMA SetsAreFinite ==
    ASSUME IsFiniteSet(otps), NEW e
    PROVE  /\ IsFiniteSet(Records(e)) /\ Cardinality(Records(e)) \in Nat
           /\ IsFiniteSet(Storing(e)) /\ Cardinality(Storing(e)) \in Nat
           /\ Cardinality(Storing(e)) <= Cardinality(Calls) /\ Cardinality(Calls) \in Nat
<1>1. Storing(e) \subseteq Calls /\ Records(e) \subseteq otps
  BY DEF Storing, Records
<1> QED
  BY <1>1, CallsAssumption, FS_Subset, FS_CardinalityType

\* Deletions, and requests that come, go or fail.
LEMMA FewerKept ==
    ASSUME FewInv, otps' \subseteq otps,
           \A k \in Calls :
              call'[k].at = "store" => call[k].at = "store" /\ call'[k].email = call[k].email
    PROVE  FewInv'
<1>1. IsFiniteSet(otps')
  BY FS_Subset DEF FewInv
<1>2. ASSUME NEW e \in Emails
      PROVE  Cardinality(Records(e)') + Cardinality(Storing(e)') <= Cardinality(Calls)
  <2>1. Records(e)' \subseteq Records(e) /\ Storing(e)' \subseteq Storing(e)
    BY DEF Records, Storing
  <2>2. Cardinality(Records(e)') <= Cardinality(Records(e))
        /\ Cardinality(Storing(e)') <= Cardinality(Storing(e))
        /\ Cardinality(Records(e)') \in Nat /\ Cardinality(Storing(e)') \in Nat
    BY <2>1, SetsAreFinite, FS_Subset, FS_CardinalityType DEF FewInv
  <2>3. Cardinality(Records(e)) + Cardinality(Storing(e)) <= Cardinality(Calls)
    BY DEF FewInv, FewCodes, Storing
  <2> QED
    BY <2>2, <2>3, SetsAreFinite DEF FewInv
<1> QED
  BY <1>1, <1>2 DEF FewInv, FewCodes, Storing

LEMMA ClearKeepsFew ==
    ASSUME Typed, FewInv, NEW k \in Calls, ClearOld(k)
    PROVE  FewInv'
<1>1. IsFiniteSet(otps')
  BY FS_Subset DEF FewInv, ClearOld
<1>2. call'[k].email = call[k].email /\ \A l \in Calls \ {k} : call'[l] = call[l]
  BY DEF ClearOld, Move, Typed, TypeOK, Call
<1>3. ASSUME NEW e \in Emails
      PROVE  Cardinality(Records(e)') + Cardinality(Storing(e)') <= Cardinality(Calls)
  <2>1. CASE e = call[k].email
    <3>1. Records(e)' = {}
      BY <2>1 DEF ClearOld, Records
    <3>2. Storing(e)' \subseteq Calls
      BY DEF Storing
    <3>3. /\ Cardinality(Storing(e)') <= Cardinality(Calls) /\ Cardinality(Storing(e)') \in Nat
          /\ Cardinality(Records(e)') = 0
      BY <3>1, <3>2, CallsAssumption, FS_Subset, FS_CardinalityType, FS_EmptySet
    <3> QED
      BY <3>3
  <2>2. CASE e # call[k].email
    <3>1. Records(e)' = Records(e)
      BY <2>2 DEF ClearOld, Records
    <3>2. Storing(e)' = Storing(e)
      BY <1>2, <2>2 DEF Storing
    <3> QED
      BY <3>1, <3>2 DEF FewInv, FewCodes, Storing
  <2> QED
    BY <2>1, <2>2
<1> QED
  BY <1>1, <1>3 DEF FewInv, FewCodes, Storing

LEMMA StoreKeepsFew ==
    ASSUME Typed, FewInv, NEW k \in Calls, Store(k)
    PROVE  FewInv'
<1> PICK code \in Codes :
       otps' = otps \cup {[id |-> call[k].id, email |-> call[k].email,
                           code |-> code, live |-> TRUE]}
  BY DEF Store
<1> DEFINE x == [id |-> call[k].id, email |-> call[k].email, code |-> code, live |-> TRUE]
<1>1. otps' = otps \cup {x} /\ x.email = call[k].email
  OBVIOUS
<1> HIDE DEF x
<1>2. IsFiniteSet(otps')
  BY <1>1, FS_AddElement DEF FewInv
<1>3. call'[k].at = "mail" /\ \A l \in Calls \ {k} : call'[l] = call[l]
  BY DEF Store, Move, Typed, TypeOK, Call
<1>4. ASSUME NEW e \in Emails
      PROVE  Cardinality(Records(e)') + Cardinality(Storing(e)') <= Cardinality(Calls)
  <2>1. CASE e = call[k].email
    <3>1. Records(e)' = Records(e) \cup {x}
      BY <1>1, <2>1 DEF Records
    <3>2. Storing(e)' = Storing(e) \ {k} /\ k \in Storing(e)
      BY <1>3, <2>1 DEF Store, Storing
    <3>3. Cardinality(Records(e)') <= Cardinality(Records(e)) + 1
          /\ Cardinality(Records(e)') \in Nat
      BY <3>1, SetsAreFinite, OneMore DEF FewInv
    <3>4. Cardinality(Storing(e)') = Cardinality(Storing(e)) - 1
      BY <3>2, SetsAreFinite, FS_RemoveElement DEF FewInv
    <3>5. Cardinality(Records(e)) + Cardinality(Storing(e)) <= Cardinality(Calls)
      BY DEF FewInv, FewCodes, Storing
    <3> QED
      BY <3>3, <3>4, <3>5, SetsAreFinite DEF FewInv
  <2>2. CASE e # call[k].email
    <3>1. Records(e)' = Records(e)
      BY <1>1, <2>2 DEF Records
    <3>2. Storing(e)' = Storing(e)
      BY <1>3, <2>2 DEF Storing
    <3> QED
      BY <3>1, <3>2 DEF FewInv, FewCodes, Storing
  <2> QED
    BY <2>1, <2>2
<1> QED
  BY <1>2, <1>4 DEF FewInv, FewCodes, Storing

LEMMA ExpiryKeepsFew ==
    ASSUME Typed, FewInv, OtpExpires
    PROVE  FewInv'
<1>1. PICK o \in otps : otps' = (otps \ {o}) \cup {[o EXCEPT !.live = FALSE]} /\ call' = call
  BY DEF OtpExpires
<1> DEFINE x == [o EXCEPT !.live = FALSE]
<1>2. x.email = o.email
  BY DEF Typed, TypeOK, Otp
<1> HIDE DEF x
<1>3. IsFiniteSet(otps')
  BY <1>1, FS_RemoveElement, FS_AddElement DEF FewInv, x
<1>4. ASSUME NEW e \in Emails
      PROVE  Cardinality(Records(e)') + Cardinality(Storing(e)') <= Cardinality(Calls)
  <2>1. Cardinality(Records(e)') <= Cardinality(Records(e)) /\ Cardinality(Records(e)') \in Nat
    <3>1. CASE o.email = e
      <4>1. Records(e)' = (Records(e) \ {o}) \cup {x} /\ o \in Records(e)
        BY <1>1, <1>2, <3>1 DEF Records, x
      <4>2. IsFiniteSet(Records(e) \ {o})
            /\ Cardinality(Records(e) \ {o}) = Cardinality(Records(e)) - 1
        BY <4>1, SetsAreFinite, FS_RemoveElement DEF FewInv
      <4>3. Cardinality(Records(e)') <= Cardinality(Records(e) \ {o}) + 1
            /\ Cardinality(Records(e)') \in Nat
        BY <4>1, <4>2, OneMore
      <4> QED
        BY <4>2, <4>3, SetsAreFinite DEF FewInv
    <3>2. CASE o.email # e
      <4>1. Records(e)' = Records(e)
        BY <1>1, <1>2, <3>2 DEF Records, x
      <4> QED
        BY <4>1, SetsAreFinite DEF FewInv
    <3> QED
      BY <3>1, <3>2
  <2>2. Storing(e)' = Storing(e)
    BY <1>1 DEF Storing
  <2>3. Cardinality(Records(e)) + Cardinality(Storing(e)) <= Cardinality(Calls)
    BY DEF FewInv, FewCodes, Storing
  <2> QED
    BY <2>1, <2>2, <2>3, SetsAreFinite DEF FewInv
<1> QED
  BY <1>3, <1>4 DEF FewInv, FewCodes, Storing

LEMMA FewInductive == Typed /\ FewInv /\ [Next]_vars => FewInv'
<1> SUFFICES ASSUME Typed, FewInv, [Next]_vars PROVE FewInv'
  OBVIOUS
<1>1. ASSUME NEW k \in Calls, Arrive(k) \/ Return(k) \/ Fail(k) PROVE FewInv'
  <2>1. /\ otps' \subseteq otps /\ call'[k].at # "store"
        /\ \A l \in Calls \ {k} : call'[l] = call[l]
    <3>1. CASE \E e \in Emails, checked \in BOOLEAN : BeginSend(k, e, checked)
      BY <3>1 DEF BeginSend, Typed, TypeOK
    <3>2. CASE \E e \in Emails, code \in Codes, kind \in {"verify", "raw"} :
                  BeginVerify(k, e, code, kind)
      BY <3>2 DEF BeginVerify, Rest, Typed, TypeOK
    <3>3. CASE Return(k) \/ Fail(k)
      BY <3>3 DEF Return, Fail, Finish, Rest, Typed, TypeOK
    <3> QED
      BY <1>1, <3>1, <3>2, <3>3 DEF Arrive
  <2> QED
    BY <2>1, FewerKept
<1>2. ASSUME NEW k \in Calls, Step(k) PROVE FewInv'
  <2>1. CASE \E coll \in Collections : CheckEmail(k, coll)
    <3>1. otps' = otps /\ \A l \in Calls \ {k} : call'[l] = call[l]
      BY <2>1 DEF CheckEmail, Typed, TypeOK
    <3>2. call'[k].at # "store"
      BY <2>1 DEF CheckEmail, Rest, Typed, TypeOK, Call
    <3> QED
      BY <3>1, <3>2, FewerKept
  <2>2. CASE ReadCode(k)
    <3>1. otps' = otps /\ \A l \in Calls \ {k} : call'[l] = call[l]
      BY <2>2 DEF ReadCode, Typed, TypeOK
    <3>2. call'[k].at # "store"
      BY <2>2 DEF ReadCode, Judge, Rest, Typed, TypeOK, Call
    <3> QED
      BY <3>1, <3>2, FewerKept
  <2>3. CASE MailCode(k) \/ ReadNothing(k) \/ Purge(k) \/ Consume(k)
    <3>1. /\ otps' \subseteq otps /\ call'[k].at # "store"
          /\ \A l \in Calls \ {k} : call'[l] = call[l]
      BY <2>3 DEF MailCode, ReadNothing, Purge, Consume, Move, Finish, Rest, Typed, TypeOK, Call
    <3> QED
      BY <3>1, FewerKept
  <2> QED
    BY <1>2, <2>1, <2>2, <2>3, ClearKeepsFew, StoreKeepsFew DEF Step
<1>3. CASE Clock
  <2>1. CASE TtlSweep \/ TokenExpires
    BY <2>1, FewerKept DEF TtlSweep, TokenExpires
  <2> QED
    BY <1>3, <2>1, ExpiryKeepsFew DEF Clock
<1>4. CASE Crash \/ EnrolledChanges \/ UNCHANGED vars
  BY <1>4, FewerKept DEF Crash, EnrolledChanges, vars, Rest
<1> QED
  BY <1>1, <1>2, <1>3, <1>4 DEF Next

LEMMA FewInitially == Init => FewInv
<1> SUFFICES ASSUME Init PROVE FewInv
  OBVIOUS
<1>1. \A e : Records(e) = {} /\ Storing(e) = {}
  BY DEF Init, Records, Storing, Rest
<1>2. IsFiniteSet({}) /\ Cardinality({}) = 0 /\ Cardinality(Calls) \in Nat
  BY CallsAssumption, FS_EmptySet, FS_CardinalityType
<1>3. \A e \in Emails : Cardinality(Records(e)) + Cardinality(Storing(e)) <= Cardinality(Calls)
  BY <1>1, <1>2
<1> QED
  BY <1>2, <1>3 DEF Init, FewInv, FewCodes, Storing

\* An email has at most as many codes stored as requests are handled at once
\* (the deleteMany of sendOTP).
THEOREM CodesFew == Spec => []FewCodes
<1>1. FewInv => FewCodes
  BY DEF FewInv
<1> QED
  BY <1>1, TypedInitially, TypedInductive, FewInitially, FewInductive, PTL DEF Spec
====
