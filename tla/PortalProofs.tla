---- MODULE PortalProofs ----
(***************************************************************************)
(* Proofs about what the portal's administrators work with, for every set  *)
(* of entries, members, accounts and concurrent requests: the execom       *)
(* roster with its page and dialog (RosterDialog), the makerspace          *)
(* (Makerspace) and the shell around the pages (PortalShell).  The three   *)
(* are proved one by one; nothing relates their states.                    *)
(***************************************************************************)
EXTENDS RosterDialog, Makerspace, PortalShell, FiniteSetTheorems, SequenceTheorems, TLAPS

-----------------------------------------------------------------------------
(* Finite sets of numbers, and sets that are arranged.                     *)

\* Of the sets 1 .. n, one has no other below it, since finite sets do not shrink for ever.
LEMMA LeastNumber ==
    ASSUME NEW S, S \subseteq Nat, S # {}
    PROVE  \E n \in S : \A m \in S : n <= m
<1> DEFINE T == {1 .. n : n \in S}
<1>1. T \subseteq FiniteSubsetsOf(Nat) /\ T # {}
  <2>1. \A n \in S : 1 .. n \in SUBSET Nat /\ IsFiniteSet(1 .. n)
    BY FS_Interval, SMT
  <2> QED BY <2>1 DEF FiniteSubsetsOf
<1>2. \E a \in T : \A b \in T : ~(<<b, a>> \in StrictSubsetOrdering(Nat))
  <2> HIDE DEF T
  <2> QED BY <1>1, FS_StrictSubsetOrderingWellFounded, WFMin
<1>3. PICK n \in S : \A b \in T : ~(<<b, 1 .. n>> \in StrictSubsetOrdering(Nat))
  BY <1>2
<1>4. ASSUME NEW m \in S, m < n PROVE FALSE
  <2>1. 1 .. m \subseteq 1 .. n /\ n \in 1 .. n /\ n \notin 1 .. m
    BY <1>4
  <2>2. 1 .. m \in SUBSET Nat /\ 1 .. n \in SUBSET Nat /\ 1 .. m # 1 .. n
    BY <2>1
  <2>3. <<1 .. m, 1 .. n>> \in StrictSubsetOrdering(Nat)
    BY <2>1, <2>2 DEF StrictSubsetOrdering
  <2> QED BY <1>3, <2>3
<1> QED
  BY <1>4

LEMMA MinIsLeast ==
    ASSUME NEW S, S \subseteq Nat, S # {}
    PROVE  Min(S) \in S /\ \A m \in S : Min(S) <= m
  BY LeastNumber DEF Min

\* The number of elements above an element falls as one climbs.
LEMMA MaxIsGreatest ==
    ASSUME NEW S, S \subseteq Nat, IsFiniteSet(S), S # {}
    PROVE  Max(S) \in S /\ \A m \in S : Max(S) >= m
<1> DEFINE Above(a) == {b \in S : b > a}
           Heights == {Cardinality(Above(a)) : a \in S}
<1>1. \A n \in S : IsFiniteSet(Above(n)) /\ Cardinality(Above(n)) \in Nat
  BY FS_Subset, FS_CardinalityType
<1>2. PICK n \in S : \A m \in S : Cardinality(Above(n)) <= Cardinality(Above(m))
  <2>1. Heights \subseteq Nat /\ Heights # {}
    BY <1>1
  <2>2. PICK h \in Heights : \A k \in Heights : h <= k
    <3> HIDE DEF Heights
    <3> QED BY <2>1, LeastNumber
  <2>3. PICK n \in S : h = Cardinality(Above(n))
    OBVIOUS
  <2>4. \A m \in S : Cardinality(Above(m)) \in Heights
    OBVIOUS
  <2> HIDE DEF Above, Heights
  <2> QED BY <2>2, <2>3, <2>4
<1>3. ASSUME NEW m \in S, m > n PROVE FALSE
  <2>1. n \in Nat /\ m \in Nat /\ \A k \in S : k \in Nat
    BY <1>2, <1>3
  <2>2. Above(m) \subseteq Above(n) /\ m \in Above(n) /\ m \notin Above(m)
    <3>1. m > n
      BY <1>3
    <3>2. \A k \in S : k > m => k > n
      BY <2>1, <3>1
    <3>3. Above(m) \subseteq Above(n)
      BY <3>2
    <3>4. m \in Above(n)
      BY <3>1
    <3>5. m \notin Above(m)
      BY <2>1
    <3> QED BY <3>3, <3>4, <3>5
  <2>3. Cardinality(Above(m)) <= Cardinality(Above(n)) /\ Cardinality(Above(m)) # Cardinality(Above(n))
    <3> HIDE DEF Above
    <3> QED BY <1>1, <2>2, FS_Subset
  <2> HIDE DEF Above
  <2> QED BY <1>1, <1>2, <2>3
<1>4. \A m \in S : n >= m
  BY <1>3
<1> QED
  BY <1>4 DEF Max

\* The place of an element is the number of those before it, so a finite set
\* whose elements are all comparable can be arranged.
LEMMA Arrangement ==
    ASSUME NEW S, IsFiniteSet(S), NEW R,
           \A a \in S : <<a, a>> \notin R,
           \A a, b, c \in S : <<a, b>> \in R /\ <<b, c>> \in R => <<a, c>> \in R,
           \A a, b \in S : a = b \/ <<a, b>> \in R \/ <<b, a>> \in R
    PROVE  \E list \in [1 .. Cardinality(S) -> S] :
               \A m, n \in 1 .. Cardinality(S) : m < n => <<list[m], list[n]>> \in R
<1> DEFINE N == Cardinality(S)
           Below(a) == {b \in S : <<b, a>> \in R}
           rank == [a \in S |-> Cardinality(Below(a)) + 1]
<1>1. N \in Nat
  BY FS_CardinalityType
<1>2. \A a \in S : IsFiniteSet(Below(a)) /\ Cardinality(Below(a)) \in Nat
  BY FS_Subset, FS_CardinalityType
<1>3. ASSUME NEW a \in S, NEW b \in S, <<a, b>> \in R
      PROVE  rank[a] < rank[b]
  <2>1. Below(a) \subseteq Below(b) /\ a \in Below(b) /\ a \notin Below(a)
    BY <1>3
  <2>2. Cardinality(Below(a)) <= Cardinality(Below(b)) /\ Cardinality(Below(a)) # Cardinality(Below(b))
    <3> HIDE DEF Below
    <3> QED BY <1>2, <2>1, FS_Subset
  <2>3. rank[a] = Cardinality(Below(a)) + 1 /\ rank[b] = Cardinality(Below(b)) + 1
    OBVIOUS
  <2> HIDE DEF Below, rank
  <2> QED BY <1>2, <2>2, <2>3
<1>4. ASSUME NEW a \in S PROVE rank[a] \in 1 .. N
  <2>1. Below(a) \subseteq S /\ a \notin Below(a)
    OBVIOUS
  <2>2. Cardinality(Below(a)) <= N /\ Cardinality(Below(a)) # N
    <3> HIDE DEF Below
    <3> QED BY <2>1, FS_Subset
  <2>3. rank[a] = Cardinality(Below(a)) + 1
    OBVIOUS
  <2> HIDE DEF Below, rank
  <2> QED BY <1>1, <1>2, <2>2, <2>3
<1>5. rank \in Injection(S, 1 .. N)
  <2>1. rank \in [S -> 1 .. N]
    <3>1. DOMAIN rank = S /\ rank = [a \in S |-> rank[a]]
      OBVIOUS
    <3> HIDE DEF rank
    <3> QED BY <1>4, <3>1
  <2>2. ASSUME NEW a \in S, NEW b \in S, rank[a] = rank[b] PROVE a = b
    <3> HIDE DEF rank
    <3>1. rank[a] \in Nat /\ rank[b] \in Nat
      BY <1>1, <2>1
    <3>2. ~(<<a, b>> \in R) /\ ~(<<b, a>> \in R)
      BY <1>3, <2>2, <3>1
    <3> QED BY <3>2
  <2> HIDE DEF rank
  <2> QED BY <2>1, <2>2 DEF Injection, IsInjective
<1>6. \A k \in 1 .. N : \E a \in S : rank[a] = k
  <2> HIDE DEF rank
  <2>1. IsFiniteSet(1 .. N) /\ Cardinality(1 .. N) = N
    BY <1>1, FS_Interval
  <2>2. rank \in Surjection(S, 1 .. N)
    BY <1>5, <2>1, FS_Injection
  <2> QED BY <2>2 DEF Surjection
<1> DEFINE at(k) == CHOOSE a \in S : rank[a] = k
           list == [k \in 1 .. N |-> at(k)]
<1>7. \A k \in 1 .. N : at(k) \in S /\ rank[at(k)] = k
  <2> HIDE DEF rank, N
  <2> QED BY <1>6
<1> HIDE DEF at
<1>8. list \in [1 .. N -> S]
  BY <1>7
<1>9. ASSUME NEW m \in 1 .. N, NEW n \in 1 .. N, m < n
      PROVE  <<list[m], list[n]>> \in R
  <2> HIDE DEF rank, N
  <2>1. list[m] # list[n]
    BY <1>1, <1>7, <1>9
  <2>2. <<list[n], list[m]>> \notin R
    BY <1>1, <1>3, <1>7, <1>9
  <2> QED BY <1>7, <2>1, <2>2
<1> HIDE DEF list
<1> QED
  BY <1>8, <1>9

-----------------------------------------------------------------------------
(* The list of a year, and a row that is dropped elsewhere.                *)

EntriesTyped == entry \in [Entries -> Entry \cup {None}]

LEMMA OfTyped ==
    ASSUME EntriesTyped, NEW y
    PROVE  /\ IsFiniteSet(Of(y)) /\ Of(y) \subseteq Entries
           /\ \A e \in Of(y) : entry[e] \in Entry /\ entry[e].order \in Nat /\ entry[e].year = y
<1>1. Of(y) \in SUBSET Entries
  BY DEF Of
<1>2. IsFiniteSet(Of(y))
  BY <1>1, FS_Subset, BoundsAssumption
<1>3. \A e \in Of(y) : entry[e] \in Entry /\ entry[e].year = y
  BY DEF Of, EntriesTyped
<1> QED
  BY <1>1, <1>2, <1>3 DEF Entry

\* There is a list of every year, and it has the year's entries in order.
LEMMA ListArranged ==
    ASSUME EntriesTyped, NEW y
    PROVE  /\ List(y) \in [1 .. Cardinality(Of(y)) -> Of(y)]
           /\ \A m, n \in DOMAIN List(y) : m < n => Before(List(y)[m], List(y)[n])
<1> DEFINE S == Of(y)
           R == {p \in S \X S : Before(p[1], p[2])}
<1>1. /\ IsFiniteSet(S) /\ S \subseteq Nat
      /\ \A e \in S : entry[e].order \in Nat
  BY OfTyped, BoundsAssumption
<1>2. \A a, b \in S : <<a, b>> \in R <=> Before(a, b)
  OBVIOUS
<1>3. /\ \A a \in S : ~Before(a, a)
      /\ \A a, b, c \in S : Before(a, b) /\ Before(b, c) => Before(a, c)
      /\ \A a, b \in S : a = b \/ Before(a, b) \/ Before(b, a)
  <2> HIDE DEF S
  <2>1. \A a \in S : a \in Nat
    BY <1>1
  <2> QED BY <1>1, <2>1 DEF Before
<1>4. \E list \in [1 .. Cardinality(S) -> S] :
          \A m, n \in 1 .. Cardinality(S) : m < n => <<list[m], list[n]>> \in R
  <2>1. /\ \A a \in S : <<a, a>> \notin R
        /\ \A a, b, c \in S : <<a, b>> \in R /\ <<b, c>> \in R => <<a, c>> \in R
        /\ \A a, b \in S : a = b \/ <<a, b>> \in R \/ <<b, a>> \in R
    <3> HIDE DEF S, R
    <3> QED BY <1>2, <1>3
  <2> HIDE DEF S, R
  <2> QED BY <1>1, <2>1, Arrangement
<1>5. \E list \in [1 .. Cardinality(S) -> S] :
          \A m, n \in DOMAIN list : m < n => Before(list[m], list[n])
  <2> HIDE DEF S, R
  <2> QED BY <1>2, <1>4
<1> QED
  BY <1>5 DEF List

LEMMA ListTyped ==
    ASSUME EntriesTyped, NEW y
    PROVE  List(y) \in Seq(Entries)
<1>1. Cardinality(Of(y)) \in Nat
  BY OfTyped, FS_CardinalityType
<1>2. List(y) \in [1 .. Cardinality(Of(y)) -> Entries]
  BY ListArranged, OfTyped
<1> QED
  BY <1>1, <1>2

LEMMA MovedTyped ==
    ASSUME NEW list \in Seq(Entries), NEW from \in DOMAIN list, NEW to \in DOMAIN list
    PROVE  Moved(list, from, to) \in Seq(Entries) /\ Len(Moved(list, from, to)) > 0
<1> DEFINE rest == RemoveAt(list, from)
<1>0. /\ Len(list) \in Nat /\ from \in 1 .. Len(list) /\ to \in 1 .. Len(list)
      /\ \A n \in 1 .. Len(list) : list[n] \in Entries
  BY LenProperties
<1>1. rest \in Seq(Entries) /\ Len(rest) = Len(list) - 1
  <2>1. /\ SubSeq(list, 1, from - 1) \in Seq(Entries)
        /\ Len(SubSeq(list, 1, from - 1)) = from - 1
    BY <1>0, SubSeqProperties
  <2>2. /\ SubSeq(list, from + 1, Len(list)) \in Seq(Entries)
        /\ Len(SubSeq(list, from + 1, Len(list))) = Len(list) - from
    BY <1>0, SubSeqProperties
  <2> DEFINE a == SubSeq(list, 1, from - 1)
             b == SubSeq(list, from + 1, Len(list))
  <2>3. rest = a \o b
    BY DEF RemoveAt
  <2> HIDE DEF a, b, rest
  <2>4. a \o b \in Seq(Entries) /\ Len(a \o b) = Len(a) + Len(b)
    BY <2>1, <2>2, ConcatProperties DEF a, b
  <2>5. Len(a) = from - 1 /\ Len(b) = Len(list) - from
    BY <2>1, <2>2 DEF a, b
  <2> QED BY <1>0, <2>3, <2>4, <2>5
<1>2. InsertAt(rest, to, list[from]) \in Seq(Entries) /\ Len(InsertAt(rest, to, list[from])) = Len(list)
  <2> HIDE DEF rest
  <2>0. \A n \in 1 .. Len(rest) : rest[n] \in Entries
    BY <1>1, LenProperties
  <2>1. /\ SubSeq(rest, 1, to - 1) \in Seq(Entries)
        /\ Len(SubSeq(rest, 1, to - 1)) = to - 1
    BY <1>0, <1>1, <2>0, SubSeqProperties
  <2>2. /\ SubSeq(rest, to, Len(rest)) \in Seq(Entries)
        /\ Len(SubSeq(rest, to, Len(rest))) = Len(rest) - to + 1
    BY <1>0, <1>1, <2>0, SubSeqProperties
  <2>3. <<list[from]>> \in Seq(Entries) /\ Len(<<list[from]>>) = 1
    BY <1>0
  <2>4. /\ SubSeq(rest, 1, to - 1) \o <<list[from]>> \in Seq(Entries)
        /\ Len(SubSeq(rest, 1, to - 1) \o <<list[from]>>) = to
    BY <1>0, <2>1, <2>3, ConcatProperties
  <2> QED BY <1>0, <1>1, <2>2, <2>4, ConcatProperties DEF InsertAt
<1> QED
  BY <1>0, <1>2 DEF Moved

-----------------------------------------------------------------------------
(* Types.                                                                  *)

\* What a request carries at each step.
Shaped(r) ==
    /\ r \in Job
    /\ r.at \in {"last", "create"} => r.kind = "add"
    /\ r.at \in {"find", "upload", "save"} => r.kind \in {"edit", "self"} /\ r.entry \in Entries
    /\ r.at = "drop" => r.kind = "drop" /\ r.entry \in Entries
    /\ r.at \in {"upload", "save"} => r.copy \in Entry
    /\ r.at \in {"check", "write"} => r.kind = "reorder" /\ Len(r.ids) > 0
    /\ r.at = "check" => r.order = 0
    /\ r.at = "write" => r.order < Len(r.ids)

Typed == RosterTypeOK /\ \A j \in Jobs : Shaped(job[j])

LEMMA RestIsShaped == Rest \in Job /\ Shaped(Rest)
<1>1. <<>> \in Seq(Entries)
  BY EmptySeq
<1> QED
  BY <1>1, ShownAssumption DEF Shaped, Rest, Job, Places, Kinds, Photo

LEMMA OneJobMoves ==
    ASSUME Typed, NEW j \in Jobs, NEW r, Shaped(r), job' = [job EXCEPT ![j] = r]
    PROVE  job' \in [Jobs -> Job] /\ \A k \in Jobs : Shaped(job'[k])
  BY DEF Typed, RosterTypeOK, Shaped

\* What somebody asks, and what the page does when its administrator asks.
Fresh(r) == Shaped(r) /\ r.at \in {"last", "find", "drop", "check"}

Asks(j, r) ==
    /\ Fresh(r) /\ Send(j, r)
    /\ misled' = misled
    /\ screen' \in Seq(Entries) /\ fetching' \in BOOLEAN
    /\ r.mine \/ UNCHANGED <<screen, fetching>>

LEMMA AddAsks ==
    ASSUME Typed, NEW j \in Jobs, NEW mine \in BOOLEAN, NEW year \in Years, AskAdd(j, mine, year)
    PROVE  \E r : Asks(j, r)
<1> DEFINE r == [Rest EXCEPT !.kind = "add", !.at = "last", !.mine = mine, !.year = year]
<1>1. Fresh(r)
  BY RestIsShaped DEF Fresh, Shaped, Job, Kinds, Places, Rest
<1> QED
  BY <1>1 DEF AskAdd, Asks, Typed, RosterTypeOK

LEMMA EditAsks ==
    ASSUME Typed, NEW j \in Jobs, NEW mine \in BOOLEAN, NEW e \in Entries, NEW year \in Years,
           NEW photo \in Photo, AskEdit(j, mine, e, year, photo)
    PROVE  \E r : Asks(j, r)
<1> DEFINE r == [Rest EXCEPT !.kind = "edit", !.at = "find", !.mine = mine, !.entry = e,
                             !.year = year, !.photo = photo]
<1>1. Fresh(r)
  BY RestIsShaped DEF Fresh, Shaped, Job, Kinds, Places, Rest, Photo
<1> QED
  BY <1>1 DEF AskEdit, Asks, Typed, RosterTypeOK

LEMMA DropAsks ==
    ASSUME Typed, NEW j \in Jobs, NEW mine \in BOOLEAN, NEW e \in Entries, AskDrop(j, mine, e)
    PROVE  \E r : Asks(j, r)
<1> DEFINE r == [Rest EXCEPT !.kind = "drop", !.at = "drop", !.mine = mine, !.entry = e]
<1>1. Fresh(r)
  BY RestIsShaped DEF Fresh, Shaped, Job, Kinds, Places, Rest, Photo
<1> QED
  BY <1>1 DEF AskDrop, Asks, Typed, RosterTypeOK

LEMMA SelfAsks ==
    ASSUME Typed, NEW j \in Jobs, NEW e \in Entries, NEW photo \in Photo, AskSelf(j, e, photo)
    PROVE  \E r : Asks(j, r)
<1> DEFINE r == [Rest EXCEPT !.kind = "self", !.at = "find", !.entry = e, !.photo = photo]
<1>1. Fresh(r)
  BY RestIsShaped DEF Fresh, Shaped, Job, Kinds, Places, Rest, Photo
<1> QED
  BY <1>1 DEF AskSelf, Asks, Typed, RosterTypeOK

\* A list with a row moved is as good a request as any.
LEMMA ReorderFresh ==
    ASSUME NEW mine \in BOOLEAN, NEW year \in Years, NEW before \in Seq(Entries),
           NEW ids \in Seq(Entries), Len(ids) > 0
    PROVE  Fresh([Rest EXCEPT !.kind = "reorder", !.at = "check", !.mine = mine,
                              !.year = year, !.ids = ids, !.before = before])
  BY RestIsShaped DEF Fresh, Shaped, Job, Kinds, Places, Rest, Photo

LEMMA DragAsks ==
    ASSUME Typed, NEW j \in Jobs, Drag(j)
    PROVE  \E r : Asks(j, r)
<1>1. PICK from \in DOMAIN screen, to \in DOMAIN screen :
         /\ Send(j, [Rest EXCEPT !.kind = "reorder", !.at = "check", !.mine = TRUE, !.year = Shown,
                                 !.ids = Moved(screen, from, to), !.before = screen])
         /\ screen' = Moved(screen, from, to)
  BY DEF Drag
<1> DEFINE r == [Rest EXCEPT !.kind = "reorder", !.at = "check", !.mine = TRUE, !.year = Shown,
                             !.ids = Moved(screen, from, to), !.before = screen]
<1>2. screen \in Seq(Entries)
  BY DEF Typed, RosterTypeOK
<1>3. Moved(screen, from, to) \in Seq(Entries) /\ Len(Moved(screen, from, to)) > 0
  BY <1>2, MovedTyped
<1>4. Fresh(r)
  BY <1>2, <1>3, ReorderFresh, ShownAssumption
<1>5. r.mine
  BY DEF Rest
<1> HIDE DEF r
<1> QED
  BY <1>1, <1>3, <1>4, <1>5 DEF Drag, Asks, r

LEMMA OthersDragAsks ==
    ASSUME Typed, NEW j \in Jobs, NEW year \in Years, OthersDrag(j, year)
    PROVE  \E r : Asks(j, r)
<1> DEFINE list == List(year)
<1>1. PICK from \in DOMAIN list, to \in DOMAIN list :
         Send(j, [Rest EXCEPT !.kind = "reorder", !.at = "check", !.year = year,
                              !.ids = Moved(list, from, to)])
  BY DEF OthersDrag
<1> DEFINE r == [Rest EXCEPT !.kind = "reorder", !.at = "check", !.year = year,
                             !.ids = Moved(list, from, to)]
<1>2. list \in Seq(Entries)
  BY ListTyped DEF Typed, RosterTypeOK, EntriesTyped
<1>3. Moved(list, from, to) \in Seq(Entries) /\ Len(Moved(list, from, to)) > 0
  <2> HIDE DEF list
  <2> QED BY <1>1, <1>2, MovedTyped
<1> HIDE DEF list
<1>4. Fresh(r)
  BY <1>3, RestIsShaped DEF Fresh, Shaped, Job, Kinds, Places, Rest, Photo
<1> HIDE DEF r
<1> QED
  BY <1>1, <1>4 DEF OthersDrag, Asks, Typed, RosterTypeOK, r

LEMMA RequestAsks ==
    ASSUME Typed, NEW j \in Jobs, Request(j)
    PROVE  \E r : Asks(j, r)
<1>1. CASE \E mine \in BOOLEAN, year \in Years : AskAdd(j, mine, year)
  BY <1>1, AddAsks
<1>2. CASE \E mine \in BOOLEAN, e \in Entries : AskDrop(j, mine, e)
  BY <1>2, DropAsks
<1>3. CASE \E e \in issued, year \in Years : AskEdit(j, FALSE, e, year, PhotoOf(e))
  <2>1. \A e \in issued : e \in Entries /\ PhotoOf(e) \in Photo
    BY DEF Typed, RosterTypeOK, PhotoOf, Photo, Entry
  <2> QED BY <1>3, <2>1, EditAsks
<1>4. CASE Drag(j) \/ \E year \in Years : OthersDrag(j, year)
  BY <1>4, DragAsks, OthersDragAsks
<1>5. CASE \E e \in Entries, photo \in Photo : AskSelf(j, e, photo)
  BY <1>5, SelfAsks
<1> QED
  BY <1>1, <1>2, <1>3, <1>4, <1>5 DEF Request

LEMMA AsksTyped ==
    ASSUME Typed, NEW j \in Jobs, NEW r, Asks(j, r)
    PROVE  Typed'
<1>1. job' = [job EXCEPT ![j] = r] /\ Shaped(r)
  BY DEF Asks, Fresh, Send
<1>2. job' \in [Jobs -> Job] /\ \A k \in Jobs : Shaped(job'[k])
  BY <1>1, OneJobMoves
<1>3. received' \in 0 .. MaxRequests
  BY BoundsAssumption DEF Asks, Send, Typed, RosterTypeOK
<1>4. mixed' \subseteq Years
  <2>1. r.at \in Places /\ r.year \in Years
    BY <1>1 DEF Shaped, Job
  <2> QED BY <2>1 DEF Asks, Send, Typed, RosterTypeOK
<1> QED
  BY <1>2, <1>3, <1>4 DEF Asks, Send, Typed, RosterTypeOK

LEMMA AnswerShaped ==
    ASSUME Typed, NEW j \in Jobs, NEW at \in {"failed", "done"}, Answer(j, at)
    PROVE  \E r : /\ Shaped(r) /\ job' = [job EXCEPT ![j] = r]
                  /\ r \in {Rest, [job[j] EXCEPT !.at = at]}
                  /\ job[j].mine => r.mine
<1>1. Shaped([job[j] EXCEPT !.at = at])
  BY DEF Typed, Shaped, Job, Places
<1>2. CASE job[j].mine
  <2>1. job' = [job EXCEPT ![j] = [job[j] EXCEPT !.at = at]]
    BY <1>2 DEF Answer
  <2>2. [job[j] EXCEPT !.at = at].mine = job[j].mine
    BY DEF Typed, Shaped, Job
  <2> QED BY <1>1, <1>2, <2>1, <2>2
<1>3. CASE ~job[j].mine
  <2>1. job' = [job EXCEPT ![j] = Rest]
    BY <1>3 DEF Answer
  <2> QED BY <1>3, <2>1, RestIsShaped
<1> QED
  BY <1>2, <1>3

LEMMA AnswerTyped ==
    ASSUME Typed, NEW j \in Jobs, NEW at \in {"failed", "done"}, Answer(j, at)
    PROVE  job' \in [Jobs -> Job] /\ \A k \in Jobs : Shaped(job'[k])
<1>1. PICK r : Shaped(r) /\ job' = [job EXCEPT ![j] = r]
  BY AnswerShaped
<1> QED
  BY <1>1, OneJobMoves

LEMMA NextOrderIsLast ==
    ASSUME EntriesTyped, NEW y
    PROVE  NextOrder(y) \in Nat /\ \A e \in Of(y) : entry[e].order < NextOrder(y)
<1> DEFINE orders == {entry[e].order : e \in Of(y)}
<1>1. CASE Of(y) = {}
  BY <1>1 DEF NextOrder
<1>2. CASE Of(y) # {}
  <2>1. orders \subseteq Nat /\ orders # {}
    BY <1>2, OfTyped
  <2>2. IsFiniteSet(orders)
    <3> DEFINE f == [e \in Of(y) |-> entry[e].order]
    <3>1. f \in Surjection(Of(y), orders)
      BY DEF Surjection
    <3> HIDE DEF f, orders
    <3> QED BY <3>1, OfTyped, FS_Surjection
  <2>3. Max(orders) \in Nat /\ \A n \in orders : n <= Max(orders)
    <3> HIDE DEF orders
    <3>1. Max(orders) \in orders /\ \A n \in orders : Max(orders) >= n
      BY <2>1, <2>2, MaxIsGreatest
    <3> QED BY <2>1, <3>1
  <2>4. NextOrder(y) = Max(orders) + 1
    BY <1>2 DEF NextOrder
  <2>5. \A e \in Of(y) : entry[e].order \in orders /\ entry[e].order \in Nat
    BY OfTyped
  <2> HIDE DEF orders
  <2> QED BY <2>3, <2>4, <2>5
<1> QED
  BY <1>1, <1>2

LEMMA NewEntry ==
    ASSUME Typed, issued # Entries
    PROVE  Min(Entries \ issued) \in Entries \ issued
<1>1. Entries \ issued \subseteq Nat /\ Entries \ issued # {}
  BY BoundsAssumption DEF Typed, RosterTypeOK
<1> QED
  BY <1>1, MinIsLeast

\* A save leaves an entry, or none where there was none.
LEMMA SavedTyped ==
    ASSUME Typed, NEW j \in Jobs, job[j].at = "save"
    PROVE  /\ entry[job[j].entry] = None => Saved(j) = None
           /\ entry[job[j].entry] # None => /\ Saved(j) \in Entry
                                            /\ Saved(j).order = entry[job[j].entry].order
<1>1. job[j].entry \in Entries /\ job[j].photo \in Photo /\ job[j].year \in Years
  BY DEF Typed, Shaped, Job
<1>2. entry[job[j].entry] # None => entry[job[j].entry] \in Entry
  BY <1>1 DEF Typed, RosterTypeOK
<1> QED
  BY <1>1, <1>2 DEF Saved, Entry

LEMMA StepTyped ==
    ASSUME Typed, NEW j \in Jobs, Step(j)
    PROVE  Typed'
<1> DEFINE r == job[j]
<1>0. Shaped(r) /\ EntriesTyped
  BY DEF Typed, RosterTypeOK, EntriesTyped
<1>1. CASE ReadLast(j)
  <2> DEFINE s == [job[j] EXCEPT !.order = NextOrder(job[j].year), !.at = "create"]
  <2>1. NextOrder(r.year) \in Nat
    BY <1>0, NextOrderIsLast
  <2>2. Shaped(s)
    BY <1>0, <1>1, <2>1 DEF ReadLast, Shaped, Job, Places
  <2>3. job' = [job EXCEPT ![j] = s]
    BY <1>1 DEF ReadLast
  <2>4. job' \in [Jobs -> Job] /\ \A k \in Jobs : Shaped(job'[k])
    <3> HIDE DEF s
    <3> QED BY <2>2, <2>3, OneJobMoves
  <2> QED BY <1>1, <2>4 DEF ReadLast, Typed, RosterTypeOK
<1>2. CASE Create(j)
  <2>1. job' \in [Jobs -> Job] /\ \A k \in Jobs : Shaped(job'[k])
    BY <1>2, AnswerTyped DEF Create
  <2> DEFINE e == Min(Entries \ issued)
  <2>2. e \in Entries
    BY <1>2, NewEntry DEF Create
  <2>3. [year |-> r.year, order |-> r.order, photo |-> None] \in Entry
    BY <1>0 DEF Shaped, Job, Entry, Photo
  <2>4. entry' \in [Entries -> Entry \cup {None}] /\ issued' \subseteq Entries
    <3>1. /\ entry' = [entry EXCEPT ![e] = [year |-> r.year, order |-> r.order, photo |-> None]]
          /\ issued' = issued \cup {e}
      BY <1>2 DEF Create
    <3> HIDE DEF e
    <3> QED BY <2>2, <2>3, <3>1 DEF Typed, RosterTypeOK
  <2> HIDE DEF e
  <2> QED BY <1>2, <2>1, <2>4 DEF Create, Beside, Typed, RosterTypeOK
<1>3. CASE FindEntry(j)
  <2>1. job' \in [Jobs -> Job] /\ \A k \in Jobs : Shaped(job'[k])
    <3>1. CASE entry[r.entry] = None
      BY <1>3, <3>1, AnswerTyped DEF FindEntry
    <3>2. CASE entry[r.entry] # None
      <4> DEFINE s == [job[j] EXCEPT !.copy = entry[r.entry],
                                     !.at = IF job[j].kind = "self" THEN "upload" ELSE "save"]
      <4>1. job' = [job EXCEPT ![j] = s]
        BY <1>3, <3>2 DEF FindEntry
      <4>2. r.entry \in Entries /\ entry[r.entry] \in Entry
        BY <1>0, <1>3, <3>2 DEF FindEntry, Shaped, EntriesTyped
      <4>3. Shaped(s)
        BY <1>0, <1>3, <4>2 DEF FindEntry, Shaped, Job, Places
      <4> HIDE DEF s
      <4> QED BY <4>1, <4>3, OneJobMoves
    <3> QED BY <3>1, <3>2
  <2> QED BY <1>3, <2>1 DEF FindEntry, Typed, RosterTypeOK
<1>4. CASE Upload(j)
  <2>1. job' \in [Jobs -> Job] /\ \A k \in Jobs : Shaped(job'[k])
    <3>1. CASE Go(j, "save")
      <4> DEFINE s == [job[j] EXCEPT !.at = "save"]
      <4>1. job' = [job EXCEPT ![j] = s]
        BY <3>1 DEF Go
      <4>2. Shaped(s)
        BY <1>0, <1>4 DEF Upload, Shaped, Job, Places
      <4> HIDE DEF s
      <4> QED BY <4>1, <4>2, OneJobMoves
    <3>2. CASE Answer(j, "failed")
      BY <3>2, AnswerTyped
    <3> QED BY <1>4, <3>1, <3>2 DEF Upload
  <2> QED BY <1>4, <2>1 DEF Upload, Typed, RosterTypeOK
<1>5. CASE SaveEntry(j)
  <2>1. job' \in [Jobs -> Job] /\ \A k \in Jobs : Shaped(job'[k])
    BY <1>5, AnswerTyped DEF SaveEntry
  <2>2. r.entry \in Entries /\ Saved(j) \in Entry \cup {None}
    BY <1>0, <1>5, SavedTyped DEF SaveEntry, Shaped
  <2>3. entry' = [entry EXCEPT ![r.entry] = Saved(j)]
    BY <1>5 DEF SaveEntry
  <2>4. entry' \in [Entries -> Entry \cup {None}]
    <3> HIDE DEF r
    <3> QED BY <2>2, <2>3 DEF Typed, RosterTypeOK
  <2>5. mixed' \subseteq Years
    <3>1. entry[r.entry] # None => entry'[r.entry] \in Entry
      BY <1>5, <2>2, <2>3, SavedTyped DEF SaveEntry, Typed, RosterTypeOK
    <3>2. mixed' = mixed \/ (entry[r.entry] # None /\ mixed' = mixed \cup {entry'[r.entry].year})
      BY <1>5 DEF SaveEntry
    <3> QED BY <3>1, <3>2 DEF Typed, RosterTypeOK, Entry
  <2> QED BY <1>5, <2>1, <2>4, <2>5 DEF SaveEntry, Beside, Typed, RosterTypeOK
<1>6. CASE DropEntry(j)
  <2>1. job' \in [Jobs -> Job] /\ \A k \in Jobs : Shaped(job'[k])
    BY <1>6, AnswerTyped DEF DropEntry
  <2>2. entry' \in [Entries -> Entry \cup {None}]
    BY <1>6 DEF DropEntry, Typed, RosterTypeOK
  <2> QED BY <1>6, <2>1, <2>2 DEF DropEntry, Beside, Typed, RosterTypeOK
<1>7. CASE CheckReorder(j)
  <2>1. job' \in [Jobs -> Job] /\ \A k \in Jobs : Shaped(job'[k])
    <3>1. CASE Go(j, "write")
      <4> DEFINE s == [job[j] EXCEPT !.at = "write"]
      <4>1. job' = [job EXCEPT ![j] = s]
        BY <3>1 DEF Go
      <4>2. Shaped(s)
        BY <1>0, <1>7 DEF CheckReorder, Shaped, Job, Places
      <4> HIDE DEF s
      <4> QED BY <4>1, <4>2, OneJobMoves
    <3>2. CASE Answer(j, "failed")
      BY <3>2, AnswerTyped
    <3> QED BY <1>7, <3>1, <3>2 DEF CheckReorder
  <2>2. mixed' \subseteq Years
    BY <1>0, <1>7 DEF CheckReorder, Typed, RosterTypeOK, Shaped, Job
  <2> QED BY <1>7, <2>1, <2>2 DEF CheckReorder, Typed, RosterTypeOK
<1>8. CASE WriteOrder(j)
  <2>1. r.order \in Nat /\ r.order + 1 \in Nat /\ Len(r.ids) \in Nat /\ r.order + 1 <= Len(r.ids)
    BY <1>0, <1>8 DEF WriteOrder, Shaped, Job
  <2>2. job' \in [Jobs -> Job] /\ \A k \in Jobs : Shaped(job'[k])
    <3>1. CASE r.order + 1 = Len(r.ids)
      BY <1>8, <3>1, AnswerTyped DEF WriteOrder
    <3>2. CASE r.order + 1 # Len(r.ids)
      <4> DEFINE s == [job[j] EXCEPT !.order = @ + 1]
      <4>1. job' = [job EXCEPT ![j] = s]
        BY <1>8, <3>2 DEF WriteOrder
      <4>2. Shaped(s)
        <5>1. r.at = "write" /\ r.order + 1 < Len(r.ids)
          BY <1>8, <2>1, <3>2 DEF WriteOrder
        <5>2. s \in Job /\ s.order = r.order + 1
          BY <1>0, <2>1 DEF Shaped, Job
        <5>3. s.at = "write" /\ s.kind = r.kind /\ s.ids = r.ids
          BY <1>0, <5>1 DEF Shaped, Job
        <5> HIDE DEF s, r
        <5> QED BY <1>0, <5>1, <5>2, <5>3 DEF Shaped
      <4> HIDE DEF s
      <4> QED BY <4>1, <4>2, OneJobMoves
    <3> QED BY <3>1, <3>2
  <2>3. entry' \in [Entries -> Entry \cup {None}]
    <3> DEFINE e == r.ids[r.order + 1]
    <3>1. entry' = IF e \in Of(r.year) THEN [entry EXCEPT ![e].order = r.order] ELSE entry
      BY <1>8 DEF WriteOrder
    <3>2. e \in Of(r.year) => e \in Entries /\ entry[e] \in Entry
      BY <1>0, OfTyped
    <3> HIDE DEF e, r
    <3> QED BY <2>1, <3>1, <3>2 DEF Typed, RosterTypeOK, Entry
  <2> QED BY <1>8, <2>2, <2>3 DEF WriteOrder, Beside, Typed, RosterTypeOK
<1>9. CASE LoseAnswer(j)
  <2> DEFINE s == [job[j] EXCEPT !.at = "failed"]
  <2>1. job' = [job EXCEPT ![j] = s] /\ Shaped(s)
    BY <1>0, <1>9 DEF LoseAnswer, Go, Shaped, Job, Places
  <2>2. job' \in [Jobs -> Job] /\ \A k \in Jobs : Shaped(job'[k])
    <3> HIDE DEF s
    <3> QED BY <2>1, OneJobMoves
  <2> QED BY <1>9, <2>2 DEF LoseAnswer, Typed, RosterTypeOK
<1>10. CASE HearDone(j)
  <2>1. job' \in [Jobs -> Job] /\ \A k \in Jobs : Shaped(job'[k])
    BY <1>10, RestIsShaped, OneJobMoves DEF HearDone
  <2> QED BY <1>10, <2>1 DEF HearDone, Typed, RosterTypeOK
<1>11. CASE HearFailed(j)
  <2>1. job' \in [Jobs -> Job] /\ \A k \in Jobs : Shaped(job'[k])
    BY <1>11, RestIsShaped, OneJobMoves DEF HearFailed
  <2>2. screen' \in Seq(Entries)
    BY <1>0, <1>11 DEF HearFailed, Typed, RosterTypeOK, Shaped, Job
  <2> QED BY <1>11, <2>1, <2>2 DEF HearFailed, Typed, RosterTypeOK
<1>12. CASE Refuse(j)
  <2>1. job' \in [Jobs -> Job] /\ \A k \in Jobs : Shaped(job'[k])
    BY <1>12, AnswerTyped DEF Refuse
  <2>2. mixed' \subseteq Years
    BY <1>0, <1>12 DEF Refuse, Typed, RosterTypeOK, Shaped, Job
  <2> QED BY <1>12, <2>1, <2>2 DEF Refuse, Typed, RosterTypeOK
<1> QED
  BY <1>1, <1>2, <1>3, <1>4, <1>5, <1>6, <1>7, <1>8, <1>9, <1>10, <1>11, <1>12 DEF Step

-----------------------------------------------------------------------------
(* The order within a year.                                                *)

Arranging(j, y) == Arranges(j, y) /\ job[j].at \notin {"failed", "done"}

Writing(j, y) == job[j].at = "write" /\ job[j].year = y

ApartIn(y) == \A e, f \in Of(y) : e # f => entry[e].order # entry[f].order

\* Those written so far have the place of one of their rows in the list, and nobody is missing in it.
WrittenFits(j, y) ==
    /\ Of(y) \subseteq ToSet(job[j].ids)
    /\ \A e \in Of(y) :
          (\E n \in 1 .. job[j].order : job[j].ids[n] = e)
              => \E n \in 1 .. job[j].order : job[j].ids[n] = e /\ entry[e].order = n - 1

\* A year that nothing mixes up is arranged by one request at a time.
OrderedIn(y) ==
    /\ \A j, k \in Jobs : Arranging(j, y) /\ Arranging(k, y) => j = k
    /\ (\A j \in Jobs : ~Writing(j, y)) => ApartIn(y)
    /\ \A j \in Jobs : job[j].at = "create" /\ job[j].year = y
                        => \A e \in Of(y) : entry[e].order < job[j].order
    /\ \A j \in Jobs : Writing(j, y) => WrittenFits(j, y)

OrdersInv == \A y \in Years \ mixed : OrderedIn(y)

\* A job that is not at work on the order of y.
Elsewhere(r, y) == r.at \in {"last", "create", "check", "write"} => r.year # y

LEMMA ArrangingMeans ==
    ASSUME NEW j \in Jobs, Shaped(job[j]), NEW y
    PROVE  Arranging(j, y) <=> ~Elsewhere(job[j], y)
  BY DEF Arranging, Arranges, Elsewhere, Shaped, Job, Places, Kinds

LEMMA ArrangingMeansNext ==
    ASSUME NEW j \in Jobs, Shaped(job'[j]), NEW y
    PROVE  Arranging(j, y)' <=> ~Elsewhere(job'[j], y)
  BY DEF Arranging, Arranges, Elsewhere, Shaped, Job, Places, Kinds

\* Whoever is at work elsewhere may take entries out of the year or leave it alone.
LEMMA OrderedKept ==
    ASSUME Typed, NEW j \in Jobs, NEW r, Shaped(r), job' = [job EXCEPT ![j] = r],
           NEW y \in Years, OrderedIn(y), Elsewhere(r, y), ~Writing(j, y),
           \A e \in Of(y)' : e \in Of(y) /\ entry'[e].order = entry[e].order
    PROVE  OrderedIn(y)'
<1>1. job'[j] = r /\ \A k \in Jobs : k # j => job'[k] = job[k]
  BY DEF Typed, RosterTypeOK
<1>2. \A k \in Jobs : Arranging(k, y)' => k # j /\ Arranging(k, y)
  <2>1. ~Arranging(j, y)'
    BY <1>1, ArrangingMeansNext
  <2> QED BY <1>1, <2>1 DEF Arranging, Arranges
<1>3. \A k \in Jobs : Writing(k, y)' <=> k # j /\ Writing(k, y)
  <2>1. ~Writing(j, y)'
    BY <1>1 DEF Writing, Elsewhere
  <2> QED BY <1>1, <2>1 DEF Writing
<1>4. \A k, l \in Jobs : Arranging(k, y)' /\ Arranging(l, y)' => k = l
  BY <1>2 DEF OrderedIn
<1>5. (\A k \in Jobs : ~Writing(k, y)') => ApartIn(y)'
  <2> SUFFICES ASSUME \A k \in Jobs : ~Writing(k, y)' PROVE ApartIn(y)'
    OBVIOUS
  <2>1. ApartIn(y)
    BY <1>3 DEF OrderedIn
  <2> QED BY <2>1 DEF ApartIn
<1>6. ASSUME NEW k \in Jobs, job'[k].at = "create", job'[k].year = y, NEW e \in Of(y)'
      PROVE  entry'[e].order < job'[k].order
  <2>1. k # j
    BY <1>1, <1>6 DEF Elsewhere
  <2> QED BY <1>1, <1>6, <2>1 DEF OrderedIn
<1>7. ASSUME NEW k \in Jobs, Writing(k, y)' PROVE WrittenFits(k, y)'
  <2>1. k # j /\ job'[k] = job[k] /\ WrittenFits(k, y)
    BY <1>1, <1>3, <1>7 DEF OrderedIn
  <2> QED BY <2>1 DEF WrittenFits
<1> QED
  BY <1>4, <1>5, <1>6, <1>7 DEF OrderedIn

LEMMA OfSame ==
    ASSUME entry' = entry, NEW y
    PROVE  Of(y)' = Of(y) /\ \A e \in Of(y)' : e \in Of(y) /\ entry'[e].order = entry[e].order
  BY DEF Of

LEMMA AsksOrdered ==
    ASSUME Typed, OrdersInv, NEW j \in Jobs, NEW r, Asks(j, r)
    PROVE  OrdersInv'
<1> SUFFICES ASSUME NEW y \in Years, y \notin mixed' PROVE OrderedIn(y)'
  BY DEF OrdersInv
<1>1. /\ job' = [job EXCEPT ![j] = r] /\ entry' = entry /\ Shaped(r) /\ job[j] = Rest
      /\ r.at \in {"last", "find", "drop", "check"}
  BY DEF Asks, Fresh, Send
<1>2. y \notin mixed
  BY DEF Asks, Send
<1>3. OrderedIn(y) /\ ~Writing(j, y)
  BY <1>1, <1>2 DEF OrdersInv, Writing, Rest
<1>4. CASE Elsewhere(r, y)
  BY <1>1, <1>3, <1>4, OfSame, OrderedKept
<1>5. CASE ~Elsewhere(r, y)
  <2>1. r.at \in {"last", "check"} /\ r.kind \in {"add", "reorder"} /\ r.year = y
    BY <1>1, <1>5 DEF Elsewhere, Shaped
  <2>2. \A k \in Jobs : ~Arranging(k, y)
    BY <2>1, <1>2 DEF Asks, Send, Arranging
  <2>3. job'[j] = r /\ \A k \in Jobs : k # j => job'[k] = job[k]
    BY <1>1 DEF Typed, RosterTypeOK
  <2>4. \A k, l \in Jobs : Arranging(k, y)' /\ Arranging(l, y)' => k = l
    BY <2>2, <2>3 DEF Arranging, Arranges
  <2>5. \A k \in Jobs : k # j => ~Arranging(k, y)'
    BY <2>2, <2>3 DEF Arranging, Arranges
  <2>6. \A k \in Jobs : ~(job'[k].at \in {"create", "write"} /\ job'[k].year = y)
    <3> SUFFICES ASSUME NEW k \in Jobs, job'[k].at \in {"create", "write"}, job'[k].year = y PROVE FALSE
      OBVIOUS
    <3>1. k # j
      BY <2>1, <2>3
    <3>2. Shaped(job'[k])
      BY <2>3, <3>1 DEF Typed
    <3>3. ~Elsewhere(job'[k], y)
      BY DEF Elsewhere
    <3> QED BY <2>5, <3>1, <3>2, <3>3, ArrangingMeansNext
  <2>7. \A k \in Jobs : ~Writing(k, y)
    <3> SUFFICES ASSUME NEW k \in Jobs, Writing(k, y) PROVE FALSE
      OBVIOUS
    <3>1. Shaped(job[k]) /\ ~Elsewhere(job[k], y)
      BY DEF Typed, Writing, Elsewhere
    <3> QED BY <2>2, <3>1, ArrangingMeans
  <2>8. ApartIn(y)'
    <3>1. ApartIn(y)
      BY <1>3, <2>7 DEF OrderedIn
    <3> QED BY <1>1, <3>1, OfSame DEF ApartIn
  <2> QED BY <2>4, <2>6, <2>8 DEF OrderedIn, Writing
<1> QED
  BY <1>4, <1>5

LEMMA AloneThere ==
    ASSUME Typed, NEW y \in Years, OrderedIn(y), NEW j \in Jobs, ~Elsewhere(job[j], y)
    PROVE  \A k \in Jobs : k # j => Elsewhere(job[k], y)
  BY ArrangingMeans DEF OrderedIn, Typed

\* What is left to show when one request alone is at work on the year.
LEMMA OrderedByOne ==
    ASSUME Typed, NEW j \in Jobs, NEW r, Shaped(r), job' = [job EXCEPT ![j] = r],
           NEW y \in Years, \A k \in Jobs : k # j => Elsewhere(job[k], y),
           ~Writing(j, y)' => ApartIn(y)',
           r.at = "create" => \A e \in Of(y)' : entry'[e].order < r.order,
           Writing(j, y)' => WrittenFits(j, y)'
    PROVE  OrderedIn(y)'
<1>1. job'[j] = r /\ \A k \in Jobs : k # j => job'[k] = job[k]
  BY DEF Typed, RosterTypeOK
<1>2. \A k \in Jobs : k # j => ~Arranging(k, y)' /\ ~(job'[k].at \in {"create", "write"} /\ job'[k].year = y)
  <2> SUFFICES ASSUME NEW k \in Jobs, k # j
               PROVE  ~Arranging(k, y)' /\ ~(job'[k].at \in {"create", "write"} /\ job'[k].year = y)
    OBVIOUS
  <2>1. Shaped(job'[k]) /\ Elsewhere(job'[k], y)
    BY <1>1 DEF Typed
  <2> QED BY <2>1, ArrangingMeansNext DEF Elsewhere
<1>3. \A k, l \in Jobs : Arranging(k, y)' /\ Arranging(l, y)' => k = l
  BY <1>2
<1>4. \A k \in Jobs : Writing(k, y)' => k = j
  BY <1>2 DEF Writing
<1>5. (\A k \in Jobs : ~Writing(k, y)') => ApartIn(y)'
  OBVIOUS
<1>6. ASSUME NEW k \in Jobs, job'[k].at = "create", job'[k].year = y
      PROVE  \A e \in Of(y)' : entry'[e].order < job'[k].order
  BY <1>1, <1>2, <1>6
<1>7. \A k \in Jobs : Writing(k, y)' => WrittenFits(k, y)'
  BY <1>4
<1> QED
  BY <1>3, <1>5, <1>6, <1>7 DEF OrderedIn

\* Requests that are not about the order, and answers.
LEMMA OthersOrdered ==
    ASSUME Typed, OrdersInv, NEW j \in Jobs, NEW r, Shaped(r), job' = [job EXCEPT ![j] = r],
           \A y \in Years : Elsewhere(job[j], y) /\ Elsewhere(r, y),
           mixed \subseteq mixed',
           \A y \in Years \ mixed' :
               \A e \in Of(y)' : e \in Of(y) /\ entry'[e].order = entry[e].order
    PROVE  OrdersInv'
<1> SUFFICES ASSUME NEW y \in Years, y \notin mixed' PROVE OrderedIn(y)'
  BY DEF OrdersInv
<1>1. OrderedIn(y) /\ ~Writing(j, y)
  BY DEF OrdersInv, Writing, Elsewhere
<1> QED
  BY <1>1, OrderedKept

LEMMA ReadLastOrdered ==
    ASSUME Typed, OrdersInv, NEW j \in Jobs, ReadLast(j)
    PROVE  OrdersInv'
<1> SUFFICES ASSUME NEW y \in Years, y \notin mixed' PROVE OrderedIn(y)'
  BY DEF OrdersInv
<1> DEFINE r == [job[j] EXCEPT !.order = NextOrder(job[j].year), !.at = "create"]
<1>0. Shaped(job[j]) /\ EntriesTyped
  BY DEF Typed, RosterTypeOK, EntriesTyped
<1>1. job' = [job EXCEPT ![j] = r] /\ entry' = entry /\ mixed' = mixed /\ job[j].at = "last"
  BY DEF ReadLast
<1>2. Shaped(r) /\ r.at = "create" /\ r.year = job[j].year /\ r.order = NextOrder(job[j].year)
  BY <1>0, <1>1, NextOrderIsLast DEF Shaped, Job, Places
<1>3. OrderedIn(y) /\ ~Writing(j, y)
  BY <1>1 DEF OrdersInv, Writing
<1> HIDE DEF r
<1>4. CASE job[j].year # y
  BY <1>1, <1>2, <1>3, <1>4, OfSame, OrderedKept DEF Elsewhere
<1>5. CASE job[j].year = y
  <2>1. \A k \in Jobs : k # j => Elsewhere(job[k], y)
    BY <1>1, <1>3, <1>5, AloneThere DEF Elsewhere
  <2>2. ApartIn(y)
    <3>1. \A k \in Jobs : ~Writing(k, y)
      BY <1>3, <2>1 DEF Writing, Elsewhere
    <3> QED BY <1>3, <3>1 DEF OrderedIn
  <2>3. ApartIn(y)'
    BY <1>1, <2>2, OfSame DEF ApartIn
  <2>4. \A e \in Of(y)' : entry'[e].order < r.order
    BY <1>0, <1>1, <1>2, <1>5, OfSame, NextOrderIsLast
  <2>5. ~Writing(j, y)'
    BY <1>1, <1>2 DEF Writing, Typed, RosterTypeOK
  <2> QED BY <1>1, <1>2, <2>1, <2>3, <2>4, <2>5, OrderedByOne
<1> QED
  BY <1>4, <1>5

LEMMA CreateOrdered ==
    ASSUME Typed, OrdersInv, NEW j \in Jobs, Create(j)
    PROVE  OrdersInv'
<1> SUFFICES ASSUME NEW y \in Years, y \notin mixed' PROVE OrderedIn(y)'
  BY DEF OrdersInv
<1> DEFINE e == Min(Entries \ issued)
           new == [year |-> job[j].year, order |-> job[j].order, photo |-> None]
<1>0. Shaped(job[j]) /\ EntriesTyped /\ job[j].at = "create" /\ mixed' = mixed
  BY DEF Typed, RosterTypeOK, EntriesTyped, Create
<1>1. PICK r : Shaped(r) /\ job' = [job EXCEPT ![j] = r] /\ r \in {Rest, [job[j] EXCEPT !.at = "done"]}
  BY AnswerShaped DEF Create
<1>2. r.at \in {"rest", "done"}
  BY <1>0, <1>1 DEF Rest, Shaped, Job
<1>3. e \in Entries /\ entry' = [entry EXCEPT ![e] = new]
  BY NewEntry DEF Create
<1>4. OrderedIn(y) /\ ~Writing(j, y)
  BY <1>0 DEF OrdersInv, Writing
<1> HIDE DEF e
<1>5. \A f \in Of(y)' : f # e => f \in Of(y) /\ entry'[f] = entry[f]
  BY <1>0, <1>3 DEF Of, EntriesTyped
<1>6. e \in Of(y)' => job[j].year = y /\ entry'[e].order = job[j].order
  BY <1>0, <1>3 DEF Of, EntriesTyped
<1>7. CASE job[j].year # y
  <2>1. \A f \in Of(y)' : f \in Of(y) /\ entry'[f].order = entry[f].order
    BY <1>5, <1>6, <1>7
  <2>2. Elsewhere(r, y)
    BY <1>2 DEF Elsewhere
  <2> QED BY <1>1, <1>4, <2>1, <2>2, OrderedKept
<1>8. CASE job[j].year = y
  <2>1. \A k \in Jobs : k # j => Elsewhere(job[k], y)
    BY <1>0, <1>4, <1>8, AloneThere DEF Elsewhere
  <2>2. ApartIn(y)
    <3>1. \A k \in Jobs : ~Writing(k, y)
      BY <1>4, <2>1 DEF Writing, Elsewhere
    <3> QED BY <1>4, <3>1 DEF OrderedIn
  <2>3. \A f \in Of(y) : entry[f].order < job[j].order /\ entry[f].order \in Nat
    BY <1>0, <1>4, <1>8, OfTyped DEF OrderedIn
  <2>4. \A f \in Of(y)' : f # e => f \in Of(y) /\ entry'[f].order = entry[f].order
                                 /\ entry'[f].order < job[j].order /\ entry'[f].order \in Nat
    BY <1>5, <2>3
  <2>5. job[j].order \in Nat
    BY <1>0 DEF Shaped, Job
  <2>6. ASSUME NEW f \in Of(y)', NEW g \in Of(y)', f # g PROVE entry'[f].order # entry'[g].order
    <3>1. CASE f # e /\ g # e
      BY <2>2, <2>4, <2>6, <3>1 DEF ApartIn
    <3>2. CASE f = e \/ g = e
      BY <1>6, <2>4, <2>5, <2>6, <3>2
    <3> QED BY <3>1, <3>2
  <2>7. ApartIn(y)'
    BY <2>6 DEF ApartIn
  <2>8. ~Writing(j, y)'
    BY <1>1, <1>2 DEF Writing, Typed, RosterTypeOK
  <2> QED BY <1>1, <1>2, <2>1, <2>7, <2>8, OrderedByOne
<1> QED
  BY <1>7, <1>8

LEMMA CheckOrdered ==
    ASSUME Typed, OrdersInv, NEW j \in Jobs, CheckReorder(j)
    PROVE  OrdersInv'
<1> SUFFICES ASSUME NEW y \in Years, y \notin mixed' PROVE OrderedIn(y)'
  BY DEF OrdersInv
<1> DEFINE named == ToSet(job[j].ids)
<1>0. Shaped(job[j]) /\ job[j].at = "check" /\ entry' = entry /\ y \notin mixed
  BY DEF Typed, CheckReorder
<1>1. OrderedIn(y) /\ ~Writing(j, y)
  BY <1>0 DEF OrdersInv, Writing
<1>2. CASE ~(named \subseteq Of(job[j].year))
  <2>1. PICK r : Shaped(r) /\ job' = [job EXCEPT ![j] = r] /\ r \in {Rest, [job[j] EXCEPT !.at = "failed"]}
    BY <1>2, AnswerShaped DEF CheckReorder
  <2>2. r.at \in {"rest", "failed"}
    BY <1>0, <2>1 DEF Rest, Shaped, Job
  <2>3. CASE job[j].year # y
    BY <1>0, <1>1, <2>1, <2>2, OfSame, OrderedKept DEF Elsewhere
  <2>4. CASE job[j].year = y
    BY <1>0, <1>1, <2>1, <2>2, OfSame, OrderedKept DEF Elsewhere
  <2> QED BY <2>3, <2>4
<1>3. CASE named \subseteq Of(job[j].year)
  <2> DEFINE r == [job[j] EXCEPT !.at = "write"]
  <2>1. job' = [job EXCEPT ![j] = r]
    BY <1>3 DEF CheckReorder, Go
  <2>2. Shaped(r) /\ r.at = "write" /\ r.year = job[j].year /\ r.ids = job[j].ids /\ r.order = 0
    BY <1>0 DEF Shaped, Job, Places
  <2> HIDE DEF r
  <2>3. CASE job[j].year # y
    BY <1>0, <1>1, <2>1, <2>2, <2>3, OfSame, OrderedKept DEF Elsewhere
  <2>4. CASE job[j].year = y
    <3>1. \A k \in Jobs : k # j => Elsewhere(job[k], y)
      BY <1>0, <1>1, <2>4, AloneThere DEF Elsewhere
    <3>2. named = Of(y)
      BY <1>0, <1>3, <2>4 DEF CheckReorder
    <3>3. job'[j] = r
      BY <2>1 DEF Typed, RosterTypeOK
    <3>4. Writing(j, y)'
      BY <2>2, <2>4, <3>3 DEF Writing
    <3>5. WrittenFits(j, y)'
      BY <1>0, <2>2, <3>2, <3>3, OfSame DEF WrittenFits
    <3> QED BY <2>1, <2>2, <3>1, <3>4, <3>5, OrderedByOne
  <2> QED BY <2>3, <2>4
<1> QED
  BY <1>2, <1>3

\* Each write puts one entry at its row; after the last one all are at theirs.
LEMMA WriteOrdered ==
    ASSUME Typed, OrdersInv, NEW j \in Jobs, WriteOrder(j)
    PROVE  OrdersInv'
<1> SUFFICES ASSUME NEW y \in Years, y \notin mixed' PROVE OrderedIn(y)'
  BY DEF OrdersInv
<1> DEFINE ids == job[j].ids
           k == job[j].order
           e == ids[k + 1]
<1>0. /\ Shaped(job[j]) /\ EntriesTyped /\ job[j].at = "write" /\ y \notin mixed
      /\ entry' = IF e \in Of(job[j].year) THEN [entry EXCEPT ![e].order = k] ELSE entry
  BY DEF Typed, RosterTypeOK, EntriesTyped, WriteOrder
<1>1. OrderedIn(y)
  BY <1>0 DEF OrdersInv
<1>2. k \in Nat /\ Len(ids) \in Nat /\ k < Len(ids) /\ DOMAIN ids = 1 .. Len(ids)
  BY <1>0, LenProperties DEF Shaped, Job
<1>3. PICK r : /\ Shaped(r) /\ job' = [job EXCEPT ![j] = r]
               /\ \/ r.at \in {"rest", "done"} /\ k + 1 = Len(ids)
                  \/ /\ r.at = "write" /\ r.year = job[j].year /\ r.ids = ids /\ r.order = k + 1
                     /\ k + 1 # Len(ids)
  <2>1. CASE k + 1 = Len(ids)
    <3>1. PICK r : Shaped(r) /\ job' = [job EXCEPT ![j] = r] /\ r \in {Rest, [job[j] EXCEPT !.at = "done"]}
      BY <2>1, AnswerShaped DEF WriteOrder
    <3>2. r.at \in {"rest", "done"}
      BY <1>0, <3>1 DEF Rest, Shaped, Job
    <3> QED BY <2>1, <3>1, <3>2
  <2>2. CASE k + 1 # Len(ids)
    <3> DEFINE s == [job[j] EXCEPT !.order = @ + 1]
    <3>1. job' = [job EXCEPT ![j] = s]
      BY <2>2 DEF WriteOrder
    <3>2. s \in Job /\ s.order = k + 1 /\ s.at = "write" /\ s.kind = job[j].kind
          /\ s.ids = ids /\ s.year = job[j].year
      BY <1>0, <1>2 DEF Shaped, Job
    <3> HIDE DEF s
    <3>3. Shaped(s)
      BY <1>0, <1>2, <2>2, <3>2 DEF Shaped
    <3> QED BY <2>2, <3>1, <3>2, <3>3
  <2> QED BY <2>1, <2>2
<1>4. job'[j] = r
  BY <1>3 DEF Typed, RosterTypeOK
<1>5. \A f : f # e => entry'[f] = entry[f]
  BY <1>0 DEF EntriesTyped
<1>6. e \in Of(job[j].year) => entry'[e].order = k
  <2>1. e \in Of(job[j].year) => e \in Entries /\ entry[e] \in Entry
    BY <1>0, OfTyped
  <2> HIDE DEF e, k
  <2> QED BY <1>0, <2>1 DEF EntriesTyped, Entry
<1>7. \A x \in Years : Of(x)' \subseteq Of(x)
  <2>1. e \in Of(job[j].year) => entry[e] # None /\ e \in Entries /\ entry[e].year = job[j].year
    BY <1>0, OfTyped DEF Of
  <2>2. e \in Of(job[j].year) => entry'[e].year = entry[e].year
    <3>1. e \in Of(job[j].year) => e \in Entries /\ entry[e] \in Entry
      BY <1>0, OfTyped
    <3> HIDE DEF e, k
    <3> QED BY <1>0, <3>1 DEF EntriesTyped, Entry
  <2> HIDE DEF e
  <2> QED BY <1>0, <1>5, <2>1, <2>2 DEF Of
<1> HIDE DEF e
<1>8. CASE job[j].year # y
  <2>1. \A f \in Of(y)' : f \in Of(y) /\ entry'[f].order = entry[f].order
    <3> SUFFICES ASSUME NEW f \in Of(y)' PROVE f \in Of(y) /\ entry'[f].order = entry[f].order
      OBVIOUS
    <3>1. f \in Of(y)
      BY <1>7
    <3>2. CASE f # e
      BY <1>5, <3>1, <3>2
    <3>3. CASE f = e
      <4>1. e \notin Of(job[j].year)
        BY <1>0, <1>8, <3>1, <3>3, OfTyped
      <4> QED BY <1>0, <3>1, <4>1
    <3> QED BY <3>2, <3>3
  <2>2. Elsewhere(r, y) /\ ~Writing(j, y)
    BY <1>3, <1>8 DEF Elsewhere, Writing
  <2> QED BY <1>1, <1>3, <2>1, <2>2, OrderedKept
<1>9. CASE job[j].year = y
  <2>1. \A l \in Jobs : l # j => Elsewhere(job[l], y)
    BY <1>0, <1>1, <1>9, AloneThere DEF Elsewhere
  <2>2. WrittenFits(j, y)
    BY <1>0, <1>1, <1>9 DEF OrderedIn, Writing
  <2>3. Of(y)' \subseteq ToSet(ids)
    BY <1>7, <2>2 DEF WrittenFits
  <2>4. ASSUME NEW f \in Of(y)', NEW m \in 1 .. k + 1, ids[m] = f
        PROVE  \E n \in 1 .. k + 1 : ids[n] = f /\ entry'[f].order = n - 1
    <3>0. f \in Of(y)
      BY <1>7
    <3>1. CASE f = e
      <4>1. entry'[e].order = k /\ e = ids[k + 1]
        BY <1>0, <1>6, <1>9, <3>0, <3>1 DEF e
      <4>2. k + 1 \in 1 .. k + 1 /\ k = (k + 1) - 1
        BY <1>2
      <4> QED BY <3>1, <4>1, <4>2
    <3>2. CASE f # e
      <4>1. m # k + 1
        BY <2>4, <3>2 DEF e
      <4>2. m \in 1 .. k
        BY <1>2, <4>1
      <4>3. PICK n \in 1 .. k : ids[n] = f /\ entry[f].order = n - 1
        BY <2>2, <2>4, <3>0, <4>2 DEF WrittenFits
      <4>4. n \in 1 .. k + 1 /\ entry'[f].order = n - 1
        BY <1>2, <1>5, <3>2, <4>3
      <4> QED BY <4>3, <4>4
    <3> QED BY <3>1, <3>2
  <2>5. CASE k + 1 = Len(ids)
    <3>1. r.at \in {"rest", "done"} /\ ~Writing(j, y)'
      BY <1>3, <1>4, <2>5 DEF Writing
    <3>2. \A f \in Of(y)' : \E n \in 1 .. k + 1 : ids[n] = f /\ entry'[f].order = n - 1
      BY <1>2, <2>3, <2>4, <2>5 DEF ToSet
    <3>3. ASSUME NEW f \in Of(y)', NEW g \in Of(y)', entry'[f].order = entry'[g].order PROVE f = g
      <4>1. PICK n \in 1 .. k + 1 : ids[n] = f /\ entry'[f].order = n - 1
        BY <3>2
      <4>2. PICK m \in 1 .. k + 1 : ids[m] = g /\ entry'[g].order = m - 1
        BY <3>2
      <4>3. n - 1 = m - 1
        BY <3>3, <4>1, <4>2
      <4>4. k \in Nat
        BY <1>2
      <4> HIDE DEF k
      <4>5. n \in 1 .. k + 1 /\ m \in 1 .. k + 1
        OBVIOUS
      <4>6. n = m
        BY <4>3, <4>4, <4>5
      <4> QED BY <4>1, <4>2, <4>6
    <3>4. ApartIn(y)'
      BY <3>3 DEF ApartIn
    <3> QED BY <1>3, <2>1, <3>1, <3>4, OrderedByOne
  <2>6. CASE k + 1 # Len(ids)
    <3>1. r.at = "write" /\ r.year = y /\ r.ids = ids /\ r.order = k + 1
      BY <1>3, <1>9, <2>6, <1>2
    <3>2. Writing(j, y)'
      BY <1>4, <3>1 DEF Writing
    <3>3. WrittenFits(j, y)'
      BY <1>4, <2>3, <2>4, <3>1 DEF WrittenFits
    <3> QED BY <1>3, <2>1, <3>1, <3>2, <3>3, OrderedByOne
  <2> QED BY <2>5, <2>6
<1> QED
  BY <1>8, <1>9

LEMMA SaveOrdered ==
    ASSUME Typed, OrdersInv, NEW j \in Jobs, SaveEntry(j)
    PROVE  OrdersInv'
<1> DEFINE e == job[j].entry
<1>0. Shaped(job[j]) /\ EntriesTyped /\ job[j].at = "save" /\ e \in Entries
  BY DEF Typed, RosterTypeOK, EntriesTyped, SaveEntry, Shaped
<1>1. PICK r : Shaped(r) /\ job' = [job EXCEPT ![j] = r]
               /\ r \in {Rest, [job[j] EXCEPT !.at = "failed"], [job[j] EXCEPT !.at = "done"]}
  BY AnswerShaped DEF SaveEntry
<1>2. \A y \in Years : Elsewhere(job[j], y) /\ Elsewhere(r, y)
  BY <1>0, <1>1 DEF Elsewhere, Rest, Shaped, Job
<1>3. /\ entry' = [entry EXCEPT ![e] = Saved(j)]
      /\ mixed' = IF entry[e] # None /\ entry'[e].year # entry[e].year
                  THEN mixed \cup {entry'[e].year} ELSE mixed
  BY DEF SaveEntry
<1>4. /\ entry[e] = None => entry'[e] = None
      /\ entry[e] # None => entry'[e].order = entry[e].order
  BY <1>0, <1>3, SavedTyped DEF EntriesTyped
<1>5. \A f : f # e => entry'[f] = entry[f]
  BY <1>0, <1>3 DEF EntriesTyped
<1> HIDE DEF e
<1>6. ASSUME NEW y \in Years \ mixed', NEW f \in Of(y)'
      PROVE  f \in Of(y) /\ entry'[f].order = entry[f].order
  <2>1. CASE f # e
    BY <1>5, <2>1 DEF Of
  <2>2. CASE f = e
    <3>1. entry'[e] # None /\ entry'[e].year = y
      BY <2>2 DEF Of
    <3>2. entry[e] # None /\ entry[e].year = y
      BY <1>3, <1>4, <3>1
    <3> QED BY <1>0, <1>4, <2>2, <3>2 DEF Of
  <2> QED BY <2>1, <2>2
<1>7. mixed \subseteq mixed'
  BY <1>3
<1> QED
  BY <1>1, <1>2, <1>6, <1>7, OthersOrdered

LEMMA DropOrdered ==
    ASSUME Typed, OrdersInv, NEW j \in Jobs, DropEntry(j)
    PROVE  OrdersInv'
<1>0. Shaped(job[j]) /\ EntriesTyped /\ job[j].at = "drop" /\ mixed' = mixed
  BY DEF Typed, RosterTypeOK, EntriesTyped, DropEntry
<1>1. PICK r : Shaped(r) /\ job' = [job EXCEPT ![j] = r]
               /\ r \in {Rest, [job[j] EXCEPT !.at = "failed"], [job[j] EXCEPT !.at = "done"]}
  BY AnswerShaped DEF DropEntry
<1>2. \A y \in Years : Elsewhere(job[j], y) /\ Elsewhere(r, y)
  BY <1>0, <1>1 DEF Elsewhere, Rest, Shaped, Job
<1>3. \A y \in Years : \A f \in Of(y)' : f \in Of(y) /\ entry'[f].order = entry[f].order
  BY <1>0 DEF DropEntry, Of, EntriesTyped
<1> QED
  BY <1>0, <1>1, <1>2, <1>3, OthersOrdered

\* Steps that touch no entry.
LEMMA QuietOrdered ==
    ASSUME Typed, OrdersInv, NEW j \in Jobs,
           FindEntry(j) \/ Upload(j) \/ LoseAnswer(j) \/ HearDone(j) \/ HearFailed(j)
    PROVE  OrdersInv'
<1>0. Shaped(job[j]) /\ EntriesTyped /\ entry' = entry /\ mixed' = mixed
      /\ job[j].at \in {"find", "upload", "failed", "done"}
  BY DEF Typed, RosterTypeOK, EntriesTyped, FindEntry, Upload, LoseAnswer, HearDone, HearFailed
<1>1. \E r : job' = [job EXCEPT ![j] = r] /\ (r = Rest \/ r.at \in {"upload", "save", "failed", "done"})
  <2>1. CASE Answer(j, "failed")
    <3>1. PICK r : job' = [job EXCEPT ![j] = r] /\ r \in {Rest, [job[j] EXCEPT !.at = "failed"]}
      BY <2>1, AnswerShaped
    <3>2. [job[j] EXCEPT !.at = "failed"].at = "failed"
      BY <1>0 DEF Shaped, Job
    <3> QED BY <3>1, <3>2
  <2>2. CASE Go(j, "save") \/ Go(j, "failed")
    <3>1. PICK at \in {"save", "failed"} : job' = [job EXCEPT ![j] = [job[j] EXCEPT !.at = at]]
      BY <2>2 DEF Go
    <3>2. [job[j] EXCEPT !.at = at].at = at
      BY <1>0 DEF Shaped, Job
    <3> QED BY <3>1, <3>2
  <2>3. CASE job' = [job EXCEPT ![j] = Rest]
    BY <2>3
  <2>4. CASE FindEntry(j) /\ entry[job[j].entry] # None
    <3> DEFINE s == [job[j] EXCEPT !.copy = entry[job[j].entry],
                                   !.at = IF job[j].kind = "self" THEN "upload" ELSE "save"]
    <3>1. job' = [job EXCEPT ![j] = s]
      BY <2>4 DEF FindEntry
    <3>2. s.at \in {"upload", "save"}
      BY <1>0 DEF Shaped, Job
    <3> HIDE DEF s
    <3> QED BY <3>1, <3>2
  <2> QED BY <2>1, <2>2, <2>3, <2>4 DEF FindEntry, Upload, LoseAnswer, HearDone, HearFailed
<1>2. PICK r : job' = [job EXCEPT ![j] = r] /\ (r = Rest \/ r.at \in {"upload", "save", "failed", "done"})
  BY <1>1
<1>3. Shaped(r)
  <2>1. Step(j)
    BY DEF Step
  <2>2. job'[j] = r
    BY <1>2 DEF Typed, RosterTypeOK
  <2> QED BY <2>1, <2>2, StepTyped DEF Typed
<1>4. \A y \in Years : Elsewhere(job[j], y) /\ Elsewhere(r, y)
  BY <1>0, <1>2 DEF Elsewhere, Rest
<1> QED
  BY <1>0, <1>2, <1>3, <1>4, OfSame, OthersOrdered

\* What is refused no longer works on the order; a year half written is mixed up.
LEMMA RefuseOrdered ==
    ASSUME Typed, OrdersInv, NEW j \in Jobs, Refuse(j)
    PROVE  OrdersInv'
<1> SUFFICES ASSUME NEW y \in Years, y \notin mixed' PROVE OrderedIn(y)'
  BY DEF OrdersInv
<1>1. Shaped(job[j]) /\ entry' = entry /\ y \notin mixed /\ ~Writing(j, y)
  BY DEF Typed, Refuse, Writing
<1>2. PICK r : Shaped(r) /\ job' = [job EXCEPT ![j] = r] /\ r \in {Rest, [job[j] EXCEPT !.at = "failed"]}
  BY AnswerShaped DEF Refuse
<1>3. r.at \in {"rest", "failed"}
  BY <1>1, <1>2 DEF Rest, Shaped, Job
<1>4. OrderedIn(y) /\ Elsewhere(r, y)
  BY <1>1, <1>3 DEF OrdersInv, Elsewhere
<1> QED
  BY <1>1, <1>2, <1>4, OfSame, OrderedKept

LEMMA StepOrdered ==
    ASSUME Typed, OrdersInv, NEW j \in Jobs, Step(j)
    PROVE  OrdersInv'
  BY ReadLastOrdered, CreateOrdered, CheckOrdered, WriteOrdered, SaveOrdered, DropOrdered,
     RefuseOrdered, QuietOrdered DEF Step

LEMMA OrdersImplied ==
    ASSUME Typed, OrdersInv
    PROVE  OrdersApart
<1> SUFFICES ASSUME NEW e \in Entries, NEW f \in Entries, e # f,
                    entry[e] # None, entry[f] # None, entry[e].year = entry[f].year,
                    entry[e].year \notin mixed,
                    ~\E j \in Jobs : job[j].at = "write" /\ job[j].year = entry[e].year
             PROVE  entry[e].order # entry[f].order
  BY DEF OrdersApart
<1>1. entry[e].year \in Years /\ e \in Of(entry[e].year) /\ f \in Of(entry[e].year)
  BY DEF Typed, RosterTypeOK, Of, Entry
<1> QED
  BY <1>1 DEF OrdersInv, OrderedIn, ApartIn, Writing

-----------------------------------------------------------------------------
(* The list on the page.                                                   *)

LEMMA ListSame ==
    ASSUME entry' = entry, NEW y
    PROVE  List(y)' = List(y)
  BY DEF List, Of, Before

LEMMA AsksFollows ==
    ASSUME Typed, ScreenFollowsServer, NEW j \in Jobs, NEW r, Asks(j, r)
    PROVE  ScreenFollowsServer'
<1>1. job' = [job EXCEPT ![j] = r] /\ entry' = entry /\ misled' = misled /\ job[j] = Rest
  BY DEF Asks, Send
<1>2. job'[j] = r /\ \A k \in Jobs : k # j => job'[k] = job[k]
  BY <1>1 DEF Typed, RosterTypeOK
<1>3. CASE r.mine
  BY <1>2, <1>3 DEF ScreenFollowsServer
<1>4. CASE ~r.mine
  <2>1. UNCHANGED <<screen, fetching>> /\ List(Shown)' = List(Shown)
    BY <1>1, <1>4, ListSame DEF Asks
  <2>2. ~job[j].mine
    BY <1>1 DEF Rest
  <2> QED BY <1>1, <1>2, <2>1, <2>2 DEF ScreenFollowsServer
<1> QED
  BY <1>3, <1>4

\* A handler does not forget whom it works for, until its answer is heard.
LEMMA MineKept ==
    ASSUME Typed, NEW j \in Jobs, Step(j), ~HearDone(j), ~HearFailed(j)
    PROVE  \A k \in Jobs : job[k].mine => job'[k].mine
<1>0. Shaped(job[j])
  BY DEF Typed
<1>1. CASE Answer(j, "failed") \/ Answer(j, "done")
  <2>1. PICK r : job' = [job EXCEPT ![j] = r] /\ (job[j].mine => r.mine)
    BY <1>1, AnswerShaped
  <2> QED BY <2>1 DEF Typed, RosterTypeOK
<1>2. CASE Go(j, "save") \/ Go(j, "write") \/ Go(j, "failed")
  <2>1. PICK at : job' = [job EXCEPT ![j] = [job[j] EXCEPT !.at = at]]
    BY <1>2 DEF Go
  <2>2. [job[j] EXCEPT !.at = at].mine = job[j].mine
    BY <1>0 DEF Shaped, Job
  <2> QED BY <2>1, <2>2 DEF Typed, RosterTypeOK
<1>3. CASE ReadLast(j)
  BY <1>0, <1>3 DEF ReadLast, Typed, RosterTypeOK, Shaped, Job
<1>4. CASE FindEntry(j) /\ ~Answer(j, "failed")
  BY <1>0, <1>4 DEF FindEntry, Typed, RosterTypeOK, Shaped, Job
<1>5. CASE WriteOrder(j) /\ ~Answer(j, "done")
  <2> DEFINE s == [job[j] EXCEPT !.order = @ + 1]
  <2>1. job' = [job EXCEPT ![j] = s]
    BY <1>5 DEF WriteOrder
  <2>2. s.mine = job[j].mine
    BY <1>0 DEF Shaped, Job
  <2> HIDE DEF s
  <2> QED BY <2>1, <2>2 DEF Typed, RosterTypeOK
<1> QED
  BY <1>1, <1>2, <1>3, <1>4, <1>5
     DEF Step, Create, Upload, SaveEntry, DropEntry, CheckReorder, LoseAnswer, FindEntry, WriteOrder,
         Refuse

LEMMA StepFollows ==
    ASSUME Typed, ScreenFollowsServer, NEW j \in Jobs, Step(j)
    PROVE  ScreenFollowsServer'
<1>1. CASE HearDone(j)
  BY <1>1 DEF HearDone, ScreenFollowsServer
<1>2. CASE HearFailed(j)
  BY <1>2 DEF HearFailed, ScreenFollowsServer
<1>3. CASE ~HearDone(j) /\ ~HearFailed(j)
  <2>1. \A k \in Jobs : job[k].mine => job'[k].mine
    BY <1>3, MineKept
  <2>2. CASE Beside(j)
    BY <2>1, <2>2 DEF Beside, ScreenFollowsServer
  <2>3. CASE UNCHANGED <<entry, screen, fetching, misled>>
    BY <2>1, <2>3, ListSame DEF ScreenFollowsServer
  <2>4. Beside(j) \/ UNCHANGED <<entry, screen, fetching, misled>>
    BY <1>3 DEF Step, ReadLast, Create, FindEntry, Upload, SaveEntry, DropEntry, CheckReorder,
                WriteOrder, Refuse, LoseAnswer
  <2> QED BY <2>2, <2>3, <2>4
<1> QED
  BY <1>1, <1>2, <1>3

-----------------------------------------------------------------------------
(* Photos.                                                                 *)

DialogTyped ==
    /\ dialog \in Entries \cup {None} /\ uploading \in Entries \cup {None}
    /\ form \in Photo /\ swapped \in BOOLEAN

\* Whatever carries a photo, carries the right one.
PhotosFit ==
    /\ \A e \in Entries : PhotoOf(e) \in {None, e}
    /\ \A j \in Jobs : job[j].at \in {"find", "upload", "save"} => job[j].photo \in {None, job[j].entry}
    /\ dialog # None => form \in {None, dialog}
    /\ dialog # None => uploading \in {None, dialog}

PhotosInv == swapped \/ PhotosFit

-----------------------------------------------------------------------------
(* The entries as they are at first.                                       *)

\* Each entry comes after those of its year that were added before.
LEMMA InitOrders ==
    ASSUME RosterInit
    PROVE  /\ EntriesTyped
           /\ \A e \in Entries : PhotoOf(e) = None
           /\ \A y : ApartIn(y)
<1>1. PICK place \in [Entries -> Years] :
         entry = [e \in Entries |->
              IF e \notin issued THEN None
              ELSE [year |-> place[e], photo |-> None,
                    order |-> Cardinality({f \in issued : f < e /\ place[f] = place[e]})]]
  BY DEF RosterInit
<1> DEFINE Earlier(e) == {f \in issued : f < e /\ place[f] = place[e]}
<1>2. issued \subseteq Entries /\ IsFiniteSet(issued) /\ issued \subseteq Nat
  <2>1. issued \in SUBSET Entries
    BY DEF RosterInit
  <2> QED BY <2>1, FS_Subset, BoundsAssumption
<1>3. \A e \in Entries : IsFiniteSet(Earlier(e)) /\ Cardinality(Earlier(e)) \in Nat
  BY <1>2, FS_Subset, FS_CardinalityType
<1>4. \A e \in Entries : entry[e] = IF e \notin issued THEN None
         ELSE [year |-> place[e], photo |-> None, order |-> Cardinality(Earlier(e))]
  BY <1>1
<1>5. DOMAIN entry = Entries /\ entry = [e \in Entries |-> entry[e]]
  BY <1>1
<1> DEFINE first(e) == [year |-> place[e], photo |-> None, order |-> Cardinality(Earlier(e))]
<1>6. \A e \in issued : entry[e] = first(e)
  BY <1>2, <1>4
<1>7. \A e \in Entries : e \notin issued => entry[e] = None
  BY <1>4
<1>8. \A e : /\ first(e).year = place[e] /\ first(e).photo = None
              /\ first(e).order = Cardinality(Earlier(e))
  OBVIOUS
<1>9. \A e \in Entries : first(e) \in Entry
  BY <1>3 DEF Entry, Photo
<1> HIDE DEF Earlier, first
<1>10. EntriesTyped
  <2>1. \A e \in Entries : entry[e] \in Entry \cup {None}
    BY <1>6, <1>7, <1>9
  <2> QED BY <1>5, <2>1 DEF EntriesTyped
<1>11. \A e \in Entries : PhotoOf(e) = None
  BY <1>6, <1>7, <1>8 DEF PhotoOf
<1>12. ASSUME NEW e \in issued, NEW f \in issued, e < f, place[e] = place[f]
      PROVE  Cardinality(Earlier(e)) # Cardinality(Earlier(f))
  <2>1. \A g \in issued : g \in Nat
    BY <1>2
  <2>2. Earlier(e) \subseteq Earlier(f) /\ e \in Earlier(f) /\ e \notin Earlier(e)
    BY <1>12, <2>1 DEF Earlier
  <2> QED BY <1>2, <1>3, <2>2, FS_Subset
<1>13. ASSUME NEW y, NEW e \in Of(y), NEW f \in Of(y), e # f
      PROVE  entry[e].order # entry[f].order
  <2>1. e \in issued /\ f \in issued /\ place[e] = y /\ place[f] = y
    BY <1>6, <1>7, <1>8 DEF Of
  <2>2. entry[e].order = Cardinality(Earlier(e)) /\ entry[f].order = Cardinality(Earlier(f))
    BY <1>6, <1>8, <2>1
  <2>3. e < f \/ f < e
    BY <1>2, <1>13, <2>1
  <2> QED BY <1>12, <2>1, <2>2, <2>3
<1> QED
  BY <1>10, <1>11, <1>13 DEF ApartIn

LEMMA InitFits ==
    ASSUME Init
    PROVE  Typed /\ DialogTyped /\ OrdersInv /\ ScreenFollowsServer /\ PhotosInv
<1>1. RosterInit /\ issued \subseteq Entries /\ job = [j \in Jobs |-> Rest]
  BY DEF Init, RosterInit
<1>2. EntriesTyped /\ (\A e \in Entries : PhotoOf(e) = None) /\ \A y : ApartIn(y)
  BY <1>1, InitOrders
<1>3. Typed
  <2>1. List(Shown) \in Seq(Entries)
    BY <1>2, ListTyped
  <2>2. job \in [Jobs -> Job] /\ \A j \in Jobs : Shaped(job[j])
    BY <1>1, RestIsShaped
  <2>3. received = 0 /\ screen = List(Shown) /\ fetching = FALSE /\ misled = FALSE /\ mixed = {}
        /\ issued \subseteq Entries
    BY <1>1 DEF RosterInit
  <2>4. 0 \in 0 .. MaxRequests
    BY BoundsAssumption
  <2> QED BY <1>2, <2>1, <2>2, <2>3, <2>4 DEF Typed, RosterTypeOK, EntriesTyped
<1>4. OrdersInv
  <2>1. \A j \in Jobs : job[j].at = "rest"
    BY <1>1 DEF Rest
  <2>2. \A j \in Jobs, y \in Years : ~Arranging(j, y) /\ ~Writing(j, y)
    BY <2>1 DEF Arranging, Arranges, Writing
  <2> QED BY <1>2, <2>1, <2>2 DEF OrdersInv, OrderedIn
<1>5. ScreenFollowsServer
  BY DEF Init, RosterInit, ScreenFollowsServer
<1>6. DialogTyped /\ PhotosInv
  BY <1>1, <1>2 DEF Init, DialogTyped, PhotosInv, PhotosFit, Photo, Rest
<1> QED
  BY <1>3, <1>4, <1>5, <1>6

-----------------------------------------------------------------------------
(* Every step, with and without the dialog.                                *)

LEMMA FetchKeeps ==
    ASSUME Typed, OrdersInv, FetchList
    PROVE  Typed' /\ OrdersInv' /\ ScreenFollowsServer'
<1>1. UNCHANGED <<entry, issued, job, received, mixed>> /\ screen' = List(Shown) /\ fetching' = FALSE /\ misled' = FALSE
  BY DEF FetchList
<1>2. List(Shown) \in Seq(Entries) /\ List(Shown)' = List(Shown)
  BY <1>1, ListTyped, ListSame DEF Typed, RosterTypeOK, EntriesTyped
<1>3. Typed'
  BY <1>1, <1>2 DEF Typed, RosterTypeOK
<1>4. OrdersInv'
  BY <1>1 DEF OrdersInv, OrderedIn, ApartIn, Arranging, Arranges, Writing, WrittenFits, Of
<1>5. ScreenFollowsServer'
  BY <1>1, <1>2 DEF ScreenFollowsServer
<1> QED
  BY <1>3, <1>4, <1>5

\* The dialog itself: nothing happens to the list.
LEMMA DialogKeeps ==
    ASSUME Typed, OrdersInv, ScreenFollowsServer,
           UNCHANGED <<entry, issued, job, screen, fetching, misled, mixed>>,
           received' \in 0 .. MaxRequests
    PROVE  Typed' /\ OrdersInv' /\ ScreenFollowsServer'
<1>1. Typed'
  BY DEF Typed, RosterTypeOK
<1>2. OrdersInv'
  BY DEF OrdersInv, OrderedIn, ApartIn, Arranging, Arranges, Writing, WrittenFits, Of
<1>3. List(Shown)' = List(Shown)
  BY ListSame
<1>4. ScreenFollowsServer'
  BY <1>3 DEF ScreenFollowsServer
<1> QED
  BY <1>1, <1>2, <1>4

RosterInv == Typed /\ DialogTyped /\ OrdersInv /\ ScreenFollowsServer

LEMMA DialogTypeKept ==
    ASSUME Typed, DialogTyped, [Next]_vars
    PROVE  DialogTyped'
<1>1. CASE UNCHANGED dialogVars
  BY <1>1 DEF dialogVars, DialogTyped
<1>2. CASE \E j \in Jobs : HearSaved(j)
  BY <1>2 DEF HearSaved, DialogTyped
<1>3. CASE \E e \in Entries : OpenDialog(e)
  BY <1>3 DEF OpenDialog, Loaded, PhotoOf, Typed, RosterTypeOK, DialogTyped, Entry, Photo
<1>4. CASE CloseDialog \/ StartUpload \/ Uploaded
  BY <1>4 DEF CloseDialog, StartUpload, Uploaded, DialogTyped, Photo
<1> QED
  BY <1>1, <1>2, <1>3, <1>4 DEF Next, SaveDialog, vars

LEMMA StepKeeps ==
    ASSUME RosterInv, [Next]_vars
    PROVE  RosterInv'
<1> USE DEF RosterInv
<1>1. DialogTyped'
  BY DialogTypeKept
<1>2. ASSUME NEW j \in Jobs, NEW r, Asks(j, r)
      PROVE  Typed' /\ OrdersInv' /\ ScreenFollowsServer'
  BY <1>2, AsksTyped, AsksOrdered, AsksFollows
<1>3. ASSUME NEW j \in Jobs, Step(j)
      PROVE  Typed' /\ OrdersInv' /\ ScreenFollowsServer'
  BY <1>3, StepTyped, StepOrdered, StepFollows
<1>4. ASSUME NEW j \in Jobs, Other(j) \/ HearSaved(j)
      PROVE  Typed' /\ OrdersInv' /\ ScreenFollowsServer'
  BY <1>2, <1>3, <1>4, RequestAsks DEF Other, HearSaved, Step
<1>5. ASSUME NEW j \in Jobs, NEW year \in Years, SaveDialog(j, year)
      PROVE  Typed' /\ OrdersInv' /\ ScreenFollowsServer'
  <2>1. dialog \in Entries /\ form \in Photo /\ AskEdit(j, TRUE, dialog, year, form)
    BY <1>5 DEF SaveDialog, MaySave, DialogTyped
  <2> QED BY <1>2, <2>1, EditAsks
<1>6. CASE FetchList
  BY <1>1, <1>6, FetchKeeps
<1>7. ASSUME NEW e \in Entries, OpenDialog(e)
      PROVE  Typed' /\ OrdersInv' /\ ScreenFollowsServer'
  BY <1>7, DialogKeeps, BoundsAssumption DEF OpenDialog, Typed, RosterTypeOK
<1>8. CASE UNCHANGED rosterVars
  <2>1. received' \in 0 .. MaxRequests
    BY <1>8 DEF rosterVars, Typed, RosterTypeOK
  <2> QED BY <1>1, <1>8, <2>1, DialogKeeps DEF rosterVars
<1> QED
  BY <1>1, <1>4, <1>5, <1>6, <1>7, <1>8
     DEF Next, vars, CloseDialog, StartUpload, Uploaded

LEMMA AskedPhotoFits ==
    ASSUME Typed, DialogTyped, PhotosFit, NEW j \in Jobs, NEW r, Send(j, r),
           r \in Job, r.at = "find" => r.photo \in {None, r.entry},
           r.at \in {"last", "find", "drop", "check"}, UNCHANGED dialogVars
    PROVE  PhotosFit'
<1>1. entry' = entry /\ \A k \in Jobs : k # j => job'[k] = job[k]
  BY DEF Send, Typed, RosterTypeOK
<1>2. job'[j] = r
  BY DEF Send, Typed, RosterTypeOK
<1>3. \A e \in Entries : PhotoOf(e)' = PhotoOf(e)
  BY <1>1 DEF PhotoOf
<1> QED
  BY <1>1, <1>2, <1>3 DEF PhotosFit, dialogVars

\* Of the requests only edits and a member's own form carry a photo: the
\* entry's, the one in the dialog of the entry, or one cropped for it.
LEMMA RequestPhotoFits ==
    ASSUME Typed, DialogTyped, PhotosFit, NEW j \in Jobs,
           Request(j) \/ \E year \in Years : SaveDialog(j, year),
           UNCHANGED dialogVars
    PROVE  PhotosFit'
<1>1. ASSUME NEW mine \in BOOLEAN, NEW e \in Entries, NEW year \in Years, NEW photo \in Photo,
             photo \in {None, e}, AskEdit(j, mine, e, year, photo)
      PROVE  PhotosFit'
  <2> DEFINE r == [Rest EXCEPT !.kind = "edit", !.at = "find", !.mine = mine, !.entry = e,
                               !.year = year, !.photo = photo]
  <2>1. r \in Job /\ r.at = "find" /\ r.photo = photo /\ r.entry = e
    BY RestIsShaped DEF Job, Kinds, Places, Rest, Photo
  <2>2. Send(j, r)
    BY <1>1 DEF AskEdit
  <2> HIDE DEF r
  <2> QED BY <1>1, <2>1, <2>2, AskedPhotoFits
<1>2. ASSUME NEW e \in Entries, NEW photo \in Photo, AskSelf(j, e, photo)
      PROVE  PhotosFit'
  <2> DEFINE r == [Rest EXCEPT !.kind = "self", !.at = "find", !.entry = e, !.photo = photo]
  <2>1. r \in Job /\ r.at = "find" /\ r.photo = photo /\ r.entry = e
    BY RestIsShaped DEF Job, Kinds, Places, Rest, Photo
  <2>2. Send(j, r)
    BY <1>2 DEF AskSelf
  <2>3. photo \in {None, e}
    BY <1>2 DEF AskSelf, SelfPhotos, PhotosFit
  <2> HIDE DEF r
  <2> QED BY <2>1, <2>2, <2>3, AskedPhotoFits
<1>3. ASSUME NEW mine \in BOOLEAN, NEW year \in Years, AskAdd(j, mine, year)
      PROVE  PhotosFit'
  <2> DEFINE r == [Rest EXCEPT !.kind = "add", !.at = "last", !.mine = mine, !.year = year]
  <2>1. r \in Job /\ r.at = "last"
    BY RestIsShaped DEF Job, Kinds, Places, Rest, Photo
  <2>2. Send(j, r)
    BY <1>3 DEF AskAdd
  <2> HIDE DEF r
  <2> QED BY <2>1, <2>2, AskedPhotoFits
<1>4. ASSUME NEW mine \in BOOLEAN, NEW e \in Entries, AskDrop(j, mine, e)
      PROVE  PhotosFit'
  <2> DEFINE r == [Rest EXCEPT !.kind = "drop", !.at = "drop", !.mine = mine, !.entry = e]
  <2>1. r \in Job /\ r.at = "drop"
    BY RestIsShaped DEF Job, Kinds, Places, Rest, Photo
  <2>2. Send(j, r)
    BY <1>4 DEF AskDrop
  <2> HIDE DEF r
  <2> QED BY <2>1, <2>2, AskedPhotoFits
<1>5. ASSUME NEW mine \in BOOLEAN, NEW year \in Years, NEW before \in Seq(Entries), NEW ids \in Seq(Entries),
             Len(ids) > 0,
             Send(j, [Rest EXCEPT !.kind = "reorder", !.at = "check", !.mine = mine,
                                  !.year = year, !.ids = ids, !.before = before])
      PROVE  PhotosFit'
  <2> DEFINE r == [Rest EXCEPT !.kind = "reorder", !.at = "check", !.mine = mine,
                               !.year = year, !.ids = ids, !.before = before]
  <2>1. Fresh(r)
    BY <1>5, ReorderFresh
  <2>2. r.at = "check"
    BY DEF Rest
  <2>3. Send(j, r)
    BY <1>5
  <2> HIDE DEF r
  <2> QED BY <2>1, <2>2, <2>3, AskedPhotoFits DEF Fresh, Shaped
<1>6. Drag(j) => PhotosFit'
  <2>1. screen \in Seq(Entries)
    BY DEF Typed, RosterTypeOK
  <2>2. ASSUME NEW from \in DOMAIN screen, NEW to \in DOMAIN screen,
               Send(j, [Rest EXCEPT !.kind = "reorder", !.at = "check", !.mine = TRUE,
                                    !.year = Shown, !.ids = Moved(screen, from, to), !.before = screen])
        PROVE  PhotosFit'
    BY <1>5, <2>1, <2>2, MovedTyped, ShownAssumption
  <2> QED BY <2>2 DEF Drag
<1>7. ASSUME NEW year \in Years, OthersDrag(j, year) PROVE PhotosFit'
  <2> DEFINE list == List(year)
  <2>1. list \in Seq(Entries)
    BY ListTyped DEF Typed, RosterTypeOK, EntriesTyped
  <2>2. PICK from \in DOMAIN list, to \in DOMAIN list :
            Send(j, [Rest EXCEPT !.kind = "reorder", !.at = "check", !.year = year,
                                 !.ids = Moved(list, from, to)])
    BY <1>7 DEF OthersDrag
  <2> DEFINE r == [Rest EXCEPT !.kind = "reorder", !.at = "check", !.year = year,
                               !.ids = Moved(list, from, to)]
  <2>3. Moved(list, from, to) \in Seq(Entries)
    <3> HIDE DEF list
    <3> QED BY <2>1, <2>2, MovedTyped
  <2> HIDE DEF list
  <2>4. r \in Job /\ r.at = "check"
    BY <2>3, RestIsShaped DEF Job, Kinds, Places, Rest, Photo
  <2> HIDE DEF r
  <2> QED BY <2>2, <2>4, AskedPhotoFits DEF r
<1>8. ASSUME NEW e \in issued, NEW year \in Years, AskEdit(j, FALSE, e, year, PhotoOf(e))
      PROVE  PhotosFit'
  <2>1. e \in Entries /\ PhotoOf(e) \in Photo /\ PhotoOf(e) \in {None, e}
    BY DEF PhotosFit, Typed, RosterTypeOK, Photo
  <2> QED BY <1>1, <1>8, <2>1
<1>9. ASSUME NEW year \in Years, SaveDialog(j, year) PROVE PhotosFit'
  <2>1. dialog \in Entries /\ form \in Photo /\ form \in {None, dialog}
    BY <1>9 DEF SaveDialog, MaySave, DialogTyped, PhotosFit, Photo
  <2> QED BY <1>1, <1>9, <2>1 DEF SaveDialog
<1> QED
  BY <1>2, <1>3, <1>4, <1>6, <1>7, <1>8, <1>9 DEF Request

\* A step of a handler hands on the photo it has, or none.
LEMMA StepPhotoFits ==
    ASSUME Typed, PhotosFit, NEW j \in Jobs, Step(j), UNCHANGED <<form, uploading>>,
           dialog' \in {dialog, None}
    PROVE  PhotosFit'
<1>0. Shaped(job[j]) /\ EntriesTyped
  BY DEF Typed, RosterTypeOK, EntriesTyped
<1>1. \A k \in Jobs : job'[k].at \in {"find", "upload", "save"} => job'[k].photo \in {None, job'[k].entry}
  <2>1. ASSUME NEW r, job' = [job EXCEPT ![j] = r],
               r.at \in {"find", "upload", "save"} => r.photo \in {None, r.entry}
        PROVE  \A k \in Jobs : job'[k].at \in {"find", "upload", "save"}
                                 => job'[k].photo \in {None, job'[k].entry}
    <3>1. job'[j] = r /\ \A k \in Jobs : k # j => job'[k] = job[k]
      BY <2>1 DEF Typed, RosterTypeOK
    <3> QED BY <2>1, <3>1 DEF PhotosFit
  <2>2. CASE Answer(j, "failed") \/ Answer(j, "done")
    <3>1. PICK r : job' = [job EXCEPT ![j] = r]
                   /\ r \in {Rest, [job[j] EXCEPT !.at = "failed"], [job[j] EXCEPT !.at = "done"]}
      BY <2>2, AnswerShaped
    <3>2. /\ [job[j] EXCEPT !.at = "failed"].at = "failed" /\ [job[j] EXCEPT !.at = "done"].at = "done"
          /\ Rest.at = "rest"
      BY <1>0 DEF Shaped, Job, Rest
    <3> QED BY <2>1, <3>1, <3>2
  <2>3. CASE Go(j, "write") \/ Go(j, "failed")
    <3>1. PICK at \in {"write", "failed"} : job' = [job EXCEPT ![j] = [job[j] EXCEPT !.at = at]]
      BY <2>3 DEF Go
    <3>2. [job[j] EXCEPT !.at = at].at = at
      BY <1>0 DEF Shaped, Job
    <3> QED BY <2>1, <3>1, <3>2
  <2>4. CASE Go(j, "save") /\ job[j].at = "upload"
    <3> DEFINE r == [job[j] EXCEPT !.at = "save"]
    <3>1. job' = [job EXCEPT ![j] = r]
      BY <2>4 DEF Go
    <3>2. r.photo = job[j].photo /\ r.entry = job[j].entry
      BY <1>0 DEF Shaped, Job
    <3> HIDE DEF r
    <3> QED BY <2>1, <2>4, <3>1, <3>2 DEF PhotosFit
  <2>5. CASE job' = [job EXCEPT ![j] = Rest]
    <3>1. Rest.at = "rest"
      BY DEF Rest
    <3> QED BY <2>1, <2>5, <3>1
  <2>6. CASE ReadLast(j)
    <3> DEFINE r == [job[j] EXCEPT !.order = NextOrder(job[j].year), !.at = "create"]
    <3>1. job' = [job EXCEPT ![j] = r]
      BY <2>6 DEF ReadLast
    <3>2. r.at = "create"
      BY <1>0 DEF Shaped, Job
    <3> HIDE DEF r
    <3> QED BY <2>1, <3>1, <3>2
  <2>7. CASE FindEntry(j) /\ ~Answer(j, "failed")
    <3> DEFINE r == [job[j] EXCEPT !.copy = entry[job[j].entry],
                                   !.at = IF job[j].kind = "self" THEN "upload" ELSE "save"]
    <3>1. job' = [job EXCEPT ![j] = r]
      BY <2>7 DEF FindEntry
    <3>2. r.photo = job[j].photo /\ r.entry = job[j].entry
      BY <1>0 DEF Shaped, Job
    <3> HIDE DEF r
    <3> QED BY <2>1, <2>7, <3>1, <3>2 DEF PhotosFit, FindEntry
  <2>8. CASE WriteOrder(j) /\ ~Answer(j, "done")
    <3> DEFINE r == [job[j] EXCEPT !.order = @ + 1]
    <3>1. job' = [job EXCEPT ![j] = r]
      BY <2>8 DEF WriteOrder
    <3>2. r.at = "write"
      BY <1>0, <2>8 DEF Shaped, Job, WriteOrder
    <3> HIDE DEF r
    <3> QED BY <2>1, <3>1, <3>2
  <2> QED
    BY <2>2, <2>3, <2>4, <2>5, <2>6, <2>7, <2>8
       DEF Step, Create, Upload, SaveEntry, DropEntry, CheckReorder, LoseAnswer, FindEntry, WriteOrder,
           Refuse, HearDone, HearFailed
<1>2. \A e \in Entries : PhotoOf(e)' \in {None, e}
  <2>1. CASE entry' = entry
    BY <2>1 DEF PhotosFit, PhotoOf
  <2>2. CASE Create(j)
    <3> DEFINE new == [year |-> job[j].year, order |-> job[j].order, photo |-> None]
    <3>1. PICK f : entry' = [entry EXCEPT ![f] = new]
      BY <2>2 DEF Create
    <3>2. new.photo = None
      OBVIOUS
    <3> HIDE DEF new
    <3> QED BY <1>0, <3>1, <3>2 DEF PhotosFit, PhotoOf, EntriesTyped
  <2>3. CASE SaveEntry(j)
    <3> DEFINE e == job[j].entry
    <3>1. entry' = [entry EXCEPT ![e] = Saved(j)] /\ job[j].at = "save" /\ e \in Entries
      BY <1>0, <2>3 DEF SaveEntry, Shaped
    <3>2. job[j].photo \in {None, e}
      BY <3>1 DEF PhotosFit
    <3>3. Saved(j) # None => Saved(j).photo \in {None, e}
      <4>1. CASE entry[e] = None
        BY <4>1 DEF Saved
      <4>2. CASE entry[e] # None
        <5>1. entry[e] \in Entry /\ entry[e].photo \in {None, e}
          BY <1>0, <3>1, <4>2 DEF EntriesTyped, PhotosFit, PhotoOf
        <5>2. Saved(j).photo \in {job[j].photo, entry[e].photo}
          BY <4>2, <5>1 DEF Saved, Entry
        <5> QED BY <3>2, <5>1, <5>2
      <4> QED BY <4>1, <4>2
    <3> HIDE DEF e
    <3> QED BY <1>0, <3>1, <3>3 DEF PhotosFit, PhotoOf, EntriesTyped
  <2>4. CASE DropEntry(j)
    BY <1>0, <2>4 DEF DropEntry, PhotosFit, PhotoOf, EntriesTyped
  <2>5. CASE WriteOrder(j)
    <3>1. \A f \in Entries : entry[f] # None => entry[f] \in Entry
      BY <1>0 DEF EntriesTyped
    <3>2. CASE entry' = entry
      BY <2>1, <3>2
    <3>3. CASE \E f \in Entries : entry[f] # None /\ entry' = [entry EXCEPT ![f].order = job[j].order]
      <4>1. PICK f \in Entries : entry[f] # None /\ entry' = [entry EXCEPT ![f] = [entry[f] EXCEPT !.order = job[j].order]]
        BY <3>3
      <4>2. [entry[f] EXCEPT !.order = job[j].order].photo = entry[f].photo
        BY <3>1, <4>1 DEF Entry
      <4> QED BY <1>0, <4>1, <4>2 DEF PhotosFit, PhotoOf, EntriesTyped
    <3> QED BY <2>5, <3>2, <3>3 DEF WriteOrder, Of
  <2> QED
    BY <2>1, <2>2, <2>3, <2>4, <2>5
       DEF Step, ReadLast, FindEntry, Upload, CheckReorder, Refuse, LoseAnswer, HearDone, HearFailed
<1> QED
  BY <1>1, <1>2 DEF PhotosFit

LEMMA PhotosKept ==
    ASSUME Typed, DialogTyped, PhotosInv, [Next]_vars
    PROVE  PhotosInv'
<1>0. DialogTyped'
  BY DialogTypeKept
<1>1. CASE swapped'
  BY <1>1 DEF PhotosInv
<1>2. CASE swapped /\ ~swapped'
  BY <1>2 DEF Next, vars, dialogVars, HearSaved, SaveDialog, OpenDialog, CloseDialog, StartUpload, Uploaded
<1>3. CASE ~swapped /\ ~swapped'
  <2>0. PhotosFit
    BY <1>3 DEF PhotosInv
  <2>1. ASSUME UNCHANGED <<entry, job, dialogVars>> PROVE PhotosFit'
    BY <2>0, <2>1 DEF PhotosFit, PhotoOf, dialogVars
  <2>2. ASSUME NEW j \in Jobs, Other(j), UNCHANGED dialogVars PROVE PhotosFit'
    BY <2>0, <2>2, RequestPhotoFits, StepPhotoFits DEF Other, Step, dialogVars
  <2>3. ASSUME NEW j \in Jobs, HearSaved(j) PROVE PhotosFit'
    BY <2>0, <2>3, StepPhotoFits DEF HearSaved, Step
  <2>4. ASSUME NEW j \in Jobs, NEW year \in Years, SaveDialog(j, year) PROVE PhotosFit'
    BY <2>0, <2>4, RequestPhotoFits DEF SaveDialog
  <2>5. ASSUME NEW e \in Entries, OpenDialog(e) PROVE PhotosFit'
    <3>1. entry' = entry /\ job' = job /\ uploading' = uploading /\ dialog' = e /\ form' \in {None, PhotoOf(e)}
      BY <2>5 DEF OpenDialog, Loaded
    <3>2. uploading \in {None, e}
      BY <1>3, <2>5 DEF OpenDialog
    <3>3. \A f \in Entries : PhotoOf(f)' = PhotoOf(f)
      BY <3>1 DEF PhotoOf
    <3> QED BY <2>0, <3>1, <3>2, <3>3 DEF PhotosFit
  <2>6. CASE CloseDialog \/ StartUpload \/ Uploaded
    <3>1. entry' = entry /\ job' = job
      BY <2>6 DEF CloseDialog, StartUpload, Uploaded, rosterVars
    <3>2. \A f \in Entries : PhotoOf(f)' = PhotoOf(f)
      BY <3>1 DEF PhotoOf
    <3> QED BY <2>0, <2>6, <3>1, <3>2 DEF PhotosInv, PhotosFit, CloseDialog, StartUpload, Uploaded
  <2>7. CASE FetchList /\ UNCHANGED dialogVars
    BY <2>1, <2>7 DEF FetchList, PhotosInv
  <2>8. CASE UNCHANGED vars
    BY <2>1, <2>8 DEF vars, rosterVars, PhotosInv
  <2> QED
    BY <2>2, <2>3, <2>4, <2>5, <2>6, <2>7, <2>8 DEF Next, PhotosInv
<1> QED
  BY <1>0, <1>1, <1>2, <1>3 DEF DialogTyped

-----------------------------------------------------------------------------

THEOREM Invariants == Spec => [](RosterInv /\ PhotosInv)
<1>1. Init => RosterInv /\ PhotosInv
  BY InitFits DEF RosterInv
<1>2. RosterInv /\ PhotosInv /\ [Next]_vars => RosterInv' /\ PhotosInv'
  BY StepKeeps, PhotosKept DEF RosterInv
<1> QED
  BY <1>1, <1>2, PTL DEF Spec

\* All values stay in their sets, the sequence on the page and those on their
\* way to the server among them (ExecomEntriesManager.jsx, teamController.js).
THEOREM TypeCorrect == Spec => []TypeOK
<1>1. RosterInv => TypeOK
  BY DEF RosterInv, Typed, DialogTyped, TypeOK
<1> QED
  BY <1>1, Invariants, PTL

\* Two entries of a year have the same order only in between the writes of a
\* reorder, or after the overlaps that OrdersApart names (teamController.js:343, 655-670).
THEOREM OrdersStayApart == Spec => []OrdersApart
<1>1. RosterInv => OrdersApart
  BY OrdersImplied DEF RosterInv
<1> QED
  BY <1>1, Invariants, PTL

\* The page shows the order on record once all was heard and fetched
\* (ExecomEntriesManager.jsx:205-242).
THEOREM PageFollows == Spec => []ScreenFollowsServer
<1>1. RosterInv => ScreenFollowsServer
  BY DEF RosterInv
<1> QED
  BY <1>1, Invariants, PTL

\* No entry gets the photo of another, except by a dialog opened in the middle
\* of an upload (ExecomEntriesManager.jsx:418-419).
THEOREM PhotosAreTheirOwn == Spec => []PhotosOfTheirOwn
<1>1. PhotosInv => PhotosOfTheirOwn
  BY DEF PhotosInv, PhotosFit, PhotosOfTheirOwn
<1> QED
  BY <1>1, Invariants, PTL

\* What was removed stays removed, whoever edits or reorders it later
\* (teamController.js:441, 663-670, 827).
THEOREM RemovedStay == Spec => RemovedStayRemoved
<1>1. ASSUME Typed, NEW j \in Jobs, Step(j), NEW e \in issued, entry[e] = None
      PROVE  entry'[e] = None
  <2>0. EntriesTyped /\ e \in Entries /\ Shaped(job[j])
    BY <1>1 DEF Typed, RosterTypeOK, EntriesTyped
  <2>1. CASE entry' = entry
    BY <1>1, <2>1
  <2>2. CASE Create(j)
    <3>1. PICK f : f \notin issued
                   /\ \E new : entry' = [entry EXCEPT ![f] = new]
      BY <1>1, <2>2, NewEntry DEF Create
    <3> QED BY <1>1, <2>0, <3>1 DEF EntriesTyped
  <2>3. CASE SaveEntry(j)
    BY <1>1, <2>0, <2>3 DEF SaveEntry, Saved, EntriesTyped
  <2>4. CASE DropEntry(j)
    BY <1>1, <2>0, <2>4 DEF DropEntry, EntriesTyped
  <2>5. CASE WriteOrder(j)
    BY <1>1, <2>0, <2>5 DEF WriteOrder, Of, EntriesTyped
  <2> QED
    BY <1>1, <2>1, <2>2, <2>3, <2>4, <2>5
       DEF Step, ReadLast, FindEntry, Upload, CheckReorder, Refuse, LoseAnswer, HearDone, HearFailed
<1>2. ASSUME RosterInv, [Next]_vars
      PROVE  [\A e \in issued : entry[e] = None => entry'[e] = None]_rosterVars
  <2>1. CASE entry' = entry
    BY <2>1
  <2>2. ASSUME NEW j \in Jobs, Request(j) PROVE entry' = entry
    BY <1>2, <2>2, RequestAsks DEF Asks, Send, RosterInv
  <2>3. ASSUME NEW j \in Jobs, NEW year \in Years, SaveDialog(j, year) PROVE entry' = entry
    BY <2>3 DEF SaveDialog, AskEdit, Send
  <2>4. ASSUME NEW j \in Jobs, Other(j) \/ HearSaved(j)
        PROVE  \A e \in issued : entry[e] = None => entry'[e] = None
    BY <1>1, <1>2, <2>1, <2>2, <2>4 DEF Other, HearSaved, Step, RosterInv
  <2> QED
    BY <1>2, <2>1, <2>3, <2>4
       DEF Next, vars, rosterVars, FetchList, OpenDialog, CloseDialog, StartUpload, Uploaded
<1> QED
  BY <1>2, Invariants, PTL DEF Spec, RemovedStayRemoved

-----------------------------------------------------------------------------
(* The makerspace: types.                                                  *)

\* Which kinds of request reach which step; one at rest has no member.
ScanShaped(r) ==
    /\ r \in Handler
    /\ r.at = "rest" => r = Idle
    /\ r.at # "rest" => r.id \in Ids
    /\ r.at = "banned" => r.kind # "checkout"
    /\ r.at \in {"user", "status", "log", "write"} => r.kind # "ban"
    /\ r.at = "cooldown" => r.kind \in Scans
    /\ r.at \in {"store", "force"} => r.kind = "ban"

SpaceTyped == SpaceTypeOK /\ \A j \in Handlers : ScanShaped(handler[j])

LEMMA NoScanIsShaped == ScanShaped(Idle)
  BY DEF ScanShaped, Idle, Handler, Steps, Requests

LEMMA OneScanMoves ==
    ASSUME SpaceTyped, NEW j \in Handlers, NEW r, ScanShaped(r), handler' = [handler EXCEPT ![j] = r]
    PROVE  handler' \in [Handlers -> Handler] /\ \A k \in Handlers : ScanShaped(handler'[k])
  BY DEF SpaceTyped, SpaceTypeOK, ScanShaped

\* A request that is let through or refused.
LEMMA DecideTyped ==
    ASSUME SpaceTyped, NEW j \in Handlers, NEW ok, NEW to, Decide(j, ok, to),
           ScanShaped([handler[j] EXCEPT !.at = to])
    PROVE  SpaceTyped'
<1>1. \/ handler' = [handler EXCEPT ![j] = [handler[j] EXCEPT !.at = to]]
      \/ handler' = [handler EXCEPT ![j] = Idle]
  BY DEF Decide, Move, Finish, SpaceTyped, SpaceTypeOK
<1>2. handler' \in [Handlers -> Handler] /\ \A k \in Handlers : ScanShaped(handler'[k])
  BY <1>1, NoScanIsShaped, OneScanMoves
<1> QED
  BY <1>2 DEF Decide, data, SpaceTyped, SpaceTypeOK

LEMMA ArriveTyped ==
    ASSUME SpaceTyped, NEW j \in Handlers, NEW kind \in Requests, NEW i \in Ids, Arrive(j, kind, i)
    PROVE  SpaceTyped'
<1> DEFINE r == [at |-> FirstStep(kind), kind |-> kind, id |-> i]
<1>1. ScanShaped(r)
  BY DEF ScanShaped, Handler, Steps, Requests, FirstStep
<1>2. handler' = [handler EXCEPT ![j] = r]
  BY DEF Arrive
<1>3. handler' \in [Handlers -> Handler] /\ \A k \in Handlers : ScanShaped(handler'[k])
  <2> HIDE DEF r
  <2> QED BY <1>1, <1>2, OneScanMoves
<1>4. arrived' \in 0 .. MaxArrivals
  BY ArrivalsAssumption DEF Arrive, SpaceTyped, SpaceTypeOK
<1> QED
  BY <1>3, <1>4 DEF Arrive, data, SpaceTyped, SpaceTypeOK

LEMMA ReadTyped ==
    ASSUME SpaceTyped, NEW j \in Handlers,
           \/ ScanBanned(j) \/ FindUser(j) \/ ReadStatus(j) \/ CheckCooldown(j) \/ FindBan(j)
    PROVE  SpaceTyped'
<1>1. handler[j] \in Handler /\ ScanShaped(handler[j])
  BY DEF SpaceTyped, SpaceTypeOK
<1>2. CASE ScanBanned(j)
  <2>1. ScanShaped([handler[j] EXCEPT !.at = "user"])
    BY <1>1, <1>2 DEF ScanBanned, ScanShaped, Handler, Steps, Kind, Scans
  <2> QED
    BY <1>2, <2>1, DecideTyped DEF ScanBanned
<1>3. CASE FindUser(j)
  <2>1. ScanShaped([handler[j] EXCEPT !.at = "status"])
    BY <1>1, <1>3 DEF FindUser, ScanShaped, Handler, Steps
  <2> QED
    BY <1>3, <2>1, DecideTyped DEF FindUser
<1>4. CASE ReadStatus(j)
  <2>1. ScanShaped([handler[j] EXCEPT !.at = IF Kind(j) \in Scans THEN "cooldown" ELSE "log"])
    BY <1>1, <1>4 DEF ReadStatus, ScanShaped, Handler, Steps, Kind, Scans
  <2> QED
    BY <1>4, <2>1, DecideTyped DEF ReadStatus
<1>5. CASE CheckCooldown(j)
  <2>1. ScanShaped([handler[j] EXCEPT !.at = "log"])
    BY <1>1, <1>5 DEF CheckCooldown, ScanShaped, Handler, Steps, Scans
  <2> QED
    BY <1>5, <2>1, DecideTyped DEF CheckCooldown
<1>6. CASE FindBan(j)
  <2>1. ScanShaped([handler[j] EXCEPT !.at = "store"])
    BY <1>1, <1>6 DEF FindBan, ScanShaped, Handler, Steps, Kind
  <2> QED
    BY <1>6, <2>1, DecideTyped DEF FindBan
<1> QED
  BY <1>2, <1>3, <1>4, <1>5, <1>6

LEMMA WriteTyped ==
    ASSUME SpaceTyped, NEW j \in Handlers,
           WriteLog(j) \/ WriteStatus(j) \/ StoreBan(j) \/ ForceOut(j)
    PROVE  SpaceTyped'
<1>1. handler[j] \in Handler /\ ScanShaped(handler[j])
  BY DEF SpaceTyped, SpaceTypeOK
<1>2. Id(j) \in Ids /\ Direction(Kind(j)) \in {"IN", "OUT"}
  BY <1>1 DEF WriteLog, WriteStatus, StoreBan, ForceOut, ScanShaped, Id, Direction
<1>3. CASE WriteLog(j)
  <2>1. ScanShaped([handler[j] EXCEPT !.at = "write"])
    BY <1>1, <1>3 DEF WriteLog, ScanShaped, Handler, Steps
  <2>2. handler' \in [Handlers -> Handler] /\ \A k \in Handlers : ScanShaped(handler'[k])
    BY <1>3, <2>1, OneScanMoves DEF WriteLog, Move
  <2>3. Append(trail[Id(j)], Direction(Kind(j))) \in Seq(Events)
    BY <1>2 DEF SpaceTyped, SpaceTypeOK, Events
  <2>4. trail' \in [Ids -> Seq(Events)]
    BY <1>3, <2>3 DEF WriteLog, SpaceTyped, SpaceTypeOK
  <2> QED
    BY <1>2, <1>3, <2>2, <2>4 DEF WriteLog, SpaceTyped, SpaceTypeOK
<1>4. CASE WriteStatus(j)
  <2>1. handler' \in [Handlers -> Handler] /\ \A k \in Handlers : ScanShaped(handler'[k])
    BY <1>4, NoScanIsShaped, OneScanMoves DEF WriteStatus, Finish
  <2> QED
    BY <1>2, <1>4, <2>1 DEF WriteStatus, SpaceTyped, SpaceTypeOK
<1>5. CASE StoreBan(j)
  <2>1. ScanShaped([handler[j] EXCEPT !.at = "force"])
    BY <1>1, <1>5 DEF StoreBan, ScanShaped, Handler, Steps
  <2>2. handler' \in [Handlers -> Handler] /\ \A k \in Handlers : ScanShaped(handler'[k])
    BY <1>5, <2>1, OneScanMoves DEF StoreBan, Move
  <2> QED
    BY <1>2, <1>5, <2>2 DEF StoreBan, UnderWay, SpaceTyped, SpaceTypeOK
<1>6. CASE ForceOut(j)
  <2>1. handler' \in [Handlers -> Handler] /\ \A k \in Handlers : ScanShaped(handler'[k])
    BY <1>6, NoScanIsShaped, OneScanMoves DEF ForceOut, Finish
  <2>2. Append(trail[Id(j)], "forced") \in Seq(Events)
    BY <1>2 DEF SpaceTyped, SpaceTypeOK, Events
  <2>3. trail' \in [Ids -> Seq(Events)]
    BY <1>6, <2>2 DEF ForceOut, SpaceTyped, SpaceTypeOK
  <2> QED
    BY <1>2, <1>6, <2>1, <2>3 DEF ForceOut, SpaceTyped, SpaceTypeOK
<1> QED
  BY <1>3, <1>4, <1>5, <1>6

LEMMA DownTyped ==
    ASSUME SpaceTyped, Down, UNCHANGED <<data, arrived, late, rushed>>, crashes' \in 0 .. MaxCrashes
    PROVE  SpaceTyped'
  BY NoScanIsShaped DEF Down, data, SpaceTyped, SpaceTypeOK, ScanShaped

LEMMA SpaceTypedInductive ==
    SpaceTyped /\ [SpaceNext]_presence => SpaceTyped'
<1> SUFFICES ASSUME SpaceTyped, [SpaceNext]_presence PROVE SpaceTyped'
  OBVIOUS
<1>1. ASSUME NEW j \in Handlers, HandlerStep(j) PROVE SpaceTyped'
  BY <1>1, ReadTyped, WriteTyped, DownTyped DEF HandlerStep, StoreBanTwice, SpaceTyped, SpaceTypeOK
<1>2. CASE Unban
  BY <1>2 DEF Unban, SpaceTyped, SpaceTypeOK
<1>3. CASE AccountChanges
  BY <1>3 DEF AccountChanges, SpaceTyped, SpaceTypeOK
<1>4. CASE CooldownEnds
  BY <1>4 DEF CooldownEnds, SpaceTyped, SpaceTypeOK
<1>5. CASE Crash
  <2>1. crashes' \in 0 .. MaxCrashes
    BY <1>5, ArrivalsAssumption DEF Crash, SpaceTyped, SpaceTypeOK
  <2> QED
    BY <1>5, <2>1, DownTyped DEF Crash
<1>6. CASE Restart
  BY <1>6 DEF Restart, data, SpaceTyped, SpaceTypeOK
<1>7. CASE UNCHANGED presence
  BY <1>7 DEF presence, data, SpaceTyped, SpaceTypeOK
<1> QED
  BY <1>1, <1>2, <1>3, <1>4, <1>5, <1>6, <1>7, ArriveTyped DEF SpaceNext

LEMMA SpaceTypedInitially ==
    SpaceInit => SpaceTyped
  BY NoScanIsShaped, ArrivalsAssumption DEF SpaceInit, SpaceTyped, SpaceTypeOK, ScanShaped

LEMMA SpaceAlways ==
    SpaceSpec => []SpaceTyped
<1>1. SpaceInit => SpaceTyped
  BY SpaceTypedInitially
<1>2. SpaceTyped /\ [SpaceNext]_presence => SpaceTyped'
  BY SpaceTypedInductive
<1> QED
  BY <1>1, <1>2, PTL DEF SpaceSpec

\* Every variable keeps its type, whatever requests overlap, fail or crash.
THEOREM SpaceTypeCorrect ==
    SpaceSpec => []SpaceTypeOK
<1>1. SpaceTyped => SpaceTypeOK
  BY DEF SpaceTyped
<1> QED
  BY <1>1, SpaceAlways, PTL

-----------------------------------------------------------------------------
(* The makerspace: the ban list.                                           *)

LEMMA DecideKeepsLate ==
    ASSUME SpaceTyped, OnlyLateScansEnterBanned, NEW j \in Handlers, NEW ok, NEW to,
           Decide(j, ok, to), ok /\ handler[j].at = "banned" => Admitted(Kind(j), Id(j)),
           handler[j].at # "rest"
    PROVE  OnlyLateScansEnterBanned'
<1>1. CASE ok
  BY <1>1 DEF Decide, Move, Admitted, OnlyLateScansEnterBanned, Kind, Id, data,
              SpaceTyped, SpaceTypeOK, Handler
<1>2. CASE ~ok
  BY <1>2 DEF Decide, Finish, Idle, OnlyLateScansEnterBanned, Kind, Id, data,
              SpaceTyped, SpaceTypeOK, Handler
<1> QED
  BY <1>1, <1>2

LEMMA LateInductive ==
    SpaceTyped /\ OnlyLateScansEnterBanned /\ [SpaceNext]_presence => OnlyLateScansEnterBanned'
<1> SUFFICES ASSUME SpaceTyped, OnlyLateScansEnterBanned, [SpaceNext]_presence
             PROVE  OnlyLateScansEnterBanned'
  OBVIOUS
<1>1. ASSUME NEW j \in Handlers, NEW kind \in Requests, NEW i \in Ids, Arrive(j, kind, i)
      PROVE  OnlyLateScansEnterBanned'
  BY <1>1 DEF Arrive, FirstStep, data, OnlyLateScansEnterBanned, Kind, Id, SpaceTyped, SpaceTypeOK
<1>2. ASSUME NEW j \in Handlers, HandlerStep(j) PROVE OnlyLateScansEnterBanned'
  <2>1. CASE ScanBanned(j)
    BY <2>1, DecideKeepsLate DEF ScanBanned
  <2>2. CASE FindUser(j) \/ ReadStatus(j) \/ CheckCooldown(j)
    BY <2>2, DecideKeepsLate DEF FindUser, ReadStatus, CheckCooldown
  <2>3. CASE FindBan(j)
    BY <2>3, DecideKeepsLate DEF FindBan, Admitted
  <2>4. CASE WriteLog(j)
    BY <2>4 DEF WriteLog, Move, OnlyLateScansEnterBanned, Kind, Id, SpaceTyped, SpaceTypeOK, Handler
  <2>5. CASE WriteStatus(j) \/ ForceOut(j)
    <3>1. handler' = [handler EXCEPT ![j] = Idle] /\ banned' = banned /\ late' = late
      BY <2>5 DEF WriteStatus, ForceOut, Finish
    <3> QED
      BY <3>1 DEF Idle, OnlyLateScansEnterBanned, Kind, Id, SpaceTyped, SpaceTypeOK
  <2>6. CASE StoreBan(j)
    <3> SUFFICES ASSUME NEW k \in Handlers, Kind(k)' = "IN", handler'[k].at \notin {"rest", "banned"},
                        Id(k)' \in banned'
                 PROVE  k \in late'
      BY DEF OnlyLateScansEnterBanned
    <3>1. handler'[k].kind = handler[k].kind /\ handler'[k].id = handler[k].id
      BY <2>6 DEF StoreBan, Move, SpaceTyped, SpaceTypeOK, Handler
    <3>2. k # j
      BY <2>6, <3>1 DEF StoreBan, Kind, SpaceTyped, ScanShaped
    <3>3. handler'[k] = handler[k]
      BY <2>6, <3>2 DEF StoreBan, Move, SpaceTyped, SpaceTypeOK
    <3> QED
      BY <2>6, <3>3 DEF StoreBan, UnderWay, OnlyLateScansEnterBanned, Kind, Id
  <2>7. CASE StoreBanTwice(j)
    BY <2>7 DEF StoreBanTwice, Down, Idle, OnlyLateScansEnterBanned
  <2> QED
    BY <1>2, <2>1, <2>2, <2>3, <2>4, <2>5, <2>6, <2>7 DEF HandlerStep
<1>3. CASE Unban
  BY <1>3 DEF Unban, OnlyLateScansEnterBanned, Kind, Id
<1>4. CASE AccountChanges \/ CooldownEnds \/ Restart \/ UNCHANGED presence
  BY <1>4 DEF AccountChanges, CooldownEnds, Restart, presence, data,
              OnlyLateScansEnterBanned, Kind, Id
<1>5. CASE Crash
  BY <1>5 DEF Crash, Down, Idle, OnlyLateScansEnterBanned
<1> QED
  BY <1>1, <1>2, <1>3, <1>4, <1>5 DEF SpaceNext

\* Whatever overlaps or crashes, a handler gets past the ban list only if it was
\* past it before the ban was stored (the isBanned check of POST /checkin).
THEOREM LateScansOnly ==
    SpaceSpec => []OnlyLateScansEnterBanned
<1>1. SpaceInit => OnlyLateScansEnterBanned
  BY DEF SpaceInit, OnlyLateScansEnterBanned
<1> QED
  BY <1>1, SpaceAlways, LateInductive, PTL DEF SpaceSpec

-----------------------------------------------------------------------------
(* The makerspace: members whose requests do not overlap.  Fits relates    *)
(* what is stored of a member, their status s and trail t, and whether     *)
(* they are banned and hot, to the request r about them.                   *)

Fits(s, t, ban, young, r) ==
    /\ Alternates(t)
    /\ r.at # "write" => (s = "IN" <=> Inside(t))
    /\ r.at = "write" => t # <<>> /\ t[Len(t)] = Direction(r.kind)
    /\ r.at \in {"cooldown", "log"} => IF r.kind = "IN" THEN s # "IN" ELSE s = "IN"
    /\ r.at = "log" /\ r.kind \in Scans => ~young
    /\ r.kind = "IN" /\ r.at \notin {"rest", "banned"} => ~ban
    /\ ban /\ r.at # "force" => s # "IN"

Single ==
    \A j, k \in Handlers : j # k /\ Id(j) = Id(k) /\ Id(j) \in Ids => Id(j) \in disturbed

CalmInv ==
    /\ Single
    /\ \A i \in Calm :
          /\ i \notin rushed
          /\ Settled(i) => Fits(status[i], trail[i], i \in banned, i \in hot, Idle)
          /\ \A j \in Handlers :
                Id(j) = i => Fits(status[i], trail[i], i \in banned, i \in hot, handler[j])

LEMMA AppendAlternates ==
    ASSUME NEW t \in Seq(Events), NEW e \in Events, Alternates(t), e = "IN" <=> ~Inside(t)
    PROVE  Alternates(Append(t, e)) /\ (Inside(Append(t, e)) <=> e = "IN")
  BY DEF Alternates, Inside

\* A step of one request, about whose member it may change anything.
LEMMA OneMember ==
    ASSUME SpaceTyped, CalmInv, NEW j \in Handlers, Id(j) \in Ids, NEW r,
           handler' = [handler EXCEPT ![j] = r], r = Idle \/ r.id = Id(j),
           disturbed' = disturbed,
           \A i \in Ids \ {Id(j)} :
               /\ status'[i] = status[i] /\ trail'[i] = trail[i]
               /\ i \in banned' <=> i \in banned
               /\ i \in hot' <=> i \in hot
               /\ i \in rushed' <=> i \in rushed,
           Id(j) \in Calm =>
               /\ Id(j) \notin rushed'
               /\ Fits(status'[Id(j)], trail'[Id(j)], Id(j) \in banned', Id(j) \in hot', r)
    PROVE  CalmInv'
<1>1. handler'[j] = r /\ \A k \in Handlers \ {j} : handler'[k] = handler[k]
  BY DEF SpaceTyped, SpaceTypeOK
<1>2. Idle.id \notin Ids
  BY UnsetAssumption DEF Idle
<1>3. Single'
  BY <1>1, <1>2 DEF CalmInv, Single, Id
<1>4. ASSUME NEW i \in Calm'
      PROVE  /\ i \notin rushed'
             /\ Settled(i)' => Fits(status'[i], trail'[i], i \in banned', i \in hot', Idle)
             /\ \A k \in Handlers :
                   Id(k)' = i => Fits(status'[i], trail'[i], i \in banned', i \in hot', handler'[k])
  <2>1. i \in Calm
    BY DEF Calm
  <2>2. CASE i = Id(j)
    <3>1. \A k \in Handlers \ {j} : handler'[k].id # i
      BY <1>1, <2>1, <2>2 DEF CalmInv, Single, Calm, Id
    <3>2. Settled(i)' => r = Idle
      BY <1>1, <2>2 DEF Settled, Id
    <3> QED
      BY <1>1, <2>1, <2>2, <3>1, <3>2 DEF Id
  <2>3. CASE i # Id(j)
    <3>1. Settled(i)' => Settled(i)
      BY <1>1, <2>3 DEF Settled, Id
    <3>2. i \in Ids \ {Id(j)}
      BY <2>1, <2>3 DEF Calm
    <3>3. /\ status'[i] = status[i] /\ trail'[i] = trail[i]
          /\ i \in banned' <=> i \in banned
          /\ i \in hot' <=> i \in hot
          /\ i \in rushed' <=> i \in rushed
      BY <3>2
    <3>4. i \notin rushed'
      BY <2>1, <3>3 DEF CalmInv
    <3>5. ASSUME Settled(i)'
          PROVE  Fits(status'[i], trail'[i], i \in banned', i \in hot', Idle)
      BY <2>1, <3>1, <3>3, <3>5 DEF CalmInv, Fits
    <3>6. ASSUME NEW k \in Handlers, Id(k)' = i
          PROVE  Fits(status'[i], trail'[i], i \in banned', i \in hot', handler'[k])
      <4>1. Id(k) = i /\ handler'[k] = handler[k]
        BY <1>1, <1>2, <2>1, <2>3, <3>6 DEF Id, Calm
      <4> QED
        BY <2>1, <3>3, <4>1 DEF CalmInv, Fits
    <3> QED
      BY <3>4, <3>5, <3>6
  <2> QED
    BY <2>2, <2>3
<1> QED
  BY <1>3, <1>4 DEF CalmInv

\* What CalmInv says of the one request about a member.
LEMMA FitsTheJob ==
    ASSUME SpaceTyped, CalmInv, NEW j \in Handlers, Id(j) \in Calm
    PROVE  /\ Id(j) \in Ids /\ Id(j) \notin rushed
           /\ trail[Id(j)] \in Seq(Events)
           /\ Fits(status[Id(j)], trail[Id(j)], Id(j) \in banned, Id(j) \in hot, handler[j])
  BY DEF CalmInv, Calm, SpaceTyped, SpaceTypeOK

LEMMA DecideKeepsCalm ==
    ASSUME SpaceTyped, CalmInv, NEW j \in Handlers, NEW ok, NEW to, Decide(j, ok, to),
           handler[j].at \in {"banned", "user", "status", "cooldown"},
           ok /\ Id(j) \in Calm =>
               Fits(status[Id(j)], trail[Id(j)], Id(j) \in banned, Id(j) \in hot,
                    [handler[j] EXCEPT !.at = to])
    PROVE  CalmInv'
<1>1. Id(j) \in Ids
  BY DEF SpaceTyped, ScanShaped, Id
<1>2. CASE ok
  <2> DEFINE r == [handler[j] EXCEPT !.at = to]
  <2>1. handler' = [handler EXCEPT ![j] = r] /\ r.id = Id(j)
    BY <1>2 DEF Decide, Move, Id, SpaceTyped, SpaceTypeOK, Handler
  <2>2. Id(j) \in Calm =>
            Fits(status[Id(j)], trail[Id(j)], Id(j) \in banned, Id(j) \in hot, r)
    BY <1>2
  <2> HIDE DEF r
  <2> QED
    BY <1>1, <2>1, <2>2, OneMember, FitsTheJob DEF Decide, data
<1>3. CASE ~ok
  <2>1. Id(j) \in Calm =>
            Fits(status[Id(j)], trail[Id(j)], Id(j) \in banned, Id(j) \in hot, Idle)
    BY FitsTheJob DEF Fits, Idle
  <2> QED
    BY <1>1, <1>3, <2>1, OneMember, FitsTheJob DEF Decide, Finish, data
<1> QED
  BY <1>2, <1>3

LEMMA ReadKeepsCalm ==
    ASSUME SpaceTyped, CalmInv, NEW j \in Handlers,
           \/ ScanBanned(j) \/ FindUser(j) \/ ReadStatus(j) \/ CheckCooldown(j) \/ FindBan(j)
    PROVE  CalmInv'
<1> DEFINE Now(r) == Fits(status[Id(j)], trail[Id(j)], Id(j) \in banned, Id(j) \in hot, r)
<1>1. handler[j] \in Handler /\ ScanShaped(handler[j])
  BY DEF SpaceTyped, SpaceTypeOK
<1>2. Id(j) \in Calm => Now(handler[j])
  BY FitsTheJob
<1>3. CASE ScanBanned(j)
  <2>1. Admitted(Kind(j), Id(j)) /\ Id(j) \in Calm => Now([handler[j] EXCEPT !.at = "user"])
    BY <1>1, <1>2, <1>3 DEF ScanBanned, Admitted, Fits, Handler, Kind
  <2> QED
    BY <1>3, <2>1, DecideKeepsCalm DEF ScanBanned
<1>4. CASE FindUser(j)
  <2>1. Id(j) \in Calm => Now([handler[j] EXCEPT !.at = "status"])
    BY <1>1, <1>2, <1>4 DEF FindUser, Fits, Handler
  <2> QED
    BY <1>4, <2>1, DecideKeepsCalm DEF FindUser
<1>5. CASE ReadStatus(j)
  <2>1. Allows(Kind(j), Id(j)) /\ Id(j) \in Calm =>
            Now([handler[j] EXCEPT !.at = IF Kind(j) \in Scans THEN "cooldown" ELSE "log"])
    BY <1>1, <1>2, <1>5 DEF ReadStatus, Allows, Fits, Handler, Kind
  <2> QED
    BY <1>5, <2>1, DecideKeepsCalm DEF ReadStatus
<1>6. CASE CheckCooldown(j)
  <2>1. Cooled(Id(j)) /\ Id(j) \in Calm => Now([handler[j] EXCEPT !.at = "log"])
    BY <1>1, <1>2, <1>6 DEF CheckCooldown, Cooled, Fits, Handler
  <2> QED
    BY <1>6, <2>1, DecideKeepsCalm DEF CheckCooldown
<1>7. CASE FindBan(j)
  <2>1. Id(j) \in Calm => Now([handler[j] EXCEPT !.at = "store"])
    BY <1>1, <1>2, <1>7 DEF FindBan, Fits, Handler, Kind
  <2> QED
    BY <1>7, <2>1, DecideKeepsCalm DEF FindBan
<1> QED
  BY <1>3, <1>4, <1>5, <1>6, <1>7

LEMMA WriteLogKeepsCalm ==
    ASSUME SpaceTyped, CalmInv, NEW j \in Handlers, WriteLog(j)
    PROVE  CalmInv'
<1> DEFINE i == Id(j)
           e == Direction(Kind(j))
           r == [handler[j] EXCEPT !.at = "write"]
<1>1. handler[j] \in Handler /\ ScanShaped(handler[j]) /\ i \in Ids /\ handler[j].at = "log"
  BY DEF SpaceTyped, SpaceTypeOK, ScanShaped, Id, WriteLog
<1>2. handler' = [handler EXCEPT ![j] = r] /\ r.id = i /\ r.at = "write" /\ r.kind = Kind(j)
  BY <1>1 DEF WriteLog, Move, Handler, Kind, Id
<1>3. trail'[i] = Append(trail[i], e)
  BY <1>1 DEF WriteLog, SpaceTyped, SpaceTypeOK
<1>4. \A k \in Ids \ {i} : trail'[k] = trail[k]
  BY DEF WriteLog, SpaceTyped, SpaceTypeOK
<1>5. ASSUME i \in Calm
      PROVE  i \notin rushed' /\ Fits(status'[i], trail'[i], i \in banned', i \in hot', r)
  <2>1. /\ i \notin rushed /\ trail[i] \in Seq(Events)
        /\ Fits(status[i], trail[i], i \in banned, i \in hot, handler[j])
    BY <1>5, FitsTheJob
  <2>2. e \in Events /\ (e = "IN" <=> ~Inside(trail[i]))
    BY <1>1, <2>1 DEF Fits, Direction, Kind, Events
  <2>3. Alternates(trail'[i])
    BY <1>3, <2>1, <2>2, AppendAlternates DEF Fits
  <2>4. trail'[i] # <<>> /\ trail'[i][Len(trail'[i])] = e
    BY <1>3, <2>1, <2>2
  <2>5. i \notin rushed'
    BY <1>1, <2>1 DEF WriteLog, Fits, Kind
  <2>6. status'[i] = status[i] /\ (i \in banned' <=> i \in banned)
    BY DEF WriteLog
  <2> HIDE DEF r, i
  <2> QED
    BY <1>1, <1>2, <2>1, <2>3, <2>4, <2>5, <2>6 DEF Fits, Kind
<1>6. \A k \in Ids \ {i} : (k \in hot' <=> k \in hot) /\ (k \in rushed' <=> k \in rushed)
  BY DEF WriteLog
<1> HIDE DEF r
<1> QED
  BY <1>1, <1>2, <1>4, <1>5, <1>6, OneMember DEF WriteLog

LEMMA WriteStatusKeepsCalm ==
    ASSUME SpaceTyped, CalmInv, NEW j \in Handlers, WriteStatus(j)
    PROVE  CalmInv'
<1>1. handler[j].at = "write" /\ Id(j) \in Ids
  BY DEF SpaceTyped, ScanShaped, WriteStatus, Id
<1>2. status'[Id(j)] = Direction(Kind(j)) /\ \A k \in Ids \ {Id(j)} : status'[k] = status[k]
  BY <1>1 DEF WriteStatus, SpaceTyped, SpaceTypeOK
<1>3. Id(j) \in Calm =>
          Fits(Direction(Kind(j)), trail[Id(j)], Id(j) \in banned, Id(j) \in hot, Idle)
  BY <1>1, FitsTheJob DEF Fits, Idle, Inside, Direction, Kind
<1> QED
  BY <1>1, <1>2, <1>3, OneMember, FitsTheJob DEF WriteStatus, Finish

LEMMA StoreBanKeepsCalm ==
    ASSUME SpaceTyped, CalmInv, NEW j \in Handlers, StoreBan(j)
    PROVE  CalmInv'
<1> DEFINE r == [handler[j] EXCEPT !.at = "force"]
<1>1. handler[j] \in Handler /\ handler[j].at = "store" /\ handler[j].kind = "ban" /\ Id(j) \in Ids
  BY DEF SpaceTyped, SpaceTypeOK, ScanShaped, StoreBan, Id
<1>2. handler' = [handler EXCEPT ![j] = r] /\ r.id = Id(j) /\ r.kind = "ban" /\ r.at = "force"
  BY <1>1 DEF StoreBan, Move, Handler, Id
<1>3. Id(j) \in Calm => Fits(status[Id(j)], trail[Id(j)], TRUE, Id(j) \in hot, r)
  BY <1>1, <1>2, FitsTheJob DEF Fits
<1>4. Id(j) \in banned' /\ \A k \in Ids \ {Id(j)} : k \in banned' <=> k \in banned
  BY DEF StoreBan
<1>5. Id(j) \in Calm =>
          Fits(status'[Id(j)], trail'[Id(j)], Id(j) \in banned', Id(j) \in hot', r)
  BY <1>3, <1>4 DEF StoreBan, Fits
<1> HIDE DEF r
<1> QED
  BY <1>1, <1>2, <1>4, <1>5, OneMember, FitsTheJob DEF StoreBan

LEMMA ForceOutKeepsCalm ==
    ASSUME SpaceTyped, CalmInv, NEW j \in Handlers, ForceOut(j)
    PROVE  CalmInv'
<1> DEFINE i == Id(j)
<1>1. handler[j].at = "force" /\ i \in Ids
  BY DEF SpaceTyped, ScanShaped, ForceOut, Id
<1>2. status'[i] # "IN" /\ \A k \in Ids \ {i} : status'[k] = status[k] /\ trail'[k] = trail[k]
  BY <1>1, UnsetAssumption DEF ForceOut, SpaceTyped, SpaceTypeOK
<1>3. trail'[i] = IF status[i] = "IN" THEN Append(trail[i], "forced") ELSE trail[i]
  BY <1>1 DEF ForceOut, SpaceTyped, SpaceTypeOK
<1>4. ASSUME i \in Calm
      PROVE  Fits(status'[i], trail'[i], i \in banned', i \in hot', Idle)
  <2>1. /\ trail[i] \in Seq(Events)
        /\ Fits(status[i], trail[i], i \in banned, i \in hot, handler[j])
    BY <1>4, FitsTheJob
  <2>2. Alternates(trail'[i]) /\ ~Inside(trail'[i])
    BY <1>1, <1>3, <2>1, AppendAlternates DEF Fits, Events
  <2> QED
    BY <1>2, <2>2 DEF Fits, Idle
<1> QED
  BY <1>1, <1>2, <1>4, OneMember, FitsTheJob DEF ForceOut, Finish

LEMMA DownKeepsCalm ==
    ASSUME SpaceTyped, CalmInv, Down, UNCHANGED <<data, rushed>>
    PROVE  CalmInv'
<1>1. \A j \in Handlers : handler'[j] = Idle /\ Idle.id \notin Ids
  BY UnsetAssumption DEF Down, Idle
<1>2. Single'
  BY <1>1 DEF Single, Id
<1>3. ASSUME NEW i \in Calm'
      PROVE  /\ i \in Calm /\ Settled(i)
             /\ \A j \in Handlers : Id(j)' # i
  BY <1>1, <1>3 DEF Down, Calm, Id
<1> QED
  BY <1>2, <1>3 DEF CalmInv, data

LEMMA ArriveKeepsCalm ==
    ASSUME SpaceTyped, CalmInv, NEW j \in Handlers, NEW kind \in Requests, NEW i \in Ids, Arrive(j, kind, i)
    PROVE  CalmInv'
<1> DEFINE r == [at |-> FirstStep(kind), kind |-> kind, id |-> i]
<1>1. /\ r.id = i /\ r.at \in {"user", "banned"} /\ (kind = "IN" => r.at = "banned")
      /\ r.kind = kind
  BY DEF FirstStep
<1>2. handler' = [handler EXCEPT ![j] = r] /\ Id(j) \notin Ids
  BY UnsetAssumption DEF Arrive, Id, Idle
<1> HIDE DEF r
<1>3. handler'[j] = r /\ \A k \in Handlers \ {j} : handler'[k] = handler[k]
  BY <1>2 DEF SpaceTyped, SpaceTypeOK
<1>4. disturbed \subseteq disturbed' /\ (~Settled(i) => i \in disturbed')
  BY DEF Arrive
<1>5. Single'
  BY <1>1, <1>3, <1>4 DEF CalmInv, Single, Settled, Id
<1>6. ASSUME NEW m \in Calm'
      PROVE  /\ m \notin rushed'
             /\ Settled(m)' => Fits(status'[m], trail'[m], m \in banned', m \in hot', Idle)
             /\ \A k \in Handlers :
                   Id(k)' = m => Fits(status'[m], trail'[m], m \in banned', m \in hot', handler'[k])
  <2>1. m \in Calm
    BY <1>4 DEF Calm
  <2>2. UNCHANGED <<status, trail, banned, hot, rushed>>
    BY DEF Arrive, data
  <2>3. Settled(m)' => Settled(m)
    BY <1>2, <1>3, <2>1 DEF Settled, Id, Calm
  <2>4. ASSUME NEW k \in Handlers, Id(k)' = m
        PROVE  Fits(status[m], trail[m], m \in banned, m \in hot, handler'[k])
    <3>1. CASE k = j
      <4>1. m = i /\ Settled(i)
        BY <1>1, <1>3, <1>4, <2>4, <3>1 DEF Id, Calm
      <4> QED
        BY <1>1, <1>3, <2>1, <3>1, <4>1 DEF CalmInv, Fits, Idle
    <3>2. CASE k # j
      BY <1>3, <2>1, <2>4, <3>2 DEF CalmInv, Id
    <3> QED
      BY <3>1, <3>2
  <2> QED
    BY <2>1, <2>2, <2>3, <2>4 DEF CalmInv
<1> QED
  BY <1>5, <1>6 DEF CalmInv

LEMMA CalmInductive ==
    SpaceTyped /\ CalmInv /\ [SpaceNext]_presence => CalmInv'
<1> SUFFICES ASSUME SpaceTyped, CalmInv, [SpaceNext]_presence PROVE CalmInv'
  OBVIOUS
<1>1. ASSUME NEW j \in Handlers, HandlerStep(j) PROVE CalmInv'
  <2>1. CASE StoreBanTwice(j)
    BY <2>1, DownKeepsCalm DEF StoreBanTwice
  <2> QED
    BY <1>1, <2>1, ReadKeepsCalm, WriteLogKeepsCalm, WriteStatusKeepsCalm,
       StoreBanKeepsCalm, ForceOutKeepsCalm DEF HandlerStep
<1>2. CASE Unban
  BY <1>2 DEF Unban, CalmInv, Single, Calm, Settled, Id, Fits
<1>3. CASE CooldownEnds
  BY <1>3 DEF CooldownEnds, CalmInv, Single, Calm, Settled, Id, Fits
<1>4. CASE AccountChanges \/ Restart \/ UNCHANGED presence
  BY <1>4 DEF AccountChanges, Restart, presence, data, CalmInv, Single, Calm, Settled, Id
<1>5. CASE Crash
  BY <1>5, DownKeepsCalm DEF Crash
<1> QED
  BY <1>1, <1>2, <1>3, <1>4, <1>5, ArriveKeepsCalm DEF SpaceNext

LEMMA CalmInitially ==
    SpaceInit => CalmInv
<1> SUFFICES ASSUME SpaceInit PROVE CalmInv
  OBVIOUS
<1>1. \A j \in Handlers : Id(j) \notin Ids
  BY UnsetAssumption DEF SpaceInit, Idle, Id
<1>2. Alternates(<<>>) /\ ~Inside(<<>>)
  BY DEF Alternates, Inside
<1> QED
  BY <1>1, <1>2, UnsetAssumption DEF SpaceInit, CalmInv, Single, Calm, Fits, Idle

LEMMA CalmAlways ==
    SpaceSpec => [](SpaceTyped /\ CalmInv)
<1>1. SpaceInit => SpaceTyped /\ CalmInv
  BY SpaceTypedInitially, CalmInitially
<1>2. SpaceTyped /\ CalmInv /\ [SpaceNext]_presence => SpaceTyped' /\ CalmInv'
  BY SpaceTypedInductive, CalmInductive
<1> QED
  BY <1>1, <1>2, PTL DEF SpaceSpec

\* Of a member whose requests do not overlap and do not die half-way, no entry
\* is logged inside and no exit outside (the 409 of POST /checkin).
THEOREM CalmLogsAlternate ==
    SpaceSpec => []CalmLogAlternates
<1>1. CalmInv => CalmLogAlternates
  <2> SUFFICES ASSUME CalmInv, NEW i \in Calm PROVE Alternates(trail[i])
    BY DEF CalmLogAlternates
  <2> QED
    BY DEF CalmInv, Settled, Fits
<1> QED
  BY <1>1, CalmAlways, PTL

\* Once their requests are done, their status is IN exactly if their log says so.
THEOREM CalmStatusTrue ==
    SpaceSpec => []CalmStatusFollowsLog
<1>1. CalmInv => CalmStatusFollowsLog
  BY DEF CalmInv, Fits, Idle, CalmStatusFollowsLog
<1> QED
  BY <1>1, CalmAlways, PTL

\* Once their requests are done, a ban has put them outside.
THEOREM CalmBannedOut ==
    SpaceSpec => []CalmBannedOutside
<1>1. CalmInv => CalmBannedOutside
  BY DEF CalmInv, Fits, Idle, CalmBannedOutside, Outside
<1> QED
  BY <1>1, CalmAlways, PTL

\* None of their scans was logged within the cooldown of the entry before it.
THEOREM CooldownHolds ==
    SpaceSpec => []CooldownKept
<1>1. SpaceTyped /\ CalmInv => CooldownKept
  BY DEF SpaceTyped, SpaceTypeOK, CalmInv, Calm, CooldownKept
<1> QED
  BY <1>1, CalmAlways, PTL

-----------------------------------------------------------------------------
(* The shell.                                                              *)

LEMMA FirstOfTyped ==
    ASSUME NEW perms
    PROVE  /\ FirstOf(perms) \in Pages \cup {"login"}
           /\ FirstOf(perms) = "login" => perms \cap Pages \subseteq {"makerspace"}
<1> DEFINE order == PermissionOrder
           mine == {n \in DOMAIN order : order[n] \in perms}
<1>1. DOMAIN order = 1 .. 6 /\ \A n \in 1 .. 6 : order[n] \in Pages
  BY DEF PermissionOrder, Pages
<1>2. \A p \in Pages \ {"makerspace"} : \E n \in 1 .. 6 : order[n] = p
  <2>1. /\ order[1] = "dashboard" /\ order[2] = "registrations" /\ order[3] = "events"
        /\ order[4] = "users" /\ order[5] = "mailer" /\ order[6] = "settings"
    BY DEF PermissionOrder
  <2>2. /\ 1 \in 1 .. 6 /\ 2 \in 1 .. 6 /\ 3 \in 1 .. 6
        /\ 4 \in 1 .. 6 /\ 5 \in 1 .. 6 /\ 6 \in 1 .. 6
    OBVIOUS
  <2> HIDE DEF order
  <2> QED BY <2>1, <2>2 DEF Pages
<1>3. CASE mine = {}
  <2>1. FirstOf(perms) = "login"
    BY <1>3 DEF FirstOf
  <2>2. \A n \in 1 .. 6 : order[n] \notin perms
    BY <1>1, <1>3
  <2> HIDE DEF order
  <2> QED BY <1>2, <2>1, <2>2
<1>4. CASE mine # {}
  <2>1. mine \subseteq Nat
    BY <1>1
  <2>2. Min(mine) \in mine
    <3> HIDE DEF mine
    <3> QED BY <1>4, <2>1, LeastNumber DEF Min
  <2>3. FirstOf(perms) = order[Min(mine)]
    BY <1>4 DEF FirstOf
  <2>4. Min(mine) \in 1 .. 6
    BY <1>1, <2>2
  <2> HIDE DEF mine, order
  <2>5. FirstOf(perms) \in Pages
    BY <1>1, <2>3, <2>4
  <2>6. "login" \notin Pages
    BY DEF Pages
  <2> QED BY <2>5, <2>6
<1> QED
  BY <1>3, <1>4

LEMMA FallbackTyped ==
    ASSUME NEW who \in Account
    PROVE  /\ Fallback(who) \in Pages \cup {"login"}
           /\ Fallback(who) = "login" => ~who.admin /\ who.perms \subseteq {"makerspace"}
<1>1. "dashboard" \in Pages /\ "login" \notin Pages
  BY DEF Pages
<1>2. who.perms \subseteq Pages
  BY DEF Account
<1> QED
  BY <1>1, <1>2, FirstOfTyped DEF Fallback

LEMMA ShellInitially ==
    ShellInit => ShellTypeOK
<1> SUFFICES ASSUME ShellInit PROVE ShellTypeOK
  OBVIOUS
<1>1. account \in [Users -> Account]
  BY AccountsAssumption DEF ShellInit
<1>2. acts \in 0 .. MaxActs
  BY ActsAssumption DEF ShellInit
<1>3. listed \in [Users -> SUBSET Clubs]
  BY DEF ShellInit, NoClubs
<1> QED
  BY <1>1, <1>2, <1>3 DEF ShellInit, ShellTypeOK

LEMMA ShellInductive ==
    ShellTypeOK /\ [ShellNext]_tab => ShellTypeOK'
<1> SUFFICES ASSUME ShellTypeOK, [ShellNext]_tab PROVE ShellTypeOK'
  OBVIOUS
<1>0. ASSUME visit' = 1 - visit PROVE visit' \in {0, 1}
  BY <1>0 DEF ShellTypeOK
<1>1. ASSUME NEW u \in Users, SignIn(u) PROVE ShellTypeOK'
  <2>1. "dashboard" \in Pages
    BY DEF Pages
  <2> QED BY <1>0, <1>1, <2>1 DEF SignIn, Navigate, ShellTypeOK
<1>2. ASSUME NEW u \in Users, SignInUnconfirmed(u) PROVE ShellTypeOK'
  BY <1>2 DEF SignInUnconfirmed, ShellTypeOK
<1>3. CASE SignOut
  BY <1>0, <1>3 DEF SignOut, Navigate, ShellTypeOK
<1>4. CASE CookieExpires
  BY <1>4 DEF CookieExpires, ShellTypeOK
<1>5. CASE FetchMe
  BY <1>0, <1>5 DEF FetchMe, Navigate, ShellTypeOK
<1>6. CASE FetchClubs
  <2>1. \A u \in Users : account[u].clubs \subseteq Clubs
    BY DEF ShellTypeOK, Account
  <2>2. listed' \in [Users -> SUBSET Clubs]
    BY <1>6, <2>1 DEF FetchClubs
  <2> QED BY <1>6, <2>2 DEF FetchClubs, ShellTypeOK
<1>7. CASE Redirect
  <2>1. Fallback(me) \in Pages \cup {"login"}
    BY <1>7, FallbackTyped DEF Redirect, ShellTypeOK
  <2> QED BY <1>0, <1>7, <2>1 DEF Redirect, Navigate, ShellTypeOK
<1>8. CASE KeepInClubView
  <2>1. MyClubs \subseteq Clubs
    BY DEF MyClubs, ShellTypeOK
  <2> QED BY <1>8, <2>1 DEF KeepInClubView, ShellTypeOK
<1>9. CASE SetIedcMode \/ \E c \in Clubs : SetClubMode(c)
  BY <1>9 DEF SetIedcMode, SetClubMode, ShellTypeOK
<1>10. ASSUME NEW p \in Pages, FollowMenu(p) PROVE ShellTypeOK'
  BY <1>0, <1>10 DEF FollowMenu, Navigate, ShellTypeOK
<1>11. ASSUME NEW p \in Pages, Open(p) PROVE ShellTypeOK'
  <2>1. acts' \in 0 .. MaxActs
    BY <1>11, ActsAssumption DEF Open, ShellTypeOK
  <2>2. listed' \in [Users -> SUBSET Clubs]
    BY <1>11 DEF Open, NoClubs
  <2> QED BY <1>0, <1>11, <2>1, <2>2 DEF Open, Navigate, ShellTypeOK
<1>12. ASSUME NEW u \in Users, NEW to \in Accounts, ChangeAccount(u, to) PROVE ShellTypeOK'
  <2>1. acts' \in 0 .. MaxActs
    BY <1>12, ActsAssumption DEF ChangeAccount, ShellTypeOK
  <2>2. account' \in [Users -> Account]
    BY <1>12, AccountsAssumption DEF ChangeAccount, ShellTypeOK
  <2> QED BY <1>12, <2>1, <2>2 DEF ChangeAccount, ShellTypeOK
<1>13. CASE UNCHANGED tab
  BY <1>13 DEF tab, ShellTypeOK
<1> QED
  BY <1>1, <1>2, <1>3, <1>4, <1>5, <1>6, <1>7, <1>8, <1>9, <1>10, <1>11, <1>12, <1>13 DEF ShellNext

\* What is cached, stored in the browser and in the address keeps its type,
\* whoever logs in and whatever is changed meanwhile.
THEOREM ShellTypeCorrect ==
    ShellSpec => []ShellTypeOK
<1>1. ShellInit => ShellTypeOK
  BY ShellInitially
<1>2. ShellTypeOK /\ [ShellNext]_tab => ShellTypeOK'
  BY ShellInductive
<1> QED
  BY <1>1, <1>2, PTL DEF ShellSpec

\* A signed-in account ends up at the log-in form only if it has no permission
\* but the one for the makerspace (RequirePermission.jsx:38-52).
THEOREM OnlyThoseWithoutPagesLeave ==
    ShellSpec => SentAwayOnlyWithoutPages
<1>1. ASSUME ShellTypeOK, [ShellNext]_tab,
             page \in Pages, page' = "login", me' # Nobody
      PROVE  ~me.admin /\ me.perms \subseteq {"makerspace"}
  <2>1. page # "login" /\ "login" \notin Pages
    BY <1>1 DEF Pages
  <2>2. Redirect
    BY <1>1, <2>1
       DEF ShellNext, tab, SignIn, SignInUnconfirmed, SignOut, CookieExpires,
           FetchMe, FetchClubs, KeepInClubView, SetIedcMode, SetClubMode,
           FollowMenu, Open, ChangeAccount, Navigate
  <2>3. me \in Account /\ Fallback(me) = "login"
    BY <1>1, <2>2 DEF Redirect, Navigate, ShellTypeOK
  <2> QED BY <2>3, FallbackTyped
<1>2. ShellTypeOK /\ [ShellNext]_tab
        => [(page \in Pages /\ page' = "login" /\ me' # Nobody)
              => (~me.admin /\ me.perms \subseteq {"makerspace"})]_tab
  BY <1>1
<1> QED
  BY <1>2, ShellTypeCorrect, PTL DEF ShellSpec, SentAwayOnlyWithoutPages
====
