--------------------------- MODULE PaginationProofs ---------------------------
(***************************************************************************)
(* Proofs about Pagination, for any sizes and caps, any number of items    *)
(* and any changes by others: a walk asks for what it should (TypeCorrect, *)
(* CapRespectedHolds, ListedOnlyWhatWasAskedHolds), and gives what it      *)
(* should (InOrderHolds, MissedBoundedHolds).                              *)
(*                                                                         *)
(* The place of an item in a list is its Rank, the number of listed items  *)
(* before it, and a page is what has a rank between two multiples of the   *)
(* page size.  The first lemmas say how ranks change as items come and go. *)
(***************************************************************************)
EXTENDS Pagination, FiniteSetTheorems, TLAPS

-----------------------------------------------------------------------------
(* Order and rank. *)

LEMMA BeforeOrder ==
  ASSUME NEW i \in Nat, NEW j \in Nat, NEW k \in Nat
  PROVE  /\ ~Before(i, i)
         /\ Before(i, j) /\ Before(j, k) => Before(i, k)
         /\ Before(i, j) \/ Before(j, i) \/ i = j
<1>1. CASE reverse
  BY <1>1 DEF Before
<1>2. CASE ~reverse
  BY <1>2 DEF Before
<1>. QED BY <1>1, <1>2

LEMMA RankType ==
  ASSUME NEW S \in SUBSET Nat, IsFiniteSet(S), NEW i \in Nat
  PROVE  /\ IsFiniteSet({j \in S : Before(j, i)})
         /\ Rank(S, i) \in Nat
         /\ Cardinality(S) \in Nat
         /\ i \in S => Rank(S, i) < Cardinality(S)
<1> DEFINE P == {j \in S : Before(j, i)}
<1>1. P \in SUBSET S /\ Rank(S, i) = Cardinality(P)
  BY DEF Rank
<1>2. IsFiniteSet(P) /\ Cardinality(P) <= Cardinality(S) /\ (Cardinality(S) = Cardinality(P) => S = P)
  BY <1>1, FS_Subset
<1>3. Cardinality(P) \in Nat /\ Cardinality(S) \in Nat
  BY <1>2, FS_CardinalityType
<1>4. i \in S => S # P
  BY BeforeOrder
<1>. QED BY <1>1, <1>2, <1>3, <1>4

\* The items of a list are ranked in its order.
LEMMA RankOrder ==
  ASSUME NEW S \in SUBSET Nat, IsFiniteSet(S), NEW i \in S, NEW j \in S
  PROVE  Rank(S, i) < Rank(S, j) <=> Before(i, j)
<1>1. ASSUME NEW a \in S, NEW b \in S, Before(a, b)
      PROVE  Rank(S, a) < Rank(S, b)
  <2> DEFINE A == {k \in S : Before(k, a)}
             B == {k \in S : Before(k, b)}
  <2>1. A \in SUBSET B /\ A # B
    BY <1>1, BeforeOrder
  <2>2. IsFiniteSet(B) /\ Rank(S, a) \in Nat /\ Rank(S, b) \in Nat
    BY RankType
  <2>3. Cardinality(A) <= Cardinality(B) /\ Cardinality(B) # Cardinality(A)
    BY <2>1, <2>2, FS_Subset
  <2>. QED BY <2>2, <2>3 DEF Rank
<1>2. Rank(S, i) \in Nat /\ Rank(S, j) \in Nat
  BY RankType
<1>3. Before(i, j) \/ Before(j, i) \/ i = j
  BY BeforeOrder
<1>4. ~(Before(i, j) /\ Before(j, i)) /\ ~Before(i, i)
  BY BeforeOrder
<1>. QED BY <1>1, <1>2, <1>3, <1>4

LEMMA RankInjective ==
  ASSUME NEW S \in SUBSET Nat, IsFiniteSet(S), NEW i \in S, NEW j \in S,
         Rank(S, i) = Rank(S, j)
  PROVE  i = j
<1>1. Rank(S, i) \in Nat /\ Rank(S, j) \in Nat
  BY RankType
<1>. QED BY <1>1, RankOrder, BeforeOrder

\* No rank below the number of items is left out.
LEMMA RankOnto ==
  ASSUME NEW S \in SUBSET Nat, IsFiniteSet(S), NEW n \in Nat, n < Cardinality(S)
  PROVE  \E i \in S : Rank(S, i) = n
<1>1. PICK c \in Nat : c = Cardinality(S)
  BY FS_CardinalityType
<1> DEFINE R == 0 .. (c - 1)
           f == [i \in S |-> Rank(S, i)]
<1>2. IsFiniteSet(R) /\ Cardinality(R) = c
  <2>1. 0 \in Int /\ c - 1 \in Int
    BY <1>1
  <2>2. IsFiniteSet(R) /\ Cardinality(R) = IF 0 > c - 1 THEN 0 ELSE (c - 1) - 0 + 1
    BY <2>1, FS_Interval, Zenon
  <2>. QED BY <1>1, <2>2
<1>3. ASSUME NEW i \in S PROVE Rank(S, i) \in R
  <2>1. i \in Nat
    OBVIOUS
  <2>2. Rank(S, i) \in Nat /\ Rank(S, i) < c
    BY <1>1, <2>1, RankType
  <2>. QED BY <2>2
<1>4. f \in Injection(S, R)
  <2>1. f \in [S -> R]
    BY <1>3
  <2>2. \A i, j \in S : f[i] = f[j] => i = j
    BY RankInjective
  <2>. QED BY <2>1, <2>2 DEF Injection, IsInjective
<1>5. f \in Surjection(S, R)
  <2>. HIDE DEF f, R
  <2>. QED BY <1>1, <1>2, <1>4, FS_Injection
<1>6. n \in R
  BY <1>1
<1>. QED BY <1>5, <1>6 DEF Surjection

LEMMA RankWithout ==
  ASSUME NEW S \in SUBSET Nat, IsFiniteSet(S), NEW x \in S, NEW i \in Nat
  PROVE  Rank(S \ {x}, i) = IF Before(x, i) THEN Rank(S, i) - 1 ELSE Rank(S, i)
<1> DEFINE P == {j \in S : Before(j, i)}
<1>1. {j \in S \ {x} : Before(j, i)} = P \ {x}
  OBVIOUS
<1>2. IsFiniteSet(P)
  BY RankType
<1>3. Cardinality(P \ {x}) = IF x \in P THEN Cardinality(P) - 1 ELSE Cardinality(P)
  BY <1>2, FS_RemoveElement
<1>. QED BY <1>1, <1>3 DEF Rank

LEMMA RankWith ==
  ASSUME NEW S \in SUBSET Nat, IsFiniteSet(S), NEW x \in Nat \ S, NEW i \in Nat
  PROVE  Rank(S \union {x}, i) = IF Before(x, i) THEN Rank(S, i) + 1 ELSE Rank(S, i)
<1> DEFINE P == {j \in S : Before(j, i)}
<1>1. {j \in S \union {x} : Before(j, i)} = IF Before(x, i) THEN P \union {x} ELSE P
  OBVIOUS
<1>2. IsFiniteSet(P) /\ x \notin P
  BY RankType
<1>3. Cardinality(P \union {x}) = Cardinality(P) + 1
  BY <1>2, FS_AddElement
<1>. QED BY <1>1, <1>3 DEF Rank

-----------------------------------------------------------------------------
(* Sequences of items. *)

LEMMA SeqOfMore ==
  ASSUME NEW S, NEW T, S \subseteq T, NEW s \in Seq(S)
  PROVE  s \in Seq(T)
OBVIOUS

LEMMA ConcatType ==
  ASSUME NEW T, NEW s \in Seq(T), NEW t \in Seq(T)
  PROVE  /\ s \o t \in Seq(T)
         /\ Len(s \o t) = Len(s) + Len(t)
         /\ ToSet(s \o t) = ToSet(s) \union ToSet(t)
<1>1. /\ s \o t \in Seq(T) /\ Len(s \o t) = Len(s) + Len(t)
      /\ Len(s) \in Nat /\ Len(t) \in Nat
      /\ DOMAIN s = 1 .. Len(s) /\ DOMAIN t = 1 .. Len(t) /\ DOMAIN (s \o t) = 1 .. Len(s) + Len(t)
      /\ \A i \in 1 .. Len(s) + Len(t) :
           (s \o t)[i] = IF i <= Len(s) THEN s[i] ELSE t[i - Len(s)]
  OBVIOUS
<1>2. ToSet(s \o t) \subseteq ToSet(s) \union ToSet(t)
  BY <1>1 DEF ToSet
<1>3. ASSUME NEW i \in DOMAIN s PROVE s[i] \in ToSet(s \o t)
  <2>1. i \in DOMAIN (s \o t) /\ (s \o t)[i] = s[i]
    BY <1>1
  <2>. QED BY <2>1 DEF ToSet
<1>4. ASSUME NEW i \in DOMAIN t PROVE t[i] \in ToSet(s \o t)
  <2>1. Len(s) + i \in DOMAIN (s \o t) /\ (s \o t)[Len(s) + i] = t[i]
    BY <1>1
  <2>. QED BY <2>1 DEF ToSet
<1>. QED BY <1>1, <1>2, <1>3, <1>4 DEF ToSet

LEMMA ToSetCardinality ==
  ASSUME NEW T, NEW s \in Seq(T)
  PROVE  /\ ToSet(s) \subseteq T
         /\ IsFiniteSet(ToSet(s))
         /\ Cardinality(ToSet(s)) \in Nat
         /\ Cardinality(ToSet(s)) <= Len(s)
<1>1. PICK n \in Nat : n = Len(s) /\ DOMAIN s = 1 .. n
  OBVIOUS
<1>2. s \in Surjection(1 .. n, ToSet(s))
  BY <1>1 DEF Surjection, ToSet
<1>3. ExistsSurjection(1 .. n, ToSet(s))
  BY <1>2 DEF ExistsSurjection
<1>4. IsFiniteSet(ToSet(s)) /\ Cardinality(ToSet(s)) <= n
  BY <1>3, FS_NatSurjection, FS_SurjCardinalityBound
<1>5. ToSet(s) \subseteq T
  BY DEF ToSet
<1>. QED BY <1>1, <1>4, <1>5, FS_CardinalityType

\* Handing on the first item of the queue neither adds nor loses an item.
LEMMA HeadMoved ==
  ASSUME NEW T, NEW s \in Seq(T), NEW t \in Seq(T), t # <<>>
  PROVE  /\ Append(s, Head(t)) \in Seq(T)
         /\ Tail(t) \in Seq(T)
         /\ Len(Tail(t)) <= Len(t)
         /\ Append(s, Head(t)) \o Tail(t) = s \o t
         /\ ToSet(Append(s, Head(t))) \union ToSet(Tail(t)) = ToSet(s) \union ToSet(t)
<1>1. Append(s, Head(t)) \in Seq(T) /\ Tail(t) \in Seq(T)
  OBVIOUS
<1>2. Len(Tail(t)) <= Len(t) /\ Append(s, Head(t)) \o Tail(t) = s \o t
  OBVIOUS
<1>3. ToSet(Append(s, Head(t)) \o Tail(t)) = ToSet(Append(s, Head(t))) \union ToSet(Tail(t))
  BY <1>1, ConcatType, Zenon
<1>4. ToSet(s \o t) = ToSet(s) \union ToSet(t)
  BY ConcatType, Zenon
<1>. QED BY <1>1, <1>2, <1>3, <1>4

\* What the list order makes of a set has its items, each once.
LEMMA InListOrderFacts ==
  ASSUME NEW S \in SUBSET Nat, IsFiniteSet(S), NEW s \in InListOrder(S)
  PROVE  /\ s \in Seq(S)
         /\ Len(s) = Cardinality(S)
         /\ ToSet(s) = S
         /\ \A i, j \in DOMAIN s : i < j => Before(s[i], s[j])
<1>1. PICK n \in Nat : n = Cardinality(S)
  BY FS_CardinalityType
<1>2. /\ s \in [1 .. n -> S]
      /\ \A i, j \in 1 .. n : i < j => Before(s[i], s[j])
  BY <1>1 DEF InListOrder
<1>3. s \in Seq(S) /\ Len(s) = n
  BY <1>2
<1>4. s \in Injection(1 .. n, S)
  <2>1. ASSUME NEW i \in 1 .. n, NEW j \in 1 .. n, s[i] = s[j], i < j PROVE FALSE
    BY <1>2, <2>1, BeforeOrder
  <2>2. \A i, j \in 1 .. n : s[i] = s[j] => i = j
    BY <2>1
  <2>. QED BY <1>2, <2>2 DEF Injection, IsInjective
<1>5. Cardinality(1 .. n) = n
  BY FS_Interval
<1>6. s \in Surjection(1 .. n, S)
  BY <1>1, <1>4, <1>5, FS_Injection
<1>7. ToSet(s) = S
  BY <1>2, <1>6 DEF Surjection, ToSet
<1>. QED BY <1>1, <1>2, <1>3, <1>7

-----------------------------------------------------------------------------
(* Pages. *)

LEMMA PageBounds ==
  ASSUME NEW p \in Nat \ {0}
  PROVE  /\ PageSize \in Nat \ {0}
         /\ (p - 1) * PageSize \in Nat
         /\ p * PageSize = (p - 1) * PageSize + PageSize
<1>1. PageSize \in Nat \ {0}
  BY ConstantsAssumption
<1>2. PICK q \in Nat : p = q + 1
  BY SMT
<1>3. (q + 1) * PageSize = q * PageSize + PageSize /\ q * PageSize \in Nat
  BY <1>1
<1>. QED BY <1>1, <1>2, <1>3

\* A page has no more items than its size, each with a rank within the page.
LEMMA PageFacts ==
  ASSUME Listed \in SUBSET Nat, IsFiniteSet(Listed), NEW p \in Nat \ {0}
  PROVE  /\ PageItems(p) \in SUBSET Listed
         /\ IsFiniteSet(PageItems(p))
         /\ Cardinality(PageItems(p)) \in Nat
         /\ Cardinality(PageItems(p)) <= PageSize
         /\ \A i \in Listed :
              i \in PageItems(p) <=> /\ (p - 1) * PageSize <= Rank(Listed, i)
                                     /\ Rank(Listed, i) < p * PageSize
<1>1. PICK a \in Nat, b \in Nat : /\ a = (p - 1) * PageSize /\ b = p * PageSize
                                  /\ b = a + PageSize
  BY PageBounds
<1>2. \A i \in Listed : Rank(Listed, i) \in Nat
  BY RankType
<1>3. \A i \in Listed : i \in PageItems(p) <=> a <= Rank(Listed, i) /\ Rank(Listed, i) < b
  BY <1>1, <1>2 DEF PageItems, Beyond
<1>4. PageItems(p) \in SUBSET Listed
  BY DEF PageItems, Beyond
<1>5. IsFiniteSet(PageItems(p)) /\ Cardinality(PageItems(p)) \in Nat
  BY <1>4, FS_Subset, FS_CardinalityType
<1> DEFINE f == [i \in PageItems(p) |-> Rank(Listed, i)]
           R == a .. (b - 1)
<1>6. f \in Injection(PageItems(p), R)
  <2>1. ASSUME NEW i \in PageItems(p) PROVE Rank(Listed, i) \in R
    <3>1. /\ Rank(Listed, i) \in Nat /\ a \in Nat /\ b \in Nat
          /\ a <= Rank(Listed, i) /\ Rank(Listed, i) < b
      BY <1>2, <1>3, <1>4
    <3>. QED BY <3>1
  <2>2. f \in [PageItems(p) -> R]
    BY <2>1
  <2>3. \A i, j \in PageItems(p) : f[i] = f[j] => i = j
    BY <1>4, RankInjective
  <2>. QED BY <2>2, <2>3 DEF Injection, IsInjective
<1>7. IsFiniteSet(R) /\ Cardinality(R) = b - a
  <2>1. PageSize \in Nat \ {0} /\ a \in Int /\ b - 1 \in Int
    BY <1>1, PageBounds
  <2>2. IsFiniteSet(R) /\ Cardinality(R) = IF a > b - 1 THEN 0 ELSE (b - 1) - a + 1
    BY <2>1, FS_Interval, Zenon
  <2>. QED BY <1>1, <2>1, <2>2
<1>8. Cardinality(PageItems(p)) <= Cardinality(R)
  <2>. HIDE DEF f, R
  <2>. QED BY <1>6, <1>7, FS_Injection
<1>9. PageSize = b - a
  BY <1>1, PageBounds
<1>. QED BY <1>1, <1>3, <1>4, <1>5, <1>7, <1>8, <1>9

\* The pages the server counts hold the whole list, and none of them is empty.
LEMMA PageCountFacts ==
  ASSUME Listed \in SUBSET Nat, IsFiniteSet(Listed)
  PROVE  /\ PageCount \in Nat
         /\ \A i \in Listed : Rank(Listed, i) < PageCount * PageSize
         /\ \A p \in Nat \ {0} : p <= PageCount => PageItems(p) # {}
<1>1. PICK c \in Nat : c = Cardinality(Listed)
  BY FS_CardinalityType
<1>2. PageSize \in Nat \ {0}
  BY ConstantsAssumption
<1>3. PICK n \in Nat : n = (c + PageSize - 1) \div PageSize
  BY <1>2
<1>4. c <= n * PageSize /\ n * PageSize <= c + PageSize - 1
  BY <1>2, <1>3
<1>5. PageCount = n
  BY <1>1, <1>3 DEF PageCount
<1>6. ASSUME NEW i \in Listed PROVE Rank(Listed, i) < n * PageSize
  <2>1. Rank(Listed, i) \in Nat /\ Rank(Listed, i) < c
    BY <1>1, RankType
  <2>2. n * PageSize \in Nat
    BY <1>2
  <2>. QED BY <1>4, <2>1, <2>2
<1>7. ASSUME NEW p \in Nat \ {0}, p <= n PROVE PageItems(p) # {}
  <2>1. PICK a \in Nat : a = (p - 1) * PageSize /\ p * PageSize = a + PageSize
    BY PageBounds
  <2>2. p * PageSize <= n * PageSize
    BY <1>2, <1>7
  <2>3. a < c
    BY <1>2, <1>4, <2>1, <2>2
  <2>4. PICK i \in Listed : Rank(Listed, i) = a
    BY <1>1, <2>3, RankOnto
  <2>5. i \in PageItems(p)
    BY <1>2, <2>1, <2>4, PageFacts
  <2>. QED BY <2>5
<1>. QED BY <1>5, <1>6, <1>7

-----------------------------------------------------------------------------
(* Types.                                                                  *)

\* Before the first page is served nothing was handed out, a walk asks for no page
\* but those from the first on, and only when the last one is used up.
WalkInv ==
  /\ TypeOK
  /\ from \in Nat
  /\ fetches > 0 => asked >= 1 /\ from >= 1
  /\ fetches = 0 \/ (fetches = 1 /\ pc = "asking") =>
       out = <<>> /\ queue = <<>> /\ first = {} /\ since = 0
  /\ fetches = 1 => asked = from
  /\ walk = "stream" /\ pc \in {"asking", "ok"} => queue = <<>>

LEMMA ListedFacts ==
  ASSUME TypeOK
  PROVE  /\ Listed \in SUBSET items
         /\ Listed \in SUBSET Nat
         /\ Listed \in SUBSET (1 .. added)
         /\ IsFiniteSet(Listed)
         /\ IsFiniteSet(items)
<1>1. items \in SUBSET (1 .. added) /\ 1 \in Int /\ added \in Int
  BY ConstantsAssumption DEF TypeOK
<1>2. IsFiniteSet(1 .. added)
  BY <1>1, FS_Interval
<1>3. IsFiniteSet(items)
  BY <1>1, <1>2, FS_Subset
<1>4. Listed \in SUBSET items
  BY DEF Listed
<1>5. items \in SUBSET Nat
  BY <1>1
<1>6. IsFiniteSet(Listed)
  BY <1>3, <1>4, FS_Subset
<1>. QED BY <1>1, <1>3, <1>4, <1>5, <1>6

LEMMA WalkInit == Init => WalkInv
<1> SUFFICES ASSUME Init PROVE WalkInv
  OBVIOUS
<1>1. PICK n \in 0 .. MaxItems : items = 1 .. n /\ added = n
  BY DEF Init
<1>2. items \subseteq 1 .. added /\ added \in 0 .. MaxItems
  BY <1>1
<1>3. keys \subseteq {"level", "scope"} /\ listing \in Listings \union {"workspace"} /\ from \in Nat
  BY DEF Init
<1>4. body \in Bodies
  BY DEF Init, NoBody, Wrapped, Bodies
<1>5. <<>> \in Seq(1 .. added) /\ Len(<<>>) = 0 /\ 0 <= PageSize
  BY ConstantsAssumption
<1>6. /\ removed \in 0 .. MaxRemoved /\ honest \in BOOLEAN /\ walk \in Walks
      /\ reverse \in BOOLEAN
  <2>1. removed = 0 /\ honest \in BOOLEAN /\ walk \in Walks
    BY DEF Init
  <2>2. 0 \in 0 .. MaxRemoved
    BY ConstantsAssumption
  <2>3. reverse \in (IF walk = "peers" THEN {FALSE} ELSE BOOLEAN)
    BY DEF Init
  <2>. QED BY <2>1, <2>2, <2>3
<1>7. since \in 0 .. added /\ first \subseteq 1 .. since
  BY <1>1 DEF Init
<1>. QED BY <1>2, <1>3, <1>4, <1>5, <1>6, <1>7 DEF Init, TypeOK, WalkInv

\* The page that an answer brings.
LEMMA ServedPage ==
  ASSUME WalkInv, NEW p, NEW n, Answer(p, n)
  PROVE  /\ queue' \in Seq(Listed)
         /\ Len(queue') = Cardinality(PageItems(asked))
         /\ ToSet(queue') = PageItems(asked)
         /\ \A i, j \in DOMAIN queue' : i < j => Before(queue'[i], queue'[j])
         /\ out' = IF walk = "stream" THEN out ELSE out \o queue'
         /\ asked \in Nat \ {0}
         /\ PageItems(asked) \in SUBSET Listed
         /\ IsFiniteSet(PageItems(asked))
         /\ Cardinality(PageItems(asked)) <= PageSize
<1>1. Listed \in SUBSET Nat /\ IsFiniteSet(Listed)
  BY ListedFacts DEF WalkInv
<1>2. asked \in Nat \ {0}
  BY DEF WalkInv, TypeOK, Answer
<1>3. /\ PageItems(asked) \in SUBSET Listed
      /\ IsFiniteSet(PageItems(asked))
      /\ Cardinality(PageItems(asked)) <= PageSize
  BY <1>1, <1>2, PageFacts
<1>4. PICK got \in InListOrder(PageItems(asked)) :
        /\ queue' = got
        /\ out' = IF walk = "stream" THEN out ELSE out \o got
  BY DEF Answer
<1>5. PageItems(asked) \in SUBSET Nat
  BY <1>1, <1>3
<1>6. /\ got \in Seq(PageItems(asked))
      /\ Len(got) = Cardinality(PageItems(asked))
      /\ ToSet(got) = PageItems(asked)
      /\ \A i, j \in DOMAIN got : i < j => Before(got[i], got[j])
  BY <1>3, <1>4, <1>5, InListOrderFacts
<1>7. got \in Seq(Listed)
  BY <1>3, <1>6
<1>. QED BY <1>2, <1>3, <1>4, <1>6, <1>7

LEMMA ReportsType ==
  ASSUME WalkInv, NEW r \in Reports
  PROVE  r[1] \in Nat /\ r[2] \in Nat /\ (honest => r[1] = asked /\ r[2] = PageCount)
<1>1. PageCount \in Nat /\ asked \in Nat
  BY ListedFacts, PageCountFacts DEF WalkInv, TypeOK
<1>. QED BY <1>1 DEF Reports

LEMMA FirstBodyType ==
  ASSUME TypeOK
  PROVE  FirstBody \in Bodies
<1>1. keys \subseteq {"level", "scope"} /\ listing \in {"workspace", "peer", "session", "scope"}
  BY ConstantsAssumption DEF TypeOK
<1>. QED
  BY <1>1 DEF FirstBody, WorkspaceBody, PeerBody, SessionBody, ScopeBody, NoBody, Wrapped, Bare,
     Bodies

LEMMA WalkNext == WalkInv /\ [Next]_vars => WalkInv'
<1> SUFFICES ASSUME WalkInv, [Next]_vars PROVE WalkInv'
  OBVIOUS
<1> USE DEF WalkInv
<1>1. CASE Begin
  <2>1. FirstBody \in Bodies
    BY FirstBodyType
  <2>2. asked' \in Nat /\ asked' >= 1 /\ fetches' = 1
    BY <1>1 DEF Begin, AskWith, ValidPagination, TypeOK
  <2>3. pc = "start" /\ pc' = "asking" /\ body' = FirstBody
    BY <1>1 DEF Begin, AskWith
  <2>4. /\ asked' = from /\ from >= 1 /\ fetches = 0
        /\ UNCHANGED <<choice, server_vars, page, pages, queue, out, history>>
    BY <1>1, <2>3 DEF Begin, AskWith, ValidPagination, TypeOK
  <2>5. body' \in Bodies
    BY <2>1, <2>3
  <2>6. TypeOK'
    BY <2>2, <2>3, <2>4, <2>5 DEF TypeOK, choice, server_vars, history
  <2>. QED BY <2>2, <2>3, <2>4, <2>6 DEF choice, server_vars, history
<1>2. CASE Refuse
  BY <1>2 DEF Refuse, TypeOK, choice, server_vars, history
<1>3. CASE Yield
  <2>1. /\ out \in Seq(1 .. added) /\ queue \in Seq(1 .. added) /\ queue # <<>>
        /\ out' = Append(out, Head(queue)) /\ queue' = Tail(queue)
    BY <1>3 DEF Yield, TypeOK
  <2>2. out' \in Seq(1 .. added) /\ queue' \in Seq(1 .. added) /\ Len(queue') <= Len(queue)
    BY <2>1, HeadMoved
  <2>3. Len(queue') <= PageSize
    BY <2>1, <2>2, ConstantsAssumption DEF TypeOK
  <2>. QED BY <1>3, <2>2, <2>3 DEF Yield, TypeOK, choice, server_vars, history
<1>4. CASE StreamNext
  BY <1>4 DEF StreamNext, Finish, Ask, AskWith, TypeOK, choice, server_vars, history
<1>5. CASE CollectNext
  BY <1>5 DEF CollectNext, Finish, Ask, AskWith, TypeOK, choice, server_vars, history
<1>6. CASE PeersNext
  BY <1>6 DEF PeersNext, Finish, Ask, AskWith, TypeOK, choice, server_vars, history
<1>7. CASE FetchFails
  BY <1>7 DEF FetchFails, TypeOK, choice, server_vars, history
<1>8. ASSUME NEW r \in Reports, Answer(r[1], r[2]) PROVE WalkInv'
  <2>1. r[1] \in Nat /\ r[2] \in Nat
    BY ReportsType
  <2>2. Listed \in SUBSET (1 .. added)
    BY ListedFacts
  <2>3. queue' \in Seq(1 .. added) /\ Len(queue') <= PageSize
    <3>1. /\ queue' \in Seq(Listed)
          /\ Len(queue') = Cardinality(PageItems(asked))
          /\ Cardinality(PageItems(asked)) <= PageSize
      BY <1>8, ServedPage
    <3>2. queue' \in Seq(1 .. added)
      BY <2>2, <3>1, SeqOfMore
    <3>. QED BY <3>1, <3>2
  <2>4. out' \in Seq(1 .. added)
    <3>1. out \in Seq(1 .. added)
      BY DEF TypeOK
    <3>2. out \o queue' \in Seq(1 .. added)
      BY <2>3, <3>1, ConcatType
    <3>. QED BY <1>8, <3>1, <3>2, ServedPage
  <2>5. first' \subseteq 1 .. since' /\ since' \in 0 .. added
    <3>1. added \in Nat /\ first \subseteq 1 .. since /\ since \in 0 .. added
      BY ConstantsAssumption DEF TypeOK
    <3>2. CASE fetches = 1
      <4>1. first' = Beyond(Listed, (from - 1) * PageSize) /\ since' = added
        BY <1>8, <3>2 DEF Answer
      <4>2. first' \subseteq Listed
        BY <4>1 DEF Beyond
      <4>3. first' \subseteq 1 .. added
        BY <2>2, <4>2
      <4>4. since' = added
        BY <4>1
      <4>. QED BY <3>1, <4>3, <4>4
    <3>3. CASE fetches # 1
      BY <1>8, <3>1, <3>3 DEF Answer, history
    <3>. QED BY <3>2, <3>3
  <2>6. /\ UNCHANGED <<choice, server_vars, asked, body, fetches>>
        /\ pc = "asking" /\ pc' = "yielding" /\ page' = r[1] /\ pages' = r[2]
    BY <1>8 DEF Answer
  <2>. QED BY <2>1, <2>3, <2>4, <2>5, <2>6 DEF TypeOK, choice, server_vars
<1>9. CASE AddItem
  <2>1. added' = added + 1 /\ added' \in 0 .. MaxItems /\ added \in Nat
    BY <1>9, ConstantsAssumption DEF AddItem, TypeOK
  <2>2. 1 .. added \subseteq 1 .. added' /\ items' \subseteq 1 .. added'
    BY <1>9, <2>1 DEF AddItem, TypeOK
  <2>3. queue \in Seq(1 .. added') /\ out \in Seq(1 .. added')
    BY <2>2, SeqOfMore DEF TypeOK
  <2>. QED BY <1>9, <2>1, <2>2, <2>3 DEF AddItem, TypeOK, choice, history
<1>10. CASE RemoveItem
  <2>1. removed' \in 0 .. MaxRemoved /\ items' \subseteq 1 .. added
    BY <1>10, ConstantsAssumption DEF RemoveItem, TypeOK
  <2>. QED BY <1>10, <2>1 DEF RemoveItem, TypeOK, choice, history
<1>11. CASE UNCHANGED vars
  BY <1>11 DEF vars, TypeOK, choice, server_vars, history
<1>. QED BY <1>1, <1>2, <1>3, <1>4, <1>5, <1>6, <1>7, <1>8, <1>9, <1>10, <1>11 DEF Next, Onward,
         Fetched

LEMMA Walking == Spec => []WalkInv
BY WalkInit, WalkNext, PTL DEF Spec

\* Every variable keeps its type, no page but the first is asked for that the server
\* has not said it has, and a refused walk asks for none: for any sizes and bounds.
THEOREM TypeCorrect == Spec => []TypeOK
<1>1. WalkInv => TypeOK
  BY DEF WalkInv
<1>. QED BY Walking, <1>1, PTL

-----------------------------------------------------------------------------
(* The cap. *)

CapInv ==
  /\ CapRespected
  /\ pc = "capped" => walk = "collect"

LEMMA CapNext == WalkInv /\ CapInv /\ [Next]_vars => CapInv'
<1> SUFFICES ASSUME WalkInv, CapInv, [Next]_vars PROVE CapInv'
  OBVIOUS
<1> USE DEF CapInv, CapRespected
<1>1. CASE Begin
  <2>1. fetches' = 1 /\ pc' = "asking"
    BY <1>1 DEF Begin, AskWith, WalkInv, TypeOK
  <2>. QED BY <1>1, <2>1, ConstantsAssumption DEF Begin, choice
<1>2. CASE Refuse
  BY <1>2 DEF Refuse, choice
<1>3. CASE Yield
  BY <1>3 DEF Yield, choice
<1>4. CASE StreamNext
  BY <1>4 DEF StreamNext, Finish, Ask, AskWith, choice
<1>5. CASE CollectNext
  BY <1>5, ConstantsAssumption DEF CollectNext, Finish, Ask, AskWith, WalkInv, TypeOK, choice
<1>6. CASE PeersNext
  BY <1>6 DEF PeersNext, Finish, Ask, AskWith, choice
<1>7. CASE FetchFails
  BY <1>7 DEF FetchFails, choice
<1>8. ASSUME NEW r \in Reports, Answer(r[1], r[2]) PROVE CapInv'
  BY <1>8 DEF Answer, choice
<1>9. CASE AddItem
  BY <1>9 DEF AddItem, choice
<1>10. CASE RemoveItem
  BY <1>10 DEF RemoveItem, choice
<1>11. CASE UNCHANGED vars
  BY <1>11 DEF vars, choice
<1>. QED BY <1>1, <1>2, <1>3, <1>4, <1>5, <1>6, <1>7, <1>8, <1>9, <1>10, <1>11 DEF Next, Onward,
         Fetched

\* collect_all_pages asks for no page beyond its cap, and refuses only a walk that
\* has asked for as many pages as the cap allows and has not seen the last one: for
\* any cap and whatever the server reports.
THEOREM CapRespectedHolds == Spec => []CapRespected
<1>1. Init => CapInv
  BY ConstantsAssumption DEF Init, CapInv, CapRespected
<1>2. CapInv => CapRespected
  BY DEF CapInv
<1>. QED BY Walking, <1>1, <1>2, CapNext, PTL DEF Spec

-----------------------------------------------------------------------------
(* The filters. *)

\* What the first request asks for stays the body of all, and no item was served
\* that does not pass it.
FilterInv ==
  /\ fetches > 0 => body = FirstBody
  /\ \A i \in ToSet(out) \union ToSet(queue) \union first : Passes(i, body.filters)

LEMMA FilterInit == Init => FilterInv
<1>1. ToSet(<<>>) = {}
  BY DEF ToSet
<1>. QED BY <1>1 DEF Init, FilterInv

LEMMA FilterNext == WalkInv /\ FilterInv /\ [Next]_vars => FilterInv'
<1> SUFFICES ASSUME WalkInv, FilterInv, [Next]_vars PROVE FilterInv'
  OBVIOUS
<1>0. TypeOK
  BY DEF WalkInv
<1>1. CASE Begin
  <2>1. fetches = 0 /\ body' = FirstBody /\ UNCHANGED <<choice, queue, out, first>>
    BY <1>0, <1>1 DEF Begin, AskWith, TypeOK, history
  <2>2. ToSet(out') = {} /\ ToSet(queue') = {} /\ first' = {}
    BY <2>1 DEF WalkInv, ToSet
  <2>3. FirstBody' = FirstBody
    BY <2>1 DEF FirstBody, WorkspaceBody, PeerBody, SessionBody, ScopeBody, choice
  <2>. QED BY <2>1, <2>2, <2>3 DEF FilterInv
<1>2. ASSUME UNCHANGED <<choice, body, queue, out, first>>, fetches' > 0 => fetches > 0
      PROVE  FilterInv'
  BY <1>2 DEF FilterInv, FirstBody, WorkspaceBody, PeerBody, SessionBody, ScopeBody, Passes,
     choice
<1>3. CASE Refuse
  BY <1>2, <1>3 DEF Refuse, history
<1>4. CASE Yield
  <2>1. /\ out \in Seq(1 .. added) /\ queue \in Seq(1 .. added) /\ queue # <<>>
        /\ out' = Append(out, Head(queue)) /\ queue' = Tail(queue)
        /\ UNCHANGED <<choice, body, first, fetches>>
    BY <1>0, <1>4 DEF Yield, TypeOK, history
  <2>2. ToSet(Append(out, Head(queue))) \union ToSet(Tail(queue)) = ToSet(out) \union ToSet(queue)
    <3>1. out \in Seq(1 .. added) /\ queue \in Seq(1 .. added) /\ queue # <<>>
      BY <2>1
    <3>. QED BY <3>1, HeadMoved
  <2>3. ToSet(out') \union ToSet(queue') = ToSet(out) \union ToSet(queue)
    BY <2>1, <2>2
  <2>. QED BY <2>1, <2>3
       DEF FilterInv, FirstBody, WorkspaceBody, PeerBody, SessionBody, ScopeBody, Passes, choice
<1>5. CASE StreamNext \/ CollectNext \/ PeersNext
  <2>1. UNCHANGED <<choice, body, queue, out, first>> /\ fetches > 0
    BY <1>0, <1>5
       DEF StreamNext, CollectNext, PeersNext, Finish, Ask, AskWith, TypeOK, history
  <2>. QED BY <1>2, <2>1
<1>6. CASE FetchFails
  BY <1>2, <1>6 DEF FetchFails, history
<1>7. ASSUME NEW r \in Reports, Answer(r[1], r[2]) PROVE FilterInv'
  <2>1. ToSet(queue') \subseteq Listed
    BY <1>7, ServedPage
  <2>2. ToSet(out') \subseteq ToSet(out) \union ToSet(queue')
    <3>1. out \in Seq(1 .. added) /\ queue' \in Seq(Listed) /\ Listed \in SUBSET (1 .. added)
      BY <1>0, <1>7, ServedPage, ListedFacts DEF TypeOK
    <3>2. queue' \in Seq(1 .. added)
      BY <3>1, SeqOfMore
    <3>3. ToSet(out \o queue') = ToSet(out) \union ToSet(queue')
      BY <3>1, <3>2, ConcatType
    <3>. QED BY <1>7, <3>3, ServedPage
  <2>3. first' \subseteq Listed \union first
    BY <1>7 DEF Answer, Beyond, history
  <2>4. \A i \in Listed : Passes(i, body.filters)
    BY DEF Listed
  <2>5. UNCHANGED <<choice, body, fetches>>
    BY <1>7 DEF Answer
  <2>. QED BY <2>1, <2>2, <2>3, <2>4, <2>5
       DEF FilterInv, FirstBody, WorkspaceBody, PeerBody, SessionBody, ScopeBody, Passes, choice
<1>8. CASE AddItem
  BY <1>2, <1>8 DEF AddItem, history
<1>9. CASE RemoveItem
  BY <1>2, <1>9 DEF RemoveItem, history
<1>10. CASE UNCHANGED vars
  BY <1>2, <1>10 DEF vars, history
<1>. QED BY <1>1, <1>3, <1>4, <1>5, <1>6, <1>7, <1>8, <1>9, <1>10 DEF Next, Onward, Fetched

LEMMA Filtering == Spec => []FilterInv
BY Walking, FilterInit, FilterNext, PTL DEF Spec

\* All pages of a list keep to the caller's filters, and those of a scope of
\* conclusions to the scope: for any filters, sizes and changes, whatever pages the
\* server reports.  messages_with_options is the exception (run MessagesUnfiltered).
THEOREM ListedOnlyWhatWasAskedHolds == Spec => []ListedOnlyWhatWasAsked
<1>1. WalkInv /\ FilterInv => ListedOnlyWhatWasAsked
  <2> SUFFICES ASSUME WalkInv, FilterInv, listing # "session", NEW i \in ToSet(out)
               PROVE  Passes(i, keys \union (IF listing = "scope" THEN {"scope"} ELSE {}))
    BY DEF ListedOnlyWhatWasAsked
  <2>1. listing \in {"workspace", "peer", "scope"}
    BY ConstantsAssumption DEF WalkInv, TypeOK
  <2>2. fetches > 0
    <3>1. fetches = 0 => ToSet(out) = {}
      BY DEF WalkInv, ToSet
    <3>. QED BY <3>1 DEF WalkInv, TypeOK
  <2>3. FirstBody.filters = keys \union (IF listing = "scope" THEN {"scope"} ELSE {})
    BY <2>1 DEF FirstBody, WorkspaceBody, PeerBody, ScopeBody, NoBody, Wrapped
  <2>4. Passes(i, FirstBody.filters)
    BY <2>2 DEF FilterInv
  <2>. QED BY <2>3, <2>4
<1>. QED BY Walking, Filtering, <1>1, PTL

-----------------------------------------------------------------------------
(* What lies beyond the pages served, as items come and go.                *)

LEMMA BeyondLess ==
  ASSUME NEW S \in SUBSET Nat, IsFiniteSet(S), NEW m \in Nat, NEW n \in Nat, m <= n
  PROVE  Beyond(S, n) \subseteq Beyond(S, m)
<1>1. ASSUME NEW i \in S, Rank(S, i) >= n PROVE Rank(S, i) >= m
  <2>1. Rank(S, i) \in Nat
    BY RankType
  <2>. QED BY <1>1, <2>1
<1>. QED BY <1>1 DEF Beyond

\* An item that comes moves at most one of the others over a boundary, and none
\* that is before it.
LEMMA BeyondWith ==
  ASSUME NEW S \in SUBSET Nat, IsFiniteSet(S), NEW x \in Nat \ S, NEW n \in Nat
  PROVE  /\ Beyond(S, n) \subseteq Beyond(S \union {x}, n)
         /\ \E j \in Nat : Beyond(S \union {x}, n) \subseteq Beyond(S, n) \union {x, j}
         /\ (\A i \in S : ~Before(x, i)) =>
              Beyond(S \union {x}, n) \subseteq Beyond(S, n) \union {x}
<1>1. ASSUME NEW i \in S
      PROVE  /\ Rank(S, i) \in Nat
             /\ Rank(S \union {x}, i) = IF Before(x, i) THEN Rank(S, i) + 1 ELSE Rank(S, i)
  BY RankType, RankWith
<1>2. ASSUME NEW i \in S, Rank(S, i) >= n PROVE Rank(S \union {x}, i) >= n
  BY <1>1, <1>2
<1>3. ASSUME NEW i \in S, ~Before(x, i), Rank(S \union {x}, i) >= n PROVE Rank(S, i) >= n
  BY <1>1, <1>3
<1>4. ASSUME NEW i \in S, Rank(S, i) + 1 # n, Rank(S \union {x}, i) >= n PROVE Rank(S, i) >= n
  BY <1>1, <1>4
<1>5. \E j \in Nat : Beyond(S \union {x}, n) \subseteq Beyond(S, n) \union {x, j}
  <2>1. CASE \E j \in S : Rank(S, j) + 1 = n
    <3>1. PICK j \in S : Rank(S, j) + 1 = n
      BY <2>1
    <3>2. ASSUME NEW i \in S, i # j PROVE Rank(S, i) + 1 # n
      <4>1. Rank(S, i) # Rank(S, j) /\ Rank(S, i) \in Nat /\ Rank(S, j) \in Nat
        BY <1>1, <3>2, RankInjective
      <4>. QED BY <3>1, <4>1
    <3>3. Beyond(S \union {x}, n) \subseteq Beyond(S, n) \union {x, j}
      BY <1>4, <3>2 DEF Beyond
    <3>. QED BY <3>3
  <2>2. CASE ~\E j \in S : Rank(S, j) + 1 = n
    <3>1. Beyond(S \union {x}, n) \subseteq Beyond(S, n) \union {x}
      BY <1>4, <2>2 DEF Beyond
    <3>. QED BY <3>1
  <2>. QED BY <2>1, <2>2
<1>6. Beyond(S, n) \subseteq Beyond(S \union {x}, n)
  BY <1>2 DEF Beyond
<1>7. ASSUME \A i \in S : ~Before(x, i)
      PROVE  Beyond(S \union {x}, n) \subseteq Beyond(S, n) \union {x}
  BY <1>3, <1>7 DEF Beyond
<1>. QED BY <1>5, <1>6, <1>7

\* An item that goes moves at most one of the others back over a boundary.
LEMMA BeyondWithout ==
  ASSUME NEW S \in SUBSET Nat, IsFiniteSet(S), NEW x \in S, NEW n \in Nat
  PROVE  /\ Beyond(S \ {x}, n) \subseteq Beyond(S, n)
         /\ \E j \in Nat : Beyond(S, n) \subseteq Beyond(S \ {x}, n) \union {x, j}
<1>1. ASSUME NEW i \in S
      PROVE  /\ Rank(S, i) \in Nat
             /\ Rank(S \ {x}, i) = IF Before(x, i) THEN Rank(S, i) - 1 ELSE Rank(S, i)
  BY RankType, RankWithout
<1>2. ASSUME NEW i \in S, Rank(S \ {x}, i) >= n PROVE Rank(S, i) >= n
  BY <1>1, <1>2
<1>3. ASSUME NEW i \in S, Rank(S, i) # n, Rank(S, i) >= n PROVE Rank(S \ {x}, i) >= n
  BY <1>1, <1>3
<1>4. \E j \in Nat : Beyond(S, n) \subseteq Beyond(S \ {x}, n) \union {x, j}
  <2>1. CASE \E j \in S : Rank(S, j) = n
    <3>1. PICK j \in S : Rank(S, j) = n
      BY <2>1
    <3>2. ASSUME NEW i \in S, i # j PROVE Rank(S, i) # n
      BY <3>1, <3>2, RankInjective
    <3>3. Beyond(S, n) \subseteq Beyond(S \ {x}, n) \union {x, j}
      BY <1>3, <3>2 DEF Beyond
    <3>. QED BY <3>3
  <2>2. CASE ~\E j \in S : Rank(S, j) = n
    <3>1. Beyond(S, n) \subseteq Beyond(S \ {x}, n) \union {x}
      BY <1>3, <2>2 DEF Beyond
    <3>. QED BY <3>1
  <2>. QED BY <2>1, <2>2
<1>5. Beyond(S \ {x}, n) \subseteq Beyond(S, n)
  BY <1>2 DEF Beyond
<1>. QED BY <1>4, <1>5

\* The page served takes what is beyond the one before and not beyond itself.
LEMMA PageSplits ==
  ASSUME Listed \in SUBSET Nat, IsFiniteSet(Listed), NEW p \in Nat \ {0}
  PROVE  /\ Beyond(Listed, p * PageSize) \subseteq Beyond(Listed, (p - 1) * PageSize)
         /\ PageItems(p) = Beyond(Listed, (p - 1) * PageSize) \ Beyond(Listed, p * PageSize)
         /\ \A i \in PageItems(p), j \in Beyond(Listed, p * PageSize) : Before(i, j)
<1>1. PICK a \in Nat, b \in Nat : a = (p - 1) * PageSize /\ b = p * PageSize /\ a <= b
  <2>1. /\ (p - 1) * PageSize \in Nat /\ PageSize \in Nat
        /\ p * PageSize = (p - 1) * PageSize + PageSize
    BY PageBounds
  <2>. QED BY <2>1
<1>2. Beyond(Listed, b) \subseteq Beyond(Listed, a)
  BY <1>1, BeyondLess
<1>3. PageItems(p) = Beyond(Listed, a) \ Beyond(Listed, b)
  BY <1>1 DEF PageItems
<1>4. ASSUME NEW i \in PageItems(p), NEW j \in Beyond(Listed, b) PROVE Before(i, j)
  <2>1. i \in Listed /\ j \in Listed /\ Rank(Listed, i) \in Nat /\ Rank(Listed, j) \in Nat
    BY <1>3, RankType DEF Beyond
  <2>2. Rank(Listed, i) < b /\ b <= Rank(Listed, j)
    BY <1>1, <1>3, <2>1 DEF Beyond
  <2>3. Rank(Listed, i) < Rank(Listed, j)
    BY <1>1, <2>1, <2>2
  <2>. QED BY <2>1, <2>3, RankOrder
<1>. QED BY <1>1, <1>2, <1>3, <1>4

-----------------------------------------------------------------------------
(* What has been served.                                                   *)

\* The items handed out or about to be, the last page that was served, and what
\* there is beyond it.
Total == IF walk = "stream" THEN out \o queue ELSE out
Seen == ToSet(Total)
Through == IF pc = "asking" THEN asked - 1 ELSE asked
Rest == Beyond(Listed, Through * PageSize)

LEMMA ServedFacts ==
  ASSUME WalkInv
  PROVE  /\ Total \in Seq(1 .. added)
         /\ Seen \in SUBSET (1 .. added)
         /\ IsFiniteSet(Seen) /\ Cardinality(Seen) \in Nat
         /\ Rest \in SUBSET Listed
         /\ IsFiniteSet(Rest)
         /\ fetches > 0 => Through \in Nat /\ Through * PageSize \in Nat
<1>1. out \in Seq(1 .. added) /\ queue \in Seq(1 .. added)
  BY DEF WalkInv, TypeOK
<1>2. Total \in Seq(1 .. added)
  BY <1>1, ConcatType DEF Total
<1>3. Rest \in SUBSET Listed /\ IsFiniteSet(Rest)
  <2>1. Rest \in SUBSET Listed
    BY DEF Rest, Beyond
  <2>. QED BY <2>1, ListedFacts, FS_Subset DEF WalkInv
<1>4. fetches > 0 => Through \in Nat /\ Through * PageSize \in Nat
  BY ConstantsAssumption DEF Through, WalkInv, TypeOK
<1>. QED BY <1>2, <1>3, <1>4, ToSetCardinality DEF Seen

LEMMA YieldTotal ==
  ASSUME WalkInv, Yield
  PROVE  Total' = Total
<1>1. /\ out \in Seq(1 .. added) /\ queue \in Seq(1 .. added) /\ queue # <<>>
      /\ walk = "stream"
  BY DEF Yield, WalkInv, TypeOK
<1>2. Append(out, Head(queue)) \o Tail(queue) = out \o queue
  BY <1>1, HeadMoved
<1>3. out' = Append(out, Head(queue)) /\ queue' = Tail(queue) /\ walk' = walk
  BY DEF Yield, choice
<1>. QED BY <1>1, <1>2, <1>3 DEF Total

LEMMA AnswerTotal ==
  ASSUME WalkInv, NEW p, NEW n, Answer(p, n)
  PROVE  /\ Total' = Total \o queue'
         /\ queue' \in Seq(1 .. added)
         /\ Seen' = Seen \union PageItems(asked)
         /\ Through = asked - 1 /\ Through' = asked
         /\ UNCHANGED <<choice, server_vars, asked, body, fetches>>
<1>1. out \in Seq(1 .. added) /\ queue' \in Seq(1 .. added)
  <2>1. queue' \in Seq(Listed) /\ Listed \subseteq 1 .. added
    BY ServedPage, ListedFacts DEF WalkInv
  <2>. QED BY <2>1, SeqOfMore DEF WalkInv, TypeOK
<1>2. UNCHANGED <<choice, server_vars, asked, body, fetches>> /\ pc = "asking" /\ pc' = "yielding"
  BY DEF Answer
<1>3. Total' = Total \o queue'
  <2>1. CASE walk = "stream"
    <3>1. queue = <<>> /\ out' = out /\ walk' = walk
      BY <1>2, <2>1, ServedPage DEF WalkInv, choice
    <3>2. out \o <<>> = out
      BY <1>1
    <3>. QED BY <2>1, <3>1, <3>2 DEF Total
  <2>2. CASE walk # "stream"
    BY <1>2, <2>2, ServedPage DEF Total, choice
  <2>. QED BY <2>1, <2>2
<1>4. Seen' = Seen \union PageItems(asked)
  <2>1. Total \in Seq(1 .. added) /\ ToSet(queue') = PageItems(asked)
    BY ServedFacts, ServedPage
  <2>2. ToSet(Total \o queue') = ToSet(Total) \union ToSet(queue')
    BY <1>1, <2>1, ConcatType
  <2>3. Seen' = ToSet(Total \o queue')
    BY <1>3 DEF Seen
  <2>. QED BY <2>1, <2>2, <2>3 DEF Seen
<1>. QED BY <1>1, <1>2, <1>3, <1>4 DEF Through

LEMMA OneMore ==
  ASSUME NEW B, IsFiniteSet(B), NEW j, NEW A, A \subseteq B \union {j}
  PROVE  Cardinality(A) \in Nat /\ Cardinality(B) \in Nat /\ Cardinality(A) <= Cardinality(B) + 1
<1>1. IsFiniteSet(B \union {j}) /\ Cardinality(B \union {j}) <= Cardinality(B) + 1
      /\ Cardinality(B) \in Nat
  <2>1. Cardinality(B) \in Nat
    BY FS_CardinalityType
  <2>2. CASE j \in B
    <3>1. B \union {j} = B
      BY <2>2
    <3>. QED BY <2>1, <3>1
  <2>3. CASE j \notin B
    <3>1. IsFiniteSet(B \union {j}) /\ Cardinality(B \union {j}) = Cardinality(B) + 1
      BY <2>3, FS_AddElement
    <3>. QED BY <2>1, <3>1
  <2>. QED BY <2>2, <2>3
<1>2. IsFiniteSet(A) /\ Cardinality(A) <= Cardinality(B \union {j})
  BY <1>1, FS_Subset
<1>3. Cardinality(A) \in Nat /\ Cardinality(B \union {j}) \in Nat
  BY <1>1, <1>2, FS_CardinalityType
<1>. QED BY <1>1, <1>2, <1>3

LEMMA NoMore ==
  ASSUME NEW B, IsFiniteSet(B), NEW A, A \subseteq B
  PROVE  Cardinality(A) \in Nat /\ Cardinality(B) \in Nat /\ Cardinality(A) <= Cardinality(B)
BY FS_Subset, FS_CardinalityType

LEMMA IncreasingConcat ==
  ASSUME NEW s \in Seq(Nat), NEW t \in Seq(Nat), Increasing(s), Increasing(t),
         \A x \in ToSet(s), y \in ToSet(t) : x < y
  PROVE  Increasing(s \o t)
<1>1. /\ Len(s) \in Nat /\ Len(t) \in Nat
      /\ DOMAIN s = 1 .. Len(s) /\ DOMAIN t = 1 .. Len(t) /\ DOMAIN (s \o t) = 1 .. Len(s) + Len(t)
      /\ \A i \in 1 .. Len(s) + Len(t) :
           (s \o t)[i] = IF i <= Len(s) THEN s[i] ELSE t[i - Len(s)]
  OBVIOUS
<1> SUFFICES ASSUME NEW i \in DOMAIN (s \o t), NEW j \in DOMAIN (s \o t), i < j
             PROVE  (s \o t)[i] < (s \o t)[j]
  BY DEF Increasing
<1>2. CASE j <= Len(s)
  BY <1>1, <1>2 DEF Increasing
<1>3. CASE i > Len(s)
  <2>1. i - Len(s) \in DOMAIN t /\ j - Len(s) \in DOMAIN t /\ i - Len(s) < j - Len(s)
    BY <1>1, <1>3
  <2>2. t[i - Len(s)] < t[j - Len(s)]
    BY <2>1 DEF Increasing
  <2>. QED BY <1>1, <1>3, <2>2
<1>4. CASE i <= Len(s) /\ j > Len(s)
  <2>1. i \in DOMAIN s /\ j - Len(s) \in DOMAIN t
    BY <1>1, <1>4
  <2>2. s[i] \in ToSet(s) /\ t[j - Len(s)] \in ToSet(t)
    BY <2>1 DEF ToSet
  <2>. QED BY <1>1, <1>4, <2>2
<1>. QED BY <1>1, <1>2, <1>3, <1>4

-----------------------------------------------------------------------------
(* A server that is honest about its pages.                                *)

HonestInv == honest /\ pc \in {"yielding", "ok", "capped"} => page = asked

LEMMA HonestNext == WalkInv /\ HonestInv /\ [Next]_vars => HonestInv'
<1> SUFFICES ASSUME WalkInv, HonestInv, [Next]_vars PROVE HonestInv'
  OBVIOUS
<1> USE DEF HonestInv
<1>1. CASE Begin \/ Refuse \/ FetchFails
  BY <1>1 DEF Begin, Refuse, FetchFails, AskWith, choice
<1>2. CASE Yield
  BY <1>2 DEF Yield, choice
<1>3. CASE StreamNext \/ CollectNext \/ PeersNext
  BY <1>3 DEF StreamNext, CollectNext, PeersNext, Finish, Ask, AskWith, choice
<1>4. ASSUME NEW r \in Reports, Answer(r[1], r[2]) PROVE HonestInv'
  BY <1>4, ReportsType DEF Answer, choice
<1>5. CASE AddItem \/ RemoveItem
  BY <1>5 DEF AddItem, RemoveItem, choice
<1>6. CASE UNCHANGED vars
  BY <1>6 DEF vars, choice
<1>. QED BY <1>1, <1>2, <1>3, <1>4, <1>5, <1>6 DEF Next, Onward, Fetched

LEMMA Honestly == Spec => []HonestInv
<1>1. Init => HonestInv
  BY DEF Init, HonestInv
<1>. QED BY Walking, <1>1, HonestNext, PTL DEF Spec

\* Going on to the next page leaves what was served, and what is beyond it, as it is.
LEMMA GoesOn ==
  ASSUME WalkInv, HonestInv, honest, StreamNext \/ CollectNext \/ PeersNext
  PROVE  /\ Through' = Through
         /\ UNCHANGED <<choice, server_vars, body, page, pages, queue, out, history>>
         /\ fetches > 0 /\ pc = "yielding" /\ pc' \in {"asking", "ok", "capped"}
<1>1. /\ UNCHANGED <<choice, server_vars, body, page, pages, queue, out, history>>
      /\ pc = "yielding" /\ page = asked
      /\ \/ pc' \in {"ok", "capped"} /\ asked' = asked
         \/ pc' = "asking" /\ asked' = asked + 1
  BY DEF StreamNext, CollectNext, PeersNext, Finish, Ask, AskWith, HonestInv
<1>2. fetches > 0 /\ asked \in Nat
  BY <1>1 DEF WalkInv, TypeOK
<1>. QED BY <1>1, <1>2 DEF Through

LEMMA RestKept ==
  ASSUME UNCHANGED <<reverse, body, items>>
  PROVE  /\ Listed' = Listed
         /\ \A n : Beyond(Listed, n)' = Beyond(Listed, n)
BY DEF Listed, Beyond, Rank, Before

LEMMA ListedAfterAdd ==
  ASSUME WalkInv, AddItem
  PROVE  /\ Listed' = IF Passes(added + 1, body.filters) THEN Listed \union {added + 1} ELSE Listed
         /\ added + 1 \in Nat \ Listed
         /\ \A i \in Listed \union Seen \union first : i < added + 1 /\ i \in Nat
         /\ UNCHANGED <<choice, Total, Through, body, since, first, removed, pc, page, pages, queue, fetches>>
<1>1. added \in Nat /\ since \in 0 .. added /\ first \subseteq 1 .. since
  BY ConstantsAssumption DEF WalkInv, TypeOK
<1>2. UNCHANGED <<choice, Total, Through, body, since, first, removed, pc, page, pages, queue, fetches>>
  BY DEF AddItem, Total, Through, choice, history
<1>3. Listed \subseteq 1 .. added /\ Seen \subseteq 1 .. added
  BY ListedFacts, ServedFacts DEF WalkInv
<1>4. items' = items \union {added + 1} /\ body' = body
  BY DEF AddItem
<1>5. Listed' = IF Passes(added + 1, body.filters) THEN Listed \union {added + 1} ELSE Listed
  BY <1>4 DEF Listed, Passes
<1>6. \A i \in Listed \union Seen \union first : i \in 1 .. added
  BY <1>1, <1>3
<1>. QED BY <1>1, <1>2, <1>3, <1>5, <1>6

LEMMA ListedAfterRemove ==
  ASSUME WalkInv, RemoveItem
  PROVE  /\ \E x \in items : items' = items \ {x} /\ Listed' = Listed \ {x}
         /\ removed' = removed + 1
         /\ UNCHANGED <<choice, Total, Through, body, since, first, added, pc, page, pages, queue, fetches>>
<1>1. PICK x \in items : items' = items \ {x}
  BY DEF RemoveItem
<1>2. UNCHANGED <<choice, Total, Through, body, since, first, added, pc, page, pages, queue, fetches>>
      /\ removed' = removed + 1
  BY DEF RemoveItem, Total, Through, choice, history
<1>3. Listed' = Listed \ {x}
  BY <1>1, <1>2 DEF Listed, Passes
<1>. QED BY <1>1, <1>2, <1>3

-----------------------------------------------------------------------------
(* Order.                                                                  *)

\* Oldest first, what is still to come is younger than all that was served.  Newest
\* first, each item added since the first page can have moved one that was served
\* beyond the last page, from where it comes again: the items served twice and those
\* that will be are together no more than the items added.
OrderInv ==
  honest /\ fetches > 0 =>
    /\ ~reverse => /\ Increasing(Total)
                   /\ \A i \in Seen : \A j \in Rest : i < j
    /\ reverse => Len(Total) + Cardinality(Seen \intersect Rest) + since
                    <= Cardinality(Seen) + added

LEMMA OrderKept ==
  ASSUME WalkInv, OrderInv, UNCHANGED <<choice, Total, since, added>>,
         fetches > 0, Rest' \subseteq Rest
  PROVE  OrderInv'
<1>1. UNCHANGED <<honest, reverse, Total, Seen>>
  BY DEF choice, Seen
<1>2. /\ Cardinality(Seen \intersect Rest') <= Cardinality(Seen \intersect Rest)
      /\ Cardinality(Seen \intersect Rest') \in Nat /\ Cardinality(Seen \intersect Rest) \in Nat
  <2>1. IsFiniteSet(Seen \intersect Rest)
    BY ServedFacts, FS_Intersection
  <2>2. Seen \intersect Rest' \subseteq Seen \intersect Rest
    OBVIOUS
  <2>. QED BY <2>1, <2>2, NoMore
<1>3. Len(Total) \in Nat /\ since \in Nat /\ added \in Nat /\ Cardinality(Seen) \in Nat
  BY ServedFacts, ConstantsAssumption DEF WalkInv, TypeOK
<1>4. ASSUME honest, ~reverse
      PROVE  Increasing(Total) /\ \A i \in Seen : \A j \in Rest' : i < j
  BY <1>4 DEF OrderInv
<1>5. ASSUME honest, reverse
      PROVE  Len(Total) + Cardinality(Seen \intersect Rest') + since <= Cardinality(Seen) + added
  <2>1. Len(Total) + Cardinality(Seen \intersect Rest) + since <= Cardinality(Seen) + added
    BY <1>5 DEF OrderInv
  <2>. QED BY <1>2, <1>3, <2>1
<1>6. since' = since /\ added' = added
  OBVIOUS
<1>. QED BY <1>1, <1>4, <1>5, <1>6 DEF OrderInv

LEMMA CountPage ==
  ASSUME NEW total \in Nat, NEW seen \in Nat, NEW more \in Nat, NEW again \in Nat,
         NEW later \in Nat, NEW before \in Nat, NEW now \in Nat,
         total + again + later + before <= seen + now
  PROVE  total + more + later + before <= seen + more - again + now
OBVIOUS

LEMMA OneMovesBeyond ==
  ASSUME NEW S \in SUBSET Nat, IsFiniteSet(S), NEW x \in Nat \ S, NEW n \in Nat
  PROVE  \E j \in Nat : Beyond(S \union {x}, n) \subseteq Beyond(S, n) \union {x, j}
BY BeyondWith

LEMMA OrderNext == WalkInv /\ HonestInv /\ OrderInv /\ [Next]_vars => OrderInv'
<1> SUFFICES ASSUME WalkInv, HonestInv, OrderInv, [Next]_vars, honest', fetches' > 0
             PROVE  OrderInv'
  BY DEF OrderInv
<1>0. /\ honest
      /\ Listed \in SUBSET Nat /\ IsFiniteSet(Listed)
      /\ added \in Nat /\ since \in Nat /\ Len(Total) \in Nat /\ Cardinality(Seen) \in Nat
  <2>1. honest
    BY DEF Next, Onward, Fetched, Begin, Refuse, Yield, StreamNext, CollectNext, PeersNext,
           FetchFails, Answer, AddItem, RemoveItem, vars, choice
  <2>2. added \in Nat /\ since \in Nat
    BY ConstantsAssumption DEF WalkInv, TypeOK
  <2>. QED BY <2>1, <2>2, ListedFacts, ServedFacts DEF WalkInv
<1>1. CASE Begin
  <2>1. fetches = 0 /\ UNCHANGED <<choice, server_vars, queue, out, history>>
    BY <1>1 DEF Begin, WalkInv, TypeOK
  <2>2. out = <<>> /\ queue = <<>> /\ since = 0
    BY <2>1 DEF WalkInv
  <2>3. Total' = <<>> /\ since' = 0 /\ added' = added
    <3>1. <<>> \o <<>> = <<>>
      OBVIOUS
    <3>. QED BY <2>1, <2>2, <3>1 DEF Total, server_vars, history, choice
  <2>4. Seen' = {} /\ Len(Total') = 0
    BY <2>3 DEF Seen, ToSet
  <2>5. Cardinality(Seen') = 0 /\ Cardinality(Seen' \intersect Rest') = 0
    BY <2>4, FS_EmptySet
  <2>. QED BY <1>0, <2>3, <2>4, <2>5 DEF OrderInv, Increasing
<1>2. CASE Refuse
  BY <1>2 DEF Refuse, WalkInv, TypeOK
<1>3. CASE Yield
  <2>1. UNCHANGED <<choice, server_vars, body, asked, pc, fetches, history>>
    BY <1>3 DEF Yield
  <2>2. UNCHANGED <<Total, Listed, Rest>>
    BY <1>3, <2>1, YieldTotal, RestKept DEF Rest, Through, choice, server_vars
  <2>. QED BY <2>1, <2>2, OrderKept DEF server_vars, history
<1>4. CASE StreamNext \/ CollectNext \/ PeersNext
  <2>1. /\ UNCHANGED <<choice, server_vars, body, queue, out, history, Through>>
        /\ fetches > 0
    BY <1>0, <1>4, GoesOn
  <2>2. UNCHANGED <<Total, Listed, Rest>>
    BY <2>1, RestKept DEF Rest, Total, choice, server_vars
  <2>. QED BY <2>1, <2>2, OrderKept DEF server_vars, history
<1>5. CASE FetchFails
  <2>1. /\ UNCHANGED <<choice, server_vars, body, queue, out, history, asked, fetches>>
        /\ pc = "asking" /\ pc' = "err" /\ fetches > 0
    BY <1>5 DEF FetchFails
  <2>2. UNCHANGED <<Total, Listed>>
    BY <2>1, RestKept DEF Total, choice, server_vars
  <2>3. asked \in Nat \ {0} /\ Through = asked - 1 /\ Through' = asked
    BY <2>1 DEF Through, WalkInv, TypeOK
  <2>4. Rest' = Beyond(Listed, asked * PageSize)
    BY <2>1, <2>3, RestKept DEF Rest, choice, server_vars
  <2>5. Rest' \subseteq Rest
    BY <1>0, <2>3, <2>4, PageSplits DEF Rest
  <2>. QED BY <2>1, <2>2, <2>5, OrderKept DEF server_vars, history
<1>6. ASSUME NEW r \in Reports, Answer(r[1], r[2]) PROVE OrderInv'
  <2> DEFINE Page == PageItems(asked)
             After == Beyond(Listed, asked * PageSize)
  <2>1. /\ Total' = Total \o queue'
        /\ queue' \in Seq(1 .. added)
        /\ Seen' = Seen \union Page
        /\ Through = asked - 1 /\ Through' = asked
        /\ UNCHANGED <<choice, server_vars, asked, body, fetches>>
    BY <1>6, AnswerTotal
  <2>2. /\ Len(queue') = Cardinality(Page) /\ ToSet(queue') = Page
        /\ \A i, j \in DOMAIN queue' : i < j => Before(queue'[i], queue'[j])
        /\ asked \in Nat \ {0} /\ Page \in SUBSET Listed /\ IsFiniteSet(Page)
    BY <1>6, ServedPage
  <2>3. Rest' = After
    BY <2>1, RestKept DEF Rest, choice, server_vars
  <2>4. /\ After \subseteq Rest /\ Page = Rest \ After
        /\ \A i \in Page, j \in After : Before(i, j)
    BY <1>0, <2>1, <2>2, PageSplits DEF Rest
  <2>5. reverse' = reverse /\ added' = added
    BY <2>1 DEF choice, server_vars
  <2>6. ASSUME ~reverse
        PROVE  Increasing(Total') /\ \A i \in Seen', j \in Rest' : i < j
    <3>1. Increasing(Total) /\ \A i \in Seen, j \in Rest : i < j
      BY <1>0, <2>1, <2>6 DEF OrderInv
    <3>2. Increasing(queue')
      BY <2>2, <2>6 DEF Increasing, Before
    <3>3. Total \in Seq(Nat) /\ queue' \in Seq(Nat)
      <4>1. 1 .. added \subseteq Nat
        BY <1>0
      <4>2. Total \in Seq(1 .. added)
        BY ServedFacts
      <4>. QED BY <2>1, <4>1, <4>2, SeqOfMore
    <3>4. \A x \in ToSet(Total), y \in ToSet(queue') : x < y
      BY <2>2, <2>4, <3>1 DEF Seen
    <3>5. Increasing(Total \o queue')
      BY <3>1, <3>2, <3>3, <3>4, IncreasingConcat
    <3>6. \A i \in Seen', j \in Rest' : i < j
      BY <2>1, <2>3, <2>4, <2>6, <3>1 DEF Before
    <3>. QED BY <2>1, <3>5, <3>6
  <2>7. Len(Total') = Len(Total) + Cardinality(Page) /\ Cardinality(Page) \in Nat
    <3>1. Cardinality(Page) \in Nat
      BY <2>2, FS_CardinalityType
    <3>2. Total \in Seq(1 .. added)
      BY ServedFacts
    <3>3. Len(Total \o queue') = Len(Total) + Len(queue')
      BY <2>1, <3>2, ConcatType
    <3>4. Total' = Total \o queue' /\ Len(queue') = Cardinality(Page)
      BY <2>1, <2>2
    <3>. HIDE DEF Page
    <3>5. Len(Total') = Len(Total) + Cardinality(Page)
      BY <3>3, <3>4
    <3>. QED BY <3>1, <3>5
  <2>8. CASE fetches = 1
    <3>1. out = <<>> /\ queue = <<>> /\ since' = added
      BY <1>6, <2>8 DEF Answer, WalkInv
    <3>2. Total = <<>> /\ Len(Total) = 0
      <4>1. <<>> \o <<>> = <<>>
        OBVIOUS
      <4>. QED BY <3>1, <4>1 DEF Total
    <3>3. Seen' = Page
      BY <2>1, <3>2 DEF Seen, ToSet
    <3>4. Seen' \intersect Rest' = {}
      BY <2>3, <2>4, <3>3
    <3>5. Cardinality(Seen' \intersect Rest') = 0
      BY <3>4, FS_EmptySet
    <3>6. Len(Total') + Cardinality(Seen' \intersect Rest') + since' <= Cardinality(Seen') + added'
      BY <1>0, <2>5, <2>7, <3>1, <3>2, <3>3, <3>5
    <3>. QED BY <2>5, <2>6, <3>6 DEF OrderInv
  <2>9. CASE fetches # 1
    <3>1. since' = since
      BY <1>6, <2>9 DEF Answer, history
    <3>2. ASSUME reverse
          PROVE  Len(Total') + Cardinality(Seen' \intersect Rest') + since' <= Cardinality(Seen') + added'
      <4>1. Len(Total) + Cardinality(Seen \intersect Rest) + since <= Cardinality(Seen) + added
        BY <1>0, <2>1, <3>2 DEF OrderInv
      <4>2. /\ IsFiniteSet(Seen) /\ IsFiniteSet(Page)
            /\ Cardinality(Seen \union Page) =
                 Cardinality(Seen) + Cardinality(Page) - Cardinality(Seen \intersect Page)
        BY <2>2, ServedFacts, FS_Union
      <4> DEFINE A == Seen \intersect Page
                 B == Seen \intersect After
      <4>3. /\ IsFiniteSet(A) /\ IsFiniteSet(B) /\ Cardinality(A) \in Nat /\ Cardinality(B) \in Nat
        BY <4>2, FS_Intersection, FS_CardinalityType
      <4>4. A \intersect B = {} /\ A \union B = Seen \intersect Rest
        BY <2>4
      <4>5. Cardinality(Seen \intersect Rest) = Cardinality(A) + Cardinality(B)
        <5>1. Cardinality(A \union B) = Cardinality(A) + Cardinality(B) - Cardinality(A \intersect B)
          BY <4>3, FS_Union
        <5>2. Cardinality(A \intersect B) = 0
          BY <4>4, FS_EmptySet
        <5>3. Cardinality(A \union B) = Cardinality(Seen \intersect Rest)
          BY <4>4
        <5>. HIDE DEF A, B
        <5>. QED BY <4>3, <5>1, <5>2, <5>3
      <4>6. Seen' \intersect Rest' = B
        BY <2>1, <2>3, <2>4
      <4>7. Cardinality(Seen') = Cardinality(Seen) + Cardinality(Page) - Cardinality(A)
        BY <2>1, <4>2
      <4>8. Cardinality(Seen' \intersect Rest') = Cardinality(B)
        BY <4>6
      <4>. HIDE DEF A, B, Page
      <4>9. Len(Total) + Cardinality(A) + Cardinality(B) + since <= Cardinality(Seen) + added
        BY <1>0, <4>1, <4>3, <4>5
      <4>10. Len(Total) + Cardinality(Page) + Cardinality(B) + since
               <= Cardinality(Seen) + Cardinality(Page) - Cardinality(A) + added
        <5>. HIDE DEF Total, Seen
        <5>1. /\ Len(Total) \in Nat /\ Cardinality(Seen) \in Nat /\ Cardinality(Page) \in Nat
              /\ since \in Nat /\ added \in Nat
          BY <1>0, <2>7
        <5>. QED BY <4>3, <4>9, <5>1, CountPage
      <4>. QED BY <2>5, <2>7, <3>1, <4>7, <4>8, <4>10
    <3>. QED BY <2>5, <2>6, <3>2 DEF OrderInv
  <2>. QED BY <2>8, <2>9
<1>7. CASE AddItem
  <2>1. /\ Listed' = IF Passes(added + 1, body.filters) THEN Listed \union {added + 1} ELSE Listed
        /\ added + 1 \in Nat \ Listed
        /\ \A i \in Listed \union Seen : i < added + 1 /\ i \in Nat
        /\ UNCHANGED <<choice, Total, Through, since, fetches>>
    BY <1>7, ListedAfterAdd
  <2>2. added' = added + 1 /\ reverse' = reverse /\ Seen' = Seen
    BY <1>7, <2>1 DEF AddItem, choice, Seen
  <2>3. PICK n \in Nat : n = Through * PageSize
    BY <2>1, ServedFacts
  <2>4. Rest = Beyond(Listed, n) /\ Rest' = Beyond(Listed', n)
    BY <2>1, <2>2, <2>3 DEF Rest, Beyond, Rank, Before
  <2>5. ASSUME ~reverse PROVE \A i \in Seen, j \in Rest' : i < j
    <3>1. \A i \in Listed : ~Before(added + 1, i)
      BY <1>0, <2>1, <2>5 DEF Before
    <3>2. Rest' \subseteq Rest \union {added + 1}
      BY <1>0, <2>1, <2>4, <3>1, BeyondWith
    <3>3. \A i \in Seen, j \in Rest : i < j
      BY <1>0, <2>1, <2>5 DEF OrderInv
    <3>. QED BY <2>1, <3>2, <3>3
  <2>6. Cardinality(Seen \intersect Rest') <= Cardinality(Seen \intersect Rest) + 1
        /\ Cardinality(Seen \intersect Rest') \in Nat /\ Cardinality(Seen \intersect Rest) \in Nat
    <3>1. \E j \in Nat : Rest' \subseteq Rest \union {added + 1, j}
      <4>1. CASE Passes(added + 1, body.filters)
        <5>1. Listed' = Listed \union {added + 1} /\ added + 1 \in Nat \ Listed
          BY <2>1, <4>1
        <5>2. \E j \in Nat :
                Beyond(Listed \union {added + 1}, n) \subseteq Beyond(Listed, n) \union {added + 1, j}
          <6>1. Listed \in SUBSET Nat /\ IsFiniteSet(Listed) /\ n \in Nat
            BY <1>0, <2>3
          <6>2. added + 1 \in Nat \ Listed
            BY <5>1
          <6>. QED BY <6>1, <6>2, OneMovesBeyond
        <5>. QED BY <2>4, <5>1, <5>2
      <4>2. CASE ~Passes(added + 1, body.filters)
        <5>1. Listed' = Listed
          BY <2>1, <4>2
        <5>2. Rest' \subseteq Rest \union {added + 1, 0}
          BY <2>4, <5>1
        <5>. QED BY <5>2
      <4>. QED BY <4>1, <4>2
    <3>2. PICK j \in Nat : Rest' \subseteq Rest \union {added + 1, j}
      BY <3>1
    <3>3. added + 1 \notin Seen
      BY <1>0, <2>1
    <3>4. Seen \intersect Rest' \subseteq (Seen \intersect Rest) \union {j}
      BY <3>2, <3>3
    <3>5. IsFiniteSet(Seen \intersect Rest)
      BY ServedFacts, FS_Intersection
    <3>. QED BY <3>4, <3>5, OneMore
  <2>7. ASSUME reverse
        PROVE  Len(Total') + Cardinality(Seen' \intersect Rest') + since' <= Cardinality(Seen') + added'
    <3>1. Len(Total) + Cardinality(Seen \intersect Rest) + since <= Cardinality(Seen) + added
      BY <1>0, <2>1, <2>7 DEF OrderInv
    <3>. QED BY <1>0, <2>1, <2>2, <2>6, <3>1
  <2>8. ~reverse => Increasing(Total')
    BY <1>0, <2>1 DEF OrderInv
  <2>. QED BY <2>2, <2>5, <2>7, <2>8 DEF OrderInv
<1>8. CASE RemoveItem
  <2>1. PICK x : Listed' = Listed \ {x}
    BY <1>8, ListedAfterRemove
  <2>2. UNCHANGED <<choice, Total, Through, since, added, fetches>>
    BY <1>8, ListedAfterRemove
  <2>3. PICK n \in Nat : n = Through * PageSize
    BY <2>2, ServedFacts
  <2>4. Rest = Beyond(Listed, n) /\ Rest' = Beyond(Listed \ {x}, n)
    BY <2>1, <2>2, <2>3 DEF Rest, Beyond, Rank, Before, choice
  <2>5. Rest' \subseteq Rest
    <3>1. CASE x \in Listed
      BY <1>0, <2>3, <2>4, <3>1, BeyondWithout
    <3>2. CASE x \notin Listed
      <4>1. Listed \ {x} = Listed
        BY <3>2
      <4>. QED BY <2>4, <4>1
    <3>. QED BY <3>1, <3>2
  <2>6. UNCHANGED <<honest, reverse, Seen>>
    BY <2>2 DEF choice, Seen
  <2>. QED BY <2>2, <2>5, OrderKept
<1>9. CASE UNCHANGED vars
  BY <1>9 DEF vars, OrderInv, Total, Seen, Rest, Through, Listed, Beyond, Rank, Before, Passes,
              choice, server_vars, history
<1>. QED BY <1>1, <1>2, <1>3, <1>4, <1>5, <1>6, <1>7, <1>8, <1>9 DEF Next, Onward, Fetched

LEMMA Ordering == Spec => []OrderInv
<1>1. Init => OrderInv
  BY DEF Init, OrderInv
<1>2. OrderInv /\ WalkInv /\ HonestInv /\ [Next]_vars => OrderInv'
  BY OrderNext
<1>. QED BY Walking, Honestly, <1>1, <1>2, PTL DEF Spec

LEMMA IncreasingPrefix ==
  ASSUME NEW s \in Seq(Nat), NEW t \in Seq(Nat), Increasing(s \o t)
  PROVE  Increasing(s)
<1>1. /\ Len(s) \in Nat /\ Len(t) \in Nat
      /\ DOMAIN s = 1 .. Len(s) /\ DOMAIN (s \o t) = 1 .. Len(s) + Len(t)
      /\ \A i \in 1 .. Len(s) : (s \o t)[i] = s[i]
  OBVIOUS
<1>2. \A i \in DOMAIN s : i \in DOMAIN (s \o t)
  BY <1>1
<1>. QED BY <1>1, <1>2 DEF Increasing

\* Oldest first, a walk gives no item twice and none before an older one; newest first,
\* it repeats at most one for every item added since its first page: for pages of any
\* size, and however the collection changes between the requests.
THEOREM InOrderHolds == Spec => []InOrder
<1>1. WalkInv /\ OrderInv => InOrder
  <2> SUFFICES ASSUME WalkInv, OrderInv, honest
               PROVE  /\ ~reverse => Increasing(out)
                      /\ reverse => Len(out) <= Cardinality(ToSet(out)) + added - since
    BY DEF InOrder
  <2>1. /\ added \in Nat /\ since \in Nat /\ since <= added
        /\ out \in Seq(1 .. added) /\ queue \in Seq(1 .. added)
    BY ConstantsAssumption DEF WalkInv, TypeOK
  <2>2. CASE fetches = 0
    <3>1. out = <<>> /\ Len(out) = 0
      BY <2>2 DEF WalkInv
    <3>2. ToSet(out) = {}
      BY <3>1 DEF ToSet
    <3>3. Cardinality(ToSet(out)) = 0
      BY <3>2, FS_EmptySet
    <3>4. Increasing(out)
      BY <3>1 DEF Increasing
    <3>. QED BY <2>1, <3>1, <3>3, <3>4
  <2>3. CASE fetches > 0
    <3>1. ASSUME ~reverse PROVE Increasing(out)
      <4>1. Increasing(Total)
        BY <2>3, <3>1 DEF OrderInv
      <4>2. out \in Seq(Nat) /\ queue \in Seq(Nat)
        <5>1. 1 .. added \subseteq Nat
          BY <2>1
        <5>. QED BY <2>1, <5>1, SeqOfMore
      <4>. QED BY <4>1, <4>2, IncreasingPrefix DEF Total
    <3>2. ASSUME reverse PROVE Len(out) <= Cardinality(ToSet(out)) + added - since
      <4>1. /\ Len(Total) + Cardinality(Seen \intersect Rest) + since <= Cardinality(Seen) + added
            /\ Cardinality(Seen) \in Nat
        BY <2>3, <3>2, ServedFacts DEF OrderInv
      <4>2. Cardinality(Seen \intersect Rest) \in Nat
        <5>1. IsFiniteSet(Seen \intersect Rest)
          BY ServedFacts, FS_Intersection
        <5>. QED BY <5>1, FS_CardinalityType
      <4>3. /\ IsFiniteSet(ToSet(out)) /\ Cardinality(ToSet(out)) \in Nat
            /\ IsFiniteSet(ToSet(queue)) /\ Cardinality(ToSet(queue)) \in Nat
            /\ Cardinality(ToSet(queue)) <= Len(queue)
        BY <2>1, ToSetCardinality
      <4>4. Len(out) \in Nat /\ Len(queue) \in Nat
        BY <2>1
      <4>5. CASE walk = "stream"
        <5>1. Total = out \o queue
          BY <4>5 DEF Total
        <5>2. Len(Total) = Len(out) + Len(queue)
          BY <2>1, <5>1, ConcatType
        <5>3. ToSet(out \o queue) = ToSet(out) \union ToSet(queue)
          BY <2>1, ConcatType
        <5>4. Seen = ToSet(out) \union ToSet(queue)
          BY <5>1, <5>3 DEF Seen
        <5> DEFINE A == ToSet(out)
                   B == ToSet(queue)
        <5>5. /\ Cardinality(A \union B) = Cardinality(A) + Cardinality(B) - Cardinality(A \intersect B)
              /\ Cardinality(A \intersect B) \in Nat
          BY <4>3, FS_Union, FS_Intersection, FS_CardinalityType
        <5>6. Cardinality(Seen) = Cardinality(A \union B)
          BY <5>4
        <5>7. Cardinality(Seen) <= Cardinality(ToSet(out)) + Len(queue)
          <6>1. Cardinality(A) \in Nat /\ Cardinality(B) \in Nat /\ Cardinality(B) <= Len(queue)
            BY <4>3
          <6>2. HIDE DEF A, B
          <6>3. Cardinality(Seen) <= Cardinality(A) + Len(queue)
            BY <4>4, <5>5, <5>6, <6>1
          <6>. QED BY <6>3 DEF A
        <5>. QED BY <2>1, <4>1, <4>2, <4>3, <4>4, <5>2, <5>7
      <4>6. CASE walk # "stream"
        <5>1. Total = out /\ Seen = ToSet(out)
          BY <4>6 DEF Total, Seen
        <5>2. Len(out) + Cardinality(Seen \intersect Rest) + since <= Cardinality(ToSet(out)) + added
          BY <4>1, <5>1
        <5>. QED BY <2>1, <4>2, <4>3, <4>4, <5>2
      <4>. QED BY <4>5, <4>6
    <3>. QED BY <3>1, <3>2
  <2>. QED BY <2>2, <2>3 DEF WalkInv, TypeOK
<1>. QED BY Walking, Ordering, <1>1, PTL

-----------------------------------------------------------------------------
(* Completeness.                                                           *)

\* The items of the first page and of those after it that are still listed, were not
\* served, and are not to come either: each has moved to a page before, when another
\* item was removed.
Missed == ((first \intersect Listed) \ Seen) \ Rest
LeftOut == (first \intersect items) \ Seen

MissInv ==
  honest /\ fetches > 0 =>
    /\ pc \in {"asking", "yielding"} => Cardinality(Missed) <= removed
    /\ walk = "peers" /\ pc = "yielding" /\ queue = <<>> => page >= pages
    /\ pc = "ok" => page >= pages
    /\ pc \in {"yielding", "ok"} /\ page >= pages => Cardinality(LeftOut) <= removed

LEMMA MissedFacts ==
  ASSUME WalkInv
  PROVE  /\ IsFiniteSet(Missed) /\ Cardinality(Missed) \in Nat
         /\ IsFiniteSet(LeftOut) /\ Cardinality(LeftOut) \in Nat
         /\ removed \in Nat
<1>1. IsFiniteSet(Listed) /\ IsFiniteSet(items)
  BY ListedFacts DEF WalkInv
<1>2. Missed \subseteq Listed /\ LeftOut \subseteq items
  BY DEF Missed, LeftOut
<1>3. IsFiniteSet(Missed) /\ IsFiniteSet(LeftOut)
  BY <1>1, <1>2, FS_Subset
<1>4. removed \in Nat
  BY ConstantsAssumption DEF WalkInv, TypeOK
<1>. QED BY <1>3, <1>4, FS_CardinalityType

\* A step that neither serves nor asks: the walk may only stop.
LEMMA MissKept ==
  ASSUME WalkInv, MissInv, fetches > 0, UNCHANGED <<choice, page, pages, queue, removed>>,
         pc' = pc \/ pc' = "err",
         Missed' \subseteq Missed, LeftOut' \subseteq LeftOut
  PROVE  MissInv'
<1>1. /\ Cardinality(Missed') <= Cardinality(Missed) /\ Cardinality(Missed') \in Nat
      /\ Cardinality(LeftOut') <= Cardinality(LeftOut) /\ Cardinality(LeftOut') \in Nat
      /\ Cardinality(Missed) \in Nat /\ Cardinality(LeftOut) \in Nat /\ removed \in Nat
  BY MissedFacts, NoMore
<1>2. honest' = honest /\ walk' = walk
  BY DEF choice
<1>. QED BY <1>1, <1>2 DEF MissInv

LEMMA MissNext ==
  WalkInv /\ HonestInv /\ FilterInv /\ MissInv /\ [Next]_vars => MissInv'
<1> SUFFICES ASSUME WalkInv, HonestInv, FilterInv, MissInv, [Next]_vars, honest', fetches' > 0
             PROVE  MissInv'
  BY DEF MissInv
<1>0. /\ honest
      /\ Listed \in SUBSET Nat /\ IsFiniteSet(Listed)
      /\ removed \in Nat
  <2>1. honest
    BY DEF Next, Onward, Fetched, Begin, Refuse, Yield, StreamNext, CollectNext, PeersNext,
           FetchFails, Answer, AddItem, RemoveItem, vars, choice
  <2>. QED BY <2>1, ListedFacts, MissedFacts DEF WalkInv
<1>1. CASE Begin
  <2>1. fetches = 0 /\ pc' = "asking" /\ first' = first /\ removed' = removed
    BY <1>1 DEF Begin, AskWith, WalkInv, TypeOK, history, server_vars
  <2>2. first' = {}
    BY <2>1 DEF WalkInv
  <2>3. Missed' = {}
    BY <2>2 DEF Missed
  <2>4. Cardinality(Missed') = 0
    BY <2>3, FS_EmptySet
  <2>. QED BY <1>0, <2>1, <2>4 DEF MissInv
<1>2. CASE Refuse
  BY <1>2 DEF Refuse, WalkInv, TypeOK
<1>3. CASE Yield
  <2>1. /\ UNCHANGED <<choice, server_vars, body, asked, pc, page, pages, fetches, history>>
        /\ walk = "stream"
    BY <1>3 DEF Yield
  <2>2. UNCHANGED <<Total, Listed, Rest>>
    BY <1>3, <2>1, YieldTotal, RestKept DEF Rest, Through, choice, server_vars
  <2>3. Missed' = Missed /\ LeftOut' = LeftOut
    BY <2>1, <2>2 DEF Missed, LeftOut, Seen, server_vars, history
  <2>4. walk' = walk /\ honest' = honest /\ removed' = removed
    BY <2>1 DEF choice, server_vars
  <2>. QED BY <2>1, <2>3, <2>4 DEF MissInv
<1>4. CASE StreamNext \/ CollectNext \/ PeersNext
  <2>1. /\ UNCHANGED <<choice, server_vars, body, page, pages, queue, out, history, Through>>
        /\ fetches > 0 /\ pc = "yielding" /\ pc' \in {"asking", "ok", "capped"}
    BY <1>0, <1>4, GoesOn
  <2>2. UNCHANGED <<Total, Listed, Rest>>
    BY <2>1, RestKept DEF Rest, Total, choice, server_vars
  <2>3. Missed' = Missed /\ LeftOut' = LeftOut
    BY <2>1, <2>2 DEF Missed, LeftOut, Seen, server_vars, history
  <2>4. walk' = walk /\ removed' = removed
    BY <2>1 DEF choice, server_vars
  <2>5. pc' = "ok" => page >= pages
    <3>1. page = asked /\ page \in Nat /\ pages \in Nat
      BY <1>0, <2>1 DEF HonestInv, WalkInv, TypeOK
    <3>2. CASE StreamNext
      BY <3>1, <3>2 DEF StreamNext, NoProgress, Finish, Ask, AskWith
    <3>3. CASE CollectNext
      BY <3>1, <3>3 DEF CollectNext, Finish, Ask, AskWith
    <3>4. CASE PeersNext
      BY <1>0, <2>1, <3>1, <3>4 DEF PeersNext, Finish, Ask, AskWith, MissInv
    <3>. QED BY <1>4, <3>2, <3>3, <3>4
  <2>. QED BY <1>0, <2>1, <2>3, <2>4, <2>5 DEF MissInv
<1>5. CASE FetchFails
  <2>1. pc' = "err"
    BY <1>5 DEF FetchFails
  <2>. QED BY <2>1 DEF MissInv
<1>6. ASSUME NEW r \in Reports, Answer(r[1], r[2]) PROVE MissInv'
  <2> DEFINE Page == PageItems(asked)
             After == Beyond(Listed, asked * PageSize)
  <2>1. /\ Seen' = Seen \union Page
        /\ Through = asked - 1 /\ Through' = asked
        /\ UNCHANGED <<choice, server_vars, asked, body, fetches>>
    BY <1>6, AnswerTotal
  <2>2. /\ Len(queue') = Cardinality(Page)
        /\ asked \in Nat \ {0} /\ Page \in SUBSET Listed /\ IsFiniteSet(Page)
    BY <1>6, ServedPage
  <2>3. Rest' = After /\ Listed' = Listed
    BY <2>1, RestKept DEF Rest, choice, server_vars
  <2>4. After \subseteq Rest /\ Page = Rest \ After /\ Rest \subseteq Listed
    BY <1>0, <2>1, <2>2, PageSplits DEF Rest, Beyond
  <2>5. /\ pc = "asking" /\ pc' = "yielding" /\ page' = asked /\ pages' = PageCount
        /\ removed' = removed /\ items' = items /\ PageCount \in Nat
    BY <1>0, <1>6, <2>1, ReportsType, PageCountFacts DEF Answer, server_vars
  <2>6. /\ fetches = 1 => first' = Rest
        /\ fetches # 1 => first' = first
    <3>1. fetches = 1 => asked = from /\ first' = Beyond(Listed, (from - 1) * PageSize)
      BY <1>6 DEF Answer, WalkInv
    <3>2. fetches = 1 => first' = Rest
      BY <2>1, <3>1 DEF Rest
    <3>3. fetches # 1 => first' = first
      BY <1>6 DEF Answer, history
    <3>. QED BY <3>2, <3>3
  <2>7. Missed' = (((first' \intersect Listed) \ (Seen \union Page)) \ After)
    BY <2>1, <2>3 DEF Missed
  <2>8. Cardinality(Missed') <= removed /\ Cardinality(Missed') \in Nat
    <3>1. CASE fetches = 1
      <4>1. Missed' = {}
        BY <2>4, <2>6, <2>7, <3>1
      <4>2. Cardinality(Missed') = 0
        BY <4>1, FS_EmptySet
      <4>. QED BY <1>0, <4>2
    <3>2. CASE fetches # 1
      <4>1. Missed' \subseteq Missed
        BY <2>4, <2>6, <2>7, <3>2 DEF Missed
      <4>2. Cardinality(Missed') <= Cardinality(Missed) /\ Cardinality(Missed') \in Nat
        BY <4>1, MissedFacts, NoMore
      <4>3. Cardinality(Missed) <= removed /\ Cardinality(Missed) \in Nat
        BY <1>0, <2>1, <2>5, MissedFacts DEF MissInv
      <4>. QED BY <1>0, <4>2, <4>3
    <3>. QED BY <3>1, <3>2
  <2>9. queue' = <<>> => page' >= pages'
    <3>1. ASSUME queue' = <<>> PROVE Page = {}
      <4>1. Cardinality(Page) = 0
        BY <2>2, <3>1
      <4>. QED BY <2>2, <4>1, FS_EmptySet
    <3>2. asked <= PageCount => Page # {}
      BY <1>0, <2>2, PageCountFacts
    <3>. QED BY <2>2, <2>5, <3>1, <3>2
  <2>10. page' >= pages' => Cardinality(LeftOut') <= removed
    <3> SUFFICES ASSUME asked >= PageCount PROVE Cardinality(LeftOut') <= removed
      BY <2>5
    <3>1. After = {}
      <4>1. PageCount * PageSize <= asked * PageSize /\ PageCount * PageSize \in Nat /\ asked * PageSize \in Nat
        <5>1. PageSize \in Nat
          BY ConstantsAssumption
        <5>2. PICK d \in Nat : asked = PageCount + d
          BY <2>2, <2>5
        <5>3. (PageCount + d) * PageSize = PageCount * PageSize + d * PageSize
              /\ PageCount * PageSize \in Nat /\ d * PageSize \in Nat
          BY <2>5, <5>1
        <5>. QED BY <5>2, <5>3
      <4>2. ASSUME NEW i \in Listed PROVE ~(Rank(Listed, i) >= asked * PageSize)
        <5>1. Rank(Listed, i) < PageCount * PageSize /\ Rank(Listed, i) \in Nat
          BY <1>0, PageCountFacts, RankType
        <5>. QED BY <4>1, <5>1
      <4>. QED BY <4>2 DEF Beyond
    <3>2. first' \intersect items \subseteq first' \intersect Listed
      <4>1. CASE fetches = 1
        BY <2>4, <2>6, <4>1
      <4>2. CASE fetches # 1
        <5>1. \A i \in first : Passes(i, body.filters)
          BY DEF FilterInv
        <5>. QED BY <2>6, <4>2, <5>1 DEF Listed
      <4>. QED BY <4>1, <4>2
    <3>3. LeftOut' \subseteq Missed'
      BY <2>1, <2>5, <2>7, <3>1, <3>2 DEF LeftOut
    <3>4. IsFiniteSet(Missed')
      <4>1. Missed' \subseteq Listed
        BY <2>7
      <4>. QED BY <1>0, <4>1, FS_Subset
    <3>5. Cardinality(LeftOut') <= Cardinality(Missed') /\ Cardinality(LeftOut') \in Nat
      BY <3>3, <3>4, NoMore
    <3>. QED BY <1>0, <2>8, <3>5
  <2>. QED BY <2>5, <2>8, <2>9, <2>10 DEF MissInv
<1>7. CASE AddItem
  <2>1. /\ Listed' = IF Passes(added + 1, body.filters) THEN Listed \union {added + 1} ELSE Listed
        /\ added + 1 \in Nat \ Listed
        /\ \A i \in Listed \union Seen \union first : i < added + 1 /\ i \in Nat
        /\ UNCHANGED <<choice, Total, Through, first, removed, pc, page, pages, queue, fetches>>
    BY <1>7, ListedAfterAdd
  <2>2. reverse' = reverse /\ Seen' = Seen /\ items' = items \union {added + 1}
    BY <1>7, <2>1 DEF AddItem, choice, Seen
  <2>3. added + 1 \notin first
    BY <2>1
  <2>4. PICK n \in Nat : n = Through * PageSize
    BY <2>1, ServedFacts
  <2>5. Rest = Beyond(Listed, n) /\ Rest' = Beyond(Listed', n)
    BY <2>1, <2>2, <2>4 DEF Rest, Beyond, Rank, Before
  <2>6. Rest \subseteq Rest'
    <3>1. CASE Passes(added + 1, body.filters)
      <4>1. Listed' = Listed \union {added + 1} /\ added + 1 \in Nat \ Listed
        BY <2>1, <3>1
      <4>2. Beyond(Listed, n) \subseteq Beyond(Listed \union {added + 1}, n)
        BY <1>0, <4>1, BeyondWith
      <4>. QED BY <2>5, <4>1, <4>2
    <3>2. CASE ~Passes(added + 1, body.filters)
      BY <2>1, <2>5, <3>2
    <3>. QED BY <3>1, <3>2
  <2>7. Missed' \subseteq Missed
    <3>1. first \intersect Listed' \subseteq first \intersect Listed
      BY <2>1, <2>3
    <3>2. Missed' = ((first \intersect Listed') \ Seen) \ Rest'
      BY <2>1, <2>2 DEF Missed
    <3>. QED BY <2>6, <3>1, <3>2 DEF Missed
  <2>8. LeftOut' \subseteq LeftOut
    BY <2>1, <2>2, <2>3 DEF LeftOut
  <2>. QED BY <2>1, <2>7, <2>8, MissKept
<1>8. CASE RemoveItem
  <2>1. PICK x \in items : items' = items \ {x} /\ Listed' = Listed \ {x}
    BY <1>8, ListedAfterRemove
  <2>2. /\ UNCHANGED <<choice, Total, Through, first, pc, page, pages, queue, fetches>>
        /\ removed' = removed + 1
    BY <1>8, ListedAfterRemove
  <2>3. PICK n \in Nat : n = Through * PageSize
    BY <2>2, ServedFacts
  <2>4. Rest = Beyond(Listed, n) /\ Rest' = Beyond(Listed \ {x}, n)
    BY <2>1, <2>2, <2>3 DEF Rest, Beyond, Rank, Before, choice
  <2>5. \E j \in Nat : Rest \subseteq Rest' \union {x, j}
    <3>1. CASE x \in Listed
      BY <1>0, <2>3, <2>4, <3>1, BeyondWithout
    <3>2. CASE x \notin Listed
      <4>1. Listed \ {x} = Listed
        BY <3>2
      <4>2. Rest \subseteq Rest' \union {x, 0}
        BY <2>4, <4>1
      <4>. QED BY <4>2
    <3>. QED BY <3>1, <3>2
  <2>6. PICK j \in Nat : Rest \subseteq Rest' \union {x, j}
    BY <2>5
  <2>7. UNCHANGED <<honest, walk, Seen>>
    BY <2>2 DEF choice, Seen
  <2>8. Missed' \subseteq Missed \union {j}
    <3>1. Missed' = ((first \intersect (Listed \ {x})) \ Seen) \ Rest'
      BY <2>1, <2>2, <2>7 DEF Missed
    <3>. QED BY <2>6, <3>1 DEF Missed
  <2>9. LeftOut' \subseteq LeftOut
    BY <2>1, <2>2, <2>7 DEF LeftOut
  <2>10. Cardinality(Missed') <= Cardinality(Missed) + 1 /\ Cardinality(Missed') \in Nat
    BY <2>8, MissedFacts, OneMore
  <2>11. Cardinality(LeftOut') <= Cardinality(LeftOut) /\ Cardinality(LeftOut') \in Nat
    BY <2>9, MissedFacts, NoMore
  <2>12. Cardinality(Missed) \in Nat /\ Cardinality(LeftOut) \in Nat
    BY MissedFacts
  <2>. QED BY <1>0, <2>2, <2>7, <2>10, <2>11, <2>12 DEF MissInv
<1>9. CASE UNCHANGED vars
  <2>1. /\ UNCHANGED <<choice, page, pages, queue, removed, pc, fetches>>
        /\ UNCHANGED <<Missed, LeftOut>>
    BY <1>9 DEF vars, Missed, LeftOut, Total, Seen, Rest, Through, Listed, Beyond, Rank, Before,
                Passes, choice, server_vars, history
  <2>. QED BY <2>1, MissKept
<1>. QED BY <1>1, <1>2, <1>3, <1>4, <1>5, <1>6, <1>7, <1>8, <1>9 DEF Next, Onward, Fetched

\* A walk that ends well has given every item that was there from its first page to its
\* end, but for at most one per item removed meanwhile, which shifts a later page: for
\* pages of any size, and however the collection changes between the requests.
THEOREM MissedBoundedHolds == Spec => []MissedBounded
<1>1. Init => MissInv
  BY DEF Init, MissInv
<1>2. MissInv /\ WalkInv /\ HonestInv /\ FilterInv /\ [Next]_vars => MissInv'
  BY MissNext
<1>3. WalkInv /\ MissInv => MissedBounded
  <2> SUFFICES ASSUME WalkInv, MissInv, honest, pc = "ok"
               PROVE  Cardinality((first \intersect items) \ ToSet(out)) <= removed
    BY DEF MissedBounded
  <2>1. fetches > 0 /\ out \in Seq(1 .. added)
    BY DEF WalkInv, TypeOK
  <2>2. Cardinality(LeftOut) <= removed
    BY <2>1 DEF MissInv
  <2>3. Total = out
    <3>1. walk = "stream" => queue = <<>>
      BY DEF WalkInv
    <3>2. out \o <<>> = out
      BY <2>1
    <3>. QED BY <3>1, <3>2 DEF Total
  <2>. QED BY <2>2, <2>3 DEF LeftOut, Seen
<1>. QED BY Walking, Honestly, Filtering, <1>1, <1>2, <1>3, PTL DEF Spec

=============================================================================
