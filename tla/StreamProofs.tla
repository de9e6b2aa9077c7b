----------------------------- MODULE StreamProofs ------------------------------
(***************************************************************************)
(* However the body is cut into chunks, the contents handed on are those   *)
(* of the body read in one piece: for every body, chunk and line limit.    *)
(*                                                                         *)
(* The reading in one piece is two recursive functions, Decoding and       *)
(* Contents.  That a function with such a definition exists, and what it   *)
(* gives, is by the least size at which it would not.                      *)
(***************************************************************************)
EXTENDS SseStream, SequenceTheorems, FiniteSetTheorems, WellFoundedInduction, TLAPS

-----------------------------------------------------------------------------
(* Recursive functions.                                                    *)

\* The least number of a set, which stands for induction over the numbers.
LEMMA LeastOf ==
  ASSUME NEW T \in SUBSET Nat, T # {}
  PROVE  \E m \in T : \A k \in T : m <= k
<1>1. PICK m \in T : \A k \in T : ~(<<k, m>> \in OpToRel(<, Nat))
  BY NatLessThanWellFounded, WFMin, Zenon
<1>2. \A k \in T : <<k, m>> \in Nat \X Nat /\ (<<k, m>>[1] < <<k, m>>[2] <=> k < m)
  OBVIOUS
<1>3. \A k \in T : ~(k < m)
  BY <1>1, <1>2, Zenon DEF OpToRel
<1>. QED BY <1>3

\* A function f that is empty where it stops, and otherwise a head and what it is of
\* the rest.
Unfolds(f, D, stop, head, rest) ==
  \A s \in D : f[s] = IF stop[s] THEN <<>> ELSE head[s] \o f[rest[s]]

\* The arguments of at most some size.
UpTo(S, size, n) == {s \in S : size[s] <= n}

\* Two functions with the same recursion agree: at the smallest argument where they did
\* not, they would agree.
LEMMA UnfoldedAlike ==
  ASSUME NEW S, NEW D \in SUBSET S, NEW size \in [S -> Nat], NEW stop, NEW head, NEW rest,
         \A s \in D : ~stop[s] => rest[s] \in D /\ size[rest[s]] < size[s],
         NEW f, NEW g, Unfolds(f, D, stop, head, rest), Unfolds(g, D, stop, head, rest)
  PROVE  \A s \in D : f[s] = g[s]
<1>1. SUFFICES ASSUME NEW s \in D, f[s] # g[s] PROVE FALSE
  OBVIOUS
<1> DEFINE T == {size[x] : x \in {y \in D : f[y] # g[y]}}
<1>2. T \in SUBSET Nat /\ T # {}
  BY <1>1
<1>3. PICK m \in T : \A k \in T : m <= k
  BY <1>2, LeastOf
<1>4. PICK x \in D : f[x] # g[x] /\ m = size[x]
  BY <1>3
<1>5. ~stop[x] /\ f[rest[x]] # g[rest[x]]
  BY <1>4, Zenon DEF Unfolds
<1>6. rest[x] \in D /\ size[rest[x]] < size[x]
  BY <1>4, <1>5
<1>7. size[rest[x]] \in T /\ size[x] \in Nat /\ size[rest[x]] \in Nat
  BY <1>5, <1>6
<1>8. m <= size[rest[x]]
  BY <1>3, <1>7
<1>. HIDE DEF T
<1>. QED BY <1>4, <1>6, <1>7, <1>8

\* What such a function gives is a sequence of what its heads are sequences of.
LEMMA UnfoldedType ==
  ASSUME NEW S, NEW V, NEW size \in [S -> Nat], NEW stop, NEW head, NEW rest,
         \A s \in S : ~stop[s] =>
           head[s] \in Seq(V) /\ rest[s] \in S /\ size[rest[s]] < size[s],
         NEW f, Unfolds(f, S, stop, head, rest)
  PROVE  \A s \in S : f[s] \in Seq(V)
<1>1. SUFFICES ASSUME NEW s \in S, f[s] \notin Seq(V) PROVE FALSE
  OBVIOUS
<1> DEFINE T == {size[x] : x \in {y \in S : f[y] \notin Seq(V)}}
<1>2. T \in SUBSET Nat /\ T # {}
  BY <1>1
<1>3. PICK m \in T : \A k \in T : m <= k
  BY <1>2, LeastOf
<1>4. PICK x \in S : f[x] \notin Seq(V) /\ m = size[x]
  BY <1>3
<1>5. f[x] = IF stop[x] THEN <<>> ELSE head[x] \o f[rest[x]]
  BY <1>4, Zenon DEF Unfolds
<1>6. ~stop[x]
  BY <1>4, <1>5
<1>7. head[x] \in Seq(V) /\ rest[x] \in S /\ size[rest[x]] < size[x]
  BY <1>4, <1>6
<1>8. f[rest[x]] \notin Seq(V)
  BY <1>4, <1>5, <1>6, <1>7, ConcatProperties
<1>9. size[rest[x]] \in T /\ size[x] \in Nat /\ size[rest[x]] \in Nat
  BY <1>7, <1>8
<1>10. m <= size[rest[x]]
  BY <1>3, <1>9
<1>. HIDE DEF T
<1>. QED BY <1>4, <1>7, <1>9, <1>10

\* There is such a function, if the rest is always smaller.
LEMMA UnfoldedIs ==
  ASSUME NEW S, NEW size \in [S -> Nat], NEW stop, NEW head, NEW rest,
         \A s \in S : ~stop[s] => rest[s] \in S /\ size[rest[s]] < size[s]
  PROVE  \E f : f = [s \in S |-> f[s]] /\ Unfolds(f, S, stop, head, rest)
<1> DEFINE Good(n, g) == Unfolds(g, UpTo(S, size, n), stop, head, rest)
           N == {n \in Nat : ~\E g : Good(n, g)}
<1>1. ASSUME NEW n \in Nat
      PROVE  /\ UpTo(S, size, n) \in SUBSET S
             /\ \A s \in UpTo(S, size, n) : ~stop[s] =>
                  rest[s] \in UpTo(S, size, n) /\ size[rest[s]] < size[s]
             /\ \A s \in UpTo(S, size, n) : ~stop[s] /\ n > 0 => rest[s] \in UpTo(S, size, n - 1)
  BY DEF UpTo
<1>2. N = {}
  <2>1. SUFFICES ASSUME N # {} PROVE FALSE
    OBVIOUS
  <2>2. N \in SUBSET Nat
    OBVIOUS
  <2>. HIDE DEF Good
  <2>3. PICK m \in N : \A k \in N : m <= k
    BY <2>1, <2>2, LeastOf
  <2>. SUFFICES \E g : Good(m, g)
    BY <2>3
  <2>4. CASE m = 0
    <3> DEFINE g == [s \in S |-> <<>>]
    <3>1. \A s \in UpTo(S, size, 0) : stop[s]
      BY <1>1 DEF UpTo
    <3>2. Good(0, g)
      <4>. SUFFICES ASSUME NEW s \in UpTo(S, size, 0)
                    PROVE  g[s] = IF stop[s] THEN <<>> ELSE head[s] \o g[rest[s]]
        BY Zenon DEF Good, Unfolds
      <4>1. s \in S
        BY DEF UpTo
      <4>. QED BY <3>1, <4>1, Zenon
    <3>. QED BY <2>4, <3>2
  <2>5. CASE m # 0
    <3>1. m \in Nat /\ m - 1 \in Nat /\ m > 0 /\ ~(m <= m - 1)
      BY <2>5
    <3>2. m - 1 \notin N
      BY <2>3, <3>1
    <3>3. PICK h : Good(m - 1, h)
      BY <3>1, <3>2
    <3> DEFINE g == [s \in S |-> IF stop[s] THEN <<>> ELSE head[s] \o h[rest[s]]]
    <3>4. ASSUME NEW s \in UpTo(S, size, m - 1) PROVE g[s] = h[s]
      <4>1. s \in S
        BY DEF UpTo
      <4>2. h[s] = IF stop[s] THEN <<>> ELSE head[s] \o h[rest[s]]
        BY <3>3, Zenon DEF Good, Unfolds
      <4>. QED BY <4>1, <4>2, Zenon
    <3>5. Good(m, g)
      <4>. SUFFICES ASSUME NEW s \in UpTo(S, size, m)
                    PROVE  g[s] = IF stop[s] THEN <<>> ELSE head[s] \o g[rest[s]]
        BY Zenon DEF Good, Unfolds
      <4>1. s \in S
        BY DEF UpTo
      <4>2. g[s] = IF stop[s] THEN <<>> ELSE head[s] \o h[rest[s]]
        BY <4>1, Zenon
      <4>3. ~stop[s] => g[rest[s]] = h[rest[s]]
        BY <1>1, <3>1, <3>4
      <4>. HIDE DEF g
      <4>. QED BY <4>2, <4>3
    <3>. QED BY <3>5
  <2>. QED BY <2>4, <2>5
<1> DEFINE Part(n) == CHOOSE g : Good(n, g)
           f == [s \in S |-> Part(size[s])[s]]
<1>3. ASSUME NEW n \in Nat PROVE Good(n, Part(n))
  <2>1. \E g : Good(n, g)
    BY <1>2
  <2>. HIDE DEF Good
  <2>. QED BY <2>1, Zenon
<1>4. ASSUME NEW s \in S PROVE f[s] = IF stop[s] THEN <<>> ELSE head[s] \o f[rest[s]]
  <2>1. size[s] \in Nat /\ s \in UpTo(S, size, size[s])
    BY DEF UpTo
  <2>2. Part(size[s])[s] = IF stop[s] THEN <<>> ELSE head[s] \o Part(size[s])[rest[s]]
    <3>1. Good(size[s], Part(size[s]))
      BY <1>3, <2>1
    <3>. HIDE DEF Part
    <3>. QED BY <2>1, <3>1, Zenon DEF Unfolds
  <2>3. ASSUME ~stop[s] PROVE Part(size[s])[rest[s]] = f[rest[s]]
    <3>1. rest[s] \in S /\ size[rest[s]] \in Nat /\ size[rest[s]] < size[s]
      BY <2>3
    <3> DEFINE D == UpTo(S, size, size[rest[s]])
    <3>2. Unfolds(Part(size[rest[s]]), D, stop, head, rest)
      BY <1>3, <3>1
    <3>3. Unfolds(Part(size[s]), UpTo(S, size, size[s]), stop, head, rest)
      BY <1>3, <2>1
    <3>4. D \subseteq UpTo(S, size, size[s])
      BY <2>1, <3>1 DEF UpTo
    <3>. HIDE DEF Part
    <3>5. Unfolds(Part(size[s]), D, stop, head, rest)
      BY <3>3, <3>4, Zenon DEF Unfolds
    <3>6. D \in SUBSET S /\ rest[s] \in D
      BY <3>1 DEF UpTo
    <3>7. \A x \in D : ~stop[x] => rest[x] \in D /\ size[rest[x]] < size[x]
      BY <1>1, <3>1
    <3>. HIDE DEF D
    <3>8. Part(size[s])[rest[s]] = Part(size[rest[s]])[rest[s]]
      BY <3>2, <3>5, <3>6, <3>7, UnfoldedAlike
    <3>. QED BY <3>1, <3>8
  <2>4. f[s] = Part(size[s])[s]
    OBVIOUS
  <2>. HIDE DEF f, Part
  <2>. QED BY <2>2, <2>3, <2>4
<1>5. f = [s \in S |-> f[s]]
  OBVIOUS
<1>. HIDE DEF f
<1>6. Unfolds(f, S, stop, head, rest)
  BY <1>4, Zenon DEF Unfolds
<1>. QED BY <1>5, <1>6

-----------------------------------------------------------------------------
(* Sequences.                                                              *)

\* What is left of a sequence from a position on.
LEMMA Suffix ==
  ASSUME NEW V, NEW s \in Seq(V), NEW n \in Nat, n >= 1
  PROVE  /\ SubSeq(s, n, Len(s)) \in Seq(V)
         /\ Len(SubSeq(s, n, Len(s))) = IF n <= Len(s) THEN Len(s) - n + 1 ELSE 0
         /\ \A i \in 1 .. Len(s) - n + 1 : SubSeq(s, n, Len(s))[i] = s[n + i - 1]
<1>1. Len(s) \in Int /\ n \in Int /\ \A i \in n .. Len(s) : s[i] \in V
  BY LenProperties, ElementOfSeq
<1>. QED BY <1>1, SubSeqProperties

\* And what is before it.
LEMMA Prefix ==
  ASSUME NEW V, NEW s \in Seq(V), NEW n \in 0 .. Len(s)
  PROVE  /\ SubSeq(s, 1, n) \in Seq(V)
         /\ Len(SubSeq(s, 1, n)) = n
         /\ \A i \in 1 .. n : SubSeq(s, 1, n)[i] = s[i]
<1>1. Len(s) \in Nat /\ n \in Int /\ \A i \in 1 .. n : s[i] \in V
  BY LenProperties, ElementOfSeq
<1>2. /\ SubSeq(s, 1, n) \in Seq(V)
      /\ Len(SubSeq(s, 1, n)) = IF 1 <= n THEN n - 1 + 1 ELSE 0
      /\ \A i \in 1 .. n - 1 + 1 : SubSeq(s, 1, n)[i] = s[1 + i - 1]
  BY <1>1, SubSeqProperties
<1>. QED BY <1>1, <1>2

\* Append as a concatenation.
LEMMA AppendAsConcat ==
  ASSUME NEW V, NEW s \in Seq(V), NEW e \in V
  PROVE  Append(s, e) = s \o <<e>> /\ <<e>> \in Seq(V)
OBVIOUS

\* A cut within the first of two sequences, from its left
LEMMA PrefixOfConcat ==
  ASSUME NEW V, NEW s \in Seq(V), NEW t \in Seq(V), NEW n \in 0 .. Len(s)
  PROVE  SubSeq(s \o t, 1, n) = SubSeq(s, 1, n)
<1>1. Len(s) \in Nat /\ Len(t) \in Nat
  BY LenProperties
<1>2. s \o t \in Seq(V) /\ Len(s \o t) = Len(s) + Len(t)
  BY ConcatProperties
<1>3. n \in 0 .. Len(s \o t)
  BY <1>1, <1>2
<1>4. \A i \in 1 .. n : (s \o t)[i] = s[i]
  BY <1>1, ConcatProperties
<1>5. \A i \in 1 .. n : SubSeq(s \o t, 1, n)[i] = SubSeq(s, 1, n)[i]
  BY <1>2, <1>3, <1>4, Prefix
<1>6. /\ SubSeq(s \o t, 1, n) \in Seq(V) /\ Len(SubSeq(s \o t, 1, n)) = n
      /\ SubSeq(s, 1, n) \in Seq(V) /\ Len(SubSeq(s, 1, n)) = n
  BY <1>2, <1>3, Prefix
<1>. QED BY <1>5, <1>6, SeqEqual

\* and from its right.
LEMMA SuffixOfConcat ==
  ASSUME NEW V, NEW s \in Seq(V), NEW t \in Seq(V), NEW n \in 1 .. Len(s) + 1
  PROVE  SubSeq(s \o t, n, Len(s \o t)) = SubSeq(s, n, Len(s)) \o t
<1>1. Len(s) \in Nat /\ Len(t) \in Nat
  BY LenProperties
<1>2. s \o t \in Seq(V) /\ Len(s \o t) = Len(s) + Len(t)
  BY ConcatProperties
<1>3. \A i \in 1 .. Len(s) + Len(t) : (s \o t)[i] = IF i <= Len(s) THEN s[i] ELSE t[i - Len(s)]
  BY ConcatProperties
<1> DEFINE a == SubSeq(s \o t, n, Len(s \o t))
           b == SubSeq(s, n, Len(s))
<1>4. /\ a \in Seq(V) /\ Len(a) = Len(s) + Len(t) - n + 1
      /\ \A i \in 1 .. Len(s) + Len(t) - n + 1 : a[i] = (s \o t)[n + i - 1]
  BY <1>1, <1>2, Suffix
<1>5. /\ b \in Seq(V) /\ Len(b) = Len(s) - n + 1
      /\ \A i \in 1 .. Len(s) - n + 1 : b[i] = s[n + i - 1]
  BY <1>1, Suffix
<1>. HIDE DEF a, b
<1>6. /\ b \o t \in Seq(V) /\ Len(b \o t) = Len(b) + Len(t)
      /\ \A i \in 1 .. Len(b) + Len(t) : (b \o t)[i] = IF i <= Len(b) THEN b[i] ELSE t[i - Len(b)]
  BY <1>5, ConcatProperties
<1>7. ASSUME NEW i \in 1 .. Len(a) PROVE a[i] = (b \o t)[i]
  <2>1. a[i] = (s \o t)[n + i - 1] /\ n + i - 1 \in 1 .. Len(s) + Len(t)
    BY <1>1, <1>4
  <2>2. CASE i <= Len(b)
    <3>1. a[i] = s[n + i - 1]
      BY <1>1, <1>3, <1>5, <2>1, <2>2
    <3>2. b[i] = s[n + i - 1] /\ (b \o t)[i] = b[i]
      BY <1>1, <1>4, <1>5, <1>6, <2>2
    <3>. QED BY <3>1, <3>2
  <2>3. CASE ~(i <= Len(b))
    <3>1. a[i] = t[n + i - 1 - Len(s)]
      BY <1>1, <1>3, <1>4, <1>5, <2>1, <2>3
    <3>2. (b \o t)[i] = t[i - Len(b)]
      BY <1>1, <1>4, <1>5, <1>6, <2>3
    <3>3. i - Len(b) = n + i - 1 - Len(s)
      BY <1>1, <1>5
    <3>. QED BY <3>1, <3>2, <3>3
  <2>. QED BY <2>2, <2>3
<1>8. Len(a) = Len(b \o t)
  BY <1>1, <1>4, <1>5, <1>6
<1>9. a = b \o t
  BY <1>4, <1>6, <1>7, <1>8, SeqEqual
<1>. QED BY <1>9 DEF a, b

\* A sequence is a prefix of what it starts.
LEMMA PrefixOfWhole ==
  ASSUME NEW V, NEW s \in Seq(V), NEW t \in Seq(V)
  PROVE  IsPrefix(s, s \o t)
<1>1. Len(s) \in Nat /\ Len(t) \in Nat /\ Len(s \o t) = Len(s) + Len(t)
  BY LenProperties, ConcatProperties
<1>2. SubSeq(s \o t, 1, Len(s)) = SubSeq(s, 1, Len(s))
  BY <1>1, PrefixOfConcat
<1>. QED BY <1>1, <1>2 DEF IsPrefix

\* The least and the greatest of a set of positions.
LEMMA MinIs ==
  ASSUME NEW T \in SUBSET Nat, NEW m \in T, \A k \in T : m <= k
  PROVE  Min(T) = m
<1>1. Min(T) \in T /\ \A k \in T : Min(T) <= k
  BY Zenon DEF Min
<1>2. Min(T) <= m /\ m <= Min(T) /\ Min(T) \in Nat /\ m \in Nat
  BY <1>1
<1>. QED BY <1>2

\* A set of numbers has a least one,
LEMMA MinIn ==
  ASSUME NEW T \in SUBSET Nat, T # {}
  PROVE  Min(T) \in T /\ \A k \in T : Min(T) <= k
<1>1. \E m \in T : \A k \in T : m <= k
  BY LeastOf
<1>. QED BY <1>1, Zenon DEF Min

\* the greatest is the one nothing exceeds,
LEMMA MaxIs ==
  ASSUME NEW T \in SUBSET Nat, NEW m \in T, \A k \in T : k <= m
  PROVE  Max(T) = m
<1>0. m \in Nat /\ \A k \in T : k \in Nat
  OBVIOUS
<1>1. \A k \in T : m >= k
  BY <1>0
<1>2. Max(T) \in T /\ \A k \in T : Max(T) >= k
  BY <1>1, Zenon DEF Max
<1>3. Max(T) >= m /\ m >= Max(T) /\ Max(T) \in Nat /\ m \in Nat
  BY <1>1, <1>2
<1>. QED BY <1>3

\* and a bounded set has a greatest one.
LEMMA MaxIn ==
  ASSUME NEW n \in Nat, NEW T \in SUBSET (0 .. n), T # {}
  PROVE  Max(T) \in T /\ \A k \in T : k <= Max(T)
<1> DEFINE U == {n - k : k \in T}
<1>0. \A k \in T : k \in 0 .. n /\ k \in Nat /\ n - k \in Nat
  <2>. SUFFICES ASSUME NEW k \in T PROVE k \in 0 .. n /\ k \in Nat /\ n - k \in Nat
    OBVIOUS
  <2>1. k \in 0 .. n
    BY Zenon
  <2>. QED BY <2>1
<1>1. U \in SUBSET Nat /\ U # {}
  BY <1>0
<1>2. PICK u \in U : \A k \in U : u <= k
  BY <1>1, LeastOf
<1>3. PICK m \in T : u = n - m
  BY <1>2
<1>4. \A k \in T : n - k \in U /\ k \in Nat
  BY <1>0
<1>. HIDE DEF U
<1>5. \A k \in T : n - m <= n - k /\ k \in Nat
  BY <1>2, <1>3, <1>4
<1>6. m \in Nat /\ \A k \in T : m >= k
  BY <1>5
<1>7. Max(T) \in T /\ \A k \in T : Max(T) >= k
  BY <1>6, Zenon DEF Max
<1>8. Max(T) \in Nat
  BY <1>0, <1>7, Zenon
<1>. QED BY <1>0, <1>7, <1>8

-----------------------------------------------------------------------------
(* The characters of a body.                                               *)

Symbols == Bytes \union {"end"}
Letters == Chars \union {"end"}

IsPair(b) == b[1] = "lead" /\ b[2] = "cont"
CharAt(b) == IF IsPair(b) THEN "wide" ELSE IF b[1] \in {"lead", "cont"} THEN "bad" ELSE b[1]
AfterChar(b) == SubSeq(b, IF IsPair(b) THEN 3 ELSE 2, Len(b))

\* The first character of a body that is more than half of one.
LEMMA CharFacts ==
  ASSUME NEW b \in Seq(Symbols), b \notin {<<>>, <<"lead">>}
  PROVE  /\ b[1] \in Symbols /\ Len(b) \in Nat \ {0}
         /\ <<CharAt(b)>> \in Seq(Letters)
         /\ AfterChar(b) \in Seq(Symbols) /\ Len(AfterChar(b)) < Len(b)
<1>1. Len(b) \in Nat \ {0}
  BY EmptySeq
<1>2. b[1] \in Symbols
  BY <1>1, ElementOfSeq
<1>3. CharAt(b) \in Letters
  BY <1>2 DEF CharAt, Symbols, Letters, Bytes, Chars, Text, Breaks
<1>4. AfterChar(b) \in Seq(Symbols) /\ Len(AfterChar(b)) < Len(b)
  BY <1>1, Suffix DEF AfterChar
<1>. QED BY <1>1, <1>2, <1>3, <1>4

\* Decoding is the function that its definition describes.
LEMMA DecodingUnfolds ==
  Decoding = [b \in Seq(Symbols) |-> IF b \in {<<>>, <<"lead">>} THEN <<>>
                                     ELSE <<CharAt(b)>> \o Decoding[AfterChar(b)]]
<1> DEFINE S == Seq(Symbols)
           size == [b \in S |-> Len(b)]
           stop == [b \in S |-> b \in {<<>>, <<"lead">>}]
           head == [b \in S |-> <<CharAt(b)>>]
           rest == [b \in S |-> AfterChar(b)]
<1>1. size \in [S -> Nat]
  BY LenProperties
<1>2. \A b \in S : ~stop[b] => rest[b] \in S /\ size[rest[b]] < size[b]
  BY CharFacts
<1> DEFINE Step(f, b) ==
             IF b \in {<<>>, <<"lead">>} THEN <<>>
             ELSE IF b[1] = "lead" /\ b[2] = "cont"
               THEN <<"wide">> \o f[SubSeq(b, 3, Len(b))]
               ELSE <<IF b[1] \in {"lead", "cont"} THEN "bad" ELSE b[1]>>
                      \o f[SubSeq(b, 2, Len(b))]
<1>3. ASSUME NEW f, NEW b
      PROVE  Step(f, b) = IF b \in {<<>>, <<"lead">>} THEN <<>>
                          ELSE <<CharAt(b)>> \o f[AfterChar(b)]
  <2>1. CASE IsPair(b)
    BY <2>1, Zenon DEF IsPair, CharAt, AfterChar
  <2>2. CASE ~IsPair(b)
    BY <2>2, Zenon DEF IsPair, CharAt, AfterChar
  <2>. QED BY <2>1, <2>2
<1>4. PICK f : f = [b \in S |-> f[b]] /\ Unfolds(f, S, stop, head, rest)
  <2>. HIDE DEF S, size, stop, head, rest
  <2>. QED BY <1>1, <1>2, UnfoldedIs
<1>5. ASSUME NEW b \in S PROVE f[b] = Step(f, b)
  <2>1. f[b] = IF stop[b] THEN <<>> ELSE head[b] \o f[rest[b]]
    BY <1>4, Zenon DEF Unfolds
  <2>2. f[b] = IF b \in {<<>>, <<"lead">>} THEN <<>> ELSE <<CharAt(b)>> \o f[AfterChar(b)]
    BY <2>1, Zenon
  <2>. QED BY <1>3, <2>2, Zenon
<1>. HIDE DEF size, stop, head, rest
<1>6. f = [b \in S |-> Step(f, b)]
  <2>. HIDE DEF Step
  <2>1. [b \in S |-> f[b]] = [b \in S |-> Step(f, b)]
    BY <1>5, Zenon
  <2>. QED BY <1>4, <2>1, Zenon
<1>7. Decoding = [b \in S |-> Step(Decoding, b)]
  BY <1>6, Zenon DEF Decoding, Symbols
<1>. QED BY <1>3, <1>7, Zenon

\* Where it stops,
LEMMA DecodingStops == Decoding[<<>>] = <<>> /\ Decoding[<<"lead">>] = <<>>
<1>1. <<>> \in Seq(Symbols) /\ <<"lead">> \in Seq(Symbols)
  BY DEF Symbols, Bytes
<1>. QED BY <1>1, DecodingUnfolds, Zenon

\* and where it goes on.
LEMMA DecodingStep ==
  ASSUME NEW b \in Seq(Symbols), b \notin {<<>>, <<"lead">>}
  PROVE  Decoding[b] = <<CharAt(b)>> \o Decoding[AfterChar(b)]
BY DecodingUnfolds, Zenon

\* A lead byte that is not the last of what is left is decoded with the next one.
LEMMA LoneLead ==
  ASSUME NEW b \in Seq(Symbols), b \notin {<<>>, <<"lead">>}
  PROVE  Len(b) \in Nat /\ (Len(b) >= 2 \/ (Len(b) = 1 /\ b[1] # "lead"))
<1>1. Len(b) \in Nat \ {0}
  BY CharFacts
<1>2. ASSUME Len(b) = 1, b[1] = "lead" PROVE FALSE
  <2>1. <<"lead">> \in Seq(Symbols) /\ Len(<<"lead">>) = 1 /\ <<"lead">>[1] = "lead"
    BY DEF Symbols, Bytes
  <2>2. b = <<"lead">>
    BY <1>2, <2>1, SeqEqual
  <2>. QED BY <2>2
<1>3. Len(b) \in Nat /\ (Len(b) >= 2 \/ Len(b) = 1)
  <2> DEFINE n == Len(b)
  <2>1. n \in Nat /\ n # 0
    BY <1>1
  <2>. HIDE DEF n
  <2>2. n >= 2 \/ n = 1
    BY <2>1
  <2>. QED BY <2>1, <2>2 DEF n
<1>. QED BY <1>2, <1>3, Zenon

\* The first character of a body that holds it whole is that of any body it starts.
LEMMA DecodingOfConcat ==
  ASSUME NEW b \in Seq(Symbols), b \notin {<<>>, <<"lead">>}, NEW t \in Seq(Symbols)
  PROVE  Decoding[b \o t] = <<CharAt(b)>> \o Decoding[AfterChar(b) \o t]
<1>1. /\ b \o t \in Seq(Symbols) /\ Len(b \o t) = Len(b) + Len(t)
      /\ Len(b) \in Nat /\ Len(t) \in Nat /\ Len(b) >= 1
  BY ConcatProperties, CharFacts, LenProperties
<1>2. (b \o t)[1] = b[1] /\ (Len(b) >= 2 => (b \o t)[2] = b[2])
  BY <1>1, ConcatProperties
<1>3. Len(b) >= 2 \/ (Len(b) = 1 /\ b[1] # "lead")
  BY LoneLead
<1>4. IsPair(b \o t) <=> IsPair(b)
  BY <1>2, <1>3, Zenon DEF IsPair
<1>5. CharAt(b \o t) = CharAt(b)
  BY <1>2, <1>4, Zenon DEF CharAt
<1>6. IsPair(b) => Len(b) >= 2
  BY <1>3, Zenon DEF IsPair
<1> DEFINE n == IF IsPair(b) THEN 3 ELSE 2
<1>7. n \in 1 .. Len(b) + 1
  BY <1>1, <1>6
<1>8. AfterChar(b \o t) = SubSeq(b \o t, n, Len(b \o t)) /\ AfterChar(b) = SubSeq(b, n, Len(b))
  BY <1>4, Zenon DEF AfterChar
<1>. HIDE DEF n
<1>9. AfterChar(b \o t) = AfterChar(b) \o t
  BY <1>7, <1>8, SuffixOfConcat
<1>10. b \o t \notin {<<>>, <<"lead">>}
  <2>1. b \o t # <<>>
    BY <1>1, EmptySeq
  <2>2. ASSUME b \o t = <<"lead">> PROVE FALSE
    <3>1. Len(<<"lead">>) = 1 /\ <<"lead">>[1] = "lead"
      OBVIOUS
    <3>2. Len(b \o t) = 1 /\ (b \o t)[1] = "lead"
      BY <2>2, <3>1, Zenon
    <3> DEFINE k == Len(b)
               l == Len(t)
    <3>3. k + l = 1 /\ k \in Nat /\ l \in Nat /\ k >= 1
      BY <1>1, <3>2, Zenon
    <3>. HIDE DEF k, l
    <3>4. k = 1
      BY <3>3
    <3>5. Len(b) = 1
      BY <3>4 DEF k
    <3>. QED BY <1>2, <1>3, <3>2, <3>5
  <2>. QED BY <2>1, <2>2
<1>. QED BY <1>1, <1>5, <1>9, <1>10, DecodingStep

\* What is left of a body where its end is reached.
LEMMA DecodingEnds ==
  /\ Decoding[<<"end">>] = <<"end">>
  /\ Decoding[<<"lead">> \o <<"end">>] = <<"bad">> \o <<"end">>
<1> DEFINE e == <<"end">>
           h == <<"lead">>
<1>1. e \in Seq(Symbols) /\ Len(e) = 1 /\ e[1] = "end" /\ h \in Seq(Symbols) /\ Len(h) = 1 /\ h[1] = "lead"
  BY DEF Symbols, Bytes
<1>. HIDE DEF e, h
<1>2. h \o e \in Seq(Symbols) /\ Len(h \o e) = 2 /\ (h \o e)[1] = "lead" /\ (h \o e)[2] = "end"
  BY <1>1, ConcatProperties
<1>3. e # <<>> /\ e # h /\ h \o e # <<>> /\ h \o e # h
  BY <1>1, <1>2
<1>4. ~IsPair(e) /\ ~IsPair(h \o e)
  BY <1>1, <1>2 DEF IsPair
<1>5. CharAt(e) = "end" /\ CharAt(h \o e) = "bad"
  BY <1>1, <1>2, <1>4 DEF CharAt
<1>6. AfterChar(e) = SubSeq(e, 2, Len(e)) /\ AfterChar(h \o e) = SubSeq(h \o e, 2, Len(h \o e))
  BY <1>4, Zenon DEF AfterChar
<1>7. AfterChar(e) = <<>>
  BY <1>1, <1>6, SubSeqEmpty
<1>8. AfterChar(h \o e) = e
  <2>1. SubSeq(h \o e, 2, Len(h \o e)) = SubSeq(h, 2, Len(h)) \o e
    BY <1>1, SuffixOfConcat
  <2>2. SubSeq(h, 2, Len(h)) = <<>>
    BY <1>1, SubSeqEmpty
  <2>. QED BY <1>1, <1>6, <2>1, <2>2, ConcatEmptySeq
<1>9. Decoding[e] = <<"end">> \o <<>>
  BY <1>1, <1>3, <1>5, <1>7, DecodingStep, DecodingStops DEF h
<1>10. Decoding[e] = e
  BY <1>1, <1>9, ConcatEmptySeq DEF e
<1>11. Decoding[h \o e] = <<"bad">> \o e
  BY <1>2, <1>3, <1>5, <1>8, <1>10, DecodingStep DEF h
<1>. QED BY <1>10, <1>11 DEF e, h

\* A body decodes to a text.
LEMMA DecodingType ==
  ASSUME NEW b \in Seq(Symbols)
  PROVE  Decoding[b] \in Seq(Letters)
<1> DEFINE S == Seq(Symbols)
           size == [x \in S |-> Len(x)]
           stop == [x \in S |-> x \in {<<>>, <<"lead">>}]
           head == [x \in S |-> <<CharAt(x)>>]
           rest == [x \in S |-> AfterChar(x)]
<1>1. size \in [S -> Nat]
  BY LenProperties
<1>2. \A x \in S : ~stop[x] =>
        head[x] \in Seq(Letters) /\ rest[x] \in S /\ size[rest[x]] < size[x]
  BY CharFacts
<1>3. Unfolds(Decoding, S, stop, head, rest)
  <2>. SUFFICES ASSUME NEW x \in S
                PROVE  Decoding[x] = IF stop[x] THEN <<>> ELSE head[x] \o Decoding[rest[x]]
    BY Zenon DEF Unfolds
  <2>1. Decoding[x] = IF x \in {<<>>, <<"lead">>} THEN <<>>
                      ELSE <<CharAt(x)>> \o Decoding[AfterChar(x)]
    BY DecodingUnfolds, Zenon
  <2>. QED BY <2>1, Zenon
<1>. HIDE DEF S, size, stop, head, rest
<1>4. \A x \in S : Decoding[x] \in Seq(Letters)
  BY <1>1, <1>2, <1>3, UnfoldedType
<1>. QED BY <1>4 DEF S

-----------------------------------------------------------------------------
(* The lines of a text.                                                    *)

Stops(s) == {i \in DOMAIN s : s[i] \in Breaks \union {"end"}}

\* Where lines end are positions of the text.
LEMMA EndsFacts ==
  ASSUME NEW s \in Seq(Letters)
  PROVE  /\ Ends(s) \in SUBSET (1 .. Len(s)) /\ Ends(s) \in SUBSET Nat
         /\ Stops(s) \in SUBSET (1 .. Len(s)) /\ Stops(s) \in SUBSET Nat
         /\ Ends(s) \subseteq Stops(s)
<1>1. Len(s) \in Nat /\ DOMAIN s = 1 .. Len(s)
  BY LenProperties
<1>2. Ends(s) \in SUBSET (1 .. Len(s)) /\ Stops(s) \in SUBSET (1 .. Len(s))
  BY <1>1, Zenon DEF Ends, Stops
<1>3. 1 .. Len(s) \subseteq Nat
  BY <1>1
<1>4. Ends(s) \subseteq Stops(s)
  BY DEF Ends, Stops, Breaks
<1>. QED BY <1>2, <1>3, <1>4

\* A text with a whole line is that line and a shorter text.
LEMMA LineFacts ==
  ASSUME NEW s \in Seq(Letters), Ends(s) # {}
  PROVE  /\ FirstLine(s) \in Seq(Letters)
         /\ AfterLine(s) \in Seq(Letters) /\ Len(AfterLine(s)) < Len(s)
<1>1. Min(Ends(s)) \in Ends(s) /\ Min(Stops(s)) \in Stops(s)
  BY EndsFacts, MinIn
<1>2. Min(Ends(s)) \in 1 .. Len(s) /\ Min(Stops(s)) \in 1 .. Len(s) /\ Len(s) \in Nat
  BY <1>1, EndsFacts, LenProperties
<1>3. FirstLine(s) = SubSeq(s, 1, Min(Stops(s)) - 1)
  BY Zenon DEF FirstLine, Stops
<1>4. Min(Stops(s)) - 1 \in 0 .. Len(s)
  BY <1>2
<1>5. FirstLine(s) \in Seq(Letters)
  BY <1>3, <1>4, Prefix
<1> DEFINE n == Min(Ends(s)) + 1
<1>6. AfterLine(s) = SubSeq(s, n, Len(s))
  BY Zenon DEF AfterLine
<1>7. n \in Nat /\ n >= 2
  BY <1>2
<1>. HIDE DEF n
<1>8. AfterLine(s) \in Seq(Letters) /\ Len(AfterLine(s)) = IF n <= Len(s) THEN Len(s) - n + 1 ELSE 0
  BY <1>6, <1>7, Suffix
<1>9. Len(s) >= 1
  BY <1>2
<1>10. Len(AfterLine(s)) < Len(s)
  BY <1>2, <1>7, <1>8, <1>9
<1>. QED BY <1>5, <1>8, <1>10

\* A content is a text without breaks.
LEMMA ContentType ==
  ASSUME NEW line \in Seq(Letters), IsContent(line)
  PROVE  line \in Seq(Text)
<1>1. Len(line) \in Nat /\ DOMAIN line = 1 .. Len(line)
  BY LenProperties
<1>2. \A i \in 1 .. Len(line) : line[i] \in Text
  BY <1>1, Zenon DEF IsContent
<1>3. SubSeq(line, 1, Len(line)) \in Seq(Text)
  BY <1>1, <1>2, SubSeqProperties
<1>. QED BY <1>3, SubSeqFull

\* The contents of a line: one or none.
OfLine(line) == IF IsContent(line) THEN <<line>> ELSE <<>>

\* The contents of a line are contents.
LEMMA OfLineType ==
  ASSUME NEW line \in Seq(Letters)
  PROVE  OfLine(line) \in Seq(Seq(Text))
BY ContentType DEF OfLine

Stopped(s) == Ends(s) = {} \/ IsDone(FirstLine(s))

\* Contents is the function that its definition describes.
LEMMA ContentsUnfolds ==
  Contents = [s \in Seq(Letters) |-> IF Stopped(s) THEN <<>>
                                     ELSE OfLine(FirstLine(s)) \o Contents[AfterLine(s)]]
<1> DEFINE S == Seq(Letters)
           size == [s \in S |-> Len(s)]
           stop == [s \in S |-> Stopped(s)]
           head == [s \in S |-> OfLine(FirstLine(s))]
           rest == [s \in S |-> AfterLine(s)]
           Step(f, s) ==
             IF Ends(s) = {} \/ IsDone(FirstLine(s)) THEN <<>>
             ELSE (IF IsContent(FirstLine(s)) THEN <<FirstLine(s)>> ELSE <<>>) \o f[AfterLine(s)]
<1>1. size \in [S -> Nat]
  BY LenProperties
<1>2. \A s \in S : ~stop[s] => rest[s] \in S /\ size[rest[s]] < size[s]
  <2>1. ASSUME NEW s \in S, ~stop[s] PROVE Ends(s) # {}
    BY <2>1, Zenon DEF Stopped
  <2>. QED BY <2>1, LineFacts
<1>3. ASSUME NEW f, NEW s
      PROVE  Step(f, s) = IF Stopped(s) THEN <<>> ELSE OfLine(FirstLine(s)) \o f[AfterLine(s)]
  BY Zenon DEF Stopped, OfLine
<1>4. PICK f : f = [s \in S |-> f[s]] /\ Unfolds(f, S, stop, head, rest)
  <2>. HIDE DEF S, size, stop, head, rest
  <2>. QED BY <1>1, <1>2, UnfoldedIs
<1>5. ASSUME NEW s \in S PROVE f[s] = Step(f, s)
  <2>1. f[s] = IF stop[s] THEN <<>> ELSE head[s] \o f[rest[s]]
    BY <1>4, Zenon DEF Unfolds
  <2>2. f[s] = IF Stopped(s) THEN <<>> ELSE OfLine(FirstLine(s)) \o f[AfterLine(s)]
    BY <2>1, Zenon
  <2>. QED BY <1>3, <2>2, Zenon
<1>. HIDE DEF size, stop, head, rest
<1>6. f = [s \in S |-> Step(f, s)]
  <2>. HIDE DEF Step
  <2>1. [s \in S |-> f[s]] = [s \in S |-> Step(f, s)]
    BY <1>5, Zenon
  <2>. QED BY <1>4, <2>1, Zenon
<1>7. Contents = [s \in S |-> Step(Contents, s)]
  BY <1>6, Zenon DEF Contents, Letters
<1>. QED BY <1>3, <1>7, Zenon

\* Where it stops,
LEMMA ContentsStops ==
  ASSUME NEW s \in Seq(Letters), Stopped(s)
  PROVE  Contents[s] = <<>>
BY ContentsUnfolds, Zenon

\* and where it goes on.
LEMMA ContentsStep ==
  ASSUME NEW s \in Seq(Letters), ~Stopped(s)
  PROVE  Contents[s] = OfLine(FirstLine(s)) \o Contents[AfterLine(s)]
BY ContentsUnfolds, Zenon

\* The contents of a text are contents.
LEMMA ContentsType ==
  ASSUME NEW s \in Seq(Letters)
  PROVE  Contents[s] \in Seq(Seq(Text))
<1> DEFINE S == Seq(Letters)
           size == [x \in S |-> Len(x)]
           stop == [x \in S |-> Stopped(x)]
           head == [x \in S |-> OfLine(FirstLine(x))]
           rest == [x \in S |-> AfterLine(x)]
<1>1. size \in [S -> Nat]
  BY LenProperties
<1>2. \A x \in S : ~stop[x] =>
        head[x] \in Seq(Seq(Text)) /\ rest[x] \in S /\ size[rest[x]] < size[x]
  <2>1. ASSUME NEW x \in S, ~stop[x] PROVE Ends(x) # {}
    BY <2>1, Zenon DEF Stopped
  <2>. QED BY <2>1, LineFacts, OfLineType
<1>3. Unfolds(Contents, S, stop, head, rest)
  <2>. SUFFICES ASSUME NEW x \in S
                PROVE  Contents[x] = IF stop[x] THEN <<>> ELSE head[x] \o Contents[rest[x]]
    BY Zenon DEF Unfolds
  <2>1. Contents[x] = IF Stopped(x) THEN <<>> ELSE OfLine(FirstLine(x)) \o Contents[AfterLine(x)]
    BY ContentsUnfolds, Zenon
  <2>. QED BY <2>1, Zenon
<1>. HIDE DEF S, size, stop, head, rest
<1>4. \A x \in S : Contents[x] \in Seq(Seq(Text))
  BY <1>1, <1>2, <1>3, UnfoldedType
<1>. QED BY <1>4 DEF S

\* The line that has not ended is the same after the first line is taken.
LEMMA OpenLineAfter ==
  ASSUME NEW s \in Seq(Letters), Ends(s) # {}
  PROVE  OpenLine(s) = OpenLine(AfterLine(s))
<1> DEFINE q == Min(Ends(s))
           r == AfterLine(s)
           M == Max(Ends(r) \union {0})
<1>1. q \in Ends(s) /\ \A k \in Ends(s) : q <= k
  BY EndsFacts, MinIn
<1>2. q \in 1 .. Len(s) /\ q \in Nat /\ q + 1 \in Nat /\ Len(s) \in Nat
  BY <1>1, EndsFacts, LenProperties
<1>3. r = SubSeq(s, q + 1, Len(s))
  BY Zenon DEF AfterLine
<1>. HIDE DEF q, r
<1>4. /\ r \in Seq(Letters) /\ Len(r) = Len(s) - q
      /\ \A i \in 1 .. Len(s) - q : r[i] = s[q + i]
  <2>1. /\ SubSeq(s, q + 1, Len(s)) \in Seq(Letters)
        /\ Len(SubSeq(s, q + 1, Len(s)))
             = IF q + 1 <= Len(s) THEN Len(s) - (q + 1) + 1 ELSE 0
        /\ \A i \in 1 .. Len(s) - (q + 1) + 1 :
             SubSeq(s, q + 1, Len(s))[i] = s[(q + 1) + i - 1]
    BY <1>2, Suffix
  <2>. QED BY <1>2, <1>3, <2>1
<1>5. ASSUME NEW i \in 1 .. Len(r)
      PROVE  /\ i \in Ends(r) <=> q + i \in Ends(s)
  <2>1. q + i \in 1 .. Len(s) /\ r[i] = s[q + i] /\ (i < Len(r) <=> q + i < Len(s))
    BY <1>2, <1>4
  <2>2. ASSUME i < Len(r) PROVE r[i + 1] = s[q + i + 1]
    <3>1. i + 1 \in 1 .. Len(s) - q /\ q + (i + 1) = q + i + 1
      BY <1>2, <1>4, <2>2
    <3>. QED BY <1>4, <3>1
  <2>3. DOMAIN r = 1 .. Len(r) /\ DOMAIN s = 1 .. Len(s)
    BY <1>4, LenProperties
  <2>4. i \in Ends(r) <=> \/ r[i] \in {"LF", "end"}
                          \/ r[i] = "CR" /\ i < Len(r) /\ r[i + 1] # "LF"
    BY <2>3, Zenon DEF Ends
  <2>5. q + i \in Ends(s) <=> \/ s[q + i] \in {"LF", "end"}
                              \/ s[q + i] = "CR" /\ q + i < Len(s) /\ s[q + i + 1] # "LF"
    BY <2>1, <2>3, Zenon DEF Ends
  <2>. QED BY <2>1, <2>2, <2>4, <2>5, Zenon
<1>6. Ends(r) \in SUBSET (1 .. Len(r)) /\ Len(r) \in Nat
  BY <1>4, EndsFacts, LenProperties
<1>7. Ends(r) \union {0} \in SUBSET (0 .. Len(r))
  BY <1>6
<1>8. M \in Ends(r) \union {0} /\ \A k \in Ends(r) \union {0} : k <= M
  BY <1>6, <1>7, MaxIn
<1>9. M \in 0 .. Len(r) /\ M \in Nat
  BY <1>6, <1>7, <1>8
<1>. HIDE DEF M
<1>10. Max(Ends(s) \union {0}) = q + M
  <2>1. q + M \in Ends(s) \union {0}
    <3>1. CASE M = 0
      BY <1>1, <1>2, <3>1
    <3>2. CASE M # 0
      <4>1. M \in 1 .. Len(r) /\ M \in Ends(r)
        BY <1>8, <1>9, <3>2
      <4>. QED BY <1>5, <4>1
    <3>. QED BY <3>1, <3>2
  <2>2. ASSUME NEW k \in Ends(s) \union {0} PROVE k <= q + M
    <3>1. CASE k = 0 \/ k = q
      BY <1>2, <1>9, <3>1
    <3>2. CASE k # 0 /\ k # q
      <4>1. k \in Ends(s) /\ k \in 1 .. Len(s) /\ q <= k
        BY <1>1, <3>2, EndsFacts
      <4>2. k - q \in 1 .. Len(r) /\ q + (k - q) = k
        BY <1>2, <1>4, <3>2, <4>1
      <4>3. k - q \in Ends(r)
        BY <1>5, <4>1, <4>2
      <4>4. k - q <= M
        BY <1>8, <4>3
      <4>. QED BY <1>2, <1>9, <4>1, <4>4
    <3>. QED BY <3>1, <3>2
  <2>3. Ends(s) \union {0} \in SUBSET Nat
    BY EndsFacts
  <2>. QED BY <2>1, <2>2, <2>3, MaxIs
<1> DEFINE a == SubSeq(s, q + M + 1, Len(s))
           b == SubSeq(r, M + 1, Len(r))
<1>11. OpenLine(s) = a /\ OpenLine(r) = b
  BY <1>10, Zenon DEF OpenLine, M
<1>12. q + M + 1 \in Nat /\ q + M + 1 >= 1 /\ M + 1 \in Nat /\ M + 1 >= 1
  BY <1>2, <1>9
<1>13. /\ a \in Seq(Letters)
       /\ Len(a) = IF q + M + 1 <= Len(s) THEN Len(s) - (q + M + 1) + 1 ELSE 0
       /\ \A i \in 1 .. Len(s) - (q + M + 1) + 1 : a[i] = s[(q + M + 1) + i - 1]
  BY <1>12, Suffix
<1>14. /\ b \in Seq(Letters)
       /\ Len(b) = IF M + 1 <= Len(r) THEN Len(r) - (M + 1) + 1 ELSE 0
       /\ \A i \in 1 .. Len(r) - (M + 1) + 1 : b[i] = r[(M + 1) + i - 1]
  BY <1>4, <1>12, Suffix
<1>. HIDE DEF a, b
<1>15. Len(a) = Len(s) - q - M /\ Len(b) = Len(s) - q - M
  <2>1. Len(r) = Len(s) - q /\ M <= Len(s) - q
    BY <1>4, <1>9
  <2>2. Len(a) = Len(s) - q - M
    <3>1. Len(a) = IF q + M + 1 <= Len(s) THEN Len(s) - (q + M + 1) + 1 ELSE 0
      BY <1>13, Zenon
    <3>2. q \in Nat /\ M \in Nat /\ Len(s) \in Nat /\ q + M <= Len(s)
      BY <1>2, <1>9, <2>1
    <3>3. CASE q + M + 1 <= Len(s)
      BY <3>1, <3>2, <3>3
    <3>4. CASE ~(q + M + 1 <= Len(s))
      BY <3>1, <3>2, <3>4
    <3>. QED BY <3>3, <3>4
  <2>3. Len(b) = Len(r) - M
    BY <1>6, <1>9, <1>14
  <2>. QED BY <1>2, <1>9, <2>1, <2>2, <2>3
<1>16. ASSUME NEW i \in 1 .. Len(a) PROVE a[i] = b[i]
  <2>1. i \in Nat /\ i >= 1 /\ i <= Len(s) - q - M
    BY <1>2, <1>9, <1>15
  <2>2. i \in 1 .. Len(s) - (q + M + 1) + 1 /\ i \in 1 .. Len(r) - (M + 1) + 1
    BY <1>2, <1>4, <1>9, <2>1
  <2>3. a[i] = s[(q + M + 1) + i - 1] /\ b[i] = r[(M + 1) + i - 1]
    BY <1>13, <1>14, <2>2
  <2>4. (M + 1) + i - 1 \in 1 .. Len(s) - q /\ q + ((M + 1) + i - 1) = (q + M + 1) + i - 1
    BY <1>2, <1>9, <2>1
  <2>. QED BY <1>4, <2>3, <2>4
<1>17. a = b
  BY <1>13, <1>14, <1>15, <1>16, SeqEqual
<1>. QED BY <1>11, <1>17 DEF r

-----------------------------------------------------------------------------
(* The lines of the buffer.                                                *)

Line == SubSeq(buffer, 1, LineEnd)
Rest == SubSeq(buffer, NextLine, Len(buffer))

\* The buffer never holds the end of the body.
LEMMA CharsAreLetters ==
  ASSUME NEW s \in Seq(Chars)
  PROVE  s \in Seq(Letters) /\ \A i \in 1 .. Len(s) : s[i] # "end"
<1>1. s \in Seq(Letters)
  BY SeqMonotonic DEF Letters
<1>2. \A i \in 1 .. Len(s) : s[i] \in Chars
  BY ElementOfSeq
<1>3. "end" \notin Chars
  BY DEF Chars, Text, Breaks
<1>. QED BY <1>1, <1>2, <1>3

\* The breaks of the buffer.
LEMMA BreakFacts ==
  ASSUME buffer \in Seq(Chars)
  PROVE  /\ BreakAt \in SUBSET (1 .. Len(buffer)) /\ BreakAt \in SUBSET Nat
         /\ BreakAt # {} => Min(BreakAt) \in BreakAt /\ \A k \in BreakAt : Min(BreakAt) <= k
<1>1. Len(buffer) \in Nat /\ DOMAIN buffer = 1 .. Len(buffer)
  BY LenProperties
<1>2. BreakAt \in SUBSET (1 .. Len(buffer))
  BY <1>1, Zenon DEF BreakAt
<1>3. BreakAt \in SUBSET Nat
  BY <1>1, <1>2
<1>. QED BY <1>2, <1>3, MinIn

\* The first line of a text that starts with the buffer ends within it, where the
\* code ends it.
LEMMA FirstLineOfConcat ==
  ASSUME buffer \in Seq(Chars), BreakAt # {}, NEW u \in Seq(Letters),
         \/ Min(BreakAt) < Len(buffer)
         \/ buffer[Min(BreakAt)] = "LF"
         \/ u # <<>> /\ u[1] # "LF"
  PROVE  /\ Ends(buffer \o u) # {}
         /\ FirstLine(buffer \o u) = Line
         /\ AfterLine(buffer \o u) = Rest \o u
         /\ Line \in Seq(Chars) /\ Rest \in Seq(Chars)
<1> DEFINE m == Min(BreakAt)
           s == buffer \o u
           q == IF m < Len(buffer) /\ buffer[m] = "CR" /\ buffer[m + 1] = "LF" THEN m + 1 ELSE m
<1>1. m \in BreakAt /\ \A k \in BreakAt : m <= k
  BY BreakFacts
<1>2. m \in 1 .. Len(buffer) /\ m \in Nat /\ m >= 1 /\ Len(buffer) \in Nat /\ Len(u) \in Nat
  BY <1>1, BreakFacts, LenProperties
<1>3. buffer[m] \in Breaks
  BY <1>1, Zenon DEF BreakAt
<1>4. buffer \in Seq(Letters) /\ \A i \in 1 .. Len(buffer) : buffer[i] # "end"
  BY CharsAreLetters
<1>5. /\ s \in Seq(Letters) /\ Len(s) = Len(buffer) + Len(u)
      /\ DOMAIN s = 1 .. Len(s) /\ DOMAIN buffer = 1 .. Len(buffer)
  BY <1>4, ConcatProperties, LenProperties
<1>6. \A i \in 1 .. Len(buffer) : s[i] = buffer[i]
  BY <1>2, <1>4, ConcatProperties
<1>7. u # <<>> => Len(u) >= 1 /\ s[Len(buffer) + 1] = u[1]
  <2>1. ASSUME u # <<>> PROVE Len(u) >= 1
    BY <2>1, EmptySeq
  <2>2. \A i \in 1 .. Len(buffer) + Len(u) :
          s[i] = IF i <= Len(buffer) THEN buffer[i] ELSE u[i - Len(buffer)]
    BY <1>4, ConcatProperties
  <2>3. ASSUME u # <<>> PROVE s[Len(buffer) + 1] = u[1]
    <3>1. /\ Len(buffer) + 1 \in 1 .. Len(buffer) + Len(u)
          /\ ~(Len(buffer) + 1 <= Len(buffer)) /\ Len(buffer) + 1 - Len(buffer) = 1
      BY <1>2, <2>1, <2>3
    <3>. QED BY <2>2, <3>1
  <2>. QED BY <2>1, <2>3
<1>. HIDE DEF m, s
<1>8. m \in Stops(s) /\ m \in 1 .. Len(s) /\ s[m] = buffer[m]
  <2>1. m \in 1 .. Len(s) /\ s[m] = buffer[m]
    BY <1>2, <1>5, <1>6
  <2>. QED BY <1>3, <1>5, <2>1 DEF Stops
<1>9. ASSUME NEW k \in Stops(s) PROVE m <= k
  <2>1. k \in 1 .. Len(s) /\ s[k] \in Breaks \union {"end"}
    BY <1>5, Zenon DEF Stops
  <2>2. SUFFICES ASSUME k < m PROVE FALSE
    BY <1>2, <2>1
  <2>3. k \in 1 .. Len(buffer)
    BY <1>2, <2>1, <2>2
  <2>4. buffer[k] \in Breaks
    BY <1>4, <1>6, <2>1, <2>3
  <2>5. k \in BreakAt
    BY <1>5, <2>3, <2>4, Zenon DEF BreakAt
  <2>. QED BY <1>1, <1>2, <2>2, <2>3, <2>5
<1>10. Min(Stops(s)) = m
  BY <1>5, <1>8, <1>9, EndsFacts, MinIs
<1>11. LineEnd = m - 1
  BY Zenon DEF LineEnd, m
<1>12. m - 1 \in 0 .. Len(buffer)
  BY <1>2
<1>13. FirstLine(s) = Line
  <2>1. FirstLine(s) = SubSeq(s, 1, m - 1)
    BY <1>10, Zenon DEF FirstLine, Stops
  <2>2. SubSeq(s, 1, m - 1) = SubSeq(buffer, 1, m - 1)
    BY <1>4, <1>12, PrefixOfConcat DEF s
  <2>. QED BY <1>11, <2>1, <2>2 DEF Line
<1>14. Line \in Seq(Chars)
  BY <1>11, <1>12, Prefix DEF Line
<1>15. NextLine = q + 1
  <2>1. LineEnd + 1 = m
    BY <1>2, <1>11
  <2>2. NextLine = IF m < Len(buffer) /\ buffer[m] = "CR" /\ buffer[m + 1] = "LF" THEN m + 2 ELSE m + 1
    BY <2>1, Zenon DEF NextLine
  <2>3. m + 1 + 1 = m + 2
    BY <1>2
  <2>. QED BY <2>2, <2>3, Zenon
<1>16. q \in 1 .. Len(buffer) /\ q \in Nat /\ q >= m
  BY <1>2
<1>17. q \in Ends(s) /\ \A k \in Ends(s) : q <= k
  <2>1. CASE m < Len(buffer) /\ buffer[m] = "CR" /\ buffer[m + 1] = "LF"
    <3>1. q = m + 1 /\ m + 1 \in 1 .. Len(buffer) /\ m + 1 \in 1 .. Len(s) /\ m < Len(s)
      BY <1>2, <1>5, <2>1
    <3>2. s[m] = "CR" /\ s[m + 1] = "LF"
      BY <1>6, <1>8, <2>1, <3>1
    <3>3. m + 1 \in Ends(s)
      BY <1>5, <3>1, <3>2 DEF Ends
    <3>4. m \notin Ends(s)
      BY <3>2 DEF Ends
    <3>5. ASSUME NEW k \in Ends(s) PROVE m + 1 <= k
      <4>1. k \in Nat /\ m <= k /\ k # m
        BY <1>5, <1>9, <3>4, EndsFacts
      <4>. QED BY <1>2, <4>1
    <3>. QED BY <3>1, <3>3, <3>5
  <2>2. CASE ~(m < Len(buffer) /\ buffer[m] = "CR" /\ buffer[m + 1] = "LF")
    <3>1. q = m
      BY <2>2
    <3>2. ASSUME buffer[m] # "LF" PROVE buffer[m] = "CR" /\ m < Len(s) /\ s[m + 1] # "LF"
      <4>1. buffer[m] = "CR"
        BY <1>3, <3>2 DEF Breaks
      <4>2. CASE m < Len(buffer)
        <5>1. m + 1 \in 1 .. Len(buffer) /\ m < Len(s)
          BY <1>2, <1>5, <4>2
        <5>2. s[m + 1] = buffer[m + 1] /\ buffer[m + 1] # "LF"
          BY <1>6, <2>2, <4>1, <4>2, <5>1
        <5>. QED BY <4>1, <5>1, <5>2
      <4>3. CASE ~(m < Len(buffer))
        <5>1. m = Len(buffer)
          BY <1>2, <4>3
        <5>2. u # <<>> /\ u[1] # "LF"
          BY <3>2, <4>3 DEF m
        <5>3. m < Len(s)
          BY <1>2, <1>5, <1>7, <5>1, <5>2
        <5>. QED BY <1>7, <4>1, <5>1, <5>2, <5>3
      <4>. QED BY <4>2, <4>3
    <3>3. m \in Ends(s)
      BY <1>5, <1>8, <3>2, Zenon DEF Ends
    <3>4. \A k \in Ends(s) : m <= k
      BY <1>5, <1>9, EndsFacts
    <3>. QED BY <3>1, <3>3, <3>4
  <2>. QED BY <2>1, <2>2
<1>. HIDE DEF q
<1>18. Min(Ends(s)) = q
  BY <1>5, <1>17, EndsFacts, MinIs
<1>19. q + 1 \in 1 .. Len(buffer) + 1 /\ q + 1 \in Nat /\ q + 1 >= 1
  BY <1>2, <1>16
<1>20. AfterLine(s) = Rest \o u
  <2>1. AfterLine(s) = SubSeq(s, q + 1, Len(s))
    BY <1>18, Zenon DEF AfterLine
  <2>2. SubSeq(s, q + 1, Len(s)) = SubSeq(buffer, q + 1, Len(buffer)) \o u
    BY <1>4, <1>19, SuffixOfConcat DEF s
  <2>. QED BY <1>15, <2>1, <2>2 DEF Rest
<1>21. Rest \in Seq(Chars)
  BY <1>15, <1>19, Suffix DEF Rest
<1>. QED BY <1>13, <1>14, <1>17, <1>20, <1>21 DEF s

\* Where pop_line finds none, the buffer holds no whole line.
LEMMA NoLine ==
  ASSUME buffer \in Seq(Chars), ~HasLine
  PROVE  /\ Ends(buffer) = {} /\ Contents[buffer] = <<>> /\ OpenLine(buffer) = buffer
         /\ Flushing => buffer = <<>>
<1>1. buffer \in Seq(Letters) /\ \A i \in 1 .. Len(buffer) : buffer[i] # "end"
  BY CharsAreLetters
<1>2. Len(buffer) \in Nat /\ DOMAIN buffer = 1 .. Len(buffer)
  BY LenProperties
<1>3. ASSUME NEW k \in Ends(buffer) PROVE FALSE
  <2>1. k \in 1 .. Len(buffer)
    BY <1>1, EndsFacts
  <2>2. \/ buffer[k] \in {"LF", "end"}
        \/ buffer[k] = "CR" /\ k < Len(buffer)
    BY Zenon DEF Ends
  <2>3. buffer[k] \in Breaks
    BY <1>1, <2>1, <2>2 DEF Breaks
  <2>4. k \in BreakAt
    BY <1>2, <2>1, <2>3, Zenon DEF BreakAt
  <2> DEFINE m == Min(BreakAt)
  <2>5. m \in 1 .. Len(buffer) /\ m <= k
    BY <2>4, BreakFacts
  <2>6. BreakAt # {}
    BY <2>4
  <2>7. ~(m < Len(buffer)) /\ buffer[m] # "LF"
    BY <2>6, Zenon DEF HasLine
  <2>. HIDE DEF m
  <2>8. k = m /\ ~(k < Len(buffer))
    BY <1>2, <2>1, <2>5, <2>7
  <2>. QED BY <1>1, <2>1, <2>2, <2>7, <2>8
<1>4. Ends(buffer) = {}
  BY <1>3
<1>5. Contents[buffer] = <<>>
  BY <1>1, <1>4, ContentsStops DEF Stopped
<1>6. OpenLine(buffer) = buffer
  <2>1. Max({0}) = 0
    BY MaxIs
  <2>2. Ends(buffer) \union {0} = {0}
    BY <1>4
  <2>3. OpenLine(buffer) = SubSeq(buffer, 0 + 1, Len(buffer))
    BY <2>1, <2>2, Zenon DEF OpenLine
  <2>4. SubSeq(buffer, 1, Len(buffer)) = buffer
    BY SubSeqFull
  <2>. QED BY <2>3, <2>4
<1>7. Flushing => buffer = <<>>
  BY Zenon DEF HasLine
<1>. QED BY <1>4, <1>5, <1>6, <1>7

\* No text, no contents,
LEMMA ContentsOfNothing == Contents[<<>>] = <<>>
<1>1. <<>> \in Seq(Letters) /\ Len(<<>>) = 0
  BY EmptySeq
<1>2. Ends(<<>>) = {}
  <2>1. Ends(<<>>) \in SUBSET (1 .. Len(<<>>))
    BY <1>1, EndsFacts
  <2>2. 1 .. 0 = {}
    OBVIOUS
  <2>. QED BY <1>1, <2>1, <2>2
<1>. QED BY <1>1, <1>2, ContentsStops DEF Stopped

\* also at the end of the body.
LEMMA ContentsOfEnd == Contents[Ended(<<>>)] = <<>>
<1> DEFINE s == <<"end">>
<1>1. Ended(<<>>) = s
  BY DEF Ended
<1>2. s \in Seq(Letters) /\ Len(s) = 1
  BY DEF Letters
<1>. HIDE DEF s
<1>3. CASE Ends(s) = {}
  BY <1>1, <1>2, <1>3, ContentsStops DEF Stopped
<1>4. CASE Ends(s) # {}
  <2>1. Min(Ends(s)) \in Ends(s) /\ Min(Stops(s)) \in Stops(s)
    BY <1>2, <1>4, EndsFacts, MinIn
  <2>2. Ends(s) \in SUBSET (1 .. 1) /\ Stops(s) \in SUBSET (1 .. 1)
    BY <1>2, EndsFacts
  <2>3. Min(Ends(s)) = 1 /\ Min(Stops(s)) = 1
    BY <2>1, <2>2
  <2>4. FirstLine(s) = SubSeq(s, 1, 1 - 1) /\ AfterLine(s) = SubSeq(s, 1 + 1, 1)
    BY <1>2, <2>3, Zenon DEF FirstLine, AfterLine, Stops
  <2>5. FirstLine(s) = <<>> /\ AfterLine(s) = <<>>
    BY <2>4, SubSeqEmpty
  <2>6. OfLine(<<>>) = <<>>
    BY DEF OfLine, IsContent
  <2>7. Contents[s] = IF Stopped(s) THEN <<>> ELSE <<>> \o <<>>
    BY <1>2, <2>5, <2>6, ContentsStops, ContentsStep, ContentsOfNothing, Zenon
  <2>. QED BY <1>1, <2>7
<1>. QED BY <1>3, <1>4

\* A text without breaks, at the end of the body, is a line.
LEMMA LastLine ==
  ASSUME buffer \in Seq(Chars), BreakAt = {}
  PROVE  /\ Ends(Ended(buffer)) # {}
         /\ FirstLine(Ended(buffer)) = buffer /\ AfterLine(Ended(buffer)) = <<>>
         /\ Line = buffer /\ Rest = <<>>
<1> DEFINE n == Len(buffer)
           e == <<"end">>
           s == buffer \o e
<1>1. buffer \in Seq(Letters) /\ \A i \in 1 .. n : buffer[i] # "end"
  BY CharsAreLetters
<1>2. n \in Nat /\ DOMAIN buffer = 1 .. n
  BY LenProperties
<1>3. e \in Seq(Letters) /\ Len(e) = 1 /\ e[1] = "end"
  BY DEF Letters
<1>4. Ended(buffer) = s
  BY <1>1, AppendAsConcat DEF Ended, Letters
<1>. HIDE DEF n, e
<1>5. /\ s \in Seq(Letters) /\ Len(s) = n + 1
      /\ \A i \in 1 .. n + 1 : s[i] = IF i <= n THEN buffer[i] ELSE e[i - n]
  <2>1. /\ s \in Seq(Letters) /\ Len(s) = Len(buffer) + Len(e)
        /\ \A i \in 1 .. Len(buffer) + Len(e) :
             s[i] = IF i <= Len(buffer) THEN buffer[i] ELSE e[i - Len(buffer)]
    BY <1>1, <1>3, ConcatProperties
  <2>. QED BY <1>3, <2>1 DEF n
<1>6. SubSeq(s, 1, n) = buffer
  <2>1. n \in 0 .. Len(buffer)
    BY <1>2 DEF n
  <2>2. SubSeq(s, 1, n) = SubSeq(buffer, 1, n)
    BY <1>1, <1>3, <2>1, PrefixOfConcat
  <2>. QED BY <2>2, SubSeqFull DEF n
<1>. HIDE DEF s
<1>7. s[n + 1] = "end"
  BY <1>2, <1>3, <1>5
<1>8. DOMAIN s = 1 .. n + 1
  BY <1>5, LenProperties
<1>9. n + 1 \in Ends(s) /\ n + 1 \in Stops(s)
  <2>1. n + 1 \in DOMAIN s
    BY <1>2, <1>8
  <2>. QED BY <1>7, <2>1, Zenon DEF Ends, Stops
<1>10. ASSUME NEW k \in Stops(s) PROVE k = n + 1
  <2>1. k \in 1 .. n + 1 /\ s[k] \in Breaks \union {"end"}
    BY <1>8, Zenon DEF Stops
  <2>2. ASSUME k \in 1 .. n PROVE FALSE
    <3>1. s[k] = buffer[k]
      BY <1>2, <1>5, <2>2
    <3>2. buffer[k] \in Breaks
      BY <1>1, <2>1, <2>2, <3>1
    <3>3. k \in BreakAt
      BY <1>2, <2>2, <3>2, Zenon DEF BreakAt
    <3>. QED BY <3>3
  <2>. QED BY <1>2, <2>1, <2>2
<1>11. Min(Stops(s)) = n + 1 /\ Min(Ends(s)) = n + 1
  <2>1. Stops(s) = {n + 1} /\ Ends(s) = {n + 1}
    BY <1>5, <1>9, <1>10, EndsFacts
  <2>2. {n + 1} \in SUBSET Nat /\ n + 1 <= n + 1
    BY <1>2
  <2>. QED BY <2>1, <2>2, MinIs
<1>12. FirstLine(s) = buffer
  <2>1. FirstLine(s) = SubSeq(s, 1, (n + 1) - 1)
    BY <1>11, Zenon DEF FirstLine, Stops
  <2>2. (n + 1) - 1 = n
    BY <1>2
  <2>. QED BY <1>6, <2>1, <2>2
<1>13. AfterLine(s) = <<>>
  <2>1. AfterLine(s) = SubSeq(s, (n + 1) + 1, n + 1)
    BY <1>5, <1>11, Zenon DEF AfterLine
  <2>. QED BY <1>2, <2>1, SubSeqEmpty
<1>14. LineEnd = n
  BY Zenon DEF LineEnd, n
<1>15. Line = buffer
  BY <1>14, SubSeqFull DEF Line, n
<1>16. Rest = <<>>
  <2>1. NextLine = n + 2
    <3>1. ~(n + 1 < n) /\ n + 1 + 1 = n + 2
      BY <1>2
    <3>2. NextLine = n + 1 + 1
      BY <1>14, <3>1, Zenon DEF NextLine, n
    <3>. QED BY <3>1, <3>2
  <2>2. Rest = SubSeq(buffer, n + 2, n)
    BY <2>1, Zenon DEF Rest, n
  <2>. QED BY <1>2, <2>2, SubSeqEmpty
<1>. QED BY <1>4, <1>9, <1>12, <1>13, <1>15, <1>16

\* pop_line takes from the contents of what was received those of one line.
LEMMA PoppedLine ==
  ASSUME buffer \in Seq(Chars), HasLine, ~Flushing, NEW u \in Seq(Letters)
  PROVE  /\ Line \in Seq(Chars) /\ Rest \in Seq(Chars)
         /\ Contents[buffer \o u] = IF IsDone(Line) THEN <<>> ELSE OfLine(Line) \o Contents[Rest \o u]
         /\ OpenLine(buffer \o u) = OpenLine(Rest \o u)
<1>1. BreakAt # {} /\ (Min(BreakAt) < Len(buffer) \/ buffer[Min(BreakAt)] = "LF")
  BY Zenon DEF HasLine
<1>2. /\ Ends(buffer \o u) # {} /\ FirstLine(buffer \o u) = Line
      /\ AfterLine(buffer \o u) = Rest \o u /\ Line \in Seq(Chars) /\ Rest \in Seq(Chars)
  BY <1>1, FirstLineOfConcat
<1>3. buffer \o u \in Seq(Letters)
  BY CharsAreLetters, ConcatProperties
<1>4. Stopped(buffer \o u) <=> IsDone(Line)
  BY <1>2, Zenon DEF Stopped
<1>5. CASE IsDone(Line)
  BY <1>2, <1>3, <1>4, <1>5, ContentsStops, OpenLineAfter
<1>6. CASE ~IsDone(Line)
  BY <1>2, <1>3, <1>4, <1>6, ContentsStep, OpenLineAfter
<1>. QED BY <1>5, <1>6

\* The same after the last byte, where a line needs no break.
LEMMA FlushedLine ==
  ASSUME buffer \in Seq(Chars), HasLine, Flushing
  PROVE  /\ Line \in Seq(Chars) /\ Rest \in Seq(Chars)
         /\ Contents[Ended(buffer)] = IF IsDone(Line) THEN <<>> ELSE OfLine(Line) \o Contents[Ended(Rest)]
<1>1. Ended(buffer) \in Seq(Letters)
  BY CharsAreLetters DEF Ended, Letters
<1>2. CASE BreakAt # {}
  <2> DEFINE e == <<"end">>
  <2>1. e \in Seq(Letters) /\ e # <<>> /\ e[1] # "LF"
    BY DEF Letters
  <2>2. buffer \in Seq(Letters) /\ Ended(buffer) = buffer \o e
    BY CharsAreLetters, AppendAsConcat DEF Ended, Letters
  <2>. HIDE DEF e
  <2>3. /\ Ends(buffer \o e) # {} /\ FirstLine(buffer \o e) = Line
        /\ AfterLine(buffer \o e) = Rest \o e /\ Line \in Seq(Chars) /\ Rest \in Seq(Chars)
    BY <1>2, <2>1, FirstLineOfConcat
  <2>4. Ended(Rest) = Rest \o e
    BY <2>3, CharsAreLetters, AppendAsConcat DEF Ended, Letters, e
  <2>5. Stopped(buffer \o e) <=> IsDone(Line)
    BY <2>3, Zenon DEF Stopped
  <2>6. CASE IsDone(Line)
    BY <1>1, <2>2, <2>3, <2>5, <2>6, ContentsStops
  <2>7. CASE ~IsDone(Line)
    BY <1>1, <2>2, <2>3, <2>4, <2>5, <2>7, ContentsStep
  <2>. QED BY <2>6, <2>7
<1>3. CASE BreakAt = {}
  <2>1. /\ Ends(Ended(buffer)) # {} /\ FirstLine(Ended(buffer)) = Line
        /\ AfterLine(Ended(buffer)) = <<>> /\ Line = buffer /\ Rest = <<>>
    BY <1>3, LastLine
  <2>2. Stopped(Ended(buffer)) <=> IsDone(Line)
    BY <2>1, Zenon DEF Stopped
  <2>3. CASE IsDone(Line)
    BY <1>1, <2>1, <2>2, <2>3, ContentsStops
  <2>4. CASE ~IsDone(Line)
    <3>1. Contents[Ended(buffer)] = OfLine(Line) \o Contents[<<>>]
      BY <1>1, <2>1, <2>2, <2>4, ContentsStep
    <3>2. Contents[Ended(Rest)] = Contents[<<>>]
      BY <2>1, ContentsOfNothing, ContentsOfEnd
    <3>3. <<>> \in Seq(Chars)
      BY EmptySeq
    <3>. QED BY <2>1, <2>4, <3>1, <3>2, <3>3
  <2>5. <<>> \in Seq(Chars)
    BY EmptySeq
  <2>. QED BY <2>1, <2>3, <2>4, <2>5
<1>. QED BY <1>2, <1>3

-----------------------------------------------------------------------------
(* Sizes, and the half of a character that may end the bytes received.     *)

\* The characters of one kind can be counted.
LEMMA CountFacts ==
  ASSUME NEW s \in Seq(Chars), NEW c
  PROVE  /\ IsFiniteSet({i \in DOMAIN s : s[i] = c}) /\ Count(c, s) \in Nat
<1>1. Len(s) \in Nat /\ DOMAIN s = 1 .. Len(s)
  BY LenProperties
<1>2. IsFiniteSet(1 .. Len(s))
  BY <1>1, FS_Interval
<1>3. IsFiniteSet({i \in DOMAIN s : s[i] = c})
  BY <1>1, <1>2, FS_Subset
<1>. QED BY <1>3, FS_CardinalityType DEF Count

\* The replacement character is three bytes.
LEMMA SizeFacts ==
  /\ Size(<<>>) = 0
  /\ \A s \in Seq(Chars) : Size(s) \in Nat /\ Size(Append(s, "bad")) = Size(s) + 3
<1>1. Size(<<>>) = 0
  <2>1. Len(<<>>) = 0 /\ DOMAIN <<>> = {}
    OBVIOUS
  <2>2. {i \in DOMAIN <<>> : <<>>[i] = "wide"} = {} /\ {i \in DOMAIN <<>> : <<>>[i] = "bad"} = {}
    BY <2>1
  <2>3. Count("wide", <<>>) = 0 /\ Count("bad", <<>>) = 0
    BY <2>2, FS_EmptySet DEF Count
  <2>. QED BY <2>1, <2>3 DEF Size
<1>2. ASSUME NEW s \in Seq(Chars)
      PROVE  Size(s) \in Nat /\ Size(Append(s, "bad")) = Size(s) + 3
  <2> DEFINE n == Len(s)
             a == Append(s, "bad")
             B == {i \in DOMAIN s : s[i] = "bad"}
  <2>1. n \in Nat /\ DOMAIN s = 1 .. n
    BY LenProperties
  <2>2. /\ a \in Seq(Chars) /\ Len(a) = n + 1 /\ DOMAIN a = 1 .. n + 1
        /\ \A i \in 1 .. n : a[i] = s[i]
        /\ a[n + 1] = "bad"
    <3>1. "bad" \in Chars
      BY DEF Chars, Text
    <3>. QED BY <3>1, AppendProperties
  <2>3. Count("wide", s) \in Nat /\ Count("bad", s) \in Nat /\ IsFiniteSet(B)
    BY CountFacts
  <2>. HIDE DEF n, a
  <2>4. {i \in DOMAIN a : a[i] = "wide"} = {i \in DOMAIN s : s[i] = "wide"}
    <3>1. ASSUME NEW i \in 1 .. n + 1, a[i] = "wide" PROVE i \in 1 .. n
      BY <2>1, <2>2, <3>1
    <3>2. ASSUME NEW i \in 1 .. n PROVE i \in 1 .. n + 1
      BY <2>1
    <3>. QED BY <2>1, <2>2, <3>1, <3>2
  <2>5. {i \in DOMAIN a : a[i] = "bad"} = B \union {n + 1}
    <3>1. ASSUME NEW i \in 1 .. n + 1 PROVE i \in 1 .. n \/ i = n + 1
      BY <2>1
    <3>2. ASSUME NEW i \in 1 .. n PROVE i \in 1 .. n + 1
      BY <2>1
    <3>3. n + 1 \in 1 .. n + 1
      BY <2>1
    <3>. QED BY <2>1, <2>2, <3>1, <3>2, <3>3
  <2>6. n + 1 \notin B
    BY <2>1
  <2>7. Cardinality(B \union {n + 1}) = Cardinality(B) + 1
    BY <2>3, <2>6, FS_AddElement
  <2>8. Count("wide", a) = Count("wide", s)
    BY <2>4, Zenon DEF Count
  <2>9. Count("bad", a) = Count("bad", s) + 1
    BY <2>5, <2>7, Zenon DEF Count
  <2>10. Size(s) = n + Count("wide", s) + 2 * Count("bad", s)
    BY Zenon DEF Size, n
  <2>11. Size(a) = (n + 1) + Count("wide", s) + 2 * (Count("bad", s) + 1)
    BY <2>2, <2>8, <2>9, Zenon DEF Size
  <2>12. Size(s) \in Nat /\ Size(a) = Size(s) + 3
    BY <2>1, <2>3, <2>10, <2>11
  <2>. QED BY <2>12 DEF a
<1>. QED BY <1>1, <1>2

\* Whether a body ends in half a character is seen at its end,
LEMMA HalfOfConcat ==
  ASSUME NEW b \in Seq(Symbols), NEW t \in Seq(Symbols), t # <<>>
  PROVE  HalfChar(b \o t) <=> HalfChar(t)
<1>1. /\ Len(b) \in Nat /\ Len(t) \in Nat /\ Len(t) >= 1
      /\ b \o t \in Seq(Symbols) /\ Len(b \o t) = Len(b) + Len(t)
  BY EmptySeq, LenProperties, ConcatProperties
<1>2. (b \o t)[Len(b) + Len(t)] = t[Len(b) + Len(t) - Len(b)]
  <2>1. Len(b) + Len(t) \in 1 .. Len(b) + Len(t) /\ ~(Len(b) + Len(t) <= Len(b))
    BY <1>1
  <2>. QED BY <2>1, ConcatProperties
<1>3. Len(b) + Len(t) - Len(b) = Len(t)
  BY <1>1
<1>4. (b \o t)[Len(b \o t)] = t[Len(t)]
  BY <1>1, <1>2, <1>3
<1>5. b \o t # <<>>
  BY ConcatEqualIffEmpty
<1>. QED BY <1>4, <1>5 DEF HalfChar

\* also after its first character is taken.
LEMMA HalfAfterChar ==
  ASSUME NEW b \in Seq(Symbols), b \notin {<<>>, <<"lead">>}
  PROVE  HalfChar(AfterChar(b)) <=> HalfChar(b)
<1> DEFINE n == IF IsPair(b) THEN 3 ELSE 2
           a == AfterChar(b)
<1>1. Len(b) \in Nat /\ (Len(b) >= 2 \/ (Len(b) = 1 /\ b[1] # "lead"))
  BY LoneLead
<1>2. IsPair(b) => b[1] = "lead" /\ b[2] = "cont"
  BY DEF IsPair
<1>3. n \in Nat /\ n >= 1
  OBVIOUS
<1>4. a = SubSeq(b, n, Len(b))
  BY Zenon DEF AfterChar
<1>5. IsPair(b) => n = 3 /\ Len(b) >= 2
  BY <1>1, <1>2
<1>6. ~IsPair(b) => n = 2
  OBVIOUS
<1>. HIDE DEF n, a
<1>7. /\ a \in Seq(Symbols) /\ Len(a) = IF n <= Len(b) THEN Len(b) - n + 1 ELSE 0
      /\ \A i \in 1 .. Len(b) - n + 1 : a[i] = b[n + i - 1]
  BY <1>3, <1>4, Suffix
<1>8. CASE n <= Len(b)
  <2>1. Len(a) = Len(b) - n + 1 /\ Len(a) >= 1 /\ Len(a) \in 1 .. Len(b) - n + 1 /\ n + Len(a) - 1 = Len(b)
    BY <1>1, <1>3, <1>7, <1>8
  <2>2. a[Len(a)] = b[n + Len(a) - 1]
    BY <1>7, <2>1
  <2>3. a[Len(a)] = b[Len(b)]
    BY <2>1, <2>2
  <2>4. a # <<>> /\ b # <<>>
    BY <2>1
  <2>. QED BY <2>3, <2>4 DEF HalfChar, a
<1>9. CASE ~(n <= Len(b))
  <2>1. a = <<>>
    BY <1>1, <1>3, <1>4, <1>9, SubSeqEmpty
  <2>2. CASE IsPair(b)
    <3>1. Len(b) = 2
      <4> DEFINE m == Len(b)
      <4>1. m \in Nat /\ m >= 2 /\ n = 3 /\ ~(n <= m)
        BY <1>1, <1>5, <1>9, <2>2
      <4>. HIDE DEF m
      <4>2. m = 2
        BY <4>1
      <4>. QED BY <4>2 DEF m
    <3>. QED BY <1>2, <2>1, <2>2, <3>1 DEF HalfChar, a
  <2>3. CASE ~IsPair(b)
    <3>1. Len(b) = 1
      BY <1>1, <1>6, <1>9, <2>3
    <3>. QED BY <1>1, <2>1, <3>1 DEF HalfChar, a
  <2>. QED BY <2>2, <2>3
<1>. QED BY <1>8, <1>9

-----------------------------------------------------------------------------
(* The inductive invariant.                                                *)

\* What is left to read of what was received, if t follows.
Ahead(t) == buffer \o Decoding[pending \o t]
ToCome(text) == IF done THEN <<>> ELSE Contents[text]

\* Whatever follows, what it adds to the meaning of the body is what it adds to what
\* the parser keeps.
ReadInv ==
  why = "open" /\ then = "read" =>
    /\ HalfChar(body) <=> HalfChar(pending)
    /\ \A t \in Seq(Symbols) :
         /\ Meaning(body \o t) = (final \o queue) \o ToCome(Ahead(t))
         /\ ~done => OpenLine(Decoding[body \o t]) = OpenLine(Ahead(t))

\* And once the body has ended, what is left is in the buffer.
FlushInv ==
  why = "open" /\ then # "read" =>
    Meaning(Ended(body)) = (final \o queue) \o ToCome(Ended(buffer))

WithinGuard == Size(buffer) + Len(pending) <= MaxLine

\* What is settled at each place.
PlaceInv ==
  /\ pc = "read" => then = "read" /\ ~HasLine
  /\ pc = "decode" => then = "read" /\ ~done /\ queue = <<>>
  /\ pc \in {"drain", "yield"} => Incomplete
  /\ pc = "yield" => (done \/ ~HasLine) /\ (then = "read" => WithinGuard)

IInv == TypeOK /\ PlaceInv /\ ReadInv /\ FlushInv /\ NothingLost /\ GuardJustified

\* The sequences of the state, as the lemmas take them.
LEMMA Typed ==
  ASSUME TypeOK
  PROVE  /\ body \in Seq(Symbols) /\ pending \in Seq(Symbols)
         /\ buffer \in Seq(Letters) /\ buffer \in Seq(Chars)
         /\ final \in Seq(Seq(Text)) /\ queue \in Seq(Seq(Text))
<1>1. Bytes \subseteq Symbols /\ Chars \subseteq Letters
  BY DEF Symbols, Letters
<1>2. body \in Seq(Bytes) /\ pending \in Seq(Bytes) /\ buffer \in Seq(Chars)
  BY DEF TypeOK
<1>3. body \in Seq(Symbols) /\ pending \in Seq(Symbols) /\ buffer \in Seq(Letters)
  BY <1>1, <1>2, SeqMonotonic
<1>. QED BY <1>2, <1>3 DEF TypeOK

\* After a chunk is decoded only the buffer is left to read,
LEMMA NothingAhead ==
  ASSUME TypeOK, Incomplete
  PROVE  Ahead(<<>>) = buffer
<1>1. pending \o <<>> = pending /\ buffer \o <<>> = buffer
  BY Typed, ConcatEmptySeq
<1>2. Decoding[pending] = <<>>
  BY DecodingStops DEF Incomplete
<1>. QED BY <1>1, <1>2 DEF Ahead

\* and at the end of the body, what finalize makes of it.
LEMMA EndAhead ==
  ASSUME TypeOK, Incomplete
  PROVE  Ahead(<<"end">>) = Ended(IF pending = <<>> THEN buffer ELSE Append(buffer, "bad"))
<1> DEFINE e == <<"end">>
           h == <<"lead">>
           x == <<"bad">>
<1>1. e \in Seq(Letters) /\ e \in Seq(Symbols) /\ x \in Seq(Letters) /\ "bad" \in Letters
  BY DEF Letters, Symbols, Chars, Text
<1>2. Decoding[e] = e /\ Decoding[h \o e] = x \o e
  BY DecodingEnds
<1>. HIDE DEF e, h, x
<1>3. Ended(buffer) = buffer \o e
  BY Typed, AppendAsConcat DEF Ended, e, Letters
<1>4. CASE pending = <<>>
  <2>1. pending \o e = e
    BY <1>1, <1>4, ConcatEmptySeq
  <2>. QED BY <1>2, <1>3, <1>4, <2>1 DEF Ahead, e
<1>5. CASE pending # <<>>
  <2>1. pending = h
    BY <1>5 DEF Incomplete, h
  <2>2. Ahead(e) = buffer \o (x \o e)
    BY <1>2, <2>1, Zenon DEF Ahead
  <2>3. buffer \o (x \o e) = (buffer \o x) \o e
    <3>1. buffer \in Seq(Letters) /\ x \in Seq(Letters) /\ e \in Seq(Letters)
      BY <1>1, Typed
    <3>. QED BY <3>1, ConcatAssociative
  <2>4. Append(buffer, "bad") = buffer \o x
    BY <1>1, Typed, AppendAsConcat DEF x
  <2>5. buffer \o x \in Seq(Letters)
    BY <1>1, Typed, ConcatProperties
  <2>6. Ended(buffer \o x) = (buffer \o x) \o e
    BY <2>5, AppendAsConcat DEF Ended, e, Letters
  <2>. QED BY <1>5, <2>2, <2>3, <2>4, <2>6 DEF e
<1>. QED BY <1>4, <1>5

\* ReadInv where nothing follows, and where the body ends.
LEMMA NothingMore ==
  ASSUME TypeOK, ReadInv, why = "open", then = "read"
  PROVE  /\ Incomplete =>
              /\ Meaning(body) = (final \o queue) \o ToCome(buffer)
              /\ ~done => OpenLine(Decoding[body]) = OpenLine(buffer)
         /\ Meaning(Ended(body)) = (final \o queue) \o ToCome(Ahead(<<"end">>))
<1>1. body \o <<>> = body /\ <<>> \in Seq(Symbols)
  BY Typed, ConcatEmptySeq, EmptySeq
<1>2. <<"end">> \in Seq(Symbols) /\ "end" \in Symbols
  BY DEF Symbols
<1>3. Ended(body) = body \o <<"end">>
  BY <1>2, Typed, AppendAsConcat DEF Ended
<1>4. \A t \in Seq(Symbols) :
        /\ Meaning(body \o t) = (final \o queue) \o ToCome(Ahead(t))
        /\ ~done => OpenLine(Decoding[body \o t]) = OpenLine(Ahead(t))
  BY DEF ReadInv
<1>5. Incomplete => Ahead(<<>>) = buffer
  BY NothingAhead
<1>6. /\ Meaning(body \o <<>>) = (final \o queue) \o ToCome(Ahead(<<>>))
      /\ ~done => OpenLine(Decoding[body \o <<>>]) = OpenLine(Ahead(<<>>))
  BY <1>1, <1>4
<1>7. Meaning(body \o <<"end">>) = (final \o queue) \o ToCome(Ahead(<<"end">>))
  BY <1>2, <1>4
<1>. QED BY <1>1, <1>3, <1>5, <1>6, <1>7, Zenon

\* No byte received, nothing left to read.
LEMMA InvInit == Init => IInv
<1>. SUFFICES ASSUME Init PROVE IInv
  OBVIOUS
<1>0. /\ body = <<>> /\ pending = <<>> /\ buffer = <<>> /\ done = FALSE /\ pc = "read"
      /\ then = "read" /\ queue = <<>> /\ final = <<>> /\ why = "open"
  BY DEF Init
<1>1. TypeOK
  <2>1. \A S : <<>> \in Seq(S)
    BY EmptySeq
  <2>2. Len(<<>>) = 0 /\ Size(<<>>) = 0 /\ 0 \in Nat
    BY SizeFacts, EmptySeq
  <2>3. 0 <= MaxBody /\ 0 + 0 <= MaxLine
    BY ConstantsAssumption
  <2>. QED BY <1>0, <2>1, <2>2, <2>3 DEF TypeOK, Incomplete
<1>2. PlaceInv
  <2>1. BreakAt = {}
    BY <1>0 DEF BreakAt
  <2>2. ~HasLine
    BY <1>0, <2>1 DEF HasLine
  <2>. QED BY <1>0, <2>2 DEF PlaceInv
<1>3. ReadInv
  <2>1. HalfChar(body) <=> HalfChar(pending)
    BY <1>0
  <2>2. ASSUME NEW t \in Seq(Symbols)
        PROVE  /\ Meaning(body \o t) = (final \o queue) \o ToCome(Ahead(t))
               /\ ~done => OpenLine(Decoding[body \o t]) = OpenLine(Ahead(t))
    <3>1. <<>> \o t = t
      BY ConcatEmptySeq
    <3>2. Decoding[t] \in Seq(Letters)
      BY DecodingType
    <3>3. <<>> \o Decoding[t] = Decoding[t]
      BY <3>2, ConcatEmptySeq
    <3>4. Ahead(t) = Decoding[t]
      BY <1>0, <3>1, <3>3 DEF Ahead
    <3>5. Contents[Decoding[t]] \in Seq(Seq(Text))
      BY <3>2, ContentsType
    <3>6. <<>> \o <<>> = <<>> /\ <<>> \o Contents[Decoding[t]] = Contents[Decoding[t]]
      BY <3>5, EmptySeq, ConcatEmptySeq
    <3>7. (final \o queue) \o ToCome(Ahead(t)) = Contents[Decoding[t]]
      BY <1>0, <3>4, <3>6 DEF ToCome
    <3>. QED BY <1>0, <3>1, <3>4, <3>7 DEF Meaning
  <2>. QED BY <2>1, <2>2 DEF ReadInv
<1>4. FlushInv /\ NothingLost /\ GuardJustified
  BY <1>0 DEF FlushInv, NothingLost, GuardJustified
<1>. QED BY <1>1, <1>2, <1>3, <1>4 DEF IInv

\* The invariants that say something of the end only.
LEMMA StillOpen ==
  ASSUME IInv, why = "open", why' = "open"
  PROVE  NothingLost' /\ GuardJustified'
BY DEF NothingLost, GuardJustified

\* Whether pop_line finds a line depends on the buffer and on the flush only.
LEMMA SameLine ==
  ASSUME buffer' = buffer, then' = then
  PROVE  HasLine' <=> HasLine
BY DEF HasLine, BreakAt, Flushing

\* A chunk is what followed, and now is received.
LEMMA FeedKeeps ==
  ASSUME IInv, NEW n \in 1 .. Min({MaxChunk, MaxBody - Len(body)}), NEW chunk \in [1 .. n -> Bytes],
         Feed(chunk)
  PROVE  IInv'
<1>1. TypeOK /\ PlaceInv /\ ReadInv
  BY DEF IInv
<1>2. /\ pc = "read" /\ body' = body \o chunk /\ pending' = pending \o chunk /\ pc' = "decode"
      /\ buffer' = buffer /\ done' = done /\ then' = then /\ queue' = queue /\ final' = final
      /\ why' = why
  BY DEF Feed
<1>3. why = "open" /\ then = "read" /\ ~done /\ queue = <<>>
  BY <1>1, <1>2 DEF TypeOK, PlaceInv
<1>4. n \in Nat /\ n >= 1 /\ Len(body) + n <= MaxBody
  <2>1. Len(body) \in Nat /\ Len(body) <= MaxBody
    BY <1>1, LenProperties DEF TypeOK
  <2> DEFINE T == {MaxChunk, MaxBody - Len(body)}
  <2>2. T \in SUBSET Nat /\ T # {} /\ MaxBody - Len(body) \in T
    BY <2>1, ConstantsAssumption
  <2>3. Min(T) \in T /\ \A k \in T : Min(T) <= k
    BY <2>2, MinIn
  <2>4. Min(T) \in Nat /\ Min(T) <= MaxBody - Len(body)
    BY <2>2, <2>3
  <2>5. n \in 1 .. Min(T)
    OBVIOUS
  <2>. HIDE DEF T
  <2>. QED BY <2>1, <2>4, <2>5, ConstantsAssumption
<1>5. chunk \in Seq(Bytes) /\ Len(chunk) = n
  BY <1>4
<1>6. chunk \in Seq(Symbols) /\ chunk # <<>>
  <2>1. Bytes \subseteq Symbols
    BY DEF Symbols
  <2>. QED BY <1>4, <1>5, <2>1, SeqMonotonic
<1>7. body \in Seq(Symbols) /\ pending \in Seq(Symbols)
  BY <1>1, Typed
<1>8. TypeOK'
  <2>1. body' \in Seq(Bytes) /\ Len(body') = Len(body) + n /\ pending' \in Seq(Bytes)
    <3>1. body \in Seq(Bytes) /\ pending \in Seq(Bytes)
      BY <1>1 DEF TypeOK
    <3>. QED BY <1>2, <1>5, <3>1, ConcatProperties
  <2>2. Len(body') <= MaxBody
    BY <1>4, <2>1
  <2>3. pc' # "complete" /\ why' = "open"
    BY <1>2, <1>3
  <2>. QED BY <1>1, <1>2, <2>1, <2>2, <2>3 DEF TypeOK
<1>9. PlaceInv'
  BY <1>2, <1>3 DEF PlaceInv
<1>10. ReadInv'
  <2>1. HalfChar(body') <=> HalfChar(pending')
    BY <1>2, <1>6, <1>7, HalfOfConcat
  <2>2. ASSUME NEW t \in Seq(Symbols)
        PROVE  /\ Meaning(body' \o t) = (final' \o queue') \o ToCome(Ahead(t))'
               /\ ~done' => OpenLine(Decoding[body' \o t]) = OpenLine(Ahead(t)')
    <3> DEFINE u == chunk \o t
    <3>1. u \in Seq(Symbols)
      BY <1>6, ConcatProperties
    <3>2. body' \o t = body \o u /\ pending' \o t = pending \o u
      <4>1. (body \o chunk) \o t = body \o (chunk \o t)
        BY <1>6, <1>7, ConcatAssociative
      <4>2. (pending \o chunk) \o t = pending \o (chunk \o t)
        BY <1>6, <1>7, ConcatAssociative
      <4>. QED BY <1>2, <4>1, <4>2
    <3>. HIDE DEF u
    <3>3. Ahead(t)' = Ahead(u)
      BY <1>2, <3>2 DEF Ahead
    <3>4. /\ Meaning(body \o u) = (final \o queue) \o ToCome(Ahead(u))
          /\ ~done => OpenLine(Decoding[body \o u]) = OpenLine(Ahead(u))
      BY <1>1, <1>3, <3>1 DEF ReadInv
    <3>5. ToCome(Ahead(t))' = ToCome(Ahead(u))
      BY <1>2, <3>3 DEF ToCome
    <3>. QED BY <1>2, <3>2, <3>3, <3>4, <3>5
  <2>. QED BY <2>1, <2>2 DEF ReadInv
<1>11. FlushInv'
  BY <1>2, <1>3 DEF FlushInv
<1>. QED BY <1>2, <1>3, <1>8, <1>9, <1>10, <1>11, StillOpen DEF IInv

\* A decoded character moves from the bytes ahead to the text ahead.
LEMMA DecodeKeeps ==
  ASSUME IInv, Decode
  PROVE  IInv'
<1>1. TypeOK /\ PlaceInv /\ ReadInv
  BY DEF IInv
<1>2. /\ pc = "decode" /\ pending \notin {<<>>, <<"lead">>}
      /\ body' = body /\ pc' = pc /\ done' = done /\ then' = then /\ queue' = queue
      /\ final' = final /\ why' = why
  BY DEF Decode, Incomplete
<1>3. why = "open" /\ then = "read" /\ ~done /\ queue = <<>>
  BY <1>1, <1>2 DEF TypeOK, PlaceInv
<1>4. pending \in Seq(Symbols) /\ pending \in Seq(Bytes) /\ buffer \in Seq(Letters) /\ buffer \in Seq(Chars)
  BY <1>1, Typed DEF TypeOK
<1>5. buffer' = Append(buffer, CharAt(pending)) /\ pending' = AfterChar(pending)
  <2>1. Len(pending) \in Nat /\ (Len(pending) >= 2 \/ (Len(pending) = 1 /\ pending[1] # "lead"))
    BY <1>2, <1>4, LoneLead
  <2>2. (Len(pending) > 1 /\ pending[1] = "lead" /\ pending[2] = "cont") <=> IsPair(pending)
    <3>1. Len(pending) >= 2 => Len(pending) > 1
      BY <2>1
    <3>. QED BY <2>1, <3>1, Zenon DEF IsPair
  <2>. QED BY <2>2, Zenon DEF Decode, CharAt, AfterChar
<1>6. CharAt(pending) \in Chars
  <2>1. Len(pending) \in Nat \ {0}
    BY <1>2, <1>4, CharFacts
  <2>2. pending[1] \in Bytes
    BY <1>4, <2>1, ElementOfSeq
  <2>. QED BY <2>2 DEF CharAt, Bytes, Chars, Text, Breaks
<1>7. TypeOK'
  <2>1. buffer' \in Seq(Chars)
    BY <1>4, <1>5, <1>6, AppendProperties
  <2>2. pending' \in Seq(Bytes)
    <3>1. pending' = SubSeq(pending, IF IsPair(pending) THEN 3 ELSE 2, Len(pending))
      BY <1>5, Zenon DEF AfterChar
    <3>. QED BY <1>4, <3>1, Suffix
  <2>. QED BY <1>1, <1>2, <2>1, <2>2 DEF TypeOK
<1>8. PlaceInv'
  BY <1>2, <1>3 DEF PlaceInv
<1>9. ReadInv'
  <2>1. HalfChar(body') <=> HalfChar(pending')
    BY <1>1, <1>2, <1>3, <1>4, <1>5, HalfAfterChar DEF ReadInv
  <2>2. ASSUME NEW t \in Seq(Symbols)
        PROVE  /\ Meaning(body' \o t) = (final' \o queue') \o ToCome(Ahead(t))'
               /\ ~done' => OpenLine(Decoding[body' \o t]) = OpenLine(Ahead(t)')
    <3> DEFINE c == <<CharAt(pending)>>
               r == Decoding[AfterChar(pending) \o t]
    <3>1. Decoding[pending \o t] = c \o r
      BY <1>2, <1>4, DecodingOfConcat
    <3>2. c \in Seq(Letters) /\ CharAt(pending) \in Letters
      BY <1>6 DEF Letters
    <3>3. r \in Seq(Letters)
      <4>1. AfterChar(pending) \in Seq(Symbols)
        BY <1>2, <1>4, CharFacts
      <4>2. AfterChar(pending) \o t \in Seq(Symbols)
        BY <4>1, ConcatProperties
      <4>. QED BY <4>2, DecodingType
    <3>4. buffer' = buffer \o c
      BY <1>4, <1>5, <3>2, AppendAsConcat
    <3>5. Ahead(t)' = (buffer \o c) \o r
      BY <1>5, <3>4 DEF Ahead
    <3>6. Ahead(t) = buffer \o (c \o r)
      BY <3>1 DEF Ahead
    <3>. HIDE DEF c, r
    <3>7. Ahead(t)' = Ahead(t)
      BY <1>4, <3>2, <3>3, <3>5, <3>6, ConcatAssociative
    <3>8. ToCome(Ahead(t))' = ToCome(Ahead(t))
      BY <1>2, <3>7 DEF ToCome
    <3>9. /\ Meaning(body \o t) = (final \o queue) \o ToCome(Ahead(t))
          /\ ~done => OpenLine(Decoding[body \o t]) = OpenLine(Ahead(t))
      BY <1>1, <1>3 DEF ReadInv
    <3>. QED BY <1>2, <3>7, <3>8, <3>9
  <2>. QED BY <2>1, <2>2 DEF ReadInv
<1>10. FlushInv'
  BY <1>2, <1>3 DEF FlushInv
<1>. QED BY <1>2, <1>3, <1>7, <1>8, <1>9, <1>10, StillOpen DEF IInv

\* A step that leaves alone what the invariants of the contents are about.
LEMMA SameContents ==
  ASSUME ReadInv, FlushInv, UNCHANGED <<body, pending, buffer, done, then, queue, final, why>>
  PROVE  ReadInv' /\ FlushInv'
<1>1. ReadInv'
  BY DEF ReadInv, ToCome, Ahead
<1>2. FlushInv'
  BY DEF FlushInv, ToCome
<1>. QED BY <1>1, <1>2

\* Half a character, if any, is left for the next chunk.
LEMMA DecodedKeeps ==
  ASSUME IInv, Decoded
  PROVE  IInv'
<1>1. TypeOK /\ PlaceInv /\ ReadInv /\ FlushInv
  BY DEF IInv
<1>2. /\ pc = "decode" /\ Incomplete /\ pc' = "drain"
      /\ UNCHANGED <<body, pending, buffer, done, then, queue, final, why>>
  BY DEF Decoded
<1>3. why = "open"
  BY <1>1, <1>2 DEF TypeOK
<1>4. TypeOK'
  BY <1>1, <1>2 DEF TypeOK
<1>5. PlaceInv'
  BY <1>2 DEF PlaceInv, Incomplete
<1>6. ReadInv' /\ FlushInv'
  BY <1>1, <1>2, SameContents
<1>. QED BY <1>2, <1>3, <1>4, <1>5, <1>6, StillOpen DEF IInv

\* A line that leaves the text ahead joins the queue, if it is a content.
LEMMA QueuedLine ==
  ASSUME TypeOK, Line \in Seq(Letters), NEW c \in Seq(Seq(Text))
  PROVE  LET q == IF IsContent(Line) THEN Append(queue, Line) ELSE queue
         IN  /\ q \in Seq(Seq(Text))
             /\ (final \o q) \o (IF IsDone(Line) THEN <<>> ELSE c)
                  = (final \o queue) \o (IF IsDone(Line) THEN <<>> ELSE OfLine(Line) \o c)
<1> DEFINE q == IF IsContent(Line) THEN Append(queue, Line) ELSE queue
           V == Seq(Text)
           l == OfLine(Line)
<1>1. queue \in Seq(V) /\ final \in Seq(V) /\ c \in Seq(V)
  BY Typed
<1>2. l \in Seq(V)
  BY OfLineType
<1>3. q = queue \o l
  <2>1. CASE IsContent(Line)
    <3>1. Line \in V
      BY <2>1, ContentType
    <3>2. Append(queue, Line) = queue \o <<Line>>
      BY <1>1, <3>1, AppendAsConcat
    <3>. QED BY <2>1, <3>2 DEF OfLine
  <2>2. CASE ~IsContent(Line)
    <3>1. queue \o <<>> = queue
      BY <1>1, ConcatEmptySeq
    <3>. QED BY <2>2, <3>1 DEF OfLine
  <2>. QED BY <2>1, <2>2
<1>4. IsDone(Line) => l = <<>>
  <2>1. SUFFICES ASSUME Line = <<"fin">> PROVE ~IsContent(Line)
    BY DEF IsDone, OfLine
  <2>2. 1 \in DOMAIN Line /\ Line[1] = "fin"
    BY <2>1
  <2>3. "fin" \notin Text
    BY DEF Text
  <2>. QED BY <2>2, <2>3, Zenon DEF IsContent
<1>. HIDE DEF q, V, l
<1>5. q \in Seq(V)
  BY <1>1, <1>2, <1>3, ConcatProperties
<1>6. final \o q = (final \o queue) \o l
  <2>1. (final \o queue) \o l = final \o (queue \o l)
    BY <1>1, <1>2, ConcatAssociative
  <2>. QED BY <1>3, <2>1, Zenon
<1>7. final \o queue \in Seq(V)
  BY <1>1, ConcatProperties
<1>8. ((final \o queue) \o l) \o c = (final \o queue) \o (l \o c)
  <2> DEFINE p == final \o queue
  <2>1. p \in Seq(V) /\ c \in Seq(V)
    BY <1>1, <1>7
  <2>. HIDE DEF p
  <2>2. (p \o l) \o c = p \o (l \o c)
    BY <1>2, <2>1, ConcatAssociative
  <2>. QED BY <2>2 DEF p
<1>9. CASE IsDone(Line)
  <2>1. (final \o queue) \o <<>> = final \o queue
    BY <1>7, ConcatEmptySeq
  <2>. QED BY <1>4, <1>5, <1>6, <1>9, <2>1 DEF q, V, l
<1>10. CASE ~IsDone(Line)
  BY <1>5, <1>6, <1>8, <1>10 DEF q, V, l
<1>. QED BY <1>9, <1>10

\* The line is the first of those ahead.
LEMMA PopLineKeeps ==
  ASSUME IInv, PopLine
  PROVE  IInv'
<1>1. TypeOK /\ PlaceInv /\ ReadInv /\ FlushInv
  BY DEF IInv
<1>2. /\ pc = "drain" /\ ~done /\ HasLine
      /\ done' = IsDone(Line) /\ buffer' = Rest
      /\ queue' = IF IsContent(Line) THEN Append(queue, Line) ELSE queue
      /\ body' = body /\ pending' = pending /\ pc' = pc /\ then' = then /\ final' = final /\ why' = why
  BY Zenon DEF PopLine, Line, Rest
<1>3. why = "open" /\ Incomplete
  BY <1>1, <1>2 DEF TypeOK, PlaceInv
<1>4. buffer \in Seq(Chars) /\ buffer \in Seq(Letters) /\ pending \in Seq(Symbols)
  BY <1>1, Typed
<1>5. Line \in Seq(Chars) /\ Rest \in Seq(Chars)
  <2>1. CASE Flushing
    BY <1>2, <1>4, <2>1, FlushedLine
  <2>2. CASE ~Flushing
    <3>1. <<>> \in Seq(Letters)
      BY EmptySeq
    <3>. QED BY <1>2, <1>4, <2>2, <3>1, PoppedLine
  <2>. QED BY <2>1, <2>2
<1>6. Line \in Seq(Letters) /\ Rest \in Seq(Letters)
  BY <1>5, CharsAreLetters
<1>7. ASSUME NEW c \in Seq(Seq(Text))
      PROVE  /\ queue' \in Seq(Seq(Text))
             /\ (final' \o queue') \o (IF done' THEN <<>> ELSE c)
                  = (final \o queue) \o (IF IsDone(Line) THEN <<>> ELSE OfLine(Line) \o c)
  BY <1>1, <1>2, <1>6, QueuedLine, Zenon
<1>8. TypeOK'
  <2>1. queue' \in Seq(Seq(Text))
    BY <1>7, EmptySeq
  <2>2. buffer' \in Seq(Chars) /\ done' \in BOOLEAN
    BY <1>2, <1>5 DEF IsDone
  <2>. QED BY <1>1, <1>2, <2>1, <2>2 DEF TypeOK
<1>9. PlaceInv'
  BY <1>2, <1>3 DEF PlaceInv, Incomplete
<1>10. ASSUME then = "read" PROVE ReadInv'
  <2>1. HalfChar(body') <=> HalfChar(pending')
    BY <1>1, <1>2, <1>3, <1>10 DEF ReadInv
  <2>2. ASSUME NEW t \in Seq(Symbols)
        PROVE  /\ Meaning(body' \o t) = (final' \o queue') \o ToCome(Ahead(t))'
               /\ ~done' => OpenLine(Decoding[body' \o t]) = OpenLine(Ahead(t)')
    <3> DEFINE u == Decoding[pending \o t]
               c == Contents[Rest \o u]
    <3>1. u \in Seq(Letters)
      BY <1>4, DecodingType, ConcatProperties
    <3>2. Ahead(t) = buffer \o u /\ Ahead(t)' = Rest \o u
      BY <1>2 DEF Ahead
    <3>. HIDE DEF u
    <3>3. c \in Seq(Seq(Text))
      BY <1>6, <3>1, ContentsType, ConcatProperties
    <3>4. ToCome(Ahead(t))' = IF done' THEN <<>> ELSE c
      BY <3>2, Zenon DEF ToCome
    <3>5. ~Flushing
      BY <1>10 DEF Flushing
    <3>6. /\ Contents[buffer \o u] = IF IsDone(Line) THEN <<>> ELSE OfLine(Line) \o c
          /\ OpenLine(buffer \o u) = OpenLine(Rest \o u)
      BY <1>2, <1>4, <3>1, <3>5, PoppedLine
    <3>. HIDE DEF c
    <3>7. /\ Meaning(body \o t) = (final \o queue) \o ToCome(Ahead(t))
          /\ ~done => OpenLine(Decoding[body \o t]) = OpenLine(Ahead(t))
      BY <1>1, <1>3, <1>10 DEF ReadInv
    <3>8. ToCome(Ahead(t)) = IF IsDone(Line) THEN <<>> ELSE OfLine(Line) \o c
      BY <1>2, <3>2, <3>6, Zenon DEF ToCome
    <3>9. (final' \o queue') \o ToCome(Ahead(t))' = (final \o queue) \o ToCome(Ahead(t))
      BY <1>7, <3>3, <3>4, <3>8
    <3>. QED BY <1>2, <3>2, <3>6, <3>7, <3>9
  <2>. QED BY <2>1, <2>2 DEF ReadInv
<1>11. ASSUME then # "read" PROVE FlushInv'
  <2> DEFINE c == Contents[Ended(Rest)]
  <2>1. Ended(Rest) \in Seq(Letters)
    BY <1>6 DEF Ended, Letters
  <2>2. c \in Seq(Seq(Text))
    BY <2>1, ContentsType
  <2>3. Flushing
    BY <1>11 DEF Flushing
  <2>4. Contents[Ended(buffer)] = IF IsDone(Line) THEN <<>> ELSE OfLine(Line) \o c
    BY <1>2, <1>4, <2>3, FlushedLine
  <2>5. ToCome(Ended(buffer))' = IF done' THEN <<>> ELSE c
    BY <1>2, Zenon DEF ToCome, Ended
  <2>. HIDE DEF c
  <2>6. ToCome(Ended(buffer)) = IF IsDone(Line) THEN <<>> ELSE OfLine(Line) \o c
    BY <1>2, <2>4, Zenon DEF ToCome
  <2>7. (final' \o queue') \o ToCome(Ended(buffer))' = (final \o queue) \o ToCome(Ended(buffer))
    BY <1>7, <2>2, <2>5, <2>6
  <2>8. Meaning(Ended(body)) = (final \o queue) \o ToCome(Ended(buffer))
    BY <1>1, <1>3, <1>11 DEF FlushInv
  <2>. QED BY <1>2, <2>7, <2>8 DEF FlushInv
<1>12. ReadInv' /\ FlushInv'
  <2>1. CASE then = "read"
    BY <1>2, <1>10, <2>1 DEF FlushInv
  <2>2. CASE then # "read"
    BY <1>2, <1>11, <2>2 DEF ReadInv
  <2>. QED BY <2>1, <2>2
<1>. QED BY <1>2, <1>3, <1>8, <1>9, <1>12, StillOpen DEF IInv

\* Where pop_line finds no line, or the answer is over, nothing is left to read.
LEMMA NothingLeft ==
  ASSUME IInv, pc \in {"drain", "yield"} \/ pc = "read", done \/ ~HasLine
  PROVE  /\ why = "open" /\ Incomplete
         /\ then = "read" => Meaning(body) = final \o queue
         /\ then # "read" => Meaning(Ended(body)) = final \o queue
         /\ then = "read" /\ ~done => OpenLine(Decoding[body]) = buffer
<1>1. TypeOK /\ PlaceInv /\ ReadInv /\ FlushInv
  BY DEF IInv
<1>2. why = "open" /\ Incomplete
  BY <1>1 DEF TypeOK, PlaceInv
<1>3. buffer \in Seq(Chars) /\ final \o queue \in Seq(Seq(Text))
  BY <1>1, Typed, ConcatProperties
<1>4. (final \o queue) \o <<>> = final \o queue
  BY <1>3, ConcatEmptySeq
<1>5. ~done => Contents[buffer] = <<>> /\ OpenLine(buffer) = buffer /\ (Flushing => buffer = <<>>)
  BY <1>3, NoLine
<1>6. ToCome(buffer) = <<>>
  BY <1>5, Zenon DEF ToCome
<1>7. then # "read" => ToCome(Ended(buffer)) = <<>>
  BY <1>5, ContentsOfEnd, Zenon DEF ToCome, Flushing
<1>8. ASSUME then = "read"
      PROVE  Meaning(body) = final \o queue /\ (~done => OpenLine(Decoding[body]) = buffer)
  BY <1>1, <1>2, <1>4, <1>5, <1>6, <1>8, NothingMore, Zenon
<1>9. ASSUME then # "read" PROVE Meaning(Ended(body)) = final \o queue
  BY <1>1, <1>2, <1>4, <1>7, <1>9, Zenon DEF FlushInv
<1>. QED BY <1>2, <1>8, <1>9

\* What was handed on and what was parsed is a part of what was received.
LEMMA HandedOn ==
  ASSUME IInv, why = "open"
  PROVE  /\ IsPrefix(final, Meaning(Ended(body)))
         /\ then = "read" /\ done => Meaning(Ended(body)) = final \o queue
<1>1. TypeOK /\ PlaceInv /\ ReadInv /\ FlushInv
  BY DEF IInv
<1> DEFINE text == IF then = "read" THEN Ahead(<<"end">>) ELSE Ended(buffer)
           c == ToCome(text)
<1>2. Meaning(Ended(body)) = (final \o queue) \o c
  <2>1. CASE then = "read"
    BY <1>1, <2>1, NothingMore
  <2>2. CASE then # "read"
    BY <1>1, <2>2 DEF FlushInv
  <2>. QED BY <2>1, <2>2
<1>3. text \in Seq(Letters)
  <2>1. <<"end">> \in Seq(Symbols) /\ "end" \in Letters
    BY DEF Symbols, Letters
  <2>2. pending \o <<"end">> \in Seq(Symbols)
    BY <1>1, <2>1, Typed, ConcatProperties
  <2>3. buffer \in Seq(Letters)
    BY <1>1, Typed
  <2>4. Ahead(<<"end">>) \in Seq(Letters)
    BY <2>2, <2>3, DecodingType, ConcatProperties DEF Ahead
  <2>5. Ended(buffer) \in Seq(Letters)
    BY <2>1, <2>3 DEF Ended
  <2>. QED BY <2>4, <2>5
<1>. HIDE DEF text
<1>4. c \in Seq(Seq(Text))
  <2>1. <<>> \in Seq(Seq(Text))
    BY EmptySeq
  <2>. QED BY <1>3, <2>1, ContentsType DEF ToCome
<1>5. done => c = <<>>
  BY DEF ToCome
<1>. HIDE DEF c
<1>6. final \in Seq(Seq(Text)) /\ queue \in Seq(Seq(Text))
  BY <1>1, Typed
<1>7. (final \o queue) \o c = final \o (queue \o c) /\ queue \o c \in Seq(Seq(Text))
  BY <1>4, <1>6, ConcatAssociative, ConcatProperties
<1>8. IsPrefix(final, Meaning(Ended(body)))
  BY <1>2, <1>6, <1>7, PrefixOfWhole
<1>9. (final \o queue) \o <<>> = final \o queue
  <2>1. final \o queue \in Seq(Seq(Text))
    BY <1>6, ConcatProperties
  <2>. QED BY <2>1, ConcatEmptySeq
<1>. QED BY <1>2, <1>5, <1>8, <1>9

\* Nothing is left of the chunk, or the line it left open is too long.
LEMMA DrainedKeeps ==
  ASSUME IInv, Drained
  PROVE  IInv'
<1>1. TypeOK /\ PlaceInv /\ ReadInv /\ FlushInv
  BY DEF IInv
<1>2. /\ pc = "drain" /\ (done \/ ~HasLine)
      /\ body' = body /\ pending' = pending /\ buffer' = buffer /\ done' = done
      /\ then' = then /\ final' = final
  BY DEF Drained
<1>3. /\ why = "open" /\ Incomplete
      /\ then = "read" /\ ~done => OpenLine(Decoding[body]) = buffer
  BY <1>1, <1>2, NothingLeft
<1>4. CASE then = "read" /\ Size(buffer) + Len(pending) > MaxLine
  <2>1. pc' = "complete" /\ why' = "guard" /\ queue' = <<>>
    BY <1>4 DEF Drained, Complete
  <2>2. TypeOK'
    <3>1. <<>> \in Seq(Seq(Text))
      BY EmptySeq
    <3>. QED BY <1>1, <1>2, <2>1, <3>1 DEF TypeOK
  <2>3. PlaceInv' /\ ReadInv' /\ FlushInv'
    BY <2>1 DEF PlaceInv, ReadInv, FlushInv
  <2>4. NothingLost'
    BY <1>2, <1>3, <2>1, HandedOn DEF NothingLost, Meaning
  <2>5. GuardJustified'
    <3>1. SUFFICES ASSUME ~done PROVE OpenSize(body, FALSE) > MaxLine
      BY <1>2, <1>4, <2>1 DEF GuardJustified
    <3>2. HalfChar(body) <=> HalfChar(pending)
      BY <1>1, <1>3, <1>4 DEF ReadInv
    <3>3. OpenSize(body, FALSE) = Size(buffer) + (IF ~HalfChar(pending) THEN 0 ELSE 1)
      BY <1>3, <1>4, <3>1, <3>2, Zenon DEF OpenSize
    <3>4. Len(pending) = IF ~HalfChar(pending) THEN 0 ELSE 1
      BY <1>3 DEF Incomplete, HalfChar
    <3>. QED BY <1>4, <3>3, <3>4
  <2>. QED BY <2>2, <2>3, <2>4, <2>5 DEF IInv
<1>5. CASE ~(then = "read" /\ Size(buffer) + Len(pending) > MaxLine)
  <2>1. pc' = "yield" /\ queue' = queue /\ why' = why
    BY <1>5 DEF Drained
  <2>2. TypeOK'
    BY <1>1, <1>2, <1>3, <2>1 DEF TypeOK
  <2>3. PlaceInv'
    <3>1. then = "read" => WithinGuard
      <4>1. Size(buffer) \in Nat /\ Len(pending) \in Nat
        BY <1>1, Typed, SizeFacts, LenProperties
      <4>. QED BY <1>5, <4>1, ConstantsAssumption DEF WithinGuard
    <3>2. WithinGuard' <=> WithinGuard
      BY <1>2 DEF WithinGuard
    <3>3. (done \/ ~HasLine)'
      BY <1>2, SameLine
    <3>4. Incomplete'
      BY <1>2, <1>3 DEF Incomplete
    <3>. QED BY <1>2, <2>1, <3>1, <3>2, <3>3, <3>4 DEF PlaceInv
  <2>4. ReadInv' /\ FlushInv'
    BY <1>1, <1>2, <2>1, SameContents
  <2>. QED BY <1>3, <2>1, <2>2, <2>3, <2>4, StillOpen DEF IInv
<1>. QED BY <1>4, <1>5

\* A content moves from the queue to what was handed on.
LEMMA YieldKeeps ==
  ASSUME IInv, Yield
  PROVE  IInv'
<1>1. TypeOK /\ PlaceInv /\ ReadInv /\ FlushInv
  BY DEF IInv
<1>2. /\ pc = "yield" /\ queue # <<>>
      /\ final' = Append(final, Head(queue)) /\ queue' = Tail(queue)
      /\ body' = body /\ pending' = pending /\ buffer' = buffer /\ done' = done
      /\ pc' = pc /\ then' = then /\ why' = why
  BY DEF Yield
<1>3. why = "open"
  BY <1>1, <1>2 DEF TypeOK
<1>4. final' \in Seq(Seq(Text)) /\ queue' \in Seq(Seq(Text)) /\ final' \o queue' = final \o queue
  <2> DEFINE V == Seq(Text)
  <2>1. final \in Seq(V) /\ queue \in Seq(V)
    BY <1>1, Typed
  <2>. HIDE DEF V
  <2>2. Head(queue) \in V /\ Tail(queue) \in Seq(V)
    BY <1>2, <2>1, HeadTailProperties
  <2>3. final' = final \o <<Head(queue)>> /\ <<Head(queue)>> \in Seq(V)
    BY <1>2, <2>1, <2>2, AppendAsConcat
  <2>4. queue = <<Head(queue)>> \o Tail(queue)
    BY <1>2, <2>1
  <2>5. (final \o <<Head(queue)>>) \o Tail(queue) = final \o (<<Head(queue)>> \o Tail(queue))
    BY <2>1, <2>2, <2>3, ConcatAssociative
  <2>6. final' \in Seq(V)
    BY <1>2, <2>1, <2>2, AppendProperties
  <2>. QED BY <1>2, <2>2, <2>3, <2>4, <2>5, <2>6 DEF V
<1>5. TypeOK'
  BY <1>1, <1>2, <1>4 DEF TypeOK
<1>6. PlaceInv'
  <2>1. (done \/ ~HasLine)'
    BY <1>1, <1>2, SameLine DEF PlaceInv
  <2>. QED BY <1>1, <1>2, <2>1 DEF PlaceInv, Incomplete, WithinGuard
<1>7. ReadInv'
  BY <1>1, <1>2, <1>4 DEF ReadInv, ToCome, Ahead
<1>8. FlushInv'
  BY <1>1, <1>2, <1>4 DEF FlushInv, ToCome
<1>. QED BY <1>2, <1>3, <1>5, <1>6, <1>7, <1>8, StillOpen DEF IInv

\* Everything was handed on: the end, or the next chunk.
LEMMA NextChunkKeeps ==
  ASSUME IInv, NextChunk
  PROVE  IInv'
<1>1. TypeOK /\ PlaceInv /\ ReadInv /\ FlushInv
  BY DEF IInv
<1>2. /\ pc = "yield" /\ queue = <<>>
      /\ body' = body /\ pending' = pending /\ buffer' = buffer /\ done' = done
      /\ then' = then /\ final' = final
  BY DEF NextChunk
<1>3. (done \/ ~HasLine) /\ (then = "read" => WithinGuard)
  BY <1>1, <1>2 DEF PlaceInv
<1>4. /\ why = "open" /\ Incomplete
      /\ then # "read" => Meaning(Ended(body)) = final \o queue
  BY <1>2, <1>3, NothingLeft
<1>5. final \o queue = final
  BY <1>1, <1>2, Typed, ConcatEmptySeq
<1>6. CASE then # "read" \/ done
  <2>1. pc' = "complete" /\ queue' = <<>> /\ why' \in {"clean", "transport"}
    BY <1>1, <1>6 DEF NextChunk, Complete, TypeOK
  <2>2. TypeOK'
    <3>1. <<>> \in Seq(Seq(Text))
      BY EmptySeq
    <3>. QED BY <1>1, <1>2, <2>1, <3>1 DEF TypeOK
  <2>3. PlaceInv' /\ ReadInv' /\ FlushInv' /\ GuardJustified'
    BY <2>1 DEF PlaceInv, ReadInv, FlushInv, GuardJustified
  <2>4. Meaning(Ended(body)) = final
    BY <1>4, <1>5, <1>6, HandedOn
  <2>5. NothingLost'
    BY <1>2, <2>1, <2>4 DEF NothingLost, Meaning
  <2>. QED BY <2>2, <2>3, <2>5 DEF IInv
<1>7. CASE then = "read" /\ ~done
  <2>1. pc' = "read" /\ queue' = queue /\ why' = why
    BY <1>7 DEF NextChunk
  <2>2. TypeOK'
    <3>1. Incomplete' /\ (Size(buffer) + Len(pending) <= MaxLine)'
      BY <1>2, <1>3, <1>4, <1>7 DEF Incomplete, WithinGuard
    <3>. QED BY <1>1, <1>2, <1>4, <1>7, <2>1, <3>1 DEF TypeOK
  <2>3. PlaceInv'
    BY <1>2, <1>3, <1>7, <2>1, SameLine DEF PlaceInv
  <2>4. ReadInv' /\ FlushInv'
    BY <1>1, <1>2, <2>1, SameContents
  <2>. QED BY <1>4, <2>1, <2>2, <2>3, <2>4, StillOpen DEF IInv
<1>. QED BY <1>6, <1>7

\* What is left is the last line.
LEMMA FinalizeKeeps ==
  ASSUME IInv, NEW how \in {"clean", "transport"}, Finalize(how)
  PROVE  IInv'
<1> DEFINE flushed == IF pending = <<>> THEN buffer ELSE Append(buffer, "bad")
<1>1. TypeOK /\ PlaceInv /\ ReadInv /\ FlushInv
  BY DEF IInv
<1>2. /\ pc = "read" /\ then' = how /\ buffer' = flushed /\ pending' = <<>>
      /\ body' = body /\ done' = done /\ final' = final
  BY DEF Finalize
<1>3. then = "read" /\ ~HasLine /\ ~done /\ queue = <<>>
  BY <1>1, <1>2 DEF TypeOK, PlaceInv
<1>4. why = "open" /\ Incomplete /\ OpenLine(Decoding[body]) = buffer
  BY <1>2, <1>3, NothingLeft
<1>5. Meaning(Ended(body)) = (final \o queue) \o ToCome(Ended(flushed))
  <2>1. Ahead(<<"end">>) = Ended(flushed)
    BY <1>1, <1>4, EndAhead
  <2>2. Meaning(Ended(body)) = (final \o queue) \o ToCome(Ahead(<<"end">>))
    BY <1>1, <1>3, <1>4, NothingMore
  <2>. QED BY <2>1, <2>2, Zenon
<1>6. buffer \in Seq(Chars) /\ flushed \in Seq(Chars)
  <2>1. buffer \in Seq(Chars) /\ "bad" \in Chars
    BY <1>1, Typed DEF Chars, Text
  <2>. QED BY <2>1, AppendProperties
<1>7. HalfChar(body) <=> pending # <<>>
  <2>1. HalfChar(body) <=> HalfChar(pending)
    BY <1>1, <1>3, <1>4 DEF ReadInv
  <2>2. HalfChar(pending) <=> pending # <<>>
    BY <1>4 DEF HalfChar, Incomplete
  <2>. QED BY <2>1, <2>2
<1>8. OpenSize(body, TRUE) = Size(flushed)
  <2>1. OpenSize(body, TRUE) = Size(buffer) + (IF ~HalfChar(body) THEN 0 ELSE 3)
    BY <1>4, Zenon DEF OpenSize
  <2>2. Size(buffer) \in Nat /\ Size(Append(buffer, "bad")) = Size(buffer) + 3
    BY <1>6, SizeFacts
  <2>3. CASE pending = <<>>
    <3>1. flushed = buffer /\ OpenSize(body, TRUE) = Size(buffer) + 0
      BY <1>7, <2>1, <2>3, Zenon
    <3>. HIDE DEF flushed
    <3>2. Size(buffer) + 0 = Size(buffer)
      BY <2>2
    <3>. QED BY <3>1, <3>2, Zenon
  <2>4. CASE pending # <<>>
    <3>1. flushed = Append(buffer, "bad") /\ OpenSize(body, TRUE) = Size(buffer) + 3
      BY <1>7, <2>1, <2>4, Zenon
    <3>. HIDE DEF flushed
    <3>. QED BY <2>2, <3>1
  <2>. QED BY <2>3, <2>4
<1>9. pending' \in Seq(Bytes) /\ pending' \in {<<>>, <<"lead">>}
  BY <1>2, EmptySeq
<1>10. CASE Size(flushed) > MaxLine
  <2>1. pc' = "complete" /\ why' = "guard" /\ queue' = <<>>
    BY <1>10 DEF Finalize, Complete
  <2>2. TypeOK'
    <3>1. <<>> \in Seq(Seq(Text))
      BY EmptySeq
    <3>. HIDE DEF flushed
    <3>. QED BY <1>1, <1>2, <1>6, <1>9, <2>1, <3>1 DEF TypeOK
  <2>3. PlaceInv' /\ ReadInv' /\ FlushInv'
    BY <2>1 DEF PlaceInv, ReadInv, FlushInv
  <2>4. NothingLost'
    BY <1>2, <1>4, <2>1, HandedOn DEF NothingLost, Meaning
  <2>5. GuardJustified'
    <3>1. (then # "read")' /\ body' = body
      BY <1>2
    <3>2. OpenSize(body, TRUE)' = OpenSize(body, TRUE)
      BY <1>2 DEF OpenSize
    <3>3. OpenSize(body, then # "read")' = OpenSize(body, TRUE)'
      BY <3>1
    <3>. QED BY <1>8, <1>10, <3>2, <3>3 DEF GuardJustified
  <2>. QED BY <2>2, <2>3, <2>4, <2>5 DEF IInv
<1>11. CASE ~(Size(flushed) > MaxLine)
  <2>1. pc' = "drain" /\ queue' = queue /\ why' = why
    BY <1>11 DEF Finalize
  <2>. HIDE DEF flushed
  <2>2. TypeOK'
    BY <1>1, <1>2, <1>4, <1>6, <1>9, <2>1 DEF TypeOK
  <2>3. PlaceInv'
    BY <1>9, <2>1 DEF PlaceInv, Incomplete
  <2>4. ReadInv'
    BY <1>2 DEF ReadInv
  <2>5. FlushInv'
    <3>1. ToCome(Ended(buffer))' = ToCome(Ended(flushed))
      BY <1>2, Zenon DEF ToCome, Ended
    <3>. QED BY <1>2, <1>5, <2>1, <3>1 DEF FlushInv, Meaning
  <2>. QED BY <1>4, <2>1, <2>2, <2>3, <2>4, <2>5, StillOpen DEF IInv
<1>. QED BY <1>10, <1>11

\* Every step keeps the invariant.
LEMMA InvStep == IInv /\ [Next]_vars => IInv'
<1>. SUFFICES ASSUME IInv, [Next]_vars PROVE IInv'
  OBVIOUS
<1>1. CASE UNCHANGED vars
  <2>1. /\ UNCHANGED <<body, pending, buffer, done, then, queue, final, why>>
        /\ pc' = pc
    BY <1>1 DEF vars
  <2>2. TypeOK'
    BY <2>1 DEF IInv, TypeOK, Incomplete
  <2>3. PlaceInv'
    BY <2>1, SameLine DEF IInv, PlaceInv, Incomplete, WithinGuard
  <2>4. ReadInv' /\ FlushInv'
    BY <2>1, SameContents DEF IInv
  <2>5. NothingLost'
    BY <2>1 DEF IInv, NothingLost
  <2>6. GuardJustified'
    BY <2>1 DEF IInv, GuardJustified
  <2>. QED BY <2>2, <2>3, <2>4, <2>5, <2>6 DEF IInv
<1>2. ASSUME NEW n \in 1 .. Min({MaxChunk, MaxBody - Len(body)}), NEW chunk \in [1 .. n -> Bytes],
             Feed(chunk)
      PROVE  IInv'
  BY <1>2, FeedKeeps
<1>3. CASE Decode
  BY <1>3, DecodeKeeps
<1>4. CASE Decoded
  BY <1>4, DecodedKeeps
<1>5. CASE PopLine
  BY <1>5, PopLineKeeps
<1>6. CASE Drained
  BY <1>6, DrainedKeeps
<1>7. CASE Yield
  BY <1>7, YieldKeeps
<1>8. CASE NextChunk
  BY <1>8, NextChunkKeeps
<1>9. ASSUME NEW how \in {"clean", "transport"}, Finalize(how) PROVE IInv'
  BY <1>9, FinalizeKeeps
<1>. QED BY <1>1, <1>2, <1>3, <1>4, <1>5, <1>6, <1>7, <1>8, <1>9 DEF Next

\* So it always holds.
LEMMA InvHolds == Spec => []IInv
<1>. QED BY InvInit, InvStep, PTL DEF Spec

\* parse_sse_stream and DialecticStream keep every variable in its type, and between
\* two reads nothing is queued and no more is kept than MAX_SSE_LINE_BYTES.
THEOREM TypeCorrect == Spec => []TypeOK
<1>1. IInv => TypeOK
  BY DEF IInv
<1>. QED BY InvHolds, <1>1, PTL

\* However the body was cut into chunks, when the next one is awaited the caller has
\* got the contents of the lines received, and no others.
THEOREM PromptHolds == Spec => []Prompt
<1>1. IInv => Prompt
  <2>. SUFFICES ASSUME IInv, pc = "read" PROVE final = Meaning(body)
    BY DEF Prompt
  <2>1. TypeOK /\ queue = <<>> /\ then = "read" /\ ~HasLine
    BY DEF IInv, TypeOK, PlaceInv
  <2>2. Meaning(body) = final \o queue
    BY <2>1, NothingLeft
  <2>3. final \o <<>> = final
    BY <2>1, Typed, ConcatEmptySeq
  <2>. QED BY <2>1, <2>2, <2>3
<1>. QED BY InvHolds, <1>1, PTL

\* A stream that ended, cleanly or with its connection, handed on all that the body
\* received means; one that the guard ended, the start of it.
THEOREM NothingLostHolds == Spec => []NothingLost
<1>1. IInv => NothingLost
  BY DEF IInv
<1>. QED BY InvHolds, <1>1, PTL

\* The guard of feed and finalize ends a stream only for a line that is too long.
THEOREM GuardJustifiedHolds == Spec => []GuardJustified
<1>1. IInv => GuardJustified
  BY DEF IInv
<1>. QED BY InvHolds, <1>1, PTL
=============================================================================
