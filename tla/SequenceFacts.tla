----------------------------- MODULE SequenceFacts -----------------------------
(***************************************************************************)
(* What the proofs about strings need: that every set of natural numbers   *)
(* has a least one, which is induction for definitions over data, and what *)
(* FlattenSeq gives.                                                       *)
(***************************************************************************)
EXTENDS Integers, Sequences, SequencesExt, SequenceTheorems, WellFoundedInduction, TLAPS

\* A nonempty set of natural numbers has a least element.
LEMMA LeastNatural ==
    ASSUME NEW T \in SUBSET Nat, T # {}
    PROVE  \E x \in T : \A y \in T : x <= y
<1> DEFINE R == OpToRel(<, Nat)
<1>1. ASSUME NEW x \in Nat, NEW y \in Nat, y < x PROVE <<y, x>> \in R
  BY <1>1 DEF OpToRel
<1>2. IsWellFoundedOn(R, Nat)
  BY NatLessThanWellFounded
<1> HIDE DEF R
<1>3. PICK x \in T : \A y \in T : ~(<<y, x>> \in R)
  BY <1>2, WFMin
<1>4. \A y \in T : ~(y < x)
  BY <1>1, <1>3
<1> QED BY <1>3, <1>4

\* Induction: a set of natural numbers with 0, and with n + 1 whenever it has n, is all of them.
LEMMA NatSetInduction ==
    ASSUME NEW P, 0 \in P, \A n \in Nat : n \in P => n + 1 \in P
    PROVE  \A n \in Nat : n \in P
<1> SUFFICES ASSUME {n \in Nat : n \notin P} # {} PROVE FALSE
  OBVIOUS
<1> DEFINE T == {n \in Nat : n \notin P}
<1>1. PICK x \in T : \A y \in T : x <= y
  <2> T \in SUBSET Nat /\ T # {}
    OBVIOUS
  <2> HIDE DEF T
  <2> QED BY LeastNatural
<1>2. x # 0
  BY <1>1
<1>3. x - 1 \in Nat /\ x - 1 \notin T
  BY <1>1, <1>2
<1> QED BY <1>1, <1>3

-----------------------------------------------------------------------------
\* IsPrefix, element by element.
LEMMA PrefixAt ==
    ASSUME NEW S, NEW a \in Seq(S), NEW b \in Seq(S)
    PROVE  IsPrefix(a, b) <=> Len(a) <= Len(b) /\ \A k \in 1..Len(a) : a[k] = b[k]
<1>1. CASE Len(a) <= Len(b)
  <2>1. SubSeq(a, 1, Len(a)) = a
    OBVIOUS
  <2>2. SubSeq(b, 1, Len(a)) \in Seq(S) /\ Len(SubSeq(b, 1, Len(a))) = Len(a)
        /\ \A k \in 1..Len(a) : SubSeq(b, 1, Len(a))[k] = b[k]
    BY <1>1
  <2>3. a = SubSeq(b, 1, Len(a)) <=> \A k \in 1..Len(a) : a[k] = b[k]
    BY <2>2, SeqEqual
  <2> QED BY <1>1, <2>1, <2>3 DEF IsPrefix
<1>2. CASE ~(Len(a) <= Len(b))
  BY <1>2 DEF IsPrefix
<1> QED BY <1>1, <1>2

-----------------------------------------------------------------------------
\* f has at i what the first i sequences of s are, put together.
Flattens(f, s, n) == f = [i \in 1..n |-> IF i = 1 THEN s[i] ELSE f[i - 1] \o s[i]]

\* What the definition says of one place of the function that FlattenSeq builds.
LEMMA FlattensAt ==
    ASSUME NEW s, NEW n, NEW f, Flattens(f, s, n), NEW i \in 1..n
    PROVE  f[i] = IF i = 1 THEN s[i] ELSE f[i - 1] \o s[i]
<1> DEFINE e(j) == IF j = 1 THEN s[j] ELSE f[j - 1] \o s[j]
<1>1. f = [j \in 1..n |-> e(j)]
  BY DEF Flattens
<1> HIDE DEF e
<1>2. f[i] = e(i)
  BY <1>1
<1> QED BY <1>2 DEF e

\* There is such a function, for a sequence of any length.
LEMMA FlattensExists ==
    ASSUME NEW s
    PROVE  \A n \in Nat : \E f : Flattens(f, s, n)
<1> DEFINE P == {n \in Nat : \E f : Flattens(f, s, n)}
<1>1. 0 \in P
  <2>1. Flattens([i \in 1..0 |-> i], s, 0)
    BY DEF Flattens
  <2> QED BY <2>1
<1>2. ASSUME NEW n \in Nat, n \in P PROVE n + 1 \in P
  <2>1. PICK f : Flattens(f, s, n)
    BY <1>2
  <2> DEFINE e == IF n = 0 THEN s[1] ELSE f[n] \o s[n + 1]
             g == [i \in 1..(n + 1) |-> IF i = n + 1 THEN e ELSE f[i]]
  <2>2. ASSUME NEW i \in 1..(n + 1)
        PROVE  g[i] = IF i = 1 THEN s[i] ELSE g[i - 1] \o s[i]
    <3>1. CASE i = n + 1
      <4>1. n # 0 => n \in 1..(n + 1) /\ n # n + 1
        OBVIOUS
      <4> QED BY <3>1, <4>1
    <3>2. CASE i # n + 1
      <4>1. i \in 1..n /\ (i # 1 => i - 1 \in 1..(n + 1) /\ i - 1 # n + 1)
        BY <3>2
      <4>2. f[i] = IF i = 1 THEN s[i] ELSE f[i - 1] \o s[i]
        BY <4>1, <2>1 DEF Flattens
      <4> QED BY <4>1, <4>2, <3>2
    <3> QED BY <3>1, <3>2
  <2>3. Flattens(g, s, n + 1)
    <3>1. g = [i \in 1..(n + 1) |-> g[i]]
      OBVIOUS
    <3> HIDE DEF g
    <3> QED BY <2>2, <3>1 DEF Flattens
  <2> QED BY <2>3
<1> HIDE DEF P
<1>3. \A n \in Nat : n \in P
  BY <1>1, <1>2, NatSetInduction
<1> QED BY <1>3 DEF P

\* What is put together from the first sequences does not depend on those that follow.
LEMMA FlattensAgree ==
    ASSUME NEW s, NEW t, NEW f, NEW g, NEW m \in Nat, NEW n \in Nat, m <= n,
           \A i \in 1..m : s[i] = t[i], Flattens(f, s, m), Flattens(g, t, n)
    PROVE  \A i \in 1..m : f[i] = g[i]
<1> DEFINE P == {k \in Nat : k \in 1..m => f[k] = g[k]}
<1>1. 0 \in P
  OBVIOUS
<1>2. ASSUME NEW k \in Nat, k \in P PROVE k + 1 \in P
  <2> SUFFICES ASSUME k + 1 \in 1..m PROVE f[k + 1] = g[k + 1]
    OBVIOUS
  <2>1. k + 1 \in 1..n /\ (k + 1) - 1 = k /\ (k + 1 # 1 => k \in 1..m)
    OBVIOUS
  <2>2. f[k + 1] = IF k + 1 = 1 THEN s[k + 1] ELSE f[(k + 1) - 1] \o s[k + 1]
    BY FlattensAt
  <2>3. g[k + 1] = IF k + 1 = 1 THEN t[k + 1] ELSE g[(k + 1) - 1] \o t[k + 1]
    BY <2>1, FlattensAt
  <2> QED BY <1>2, <2>1, <2>2, <2>3
<1> HIDE DEF P
<1>3. \A k \in Nat : k \in P
  BY <1>1, <1>2, NatSetInduction
<1> QED BY <1>3 DEF P

\* FlattenSeq of nothing.
LEMMA FlattenEmpty == FlattenSeq(<<>>) = <<>>
BY DEF FlattenSeq

\* FlattenSeq takes the last place of that function.
LEMMA FlattenLast ==
    ASSUME NEW s, Len(s) \in Nat \ {0}
    PROVE  \E f : Flattens(f, s, Len(s)) /\ FlattenSeq(s) = f[Len(s)]
<1> DEFINE F == CHOOSE f : f = [i \in 1..Len(s) |-> IF i = 1 THEN s[i] ELSE f[i - 1] \o s[i]]
<1>1. Flattens(F, s, Len(s))
  BY FlattensExists DEF Flattens
<1>2. FlattenSeq(s) = F[Len(s)]
  BY DEF FlattenSeq
<1> QED BY <1>1, <1>2

\* One more sequence at the end is one more piece of the concatenation.
LEMMA FlattenAppend ==
    ASSUME NEW S, NEW s \in Seq(Seq(S)), NEW e \in Seq(S)
    PROVE  FlattenSeq(Append(s, e)) = FlattenSeq(s) \o e
<1> DEFINE t == Append(s, e)
           n == Len(s)
<1>1. Len(t) = n + 1 /\ n \in Nat /\ t[n + 1] = e /\ \A i \in 1..n : t[i] = s[i]
  BY AppendProperties
<1>a. n = Len(s) /\ (n = 0 => s = <<>>)
  OBVIOUS
<1> SUFFICES FlattenSeq(t) = FlattenSeq(s) \o e
  OBVIOUS
<1> HIDE DEF t, n
<1>2. PICK g : Flattens(g, t, n + 1) /\ FlattenSeq(t) = g[n + 1]
  BY <1>1, FlattenLast
<1>3. CASE n = 0
  <2>1. g[1] = t[1]
    BY <1>1, <1>2, <1>3, FlattensAt
  <2>2. FlattenSeq(s) = <<>>
    BY <1>a, <1>3, FlattenEmpty
  <2>3. <<>> \o e = e
    BY ConcatEmptySeq
  <2> QED BY <1>1, <1>2, <1>3, <2>1, <2>2, <2>3
<1>4. CASE n # 0
  <2>1. PICK f : Flattens(f, s, n) /\ FlattenSeq(s) = f[n]
    BY <1>1, <1>a, <1>4, FlattenLast
  <2>2. f[n] = g[n]
    <3>1. \A i \in 1..n : f[i] = g[i]
      BY <1>1, <1>2, <2>1, FlattensAgree
    <3> QED BY <1>1, <1>4, <3>1
  <2>3. g[n + 1] = g[n] \o t[n + 1]
    <3>1. g[n + 1] = IF n + 1 = 1 THEN t[n + 1] ELSE g[(n + 1) - 1] \o t[n + 1]
      <4>1. n + 1 \in 1..(n + 1)
        BY <1>1
      <4> QED BY <1>2, <4>1, FlattensAt
    <3> QED BY <1>1, <1>4, <3>1
  <2> QED BY <1>1, <1>2, <2>1, <2>2, <2>3
<1> QED BY <1>3, <1>4

\* The concatenation has the elements of its pieces.
LEMMA FlattenType ==
    ASSUME NEW S, NEW s \in Seq(Seq(S))
    PROVE  FlattenSeq(s) \in Seq(S)
<1>1. CASE Len(s) = 0
  <2>1. s = <<>>
    BY <1>1
  <2> QED BY <2>1, FlattenEmpty, EmptySeq
<1>2. CASE Len(s) # 0
  <2>1. PICK f : Flattens(f, s, Len(s)) /\ FlattenSeq(s) = f[Len(s)]
    BY <1>2, FlattenLast
  <2> DEFINE P == {k \in Nat : k \in 1..Len(s) => f[k] \in Seq(S)}
  <2>2. 0 \in P
    OBVIOUS
  <2>3. ASSUME NEW k \in Nat, k \in P PROVE k + 1 \in P
    <3> SUFFICES ASSUME k + 1 \in 1..Len(s) PROVE f[k + 1] \in Seq(S)
      OBVIOUS
    <3>1. f[k + 1] = IF k + 1 = 1 THEN s[k + 1] ELSE f[(k + 1) - 1] \o s[k + 1]
      BY <2>1, FlattensAt
    <3>2. s[k + 1] \in Seq(S) /\ (k + 1) - 1 = k /\ (k + 1 # 1 => f[k] \in Seq(S))
      BY <2>3
    <3> QED BY <3>1, <3>2
  <2> HIDE DEF P
  <2>4. \A k \in Nat : k \in P
    BY <2>2, <2>3, NatSetInduction
  <2> QED BY <1>2, <2>1, <2>4 DEF P
<1> QED BY <1>1, <1>2

\* What a sequence has that something was appended to, or not.
LEMMA AppendOrNot ==
    ASSUME NEW S, NEW s \in Seq(S), NEW e \in S, NEW t, t = Append(s, e) \/ t = s
    PROVE  /\ t \in Seq(S)
           /\ \A i \in DOMAIN s : i \in DOMAIN t /\ t[i] = s[i]
           /\ \A i \in DOMAIN t : i \notin DOMAIN s => t[i] = e
<1>1. CASE t = s
  BY <1>1
<1>2. CASE t = Append(s, e)
  <2>1. t \in Seq(S) /\ Len(t) = Len(s) + 1 /\ t[Len(s) + 1] = e /\ \A i \in 1..Len(s) : t[i] = s[i]
    BY <1>2, AppendProperties
  <2>2. Len(s) \in Nat /\ DOMAIN s = 1..Len(s) /\ DOMAIN t = 1..(Len(s) + 1)
    BY <2>1
  <2> QED BY <2>1, <2>2
<1> QED BY <1>1, <1>2

\* What begins with a and b begins with a.
LEMMA PrefixOfConcat ==
    ASSUME NEW S, NEW a \in Seq(S), NEW b \in Seq(S), NEW c \in Seq(S), IsPrefix(a \o b, c)
    PROVE  IsPrefix(a, c)
<1>1. a \o b \in Seq(S) /\ Len(a \o b) = Len(a) + Len(b) /\ \A k \in 1..Len(a) : (a \o b)[k] = a[k]
  OBVIOUS
<1>2. Len(a \o b) <= Len(c) /\ \A k \in 1..Len(a \o b) : (a \o b)[k] = c[k]
  BY <1>1, PrefixAt
<1>3. Len(a) \in Nat /\ Len(b) \in Nat /\ Len(c) \in Nat
  OBVIOUS
<1>4. Len(a) <= Len(c) /\ \A k \in 1..Len(a) : a[k] = c[k]
  BY <1>1, <1>2, <1>3
<1> QED BY <1>4, PrefixAt

\* What is left of a sequence behind a beginning of it.
LEMMA PrefixRest ==
    ASSUME NEW S, NEW a \in Seq(S), NEW b \in Seq(S), IsPrefix(a, b)
    PROVE  \E r \in Seq(S) : b = a \o r
<1> DEFINE k == Len(a)
           r == SubSeq(b, k + 1, Len(b))
<1>1. k \in Nat /\ Len(b) \in Nat /\ k <= Len(b)
  BY PrefixAt
<1>2. a = SubSeq(b, 1, k)
  <2>1. SubSeq(a, 1, k) = a
    OBVIOUS
  <2> QED BY <2>1 DEF IsPrefix
<1>3. SubSeq(b, 1, Len(b)) = b
  OBVIOUS
<1>4. r \in Seq(S)
  <2>1. \A i \in (k + 1)..Len(b) : b[i] \in S
    BY <1>1
  <2>2. k + 1 \in Int /\ Len(b) \in Int
    BY <1>1
  <2> HIDE DEF k
  <2> QED BY <2>1, <2>2, SubSeqProperties
<1> HIDE DEF k
<1>5. 1 \in 1..(Len(b) + 1) /\ k \in (1 - 1)..Len(b) /\ Len(b) \in k..Len(b)
  BY <1>1
<1>6. SubSeq(b, 1, k) \o r = SubSeq(b, 1, Len(b))
  BY <1>5, ConcatAdjacentSubSeq
<1> QED BY <1>2, <1>3, <1>4, <1>6

\* The first i sequences of s, put together.
First(s, i) == FlattenSeq(SubSeq(s, 1, i))

\* The first i pieces have the elements of all.
LEMMA FirstType ==
    ASSUME NEW S, NEW s \in Seq(Seq(S)), NEW i \in 0..Len(s)
    PROVE  First(s, i) \in Seq(S)
<1>1. SubSeq(s, 1, i) \in Seq(Seq(S))
  OBVIOUS
<1> QED BY <1>1, FlattenType DEF First

\* The first none of the pieces.
LEMMA FirstZero == ASSUME NEW s PROVE First(s, 0) = <<>>
<1>1. SubSeq(s, 1, 0) = <<>>
  OBVIOUS
<1> QED BY <1>1, FlattenEmpty DEF First

\* All of the pieces.
LEMMA FirstAll == ASSUME NEW S, NEW s \in Seq(S) PROVE First(s, Len(s)) = FlattenSeq(s)
<1>1. SubSeq(s, 1, Len(s)) = s
  OBVIOUS
<1> QED BY <1>1 DEF First

\* One piece more.
LEMMA FirstNext ==
    ASSUME NEW S, NEW s \in Seq(Seq(S)), NEW i \in 1..Len(s)
    PROVE  First(s, i) = First(s, i - 1) \o s[i]
<1>1. SubSeq(s, 1, i - 1) \in Seq(Seq(S)) /\ s[i] \in Seq(S)
  OBVIOUS
<1>2. SubSeq(s, 1, i) = Append(SubSeq(s, 1, i - 1), s[i])
  OBVIOUS
<1> QED BY <1>1, <1>2, FlattenAppend DEF First

\* It is a beginning of all of them.
LEMMA FirstIsPrefix ==
    ASSUME NEW S, NEW s \in Seq(Seq(S)), NEW i \in 0..Len(s)
    PROVE  IsPrefix(First(s, i), FlattenSeq(s))
<1> DEFINE P == {k \in Nat : k <= Len(s) => IsPrefix(First(s, Len(s) - k), FlattenSeq(s))}
<1>0. Len(s) \in Nat /\ FlattenSeq(s) \in Seq(S)
  BY FlattenType
<1>1. 0 \in P
  <2>1. First(s, Len(s)) = FlattenSeq(s)
    BY FirstAll
  <2>2. IsPrefix(FlattenSeq(s), FlattenSeq(s))
    BY <1>0, PrefixAt
  <2>3. Len(s) - 0 = Len(s)
    BY <1>0
  <2> QED BY <2>1, <2>2, <2>3
<1>2. ASSUME NEW k \in Nat, k \in P PROVE k + 1 \in P
  <2> SUFFICES ASSUME k + 1 <= Len(s) PROVE IsPrefix(First(s, Len(s) - (k + 1)), FlattenSeq(s))
    OBVIOUS
  <2>1. IsPrefix(First(s, Len(s) - k), FlattenSeq(s))
    BY <1>0, <1>2
  <2> DEFINE j == Len(s) - k
  <2>2. j \in 1..Len(s) /\ j - 1 = Len(s) - (k + 1) /\ j - 1 \in 0..Len(s)
    BY <1>0
  <2> HIDE DEF P
  <2>3. First(s, j) = First(s, j - 1) \o s[j]
    BY <2>2, FirstNext
  <2>4. s[j] \in Seq(S)
    BY <2>2
  <2>5. First(s, j - 1) \in Seq(S)
    BY <2>2, FirstType
  <2>6. IsPrefix(First(s, j - 1) \o s[j], FlattenSeq(s))
    BY <2>1, <2>2, <2>3
  <2> QED BY <1>0, <2>2, <2>4, <2>5, <2>6, PrefixOfConcat
<1> HIDE DEF P
<1>3. \A k \in Nat : k \in P
  BY <1>1, <1>2, NatSetInduction
<1>4. Len(s) - i \in Nat /\ Len(s) - i <= Len(s) /\ Len(s) - (Len(s) - i) = i
  BY <1>0
<1> QED BY <1>3, <1>4 DEF P

\* Where each of the sequences is in all of them together.
LEMMA FirstPlaces ==
    ASSUME NEW S, NEW s \in Seq(Seq(S)), NEW i \in 1..Len(s)
    PROVE  /\ Len(First(s, i - 1)) \in Nat /\ Len(s[i]) \in Nat
           /\ Len(First(s, i)) = Len(First(s, i - 1)) + Len(s[i])
           /\ Len(First(s, i)) <= Len(FlattenSeq(s))
           /\ \A k \in 1..Len(s[i]) : FlattenSeq(s)[Len(First(s, i - 1)) + k] = s[i][k]
<1> DEFINE a == First(s, i - 1)
           b == First(s, i)
           c == FlattenSeq(s)
           e == s[i]
<1>1. Len(s) \in Nat /\ i - 1 \in 0..Len(s) /\ i \in 0..Len(s)
  OBVIOUS
<1>2. a \in Seq(S) /\ b \in Seq(S) /\ c \in Seq(S) /\ e \in Seq(S)
  BY <1>1, FirstType, FlattenType
<1>3. IsPrefix(b, c)
  BY <1>1, FirstIsPrefix
<1>4. b = a \o e
  BY FirstNext
<1> HIDE DEF a, b, c, e
<1>5. Len(b) <= Len(c) /\ \A k \in 1..Len(b) : b[k] = c[k]
  BY <1>2, <1>3, PrefixAt
<1>6. Len(a) \in Nat /\ Len(e) \in Nat /\ Len(b) = Len(a) + Len(e)
  BY <1>2, <1>4
<1>7. ASSUME NEW k \in 1..Len(e) PROVE c[Len(a) + k] = e[k]
  <2>1. Len(a) + k \in 1..Len(b) /\ Len(a) + k \in 1..(Len(a) + Len(e)) /\ ~(Len(a) + k <= Len(a))
        /\ (Len(a) + k) - Len(a) = k
    BY <1>6
  <2>2. b[Len(a) + k] = e[k]
    BY <1>2, <1>4, <2>1, ConcatProperties
  <2> QED BY <1>5, <2>1, <2>2
<1> QED BY <1>5, <1>6, <1>7 DEF a, b, c, e
=============================================================================
