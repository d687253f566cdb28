--------------------------- MODULE ZcAliases_proofs ---------------------------
(***************************************************************************)
(* "zc password aliases" for any characters, any globs, any answers and    *)
(* any stack, however long: strglob() finds what a glob means of the       *)
(* string it is given, a glob that ends in a star finds the aliases that   *)
(* it means, and the lines that are written are lines of the answer; of    *)
(* globs that are a beginning and a star, they are all that begin so.      *)
(*                                                                         *)
(* strglob() is a recursive function of its places in the string and in    *)
(* the glob. A match is a cut of the string into one piece per token, and  *)
(* what the function says at the place behind a token is whether the rest  *)
(* of the string can be cut for the rest of the tokens: by induction from  *)
(* the end of the glob, and for a star from the end of the string. The     *)
(* array ends with a NUL, so that what strglob() is given of a line that   *)
(* fits begins with the line, and goes on as the array was before.         *)
(***************************************************************************)
EXTENDS ZcAliases, SequenceFacts, FiniteSetTheorems

Char == Chars \cup {NL, NUL}

\* The shape of a token: one character that stands for itself, a wildcard, or a set.
SetToken(token) ==
    /\ token \in Seq(Chars \cup {"[", "]"})
    /\ Len(token) \in Nat /\ Len(token) >= 3
    /\ token[1] = "[" /\ token[Len(token)] = "]"
    /\ \A r \in 2..(Len(token) - 1) : token[r] \in Chars

Glyph == Chars \cup {"[", "]", "*", "?"}

\* The members of a set of characters, as a glob lists them.
LEMMA SetToSeqType ==
    ASSUME NEW cs \in (SUBSET Chars) \ {{}}
    PROVE  SetToSeq(cs) \in Seq(cs) /\ Len(SetToSeq(cs)) \in Nat \ {0}
<1>1. IsFiniteSet(cs) /\ cs # {}
  BY AliasesAssumption, FS_Subset
<1>2. Cardinality(cs) \in Nat /\ ExistsBijection(1..Cardinality(cs), cs)
  BY <1>1, FS_CardinalityType
<1>3. Cardinality(cs) # 0
  BY <1>1, FS_EmptySet
<1>4. \E f \in [1..Cardinality(cs) -> cs] : IsInjective(f)
  BY <1>2 DEF ExistsBijection, Bijection, Injection, IsInjective
<1>5. SetToSeq(cs) \in [1..Cardinality(cs) -> cs]
  BY <1>4 DEF SetToSeq
<1> HIDE DEF SetToSeq
<1> QED BY <1>2, <1>3, <1>5

\* What a token of a glob can be.
LEMMA TokenShape ==
    ASSUME NEW token \in Tokens
    PROVE  \/ \E c \in Chars : token = <<c>>
           \/ token = <<"?">>
           \/ token = <<"*">>
           \/ SetToken(token)
<1>1. CASE token \in Sets
  <2>1. PICK cs \in (SUBSET Chars) \ {{}} : token = <<"[">> \o SetToSeq(cs) \o <<"]">>
    BY <1>1 DEF Sets
  <2> DEFINE s == SetToSeq(cs)
  <2>2. s \in Seq(Chars) /\ Len(s) \in Nat \ {0}
    BY SetToSeqType
  <2> HIDE DEF s
  <2>3. token = <<"[">> \o s \o <<"]">>
    BY <2>1 DEF s
  <2>4. SetToken(token)
    BY <2>2, <2>3 DEF SetToken
  <2> QED BY <2>4
<1>2. CASE token \notin Sets
  BY <1>2 DEF Tokens
<1> QED BY <1>1, <1>2

\* A token is some characters of a glob.
LEMMA TokenType ==
    ASSUME NEW token \in Tokens
    PROVE  token \in Seq(Glyph) /\ Len(token) \in Nat \ {0}
<1>1. CASE SetToken(token)
  <2>1. Chars \cup {"[", "]"} \subseteq Glyph
    BY DEF Glyph
  <2> QED BY <1>1, <2>1, SeqMonotonic DEF SetToken
<1>2. CASE ~SetToken(token)
  <2>1. \A c \in Glyph : <<c>> \in Seq(Glyph) /\ Len(<<c>>) = 1
    OBVIOUS
  <2>2. PICK c \in Glyph : token = <<c>>
    BY <1>2, TokenShape DEF Glyph
  <2> QED BY <2>1, <2>2
<1> QED BY <1>1, <1>2

\* So is a glob.
LEMMA GlobType ==
    ASSUME NEW toks \in Seq(Tokens)
    PROVE  FlattenSeq(toks) \in Seq(Glyph)
<1>1. Tokens \subseteq Seq(Glyph)
  BY TokenType
<1>2. toks \in Seq(Seq(Glyph))
  BY <1>1, SeqMonotonic
<1> QED BY <1>2, FlattenType

-----------------------------------------------------------------------------
(* strglob() *)

\* Every set that is opened is closed.
Closed(s) == \A p \in 1..Len(s) : s[p] = "[" => \E q \in p..Len(s) : s[q] = "]"

\* A token leaves every bracket closed.
LEMMA ClosedConcat ==
    ASSUME NEW s \in Seq(Glyph), Closed(s), NEW token \in Tokens
    PROVE  Closed(s \o token)
<1>1. token \in Seq(Glyph) /\ Len(token) \in Nat \ {0}
  BY TokenType
<1>2. /\ Len(s) \in Nat /\ Len(s \o token) = Len(s) + Len(token)
      /\ \A p \in 1..Len(s) : (s \o token)[p] = s[p]
      /\ \A k \in 1..Len(token) : (s \o token)[Len(s) + k] = token[k]
  BY <1>1
<1> SUFFICES ASSUME NEW p \in 1..(Len(s) + Len(token)), (s \o token)[p] = "["
             PROVE  \E q \in p..(Len(s) + Len(token)) : (s \o token)[q] = "]"
  BY <1>2 DEF Closed
<1>3. CASE p <= Len(s)
  <2>1. p \in 1..Len(s) /\ s[p] = "["
    BY <1>2, <1>3
  <2>2. PICK q \in p..Len(s) : s[q] = "]"
    BY <2>1 DEF Closed
  <2> QED BY <1>1, <1>2, <2>1, <2>2
<1>4. CASE p > Len(s)
  <2>1. p - Len(s) \in 1..Len(token) /\ token[p - Len(s)] = "["
    BY <1>1, <1>2, <1>4
  <2>2. SetToken(token)
    <3>1. ASSUME NEW c \in Chars \cup {"?", "*"}, token = <<c>> PROVE FALSE
      <4>1. c = "["
        BY <2>1, <3>1
      <4> QED BY <4>1, AliasesAssumption
    <3> QED BY <3>1, TokenShape
  <2>3. token[Len(token)] = "]" /\ Len(token) \in 1..Len(token)
    BY <1>1, <2>2 DEF SetToken
  <2> QED BY <1>1, <1>2, <2>3
<1> QED BY <1>2, <1>3, <1>4

\* In a glob every opening bracket has a closing one behind it.
LEMMA GlobClosed ==
    ASSUME NEW toks \in Seq(Tokens)
    PROVE  Closed(FlattenSeq(toks))
<1>0. toks \in Seq(Seq(Glyph)) /\ Len(toks) \in Nat
  <2>1. Tokens \subseteq Seq(Glyph)
    BY TokenType
  <2> QED BY <2>1, SeqMonotonic
<1> DEFINE P == {t \in Nat : t <= Len(toks) => Closed(First(toks, t))}
<1>1. 0 \in P
  <2>1. First(toks, 0) = <<>>
    BY FirstZero
  <2>2. Closed(<<>>)
    BY DEF Closed
  <2> QED BY <2>1, <2>2
<1>2. ASSUME NEW t \in Nat, t \in P PROVE t + 1 \in P
  <2> SUFFICES ASSUME t + 1 <= Len(toks) PROVE Closed(First(toks, t + 1))
    OBVIOUS
  <2>1. t \in 0..Len(toks) /\ t + 1 \in 1..Len(toks) /\ (t + 1) - 1 = t /\ toks[t + 1] \in Tokens
    BY <1>0
  <2>2. Closed(First(toks, t))
    BY <1>0, <1>2
  <2>3. First(toks, t) \in Seq(Glyph)
    BY <1>0, <2>1, FirstType
  <2>4. First(toks, t + 1) = First(toks, t) \o toks[t + 1]
    BY <1>0, <2>1, FirstNext
  <2> QED BY <2>1, <2>2, <2>3, <2>4, ClosedConcat
<1> HIDE DEF P
<1>3. \A t \in Nat : t \in P
  BY <1>1, <1>2, NatSetInduction
<1>4. First(toks, Len(toks)) = FlattenSeq(toks)
  BY FirstAll
<1> QED BY <1>0, <1>3, <1>4 DEF P

\* Close() finds the first closing bracket.
LEMMA CloseFound ==
    ASSUME NEW s \in Seq(Glyph), Closed(s), NEW p \in 1..Len(s), s[p] = "["
    PROVE  /\ Close(s, p) \in p..Len(s) /\ s[Close(s, p)] = "]"
           /\ \A r \in p..(Close(s, p) - 1) : s[r] # "]"
<1> DEFINE Q == {q \in p..Len(s) : s[q] = "]"}
<1>1. Q \in SUBSET Nat /\ Q # {}
  BY DEF Closed
<1>2. PICK q \in Q : \A r \in Q : q <= r
  <2> HIDE DEF Q
  <2> QED BY <1>1, LeastNatural
<1>3. q \in p..Len(s) /\ s[q] = "]" /\ \A r \in p..(q - 1) : s[r] # "]"
  BY <1>2
<1>4. \E x \in p..Len(s) : s[x] = "]" /\ \A r \in p..(x - 1) : s[r] # "]"
  BY <1>3
<1> QED BY <1>4 DEF Close

\* What the loop makes of pattern from p on only depends on what it makes of it further on.
LEMMA GoesAhead ==
    ASSUME NEW str, Len(str) \in Nat, NEW s \in Seq(Glyph), Closed(s),
           NEW i \in 1..(Len(str) + 1), NEW p \in 1..(Len(s) + 1), NEW v, NEW w,
           \A j \in 1..(Len(str) + 1), q \in (p + 1)..(Len(s) + 1) : v[<<j, q>>] = w[<<j, q>>]
    PROVE  Goes(str, s, v, i, p) = Goes(str, s, w, i, p)
<1>1. CASE i > Len(str) \/ p > Len(s)
  BY <1>1 DEF Goes
<1>2. CASE i <= Len(str) /\ p <= Len(s)
  <2>0. Len(s) \in Nat /\ p \in 1..Len(s) /\ p + 1 \in (p + 1)..(Len(s) + 1)
    BY <1>2
  <2>1. CASE s[p] = "*"
    <3>1. \A j \in i..Len(str) : v[<<j, p + 1>>] = w[<<j, p + 1>>]
      BY <2>0, <1>2
    <3> QED BY <1>2, <2>0, <2>1, <3>1 DEF Goes
  <2>2. CASE s[p] = "["
    <3>1. Close(s, p) \in p..Len(s)
      BY <2>0, <2>2, CloseFound
    <3>2. v[<<i + 1, Close(s, p) + 1>>] = w[<<i + 1, Close(s, p) + 1>>]
      BY <1>2, <2>0, <3>1
    <3> QED BY <1>2, <2>0, <2>2, <3>2 DEF Goes
  <2>3. CASE s[p] # "*" /\ s[p] # "["
    <3>1. v[<<i + 1, p + 1>>] = w[<<i + 1, p + 1>>]
      BY <1>2, <2>0
    <3> QED BY <1>2, <2>0, <2>3, <3>1 DEF Goes
  <2> QED BY <2>1, <2>2, <2>3
<1> QED BY <1>1, <1>2

\* strglob() is what the recursion that Goes describes makes of the two strings.
LEMMA StrglobWalk ==
    ASSUME NEW str, Len(str) \in Nat, NEW s \in Seq(Glyph), Closed(s)
    PROVE  \E w : /\ \A i \in 1..(Len(str) + 1), p \in 1..(Len(s) + 1) :
                         w[<<i, p>>] = Goes(str, s, w, i, p)
                  /\ strglob(str, s) = (Everything(s, 1) \/ w[<<1, 1>>])
<1> DEFINE I == 1..(Len(str) + 1)
           J == 1..(Len(s) + 1)
           Walks(w, k) == \A i \in I, p \in J : p + k >= Len(s) + 2 => w[<<i, p>>] = Goes(str, s, w, i, p)
           P == {k \in Nat : \E w : Walks(w, k)}
<1>0. Len(s) \in Nat
  OBVIOUS
<1>1. 0 \in P
  BY <1>0
<1>2. ASSUME NEW k \in Nat, k \in P PROVE k + 1 \in P
  <2>1. PICK w : Walks(w, k)
    BY <1>2
  <2> DEFINE v == [d \in I \X J |-> IF d[2] + k + 1 = Len(s) + 2 THEN Goes(str, s, w, d[1], d[2]) ELSE w[d]]
  <2>2. \A i \in I, p \in J : v[<<i, p>>] = IF p + k + 1 = Len(s) + 2 THEN Goes(str, s, w, i, p) ELSE w[<<i, p>>]
    OBVIOUS
  <2> HIDE DEF v
  <2>3. ASSUME NEW i \in I, NEW p \in J, p + (k + 1) >= Len(s) + 2
        PROVE  v[<<i, p>>] = Goes(str, s, v, i, p)
    <3>1. \A j \in I, q \in (p + 1)..(Len(s) + 1) : v[<<j, q>>] = w[<<j, q>>]
      <4> SUFFICES ASSUME NEW j \in I, NEW q \in (p + 1)..(Len(s) + 1) PROVE v[<<j, q>>] = w[<<j, q>>]
        OBVIOUS
      <4>1. q \in J /\ q + k + 1 # Len(s) + 2
        BY <1>0, <2>3
      <4> QED BY <2>2, <4>1
    <3>2. Goes(str, s, v, i, p) = Goes(str, s, w, i, p)
      BY <3>1, GoesAhead
    <3>3. CASE p + k + 1 = Len(s) + 2
      BY <2>2, <3>2, <3>3
    <3>4. CASE p + k + 1 # Len(s) + 2
      <4>1. p + k >= Len(s) + 2
        BY <1>0, <2>3, <3>4
      <4> QED BY <2>1, <2>2, <3>2, <3>4, <4>1
    <3> QED BY <3>3, <3>4
  <2>4. Walks(v, k + 1)
    BY <2>3
  <2> HIDE DEF Walks
  <2> QED BY <2>4
<1> HIDE DEF P
<1>3. \A k \in Nat : k \in P
  BY <1>1, <1>2, NatSetInduction
<1>4. PICK w : \A i \in I, p \in J : w[<<i, p>>] = Goes(str, s, w, i, p)
  <2>1. Len(s) + 1 \in P
    BY <1>0, <1>3
  <2>2. PICK w : Walks(w, Len(s) + 1)
    BY <2>1 DEF P
  <2>3. \A p \in J : p + (Len(s) + 1) >= Len(s) + 2
    BY <1>0
  <2> QED BY <2>2, <2>3
<1> DEFINE IsWalk(v) == v = [ip \in I \X J |-> Goes(str, s, v, ip[1], ip[2])]
<1>5. IsWalk([ip \in I \X J |-> w[ip]])
  <2> DEFINE v == [ip \in I \X J |-> w[ip]]
  <2>1. \A i \in I, p \in J : v[<<i, p>>] = w[<<i, p>>]
    OBVIOUS
  <2>a. v = [ip \in I \X J |-> v[ip]]
    OBVIOUS
  <2> HIDE DEF v
  <2>2. ASSUME NEW i \in I, NEW p \in J PROVE v[<<i, p>>] = Goes(str, s, v, i, p)
    <3>1. \A j \in I, q \in (p + 1)..(Len(s) + 1) : v[<<j, q>>] = w[<<j, q>>]
      <4>1. \A q \in (p + 1)..(Len(s) + 1) : q \in J
        BY <1>0
      <4> QED BY <2>1, <4>1
    <3>2. Goes(str, s, v, i, p) = Goes(str, s, w, i, p)
      BY <3>1, GoesAhead
    <3> QED BY <1>4, <2>1, <3>2
  <2>3. \A ip \in I \X J : v[ip] = Goes(str, s, v, ip[1], ip[2])
    BY <2>2
  <2>4. IsWalk(v)
    BY <2>a, <2>3
  <2> QED BY <2>4 DEF v
<1> DEFINE Walk == CHOOSE v : IsWalk(v)
<1>6. IsWalk(Walk)
  <2> HIDE DEF IsWalk
  <2> QED BY <1>5
<1>7. strglob(str, s) = (Everything(s, 1) \/ Walk[<<1, 1>>])
  BY DEF strglob
<1> HIDE DEF Walk
<1>8. \A i \in I, p \in J : Walk[<<i, p>>] = Goes(str, s, Walk, i, p)
  <2> DEFINE e(ip) == Goes(str, s, Walk, ip[1], ip[2])
  <2>1. Walk = [ip \in I \X J |-> e(ip)]
    BY <1>6
  <2> HIDE DEF e
  <2>2. \A ip \in I \X J : Walk[ip] = e(ip)
    BY <2>1
  <2>3. \A i \in I, p \in J : Walk[<<i, p>>] = e(<<i, p>>)
    BY <2>2
  <2> QED BY <2>3 DEF e
<1> QED BY <1>7, <1>8

-----------------------------------------------------------------------------
(* What a glob means, from a token and a place of the string on. *)

Text == Chars \cup {NL}

CutFrom(str, toks, i, t) ==
    \E cut \in [t..Len(toks) -> 0..Len(str)] :
        /\ cut[t] = i - 1 /\ cut[Len(toks)] = Len(str)
        /\ \A u \in (t + 1)..Len(toks) : cut[u - 1] <= cut[u]
               /\ Stands(toks[u], SubSeq(str, cut[u - 1] + 1, cut[u]))

\* A match is a cut of the whole string for the whole glob.
LEMMA CutAll ==
    ASSUME NEW str, NEW toks
    PROVE  Matches(str, toks) <=> CutFrom(str, toks, 1, 0)
BY DEF Matches, CutFrom

\* No token is left: then nothing of the string may be.
LEMMA CutEnd ==
    ASSUME NEW str \in Seq(Text), NEW toks \in Seq(Tokens), NEW i \in 1..(Len(str) + 1)
    PROVE  CutFrom(str, toks, i, Len(toks)) <=> i = Len(str) + 1
<1>1. Len(str) \in Nat /\ Len(toks) \in Nat
  OBVIOUS
<1>2. ASSUME CutFrom(str, toks, i, Len(toks)) PROVE i = Len(str) + 1
  BY <1>1, <1>2 DEF CutFrom
<1>3. ASSUME i = Len(str) + 1 PROVE CutFrom(str, toks, i, Len(toks))
  <2> DEFINE cut == [u \in Len(toks)..Len(toks) |-> Len(str)]
  <2>1. cut \in [Len(toks)..Len(toks) -> 0..Len(str)] /\ cut[Len(toks)] = Len(str)
    BY <1>1
  <2>2. (Len(toks) + 1)..Len(toks) = {}
    BY <1>1
  <2>3. i - 1 = Len(str)
    BY <1>1, <1>3
  <2> HIDE DEF cut
  <2> QED BY <2>1, <2>2, <2>3 DEF CutFrom
<1> QED BY <1>2, <1>3

\* A cut for the tokens behind t is a piece for the next one and a cut for the rest.
LEMMA CutStep ==
    ASSUME NEW str \in Seq(Text), NEW toks \in Seq(Tokens),
           NEW i \in 1..(Len(str) + 1), NEW t \in 0..(Len(toks) - 1)
    PROVE  CutFrom(str, toks, i, t) <=>
               \E j \in i..(Len(str) + 1) : /\ Stands(toks[t + 1], SubSeq(str, i, j - 1))
                                            /\ CutFrom(str, toks, j, t + 1)
<1> DEFINE N == Len(str)
           T == Len(toks)
           Piece(cut, u) == cut[u - 1] <= cut[u] /\ Stands(toks[u], SubSeq(str, cut[u - 1] + 1, cut[u]))
<1>1. N \in Nat /\ T \in Nat /\ t \in 0..T /\ t + 1 \in t..T /\ T \in (t + 1)..T
  OBVIOUS
<1>2. ASSUME CutFrom(str, toks, i, t)
      PROVE  \E j \in i..(N + 1) : Stands(toks[t + 1], SubSeq(str, i, j - 1)) /\ CutFrom(str, toks, j, t + 1)
  <2>1. PICK cut \in [t..T -> 0..N] :
            /\ cut[t] = i - 1 /\ cut[T] = N
            /\ \A u \in (t + 1)..T : Piece(cut, u)
    BY <1>2 DEF CutFrom
  <2> DEFINE j == cut[t + 1] + 1
             rest == [u \in (t + 1)..T |-> cut[u]]
  <2>2. cut[t] \in 0..N /\ cut[t + 1] \in 0..N /\ (t + 1) - 1 = t /\ t + 1 \in (t + 1)..T
    BY <1>1
  <2>3. cut[t] <= cut[t + 1] /\ Stands(toks[t + 1], SubSeq(str, cut[t] + 1, cut[t + 1]))
    BY <2>1, <2>2
  <2>4. j \in i..(N + 1) /\ cut[t] + 1 = i /\ cut[t + 1] = j - 1
    BY <1>1, <2>1, <2>2, <2>3
  <2>5. rest \in [(t + 1)..T -> 0..N] /\ rest[t + 1] = j - 1 /\ rest[T] = N
    BY <1>1, <2>1, <2>4
  <2>6. \A u \in (t + 2)..T : rest[u] = cut[u] /\ rest[u - 1] = cut[u - 1] /\ u \in (t + 1)..T
    BY <1>1
  <2> HIDE DEF rest, j
  <2>7. \A u \in ((t + 1) + 1)..T : Piece(rest, u)
    <3>1. (t + 1) + 1 = t + 2
      BY <1>1
    <3> QED BY <2>1, <2>6, <3>1
  <2>8. CutFrom(str, toks, j, t + 1)
    BY <2>5, <2>7 DEF CutFrom
  <2> QED BY <2>3, <2>4, <2>8
<1>3. ASSUME NEW j \in i..(N + 1), Stands(toks[t + 1], SubSeq(str, i, j - 1)), CutFrom(str, toks, j, t + 1)
      PROVE  CutFrom(str, toks, i, t)
  <2>1. PICK rest \in [(t + 1)..T -> 0..N] :
            /\ rest[t + 1] = j - 1 /\ rest[T] = N
            /\ \A u \in ((t + 1) + 1)..T : Piece(rest, u)
    BY <1>3 DEF CutFrom
  <2> DEFINE cut == [u \in t..T |-> IF u = t THEN i - 1 ELSE rest[u]]
  <2>2. cut \in [t..T -> 0..N]
    BY <1>1
  <2>3. cut[t] = i - 1 /\ cut[T] = N /\ cut[t + 1] = j - 1
    BY <1>1, <2>1
  <2>4. \A u \in ((t + 1) + 1)..T : cut[u] = rest[u] /\ cut[u - 1] = rest[u - 1]
    BY <1>1
  <2>5. i - 1 <= j - 1 /\ (i - 1) + 1 = i /\ (t + 1) - 1 = t
    BY <1>1, <1>3
  <2> HIDE DEF cut
  <2>6. ASSUME NEW u \in (t + 1)..T PROVE Piece(cut, u)
    <3>1. CASE u = t + 1
      BY <1>3, <2>3, <2>5, <3>1
    <3>2. CASE u # t + 1
      <4>1. u \in ((t + 1) + 1)..T
        BY <1>1, <3>2
      <4> QED BY <2>1, <2>4, <4>1
    <3> QED BY <3>1, <3>2
  <2> QED BY <2>2, <2>3, <2>6 DEF CutFrom
<1> QED BY <1>2, <1>3

-----------------------------------------------------------------------------
Star(token) == token = <<"*">>

\* What every token but a star asks of the one character that it stands for.
OneFits(token, c) ==
    \/ token = <<"?">>
    \/ token = <<c>>
    \/ SetToken(token) /\ \E r \in 2..(Len(token) - 1) : token[r] = c

\* A token of another length than 1 is no single character.
LEMMA NotOne ==
    ASSUME NEW token, Len(token) \in Nat, Len(token) # 1
    PROVE  \A c : token # <<c>>
<1> SUFFICES ASSUME NEW c, token = <<c>> PROVE FALSE
  OBVIOUS
<1>1. Len(<<c>>) = 1
  OBVIOUS
<1> QED BY <1>1, Zenon

\* Nor is a set, with its brackets.
LEMMA ThreeIsNotOne == ASSUME NEW k \in Nat, k >= 3 PROVE k # 1
OBVIOUS

\* A token that is not a star stands for one character.
LEMMA StandsOne ==
    ASSUME NEW token \in Tokens, ~Star(token), NEW piece \in Seq(Text)
    PROVE  Stands(token, piece) <=> Len(piece) = 1 /\ OneFits(token, piece[1])
<1>0. Len(piece) = 1 => piece = <<piece[1]>> /\ piece[1] \in Text
  OBVIOUS
<1>1. CASE token = <<"?">>
  <2>1. token[1] = "?"
    BY <1>1
  <2>2. Stands(token, piece) <=> Len(piece) = 1
    BY <1>1, <2>1, AliasesAssumption DEF Stands, Star
  <2>3. OneFits(token, piece[1])
    BY <1>1 DEF OneFits
  <2> QED BY <2>2, <2>3
<1>2. ASSUME NEW c \in Chars, token = <<c>>
      PROVE  Stands(token, piece) <=> Len(piece) = 1 /\ OneFits(token, piece[1])
  <2>1. token # <<"?">> /\ Len(token) = 1 /\ token[1] = c /\ c # "["
    BY <1>2, AliasesAssumption
  <2>2. ~SetToken(token)
    BY <2>1 DEF SetToken
  <2>3. Stands(token, piece) <=> piece = token
    BY <2>1, Zenon DEF Stands, Star
  <2> QED BY <1>0, <1>2, <2>1, <2>2, <2>3 DEF OneFits
<1>3. CASE SetToken(token)
  <2>1. Len(token) >= 3 /\ Len(token) \in Nat /\ token[1] = "["
    BY <1>3 DEF SetToken
  <2>a. Len(token) # 1
    BY <2>1, ThreeIsNotOne, Zenon
  <2>2. \A c : token # <<c>>
    BY <2>1, <2>a, NotOne
  <2>3. Stands(token, piece) <=> Len(piece) = 1 /\ piece[1] \in ToSet(token) \ {"[", "]"}
    <3>1. token # <<"?">> /\ token[1] \notin Chars
      BY <2>1, <2>2, AliasesAssumption
    <3> QED BY <2>1, <3>1, Zenon DEF Stands, Star
  <2>4. DOMAIN token = 1..Len(token)
    BY <1>3 DEF SetToken
  <2>5. ASSUME NEW c \in Text
        PROVE  c \in ToSet(token) \ {"[", "]"} <=> \E r \in 2..(Len(token) - 1) : token[r] = c
    <3>1. ASSUME NEW r \in 1..Len(token), token[r] = c, c \notin {"[", "]"} PROVE r \in 2..(Len(token) - 1)
      BY <1>3, <2>1, <3>1 DEF SetToken
    <3>2. ASSUME NEW r \in 2..(Len(token) - 1), token[r] = c PROVE r \in 1..Len(token) /\ c \notin {"[", "]"}
      BY <1>3, <2>1, <3>2, AliasesAssumption DEF SetToken
    <3> QED BY <2>4, <3>1, <3>2 DEF ToSet
  <2> QED BY <1>0, <1>3, <2>2, <2>3, <2>5 DEF OneFits
<1> QED BY <1>1, <1>2, <1>3, TokenShape DEF Star

\* token is what s has at p.
Placed(token, s, p) ==
    /\ p \in 1..Len(s) /\ p + Len(token) - 1 <= Len(s)
    /\ \A k \in 1..Len(token) : s[p + k - 1] = token[k]

\* What the loop makes of such a token: it takes one character, or it gives up.
LEMMA GoesOne ==
    ASSUME NEW str \in Seq(Text), NEW s \in Seq(Glyph), Closed(s), NEW w,
           NEW token \in Tokens, ~Star(token), NEW p, Placed(token, s, p),
           NEW i \in 1..Len(str), w[<<i + 1, p + Len(token)>>] \in BOOLEAN
    PROVE  Goes(str, s, w, i, p) <=> OneFits(token, str[i]) /\ w[<<i + 1, p + Len(token)>>]
<1>0. Len(str) \in Nat /\ Len(s) \in Nat /\ p \in 1..Len(s) /\ ~(i > Len(str) \/ p > Len(s)) /\ str[i] \in Text
  BY DEF Placed
<1>a. Len(token) \in Nat \ {0}
  BY TokenType
<1>b. s[p] = token[1]
  BY <1>0, <1>a DEF Placed
<1>1. CASE token = <<"?">>
  <2>1. s[p] = "?" /\ Len(token) = 1
    BY <1>b, <1>1
  <2> QED BY <1>0, <1>1, <2>1 DEF Goes, OneFits
<1>2. ASSUME NEW c \in Chars, token = <<c>>
      PROVE  Goes(str, s, w, i, p) <=> OneFits(token, str[i]) /\ w[<<i + 1, p + Len(token)>>]
  <2>1. s[p] = c /\ Len(token) = 1
    BY <1>b, <1>2
  <2>2. c \notin {"*", "[", "?"}
    BY AliasesAssumption
  <2>3. ~SetToken(token)
    BY <2>1 DEF SetToken
  <2>4. OneFits(token, str[i]) <=> c = str[i]
    BY <1>2, <2>2, <2>3 DEF OneFits
  <2>5. Goes(str, s, w, i, p) <=> c = str[i] /\ w[<<i + 1, p + 1>>]
    BY <1>0, <2>1, <2>2 DEF Goes
  <2> QED BY <2>1, <2>4, <2>5
<1>3. CASE SetToken(token)
  <2>1. Len(token) >= 3 /\ s[p] = "["
    BY <1>3, <1>b DEF SetToken
  <2> DEFINE q == Close(s, p)
             e == p + Len(token) - 1
  <2>2. q \in p..Len(s) /\ s[q] = "]" /\ \A r \in p..(q - 1) : s[r] # "]"
    BY <1>0, <2>1, CloseFound
  <2>3. e \in p..Len(s) /\ s[e] = "]" /\ \A r \in (p + 1)..(e - 1) : s[r] \in Chars /\ s[r] = token[r - p + 1]
    <3>1. token[Len(token)] = "]" /\ \A k \in 2..(Len(token) - 1) : token[k] \in Chars
      BY <1>3 DEF SetToken
    <3>2. \A r \in p..e : s[r] = token[r - p + 1]
      <4>1. \A r \in p..e : r - p + 1 \in 1..Len(token) /\ p + (r - p + 1) - 1 = r
        BY <1>0, <1>a
      <4> QED BY <4>1 DEF Placed
    <3>3. e \in p..Len(s) /\ e - p + 1 = Len(token) /\ \A r \in (p + 1)..(e - 1) : r - p + 1 \in 2..(Len(token) - 1) /\ r \in p..e
      BY <1>0, <1>a, <2>1 DEF Placed
    <3>4. e \in p..e
      BY <1>0, <1>a
    <3> QED BY <3>1, <3>2, <3>3, <3>4
  <2>4. "]" \notin Chars
    BY AliasesAssumption
  <2>5. q = e
    <3> HIDE DEF q, e
    <3>1. ~(q < e)
      <4>1. q = p => FALSE
        BY <2>1, <2>2
      <4> QED BY <1>0, <2>2, <2>3, <2>4, <4>1
    <3>2. ~(e < q)
      BY <1>0, <2>2, <2>3
    <3> QED BY <1>0, <2>2, <2>3, <3>1, <3>2
  <2>6. q + 1 = p + Len(token)
    BY <1>0, <1>a, <2>5
  <2>7. (\E r \in (p + 1)..(q - 1) : s[r] = str[i]) <=> \E k \in 2..(Len(token) - 1) : token[k] = str[i]
    <3>1. ASSUME NEW r \in (p + 1)..(e - 1), s[r] = str[i] PROVE \E k \in 2..(Len(token) - 1) : token[k] = str[i]
      <4>1. r - p + 1 \in 2..(Len(token) - 1)
        BY <1>0, <1>a
      <4> QED BY <2>3, <3>1, <4>1
    <3>2. ASSUME NEW k \in 2..(Len(token) - 1), token[k] = str[i] PROVE \E r \in (p + 1)..(e - 1) : s[r] = str[i]
      <4>1. p + k - 1 \in (p + 1)..(e - 1) /\ k \in 1..Len(token)
        BY <1>0, <1>a
      <4>2. s[p + k - 1] = token[k]
        BY <4>1 DEF Placed
      <4> QED BY <3>2, <4>1, <4>2
    <3> QED BY <2>5, <3>1, <3>2
  <2>8. OneFits(token, str[i]) <=> \E k \in 2..(Len(token) - 1) : token[k] = str[i]
    <3>1. \A c : token # <<c>>
      <4>1. Len(token) \in Nat /\ Len(token) # 1
        <5>1. Len(token) \in Nat
          BY <1>a
        <5> QED BY <2>1, <5>1, ThreeIsNotOne, Zenon
      <4> QED BY <4>1, NotOne
    <3> QED BY <1>3, <3>1 DEF OneFits
  <2>9. Goes(str, s, w, i, p) <=> (\E r \in (p + 1)..(q - 1) : s[r] = str[i]) /\ w[<<i + 1, q + 1>>]
    BY <1>0, <2>1 DEF Goes
  <2> QED BY <2>6, <2>7, <2>8, <2>9
<1> QED BY <1>1, <1>2, <1>3, TokenShape DEF Star

\* Where the tokens of a glob are in it.
Pos(toks, t) == Len(First(toks, t))

\* Where the tokens are in the glob.
LEMMA Positions ==
    ASSUME NEW toks \in Seq(Tokens)
    PROVE  /\ Pos(toks, 0) = 0 /\ Pos(toks, Len(toks)) = Len(FlattenSeq(toks))
           /\ \A t \in 0..Len(toks) : Pos(toks, t) \in 0..Len(FlattenSeq(toks))
           /\ \A t \in 1..Len(toks) : /\ Pos(toks, t) = Pos(toks, t - 1) + Len(toks[t])
                                      /\ Placed(toks[t], FlattenSeq(toks), Pos(toks, t - 1) + 1)
<1> DEFINE s == FlattenSeq(toks)
<1>0. toks \in Seq(Seq(Glyph)) /\ Len(toks) \in Nat
  <2>1. Tokens \subseteq Seq(Glyph)
    BY TokenType
  <2> QED BY <2>1, SeqMonotonic
<1>1. s \in Seq(Glyph) /\ Len(s) \in Nat
  BY GlobType
<1>2. First(toks, 0) = <<>> /\ First(toks, Len(toks)) = s
  BY FirstZero, FirstAll
<1>3. ASSUME NEW t \in 0..Len(toks)
      PROVE  /\ First(toks, t) \in Seq(Glyph) /\ Len(First(toks, t)) <= Len(s)
             /\ \A k \in 1..Len(First(toks, t)) : First(toks, t)[k] = s[k]
  <2>1. First(toks, t) \in Seq(Glyph)
    BY <1>0, FirstType
  <2>2. IsPrefix(First(toks, t), s)
    BY <1>0, FirstIsPrefix
  <2> QED BY <1>1, <2>1, <2>2, PrefixAt
<1>4. ASSUME NEW t \in 1..Len(toks)
      PROVE  /\ Pos(toks, t) = Pos(toks, t - 1) + Len(toks[t])
             /\ Placed(toks[t], s, Pos(toks, t - 1) + 1)
  <2>1. t - 1 \in 0..Len(toks) /\ t \in 0..Len(toks) /\ toks[t] \in Tokens
    BY <1>0
  <2> DEFINE a == First(toks, t - 1)
             b == toks[t]
  <2>2. First(toks, t) = a \o b
    BY <1>0, FirstNext
  <2>3. b \in Seq(Glyph) /\ Len(b) \in Nat \ {0}
    BY <2>1, TokenType
  <2>4. a \in Seq(Glyph)
    BY <1>3, <2>1
  <2> HIDE DEF a, b
  <2>5. Len(a \o b) = Len(a) + Len(b) /\ Len(a) \in Nat /\ \A k \in 1..Len(b) : (a \o b)[Len(a) + k] = b[k]
    BY <2>3, <2>4
  <2>6. Len(a \o b) <= Len(s) /\ \A k \in 1..Len(a \o b) : (a \o b)[k] = s[k]
    BY <1>3, <2>1, <2>2
  <2> HIDE DEF s
  <2>7. \A k \in 1..Len(b) : Len(a) + k \in 1..Len(a \o b) /\ (Len(a) + 1) + k - 1 = Len(a) + k
    BY <2>3, <2>5
  <2>8. Len(a) + 1 \in 1..Len(s) /\ (Len(a) + 1) + Len(b) - 1 <= Len(s)
    BY <1>1, <2>3, <2>5, <2>6
  <2>9. Placed(b, s, Len(a) + 1)
    BY <2>5, <2>6, <2>7, <2>8 DEF Placed
  <2> QED BY <2>2, <2>5, <2>9 DEF Pos, a, b
<1>5. \A t \in 0..Len(toks) : Pos(toks, t) \in 0..Len(s)
  BY <1>1, <1>3 DEF Pos
<1> QED BY <1>2, <1>4, <1>5 DEF Pos

\* The pieces of a string.
LEMMA Pieces ==
    ASSUME NEW str \in Seq(Text), NEW i \in 1..(Len(str) + 1), NEW j \in i..(Len(str) + 1)
    PROVE  /\ SubSeq(str, i, j - 1) \in Seq(Text)
           /\ Len(SubSeq(str, i, j - 1)) = j - i
           /\ j = i + 1 => SubSeq(str, i, j - 1)[1] = str[i]
<1>1. \A k \in i..(j - 1) : str[k] \in Text
  OBVIOUS
<1>2. i \in Int /\ j - 1 \in Int
  OBVIOUS
<1>3. /\ SubSeq(str, i, j - 1) \in Seq(Text)
      /\ Len(SubSeq(str, i, j - 1)) = IF i <= j - 1 THEN j - 1 - i + 1 ELSE 0
      /\ \A k \in 1..(j - 1 - i + 1) : SubSeq(str, i, j - 1)[k] = str[i + k - 1]
  BY <1>1, <1>2, SubSeqProperties
<1> QED BY <1>2, <1>3

\* A token other than a star takes one character.
LEMMA CutOne ==
    ASSUME NEW str \in Seq(Text), NEW toks \in Seq(Tokens),
           NEW i \in 1..(Len(str) + 1), NEW t \in 0..(Len(toks) - 1), ~Star(toks[t + 1])
    PROVE  CutFrom(str, toks, i, t) <=>
               i <= Len(str) /\ OneFits(toks[t + 1], str[i]) /\ CutFrom(str, toks, i + 1, t + 1)
<1>0. Len(str) \in Nat /\ toks[t + 1] \in Tokens
  OBVIOUS
<1>1. ASSUME NEW j \in i..(Len(str) + 1)
      PROVE  Stands(toks[t + 1], SubSeq(str, i, j - 1)) <=> j = i + 1 /\ OneFits(toks[t + 1], str[i])
  <2>1. /\ SubSeq(str, i, j - 1) \in Seq(Text) /\ Len(SubSeq(str, i, j - 1)) = j - i
        /\ j = i + 1 => SubSeq(str, i, j - 1)[1] = str[i]
    BY Pieces
  <2>2. Stands(toks[t + 1], SubSeq(str, i, j - 1)) <=>
            Len(SubSeq(str, i, j - 1)) = 1 /\ OneFits(toks[t + 1], SubSeq(str, i, j - 1)[1])
    BY <1>0, <2>1, StandsOne
  <2>3. j - i = 1 <=> j = i + 1
    BY <1>0
  <2> QED BY <2>1, <2>2, <2>3
<1>2. i <= Len(str) <=> i + 1 \in i..(Len(str) + 1)
  BY <1>0
<1>3. CutFrom(str, toks, i, t) <=>
          \E j \in i..(Len(str) + 1) : Stands(toks[t + 1], SubSeq(str, i, j - 1)) /\ CutFrom(str, toks, j, t + 1)
  BY CutStep
<1> QED BY <1>1, <1>2, <1>3

\* One token further: if the recursion says what the tokens from t + 2 on mean, so it does
\* of those from t + 1 on.
LEMMA WalkStep ==
    ASSUME NEW str \in Seq(Text), NEW toks \in Seq(Tokens), ~TwoStars(toks),
           NEW s \in Seq(Glyph), s = FlattenSeq(toks), Closed(s), NEW w,
           \A i \in 1..(Len(str) + 1), p \in 1..(Len(s) + 1) :
               w[<<i, p>>] = Goes(str, s, w, i, p) /\ w[<<i, p>>] \in BOOLEAN,
           NEW t \in 0..(Len(toks) - 1),
           \A i \in 1..(Len(str) + 1) : w[<<i, Pos(toks, t + 1) + 1>>] <=> CutFrom(str, toks, i, t + 1)
    PROVE  \A i \in 1..(Len(str) + 1) : w[<<i, Pos(toks, t) + 1>>] <=> CutFrom(str, toks, i, t)
<1> DEFINE N == Len(str)
           p == Pos(toks, t) + 1
           e == Pos(toks, t + 1) + 1
           token == toks[t + 1]
<1>1. N \in Nat /\ Len(s) \in Nat /\ Len(toks) \in Nat /\ t + 1 \in 1..Len(toks) /\ (t + 1) - 1 = t
      /\ token \in Tokens /\ t + 1 \in 0..Len(toks) /\ t \in 0..Len(toks)
  <2>1. N \in Nat /\ Len(s) \in Nat /\ Len(toks) \in Nat
    OBVIOUS
  <2>2. t + 1 \in 1..Len(toks) /\ (t + 1) - 1 = t /\ t + 1 \in 0..Len(toks) /\ t \in 0..Len(toks)
    BY <2>1
  <2>3. token \in Tokens
    BY <2>2
  <2> QED BY <2>1, <2>2, <2>3
<1>2. /\ p \in 1..Len(s) /\ e \in 1..(Len(s) + 1) /\ e = p + Len(token) /\ Placed(token, s, p)
      /\ t + 1 = Len(toks) => e = Len(s) + 1
      /\ t + 1 # Len(toks) => e <= Len(s) /\ Placed(toks[t + 2], s, e)
  <2>1. /\ Pos(toks, t) \in 0..Len(s) /\ Pos(toks, t + 1) \in 0..Len(s)
        /\ Pos(toks, t + 1) = Pos(toks, t) + Len(token)
        /\ Placed(token, s, p) /\ Pos(toks, Len(toks)) = Len(s)
    BY <1>1, Positions
  <2>2. p \in 1..Len(s) /\ Len(token) \in Nat
    BY <1>1, <2>1, TokenType DEF Placed
  <2>3. ASSUME t + 1 # Len(toks) PROVE e <= Len(s) /\ Placed(toks[t + 2], s, e)
    <3>1. t + 2 \in 1..Len(toks) /\ (t + 2) - 1 = t + 1
      BY <1>1, <2>3
    <3>2. Placed(toks[t + 2], s, e)
      BY <3>1, Positions
    <3> QED BY <1>1, <3>2 DEF Placed
  <2>4. e = p + Len(token) /\ e \in 1..(Len(s) + 1)
    BY <1>1, <2>1, <2>2
  <2>5. ASSUME t + 1 = Len(toks) PROVE e = Len(s) + 1
    BY <2>1, <2>5
  <2> QED BY <2>1, <2>2, <2>3, <2>4, <2>5
<1>3. /\ \A i \in 1..(N + 1) : w[<<i, p>>] = Goes(str, s, w, i, p) /\ w[<<i, p>>] \in BOOLEAN
      /\ \A i \in 1..(N + 1) : w[<<i, e>>] \in BOOLEAN
  BY <1>1, <1>2
<1>4. \A i \in 1..(N + 1) : w[<<i, e>>] <=> CutFrom(str, toks, i, t + 1)
  OBVIOUS
<1>5. s[p] = token[1]
  <2>1. 1 \in 1..Len(token) /\ p + 1 - 1 = p
    BY <1>1, <1>2, TokenType
  <2> QED BY <1>2, <2>1 DEF Placed
<1>6. s[p] = "*" <=> Star(token)
  <2>1. ASSUME Star(token) PROVE s[p] = "*"
    BY <1>5, <2>1 DEF Star
  <2>2. ASSUME ~Star(token) PROVE s[p] # "*"
    BY <1>1, <1>5, <2>2, TokenShape, AliasesAssumption DEF Star, SetToken
  <2> QED BY <2>1, <2>2
<1> SUFFICES ASSUME NEW i \in 1..(N + 1) PROVE w[<<i, p>>] <=> CutFrom(str, toks, i, t)
  OBVIOUS
<1> HIDE DEF p, e, token, N
<1>7. CASE ~Star(token)
  <2>1. CutFrom(str, toks, i, t) <=> i <= N /\ OneFits(token, str[i]) /\ CutFrom(str, toks, i + 1, t + 1)
    BY <1>7, CutOne DEF N, token
  <2>2. CASE i <= N
    <3>1. i \in 1..Len(str) /\ i + 1 \in 1..(N + 1)
      BY <1>1, <2>2 DEF N
    <3>2. w[<<i + 1, p + Len(token)>>] \in BOOLEAN
      BY <1>2, <1>3, <3>1
    <3>3. Goes(str, s, w, i, p) <=> OneFits(token, str[i]) /\ w[<<i + 1, p + Len(token)>>]
      BY <1>1, <1>2, <1>7, <3>1, <3>2, GoesOne
    <3> QED BY <1>2, <1>3, <1>4, <2>1, <2>2, <3>1, <3>3
  <2>3. CASE i > N
    <3>1. Goes(str, s, w, i, p) <=> Everything(s, p)
      BY <2>3 DEF Goes, N
    <3>2. ~Everything(s, p)
      BY <1>1, <1>2, <1>6, <1>7 DEF Everything
    <3>3. ~(i <= N)
      BY <1>1, <2>3
    <3> QED BY <1>3, <2>1, <3>1, <3>2, <3>3
  <2> QED BY <1>1, <2>2, <2>3
<1>8. CASE Star(token)
  <2>1. Len(token) = 1 /\ e = p + 1 /\ s[p] = "*"
    BY <1>2, <1>6, <1>8 DEF Star
  <2>2. \A piece : Stands(token, piece)
    <3>1. token # <<"?">> /\ token[1] \notin Chars /\ token[1] # "["
      BY <1>8, AliasesAssumption DEF Star
    <3> QED BY <1>8, <3>1, Zenon DEF Stands, Star
  <2>3. CutFrom(str, toks, i, t) <=> \E j \in i..(N + 1) : CutFrom(str, toks, j, t + 1)
    BY <2>2, CutStep DEF N, token
  <2>4. CASE t + 1 = Len(toks)
    <3>1. e = Len(s) + 1 /\ p = Len(s)
      BY <1>1, <1>2, <2>1, <2>4
    <3>2. N + 1 \in 1..(N + 1) /\ N + 1 \in i..(N + 1)
      BY <1>1
    <3>3. CutFrom(str, toks, N + 1, t + 1)
      BY <2>4, <3>2, CutEnd DEF N
    <3>4. Everything(s, p) /\ Everything(s, p + 1)
      BY <1>1, <2>1, <3>1 DEF Everything
    <3>5. Goes(str, s, w, i, p)
      <4>1. CASE i > N
        BY <3>4, <4>1 DEF Goes, N
      <4>2. CASE i <= N
        <5>1. i \in i..N /\ ~(i > N) /\ ~(p > Len(s))
          BY <1>1, <1>2, <4>2
        <5> QED BY <2>1, <3>4, <5>1 DEF Goes, N
      <4> QED BY <1>1, <4>1, <4>2
    <3> QED BY <1>3, <2>3, <3>2, <3>3, <3>5
  <2>5. CASE t + 1 # Len(toks)
    <3>1. /\ e <= Len(s) /\ Placed(toks[t + 2], s, e) /\ t + 2 \in 1..Len(toks) /\ toks[t + 2] \in Tokens
          /\ t + 1 \in 0..(Len(toks) - 1) /\ (t + 1) + 1 = t + 2 /\ t + 1 \in 1..(Len(toks) - 1)
      BY <1>1, <1>2, <2>5
    <3>2. ~Star(toks[t + 2])
      BY <1>8, <3>1 DEF TwoStars, Star, token
    <3>3. s[e] # "*"
      <4>1. 1 \in 1..Len(toks[t + 2]) /\ e + 1 - 1 = e
        BY <1>2, <3>1, TokenType
      <4>2. s[e] = toks[t + 2][1]
        BY <3>1, <4>1 DEF Placed
      <4> QED BY <3>1, <3>2, <4>2, TokenShape, AliasesAssumption DEF Star, SetToken
    <3>4. ~Everything(s, e) /\ ~Everything(s, p)
      BY <1>1, <1>2, <2>1, <3>1, <3>3 DEF Everything
    <3>5. ~CutFrom(str, toks, N + 1, t + 1)
      <4>1. N + 1 \in 1..(Len(str) + 1) /\ ~(N + 1 <= Len(str))
        BY <1>1 DEF N
      <4> QED BY <3>1, <3>2, <4>1, CutOne
    <3>6. CASE i > N
      <4>1. i = N + 1
        BY <1>1, <3>6
      <4>2. ~Goes(str, s, w, i, p)
        BY <3>4, <3>6 DEF Goes, N
      <4>3. \A j \in i..(N + 1) : j = N + 1
        BY <1>1, <4>1
      <4> QED BY <1>3, <2>3, <3>5, <4>2, <4>3
    <3>7. CASE i <= N
      <4>1. ~(i > N) /\ ~(p > Len(s)) /\ p # Len(s)
        BY <1>1, <1>2, <2>1, <3>1, <3>7
      <4>2. Goes(str, s, w, i, p) <=> \E j \in i..N : w[<<j, e>>]
        BY <2>1, <3>4, <4>1 DEF Goes, N
      <4>3. \A j \in i..(N + 1) : j \in 1..(N + 1) /\ (j \in i..N \/ j = N + 1)
        BY <1>1
      <4>4. \A j \in i..N : j \in i..(N + 1)
        BY <1>1
      <4> QED BY <1>3, <1>4, <2>3, <3>5, <4>2, <4>3, <4>4
    <3> QED BY <1>1, <3>6, <3>7
  <2> QED BY <2>4, <2>5
<1> QED BY <1>7, <1>8

\* For every string and every glob without two stars in a row, strglob() says what the glob
\* means.
THEOREM StrglobMeans ==
    ASSUME NEW str \in Seq(Text), NEW toks \in Seq(Tokens), toks # <<>>, ~TwoStars(toks)
    PROVE  strglob(str, FlattenSeq(toks)) <=> Matches(str, toks)
<1> DEFINE s == FlattenSeq(toks)
           N == Len(str)
           T == Len(toks)
<1>0. N \in Nat /\ T \in Nat \ {0} /\ s \in Seq(Glyph) /\ Len(s) \in Nat /\ Closed(s)
  BY GlobType, GlobClosed
<1>1. PICK w : /\ \A i \in 1..(N + 1), p \in 1..(Len(s) + 1) : w[<<i, p>>] = Goes(str, s, w, i, p)
               /\ strglob(str, s) = (Everything(s, 1) \/ w[<<1, 1>>])
  BY <1>0, StrglobWalk
<1>2. \A i, p : Goes(str, s, w, i, p) \in BOOLEAN
  BY DEF Goes
<1>3. \A i \in 1..(N + 1), p \in 1..(Len(s) + 1) : w[<<i, p>>] = Goes(str, s, w, i, p) /\ w[<<i, p>>] \in BOOLEAN
  BY <1>1, <1>2
<1> HIDE DEF s
<1> DEFINE Says(t) == \A i \in 1..(N + 1) : w[<<i, Pos(toks, t) + 1>>] <=> CutFrom(str, toks, i, t)
           P == {k \in Nat : k <= T => Says(T - k)}
<1>4. 0 \in P
  <2>1. Pos(toks, T) = Len(s)
    BY Positions DEF s
  <2>2. ASSUME NEW i \in 1..(N + 1) PROVE w[<<i, Len(s) + 1>>] <=> CutFrom(str, toks, i, T)
    <3>1. Goes(str, s, w, i, Len(s) + 1) <=> i > N
      BY <1>0 DEF Goes, Everything
    <3>2. CutFrom(str, toks, i, T) <=> i = N + 1
      BY CutEnd
    <3>3. i > N <=> i = N + 1
      BY <1>0
    <3>4. Len(s) + 1 \in 1..(Len(s) + 1)
      BY <1>0
    <3> QED BY <1>3, <3>1, <3>2, <3>3, <3>4
  <2>3. T - 0 = T
    BY <1>0
  <2> QED BY <2>1, <2>2, <2>3
<1>5. ASSUME NEW k \in Nat, k \in P PROVE k + 1 \in P
  <2> SUFFICES ASSUME k + 1 <= T PROVE Says(T - (k + 1))
    OBVIOUS
  <2> DEFINE t == T - (k + 1)
  <2>1. t \in 0..(T - 1) /\ t + 1 = T - k /\ k <= T
    BY <1>0
  <2>2. Says(t + 1)
    BY <1>5, <2>1
  <2> HIDE DEF t
  <2>3. s = FlattenSeq(toks)
    BY DEF s
  <2>4. Says(t)
    BY <1>0, <1>3, <2>1, <2>2, <2>3, WalkStep
  <2> QED BY <2>4 DEF t
<1> HIDE DEF P
<1>6. \A k \in Nat : k \in P
  BY <1>4, <1>5, NatSetInduction
<1>7. w[<<1, 1>>] <=> CutFrom(str, toks, 1, 0)
  <2>1. Says(T - T)
    BY <1>0, <1>6 DEF P
  <2>2. T - T = 0 /\ Pos(toks, 0) + 1 = 1 /\ 1 \in 1..(N + 1)
    BY <1>0, Positions
  <2> QED BY <2>1, <2>2
<1>8. ASSUME Everything(s, 1) PROVE CutFrom(str, toks, 1, 0)
  <2>1. /\ Pos(toks, 0) = 0 /\ Pos(toks, 1) = Len(toks[1]) /\ Pos(toks, T) = Len(s)
        /\ Placed(toks[1], s, 1) /\ toks[1] \in Tokens
    <3>1. 1 \in 1..T /\ 1 - 1 = 0 /\ toks[1] \in Tokens
      BY <1>0
    <3>2. Pos(toks, 0) = 0 /\ Pos(toks, T) = Len(s)
      BY Positions DEF s
    <3>3. Pos(toks, 1) = Pos(toks, 0) + Len(toks[1]) /\ Placed(toks[1], s, Pos(toks, 0) + 1)
      BY <3>1, Positions DEF s
    <3>4. Len(toks[1]) \in Nat
      BY <3>1, TokenType
    <3> QED BY <3>1, <3>2, <3>3, <3>4
  <2>2. Len(s) >= 1
    BY <1>0, <2>1 DEF Placed
  <2>3. Len(s) = 1 /\ s[1] = "*"
    BY <1>0, <1>8, <2>2 DEF Everything
  <2>4. w[<<1, 1>>]
    <3>1. Goes(str, s, w, 1, 1)
      <4>1. CASE 1 > N
        BY <1>8, <4>1 DEF Goes
      <4>2. CASE ~(1 > N)
        <5>1. Everything(s, 2) /\ 1 \in 1..N /\ ~(1 > Len(s)) /\ 1 + 1 = 2
          BY <1>0, <2>3, <4>2 DEF Everything
        <5> QED BY <2>3, <4>2, <5>1 DEF Goes
      <4> QED BY <4>1, <4>2
    <3>2. 1 \in 1..(N + 1) /\ 1 \in 1..(Len(s) + 1)
      BY <1>0
    <3> QED BY <1>3, <3>1, <3>2
  <2> QED BY <1>7, <2>4
<1>9. strglob(str, FlattenSeq(toks)) <=> Everything(s, 1) \/ w[<<1, 1>>]
  BY <1>1 DEF s
<1> QED BY <1>7, <1>8, <1>9, CutAll

-----------------------------------------------------------------------------
\* The string that strglob() is given is the line, and then what the stack has.
LEMMA StringOf ==
    ASSUME NEW b \in Seq(Char), Last(b) = NUL, Len(b) > 0,
           NEW a \in Seq(Chars \cup {NL}), IsPrefix(a, b)
    PROVE  /\ String(b) \in Seq(Chars \cup {NL})
           /\ IsPrefix(a, String(b))
<1> DEFINE I == {i \in 1..Len(b) : b[i] = NUL}
           m == CHOOSE x \in I : \A y \in I : x <= y
<1>1. Len(b) \in I
  BY DEF Last
<1>2. \E x \in I : \A y \in I : x <= y
  <2>1. I \in SUBSET Nat /\ I # {}
    BY <1>1
  <2> HIDE DEF I
  <2> QED BY <2>1, LeastNatural
<1>3. m \in I /\ \A y \in I : m <= y
  <2> HIDE DEF I
  <2> QED BY <1>2
<1>4. String(b) = SubSeq(b, 1, m - 1)
  <2>1. I # {}
    BY <1>1
  <2> QED BY <2>1 DEF String, SelectInSeq, Min
<1> HIDE DEF m
<1>5. \A i \in 1..(m - 1) : b[i] # NUL
  BY <1>3
<1>6. NUL \notin Chars \cup {NL}
  BY AliasesAssumption DEF NL, NUL
<1>7. Len(a) <= Len(b) /\ \A i \in 1..Len(a) : b[i] = a[i]
  <2>1. a \in Seq(Char)
    BY SeqMonotonic DEF Char
  <2> QED BY <2>1, PrefixAt
<1>8. \A i \in 1..(m - 1) : b[i] \in Chars \cup {NL}
  BY <1>3, <1>5 DEF Char
<1>9. Len(a) <= m - 1
  BY <1>3, <1>6, <1>7
<1>10. m - 1 \in Nat /\ m - 1 <= Len(b)
  BY <1>3
<1>11. String(b) \in Seq(Chars \cup {NL}) /\ Len(String(b)) = m - 1 /\ \A i \in 1..(m - 1) : String(b)[i] = b[i]
  BY <1>4, <1>8, <1>10, SubSeqProperties
<1> QED BY <1>7, <1>9, <1>11, PrefixAt

\* What a line is, and what copying it into the array leaves.
LEMMA Copying ==
    ASSUME TypeOK, NEW a \in Seq(Chars), Len(alias) >= SizeOf, Last(alias) = NUL,
           Len(a) + 1 < SizeOf
    PROVE  /\ a \o <<NL>> \in Seq(Chars \cup {NL}) /\ Len(a \o <<NL>>) = Len(a) + 1
           /\ Copied(a \o <<NL>>) \in Seq(Char) /\ Len(Copied(a \o <<NL>>)) = Len(alias)
           /\ Last(Copied(a \o <<NL>>)) = NUL
           /\ IsPrefix(a \o <<NL>>, Copied(a \o <<NL>>))
           /\ SubSeq(Copied(a \o <<NL>>), 1, Len(a) + 1) = Append(a, NL)
<1> DEFINE l == a \o <<NL>>
           c == Copied(l)
           k == Len(alias)
<1>1. l \in Seq(Chars \cup {NL}) /\ Len(l) = Len(a) + 1 /\ l = Append(a, NL)
  OBVIOUS
<1>2. alias \in Seq(Char) /\ SizeOf \in Nat /\ k \in Nat /\ DOMAIN alias = 1..k
  BY AliasesAssumption DEF TypeOK, Char
<1>3. \A i \in 1..Len(l) : l[i] \in Char
  BY <1>1 DEF Char
<1> SUFFICES /\ c \in Seq(Char) /\ Len(c) = k /\ Last(c) = NUL
             /\ IsPrefix(l, c) /\ SubSeq(c, 1, Len(l)) = l
  BY <1>1
<1>4. c = [i \in 1..k |-> IF i <= Len(l) THEN l[i] ELSE alias[i]]
  BY <1>2 DEF Copied
<1>5. Len(l) \in Nat /\ Len(l) < k
  BY <1>1, <1>2
<1>6. alias[k] = NUL /\ \A i \in 1..k : alias[i] \in Char
  BY <1>2 DEF Last
<1> HIDE DEF c, l, k
<1>7. c \in Seq(Char) /\ Len(c) = k /\ c[k] = NUL /\ \A i \in 1..Len(l) : c[i] = l[i]
  <2>1. \A i \in 1..k : c[i] \in Char
    BY <1>2, <1>3, <1>4, <1>5, <1>6
  <2>2. c \in [1..k -> Char]
    BY <1>4, <2>1
  <2>3. c \in Seq(Char) /\ Len(c) = k
    BY <1>2, <2>2
  <2> QED BY <1>2, <1>4, <1>5, <1>6, <2>3
<1>8. IsPrefix(l, c)
  <2>1. l \in Seq(Char)
    BY <1>1, SeqMonotonic DEF Char
  <2> QED BY <1>5, <1>7, <2>1, PrefixAt
<1>9. SubSeq(c, 1, Len(l)) = l
  BY <1>1, <1>5, <1>7, <1>8, SubSeqFull DEF IsPrefix
<1> QED BY <1>7, <1>8, <1>9 DEF Last

-----------------------------------------------------------------------------
\* The array, and what is behind it, end a string; what was written are lines.
IInv ==
    /\ TypeOK
    /\ Len(alias) >= SizeOf /\ Last(alias) = NUL
    /\ WrittenIsStored

\* What TryLine leaves of a line that fits in the buffer.
LEMMA TryLineSteps ==
    ASSUME IInv, TryLine
    PROVE  /\ n \in DOMAIN listing /\ listing[n] \in Seq(Chars) /\ Len(listing[n]) + 1 < SizeOf
           /\ g \in DOMAIN globs
           /\ Len(alias') >= SizeOf /\ Last(alias') = NUL /\ alias' \in Seq(Char)
           /\ IsPrefix(Append(listing[n], NL), alias')
           /\ matched' = strglob(String(alias'), FlattenSeq(globs[g]))
           /\ out' = IF matched' THEN Append(out, Append(listing[n], NL)) ELSE out
           /\ n' = n + 1
           /\ UNCHANGED <<listing, globs, g>>
<1>1. listing \in Seq(Seq(Chars) \ {<<>>}) /\ n \in 1..Len(listing)
  BY AliasesAssumption DEF IInv, TypeOK, TryLine
<1>2. globs \in Seq(Seq(Tokens) \ {<<>>}) /\ g \in 1..Len(globs)
  BY AliasesAssumption DEF IInv, TypeOK, TryLine
<1>3. listing[n] \in Seq(Chars) /\ n \in DOMAIN listing /\ g \in DOMAIN globs
  BY <1>1, <1>2
<1>4. Len(listing[n]) + 1 < SizeOf
  BY <1>3 DEF TryLine, Line
<1>5. /\ Line = Append(listing[n], NL) /\ Len(Line) = Len(listing[n]) + 1
      /\ Copied(Line) \in Seq(Char) /\ Len(Copied(Line)) = Len(alias)
      /\ Last(Copied(Line)) = NUL /\ IsPrefix(Line, Copied(Line))
      /\ SubSeq(Copied(Line), 1, Len(listing[n]) + 1) = Append(listing[n], NL)
  BY <1>3, <1>4, Copying DEF Line, IInv
<1> QED BY <1>3, <1>4, <1>5 DEF TryLine, IInv, Glob

\* The globs, the answer and the buffer: what every state has of them.
THEOREM AliasesInvariant == Spec => []IInv
<1>1. Init => IInv
  <2> SUFFICES ASSUME Init PROVE IInv
    OBVIOUS
  <2>1. alias \in Seq(Chars \cup {NL, NUL}) /\ Len(alias) >= SizeOf /\ Last(alias) = NUL
    BY AliasesAssumption DEF Init
  <2>a. Len(globs) \in Nat /\ Len(listing) \in Nat
    BY AliasesAssumption DEF Init
  <2>c. g \in 1..(Len(globs) + 1) /\ n \in 1..(Len(listing) + 1)
    BY <2>a DEF Init
  <2>d. out \in Seq(Seq(Chars \cup {NL, NUL}))
    BY EmptySeq DEF Init
  <2>b. TypeOK
    BY <2>1, <2>c, <2>d DEF Init, TypeOK
  <2>2. WrittenIsStored
    BY DEF Init, WrittenIsStored
  <2> QED BY <2>1, <2>b, <2>2 DEF IInv
<1>2. IInv /\ [Next]_vars => IInv'
  <2> SUFFICES ASSUME IInv, [Next]_vars PROVE IInv'
    OBVIOUS
  <2>1. CASE TryLine
    <3>1. matched' \in BOOLEAN
      BY <2>1 DEF TryLine, strglob
    <3> DEFINE l == Append(listing[n], NL)
    <3> HIDE DEF l
    <3>a. l \in Seq(Char) /\ listing[n] \in ToSet(listing)
      <4>1. listing[n] \in Seq(Chars) /\ n \in DOMAIN listing
        BY <2>1, TryLineSteps
      <4> QED BY <4>1 DEF Char, ToSet, l
    <3>b. out' = Append(out, l) \/ out' = out
      BY <2>1, TryLineSteps DEF l
    <3>c. out \in Seq(Seq(Char))
      BY DEF IInv, TypeOK, Char
    <3>2. out' \in Seq(Seq(Char))
      BY <3>a, <3>b, <3>c, AppendOrNot
    <3>3. TypeOK'
      BY <2>1, <3>1, <3>2, TryLineSteps DEF IInv, TypeOK, Char
    <3>4. WrittenIsStored'
      <4>1. listing' = listing
        BY <2>1, TryLineSteps
      <4>2. ASSUME NEW i \in DOMAIN out'
            PROVE  \E a \in ToSet(listing) : out'[i] = Append(a, NL)
        <5>1. CASE i \in DOMAIN out
          <6>1. out'[i] = out[i]
            BY <3>a, <3>b, <3>c, <5>1, AppendOrNot
          <6> QED BY <5>1, <6>1 DEF IInv, WrittenIsStored
        <5>2. CASE i \notin DOMAIN out
          <6>1. out'[i] = l
            BY <3>a, <3>b, <3>c, <4>2, <5>2, AppendOrNot
          <6> QED BY <3>a, <6>1 DEF l
        <5> QED BY <5>1, <5>2
      <4> QED BY <4>1, <4>2 DEF WrittenIsStored
    <3> QED BY <2>1, <3>3, <3>4, TryLineSteps DEF IInv
  <2>2. CASE SkipLine
    BY <2>2 DEF SkipLine, IInv, TypeOK, WrittenIsStored
  <2>3. CASE NextGlob
    BY <2>3 DEF NextGlob, IInv, TypeOK, WrittenIsStored
  <2>4. CASE UNCHANGED vars
    BY <2>4 DEF vars, IInv, TypeOK, WrittenIsStored
  <2> QED BY <2>1, <2>2, <2>3, <2>4 DEF Next
<1> QED BY <1>1, <1>2, PTL DEF Spec

-----------------------------------------------------------------------------
(* What follows from the invariant. *)

\* The state has its types: g and n stay within the globs and the lines.
THEOREM AliasesTypeCorrect == Spec => []TypeOK
<1>1. IInv => TypeOK
  BY DEF IInv
<1> QED BY <1>1, AliasesInvariant, PTL

\* Whatever the globs, what is written are lines of the answer.
THEOREM AliasesWriteStored == Spec => []WrittenIsStored
<1>1. IInv => WrittenIsStored
  BY DEF IInv
<1> QED BY <1>1, AliasesInvariant, PTL

\* The string that a line is matched as.
LEMMA TryLineString ==
    ASSUME IInv, TryLine
    PROVE  /\ String(alias') \in Seq(Text)
           /\ Append(listing[n], NL) \in Seq(Text)
           /\ IsPrefix(Append(listing[n], NL), String(alias'))
           /\ globs[g] \in Seq(Tokens) /\ globs[g] # <<>>
<1>1. /\ listing[n] \in Seq(Chars) /\ Len(alias') >= SizeOf /\ Last(alias') = NUL
      /\ alias' \in Seq(Char) /\ IsPrefix(Append(listing[n], NL), alias') /\ g \in DOMAIN globs
  BY TryLineSteps
<1>2. SizeOf \in Nat \ {0} /\ globs \in Seq(Seq(Tokens) \ {<<>>})
  BY AliasesAssumption DEF IInv, TypeOK
<1>3. Append(listing[n], NL) \in Seq(Chars \cup {NL})
  BY <1>1
<1>4. Len(alias') > 0
  BY <1>1, <1>2
<1>5. globs[g] \in Seq(Tokens) /\ globs[g] # <<>>
  BY <1>1, <1>2
<1> DEFINE b == alias'
           a == Append(listing[n], NL)
<1> HIDE DEF a, b
<1>6. String(b) \in Seq(Chars \cup {NL}) /\ IsPrefix(a, String(b))
  BY <1>1, <1>3, <1>4, StringOf DEF a, b
<1> QED BY <1>3, <1>5, <1>6 DEF Text, a, b

\* Going on to the next line with one that fits is trying it.
LEMMA StepTries ==
    ASSUME IInv, [Next]_vars, n' = n + 1, Len(Line) < SizeOf
    PROVE  TryLine
<1>0. n \in Nat /\ Len(listing) \in Nat
  <2>1. listing \in Seq(Seq(Chars) \ {<<>>}) /\ n \in 1..(Len(listing) + 1)
    BY AliasesAssumption DEF IInv, TypeOK
  <2> QED BY <2>1
<1>1. ~SkipLine
  <2>1. ASSUME SkipLine PROVE FALSE
    <3>1. listing \in Seq(Seq(Chars) \ {<<>>}) /\ n \in 1..Len(listing)
      BY <2>1, AliasesAssumption DEF IInv, TypeOK, SkipLine
    <3>2. listing[n] \in Seq(Chars)
      BY <3>1
    <3>3. Len(Line) \in Nat /\ SizeOf \in Nat
      BY <3>2, AliasesAssumption DEF Line
    <3> QED BY <2>1, <3>3 DEF SkipLine
  <2> QED BY <2>1
<1>2. ~NextGlob
  BY <1>0 DEF NextGlob
<1>3. ~UNCHANGED vars
  BY <1>0 DEF vars
<1> QED BY <1>1, <1>2, <1>3 DEF Next

\* What strglob() finds of a line is what the glob means of the string that it is given.
LEMMA TryMatches ==
    ASSUME IInv, TryLine, ~TwoStars(globs[g])
    PROVE  matched' <=> Matches(String(alias'), globs[g])
<1> DEFINE str == String(alias')
           toks == globs[g]
<1>1. str \in Seq(Text) /\ toks \in Seq(Tokens) /\ toks # <<>>
  BY TryLineString
<1>2. matched' = strglob(str, FlattenSeq(toks))
  BY TryLineSteps
<1>3. ~TwoStars(toks)
  OBVIOUS
<1> HIDE DEF str, toks
<1>4. strglob(str, FlattenSeq(toks)) <=> Matches(str, toks)
  BY <1>1, <1>3, StrglobMeans
<1> QED BY <1>2, <1>4 DEF str, toks

\* strglob() finds what a glob without two stars in a row means of the string that it is
\* given: of the line, its newline and what the array held behind it, not of the alias.
THEOREM AliasesMatchRight == Spec => StrglobMatches
<1>1. IInv /\ [Next]_vars
      => [n' = n + 1 /\ Len(Line) < SizeOf /\ ~TwoStars(globs[g])
          => (matched' <=> Matches(String(alias'), globs[g]))]_vars
  BY StepTries, TryMatches
<1> QED BY <1>1, AliasesInvariant, PTL DEF Spec, StrglobMatches

\* A glob that ends in a star and means a string means every string that begins with it: the
\* star takes what it goes on with.
LEMMA StarMatchesMore ==
    ASSUME NEW a \in Seq(Text), NEW str \in Seq(Text), IsPrefix(a, str),
           NEW toks \in Seq(Tokens), toks # <<>>, Last(toks) = <<"*">>, Matches(a, toks)
    PROVE  Matches(str, toks)
<1> DEFINE T == Len(toks)
<1>1. T \in Nat \ {0} /\ Len(a) \in Nat /\ Len(str) \in Nat
  OBVIOUS
<1>2. Len(a) <= Len(str) /\ \A k \in 1..Len(a) : a[k] = str[k]
  BY PrefixAt
<1>3. PICK cut \in [0..T -> 0..Len(a)] :
          /\ cut[0] = 0 /\ cut[T] = Len(a)
          /\ \A t \in 1..T : cut[t - 1] <= cut[t]
                             /\ Stands(toks[t], SubSeq(a, cut[t - 1] + 1, cut[t]))
  BY DEF Matches
<1>a. ASSUME NEW i \in 0..Len(a), NEW j \in 0..Len(a)
      PROVE  SubSeq(str, i + 1, j) = SubSeq(a, i + 1, j)
  <2> DEFINE x == SubSeq(str, i + 1, j)
             y == SubSeq(a, i + 1, j)
  <2>1. x \in Seq(Text) /\ y \in Seq(Text)
    BY <1>1, <1>2
  <2>2. Len(x) = Len(y)
    BY <1>1, <1>2
  <2>3. \A k \in 1..Len(y) : x[k] = str[i + k] /\ y[k] = a[i + k] /\ i + k \in 1..Len(a)
    BY <1>1, <1>2
  <2> HIDE DEF x, y
  <2>4. \A k \in 1..Len(y) : x[k] = y[k]
    BY <1>2, <2>3
  <2>5. x = y
    BY <2>1, <2>2, <2>4, SeqEqual
  <2> QED BY <2>5 DEF x, y
<1> DEFINE more == [t \in 0..T |-> IF t = T THEN Len(str) ELSE cut[t]]
<1>4. more \in [0..T -> 0..Len(str)] /\ more[0] = 0 /\ more[T] = Len(str)
  BY <1>1, <1>2, <1>3
<1>5. ASSUME NEW t \in 1..T
      PROVE  more[t - 1] <= more[t] /\ Stands(toks[t], SubSeq(str, more[t - 1] + 1, more[t]))
  <2>0. t \in 0..T /\ t - 1 \in 0..T /\ t - 1 # T
    BY <1>1
  <2>1. more[t - 1] = cut[t - 1] /\ cut[t - 1] \in 0..Len(a) /\ cut[t] \in 0..Len(a)
    BY <1>3, <2>0
  <2>2. CASE t = T
    <3>1. more[t] = Len(str)
      BY <1>4, <2>2
    <3>2. toks[t] = <<"*">>
      BY <2>2 DEF Last
    <3>3. \A piece : Stands(<<"*">>, piece)
      <4>1. <<"*">> # <<"?">> /\ <<"*">>[1] \notin Chars /\ <<"*">>[1] # "["
        BY AliasesAssumption
      <4> QED BY <4>1, Zenon DEF Stands
    <3> QED BY <1>1, <1>2, <2>1, <3>1, <3>2, <3>3
  <2>3. CASE t # T
    <3>1. more[t] = cut[t]
      BY <2>0, <2>3
    <3>2. SubSeq(str, cut[t - 1] + 1, cut[t]) = SubSeq(a, cut[t - 1] + 1, cut[t])
      BY <1>a, <2>1
    <3> QED BY <1>3, <2>1, <3>1, <3>2
  <2> QED BY <2>2, <2>3
<1> HIDE DEF more
<1> QED BY <1>4, <1>5 DEF Matches

\* A glob that ends in a star finds every alias that it means and that fits in the array,
\* whatever the newline and the rest of the array add to it.
THEOREM AliasesFoundByStars == Spec => StarGlobsFindAll
<1>1. ASSUME IInv, [Next]_vars, n' = n + 1, Len(Line) < SizeOf, ~TwoStars(globs[g]),
             Last(globs[g]) = <<"*">>, Matches(listing[n], globs[g])
      PROVE  matched'
  <2>1. TryLine
    BY <1>1, StepTries
  <2> DEFINE a == listing[n]
             str == String(alias')
             toks == globs[g]
  <2>2. /\ str \in Seq(Text) /\ Append(a, NL) \in Seq(Text) /\ IsPrefix(Append(a, NL), str)
        /\ toks \in Seq(Tokens) /\ toks # <<>>
    BY <1>1, <2>1, TryLineString
  <2>3. a \in Seq(Text)
    <3>1. a \in Seq(Chars)
      BY <1>1, <2>1, TryLineSteps
    <3> QED BY <3>1, SeqMonotonic DEF Text
  <2>4. Last(toks) = <<"*">> /\ Matches(a, toks)
    BY <1>1
  <2> HIDE DEF a, str, toks
  <2>5. IsPrefix(a, str)
    <3>1. Append(a, NL) = a \o <<NL>> /\ <<NL>> \in Seq(Text)
      BY <2>3 DEF Text
    <3>2. IsPrefix(a \o <<NL>>, str)
      BY <2>2, <3>1
    <3> DEFINE c == <<NL>>
    <3> HIDE DEF c
    <3>3. c \in Seq(Text) /\ IsPrefix(a \o c, str)
      BY <3>1, <3>2 DEF c
    <3> QED BY <2>2, <2>3, <3>3, PrefixOfConcat
  <2>6. Matches(str, toks)
    BY <2>2, <2>3, <2>4, <2>5, StarMatchesMore
  <2> QED BY <1>1, <2>1, <2>6, TryMatches DEF str, toks
<1>2. IInv /\ [Next]_vars
      => [n' = n + 1 /\ Len(Line) < SizeOf /\ ~TwoStars(globs[g]) /\ Last(globs[g]) = <<"*">>
            /\ Matches(listing[n], globs[g]) => matched']_vars
  BY <1>1
<1> QED BY <1>2, AliasesInvariant, PTL DEF Spec, StarGlobsFindAll

-----------------------------------------------------------------------------
(* Globs that are a beginning and a star. *)

\* Such a glob matches just the strings that begin so.
LEMMA PrefixGlobMatches ==
    ASSUME NEW str \in Seq(Text), NEW toks \in Seq(Tokens), toks # <<>>, IsPrefixGlob(toks)
    PROVE  /\ ~TwoStars(toks)
           /\ FlattenSeq(Front(toks)) \in Seq(Chars)
           /\ Matches(str, toks) <=> IsPrefix(FlattenSeq(Front(toks)), str)
<1> DEFINE T == Len(toks)
           N == Len(str)
           a == First(toks, T - 1)
<1>0. T \in Nat \ {0} /\ N \in Nat
  OBVIOUS
<1>1. \A t \in 1..(T - 1) : /\ \E c \in Chars : toks[t] = <<c>>
                             /\ toks[t] \in Tokens /\ ~Star(toks[t])
  <2> SUFFICES ASSUME NEW t \in 1..(T - 1)
               PROVE  (\E c \in Chars : toks[t] = <<c>>) /\ toks[t] \in Tokens /\ ~Star(toks[t])
    OBVIOUS
  <2>1. toks[t] \in Tokens /\ Len(toks[t]) = 1 /\ toks[t] # <<"*">> /\ toks[t] # <<"?">>
    BY DEF IsPrefixGlob
  <2>2. ~SetToken(toks[t])
    <3>1. ASSUME SetToken(toks[t]) PROVE FALSE
      <4>1. Len(toks[t]) \in Nat /\ Len(toks[t]) >= 3
        BY <3>1 DEF SetToken
      <4> QED BY <2>1, <4>1, ThreeIsNotOne
    <3> QED BY <3>1
  <2> QED BY <2>1, <2>2, TokenShape, Zenon DEF Star
<1>2. Star(toks[T])
  BY DEF IsPrefixGlob, Last, Star
<1>3. ~TwoStars(toks)
  BY <1>1 DEF TwoStars, Star
<1>4. FlattenSeq(Front(toks)) = a
  BY DEF Front, First
<1> DEFINE P == {t \in Nat : t <= T - 1 =>
                     /\ First(toks, t) \in Seq(Chars) /\ Len(First(toks, t)) = t
                     /\ CutFrom(str, toks, 1, 0) <=>
                            IsPrefix(First(toks, t), str) /\ CutFrom(str, toks, t + 1, t)}
<1>5. 0 \in P
  <2>1. First(toks, 0) = <<>>
    BY FirstZero
  <2> DEFINE e == First(toks, 0)
  <2>2. e \in Seq(Chars) /\ Len(e) = 0 /\ e \in Seq(Text)
    BY <2>1, EmptySeq
  <2> HIDE DEF e
  <2>3. IsPrefix(e, str)
    <3>1. Len(e) <= Len(str) /\ \A k \in 1..Len(e) : e[k] = str[k]
      BY <1>0, <2>2
    <3> QED BY <2>2, <3>1, PrefixAt
  <2> SUFFICES CutFrom(str, toks, 1, 0) <=> IsPrefix(e, str) /\ CutFrom(str, toks, 0 + 1, 0)
    BY <2>2 DEF e
  <2>4. 0 + 1 = 1
    OBVIOUS
  <2> QED BY <2>3, <2>4
<1>6. ASSUME NEW t \in Nat, t \in P PROVE t + 1 \in P
  <2> SUFFICES ASSUME t + 1 <= T - 1
               PROVE  /\ First(toks, t + 1) \in Seq(Chars) /\ Len(First(toks, t + 1)) = t + 1
                      /\ CutFrom(str, toks, 1, 0) <=>
                             IsPrefix(First(toks, t + 1), str) /\ CutFrom(str, toks, (t + 1) + 1, t + 1)
    OBVIOUS
  <2>1. /\ t <= T - 1 /\ t \in 0..(T - 1) /\ t + 1 \in 1..(T - 1) /\ t + 1 \in 1..T
        /\ (t + 1) - 1 = t /\ t + 1 >= 1
    BY <1>0
  <2>2. /\ First(toks, t) \in Seq(Chars) /\ Len(First(toks, t)) = t
        /\ CutFrom(str, toks, 1, 0) <=> IsPrefix(First(toks, t), str) /\ CutFrom(str, toks, t + 1, t)
    BY <1>6, <2>1
  <2> HIDE DEF P
  <2>3. PICK c \in Chars : toks[t + 1] = <<c>>
    BY <1>1, <2>1
  <2>4. toks \in Seq(Seq(Glyph))
    <3>1. Tokens \subseteq Seq(Glyph)
      BY TokenType
    <3> QED BY <3>1, SeqMonotonic
  <2> DEFINE f == First(toks, t)
             h == First(toks, t + 1)
  <2>5. h = f \o <<c>>
    <3>1. First(toks, t + 1) = First(toks, (t + 1) - 1) \o toks[t + 1]
      BY <2>1, <2>4, FirstNext
    <3> QED BY <2>1, <2>3, <3>1
  <2> HIDE DEF f, h
  <2>6. f \in Seq(Chars) /\ Len(f) = t
    BY <2>2 DEF f
  <2>7. /\ h \in Seq(Chars) /\ Len(h) = t + 1 /\ h[t + 1] = c
        /\ \A k \in 1..t : h[k] = f[k]
    <3>1. h = Append(f, c)
      BY <2>5, <2>6
    <3> QED BY <2>6, <3>1, AppendProperties
  <2>8. f \in Seq(Text) /\ h \in Seq(Text)
    BY <2>6, <2>7, SeqMonotonic DEF Text
  <2>9. IsPrefix(f, str) <=> t <= N /\ \A k \in 1..t : f[k] = str[k]
    BY <2>6, <2>8, PrefixAt
  <2>10. IsPrefix(h, str) <=> t + 1 <= N /\ \A k \in 1..(t + 1) : h[k] = str[k]
    <3>1. IsPrefix(h, str) <=> Len(h) <= N /\ \A k \in 1..Len(h) : h[k] = str[k]
      BY <2>8, PrefixAt
    <3> QED BY <2>7, <3>1
  <2>11. IsPrefix(h, str) <=> IsPrefix(f, str) /\ t + 1 <= N /\ str[t + 1] = c
    BY <1>0, <2>7, <2>9, <2>10
  <2>12. ASSUME IsPrefix(f, str)
         PROVE  CutFrom(str, toks, t + 1, t) <=>
                    t + 1 <= N /\ str[t + 1] = c /\ CutFrom(str, toks, (t + 1) + 1, t + 1)
    <3>1. t + 1 \in 1..(N + 1)
      BY <1>0, <2>9, <2>12
    <3>2. ~Star(toks[t + 1])
      BY <1>1, <2>1
    <3>3. CutFrom(str, toks, t + 1, t) <=>
              t + 1 <= N /\ OneFits(toks[t + 1], str[t + 1]) /\ CutFrom(str, toks, (t + 1) + 1, t + 1)
      BY <2>1, <3>1, <3>2, CutOne
    <3>4. \A d : OneFits(toks[t + 1], d) <=> c = d
      <4>1. c # "?"
        BY AliasesAssumption
      <4>2. ~SetToken(toks[t + 1])
        <5>1. Len(toks[t + 1]) = 1
          BY <2>3
        <5>2. ASSUME SetToken(toks[t + 1]) PROVE FALSE
          <6>1. Len(toks[t + 1]) \in Nat /\ Len(toks[t + 1]) >= 3
            BY <5>2 DEF SetToken
          <6> QED BY <5>1, <6>1, ThreeIsNotOne
        <5> QED BY <5>2
      <4>3. \A d : <<c>> = <<d>> <=> c = d
        OBVIOUS
      <4> QED BY <2>3, <4>1, <4>2, <4>3 DEF OneFits
    <3> QED BY <3>3, <3>4
  <2> QED BY <2>2, <2>7, <2>11, <2>12 DEF f, h
<1> HIDE DEF P
<1>7. \A t \in Nat : t \in P
  BY <1>5, <1>6, NatSetInduction
<1>8. T - 1 \in Nat /\ T - 1 <= T - 1 /\ (T - 1) + 1 = T /\ T - 1 \in 0..(Len(toks) - 1)
  BY <1>0
<1>9. /\ a \in Seq(Chars) /\ Len(a) = T - 1
      /\ CutFrom(str, toks, 1, 0) <=> IsPrefix(a, str) /\ CutFrom(str, toks, T, T - 1)
  <2>1. T - 1 \in P
    BY <1>7, <1>8
  <2> QED BY <1>8, <2>1 DEF P
<1>10. ASSUME IsPrefix(a, str) PROVE CutFrom(str, toks, T, T - 1)
  <2>1. T - 1 <= N
    <3>1. a \in Seq(Text)
      BY <1>9, SeqMonotonic DEF Text
    <3> QED BY <1>9, <1>10, <3>1, PrefixAt
  <2>2. T \in 1..(N + 1) /\ N + 1 \in T..(N + 1) /\ N + 1 \in 1..(N + 1)
    BY <1>0, <2>1
  <2>3. CutFrom(str, toks, N + 1, T)
    BY <2>2, CutEnd
  <2>4. \A piece : Stands(toks[T], piece)
    <3>1. toks[T] # <<"?">> /\ toks[T][1] \notin Chars /\ toks[T][1] # "["
      BY <1>2, AliasesAssumption DEF Star
    <3> QED BY <1>2, <3>1, Zenon DEF Stands, Star
  <2> HIDE DEF T
  <2>5. CutFrom(str, toks, T, T - 1) <=>
            \E j \in T..(N + 1) : Stands(toks[T], SubSeq(str, T, j - 1)) /\ CutFrom(str, toks, j, T)
    <3>1. CutFrom(str, toks, T, T - 1) <=>
            \E j \in T..(N + 1) : Stands(toks[(T - 1) + 1], SubSeq(str, T, j - 1))
                                  /\ CutFrom(str, toks, j, (T - 1) + 1)
      BY <1>8, <2>2, CutStep
    <3> QED BY <1>8, <3>1
  <2> QED BY <2>2, <2>3, <2>4, <2>5
<1> QED BY <1>3, <1>4, <1>9, <1>10, CutAll

\* The lines of the answer that one glob asks for, one by one, and those of every glob.
Kept(tokens) ==
    [i \in DOMAIN listing |-> IF Asked(tokens, listing[i]) THEN <<Append(listing[i], NL)>> ELSE <<>>]
PerGlob == [i \in DOMAIN globs |-> Listed(globs[i])]

\* With such globs, what has been written is what the globs before this one ask for, and
\* this one of the lines before this one.
Written ==
    (\A i \in DOMAIN globs : IsPrefixGlob(globs[i])) =>
        out = First(PerGlob, g - 1)
              \o (IF g > Len(globs) THEN <<>> ELSE First(Kept(globs[g]), n - 1))

\* Types of these sequences.
LEMMA KeptType ==
    ASSUME TypeOK
    PROVE  /\ listing \in Seq(Seq(Chars)) /\ globs \in Seq(Seq(Tokens)) /\ globs # <<>>
           /\ \A tokens : /\ Kept(tokens) \in Seq(Seq(Seq(Char))) /\ Len(Kept(tokens)) = Len(listing)
                          /\ FlattenSeq(Kept(tokens)) = Listed(tokens)
           /\ PerGlob \in Seq(Seq(Seq(Char))) /\ Len(PerGlob) = Len(globs)
           /\ \A i \in 1..Len(globs) : globs[i] # <<>>
<1>1. listing \in Seq(Seq(Chars) \ {<<>>}) /\ globs \in Seq(Seq(Tokens) \ {<<>>}) \ {<<>>}
  BY AliasesAssumption DEF TypeOK
<1>2. ASSUME NEW tokens
      PROVE  /\ Kept(tokens) \in Seq(Seq(Seq(Char))) /\ Len(Kept(tokens)) = Len(listing)
             /\ FlattenSeq(Kept(tokens)) = Listed(tokens)
  <2> DEFINE e(i) == IF Asked(tokens, listing[i]) THEN <<Append(listing[i], NL)>> ELSE <<>>
             m == Len(listing)
  <2>1. \A i \in 1..m : e(i) \in Seq(Seq(Char))
    <3> SUFFICES ASSUME NEW i \in 1..m PROVE e(i) \in Seq(Seq(Char))
      OBVIOUS
    <3>1. listing[i] \in Seq(Char)
      <4>1. listing[i] \in Seq(Chars)
        BY <1>1
      <4> QED BY <4>1, SeqMonotonic DEF Char
    <3>2. NL \in Char
      BY DEF Char
    <3> DEFINE a == Append(listing[i], NL)
    <3>3. a \in Seq(Char)
      BY <3>1, <3>2
    <3> HIDE DEF a
    <3>4. <<a>> \in Seq(Seq(Char)) /\ <<>> \in Seq(Seq(Char))
      BY <3>3
    <3> QED BY <3>4 DEF a
  <2>2. m \in Nat /\ DOMAIN listing = 1..m
    BY <1>1
  <2>3. Kept(tokens) = [i \in 1..m |-> e(i)]
    BY <2>2 DEF Kept
  <2> HIDE DEF e, m
  <2>4. Kept(tokens) \in [1..m -> Seq(Seq(Char))] /\ DOMAIN Kept(tokens) = 1..m
    BY <2>1, <2>3
  <2>5. Kept(tokens) \in Seq(Seq(Seq(Char))) /\ Len(Kept(tokens)) = m
    BY <2>2, <2>4
  <2> QED BY <2>5 DEF m, Listed, Kept
<1>3. PerGlob \in Seq(Seq(Seq(Char))) /\ Len(PerGlob) = Len(globs)
  <2> DEFINE m == Len(globs)
             e(i) == Listed(globs[i])
  <2>1. \A i \in 1..m : e(i) \in Seq(Seq(Char))
    BY <1>2, FlattenType
  <2>2. m \in Nat /\ DOMAIN globs = 1..m
    BY <1>1
  <2>3. PerGlob = [i \in 1..m |-> e(i)]
    BY <2>2 DEF PerGlob
  <2> HIDE DEF e, m
  <2>4. PerGlob \in [1..m -> Seq(Seq(Char))] /\ DOMAIN PerGlob = 1..m
    BY <2>1, <2>3
  <2>5. PerGlob \in Seq(Seq(Seq(Char))) /\ Len(PerGlob) = m
    BY <2>2, <2>4
  <2> QED BY <2>5 DEF m
<1>4. listing \in Seq(Seq(Chars)) /\ globs \in Seq(Seq(Tokens))
  BY <1>1, SeqMonotonic
<1> QED BY <1>1, <1>2, <1>3, <1>4

\* The string that begins with a line begins as the alias does that the line is for.
LEMMA LineBegins ==
    ASSUME NEW a \in Seq(Chars), NEW b \in Seq(Chars), NEW str \in Seq(Text), IsPrefix(Append(b, NL), str)
    PROVE  IsPrefix(a, str) <=> IsPrefix(a, b)
<1> DEFINE l == Append(b, NL)
<1>1. a \in Seq(Text) /\ b \in Seq(Text) /\ NL \in Text
  BY SeqMonotonic DEF Text
<1>2. /\ l \in Seq(Text) /\ Len(l) = Len(b) + 1 /\ l[Len(b) + 1] = NL
      /\ \A k \in 1..Len(b) : l[k] = b[k]
  BY <1>1, AppendProperties
<1> HIDE DEF l
<1>3. IsPrefix(l, str)
  BY DEF l
<1>4. Len(l) <= Len(str) /\ \A k \in 1..Len(l) : l[k] = str[k]
  BY <1>2, <1>3, PrefixAt
<1>5. Len(a) \in Nat /\ Len(b) \in Nat /\ Len(str) \in Nat /\ Len(b) + 1 <= Len(str)
  BY <1>2, <1>4
<1>6. str[Len(b) + 1] = NL /\ \A k \in 1..Len(b) : str[k] = b[k]
  BY <1>2, <1>4, <1>5
<1>7. \A k \in 1..Len(a) : a[k] # NL
  <2>1. NL \notin Chars
    BY AliasesAssumption
  <2> QED BY <2>1
<1>8. IsPrefix(a, str) <=> Len(a) <= Len(str) /\ \A k \in 1..Len(a) : a[k] = str[k]
  BY <1>1, PrefixAt
<1>9. IsPrefix(a, b) <=> Len(a) <= Len(b) /\ \A k \in 1..Len(a) : a[k] = b[k]
  BY <1>1, PrefixAt
<1>10. ASSUME Len(a) <= Len(str), \A k \in 1..Len(a) : a[k] = str[k] PROVE Len(a) <= Len(b)
  <2> SUFFICES ASSUME Len(a) > Len(b) PROVE FALSE
    BY <1>5
  <2>1. Len(b) + 1 \in 1..Len(a)
    BY <1>5
  <2> QED BY <1>6, <1>7, <1>10, <2>1
<1>11. ASSUME Len(a) <= Len(b) PROVE /\ Len(a) <= Len(str)
                                     /\ \A k \in 1..Len(a) : str[k] = b[k]
  BY <1>5, <1>6, <1>11
<1> QED BY <1>8, <1>9, <1>10, <1>11

\* Every step keeps what has been written to the kept lines, glob for glob.
LEMMA LinesOfAll ==
    ASSUME IInv, Written, Next
    PROVE  Written'
<1> SUFFICES ASSUME \A i \in DOMAIN globs : IsPrefixGlob(globs[i])
             PROVE  out' = First(PerGlob, g' - 1)
                           \o (IF g' > Len(globs) THEN <<>> ELSE First(Kept(globs[g']), n' - 1))
  <2>1. listing' = listing /\ globs' = globs
    BY DEF Next, TryLine, SkipLine, NextGlob
  <2> QED BY <2>1 DEF Written, Kept, PerGlob, Listed, Asked
<1>1. out = First(PerGlob, g - 1) \o (IF g > Len(globs) THEN <<>> ELSE First(Kept(globs[g]), n - 1))
  BY DEF Written
<1>2. TypeOK /\ g <= Len(globs)
  BY DEF IInv, Next, TryLine, SkipLine, NextGlob
<1>3. /\ listing \in Seq(Seq(Chars)) /\ globs \in Seq(Seq(Tokens))
      /\ PerGlob \in Seq(Seq(Seq(Char))) /\ Len(PerGlob) = Len(globs)
      /\ \A tokens : /\ Kept(tokens) \in Seq(Seq(Seq(Char))) /\ Len(Kept(tokens)) = Len(listing)
                     /\ FlattenSeq(Kept(tokens)) = Listed(tokens)
  BY <1>2, KeptType
<1>4. g \in 1..Len(globs) /\ n \in 1..(Len(listing) + 1) /\ Len(globs) \in Nat /\ Len(listing) \in Nat
      /\ ~(g > Len(globs))
  <2>1. Len(globs) \in Nat /\ Len(listing) \in Nat
    BY <1>3
  <2> QED BY <1>2, <2>1 DEF TypeOK
<1> DEFINE K == Kept(globs[g])
<1>5. K \in Seq(Seq(Seq(Char))) /\ Len(K) = Len(listing)
  BY <1>3
<1>6. out = First(PerGlob, g - 1) \o First(K, n - 1)
  BY <1>1, <1>4
<1>7. First(PerGlob, g - 1) \in Seq(Seq(Char)) /\ First(K, n - 1) \in Seq(Seq(Char))
  <2>1. g - 1 \in 0..Len(PerGlob) /\ n - 1 \in 0..Len(K)
    BY <1>3, <1>4, <1>5
  <2> QED BY <1>3, <1>5, <2>1, FirstType
<1>8. ASSUME n \in 1..Len(listing)
      PROVE  First(K, n) = IF Asked(globs[g], listing[n])
                           THEN Append(First(K, n - 1), Append(listing[n], NL)) ELSE First(K, n - 1)
  <2>1. First(K, n) = First(K, n - 1) \o K[n]
    BY <1>5, <1>8, FirstNext
  <2>2. K[n] = IF Asked(globs[g], listing[n]) THEN <<Append(listing[n], NL)>> ELSE <<>>
    <3>1. n \in DOMAIN listing
      BY <1>3, <1>8
    <3> QED BY <3>1 DEF Kept
  <2> HIDE DEF K
  <2> DEFINE f == First(K, n - 1)
  <2>3. f \in Seq(Seq(Char))
    BY <1>7
  <2> HIDE DEF f
  <2>4. \A x : f \o <<x>> = Append(f, x)
    BY <2>3
  <2>5. f \o <<>> = f
    BY <2>3
  <2> QED BY <2>1, <2>2, <2>4, <2>5 DEF f
<1>9. IsPrefixGlob(globs[g])
  <2>1. g \in DOMAIN globs
    BY <1>3, <1>4
  <2> QED BY <2>1
<1> DEFINE F == First(PerGlob, g - 1)
           f == First(K, n - 1)
<1>10. F \in Seq(Seq(Char)) /\ f \in Seq(Seq(Char)) /\ out = F \o f
  BY <1>6, <1>7
<1>11. CASE TryLine
  <2>1. n \in 1..Len(listing) /\ n' = n + 1 /\ g' = g /\ n' - 1 = n
    BY <1>4, <1>11 DEF TryLine
  <2>2. listing[n] \in Seq(Chars) /\ Len(listing[n]) + 1 < SizeOf
    BY <1>11, TryLineSteps
  <2>3. matched' <=> IsPrefix(FlattenSeq(Front(globs[g])), listing[n])
    <3> DEFINE str == String(alias')
               toks == globs[g]
               b == listing[n]
    <3>1. /\ str \in Seq(Text) /\ toks \in Seq(Tokens) /\ toks # <<>>
          /\ IsPrefix(Append(b, NL), str) /\ b \in Seq(Chars)
      BY <1>11, <2>2, TryLineString
    <3>2. matched' = strglob(str, FlattenSeq(toks))
      BY <1>11, TryLineSteps
    <3>3. IsPrefixGlob(toks)
      BY <1>9
    <3> HIDE DEF str, toks, b
    <3>4. /\ ~TwoStars(toks) /\ FlattenSeq(Front(toks)) \in Seq(Chars)
          /\ Matches(str, toks) <=> IsPrefix(FlattenSeq(Front(toks)), str)
      BY <3>1, <3>3, PrefixGlobMatches
    <3>5. strglob(str, FlattenSeq(toks)) <=> Matches(str, toks)
      BY <3>1, <3>4, StrglobMeans
    <3>6. IsPrefix(FlattenSeq(Front(toks)), str) <=> IsPrefix(FlattenSeq(Front(toks)), b)
      BY <3>1, <3>4, LineBegins
    <3>7. matched' <=> IsPrefix(FlattenSeq(Front(toks)), b)
      BY <3>2, <3>4, <3>5, <3>6
    <3> QED BY <3>7 DEF toks, b
  <2>4. out' = IF matched' THEN Append(out, Append(listing[n], NL)) ELSE out
    BY <1>11, TryLineSteps
  <2>5. matched' <=> Asked(globs[g], listing[n])
    BY <2>2, <2>3 DEF Asked
  <2> DEFINE x == Append(listing[n], NL)
  <2>6. First(K, n) = IF matched' THEN Append(f, x) ELSE f
    BY <1>8, <2>1, <2>5
  <2>7. x \in Seq(Char)
    <3>1. listing[n] \in Seq(Char) /\ NL \in Char
      BY <2>2, SeqMonotonic DEF Char
    <3> QED BY <3>1
  <2>8. ASSUME NEW y \in Seq(Char) PROVE F \o Append(f, y) = Append(F \o f, y)
    <3> DEFINE S == Seq(Char)
    <3>1. F \in Seq(S) /\ f \in Seq(S) /\ y \in S
      BY <1>10, <2>8
    <3> HIDE DEF F, f, S
    <3>2. <<y>> \in Seq(S) /\ F \o f \in Seq(S)
      BY <3>1
    <3>3. Append(f, y) = f \o <<y>> /\ Append(F \o f, y) = (F \o f) \o <<y>>
      BY <3>1, <3>2
    <3>4. (F \o f) \o <<y>> = F \o (f \o <<y>>)
      BY <3>1, <3>2, ConcatAssociative
    <3> QED BY <3>3, <3>4
  <2>9. out' = F \o First(K, n)
    <3> HIDE DEF F, f, K, x
    <3>1. out' = IF matched' THEN Append(F \o f, x) ELSE F \o f
      BY <1>10, <2>4 DEF x
    <3>2. F \o Append(f, x) = Append(F \o f, x)
      BY <2>7, <2>8
    <3> QED BY <2>6, <3>1, <3>2
  <2> QED BY <1>4, <2>1, <2>9
<1>12. CASE SkipLine
  <2>1. n \in 1..Len(listing) /\ n' = n + 1 /\ g' = g /\ n' - 1 = n /\ out' = out
    BY <1>4, <1>12 DEF SkipLine
  <2>2. ~Asked(globs[g], listing[n])
    <3>1. listing[n] \in Seq(Chars) /\ Len(Line) = Len(listing[n]) + 1 /\ Len(Line) >= SizeOf
      BY <1>3, <1>12, <2>1 DEF SkipLine, Line
    <3>2. SizeOf \in Nat /\ Len(listing[n]) \in Nat
      BY <3>1, AliasesAssumption
    <3> QED BY <3>1, <3>2 DEF Asked
  <2>3. First(K, n) = f
    BY <1>8, <2>1, <2>2
  <2> QED BY <1>4, <1>10, <2>1, <2>3
<1>13. CASE NextGlob
  <2>1. g' = g + 1 /\ n' = 1 /\ out' = out /\ n = Len(listing) + 1
    BY <1>4, <1>13 DEF NextGlob
  <2>2. f = PerGlob[g]
    <3>1. f = First(K, Len(K))
      BY <1>4, <1>5, <2>1
    <3>2. First(K, Len(K)) = FlattenSeq(K)
      BY <1>5, FirstAll
    <3>3. PerGlob[g] = Listed(globs[g])
      <4>1. g \in DOMAIN globs
        BY <1>3, <1>4
      <4> QED BY <4>1 DEF PerGlob
    <3>4. FlattenSeq(K) = Listed(globs[g])
      BY <1>3
    <3> QED BY <3>1, <3>2, <3>3, <3>4
  <2>3. First(PerGlob, g) = F \o PerGlob[g]
    BY <1>3, <1>4, FirstNext
  <2>4. out' = First(PerGlob, g)
    BY <1>10, <2>1, <2>2, <2>3
  <2>5. g' - 1 = g /\ n' - 1 = 0
    BY <1>4, <2>1
  <2>6. First(Kept(globs[g']), 0) = <<>>
    BY <1>3, FirstZero
  <2>7. First(PerGlob, g) \in Seq(Seq(Char))
    BY <1>3, <1>4, FirstType
  <2>8. First(PerGlob, g) \o <<>> = First(PerGlob, g)
    <3> DEFINE h == First(PerGlob, g)
    <3> HIDE DEF h
    <3>1. h \in Seq(Seq(Char))
      BY <2>7 DEF h
    <3>2. h \o <<>> = h
      BY <3>1
    <3> QED BY <3>2 DEF h
  <2> QED BY <2>4, <2>5, <2>6, <2>8
<1> QED BY <1>11, <1>12, <1>13 DEF Next

\* The first sequences are a beginning of all, whatever comes of the next one.
LEMMA WrittenIsBeginning ==
    ASSUME IInv, Written
    PROVE  PrefixGlobsAreExact
<1> SUFFICES ASSUME \A i \in DOMAIN globs : IsPrefixGlob(globs[i])
             PROVE  /\ IsPrefix(out, FlattenSeq(PerGlob))
                    /\ g > Len(globs) => out = FlattenSeq(PerGlob)
  BY DEF PrefixGlobsAreExact, PerGlob
<1>1. out = First(PerGlob, g - 1) \o (IF g > Len(globs) THEN <<>> ELSE First(Kept(globs[g]), n - 1))
  BY DEF Written
<1>2. TypeOK
  BY DEF IInv
<1>3. /\ listing \in Seq(Seq(Chars)) /\ globs \in Seq(Seq(Tokens))
      /\ PerGlob \in Seq(Seq(Seq(Char))) /\ Len(PerGlob) = Len(globs)
      /\ \A tokens : /\ Kept(tokens) \in Seq(Seq(Seq(Char))) /\ Len(Kept(tokens)) = Len(listing)
                     /\ FlattenSeq(Kept(tokens)) = Listed(tokens)
  BY <1>2, KeptType
<1>4. Len(globs) \in Nat /\ Len(listing) \in Nat
  BY <1>3
<1>5. g \in 1..(Len(globs) + 1) /\ n \in 1..(Len(listing) + 1)
  BY <1>2, <1>4 DEF TypeOK
<1>6. FlattenSeq(PerGlob) \in Seq(Seq(Char))
  BY <1>3, FlattenType
<1> DEFINE L == FlattenSeq(PerGlob)
<1>7. CASE g > Len(globs)
  <2>1. g - 1 = Len(PerGlob)
    BY <1>3, <1>4, <1>5, <1>7
  <2>2. First(PerGlob, g - 1) = L
    BY <1>3, <2>1, FirstAll
  <2> HIDE DEF L
  <2>3. out = L \o <<>>
    BY <1>1, <1>7, <2>2
  <2>4. out = L /\ L \in Seq(Seq(Char))
    BY <1>6, <2>3 DEF L
  <2>5. IsPrefix(L, L)
    BY <2>4, PrefixAt
  <2> QED BY <2>4, <2>5 DEF L
<1>8. CASE ~(g > Len(globs))
  <2>1. g \in 1..Len(globs) /\ g - 1 \in 0..Len(PerGlob) /\ g \in 1..Len(PerGlob) /\ g \in 0..Len(PerGlob)
    BY <1>3, <1>4, <1>5, <1>8
  <2> DEFINE K == Kept(globs[g])
             F == First(PerGlob, g - 1)
             f == First(K, n - 1)
  <2>2. K \in Seq(Seq(Seq(Char))) /\ Len(K) = Len(listing) /\ FlattenSeq(K) = PerGlob[g]
    <3>1. PerGlob[g] = Listed(globs[g])
      <4>1. g \in DOMAIN globs
        BY <1>3, <2>1
      <4> QED BY <4>1 DEF PerGlob
    <3> QED BY <1>3, <3>1
  <2> HIDE DEF K
  <2>3. n - 1 \in 0..Len(K)
    BY <1>4, <1>5, <2>2
  <2>4. f \in Seq(Seq(Char)) /\ IsPrefix(f, FlattenSeq(K)) /\ FlattenSeq(K) \in Seq(Seq(Char))
    BY <2>2, <2>3, FirstType, FirstIsPrefix, FlattenType
  <2>5. F \in Seq(Seq(Char)) /\ First(PerGlob, g) = F \o FlattenSeq(K)
    BY <1>3, <2>1, <2>2, FirstType, FirstNext
  <2>6. IsPrefix(First(PerGlob, g), L) /\ First(PerGlob, g) \in Seq(Seq(Char))
    BY <1>3, <2>1, FirstType, FirstIsPrefix
  <2>7. out = F \o f
    BY <1>1, <1>8 DEF K
  <2> DEFINE k == FlattenSeq(K)
  <2> HIDE DEF F, f, L, k
  <2>8. PICK r \in Seq(Seq(Char)) : k = f \o r
    <3>1. f \in Seq(Seq(Char)) /\ k \in Seq(Seq(Char)) /\ IsPrefix(f, k)
      BY <2>4 DEF k
    <3> QED BY <3>1, PrefixRest
  <2>9. F \o k = (F \o f) \o r /\ F \o f \in Seq(Seq(Char))
    <3> DEFINE S == Seq(Char)
    <3>1. F \in Seq(S) /\ f \in Seq(S) /\ r \in Seq(S)
      BY <2>4, <2>5
    <3> HIDE DEF S
    <3>2. (F \o f) \o r = F \o (f \o r)
      BY <3>1, ConcatAssociative
    <3>3. F \o f \in Seq(S)
      BY <3>1
    <3> QED BY <2>8, <3>2, <3>3 DEF S
  <2>10. IsPrefix(out \o r, L)
    BY <2>5, <2>6, <2>7, <2>9 DEF k
  <2>11. out \in Seq(Seq(Char)) /\ L \in Seq(Seq(Char))
    BY <1>6, <2>7, <2>9 DEF L
  <2>12. IsPrefix(out, L)
    BY <2>10, <2>11, PrefixOfConcat
  <2> QED BY <1>8, <2>12 DEF L
<1> QED BY <1>7, <1>8

\* With globs of the form "beginning*", the lines that are written are those of the aliases
\* that begin so, in the order of the answer, once for every glob, whatever the stack had.
THEOREM AliasesListExact == Spec => []PrefixGlobsAreExact
<1>1. Init => Written
  <2> SUFFICES ASSUME Init PROVE First(PerGlob, g - 1)
                   \o (IF g > Len(globs) THEN <<>> ELSE First(Kept(globs[g]), n - 1)) = <<>>
    BY DEF Init, Written
  <2>1. g - 1 = 0 /\ n - 1 = 0
    BY DEF Init
  <2>2. globs \in Seq(Seq(Tokens) \ {<<>>}) /\ listing \in Seq(Seq(Chars) \ {<<>>})
    BY AliasesAssumption DEF Init
  <2>3. First(PerGlob, 0) = <<>> /\ First(Kept(globs[g]), 0) = <<>>
    BY FirstZero
  <2>4. <<>> \o <<>> = <<>>
    OBVIOUS
  <2> QED BY <2>1, <2>3, <2>4
<1>2. IInv /\ Written /\ [Next]_vars => Written'
  <2>1. ASSUME UNCHANGED vars, Written PROVE Written'
    BY <2>1 DEF vars, Written, PerGlob, Kept, Listed, Asked
  <2> QED BY <2>1, LinesOfAll
<1>3. IInv /\ Written => PrefixGlobsAreExact
  BY WrittenIsBeginning
<1>4. Spec => []Written
  BY <1>1, <1>2, AliasesInvariant, PTL DEF Spec
<1> QED BY <1>3, <1>4, AliasesInvariant, PTL
=============================================================================
