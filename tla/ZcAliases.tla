------------------------------ MODULE ZcAliases ------------------------------
(***************************************************************************)
(* "zc password aliases" with globs: zc_password_aliases() of              *)
(* cmd/password.c once the device has answered, and strglob().             *)
(*                                                                         *)
(* A string is a sequence of characters.  The answer of the device ends    *)
(* every alias with a newline; each line is copied into alias[], which is  *)
(* not cleared and gets no NUL, so strglob() sees the newline and whatever *)
(* was there before, up to the next NUL, be it behind the array.           *)
(***************************************************************************)
EXTENDS Naturals, FiniteSets, Sequences, SequencesExt

CONSTANTS
    Chars,      \* what aliases are made of
    Listings,   \* answers of the device: sequences of aliases
    Globs,      \* sequences of globs, each a sequence of tokens
    Leftovers,  \* what the stack may have from alias[] on, up to some NUL behind it
    SizeOf      \* sizeof(alias)

NL  == "newline"
NUL == "NUL"

\* A token of a glob, as it is written: a character, a set of them, "?" or "*".
Sets   == {<<"[">> \o SetToSeq(cs) \o <<"]">> : cs \in (SUBSET Chars) \ {{}}}
Tokens == {<<c>> : c \in Chars \cup {"?", "*"}} \cup Sets

ASSUME AliasesAssumption ==
    /\ IsFiniteSet(Chars)
    /\ Chars \cap {NL, NUL, "[", "]", "*", "?"} = {}
    /\ SizeOf \in Nat \ {0}
    /\ Listings \subseteq Seq(Seq(Chars) \ {<<>>})
    /\ Globs \subseteq Seq(Seq(Tokens) \ {<<>>}) \ {<<>>}
    /\ \A b \in Leftovers : /\ b \in Seq(Chars \cup {NL, NUL})
                             /\ Len(b) >= SizeOf /\ Last(b) = NUL

VARIABLES
    listing,  \* the lines of aliases[]
    globs,    \* the arguments from the fourth on
    g,        \* the glob that is being looked for
    n,        \* the line that ap is at
    alias,    \* the array, and the stack behind it
    matched,  \* what strglob() returned
    out       \* the lines written

vars == <<listing, globs, g, n, alias, matched, out>>

-----------------------------------------------------------------------------
(* strglob() *)

\* Mutant: a glob that ends in "*" after the string has ended does not match.
EverythingNoStar(pattern, p) == p > Len(pattern)

\* What is left of the pattern matches anything, the empty string too.
Everything(pattern, p) == p > Len(pattern) \/ (p = Len(pattern) /\ pattern[p] = "*")

\* Where the set that is open at p ends.
Close(pattern, p) ==
    CHOOSE q \in p..Len(pattern) :
        pattern[q] = "]" /\ \A r \in p..(q - 1) : pattern[r] # "]"

\* What the loop makes of str from i and of pattern from p on, where rest says it of the
\* places of pattern behind p.
Goes(str, pattern, rest, i, p) ==
    IF i > Len(str) \/ p > Len(pattern)
    THEN i > Len(str) /\ Everything(pattern, p)
    ELSE CASE pattern[p] = "*" ->
                 \/ i = Len(str) /\ p = Len(pattern)
                 \/ \E j \in i..Len(str) : Everything(pattern, p + 1) \/ rest[<<j, p + 1>>]
           [] pattern[p] = "[" ->
                 LET q == Close(pattern, p)
                 IN  /\ \E r \in (p + 1)..(q - 1) : pattern[r] = str[i]
                     /\ rest[<<i + 1, q + 1>>]
           [] OTHER ->
                 /\ pattern[p] \in {"?", str[i]}
                 /\ rest[<<i + 1, p + 1>>]

strglob(str, pattern) ==
    LET Walk[ip \in (1..(Len(str) + 1)) \X (1..(Len(pattern) + 1))] ==
            Goes(str, pattern, Walk, ip[1], ip[2])
    IN  Everything(pattern, 1) \/ Walk[<<1, 1>>]

-----------------------------------------------------------------------------
(* zc_password_aliases() *)

Glob == FlattenSeq(globs[g])

\* A C string ends at the first NUL.
String(buffer) == SubSeq(buffer, 1, SelectInSeq(buffer, LAMBDA c : c = NUL) - 1)

Line == listing[n] \o <<NL>>

\* Mutant: the newline is not copied.
CopiedBare(line) == [i \in DOMAIN alias |-> IF i < Len(line) THEN line[i] ELSE alias[i]]

\* memcpy(alias, ap, ap_off - ap + 1)
Copied(line) == [i \in DOMAIN alias |-> IF i <= Len(line) THEN line[i] ELSE alias[i]]

\* Mutant: the array is matched before the line is in it.
TryLineEarly ==
    /\ g <= Len(globs) /\ n <= Len(listing)
    /\ Len(Line) < SizeOf
    /\ alias' = Copied(Line)
    /\ matched' = strglob(String(alias), Glob)
    /\ out' = IF matched' THEN Append(out, SubSeq(alias', 1, Len(Line))) ELSE out
    /\ n' = n + 1
    /\ UNCHANGED <<listing, globs, g>>

\* The line is copied, and written if the array matches.
TryLine ==
    /\ g <= Len(globs) /\ n <= Len(listing)
    /\ Len(Line) < SizeOf
    /\ alias' = Copied(Line)
    /\ matched' = strglob(String(alias'), Glob)
    /\ out' = IF matched' THEN Append(out, SubSeq(alias', 1, Len(Line))) ELSE out
    /\ n' = n + 1
    /\ UNCHANGED <<listing, globs, g>>

\* "not enough buffer"
SkipLine ==
    /\ g <= Len(globs) /\ n <= Len(listing)
    /\ Len(Line) >= SizeOf
    /\ n' = n + 1
    /\ UNCHANGED <<listing, globs, g, alias, matched, out>>

\* Mutants: every other argument is left out, the end too; the first glob is taken twice.
NextGlobBySteps ==
    /\ g <= Len(globs) /\ n > Len(listing)
    /\ g' = g + 2
    /\ n' = 1
    /\ UNCHANGED <<listing, globs, alias, matched, out>>
NextGlobAgain ==
    /\ g <= Len(globs) /\ n > Len(listing)
    /\ g' \in {g + 1} \cup (IF g = 1 THEN {1} ELSE {})
    /\ n' = 1
    /\ UNCHANGED <<listing, globs, alias, matched, out>>

NextGlob ==
    /\ g <= Len(globs) /\ n > Len(listing)
    /\ g' = g + 1
    /\ n' = 1
    /\ UNCHANGED <<listing, globs, alias, matched, out>>

Init ==
    /\ listing \in Listings
    /\ globs \in Globs
    /\ g = 1 /\ n = 1
    /\ alias \in Leftovers
    /\ matched = FALSE
    /\ out = <<>>

Next == TryLine \/ SkipLine \/ NextGlob

Spec == Init /\ [][Next]_vars

-----------------------------------------------------------------------------
TypeOK ==
    /\ listing \in Listings /\ globs \in Globs
    /\ g \in 1..(Len(globs) + 1)
    /\ n \in 1..(Len(listing) + 1)
    /\ alias \in Seq(Chars \cup {NL, NUL})
    /\ matched \in BOOLEAN
    /\ out \in Seq(Seq(Chars \cup {NL, NUL}))

\* What a glob means: a way to cut the string into one piece for each of its tokens.
Stands(token, piece) ==
    CASE token = <<"*">> -> TRUE
      [] token = <<"?">> -> Len(piece) = 1
      [] token[1] \in Chars -> piece = token
      [] token[1] = "["  -> Len(piece) = 1 /\ piece[1] \in ToSet(token) \ {"[", "]"}

Matches(str, tokens) ==
    LET T == Len(tokens)
    IN  \E cut \in [0..T -> 0..Len(str)] :
            /\ cut[0] = 0 /\ cut[T] = Len(str)
            /\ \A t \in 1..T : cut[t - 1] <= cut[t]
                               /\ Stands(tokens[t], SubSeq(str, cut[t - 1] + 1, cut[t]))

TwoStars(tokens) == \E t \in 1..(Len(tokens) - 1) : tokens[t] = <<"*">> /\ tokens[t + 1] = <<"*">>

\* strglob(), with its recursion and its loops, finds just what a glob without two stars in a
\* row means of the string that it is given, which is not the alias: the string goes on with
\* the newline and what alias[] held behind it.
StrglobMatches ==
    [][n' = n + 1 /\ Len(Line) < SizeOf /\ ~TwoStars(globs[g])
        => (matched' <=> Matches(String(alias'), globs[g]))]_vars

\* What the string goes on with does not hide an alias from a glob that ends in a star:
\* whatever the glob is before it, two stars in a row excepted, an alias that it means and
\* that fits in the array is found.
StarGlobsFindAll ==
    [][n' = n + 1 /\ Len(Line) < SizeOf /\ ~TwoStars(globs[g]) /\ Last(globs[g]) = <<"*">>
         /\ Matches(listing[n], globs[g]) => matched']_vars

\* A glob that is a beginning and one star.
IsPrefixGlob(tokens) ==
    /\ Last(tokens) = <<"*">>
    /\ \A t \in 1..(Len(tokens) - 1) : Len(tokens[t]) = 1 /\ tokens[t] \notin {<<"*">>, <<"?">>}

\* The lines for the aliases that begin so and fit in the array.
Asked(tokens, a) == IsPrefix(FlattenSeq(Front(tokens)), a) /\ Len(a) + 1 < SizeOf

Listed(tokens) ==
    FlattenSeq([i \in DOMAIN listing |->
                    IF Asked(tokens, listing[i]) THEN <<Append(listing[i], NL)>> ELSE <<>>])

\* With globs of the form "beginning*", the command lists just the aliases that begin so,
\* whatever alias[] held before, in the order of the answer, once for every glob.
PrefixGlobsAreExact ==
    (\A i \in DOMAIN globs : IsPrefixGlob(globs[i])) =>
        LET lines == FlattenSeq([i \in DOMAIN globs |-> Listed(globs[i])])
        IN  /\ IsPrefix(out, lines)
            /\ g > Len(globs) => out = lines

\* Whatever the globs, a line that is written is an alias of the user and nothing of what
\* was in alias[] before.
WrittenIsStored == \A i \in DOMAIN out : \E a \in ToSet(listing) : out[i] = Append(a, NL)
=============================================================================
