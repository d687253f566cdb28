----------------------------- MODULE MCZcAliases -----------------------------
(* Instances of ZcAliases for TLC. *)
EXTENDS ZcAliases

CONSTANT MaxAlias, MaxGlob

UpTo(S, least, most) == UNION {[1..k -> S] : k \in least..most}

\* Two lines, in either order, the same beginning or not; one may be too long.
TwoLines == [1..2 -> UpTo(Chars, 1, MaxAlias)]

\* One glob of any tokens, or two that are short.
SmallGlobs == [1..1 -> UpTo(Tokens, 1, MaxGlob)] \cup [1..2 -> UpTo({<<c>> : c \in Chars \cup {"*"}}, 1, 2)]

\* Nothing, or another string, which ends behind the array.
Stack == {[i \in 1..(SizeOf + 1) |-> IF i < k THEN c ELSE NUL] :
              k \in {1, SizeOf + 1}, c \in Chars}
=============================================================================
