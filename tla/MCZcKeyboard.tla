---------------------------- MODULE MCZcKeyboard ----------------------------
(* Instances of ZcKeyboard for TLC. *)
EXTENDS ZcKeyboard

CONSTANT MaxTokens

Marked(c, m)  == <<[base |-> c, mark |-> m]>>
Escaped(c)    == <<Backslash, Plain(c)>>
Number(h, l)  == <<Backslash, Plain("x"), Plain(h), Plain(l)>>

\* Letters, keys with and without shift, every accent, what the escapes are made of, the
\* quote that is typed as an accent and a space, dead keys, and what no key has.
Alphabet ==
    {<<Plain(c)>> : c \in {"a", "A", "1", "x", "#", "quote", "space", "~", "backquote"}}
    \cup {Marked("a", m) : m \in {"acute", "tilde", "diaeresis", "circumflex"}}
    \cup {Marked("C", "acute"), Escaped("\\"), Escaped("n"), Escaped("t"), Escaped("x")}
    \cup {Number("4", "1"), Number("e", "0"), Number("E", "1"), Number("0", "0")}

\* Where the buffer of the demuxer is as long as a byte can say, and longer.
Long == {[i \in 1..n |-> c] : n \in {31, 32, 33}, c \in {<<Plain("a")>>, Marked("a", "acute")}}

\* Lines that end in a lone backslash.
Unfinished == {<<t, <<Backslash>>>> : t \in Alphabet}

\* An escaped x and digits are a number.
Meanable(password) ==
    \A i \in DOMAIN password : password[i] = Escaped("x") => ~DigitsBehind(password, i)

AllPasswords ==
    {password \in UNION {[1..n -> Alphabet] : n \in 1..MaxTokens} : Meanable(password)}
    \cup Long \cup Unfinished

\* The bytes that Alphabet has numbers for.
SomeLatin1 ==
    [b \in 0..255 |->
        CASE b = 0   -> NUL
          [] b = 65  -> Plain("A")
          [] b = 224 -> [base |-> "a", mark |-> "grave"]
          [] b = 225 -> [base |-> "a", mark |-> "acute"]
          [] OTHER   -> Plain("control")]
=============================================================================
