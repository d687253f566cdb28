------------------------------ MODULE ZcKeyboard ------------------------------
(***************************************************************************)
(* A password from the keyboard and back: the line typed at a prompt of    *)
(* "zc password add" is decoded by zacarias_getuserkey(); "zc password     *)
(* get" takes its characters apart (pt_br_latin1_demuxer()), looks up      *)
(* their keys (pt_br_key_mapper()) and presses them (zacarias_sendkeys()). *)
(*                                                                         *)
(* A character is a base and a mark; some bases go by their names.  The    *)
(* keyboard of the X server, ABNT2 with its dead keys, and the window that *)
(* composes their characters are external.  Interruptions are in ZcCommand.*)
(***************************************************************************)
EXTENDS Naturals, Sequences, SequencesExt

CONSTANTS
    Passwords,  \* what users want to write, as sequences of tokens (see Tokens)
    Latin1      \* the character of each byte

Plain(c)    == [base |-> c, mark |-> "none"]
Backslash   == Plain("\\")
Newline     == Plain("newline")
NUL         == Plain("NUL")

\* isxdigit(): the digits, from that of 0 to those of 15.
HexDigits == <<{"0"}, {"1"}, {"2"}, {"3"}, {"4"}, {"5"}, {"6"}, {"7"}, {"8"}, {"9"},
               {"a", "A"}, {"b", "B"}, {"c", "C"}, {"d", "D"}, {"e", "E"}, {"f", "F"}>>
Digits    == {Plain(d) : d \in UNION ToSet(HexDigits)}

VARIABLES
    tokens,   \* the password in the user's mind
    line,     \* as it was typed
    lp,       \* getuserkey()'s place in it
    key,      \* what it has made of it
    ip,       \* the demuxer's place in key, then that of sendkeys() in input
    input,    \* what the demuxer has made of key
    room,     \* the size of its buffer
    anulate,  \* anulate_sh
    dead,     \* the dead key that the window is waiting with
    text,     \* what the window shows
    pc, err

vars == <<tokens, line, lp, key, ip, input, room, anulate, dead, text, pc, err>>

-----------------------------------------------------------------------------
(* zacarias_getuserkey() *)

Nibble(c) == (CHOOSE i \in 1..16 : c.base \in HexDigits[i]) - 1
Byte(h, l) == Nibble(h) * 16 + Nibble(l)

\* Behind the last character there is the newline that ended the line.
At(p) == IF p > Len(line) THEN Newline ELSE line[p]

\* Mutant: the second digit of an escape may not be the last character.
IsHexShort(p) == p + 2 < Len(line) /\ {At(p + 1), At(p + 2)} \subseteq Digits

IsHex(p) == p + 2 <= Len(line) /\ {At(p + 1), At(p + 2)} \subseteq Digits

\* One round of the loop.
DecodeChar ==
    /\ pc = "decode" /\ lp <= Len(line)
    /\ \/ /\ line[lp] # Backslash
          /\ key' = Append(key, line[lp])
          /\ lp' = lp + 1
       \/ LET p == lp + 1
          IN  /\ line[lp] = Backslash
              /\ IF At(p) = Plain("x") /\ IsHex(p)
                 THEN /\ key' = Append(key, Latin1[Byte(At(p + 1), At(p + 2))])
                      /\ lp' = p + 3
                 ELSE /\ key' = Append(key, CASE At(p) = Plain("n") -> Newline
                                              [] At(p) = Plain("t") -> Plain("tab")
                                              [] OTHER              -> At(p))
                      /\ lp' = p + 1
    /\ UNCHANGED <<tokens, line, ip, input, room, anulate, dead, text, pc, err>>

-----------------------------------------------------------------------------
(* pt_br_latin1_demuxer() *)

\* Mutant: the buffer is as long as the password.
RoomOfPlain(size) == size

\* temp_size is a byte.
RoomOf(size) == (size * 8) % 256

Demux ==
    /\ pc = "decode" /\ lp > Len(line)
    /\ pc' = "demux"
    /\ ip' = 1
    /\ room' = RoomOf(Len(key))
    /\ UNCHANGED <<tokens, line, lp, key, input, anulate, dead, text, err>>

\* Mutant: the table has no letters with a tilde.
PassesNoTilde(c) ==
    CASE c.mark = "acute"       -> <<NUL, Plain("backquote"), Plain(c.base)>>
      [] c.mark = "grave"       -> <<Plain("backquote"), Plain(c.base)>>
      [] c.mark = "diaeresis"   -> <<Plain("quote"), Plain(c.base)>>
      [] c.mark = "circumflex"  -> <<Plain("^"), Plain(c.base)>>
      [] c = Plain("quote")     -> <<Plain("quote"), Plain("space")>>
      [] c = NUL                -> <<>>
      [] OTHER                  -> <<c>>

\* demux_passes: the keys that a character is typed with.  A cedilla is an acute accent
\* on its letter.  The sentinel's sequence is a C string, which has nothing of a NUL.
Passes(c) ==
    CASE c.mark = "acute"       -> <<NUL, Plain("backquote"), Plain(c.base)>>
      [] c.mark = "grave"       -> <<Plain("backquote"), Plain(c.base)>>
      [] c.mark = "diaeresis"   -> <<Plain("quote"), Plain(c.base)>>
      [] c.mark = "tilde"       -> <<Plain("~"), Plain(c.base)>>
      [] c.mark = "circumflex"  -> <<Plain("^"), Plain(c.base)>>
      [] c = Plain("quote")     -> <<Plain("quote"), Plain("space")>>
      [] c = NUL                -> <<>>
      [] OTHER                  -> <<c>>

\* A sequence that does not fit is left out, and the loop goes on to the next.
DemuxChar ==
    /\ pc = "demux" /\ ip <= Len(key) /\ Len(input) < room
    /\ LET passes == Passes(key[ip])
       IN  input' = IF Len(input) + Len(passes) < room THEN input \o passes ELSE input
    /\ ip' = ip + 1
    /\ UNCHANGED <<tokens, line, lp, key, room, anulate, dead, text, pc, err>>

-----------------------------------------------------------------------------
(* The keyboard: each key with the character it has with shift, where the mapper knows it. *)

ABNT2 ==
    {<<"1", "!">>, <<"2", "@">>, <<"3", "#">>, <<"4", "$">>, <<"5", "%">>, <<"6", "quote">>,
     <<"7", "&">>, <<"8", "*">>, <<"9", "(">>, <<"0", ")">>, <<"-", "underscore">>, <<"=", "+">>,
     <<"q", "Q">>, <<"w", "W">>, <<"e", "E">>, <<"r", "R">>, <<"t", "T">>, <<"y", "Y">>,
     <<"u", "U">>, <<"i", "I">>, <<"o", "O">>, <<"p", "P">>, <<"[", "leftbrace">>, <<"a", "A">>,
     <<"s", "S">>, <<"d", "D">>, <<"f", "F">>, <<"g", "G">>, <<"h", "H">>, <<"j", "J">>,
     <<"k", "K">>, <<"l", "L">>, <<"~", "^">>, <<"]", "rightbrace">>, <<"\\", "|">>, <<"z", "Z">>,
     <<"x", "X">>, <<"c", "C">>, <<"v", "V">>, <<"b", "B">>, <<"n", "N">>, <<"m", "M">>,
     <<"comma", "<">>, <<".", ">">>, <<"semicolon", ":">>, <<"/", "?">>}

Unshifted == {k[1] : k \in ABNT2} \cup {"'", "backquote", "space"}
Shifted   == {k[2] : k \in ABNT2}

\* pt_br_key_mapper(): which key, and whether with shift.
Supported(c) == c.mark = "none" /\ c.base \in Unshifted \cup Shifted
HoldShift(c) == c.base \in Shifted
KeyOf(c)     == IF HoldShift(c) THEN (CHOOSE k \in ABNT2 : k[2] = c.base)[1] ELSE c.base

\* What the X server makes of a key.  Three are dead: the one of the acute and, with shift,
\* the grave accent; that of tilde and circumflex; and 6 with shift.
Dead(k, shift) ==
    CASE k = "backquote"   -> IF shift THEN "grave" ELSE "acute"
      [] k = "~"           -> IF shift THEN "circumflex" ELSE "tilde"
      [] k = "6" /\ shift  -> "diaeresis"
      [] OTHER             -> "none"

Symbol(k, shift) == Plain(IF shift THEN (CHOOSE p \in ABNT2 : p[1] = k)[2] ELSE k)

\* What the window makes of a dead key and a letter: the letter with its mark, or, of a
\* space, the mark alone; of anything else, nothing.
Bases == [acute |-> {"a", "e", "i", "o", "u", "y", "c", "A", "E", "I", "O", "U", "Y", "C"},
          grave |-> {"a", "e", "i", "o", "u", "A", "E", "I", "O", "U"},
          diaeresis |-> {"a", "e", "i", "o", "u", "y", "A", "E", "I", "O", "U"},
          tilde |-> {"a", "o", "A", "O"},
          circumflex |-> {"a", "e", "i", "o", "u", "A", "E", "I", "O", "U"}]
Alone == [acute |-> "'", grave |-> "backquote", diaeresis |-> "quote", tilde |-> "~", circumflex |-> "^"]

Composed(mark, c) ==
    IF mark = "none" THEN <<c>>
    ELSE CASE c.base \in Bases[mark] -> <<[base |-> c.base, mark |-> mark]>>
           [] c.base = "space"      -> <<Plain(Alone[mark])>>
           [] OTHER                 -> <<>>

Press(k, shift) ==
    IF Dead(k, shift) = "none"
    THEN text' = text \o Composed(dead, Symbol(k, shift)) /\ dead' = "none"
    ELSE /\ text' = IF dead = Dead(k, shift) THEN Append(text, Plain(Alone[dead])) ELSE text
         /\ dead' = IF dead = "none" THEN Dead(k, shift) ELSE "none"

-----------------------------------------------------------------------------
(* zacarias_sendkeys() *)

SendKeys ==
    /\ pc = "demux" /\ (ip > Len(key) \/ Len(input) >= room)
    /\ pc' = "send"
    /\ ip' = 1
    /\ UNCHANGED <<tokens, line, lp, key, input, room, anulate, dead, text, err>>

\* "\000" before a key: it will be pressed without shift.
AnulateShift ==
    /\ pc = "send" /\ ip <= Len(input)
    /\ input[ip] = NUL
    /\ anulate' = TRUE
    /\ ip' = ip + 1
    /\ UNCHANGED <<tokens, line, lp, key, input, room, dead, text, pc, err>>

\* Mutant: nothing resets anulate_sh.
SendKeyAnulated ==
    /\ pc = "send" /\ ip <= Len(input)
    /\ input[ip] # NUL /\ Supported(input[ip])
    /\ Press(KeyOf(input[ip]), HoldShift(input[ip]) /\ ~anulate)
    /\ ip' = ip + 1
    /\ UNCHANGED <<tokens, line, lp, key, input, room, anulate, pc, err>>

SendKey ==
    /\ pc = "send" /\ ip <= Len(input)
    /\ input[ip] # NUL /\ Supported(input[ip])
    /\ Press(KeyOf(input[ip]), HoldShift(input[ip]) /\ ~anulate)
    /\ anulate' = FALSE
    /\ ip' = ip + 1
    /\ UNCHANGED <<tokens, line, lp, key, input, room, pc, err>>

\* The keys before it have been pressed.
UnsupportedSymbol ==
    /\ pc = "send" /\ ip <= Len(input)
    /\ input[ip] # NUL /\ ~Supported(input[ip])
    /\ err' = 1
    /\ pc' = "done"
    /\ UNCHANGED <<tokens, line, lp, key, ip, input, room, anulate, dead, text>>

Finish ==
    /\ pc = "send" /\ ip > Len(input)
    /\ pc' = "done"
    /\ UNCHANGED <<tokens, line, lp, key, ip, input, room, anulate, dead, text, err>>

-----------------------------------------------------------------------------
\* What can be at the prompt: characters that have a key, some that have none, and the
\* letters with marks that the demuxer's table has.
Typed == {Plain(b) : b \in Unshifted \cup Shifted \cup {"tab", "control"}}
         \cup UNION {{[base |-> b, mark |-> m] : b \in Bases[m]} : m \in DOMAIN Bases}

\* A token: a character, an escaped one, or one by its number; of a line, the last one may
\* be a lone backslash.
Tokens == {<<c>> : c \in Typed \ {Backslash}}
          \cup {<<Backslash, c>> : c \in Typed}
          \cup {<<Backslash, Plain("x"), h, l>> : h \in Digits, l \in Digits}

\* Two digits are in the line behind the first i tokens.
DigitsBehind(password, i) ==
    LET all == FlattenSeq(password)
        p   == Len(FlattenSeq(SubSeq(password, 1, i)))
    IN  p + 2 <= Len(all) /\ {all[p + 1], all[p + 2]} \subseteq Digits

\* An escaped x that digits follow is a number: nobody can mean anything else by it.
ASSUME KeyboardAssumption ==
    \A password \in Passwords :
        /\ password \in Seq(Tokens \cup {<<Backslash>>}) /\ password # <<>>
        /\ \A i \in 1..(Len(password) - 1) : password[i] # <<Backslash>>
        /\ \A i \in DOMAIN password :
               password[i] = <<Backslash, Plain("x")>> => ~DigitsBehind(password, i)

ASSUME Latin1Assumption ==
    Latin1 \in [0..255 -> Typed \cup {NUL, Newline}]

Init ==
    /\ tokens \in Passwords
    /\ line = FlattenSeq(tokens)
    /\ lp = 1 /\ key = <<>>
    /\ ip = 1 /\ input = <<>> /\ room = 0
    /\ anulate = FALSE /\ dead = "none"
    /\ text = <<>>
    /\ pc = "decode" /\ err = 0

Next ==
    \/ DecodeChar \/ Demux \/ DemuxChar
    \/ SendKeys \/ AnulateShift \/ SendKey \/ UnsupportedSymbol \/ Finish

Spec == Init /\ [][Next]_vars

-----------------------------------------------------------------------------
Marks == {"none"} \cup DOMAIN Alone
Chars == [base : Unshifted \cup Shifted \cup {"newline", "tab", "NUL", "control"}, mark : Marks]

TypeOK ==
    /\ tokens \in Passwords
    /\ lp \in 1..(Len(line) + 2)
    /\ key \in Seq(Chars)
    /\ ip \in 1..(Len(input) + Len(key) + 1)
    /\ input \in Seq([base : Unshifted \cup Shifted \cup {"newline", "tab", "NUL", "control"},
                      mark : {"none"}])
    /\ room \in 0..255
    /\ anulate \in BOOLEAN /\ dead \in Marks
    /\ text \in Seq(Chars)
    /\ pc \in {"decode", "demux", "send", "done"} /\ err \in 0..1

\* What a user means by a token: a character, an escaped one, or one by its number.  A
\* backslash that nothing follows escapes the newline.
Meaning(token) ==
    CASE Len(token) = 4 -> Latin1[Byte(token[3], token[4])]
      [] Len(token) = 2 -> (CASE token[2] = Plain("n") -> Newline
                              [] token[2] = Plain("t") -> Plain("tab")
                              [] OTHER                 -> token[2])
      [] Len(token) = 1 -> IF token = <<Backslash>> THEN Newline ELSE token[1]

Meant == [i \in DOMAIN tokens |-> Meaning(tokens[i])]

\* The password that is set is the one that was meant: escapes are told from characters
\* wherever they are, next to one another and at the end of the line.
KeyAsMeant == IsPrefix(key, Meant) /\ (pc # "decode" => key = Meant)

\* Passwords that the code types right: shorter than 32 characters, no grave accents (for
\* which it presses the key of the acute one), no lone dead key, and no NUL.
Typable ==
    /\ Len(key) < 32
    /\ \A i \in DOMAIN key : /\ key[i].mark # "grave"
                             /\ key[i] \notin {Plain("backquote"), Plain("~"), Plain("^"), NUL}

\* At no time does the window show anything but the beginning of the password.
TextIsPrefix == pc \in {"send", "done"} /\ Typable => IsPrefix(text, Meant)

\* sendkeys() succeeds just when every character has keys, and then the password is
\* there, whole, with no accent waiting for its letter.
TypedWhole ==
    pc = "done" /\ Typable =>
        /\ err = 0 => text = Meant /\ dead = "none"
        /\ err = 1 => \E i \in DOMAIN key : ~\E c \in ToSet(Passes(key[i])) : Supported(c)
=============================================================================
