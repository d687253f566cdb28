-------------------------- MODULE ZcKeyboard_proofs --------------------------
(***************************************************************************)
(* A password from the keyboard and back, for any set of passwords of any  *)
(* length that can be at the prompt: what getuserkey() decodes is what was *)
(* meant, and a typable password is typed whole and in order.              *)
(*                                                                         *)
(* The invariant follows the three places. Decoded: the line before lp is  *)
(* what key was made of, token for token. Places: the types, and where the *)
(* parts of the program leave what they share. Sent: what the demuxer has  *)
(* made is the keys of the characters before ip, none left out for want of *)
(* room; and when some of these keys have been pressed, the window has the *)
(* first i characters, and the dead key and anulate_sh are what the o keys *)
(* of the next one that have been sent leave (DeadAt, AnulateAt). So each  *)
(* key can be looked at on its own (KeysOfCharacter).                      *)
(***************************************************************************)
EXTENDS ZcKeyboard, SequenceFacts

\* The keyboard has one character per key, with and without shift.
LEMMA OneToOne ==
    ASSUME NEW p \in ABNT2, NEW q \in ABNT2
    PROVE  /\ p = <<p[1], p[2]>>
           /\ p[1] = q[1] => p = q
           /\ p[2] = q[2] => p = q
BY DEF ABNT2

\* Keys that no character needs shift for.
LEMMA Unshiftables == {"backquote", "~", "'", "space"} \cap Shifted = {}
BY DEF Shifted, ABNT2

\* Keys that the proofs name.
LEMMA Special == /\ <<"~", "^">> \in ABNT2 /\ <<"6", "quote">> \in ABNT2 /\ <<"a", "A">> \in ABNT2
                 /\ <<"\\", "|">> \in ABNT2
                 /\ "quote" \in Shifted /\ "^" \in Shifted /\ "A" \in Shifted /\ "a" \in Unshifted
                 /\ {"~", "backquote", "'", "space"} \subseteq Unshifted
BY DEF ABNT2, Shifted, Unshifted

-----------------------------------------------------------------------------
(* Characters and their keys. *)

Symbols == Unshifted \cup Shifted
Base    == Symbols \cup {"newline", "tab", "NUL", "control"}
Keys    == [base : Base, mark : {"none"}]
Accents == {"acute", "grave", "diaeresis", "tilde", "circumflex"}

\* The characters that a key or the demuxer's table is for, and the control characters.
Letters == {c \in Chars : c.mark = "none" \/ c.base \in Bases[c.mark]}

\* The marks, and the character that each is alone.
LEMMA MarksAre == /\ Marks = {"none"} \cup Accents
                  /\ DOMAIN Bases = Accents
                  /\ \A m \in Accents : Alone[m] \in Symbols
<1>1. /\ Alone["acute"] = "'" /\ Alone["grave"] = "backquote" /\ Alone["diaeresis"] = "quote"
      /\ Alone["tilde"] = "~" /\ Alone["circumflex"] = "^"
  BY DEF Alone
<1>2. DOMAIN Alone = Accents /\ DOMAIN Bases = Accents
  BY DEF Alone, Bases, Accents
<1> QED BY <1>1, <1>2, Special DEF Marks, Symbols, Accents

\* The letters that take a mark have keys, and are no marks themselves.
LEMMA BasesAre ==
    ASSUME NEW m \in Accents
    PROVE  /\ Bases[m] \subseteq Symbols
           /\ Bases[m] \cap {"backquote", "~", "^", "quote", "space"} = {}
<1>1. /\ Bases["acute"] = {"a", "e", "i", "o", "u", "y", "c", "A", "E", "I", "O", "U", "Y", "C"}
      /\ Bases["grave"] = {"a", "e", "i", "o", "u", "A", "E", "I", "O", "U"}
      /\ Bases["diaeresis"] = {"a", "e", "i", "o", "u", "y", "A", "E", "I", "O", "U"}
      /\ Bases["tilde"] = {"a", "o", "A", "O"}
      /\ Bases["circumflex"] = {"a", "e", "i", "o", "u", "A", "E", "I", "O", "U"}
  BY DEF Bases
<1>2. /\ <<"a", "A">> \in ABNT2 /\ <<"e", "E">> \in ABNT2 /\ <<"i", "I">> \in ABNT2
      /\ <<"o", "O">> \in ABNT2 /\ <<"u", "U">> \in ABNT2 /\ <<"y", "Y">> \in ABNT2
      /\ <<"c", "C">> \in ABNT2
  BY DEF ABNT2
<1>3. {"a", "e", "i", "o", "u", "y", "c", "A", "E", "I", "O", "U", "Y", "C"} \subseteq Symbols
  <2>1. {"a", "e", "i", "o", "u", "y", "c"} \subseteq Unshifted
    BY <1>2 DEF Unshifted
  <2>2. {"A", "E", "I", "O", "U", "Y", "C"} \subseteq Shifted
    BY <1>2 DEF Shifted
  <2> QED BY <2>1, <2>2 DEF Symbols
<1>4. Bases[m] \subseteq {"a", "e", "i", "o", "u", "y", "c", "A", "E", "I", "O", "U", "Y", "C"}
  BY <1>1 DEF Accents
<1> QED BY <1>3, <1>4

\* A key gives the character that it was looked up for, or it is dead.
LEMMA KeyGives ==
    ASSUME NEW b \in Symbols
    PROVE  /\ Supported(Plain(b)) /\ Plain(b) # NUL
           /\ KeyOf(Plain(b)) \in Unshifted
           /\ Symbol(KeyOf(Plain(b)), HoldShift(Plain(b))) = Plain(b)
           /\ Dead(KeyOf(Plain(b)), HoldShift(Plain(b))) =
                  IF b = "backquote" THEN "acute" ELSE IF b = "~" THEN "tilde"
                  ELSE IF b = "^" THEN "circumflex" ELSE IF b = "quote" THEN "diaeresis" ELSE "none"
<1> DEFINE c == Plain(b)
<1>1. c.base = b /\ c.mark = "none"
  BY DEF Plain
<1>2. Supported(c)
  BY <1>1 DEF Supported, Symbols
<1>3. c # NUL
  <2>1. "NUL" \notin Symbols
    BY DEF Symbols, Unshifted, Shifted, ABNT2
  <2> QED BY <1>1, <2>1 DEF NUL, Plain
<1>4. CASE b \in Shifted
  <2>1. PICK p \in ABNT2 : p[2] = b
    BY <1>4 DEF Shifted
  <2>2. (CHOOSE k \in ABNT2 : k[2] = b) = p
    BY <2>1, OneToOne
  <2>3. HoldShift(c) /\ KeyOf(c) = p[1] /\ p[1] \in Unshifted
    BY <1>1, <1>4, <2>2 DEF HoldShift, KeyOf, Unshifted
  <2>4. (CHOOSE k \in ABNT2 : k[1] = p[1]) = p
    BY OneToOne
  <2>5. Symbol(p[1], TRUE) = c
    BY <2>1, <2>4 DEF Symbol
  <2>6. b \notin {"backquote", "~", "'", "space"}
    BY <1>4, Unshiftables
  <2>7. p[1] = "~" <=> b = "^"
    BY <2>1, OneToOne, Special
  <2>8. p[1] = "6" <=> b = "quote"
    BY <2>1, OneToOne, Special
  <2>9. p[1] # "backquote"
    BY DEF ABNT2
  <2>10. Dead(p[1], TRUE) = IF b = "^" THEN "circumflex" ELSE IF b = "quote" THEN "diaeresis" ELSE "none"
    <3>1. CASE p[1] = "~"
      BY <2>7, <3>1 DEF Dead
    <3>2. CASE p[1] = "6"
      BY <2>7, <2>8, <3>2 DEF Dead
    <3>3. CASE p[1] # "~" /\ p[1] # "6"
      BY <2>7, <2>8, <2>9, <3>3 DEF Dead
    <3> QED BY <3>1, <3>2, <3>3
  <2> QED BY <1>2, <1>3, <2>3, <2>5, <2>6, <2>10
<1>5. CASE b \notin Shifted
  <2>1. HoldShift(c) = FALSE /\ KeyOf(c) = b /\ b \in Unshifted
    BY <1>1, <1>5 DEF HoldShift, KeyOf, Symbols
  <2>2. Symbol(b, FALSE) = c
    BY DEF Symbol
  <2>3. b # "^" /\ b # "quote"
    BY <1>5, Special
  <2>4. Dead(b, FALSE) = IF b = "backquote" THEN "acute" ELSE IF b = "~" THEN "tilde" ELSE "none"
    <3>1. CASE b = "backquote"
      BY <3>1 DEF Dead
    <3>2. CASE b = "~"
      BY <3>2 DEF Dead
    <3>3. CASE b # "~" /\ b # "backquote"
      BY <3>3 DEF Dead
    <3> QED BY <3>1, <3>2, <3>3
  <2> QED BY <1>2, <1>3, <2>1, <2>2, <2>3, <2>4
<1> QED BY <1>4, <1>5

\* Whatever is waiting, and with shift or without it, a key leaves characters and a mark.
LEMMA PressType ==
    ASSUME text \in Seq(Chars), dead \in Marks, NEW c \in Keys, Supported(c),
           NEW shift \in BOOLEAN, shift => HoldShift(c), Press(KeyOf(c), shift)
    PROVE  text' \in Seq(Chars) /\ dead' \in Marks
<1> DEFINE k == KeyOf(c)
           x == Symbol(k, shift)
<1>1. c = Plain(c.base) /\ c.base \in Symbols
  BY DEF Supported, Keys, Plain, Symbols
<1>2. k \in Unshifted /\ Symbol(k, HoldShift(c)) = c
  BY <1>1, KeyGives
<1>3. \E b \in Symbols : x = Plain(b)
  <2>1. CASE shift
    <3>1. HoldShift(c)
      BY <2>1
    <3>2. x = c
      BY <1>2, <2>1, <3>1 DEF Symbol
    <3> QED BY <1>1, <3>2
  <2>2. CASE ~shift
    BY <1>2, <2>2 DEF Symbol, Symbols
  <2> QED BY <2>1, <2>2
<1>4. \A b \in Symbols, m \in Marks : [base |-> b, mark |-> m] \in Chars
  BY DEF Chars, Symbols
<1>5. Dead(k, shift) \in Marks
  <2>1. Dead(k, shift) \in {"grave", "acute", "circumflex", "tilde", "diaeresis", "none"}
    BY DEF Dead
  <2> QED BY <2>1, MarksAre DEF Accents
<1>6. "none" \in Marks
  BY DEF Marks
<1>7. ASSUME NEW m \in Marks, m # "none" PROVE Plain(Alone[m]) \in Chars
  <2>1. Alone[m] \in Symbols
    BY <1>7, MarksAre
  <2> QED BY <1>4, <1>6, <2>1 DEF Plain
<1>8. Composed(dead, x) \in Seq(Chars)
  <2>1. PICK b \in Symbols : x = Plain(b)
    BY <1>3
  <2>2. x \in Chars /\ x.base = b
    BY <1>4, <1>6, <2>1 DEF Plain
  <2>3. \A e \in Chars : <<e>> \in Seq(Chars)
    OBVIOUS
  <2>4. <<>> \in Seq(Chars)
    BY EmptySeq
  <2>5. [base |-> x.base, mark |-> dead] \in Chars
    BY <1>4, <2>2
  <2> HIDE DEF x
  <2>6. CASE dead = "none"
    BY <2>2, <2>3, <2>6 DEF Composed
  <2>7. CASE dead # "none"
    <3>1. Plain(Alone[dead]) \in Chars
      BY <1>7, <2>7
    <3>2. \/ Composed(dead, x) = <<[base |-> x.base, mark |-> dead]>>
          \/ Composed(dead, x) = <<Plain(Alone[dead])>>
          \/ Composed(dead, x) = <<>>
      BY <2>7 DEF Composed
    <3> QED BY <2>3, <2>4, <2>5, <3>1, <3>2
  <2> QED BY <2>6, <2>7
<1>9. CASE Dead(k, shift) = "none"
  <2>1. text' = text \o Composed(dead, x) /\ dead' = "none"
    BY <1>9 DEF Press
  <2> HIDE DEF x
  <2> QED BY <1>6, <1>8, <2>1, ConcatProperties
<1>10. CASE Dead(k, shift) # "none"
  <2>1. /\ text' = IF dead = Dead(k, shift) THEN Append(text, Plain(Alone[dead])) ELSE text
        /\ dead' = IF dead = "none" THEN Dead(k, shift) ELSE "none"
    BY <1>10 DEF Press
  <2>2. dead' \in Marks
    BY <1>5, <1>6, <2>1
  <2>3. dead = Dead(k, shift) => Plain(Alone[dead]) \in Chars
    BY <1>7, <1>10
  <2>4. text' \in Seq(Chars)
    <3>1. CASE dead = Dead(k, shift)
      BY <2>1, <2>3, <3>1, AppendProperties
    <3>2. CASE dead # Dead(k, shift)
      BY <2>1, <3>2
    <3> QED BY <3>1, <3>2
  <2> QED BY <2>2, <2>4
<1> QED BY <1>9, <1>10

\* demux_passes, case by case.
LEMMA PassesAre ==
    ASSUME NEW c \in Chars
    PROVE  /\ c.mark = "acute" => Passes(c) = <<NUL, Plain("backquote"), Plain(c.base)>>
           /\ c.mark = "grave" => Passes(c) = <<Plain("backquote"), Plain(c.base)>>
           /\ c.mark = "diaeresis" => Passes(c) = <<Plain("quote"), Plain(c.base)>>
           /\ c.mark = "tilde" => Passes(c) = <<Plain("~"), Plain(c.base)>>
           /\ c.mark = "circumflex" => Passes(c) = <<Plain("^"), Plain(c.base)>>
           /\ c = Plain("quote") => Passes(c) = <<Plain("quote"), Plain("space")>>
           /\ c = NUL => Passes(c) = <<>>
           /\ c.mark = "none" /\ c # Plain("quote") /\ c # NUL => Passes(c) = <<c>>
<1>1. c.mark = "acute" => Passes(c) = <<NUL, Plain("backquote"), Plain(c.base)>>
  BY DEF Passes, Plain, NUL
<1>2. c.mark = "grave" => Passes(c) = <<Plain("backquote"), Plain(c.base)>>
  BY DEF Passes, Plain, NUL
<1>3. c.mark = "diaeresis" => Passes(c) = <<Plain("quote"), Plain(c.base)>>
  BY DEF Passes, Plain, NUL
<1>4. c.mark = "tilde" => Passes(c) = <<Plain("~"), Plain(c.base)>>
  BY DEF Passes, Plain, NUL
<1>5. c.mark = "circumflex" => Passes(c) = <<Plain("^"), Plain(c.base)>>
  BY DEF Passes, Plain, NUL
<1>6. c = Plain("quote") => Passes(c) = <<Plain("quote"), Plain("space")>>
  BY DEF Passes, Plain, NUL
<1>7. c = NUL => Passes(c) = <<>>
  BY DEF Passes, Plain, NUL
<1>8. c.mark = "none" /\ c # Plain("quote") /\ c # NUL => Passes(c) = <<c>>
  BY DEF Passes
<1> QED BY <1>1, <1>2, <1>3, <1>4, <1>5, <1>6, <1>7, <1>8

\* The demuxer makes at most three keys of a character.
LEMMA PassesType ==
    ASSUME NEW c \in Chars
    PROVE  Passes(c) \in Seq(Keys) /\ Len(Passes(c)) \in 0..3
<1>1. c.base \in Base /\ c.mark \in Marks /\ c = [base |-> c.base, mark |-> c.mark]
  BY DEF Chars, Base, Symbols
<1>2. \A b \in Base : Plain(b) \in Keys
  BY DEF Plain, Keys
<1>3. {"backquote", "quote", "~", "^", "space", "NUL"} \subseteq Base
  BY Special DEF Base, Symbols
<1>4. /\ NUL \in Keys /\ Plain("backquote") \in Keys /\ Plain("quote") \in Keys
      /\ Plain("~") \in Keys /\ Plain("^") \in Keys /\ Plain("space") \in Keys /\ Plain(c.base) \in Keys
  BY <1>1, <1>2, <1>3 DEF NUL
<1> DEFINE Fits(q) == q \in Seq(Keys) /\ Len(q) \in 0..3
<1>5. ASSUME NEW x \in Keys, NEW y \in Keys, NEW z \in Keys
      PROVE  Fits(<<x, y, z>>) /\ Fits(<<x, y>>) /\ Fits(<<x>>)
  OBVIOUS
<1>6. Fits(<<>>)
  OBVIOUS
<1>7. c.mark = "none" => c \in Keys
  BY <1>1, MarksAre DEF Keys
<1>8. c.mark \in {"none", "acute", "grave", "diaeresis", "tilde", "circumflex"}
  BY <1>1, MarksAre DEF Accents
<1> HIDE DEF Fits
<1>9. CASE c.mark = "acute"
  <2>1. Fits(<<NUL, Plain("backquote"), Plain(c.base)>>)
    BY <1>4, <1>5
  <2> QED BY <1>9, <2>1, PassesAre DEF Fits
<1>10. CASE c.mark = "grave"
  <2>1. Fits(<<Plain("backquote"), Plain(c.base)>>)
    BY <1>4, <1>5
  <2> QED BY <1>10, <2>1, PassesAre DEF Fits
<1>11. CASE c.mark = "diaeresis"
  <2>1. Fits(<<Plain("quote"), Plain(c.base)>>)
    BY <1>4, <1>5
  <2> QED BY <1>11, <2>1, PassesAre DEF Fits
<1>12. CASE c.mark = "tilde"
  <2>1. Fits(<<Plain("~"), Plain(c.base)>>)
    BY <1>4, <1>5
  <2> QED BY <1>12, <2>1, PassesAre DEF Fits
<1>13. CASE c.mark = "circumflex"
  <2>1. Fits(<<Plain("^"), Plain(c.base)>>)
    BY <1>4, <1>5
  <2> QED BY <1>13, <2>1, PassesAre DEF Fits
<1>14. CASE c.mark = "none"
  <2>1. Fits(<<Plain("quote"), Plain("space")>>) /\ Fits(<<c>>)
    BY <1>4, <1>5, <1>7, <1>14
  <2> QED BY <1>6, <1>14, <2>1, PassesAre DEF Fits
<1> QED BY <1>8, <1>9, <1>10, <1>11, <1>12, <1>13, <1>14

-----------------------------------------------------------------------------
(* Tokens and what they mean. *)

Lone     == <<Backslash>>
AnyToken == Tokens \cup {Lone}

\* What is typed at the prompt are letters.
LEMMA TypedAre == /\ Typed \subseteq Letters
                  /\ Backslash \in Typed /\ Plain("x") \in Typed /\ Digits \subseteq Typed
<1>1. \A b \in Base : Plain(b) \in Letters
  <2>1. "none" \in Marks
    BY DEF Marks
  <2> QED BY <2>1 DEF Plain, Letters, Chars, Base, Symbols
<1>2. ASSUME NEW m \in Accents, NEW b \in Bases[m] PROVE [base |-> b, mark |-> m] \in Letters
  <2>1. b \in Symbols /\ m \in Marks
    BY <1>2, BasesAre, MarksAre
  <2>2. [base |-> b, mark |-> m] \in Chars
    BY <2>1 DEF Chars, Symbols
  <2> QED BY <2>2 DEF Letters
<1>3. Typed \subseteq Letters
  <2> SUFFICES ASSUME NEW c \in Typed PROVE c \in Letters
    OBVIOUS
  <2>1. CASE c \in {Plain(b) : b \in Unshifted \cup Shifted \cup {"tab", "control"}}
    BY <1>1, <2>1 DEF Base, Symbols
  <2>2. CASE c \in UNION {{[base |-> b, mark |-> m] : b \in Bases[m]} : m \in DOMAIN Bases}
    BY <1>2, <2>2, MarksAre
  <2> QED BY <2>1, <2>2 DEF Typed
<1>4. {"\\", "x"} \subseteq Symbols /\ \A d \in UNION ToSet(HexDigits) : d \in Symbols
  <2>1. /\ <<"\\", "|">> \in ABNT2 /\ <<"x", "X">> \in ABNT2 /\ <<"0", ")">> \in ABNT2
        /\ <<"1", "!">> \in ABNT2 /\ <<"2", "@">> \in ABNT2 /\ <<"3", "#">> \in ABNT2
        /\ <<"4", "$">> \in ABNT2 /\ <<"5", "%">> \in ABNT2 /\ <<"6", "quote">> \in ABNT2
        /\ <<"7", "&">> \in ABNT2 /\ <<"8", "*">> \in ABNT2 /\ <<"9", "(">> \in ABNT2
        /\ <<"a", "A">> \in ABNT2 /\ <<"b", "B">> \in ABNT2 /\ <<"c", "C">> \in ABNT2
        /\ <<"d", "D">> \in ABNT2 /\ <<"e", "E">> \in ABNT2 /\ <<"f", "F">> \in ABNT2
    BY DEF ABNT2
  <2>2. {"\\", "x", "0", "1", "2", "3", "4", "5", "6", "7", "8", "9", "a", "b", "c", "d", "e", "f"}
            \subseteq Unshifted
    BY <2>1 DEF Unshifted
  <2>3. {"A", "B", "C", "D", "E", "F"} \subseteq Shifted
    BY <2>1 DEF Shifted
  <2>4. \A d \in UNION ToSet(HexDigits) :
            d \in {"0", "1", "2", "3", "4", "5", "6", "7", "8", "9", "a", "b", "c", "d", "e", "f",
                   "A", "B", "C", "D", "E", "F"}
    BY DEF ToSet, HexDigits
  <2> QED BY <2>2, <2>3, <2>4 DEF Symbols
<1>5. \A b \in Symbols : Plain(b) \in Typed
  BY DEF Typed, Symbols
<1>6. Digits \subseteq Typed
  BY <1>4, <1>5 DEF Digits
<1>7. Backslash \in Typed /\ Plain("x") \in Typed
  BY <1>4, <1>5 DEF Backslash
<1> QED BY <1>3, <1>6, <1>7

\* A number in an escape gives a letter or a control character.
LEMMA Latin1Type == ASSUME NEW h \in Digits, NEW l \in Digits PROVE Latin1[Byte(h, l)] \in Letters
<1>1. ASSUME NEW d \in Digits PROVE Nibble(d) \in 0..15
  <2>1. PICK i \in 1..16 : d.base \in HexDigits[i]
    <3>1. DOMAIN HexDigits = 1..16
      BY DEF HexDigits
    <3>2. PICK b \in UNION ToSet(HexDigits) : d = Plain(b)
      BY <1>1 DEF Digits
    <3>3. PICK i \in DOMAIN HexDigits : b \in HexDigits[i]
      BY <3>2 DEF ToSet
    <3>4. d.base = b
      BY <3>2 DEF Plain
    <3> QED BY <3>1, <3>3, <3>4
  <2> DEFINE n == CHOOSE k \in 1..16 : d.base \in HexDigits[k]
  <2>2. n \in 1..16
    BY <2>1
  <2>3. Nibble(d) = n - 1
    BY DEF Nibble
  <2> HIDE DEF n
  <2> QED BY <2>2, <2>3
<1>2. Byte(h, l) \in 0..255
  <2>1. Nibble(h) \in 0..15 /\ Nibble(l) \in 0..15
    BY <1>1
  <2> QED BY <2>1 DEF Byte
<1>3. Latin1[Byte(h, l)] \in Typed \cup {NUL, Newline}
  BY <1>2, Latin1Assumption
<1>4. NUL \in Letters /\ Newline \in Letters
  <2>1. "none" \in Marks
    BY DEF Marks
  <2> QED BY <2>1 DEF NUL, Newline, Plain, Letters, Chars
<1> QED BY <1>3, <1>4, TypedAre

\* What a token of the line can be.
LEMMA TokenIs ==
    ASSUME NEW token \in AnyToken
    PROVE  /\ token \in Seq(Typed) /\ Len(token) \in 1..4
           /\ \/ \E c \in Typed \ {Backslash} : token = <<c>>
              \/ token = Lone
              \/ \E c \in Typed : token = <<Backslash, c>>
              \/ \E h \in Digits, l \in Digits : token = <<Backslash, Plain("x"), h, l>>
<1> DEFINE Fits(q) == q \in Seq(Typed) /\ Len(q) \in 1..4
<1>1. ASSUME NEW c \in Typed, NEW d \in Typed, NEW e \in Typed, NEW f \in Typed
      PROVE  Fits(<<c>>) /\ Fits(<<c, d>>) /\ Fits(<<c, d, e, f>>)
  OBVIOUS
<1> HIDE DEF Fits
<1>2. /\ Backslash \in Typed /\ Plain("x") \in Typed
      /\ \A d : d \in Digits => d \in Typed
  BY TypedAre
<1>3. CASE \E c \in Typed \ {Backslash} : token = <<c>>
  <2>1. Fits(token)
    BY <1>1, <1>3
  <2> QED BY <1>3, <2>1 DEF Fits
<1>4. CASE token = Lone
  <2>1. Fits(token)
    BY <1>1, <1>2, <1>4 DEF Lone
  <2> QED BY <1>4, <2>1 DEF Fits
<1>5. CASE \E c \in Typed : token = <<Backslash, c>>
  <2>1. Fits(token)
    BY <1>1, <1>2, <1>5
  <2> QED BY <1>5, <2>1 DEF Fits
<1>6. CASE \E h \in Digits, l \in Digits : token = <<Backslash, Plain("x"), h, l>>
  <2>1. Fits(token)
    BY <1>1, <1>2, <1>6
  <2> QED BY <1>6, <2>1 DEF Fits
<1>7. token \in Tokens \/ token = Lone
  BY DEF AnyToken
<1>8. ASSUME token \in Tokens
      PROVE  \/ \E c \in Typed \ {Backslash} : token = <<c>>
             \/ \E c \in Typed : token = <<Backslash, c>>
             \/ \E h \in Digits, l \in Digits : token = <<Backslash, Plain("x"), h, l>>
  BY <1>8 DEF Tokens
<1> QED BY <1>3, <1>4, <1>5, <1>6, <1>7, <1>8

\* What each kind of token means.
LEMMA MeaningIs ==
    /\ \A c : <<c>> # Lone => Meaning(<<c>>) = c
    /\ Meaning(Lone) = Newline
    /\ \A c : Meaning(<<Backslash, c>>) = CASE c = Plain("n") -> Newline
                                            [] c = Plain("t") -> Plain("tab")
                                            [] OTHER          -> c
    /\ \A h, l : Meaning(<<Backslash, Plain("x"), h, l>>) = Latin1[Byte(h, l)]
<1>1. ASSUME NEW c, NEW d, NEW e, NEW f
      PROVE  /\ Len(<<c>>) = 1 /\ Len(<<c, d>>) = 2 /\ Len(<<c, d, e, f>>) = 4
             /\ <<c>>[1] = c /\ <<c, d>>[2] = d /\ <<c, d, e, f>>[3] = e /\ <<c, d, e, f>>[4] = f
  OBVIOUS
<1>2. ASSUME NEW c, <<c>> # Lone PROVE Meaning(<<c>>) = c
  BY <1>1, <1>2 DEF Meaning, Lone
<1>3. Meaning(Lone) = Newline
  BY <1>1 DEF Meaning, Lone
<1>4. ASSUME NEW c
      PROVE  Meaning(<<Backslash, c>>) = CASE c = Plain("n") -> Newline
                                           [] c = Plain("t") -> Plain("tab")
                                           [] OTHER          -> c
  <2> DEFINE t == <<Backslash, c>>
  <2>1. Len(t) = 2 /\ t[2] = c
    BY <1>1
  <2> HIDE DEF t
  <2>2. Meaning(t) = CASE c = Plain("n") -> Newline
                       [] c = Plain("t") -> Plain("tab")
                       [] OTHER          -> c
    BY <2>1 DEF Meaning
  <2> QED BY <2>2 DEF t
<1>5. ASSUME NEW h, NEW l
      PROVE  Meaning(<<Backslash, Plain("x"), h, l>>) = Latin1[Byte(h, l)]
  <2> DEFINE t == <<Backslash, Plain("x"), h, l>>
  <2>1. Len(t) = 4 /\ t[3] = h /\ t[4] = l
    BY <1>1
  <2> HIDE DEF t
  <2>2. Meaning(t) = Latin1[Byte(h, l)]
    BY <2>1 DEF Meaning
  <2> QED BY <2>2 DEF t
<1> QED BY <1>2, <1>3, <1>4, <1>5

\* What is meant by a token is a character.
LEMMA MeaningType == ASSUME NEW token \in AnyToken PROVE Meaning(token) \in Letters
<1>1. \A c \in Typed : c \in Letters
  BY TypedAre
<1>2. Newline \in Letters /\ Plain("tab") \in Letters
  <2>1. "none" \in Marks
    BY DEF Marks
  <2> QED BY <2>1 DEF Newline, Plain, Letters, Chars
<1>3. CASE \E c \in Typed \ {Backslash} : token = <<c>>
  <2>1. PICK c \in Typed \ {Backslash} : token = <<c>>
    BY <1>3
  <2>2. <<c>> # Lone
    BY DEF Lone
  <2> QED BY <1>1, <2>1, <2>2, MeaningIs
<1>4. CASE token = Lone
  BY <1>2, <1>4, MeaningIs
<1>5. CASE \E c \in Typed : token = <<Backslash, c>>
  <2>1. PICK c \in Typed : token = <<Backslash, c>>
    BY <1>5
  <2>2. Meaning(token) = CASE c = Plain("n") -> Newline
                           [] c = Plain("t") -> Plain("tab")
                           [] OTHER          -> c
    BY <2>1, MeaningIs
  <2> QED BY <1>1, <1>2, <2>1, <2>2
<1>6. CASE \E h \in Digits, l \in Digits : token = <<Backslash, Plain("x"), h, l>>
  BY <1>6, MeaningIs, Latin1Type
<1> QED BY <1>3, <1>4, <1>5, <1>6, TokenIs

-----------------------------------------------------------------------------
(* zacarias_getuserkey(): the part of the line before lp is what key was made of. *)

Decoded ==
    /\ tokens \in Passwords /\ line = FlattenSeq(tokens)
    /\ key \in Seq(Letters) /\ Len(key) <= Len(tokens)
    /\ \A i \in 1..Len(key) : key[i] = Meaning(tokens[i])
    /\ \/ lp = Len(First(tokens, Len(key))) + 1
       \/ Len(key) = Len(tokens) /\ lp = Len(line) + 2

\* What the assumption says of a password, and of its line.
LEMMA PasswordIs ==
    ASSUME NEW p \in Passwords
    PROVE  /\ p \in Seq(AnyToken) /\ p \in Seq(Seq(Typed)) /\ Len(p) \in Nat \ {0}
           /\ FlattenSeq(p) \in Seq(Typed)
           /\ \A i \in 1..(Len(p) - 1) : p[i] # Lone
           /\ \A i \in 1..Len(p) : p[i] = <<Backslash, Plain("x")>> => ~DigitsBehind(p, i)
<1>1. /\ p \in Seq(AnyToken) /\ p # <<>> /\ \A i \in 1..(Len(p) - 1) : p[i] # Lone
      /\ \A i \in DOMAIN p : p[i] = <<Backslash, Plain("x")>> => ~DigitsBehind(p, i)
  BY KeyboardAssumption DEF AnyToken, Lone
<1>2. p \in Seq(Seq(Typed))
  <2>1. AnyToken \subseteq Seq(Typed)
    BY TokenIs
  <2> QED BY <1>1, <2>1, SeqMonotonic
<1>3. Len(p) \in Nat \ {0} /\ DOMAIN p = 1..Len(p)
  BY <1>1
<1>4. FlattenSeq(p) \in Seq(Typed)
  BY <1>2, FlattenType
<1> QED BY <1>1, <1>2, <1>3, <1>4

\* Where the token is that the loop is at.
LEMMA AtToken ==
    ASSUME Decoded, lp <= Len(line)
    PROVE  /\ Len(key) \in Nat /\ Len(key) < Len(tokens) /\ lp \in Nat \ {0} /\ Len(line) \in Nat
           /\ tokens[Len(key) + 1] \in AnyToken /\ Len(tokens[Len(key) + 1]) \in 1..4
           /\ Len(First(tokens, Len(key) + 1)) + 1 = lp + Len(tokens[Len(key) + 1])
           /\ lp + Len(tokens[Len(key) + 1]) <= Len(line) + 1
           /\ \A j \in 1..Len(tokens[Len(key) + 1]) : line[lp + j - 1] = tokens[Len(key) + 1][j]
           /\ tokens[Len(key) + 1] = Lone => Len(key) + 1 = Len(tokens) /\ lp = Len(line)
           /\ tokens[Len(key) + 1] = <<Backslash, Plain("x")>> => ~IsHex(lp + 1)
<1> DEFINE k == Len(key)
           T == Len(tokens)
           token == tokens[k + 1]
<1>1. /\ tokens \in Seq(AnyToken) /\ tokens \in Seq(Seq(Typed)) /\ T \in Nat \ {0}
      /\ line \in Seq(Typed) /\ \A i \in 1..(T - 1) : tokens[i] # Lone
  BY PasswordIs DEF Decoded
<1>2. Len(line) \in Nat /\ k \in Nat /\ k <= T
  BY <1>1 DEF Decoded
<1>3. lp = Len(First(tokens, k)) + 1
  BY <1>2 DEF Decoded
<1>4. First(tokens, T) = line
  BY <1>1, FirstAll DEF Decoded
<1>5. k < T
  BY <1>1, <1>2, <1>3, <1>4
<1>6. k + 1 \in 1..T /\ (k + 1) - 1 = k /\ token \in AnyToken
  BY <1>1, <1>2, <1>5
<1>7. Len(token) \in 1..4
  BY <1>6, TokenIs
<1>8. /\ Len(First(tokens, k)) \in Nat
      /\ Len(First(tokens, k + 1)) = Len(First(tokens, k)) + Len(token)
      /\ Len(First(tokens, k + 1)) <= Len(line)
      /\ \A j \in 1..Len(token) : line[Len(First(tokens, k)) + j] = token[j]
  <2>1. /\ Len(First(tokens, (k + 1) - 1)) \in Nat
        /\ Len(First(tokens, k + 1)) = Len(First(tokens, (k + 1) - 1)) + Len(token)
        /\ Len(First(tokens, k + 1)) <= Len(FlattenSeq(tokens))
        /\ \A j \in 1..Len(token) : FlattenSeq(tokens)[Len(First(tokens, (k + 1) - 1)) + j] = token[j]
    BY <1>1, <1>6, FirstPlaces
  <2> QED BY <1>6, <2>1 DEF Decoded
<1> HIDE DEF k, T, token
<1>9. ASSUME token = Lone PROVE k + 1 = T /\ lp = Len(line)
  <2>1. k + 1 = T
    BY <1>1, <1>2, <1>5, <1>6, <1>9 DEF token
  <2>2. Len(token) = 1
    BY <1>9 DEF Lone
  <2> QED BY <1>3, <1>4, <1>8, <2>1, <2>2
<1>10. \A j \in 1..Len(token) : lp + j - 1 = Len(First(tokens, k)) + j
  BY <1>3, <1>7, <1>8
<1>11. /\ lp \in Nat \ {0} /\ Len(First(tokens, k + 1)) + 1 = lp + Len(token)
       /\ lp + Len(token) <= Len(line) + 1
  <2> DEFINE a == Len(First(tokens, k))
             b == Len(First(tokens, k + 1))
             c == Len(token)
             d == Len(line)
  <2>1. lp = a + 1 /\ a \in Nat /\ b = a + c /\ b <= d /\ c \in Nat /\ d \in Nat
    BY <1>2, <1>3, <1>7, <1>8
  <2> HIDE DEF a, b, c, d
  <2>2. lp \in Nat \ {0} /\ b + 1 = lp + c /\ lp + c <= d + 1
    BY <2>1
  <2> QED BY <2>2 DEF a, b, c, d
<1>12. ASSUME token = <<Backslash, Plain("x")>> PROVE ~IsHex(lp + 1)
  <2> DEFINE a == Len(First(tokens, k + 1))
             p == lp + 1
  <2>1. Len(token) = 2
    BY <1>12
  <2>2. p = a /\ a \in Nat
    BY <1>3, <1>8, <2>1
  <2>3. ~(a + 2 <= Len(line) /\ {line[a + 1], line[a + 2]} \subseteq Digits)
    <3>1. ~DigitsBehind(tokens, k + 1)
      BY <1>6, <1>12, PasswordIs DEF Decoded, token, T
    <3> QED BY <3>1 DEF DigitsBehind, First, Decoded
  <2> HIDE DEF a, p
  <2>4. ASSUME p + 2 <= Len(line) PROVE At(p + 1) = line[p + 1] /\ At(p + 2) = line[p + 2]
    <3>1. ~(p + 1 > Len(line)) /\ ~(p + 2 > Len(line))
      BY <1>2, <2>2, <2>4
    <3> QED BY <3>1 DEF At
  <2>5. ~IsHex(p)
    BY <2>2, <2>3, <2>4 DEF IsHex
  <2> QED BY <2>5 DEF p
<1> QED BY <1>2, <1>5, <1>6, <1>7, <1>8, <1>9, <1>10, <1>11, <1>12 DEF k, T, token

\* One round of the loop makes of the token what it means.
LEMMA DecodeToken ==
    ASSUME Decoded, lp <= Len(line), DecodeChar
    PROVE  /\ key' = Append(key, Meaning(tokens[Len(key) + 1]))
           /\ \/ lp' = Len(First(tokens, Len(key) + 1)) + 1
              \/ Len(key) + 1 = Len(tokens) /\ lp' = Len(line) + 2
<1> DEFINE token == tokens[Len(key) + 1]
           after == Len(First(tokens, Len(key) + 1)) + 1
<1> HIDE DEF token, after
<1>1. /\ lp \in Nat \ {0} /\ Len(line) \in Nat /\ token \in AnyToken /\ Len(token) \in 1..4
      /\ after = lp + Len(token) /\ after <= Len(line) + 1
      /\ \A j \in 1..Len(token) : line[lp + j - 1] = token[j]
      /\ token = Lone => Len(key) + 1 = Len(tokens) /\ lp = Len(line)
      /\ token = <<Backslash, Plain("x")>> => ~IsHex(lp + 1)
  BY AtToken DEF token, after
<1> SUFFICES /\ key' = Append(key, Meaning(token))
             /\ lp' = after \/ (Len(key) + 1 = Len(tokens) /\ lp' = Len(line) + 2)
  BY DEF token, after
<1>2. line[lp] = token[1]
  <2>1. Len(token) \in 1..4 /\ lp \in Nat
    BY <1>1
  <2>2. 1 \in 1..Len(token) /\ lp + 1 - 1 = lp
    BY <2>1
  <2> QED BY <1>1, <2>2
<1> DEFINE p == lp + 1
           Escape == CASE At(p) = Plain("n") -> Newline
                       [] At(p) = Plain("t") -> Plain("tab")
                       [] OTHER              -> At(p)
<1>3. ASSUME line[lp] # Backslash PROVE key' = Append(key, line[lp]) /\ lp' = lp + 1
  BY <1>3 DEF DecodeChar
<1>4. ASSUME line[lp] = Backslash
      PROVE  IF At(p) = Plain("x") /\ IsHex(p)
             THEN key' = Append(key, Latin1[Byte(At(p + 1), At(p + 2))]) /\ lp' = p + 3
             ELSE key' = Append(key, Escape) /\ lp' = p + 1
  BY <1>4 DEF DecodeChar
<1>5. p \in Nat /\ p + 1 \in Nat /\ p + 2 \in Nat
  BY <1>1
<1>6. Plain("x") # Newline /\ Plain("n") # Newline /\ Plain("t") # Newline
  BY DEF Plain, Newline
<1> HIDE DEF p, Escape
<1>7. CASE \E c \in Typed \ {Backslash} : token = <<c>>
  <2>1. PICK c \in Typed \ {Backslash} : token = <<c>>
    BY <1>7
  <2>2. token[1] = c /\ Len(token) = 1 /\ <<c>> # Lone
    BY <2>1 DEF Lone
  <2>3. Meaning(token) = c
    BY <2>1, <2>2, MeaningIs
  <2> QED BY <1>1, <1>2, <1>3, <2>1, <2>2, <2>3
<1>8. CASE token = Lone
  <2>1. token[1] = Backslash
    BY <1>8 DEF Lone
  <2>2. At(p) = Newline
    <3>1. p > Len(line)
      BY <1>1, <1>8 DEF p
    <3> QED BY <3>1 DEF At
  <2>3. key' = Append(key, Escape) /\ lp' = p + 1
    BY <1>2, <1>4, <1>6, <2>1, <2>2
  <2>4. Escape = Newline
    BY <1>6, <2>2 DEF Escape
  <2>5. lp' = Len(line) + 2
    BY <1>1, <1>8, <2>3 DEF p
  <2> QED BY <1>1, <1>8, <2>3, <2>4, <2>5, MeaningIs
<1>9. CASE \E c \in Typed : token = <<Backslash, c>>
  <2>1. PICK c \in Typed : token = <<Backslash, c>>
    BY <1>9
  <2>2. token[1] = Backslash /\ token[2] = c /\ Len(token) = 2
    BY <2>1
  <2>3. At(p) = c
    <3>1. 2 \in 1..Len(token) /\ lp + 2 - 1 = p /\ ~(p > Len(line))
      BY <1>1, <2>2 DEF p
    <3>2. line[p] = c
      BY <1>1, <2>2, <3>1
    <3> QED BY <3>1, <3>2 DEF At
  <2>4. key' = Append(key, Escape) /\ lp' = p + 1
    <3>1. c = Plain("x") => ~IsHex(p)
      BY <1>1, <2>1 DEF p
    <3> QED BY <1>2, <1>4, <2>2, <2>3, <3>1
  <2>5. Escape = Meaning(token)
    <3>1. Meaning(token) = CASE c = Plain("n") -> Newline
                             [] c = Plain("t") -> Plain("tab")
                             [] OTHER          -> c
      BY <2>1, MeaningIs
    <3> QED BY <2>3, <3>1 DEF Escape
  <2>6. lp' = after
    BY <1>1, <2>2, <2>4 DEF p
  <2> QED BY <2>4, <2>5, <2>6
<1>10. CASE \E h \in Digits, l \in Digits : token = <<Backslash, Plain("x"), h, l>>
  <2>1. PICK h \in Digits, l \in Digits : token = <<Backslash, Plain("x"), h, l>>
    BY <1>10
  <2>2. token[1] = Backslash /\ token[2] = Plain("x") /\ token[3] = h /\ token[4] = l /\ Len(token) = 4
    BY <2>1
  <2>3. At(p) = Plain("x") /\ At(p + 1) = h /\ At(p + 2) = l /\ p + 2 <= Len(line)
    <3>1. /\ {2, 3, 4} \subseteq 1..Len(token)
          /\ lp + 2 - 1 = p /\ lp + 3 - 1 = p + 1 /\ lp + 4 - 1 = p + 2
          /\ p + 2 <= Len(line) /\ ~(p > Len(line)) /\ ~(p + 1 > Len(line)) /\ ~(p + 2 > Len(line))
      BY <1>1, <2>2 DEF p
    <3>2. line[lp + 2 - 1] = token[2] /\ line[lp + 3 - 1] = token[3] /\ line[lp + 4 - 1] = token[4]
      BY <1>1, <3>1
    <3>3. line[p] = Plain("x") /\ line[p + 1] = h /\ line[p + 2] = l
      BY <2>2, <3>1, <3>2
    <3> QED BY <3>1, <3>3 DEF At
  <2>4. IsHex(p)
    BY <2>1, <2>3 DEF IsHex
  <2>5. key' = Append(key, Latin1[Byte(h, l)]) /\ lp' = p + 3
    BY <1>2, <1>4, <2>2, <2>3, <2>4
  <2>6. Meaning(token) = Latin1[Byte(h, l)]
    BY <2>1, MeaningIs
  <2>7. lp' = after
    BY <1>1, <2>2, <2>5 DEF p
  <2> QED BY <2>5, <2>6, <2>7
<1> QED BY <1>1, <1>7, <1>8, <1>9, <1>10, TokenIs

\* One round of the loop decodes one token.
LEMMA DecodeKeeps ==
    ASSUME Decoded, DecodeChar
    PROVE  Decoded'
<1>1. lp <= Len(line) /\ UNCHANGED <<tokens, line>>
  BY DEF DecodeChar
<1> DEFINE k == Len(key)
           m == Meaning(tokens[k + 1])
<1>2. /\ k \in Nat /\ k < Len(tokens) /\ tokens[k + 1] \in AnyToken
      /\ key' = Append(key, m)
      /\ \/ lp' = Len(First(tokens, k + 1)) + 1
         \/ k + 1 = Len(tokens) /\ lp' = Len(line) + 2
  BY <1>1, AtToken, DecodeToken
<1>3. m \in Letters /\ key \in Seq(Letters) /\ Len(tokens) \in Nat
  BY <1>2, MeaningType, PasswordIs DEF Decoded
<1> HIDE DEF m
<1>4. /\ key' \in Seq(Letters) /\ Len(key') = k + 1 /\ key'[k + 1] = m
      /\ \A i \in 1..k : key'[i] = key[i]
  BY <1>2, <1>3, AppendProperties
<1>5. \A i \in 1..(k + 1) : i \in 1..k \/ i = k + 1
  BY <1>2
<1>6. \A i \in 1..Len(key') : key'[i] = Meaning(tokens[i])
  BY <1>4, <1>5 DEF Decoded, m
<1>7. Len(key') <= Len(tokens)
  BY <1>2, <1>3, <1>4
<1> QED BY <1>1, <1>2, <1>4, <1>6, <1>7 DEF Decoded

\* When the loop ends, key is all of what was meant.
LEMMA DecodedAll ==
    ASSUME Decoded
    PROVE  /\ lp \in 1..(Len(line) + 2) /\ Len(key) \in Nat /\ Len(tokens) \in Nat
           /\ lp > Len(line) => Len(key) = Len(tokens)
           /\ Meant \in Seq(Letters) /\ Len(Meant) = Len(tokens)
           /\ \A i \in 1..Len(tokens) : Meant[i] = Meaning(tokens[i])
           /\ IsPrefix(key, Meant)
           /\ lp > Len(line) => key = Meant
<1>1. /\ tokens \in Seq(AnyToken) /\ tokens \in Seq(Seq(Typed)) /\ Len(tokens) \in Nat
      /\ line \in Seq(Typed) /\ Len(line) \in Nat /\ Len(key) \in 0..Len(tokens) /\ key \in Seq(Letters)
  BY PasswordIs DEF Decoded
<1>2. Meant \in Seq(Letters) /\ Len(Meant) = Len(tokens) /\ \A i \in 1..Len(tokens) : Meant[i] = Meaning(tokens[i])
  <2> DEFINE T == Len(tokens)
  <2>1. T \in Nat /\ DOMAIN tokens = 1..T /\ \A i \in 1..T : Meaning(tokens[i]) \in Letters
    BY <1>1, MeaningType
  <2> HIDE DEF T
  <2>2. Meant \in [1..T -> Letters] /\ \A i \in 1..T : Meant[i] = Meaning(tokens[i])
    BY <2>1 DEF Meant
  <2>3. Meant \in Seq(Letters) /\ Len(Meant) = T
    BY <2>1, <2>2
  <2> QED BY <2>2, <2>3 DEF T
<1>3. IsPrefix(key, Meant)
  <2>1. Len(key) <= Len(Meant) /\ \A i \in 1..Len(key) : key[i] = Meant[i]
    BY <1>1, <1>2 DEF Decoded
  <2> QED BY <1>1, <1>2, <2>1, PrefixAt
<1>4. ASSUME lp > Len(line), Len(key) # Len(tokens) PROVE FALSE
  <2>1. Len(key) + 1 \in 1..Len(tokens) /\ (Len(key) + 1) - 1 = Len(key)
    BY <1>1, <1>4
  <2>2. tokens[Len(key) + 1] \in AnyToken
    BY <1>1, <2>1
  <2>3. Len(tokens[Len(key) + 1]) \in 1..4
    BY <2>2, TokenIs
  <2>4. /\ Len(First(tokens, (Len(key) + 1) - 1)) \in Nat
        /\ Len(First(tokens, Len(key) + 1)) = Len(First(tokens, (Len(key) + 1) - 1)) + Len(tokens[Len(key) + 1])
        /\ Len(First(tokens, Len(key) + 1)) <= Len(FlattenSeq(tokens))
    BY <1>1, <2>1, FirstPlaces
  <2>5. Len(First(tokens, Len(key))) + 1 <= Len(line)
    <3> DEFINE a == Len(First(tokens, Len(key)))
               b == Len(First(tokens, Len(key) + 1))
               c == Len(tokens[Len(key) + 1])
    <3>1. a \in Nat /\ b = a + c /\ b <= Len(line) /\ c \in 1..4
      BY <2>1, <2>3, <2>4 DEF Decoded
    <3> HIDE DEF a, b, c
    <3>2. a + 1 <= Len(line)
      BY <1>1, <3>1
    <3> QED BY <3>2 DEF a
  <2>6. lp = Len(First(tokens, Len(key))) + 1
    BY <1>4 DEF Decoded
  <2> QED BY <1>1, <1>4, <2>5, <2>6
<1>5. lp > Len(line) => key = Meant
  <2> SUFFICES ASSUME lp > Len(line) PROVE key = Meant
    OBVIOUS
  <2>1. Len(key) = Len(tokens)
    BY <1>4
  <2>2. \A i \in 1..Len(tokens) : key[i] = Meant[i]
    BY <1>2, <2>1 DEF Decoded
  <2> QED BY <1>1, <1>2, <2>1, <2>2, SeqEqual
<1>6. lp \in 1..(Len(line) + 2)
  <2>1. CASE lp = Len(line) + 2
    BY <1>1, <2>1
  <2>2. CASE lp = Len(First(tokens, Len(key))) + 1
    <3>1. First(tokens, Len(key)) \in Seq(Typed) /\ IsPrefix(First(tokens, Len(key)), line)
      BY <1>1, FirstType, FirstIsPrefix DEF Decoded
    <3> DEFINE a == First(tokens, Len(key))
    <3> HIDE DEF a
    <3>2. Len(a) <= Len(line) /\ Len(a) \in Nat
      BY <1>1, <3>1, PrefixAt DEF a
    <3>3. Len(a) + 1 \in 1..(Len(line) + 2)
      BY <1>1, <3>2
    <3> QED BY <2>2, <3>3 DEF a
  <2> QED BY <2>1, <2>2 DEF Decoded
<1> QED BY <1>1, <1>2, <1>3, <1>4, <1>5, <1>6

-----------------------------------------------------------------------------
(* Types, and where each part of the program leaves its places. *)

Places ==
    /\ ip \in Nat \ {0} /\ input \in Seq(Keys) /\ room \in 0..255
    /\ anulate \in BOOLEAN /\ dead \in Marks /\ text \in Seq(Chars)
    /\ pc \in {"decode", "demux", "send", "done"} /\ err \in 0..1
    /\ pc = "decode" => ip = 1 /\ input = <<>>
    /\ pc \in {"decode", "demux"} => text = <<>> /\ dead = "none" /\ anulate = FALSE
    /\ pc = "demux" => ip <= Len(key) + 1
    /\ pc \in {"send", "done"} => ip <= Len(input) + 1
    /\ pc # "decode" => key = Meant /\ room = RoomOf(Len(key))
    /\ pc # "done" => err = 0

\* The letters are characters.
LEMMA LettersAre == Letters \subseteq Chars /\ Chars = [base : Base, mark : Marks]
BY DEF Letters, Chars, Base, Symbols

\* Only the loop of getuserkey() touches what it has decoded.
LEMMA DecodedStays ==
    ASSUME Decoded, Places, [Next]_vars
    PROVE  Decoded' /\ (pc # "decode" => UNCHANGED <<tokens, line, key>>) /\ tokens' = tokens
<1>1. CASE DecodeChar
  BY <1>1, DecodeKeeps DEF DecodeChar
<1>2. CASE ~DecodeChar
  <2>1. UNCHANGED <<tokens, line, lp, key>>
    BY <1>2 DEF Next, Demux, DemuxChar, SendKeys, AnulateShift, SendKey, UnsupportedSymbol, Finish, vars
  <2> QED BY <2>1 DEF Decoded
<1> QED BY <1>1, <1>2

\* Every step keeps the types and the places.
LEMMA PlacesStay ==
    ASSUME Decoded, Places, [Next]_vars
    PROVE  Places'
<1>0. Len(key) \in Nat /\ Len(input) \in Nat
  BY DecodedAll DEF Places
<1>1. CASE DecodeChar
  BY <1>1 DEF DecodeChar, Places
<1>2. CASE Demux
  <2>1. key = Meant /\ RoomOf(Len(key)) \in 0..255
    <3>1. \A k \in Nat : (k * 8) % 256 \in 0..255
      OBVIOUS
    <3>2. key = Meant
      BY <1>2, DecodedAll DEF Demux
    <3> QED BY <1>0, <3>1, <3>2 DEF RoomOf
  <2> HIDE DEF RoomOf
  <2>2. Meant' = Meant /\ key' = key
    BY <1>2 DEF Demux, Meant
  <2>3. 1 <= Len(key) + 1
    BY <1>0
  <2> QED BY <1>2, <2>1, <2>2, <2>3 DEF Demux, Places
<1>3. CASE DemuxChar
  <2>1. key \in Seq(Chars)
    BY LettersAre, SeqMonotonic DEF Decoded
  <2>2. ip \in 1..Len(key)
    BY <1>0, <1>3 DEF DemuxChar, Places
  <2>3. Passes(key[ip]) \in Seq(Keys)
    BY <2>1, <2>2, PassesType
  <2>4. input' = input \o Passes(key[ip]) \/ input' = input
    BY <1>3 DEF DemuxChar
  <2>5. input' \in Seq(Keys)
    BY <2>3, <2>4, ConcatProperties DEF Places
  <2>6. ip' \in Nat \ {0} /\ ip' <= Len(key) + 1
    BY <1>0, <1>3, <2>2 DEF DemuxChar
  <2>7. Meant' = Meant /\ key' = key
    BY <1>3 DEF DemuxChar, Meant
  <2> QED BY <1>3, <2>5, <2>6, <2>7 DEF DemuxChar, Places
<1>4. CASE SendKeys
  <2>1. Meant' = Meant /\ key' = key /\ 1 <= Len(input) + 1
    BY <1>0, <1>4 DEF SendKeys, Meant
  <2> QED BY <1>4, <2>1 DEF SendKeys, Places
<1>5. CASE AnulateShift
  <2>1. Meant' = Meant /\ key' = key /\ ip' \in Nat \ {0} /\ ip' <= Len(input) + 1
    BY <1>0, <1>5 DEF AnulateShift, Meant, Places
  <2> QED BY <1>5, <2>1 DEF AnulateShift, Places
<1>6. CASE SendKey
  <2>1. Meant' = Meant /\ key' = key /\ ip' \in Nat \ {0} /\ ip' <= Len(input) + 1
    BY <1>0, <1>6 DEF SendKey, Meant, Places
  <2>2. text' \in Seq(Chars) /\ dead' \in Marks
    <3> DEFINE c == input[ip]
               shift == HoldShift(c) /\ ~anulate
    <3>1. c \in Keys /\ Supported(c) /\ Press(KeyOf(c), shift)
      BY <1>0, <1>6 DEF SendKey, Places
    <3>2. shift \in BOOLEAN /\ (shift => HoldShift(c))
      BY DEF HoldShift
    <3>3. text \in Seq(Chars) /\ dead \in Marks
      BY DEF Places
    <3> HIDE DEF c, shift
    <3> QED BY <3>1, <3>2, <3>3, PressType
  <2> QED BY <1>6, <2>1, <2>2 DEF SendKey, Places
<1>7. CASE UnsupportedSymbol
  <2>1. Meant' = Meant /\ key' = key
    BY <1>7 DEF UnsupportedSymbol, Meant
  <2> QED BY <1>7, <2>1 DEF UnsupportedSymbol, Places
<1>8. CASE Finish
  <2>1. Meant' = Meant /\ key' = key
    BY <1>8 DEF Finish, Meant
  <2> QED BY <1>8, <2>1 DEF Finish, Places
<1>9. CASE UNCHANGED vars
  <2>1. Meant' = Meant /\ key' = key
    BY <1>9 DEF vars, Meant
  <2> QED BY <1>9, <2>1 DEF vars, Places
<1> QED BY <1>1, <1>2, <1>3, <1>4, <1>5, <1>6, <1>7, <1>8, <1>9 DEF Next

-----------------------------------------------------------------------------
(* What the keys of one character do. *)

Typables == {c \in Letters : c.mark # "grave" /\ c \notin {Plain("backquote"), Plain("~"), Plain("^"), NUL}}

\* What the window is waiting with, and whether the next key is pressed without shift, when
\* o of the keys of c have been sent.
DeadAt(c, o) ==
    IF o = 0 \/ (c.mark = "acute" /\ o = 1) THEN "none"
    ELSE IF c.mark = "none" THEN "diaeresis" ELSE c.mark
AnulateAt(c, o) == o = 1 /\ c.mark = "acute"

\* Key o + 1 of a character c: a NUL, a dead key, the last one that gives c, or none.
LEMMA KeysOfCharacter ==
    ASSUME NEW c \in Typables, NEW o \in 0..(Len(Passes(c)) - 1)
    PROVE  /\ Passes(c)[o + 1] = NUL => /\ o + 1 < Len(Passes(c))
                                        /\ DeadAt(c, o + 1) = DeadAt(c, o) /\ AnulateAt(c, o + 1) = TRUE
           /\ ~Supported(Passes(c)[o + 1]) /\ Passes(c)[o + 1] # NUL => Passes(c) = <<c>> /\ ~Supported(c)
           /\ Supported(Passes(c)[o + 1]) =>
                 LET k     == KeyOf(Passes(c)[o + 1])
                     shift == HoldShift(Passes(c)[o + 1]) /\ ~AnulateAt(c, o)
                 IN  \/ /\ o + 1 = Len(Passes(c))
                        /\ Dead(k, shift) = "none" /\ Composed(DeadAt(c, o), Symbol(k, shift)) = <<c>>
                     \/ /\ o + 1 < Len(Passes(c))
                        /\ DeadAt(c, o) = "none" /\ Dead(k, shift) # "none"
                        /\ Dead(k, shift) = DeadAt(c, o + 1) /\ AnulateAt(c, o + 1) = FALSE
<1> DEFINE P == Passes(c)
           x == P[o + 1]
           Dies(m) == /\ o + 1 < Len(P) /\ DeadAt(c, o) = "none" /\ m # "none"
                      /\ m = DeadAt(c, o + 1) /\ AnulateAt(c, o + 1) = FALSE
           Gives(k, shift) == /\ o + 1 = Len(P) /\ Dead(k, shift) = "none"
                              /\ Composed(DeadAt(c, o), Symbol(k, shift)) = <<c>>
           Shift == HoldShift(x) /\ ~AnulateAt(c, o)
           Goal == /\ x = NUL => /\ o + 1 < Len(P)
                                 /\ DeadAt(c, o + 1) = DeadAt(c, o) /\ AnulateAt(c, o + 1) = TRUE
                   /\ ~Supported(x) /\ x # NUL => P = <<c>> /\ ~Supported(c)
                   /\ Supported(x) => Gives(KeyOf(x), Shift) \/ Dies(Dead(KeyOf(x), Shift))
<1> SUFFICES Goal
  OBVIOUS
<1>1. /\ c \in Chars /\ c = [base |-> c.base, mark |-> c.mark] /\ c.mark \in {"none"} \cup Accents
      /\ c.mark # "none" => c.base \in Bases[c.mark] /\ c.base \in Symbols
                            /\ c.base \notin {"backquote", "~", "^", "quote", "space"}
      /\ c.mark # "grave" /\ c \notin {Plain("backquote"), Plain("~"), Plain("^"), NUL}
  BY MarksAre, BasesAre DEF Typables, Letters, Chars
\* Of a supported symbol that is pressed as it was looked up.
<1>2. ASSUME NEW b \in Symbols, x = Plain(b), AnulateAt(c, o) = FALSE
      PROVE  /\ Supported(x) /\ x # NUL /\ Symbol(KeyOf(x), Shift) = x
             /\ Dead(KeyOf(x), Shift) =
                    IF b = "backquote" THEN "acute" ELSE IF b = "~" THEN "tilde"
                    ELSE IF b = "^" THEN "circumflex" ELSE IF b = "quote" THEN "diaeresis" ELSE "none"
  <2>1. Shift = HoldShift(x)
    BY <1>2 DEF HoldShift
  <2> HIDE DEF x, Shift
  <2> QED BY <1>2, <2>1, KeyGives
<1>3. /\ "backquote" \in Symbols /\ "~" \in Symbols /\ "^" \in Symbols /\ "quote" \in Symbols
      /\ "space" \in Symbols
  BY Special DEF Symbols
\* A dead key, and then the letter.
<1>4. ASSUME NEW d \in {"quote", "~", "^"}, P = <<Plain(d), Plain(c.base)>>, c.mark \in Accents,
             c.mark = IF d = "quote" THEN "diaeresis" ELSE IF d = "~" THEN "tilde" ELSE "circumflex"
      PROVE  Goal
  <2>1. Len(P) = 2 /\ P[1] = Plain(d) /\ P[2] = Plain(c.base) /\ o \in 0..1 /\ c.mark # "acute" /\ c.mark # "none"
    BY <1>4 DEF Accents
  <2>2. AnulateAt(c, o) = FALSE /\ AnulateAt(c, o + 1) = FALSE /\ DeadAt(c, 0) = "none" /\ DeadAt(c, 1) = c.mark
    BY <2>1 DEF AnulateAt, DeadAt
  <2> HIDE DEF P
  <2>3. CASE o = 0
    <3>1. x = Plain(d) /\ d \in Symbols
      BY <1>3, <2>1, <2>3
    <3>2. Supported(x) /\ x # NUL /\ Dead(KeyOf(x), Shift) = c.mark
      BY <1>2, <1>4, <2>2, <3>1
    <3> HIDE DEF x, Shift
    <3>3. Dies(c.mark)
      BY <2>1, <2>2, <2>3
    <3> QED BY <3>2, <3>3
  <2>4. CASE o = 1
    <3>1. x = Plain(c.base) /\ c.base \in Symbols /\ c.base \notin {"backquote", "~", "^", "quote"}
      BY <1>1, <2>1, <2>4
    <3>2. Supported(x) /\ x # NUL /\ Dead(KeyOf(x), Shift) = "none" /\ Symbol(KeyOf(x), Shift) = x
      BY <1>2, <2>2, <3>1
    <3>3. Composed(c.mark, x) = <<c>>
      BY <1>1, <2>1, <3>1 DEF Composed, Plain
    <3> HIDE DEF x, Shift
    <3>4. Gives(KeyOf(x), Shift)
      BY <2>1, <2>2, <2>4, <3>2, <3>3
    <3> QED BY <3>2, <3>4
  <2> HIDE DEF Goal
  <2> QED BY <2>1, <2>3, <2>4
<1>5. CASE c.mark = "acute"
  <2>1. P = <<NUL, Plain("backquote"), Plain(c.base)>>
    BY <1>1, <1>5, PassesAre
  <2>2. Len(P) = 3 /\ P[1] = NUL /\ P[2] = Plain("backquote") /\ P[3] = Plain(c.base) /\ o \in 0..2
    BY <2>1
  <2>3. /\ AnulateAt(c, 0) = FALSE /\ AnulateAt(c, 1) = TRUE /\ AnulateAt(c, 2) = FALSE
        /\ DeadAt(c, 0) = "none" /\ DeadAt(c, 1) = "none" /\ DeadAt(c, 2) = "acute"
    BY <1>5 DEF AnulateAt, DeadAt
  <2> HIDE DEF P
  <2>4. CASE o = 0
    <3>1. x = NUL
      BY <2>2, <2>4
    <3>2. ~Supported(NUL)
      BY DEF Supported, NUL, Plain, Unshifted, Shifted, ABNT2
    <3> HIDE DEF x
    <3> QED BY <2>2, <2>3, <2>4, <3>1, <3>2
  <2>5. CASE o = 1
    <3>1. x = Plain("backquote")
      BY <2>2, <2>5
    <3>2. /\ Supported(Plain("backquote")) /\ Plain("backquote") # NUL
          /\ Dead(KeyOf(Plain("backquote")), HoldShift(Plain("backquote"))) = "acute"
      BY <1>3, KeyGives
    <3>3. HoldShift(Plain("backquote")) = FALSE
      BY Unshiftables DEF HoldShift, Plain
    <3>4. Shift = FALSE
      BY <2>3, <2>5
    <3> HIDE DEF x, Shift
    <3>5. Dead(KeyOf(x), Shift) = "acute" /\ Supported(x) /\ x # NUL
      BY <3>1, <3>2, <3>3, <3>4
    <3>6. Dies("acute")
      BY <2>2, <2>3, <2>5
    <3> QED BY <3>5, <3>6
  <2>6. CASE o = 2
    <3>1. x = Plain(c.base) /\ c.base \in Symbols /\ c.base \notin {"backquote", "~", "^", "quote"}
      BY <1>1, <1>5, <2>2, <2>6
    <3>2. Supported(x) /\ x # NUL /\ Dead(KeyOf(x), Shift) = "none" /\ Symbol(KeyOf(x), Shift) = x
      BY <1>2, <2>3, <2>6, <3>1
    <3>3. Composed("acute", x) = <<c>>
      BY <1>1, <1>5, <3>1 DEF Composed, Plain
    <3> HIDE DEF x, Shift
    <3>4. Gives(KeyOf(x), Shift)
      BY <2>2, <2>3, <2>6, <3>2, <3>3
    <3> QED BY <3>2, <3>4
  <2> HIDE DEF Goal
  <2> QED BY <2>2, <2>4, <2>5, <2>6
<1>6. CASE c.mark \in {"diaeresis", "tilde", "circumflex"}
  <2>1. c.mark \in Accents
    BY <1>6 DEF Accents
  <2>2. CASE c.mark = "diaeresis"
    <3>1. P = <<Plain("quote"), Plain(c.base)>>
      BY <1>1, <2>2, PassesAre
    <3> HIDE DEF P, Goal
    <3> QED BY <1>4, <2>1, <2>2, <3>1
  <2>3. CASE c.mark = "tilde"
    <3>1. P = <<Plain("~"), Plain(c.base)>>
      BY <1>1, <2>3, PassesAre
    <3> HIDE DEF P, Goal
    <3> QED BY <1>4, <2>1, <2>3, <3>1
  <2>4. CASE c.mark = "circumflex"
    <3>1. P = <<Plain("^"), Plain(c.base)>>
      BY <1>1, <2>4, PassesAre
    <3> HIDE DEF P, Goal
    <3> QED BY <1>4, <2>1, <2>4, <3>1
  <2> HIDE DEF Goal
  <2> QED BY <1>6, <2>2, <2>3, <2>4
\* The quote is a dead key and a space.
<1>7. CASE c = Plain("quote")
  <2>1. P = <<Plain("quote"), Plain("space")>> /\ c.mark = "none"
    BY <1>1, <1>7, PassesAre DEF Plain
  <2>2. Len(P) = 2 /\ P[1] = Plain("quote") /\ P[2] = Plain("space") /\ o \in 0..1
    BY <2>1
  <2>3. AnulateAt(c, o) = FALSE /\ AnulateAt(c, o + 1) = FALSE /\ DeadAt(c, 0) = "none" /\ DeadAt(c, 1) = "diaeresis"
    BY <2>1 DEF AnulateAt, DeadAt
  <2> HIDE DEF P
  <2>4. CASE o = 0
    <3>1. x = Plain("quote")
      BY <2>2, <2>4
    <3>2. Supported(x) /\ x # NUL /\ Dead(KeyOf(x), Shift) = "diaeresis"
      BY <1>2, <1>3, <2>3, <3>1
    <3> HIDE DEF x, Shift
    <3>3. Dies("diaeresis")
      BY <2>2, <2>3, <2>4
    <3> QED BY <3>2, <3>3
  <2>5. CASE o = 1
    <3>1. x = Plain("space")
      BY <2>2, <2>5
    <3>2. Supported(x) /\ x # NUL /\ Dead(KeyOf(x), Shift) = "none" /\ Symbol(KeyOf(x), Shift) = x
      BY <1>2, <1>3, <2>3, <3>1
    <3>3. Composed("diaeresis", x) = <<c>>
      <4>1. "space" \notin Bases["diaeresis"] /\ Alone["diaeresis"] = "quote"
        BY DEF Bases, Alone
      <4> QED BY <1>7, <3>1, <4>1 DEF Composed, Plain
    <3> HIDE DEF x, Shift
    <3>4. Gives(KeyOf(x), Shift)
      BY <2>2, <2>3, <2>5, <3>2, <3>3
    <3> QED BY <3>2, <3>4
  <2> HIDE DEF Goal
  <2> QED BY <2>2, <2>4, <2>5
\* Any other character is a key of its own, or none.
<1>8. CASE c.mark = "none" /\ c # Plain("quote")
  <2>1. P = <<c>>
    BY <1>1, <1>8, PassesAre
  <2>2. Len(P) = 1 /\ P[1] = c /\ o = 0
    BY <2>1
  <2>3. AnulateAt(c, o) = FALSE /\ DeadAt(c, 0) = "none"
    BY <2>2 DEF AnulateAt, DeadAt
  <2>4. c = Plain(c.base) /\ c.base \notin {"backquote", "~", "^", "quote"} /\ c # NUL
    BY <1>1, <1>8 DEF Plain
  <2>5. x = c
    BY <2>2
  <2>6. CASE Supported(c)
    <3>1. c.base \in Symbols
      BY <2>6 DEF Supported, Symbols
    <3>2. Dead(KeyOf(x), Shift) = "none" /\ Symbol(KeyOf(x), Shift) = x
      BY <1>2, <2>3, <2>4, <2>5, <3>1
    <3>3. Composed("none", x) = <<c>>
      BY <2>5 DEF Composed
    <3> HIDE DEF P, x, Shift
    <3>4. Gives(KeyOf(x), Shift)
      BY <2>2, <2>3, <3>2, <3>3
    <3> QED BY <2>4, <2>5, <2>6, <3>4
  <2>7. CASE ~Supported(c)
    <3> HIDE DEF P, x, Shift
    <3> QED BY <2>1, <2>4, <2>5, <2>7
  <2> HIDE DEF Goal
  <2> QED BY <2>6, <2>7
<1> HIDE DEF Goal
<1> QED BY <1>1, <1>5, <1>6, <1>7, <1>8 DEF Accents

-----------------------------------------------------------------------------
(* The demuxer and zacarias_sendkeys(). *)

Pieces == [i \in DOMAIN key |-> Passes(key[i])]

\* The first i characters are in the window, and of the next one some keys have been sent.
Typing(i) ==
    /\ i \in 0..Len(key)
    /\ text = SubSeq(key, 1, i)
    /\ LET o == ip - 1 - Len(First(Pieces, i))
       IN  \/ o = 0 /\ dead = "none" /\ anulate = FALSE
           \/ /\ i < Len(key) /\ o \in 1..(Len(Passes(key[i + 1])) - 1)
              /\ dead = DeadAt(key[i + 1], o) /\ anulate = AnulateAt(key[i + 1], o)

Unsupported == \E i \in DOMAIN key : ~\E c \in ToSet(Passes(key[i])) : Supported(c)

Sent ==
    Typable =>
        /\ pc = "demux" => input = First(Pieces, ip - 1)
        /\ pc \in {"send", "done"} => input = FlattenSeq(Pieces) /\ \E i \in 0..Len(key) : Typing(i)
        /\ pc = "done" /\ err = 0 => ip = Len(input) + 1
        /\ err = 1 => Unsupported

\* What the demuxer makes of a password, character by character.
LEMMA PiecesAre ==
    ASSUME Decoded
    PROVE  /\ Pieces \in Seq(Seq(Keys)) /\ Len(Pieces) = Len(key) /\ Len(key) \in Nat
           /\ \A i \in 1..Len(key) : Pieces[i] = Passes(key[i]) /\ key[i] \in Letters
           /\ Typable => /\ Len(key) < 32
                         /\ \A i \in 1..Len(key) : key[i] \in Typables /\ Len(Passes(key[i])) \in 1..3
<1> DEFINE m == Len(key)
<1>1. m \in Nat /\ DOMAIN key = 1..m /\ \A i \in 1..m : key[i] \in Letters /\ key[i] \in Chars
  BY LettersAre DEF Decoded
<1>2. \A i \in 1..m : Passes(key[i]) \in Seq(Keys) /\ Len(Passes(key[i])) \in 0..3
  BY <1>1, PassesType
<1> HIDE DEF m
<1>3. Pieces \in [1..m -> Seq(Keys)] /\ \A i \in 1..m : Pieces[i] = Passes(key[i])
  BY <1>1, <1>2 DEF Pieces
<1>4. Pieces \in Seq(Seq(Keys)) /\ Len(Pieces) = m
  BY <1>1, <1>3
<1>5. ASSUME Typable, NEW i \in 1..m PROVE key[i] \in Typables /\ Len(Passes(key[i])) \in 1..3
  <2>1. key[i] \in Typables
    BY <1>1, <1>5 DEF Typable, Typables
  <2> DEFINE c == key[i]
  <2>2. c \in Chars /\ c.mark \in {"none"} \cup Accents /\ c # NUL /\ c.mark # "grave"
    BY <1>1, <2>1, MarksAre DEF Typables, Chars
  <2> HIDE DEF c
  <2>3. Len(Passes(c)) \in 1..3
    <3>1. CASE c.mark \in Accents
      BY <2>2, <3>1, PassesAre DEF Accents
    <3>2. CASE c.mark = "none" /\ c = Plain("quote")
      BY <2>2, <3>2, PassesAre
    <3>3. CASE c.mark = "none" /\ c # Plain("quote")
      BY <2>2, <3>3, PassesAre
    <3> QED BY <2>2, <3>1, <3>2, <3>3
  <2> QED BY <2>1, <2>3 DEF c
<1> QED BY <1>1, <1>3, <1>4, <1>5 DEF m, Typable

\* No character takes more than three bytes of the eight that the buffer has for it.
LEMMA PiecesAreShort ==
    ASSUME Decoded, Typable, NEW i \in 0..Len(key)
    PROVE  Len(First(Pieces, i)) <= 3 * i
<1> DEFINE P == {k \in Nat : k <= Len(key) => Len(First(Pieces, k)) <= 3 * k}
<1>1. 0 \in P
  <2>1. First(Pieces, 0) = <<>>
    BY FirstZero
  <2> DEFINE n == Len(First(Pieces, 0))
  <2>2. n = 0
    BY <2>1
  <2> HIDE DEF n
  <2>3. n <= 3 * 0
    BY <2>2
  <2> QED BY <2>3 DEF n
<1>2. ASSUME NEW k \in Nat, k \in P PROVE k + 1 \in P
  <2> SUFFICES ASSUME k + 1 <= Len(key) PROVE Len(First(Pieces, k + 1)) <= 3 * (k + 1)
    OBVIOUS
  <2>1. Len(key) \in Nat /\ Pieces \in Seq(Seq(Keys)) /\ Len(Pieces) = Len(key)
    BY PiecesAre
  <2>2. k + 1 \in 1..Len(key) /\ (k + 1) - 1 = k /\ k <= Len(key) /\ k + 1 \in 1..Len(Pieces)
    BY <2>1
  <2>3. Len(First(Pieces, k)) <= 3 * k
    BY <1>2, <2>2
  <2> HIDE DEF P
  <2>4. Len(Pieces[k + 1]) \in 1..3
    BY <2>2, PiecesAre
  <2>5. Len(First(Pieces, (k + 1) - 1)) \in Nat
        /\ Len(First(Pieces, k + 1)) = Len(First(Pieces, (k + 1) - 1)) + Len(Pieces[k + 1])
    BY <2>1, <2>2, FirstPlaces
  <2> DEFINE a == Len(First(Pieces, k))
             b == Len(First(Pieces, k + 1))
             c == Len(Pieces[k + 1])
  <2>6. a \in Nat /\ b = a + c /\ c \in 1..3 /\ a <= 3 * k
    BY <2>2, <2>3, <2>4, <2>5
  <2> HIDE DEF a, b, c
  <2>7. b <= 3 * (k + 1)
    BY <2>6
  <2> QED BY <2>7 DEF b
<1> HIDE DEF P
<1>3. i \in Nat /\ i <= Len(key)
  BY PiecesAre
<1>4. i \in P
  BY <1>1, <1>2, <1>3, NatSetInduction
<1> QED BY <1>3, <1>4 DEF P

\* The character that sendkeys() is at, and how many of its keys have been sent.
LEMMA AtCharacter ==
    ASSUME Decoded, Places, Typable, input = FlattenSeq(Pieces), NEW i \in 0..Len(key), Typing(i),
           ip <= Len(input)
    PROVE  \E o \in 0..(Len(Passes(key[i + 1])) - 1) :
               /\ i + 1 \in 1..Len(key) /\ key[i + 1] \in Typables
               /\ ip = Len(First(Pieces, i)) + o + 1
               /\ Len(First(Pieces, i + 1)) = Len(First(Pieces, i)) + Len(Passes(key[i + 1]))
               /\ Len(First(Pieces, i)) \in Nat
               /\ input[ip] = Passes(key[i + 1])[o + 1]
               /\ dead = DeadAt(key[i + 1], o) /\ anulate = AnulateAt(key[i + 1], o)
               /\ text = SubSeq(key, 1, i)
<1>1. /\ Pieces \in Seq(Seq(Keys)) /\ Len(Pieces) = Len(key) /\ Len(key) \in Nat
      /\ \A j \in 1..Len(key) : /\ Pieces[j] = Passes(key[j])
                                /\ key[j] \in Typables /\ Len(Passes(key[j])) \in 1..3
  BY PiecesAre
<1> DEFINE a == Len(First(Pieces, i))
           o == ip - 1 - a
<1>2. i < Len(key)
  <2> SUFFICES ASSUME i = Len(key) PROVE FALSE
    BY <1>1
  <2>1. First(Pieces, i) = input
    BY <1>1, FirstAll
  <2>2. o = 0
    BY <1>1 DEF Typing
  <2>3. a = Len(input) /\ Len(input) \in Nat /\ ip \in Nat
    BY <2>1 DEF Places
  <2> QED BY <2>2, <2>3
<1> DEFINE c == key[i + 1]
           n == Len(Passes(c))
<1>3. i + 1 \in 1..Len(key) /\ (i + 1) - 1 = i /\ i + 1 \in 1..Len(Pieces)
  BY <1>1, <1>2
<1>4. Pieces[i + 1] = Passes(c) /\ c \in Typables /\ n \in 1..3
  BY <1>1, <1>3
<1>5. /\ a \in Nat /\ Len(First(Pieces, i + 1)) = a + n
      /\ \A k \in 1..n : input[a + k] = Passes(c)[k]
  <2>1. /\ Len(First(Pieces, (i + 1) - 1)) \in Nat
        /\ Len(First(Pieces, i + 1)) = Len(First(Pieces, (i + 1) - 1)) + Len(Pieces[i + 1])
        /\ \A k \in 1..Len(Pieces[i + 1]) :
               FlattenSeq(Pieces)[Len(First(Pieces, (i + 1) - 1)) + k] = Pieces[i + 1][k]
    BY <1>1, <1>3, FirstPlaces
  <2> QED BY <1>3, <1>4, <2>1
<1>6. /\ text = SubSeq(key, 1, i)
      /\ \/ o = 0 /\ dead = "none" /\ anulate = FALSE
         \/ o \in 1..(n - 1) /\ dead = DeadAt(c, o) /\ anulate = AnulateAt(c, o)
  BY DEF Typing
<1>7. DeadAt(c, 0) = "none" /\ AnulateAt(c, 0) = FALSE
  BY DEF DeadAt, AnulateAt
<1> HIDE DEF a, c, n
<1>8. o \in 0..(n - 1) /\ dead = DeadAt(c, o) /\ anulate = AnulateAt(c, o)
  <2>1. CASE o = 0
    <3>1. dead = "none" /\ anulate = FALSE
      BY <1>4, <1>6, <2>1
    <3> HIDE DEF o
    <3>2. 0 \in 0..(n - 1)
      BY <1>4
    <3> QED BY <1>7, <2>1, <3>1, <3>2
  <2>2. CASE o # 0
    <3>1. o \in 1..(n - 1) /\ dead = DeadAt(c, o) /\ anulate = AnulateAt(c, o)
      BY <1>6, <2>2
    <3> HIDE DEF o
    <3>2. o \in 0..(n - 1)
      BY <1>4, <3>1
    <3> QED BY <3>1, <3>2
  <2> QED BY <2>1, <2>2
<1>9. ip = a + o + 1 /\ a + (o + 1) = ip /\ o + 1 \in 1..n
  <2>1. ip \in Nat
    BY DEF Places
  <2>2. a \in Nat /\ n \in 1..3 /\ o \in 0..(n - 1)
    BY <1>4, <1>5, <1>8
  <2> QED BY <2>1, <2>2
<1> HIDE DEF o
<1>10. input[ip] = Passes(c)[o + 1]
  BY <1>5, <1>9
<1> QED BY <1>3, <1>4, <1>5, <1>6, <1>8, <1>9, <1>10 DEF a, c, n

\* While the key is what it was, so is what it asks for.
LEMMA SameKey ==
    ASSUME key' = key
    PROVE  Typable' = Typable /\ Pieces' = Pieces /\ Unsupported' = Unsupported
BY DEF Typable, Pieces, Unsupported

\* Some keys of a character have been sent, and then one more.
LEMMA OneMore ==
    ASSUME Decoded, Typable, key' = key, NEW i \in 0..Len(key), i + 1 \in 1..Len(key),
           Len(First(Pieces, i)) \in Nat, NEW o \in 0..(Len(Passes(key[i + 1])) - 1),
           ip' = ip + 1, ip = Len(First(Pieces, i)) + o + 1, text = SubSeq(key, 1, i),
           o + 1 < Len(Passes(key[i + 1])), text' = text,
           dead' = DeadAt(key[i + 1], o + 1), anulate' = AnulateAt(key[i + 1], o + 1)
    PROVE  Typing(i)'
<1> DEFINE a == Len(First(Pieces, i))
           n == Len(Passes(key[i + 1]))
<1>1. n \in 1..3 /\ Len(key) \in Nat
  BY PiecesAre
<1>2. i < Len(key)
  BY <1>1
<1>3. Pieces' = Pieces
  BY SameKey
<1>4. ip' - 1 - a = o + 1 /\ o + 1 \in 1..(n - 1)
  <2> HIDE DEF a, n
  <2>1. a \in Nat /\ ip = a + o + 1 /\ o \in 0..(n - 1) /\ o + 1 < n /\ ip' = ip + 1
    BY DEF a, n
  <2> QED BY <1>1, <2>1
<1> HIDE DEF a, n
<1>5. /\ i \in 0..Len(key') /\ text' = SubSeq(key', 1, i) /\ i < Len(key')
      /\ ip' - 1 - Len(First(Pieces', i)) \in 1..(Len(Passes(key'[i + 1])) - 1)
      /\ dead' = DeadAt(key'[i + 1], ip' - 1 - Len(First(Pieces', i)))
      /\ anulate' = AnulateAt(key'[i + 1], ip' - 1 - Len(First(Pieces', i)))
  BY <1>2, <1>3, <1>4 DEF a, n
<1> QED BY <1>5 DEF Typing

\* Its last key has been sent.
LEMMA NextCharacter ==
    ASSUME Decoded, key' = key, NEW i \in 0..Len(key), i + 1 \in 1..Len(key),
           ip' = Len(First(Pieces, i + 1)) + 1, Len(First(Pieces, i + 1)) \in Nat, text = SubSeq(key, 1, i),
           text' = text \o <<key[i + 1]>>, dead' = "none", anulate' = FALSE
    PROVE  Typing(i + 1)'
<1>1. key \in Seq(Letters) /\ i + 1 \in 1..Len(key) /\ i + 1 \in 0..Len(key)
  BY DEF Decoded
<1>2. text' = SubSeq(key, 1, i + 1)
  <2>1. SubSeq(key, 1, i + 1) = Append(SubSeq(key, 1, i), key[i + 1])
    BY <1>1
  <2>2. SubSeq(key, 1, i) \in Seq(Letters) /\ key[i + 1] \in Letters
    BY <1>1
  <2> DEFINE s == SubSeq(key, 1, i)
             c == key[i + 1]
  <2> HIDE DEF s, c
  <2>3. s \o <<c>> = Append(s, c)
    BY <2>2 DEF s, c
  <2> QED BY <2>1, <2>3 DEF s, c
<1>3. Pieces' = Pieces
  BY SameKey
<1>4. ip' - 1 - Len(First(Pieces', i + 1)) = 0
  BY <1>3
<1>5. i + 1 \in 0..Len(key') /\ text' = SubSeq(key', 1, i + 1)
  BY <1>1, <1>2
<1> QED BY <1>4, <1>5 DEF Typing

\* A NUL before a key: the next one will be pressed without shift.
LEMMA AnulateTypes ==
    ASSUME Decoded, Places, Typable, input = FlattenSeq(Pieces), NEW i \in 0..Len(key), Typing(i),
           AnulateShift
    PROVE  Typing(i)'
<1>1. /\ ip <= Len(input) /\ input[ip] = NUL /\ anulate' = TRUE /\ ip' = ip + 1
      /\ key' = key /\ dead' = dead /\ text' = text
  BY DEF AnulateShift
<1>2. PICK o \in 0..(Len(Passes(key[i + 1])) - 1) :
               /\ i + 1 \in 1..Len(key) /\ key[i + 1] \in Typables
               /\ ip = Len(First(Pieces, i)) + o + 1
               /\ Len(First(Pieces, i)) \in Nat
               /\ input[ip] = Passes(key[i + 1])[o + 1]
               /\ dead = DeadAt(key[i + 1], o)
               /\ text = SubSeq(key, 1, i)
  BY <1>1, AtCharacter
<1>3. /\ o + 1 < Len(Passes(key[i + 1]))
      /\ DeadAt(key[i + 1], o + 1) = DeadAt(key[i + 1], o) /\ AnulateAt(key[i + 1], o + 1) = TRUE
  BY <1>1, <1>2, KeysOfCharacter
<1> QED BY <1>1, <1>2, <1>3, OneMore

\* A key more has been pressed: the character is complete, or its dead key waits.
LEMMA SendTypes ==
    ASSUME Decoded, Places, Typable, input = FlattenSeq(Pieces), NEW i \in 0..Len(key), Typing(i),
           SendKey
    PROVE  \E j \in 0..Len(key) : Typing(j)'
<1> DEFINE c == key[i + 1]
           n == Len(Passes(c))
           x == input[ip]
           k == KeyOf(x)
           shift == HoldShift(x) /\ ~anulate
<1>1. /\ ip <= Len(input) /\ Supported(x) /\ Press(k, shift) /\ anulate' = FALSE /\ ip' = ip + 1
      /\ key' = key
  BY DEF SendKey
<1>2. PICK o \in 0..(n - 1) :
               /\ i + 1 \in 1..Len(key) /\ c \in Typables
               /\ ip = Len(First(Pieces, i)) + o + 1
               /\ Len(First(Pieces, i + 1)) = Len(First(Pieces, i)) + n
               /\ Len(First(Pieces, i)) \in Nat
               /\ x = Passes(c)[o + 1]
               /\ dead = DeadAt(c, o) /\ anulate = AnulateAt(c, o)
               /\ text = SubSeq(key, 1, i)
  BY <1>1, AtCharacter
<1>3. \/ o + 1 = n /\ Dead(k, shift) = "none" /\ Composed(dead, Symbol(k, shift)) = <<c>>
      \/ /\ o + 1 < n /\ dead = "none" /\ Dead(k, shift) # "none"
         /\ Dead(k, shift) = DeadAt(c, o + 1) /\ AnulateAt(c, o + 1) = FALSE
  <2> HIDE DEF c, n
  <2>1. Supported(Passes(c)[o + 1])
    BY <1>1, <1>2
  <2>2. n = Len(Passes(c))
    BY DEF n
  <2>3. LET kk == KeyOf(Passes(c)[o + 1])
            sh == HoldShift(Passes(c)[o + 1]) /\ ~AnulateAt(c, o)
        IN  \/ /\ o + 1 = Len(Passes(c))
               /\ Dead(kk, sh) = "none" /\ Composed(DeadAt(c, o), Symbol(kk, sh)) = <<c>>
            \/ /\ o + 1 < Len(Passes(c))
               /\ DeadAt(c, o) = "none" /\ Dead(kk, sh) # "none"
               /\ Dead(kk, sh) = DeadAt(c, o + 1) /\ AnulateAt(c, o + 1) = FALSE
    BY <1>2, <2>1, <2>2, KeysOfCharacter
  <2> QED BY <1>2, <2>2, <2>3
<1> HIDE DEF k, shift, x
<1>4. CASE o + 1 = n /\ Dead(k, shift) = "none" /\ Composed(dead, Symbol(k, shift)) = <<c>>
  <2>1. text' = text \o <<c>> /\ dead' = "none"
    BY <1>1, <1>4 DEF Press
  <2>2. ip' = Len(First(Pieces, i + 1)) + 1 /\ Len(First(Pieces, i + 1)) \in Nat
    <3> DEFINE a == Len(First(Pieces, i))
               b == Len(First(Pieces, i + 1))
    <3>1. a \in Nat /\ b = a + n /\ ip = a + o + 1 /\ ip' = ip + 1 /\ o + 1 = n /\ o \in 0..(n - 1)
      BY <1>1, <1>2, <1>4
    <3>2. n \in Nat
      <4> HIDE DEF n
      <4> QED BY <1>4
    <3> HIDE DEF a, b, n
    <3>3. ip' = b + 1 /\ b \in Nat
      BY <3>1, <3>2
    <3> QED BY <3>3 DEF b
  <2>3. Typing(i + 1)'
    BY <1>1, <1>2, <2>1, <2>2, NextCharacter
  <2>4. i + 1 \in 0..Len(key)
    BY <1>2
  <2> QED BY <2>3, <2>4
<1>5. CASE /\ o + 1 < n /\ dead = "none" /\ Dead(k, shift) # "none"
           /\ Dead(k, shift) = DeadAt(c, o + 1) /\ AnulateAt(c, o + 1) = FALSE
  <2>1. text' = text /\ dead' = DeadAt(c, o + 1)
    BY <1>1, <1>5 DEF Press
  <2>2. Typing(i)'
    BY <1>1, <1>2, <1>5, <2>1, OneMore
  <2> QED BY <2>2
<1> QED BY <1>3, <1>4, <1>5

\* sendkeys() gives up only at a character that has no key.
LEMMA UnsupportedFound ==
    ASSUME Decoded, Places, Typable, input = FlattenSeq(Pieces), NEW i \in 0..Len(key), Typing(i),
           UnsupportedSymbol
    PROVE  Unsupported
<1>1. ip <= Len(input) /\ input[ip] # NUL /\ ~Supported(input[ip])
  BY DEF UnsupportedSymbol
<1> DEFINE c == key[i + 1]
<1>2. PICK o \in 0..(Len(Passes(c)) - 1) :
               i + 1 \in 1..Len(key) /\ c \in Typables /\ input[ip] = Passes(c)[o + 1]
  BY <1>1, AtCharacter
<1>3. Passes(c) = <<c>> /\ ~Supported(c)
  <2> HIDE DEF c
  <2> QED BY <1>1, <1>2, KeysOfCharacter
<1>4. i + 1 \in DOMAIN key
  BY <1>2 DEF Decoded
<1>5. ToSet(Passes(c)) = {c}
  <2> HIDE DEF c
  <2>1. ToSet(<<c>>) = {c}
    BY DEF ToSet
  <2> QED BY <1>3, <2>1
<1> QED BY <1>3, <1>4, <1>5 DEF Unsupported

\* When all keys have been sent, all characters are in the window.
LEMMA AllTyped ==
    ASSUME Decoded, Places, Typable, input = FlattenSeq(Pieces), NEW i \in 0..Len(key), Typing(i),
           ip = Len(input) + 1
    PROVE  text = key /\ dead = "none"
<1>1. /\ Pieces \in Seq(Seq(Keys)) /\ Len(Pieces) = Len(key) /\ Len(key) \in Nat
      /\ \A j \in 1..Len(key) : Pieces[j] = Passes(key[j]) /\ Len(Passes(key[j])) \in 1..3
  BY PiecesAre
<1>2. i = Len(key)
  <2> SUFFICES ASSUME i # Len(key) PROVE FALSE
    OBVIOUS
  <2>1. i + 1 \in 1..Len(key) /\ (i + 1) - 1 = i /\ i + 1 \in 1..Len(Pieces)
    BY <1>1
  <2> DEFINE a == Len(First(Pieces, i))
             b == Len(First(Pieces, i + 1))
             n == Len(Passes(key[i + 1]))
             N == Len(input)
  <2>2. a \in Nat /\ b = a + n /\ b <= N /\ n \in 1..3
    <3>1. /\ Len(First(Pieces, (i + 1) - 1)) \in Nat
          /\ Len(First(Pieces, i + 1)) = Len(First(Pieces, (i + 1) - 1)) + Len(Pieces[i + 1])
          /\ Len(First(Pieces, i + 1)) <= Len(FlattenSeq(Pieces))
      BY <1>1, <2>1, FirstPlaces
    <3> QED BY <1>1, <2>1, <3>1
  <2>3. ip - 1 - a = 0 \/ ip - 1 - a \in 1..(n - 1)
    BY DEF Typing
  <2>4. ip = N + 1 /\ N \in Nat
    BY DEF Places
  <2> HIDE DEF a, b, n, N
  <2> QED BY <2>2, <2>3, <2>4
<1>3. text = key
  <2>1. SubSeq(key, 1, Len(key)) = key
    BY DEF Decoded
  <2> QED BY <1>2, <2>1 DEF Typing
<1>4. dead = "none"
  BY <1>1, <1>2 DEF Typing
<1> QED BY <1>3, <1>4

\* With the room that the buffer has, no character of a typable password is left out.
LEMMA DemuxKeeps ==
    ASSUME Decoded, Places, Typable, input = First(Pieces, ip - 1), DemuxChar
    PROVE  input' = First(Pieces, ip' - 1) /\ Pieces' = Pieces
<1>1. /\ ip <= Len(key) /\ ip' = ip + 1 /\ key' = key /\ pc = "demux"
      /\ input' = IF Len(input) + Len(Passes(key[ip])) < room THEN input \o Passes(key[ip]) ELSE input
  BY DEF DemuxChar
<1>2. /\ Pieces \in Seq(Seq(Keys)) /\ Len(Pieces) = Len(key) /\ Len(key) \in Nat /\ Len(key) < 32
      /\ \A i \in 1..Len(key) : Pieces[i] = Passes(key[i]) /\ Len(Passes(key[i])) \in 1..3
  BY PiecesAre
<1>3. ip \in 1..Len(key) /\ ip - 1 \in 0..Len(key) /\ ip' - 1 = ip /\ ip \in 1..Len(Pieces)
  BY <1>1, <1>2 DEF Places
<1> DEFINE a == Len(input)
           b == Len(Passes(key[ip]))
           n == Len(key)
<1>4. a <= 3 * (ip - 1) /\ a \in Nat
  <2>1. Len(First(Pieces, ip - 1)) <= 3 * (ip - 1)
    BY <1>3, PiecesAreShort
  <2> QED BY <2>1 DEF Places
<1>5. b \in 1..3 /\ room = (n * 8) % 256 /\ n \in Nat /\ n < 32 /\ ip \in 1..n
  BY <1>1, <1>2, <1>3 DEF Places, RoomOf
<1>6. a + b < room
  <2> HIDE DEF a, b, n
  <2>1. room = n * 8
    BY <1>5
  <2> QED BY <1>4, <1>5, <2>1
<1>7. input' = input \o Pieces[ip]
  BY <1>1, <1>2, <1>3, <1>6
<1>8. First(Pieces, ip) = First(Pieces, ip - 1) \o Pieces[ip]
  BY <1>2, <1>3, FirstNext
<1>9. Pieces' = Pieces
  BY <1>1, SameKey
<1> QED BY <1>3, <1>7, <1>8, <1>9

\* The loop ends because all characters have been taken apart, not because of the room.
LEMMA SendKeysAll ==
    ASSUME Decoded, Places, Typable, input = First(Pieces, ip - 1), SendKeys
    PROVE  input = FlattenSeq(Pieces)
<1>1. pc = "demux" /\ (ip > Len(key) \/ Len(input) >= room)
  BY DEF SendKeys
<1>2. Pieces \in Seq(Seq(Keys)) /\ Len(Pieces) = Len(key) /\ Len(key) \in Nat /\ Len(key) < 32
  BY PiecesAre
<1>3. ip - 1 \in 0..Len(key) /\ ip \in 1..(Len(key) + 1)
  BY <1>1, <1>2 DEF Places
<1> DEFINE a == Len(input)
           n == Len(key)
<1>4. a <= 3 * (ip - 1) /\ a \in Nat
  <2>1. Len(First(Pieces, ip - 1)) <= 3 * (ip - 1)
    BY <1>3, PiecesAreShort
  <2> QED BY <2>1 DEF Places
<1>5. room = (n * 8) % 256 /\ n \in Nat /\ n < 32 /\ ip \in 1..(n + 1)
  BY <1>1, <1>2, <1>3 DEF Places, RoomOf
<1>6. ip - 1 = n
  <2> HIDE DEF a, n
  <2>1. room = n * 8
    BY <1>5
  <2>2. ip > n \/ a >= room
    BY <1>1 DEF a, n
  <2> QED BY <1>4, <1>5, <2>1, <2>2
<1>7. First(Pieces, Len(Pieces)) = FlattenSeq(Pieces)
  BY <1>2, FirstAll
<1> QED BY <1>2, <1>6, <1>7

\* Every step keeps the window at the beginning of the password.
LEMMA SentStays ==
    ASSUME Decoded, Places, Sent, [Next]_vars
    PROVE  Sent'
<1>0. Places'
  BY PlacesStay
<1>1. CASE DecodeChar
  <2>1. pc' = "decode" /\ err' = 0
    BY <1>1 DEF DecodeChar, Places
  <2> QED BY <2>1 DEF Sent
<1>2. CASE Demux
  <2>1. pc' = "demux" /\ ip' = 1 /\ input' = <<>> /\ err' = 0
    BY <1>2 DEF Demux, Places
  <2>2. First(Pieces', 0) = <<>>
    BY FirstZero
  <2>3. ip' - 1 = 0
    BY <2>1
  <2> QED BY <2>1, <2>2, <2>3 DEF Sent
<1>3. ASSUME key' = key, Typable' PROVE /\ Typable /\ Pieces' = Pieces /\ Unsupported' = Unsupported
                                        /\ 0..Len(key') = 0..Len(key)
  BY <1>3, SameKey
<1>4. CASE DemuxChar
  <2> SUFFICES ASSUME Typable' PROVE input' = First(Pieces', ip' - 1)
    BY <1>4 DEF Sent, DemuxChar, Places
  <2>1. key' = key /\ pc = "demux"
    BY <1>4 DEF DemuxChar
  <2>2. Typable /\ input = First(Pieces, ip - 1)
    BY <1>3, <2>1 DEF Sent
  <2> QED BY <1>4, <2>2, DemuxKeeps
<1>5. CASE SendKeys
  <2>1. /\ pc = "demux" /\ pc' = "send" /\ ip' = 1 /\ err' = 0 /\ key' = key /\ input' = input
        /\ text' = <<>> /\ dead' = "none" /\ anulate' = FALSE
    BY <1>5 DEF SendKeys, Places
  <2> SUFFICES ASSUME Typable' PROVE input' = FlattenSeq(Pieces') /\ \E i \in 0..Len(key') : Typing(i)'
    BY <2>1 DEF Sent
  <2>2. Typable /\ input = First(Pieces, ip - 1) /\ Pieces' = Pieces
    BY <1>3, <2>1 DEF Sent
  <2>3. input' = FlattenSeq(Pieces')
    BY <1>5, <2>1, <2>2, SendKeysAll
  <2>4. Typing(0)'
    <3>1. Len(First(Pieces', 0)) = 0
      <4>1. First(Pieces', 0) = <<>>
        BY FirstZero
      <4> QED BY <4>1
    <3>2. SubSeq(key', 1, 0) = <<>>
      BY <2>1 DEF Decoded
    <3>3. 0 \in 0..Len(key')
      BY <2>1, PiecesAre
    <3>4. ip' - 1 - Len(First(Pieces', 0)) = 0
      BY <2>1, <3>1
    <3> QED BY <2>1, <3>2, <3>3, <3>4 DEF Typing
  <2>5. 0 \in 0..Len(key')
    BY <2>1, PiecesAre
  <2> QED BY <2>3, <2>4, <2>5
<1>6. CASE pc = "send" /\ (AnulateShift \/ SendKey)
  <2>1. pc' = "send" /\ err' = 0 /\ key' = key /\ input' = input
    BY <1>6 DEF AnulateShift, SendKey, Places
  <2> SUFFICES ASSUME Typable' PROVE input' = FlattenSeq(Pieces') /\ \E i \in 0..Len(key') : Typing(i)'
    BY <2>1 DEF Sent
  <2>2. Typable /\ Pieces' = Pieces /\ input = FlattenSeq(Pieces) /\ 0..Len(key') = 0..Len(key)
    BY <1>3, <1>6, <2>1 DEF Sent
  <2>3. PICK i \in 0..Len(key) : Typing(i)
    BY <1>6, <2>2 DEF Sent
  <2>4. \E j \in 0..Len(key) : Typing(j)'
    BY <1>6, <2>2, <2>3, AnulateTypes, SendTypes
  <2> QED BY <2>1, <2>2, <2>4
<1>7. CASE UnsupportedSymbol \/ Finish
  <2>1. /\ pc = "send" /\ pc' = "done" /\ UNCHANGED <<key, input, ip, dead, anulate, text>>
        /\ Finish => err' = 0 /\ ip > Len(input)
    BY <1>7 DEF UnsupportedSymbol, Finish, Places
  <2> SUFFICES ASSUME Typable' PROVE /\ input' = FlattenSeq(Pieces') /\ \E i \in 0..Len(key') : Typing(i)'
                                     /\ err' = 0 => ip' = Len(input') + 1
                                     /\ err' = 1 => Unsupported'
    BY <2>1 DEF Sent
  <2>2. Typable /\ Pieces' = Pieces /\ input = FlattenSeq(Pieces) /\ 0..Len(key') = 0..Len(key)
        /\ Unsupported' = Unsupported
    BY <1>3, <2>1 DEF Sent
  <2>3. PICK i \in 0..Len(key) : Typing(i)
    BY <2>1, <2>2 DEF Sent
  <2>4. Typing(i)'
    BY <2>1, <2>2, <2>3 DEF Typing
  <2>5. err' = 0 => ip' = Len(input') + 1
    <3>1. err' = 0 => Finish
      BY <1>7 DEF UnsupportedSymbol
    <3>2. Finish => ip = Len(input) + 1
      BY <2>1 DEF Places
    <3> QED BY <2>1, <3>1, <3>2
  <2>6. err' = 1 => Unsupported'
    <3>1. err' = 1 => UnsupportedSymbol
      BY <1>7, <2>1
    <3> QED BY <2>2, <2>3, <3>1, UnsupportedFound
  <2> QED BY <2>1, <2>2, <2>4, <2>5, <2>6
<1>8. CASE UNCHANGED vars
  <2>1. UNCHANGED <<key, input, ip, dead, anulate, text, pc, err>>
    BY <1>8 DEF vars
  <2>2. Typable' = Typable /\ Pieces' = Pieces /\ Unsupported' = Unsupported
    BY <2>1, SameKey
  <2>3. ASSUME NEW i PROVE Typing(i)' = Typing(i)
    BY <2>1, <2>2 DEF Typing
  <2> QED BY <2>1, <2>2, <2>3 DEF Sent
<1>9. AnulateShift \/ SendKey => pc = "send"
  BY DEF AnulateShift, SendKey
<1> QED BY <1>1, <1>2, <1>4, <1>5, <1>6, <1>7, <1>8, <1>9 DEF Next

-----------------------------------------------------------------------------
(* The theorems. *)

IInv == Decoded /\ Places /\ Sent

\* What holds of all states: where the decoder, the demuxer and sendkeys() are, and what
\* they have made so far of what they were given.
THEOREM KeyboardInvariant == Spec => []IInv
<1>1. Init => IInv
  <2> SUFFICES ASSUME Init PROVE IInv
    OBVIOUS
  <2>1. /\ tokens \in Passwords /\ line = FlattenSeq(tokens) /\ lp = 1 /\ key = <<>> /\ ip = 1
        /\ input = <<>> /\ room = 0 /\ anulate = FALSE /\ dead = "none" /\ text = <<>>
        /\ pc = "decode" /\ err = 0
    BY DEF Init
  <2>2. key \in Seq(Letters) /\ Len(key) = 0 /\ input \in Seq(Keys) /\ text \in Seq(Chars)
    BY <2>1, EmptySeq
  <2>3. Decoded
    <3>1. Len(key) <= Len(tokens)
      BY <2>1, <2>2, PasswordIs
    <3>2. Len(First(tokens, Len(key))) = 0
      <4>1. First(tokens, Len(key)) = <<>>
        BY <2>2, FirstZero
      <4> QED BY <4>1
    <3>3. lp = Len(First(tokens, Len(key))) + 1
      BY <2>1, <3>2
    <3>4. \A i \in 1..Len(key) : key[i] = Meaning(tokens[i])
      BY <2>2
    <3> QED BY <2>1, <2>2, <3>1, <3>3, <3>4 DEF Decoded
  <2>4. Places
    <3>1. dead \in Marks
      BY <2>1 DEF Marks
    <3>2. ip \in Nat \ {0} /\ room \in 0..255 /\ err \in 0..1
      BY <2>1
    <3>4. anulate \in BOOLEAN
      BY <2>1
    <3>3. pc \notin {"demux", "send", "done"}
      BY <2>1
    <3> QED BY <2>1, <2>2, <3>1, <3>2, <3>3, <3>4 DEF Places
  <2>5. Sent
    BY <2>1 DEF Sent
  <2> QED BY <2>3, <2>4, <2>5 DEF IInv
<1>2. IInv /\ [Next]_vars => IInv'
  BY DecodedStays, PlacesStay, SentStays DEF IInv
<1> QED BY <1>1, <1>2, PTL DEF Spec

\* Whatever users want to write, each part of the program keeps to its types, and the
\* decoder never goes further than the newline that ended the line.
THEOREM KeyboardTypeCorrect == Spec => []TypeOK
<1>1. IInv => TypeOK
  <2> SUFFICES ASSUME Decoded, Places PROVE TypeOK
    BY DEF IInv
  <2>1. tokens \in Passwords /\ lp \in 1..(Len(line) + 2) /\ key \in Seq(Chars)
    <3>1. key \in Seq(Letters) /\ Letters \subseteq Chars
      BY LettersAre DEF Decoded
    <3> QED BY <3>1, DecodedAll, SeqMonotonic DEF Decoded
  <2>2. ip \in 1..(Len(input) + Len(key) + 1)
    <3> DEFINE a == Len(input)
               b == Len(key)
    <3>1. a \in Nat /\ b \in Nat /\ ip \in Nat \ {0} /\ (ip <= a + 1 \/ ip <= b + 1)
      <4>1. ip = 1 \/ ip <= a + 1 \/ ip <= b + 1
        BY DEF Places
      <4> QED BY <4>1, DecodedAll DEF Places
    <3> HIDE DEF a, b
    <3>2. ip \in 1..(a + b + 1)
      BY <3>1
    <3> QED BY <3>2 DEF a, b
  <2>3. input \in Seq([base : Unshifted \cup Shifted \cup {"newline", "tab", "NUL", "control"},
                       mark : {"none"}])
    BY DEF Places, Keys, Base, Symbols
  <2> QED BY <2>1, <2>2, <2>3 DEF TypeOK, Places
<1> QED BY <1>1, KeyboardInvariant, PTL

\* Escapes are told from characters, whatever stands next to them: what getuserkey() has
\* decoded is always the beginning of what the user meant, and in the end all of it.
THEOREM KeyboardDecodes == Spec => []KeyAsMeant
<1>1. IInv => KeyAsMeant
  BY DecodedAll DEF IInv, Places, KeyAsMeant
<1> QED BY <1>1, KeyboardInvariant, PTL

\* Of a typable password of any length below 32, the window shows at all times a
\* beginning: no character is left out, doubled, or typed without its accent.
THEOREM KeyboardTypesInOrder == Spec => []TextIsPrefix
<1>1. IInv => TextIsPrefix
  <2> SUFFICES ASSUME Decoded, Places, Sent, pc \in {"send", "done"}, Typable
               PROVE  IsPrefix(text, Meant)
    BY DEF IInv, TextIsPrefix
  <2>1. PICK i \in 0..Len(key) : text = SubSeq(key, 1, i)
    BY DEF Sent, Typing
  <2>2. key = Meant /\ key \in Seq(Letters)
    BY DEF Places, Decoded
  <2>3. SubSeq(key, 1, i) \in Seq(Letters) /\ Len(SubSeq(key, 1, i)) = i
        /\ \A k \in 1..i : SubSeq(key, 1, i)[k] = key[k]
    BY <2>2
  <2> DEFINE t == SubSeq(key, 1, i)
  <2>4. Len(t) <= Len(key) /\ \A k \in 1..Len(t) : t[k] = key[k]
    BY <2>3
  <2> HIDE DEF t
  <2>5. IsPrefix(t, key)
    BY <2>2, <2>3, <2>4, PrefixAt DEF t
  <2> QED BY <2>1, <2>2, <2>5 DEF t
<1> QED BY <1>1, KeyboardInvariant, PTL

\* sendkeys() says that it succeeded only when all of a typable password is in the window
\* and no accent waits there for a letter, and that it failed only for a character that
\* has no key.
THEOREM KeyboardTypesAll == Spec => []TypedWhole
<1>1. IInv => TypedWhole
  <2> SUFFICES ASSUME Decoded, Places, Sent, pc = "done", Typable
               PROVE  (err = 0 => text = Meant /\ dead = "none") /\ (err = 1 => Unsupported)
    BY DEF IInv, TypedWhole, Unsupported
  <2>1. input = FlattenSeq(Pieces) /\ (err = 0 => ip = Len(input) + 1) /\ (err = 1 => Unsupported)
    BY DEF Sent
  <2>2. PICK i \in 0..Len(key) : Typing(i)
    BY DEF Sent
  <2>3. key = Meant
    BY DEF Places
  <2>4. err = 0 => text = key /\ dead = "none"
    BY <2>1, <2>2, AllTyped
  <2> QED BY <2>1, <2>3, <2>4
<1> QED BY <1>1, KeyboardInvariant, PTL
=============================================================================
