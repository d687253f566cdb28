-------------------------- MODULE ZcCommand_proofs --------------------------
(***************************************************************************)
(* For every password, signal and mishap: what a "zc" process does with    *)
(* the passwords it asks for, the memory it keeps them in, the echo of the *)
(* terminal and the password it types.                                     *)
(*                                                                         *)
(* The invariant has one part per question.  TypeInv, EchoInv and PlaceInv *)
(* say what holds at each place of the process; CleanInv, OnceInv and      *)
(* DrainInv what is allocated and what is left to free; AnswerInv in which *)
(* order the prompts are answered; TextInv, SeenInv and TypedInv what the  *)
(* answers are.  The parts that a property excepts something from hold     *)
(* until that has happened, and what has happened is not forgotten.        *)
(***************************************************************************)
EXTENDS ZcCommand, TLAPS

Asking == {"prompt", "reset", "hook", "reading", "decode", "restore", "check"}

\* What is asked for and what is freed: never the copy that is typed, and at a prompt
\* there is something to ask for.
TodoInv ==
    /\ todo \in Seq(Buffers \ {"input"})
    /\ pc \in Asking => todo # <<>>

TypeInv == TypeOK /\ TodoInv

LEMMA EpilogueType ==
    ASSUME Epilogue
    PROVE  todo' \in Seq(Buffers \ {"input"}) /\ todo' # <<>> /\ Len(todo') = 7
  BY DEF Epilogue, Buffers

LEMMA WhenType ==
    ASSUME NEW p \in BOOLEAN, NEW S, NEW s \in Seq(S)
    PROVE  When(p, s) \in Seq(S)
  BY DEF When

LEMMA PromptsType ==
    ASSUME TypeOK
    PROVE  Prompts \in Seq(Buffers \ {"input"}) /\ Prompts # <<>>
  <1> DEFINE B == Buffers \ {"input"}
             p1 == When(command.init, <<"pwdb2">>)
             p2 == When(command.sessioned, <<"session">>)
             p3 == When(command.sessioned /\ command.op = "attach", <<"session2">>)
             p4 == When(command.op = "add" /\ ~command.generate, <<"password", "password2">>)
  <1>1. command.init \in BOOLEAN /\ command.sessioned \in BOOLEAN /\ command.generate \in BOOLEAN
    BY CommandAssumption DEF TypeOK
  <1>2. /\ <<"pwdb2">> \in Seq(B) /\ <<"session">> \in Seq(B) /\ <<"session2">> \in Seq(B)
        /\ <<"password", "password2">> \in Seq(B) /\ <<"pwdb">> \in Seq(B)
    BY DEF Buffers
  <1>3. p1 \in Seq(B) /\ p2 \in Seq(B) /\ p3 \in Seq(B) /\ p4 \in Seq(B)
    BY <1>1, <1>2, WhenType
  <1> HIDE DEF p1, p2, p3, p4, B
  <1>4. /\ <<"pwdb">> \o p1 \in Seq(B) /\ Len(<<"pwdb">> \o p1) >= 1
    BY <1>2, <1>3
  <1>5. /\ (<<"pwdb">> \o p1) \o p2 \in Seq(B) /\ Len((<<"pwdb">> \o p1) \o p2) >= 1
    BY <1>3, <1>4
  <1>6. /\ ((<<"pwdb">> \o p1) \o p2) \o p3 \in Seq(B) /\ Len(((<<"pwdb">> \o p1) \o p2) \o p3) >= 1
    BY <1>3, <1>5
  <1>7. /\ (((<<"pwdb">> \o p1) \o p2) \o p3) \o p4 \in Seq(B)
        /\ Len((((<<"pwdb">> \o p1) \o p2) \o p3) \o p4) >= 1
    BY <1>3, <1>6
  <1>8. Prompts = (((<<"pwdb">> \o p1) \o p2) \o p3) \o p4
    BY DEF Prompts, p1, p2, p3, p4
  <1> QED
    BY <1>7, <1>8 DEF B

LEMMA TailType ==
    ASSUME NEW S, NEW s \in Seq(S), s # <<>>
    PROVE  Tail(s) \in Seq(S) /\ Head(s) \in S /\ Len(Tail(s)) = Len(s) - 1
  OBVIOUS

LEMMA SizeType == Size \in Nat
  BY CommandAssumption

LEMMA SegType ==
    ASSUME TypeOK, NEW b, Free(b)
    PROVE  seg' \in [Buffers -> {"null", "live", "freed"}] /\ misfreed' \in BOOLEAN
  BY DEF TypeOK, Free

LEMMA SetType ==
    ASSUME NEW D, NEW R, NEW f \in [D -> R], NEW x, NEW r \in R
    PROVE  [f EXCEPT ![x] = r] \in [D -> R]
  OBVIOUS

LEMMA TypeStep ==
    ASSUME TypeInv
    PROVE  [Next]_vars => TypeInv'
  <1> USE SizeType DEF TypeInv, TypeOK, TodoInv, Asking, BeforeExit, Ended, Narrow,
          memory, keyboard, signal, typing, Goto
  <1>1. ASSUME Open PROVE TypeInv'
    <2>1. todo' \in Seq(Buffers \ {"input"}) /\ todo' # <<>>
      BY <1>1, EpilogueType, PromptsType DEF Open
    <2>2. todo' \in Seq(Buffers) /\ pc' \in BeforeExit
      BY <1>1, <2>1 DEF Open, Epilogue
    <2> QED
      BY <1>1, <2>1, <2>2 DEF Open
  <1>2. ASSUME Prompt PROVE TypeInv'
    BY <1>2 DEF Prompt
  <1>3. ASSUME Reset PROVE TypeInv'
    BY <1>3 DEF Reset
  <1>4. ASSUME Hook PROVE TypeInv'
    BY <1>4 DEF Hook
  <1>5. ASSUME TypeLine PROVE TypeInv'
    BY <1>5 DEF TypeLine
  <1>6. ASSUME Decode PROVE TypeInv'
    BY <1>6 DEF Decode
  <1>7. ASSUME Restore PROVE TypeInv'
    BY <1>7 DEF Restore
  <1>8. ASSUME Check PROVE TypeInv'
    <2>1. /\ todo' \in Seq(Buffers \ {"input"}) /\ todo' \in Seq(Buffers)
          /\ pc' \in {"call", "prompt", "free"} /\ (pc' = "prompt" => todo' # <<>>)
      <3>1. CASE Epilogue
        BY <1>8, <3>1, EpilogueType DEF Check, Epilogue
      <3>2. CASE todo' = Tail(todo) /\ pc' = IF todo' = <<>> THEN "call" ELSE "prompt"
        BY <1>8, <3>2, TailType DEF Check
      <3> QED
        BY <1>8, <3>1, <3>2 DEF Check
    <2> QED
      BY <1>8, <2>1 DEF Check
  <1>9. ASSUME Call PROVE TypeInv'
    <2>1. /\ todo' \in Seq(Buffers \ {"input"}) /\ todo' \in Seq(Buffers)
          /\ pc' \in {"free", "drain"}
      <3>1. CASE Epilogue
        BY <1>9, <3>1, EpilogueType DEF Call, Epilogue
      <3>2. CASE UNCHANGED todo /\ pc' = "drain"
        BY <1>9, <3>2 DEF Call
      <3> QED
        BY <1>9, <3>1, <3>2 DEF Call
    <2>2. seg' \in [Buffers -> {"null", "live", "freed"}] /\ err' \in 0..1
      BY <1>9 DEF Call
    <2> QED
      BY <1>9, <2>1, <2>2 DEF Call
  <1>10. ASSUME FillDrain PROVE TypeInv'
    BY <1>10 DEF FillDrain
  <1>11. ASSUME Send PROVE TypeInv'
    BY <1>11 DEF Send
  <1>12. ASSUME SendConsole PROVE TypeInv'
    BY <1>12 DEF SendConsole
  <1>13. ASSUME Arm PROVE TypeInv'
    BY <1>13 DEF Arm
  <1>14. ASSUME ArmArgs PROVE TypeInv'
    BY <1>14 DEF ArmArgs
  <1>15. ASSUME TypeKey PROVE TypeInv'
    BY <1>15 DEF TypeKey
  <1>16. ASSUME InjectKey PROVE TypeInv'
    BY <1>16 DEF InjectKey
  <1>17. ASSUME LastKey PROVE TypeInv'
    BY <1>17 DEF LastKey
  <1>18. ASSUME Finish PROVE TypeInv'
    BY <1>18, SegType DEF Finish
  <1>19. ASSUME Forget PROVE TypeInv'
    <2>1. /\ todo' \in Seq(Buffers \ {"input"}) /\ todo' \in Seq(Buffers)
          /\ pc' = "free"
      BY <1>19, EpilogueType DEF Forget, Epilogue
    <2> QED
      BY <1>19, <2>1 DEF Forget
  <1>20. ASSUME FreeNext PROVE TypeInv'
    <2>1. todo' \in Seq(Buffers \ {"input"}) /\ todo' \in Seq(Buffers)
      BY <1>20, TailType DEF FreeNext
    <2>2. seg' \in [Buffers -> {"null", "live", "freed"}] /\ misfreed' \in BOOLEAN
      BY <1>20, SegType DEF FreeNext
    <2> QED
      BY <1>20, <2>1, <2>2 DEF FreeNext
  <1>21. ASSUME Return PROVE TypeInv'
    BY <1>21 DEF Return
  <1>22. ASSUME Exit PROVE TypeInv'
    BY <1>22 DEF Exit
  <1>23. ASSUME DrainOut PROVE TypeInv'
    <2>1. /\ todo' \in Seq(Buffers \ {"input"}) /\ todo' \in Seq(Buffers)
      <3>1. CASE todo = <<>>
        BY <1>23, <3>1 DEF DrainOut
      <3>2. CASE todo # <<>>
        <4>1. todo' = Tail(todo)
          BY <1>23, <3>2 DEF DrainOut
        <4> QED
          BY <3>2, <4>1, TailType
      <3> QED
        BY <3>1, <3>2
    <2>2. seg' \in [Buffers -> {"null", "live", "freed"}] /\ misfreed' \in BOOLEAN
      BY <1>23, SegType DEF DrainOut
    <2> QED
      BY <1>23, <2>1, <2>2 DEF DrainOut
  <1>24. ASSUME NEW s \in Signals, Die(s) PROVE TypeInv'
    BY <1>24 DEF Die, Deliverable
  <1>25. ASSUME NEW s \in Signals, Cancel(s) PROVE TypeInv'
    BY <1>25 DEF Cancel, Arrives, Deliverable
  <1>26. ASSUME NEW s \in Signals, CallOut(s) PROVE TypeInv'
    <2>1. todo' \in Seq(Buffers \ {"input"}) /\ todo' \in Seq(Buffers)
      <3>1. todo' \in {<<"pwdb", "password">>, <<>>}
        BY <1>26 DEF CallOut
      <3>2. <<"pwdb", "password">> \in Seq(Buffers \ {"input"}) /\ <<>> \in Seq(Buffers \ {"input"})
        BY DEF Buffers
      <3>3. \A t \in Seq(Buffers \ {"input"}) : t \in Seq(Buffers)
        OBVIOUS
      <3> QED
        BY <3>1, <3>2, <3>3
    <2>2. misfreed' \in BOOLEAN /\ happened' \subseteq Mishaps
      BY <1>26 DEF CallOut, Arrives, Deliverable
    <2> QED
      BY <1>26, <2>1, <2>2 DEF CallOut
  <1>27. ASSUME UNCHANGED vars PROVE TypeInv'
    BY <1>27 DEF vars
  <1> QED
    BY <1>1, <1>2, <1>3, <1>4, <1>5, <1>6, <1>7, <1>8, <1>9, <1>10, <1>11, <1>12, <1>13,
       <1>14, <1>15, <1>16, <1>17, <1>18, <1>19, <1>20, <1>21, <1>22, <1>23, <1>24, <1>25,
       <1>26, <1>27
       DEF Next, Step, Interrupt

-----------------------------------------------------------------------------
Dark == {"reset", "hook", "reading", "decode", "restore"}

EchoInv ==
    /\ saved = TRUE
    /\ pc \notin Dark \cup {"killed"} => echo = TRUE
    /\ pc = "killed" => echo = TRUE \/ "noMemory" \in happened
    /\ \A s \in Signals :
          hook[s] = "default" => pc \in {"returned", "callout"} \cup Ended

LEMMA EchoStep ==
    ASSUME TypeInv, EchoInv
    PROVE  [Next]_vars => EchoInv'
  <1> USE DEF EchoInv, Dark, Ended, memory, keyboard, signal, typing, Goto
  <1>1. ASSUME Open PROVE EchoInv'
    BY <1>1 DEF Open, Epilogue
  <1>2. ASSUME Prompt PROVE EchoInv'
    BY <1>2 DEF Prompt
  <1>3. ASSUME Reset \/ Decode \/ Restore PROVE EchoInv'
    BY <1>3 DEF Reset, Decode, Restore
  <1>4. ASSUME Hook PROVE EchoInv'
    BY <1>4 DEF Hook
  <1>5. ASSUME TypeLine PROVE EchoInv'
    BY <1>5 DEF TypeLine
  <1>6. ASSUME Check \/ Call PROVE EchoInv'
    BY <1>6 DEF Check, Call, Epilogue
  <1>7. ASSUME FillDrain \/ Send \/ SendConsole \/ Arm \/ ArmArgs PROVE EchoInv'
    BY <1>7 DEF FillDrain, Send, SendConsole, Arm, ArmArgs
  <1>8. ASSUME TypeKey \/ InjectKey \/ LastKey \/ Finish \/ Forget PROVE EchoInv'
    BY <1>8 DEF TypeKey, InjectKey, LastKey, Finish, Forget, Epilogue, Free
  <1>9. ASSUME FreeNext \/ Return \/ Exit \/ DrainOut PROVE EchoInv'
    BY <1>9 DEF FreeNext, Return, Exit, DrainOut, TypeInv, TypeOK, Free
  <1>10. ASSUME Interrupt PROVE EchoInv'
    BY <1>10 DEF Interrupt, Die, Cancel, CallOut, Arrives, Deliverable
  <1>11. ASSUME UNCHANGED vars PROVE EchoInv'
    BY <1>11 DEF vars
  <1> QED
    BY <1>1, <1>2, <1>3, <1>4, <1>5, <1>6, <1>7, <1>8, <1>9, <1>10, <1>11 DEF Next, Step

-----------------------------------------------------------------------------
\* The drain is filled in just while sendkeys() runs, and the callout is set by "get" alone.
Sending == {"send", "arm", "armArgs", "type", "finish", "forget"}
Late    == {"callout"} \cup Ended

PlaceInv ==
    /\ pc \in {"drain"} \cup Sending => command.op = "get"
    /\ pc \in Sending => drain = TRUE
    /\ drain = TRUE => pc \in Sending \cup Late
    /\ callout # "none" =>
          /\ command.op = "get"
          /\ pc \in {"armArgs", "type", "finish", "forget", "free", "returned"} \cup Late
    /\ callout = "noArgs" => pc \in {"armArgs"} \cup Late
    /\ pc \in {"returned", "exited", "aborted"} => todo = <<>>

LEMMA PlaceStep ==
    ASSUME TypeInv, PlaceInv
    PROVE  [Next]_vars => PlaceInv'
  <1> USE DEF PlaceInv, Sending, Late, Ended, memory, keyboard, signal, typing, Goto
  <1>1. ASSUME Open \/ Check \/ Forget PROVE PlaceInv'
    BY <1>1 DEF Open, Check, Forget, Epilogue
  <1>2. ASSUME Call PROVE PlaceInv'
    BY <1>2 DEF Call, Epilogue
  <1>3. ASSUME Prompt \/ Reset \/ Hook \/ Decode \/ Restore \/ TypeLine PROVE PlaceInv'
    BY <1>3 DEF Prompt, Reset, Hook, Decode, Restore, TypeLine
  <1>4. ASSUME FillDrain \/ Send \/ SendConsole \/ Arm \/ ArmArgs PROVE PlaceInv'
    BY <1>4 DEF FillDrain, Send, SendConsole, Arm, ArmArgs
  <1>5. ASSUME TypeKey \/ InjectKey \/ LastKey \/ Finish PROVE PlaceInv'
    BY <1>5 DEF TypeKey, InjectKey, LastKey, Finish
  <1>6. ASSUME FreeNext \/ Return \/ Exit \/ DrainOut PROVE PlaceInv'
    BY <1>6 DEF FreeNext, Return, Exit, DrainOut
  <1>7. ASSUME Interrupt PROVE PlaceInv'
    BY <1>7 DEF Interrupt, Die, Cancel, CallOut, Arrives, Deliverable
  <1>8. ASSUME UNCHANGED vars PROVE PlaceInv'
    BY <1>8 DEF vars
  <1> QED
    BY <1>1, <1>2, <1>3, <1>4, <1>5, <1>6, <1>7, <1>8 DEF Next, Step

-----------------------------------------------------------------------------
\* The epilogues see to everything but the copy, which sendkeys() sees to.
Listed(b) == \E i \in 1..Len(todo) : todo[i] = b

CleanInv ==
    /\ seg["input"] = "live" => pc \in {"arm", "armArgs", "type", "finish"} \cup Late
    /\ pc \in {"free", "returned", "exited"} =>
          \A b \in Buffers : seg[b] = "live" => Listed(b)

LEMMA EpilogueLists ==
    ASSUME Epilogue, NEW b \in Buffers \ {"input"}
    PROVE  Listed(b)'
  <1>1. Len(todo') = 7
    BY DEF Epilogue
  <1>2. \E i \in 1..7 : todo'[i] = b
    <2>1. /\ todo'[1] = "pwdb" /\ todo'[2] = "pwdb2" /\ todo'[3] = "session"
          /\ todo'[4] = "session2" /\ todo'[5] = "password" /\ todo'[6] = "password2"
          /\ todo'[7] = "aliases"
      BY DEF Epilogue
    <2>2. b \in {"pwdb", "pwdb2", "session", "session2", "password", "password2", "aliases"}
      BY DEF Buffers
    <2>3. 1 \in 1..7 /\ 2 \in 1..7 /\ 3 \in 1..7 /\ 4 \in 1..7 /\ 5 \in 1..7 /\ 6 \in 1..7 /\ 7 \in 1..7
      OBVIOUS
    <2> QED
      BY <2>1, <2>2, <2>3
  <1> QED
    BY <1>1, <1>2 DEF Listed

LEMMA TailLists ==
    ASSUME todo \in Seq(Buffers \ {"input"}), todo # <<>>, todo' = Tail(todo),
           NEW b, Listed(b), b # Head(todo)
    PROVE  Listed(b)'
  <1>1. PICK i \in 1..Len(todo) : todo[i] = b
    BY DEF Listed
  <1>2. i # 1
    BY <1>1
  <1>3. i - 1 \in 1..Len(todo') /\ todo'[i - 1] = b
    BY <1>1, <1>2
  <1> QED
    BY <1>3 DEF Listed

LEMMA HeadType ==
    ASSUME TypeInv, todo # <<>>
    PROVE  Head(todo) \in Buffers /\ Head(todo) # "input"
  <1>1. Head(todo) \in Buffers \ {"input"}
    BY TailType DEF TypeInv, TodoInv
  <1> QED
    BY <1>1

LEMMA Except ==
    ASSUME NEW D, NEW R, NEW f \in [D -> R], NEW d \in D, NEW r, NEW g,
           g = [f EXCEPT ![d] = r]
    PROVE  g[d] = r /\ \A e \in D : e # d => g[e] = f[e]
  OBVIOUS

LEMMA SegFreed ==
    ASSUME TypeInv, NEW b \in Buffers, Free(b)
    PROVE  /\ seg'[b] = IF seg[b] = "null" THEN "null" ELSE "freed"
           /\ \A d \in Buffers : d # b => seg'[d] = seg[d]
  <1>1. seg \in [Buffers -> {"null", "live", "freed"}]
    BY DEF TypeInv, TypeOK
  <1>2. seg' = [seg EXCEPT ![b] = IF seg[b] = "null" THEN "null" ELSE "freed"]
    BY DEF Free
  <1> QED
    BY <1>1, <1>2, Except

LEMMA SegLive ==
    ASSUME TypeInv, NEW b \in Buffers, seg' = [seg EXCEPT ![b] = "live"]
    PROVE  seg'[b] = "live" /\ \A d \in Buffers : d # b => seg'[d] = seg[d]
  <1>1. seg \in [Buffers -> {"null", "live", "freed"}]
    BY DEF TypeInv, TypeOK
  <1> QED
    BY <1>1, Except

LEMMA CleanStep ==
    ASSUME TypeInv, CleanInv
    PROVE  [Next]_vars => CleanInv'
  <1> USE DEF CleanInv, Late, Ended, memory, keyboard, signal, typing, Goto
  <1>0. "input" \in Buffers /\ "password" \in Buffers /\ "aliases" \in Buffers
    BY DEF Buffers
  <1>1. ASSUME Epilogue, seg'["input"] # "live" PROVE CleanInv'
    BY <1>1, EpilogueLists DEF Epilogue
  <1>2. ASSUME Open PROVE CleanInv'
    <2>1. seg' = seg /\ pc = "open"
      BY <1>2 DEF Open
    <2> QED
      BY <1>1, <1>2, <2>1 DEF Open
  <1>3. ASSUME Check PROVE CleanInv'
    <2>1. seg' = seg /\ pc = "check"
      BY <1>3 DEF Check
    <2> QED
      BY <1>1, <1>3, <2>1 DEF Check
  <1>4. ASSUME Call PROVE CleanInv'
    <2>1. seg["input"] # "live" /\ (Epilogue \/ pc' = "drain")
      BY <1>4 DEF Call
    <2>2. \/ seg' = seg
          \/ seg' = [seg EXCEPT !["password"] = "live"]
          \/ seg' = [seg EXCEPT !["aliases"] = "live"]
      BY <1>4 DEF Call
    <2>3. seg'["input"] = seg["input"]
      BY <1>0, <2>2, SegLive
    <2> QED
      BY <1>1, <2>1, <2>3
  <1>5. ASSUME Forget PROVE CleanInv'
    BY <1>1, <1>5 DEF Forget
  <1>6. ASSUME TypeLine PROVE CleanInv'
    <2>1. pc = "reading" /\ pc' \in {"restore", "decode"}
      BY <1>6 DEF TypeLine
    <2>2. Head(todo) \in Buffers /\ Head(todo) # "input"
      BY <2>1, HeadType DEF TypeInv, TodoInv, Asking
    <2>3. seg' = seg \/ seg' = [seg EXCEPT ![Head(todo)] = "live"]
      BY <1>6 DEF TypeLine
    <2>4. seg'["input"] = seg["input"]
      BY <1>0, <2>2, <2>3, SegLive
    <2> QED
      BY <2>1, <2>4
  <1>7. ASSUME Prompt \/ Reset \/ Hook \/ Decode \/ Restore PROVE CleanInv'
    BY <1>7 DEF Prompt, Reset, Hook, Decode, Restore
  <1>8. ASSUME Send PROVE CleanInv'
    <2>1. seg["input"] # "live"
      BY <1>8 DEF Send
    <2>2. pc' = "arm" \/ (pc' = "forget" /\ seg' = seg)
      BY <1>8 DEF Send
    <2> QED
      BY <2>1, <2>2
  <1>9. ASSUME FillDrain \/ SendConsole \/ Arm \/ ArmArgs PROVE CleanInv'
    BY <1>9 DEF FillDrain, SendConsole, Arm, ArmArgs
  <1>10. ASSUME TypeKey \/ InjectKey \/ LastKey PROVE CleanInv'
    BY <1>10 DEF TypeKey, InjectKey, LastKey
  <1>11. ASSUME Finish PROVE CleanInv'
    <2>1. Free("input") /\ pc' = "forget"
      BY <1>11 DEF Finish
    <2>2. seg'["input"] # "live"
      BY <1>0, <2>1, SegFreed
    <2> QED
      BY <2>1, <2>2
  <1>12. ASSUME FreeNext PROVE CleanInv'
    <2>1. pc = "free" /\ pc' = "free" /\ todo # <<>> /\ todo' = Tail(todo) /\ Free(Head(todo))
      BY <1>12 DEF FreeNext
    <2>2. Head(todo) \in Buffers /\ Head(todo) # "input"
      BY <2>1, HeadType
    <2>3. seg'[Head(todo)] # "live" /\ \A b \in Buffers : b # Head(todo) => seg'[b] = seg[b]
      BY <2>1, <2>2, SegFreed
    <2>4. ASSUME NEW b \in Buffers, seg'[b] = "live" PROVE Listed(b)'
      <3>1. seg[b] = "live" /\ b # Head(todo)
        BY <2>3, <2>4
      <3>2. Listed(b)
        BY <2>1, <3>1
      <3> QED
        BY <2>1, <3>1, <3>2, TailLists DEF TypeInv, TodoInv
    <2>5. seg'["input"] # "live"
      BY <1>0, <2>1, <2>2, <2>3
    <2> QED
      BY <2>1, <2>4, <2>5
  <1>13. ASSUME Return \/ Exit PROVE CleanInv'
    BY <1>13 DEF Return, Exit, Listed
  <1>14. ASSUME DrainOut PROVE CleanInv'
    BY <1>14 DEF DrainOut
  <1>15. ASSUME Interrupt PROVE CleanInv'
    BY <1>15 DEF Interrupt, Die, Cancel, CallOut, Arrives, Deliverable, Listed
  <1>16. ASSUME UNCHANGED vars PROVE CleanInv'
    BY <1>16 DEF vars, Listed
  <1> QED
    BY <1>2, <1>3, <1>4, <1>5, <1>6, <1>7, <1>8, <1>9, <1>10, <1>11, <1>12, <1>13, <1>14,
       <1>15, <1>16 DEF Next, Step

-----------------------------------------------------------------------------
\* What is forgiven stays forgiven.
LEMMA HappenedGrows == [Next]_vars => happened \subseteq happened'
  <1> USE DEF signal
  <1>1. ASSUME Open \/ TypeLine \/ Decode \/ Send \/ InjectKey PROVE happened \subseteq happened'
    BY <1>1 DEF Open, TypeLine, Decode, Send, InjectKey
  <1>2. ASSUME Prompt \/ Reset \/ Hook \/ Restore \/ Check \/ Call
        PROVE  happened \subseteq happened'
    BY <1>2 DEF Prompt, Reset, Hook, Restore, Check, Call
  <1>3. ASSUME FillDrain \/ SendConsole \/ Arm \/ ArmArgs
        PROVE  happened \subseteq happened'
    BY <1>3 DEF FillDrain, SendConsole, Arm, ArmArgs
  <1>4. ASSUME TypeKey \/ LastKey \/ Finish \/ Forget PROVE happened \subseteq happened'
    BY <1>4 DEF TypeKey, LastKey, Finish, Forget
  <1>5. ASSUME FreeNext \/ Return \/ Exit \/ DrainOut PROVE happened \subseteq happened'
    BY <1>5 DEF FreeNext, Return, Exit, DrainOut
  <1>6. ASSUME Interrupt PROVE happened \subseteq happened'
    BY <1>6 DEF Interrupt, Die, Cancel, CallOut, Arrives
  <1>7. ASSUME UNCHANGED vars PROVE happened \subseteq happened'
    BY <1>7 DEF vars
  <1> QED
    BY <1>1, <1>2, <1>3, <1>4, <1>5, <1>6, <1>7 DEF Next, Step

\* Nothing is freed before the epilogue or the callout, but the copy, once it is typed.
Gone    == {"free", "returned", "exited"} \cup Late
Excused == happened \cap {"noDevice", "callout", "returned"} # {}

Distinct(s) == \A i, j \in 1..Len(s) : s[i] = s[j] => i = j

FreshInv ==
    /\ misfreed = FALSE
    /\ pc \notin Gone => \A b \in Buffers \ {"input"} : seg[b] # "freed"
    /\ seg["input"] = "freed" => pc \in {"forget"} \cup Gone
    /\ pc \in {"free", "callout"} =>
          Distinct(todo) /\ \A i \in 1..Len(todo) : seg[todo[i]] # "freed"

OnceInv == Excused \/ FreshInv

LEMMA EpilogueFresh ==
    ASSUME Epilogue, UNCHANGED misfreed, misfreed = FALSE,
           \A b \in Buffers \ {"input"} : seg'[b] # "freed"
    PROVE  FreshInv'
  <1>1. pc' = "free" /\ Len(todo') = 7
    BY DEF Epilogue
  <1>2. /\ todo'[1] = "pwdb" /\ todo'[2] = "pwdb2" /\ todo'[3] = "session"
        /\ todo'[4] = "session2" /\ todo'[5] = "password" /\ todo'[6] = "password2"
        /\ todo'[7] = "aliases"
    BY DEF Epilogue
  <1>3. \A i \in 1..7 : i \in {1, 2, 3, 4, 5, 6, 7}
    OBVIOUS
  <1>4. Distinct(todo')
    BY <1>1, <1>2, <1>3 DEF Distinct
  <1>5. \A i \in 1..Len(todo') : todo'[i] \in Buffers \ {"input"}
    BY <1>1, <1>2, <1>3 DEF Buffers
  <1> QED
    BY <1>1, <1>4, <1>5 DEF FreshInv, Gone

LEMMA TailFresh ==
    ASSUME todo \in Seq(Buffers \ {"input"}), todo # <<>>, todo' = Tail(todo), Distinct(todo),
           \A b \in Buffers : b # Head(todo) => seg'[b] = seg[b],
           \A i \in 1..Len(todo) : seg[todo[i]] # "freed"
    PROVE  Distinct(todo') /\ \A i \in 1..Len(todo') : seg'[todo'[i]] # "freed"
  <1>1. /\ Len(todo') = Len(todo) - 1 /\ Head(todo) = todo[1]
        /\ \A i \in 1..Len(todo') : todo'[i] = todo[i + 1] /\ i + 1 \in 1..Len(todo)
        /\ 1 \in 1..Len(todo) /\ Len(todo) \in Nat
    OBVIOUS
  <1>2. ASSUME NEW i \in 1..Len(todo'), NEW j \in 1..Len(todo'), todo'[i] = todo'[j] PROVE i = j
    <2>1. i + 1 = j + 1
      BY <1>1, <1>2 DEF Distinct
    <2> QED
      BY <1>1, <2>1
  <1>3. ASSUME NEW i \in 1..Len(todo') PROVE seg'[todo'[i]] # "freed"
    <2>1. todo'[i] = todo[i + 1] /\ i + 1 \in 1..Len(todo) /\ i + 1 # 1
      BY <1>1
    <2>2. todo[i + 1] # Head(todo)
      BY <1>1, <2>1 DEF Distinct
    <2>3. todo[i + 1] \in Buffers
      BY <2>1
    <2> QED
      BY <2>1, <2>2, <2>3
  <1> QED
    BY <1>2, <1>3 DEF Distinct

LEMMA FreshStep ==
    ASSUME TypeInv, PlaceInv, FreshInv, ~Excused'
    PROVE  [Next]_vars => FreshInv'
  <1> USE DEF FreshInv, Gone, Late, Ended, memory, keyboard, signal, typing, Goto
  <1>0. "input" \in Buffers /\ "password" \in Buffers /\ "aliases" \in Buffers
    BY DEF Buffers
  <1>1. ASSUME Open PROVE FreshInv'
    <2>1. pc = "open" /\ seg' = seg
      BY <1>1 DEF Open
    <2>2. UNCHANGED misfreed
      BY <1>1 DEF Open, Excused
    <2>3. pc' = "prompt" \/ Epilogue
      BY <1>1 DEF Open
    <2> QED
      BY <2>1, <2>2, <2>3, EpilogueFresh
  <1>2. ASSUME Check PROVE FreshInv'
    <2>1. pc = "check" /\ seg' = seg /\ misfreed' = misfreed
      BY <1>2 DEF Check
    <2>2. pc' \in {"call", "prompt"} \/ Epilogue
      BY <1>2 DEF Check
    <2> QED
      BY <2>1, <2>2, EpilogueFresh
  <1>3. ASSUME Call PROVE FreshInv'
    <2>1. pc = "call" /\ misfreed' = misfreed
      BY <1>3 DEF Call
    <2>2. \/ seg' = seg
          \/ seg' = [seg EXCEPT !["password"] = "live"]
          \/ seg' = [seg EXCEPT !["aliases"] = "live"]
      BY <1>3 DEF Call
    <2>3. \A b \in Buffers : seg'[b] # "freed"
      BY <1>0, <2>1, <2>2, SegLive
    <2>4. pc' = "drain" \/ Epilogue
      BY <1>3 DEF Call
    <2> QED
      BY <1>0, <2>1, <2>3, <2>4, EpilogueFresh
  <1>4. ASSUME Forget PROVE FreshInv'
    <2>1. pc = "forget" /\ seg' = seg /\ misfreed' = misfreed /\ Epilogue
      BY <1>4 DEF Forget
    <2> QED
      BY <2>1, EpilogueFresh
  <1>5. ASSUME TypeLine PROVE FreshInv'
    <2>1. pc = "reading" /\ pc' \in {"restore", "decode"} /\ misfreed' = misfreed
      BY <1>5 DEF TypeLine
    <2>2. Head(todo) \in Buffers
      BY <2>1, HeadType DEF TypeInv, TodoInv, Asking
    <2>3. seg' = seg \/ seg' = [seg EXCEPT ![Head(todo)] = "live"]
      BY <1>5 DEF TypeLine
    <2>4. \A b \in Buffers : seg'[b] # "freed"
      BY <1>0, <2>1, <2>2, <2>3, SegLive
    <2> QED
      BY <1>0, <2>1, <2>4
  <1>6. ASSUME Prompt \/ Reset \/ Hook \/ Decode \/ Restore PROVE FreshInv'
    BY <1>6 DEF Prompt, Reset, Hook, Decode, Restore
  <1>7. ASSUME Send PROVE FreshInv'
    <2>1. pc = "send" /\ pc' \in {"arm", "forget"} /\ misfreed' = misfreed
      BY <1>7 DEF Send
    <2>2. seg' = seg \/ seg' = [seg EXCEPT !["input"] = "live"]
      BY <1>7 DEF Send
    <2>3. \A b \in Buffers : seg'[b] # "freed"
      BY <1>0, <2>1, <2>2, SegLive
    <2> QED
      BY <1>0, <2>1, <2>3
  <1>8. ASSUME FillDrain \/ SendConsole \/ Arm \/ ArmArgs PROVE FreshInv'
    BY <1>8 DEF FillDrain, SendConsole, Arm, ArmArgs
  <1>9. ASSUME TypeKey \/ InjectKey \/ LastKey PROVE FreshInv'
    BY <1>9 DEF TypeKey, InjectKey, LastKey
  <1>10. ASSUME Finish PROVE FreshInv'
    <2>1. pc = "finish" /\ pc' = "forget" /\ Free("input")
      BY <1>10 DEF Finish
    <2>2. \A b \in Buffers \ {"input"} : seg'[b] = seg[b]
      BY <1>0, <2>1, SegFreed
    <2>3. misfreed' = FALSE
      BY <2>1 DEF Free
    <2> QED
      BY <2>1, <2>2, <2>3
  <1>11. ASSUME FreeNext \/ (DrainOut /\ todo # <<>>) PROVE FreshInv'
    <2>1. /\ pc \in {"free", "callout"} /\ pc' = pc /\ todo # <<>> /\ todo' = Tail(todo)
          /\ Free(Head(todo))
      BY <1>11 DEF FreeNext, DrainOut
    <2>2. Head(todo) \in Buffers /\ Head(todo) # "input"
      BY <2>1, HeadType
    <2>3. \A b \in Buffers : b # Head(todo) => seg'[b] = seg[b]
      BY <2>1, <2>2, SegFreed
    <2>4. todo \in Seq(Buffers \ {"input"})
      BY DEF TypeInv, TodoInv
    <2>5. Distinct(todo') /\ \A i \in 1..Len(todo') : seg'[todo'[i]] # "freed"
      BY <2>1, <2>3, <2>4, TailFresh
    <2>6. seg[Head(todo)] # "freed"
      <3>1. Head(todo) = todo[1] /\ 1 \in 1..Len(todo)
        BY <2>1, <2>4
      <3> QED
        BY <2>1, <3>1
    <2>7. misfreed' = FALSE
      BY <2>1, <2>6 DEF Free
    <2> QED
      BY <2>1, <2>5, <2>7
  <1>12. ASSUME Return \/ Exit PROVE FreshInv'
    BY <1>12 DEF Return, Exit
  <1>13. ASSUME DrainOut, todo = <<>> PROVE FreshInv'
    BY <1>13 DEF DrainOut
  <1>14. ASSUME NEW s \in Signals, Die(s) \/ Cancel(s) PROVE FreshInv'
    BY <1>14 DEF Die, Cancel, Arrives, Deliverable
  <1>15. ASSUME NEW s \in Signals, CallOut(s) PROVE FreshInv'
    <2>1. seg' = seg /\ pc' = "callout" /\ callout # "none"
      BY <1>15 DEF CallOut
    <2>2. pc \notin {"callout", "returned"}
      BY <1>15 DEF CallOut, Arrives, Excused, Narrow
    <2>3. misfreed' = misfreed
      BY <1>15, <2>2 DEF CallOut
    <2>4. CASE todo' = <<>>
      BY <2>1, <2>3, <2>4 DEF Distinct
    <2>5. CASE todo' = <<"pwdb", "password">>
      <3>1. drain = TRUE
        BY <1>15, <2>5 DEF CallOut
      <3>2. pc \notin Gone
        BY <1>15, <2>2, <3>1 DEF PlaceInv, Sending, CallOut, Arrives, Deliverable, BeforeExit
      <3>3. seg["pwdb"] # "freed" /\ seg["password"] # "freed"
        BY <3>2 DEF Buffers
      <3>4. /\ Len(todo') = 2 /\ todo'[1] = "pwdb" /\ todo'[2] = "password"
            /\ \A i \in 1..2 : i \in {1, 2}
        BY <2>5
      <3>5. Distinct(todo')
        BY <3>4 DEF Distinct
      <3> QED
        BY <2>1, <2>3, <3>2, <3>3, <3>4, <3>5
    <2> QED
      BY <1>15, <2>4, <2>5 DEF CallOut
  <1>16. ASSUME UNCHANGED vars PROVE FreshInv'
    BY <1>16 DEF vars
  <1> QED
    BY <1>1, <1>2, <1>3, <1>4, <1>5, <1>6, <1>7, <1>8, <1>9, <1>10, <1>11, <1>12, <1>13, <1>14,
       <1>15, <1>16 DEF Next, Step, Interrupt

LEMMA OnceStep ==
    ASSUME TypeInv, PlaceInv, OnceInv, [Next]_vars
    PROVE  OnceInv'
  BY HappenedGrows, FreshStep DEF OnceInv, Excused

-----------------------------------------------------------------------------
\* "get" asks for the master password and holds nothing but that and what it is answered,
\* which is what the drain knows.
AskedInv ==
    command.op = "get" =>
        /\ pc \in Asking => \A i \in 1..Len(todo) : todo[i] = "pwdb"
        /\ \A b \in Buffers \ {"pwdb", "password", "input"} : seg[b] # "live"

Spared == happened \cap {"armArgs", "free", "returned"} # {}

DrainInv ==
    pc \in {"callout", "aborted"} /\ ~Spared =>
        /\ callout = "drain" /\ drain = TRUE
        /\ \A b \in {"pwdb", "password"} : seg[b] = "live" => Listed(b)

LEMMA GetPrompts ==
    ASSUME TypeInv, command.op = "get"
    PROVE  Prompts = <<"pwdb">>
  <1>1. ~command.init /\ ~command.sessioned /\ command.op # "add"
    BY CommandAssumption DEF TypeInv, TypeOK
  <1>2. Prompts = (((<<"pwdb">> \o <<>>) \o <<>>) \o <<>>) \o <<>>
    BY <1>1 DEF Prompts, When
  <1>3. \A s \in Seq({"pwdb"}) : s \o <<>> = s
    OBVIOUS
  <1>4. <<"pwdb">> \in Seq({"pwdb"})
    OBVIOUS
  <1> QED
    BY <1>2, <1>3, <1>4

LEMMA AskedStep ==
    ASSUME TypeInv, PlaceInv, AskedInv
    PROVE  [Next]_vars => AskedInv'
  <1> USE DEF AskedInv, Asking, memory, keyboard, signal, typing, Goto
  <1>0. "input" \in Buffers /\ "password" \in Buffers /\ "aliases" \in Buffers /\ "pwdb" \in Buffers
    BY DEF Buffers
  <1>1. ASSUME Open PROVE AskedInv'
    <2>1. command' = command /\ seg' = seg
      BY <1>1 DEF Open
    <2>2. pc' = "free" \/ (pc' = "prompt" /\ todo' = Prompts)
      BY <1>1 DEF Open, Epilogue
    <2>3. \A i \in 1..Len(<<"pwdb">>) : <<"pwdb">>[i] = "pwdb"
      OBVIOUS
    <2> QED
      BY <2>1, <2>2, <2>3, GetPrompts
  <1>2. ASSUME Check PROVE AskedInv'
    <2>1. command' = command /\ seg' = seg /\ pc = "check"
      BY <1>2 DEF Check
    <2>2. pc' = "free" \/ todo' = Tail(todo)
      BY <1>2 DEF Check, Epilogue
    <2>3. todo \in Seq(Buffers \ {"input"}) /\ todo # <<>>
      BY <2>1 DEF TypeInv, TodoInv
    <2>4. \A i \in 1..Len(Tail(todo)) : Tail(todo)[i] = todo[i + 1] /\ i + 1 \in 1..Len(todo)
      BY <2>3
    <2> QED
      BY <2>1, <2>2, <2>4
  <1>3. ASSUME Call PROVE AskedInv'
    <2>1. command' = command /\ pc' \in {"free", "drain"}
      BY <1>3 DEF Call, Epilogue
    <2>2. ASSUME command.op = "get"
          PROVE  seg' = seg \/ seg' = [seg EXCEPT !["password"] = "live"]
      BY <1>3, <2>2 DEF Call
    <2> QED
      BY <1>0, <2>1, <2>2, SegLive
  <1>4. ASSUME Forget PROVE AskedInv'
    BY <1>4 DEF Forget, Epilogue
  <1>5. ASSUME TypeLine PROVE AskedInv'
    <2>1. command' = command /\ todo' = todo /\ pc = "reading"
      BY <1>5 DEF TypeLine
    <2>2. seg' = seg \/ seg' = [seg EXCEPT ![Head(todo)] = "live"]
      BY <1>5 DEF TypeLine
    <2>3. todo \in Seq(Buffers \ {"input"}) /\ todo # <<>>
      BY <2>1 DEF TypeInv, TodoInv
    <2>4. 1 \in 1..Len(todo) /\ Head(todo) = todo[1]
      BY <2>3
    <2>5. ASSUME command.op = "get" PROVE Head(todo) = "pwdb"
      BY <2>1, <2>4, <2>5
    <2> QED
      BY <1>0, <2>1, <2>2, <2>5, SegLive
  <1>6. ASSUME Prompt \/ Reset \/ Hook \/ Decode \/ Restore PROVE AskedInv'
    BY <1>6 DEF Prompt, Reset, Hook, Decode, Restore
  <1>7. ASSUME Send PROVE AskedInv'
    <2>1. command' = command /\ pc' \in {"arm", "forget"}
      BY <1>7 DEF Send
    <2>2. seg' = seg \/ seg' = [seg EXCEPT !["input"] = "live"]
      BY <1>7 DEF Send
    <2> QED
      BY <1>0, <2>1, <2>2, SegLive
  <1>8. ASSUME FillDrain \/ SendConsole \/ Arm \/ ArmArgs PROVE AskedInv'
    BY <1>8 DEF FillDrain, SendConsole, Arm, ArmArgs
  <1>9. ASSUME TypeKey \/ InjectKey \/ LastKey PROVE AskedInv'
    BY <1>9 DEF TypeKey, InjectKey, LastKey
  <1>10. ASSUME Finish PROVE AskedInv'
    <2>1. command' = command /\ pc' = "forget" /\ Free("input")
      BY <1>10 DEF Finish
    <2> QED
      BY <1>0, <2>1, SegFreed
  <1>11. ASSUME FreeNext \/ (DrainOut /\ todo # <<>>) PROVE AskedInv'
    <2>1. command' = command /\ pc' \in {"free", "callout"} /\ todo # <<>> /\ Free(Head(todo))
      BY <1>11 DEF FreeNext, DrainOut
    <2>2. Head(todo) \in Buffers
      BY <2>1, HeadType
    <2>3. \A b \in Buffers : seg'[b] = "live" => seg[b] = "live"
      BY <2>1, <2>2, SegFreed
    <2> QED
      BY <2>1, <2>3
  <1>12. ASSUME Return \/ Exit PROVE AskedInv'
    BY <1>12 DEF Return, Exit
  <1>13. ASSUME DrainOut, todo = <<>> PROVE AskedInv'
    BY <1>13 DEF DrainOut
  <1>14. ASSUME Interrupt PROVE AskedInv'
    BY <1>14 DEF Interrupt, Die, Cancel, CallOut, Arrives, Deliverable
  <1>15. ASSUME UNCHANGED vars PROVE AskedInv'
    BY <1>15 DEF vars
  <1> QED
    BY <1>1, <1>2, <1>3, <1>4, <1>5, <1>6, <1>7, <1>8, <1>9, <1>10, <1>11, <1>12, <1>13, <1>14,
       <1>15 DEF Next, Step

LEMMA DrainStep ==
    ASSUME TypeInv, PlaceInv, DrainInv
    PROVE  [Next]_vars => DrainInv'
  <1> USE DEF DrainInv, memory, keyboard, signal, typing, Goto
  <1>1. ASSUME pc' \notin {"callout", "aborted"} PROVE DrainInv'
    BY <1>1
  <1>2. ASSUME Open \/ Check \/ Call \/ Forget PROVE DrainInv'
    BY <1>2 DEF Open, Check, Call, Forget, Epilogue
  <1>3. ASSUME Prompt \/ Reset \/ Hook \/ Decode \/ Restore \/ TypeLine PROVE DrainInv'
    BY <1>1, <1>3 DEF Prompt, Reset, Hook, Decode, Restore, TypeLine
  <1>4. ASSUME FillDrain \/ Send \/ SendConsole \/ Arm \/ ArmArgs PROVE DrainInv'
    BY <1>1, <1>4 DEF FillDrain, Send, SendConsole, Arm, ArmArgs
  <1>5. ASSUME TypeKey \/ InjectKey \/ LastKey \/ Finish PROVE DrainInv'
    BY <1>1, <1>5 DEF TypeKey, InjectKey, LastKey, Finish
  <1>6. ASSUME FreeNext \/ Return \/ Exit PROVE DrainInv'
    BY <1>1, <1>6 DEF FreeNext, Return, Exit
  <1>7. ASSUME DrainOut, todo = <<>> PROVE DrainInv'
    <2>1. \A b : ~Listed(b)
      BY <1>7 DEF Listed
    <2> QED
      BY <1>7, <2>1 DEF DrainOut, Spared
  <1>8. ASSUME DrainOut, todo # <<>> PROVE DrainInv'
    <2>1. /\ pc = "callout" /\ todo' = Tail(todo) /\ Free(Head(todo))
          /\ UNCHANGED <<callout, drain, happened>>
      BY <1>8 DEF DrainOut
    <2>2. Head(todo) \in Buffers
      BY <1>8, HeadType
    <2>3. seg'[Head(todo)] # "live" /\ \A b \in Buffers : b # Head(todo) => seg'[b] = seg[b]
      BY <2>1, <2>2, SegFreed
    <2>4. ASSUME NEW b \in {"pwdb", "password"}, seg'[b] = "live", ~Spared PROVE Listed(b)'
      <3>1. seg[b] = "live" /\ b # Head(todo)
        BY <2>3, <2>4 DEF Buffers
      <3>2. Listed(b)
        BY <2>1, <2>4, <3>1
      <3> QED
        BY <1>8, <2>1, <3>1, <3>2, TailLists DEF TypeInv, TodoInv
    <2> QED
      BY <2>1, <2>4 DEF Spared
  <1>9. ASSUME NEW s \in Signals, Die(s) \/ Cancel(s) PROVE DrainInv'
    BY <1>1, <1>9 DEF Die, Cancel, PlaceInv, Listed, Spared, Arrives, Deliverable
  <1>10. ASSUME NEW s \in Signals, CallOut(s) PROVE DrainInv'
    <2>1. /\ pc' = "callout" /\ callout # "none" /\ UNCHANGED <<callout, drain>>
          /\ todo' = IF drain /\ callout = "drain" THEN <<"pwdb", "password">> ELSE <<>>
      BY <1>10 DEF CallOut
    <2>2. ASSUME ~Spared' PROVE pc \notin {"armArgs", "free", "returned"}
      BY <1>10, <2>2 DEF CallOut, Arrives, Spared, Narrow
    <2>3. ASSUME ~Spared' PROVE ~Spared /\ pc \in BeforeExit
      BY <1>10, <2>3 DEF CallOut, Arrives, Spared, Deliverable
    <2>4. ASSUME ~Spared' PROVE callout = "drain" /\ drain = TRUE
      BY <2>1, <2>2, <2>3, <2>4 DEF PlaceInv, Sending, Late, Ended, BeforeExit, TypeInv, TypeOK
    <2>5. ASSUME todo' = <<"pwdb", "password">>, NEW b \in {"pwdb", "password"} PROVE Listed(b)'
      <3>1. Len(todo') = 2 /\ todo'[1] = "pwdb" /\ todo'[2] = "password" /\ 1 \in 1..2 /\ 2 \in 1..2
        BY <2>5
      <3> QED
        BY <3>1 DEF Listed
    <2> QED
      BY <2>1, <2>4, <2>5
  <1>11. ASSUME UNCHANGED vars PROVE DrainInv'
    BY <1>11 DEF vars, Listed, Spared
  <1> QED
    BY <1>2, <1>3, <1>4, <1>5, <1>6, <1>7, <1>8, <1>9, <1>10, <1>11 DEF Next, Step, Interrupt

-----------------------------------------------------------------------------
\* From the device's answer to the last key, "get" has no error to report; afterwards it
\* has none only if every key of what it was to type was sent.
TypedInv ==
    /\ "noTIOCSTI" \notin happened => typed = sent
    /\ "longPassword" \notin happened => keys = Size
    /\ command.op = "get" /\ err = 0 =>
          \/ pc \in {"drain", "send", "arm", "armArgs", "type", "callout", "aborted", "killed"}
          \/ sent = keys

LEMMA TypedStep ==
    ASSUME TypeInv, TypedInv
    PROVE  [Next]_vars => TypedInv'
  <1> USE DEF TypedInv, memory, keyboard, signal, typing, Goto
  <1>1. ASSUME Open PROVE TypedInv'
    BY <1>1 DEF Open
  <1>2. ASSUME Check \/ Forget PROVE TypedInv'
    BY <1>2 DEF Check, Forget, Epilogue
  <1>3. ASSUME Call PROVE TypedInv'
    <2>1. UNCHANGED <<command, happened, keys, typed, sent>>
      BY <1>3 DEF Call
    <2>2. command.op = "get" /\ err' = 0 => pc' = "drain"
      BY <1>3 DEF Call
    <2> QED
      BY <2>1, <2>2
  <1>4. ASSUME Prompt \/ Reset \/ Hook \/ Decode \/ Restore PROVE TypedInv'
    BY <1>4 DEF Prompt, Reset, Hook, Decode, Restore
  <1>5. ASSUME TypeLine PROVE TypedInv'
    <2>1. pc = "reading" /\ UNCHANGED <<command, keys, typed, sent, err>>
      BY <1>5 DEF TypeLine
    <2>2. happened \subseteq happened'
      BY <1>5, HappenedGrows DEF Next
    <2> QED
      BY <2>1, <2>2
  <1>6. ASSUME Send \/ SendConsole PROVE TypedInv'
    <2>1. UNCHANGED <<command, typed, sent>>
      BY <1>6 DEF Send, SendConsole
    <2>2. err' = 1 \/ (err' = err /\ pc' = "arm")
      BY <1>6 DEF Send, SendConsole
    <2>3. happened \subseteq happened'
      BY <1>6, HappenedGrows DEF Next, Step
    <2>4. "longPassword" \notin happened' => keys' = Size
      BY <1>6, <2>3 DEF Send, SendConsole
    <2> QED
      BY <2>1, <2>2, <2>3, <2>4
  <1>14. ASSUME FillDrain \/ Arm \/ ArmArgs PROVE TypedInv'
    BY <1>14 DEF FillDrain, Arm, ArmArgs
  <1>7. ASSUME TypeKey PROVE TypedInv'
    BY <1>7 DEF TypeKey
  <1>8. ASSUME InjectKey PROVE TypedInv'
    BY <1>8 DEF InjectKey
  <1>9. ASSUME LastKey PROVE TypedInv'
    BY <1>9 DEF LastKey
  <1>10. ASSUME Finish PROVE TypedInv'
    BY <1>10 DEF Finish
  <1>11. ASSUME FreeNext \/ Return \/ Exit \/ DrainOut PROVE TypedInv'
    BY <1>11 DEF FreeNext, Return, Exit, DrainOut
  <1>12. ASSUME NEW s \in Signals, Die(s) \/ Cancel(s) \/ CallOut(s) PROVE TypedInv'
    BY <1>12 DEF Die, Cancel, CallOut, Arrives, Deliverable
  <1>13. ASSUME UNCHANGED vars PROVE TypedInv'
    BY <1>13 DEF vars
  <1> QED
    BY <1>1, <1>2, <1>3, <1>4, <1>5, <1>6, <1>7, <1>8, <1>9, <1>10, <1>11, <1>12, <1>13,
       <1>14 DEF Next, Step, Interrupt

-----------------------------------------------------------------------------
\* The buffers are asked for in this order, each after the one it confirms.
Rank == [pwdb |-> 1, pwdb2 |-> 2, session |-> 3, session2 |-> 4, password |-> 5,
         password2 |-> 6, input |-> 7, aliases |-> 8]

InOrder(s) == \A i, j \in 1..Len(s) : i < j => Rank[s[i]] < Rank[s[j]]

\* A prompt that has been answered and gone through.
Answering   == {"decode", "restore", "check"}
Answered(b) == text[b] # "nothing" /\ ~(pc \in Answering /\ b = Head(todo))

AnswerInv ==
    /\ pc = "open" => \A b \in Buffers : text[b] = "nothing"
    /\ pc \in Asking =>
          InOrder(todo) /\ \A b \in Buffers : Answered(b) => Rank[b] < Rank[Head(todo)]

\* A piece of the order: buffers after the n-th, up to the m-th.
Fits(s, n, m) ==
    /\ s \in Seq(Buffers)
    /\ InOrder(s)
    /\ \A i \in 1..Len(s) : n < Rank[s[i]] /\ Rank[s[i]] <= m

LEMMA JoinOrder ==
    ASSUME NEW n \in Nat, NEW m \in Nat, n <= m, NEW s, NEW t, Fits(s, 0, n), Fits(t, n, m)
    PROVE  Fits(s \o t, 0, m)
  <1>0. \A b \in Buffers : Rank[b] \in Nat
    BY DEF Rank, Buffers
  <1>1. s \in Seq(Buffers) /\ t \in Seq(Buffers) /\ InOrder(s) /\ InOrder(t)
    BY DEF Fits
  <1>2. /\ s \o t \in Seq(Buffers) /\ Len(s \o t) = Len(s) + Len(t)
        /\ Len(s) \in Nat /\ Len(t) \in Nat
        /\ \A i \in 1..Len(s) : (s \o t)[i] = s[i]
        /\ \A i \in (Len(s) + 1)..(Len(s) + Len(t)) :
              (s \o t)[i] = t[i - Len(s)] /\ i - Len(s) \in 1..Len(t)
    BY <1>1
  <1>3. ASSUME NEW i \in 1..Len(s \o t)
        PROVE  i \in 1..Len(s) \/ i \in (Len(s) + 1)..(Len(s) + Len(t))
    BY <1>2
  <1>4. ASSUME NEW i \in 1..Len(s) PROVE s[i] \in Buffers /\ 0 < Rank[s[i]] /\ Rank[s[i]] <= n
    BY <1>1 DEF Fits
  <1>5. ASSUME NEW i \in 1..Len(t) PROVE t[i] \in Buffers /\ n < Rank[t[i]] /\ Rank[t[i]] <= m
    BY <1>1 DEF Fits
  <1>6. ASSUME NEW i \in 1..Len(s \o t), NEW j \in 1..Len(s \o t), i < j
        PROVE  Rank[(s \o t)[i]] < Rank[(s \o t)[j]]
    <2>1. CASE i \in 1..Len(s) /\ j \in 1..Len(s)
      BY <1>1, <1>2, <1>6, <2>1 DEF InOrder
    <2>2. CASE i \in 1..Len(s) /\ j \in (Len(s) + 1)..(Len(s) + Len(t))
      BY <1>0, <1>2, <1>4, <1>5, <2>2
    <2>3. CASE i \in (Len(s) + 1)..(Len(s) + Len(t)) /\ j \in (Len(s) + 1)..(Len(s) + Len(t))
      <3>1. i - Len(s) < j - Len(s)
        BY <1>2, <1>6, <2>3
      <3> QED
        BY <1>1, <1>2, <2>3, <3>1 DEF InOrder
    <2>4. ~(i \in (Len(s) + 1)..(Len(s) + Len(t)) /\ j \in 1..Len(s))
      BY <1>2, <1>6
    <2> QED
      BY <1>3, <2>1, <2>2, <2>3, <2>4
  <1>7. ASSUME NEW i \in 1..Len(s \o t)
        PROVE  0 < Rank[(s \o t)[i]] /\ Rank[(s \o t)[i]] <= m
    <2>1. CASE i \in 1..Len(s)
      BY <1>0, <1>2, <1>4, <2>1
    <2>2. CASE i \in (Len(s) + 1)..(Len(s) + Len(t))
      BY <1>0, <1>2, <1>5, <2>2
    <2> QED
      BY <1>3, <2>1, <2>2
  <1> QED
    BY <1>2, <1>6, <1>7 DEF Fits, InOrder

LEMMA PromptsOrder ==
    ASSUME TypeOK
    PROVE  InOrder(Prompts)
  <1> DEFINE p1 == When(command.init, <<"pwdb2">>)
             p2 == When(command.sessioned, <<"session">>)
             p3 == When(command.sessioned /\ command.op = "attach", <<"session2">>)
             p4 == When(command.op = "add" /\ ~command.generate, <<"password", "password2">>)
  <1>0. /\ Rank["pwdb"] = 1 /\ Rank["pwdb2"] = 2 /\ Rank["session"] = 3 /\ Rank["session2"] = 4
        /\ Rank["password"] = 5 /\ Rank["password2"] = 6
        /\ {"pwdb", "pwdb2", "session", "session2", "password", "password2"} \subseteq Buffers
    BY DEF Rank, Buffers
  <1>1. \A n, m \in Nat : Fits(<<>>, n, m)
    BY DEF Fits, InOrder
  <1>2. \A b \in Buffers, n, m \in Nat : n < Rank[b] /\ Rank[b] <= m => Fits(<<b>>, n, m)
    BY DEF Fits, InOrder
  <1>3. Fits(<<"password", "password2">>, 4, 6)
    <2>1. <<"password", "password2">> \in Seq(Buffers)
      BY <1>0
    <2>2. \A i \in 1..2 : i = 1 \/ i = 2
      OBVIOUS
    <2> QED
      BY <1>0, <2>1, <2>2 DEF Fits, InOrder
  <1>4. /\ Fits(<<"pwdb">>, 0, 1) /\ Fits(<<"pwdb2">>, 1, 2) /\ Fits(<<"session">>, 2, 3)
        /\ Fits(<<"session2">>, 3, 4)
    BY <1>0, <1>2
  <1>5. Fits(p1, 1, 2) /\ Fits(p2, 2, 3) /\ Fits(p3, 3, 4) /\ Fits(p4, 4, 6)
    BY <1>1, <1>3, <1>4 DEF When
  <1> HIDE DEF p1, p2, p3, p4
  <1>6. Fits(<<"pwdb">> \o p1, 0, 2)
    BY <1>4, <1>5, JoinOrder, 1 \in Nat /\ 2 \in Nat /\ 1 <= 2
  <1>7. Fits((<<"pwdb">> \o p1) \o p2, 0, 3)
    BY <1>5, <1>6, JoinOrder, 2 \in Nat /\ 3 \in Nat /\ 2 <= 3
  <1>8. Fits(((<<"pwdb">> \o p1) \o p2) \o p3, 0, 4)
    BY <1>5, <1>7, JoinOrder, 3 \in Nat /\ 4 \in Nat /\ 3 <= 4
  <1>9. Fits((((<<"pwdb">> \o p1) \o p2) \o p3) \o p4, 0, 6)
    BY <1>5, <1>8, JoinOrder, 4 \in Nat /\ 6 \in Nat /\ 4 <= 6
  <1> QED
    BY <1>9 DEF Fits, Prompts, p1, p2, p3, p4

LEMMA TailOrder ==
    ASSUME NEW s \in Seq(Buffers), s # <<>>, InOrder(s)
    PROVE  InOrder(Tail(s)) /\ (Tail(s) # <<>> => Rank[Head(s)] < Rank[Head(Tail(s))])
  <1>1. /\ Len(Tail(s)) = Len(s) - 1 /\ Len(s) \in Nat
        /\ \A i \in 1..Len(Tail(s)) : Tail(s)[i] = s[i + 1] /\ i + 1 \in 1..Len(s)
        /\ Head(s) = s[1] /\ 1 \in 1..Len(s) /\ Tail(s) \in Seq(Buffers)
    OBVIOUS
  <1>2. ASSUME NEW i \in 1..Len(Tail(s)), NEW j \in 1..Len(Tail(s)), i < j
        PROVE  Rank[Tail(s)[i]] < Rank[Tail(s)[j]]
    <2>1. i + 1 < j + 1 /\ i + 1 \in 1..Len(s) /\ j + 1 \in 1..Len(s)
      BY <1>1, <1>2
    <2> QED
      BY <1>1, <2>1 DEF InOrder
  <1>3. ASSUME Tail(s) # <<>> PROVE Rank[Head(s)] < Rank[Head(Tail(s))]
    <2>1. Head(Tail(s)) = s[2] /\ 2 \in 1..Len(s)
      BY <1>1, <1>3
    <2> QED
      BY <1>1, <2>1 DEF InOrder
  <1> QED
    BY <1>2, <1>3 DEF InOrder

LEMMA TextHead ==
    ASSUME TypeInv, NEW r, text' = [text EXCEPT ![Head(todo)] = r], todo # <<>>
    PROVE  text'[Head(todo)] = r /\ \A b \in Buffers : b # Head(todo) => text'[b] = text[b]
  <1>1. text \in [Buffers -> Keys \cup {"nothing", "partial", "garbage"}]
    BY DEF TypeInv, TypeOK
  <1> QED
    BY <1>1, HeadType, Except

LEMMA AnswerStep ==
    ASSUME TypeInv, PlaceInv, AnswerInv
    PROVE  [Next]_vars => AnswerInv'
  <1> USE DEF AnswerInv, Asking, Answering, Answered, memory, keyboard, signal, typing, Goto
  <1>1. ASSUME pc' \notin {"open"} \cup Asking PROVE AnswerInv'
    BY <1>1
  <1>2. ASSUME Open PROVE AnswerInv'
    <2>1. pc = "open" /\ text' = text
      BY <1>2 DEF Open
    <2>2. pc' = "free" \/ (pc' = "prompt" /\ todo' = Prompts)
      BY <1>2 DEF Open, Epilogue
    <2>3. InOrder(Prompts)
      BY PromptsOrder DEF TypeInv
    <2> QED
      BY <2>1, <2>2, <2>3
  <1>3. ASSUME Prompt PROVE AnswerInv'
    <2>1. pc = "prompt" /\ pc' \in {"reset", "check"} /\ UNCHANGED <<text, todo>>
      BY <1>3 DEF Prompt
    <2> QED
      BY <2>1
  <1>4. ASSUME Reset \/ Hook PROVE AnswerInv'
    BY <1>4 DEF Reset, Hook
  <1>5. ASSUME TypeLine PROVE AnswerInv'
    <2>1. pc = "reading" /\ pc' \in {"restore", "decode"} /\ UNCHANGED <<text, todo>>
      BY <1>5 DEF TypeLine
    <2> QED
      BY <2>1
  <1>6. ASSUME Decode PROVE AnswerInv'
    <2>1. pc = "decode" /\ pc' \in {"restore", "decode", "killed"} /\ todo' = todo
      BY <1>6 DEF Decode
    <2>2. text' = text \/ \E r : text' = [text EXCEPT ![Head(todo)] = r]
      BY <1>6 DEF Decode
    <2>3. \A b \in Buffers : b # Head(todo) => text'[b] = text[b]
      BY <2>1, <2>2, TextHead DEF TypeInv, TodoInv
    <2> QED
      BY <2>1, <2>3
  <1>7. ASSUME Restore PROVE AnswerInv'
    BY <1>7 DEF Restore
  <1>8. ASSUME Check PROVE AnswerInv'
    <2>1. pc = "check" /\ text' = text
      BY <1>8 DEF Check
    <2>2. pc' \in {"free", "call"} \/ (pc' = "prompt" /\ todo' = Tail(todo) /\ todo' # <<>>)
      BY <1>8 DEF Check, Epilogue
    <2>3. CASE pc' = "prompt" /\ todo' = Tail(todo) /\ todo' # <<>>
      <3>1. todo # <<>> /\ todo \in Seq(Buffers) /\ InOrder(todo)
        BY <2>1 DEF TypeInv, TypeOK, TodoInv
      <3>2. InOrder(todo') /\ Rank[Head(todo)] < Rank[Head(todo')]
        BY <2>3, <3>1, TailOrder
      <3>3. Head(todo) \in Buffers /\ Head(todo') \in Buffers
        BY <2>3, <3>1
      <3>4. \A b \in Buffers : Rank[b] \in Nat
        BY DEF Rank, Buffers
      <3>5. ASSUME NEW b \in Buffers, text[b] # "nothing" PROVE Rank[b] < Rank[Head(todo')]
        <4>1. b = Head(todo) \/ Rank[b] < Rank[Head(todo)]
          BY <2>1, <3>5
        <4> QED
          BY <3>2, <3>3, <3>4, <4>1
      <3> QED
        BY <2>1, <2>3, <3>2, <3>5
    <2> QED
      BY <2>2, <2>3
  <1>9. ASSUME Call \/ Forget PROVE AnswerInv'
    <2>1. pc' \in {"free", "drain"}
      BY <1>9 DEF Call, Forget, Epilogue
    <2> QED
      BY <2>1
  <1>10. ASSUME FillDrain \/ Send \/ SendConsole \/ Arm \/ ArmArgs PROVE AnswerInv'
    BY <1>10 DEF FillDrain, Send, SendConsole, Arm, ArmArgs
  <1>11. ASSUME TypeKey \/ InjectKey \/ LastKey \/ Finish PROVE AnswerInv'
    BY <1>11 DEF TypeKey, InjectKey, LastKey, Finish
  <1>12. ASSUME FreeNext \/ Return \/ Exit \/ DrainOut PROVE AnswerInv'
    BY <1>12 DEF FreeNext, Return, Exit, DrainOut
  <1>13. ASSUME Interrupt PROVE AnswerInv'
    BY <1>13 DEF Interrupt, Die, Cancel, CallOut, Arrives, Deliverable
  <1>14. ASSUME UNCHANGED vars PROVE AnswerInv'
    BY <1>14 DEF vars
  <1> QED
    BY <1>2, <1>3, <1>4, <1>5, <1>6, <1>7, <1>8, <1>9, <1>10, <1>11, <1>12, <1>13, <1>14
       DEF Next, Step

-----------------------------------------------------------------------------
\* A line is decoded to its end, and what was confirmed is equal to what it confirms.
Spoilt == happened \cap {"decode", "endOfInput"} # {}

WholeInv ==
    /\ pc = "decode" => line \in Keys
    /\ \A b \in Buffers :
          /\ text[b] # "garbage"
          /\ text[b] = "partial" => pc = "decode" /\ b = Head(todo) /\ abort = FALSE
    /\ pc \in {"call"} \cup Asking =>
          \A b \in DOMAIN Again : Answered(b) => text[b] = text[Again[b]]

TextInv == Spoilt \/ WholeInv

LEMMA AgainEarlier ==
    ASSUME NEW b \in DOMAIN Again
    PROVE  b \in Buffers /\ Again[b] \in Buffers /\ Rank[Again[b]] < Rank[b] /\ Again[b] # b
  <1>1. b \in {"pwdb2", "session2", "password2"}
    BY DEF Again
  <1>2. CASE b = "pwdb2"
    BY <1>2 DEF Again, Rank, Buffers
  <1>3. CASE b = "session2"
    BY <1>3 DEF Again, Rank, Buffers
  <1>4. CASE b = "password2"
    BY <1>4 DEF Again, Rank, Buffers
  <1> QED
    BY <1>1, <1>2, <1>3, <1>4

LEMMA RankType == \A b \in Buffers : Rank[b] \in Nat
  BY DEF Rank, Buffers

LEMMA WholeStep ==
    ASSUME TypeInv, EchoInv, PlaceInv, AnswerInv, WholeInv, ~Spoilt'
    PROVE  [Next]_vars => WholeInv'
  <1> USE DEF WholeInv, Asking, Answering, memory, keyboard, signal, typing, Goto
  <1>1. ASSUME pc # "decode", pc' \notin {"decode", "call"} \cup Asking, text' = text
        PROVE  WholeInv'
    BY <1>1
  <1>2. ASSUME Open PROVE WholeInv'
    <2>1. pc = "open" /\ text' = text /\ pc' \in {"prompt", "free"}
      BY <1>2 DEF Open, Epilogue
    <2>2. \A b \in Buffers : text'[b] = "nothing"
      BY <2>1 DEF AnswerInv
    <2> QED
      BY <2>1, <2>2, AgainEarlier DEF Answered
  <1>3. ASSUME Prompt PROVE WholeInv'
    <2>1. pc = "prompt" /\ pc' \in {"reset", "check"} /\ UNCHANGED <<text, todo>>
      BY <1>3 DEF Prompt
    <2>2. \A b \in Buffers : Answered(b)' => Answered(b)
      BY <2>1 DEF Answered
    <2> QED
      BY <2>1, <2>2, AgainEarlier
  <1>4. ASSUME Reset \/ Hook PROVE WholeInv'
    <2>1. pc \in {"reset", "hook"} /\ pc' \in {"hook", "reading"} /\ UNCHANGED <<text, todo>>
      BY <1>4 DEF Reset, Hook
    <2>2. \A b \in Buffers : Answered(b)' => Answered(b)
      BY <2>1 DEF Answered
    <2> QED
      BY <2>1, <2>2, AgainEarlier
  <1>5. ASSUME TypeLine PROVE WholeInv'
    <2>1. pc = "reading" /\ pc' \in {"decode", "restore"} /\ UNCHANGED <<text, todo>>
      BY <1>5 DEF TypeLine
    <2>2. line' \in Keys \/ line' = "nothing"
      BY <1>5 DEF TypeLine, Spoilt
    <2>3. line' = "nothing" => pc' = "restore"
      BY <1>5 DEF TypeLine
    <2>4. \A b \in Buffers : Answered(b)' => Answered(b)
      BY <2>1 DEF Answered
    <2> QED
      BY <2>1, <2>2, <2>3, <2>4, AgainEarlier
  <1>6. ASSUME Decode PROVE WholeInv'
    <2>0. CASE pc' = "killed"
      <3>1. pc = "decode" /\ text' = text /\ text[Head(todo)] = "nothing"
        BY <1>6, <2>0 DEF Decode
      <3>2. \A b \in Buffers : text[b] # "partial"
        BY <3>1
      <3> QED
        BY <2>0, <3>1, <3>2
    <2> SUFFICES ASSUME pc' # "killed" PROVE WholeInv'
      BY <2>0
    <2>1. pc = "decode" /\ UNCHANGED <<todo, line, abort>> /\ todo # <<>>
      BY <1>6 DEF Decode, TypeInv, TodoInv
    <2>2. Head(todo) \in Buffers
      BY <2>1, HeadType
    <2>3. line \in Keys /\ line \notin {"nothing", "partial", "garbage"}
      BY <2>1, CommandAssumption
    <2>4. \/ (abort = TRUE /\ pc' = "restore" /\ text' = text)
          \/ (abort = FALSE /\ pc' = "decode" /\ text' = [text EXCEPT ![Head(todo)] = "partial"])
          \/ (pc' = "restore" /\ text' = [text EXCEPT ![Head(todo)] = line])
      <3>1. abort = TRUE \/ abort = FALSE
        BY DEF TypeInv, TypeOK
      <3> QED
        BY <1>6, <3>1 DEF Decode
    <2>5. /\ \A b \in Buffers : b # Head(todo) => text'[b] = text[b]
          /\ \/ (abort = TRUE /\ pc' = "restore" /\ text' = text)
             \/ (abort = FALSE /\ pc' = "decode" /\ text'[Head(todo)] = "partial")
             \/ (pc' = "restore" /\ text'[Head(todo)] = line)
      BY <2>1, <2>4, TextHead
    <2>6. pc' = "decode" => line' \in Keys
      BY <2>1, <2>3
    <2>7. ASSUME NEW b \in Buffers
          PROVE  /\ text'[b] # "garbage"
                 /\ text'[b] = "partial" => pc' = "decode" /\ b = Head(todo') /\ abort' = FALSE
      <3>1. CASE b = Head(todo)
        BY <2>1, <2>3, <2>5, <2>7, <3>1
      <3>2. CASE b # Head(todo)
        BY <2>1, <2>5, <2>7, <3>2
      <3> QED
        BY <3>1, <3>2
    <2>8. ASSUME NEW b \in DOMAIN Again, Answered(b)' PROVE text'[b] = text'[Again[b]]
      <3>1. b \in Buffers /\ Again[b] \in Buffers /\ Rank[Again[b]] < Rank[b]
        BY AgainEarlier
      <3>2. b # Head(todo) /\ text'[b] = text[b]
        BY <2>1, <2>5, <2>8, <3>1 DEF Answered
      <3>3. Answered(b) /\ text[b] = text[Again[b]]
        BY <2>1, <2>8, <3>2 DEF Answered
      <3>4. Rank[b] < Rank[Head(todo)]
        BY <2>1, <3>1, <3>3 DEF AnswerInv
      <3>5. Again[b] # Head(todo)
        BY <2>2, <3>1, <3>4, RankType
      <3> QED
        BY <2>5, <3>1, <3>2, <3>3, <3>5
    <2> QED
      BY <2>6, <2>7, <2>8
  <1>7. ASSUME Restore PROVE WholeInv'
    <2>1. pc = "restore" /\ pc' = "check" /\ UNCHANGED <<text, todo>>
      BY <1>7 DEF Restore
    <2>2. \A b \in Buffers : Answered(b)' => Answered(b)
      BY <2>1 DEF Answered
    <2> QED
      BY <2>1, <2>2, AgainEarlier
  <1>8. ASSUME Check PROVE WholeInv'
    <2>1. pc = "check" /\ text' = text /\ pc' \in {"call", "prompt", "free"}
      BY <1>8 DEF Check, Epilogue
    <2>2. ASSUME NEW b \in DOMAIN Again, pc' # "free", text[b] # "nothing"
          PROVE  text[b] = text[Again[b]]
      <3>1. b \in Buffers /\ Again[b] \in Buffers
        BY AgainEarlier
      <3>2. CASE b = Head(todo)
        <4>1. MayMatch(text[b], text[Again[b]])
          BY <1>8, <2>2, <3>2 DEF Check, Epilogue
        <4>2. text[b] \notin {"partial", "garbage"} /\ text[Again[b]] \notin {"partial", "garbage"}
          BY <2>1, <3>1
        <4> QED
          BY <4>1, <4>2 DEF MayMatch
      <3>3. CASE b # Head(todo)
        BY <2>1, <2>2, <3>3 DEF Answered
      <3> QED
        BY <3>2, <3>3
    <2> QED
      BY <2>1, <2>2 DEF Answered
  <1>9. ASSUME Call \/ Forget PROVE WholeInv'
    <2>1. pc # "decode" /\ text' = text /\ pc' \in {"free", "drain"}
      BY <1>9 DEF Call, Forget, Epilogue
    <2> QED
      BY <1>1, <2>1
  <1>10. ASSUME FillDrain \/ Send \/ SendConsole \/ Arm \/ ArmArgs PROVE WholeInv'
    BY <1>1, <1>10 DEF FillDrain, Send, SendConsole, Arm, ArmArgs
  <1>11. ASSUME TypeKey \/ InjectKey \/ LastKey \/ Finish PROVE WholeInv'
    BY <1>1, <1>11 DEF TypeKey, InjectKey, LastKey, Finish
  <1>12. ASSUME FreeNext \/ Return \/ Exit \/ DrainOut PROVE WholeInv'
    BY <1>1, <1>12 DEF FreeNext, Return, Exit, DrainOut
  <1>13. ASSUME NEW s \in Signals, Die(s) PROVE WholeInv'
    <2>1. pc # "decode" /\ pc' = "killed" /\ text' = text
      BY <1>13 DEF Die, EchoInv, Ended
    <2> QED
      BY <1>1, <2>1
  <1>14. ASSUME NEW s \in Signals, Cancel(s) PROVE WholeInv'
    <2>1. pc # "decode" /\ UNCHANGED <<pc, todo, text, line>>
      BY <1>14 DEF Cancel, Arrives, Spoilt, Narrow
    <2>2. \A b \in Buffers : Answered(b)' => Answered(b)
      BY <2>1 DEF Answered
    <2> QED
      BY <2>1, <2>2, AgainEarlier
  <1>15. ASSUME NEW s \in Signals, CallOut(s) PROVE WholeInv'
    <2>1. pc # "decode" /\ pc' = "callout" /\ text' = text
      BY <1>15 DEF CallOut, PlaceInv, Late, Ended
    <2> QED
      BY <1>1, <2>1
  <1>16. ASSUME UNCHANGED vars PROVE WholeInv'
    BY <1>16 DEF vars, Answered
  <1> QED
    BY <1>2, <1>3, <1>4, <1>5, <1>6, <1>7, <1>8, <1>9, <1>10, <1>11, <1>12, <1>13, <1>14,
       <1>15, <1>16 DEF Next, Step, Interrupt

LEMMA TextStep ==
    ASSUME TypeInv, EchoInv, PlaceInv, AnswerInv, TextInv, [Next]_vars
    PROVE  TextInv'
  BY HappenedGrows, WholeStep DEF TextInv, Spoilt

-----------------------------------------------------------------------------
\* What was typed for all to see is what a handler interrupted, and is not decoded.
UnseenInv ==
    /\ pc = "reset" => echo = FALSE
    /\ pc \in {"hook", "reading"} /\ echo = TRUE => abort = TRUE
    /\ shown = TRUE =>
          \/ pc \in Gone
          \/ /\ pc \in Answering
             /\ text[Head(todo)] = "nothing"
             /\ pc = "decode" => abort = TRUE

SeenInv == "reset" \in happened \/ UnseenInv

LEMMA UnseenStep ==
    ASSUME TypeInv, EchoInv, PlaceInv, AnswerInv, UnseenInv, "reset" \notin happened'
    PROVE  [Next]_vars => UnseenInv'
  <1> USE DEF UnseenInv, Gone, Late, Ended, Answering, memory, keyboard, signal, typing, Goto
  <1>1. ASSUME pc' \notin {"reset", "hook", "reading"} \cup Answering,
               shown' = shown, pc \notin Gone \cup Answering
        PROVE  UnseenInv'
    BY <1>1 DEF TypeInv, TypeOK
  <1>2. ASSUME pc' \in Gone PROVE UnseenInv'
    BY <1>2
  <1>3. ASSUME Open PROVE UnseenInv'
    <2>1. pc = "open" /\ pc' \in {"prompt", "free"} /\ shown' = shown
      BY <1>3 DEF Open, Epilogue
    <2> QED
      BY <1>1, <2>1
  <1>4. ASSUME Prompt PROVE UnseenInv'
    <2>1. /\ pc = "prompt" /\ shown' = shown
          /\ (pc' = "reset" /\ echo' = FALSE) \/ pc' = "check"
      BY <1>4 DEF Prompt
    <2> QED
      BY <2>1
  <1>5. ASSUME Reset \/ Hook PROVE UnseenInv'
    <2>1. ASSUME Reset PROVE UnseenInv'
      BY <2>1 DEF Reset
    <2>2. ASSUME Hook PROVE UnseenInv'
      BY <2>2 DEF Hook
    <2> QED
      BY <1>5, <2>1, <2>2
  <1>6. ASSUME TypeLine PROVE UnseenInv'
    <2>1. /\ pc = "reading" /\ pc' \in {"restore", "decode"} /\ UNCHANGED <<text, todo, abort>>
          /\ shown' = (shown \/ echo)
      BY <1>6 DEF TypeLine
    <2>2. shown # TRUE
      BY <2>1
    <2>3. shown' = TRUE => echo = TRUE
      BY <2>1, <2>2 DEF TypeInv, TypeOK
    <2>4. Head(todo) \in Buffers /\ Rank[Head(todo)] \in Nat
      BY <2>1, HeadType, RankType DEF TypeInv, TodoInv, Asking
    <2>5. text[Head(todo)] = "nothing"
      BY <2>1, <2>4 DEF AnswerInv, Answered, Asking
    <2> QED
      BY <2>1, <2>3, <2>5
  <1>7. ASSUME Decode PROVE UnseenInv'
    <2>1. /\ pc = "decode" /\ UNCHANGED <<todo, abort, shown>>
          /\ pc' \in {"restore", "decode"} \/ (~abort /\ pc' = "killed")
          /\ abort => pc' = "restore" /\ text' = text
      BY <1>7 DEF Decode
    <2>2. shown = TRUE => abort
      BY <2>1
    <2> QED
      BY <1>2, <2>1, <2>2
  <1>8. ASSUME Restore PROVE UnseenInv'
    BY <1>8 DEF Restore
  <1>9. ASSUME Check PROVE UnseenInv'
    <2>1. pc = "check" /\ shown' = shown /\ pc' \in {"call", "prompt", "free"}
      BY <1>9 DEF Check, Epilogue
    <2>2. shown = TRUE => pc' = "free"
      BY <1>9, <2>1 DEF Check, Epilogue
    <2> QED
      BY <2>1, <2>2
  <1>10. ASSUME Call \/ Forget PROVE UnseenInv'
    <2>1. pc \in {"call", "forget"} /\ shown' = shown /\ pc' \in {"free", "drain"}
      BY <1>10 DEF Call, Forget, Epilogue
    <2> QED
      BY <1>1, <2>1
  <1>11. ASSUME FillDrain \/ Send \/ SendConsole \/ Arm \/ ArmArgs PROVE UnseenInv'
    BY <1>1, <1>11 DEF FillDrain, Send, SendConsole, Arm, ArmArgs
  <1>12. ASSUME TypeKey \/ InjectKey \/ LastKey \/ Finish PROVE UnseenInv'
    BY <1>1, <1>12 DEF TypeKey, InjectKey, LastKey, Finish
  <1>13. ASSUME FreeNext \/ Return \/ Exit \/ DrainOut PROVE UnseenInv'
    BY <1>2, <1>13 DEF FreeNext, Return, Exit, DrainOut
  <1>14. ASSUME NEW s \in Signals, Die(s) \/ CallOut(s) PROVE UnseenInv'
    BY <1>2, <1>14 DEF Die, CallOut
  <1>15. ASSUME NEW s \in Signals, Cancel(s) PROVE UnseenInv'
    <2>1. /\ UNCHANGED <<pc, todo, text, shown>> /\ abort' = TRUE
          /\ pc # "reset"
      BY <1>15 DEF Cancel, Arrives, Narrow
    <2> QED
      BY <2>1
  <1>16. ASSUME UNCHANGED vars PROVE UnseenInv'
    BY <1>16 DEF vars
  <1> QED
    BY <1>3, <1>4, <1>5, <1>6, <1>7, <1>8, <1>9, <1>10, <1>11, <1>12, <1>13, <1>14,
       <1>15, <1>16 DEF Next, Step, Interrupt

LEMMA SeenStep ==
    ASSUME TypeInv, EchoInv, PlaceInv, AnswerInv, SeenInv, [Next]_vars
    PROVE  SeenInv'
  BY HappenedGrows, UnseenStep DEF SeenInv

-----------------------------------------------------------------------------
IInv ==
    /\ TypeInv /\ EchoInv /\ PlaceInv /\ CleanInv /\ OnceInv
    /\ AskedInv /\ DrainInv /\ TypedInv /\ AnswerInv /\ TextInv /\ SeenInv

LEMMA InitInv == Init => IInv
  <1> SUFFICES ASSUME Init PROVE IInv
    OBVIOUS
  <1> USE DEF Init
  <1>1. TypeInv
    <2>1. <<>> \in Seq(Buffers \ {"input"}) /\ <<>> \in Seq(Buffers)
      OBVIOUS
    <2>2. seg \in [Buffers -> {"null", "live", "freed"}]
      OBVIOUS
    <2>3. text \in [Buffers -> Keys \cup {"nothing", "partial", "garbage"}]
      OBVIOUS
    <2>4. hook \in [Signals -> {"watchdog", "getuserkey", "default"}]
      OBVIOUS
    <2>5. keys \in 0..Size /\ sent \in 0..Size /\ typed \in 0..sent /\ err \in 0..1
      BY SizeType
    <2> QED
      BY <2>1, <2>2, <2>3, <2>4, <2>5 DEF TypeInv, TypeOK, TodoInv, Asking, BeforeExit
  <1>2. EchoInv /\ PlaceInv /\ DrainInv
    BY DEF EchoInv, PlaceInv, DrainInv, Sending, Late, Ended
  <1>3. CleanInv /\ AskedInv
    BY DEF CleanInv, AskedInv, Asking, Late, Ended, Buffers
  <1>4. FreshInv
    BY DEF FreshInv, Gone, Late, Ended, Buffers
  <1>5. TypedInv
    BY DEF TypedInv
  <1>6. AnswerInv /\ UnseenInv
    BY DEF AnswerInv, UnseenInv, Asking, Answering, Gone, Late, Ended
  <1>7. WholeInv
    BY DEF WholeInv, Asking
  <1> QED
    BY <1>1, <1>2, <1>3, <1>4, <1>5, <1>6, <1>7 DEF IInv, OnceInv, TextInv, SeenInv

LEMMA NextInv == IInv /\ [Next]_vars => IInv'
  BY TypeStep, EchoStep, PlaceStep, CleanStep, OnceStep, AskedStep, DrainStep, TypedStep,
     AnswerStep, TextStep, SeenStep DEF IInv

LEMMA CommandInv == Spec => []IInv
  BY InitInv, NextInv, PTL DEF Spec

\* The state of the process stays in its types, whatever is typed and whenever it is
\* interrupted.
THEOREM CommandTypeCorrect == Spec => []TypeOK
  <1>1. IInv => TypeOK
    BY DEF IInv, TypeInv
  <1> QED
    BY <1>1, CommandInv, PTL

\* However the process ends, the terminal echoes again, unless it died of a null pointer
\* while it decoded a line.
THEOREM CommandRestoresEcho == Spec => []EchoRestored
  <1>1. IInv => EchoRestored
    BY DEF IInv, EchoInv, EchoRestored, Dark, Ended
  <1> QED
    BY <1>1, CommandInv, PTL

\* Every command that returns has freed what it kept a password in.
THEOREM CommandReturnsClean == Spec => []ReturnsClean
  <1>1. IInv => ReturnsClean
    BY DEF IInv, CleanInv, PlaceInv, Listed, ReturnsClean
  <1> QED
    BY <1>1, CommandInv, PTL

\* Nothing is freed twice, but for the paths that FreesAreLive names.
THEOREM CommandFreesLive == Spec => []FreesAreLive
  <1>1. IInv => FreesAreLive
    BY DEF IInv, OnceInv, FreshInv, Excused, FreesAreLive
  <1> QED
    BY <1>1, CommandInv, PTL

\* The callout frees what "get" keeps, but where DrainClears names the moment.
THEOREM CommandDrains == Spec => []DrainClears
  <1>1. ASSUME IInv, pc = "aborted", ~Spared, NEW b \in Buffers \ {"input"} PROVE seg[b] # "live"
    <2>1. command.op = "get" /\ todo = <<>>
      BY <1>1 DEF IInv, DrainInv, PlaceInv
    <2> QED
      BY <1>1, <2>1 DEF IInv, DrainInv, AskedInv, Listed
  <1>2. IInv => DrainClears
    BY <1>1 DEF DrainClears, Spared
  <1> QED
    BY <1>2, CommandInv, PTL

\* A password that was visible as it was typed is not used, but as SeenIsNotUsed names it.
THEOREM CommandUsesUnseen == Spec => []SeenIsNotUsed
  <1>1. IInv => SeenIsNotUsed
    BY DEF IInv, SeenInv, UnseenInv, SeenIsNotUsed, Gone, Late, Ended, Answering, TypeInv, TypeOK
  <1> QED
    BY <1>1, CommandInv, PTL

\* A new password is whole and was typed twice, but where SetAsTyped names the moment.
THEOREM CommandSetsAsTyped == Spec => []SetAsTyped
  <1>1. ASSUME IInv, pc = "call", ~Spoilt, NEW b \in DOMAIN Again, text[b] # "nothing"
        PROVE  text[b] \in Keys /\ text[b] = text[Again[b]]
    <2>1. b \in Buffers
      BY AgainEarlier
    <2>2. text[b] \in Keys \cup {"nothing", "partial", "garbage"}
      BY <1>1, <2>1 DEF IInv, TypeInv, TypeOK
    <2>3. Answered(b)
      BY <1>1 DEF Answered, Answering
    <2> QED
      BY <1>1, <2>1, <2>2, <2>3 DEF IInv, TextInv, WholeInv
  <1>2. IInv => SetAsTyped
    BY <1>1 DEF SetAsTyped, Spoilt
  <1> QED
    BY <1>2, CommandInv, PTL

\* "get" exits with zero only if the whole password was typed, unless the console refused a
\* key or the copy for X had no room for all of it.
THEOREM CommandTypesAll == Spec => []ZeroMeansTyped
  <1>1. IInv => ZeroMeansTyped
    BY DEF IInv, TypedInv, ZeroMeansTyped
  <1> QED
    BY <1>1, CommandInv, PTL
=============================================================================
