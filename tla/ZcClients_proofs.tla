-------------------------- MODULE ZcClients_proofs --------------------------
(***************************************************************************)
(* For any number of clients, aliases and retries: the handlers exclude    *)
(* one another, and the commands are atomic.                               *)
(*                                                                         *)
(* The lock alone is not inductive: that the handler of a client works on  *)
(* the entries of the file, and on nothing that another one left behind,   *)
(* needs to be known at each of its places.  StatusInv says what may have  *)
(* been answered where, DataInv what the plaintext and the ciphertext are. *)
(***************************************************************************)
EXTENDS ZcClients, TLAPS

Op(c)    == request[c].op
Alias(c) == request[c].alias

StatusInv ==
    \A c \in Clients :
        /\ pc[c] \in {"start", "opened", "reopen", "asked", "call", "open", "edit", "write"}
             => status[c] = "pending"
        /\ pc[c] = "seal" /\ Op(c) \in {"attach", "detach"} => status[c] = "pending"
        /\ pc[c] = "seal" /\ Op(c) = "get" => status[c] # "pending"
        /\ pc[c] = "seal" /\ Op(c) \in {"add", "del"} => status[c] # "ok"
        /\ pc[c] = "leave" => status[c] # "pending"
        /\ pc[c] \in {"open", "edit", "write"} => ~errno[c]
        /\ pc[c] \in {"seal", "leave"} /\ errno[c] => status[c] = "refused"

\* What add and del make of the file, and when.
Edited(c)  == Set(file, Alias(c), IF Op(c) = "add" THEN c ELSE Nobody)
Editable(c) == (Op(c) = "add") <=> (file[Alias(c)] = Nobody)

DataInv ==
    /\ attached /\ (\A c \in Clients : pc[c] \notin {"write", "dead"}) => pwdb = file
    /\ \A c \in Clients :
          /\ pc[c] \in {"edit", "seal", "write"} => attached /\ request[c].right
          /\ pc[c] = "edit" => Op(c) \in {"add", "del", "get"} /\ plbuf = file
          /\ pc[c] = "seal" =>
                IF Op(c) \in {"add", "del"} /\ status[c] = "pending"
                THEN Editable(c) /\ plbuf = Edited(c)
                ELSE plbuf = file
          /\ pc[c] = "write" => Op(c) \in {"add", "del"} /\ Editable(c) /\ pwdb = Edited(c)

IInv == TypeOK /\ OneHandler /\ StatusInv /\ DataInv

\* Nobody is in a handler while the lock is free, and nobody else while a client is.
LEMMA Alone ==
    ASSUME OneHandler, Nobody \notin Clients
    PROVE  /\ lock = Nobody => \A d \in Clients : pc[d] \notin Holding
           /\ \A c, d \in Clients :
                 pc[c] \in Holding /\ pc[d] \in Holding => c = d
  BY DEF OneHandler

\* A step that moves a client about outside the handlers.
LEMMA QuietStep ==
    ASSUME IInv, NEW c \in Clients, NEW place \in Places \ {"leave", "edit", "seal", "write", "dead"},
           pc' = [pc EXCEPT ![c] = place],
           UNCHANGED <<request, kernel>>,
           pc[c] \notin {"edit", "seal", "write", "dead"},
           left' \in [Clients -> 0..MaxTries], exit' \in [Clients -> 0..1],
           errno' \in [Clients -> BOOLEAN], got' \in [Clients -> Clients \cup {Nobody}],
           status' \in [Clients -> {"pending", "ok", "refused"}],
           \A d \in Clients \ {c} : status'[d] = status[d] /\ errno'[d] = errno[d],
           place # "done" => status'[c] = "pending",
           place = "open" => ~errno'[c],
           lock' \in Clients \cup {Nobody}, OneHandler'
    PROVE  IInv'
  <1>1. TypeOK'
    BY DEF IInv, TypeOK, kernel
  <1>2. StatusInv'
    BY <1>1 DEF IInv, TypeOK, StatusInv, Op, Places, InHandler
  <1>3. DataInv'
    BY <1>1 DEF IInv, TypeOK, DataInv, Op, Alias, Edited, Editable, Set, kernel
  <1> QED
    BY <1>1, <1>2, <1>3 DEF IInv

LEMMA OpenLockStep ==
    ASSUME IInv, NEW c \in Clients, OpenLock(c) \/ OpenUnlock(c) \/ OpenBusy(c) \/ Reopen(c)
    PROVE  IInv'
  <1> USE ClientsAssumption DEF IInv, TypeOK, Holding, InHandler, Places, Goto, Set, kernel
  <1>1. CASE OpenLock(c)
    <2>1. OneHandler'
      BY <1>1 DEF OpenLock, OneHandler
    <2> QED
      BY <1>1, <2>1, QuietStep DEF OpenLock, StatusInv
  <1>2. CASE OpenUnlock(c)
    <2>1. OneHandler'
      BY <1>2 DEF OpenUnlock, OneHandler
    <2> QED
      BY <1>2, <2>1, QuietStep DEF OpenUnlock, StatusInv
  <1>3. CASE OpenBusy(c)
    <2>1. OneHandler'
      BY <1>3 DEF OpenBusy, OneHandler
    <2>2. left' \in [Clients -> 0..MaxTries]
      BY <1>3 DEF OpenBusy
    <2> QED
      BY <1>3, <2>1, <2>2, QuietStep DEF OpenBusy, StatusInv
  <1>4. CASE Reopen(c)
    <2>1. OneHandler'
      BY <1>4 DEF Reopen, OneHandler
    <2>2. left' \in [Clients -> 0..MaxTries] /\ exit' \in [Clients -> 0..1]
      BY <1>4 DEF Reopen
    <2>3. CASE left[c] > 0
      <3>1. PICK place \in {"opened", "reopen"} : pc' = [pc EXCEPT ![c] = place]
        BY <1>4, <2>3 DEF Reopen
      <3>2. lock' \in Clients \cup {Nobody}
        BY <1>4, <2>3 DEF Reopen
      <3> QED
        BY <1>4, <2>1, <2>2, <2>3, <3>1, <3>2, QuietStep DEF Reopen, StatusInv
    <2>4. CASE left[c] = 0
      <3>1. pc' = [pc EXCEPT ![c] = "done"]
        BY <1>4, <2>4 DEF Reopen
      <3> QED
        BY <1>4, <2>1, <2>2, <3>1, QuietStep DEF Reopen, StatusInv
    <2> QED
      BY <2>3, <2>4
  <1> QED
    BY <1>1, <1>2, <1>3, <1>4

LEMMA AnswerStep ==
    ASSUME IInv, NEW c \in Clients, Answer(c)
    PROVE  IInv'
  <1> USE ClientsAssumption DEF IInv, TypeOK, Holding, InHandler, Places, Goto, Set, kernel
  <1>1. CASE Type(c)
    <2>1. OneHandler'
      BY <1>1 DEF Type, OneHandler
    <2>2. left' \in [Clients -> 0..MaxTries]
      BY <1>1 DEF Type
    <2> QED
      BY <1>1, <2>1, <2>2, QuietStep DEF Type, StatusInv
  <1>2. CASE Abandon(c)
    <2>1. OneHandler'
      BY <1>2 DEF Abandon, OneHandler
    <2>2. exit' \in [Clients -> 0..1]
      BY <1>2 DEF Abandon
    <2> QED
      BY <1>2, <2>1, <2>2, QuietStep DEF Abandon, StatusInv
  <1> QED
    BY <1>1, <1>2 DEF Answer

\* A failed ioctl is called again or ends the command.
LEMMA RetryType ==
    ASSUME TypeOK, NEW c \in Clients, Retry(c)
    PROVE  /\ left' \in [Clients -> 0..MaxTries]
           /\ exit' \in [Clients -> 0..1]
           /\ \E place \in {"call", "done"} : pc' = [pc EXCEPT ![c] = place]
  <1>1. CASE left[c] > 0
    BY <1>1, ClientsAssumption DEF Retry, TypeOK, Goto, Set
  <1>2. CASE left[c] = 0
    BY <1>2, ClientsAssumption DEF Retry, TypeOK, Goto, Set
  <1> QED
    BY <1>1, <1>2, ClientsAssumption DEF TypeOK

LEMMA CallStep ==
    ASSUME IInv, NEW c \in Clients, Enter(c) \/ Busy(c) \/ Leave(c)
    PROVE  IInv'
  <1> USE ClientsAssumption DEF IInv, TypeOK, Holding, InHandler, Places, Goto, Set, kernel, ExitOf
  <1>1. CASE Enter(c)
    <2>1. OneHandler'
      BY <1>1 DEF Enter, OneHandler
    <2> QED
      BY <1>1, <2>1, QuietStep DEF Enter, StatusInv
  <1>2. CASE Busy(c)
    <2>1. PICK place \in {"call", "done"} : pc' = [pc EXCEPT ![c] = place]
      BY <1>2, RetryType DEF Busy
    <2>2. OneHandler'
      BY <1>2, <2>1 DEF Busy, OneHandler
    <2>3. left' \in [Clients -> 0..MaxTries] /\ exit' \in [Clients -> 0..1]
      BY <1>2, RetryType DEF Busy
    <2> QED
      BY <1>2, <2>1, <2>2, <2>3, QuietStep DEF Busy, StatusInv
  <1>3. CASE Leave(c)
    <2>1. lock = c
      BY <1>3 DEF Leave, OneHandler
    <2>2. CASE errno[c]
      <3>1. PICK place \in {"call", "done"} : pc' = [pc EXCEPT ![c] = place]
        BY <1>3, <2>2, RetryType DEF Leave
      <3>2. OneHandler'
        BY <1>3, <2>1, <3>1 DEF Leave, OneHandler
      <3>3. left' \in [Clients -> 0..MaxTries] /\ exit' \in [Clients -> 0..1]
        BY <1>3, <2>2, RetryType DEF Leave
      <3>4. status' = [status EXCEPT ![c] = "pending"]
        BY <1>3, <2>2 DEF Leave, Says
      <3> QED
        BY <1>3, <3>1, <3>2, <3>3, <3>4, QuietStep DEF Leave
    <2>3. CASE ~errno[c]
      <3>1. pc' = [pc EXCEPT ![c] = "done"]
        BY <1>3, <2>3 DEF Leave
      <3>2. OneHandler'
        BY <1>3, <2>1, <3>1 DEF Leave, OneHandler
      <3>3. exit' \in [Clients -> 0..1] /\ UNCHANGED <<left, status>>
        BY <1>3, <2>3 DEF Leave
      <3> QED
        BY <1>3, <3>1, <3>2, <3>3, QuietStep DEF Leave
    <2> QED
      BY <2>2, <2>3
  <1> QED
    BY <1>1, <1>2, <1>3

LEMMA OpenStep ==
    ASSUME IInv, NEW c \in Clients, Open(c)
    PROVE  IInv'
  <1> USE ClientsAssumption DEF IInv, TypeOK
  <1>1. \A d \in Clients \ {c} : pc[d] \notin Holding
    BY Alone DEF Open, Holding, InHandler
  <1>2. attached => pwdb = file
    BY <1>1 DEF Open, DataInv, Holding, InHandler
  <1>3. PICK place \in {"leave", "seal", "edit"} : pc' = [pc EXCEPT ![c] = place]
    BY DEF Open, Goto
  <1>4. TypeOK'
    <2>1. attached' \in BOOLEAN /\ pwdb' \in Db \cup {NULL} /\ plbuf' \in Db \cup {NULL}
      <3>1. \/ plbuf' \in {NULL, plbuf} /\ attached' = attached /\ pwdb' = pwdb
            \/ plbuf' \in {pwdb, file} /\ attached' = TRUE /\ pwdb' = plbuf'
        BY DEF Open
      <3> QED
        BY <3>1
    <2>2. status' \in [Clients -> {"pending", "ok", "refused"}]
      BY DEF Open, Says, Set
    <2> QED
      BY <1>3, <2>1, <2>2 DEF Open, Places, InHandler
  <1>5. OneHandler'
    BY <1>3 DEF Open, OneHandler, Holding, InHandler
  <1>6. StatusInv'
    BY <1>1, <1>3, <1>4 DEF Open, Says, Set, Goto, StatusInv, Op, Holding, InHandler, Request, Ops
  <1>7. DataInv'
    BY <1>1, <1>2, <1>3, <1>4
    DEF Open, Says, Goto, DataInv, StatusInv, Op, Alias, Holding, InHandler, Request, Ops
  <1> QED
    BY <1>4, <1>5, <1>6, <1>7

LEMMA EditStep ==
    ASSUME IInv, NEW c \in Clients, Edit(c)
    PROVE  IInv'
  <1> USE ClientsAssumption DEF IInv, TypeOK
  <1>1. \A d \in Clients \ {c} : pc[d] \notin Holding
    BY Alone DEF Edit, Holding, InHandler
  <1>2. /\ attached /\ request[c].right /\ plbuf = file /\ pwdb = file
        /\ Op(c) \in {"add", "del", "get"} /\ status[c] = "pending" /\ ~errno[c]
    BY <1>1 DEF Edit, DataInv, StatusInv, Holding, InHandler
  <1>3. PICK place \in {"leave", "seal"} : pc' = [pc EXCEPT ![c] = place]
    BY DEF Edit, Goto
  <1>4. Alias(c) \in Aliases /\ file \in Db /\ file # NULL
    BY DEF Alias, Request, Db
  <1>5. TypeOK'
    <2>1. plbuf' \in Db \cup {NULL}
      BY <1>2, <1>4 DEF Edit, Set, Alias, Db
    <2>2. /\ status' \in [Clients -> {"pending", "ok", "refused"}]
          /\ errno' \in [Clients -> BOOLEAN]
      BY DEF Edit, Says, Set
    <2>3. got' \in [Clients -> Clients \cup {Nobody}]
      BY <1>2, <1>4 DEF Edit, Set, Alias, Db
    <2> QED
      BY <1>3, <2>1, <2>2, <2>3 DEF Edit, Places, InHandler
  <1>6. OneHandler'
    BY <1>3 DEF Edit, OneHandler, Holding, InHandler
  <1>7. StatusInv'
    BY <1>1, <1>2, <1>3, <1>5
    DEF Edit, Says, Set, Goto, StatusInv, Op, Holding, InHandler, Request, Ops
  <1>8. DataInv'
    <2>1. \A d \in Clients : pc'[d] \notin {"edit", "write"} /\ (pc'[d] = "seal" => d = c)
      BY <1>1, <1>3 DEF Holding, InHandler
    <2>2. pc'[c] = "seal" =>
             IF Op(c) \in {"add", "del"} /\ status'[c] = "pending"
             THEN Editable(c) /\ plbuf' = Edited(c)
             ELSE plbuf' = file
      BY <1>2, <1>3, <1>4 DEF Edit, Says, Set, Goto, Op, Alias, Edited, Editable, Request, Ops
    <2> QED
      BY <1>2, <2>1, <2>2 DEF Edit, DataInv, Op, Alias, Edited, Editable
  <1> QED
    BY <1>5, <1>6, <1>7, <1>8

LEMMA SealStep ==
    ASSUME IInv, NEW c \in Clients, Seal(c)
    PROVE  IInv'
  <1> USE ClientsAssumption DEF IInv, TypeOK
  <1>1. \A d \in Clients \ {c} : pc[d] \notin Holding
    BY Alone DEF Seal, Holding, InHandler
  <1>2. /\ attached /\ request[c].right
        /\ IF Op(c) \in {"add", "del"} /\ status[c] = "pending"
           THEN Editable(c) /\ plbuf = Edited(c)
           ELSE plbuf = file
    BY DEF Seal, DataInv
  <1>3. PICK place \in {"leave", "write"} : pc' = [pc EXCEPT ![c] = place]
    BY DEF Seal, Goto
  <1>4. TypeOK'
    <2>1. status' \in [Clients -> {"pending", "ok", "refused"}]
      BY DEF Seal, Says, Set
    <2>2. attached' \in BOOLEAN /\ pwdb' \in Db \cup {NULL} /\ plbuf' \in Db \cup {NULL}
      BY DEF Seal
    <2> QED
      BY <1>3, <2>1, <2>2 DEF Seal, Places, InHandler
  <1>5. OneHandler'
    BY <1>3 DEF Seal, OneHandler, Holding, InHandler
  <1>6. StatusInv'
    BY <1>1, <1>3, <1>4 DEF Seal, Says, Set, Goto, StatusInv, Op, Holding, InHandler, Request, Ops
  <1>7. DataInv'
    <2>1. \A d \in Clients : pc'[d] \notin {"edit", "seal"} /\ (pc'[d] = "write" => d = c)
      BY <1>1, <1>3 DEF Holding, InHandler
    <2>2. pc'[c] = "write" => /\ Op(c) \in {"add", "del"} /\ Editable(c)
                             /\ pwdb' = Edited(c) /\ attached'
      BY <1>2, <1>3 DEF Seal, Goto, Op, StatusInv, Request, Ops
    <2>3. attached' /\ pc'[c] # "write" => pwdb' = file
      BY <1>2, <1>3 DEF Seal, Goto, Op, StatusInv, Request, Ops
    <2> QED
      BY <1>2, <2>1, <2>2, <2>3 DEF Seal, DataInv, Op, Alias, Edited, Editable
  <1> QED
    BY <1>4, <1>5, <1>6, <1>7

LEMMA WriteStep ==
    ASSUME IInv, NEW c \in Clients, Write(c)
    PROVE  IInv'
  <1> USE ClientsAssumption DEF IInv, TypeOK
  <1>1. \A d \in Clients \ {c} : pc[d] \notin Holding
    BY Alone DEF Write, Holding, InHandler
  <1>2. pwdb \in Db
    <2>1. pwdb = Edited(c) /\ Alias(c) \in Aliases
      BY DEF Write, DataInv, Alias, Request
    <2> QED
      BY <2>1 DEF Edited, Set, Db
  <1>3. pc' = [pc EXCEPT ![c] = "leave"] /\ status' = [status EXCEPT ![c] = "ok"]
    BY DEF Write, Goto, Says, Set
  <1>4. TypeOK'
    BY <1>2, <1>3 DEF Write, Places, InHandler
  <1>5. OneHandler'
    BY <1>3 DEF Write, OneHandler, Holding, InHandler
  <1>6. StatusInv'
    BY <1>1, <1>3 DEF Write, StatusInv, Op, Holding, InHandler
  <1>7. DataInv'
    BY <1>1, <1>3 DEF Write, DataInv, Holding, InHandler
  <1> QED
    BY <1>4, <1>5, <1>6, <1>7

LEMMA OopsStep ==
    ASSUME IInv, NEW c \in Clients, Oops(c)
    PROVE  IInv'
  <1> USE ClientsAssumption DEF IInv, TypeOK
  <1>1. pc' = [pc EXCEPT ![c] = "dead"]
    BY DEF Oops, Goto
  <1>2. TypeOK'
    BY <1>1 DEF Oops, Places, kernel
  <1>3. OneHandler'
    BY <1>1 DEF Oops, OneHandler, Holding, InHandler
  <1>4. StatusInv'
    BY <1>1 DEF Oops, StatusInv, Op
  <1>5. DataInv'
    BY <1>1 DEF Oops, DataInv, Op, Alias, Edited, Editable, kernel
  <1> QED
    BY <1>2, <1>3, <1>4, <1>5

LEMMA InitIInv == Init => IInv
  <1> SUFFICES ASSUME Init PROVE IInv
    OBVIOUS
  <1>1. file \in Db
    BY DEF Init, Db
  <1>2. TypeOK
    BY <1>1, ClientsAssumption DEF Init, TypeOK, Places
  <1>3. OneHandler /\ StatusInv /\ DataInv
    BY ClientsAssumption DEF Init, OneHandler, StatusInv, DataInv, Holding, InHandler
  <1> QED
    BY <1>2, <1>3 DEF IInv

LEMMA NextIInv == IInv /\ [Next]_vars => IInv'
  <1> SUFFICES ASSUME IInv, [Next]_vars PROVE IInv'
    OBVIOUS
  <1>1. CASE UNCHANGED vars
    BY <1>1 DEF vars, client, kernel, IInv, TypeOK, OneHandler, StatusInv, DataInv, Op, Alias,
                Edited, Editable
  <1>2. CASE Next
    BY <1>2, OpenLockStep, AnswerStep, CallStep, OpenStep, EditStep, SealStep, WriteStep,
       OopsStep
    DEF Next, Step
  <1> QED
    BY <1>1, <1>2

LEMMA Invariance == Spec => []IInv
  BY InitIInv, NextIInv, PTL DEF Spec

\* Every variable of the processes, the lock, the profile and its file stays in its type.
THEOREM ClientsTypeCorrect == Spec => []TypeOK
  <1>1. IInv => TypeOK
    BY DEF IInv
  <1> QED
    BY <1>1, Invariance, PTL

\* However many processes call the device, at most one is in a handler, and it is the
\* one that has the lock.
THEOREM ClientsExclude == Spec => []OneHandler
  <1>1. IInv => OneHandler
    BY DEF IInv
  <1> QED
    BY <1>1, Invariance, PTL

\* A step that ends no command with zero leaves what is known of those that have ended.
LEMMA ExitKept ==
    ASSUME IInv, ZeroMeansDone, NEW c \in Clients, UNCHANGED request, pc[c] # "done",
           \A d \in Clients \ {c} : pc'[d] = pc[d] /\ exit'[d] = exit[d] /\ status'[d] = status[d],
           pc'[c] = "done" /\ exit'[c] = 0 =>
               status'[c] = "ok" \/ (request[c].op = "del" /\ status'[c] = "pending")
    PROVE  ZeroMeansDone'
  BY DEF ZeroMeansDone

\* The last failed call ends the command with an error.
LEMMA RetryExit ==
    ASSUME TypeOK, NEW c \in Clients, Retry(c)
    PROVE  /\ \A d \in Clients \ {c} : pc'[d] = pc[d] /\ exit'[d] = exit[d]
           /\ pc'[c] = "done" => exit'[c] = 1
  BY DEF Retry, TypeOK, Goto, Set

LEMMA ExitStep == IInv /\ ZeroMeansDone /\ [Next]_vars => ZeroMeansDone'
  <1> SUFFICES ASSUME IInv, ZeroMeansDone, [Next]_vars
               PROVE  ZeroMeansDone'
    OBVIOUS
  <1> USE DEF IInv, TypeOK, Goto, Set
  <1>1. CASE UNCHANGED vars
    BY <1>1 DEF vars, client, ZeroMeansDone
  <1>2. ASSUME NEW c \in Clients, OpenLock(c) \/ OpenUnlock(c) \/ OpenBusy(c) \/ Type(c) \/ Enter(c)
        PROVE  ZeroMeansDone'
    BY <1>2, ExitKept DEF OpenLock, OpenUnlock, OpenBusy, Type, Enter
  <1>3. ASSUME NEW c \in Clients, Reopen(c)
        PROVE  ZeroMeansDone'
    BY <1>3, ExitKept DEF Reopen
  <1>4. ASSUME NEW c \in Clients, Abandon(c)
        PROVE  ZeroMeansDone'
    BY <1>4, ExitKept DEF Abandon, StatusInv
  <1>5. ASSUME NEW c \in Clients, Busy(c)
        PROVE  ZeroMeansDone'
    BY <1>5, ExitKept, RetryExit DEF Busy
  <1>6. ASSUME NEW c \in Clients, Open(c) \/ Edit(c) \/ Seal(c) \/ Write(c) \/ Oops(c)
        PROVE  ZeroMeansDone'
    <2>1. pc[c] # "done" /\ pc'[c] # "done" /\ UNCHANGED <<request, exit>>
      BY <1>6 DEF Open, Edit, Seal, Write, Oops
    <2>2. \A d \in Clients \ {c} : pc'[d] = pc[d] /\ status'[d] = status[d]
      BY <1>6 DEF Open, Edit, Seal, Write, Oops, Says
    <2> QED
      BY <2>1, <2>2, ExitKept
  <1>7. ASSUME NEW c \in Clients, Leave(c)
        PROVE  ZeroMeansDone'
    <2>1. CASE errno[c]
      BY <1>7, <2>1, ExitKept, RetryExit DEF Leave, Says
    <2>2. CASE ~errno[c]
      BY <1>7, <2>2, ExitKept DEF Leave, ExitOf
    <2> QED
      BY <2>1, <2>2
  <1> QED
    BY <1>1, <1>2, <1>3, <1>4, <1>5, <1>6, <1>7 DEF Next, Step, Answer

\* A command that ends with zero was answered kNoError, for any number of clients and
\* retries; or it is a del that ended at its prompt.
THEOREM ClientsZeroMeansDone == Spec => []ZeroMeansDone
  <1>1. Init => ZeroMeansDone
    BY DEF Init, ZeroMeansDone
  <1> QED
    BY <1>1, ExitStep, Invariance, PTL DEF Spec

-----------------------------------------------------------------------------
(* The steps of the clients seen as AtomicRequests. *)

LEMMA InitRequests == Init => Requests!RequestsInit
  BY DEF Init, Requests!RequestsInit, Answered

\* What a step of client c does to the answers.
LEMMA AnsweredStep ==
    ASSUME NEW c \in Clients, NEW x,
           \A d \in Clients \ {c} : pc'[d] = pc[d] /\ status'[d] = status[d],
           x = IF status'[c] = "ok" THEN "ok"
               ELSE IF pc'[c] = "done" THEN "refused" ELSE "pending"
    PROVE  Answered' = [Answered EXCEPT ![c] = x]
  BY DEF Answered

\* A step that leaves the kernel alone is a refusal, when it ends the command without
\* success, or nothing at all.
LEMMA QuietRefines ==
    ASSUME TypeOK, NEW c \in Clients, NEW place \in Places \ {"seal"},
           pc' = [pc EXCEPT ![c] = place], pc[c] # "done",
           pc[c] = "seal" => request[c].op # "attach",
           UNCHANGED <<request, kernel, got>>,
           \A d \in Clients \ {c} : status'[d] = status[d],
           status'[c] = "ok" <=> status[c] = "ok"
    PROVE  [Requests!RequestsNext]_(Requests!requestVars)
  <1> USE DEF TypeOK
  <1>1. Settled' = Settled
    BY DEF Settled, kernel
  <1>2. CASE status[c] # "ok" /\ place = "done"
    <2>1. Answered' = [Answered EXCEPT ![c] = "refused"]
      BY <1>2, AnsweredStep
    <2>2. Answered[c] = "pending"
      BY <1>2 DEF Answered
    <2>3. Requests!Refuse(c)
      BY <1>1, <2>1, <2>2 DEF Requests!Refuse, kernel
    <2> QED
      BY <2>3 DEF Requests!RequestsNext
  <1>3. CASE ~(status[c] # "ok" /\ place = "done")
    <2>1. Answered' = Answered
      BY <1>3 DEF Answered
    <2> QED
      BY <1>1, <2>1 DEF Requests!requestVars, kernel
  <1> QED
    BY <1>2, <1>3

LEMMA QuietActions ==
    ASSUME IInv, NEW c \in Clients,
           \/ OpenLock(c) \/ OpenUnlock(c) \/ OpenBusy(c) \/ Reopen(c)
           \/ Answer(c) \/ Enter(c) \/ Busy(c) \/ Leave(c) \/ Oops(c)
    PROVE  [Requests!RequestsNext]_(Requests!requestVars)
  <1> USE DEF IInv, TypeOK
  <1>1. UNCHANGED <<request, kernel, got>>
    BY DEF OpenLock, OpenUnlock, OpenBusy, Reopen, Answer, Type, Abandon, Enter, Busy, Leave, Oops
  <1>2. PICK place \in {"opened", "asked", "reopen", "done", "call", "open", "dead"} :
             pc' = [pc EXCEPT ![c] = place]
    <2>1. CASE Busy(c)
      BY <2>1, RetryType DEF Busy
    <2>2. CASE Reopen(c)
      <3>1. pc' = pc \/ \E place \in {"opened", "done"} : pc' = [pc EXCEPT ![c] = place]
        BY <2>2 DEF Reopen, Goto
      <3>2. pc[c] = "reopen"
        BY <2>2 DEF Reopen
      <3> QED
        BY <3>1, <3>2
    <2>3. CASE Leave(c)
      <3>1. Retry(c) \/ Goto(c, "done")
        BY <2>3 DEF Leave
      <3> QED
        BY <3>1, RetryType DEF Goto
    <2>4. CASE OpenLock(c) \/ OpenUnlock(c) \/ OpenBusy(c) \/ Answer(c) \/ Enter(c) \/ Oops(c)
      BY <2>4 DEF OpenLock, OpenUnlock, OpenBusy, Answer, Type, Abandon, Enter, Oops, Goto
    <2> QED
      BY <2>1, <2>2, <2>3, <2>4
  <1>3. pc[c] # "done" /\ (pc[c] = "seal" => request[c].op # "attach")
    BY DEF OpenLock, OpenUnlock, OpenBusy, Reopen, Answer, Type, Abandon, Enter, Busy, Leave, Oops
  <1>4. /\ \A d \in Clients \ {c} : status'[d] = status[d]
        /\ status'[c] = "ok" <=> status[c] = "ok"
    BY DEF OpenLock, OpenUnlock, OpenBusy, Reopen, Answer, Type, Abandon, Enter, Busy, Leave, Oops,
           Says, Set, StatusInv
  <1> QED
    BY <1>1, <1>2, <1>3, <1>4, QuietRefines DEF Places, InHandler

\* While one client is in a handler no other is about to have its profile attached.
LEMMA SettledAlone ==
    ASSUME TypeOK, OneHandler, NEW c \in Clients, pc[c] \in Holding
    PROVE  Settled <=> attached /\ ~(pc[c] = "seal" /\ Op(c) = "attach")
  <1>1. \A d \in Clients : pc[d] = "seal" => d = c
    BY Alone, ClientsAssumption DEF Holding, InHandler
  <1> QED
    BY <1>1 DEF Settled, Op

LEMMA OpenRefines ==
    ASSUME IInv, IInv', NEW c \in Clients, Open(c)
    PROVE  [Requests!RequestsNext]_(Requests!requestVars)
  <1> USE DEF IInv, TypeOK
  <1>1. Settled <=> attached
    BY SettledAlone DEF Open, Holding, InHandler
  <1>2. PICK place \in {"leave", "seal", "edit"} : pc' = [pc EXCEPT ![c] = place]
    BY DEF Open, Goto
  <1>3. \A d \in Clients \ {c} : pc[d] \notin Holding
    BY Alone, ClientsAssumption DEF Open, Holding, InHandler
  <1>4. Settled' <=> attached' /\ ~(place = "seal" /\ Op(c) = "attach")
    BY <1>2, <1>3 DEF Settled, Open, Op, Holding, InHandler
  <1>5. \/ place = "leave" /\ attached' = attached
        \/ /\ (Op(c) = "attach") # attached /\ attached' = TRUE
           /\ place = IF Op(c) \in {"attach", "detach"} THEN "seal" ELSE "edit"
    BY <1>2 DEF Open, Goto, Op
  <1>6. Settled' <=> Settled
    BY <1>1, <1>4, <1>5 DEF Request, Ops, Op
  <1>7. Answered' = Answered
    BY <1>2 DEF Answered, Open, Says, Set, StatusInv
  <1> QED
    BY <1>6, <1>7 DEF Requests!requestVars, Open, Settled

LEMMA EditRefines ==
    ASSUME IInv, NEW c \in Clients, Edit(c)
    PROVE  [Requests!RequestsNext]_(Requests!requestVars)
  <1> USE DEF IInv, TypeOK
  <1>1. Settled <=> attached
    BY SettledAlone DEF Edit, Holding, InHandler
  <1>2. PICK place \in {"leave", "seal"} : pc' = [pc EXCEPT ![c] = place]
    BY DEF Edit, Goto
  <1>3. \A d \in Clients \ {c} : pc[d] \notin Holding
    BY Alone, ClientsAssumption DEF Edit, Holding, InHandler
  <1>4. /\ attached /\ request[c].right /\ plbuf = file
        /\ Op(c) \in {"add", "del", "get"} /\ status[c] = "pending"
    BY DEF Edit, DataInv, StatusInv
  <1>5. Settled' <=> Settled
    BY <1>1, <1>2, <1>3, <1>4 DEF Settled, Edit, Op, Holding, InHandler
  <1>6. Settled' = Settled
    BY <1>5 DEF Settled
  <1>7. CASE status'[c] = "ok"
    <2>1. /\ Op(c) = "get" /\ file[Alias(c)] # Nobody
          /\ got' = [got EXCEPT ![c] = file[Alias(c)]]
      BY <1>4, <1>7 DEF Edit, Says, Set, Op, Alias
    <2>2. Answered' = [Answered EXCEPT ![c] = "ok"]
      BY <1>2, <1>7, AnsweredStep DEF Edit, Says, Set
    <2>3. Answered[c] = "pending"
      BY <1>4 DEF Answered, Edit
    <2>4. Requests!Get(c)
      BY <1>1, <1>4, <1>6, <2>1, <2>2, <2>3
      DEF Requests!Get, Requests!Does, Edit, Op, Alias
    <2> QED
      BY <2>4 DEF Requests!RequestsNext
  <1>8. CASE status'[c] # "ok"
    <2>1. got' = got
      BY <1>8 DEF Edit, Says, Set
    <2>2. Answered' = Answered
      BY <1>2, <1>4, <1>8 DEF Answered, Edit, Says, Set
    <2> QED
      BY <1>6, <2>1, <2>2 DEF Requests!requestVars, Edit
  <1> QED
    BY <1>7, <1>8

LEMMA SealRefines ==
    ASSUME IInv, NEW c \in Clients, Seal(c)
    PROVE  [Requests!RequestsNext]_(Requests!requestVars)
  <1> USE DEF IInv, TypeOK
  <1>1. Settled <=> attached /\ Op(c) # "attach"
    BY SettledAlone DEF Seal, Holding, InHandler
  <1>2. PICK place \in {"leave", "write"} : pc' = [pc EXCEPT ![c] = place]
    BY DEF Seal, Goto
  <1>3. \A d \in Clients \ {c} : pc[d] \notin Holding
    BY Alone, ClientsAssumption DEF Seal, Holding, InHandler
  <1>4. attached /\ request[c].right
    BY DEF Seal, DataInv
  <1>5. Settled' <=> attached'
    BY <1>2, <1>3 DEF Settled, Holding, InHandler
  <1>6. CASE Op(c) \in {"attach", "detach"}
    <2>1. status[c] = "pending" /\ status' = [status EXCEPT ![c] = "ok"]
      BY <1>6 DEF Seal, StatusInv, Says, Set, Op
    <2>2. Answered' = [Answered EXCEPT ![c] = "ok"]
      BY <1>2, <2>1, AnsweredStep
    <2>3. Answered[c] = "pending"
      BY <2>1 DEF Answered, Seal
    <2>4. CASE Op(c) = "attach"
      <3>1. attached' = attached
        BY <2>4 DEF Seal, Op
      <3>2. Settled' = TRUE /\ ~Settled
        BY <1>1, <1>4, <1>5, <2>4, <3>1 DEF Settled
      <3>3. Requests!Attach(c)
        BY <1>4, <2>2, <2>3, <2>4, <3>2 DEF Requests!Attach, Requests!Does, Seal, Op
      <3> QED
        BY <3>3 DEF Requests!RequestsNext
    <2>5. CASE Op(c) = "detach"
      <3>1. attached' = FALSE
        BY <2>5 DEF Seal, Op
      <3>2. Settled' = FALSE /\ Settled
        BY <1>1, <1>4, <1>5, <2>5, <3>1 DEF Settled
      <3>3. Requests!Detach(c)
        BY <1>4, <2>2, <2>3, <2>5, <3>2 DEF Requests!Detach, Requests!Does, Seal, Op
      <3> QED
        BY <3>3 DEF Requests!RequestsNext
    <2> QED
      BY <1>6, <2>4, <2>5
  <1>7. CASE Op(c) \notin {"attach", "detach"}
    <2>1. status' = status /\ attached' = attached
      BY <1>7 DEF Seal, Op
    <2>2. Answered' = Answered
      BY <1>2, <2>1 DEF Answered, Seal
    <2>3. Settled' = Settled
      BY <1>1, <1>5, <1>7, <2>1 DEF Settled
    <2> QED
      BY <2>2, <2>3 DEF Requests!requestVars, Seal
  <1> QED
    BY <1>6, <1>7

LEMMA WriteRefines ==
    ASSUME IInv, NEW c \in Clients, Write(c)
    PROVE  [Requests!RequestsNext]_(Requests!requestVars)
  <1> USE DEF IInv, TypeOK
  <1>1. pc' = [pc EXCEPT ![c] = "leave"] /\ status' = [status EXCEPT ![c] = "ok"]
    BY DEF Write, Goto, Says, Set
  <1>2. \A d \in Clients \ {c} : pc[d] \notin Holding
    BY Alone, ClientsAssumption DEF Write, Holding, InHandler
  <1>3. /\ attached /\ request[c].right /\ Op(c) \in {"add", "del"}
        /\ Editable(c) /\ file' = Edited(c) /\ status[c] = "pending"
    BY DEF Write, DataInv, StatusInv
  <1>4. Settled /\ Settled'
    BY <1>1, <1>2, <1>3 DEF Settled, Write, Holding, InHandler
  <1>5. Settled' = Settled
    BY <1>4 DEF Settled
  <1>6. Answered' = [Answered EXCEPT ![c] = "ok"]
    BY <1>1, AnsweredStep
  <1>7. Answered[c] = "pending"
    BY <1>3 DEF Answered, Write
  <1>8. CASE Op(c) = "add"
    <2>1. Requests!Add(c)
      BY <1>3, <1>4, <1>5, <1>6, <1>7, <1>8
      DEF Requests!Add, Requests!Does, Write, Op, Alias, Editable, Edited, Set
    <2> QED
      BY <2>1 DEF Requests!RequestsNext
  <1>9. CASE Op(c) = "del"
    <2>1. Requests!Del(c)
      BY <1>3, <1>4, <1>5, <1>6, <1>7, <1>9
      DEF Requests!Del, Requests!Does, Write, Op, Alias, Editable, Edited, Set
    <2> QED
      BY <2>1 DEF Requests!RequestsNext
  <1> QED
    BY <1>3, <1>8, <1>9

LEMMA NextRequests ==
    IInv /\ IInv' /\ [Next]_vars => [Requests!RequestsNext]_(Requests!requestVars)
  <1> SUFFICES ASSUME IInv, IInv', [Next]_vars
               PROVE  [Requests!RequestsNext]_(Requests!requestVars)
    OBVIOUS
  <1>1. CASE UNCHANGED vars
    BY <1>1 DEF vars, client, kernel, Requests!requestVars, Answered, Settled
  <1>2. CASE Next
    BY <1>2, QuietActions, OpenRefines, EditRefines, SealRefines, WriteRefines DEF Next, Step
  <1> QED
    BY <1>1, <1>2

\* Commands that run at the same time are atomic, however many there are, whatever they
\* ask for and however often zcdev_ioctl() calls again.
THEOREM ClientsAtomic == Spec => ImplementsAtomic
  BY InitRequests, NextRequests, Invariance, PTL DEF Spec, ImplementsAtomic, Requests!RequestsSpec
=============================================================================
