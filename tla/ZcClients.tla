------------------------------ MODULE ZcClients ------------------------------
(***************************************************************************)
(* Several "zc" processes of one user at the device at the same time:      *)
(* opening it, calling ioctl and trying again (cmd/devio.c), the trylock   *)
(* at the door of every handler (dev/actions.c, dev/linux/cdev_open.c) and *)
(* what a handler does to the one profile and its file, step by step.      *)
(*                                                                         *)
(* ZacariasDevice takes a handler for one step; this module is the reason  *)
(* it may.  In return it looks at a profile without a session, and the     *)
(* only thing to fail is the memory for a generated password; or the       *)
(* kernel kills the process in its handler, and the lock is lost.          *)
(***************************************************************************)
EXTENDS Naturals

CONSTANTS
    Clients,   \* zc processes
    InDev,     \* those that were started in the directory /dev
    Aliases,
    Nobody,    \* no client
    NULL,      \* no plaintext
    MaxTries   \* how often a failed open or ioctl is tried again: 10 in the code

ASSUME ClientsAssumption ==
    /\ Nobody \notin Clients /\ InDev \subseteq Clients
    /\ NULL \notin [Aliases -> Clients \cup {Nobody}]
    /\ MaxTries \in Nat

VARIABLES
    request,   \* the command line of each client
    pc,        \* where it is
    left,      \* the retries it has left
    errno,     \* did its handler fail with an errno?
    status,    \* the status in its request, "ok" for kNoError
    exit,      \* its exit status, 0 or 1 for any other
    got,       \* whose password it was answered
    lock,      \* who holds the device lock
    attached,  \* is the profile on the list?
    pwdb,      \* the profile: what is encrypted in memory, and in the clear
    plbuf,
    file       \* the PWDB file

client == <<request, pc, left, errno, status, exit, got>>
kernel == <<attached, pwdb, plbuf, file>>
vars   == <<client, lock, kernel>>

Ops     == {"attach", "detach", "add", "del", "get"}
Request == [op : Ops, alias : Aliases, right : BOOLEAN]

\* Entries are told apart by who added them.
Db == [Aliases -> Clients \cup {Nobody}]

InHandler == {"open", "edit", "seal", "write", "leave"}
Places    == {"start", "opened", "reopen", "asked", "call", "done", "dead"} \cup InHandler

Goto(c, place) == pc' = [pc EXCEPT ![c] = place]

Set(f, c, value) == [f EXCEPT ![c] = value]

-----------------------------------------------------------------------------
(* zcdev_open() and cdev_open() *)

\* cdev_open() takes the lock to see whether it is free, and gives it back.
OpenLock(c) ==
    /\ pc[c] = "start" /\ lock = Nobody
    /\ lock' = c
    /\ Goto(c, "opened")
    /\ UNCHANGED <<request, left, errno, status, exit, got, kernel>>

OpenUnlock(c) ==
    /\ pc[c] = "opened"
    /\ lock' = Nobody
    /\ Goto(c, "asked")
    /\ UNCHANGED <<request, left, errno, status, exit, got, kernel>>

OpenBusy(c) ==
    /\ pc[c] = "start" /\ lock # Nobody
    /\ left' = Set(left, c, MaxTries)
    /\ Goto(c, "reopen")
    /\ UNCHANGED <<request, errno, status, exit, got, lock, kernel>>

\* The second and later opens are of the relative path "zacarias", which is the device
\* in /dev alone.
Reopen(c) ==
    /\ pc[c] = "reopen"
    /\ \/ /\ left[c] > 0
          /\ left' = Set(left, c, left[c] - 1)
          /\ \/ c \in InDev /\ lock = Nobody /\ lock' = c /\ Goto(c, "opened")
             \/ (c \in InDev => lock # Nobody) /\ UNCHANGED <<pc, lock>>
          /\ UNCHANGED exit
       \/ /\ left[c] = 0
          /\ Goto(c, "done")
          /\ exit' = Set(exit, c, 1)
          /\ UNCHANGED <<left, lock>>
    /\ UNCHANGED <<request, errno, status, got, kernel>>

-----------------------------------------------------------------------------
(* zc_attach(), zc_detach() and zc_password_*(): the passwords are typed, or *)
(* an empty one ends the command.                                            *)

Type(c) ==
    /\ pc[c] = "asked"
    /\ left' = Set(left, c, MaxTries)
    /\ Goto(c, "call")
    /\ UNCHANGED <<request, errno, status, exit, got, lock, kernel>>

\* Only zc_password_del() starts out with a zero in err.
Abandon(c) ==
    /\ pc[c] = "asked"
    /\ exit' = Set(exit, c, IF request[c].op = "del" THEN 0 ELSE 1)
    /\ Goto(c, "done")
    /\ UNCHANGED <<request, left, errno, status, got, lock, kernel>>

\* Mutants: the error of the last call is not kept; the last retry is one too many.
RetryForgetful(c) ==
    \/ /\ left[c] > 0
       /\ left' = Set(left, c, left[c] - 1)
       /\ Goto(c, "call")
       /\ UNCHANGED exit
    \/ /\ left[c] = 0
       /\ Goto(c, "done")
       /\ UNCHANGED <<left, exit>>
RetryOnceMore(c) ==
    /\ left' = Set(left, c, left[c] - 1)
    /\ Goto(c, IF left[c] >= 0 THEN "call" ELSE "done")
    /\ exit' = Set(exit, c, 1)

\* zcdev_ioctl(): after -1 it calls again, at once and whatever errno says.
Retry(c) ==
    \/ /\ left[c] > 0
       /\ left' = Set(left, c, left[c] - 1)
       /\ Goto(c, "call")
       /\ UNCHANGED exit
    \/ /\ left[c] = 0
       /\ Goto(c, "done")
       /\ exit' = Set(exit, c, 1)
       /\ UNCHANGED left

\* Mutants: the trylock is not looked at; its failure leaves by the epilogue.
EnterAnyway(c) ==
    /\ pc[c] = "call"
    /\ lock' = c
    /\ errno' = Set(errno, c, FALSE)
    /\ Goto(c, "open")
    /\ UNCHANGED <<request, left, status, exit, got, kernel>>
BusyUnlocks(c) ==
    /\ pc[c] = "call" /\ lock # Nobody
    /\ lock' = Nobody
    /\ Retry(c)
    /\ UNCHANGED <<request, errno, status, got, kernel>>

Enter(c) ==
    /\ pc[c] = "call" /\ lock = Nobody
    /\ lock' = c
    /\ errno' = Set(errno, c, FALSE)
    /\ Goto(c, "open")
    /\ UNCHANGED <<request, left, status, exit, got, kernel>>

Busy(c) ==
    /\ pc[c] = "call" /\ lock # Nobody
    /\ Retry(c)
    /\ UNCHANGED <<request, errno, status, got, lock, kernel>>

-----------------------------------------------------------------------------
(* The handlers of actions.c *)

Says(c, answer) == status' = Set(status, c, answer)

\* The profile is looked up, or read from its file and put on the list, and decrypted
\* with the password given.  A profile that cannot be decrypted is not attached.
Open(c) ==
    /\ pc[c] = "open"
    /\ LET Fits == (request[c].op = "attach") # attached
       IN  \/ /\ ~(Fits /\ request[c].right)
              /\ Says(c, "refused")
              /\ plbuf' = IF Fits THEN NULL ELSE plbuf
              /\ Goto(c, "leave")
              /\ UNCHANGED <<attached, pwdb>>
           \/ /\ Fits /\ request[c].right
              /\ plbuf' = IF attached THEN pwdb ELSE file
              /\ pwdb' = plbuf'
              /\ attached' = TRUE
              /\ Goto(c, IF request[c].op \in {"attach", "detach"} THEN "seal" ELSE "edit")
              /\ UNCHANGED status
    /\ UNCHANGED <<request, left, errno, exit, got, lock, file>>

\* The plaintext is searched and edited.  add and get have it encrypted again when they
\* refuse; del frees it.
Edit(c) ==
    /\ pc[c] = "edit"
    /\ LET a == request[c].alias
           op == request[c].op
       IN  \/ /\ op = "get" /\ plbuf[a] # Nobody
              /\ got' = Set(got, c, plbuf[a])
              /\ Says(c, "ok") /\ Goto(c, "seal")
              /\ UNCHANGED <<errno, plbuf>>
           \/ /\ op = "add" /\ plbuf[a] = Nobody
              /\ plbuf' = Set(plbuf, a, c)
              /\ Goto(c, "seal")
              /\ UNCHANGED <<errno, status, got>>
           \/ /\ op = "add" /\ plbuf[a] = Nobody   \* ENOMEM: no password generated
              /\ errno' = Set(errno, c, TRUE)
              /\ Says(c, "refused") /\ Goto(c, "seal")
              /\ UNCHANGED <<plbuf, got>>
           \/ /\ op = "del" /\ plbuf[a] # Nobody
              /\ plbuf' = Set(plbuf, a, Nobody)
              /\ Goto(c, "seal")
              /\ UNCHANGED <<errno, status, got>>
           \/ /\ (op = "add") = (plbuf[a] # Nobody)
              /\ Says(c, "refused")
              /\ IF op = "del" THEN plbuf' = NULL /\ Goto(c, "leave")
                 ELSE UNCHANGED plbuf /\ Goto(c, "seal")
              /\ UNCHANGED <<errno, got>>
    /\ UNCHANGED <<request, left, exit, lock, attached, pwdb, file>>

\* The plaintext is encrypted and freed; after that a detached profile is freed, and an
\* edited one is written to its file.
Seal(c) ==
    /\ pc[c] = "seal"
    /\ plbuf' = NULL
    /\ IF request[c].op = "detach"
       THEN attached' = FALSE /\ pwdb' = NULL
       ELSE pwdb' = plbuf /\ UNCHANGED attached
    /\ IF request[c].op \in {"attach", "detach"}
       THEN Says(c, "ok") /\ Goto(c, "leave")
       ELSE /\ UNCHANGED status
            /\ Goto(c, IF status[c] = "pending" THEN "write" ELSE "leave")
    /\ UNCHANGED <<request, left, errno, exit, got, lock, file>>

Write(c) ==
    /\ pc[c] = "write"
    /\ file' = pwdb
    /\ Says(c, "ok") /\ Goto(c, "leave")
    /\ UNCHANGED <<request, left, errno, exit, got, lock, attached, pwdb, plbuf>>

\* Without memory zacarias_profile_ctx_new() writes to a null pointer, and so does
\* plbuf_edit_shuffle(), which puts the entries, if there are any, in another order before
\* they are encrypted; kwrite() writes through the error that filp_open() returned.  The
\* process is killed where it is, with the lock and, where there is one, the plaintext.
Oops(c) ==
    /\ \/ pc[c] = "open" /\ request[c].op = "attach" /\ ~attached
       \/ /\ pc[c] = "seal" /\ request[c].op \in {"add", "del", "get"}
          /\ \E a \in Aliases : plbuf[a] # Nobody
       \/ pc[c] = "write"
    /\ Goto(c, "dead")
    /\ UNCHANGED <<request, left, errno, status, exit, got, lock, kernel>>

\* What the client makes of an answer.
ExitOf(c) == IF status[c] = "ok" THEN 0 ELSE 1

\* Mutants: a refusal keeps the lock; a call that failed is tried again for ever.
LeaveLocked(c) ==
    /\ pc[c] = "leave"
    /\ lock' = IF status[c] = "ok" THEN Nobody ELSE c
    /\ Goto(c, "done")
    /\ exit' = Set(exit, c, ExitOf(c))
    /\ UNCHANGED <<request, left, errno, status, got, kernel>>
LeaveForEver(c) ==
    /\ pc[c] = "leave"
    /\ lock' = Nobody
    /\ Goto(c, IF errno[c] THEN "call" ELSE "done")
    /\ exit' = Set(exit, c, ExitOf(c))
    /\ Says(c, IF errno[c] THEN "pending" ELSE status[c])
    /\ UNCHANGED <<request, left, errno, got, kernel>>

\* The epilogue gives the lock back; the client looks at the status unless it got an
\* errno, and then calls again.
Leave(c) ==
    /\ pc[c] = "leave"
    /\ lock' = Nobody
    /\ \/ /\ ~errno[c]
          /\ Goto(c, "done")
          /\ exit' = Set(exit, c, ExitOf(c))
          /\ UNCHANGED <<left, status>>
       \/ errno[c] /\ Says(c, "pending") /\ Retry(c)
    /\ UNCHANGED <<request, errno, got, kernel>>

-----------------------------------------------------------------------------
Init ==
    /\ request \in [Clients -> Request]
    /\ pc = [c \in Clients |-> "start"]
    /\ left = [c \in Clients |-> 0]
    /\ errno = [c \in Clients |-> FALSE]
    /\ status = [c \in Clients |-> "pending"]
    /\ exit = [c \in Clients |-> 0]
    /\ got = [c \in Clients |-> Nobody]
    /\ lock = Nobody
    /\ attached \in BOOLEAN
    /\ file = [a \in Aliases |-> Nobody]
    /\ pwdb = IF attached THEN file ELSE NULL
    /\ plbuf = NULL

\* What the kernel and the process do by themselves.
Step(c) ==
    \/ OpenLock(c) \/ OpenUnlock(c) \/ OpenBusy(c) \/ Reopen(c)
    \/ Enter(c) \/ Busy(c) \/ Open(c) \/ Edit(c) \/ Seal(c) \/ Write(c) \/ Leave(c)

\* What waits for the user.
Answer(c) == Type(c) \/ Abandon(c)

Next == \E c \in Clients : Step(c) \/ Answer(c) \/ Oops(c)

Spec == Init /\ [][Next]_vars

\* A process that can run is run; a user may stay away from the keyboard.
FairSpec == Spec /\ \A c \in Clients : WF_vars(Step(c))

-----------------------------------------------------------------------------
TypeOK ==
    /\ request \in [Clients -> Request]
    /\ pc \in [Clients -> Places]
    /\ left \in [Clients -> 0..MaxTries]
    /\ errno \in [Clients -> BOOLEAN]
    /\ status \in [Clients -> {"pending", "ok", "refused"}]
    /\ exit \in [Clients -> 0..1]
    /\ got \in [Clients -> Clients \cup {Nobody}]
    /\ lock \in Clients \cup {Nobody}
    /\ attached \in BOOLEAN
    /\ pwdb \in Db \cup {NULL}
    /\ plbuf \in Db \cup {NULL}
    /\ file \in Db

Holding == InHandler \cup {"opened", "dead"}

\* The trylocks keep the handlers apart, those of actions.c and cdev_open(): whoever is
\* in one has the lock, nobody else gives it back, and nobody keeps it after leaving.
OneHandler == \A c \in Clients : pc[c] \in Holding <=> lock = c

\* A client whose answer is on its way is as good as answered; one that gave up or was
\* refused is refused when its command ends.
Answered ==
    [c \in Clients |-> IF status[c] = "ok" THEN "ok"
                       ELSE IF pc[c] = "done" THEN "refused" ELSE "pending"]

\* A profile is on the list before its handler knows whether it will stay there.
Settled == attached /\ ~\E c \in Clients : pc[c] = "seal" /\ request[c].op = "attach"

Requests == INSTANCE AtomicRequests
               WITH answer <- Answered, entries <- file, attached <- Settled

\* Commands that run at the same time are carried out one after the other: each takes
\* effect on the PWDB file at one instant, at most once however often zcdev_ioctl()
\* called, and only if it is answered kNoError.
ImplementsAtomic == Requests!RequestsSpec

\* Once its passwords are typed, every command ends, whatever the others do, be it that one
\* of them died with the lock.
EveryCommandEnds == \A c \in Clients : pc[c] = "call" ~> pc[c] \in {"done", "dead"}

\* The device does not stay locked, unless its holder is dead: no path out of a handler
\* keeps the lock.
LockComesBack == lock # Nobody ~> lock = Nobody \/ \E c \in Clients : pc[c] = "dead"

\* zacarias.1, EXIT STATUS: zero only when the execution succeeded.  However often it was
\* refused at the lock, a command that ends with zero was answered kNoError; but for a del
\* that never called the device, because zc_password_del() starts out with a zero.
ZeroMeansDone ==
    \A c \in Clients : pc[c] = "done" /\ exit[c] = 0 =>
        \/ status[c] = "ok"
        \/ request[c].op = "del" /\ status[c] = "pending"
=============================================================================
