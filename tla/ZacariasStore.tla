---------------------------- MODULE ZacariasStore ----------------------------
(***************************************************************************)
(* The driver seen as a PasswordStore: the refinement mapping, and what    *)
(* MANUAL.md says of "password get" and "password del" taken literally.    *)
(***************************************************************************)
EXTENDS ZacariasDevice

\* What the store sees of the driver.
StoreFiles ==
    [path \in Paths |-> IF disk[path] \in Cipher
                        THEN [user |-> disk[path].user, db |-> disk[path].text.db]
                        ELSE Missing]
StoreHome == [u \in Users |-> IF profiles[u] = NULL THEN NULL ELSE profiles[u].path]
StoreAnswer == [op |-> reply.op, user |-> reply.user, alias |-> reply.alias,
                status |-> reply.status, out |-> reply.out]

\* Missing also marks, in the store, a file that holds no PWDB.
ASSUME NoFileAssumption == Missing \notin [user : Users, db : Db]

Store == INSTANCE PasswordStore
            WITH files <- StoreFiles, home <- StoreHome, answer <- StoreAnswer

\* While every user has files of his own, no alias is a prefix of another and calls fail
\* only where the handler can still put everything back, the driver is a PasswordStore:
\* each request of actions.c that answers kNoError did exactly what it was asked to the
\* file of its user and to nothing else, what it answers is what the file says, and a
\* refused one has changed no file; in particular the copies in memory, the detour over
\* the master password and the overwriting of whole files cannot be seen from outside.
ImplementsStore == Store!StoreSpec

\* MANUAL.md, "Deleting a password": the entry that goes is the one named by --alias.
DelRemovesAsked ==
    [][(reply'.op = "del" /\ reply'.status = "kNoError")
       => LET path == profiles[reply'.user].path
          IN  \A a \in Aliases \ {reply'.alias} :
                 disk'[path].text.db[a] = disk[path].text.db[a]]_vars
=============================================================================
