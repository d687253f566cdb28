--------------------------- MODULE PasswordStore ---------------------------
(***************************************************************************)
(* What Zacarias promises, without drivers, ciphertexts or sessions: every *)
(* PWDB file is a dictionary owned by one user; a request edits at most    *)
(* one entry of the file its user is attached to, at once and for good,    *)
(* and what it answers is true of that file.                               *)
(*                                                                         *)
(* This module is the specification the driver is checked against; it      *)
(* translates no code of its own.                                          *)
(***************************************************************************)
EXTENDS Naturals, FiniteSets

CONSTANTS Users, Paths, Aliases, Passwds, NoPasswd, Missing, NULL, ListCap

VARIABLES
    files,   \* the owner and the entries of every file, or Missing
    home,    \* the file each user is attached to, or NULL
    answer   \* the last answer: [op, user, alias, status, out]

storeVars == <<files, home, answer>>

Entries == [Aliases -> Passwds \cup {NoPasswd}]
Empty   == [a \in Aliases |-> NoPasswd]
Named(db) == {a \in Aliases : db[a] # NoPasswd}

Says(op, u, a, status, out) ==
    answer' = [op |-> op, user |-> u, alias |-> a, status |-> status, out |-> out]

StoreInit ==
    /\ files = [path \in Paths |-> Missing]
    /\ home = [u \in Users |-> NULL]
    /\ answer = [op |-> "none", user |-> NULL, alias |-> NULL, status |-> "kNoError",
                 out |-> {}]

\* The entries user u works on.
Entry(u, a) == files[home[u]].db[a]

Create(u, path) ==
    /\ home[u] = NULL
    /\ files' = [files EXCEPT ![path] = [user |-> u, db |-> Empty]]
    /\ home' = [home EXCEPT ![u] = path]
    /\ Says("init", u, NULL, "kNoError", {})

OpenFile(u, path) ==
    /\ home[u] = NULL
    /\ files[path] # Missing /\ files[path].user = u
    /\ home' = [home EXCEPT ![u] = path]
    /\ Says("attach", u, NULL, "kNoError", {})
    /\ UNCHANGED files

Close(u) ==
    /\ home[u] # NULL
    /\ home' = [home EXCEPT ![u] = NULL]
    /\ Says("detach", u, NULL, "kNoError", {})
    /\ UNCHANGED files

Put(u, a, w) ==
    /\ home[u] # NULL
    /\ Entry(u, a) = NoPasswd
    /\ files' = [files EXCEPT ![home[u]].db[a] = w]
    /\ Says("add", u, a, "kNoError", {})
    /\ UNCHANGED home

Remove(u, a) ==
    /\ home[u] # NULL
    /\ Entry(u, a) # NoPasswd
    /\ files' = [files EXCEPT ![home[u]].db[a] = NoPasswd]
    /\ Says("del", u, a, "kNoError", {})
    /\ UNCHANGED home

Look(u, a) ==
    /\ home[u] # NULL
    /\ Entry(u, a) # NoPasswd
    /\ Says("get", u, a, "kNoError", {Entry(u, a)})
    /\ UNCHANGED <<files, home>>

List(u) ==
    /\ home[u] # NULL
    /\ Cardinality(Named(files[home[u]].db)) <= ListCap
    /\ Says("aliases", u, NULL, "kNoError", Named(files[home[u]].db))
    /\ UNCHANGED <<files, home>>

\* Anything may be refused, for a wrong password to begin with; but a refusal that
\* gives a reason gives a true one, and changes nothing.
Refuse(op, u, a, status) ==
    /\ Says(op, u, a, status, {})
    /\ status \notin {"kNoError", "kPWDBWritingError"}
    /\ status = "kProfileNotAttached" => home[u] = NULL
    /\ status = "kProfilePreviouslyAttached" => home[u] # NULL
    /\ status = "kAliasNotFound" => home[u] # NULL /\ Entry(u, a) = NoPasswd
    /\ status = "kAliasAlreadyUsed" => home[u] # NULL /\ Entry(u, a) # NoPasswd
    /\ UNCHANGED <<files, home>>

\* Loading and unloading the driver, and a crash, detach everyone and keep the files.
Restart(op) ==
    /\ home' = [u \in Users |-> NULL]
    /\ Says(op, NULL, NULL, "kNoError", {})
    /\ UNCHANGED files

StoreNext ==
    \/ \E u \in Users :
          \/ \E path \in Paths : Create(u, path) \/ OpenFile(u, path)
          \/ Close(u)
          \/ List(u)
          \/ \E a \in Aliases : Remove(u, a) \/ Look(u, a) \/ \E w \in Passwds : Put(u, a, w)
          \/ \E op \in {"attach", "init", "detach", "add", "del", "get", "aliases"},
                a \in Aliases \cup {NULL},
                status \in {"kInvalidParams", "kAliasNotFound", "kAliasAlreadyUsed",
                            "kProfilePreviouslyAttached", "kProfileNotAttached",
                            "kAuthenticationFailure", "kGeneralError",
                            "kPWDBReadingError"} :
                Refuse(op, u, a, status)
    \/ \E op \in {"load", "unload", "crash"} : Restart(op)

StoreSpec == StoreInit /\ [][StoreNext]_storeVars
=============================================================================
