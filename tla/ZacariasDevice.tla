--------------------------- MODULE ZacariasDevice ---------------------------
(***************************************************************************)
(* The Zacarias device driver: the ioctl handlers of dev/actions.c over    *)
(* the list of attached profiles and the PWDB files.                       *)
(*                                                                         *)
(* A handler takes the device lock with a trylock before it looks at       *)
(* anything and drops it on its way out, so handlers never interleave and  *)
(* each is one step here (who gets EBUSY is the business of the client     *)
(* model).  Inside a handler any call that reads or writes a file or needs *)
(* memory may fail; a Fault names the calls of one handler that do.        *)
(***************************************************************************)
EXTENDS Pwdb

CONSTANTS
    Paths,      \* PWDB files
    PathsOf,    \* the files each user gives to "zc attach --pwdb"
    Missing,    \* what is in a file that does not exist
    Torn,       \* what a cut write leaves in a file
    NoSecret,   \* --sessioned was not given: no session password in the request
    ListCap,    \* how many aliases fit in the buffer that lists them
    Faults      \* the faults a handler may meet

VARIABLES
    loaded,     \* is the driver loaded?
    profiles,   \* the attached profile of each user, NULL when there is none
    disk,       \* the content of each PWDB file
    reply       \* the last request and how it was answered

vars == <<loaded, profiles, disk, reply>>

\* The calls on a handler's path, and those its epilogue makes to put things back.
Calls    == {"none", "alloc", "register", "read", "validate", "reload", "decrypt",
             "detach", "lookup", "generate", "insert", "remove", "shuffle",
             "stub", "encrypt", "write", "rekey", "power"}
Recovery == {"reshuffle", "reencrypt", "restore"}
Manners  == {"first", "midway", "wipe", "late", "torn"}

\* The first call that fails ends the path, so one name is enough for the path.
Fault    == [at : Calls, how : Manners, also : SUBSET Recovery]

ASSUME ConstantsAssumption ==
    /\ PathsOf \in [Users -> SUBSET Paths]
    /\ NoSecret \notin Secrets
    /\ Missing \notin Cipher /\ Torn \notin Cipher /\ Missing # Torn
    /\ ListCap \in Nat
    /\ Faults \subseteq Fault

Profile == [path : Paths, pwdb : Cipher \cup {NULL}, plbuf : Text \cup {NULL},
            sessioned : BOOLEAN]

\* NULL marks the user without a profile.
ASSUME DetachedAssumption == NULL \notin Profile /\ NULL \notin Paths

\* A file holds a ciphertext, or what a cut write left of it, or does not exist.
Content == Cipher \cup {Missing, Torn}

Errors   == {"0", "EINVAL", "EFAULT", "ENOMEM"}
Statuses == {"kNoError", "kInvalidParams", "kAliasNotFound", "kAliasAlreadyUsed",
             "kProfilePreviouslyAttached", "kProfileNotAttached",
             "kAuthenticationFailure", "kGeneralError", "kPWDBReadingError",
             "kPWDBWritingError"}
Ops      == {"none", "load", "unload", "crash", "attach", "init", "detach", "add",
             "del", "get", "aliases"}

\* out: the password a "get" answers, the names "aliases" lists.
Reply == [op : Ops, user : Users \cup {NULL}, alias : Aliases \cup {NULL},
          fault : Fault, err : Errors, status : Statuses,
          out : SUBSET (Passwds \cup {NoPasswd} \cup Aliases)]

NoFault == [at |-> "none", how |-> "first", also |-> {}]

Answer(op, u, a, f, err, status, out) ==
    reply' = [op |-> op, user |-> u, alias |-> a, fault |-> f, err |-> err,
              status |-> status, out |-> out]

Keep(u, p) == profiles' = [profiles EXCEPT ![u] = p]

-----------------------------------------------------------------------------
(* kio_impl.c *)

Readable(path) == disk[path] # Missing

\* The ciphertext a read buffer holds, if it is one.
ReadPwdb(path) == IF disk[path] = Torn THEN NULL ELSE disk[path]

\* Mutant: the file is only written when it has to be created.
kwriteNew(path, c, f) ==
    disk' = [disk EXCEPT ![path] = IF f.at # "write" /\ ~Readable(path) THEN c ELSE @]

\* kwrite() truncates the file before it writes: a failure spares it (the open
\* failed) or leaves it torn.
kwrite(path, c, f) ==
    disk' = [disk EXCEPT ![path] = IF f.at # "write" THEN c
                                   ELSE IF f.how = "torn" THEN Torn
                                   ELSE @]

\* The machine stops between the truncation and the last byte.
PowerFails(path, u, a, f) ==
    /\ f.at = "power"
    /\ disk' = [disk EXCEPT ![path] = Torn]
    /\ profiles' = [v \in Users |-> NULL]
    /\ loaded' = FALSE
    /\ Answer("crash", u, a, f, "EFAULT", "kGeneralError", {})

-----------------------------------------------------------------------------
(* What add and del do before they touch an entry: in a sessioned profile    *)
(* validate the session password by a setkey and load the file again, then   *)
(* decrypt with the master password.                                         *)

\* Mutant: add and del go on with what the setkey made and do not load the file.
OpenNoReload(p, u, m, ss, f) ==
    LET k == Setkey(p, u, ss, m, FALSE, f.how)
        r == IF p.sessioned THEN k ELSE p
    IN  [status |-> IF DecryptOk(r, u, m, FALSE) THEN "kNoError" ELSE "kAuthenticationFailure",
         p      |-> Decrypt(r, u, m, FALSE)]

Open(p, u, m, ss, f) ==
    LET bad == f.at = "validate"
        k   == Setkey(p, u, ss, m, bad, f.how)
        r   == IF p.sessioned THEN [k EXCEPT !.pwdb = ReadPwdb(p.path)] ELSE p
    IN  CASE p.sessioned /\ ~SetkeyOk(p, u, ss, bad, f.how) ->
                [status |-> "kAuthenticationFailure", p |-> k]
          [] p.sessioned /\ SetkeyOk(p, u, ss, bad, f.how)
                /\ (f.at = "reload" \/ ~Readable(p.path)) ->
                [status |-> "kPWDBReadingError", p |-> [k EXCEPT !.pwdb = NULL]]
          [] OTHER ->
                [status |-> IF DecryptOk(r, u, m, f.at = "decrypt")
                            THEN "kNoError" ELSE "kAuthenticationFailure",
                 p      |-> Decrypt(r, u, m, f.at = "decrypt")]

OpenCalls == {"none", "validate", "reload", "decrypt"}

\* A sessioned profile takes both passwords; the request of any other is ready.
Ready(p, ss) == p # NULL /\ (p.sessioned => ss # NoSecret)

\* What they do after: encrypt what they made with the master password and, once it
\* is in the file, put a sessioned profile back under its session password.
Sealed(p, u, m, db, f) ==
    Encrypt([p EXCEPT !.plbuf = Framed(db)], u, m, f.at = "encrypt", f.how)

\* Mutant: the detour over the master password is never undone.
RekeyedNever(p, u, m, ss, f) == p

Rekeyed(p, u, m, ss, f) ==
    IF p.sessioned THEN Setkey(p, u, m, ss, f.at = "rekey", f.how) ELSE p

RekeyOk(p, u, m, f) == p.sessioned => SetkeyOk(p, u, m, f.at = "rekey", f.how)

-----------------------------------------------------------------------------
(* zc_dev_act_add_password *)

\* Mutants: the epilogue forgets the detached text, or to frame it.
RestoreFramedOnly(p, u, m, ss, bare, f) ==
    IF p.plbuf = NULL \/ bare THEN p ELSE Encrypt(p, u, m, FALSE, f.how)
RestoreUnframed(p, u, m, ss, bare, f) ==
    IF p.plbuf = NULL THEN p ELSE Encrypt(p, u, m, "reencrypt" \in f.also, f.how)

\* Its epilogue after a failure: frame the text if it was bare, encrypt it again
\* with the master password and, in a sessioned profile, back to the session one.
Restore(p, u, m, ss, bare, f) ==
    LET t == IF bare THEN [p EXCEPT !.plbuf.framed = TRUE] ELSE p
        e == Encrypt(t, u, m, "reencrypt" \in f.also, f.how)
    IN  IF p.plbuf = NULL \/ (bare /\ "reshuffle" \in f.also) THEN p
        ELSE IF "reencrypt" \in f.also \/ ~p.sessioned \/ ss = NoSecret THEN e
        ELSE Setkey(e, u, m, ss, "restore" \in f.also, f.how)

AddFails(u, m, ss, a, f, err, status, p, bare) ==
    /\ Keep(u, Restore(p, u, m, ss, bare, f))
    /\ Answer("add", u, a, f, err, status, {})

\* With the PWDB open and its database db detached, and nothing written so far.
AddStops(u, m, ss, a, w, f, p, db) ==
    LET q == [p EXCEPT !.plbuf = Bare(db)]
        n == [p EXCEPT !.plbuf = [framed |-> FALSE, db |-> Inserted(db, a, w)]]
        Fresh == findalias(db, a) = {}
    IN  \/ /\ f.at = "detach"
           /\ AddFails(u, m, ss, a, f, "0", "kGeneralError", p, FALSE)
        \/ /\ f.at = "none" /\ ~Fresh
           /\ AddFails(u, m, ss, a, f, "0", "kAliasAlreadyUsed", q, TRUE)
        \/ /\ f.at = "generate" /\ Fresh
           /\ AddFails(u, m, ss, a, f, "ENOMEM", "kGeneralError", q, TRUE)
        \/ /\ f.at = "insert" /\ Fresh
           /\ AddFails(u, m, ss, a, f, "0", "kGeneralError", q, TRUE)
        \/ /\ f.at = "shuffle" /\ Fresh
           /\ AddFails(u, m, ss, a, f, "0", "kGeneralError", n, TRUE)
        \/ /\ f.at = "encrypt" /\ Fresh
           /\ AddFails(u, m, ss, a, f, "0", "kGeneralError",
                       Sealed(p, u, m, Inserted(db, a, w), f), FALSE)

\* The write and what follows it; p is the profile with the new entry sealed.
AddWrites(u, m, ss, a, f, p) ==
    /\ f.at \in {"none", "write", "rekey"}
    /\ kwrite(p.path, p.pwdb, f)
    /\ \/ /\ f.at = "write"
          /\ AddFails(u, m, ss, a, f, "0", "kPWDBWritingError", p, FALSE)
       \/ /\ f.at # "write" /\ ~RekeyOk(p, u, m, f)
          /\ AddFails(u, m, ss, a, f, "0", "kGeneralError", Rekeyed(p, u, m, ss, f), FALSE)
       \/ /\ f.at # "write" /\ RekeyOk(p, u, m, f)
          /\ Keep(u, Rekeyed(p, u, m, ss, f))
          /\ Answer("add", u, a, f, "0", "kNoError", {})

AddPassword(u, m, ss, a, w, f) ==
    LET p  == profiles[u]
        o  == Open(p, u, m, ss, f)
        db == DetachedDb(o.p.plbuf)
        Opened == Ready(p, ss) /\ o.status = "kNoError"
    IN
    /\ loaded
    /\ \/ /\ \/ /\ p = NULL /\ f = NoFault
                /\ Answer("add", u, a, f, "0", "kProfileNotAttached", {})
                /\ UNCHANGED profiles
             \/ /\ p # NULL /\ ~Ready(p, ss) /\ f.at = "none"
                /\ AddFails(u, m, ss, a, f, "EINVAL", "kInvalidParams", p, FALSE)
             \/ /\ Ready(p, ss) /\ f.at \in OpenCalls /\ o.status # "kNoError"
                /\ AddFails(u, m, ss, a, f, "0", o.status, o.p, FALSE)
             \/ Opened /\ AddStops(u, m, ss, a, w, f, o.p, db)
          /\ UNCHANGED <<loaded, disk>>
       \/ /\ Opened /\ findalias(db, a) = {}
          /\ \/ /\ AddWrites(u, m, ss, a, f, Sealed(o.p, u, m, Inserted(db, a, w), f))
                /\ UNCHANGED loaded
             \/ PowerFails(p.path, u, a, f)

-----------------------------------------------------------------------------
(* zc_dev_act_del_password *)

\* Its epilogue only frees the plaintext.
Dropped(p) == [p EXCEPT !.plbuf = NULL]

DelFails(u, a, f, err, status, p) ==
    /\ Keep(u, Dropped(p))
    /\ Answer("del", u, a, f, err, status, {})

\* With the PWDB open: before an entry is found to go, and after (left stay).
DelFindsNone(u, m, a, f, p, db) ==
    \/ /\ f.at = "detach"
       /\ DelFails(u, a, f, "0", "kGeneralError",
                   Encrypt(p, u, m, "reencrypt" \in f.also, f.how))
    \/ /\ f.at = IF findalias(db, a) = {} THEN "none" ELSE "remove"
       /\ DelFails(u, a, f, "0", "kAliasNotFound", p)

DelStops(u, m, a, f, p, left) ==
    \/ /\ f.at = "shuffle" /\ left # StubDb
       /\ DelFails(u, a, f, "0", "kGeneralError", p)
    \/ /\ f.at = "insert" /\ left = StubDb
       /\ DelFails(u, a, f, "EFAULT", "kPWDBWritingError", p)
    \/ /\ f.at = "stub" /\ left = StubDb
       /\ DelFails(u, a, f, "EFAULT", "kGeneralError", p)
    \/ /\ f.at = "encrypt"
       /\ DelFails(u, a, f, "0", "kGeneralError", Sealed(p, u, m, left, f))

DelWrites(u, m, ss, a, f, p) ==
    /\ f.at \in {"none", "write", "rekey"}
    /\ kwrite(p.path, p.pwdb, f)
    /\ \/ f.at = "write" /\ DelFails(u, a, f, "0", "kPWDBWritingError", p)
       \/ /\ f.at # "write" /\ ~RekeyOk(p, u, m, f)
          /\ DelFails(u, a, f, "0", "kAuthenticationFailure", Rekeyed(p, u, m, ss, f))
       \/ /\ f.at # "write" /\ RekeyOk(p, u, m, f)
          /\ Keep(u, Rekeyed(p, u, m, ss, f))
          /\ Answer("del", u, a, f, "0", "kNoError", {})

DelPassword(u, m, ss, a, f) ==
    LET p  == profiles[u]
        o  == Open(p, u, m, ss, f)
        db == DetachedDb(o.p.plbuf)
        Opened == Ready(p, ss) /\ o.status = "kNoError"
    IN
    /\ loaded
    /\ \/ /\ \/ /\ p = NULL /\ f = NoFault
                /\ Answer("del", u, a, f, "0", "kProfileNotAttached", {})
                /\ UNCHANGED profiles
             \/ /\ p # NULL /\ ~Ready(p, ss) /\ f.at = "none"
                /\ DelFails(u, a, f, "0", "kInvalidParams", p)
             \/ /\ Ready(p, ss) /\ f.at \in OpenCalls /\ o.status # "kNoError"
                /\ DelFails(u, a, f, "0", o.status, o.p)
             \/ Opened /\ DelFindsNone(u, m, a, f, o.p, db)
             \/ /\ Opened
                /\ \E b \in findalias(db, a) : DelStops(u, m, a, f, o.p, Removed(db, b))
          /\ UNCHANGED <<loaded, disk>>
       \/ /\ Opened
          /\ \E b \in findalias(db, a) :
                \/ /\ DelWrites(u, m, ss, a, f, Sealed(o.p, u, m, Removed(db, b), f))
                   /\ UNCHANGED loaded
                \/ PowerFails(p.path, u, a, f)

-----------------------------------------------------------------------------
(* zc_dev_act_get_password and zc_dev_act_aliases *)

\* Both end the same way: frame, encrypt with the key that opened the PWDB, answer
\* as already decided.  There is nothing to frame in an empty PWDB: shuffle fails.
Reseal(p, u, s, db, f) ==
    IF db = StubDb \/ f.at = "shuffle" THEN Dropped(p)
    ELSE Sealed(p, u, s, db, f)

GetPassword(u, s, a, f) ==
    LET p  == profiles[u]
        d  == Decrypt(p, u, s, f.at = "decrypt")
        db == DetachedDb(d.plbuf)
        Ans(status, out, x) ==
            /\ Keep(u, x)
            /\ Answer("get", u, a, f, "0", status, out)
        Opened == p # NULL /\ DecryptOk(p, u, s, f.at = "decrypt")
    IN
    /\ loaded
    /\ \/ p = NULL /\ f = NoFault /\ Ans("kProfileNotAttached", {}, p)
       \/ /\ p # NULL /\ ~Opened /\ f.at \in {"none", "decrypt"}
          /\ Ans("kAuthenticationFailure", {}, d)
       \/ /\ Opened /\ f.at = "detach"
          /\ Ans("kGeneralError", {},
                 Encrypt(d, u, s, "reencrypt" \in f.also, f.how))
       \/ /\ Opened /\ f.at \in {"none", "shuffle", "encrypt"}
          /\ \/ /\ findalias(db, a) = {}
                /\ Ans("kAliasNotFound", {}, Reseal(d, u, s, db, f))
             \/ \E b \in findalias(db, a) :
                   Ans("kNoError", {db[b]}, Reseal(d, u, s, db, f))
       \/ /\ Opened /\ f.at = "lookup" /\ findalias(db, a) # {}
          /\ Ans("kAliasNotFound", {}, Reseal(d, u, s, db, f))
    /\ UNCHANGED <<loaded, disk>>

ListAliases(u, s, f) ==
    LET p  == profiles[u]
        d  == Decrypt(p, u, s, f.at = "decrypt")
        db == DetachedDb(d.plbuf)
        Ans(status, out, x) ==
            /\ Keep(u, x)
            /\ Answer("aliases", u, NULL, f, "0", status, out)
        Opened == p # NULL /\ DecryptOk(p, u, s, f.at = "decrypt")
    IN
    /\ loaded
    /\ \/ p = NULL /\ f = NoFault /\ Ans("kProfileNotAttached", {}, p)
       \/ /\ p # NULL /\ ~Opened /\ f.at \in {"none", "decrypt"}
          /\ Ans("kAuthenticationFailure", {}, d)
       \/ /\ Opened /\ f.at = "detach"
          /\ Ans("kGeneralError", {},
                 Encrypt(d, u, s, "reencrypt" \in f.also, f.how))
       \/ /\ Opened /\ f.at \in {"none", "shuffle", "encrypt"}
          /\ IF Cardinality(Stored(db)) <= ListCap
             THEN Ans("kNoError", Stored(db), Reseal(d, u, s, db, f))
             ELSE Ans("kGeneralError", {}, Reseal(d, u, s, db, f))
       \/ /\ Opened /\ f.at = "lookup" /\ db # StubDb
          /\ Ans("kNoError", {}, Reseal(d, u, s, db, f))
    /\ UNCHANGED <<loaded, disk>>

-----------------------------------------------------------------------------
(* zc_dev_act_attach_profile, kAttachProfile *)

\* Once the profile is on the list: nothing more to do, or put it under the session
\* password.  A failure here leaves the profile attached.
StartSession(op, u, p, m, ss, f) ==
    LET k == Setkey(p, u, m, ss, f.at = "rekey", f.how)
    IN  \/ /\ ss = NoSecret /\ f.at = "none"
           /\ Keep(u, p)
           /\ Answer(op, u, NULL, f, "0", "kNoError", {})
        \/ /\ ss # NoSecret /\ f.at \in {"none", "rekey"}
           /\ SetkeyOk(p, u, m, f.at = "rekey", f.how)
           /\ Keep(u, [k EXCEPT !.sessioned = TRUE])
           /\ Answer(op, u, NULL, f, "0", "kNoError", {})
        \/ /\ ss # NoSecret /\ f.at \in {"none", "rekey"}
           /\ ~SetkeyOk(p, u, m, f.at = "rekey", f.how)
           /\ Keep(u, k)
           /\ Answer(op, u, NULL, f, "0", "kAuthenticationFailure", {})

\* Mutant: the new profile is not zeroed.
NewProfileRaw(path, c) == [path |-> path, pwdb |-> c, plbuf |-> NULL, sessioned |-> NULL]

NewProfile(path, c) == [path |-> path, pwdb |-> c, plbuf |-> NULL, sessioned |-> FALSE]

Attach(u, path, m, ss, f) ==
    LET p == NewProfile(path, ReadPwdb(path))
        Ok == DecryptOk(p, u, m, f.at = "decrypt")
        Refuse(status) == /\ Answer("attach", u, NULL, f, "0", status, {})
                          /\ UNCHANGED profiles
        Free == profiles[u] = NULL
    IN
    /\ loaded
    /\ \/ ~Free /\ f = NoFault /\ Refuse("kProfilePreviouslyAttached")
       \/ /\ Free
          /\ \/ f.at = "read"
             \/ f.at = "none" /\ ~Readable(path)
          /\ Refuse("kPWDBReadingError")
       \/ /\ Free /\ Readable(path)
          /\ \/ f.at = "register"
             \/ f.at = "none" /\ disk[path] = Torn  \* not a single byte is left
          /\ Refuse("kGeneralError")
       \/ /\ Free /\ Readable(path) /\ f.at \in {"none", "decrypt"} /\ ~Ok
          /\ Refuse("kAuthenticationFailure")
       \/ Free /\ Readable(path) /\ Ok /\ f.at = "encrypt" /\ Refuse("kGeneralError")
       \/ Free /\ Readable(path) /\ Ok /\ StartSession("attach", u, p, m, ss, f)
    /\ UNCHANGED <<loaded, disk>>

(* zc_dev_act_attach_profile, kInitAndAttachProfile: the profile goes on the *)
(* list with eight zero bytes for a PWDB before there is anything to put in  *)
(* it, and no failure after that takes it off again.                         *)
InitAttach(u, path, m, ss, f) ==
    LET p == [NewProfile(path, NULL) EXCEPT !.plbuf = Framed(StubDb)]
        e == Encrypt(p, u, m, f.at = "encrypt", f.how)
        Stay(status, x) == /\ Keep(u, x)
                           /\ Answer("init", u, NULL, f, "0", status, {})
        Free == profiles[u] = NULL
    IN
    /\ loaded
    /\ \/ /\ \/ ~Free /\ f = NoFault
                /\ Stay("kProfilePreviouslyAttached", profiles[u])
             \/ Free /\ f.at \in {"alloc", "register"} /\ Stay("kGeneralError", NULL)
             \/ Free /\ f.at = "insert" /\ Stay("kPWDBWritingError", Dropped(p))
             \/ Free /\ f.at = "stub" /\ Stay("kGeneralError", Dropped(p))
             \/ Free /\ f.at = "encrypt" /\ Stay("kPWDBWritingError", e)
          /\ UNCHANGED <<loaded, disk>>
       \/ /\ Free /\ f.at \in {"none", "write", "rekey"}
          /\ kwrite(path, e.pwdb, f)
          /\ \/ f.at = "write" /\ Stay("kPWDBWritingError", e)
             \/ f.at # "write" /\ StartSession("init", u, e, m, ss, f)
          /\ UNCHANGED loaded
       \/ Free /\ PowerFails(path, u, NULL, f)

-----------------------------------------------------------------------------
(* zc_dev_act_detach_profile.  The session password, if there is one, is the *)
(* one it asks for; the encryption after the check is not looked at.         *)
Detach(u, s, f) ==
    LET p == profiles[u]
        Ok == DecryptOk(p, u, s, f.at = "decrypt")
        Ans(status, x) == /\ Keep(u, x)
                          /\ Answer("detach", u, NULL, f, "0", status, {})
    IN
    /\ loaded
    /\ \/ p = NULL /\ f = NoFault /\ Ans("kProfileNotAttached", p)
       \/ /\ p # NULL /\ f.at \in {"none", "decrypt"} /\ ~Ok
          /\ Ans("kAuthenticationFailure", Decrypt(p, u, s, f.at = "decrypt"))
       \/ p # NULL /\ f.at \in {"none", "encrypt"} /\ Ok /\ Ans("kNoError", NULL)
    /\ UNCHANGED <<loaded, disk>>

-----------------------------------------------------------------------------
(* cdev_init.c, cdev_deinit.c and the end of the world *)

Boot(op, on) ==
    /\ loaded' = on
    /\ profiles' = [v \in Users |-> NULL]
    /\ Answer(op, NULL, NULL, NoFault, "0", "kNoError", {})
    /\ UNCHANGED disk

Load   == ~loaded /\ Boot("load", TRUE)
Unload == loaded /\ Boot("unload", FALSE)
Crash  == loaded /\ Boot("crash", FALSE)

Init ==
    /\ loaded = FALSE
    /\ profiles = [v \in Users |-> NULL]
    /\ disk = [path \in Paths |-> Missing]
    /\ reply = [op |-> "none", user |-> NULL, alias |-> NULL, fault |-> NoFault,
                err |-> "0", status |-> "kNoError", out |-> {}]

\* One ioctl of user u.  zc never sends an empty master password.
Ioctl(u, f) ==
    \E m \in Secrets :
        \/ \E path \in PathsOf[u], ss \in Secrets \cup {NoSecret} :
              Attach(u, path, m, ss, f) \/ InitAttach(u, path, m, ss, f)
        \/ Detach(u, m, f)
        \/ ListAliases(u, m, f)
        \/ \E a \in Aliases :
              \/ GetPassword(u, m, a, f)
              \/ \E ss \in Secrets \cup {NoSecret} :
                    \/ DelPassword(u, m, ss, a, f)
                    \/ \E w \in Passwds : AddPassword(u, m, ss, a, w, f)

Next ==
    \/ Load
    \/ Unload
    \/ Crash
    \/ \E u \in Users, f \in Faults : Ioctl(u, f)

Spec == Init /\ [][Next]_vars

-----------------------------------------------------------------------------
TypeOK ==
    /\ loaded \in BOOLEAN
    /\ profiles \in [Users -> Profile \cup {NULL}]
    /\ disk \in [Paths -> Content]
    /\ reply \in Reply

Attached(u) == profiles[u] # NULL

\* Where a call that finds no memory keeps the plaintext from being put away: the
\* encryption that get, aliases and --init do not look at or cannot undo, or that is to
\* undo a failed detach; the one that puts a profile under its session password for the
\* first time; and in the epilogue of add the reframing, the encryption and the change
\* back to the session password.
SealingFails(r) ==
    LET f == r.fault IN
    \/ r.op \in {"get", "aliases", "init"} /\ f.at = "encrypt"
    \/ r.op \in {"get", "aliases"} /\ f.at = "detach" /\ "reencrypt" \in f.also
    \/ r.op \in {"attach", "init"} /\ f.at = "rekey" /\ f.how \in {"midway", "wipe"}
    \/ r.op = "add" /\ {"reshuffle", "reencrypt"} \cap f.also # {}
    \/ r.op = "add" /\ "restore" \in f.also /\ f.how \in {"midway", "wipe"}

\* No handler that returns leaves a PWDB in the clear in kernel memory, whatever goes wrong
\* with passwords, aliases, files and memory and in whatever order the requests come, but
\* where SealingFails names the call: every other way out of actions.c has encrypted or
\* freed the plaintext, that of earlier handlers included.  A request that does not get as
\* far as the profile, or is another user's, leaves it as it was.  (A handler that dies,
\* as in a frame without memory, plbuf_editor.c:357, does not return: see Oops in ZcClients.)
PlaintextCleared ==
    [][\A u \in Users :
          (profiles'[u] # NULL /\ profiles'[u].plbuf # NULL)
          => \/ profiles'[u] = profiles[u]
             \/ reply'.user = u /\ SealingFails(reply')]_vars

\* An attached profile loses its encrypted PWDB, after which it can neither be used nor
\* detached, in two cases only: a cipher fails after the old ciphertext was freed
\* ("wipe"), or add or del cannot load the file of a sessioned profile again.  On every
\* other way through actions.c, failed or not, something that can be decrypted is put back.
PwdbSurvives ==
    [][\A u \in Users :
          (Attached(u) /\ profiles[u].pwdb # NULL /\ profiles'[u] # NULL)
          => \/ profiles'[u].pwdb # NULL
             \/ reply'.user = u /\ reply'.fault.how = "wipe"
             \/ /\ reply'.user = u /\ reply'.op \in {"add", "del"} /\ profiles[u].sessioned
                /\ reply'.fault.at = "reload" \/ disk[profiles[u].path] \notin Cipher]_vars

\* Any two databases that were encrypted had their frame on; detaching a ciphertext
\* never eats real entries, because no path of actions.c encrypts a bare text.
EncryptedIsFramed ==
    /\ \A u \in Users :
          Attached(u) /\ profiles[u].pwdb # NULL => profiles[u].pwdb.text.framed
    /\ \A path \in Paths : disk[path] \in Cipher => disk[path].text.framed

\* When add, del or --init answers kNoError, the file holds, for that user, exactly
\* the entries that later requests on the attached profile will see in memory, even
\* if other calls of this and of earlier handlers have failed.
SuccessIsDurable ==
    (reply.op \in {"add", "del", "init"} /\ reply.status = "kNoError") =>
        LET p == profiles[reply.user]
        IN  /\ disk[p.path] \in Cipher
            /\ disk[p.path].user = reply.user
            /\ p.pwdb # NULL /\ p.pwdb.text = disk[p.path].text

\* A PWDB file keeps the secret it was initialised with as long as it stays its
\* owner's and is not initialised again: the session password, which is what the
\* copy in memory is encrypted with, never gets to the disk.
FileKeyFixed ==
    [][\A path \in Paths :
          (disk[path] \in Cipher /\ disk'[path] \in Cipher
             /\ disk[path].user = disk'[path].user /\ reply'.op # "init")
          => disk[path].secret = disk'[path].secret]_vars

\* A handler that answers kNoError gives the profile back under the password it was
\* under when the request came, session password or master: the detour over the
\* master password that add and del make in a sessioned profile ends where it began,
\* whatever fails.  (get and aliases do not look at the result of their encryption.)
SuccessKeepsKey ==
    [][\A u \in Users :
          (reply'.user = u /\ reply'.status = "kNoError" /\ Attached(u) /\ profiles'[u] # NULL)
          => \/ profiles'[u].pwdb = NULL /\ reply'.fault.at = "encrypt"
             \/ /\ profiles'[u].pwdb # NULL
                /\ profiles'[u].pwdb.secret = profiles[u].pwdb.secret]_vars

\* MANUAL.md: once a session password is configured, "password get" and "detach" ask
\* for it and for nothing else.  So a sessioned profile stays under the password its
\* attachment put it under, whatever add and del answer.
SessionKeyStays ==
    [][\A u \in Users :
          (Attached(u) /\ profiles[u].sessioned /\ profiles'[u] # NULL)
          => /\ profiles'[u].pwdb # NULL
             /\ profiles'[u].pwdb.secret = profiles[u].pwdb.secret]_vars

\* While every user has files of his own and calls fail only where the handler can still
\* put everything back, the copy in memory of an attached profile has the entries of its
\* file, so the one can be written over the other and no update is ever lost; and it is
\* always a ciphertext of its owner, so the profile can be detached.
MemoryMatchesDisk ==
    \A u \in Users : Attached(u) =>
        LET p == profiles[u]
        IN  /\ p.pwdb # NULL /\ p.pwdb.user = u
            /\ disk[p.path] \in Cipher
            /\ disk[p.path].user = u
            /\ p.pwdb.text = disk[p.path].text

\* MANUAL.md, "Detaching your profile": it asks for the PWDB password and, that being
\* right, detaches.  So each profile on the list has a password it can be detached with.
AttachedCanDetach ==
    \A u \in Users : Attached(u) => \E s \in Secrets : DecryptOk(profiles[u], u, s, FALSE)
=============================================================================
