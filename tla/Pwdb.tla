-------------------------------- MODULE Pwdb --------------------------------
(***************************************************************************)
(* The password database (PWDB) of a profile, as dev/sec/plbuf_editor.c    *)
(* edits it in the clear and dev/sec/crypto.c keeps it encrypted.          *)
(*                                                                         *)
(* A plaintext is a sequence of "alias TAB base64(password)" lines between *)
(* two lines of random garbage (its frame).  The lines are shuffled each   *)
(* time the frame is put back, so their order is never knowledge anyone    *)
(* can use: a plaintext is a function from aliases to passwords and a flag *)
(* saying whether the frame is on.  A ciphertext is the key that made it   *)
(* (derived from the user name and a secret) and its plaintext; GCM makes  *)
(* any other key fail.                                                     *)
(***************************************************************************)
EXTENDS Naturals, FiniteSets

CONSTANTS
    Users,      \* profile owners
    Secrets,    \* passwords that lock a PWDB: master or session ones
    Aliases,    \* names under which passwords are stored
    Passwds,    \* stored passwords
    NoPasswd,   \* the entry of an alias that is not stored
    Prefixes,   \* <<a, b>>: the text of alias a is a prefix of that of alias b
    NULL        \* the null pointer

ASSUME PrefixesAssumption ==
    /\ Prefixes \subseteq Aliases \X Aliases
    /\ \A a \in Aliases : <<a, a>> \in Prefixes

ASSUME NoPasswdAssumption == NoPasswd \notin Passwds

Db     == [Aliases -> Passwds \cup {NoPasswd}]
Text   == [framed : BOOLEAN, db : Db]
Cipher == [user : Users, secret : Secrets, text : Text]

ASSUME NullAssumption == NULL \notin Text /\ NULL \notin Cipher

\* The database of a fresh PWDB: only the stub entry "\x1BZ", which is no alias.
StubDb == [a \in Aliases |-> NoPasswd]

Stored(db) == {a \in Aliases : db[a] # NoPasswd}

-----------------------------------------------------------------------------
(* plbuf_editor.c *)

\* Mutant: the length of the comparison is lost and any line will do.
findaliasAny(db, a) == Stored(db)

\* findalias() compares only the bytes of the alias asked for with the start of
\* each line, so every stored alias it is a prefix of may be the line it returns.
findalias(db, a) == {b \in Stored(db) : <<a, b>> \in Prefixes}

\* plbuf_edit_add() and plbuf_edit_del(), once findalias() has spoken.
Inserted(db, a, w) == [db EXCEPT ![a] = w]
Removed(db, a)     == [db EXCEPT ![a] = NoPasswd]

\* plbuf_edit_detach() drops the first and the last line.  Of a framed text these
\* are garbage; of a text whose frame is off they are up to two real entries.
DetachedDb(text) ==
    IF text.framed THEN text.db
    ELSE CHOOSE db \in Db :
            \E lost \in SUBSET Stored(text.db) :
                /\ Cardinality(lost) <= 2
                /\ lost = {} => Stored(text.db) = {}
                /\ db = [a \in Aliases |-> IF a \in lost THEN NoPasswd ELSE text.db[a]]

\* What it leaves in plbuf: a PWDB with only the stub becomes a null buffer.
Bare(db)   == IF db = StubDb THEN NULL ELSE [framed |-> FALSE, db |-> db]

\* plbuf_edit_shuffle() and plbuf_edit_shuffle_stub() put the frame back.  Without memory the
\* former clears a null pointer before it looks at it (plbuf_editor.c:357): on Linux the
\* handler dies there, as Oops of ZcClients has it.  Here it returns the error that the
\* handlers expect.
Framed(db) == [framed |-> TRUE, db |-> db]

-----------------------------------------------------------------------------
(* crypto.c.  p is a profile; bad says that the call fails for want of       *)
(* memory, how refines in which way.                                         *)

Opens(p, u, s) == p.pwdb # NULL /\ p.pwdb.user = u /\ p.pwdb.secret = s

\* Mutant: a failed decryption frees the ciphertext instead of the plaintext.
DecryptFreesPwdb(p, u, s, bad) ==
    IF Opens(p, u, s) /\ ~bad THEN [p EXCEPT !.plbuf = p.pwdb.text]
    ELSE [p EXCEPT !.pwdb = NULL]

\* zacarias_decrypt_pwdb(): an earlier plaintext is freed first, even on failure.
Decrypt(p, u, s, bad) ==
    [p EXCEPT !.plbuf = IF Opens(p, u, s) /\ ~bad THEN p.pwdb.text ELSE NULL]

DecryptOk(p, u, s, bad) == Opens(p, u, s) /\ ~bad

\* zacarias_encrypt_pwdb(): on failure the plaintext stays where it is; when it is
\* the cipher that failed ("wipe") the old ciphertext is lost as well.
Encrypt(p, u, s, bad, how) ==
    IF ~bad
    THEN [p EXCEPT !.pwdb  = [user |-> u, secret |-> s, text |-> p.plbuf],
                   !.plbuf = NULL]
    ELSE IF how = "wipe" THEN [p EXCEPT !.pwdb = NULL] ELSE p

\* zacarias_setkey_pwdb(): decrypt with the old secret, encrypt with the new one and,
\* if the profile was in the clear, decrypt again.  Want of memory stops it in the
\* second call ("midway", "wipe"), in the third ("late") or in the first.
Setkey(p, u, old, new, bad, how) ==
    LET d == Decrypt(p, u, old, bad /\ how \notin {"midway", "wipe", "late"})
        e == Encrypt(d, u, new, bad /\ how \in {"midway", "wipe"}, how)
    IN  IF d.plbuf = NULL THEN d
        ELSE IF e.plbuf # NULL \/ p.plbuf = NULL THEN e
        ELSE Decrypt(e, u, new, bad /\ how = "late")

SetkeyOk(p, u, old, bad, how) ==
    Opens(p, u, old) /\ (bad => how = "late" /\ p.plbuf = NULL)
=============================================================================
