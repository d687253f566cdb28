----------------------- MODULE ZacariasDevice_proofs ------------------------
(***************************************************************************)
(* What holds of the driver, for any number of users, files, secrets,      *)
(* aliases and passwords, and under which faults: types and durability     *)
(* under all of them, then what becomes of the frame and of the master     *)
(* password, each with the faults it stands, and at last what is put away  *)
(* of plaintext and PWDB, again under all.                                 *)
(***************************************************************************)
EXTENDS ZacariasDevice, TLAPS, FiniteSetTheorems

-----------------------------------------------------------------------------
(***************************************************************************)
(* Type correctness and durability of the driver, for any number of users, *)
(* files, secrets, aliases and passwords and for any set of faults.        *)
(*                                                                         *)
(* First what each helper of plbuf_editor.c and crypto.c returns for a     *)
(* well-typed profile; then, handler by handler, that a step takes         *)
(* well-typed profiles to well-typed profiles, and that a kNoError of add, *)
(* del or --init leaves memory and file with the same entries.             *)
(***************************************************************************)

\* Detaching a text leaves a database.
LEMMA DetachedType ==
    ASSUME NEW text \in Text
    PROVE  DetachedDb(text) \in Db
  <1>1. text.framed \in BOOLEAN /\ text.db \in Db
    BY DEF Text
  <1> DEFINE Eats(db, lost) ==
               /\ Cardinality(lost) <= 2
               /\ lost = {} => Stored(text.db) = {}
               /\ db = [a \in Aliases |-> IF a \in lost THEN NoPasswd ELSE text.db[a]]
  <1>2. \E db \in Db, lost \in SUBSET Stored(text.db) : Eats(db, lost)
    <2>1. PICK lost \in SUBSET Stored(text.db) :
             Cardinality(lost) <= 2 /\ (lost = {} => Stored(text.db) = {})
      <3>1. CASE Stored(text.db) = {}
        BY <3>1, FS_EmptySet
      <3>2. CASE Stored(text.db) # {}
        <4>1. PICK a \in Stored(text.db) : TRUE
          BY <3>2
        <4>2. Cardinality({a}) = 1
          BY FS_Singleton
        <4> QED
          BY <4>1, <4>2
      <3> QED
        BY <3>1, <3>2
    <2> DEFINE left == [a \in Aliases |-> IF a \in lost THEN NoPasswd ELSE text.db[a]]
    <2>2. left \in Db
      BY <1>1 DEF Db
    <2> QED
      BY <2>1, <2>2
  <1>3. (CHOOSE db \in Db : \E lost \in SUBSET Stored(text.db) : Eats(db, lost)) \in Db
    BY <1>2
  <1> QED
    BY <1>1, <1>3 DEF DetachedDb

LEMMA TextTypes ==
    ASSUME NEW db \in Db
    PROVE  /\ Framed(db) \in Text
           /\ [framed |-> FALSE, db |-> db] \in Text
           /\ Bare(db) \in Text \cup {NULL}
  BY DEF Framed, Bare, Text

LEMMA DbTypes ==
    ASSUME NEW db \in Db, NEW a \in Aliases
    PROVE  /\ \A w \in Passwds : Inserted(db, a, w) \in Db
           /\ Removed(db, a) \in Db
           /\ findalias(db, a) \subseteq Aliases
  BY DEF Db, Inserted, Removed, findalias, Stored

LEMMA StubDbType == StubDb \in Db
  BY DEF StubDb, Db
-----------------------------------------------------------------------------
(* crypto.c *)

\* A decryption touches nothing but the plaintext, and yields that of the ciphertext.
LEMMA DecryptType ==
    ASSUME NEW p \in Profile, NEW u, NEW s, NEW bad \in BOOLEAN
    PROVE  /\ Decrypt(p, u, s, bad) \in Profile
           /\ Decrypt(p, u, s, bad).path = p.path
           /\ Decrypt(p, u, s, bad).pwdb = p.pwdb
           /\ Decrypt(p, u, s, bad).sessioned = p.sessioned
           /\ DecryptOk(p, u, s, bad) => /\ Decrypt(p, u, s, bad).plbuf = p.pwdb.text
                                         /\ p.pwdb \in Cipher
                                         /\ Decrypt(p, u, s, bad).plbuf \in Text
           /\ ~DecryptOk(p, u, s, bad) => Decrypt(p, u, s, bad).plbuf = NULL
  <1>1. p.pwdb # NULL => p.pwdb \in Cipher /\ p.pwdb.text \in Text
    BY DEF Profile, Cipher
  <1>2. Decrypt(p, u, s, bad) =
           [p EXCEPT !.plbuf = IF DecryptOk(p, u, s, bad) THEN p.pwdb.text ELSE NULL]
    BY DEF Decrypt, DecryptOk
  <1>3. DecryptOk(p, u, s, bad) => p.pwdb # NULL
    BY DEF DecryptOk, Opens
  <1> QED
    BY <1>1, <1>2, <1>3 DEF Profile

\* An encryption seals the plaintext and clears it; one that fails leaves it.
LEMMA EncryptType ==
    ASSUME NEW p \in Profile, NEW u \in Users, NEW s \in Secrets, NEW bad \in BOOLEAN, NEW how,
           bad \/ p.plbuf # NULL
    PROVE  /\ Encrypt(p, u, s, bad, how) \in Profile
           /\ Encrypt(p, u, s, bad, how).path = p.path
           /\ Encrypt(p, u, s, bad, how).sessioned = p.sessioned
           /\ bad => Encrypt(p, u, s, bad, how).plbuf = p.plbuf
           /\ ~bad => /\ Encrypt(p, u, s, bad, how).plbuf = NULL
                      /\ Encrypt(p, u, s, bad, how).pwdb \in Cipher
                      /\ Encrypt(p, u, s, bad, how).pwdb.user = u
                      /\ Encrypt(p, u, s, bad, how).pwdb.text = p.plbuf
  <1>1. CASE bad
    BY <1>1 DEF Encrypt, Profile
  <1>2. CASE ~bad
    <2>1. [user |-> u, secret |-> s, text |-> p.plbuf] \in Cipher
      BY <1>2 DEF Profile, Cipher
    <2> QED
      BY <1>2, <2>1 DEF Encrypt, Profile
  <1> QED
    BY <1>1, <1>2

\* A change of key touches neither path nor session, and when it succeeds the entries
\* are the same under the new key.
LEMMA SetkeyType ==
    ASSUME NEW p \in Profile, NEW u \in Users, NEW old, NEW new \in Secrets,
           NEW bad \in BOOLEAN, NEW how
    PROVE  /\ Setkey(p, u, old, new, bad, how) \in Profile
           /\ Setkey(p, u, old, new, bad, how).path = p.path
           /\ Setkey(p, u, old, new, bad, how).sessioned = p.sessioned
           /\ SetkeyOk(p, u, old, bad, how) =>
                 /\ p.pwdb \in Cipher
                 /\ Setkey(p, u, old, new, bad, how).pwdb # NULL
                 /\ Setkey(p, u, old, new, bad, how).pwdb.text = p.pwdb.text
  <1> DEFINE first  == bad /\ how \notin {"midway", "wipe", "late"}
             second == bad /\ how \in {"midway", "wipe"}
             third  == bad /\ how = "late"
             d == Decrypt(p, u, old, first)
             e == Encrypt(d, u, new, second, how)
  <1>1. first \in BOOLEAN /\ second \in BOOLEAN /\ third \in BOOLEAN
    OBVIOUS
  <1>7. SetkeyOk(p, u, old, bad, how) => ~first /\ ~second /\ DecryptOk(p, u, old, first)
    BY DEF SetkeyOk, DecryptOk
  <1>3. Setkey(p, u, old, new, bad, how) =
           IF d.plbuf = NULL THEN d
           ELSE IF e.plbuf # NULL \/ p.plbuf = NULL THEN e
           ELSE Decrypt(e, u, new, third)
    BY DEF Setkey
  <1> HIDE DEF first, second, third
  <1>2. /\ d \in Profile /\ d.path = p.path /\ d.pwdb = p.pwdb /\ d.sessioned = p.sessioned
        /\ DecryptOk(p, u, old, first) => d.plbuf = p.pwdb.text /\ p.pwdb \in Cipher
                                          /\ d.plbuf \in Text
    BY <1>1, DecryptType
  <1> HIDE DEF d
  <1>4. d.plbuf # NULL =>
           /\ e \in Profile /\ e.path = p.path /\ e.sessioned = p.sessioned
           /\ ~second => e.pwdb # NULL /\ e.pwdb.text = d.plbuf /\ e.plbuf = NULL
    <2> SUFFICES ASSUME d.plbuf # NULL
                 PROVE  /\ e \in Profile /\ e.path = p.path /\ e.sessioned = p.sessioned
                        /\ ~second => e.pwdb # NULL /\ e.pwdb.text = d.plbuf /\ e.plbuf = NULL
      OBVIOUS
    <2> QED
      BY <1>1, <1>2, EncryptType, NullAssumption
  <1> HIDE DEF e
  <1>5. d.plbuf # NULL =>
           /\ Decrypt(e, u, new, third) \in Profile
           /\ Decrypt(e, u, new, third).path = p.path
           /\ Decrypt(e, u, new, third).sessioned = p.sessioned
           /\ Decrypt(e, u, new, third).pwdb = e.pwdb
    <2> SUFFICES ASSUME d.plbuf # NULL
                 PROVE  /\ Decrypt(e, u, new, third) \in Profile
                        /\ Decrypt(e, u, new, third).path = p.path
                        /\ Decrypt(e, u, new, third).sessioned = p.sessioned
                        /\ Decrypt(e, u, new, third).pwdb = e.pwdb
      OBVIOUS
    <2> QED
      BY <1>1, <1>4, DecryptType
  <1>6. ASSUME SetkeyOk(p, u, old, bad, how)
        PROVE  /\ p.pwdb \in Cipher
               /\ Setkey(p, u, old, new, bad, how).pwdb # NULL
               /\ Setkey(p, u, old, new, bad, how).pwdb.text = p.pwdb.text
    <2>1. ~second /\ DecryptOk(p, u, old, first)
      BY <1>7, <1>6
    <2>2. d.plbuf = p.pwdb.text /\ p.pwdb \in Cipher /\ d.plbuf # NULL
      BY <1>2, <2>1, NullAssumption
    <2> QED
      BY <1>3, <1>4, <1>5, <2>1, <2>2
  <1> QED
    BY <1>2, <1>3, <1>4, <1>5, <1>6
\* The same, for whoever only needs the types.
LEMMA SetkeyFrame ==
    ASSUME NEW p \in Profile, NEW u \in Users, NEW old, NEW new \in Secrets,
           NEW bad \in BOOLEAN, NEW how
    PROVE  /\ Setkey(p, u, old, new, bad, how) \in Profile
           /\ Setkey(p, u, old, new, bad, how).path = p.path
           /\ Setkey(p, u, old, new, bad, how).sessioned = p.sessioned
  BY SetkeyType

-----------------------------------------------------------------------------
(* actions.c: what add and del begin with, and how add, get and aliases end *)

LEMMA ReadType ==
    ASSUME TypeOK, NEW path \in Paths, Readable(path)
    PROVE  ReadPwdb(path) \in Cipher \cup {NULL}
  BY DEF TypeOK, Readable, ReadPwdb, Content

LEMMA OpenType ==
    ASSUME TypeOK, NEW u \in Users, NEW p \in Profile, NEW m \in Secrets, NEW ss, NEW f \in Fault
    PROVE  /\ Open(p, u, m, ss, f).p \in Profile
           /\ Open(p, u, m, ss, f).p.path = p.path
           /\ Open(p, u, m, ss, f).p.sessioned = p.sessioned
           /\ Open(p, u, m, ss, f).status \in Statuses
           /\ Open(p, u, m, ss, f).status = "kNoError" => Open(p, u, m, ss, f).p.plbuf \in Text
  <1> DEFINE bad == f.at = "validate"
             ok  == SetkeyOk(p, u, ss, bad, f.how)
             k   == Setkey(p, u, ss, m, bad, f.how)
             r   == IF p.sessioned THEN [k EXCEPT !.pwdb = ReadPwdb(p.path)] ELSE p
             cut == f.at = "decrypt"
  <1>1. Open(p, u, m, ss, f) =
           CASE p.sessioned /\ ~ok -> [status |-> "kAuthenticationFailure", p |-> k]
             [] p.sessioned /\ ok /\ (f.at = "reload" \/ ~Readable(p.path)) ->
                   [status |-> "kPWDBReadingError", p |-> [k EXCEPT !.pwdb = NULL]]
             [] OTHER -> [status |-> IF DecryptOk(r, u, m, cut)
                                     THEN "kNoError" ELSE "kAuthenticationFailure",
                          p      |-> Decrypt(r, u, m, cut)]
    BY DEF Open
  <1>2. bad \in BOOLEAN /\ cut \in BOOLEAN /\ p.sessioned \in BOOLEAN /\ p.path \in Paths
    BY DEF Profile
  <1> HIDE DEF bad, cut
  <1>3. k \in Profile /\ k.path = p.path /\ k.sessioned = p.sessioned
    <2>1. k \in Profile
      BY <1>2, SetkeyFrame
    <2>2. k.path = p.path
      BY <1>2, SetkeyFrame
    <2>3. k.sessioned = p.sessioned
      BY <1>2, SetkeyFrame
    <2> QED
      BY <2>1, <2>2, <2>3
  <1>4. ok \in BOOLEAN
    BY DEF SetkeyOk, Opens
  <1> HIDE DEF k, ok
  <1>5. CASE p.sessioned /\ ~ok
    <2>1. Open(p, u, m, ss, f) = [status |-> "kAuthenticationFailure", p |-> k]
      BY <1>1, <1>5
    <2> QED
      BY <1>3, <2>1 DEF Statuses
  <1>6. CASE p.sessioned /\ ok /\ (f.at = "reload" \/ ~Readable(p.path))
    <2> DEFINE x == [k EXCEPT !.pwdb = NULL]
    <2>1. Open(p, u, m, ss, f) = [status |-> "kPWDBReadingError", p |-> x]
      BY <1>1, <1>6
    <2>2. x \in Profile /\ x.path = p.path /\ x.sessioned = p.sessioned
      BY <1>3 DEF Profile
    <2> HIDE DEF x
    <2> QED
      BY <2>1, <2>2 DEF Statuses
  <1>7. CASE ~(p.sessioned /\ ~ok)
             /\ ~(p.sessioned /\ ok /\ (f.at = "reload" \/ ~Readable(p.path)))
    <2>1. Open(p, u, m, ss, f) = [status |-> IF DecryptOk(r, u, m, cut)
                                            THEN "kNoError" ELSE "kAuthenticationFailure",
                                 p      |-> Decrypt(r, u, m, cut)]
      BY <1>1, <1>7
    <2>2. r \in Profile /\ r.path = p.path /\ r.sessioned = p.sessioned
      <3>1. CASE p.sessioned
        <4>1. ReadPwdb(p.path) \in Cipher \cup {NULL}
          BY <1>2, <1>7, <3>1, ReadType
        <4> QED
          BY <1>3, <3>1, <4>1 DEF Profile
      <3>2. CASE ~p.sessioned
        BY <3>2
      <3> QED
        BY <3>1, <3>2
    <2> HIDE DEF r
    <2>3. /\ Decrypt(r, u, m, cut) \in Profile
          /\ Decrypt(r, u, m, cut).path = p.path
          /\ Decrypt(r, u, m, cut).sessioned = p.sessioned
          /\ DecryptOk(r, u, m, cut) => Decrypt(r, u, m, cut).plbuf \in Text
      BY <1>2, <2>2, DecryptType
    <2> QED
      BY <2>1, <2>3 DEF Statuses
  <1> QED
    BY <1>5, <1>6, <1>7

LEMMA RestoreType ==
    ASSUME NEW u \in Users, NEW p \in Profile, NEW m \in Secrets, NEW ss \in Secrets \cup {NoSecret},
           NEW bare \in BOOLEAN, NEW f \in Fault
    PROVE  /\ Restore(p, u, m, ss, bare, f) \in Profile
           /\ Restore(p, u, m, ss, bare, f).path = p.path
  <1> DEFINE cut == "reencrypt" \in f.also
             lost == "restore" \in f.also
             t == IF bare THEN [p EXCEPT !.plbuf.framed = TRUE] ELSE p
             e == Encrypt(t, u, m, cut, f.how)
             k == Setkey(e, u, m, ss, lost, f.how)
  <1>1. Restore(p, u, m, ss, bare, f) =
           IF p.plbuf = NULL \/ (bare /\ "reshuffle" \in f.also) THEN p
           ELSE IF cut \/ ~p.sessioned \/ ss = NoSecret THEN e
           ELSE k
    BY DEF Restore
  <1>2. cut \in BOOLEAN /\ lost \in BOOLEAN
    OBVIOUS
  <1> HIDE DEF cut, lost
  <1>3. CASE p.plbuf = NULL
    BY <1>1, <1>3
  <1>4. CASE p.plbuf # NULL
    <2>1. p.plbuf \in Text
      BY <1>4 DEF Profile
    <2>2. t \in Profile /\ t.plbuf \in Text /\ t.path = p.path
      <3>1. CASE bare
        <4>1. t = [p EXCEPT !.plbuf = [p.plbuf EXCEPT !.framed = TRUE]]
          BY <3>1
        <4>2. [p.plbuf EXCEPT !.framed = TRUE] \in Text
          BY <2>1 DEF Text
        <4> QED
          BY <4>1, <4>2 DEF Profile
      <3>2. CASE ~bare
        BY <2>1, <3>2
      <3> QED
        BY <3>1, <3>2
    <2>3. t.plbuf # NULL
      BY <2>2, NullAssumption
    <2> HIDE DEF t
    <2>4. e \in Profile /\ e.path = p.path
      BY <1>2, <2>2, <2>3, EncryptType
    <2> HIDE DEF e
    <2>5. ss # NoSecret => k \in Profile /\ k.path = p.path
      BY <1>2, <2>4, SetkeyType
    <2> HIDE DEF k
    <2> QED
      BY <1>1, <2>4, <2>5
  <1> QED
    BY <1>3, <1>4

LEMMA DroppedType ==
    ASSUME NEW p \in Profile
    PROVE  Dropped(p) \in Profile /\ Dropped(p).path = p.path /\ Dropped(p).plbuf = NULL
  BY DEF Dropped, Profile

LEMMA SealedType ==
    ASSUME NEW p \in Profile, NEW u \in Users, NEW m \in Secrets, NEW db \in Db, NEW f \in Fault
    PROVE  /\ Sealed(p, u, m, db, f) \in Profile
           /\ Sealed(p, u, m, db, f).path = p.path
           /\ Sealed(p, u, m, db, f).sessioned = p.sessioned
           /\ f.at # "encrypt" => /\ Sealed(p, u, m, db, f).pwdb \in Cipher
                                  /\ Sealed(p, u, m, db, f).pwdb.user = u
  <1> DEFINE t == [p EXCEPT !.plbuf = Framed(db)]
             cut == f.at = "encrypt"
  <1>1. t \in Profile /\ t.path = p.path /\ t.sessioned = p.sessioned /\ t.plbuf # NULL
    BY TextTypes, NullAssumption DEF Profile
  <1>2. cut \in BOOLEAN /\ (f.at # "encrypt" <=> ~cut)
    OBVIOUS
  <1>3. Sealed(p, u, m, db, f) = Encrypt(t, u, m, cut, f.how)
    BY DEF Sealed
  <1> HIDE DEF t, cut
  <1> QED
    BY <1>1, <1>2, <1>3, EncryptType

LEMMA ResealType ==
    ASSUME NEW u \in Users, NEW p \in Profile, NEW s \in Secrets, NEW db \in Db, NEW f \in Fault
    PROVE  Reseal(p, u, s, db, f) \in Profile
  BY SealedType, DroppedType DEF Reseal

LEMMA RekeyedType ==
    ASSUME NEW p \in Profile, NEW u \in Users, NEW m \in Secrets,
           NEW ss \in Secrets \cup {NoSecret}, p.sessioned => ss # NoSecret, NEW f \in Fault
    PROVE  /\ Rekeyed(p, u, m, ss, f) \in Profile
           /\ Rekeyed(p, u, m, ss, f).path = p.path
           /\ p.pwdb # NULL /\ RekeyOk(p, u, m, f) =>
                 /\ Rekeyed(p, u, m, ss, f).pwdb # NULL
                 /\ Rekeyed(p, u, m, ss, f).pwdb.text = p.pwdb.text
  <1> DEFINE cut == f.at = "rekey"
  <1>1. cut \in BOOLEAN
    OBVIOUS
  <1>2. Rekeyed(p, u, m, ss, f) = IF p.sessioned THEN Setkey(p, u, m, ss, cut, f.how) ELSE p
    BY DEF Rekeyed
  <1>3. RekeyOk(p, u, m, f) <=> (p.sessioned => SetkeyOk(p, u, m, cut, f.how))
    BY DEF RekeyOk
  <1> HIDE DEF cut
  <1>4. CASE p.sessioned
    <2>1. ss \in Secrets
      BY <1>4
    <2>2. /\ Setkey(p, u, m, ss, cut, f.how) \in Profile
          /\ Setkey(p, u, m, ss, cut, f.how).path = p.path
          /\ SetkeyOk(p, u, m, cut, f.how) =>
                /\ Setkey(p, u, m, ss, cut, f.how).pwdb # NULL
                /\ Setkey(p, u, m, ss, cut, f.how).pwdb.text = p.pwdb.text
      BY <1>1, <2>1, SetkeyType
    <2> QED
      BY <1>2, <1>3, <1>4, <2>2
  <1>5. CASE ~p.sessioned
    BY <1>2, <1>5
  <1> QED
    BY <1>4, <1>5

-----------------------------------------------------------------------------
(* What a step leaves behind *)

LEMMA KeepType ==
    ASSUME TypeOK, NEW u \in Users, NEW x \in Profile \cup {NULL}, Keep(u, x)
    PROVE  profiles' \in [Users -> Profile \cup {NULL}] /\ profiles'[u] = x
  BY DEF TypeOK, Keep

LEMMA AnswerType ==
    ASSUME NEW op \in Ops, NEW u \in Users \cup {NULL}, NEW a \in Aliases \cup {NULL},
           NEW f \in Fault, NEW err \in Errors, NEW status \in Statuses,
           NEW out \in SUBSET (Passwds \cup {NoPasswd} \cup Aliases),
           Answer(op, u, a, f, err, status, out)
    PROVE  reply' \in Reply /\ reply'.op = op /\ reply'.user = u /\ reply'.status = status
  BY DEF Answer, Reply

LEMMA WriteType ==
    ASSUME TypeOK, NEW path \in Paths, NEW c \in Cipher, NEW f, kwrite(path, c, f)
    PROVE  /\ disk' \in [Paths -> Content]
           /\ f.at # "write" => disk'[path] = c
  BY DEF TypeOK, kwrite, Content

LEMMA PowerType ==
    ASSUME TypeOK, NEW path \in Paths, NEW u \in Users, NEW a \in Aliases \cup {NULL},
           NEW f \in Fault, PowerFails(path, u, a, f)
    PROVE  TypeOK' /\ SuccessIsDurable'
  <1>1. reply' \in Reply /\ reply'.op = "crash"
    BY AnswerType DEF PowerFails, Ops, Errors, Statuses
  <1> QED
    BY <1>1 DEF TypeOK, PowerFails, Content, SuccessIsDurable

\* A step that answers an error, or is none of add, del and --init, has nothing to
\* make durable: only types are at stake.
LEMMA QuietStep ==
    ASSUME TypeOK, NEW u \in Users, NEW x \in Profile \cup {NULL}, Keep(u, x),
           NEW op \in Ops, NEW a \in Aliases \cup {NULL}, NEW f \in Fault,
           NEW err \in Errors, NEW status \in Statuses,
           NEW out \in SUBSET (Passwds \cup {NoPasswd} \cup Aliases),
           Answer(op, u, a, f, err, status, out),
           status # "kNoError" \/ op \notin {"add", "del", "init"},
           loaded' = loaded, disk' \in [Paths -> Content]
    PROVE  TypeOK' /\ SuccessIsDurable'
  BY KeepType, AnswerType DEF TypeOK, SuccessIsDurable

\* A request that is refused before anything is touched.
LEMMA RefusedStep ==
    ASSUME TypeOK, NEW op \in Ops, NEW u \in Users, NEW a \in Aliases \cup {NULL},
           NEW f \in Fault, NEW status \in Statuses, status # "kNoError",
           Answer(op, u, a, f, "0", status, {}), UNCHANGED <<profiles, loaded, disk>>
    PROVE  TypeOK' /\ SuccessIsDurable'
  <1>1. reply' \in Reply /\ reply'.status = status
    BY AnswerType DEF Errors
  <1> QED
    BY <1>1 DEF TypeOK, SuccessIsDurable

\* A step that seals the entries, writes them and keeps them under whatever key.
LEMMA DurableStep ==
    ASSUME TypeOK, NEW u \in Users, NEW x \in Profile, Keep(u, x),
           NEW op \in Ops, NEW a \in Aliases \cup {NULL}, NEW f \in Fault,
           Answer(op, u, a, f, "0", "kNoError", {}), f.at # "write",
           loaded' = loaded,
           NEW c \in Cipher, kwrite(x.path, c, f),
           c.user = u, x.pwdb # NULL, x.pwdb.text = c.text
    PROVE  TypeOK' /\ SuccessIsDurable'
  <1>1. profiles' \in [Users -> Profile \cup {NULL}] /\ profiles'[u] = x
    BY KeepType
  <1>2. reply' \in Reply /\ reply'.user = u
    BY AnswerType DEF Errors, Statuses
  <1>3. disk' \in [Paths -> Content] /\ disk'[x.path] = c
    BY WriteType DEF Profile
  <1> QED
    BY <1>1, <1>2, <1>3 DEF TypeOK, SuccessIsDurable
-----------------------------------------------------------------------------
(* The handlers *)

LEMMA AddFailsStep ==
    ASSUME TypeOK, NEW u \in Users, NEW m \in Secrets, NEW ss \in Secrets \cup {NoSecret},
           NEW a \in Aliases, NEW f \in Fault, NEW err \in Errors,
           NEW status \in Statuses, status # "kNoError",
           NEW p \in Profile, NEW bare \in BOOLEAN,
           AddFails(u, m, ss, a, f, err, status, p, bare),
           loaded' = loaded, disk' \in [Paths -> Content]
    PROVE  TypeOK' /\ SuccessIsDurable'
  <1>1. Restore(p, u, m, ss, bare, f) \in Profile
    BY RestoreType
  <1> QED
    BY <1>1, QuietStep DEF AddFails, Ops

LEMMA AddStopsStep ==
    ASSUME TypeOK, NEW u \in Users, NEW m \in Secrets, NEW ss \in Secrets \cup {NoSecret},
           NEW a \in Aliases, NEW w \in Passwds, NEW f \in Fault,
           NEW p \in Profile, NEW db \in Db,
           AddStops(u, m, ss, a, w, f, p, db), UNCHANGED <<loaded, disk>>
    PROVE  TypeOK' /\ SuccessIsDurable'
  <1> DEFINE q == [p EXCEPT !.plbuf = Bare(db)]
             n == [p EXCEPT !.plbuf = [framed |-> FALSE, db |-> Inserted(db, a, w)]]
             e == Sealed(p, u, m, Inserted(db, a, w), f)
  <1>1. Inserted(db, a, w) \in Db
    BY DbTypes
  <1>2. q \in Profile
    BY TextTypes DEF Profile
  <1>3. n \in Profile
    BY <1>1, TextTypes DEF Profile
  <1>4. e \in Profile
    BY <1>1, SealedType
  <1>5. \/ AddFails(u, m, ss, a, f, "0", "kGeneralError", p, FALSE)
        \/ AddFails(u, m, ss, a, f, "0", "kAliasAlreadyUsed", q, TRUE)
        \/ AddFails(u, m, ss, a, f, "ENOMEM", "kGeneralError", q, TRUE)
        \/ AddFails(u, m, ss, a, f, "0", "kGeneralError", q, TRUE)
        \/ AddFails(u, m, ss, a, f, "0", "kGeneralError", n, TRUE)
        \/ AddFails(u, m, ss, a, f, "0", "kGeneralError", e, FALSE)
    BY DEF AddStops
  <1>6. /\ {"0", "ENOMEM"} \subseteq Errors
        /\ {"kGeneralError", "kAliasAlreadyUsed"} \subseteq Statuses
        /\ loaded' = loaded /\ disk' \in [Paths -> Content]
    BY DEF TypeOK, Errors, Statuses
  <1> HIDE DEF q, n, e
  <1> QED
    BY <1>2, <1>3, <1>4, <1>5, <1>6, AddFailsStep

LEMMA AddWritesStep ==
    ASSUME TypeOK, NEW u \in Users, NEW m \in Secrets, NEW ss \in Secrets \cup {NoSecret},
           NEW a \in Aliases, NEW f \in Fault, NEW p \in Profile,
           f.at # "encrypt" => p.pwdb \in Cipher /\ p.pwdb.user = u,
           p.sessioned => ss # NoSecret,
           AddWrites(u, m, ss, a, f, p), UNCHANGED loaded
    PROVE  TypeOK' /\ SuccessIsDurable'
  <1>1. p.pwdb \in Cipher /\ p.pwdb.user = u /\ p.pwdb # NULL /\ kwrite(p.path, p.pwdb, f)
    BY NullAssumption DEF AddWrites
  <1>2. disk' \in [Paths -> Content]
    BY <1>1, WriteType DEF Profile
  <1>3. /\ Rekeyed(p, u, m, ss, f) \in Profile
        /\ Rekeyed(p, u, m, ss, f).path = p.path
        /\ RekeyOk(p, u, m, f) => /\ Rekeyed(p, u, m, ss, f).pwdb # NULL
                                  /\ Rekeyed(p, u, m, ss, f).pwdb.text = p.pwdb.text
    BY <1>1, RekeyedType
  <1>4. "0" \in Errors /\ {"kGeneralError", "kPWDBWritingError"} \subseteq Statuses
    BY DEF Errors, Statuses
  <1>5. CASE AddFails(u, m, ss, a, f, "0", "kPWDBWritingError", p, FALSE)
    BY <1>2, <1>4, <1>5, AddFailsStep
  <1>6. CASE AddFails(u, m, ss, a, f, "0", "kGeneralError", Rekeyed(p, u, m, ss, f), FALSE)
    BY <1>2, <1>3, <1>4, <1>6, AddFailsStep
  <1>7. CASE /\ f.at # "write" /\ RekeyOk(p, u, m, f)
             /\ Keep(u, Rekeyed(p, u, m, ss, f))
             /\ Answer("add", u, a, f, "0", "kNoError", {})
    BY <1>1, <1>3, <1>7, DurableStep DEF Ops
  <1> QED
    BY <1>5, <1>6, <1>7 DEF AddWrites

LEMMA AddStep ==
    ASSUME TypeOK, NEW u \in Users, NEW m \in Secrets, NEW ss \in Secrets \cup {NoSecret},
           NEW a \in Aliases, NEW w \in Passwds, NEW f \in Fault,
           AddPassword(u, m, ss, a, w, f)
    PROVE  TypeOK' /\ SuccessIsDurable'
  <1> DEFINE p  == profiles[u]
             x  == Open(p, u, m, ss, f).p
             st == Open(p, u, m, ss, f).status
             db == DetachedDb(x.plbuf)
             e  == Sealed(x, u, m, Inserted(db, a, w), f)
  <1>1. \/ /\ p = NULL
           /\ Answer("add", u, a, f, "0", "kProfileNotAttached", {})
           /\ UNCHANGED <<profiles, loaded, disk>>
        \/ /\ p # NULL
           /\ AddFails(u, m, ss, a, f, "EINVAL", "kInvalidParams", p, FALSE)
           /\ UNCHANGED <<loaded, disk>>
        \/ /\ Ready(p, ss) /\ st # "kNoError"
           /\ AddFails(u, m, ss, a, f, "0", st, x, FALSE)
           /\ UNCHANGED <<loaded, disk>>
        \/ /\ Ready(p, ss) /\ st = "kNoError"
           /\ AddStops(u, m, ss, a, w, f, x, db)
           /\ UNCHANGED <<loaded, disk>>
        \/ /\ Ready(p, ss) /\ st = "kNoError"
           /\ AddWrites(u, m, ss, a, f, e)
           /\ UNCHANGED loaded
        \/ Ready(p, ss) /\ PowerFails(p.path, u, a, f)
    BY ZenonT(60) DEF AddPassword
  <1>2. disk \in [Paths -> Content] /\ p \in Profile \cup {NULL}
    BY DEF TypeOK
  <1>3. Ready(p, ss) => p # NULL /\ (p.sessioned => ss # NoSecret)
    BY Zenon DEF Ready
  <1> HIDE DEF p
  <1>4. p # NULL => /\ p \in Profile /\ p.path \in Paths
                    /\ x \in Profile /\ x.sessioned = p.sessioned
                    /\ st \in Statuses
                    /\ st = "kNoError" => x.plbuf \in Text
    <2> SUFFICES ASSUME p # NULL
                 PROVE  /\ p \in Profile /\ p.path \in Paths
                        /\ x \in Profile /\ x.sessioned = p.sessioned
                        /\ st \in Statuses
                        /\ st = "kNoError" => x.plbuf \in Text
      OBVIOUS
    <2>1. p \in Profile /\ p.path \in Paths
      BY <1>2 DEF Profile
    <2> QED
      BY <2>1, OpenType
  <1> HIDE DEF x, st
  <1>5. p # NULL /\ st = "kNoError" => db \in Db
    BY <1>4, DetachedType
  <1> HIDE DEF db
  <1>6. p # NULL /\ st = "kNoError" =>
           /\ e \in Profile /\ e.sessioned = p.sessioned
           /\ f.at # "encrypt" => e.pwdb \in Cipher /\ e.pwdb.user = u
    <2> SUFFICES ASSUME p # NULL, st = "kNoError"
                 PROVE  /\ e \in Profile /\ e.sessioned = p.sessioned
                        /\ f.at # "encrypt" => e.pwdb \in Cipher /\ e.pwdb.user = u
      OBVIOUS
    <2>1. Inserted(db, a, w) \in Db
      BY <1>5, DbTypes
    <2> QED
      BY <1>4, <2>1, SealedType
  <1> HIDE DEF e
  <1>7. "0" \in Errors /\ "EINVAL" \in Errors /\ "kInvalidParams" \in Statuses
    BY DEF Errors, Statuses
  <1>8. CASE /\ p = NULL
             /\ Answer("add", u, a, f, "0", "kProfileNotAttached", {})
             /\ UNCHANGED <<profiles, loaded, disk>>
    BY <1>8, RefusedStep DEF Ops, Statuses
  <1>9. CASE /\ p # NULL
             /\ AddFails(u, m, ss, a, f, "EINVAL", "kInvalidParams", p, FALSE)
             /\ UNCHANGED <<loaded, disk>>
    BY <1>2, <1>4, <1>7, <1>9, AddFailsStep
  <1>10. CASE /\ Ready(p, ss) /\ st # "kNoError"
              /\ AddFails(u, m, ss, a, f, "0", st, x, FALSE)
              /\ UNCHANGED <<loaded, disk>>
    BY <1>2, <1>3, <1>4, <1>7, <1>10, AddFailsStep
  <1>11. CASE /\ Ready(p, ss) /\ st = "kNoError"
              /\ AddStops(u, m, ss, a, w, f, x, db)
              /\ UNCHANGED <<loaded, disk>>
    BY <1>3, <1>4, <1>5, <1>11, AddStopsStep
  <1>12. CASE /\ Ready(p, ss) /\ st = "kNoError"
              /\ AddWrites(u, m, ss, a, f, e)
              /\ UNCHANGED loaded
    BY <1>3, <1>6, <1>12, AddWritesStep
  <1>13. CASE Ready(p, ss) /\ PowerFails(p.path, u, a, f)
    BY <1>3, <1>4, <1>13, PowerType
  <1> QED
    BY <1>1, <1>8, <1>9, <1>10, <1>11, <1>12, <1>13

LEMMA DelFailsStep ==
    ASSUME TypeOK, NEW u \in Users, NEW a \in Aliases, NEW f \in Fault, NEW err \in Errors,
           NEW status \in Statuses, status # "kNoError", NEW p \in Profile,
           DelFails(u, a, f, err, status, p),
           loaded' = loaded, disk' \in [Paths -> Content]
    PROVE  TypeOK' /\ SuccessIsDurable'
  <1>1. Dropped(p) \in Profile
    BY DroppedType
  <1> QED
    BY <1>1, QuietStep DEF DelFails, Ops

LEMMA DelFindsNoneStep ==
    ASSUME TypeOK, NEW u \in Users, NEW m \in Secrets, NEW a \in Aliases, NEW f \in Fault,
           NEW p \in Profile, p.plbuf \in Text, NEW db,
           DelFindsNone(u, m, a, f, p, db), UNCHANGED <<loaded, disk>>
    PROVE  TypeOK' /\ SuccessIsDurable'
  <1> DEFINE lost == "reencrypt" \in f.also
             e == Encrypt(p, u, m, lost, f.how)
  <1>1. \/ DelFails(u, a, f, "0", "kGeneralError", e)
        \/ DelFails(u, a, f, "0", "kAliasNotFound", p)
    BY DEF DelFindsNone
  <1>2. lost \in BOOLEAN /\ p.plbuf # NULL
    BY NullAssumption
  <1>3. /\ "0" \in Errors /\ {"kGeneralError", "kAliasNotFound"} \subseteq Statuses
        /\ loaded' = loaded /\ disk' \in [Paths -> Content]
    BY DEF TypeOK, Errors, Statuses
  <1> HIDE DEF lost
  <1>4. e \in Profile
    BY <1>2, EncryptType
  <1> HIDE DEF e
  <1> QED
    BY <1>1, <1>3, <1>4, DelFailsStep

LEMMA DelStopsStep ==
    ASSUME TypeOK, NEW u \in Users, NEW m \in Secrets, NEW a \in Aliases, NEW f \in Fault,
           NEW p \in Profile, NEW left \in Db,
           DelStops(u, m, a, f, p, left), UNCHANGED <<loaded, disk>>
    PROVE  TypeOK' /\ SuccessIsDurable'
  <1> DEFINE e == Sealed(p, u, m, left, f)
  <1>1. \/ DelFails(u, a, f, "0", "kGeneralError", p)
        \/ DelFails(u, a, f, "EFAULT", "kPWDBWritingError", p)
        \/ DelFails(u, a, f, "EFAULT", "kGeneralError", p)
        \/ DelFails(u, a, f, "0", "kGeneralError", e)
    BY DEF DelStops
  <1>2. e \in Profile
    BY SealedType
  <1>3. /\ {"0", "EFAULT"} \subseteq Errors
        /\ {"kGeneralError", "kPWDBWritingError"} \subseteq Statuses
        /\ loaded' = loaded /\ disk' \in [Paths -> Content]
    BY DEF TypeOK, Errors, Statuses
  <1> HIDE DEF e
  <1> QED
    BY <1>1, <1>2, <1>3, DelFailsStep

LEMMA DelWritesStep ==
    ASSUME TypeOK, NEW u \in Users, NEW m \in Secrets, NEW ss \in Secrets \cup {NoSecret},
           NEW a \in Aliases, NEW f \in Fault, NEW p \in Profile,
           f.at # "encrypt" => p.pwdb \in Cipher /\ p.pwdb.user = u,
           p.sessioned => ss # NoSecret,
           DelWrites(u, m, ss, a, f, p), UNCHANGED loaded
    PROVE  TypeOK' /\ SuccessIsDurable'
  <1>1. p.pwdb \in Cipher /\ p.pwdb.user = u /\ p.pwdb # NULL /\ kwrite(p.path, p.pwdb, f)
    BY NullAssumption DEF DelWrites
  <1>2. disk' \in [Paths -> Content]
    BY <1>1, WriteType DEF Profile
  <1>3. /\ Rekeyed(p, u, m, ss, f) \in Profile
        /\ Rekeyed(p, u, m, ss, f).path = p.path
        /\ RekeyOk(p, u, m, f) => /\ Rekeyed(p, u, m, ss, f).pwdb # NULL
                                  /\ Rekeyed(p, u, m, ss, f).pwdb.text = p.pwdb.text
    BY <1>1, RekeyedType
  <1>4. "0" \in Errors /\ {"kAuthenticationFailure", "kPWDBWritingError"} \subseteq Statuses
    BY DEF Errors, Statuses
  <1>5. CASE DelFails(u, a, f, "0", "kPWDBWritingError", p)
    BY <1>2, <1>4, <1>5, DelFailsStep
  <1>6. CASE DelFails(u, a, f, "0", "kAuthenticationFailure", Rekeyed(p, u, m, ss, f))
    BY <1>2, <1>3, <1>4, <1>6, DelFailsStep
  <1>7. CASE /\ f.at # "write" /\ RekeyOk(p, u, m, f)
             /\ Keep(u, Rekeyed(p, u, m, ss, f))
             /\ Answer("del", u, a, f, "0", "kNoError", {})
    BY <1>1, <1>3, <1>7, DurableStep DEF Ops
  <1> QED
    BY <1>5, <1>6, <1>7 DEF DelWrites

LEMMA DelStep ==
    ASSUME TypeOK, NEW u \in Users, NEW m \in Secrets, NEW ss \in Secrets \cup {NoSecret},
           NEW a \in Aliases, NEW f \in Fault,
           DelPassword(u, m, ss, a, f)
    PROVE  TypeOK' /\ SuccessIsDurable'
  <1> DEFINE p  == profiles[u]
             x  == Open(p, u, m, ss, f).p
             st == Open(p, u, m, ss, f).status
             db == DetachedDb(x.plbuf)
             e(b) == Sealed(x, u, m, Removed(db, b), f)
  <1>1. \/ /\ p = NULL
           /\ Answer("del", u, a, f, "0", "kProfileNotAttached", {})
           /\ UNCHANGED <<profiles, loaded, disk>>
        \/ /\ p # NULL
           /\ DelFails(u, a, f, "0", "kInvalidParams", p)
           /\ UNCHANGED <<loaded, disk>>
        \/ /\ Ready(p, ss) /\ st # "kNoError"
           /\ DelFails(u, a, f, "0", st, x)
           /\ UNCHANGED <<loaded, disk>>
        \/ /\ Ready(p, ss) /\ st = "kNoError"
           /\ DelFindsNone(u, m, a, f, x, db)
           /\ UNCHANGED <<loaded, disk>>
        \/ /\ Ready(p, ss) /\ st = "kNoError"
           /\ \E b \in findalias(db, a) : DelStops(u, m, a, f, x, Removed(db, b))
           /\ UNCHANGED <<loaded, disk>>
        \/ /\ Ready(p, ss) /\ st = "kNoError"
           /\ \E b \in findalias(db, a) : DelWrites(u, m, ss, a, f, e(b))
           /\ UNCHANGED loaded
        \/ Ready(p, ss) /\ PowerFails(p.path, u, a, f)
    BY ZenonT(60) DEF DelPassword
  <1>2. disk \in [Paths -> Content] /\ p \in Profile \cup {NULL}
    BY DEF TypeOK
  <1>3. Ready(p, ss) => p # NULL /\ (p.sessioned => ss # NoSecret)
    BY Zenon DEF Ready
  <1> HIDE DEF p
  <1>4. p # NULL => /\ p \in Profile /\ p.path \in Paths
                    /\ x \in Profile /\ x.sessioned = p.sessioned
                    /\ st \in Statuses
                    /\ st = "kNoError" => x.plbuf \in Text
    <2> SUFFICES ASSUME p # NULL
                 PROVE  /\ p \in Profile /\ p.path \in Paths
                        /\ x \in Profile /\ x.sessioned = p.sessioned
                        /\ st \in Statuses
                        /\ st = "kNoError" => x.plbuf \in Text
      OBVIOUS
    <2>1. p \in Profile /\ p.path \in Paths
      BY <1>2 DEF Profile
    <2> QED
      BY <2>1, OpenType
  <1> HIDE DEF x, st
  <1>5. p # NULL /\ st = "kNoError" => db \in Db
    BY <1>4, DetachedType
  <1> HIDE DEF db
  <1>6. ASSUME p # NULL, st = "kNoError", NEW b \in findalias(db, a)
        PROVE  /\ Removed(db, b) \in Db
               /\ e(b) \in Profile /\ e(b).sessioned = p.sessioned
               /\ f.at # "encrypt" => e(b).pwdb \in Cipher /\ e(b).pwdb.user = u
    <2>1. Removed(db, b) \in Db
      BY <1>5, <1>6, DbTypes
    <2> QED
      BY <1>4, <1>6, <2>1, SealedType
  <1> HIDE DEF e
  <1>7. "0" \in Errors /\ "kInvalidParams" \in Statuses
    BY DEF Errors, Statuses
  <1>8. CASE /\ p = NULL
             /\ Answer("del", u, a, f, "0", "kProfileNotAttached", {})
             /\ UNCHANGED <<profiles, loaded, disk>>
    BY <1>8, RefusedStep DEF Ops, Statuses
  <1>9. CASE /\ p # NULL
             /\ DelFails(u, a, f, "0", "kInvalidParams", p)
             /\ UNCHANGED <<loaded, disk>>
    BY <1>2, <1>4, <1>7, <1>9, DelFailsStep
  <1>10. CASE /\ Ready(p, ss) /\ st # "kNoError"
              /\ DelFails(u, a, f, "0", st, x)
              /\ UNCHANGED <<loaded, disk>>
    BY <1>2, <1>3, <1>4, <1>7, <1>10, DelFailsStep
  <1>11. CASE /\ Ready(p, ss) /\ st = "kNoError"
              /\ DelFindsNone(u, m, a, f, x, db)
              /\ UNCHANGED <<loaded, disk>>
    BY <1>3, <1>4, <1>11, DelFindsNoneStep
  <1>12. CASE /\ Ready(p, ss) /\ st = "kNoError"
              /\ \E b \in findalias(db, a) : DelStops(u, m, a, f, x, Removed(db, b))
              /\ UNCHANGED <<loaded, disk>>
    <2>1. PICK b \in findalias(db, a) : DelStops(u, m, a, f, x, Removed(db, b))
      BY <1>12
    <2>2. Removed(db, b) \in Db /\ x \in Profile
      BY <1>3, <1>4, <1>6, <1>12
    <2> QED
      BY <1>12, <2>1, <2>2, DelStopsStep
  <1>13. CASE /\ Ready(p, ss) /\ st = "kNoError"
              /\ \E b \in findalias(db, a) : DelWrites(u, m, ss, a, f, e(b))
              /\ UNCHANGED loaded
    <2>1. PICK b \in findalias(db, a) : DelWrites(u, m, ss, a, f, e(b))
      BY <1>13
    <2>2. /\ e(b) \in Profile
          /\ e(b).sessioned => ss # NoSecret
          /\ f.at # "encrypt" => e(b).pwdb \in Cipher /\ e(b).pwdb.user = u
      BY <1>3, <1>6, <1>13
    <2> QED
      BY <1>13, <2>1, <2>2, DelWritesStep
  <1>14. CASE Ready(p, ss) /\ PowerFails(p.path, u, a, f)
    BY <1>3, <1>4, <1>14, PowerType
  <1> QED
    BY <1>1, <1>8, <1>9, <1>10, <1>11, <1>12, <1>13, <1>14

\* A decryption that may fail, as the other handlers begin.
LEMMA OpenedType ==
    ASSUME NEW p \in Profile, NEW u \in Users, NEW s \in Secrets, NEW f \in Fault
    PROVE  /\ Decrypt(p, u, s, f.at = "decrypt") \in Profile
           /\ DecryptOk(p, u, s, f.at = "decrypt") =>
                /\ Decrypt(p, u, s, f.at = "decrypt").plbuf \in Text
                /\ DetachedDb(Decrypt(p, u, s, f.at = "decrypt").plbuf) \in Db
  <1> DEFINE cut == f.at = "decrypt"
  <1>1. cut \in BOOLEAN
    OBVIOUS
  <1> HIDE DEF cut
  <1>2. /\ Decrypt(p, u, s, cut) \in Profile
        /\ DecryptOk(p, u, s, cut) => Decrypt(p, u, s, cut).plbuf \in Text
    BY <1>1, DecryptType
  <1>3. DecryptOk(p, u, s, cut) => DetachedDb(Decrypt(p, u, s, cut).plbuf) \in Db
    BY <1>2, DetachedType
  <1> QED
    BY <1>2, <1>3 DEF cut

LEMMA GetStep ==
    ASSUME TypeOK, NEW u \in Users, NEW s \in Secrets, NEW a \in Aliases, NEW f \in Fault,
           GetPassword(u, s, a, f)
    PROVE  TypeOK' /\ SuccessIsDurable'
  <1> DEFINE p    == profiles[u]
             ok   == DecryptOk(p, u, s, f.at = "decrypt")
             d    == Decrypt(p, u, s, f.at = "decrypt")
             db   == DetachedDb(d.plbuf)
             lost == "reencrypt" \in f.also
             e    == Encrypt(d, u, s, lost, f.how)
             r    == Reseal(d, u, s, db, f)
             Ans(status, out, x) == Keep(u, x) /\ Answer("get", u, a, f, "0", status, out)
  <1>1. /\ UNCHANGED <<loaded, disk>>
        /\ \/ p = NULL /\ Ans("kProfileNotAttached", {}, p)
           \/ p # NULL /\ Ans("kAuthenticationFailure", {}, d)
           \/ p # NULL /\ ok /\ Ans("kGeneralError", {}, e)
           \/ p # NULL /\ ok /\ Ans("kAliasNotFound", {}, r)
           \/ p # NULL /\ ok /\ \E b \in findalias(db, a) : Ans("kNoError", {db[b]}, r)
    BY ZenonT(60) DEF GetPassword
  <1>2. /\ p \in Profile \cup {NULL}
        /\ loaded' = loaded /\ disk' \in [Paths -> Content]
    BY <1>1 DEF TypeOK
  <1> HIDE DEF p
  <1>3. p # NULL => d \in Profile /\ (ok => d.plbuf \in Text /\ db \in Db)
    BY <1>2, OpenedType
  <1>4. lost \in BOOLEAN
    OBVIOUS
  <1> HIDE DEF d, ok, db, lost
  <1>5. p # NULL /\ ok => e \in Profile
    BY <1>3, <1>4, EncryptType, NullAssumption
  <1>6. p # NULL /\ ok => r \in Profile
    BY <1>3, ResealType
  <1> HIDE DEF e, r
  <1>7. ASSUME NEW status \in Statuses, NEW out \in SUBSET (Passwds \cup {NoPasswd} \cup Aliases),
               NEW x \in Profile \cup {NULL}, Ans(status, out, x)
        PROVE  TypeOK' /\ SuccessIsDurable'
    BY <1>2, <1>7, QuietStep DEF Ops, Errors
  <1>8. {"kProfileNotAttached", "kAuthenticationFailure", "kGeneralError", "kAliasNotFound",
         "kNoError"} \subseteq Statuses
    BY DEF Statuses
  <1>9. ASSUME p # NULL, ok, NEW b \in findalias(db, a)
        PROVE  {db[b]} \in SUBSET (Passwds \cup {NoPasswd} \cup Aliases)
    BY <1>3, <1>9 DEF findalias, Stored, Db
  <1> HIDE DEF Ans
  <1> QED
    BY <1>1, <1>2, <1>3, <1>5, <1>6, <1>7, <1>8, <1>9

LEMMA AliasesStep ==
    ASSUME TypeOK, NEW u \in Users, NEW s \in Secrets, NEW f \in Fault,
           ListAliases(u, s, f)
    PROVE  TypeOK' /\ SuccessIsDurable'
  <1> DEFINE p    == profiles[u]
             ok   == DecryptOk(p, u, s, f.at = "decrypt")
             d    == Decrypt(p, u, s, f.at = "decrypt")
             db   == DetachedDb(d.plbuf)
             lost == "reencrypt" \in f.also
             e    == Encrypt(d, u, s, lost, f.how)
             r    == Reseal(d, u, s, db, f)
             Ans(status, out, x) == Keep(u, x) /\ Answer("aliases", u, NULL, f, "0", status, out)
  <1>1. /\ UNCHANGED <<loaded, disk>>
        /\ \/ p = NULL /\ Ans("kProfileNotAttached", {}, p)
           \/ p # NULL /\ Ans("kAuthenticationFailure", {}, d)
           \/ p # NULL /\ ok /\ Ans("kGeneralError", {}, e)
           \/ p # NULL /\ ok /\ Ans("kGeneralError", {}, r)
           \/ p # NULL /\ ok /\ Ans("kNoError", {}, r)
           \/ p # NULL /\ ok /\ Ans("kNoError", Stored(db), r)
    BY ZenonT(60) DEF ListAliases
  <1>2. /\ p \in Profile \cup {NULL}
        /\ loaded' = loaded /\ disk' \in [Paths -> Content]
    BY <1>1 DEF TypeOK
  <1> HIDE DEF p
  <1>3. p # NULL => d \in Profile /\ (ok => d.plbuf \in Text /\ db \in Db)
    BY <1>2, OpenedType
  <1>4. lost \in BOOLEAN
    OBVIOUS
  <1> HIDE DEF d, ok, db, lost
  <1>5. p # NULL /\ ok => e \in Profile
    BY <1>3, <1>4, EncryptType, NullAssumption
  <1>6. p # NULL /\ ok => r \in Profile
    BY <1>3, ResealType
  <1> HIDE DEF e, r
  <1>7. ASSUME NEW status \in Statuses, NEW out \in SUBSET (Passwds \cup {NoPasswd} \cup Aliases),
               NEW x \in Profile \cup {NULL}, Ans(status, out, x)
        PROVE  TypeOK' /\ SuccessIsDurable'
    BY <1>2, <1>7, QuietStep DEF Ops, Errors
  <1>8. {"kProfileNotAttached", "kAuthenticationFailure", "kGeneralError", "kNoError"}
          \subseteq Statuses
    BY DEF Statuses
  <1>9. /\ {} \in SUBSET (Passwds \cup {NoPasswd} \cup Aliases)
        /\ Stored(db) \in SUBSET (Passwds \cup {NoPasswd} \cup Aliases)
    BY DEF Stored
  <1> HIDE DEF Ans
  <1> QED
    BY <1>1, <1>2, <1>3, <1>5, <1>6, <1>7, <1>8, <1>9

LEMMA StartSessionStep ==
    ASSUME TypeOK, NEW op \in {"attach", "init"}, NEW u \in Users, NEW p \in Profile,
           NEW m \in Secrets, NEW ss \in Secrets \cup {NoSecret}, NEW f \in Fault,
           StartSession(op, u, p, m, ss, f), loaded' = loaded, disk' \in [Paths -> Content],
           op = "init" => /\ p.pwdb \in Cipher /\ p.pwdb.user = u
                          /\ disk'[p.path] = p.pwdb
    PROVE  TypeOK' /\ SuccessIsDurable'
  <1> DEFINE cut == f.at = "rekey"
             k == Setkey(p, u, m, ss, cut, f.how)
             ok == SetkeyOk(p, u, m, cut, f.how)
             s == [k EXCEPT !.sessioned = TRUE]
             Ans(x, status) == Keep(u, x) /\ Answer(op, u, NULL, f, "0", status, {})
  <1>1. \/ Ans(p, "kNoError")
        \/ ss # NoSecret /\ ok /\ Ans(s, "kNoError")
        \/ ss # NoSecret /\ Ans(k, "kAuthenticationFailure")
    BY DEF StartSession
  <1>2. cut \in BOOLEAN
    OBVIOUS
  <1> HIDE DEF cut
  <1>3. ss # NoSecret =>
           /\ k \in Profile /\ k.path = p.path
           /\ ok => k.pwdb # NULL /\ k.pwdb.text = p.pwdb.text
    BY <1>2, SetkeyType
  <1> HIDE DEF k, ok
  <1>4. ss # NoSecret /\ ok =>
           s \in Profile /\ s.path = p.path /\ s.pwdb # NULL /\ s.pwdb.text = p.pwdb.text
    BY <1>3 DEF Profile
  <1> HIDE DEF s
  <1>5. ASSUME NEW x \in Profile, x.path = p.path, Ans(x, "kNoError"),
               op = "init" => x.pwdb # NULL /\ x.pwdb.text = p.pwdb.text
        PROVE  TypeOK' /\ SuccessIsDurable'
    <2>1. profiles' \in [Users -> Profile \cup {NULL}] /\ profiles'[u] = x
      BY <1>5, KeepType
    <2>2. reply' \in Reply /\ reply'.op = op /\ reply'.user = u
      BY <1>5, AnswerType DEF Ops, Errors, Statuses
    <2> QED
      BY <1>5, <2>1, <2>2 DEF TypeOK, SuccessIsDurable
  <1>6. CASE Ans(p, "kNoError")
    BY <1>5, <1>6, NullAssumption
  <1>7. CASE ss # NoSecret /\ ok /\ Ans(s, "kNoError")
    BY <1>4, <1>5, <1>7
  <1>8. CASE ss # NoSecret /\ Ans(k, "kAuthenticationFailure")
    <2>1. /\ "kAuthenticationFailure" \in Statuses /\ "0" \in Errors /\ op \in Ops
          /\ {} \in SUBSET (Passwds \cup {NoPasswd} \cup Aliases)
      BY DEF Ops, Errors, Statuses
    <2> QED
      BY <1>3, <1>8, <2>1, QuietStep
  <1> QED
    BY <1>1, <1>6, <1>7, <1>8

LEMMA AttachStep ==
    ASSUME TypeOK, NEW u \in Users, NEW path \in Paths, NEW m \in Secrets,
           NEW ss \in Secrets \cup {NoSecret}, NEW f \in Fault,
           Attach(u, path, m, ss, f)
    PROVE  TypeOK' /\ SuccessIsDurable'
  <1> DEFINE p == NewProfile(path, ReadPwdb(path))
             Refuse(status) == /\ Answer("attach", u, NULL, f, "0", status, {})
                               /\ UNCHANGED profiles
  <1>1. /\ UNCHANGED <<loaded, disk>>
        /\ \/ \E status \in {"kProfilePreviouslyAttached", "kPWDBReadingError", "kGeneralError",
                             "kAuthenticationFailure"} : Refuse(status)
           \/ Readable(path) /\ StartSession("attach", u, p, m, ss, f)
    BY ZenonT(60) DEF Attach
  <1>2. CASE \E status \in {"kProfilePreviouslyAttached", "kPWDBReadingError", "kGeneralError",
                            "kAuthenticationFailure"} : Refuse(status)
    BY <1>1, <1>2, RefusedStep DEF Ops, Statuses
  <1>3. CASE Readable(path) /\ StartSession("attach", u, p, m, ss, f)
    <2>1. p \in Profile
      BY <1>3, ReadType DEF NewProfile, Profile
    <2>2. loaded' = loaded /\ disk' \in [Paths -> Content]
      BY <1>1 DEF TypeOK
    <2> HIDE DEF p
    <2> QED
      BY <1>3, <2>1, <2>2, StartSessionStep
  <1> QED
    BY <1>1, <1>2, <1>3

LEMMA InitAttachStep ==
    ASSUME TypeOK, NEW u \in Users, NEW path \in Paths, NEW m \in Secrets,
           NEW ss \in Secrets \cup {NoSecret}, NEW f \in Fault,
           InitAttach(u, path, m, ss, f)
    PROVE  TypeOK' /\ SuccessIsDurable'
  <1> DEFINE cut == f.at = "encrypt"
             p == [NewProfile(path, NULL) EXCEPT !.plbuf = Framed(StubDb)]
             e == Encrypt(p, u, m, cut, f.how)
             Stay(status, x) == Keep(u, x) /\ Answer("init", u, NULL, f, "0", status, {})
  <1>1. \/ /\ \/ Stay("kProfilePreviouslyAttached", profiles[u])
              \/ Stay("kGeneralError", NULL)
              \/ Stay("kPWDBWritingError", Dropped(p))
              \/ Stay("kGeneralError", Dropped(p))
              \/ Stay("kPWDBWritingError", e)
           /\ UNCHANGED <<loaded, disk>>
        \/ /\ f.at \in {"none", "write", "rekey"} /\ kwrite(path, e.pwdb, f)
           /\ \/ Stay("kPWDBWritingError", e)
              \/ f.at # "write" /\ StartSession("init", u, e, m, ss, f)
           /\ UNCHANGED loaded
        \/ PowerFails(path, u, NULL, f)
    BY ZenonT(60) DEF InitAttach
  <1>2. p \in Profile /\ p.path = path /\ p.plbuf # NULL
    BY StubDbType, TextTypes, NullAssumption DEF NewProfile, Profile
  <1>3. cut \in BOOLEAN /\ (f.at # "encrypt" <=> ~cut)
    OBVIOUS
  <1> HIDE DEF p, cut
  <1>4. /\ e \in Profile /\ e.path = path
        /\ f.at # "encrypt" => e.pwdb \in Cipher /\ e.pwdb.user = u
    BY <1>2, <1>3, EncryptType
  <1> HIDE DEF e
  <1>5. ASSUME NEW status \in {"kProfilePreviouslyAttached", "kGeneralError", "kPWDBWritingError"},
               NEW x \in Profile \cup {NULL}, Stay(status, x),
               loaded' = loaded, disk' \in [Paths -> Content]
        PROVE  TypeOK' /\ SuccessIsDurable'
    <2>1. status \in Statuses /\ "0" \in Errors /\ "init" \in Ops /\ status # "kNoError"
      BY DEF Ops, Errors, Statuses
    <2>2. NULL \in Aliases \cup {NULL} /\ {} \in SUBSET (Passwds \cup {NoPasswd} \cup Aliases)
      OBVIOUS
    <2> QED
      BY <1>5, <2>1, <2>2, QuietStep
  <1> HIDE DEF Stay
  <1>6. CASE /\ \/ Stay("kProfilePreviouslyAttached", profiles[u])
                \/ Stay("kGeneralError", NULL)
                \/ Stay("kPWDBWritingError", Dropped(p))
                \/ Stay("kGeneralError", Dropped(p))
                \/ Stay("kPWDBWritingError", e)
             /\ UNCHANGED <<loaded, disk>>
    <2>1. /\ profiles[u] \in Profile \cup {NULL}
          /\ loaded' = loaded /\ disk' \in [Paths -> Content]
      BY <1>6 DEF TypeOK
    <2>2. Dropped(p) \in Profile
      BY <1>2, DroppedType
    <2> QED
      BY <1>4, <1>5, <1>6, <2>1, <2>2
  <1>7. CASE /\ f.at \in {"none", "write", "rekey"} /\ kwrite(path, e.pwdb, f)
             /\ \/ Stay("kPWDBWritingError", e)
                \/ f.at # "write" /\ StartSession("init", u, e, m, ss, f)
             /\ UNCHANGED loaded
    <2>1. e.pwdb \in Cipher /\ e.pwdb.user = u
      BY <1>4, <1>7
    <2>2. /\ disk' \in [Paths -> Content]
          /\ f.at # "write" => disk'[path] = e.pwdb
      BY <1>7, <2>1, WriteType
    <2>3. CASE Stay("kPWDBWritingError", e)
      BY <1>4, <1>5, <1>7, <2>2, <2>3
    <2>4. CASE f.at # "write" /\ StartSession("init", u, e, m, ss, f)
      BY <1>4, <1>7, <2>1, <2>2, <2>4, StartSessionStep
    <2> QED
      BY <1>7, <2>3, <2>4
  <1>8. CASE PowerFails(path, u, NULL, f)
    BY <1>8, PowerType
  <1> QED
    BY <1>1, <1>6, <1>7, <1>8

LEMMA DetachStep ==
    ASSUME TypeOK, NEW u \in Users, NEW s \in Secrets, NEW f \in Fault,
           Detach(u, s, f)
    PROVE  TypeOK' /\ SuccessIsDurable'
  <1> DEFINE p == profiles[u]
             d == Decrypt(p, u, s, f.at = "decrypt")
             Ans(status, x) == Keep(u, x) /\ Answer("detach", u, NULL, f, "0", status, {})
  <1>1. /\ UNCHANGED <<loaded, disk>>
        /\ \/ Ans("kProfileNotAttached", p)
           \/ p # NULL /\ Ans("kAuthenticationFailure", d)
           \/ Ans("kNoError", NULL)
    BY ZenonT(60) DEF Detach
  <1>2. /\ p \in Profile \cup {NULL}
        /\ loaded' = loaded /\ disk' \in [Paths -> Content]
    BY <1>1 DEF TypeOK
  <1> HIDE DEF p
  <1>3. p # NULL => d \in Profile
    BY <1>2, OpenedType
  <1> HIDE DEF d
  <1>4. ASSUME NEW status \in {"kProfileNotAttached", "kAuthenticationFailure", "kNoError"},
               NEW x \in Profile \cup {NULL}, Ans(status, x)
        PROVE  TypeOK' /\ SuccessIsDurable'
    <2>1. status \in Statuses /\ "0" \in Errors /\ "detach" \in Ops
      BY DEF Ops, Errors, Statuses
    <2>2. NULL \in Aliases \cup {NULL} /\ {} \in SUBSET (Passwds \cup {NoPasswd} \cup Aliases)
      OBVIOUS
    <2> QED
      BY <1>2, <1>4, <2>1, <2>2, QuietStep
  <1> HIDE DEF Ans
  <1> QED
    BY <1>1, <1>2, <1>3, <1>4

LEMMA BootStep ==
    ASSUME TypeOK, NEW op \in {"load", "unload", "crash"}, NEW on \in BOOLEAN, Boot(op, on)
    PROVE  TypeOK' /\ SuccessIsDurable'
  <1>1. NoFault \in Fault
    BY DEF NoFault, Fault, Calls, Manners
  <1>2. reply' \in Reply /\ reply'.op = op
    <2>1. op \in Ops /\ "0" \in Errors /\ "kNoError" \in Statuses
          /\ {} \in SUBSET (Passwds \cup {NoPasswd} \cup Aliases)
      BY DEF Ops, Errors, Statuses
    <2> QED
      BY <1>1, <2>1, AnswerType DEF Boot
  <1> QED
    BY <1>2 DEF TypeOK, Boot, SuccessIsDurable
-----------------------------------------------------------------------------
(* The specification *)

LEMMA InitSafe == Init => TypeOK /\ SuccessIsDurable
  <1> SUFFICES ASSUME Init PROVE TypeOK /\ SuccessIsDurable
    OBVIOUS
  <1>1. NoFault \in Fault
    BY DEF NoFault, Fault, Calls, Manners
  <1>2. reply \in Reply /\ reply.op = "none"
    BY <1>1 DEF Init, Reply, Ops, Errors, Statuses
  <1>3. profiles \in [Users -> Profile \cup {NULL}] /\ disk \in [Paths -> Content]
    BY DEF Init, Content
  <1> QED
    BY <1>2, <1>3 DEF Init, TypeOK, SuccessIsDurable

LEMMA IoctlStep ==
    ASSUME TypeOK, NEW u \in Users, NEW f \in Faults, Ioctl(u, f)
    PROVE  TypeOK' /\ SuccessIsDurable'
  <1>1. f \in Fault /\ PathsOf[u] \subseteq Paths
    BY ConstantsAssumption
  <1>2. PICK m \in Secrets :
           \/ \E path \in PathsOf[u], ss \in Secrets \cup {NoSecret} :
                 Attach(u, path, m, ss, f) \/ InitAttach(u, path, m, ss, f)
           \/ Detach(u, m, f)
           \/ ListAliases(u, m, f)
           \/ \E a \in Aliases : GetPassword(u, m, a, f)
           \/ \E a \in Aliases, ss \in Secrets \cup {NoSecret} :
                 \/ DelPassword(u, m, ss, a, f)
                 \/ \E w \in Passwds : AddPassword(u, m, ss, a, w, f)
    BY DEF Ioctl
  <1> QED
    BY <1>1, <1>2, AttachStep, InitAttachStep, DetachStep, AliasesStep, GetStep, DelStep, AddStep

LEMMA StepSafe == TypeOK /\ [Next]_vars => TypeOK' /\ (SuccessIsDurable' \/ UNCHANGED vars)
  <1> SUFFICES ASSUME TypeOK, [Next]_vars
               PROVE  TypeOK' /\ (SuccessIsDurable' \/ UNCHANGED vars)
    OBVIOUS
  <1>1. CASE Load
    BY <1>1, BootStep DEF Load
  <1>2. CASE Unload
    BY <1>2, BootStep DEF Unload
  <1>3. CASE Crash
    BY <1>3, BootStep DEF Crash
  <1>4. CASE \E u \in Users, f \in Faults : Ioctl(u, f)
    BY <1>4, IoctlStep
  <1>5. CASE UNCHANGED vars
    BY <1>5 DEF vars, TypeOK
  <1> QED
    BY <1>1, <1>2, <1>3, <1>4, <1>5 DEF Next

\* Whatever the requests, passwords, files and failures, the state of the driver is
\* well typed: in particular no handler of actions.c keeps a text that is not one of
\* the database's, or answers with a status that io.h does not name.
THEOREM DeviceTypeCorrect == Spec => []TypeOK
  <1>1. Init => TypeOK
    BY InitSafe
  <1>2. TypeOK /\ [Next]_vars => TypeOK'
    BY StepSafe
  <1> QED
    BY <1>1, <1>2, PTL DEF Spec

\* A kNoError of add, del or --init means that the file has, for that user, what the
\* attached profile has in memory, for any number of users (who may even share a file)
\* and whichever calls of this or of earlier handlers have failed.
THEOREM DeviceDurable == Spec => []SuccessIsDurable
  <1>1. Init => TypeOK /\ SuccessIsDurable
    BY InitSafe
  <1>2. TypeOK /\ SuccessIsDurable /\ [Next]_vars => TypeOK' /\ SuccessIsDurable'
    <2>1. UNCHANGED vars => (SuccessIsDurable => SuccessIsDurable')
      BY DEF vars, SuccessIsDurable
    <2> QED
      BY <2>1, StepSafe
  <1> QED
    BY <1>1, <1>2, PTL DEF Spec

-----------------------------------------------------------------------------
(***************************************************************************)
(* What the driver keeps under which faults, for any number of users,      *)
(* files, secrets, aliases and passwords: no plaintext is ever in memory   *)
(* between two handlers if the encryption finds its memory, and nothing is *)
(* encrypted without its frame if the epilogue of add can put it back.     *)
(*                                                                         *)
(* First what each helper of crypto.c and actions.c leaves in plbuf and    *)
(* in pwdb; then, handler by handler, that a step takes good profiles and  *)
(* files to good profiles and files.                                       *)
(***************************************************************************)

\* The faults of a handler spare every call of zacarias_encrypt_pwdb().
Seals(f) ==
    /\ f.at # "encrypt"
    /\ f.at = "rekey" => f.how \notin {"midway", "wipe"}
    /\ f.also = {}

SealingWorks == \A f \in Faults : Seals(f)

\* They spare what the epilogue of add needs to put a plaintext away.
Recovers(f) ==
    /\ {"reshuffle", "reencrypt"} \cap f.also = {}
    /\ ~("restore" \in f.also /\ f.how \in {"midway", "wipe"})

\* They spare the plbuf_edit_shuffle() in the epilogue of add.
Reframes(f) == "reshuffle" \notin f.also

ReframingWorks == \A f \in Faults : Reframes(f)

FramedPwdb(p)  == p.pwdb # NULL => p.pwdb.text.framed = TRUE
FramedPlbuf(p) == p.plbuf # NULL => p.plbuf.framed = TRUE
Framing(p)     == FramedPwdb(p) /\ FramedPlbuf(p)

Good(p) ==
    /\ SealingWorks => p.plbuf = NULL
    /\ ReframingWorks => Framing(p)

FramedFile(c) == c \in Cipher => c.text.framed = TRUE

GoodInv ==
    /\ \A u \in Users : Attached(u) => Good(profiles[u])
    /\ ReframingWorks => \A path \in Paths : FramedFile(disk[path])

-----------------------------------------------------------------------------
(* crypto.c *)

LEMMA DecryptGood ==
    ASSUME NEW p \in Profile, NEW u, NEW s, NEW bad \in BOOLEAN
    PROVE  /\ ~DecryptOk(p, u, s, bad) => Decrypt(p, u, s, bad).plbuf = NULL
           /\ FramedPwdb(p) => Framing(Decrypt(p, u, s, bad))
  <1>1. /\ Decrypt(p, u, s, bad).pwdb = p.pwdb
        /\ DecryptOk(p, u, s, bad) => Decrypt(p, u, s, bad).plbuf = p.pwdb.text /\ p.pwdb \in Cipher
        /\ ~DecryptOk(p, u, s, bad) => Decrypt(p, u, s, bad).plbuf = NULL
    BY DecryptType
  <1> QED
    BY <1>1, NullAssumption DEF Framing, FramedPwdb, FramedPlbuf

LEMMA EncryptGood ==
    ASSUME NEW p \in Profile, NEW u \in Users, NEW s \in Secrets, NEW bad \in BOOLEAN, NEW how,
           bad \/ p.plbuf # NULL
    PROVE  /\ ~bad => Encrypt(p, u, s, bad, how).plbuf = NULL
           /\ Framing(p) => Framing(Encrypt(p, u, s, bad, how))
  <1>1. CASE bad
    BY <1>1 DEF Encrypt, Framing, FramedPwdb, FramedPlbuf, Profile
  <1>2. CASE ~bad
    BY <1>2, EncryptType DEF Framing, FramedPwdb, FramedPlbuf
  <1> QED
    BY <1>1, <1>2

LEMMA SetkeyGood ==
    ASSUME NEW p \in Profile, NEW u \in Users, NEW old, NEW new \in Secrets,
           NEW bad \in BOOLEAN, NEW how
    PROVE  /\ p.plbuf = NULL /\ ~(bad /\ how \in {"midway", "wipe"}) =>
                 Setkey(p, u, old, new, bad, how).plbuf = NULL
           /\ FramedPwdb(p) => Framing(Setkey(p, u, old, new, bad, how))
  <1> DEFINE first  == bad /\ how \notin {"midway", "wipe", "late"}
             second == bad /\ how \in {"midway", "wipe"}
             third  == bad /\ how = "late"
             d == Decrypt(p, u, old, first)
             e == Encrypt(d, u, new, second, how)
  <1>1. first \in BOOLEAN /\ second \in BOOLEAN /\ third \in BOOLEAN
    OBVIOUS
  <1>2. Setkey(p, u, old, new, bad, how) =
           IF d.plbuf = NULL THEN d
           ELSE IF e.plbuf # NULL \/ p.plbuf = NULL THEN e
           ELSE Decrypt(e, u, new, third)
    BY DEF Setkey
  <1>3. second <=> bad /\ how \in {"midway", "wipe"}
    OBVIOUS
  <1> HIDE DEF first, second, third
  <1>4. d \in Profile /\ (FramedPwdb(p) => Framing(d))
    BY <1>1, DecryptType, DecryptGood
  <1> HIDE DEF d
  <1>5. d.plbuf # NULL =>
           /\ e \in Profile
           /\ ~second => e.plbuf = NULL
           /\ Framing(d) => Framing(e)
    BY <1>1, <1>4, EncryptType, EncryptGood
  <1> HIDE DEF e
  <1>6. d.plbuf # NULL /\ Framing(d) => Framing(Decrypt(e, u, new, third))
    BY <1>1, <1>5, DecryptGood DEF Framing
  <1> QED
    BY <1>2, <1>3, <1>4, <1>5, <1>6

-----------------------------------------------------------------------------
(* actions.c: what add and del begin with, and how handlers end *)

LEMMA OpenGood ==
    ASSUME TypeOK, NEW u \in Users, NEW p \in Profile, NEW m \in Secrets, NEW ss, NEW f \in Fault,
           FramedPwdb(p), FramedFile(disk[p.path])
    PROVE  Framing(Open(p, u, m, ss, f).p)
  <1> DEFINE bad == f.at = "validate"
             k   == Setkey(p, u, ss, m, bad, f.how)
             y   == [k EXCEPT !.pwdb = ReadPwdb(p.path)]
             r   == IF p.sessioned THEN y ELSE p
             cut == f.at = "decrypt"
  <1>1. \/ Open(p, u, m, ss, f).p = k
        \/ Open(p, u, m, ss, f).p = [k EXCEPT !.pwdb = NULL]
        \/ /\ Open(p, u, m, ss, f).p = Decrypt(r, u, m, cut)
           /\ p.sessioned => Readable(p.path)
    <2>1. CASE p.sessioned /\ ~SetkeyOk(p, u, ss, bad, f.how)
      BY <2>1 DEF Open
    <2>2. CASE p.sessioned /\ SetkeyOk(p, u, ss, bad, f.how)
               /\ (f.at = "reload" \/ ~Readable(p.path))
      BY <2>2 DEF Open
    <2>3. CASE /\ ~(p.sessioned /\ ~SetkeyOk(p, u, ss, bad, f.how))
               /\ ~(p.sessioned /\ SetkeyOk(p, u, ss, bad, f.how)
                    /\ (f.at = "reload" \/ ~Readable(p.path)))
      BY <2>3 DEF Open
    <2> QED
      BY <2>1, <2>2, <2>3
  <1>2. bad \in BOOLEAN /\ cut \in BOOLEAN /\ p.path \in Paths
    BY DEF Profile
  <1> HIDE DEF bad, cut
  <1>3. k \in Profile /\ Framing(k)
    BY <1>2, SetkeyFrame, SetkeyGood
  <1> HIDE DEF k
  <1>4. [k EXCEPT !.pwdb = NULL].pwdb = NULL /\ [k EXCEPT !.pwdb = NULL].plbuf = k.plbuf
    BY <1>3 DEF Profile
  <1>5. Readable(p.path) => y \in Profile /\ FramedPwdb(y)
    <2> SUFFICES ASSUME Readable(p.path) PROVE y \in Profile /\ FramedPwdb(y)
      OBVIOUS
    <2>1. ReadPwdb(p.path) \in Cipher \cup {NULL}
      BY <1>2, ReadType
    <2>2. y \in Profile /\ y.pwdb = ReadPwdb(p.path)
      BY <1>3, <2>1 DEF Profile
    <2>3. ReadPwdb(p.path) # NULL => ReadPwdb(p.path) = disk[p.path]
      BY DEF ReadPwdb
    <2> QED
      BY <2>1, <2>2, <2>3 DEF FramedPwdb, FramedFile
  <1> HIDE DEF y
  <1>6. (p.sessioned => Readable(p.path)) => r \in Profile /\ FramedPwdb(r)
    BY <1>5
  <1> HIDE DEF r
  <1>7. Framing([k EXCEPT !.pwdb = NULL])
    BY <1>3, <1>4 DEF Framing, FramedPwdb, FramedPlbuf
  <1>8. (p.sessioned => Readable(p.path)) => Framing(Decrypt(r, u, m, cut))
    BY <1>2, <1>6, DecryptGood
  <1> QED
    BY <1>1, <1>3, <1>7, <1>8

LEMMA RestoreGood ==
    ASSUME NEW u \in Users, NEW p \in Profile, NEW m \in Secrets, NEW ss \in Secrets \cup {NoSecret},
           NEW bare \in BOOLEAN, NEW f \in Fault
    PROVE  /\ Recovers(f) => Restore(p, u, m, ss, bare, f).plbuf = NULL
           /\ Reframes(f) /\ FramedPwdb(p) /\ (~bare => FramedPlbuf(p)) =>
                 Framing(Restore(p, u, m, ss, bare, f))
  <1> DEFINE cut  == "reencrypt" \in f.also
             lost == "restore" \in f.also
             t == IF bare THEN [p EXCEPT !.plbuf.framed = TRUE] ELSE p
             e == Encrypt(t, u, m, cut, f.how)
             k == Setkey(e, u, m, ss, lost, f.how)
  <1>1. Restore(p, u, m, ss, bare, f) =
           IF p.plbuf = NULL \/ (bare /\ "reshuffle" \in f.also) THEN p
           ELSE IF cut \/ ~p.sessioned \/ ss = NoSecret THEN e
           ELSE k
    BY DEF Restore
  <1>2. /\ cut \in BOOLEAN /\ lost \in BOOLEAN
        /\ Recovers(f) => /\ ~cut /\ "reshuffle" \notin f.also
                          /\ ~(lost /\ f.how \in {"midway", "wipe"})
    BY DEF Recovers
  <1> HIDE DEF cut, lost
  <1>3. CASE p.plbuf = NULL
    BY <1>1, <1>3 DEF Framing, FramedPlbuf
  <1>4. CASE p.plbuf # NULL
    <2>1. p.plbuf \in Text
      BY <1>4 DEF Profile
    <2>2. /\ t \in Profile /\ t.plbuf # NULL /\ t.pwdb = p.pwdb
          /\ bare \/ FramedPlbuf(p) => FramedPlbuf(t)
      <3>1. CASE bare
        <4>1. t = [p EXCEPT !.plbuf = [p.plbuf EXCEPT !.framed = TRUE]]
          BY <3>1
        <4>2. [p.plbuf EXCEPT !.framed = TRUE] \in Text /\ [p.plbuf EXCEPT !.framed = TRUE].framed = TRUE
          BY <2>1 DEF Text
        <4> QED
          BY <4>1, <4>2, NullAssumption DEF Profile, FramedPlbuf
      <3>2. CASE ~bare
        BY <1>4, <3>2
      <3> QED
        BY <3>1, <3>2
    <2> HIDE DEF t
    <2>3. e \in Profile /\ (~cut => e.plbuf = NULL) /\ (Framing(t) => Framing(e))
      BY <1>2, <2>2, EncryptType, EncryptGood
    <2> HIDE DEF e
    <2>4. ss # NoSecret =>
            /\ ~(lost /\ f.how \in {"midway", "wipe"}) /\ e.plbuf = NULL => k.plbuf = NULL
            /\ Framing(e) => Framing(k)
      BY <1>2, <2>3, SetkeyGood DEF Framing
    <2> HIDE DEF k
    <2>5. FramedPwdb(p) => FramedPwdb(t)
      BY <2>2 DEF FramedPwdb
    <2> QED
      BY <1>1, <1>2, <1>4, <2>2, <2>3, <2>4, <2>5 DEF Framing, Reframes
  <1> QED
    BY <1>3, <1>4

LEMMA DroppedGood ==
    ASSUME NEW p \in Profile
    PROVE  Dropped(p).plbuf = NULL /\ (FramedPwdb(p) => Framing(Dropped(p)))
  BY DEF Dropped, Profile, Framing, FramedPwdb, FramedPlbuf

LEMMA SealedGood ==
    ASSUME NEW p \in Profile, NEW u \in Users, NEW m \in Secrets, NEW db \in Db, NEW f \in Fault
    PROVE  /\ f.at # "encrypt" => Sealed(p, u, m, db, f).plbuf = NULL
           /\ FramedPwdb(p) => Framing(Sealed(p, u, m, db, f))
  <1> DEFINE t == [p EXCEPT !.plbuf = Framed(db)]
             cut == f.at = "encrypt"
  <1>1. t \in Profile /\ t.pwdb = p.pwdb /\ t.plbuf # NULL /\ FramedPlbuf(t)
    <2>1. t \in Profile /\ t.pwdb = p.pwdb /\ t.plbuf = Framed(db) /\ t.plbuf # NULL
      BY TextTypes, NullAssumption DEF Profile
    <2> QED
      BY <2>1 DEF FramedPlbuf, Framed
  <1>2. cut \in BOOLEAN /\ (f.at # "encrypt" <=> ~cut)
    OBVIOUS
  <1>3. Sealed(p, u, m, db, f) = Encrypt(t, u, m, cut, f.how)
    BY DEF Sealed
  <1> HIDE DEF t, cut
  <1>4. FramedPwdb(p) => Framing(t)
    BY <1>1 DEF Framing, FramedPwdb
  <1> QED
    BY <1>1, <1>2, <1>3, <1>4, EncryptGood

LEMMA ResealGood ==
    ASSUME NEW u \in Users, NEW p \in Profile, NEW s \in Secrets, NEW db \in Db, NEW f \in Fault
    PROVE  /\ f.at # "encrypt" => Reseal(p, u, s, db, f).plbuf = NULL
           /\ FramedPwdb(p) => Framing(Reseal(p, u, s, db, f))
  BY SealedGood, DroppedGood DEF Reseal

LEMMA RekeyedGood ==
    ASSUME NEW p \in Profile, NEW u \in Users, NEW m \in Secrets,
           NEW ss \in Secrets \cup {NoSecret}, p.sessioned => ss # NoSecret, NEW f \in Fault
    PROVE  /\ Seals(f) /\ p.plbuf = NULL => Rekeyed(p, u, m, ss, f).plbuf = NULL
           /\ Framing(p) => Framing(Rekeyed(p, u, m, ss, f))
  <1> DEFINE cut == f.at = "rekey"
  <1>1. cut \in BOOLEAN /\ (Seals(f) => ~(cut /\ f.how \in {"midway", "wipe"}))
    BY DEF Seals
  <1>2. Rekeyed(p, u, m, ss, f) = IF p.sessioned THEN Setkey(p, u, m, ss, cut, f.how) ELSE p
    BY DEF Rekeyed
  <1> HIDE DEF cut
  <1>3. p.sessioned => /\ Seals(f) /\ p.plbuf = NULL => Setkey(p, u, m, ss, cut, f.how).plbuf = NULL
                       /\ Framing(p) => Framing(Setkey(p, u, m, ss, cut, f.how))
    BY <1>1, SetkeyGood DEF Framing
  <1> QED
    BY <1>2, <1>3

-----------------------------------------------------------------------------
(* What a step leaves behind *)

LEMMA GoodFault ==
    ASSUME NEW f \in Faults
    PROVE  f \in Fault /\ (SealingWorks => Seals(f)) /\ (ReframingWorks => Reframes(f))
  BY ConstantsAssumption DEF SealingWorks, ReframingWorks

FilesStayFramed == ReframingWorks => \A path \in Paths : FramedFile(disk'[path])

LEMMA KeepGood ==
    ASSUME TypeOK, GoodInv, NEW u \in Users, NEW x, x = NULL \/ Good(x), Keep(u, x),
           FilesStayFramed
    PROVE  GoodInv'
  BY DEF TypeOK, GoodInv, Keep, FilesStayFramed, Attached, Good, FramedFile, Framing,
         FramedPwdb, FramedPlbuf

LEMMA UntouchedFramed == GoodInv /\ disk' = disk => FilesStayFramed
  BY DEF GoodInv, FilesStayFramed

LEMMA WriteFramed ==
    ASSUME TypeOK, GoodInv, NEW path \in Paths, NEW p, NEW f, kwrite(path, p.pwdb, f),
           p.pwdb \in Cipher, ReframingWorks => FramedPwdb(p)
    PROVE  FilesStayFramed
  <1> SUFFICES ASSUME ReframingWorks, NEW other \in Paths
               PROVE  FramedFile(disk'[other])
    BY DEF FilesStayFramed
  <1>1. FramedFile(disk[other]) /\ FramedFile(p.pwdb) /\ FramedFile(Torn)
    BY ConstantsAssumption, NullAssumption DEF GoodInv, FramedFile, FramedPwdb
  <1>2. disk'[other] \in {disk[other], p.pwdb, Torn}
    BY DEF TypeOK, kwrite
  <1> QED
    BY <1>1, <1>2

LEMMA PowerGood ==
    ASSUME TypeOK, GoodInv, NEW path \in Paths, NEW u, NEW a, NEW f, PowerFails(path, u, a, f)
    PROVE  GoodInv'
  <1>1. ASSUME NEW other \in Paths, ReframingWorks
        PROVE  FramedFile(disk'[other])
    <2>1. FramedFile(disk[other]) /\ FramedFile(Torn)
      BY <1>1, ConstantsAssumption DEF GoodInv, FramedFile
    <2>2. disk'[other] \in {disk[other], Torn}
      BY DEF TypeOK, PowerFails
    <2> QED
      BY <2>1, <2>2
  <1>2. \A v \in Users : ~Attached(v)'
    BY DEF PowerFails, Attached
  <1> QED
    BY <1>1, <1>2 DEF GoodInv, FramedFile

-----------------------------------------------------------------------------
(* The handlers *)

LEMMA AddFailsGood ==
    ASSUME TypeOK, GoodInv, NEW u \in Users, NEW m \in Secrets, NEW ss \in Secrets \cup {NoSecret},
           NEW a, NEW f \in Faults, NEW err, NEW status,
           NEW p \in Profile, NEW bare \in BOOLEAN,
           AddFails(u, m, ss, a, f, err, status, p, bare),
           ReframingWorks => FramedPwdb(p) /\ (~bare => FramedPlbuf(p)),
           FilesStayFramed
    PROVE  GoodInv'
  <1>1. SealingWorks => Recovers(f)
    BY GoodFault DEF Seals, Recovers
  <1>2. Good(Restore(p, u, m, ss, bare, f))
    BY <1>1, GoodFault, RestoreGood DEF Good
  <1> QED
    BY <1>2, KeepGood DEF AddFails

LEMMA AddStopsGood ==
    ASSUME TypeOK, GoodInv, NEW u \in Users, NEW m \in Secrets, NEW ss \in Secrets \cup {NoSecret},
           NEW a \in Aliases, NEW w \in Passwds, NEW f \in Faults,
           NEW p \in Profile, ReframingWorks => Framing(p), NEW db \in Db,
           AddStops(u, m, ss, a, w, f, p, db), UNCHANGED disk
    PROVE  GoodInv'
  <1> DEFINE q == [p EXCEPT !.plbuf = Bare(db)]
             n == [p EXCEPT !.plbuf = [framed |-> FALSE, db |-> Inserted(db, a, w)]]
             e == Sealed(p, u, m, Inserted(db, a, w), f)
  <1>1. Inserted(db, a, w) \in Db /\ f \in Fault /\ FilesStayFramed
    BY DbTypes, GoodFault, UntouchedFramed
  <1>2. q \in Profile /\ q.pwdb = p.pwdb
    BY TextTypes DEF Profile
  <1>3. n \in Profile /\ n.pwdb = p.pwdb
    BY <1>1, TextTypes DEF Profile
  <1>4. e \in Profile /\ (ReframingWorks => Framing(e))
    BY <1>1, SealedType, SealedGood DEF Framing
  <1>5. ReframingWorks => FramedPwdb(q) /\ FramedPwdb(n)
    BY <1>2, <1>3 DEF Framing, FramedPwdb
  <1>6. \E err, status :
           \/ AddFails(u, m, ss, a, f, err, status, p, FALSE)
           \/ AddFails(u, m, ss, a, f, err, status, q, TRUE)
           \/ AddFails(u, m, ss, a, f, err, status, n, TRUE)
           \/ AddFails(u, m, ss, a, f, err, status, e, FALSE)
    BY DEF AddStops
  <1> HIDE DEF q, n, e
  <1> QED
    BY <1>1, <1>2, <1>3, <1>4, <1>5, <1>6, AddFailsGood DEF Framing

LEMMA AddWritesGood ==
    ASSUME TypeOK, GoodInv, NEW u \in Users, NEW m \in Secrets, NEW ss \in Secrets \cup {NoSecret},
           NEW a, NEW f \in Faults, NEW p \in Profile,
           f.at # "encrypt" => p.pwdb \in Cipher /\ p.plbuf = NULL,
           ReframingWorks => Framing(p),
           p.sessioned => ss # NoSecret,
           AddWrites(u, m, ss, a, f, p)
    PROVE  GoodInv'
  <1> DEFINE r == Rekeyed(p, u, m, ss, f)
  <1>1. f \in Fault /\ p.path \in Paths /\ p.plbuf = NULL
        /\ p.pwdb \in Cipher /\ kwrite(p.path, p.pwdb, f)
    BY GoodFault DEF AddWrites, Profile
  <1>2. FilesStayFramed
    BY <1>1, WriteFramed DEF Framing
  <1>3. r \in Profile /\ Good(r)
    BY <1>1, GoodFault, RekeyedType, RekeyedGood DEF Good
  <1>4. \/ \E status : AddFails(u, m, ss, a, f, "0", status, p, FALSE)
        \/ \E status : AddFails(u, m, ss, a, f, "0", status, r, FALSE)
        \/ Keep(u, r)
    BY DEF AddWrites
  <1> HIDE DEF r
  <1> QED
    BY <1>1, <1>2, <1>3, <1>4, AddFailsGood, KeepGood DEF Framing, Good

LEMMA AddGood ==
    ASSUME TypeOK, GoodInv, NEW u \in Users, NEW m \in Secrets, NEW ss \in Secrets \cup {NoSecret},
           NEW a \in Aliases, NEW w \in Passwds, NEW f \in Faults,
           AddPassword(u, m, ss, a, w, f)
    PROVE  GoodInv'
  <1> DEFINE p  == profiles[u]
             x  == Open(p, u, m, ss, f).p
             st == Open(p, u, m, ss, f).status
             db == DetachedDb(x.plbuf)
             e  == Sealed(x, u, m, Inserted(db, a, w), f)
  <1>1. \/ UNCHANGED profiles /\ UNCHANGED disk
        \/ /\ p # NULL /\ UNCHANGED disk
           /\ \/ AddFails(u, m, ss, a, f, "EINVAL", "kInvalidParams", p, FALSE)
              \/ AddFails(u, m, ss, a, f, "0", st, x, FALSE)
              \/ st = "kNoError" /\ AddStops(u, m, ss, a, w, f, x, db)
        \/ /\ p # NULL /\ (p.sessioned => ss # NoSecret)
           /\ st = "kNoError" /\ AddWrites(u, m, ss, a, f, e)
        \/ p # NULL /\ PowerFails(p.path, u, a, f)
    BY ZenonT(60) DEF AddPassword, Ready
  <1>2. /\ p \in Profile \cup {NULL} /\ f \in Fault
        /\ p # NULL => p.path \in Paths
        /\ p # NULL => Good(p) /\ (ReframingWorks => FramedFile(disk[p.path]))
    <2>1. p \in Profile \cup {NULL} /\ f \in Fault /\ (p # NULL => p.path \in Paths)
      BY GoodFault DEF TypeOK, Profile
    <2> QED
      BY <2>1 DEF GoodInv, Attached
  <1> HIDE DEF p
  <1>3. p # NULL => /\ p \in Profile /\ x \in Profile /\ x.sessioned = p.sessioned
                    /\ st = "kNoError" => x.plbuf \in Text
                    /\ ReframingWorks => Framing(x)
    <2> SUFFICES ASSUME p # NULL
                 PROVE  /\ p \in Profile /\ x \in Profile /\ x.sessioned = p.sessioned
                        /\ st = "kNoError" => x.plbuf \in Text
                        /\ ReframingWorks => Framing(x)
      OBVIOUS
    <2>1. p \in Profile
      BY <1>2
    <2>2. /\ x \in Profile /\ x.sessioned = p.sessioned
          /\ st = "kNoError" => x.plbuf \in Text
      BY <1>2, <2>1, OpenType
    <2>3. ReframingWorks => Framing(x)
      BY <1>2, <2>1, OpenGood DEF Good, Framing
    <2> QED
      BY <2>1, <2>2, <2>3
  <1> HIDE DEF x, st
  <1>4. p # NULL /\ st = "kNoError" => db \in Db
    BY <1>3, DetachedType
  <1> HIDE DEF db
  <1>5. p # NULL /\ st = "kNoError" =>
           /\ e \in Profile /\ e.sessioned = p.sessioned
           /\ f.at # "encrypt" => e.pwdb \in Cipher /\ e.plbuf = NULL
           /\ ReframingWorks => Framing(e)
    <2> SUFFICES ASSUME p # NULL, st = "kNoError"
                 PROVE  /\ e \in Profile /\ e.sessioned = p.sessioned
                        /\ f.at # "encrypt" => e.pwdb \in Cipher /\ e.plbuf = NULL
                        /\ ReframingWorks => Framing(e)
      OBVIOUS
    <2>1. Inserted(db, a, w) \in Db /\ x \in Profile
      BY <1>3, <1>4, DbTypes
    <2>2. e \in Profile /\ e.sessioned = p.sessioned /\ (f.at # "encrypt" => e.pwdb \in Cipher)
      BY <1>2, <1>3, <2>1, SealedType
    <2>3. (f.at # "encrypt" => e.plbuf = NULL) /\ (ReframingWorks => Framing(e))
      BY <1>2, <1>3, <2>1, SealedGood DEF Framing
    <2> QED
      BY <2>2, <2>3
  <1> HIDE DEF e
  <1>6. CASE UNCHANGED profiles /\ UNCHANGED disk
    BY <1>6 DEF GoodInv, Attached, Good, FramedFile, Framing, FramedPwdb, FramedPlbuf
  <1>7. CASE /\ p # NULL /\ UNCHANGED disk
             /\ \/ AddFails(u, m, ss, a, f, "EINVAL", "kInvalidParams", p, FALSE)
                \/ AddFails(u, m, ss, a, f, "0", st, x, FALSE)
                \/ st = "kNoError" /\ AddStops(u, m, ss, a, w, f, x, db)
    <2>1. FilesStayFramed
      BY <1>7, UntouchedFramed
    <2>2. CASE AddFails(u, m, ss, a, f, "EINVAL", "kInvalidParams", p, FALSE)
      BY <1>2, <1>3, <1>7, <2>1, <2>2, AddFailsGood DEF Good, Framing
    <2>3. CASE AddFails(u, m, ss, a, f, "0", st, x, FALSE)
      BY <1>3, <1>7, <2>1, <2>3, AddFailsGood DEF Framing
    <2>4. CASE st = "kNoError" /\ AddStops(u, m, ss, a, w, f, x, db)
      BY <1>3, <1>4, <1>7, <2>4, AddStopsGood
    <2> QED
      BY <1>7, <2>2, <2>3, <2>4
  <1>8. CASE /\ p # NULL /\ (p.sessioned => ss # NoSecret)
             /\ st = "kNoError" /\ AddWrites(u, m, ss, a, f, e)
    BY <1>5, <1>8, AddWritesGood
  <1>9. CASE p # NULL /\ PowerFails(p.path, u, a, f)
    BY <1>2, <1>9, PowerGood
  <1> QED
    BY <1>1, <1>6, <1>7, <1>8, <1>9

LEMMA DelFailsGood ==
    ASSUME TypeOK, GoodInv, NEW u \in Users, NEW a, NEW f, NEW err, NEW status,
           NEW p \in Profile, DelFails(u, a, f, err, status, p),
           ReframingWorks => FramedPwdb(p), FilesStayFramed
    PROVE  GoodInv'
  <1>1. Good(Dropped(p))
    BY DroppedGood DEF Good
  <1> QED
    BY <1>1, KeepGood DEF DelFails

LEMMA DelStopsGood ==
    ASSUME TypeOK, GoodInv, NEW u \in Users, NEW m \in Secrets, NEW a \in Aliases, NEW f \in Fault,
           NEW p \in Profile, p.plbuf \in Text, ReframingWorks => Framing(p), NEW db,
           UNCHANGED disk,
           \/ DelFindsNone(u, m, a, f, p, db)
           \/ \E left \in Db : DelStops(u, m, a, f, p, left)
    PROVE  GoodInv'
  <1> DEFINE lost == "reencrypt" \in f.also
             e == Encrypt(p, u, m, lost, f.how)
             s(left) == Sealed(p, u, m, left, f)
  <1>1. \E err, status :
           \/ DelFails(u, a, f, err, status, e)
           \/ DelFails(u, a, f, err, status, p)
           \/ \E left \in Db : DelFails(u, a, f, err, status, s(left))
    BY DEF DelFindsNone, DelStops
  <1>2. lost \in BOOLEAN /\ p.plbuf # NULL /\ FilesStayFramed
    BY NullAssumption, UntouchedFramed
  <1> HIDE DEF lost
  <1>3. e \in Profile /\ (ReframingWorks => Framing(e))
    BY <1>2, EncryptType, EncryptGood
  <1>4. \A left \in Db : s(left) \in Profile /\ (ReframingWorks => Framing(s(left)))
    BY SealedType, SealedGood DEF Framing
  <1> HIDE DEF e, s
  <1> QED
    BY <1>1, <1>2, <1>3, <1>4, DelFailsGood DEF Framing

LEMMA DelWritesGood ==
    ASSUME TypeOK, GoodInv, NEW u \in Users, NEW m \in Secrets, NEW ss \in Secrets \cup {NoSecret},
           NEW a, NEW f \in Faults, NEW p \in Profile,
           f.at # "encrypt" => p.pwdb \in Cipher /\ p.plbuf = NULL,
           ReframingWorks => Framing(p),
           p.sessioned => ss # NoSecret,
           DelWrites(u, m, ss, a, f, p)
    PROVE  GoodInv'
  <1> DEFINE r == Rekeyed(p, u, m, ss, f)
  <1>1. f \in Fault /\ p.path \in Paths /\ p.plbuf = NULL
        /\ p.pwdb \in Cipher /\ kwrite(p.path, p.pwdb, f)
    BY GoodFault DEF DelWrites, Profile
  <1>2. FilesStayFramed
    BY <1>1, WriteFramed DEF Framing
  <1>3. r \in Profile /\ Good(r)
    BY <1>1, GoodFault, RekeyedType, RekeyedGood DEF Good
  <1>4. \/ \E status : DelFails(u, a, f, "0", status, p)
        \/ \E status : DelFails(u, a, f, "0", status, r)
        \/ Keep(u, r)
    BY DEF DelWrites
  <1> HIDE DEF r
  <1> QED
    BY <1>1, <1>2, <1>3, <1>4, DelFailsGood, KeepGood DEF Framing, Good

LEMMA DelGood ==
    ASSUME TypeOK, GoodInv, NEW u \in Users, NEW m \in Secrets, NEW ss \in Secrets \cup {NoSecret},
           NEW a \in Aliases, NEW f \in Faults,
           DelPassword(u, m, ss, a, f)
    PROVE  GoodInv'
  <1> DEFINE p  == profiles[u]
             x  == Open(p, u, m, ss, f).p
             st == Open(p, u, m, ss, f).status
             db == DetachedDb(x.plbuf)
             e(b) == Sealed(x, u, m, Removed(db, b), f)
  <1>1. \/ UNCHANGED profiles /\ UNCHANGED disk
        \/ /\ p # NULL /\ UNCHANGED disk
           /\ \/ DelFails(u, a, f, "0", "kInvalidParams", p)
              \/ DelFails(u, a, f, "0", st, x)
              \/ st = "kNoError" /\ DelFindsNone(u, m, a, f, x, db)
              \/ st = "kNoError" /\ \E b \in findalias(db, a) : DelStops(u, m, a, f, x, Removed(db, b))
        \/ /\ p # NULL /\ (p.sessioned => ss # NoSecret) /\ st = "kNoError"
           /\ \E b \in findalias(db, a) : DelWrites(u, m, ss, a, f, e(b))
        \/ p # NULL /\ PowerFails(p.path, u, a, f)
    BY ZenonT(60) DEF DelPassword, Ready
  <1>2. /\ p \in Profile \cup {NULL} /\ f \in Fault
        /\ p # NULL => p.path \in Paths
        /\ p # NULL => Good(p) /\ (ReframingWorks => FramedFile(disk[p.path]))
    <2>1. p \in Profile \cup {NULL} /\ f \in Fault /\ (p # NULL => p.path \in Paths)
      BY GoodFault DEF TypeOK, Profile
    <2> QED
      BY <2>1 DEF GoodInv, Attached
  <1> HIDE DEF p
  <1>3. p # NULL => /\ p \in Profile /\ x \in Profile /\ x.sessioned = p.sessioned
                    /\ st = "kNoError" => x.plbuf \in Text
                    /\ ReframingWorks => Framing(x)
    <2> SUFFICES ASSUME p # NULL
                 PROVE  /\ p \in Profile /\ x \in Profile /\ x.sessioned = p.sessioned
                        /\ st = "kNoError" => x.plbuf \in Text
                        /\ ReframingWorks => Framing(x)
      OBVIOUS
    <2>1. p \in Profile
      BY <1>2
    <2>2. /\ x \in Profile /\ x.sessioned = p.sessioned
          /\ st = "kNoError" => x.plbuf \in Text
      BY <1>2, <2>1, OpenType
    <2>3. ReframingWorks => Framing(x)
      BY <1>2, <2>1, OpenGood DEF Good, Framing
    <2> QED
      BY <2>1, <2>2, <2>3
  <1> HIDE DEF x, st
  <1>4. p # NULL /\ st = "kNoError" => db \in Db
    BY <1>3, DetachedType
  <1> HIDE DEF db
  <1>5. ASSUME p # NULL, st = "kNoError", NEW b \in findalias(db, a)
        PROVE  /\ Removed(db, b) \in Db
               /\ e(b) \in Profile /\ e(b).sessioned = p.sessioned
               /\ f.at # "encrypt" => e(b).pwdb \in Cipher /\ e(b).plbuf = NULL
               /\ ReframingWorks => Framing(e(b))
    <2>1. Removed(db, b) \in Db /\ x \in Profile
      BY <1>3, <1>4, <1>5, DbTypes
    <2>2. /\ e(b) \in Profile /\ e(b).sessioned = p.sessioned
          /\ f.at # "encrypt" => e(b).pwdb \in Cipher
      BY <1>2, <1>3, <1>5, <2>1, SealedType
    <2>3. (f.at # "encrypt" => e(b).plbuf = NULL) /\ (ReframingWorks => Framing(e(b)))
      BY <1>2, <1>3, <1>5, <2>1, SealedGood DEF Framing
    <2> QED
      BY <2>1, <2>2, <2>3
  <1> HIDE DEF e
  <1>6. CASE UNCHANGED profiles /\ UNCHANGED disk
    BY <1>6 DEF GoodInv, Attached, Good, FramedFile, Framing, FramedPwdb, FramedPlbuf
  <1>7. CASE /\ p # NULL /\ UNCHANGED disk
             /\ \/ DelFails(u, a, f, "0", "kInvalidParams", p)
                \/ DelFails(u, a, f, "0", st, x)
                \/ st = "kNoError" /\ DelFindsNone(u, m, a, f, x, db)
                \/ st = "kNoError"
                   /\ \E b \in findalias(db, a) : DelStops(u, m, a, f, x, Removed(db, b))
    <2>1. FilesStayFramed
      BY <1>7, UntouchedFramed
    <2>2. CASE DelFails(u, a, f, "0", "kInvalidParams", p)
      BY <1>2, <1>3, <1>7, <2>1, <2>2, DelFailsGood DEF Good, Framing
    <2>3. CASE DelFails(u, a, f, "0", st, x)
      BY <1>3, <1>7, <2>1, <2>3, DelFailsGood DEF Framing
    <2>4. CASE st = "kNoError" /\ DelFindsNone(u, m, a, f, x, db)
      BY <1>2, <1>3, <1>7, <2>4, DelStopsGood
    <2>5. CASE st = "kNoError" /\ \E b \in findalias(db, a) : DelStops(u, m, a, f, x, Removed(db, b))
      <3>1. PICK left \in Db : DelStops(u, m, a, f, x, left)
        BY <1>5, <1>7, <2>5
      <3> QED
        BY <1>2, <1>3, <1>7, <2>5, <3>1, DelStopsGood
    <2> QED
      BY <1>7, <2>2, <2>3, <2>4, <2>5
  <1>8. CASE /\ p # NULL /\ (p.sessioned => ss # NoSecret) /\ st = "kNoError"
             /\ \E b \in findalias(db, a) : DelWrites(u, m, ss, a, f, e(b))
    <2>1. PICK b \in findalias(db, a) : DelWrites(u, m, ss, a, f, e(b))
      BY <1>8
    <2> QED
      BY <1>5, <1>8, <2>1, DelWritesGood
  <1>9. CASE p # NULL /\ PowerFails(p.path, u, a, f)
    BY <1>2, <1>9, PowerGood
  <1> QED
    BY <1>1, <1>6, <1>7, <1>8, <1>9

\* get and aliases end alike: nothing to do, a plaintext that was never there, or one that
\* is sealed again.
LEMMA LookGood ==
    ASSUME TypeOK, GoodInv, NEW u \in Users, NEW s \in Secrets, NEW f \in Faults,
           \/ \E a \in Aliases : GetPassword(u, s, a, f)
           \/ ListAliases(u, s, f)
    PROVE  GoodInv'
  <1> DEFINE p    == profiles[u]
             cut  == f.at = "decrypt"
             ok   == DecryptOk(p, u, s, cut)
             d    == Decrypt(p, u, s, cut)
             db   == DetachedDb(d.plbuf)
             lost == "reencrypt" \in f.also
             e    == Encrypt(d, u, s, lost, f.how)
             r    == Reseal(d, u, s, db, f)
  <1>1. /\ UNCHANGED disk
        /\ \/ p = NULL /\ Keep(u, NULL)
           \/ p # NULL /\ ~ok /\ Keep(u, d)
           \/ p # NULL /\ ok /\ Keep(u, e)
           \/ p # NULL /\ ok /\ Keep(u, r)
    <2>1. CASE \E a \in Aliases : GetPassword(u, s, a, f)
      <3>1. PICK a \in Aliases : GetPassword(u, s, a, f)
        BY <2>1
      <3> QED
        BY <3>1, ZenonT(60) DEF GetPassword
    <2>2. CASE ListAliases(u, s, f)
      BY <2>2, ZenonT(60) DEF ListAliases
    <2> QED
      BY <2>1, <2>2
  <1>2. /\ p \in Profile \cup {NULL} /\ f \in Fault /\ cut \in BOOLEAN /\ lost \in BOOLEAN
        /\ SealingWorks => ~lost /\ f.at # "encrypt"
        /\ p # NULL => Good(p)
    BY GoodFault DEF TypeOK, GoodInv, Attached, Seals
  <1>3. p # NULL /\ ok => d \in Profile /\ d.plbuf # NULL /\ db \in Db
    BY <1>2, OpenedType, NullAssumption
  <1> HIDE DEF p, cut, lost
  <1>4. p # NULL => /\ ~ok => d.plbuf = NULL
                    /\ ReframingWorks => Framing(d)
    BY <1>2, DecryptGood DEF Good, Framing
  <1> HIDE DEF d, ok, db
  <1>5. p # NULL /\ ok => Good(e)
    BY <1>2, <1>3, <1>4, EncryptGood DEF Good
  <1>6. p # NULL /\ ok => Good(r)
    BY <1>2, <1>3, <1>4, ResealGood DEF Good, Framing
  <1>7. p # NULL /\ ~ok => Good(d)
    BY <1>4 DEF Good
  <1> HIDE DEF e, r
  <1> QED
    BY <1>1, <1>5, <1>6, <1>7, KeepGood, UntouchedFramed

LEMMA StartSessionGood ==
    ASSUME TypeOK, GoodInv, NEW op, NEW u \in Users, NEW p \in Profile,
           NEW m \in Secrets, NEW ss \in Secrets \cup {NoSecret}, NEW f \in Faults,
           StartSession(op, u, p, m, ss, f),
           p.plbuf = NULL, ReframingWorks => FramedPwdb(p), FilesStayFramed
    PROVE  GoodInv'
  <1> DEFINE cut == f.at = "rekey"
             k == Setkey(p, u, m, ss, cut, f.how)
             s == [k EXCEPT !.sessioned = TRUE]
  <1>1. Keep(u, p) \/ (ss # NoSecret /\ Keep(u, s)) \/ (ss # NoSecret /\ Keep(u, k))
    BY DEF StartSession
  <1>2. cut \in BOOLEAN /\ (SealingWorks => ~(cut /\ f.how \in {"midway", "wipe"}))
    BY GoodFault DEF Seals
  <1> HIDE DEF cut
  <1>3. ss # NoSecret => k \in Profile /\ Good(k)
    BY <1>2, SetkeyFrame, SetkeyGood DEF Good
  <1> HIDE DEF k
  <1>4. ss # NoSecret => s.plbuf = k.plbuf /\ s.pwdb = k.pwdb
    BY <1>3 DEF Profile
  <1>5. ss # NoSecret => Good(s)
    BY <1>3, <1>4 DEF Good, Framing, FramedPwdb, FramedPlbuf
  <1>6. Good(p)
    BY DEF Good, Framing, FramedPlbuf
  <1> HIDE DEF s
  <1> QED
    BY <1>1, <1>3, <1>5, <1>6, KeepGood

LEMMA AttachGood ==
    ASSUME TypeOK, GoodInv, NEW u \in Users, NEW path \in Paths, NEW m \in Secrets,
           NEW ss \in Secrets \cup {NoSecret}, NEW f \in Faults,
           Attach(u, path, m, ss, f)
    PROVE  GoodInv'
  <1> DEFINE p == NewProfile(path, ReadPwdb(path))
  <1>1. /\ UNCHANGED disk
        /\ \/ UNCHANGED profiles
           \/ Readable(path) /\ StartSession("attach", u, p, m, ss, f)
    BY ZenonT(60) DEF Attach
  <1>2. CASE UNCHANGED profiles
    BY <1>1, <1>2 DEF GoodInv, Attached, Good, FramedFile, Framing, FramedPwdb, FramedPlbuf
  <1>3. CASE Readable(path) /\ StartSession("attach", u, p, m, ss, f)
    <2>1. ReadPwdb(path) \in Cipher \cup {NULL} /\ (ReadPwdb(path) # NULL => ReadPwdb(path) = disk[path])
      BY <1>3, ReadType DEF ReadPwdb
    <2>2. p \in Profile /\ p.plbuf = NULL /\ p.pwdb = ReadPwdb(path)
      BY <2>1 DEF NewProfile, Profile
    <2>3. ReframingWorks => FramedPwdb(p)
      BY <2>1, <2>2 DEF GoodInv, FramedFile, FramedPwdb
    <2>4. FilesStayFramed
      BY <1>1, UntouchedFramed
    <2> HIDE DEF p
    <2> QED
      BY <1>3, <2>2, <2>3, <2>4, StartSessionGood
  <1> QED
    BY <1>1, <1>2, <1>3

LEMMA InitAttachGood ==
    ASSUME TypeOK, GoodInv, NEW u \in Users, NEW path \in Paths, NEW m \in Secrets,
           NEW ss \in Secrets \cup {NoSecret}, NEW f \in Faults,
           InitAttach(u, path, m, ss, f)
    PROVE  GoodInv'
  <1> DEFINE cut == f.at = "encrypt"
             p == [NewProfile(path, NULL) EXCEPT !.plbuf = Framed(StubDb)]
             e == Encrypt(p, u, m, cut, f.how)
  <1>1. \/ Keep(u, profiles[u]) /\ UNCHANGED disk
        \/ Keep(u, NULL) /\ UNCHANGED disk
        \/ Keep(u, Dropped(p)) /\ UNCHANGED disk
        \/ f.at = "encrypt" /\ Keep(u, e) /\ UNCHANGED disk
        \/ /\ f.at # "encrypt" /\ kwrite(path, e.pwdb, f)
           /\ Keep(u, e) \/ StartSession("init", u, e, m, ss, f)
        \/ PowerFails(path, u, NULL, f)
    BY ZenonT(60) DEF InitAttach
  <1>2. p \in Profile /\ p.plbuf # NULL /\ Framing(p)
    <2>1. p \in Profile /\ p.plbuf = Framed(StubDb) /\ p.pwdb = NULL /\ Framed(StubDb) # NULL
      BY StubDbType, TextTypes, NullAssumption DEF NewProfile, Profile
    <2> QED
      BY <2>1 DEF Framing, FramedPwdb, FramedPlbuf, Framed
  <1>3. /\ cut \in BOOLEAN /\ (f.at # "encrypt" <=> ~cut)
        /\ SealingWorks => f.at # "encrypt"
    BY GoodFault DEF Seals
  <1> HIDE DEF p, cut
  <1>4. /\ e \in Profile /\ Framing(e)
        /\ f.at # "encrypt" => e.pwdb \in Cipher /\ e.plbuf = NULL
    BY <1>2, <1>3, EncryptType, EncryptGood
  <1>5. Good(e) /\ Good(Dropped(p))
    BY <1>2, <1>3, <1>4, DroppedGood DEF Good, Framing
  <1>6. profiles[u] = NULL \/ Good(profiles[u])
    BY DEF GoodInv, Attached
  <1> HIDE DEF e
  <1>7. CASE /\ f.at # "encrypt" /\ kwrite(path, e.pwdb, f)
             /\ Keep(u, e) \/ StartSession("init", u, e, m, ss, f)
    <2>1. FilesStayFramed
      BY <1>4, <1>7, WriteFramed DEF Framing
    <2> QED
      BY <1>4, <1>5, <1>7, <2>1, KeepGood, StartSessionGood DEF Framing
  <1>8. CASE PowerFails(path, u, NULL, f)
    BY <1>8, PowerGood
  <1> QED
    BY <1>1, <1>5, <1>6, <1>7, <1>8, KeepGood, UntouchedFramed

LEMMA DetachGood ==
    ASSUME TypeOK, GoodInv, NEW u \in Users, NEW s \in Secrets, NEW f \in Faults,
           Detach(u, s, f)
    PROVE  GoodInv'
  <1> DEFINE p == profiles[u]
             cut == f.at = "decrypt"
             d == Decrypt(p, u, s, cut)
  <1>1. /\ UNCHANGED disk
        /\ \/ Keep(u, NULL)
           \/ p # NULL /\ ~DecryptOk(p, u, s, cut) /\ Keep(u, d)
    BY ZenonT(60) DEF Detach
  <1>2. p \in Profile \cup {NULL} /\ cut \in BOOLEAN /\ (p # NULL => Good(p))
    BY DEF TypeOK, GoodInv, Attached
  <1> HIDE DEF p, cut
  <1>3. p # NULL /\ ~DecryptOk(p, u, s, cut) => Good(d)
    BY <1>2, DecryptGood DEF Good, Framing
  <1> HIDE DEF d
  <1> QED
    BY <1>1, <1>3, KeepGood, UntouchedFramed

-----------------------------------------------------------------------------
(* The specification *)

LEMMA GoodStep ==
    ASSUME TypeOK, GoodInv, [Next]_vars
    PROVE  GoodInv'
  <1>1. ASSUME NEW op, NEW on, Boot(op, on)
        PROVE  GoodInv'
    BY <1>1 DEF Boot, GoodInv, Attached, FramedFile
  <1>2. CASE Load \/ Unload \/ Crash
    BY <1>1, <1>2 DEF Load, Unload, Crash
  <1>3. ASSUME NEW u \in Users, NEW f \in Faults, Ioctl(u, f)
        PROVE  GoodInv'
    <2>1. PathsOf[u] \subseteq Paths
      BY ConstantsAssumption
    <2>2. PICK m \in Secrets :
             \/ \E path \in PathsOf[u], ss \in Secrets \cup {NoSecret} :
                   Attach(u, path, m, ss, f) \/ InitAttach(u, path, m, ss, f)
             \/ Detach(u, m, f)
             \/ ListAliases(u, m, f)
             \/ \E a \in Aliases : GetPassword(u, m, a, f)
             \/ \E a \in Aliases, ss \in Secrets \cup {NoSecret} :
                   \/ DelPassword(u, m, ss, a, f)
                   \/ \E w \in Passwds : AddPassword(u, m, ss, a, w, f)
      BY <1>3 DEF Ioctl
    <2> QED
      BY <2>1, <2>2, AttachGood, InitAttachGood, DetachGood, LookGood, DelGood, AddGood
  <1>4. CASE UNCHANGED vars
    BY <1>4 DEF vars, GoodInv, Attached, Good, FramedFile, Framing, FramedPwdb, FramedPlbuf
  <1> QED
    BY <1>2, <1>3, <1>4 DEF Next

LEMMA GoodAlways == Spec => [](TypeOK /\ GoodInv)
  <1>1. Init => TypeOK /\ GoodInv
    <2>1. Init => GoodInv
      BY ConstantsAssumption DEF Init, GoodInv, Attached, FramedFile
    <2> QED
      BY <2>1, InitSafe
  <1>2. TypeOK /\ GoodInv /\ [Next]_vars => TypeOK' /\ GoodInv'
    BY StepSafe, GoodStep
  <1> QED
    BY <1>1, <1>2, PTL DEF Spec

\* Whatever fails but the reframing in the epilogue of add, every ciphertext, in memory
\* and on disk, has its frame, and detaching one never eats entries.
THEOREM DeviceEncryptsFramed ==
    ASSUME ReframingWorks
    PROVE  Spec => []EncryptedIsFramed
  <1>1. TypeOK /\ GoodInv => EncryptedIsFramed
    BY DEF GoodInv, Good, Framing, FramedPwdb, FramedFile, EncryptedIsFramed
  <1> QED
    BY <1>1, GoodAlways, PTL

-----------------------------------------------------------------------------
(***************************************************************************)
(* Under which key a PWDB is written: for any number of users, who may     *)
(* share files, and for every fault but a file that cannot be opened for   *)
(* writing.  And under which key a handler gives a profile back, for every *)
(* fault.                                                                  *)
(*                                                                         *)
(* The master password of a profile without a session is what its copy in  *)
(* memory is under, and add and del write that copy: so the invariant is   *)
(* that memory and file, if both are the user's, have the same key.  A     *)
(* sessioned profile proves its master password on the file itself, which  *)
(* add and del load again before they change it.                           *)
(***************************************************************************)

\* A failing write leaves the file torn; what it cannot do is to leave it as it was.
FilesOpen == \A f \in Faults : f.at = "write" => f.how = "torn"

Owned(c, u) == c \in Cipher /\ c.user = u

SameKey(u, p, c) ==
    p.sessioned = FALSE /\ p.pwdb # NULL =>
        p.pwdb.user = u /\ (Owned(c, u) => c.secret = p.pwdb.secret)

KeyInv == \A u \in Users : Attached(u) => SameKey(u, profiles[u], disk[profiles[u].path])

\* What the property says of a step.
KeysFixed ==
    \A path \in Paths :
       (disk[path] \in Cipher /\ disk'[path] \in Cipher
          /\ disk[path].user = disk'[path].user /\ reply'.op # "init")
       => disk[path].secret = disk'[path].secret

KeyStep == KeyInv' /\ KeysFixed

\* Profile x is what a handler of user u makes of p, with m for the master password: in
\* a profile without a session the ciphertext is the old one, none, or a new one under
\* the password that has opened the old one.
Made(x, p, u, m) ==
    /\ x.path = p.path /\ x.sessioned = p.sessioned
    /\ p.sessioned = FALSE =>
          \/ x.pwdb \in {p.pwdb, NULL}
          \/ Opens(p, u, m) /\ x.pwdb.user = u /\ x.pwdb.secret = m

-----------------------------------------------------------------------------
(* crypto.c *)

LEMMA DecryptMade ==
    ASSUME NEW p \in Profile, NEW x \in Profile, NEW u \in Users, NEW m \in Secrets,
           Made(x, p, u, m), NEW v, NEW s, NEW bad \in BOOLEAN
    PROVE  Made(Decrypt(x, v, s, bad), p, u, m)
  <1>1. /\ Decrypt(x, v, s, bad).pwdb = x.pwdb
        /\ Decrypt(x, v, s, bad).path = x.path
        /\ Decrypt(x, v, s, bad).sessioned = x.sessioned
    BY DecryptType
  <1> QED
    BY <1>1 DEF Made

LEMMA EncryptMade ==
    ASSUME NEW p \in Profile, NEW x \in Profile, NEW u \in Users, NEW m \in Secrets,
           Made(x, p, u, m), p.sessioned = FALSE => Opens(p, u, m),
           NEW bad \in BOOLEAN, NEW how, bad \/ x.plbuf # NULL
    PROVE  Made(Encrypt(x, u, m, bad, how), p, u, m)
  <1> DEFINE e == Encrypt(x, u, m, bad, how)
  <1>1. e.path = x.path /\ e.sessioned = x.sessioned
    BY EncryptType
  <1>2. CASE bad
    <2>1. e.pwdb \in {x.pwdb, NULL}
      BY <1>2 DEF Encrypt, Profile
    <2> QED
      BY <1>1, <2>1 DEF Made
  <1>3. CASE ~bad
    <2>1. e.pwdb.user = u /\ e.pwdb.secret = m
      BY <1>3 DEF Encrypt, Profile
    <2> QED
      BY <1>1, <2>1 DEF Made
  <1> QED
    BY <1>2, <1>3

\* A setkey that fails on a profile that was not in the clear leaves the ciphertext as
\* it was, or loses it.
LEMMA SetkeyFails ==
    ASSUME NEW p \in Profile, p.plbuf = NULL, NEW u \in Users, NEW old, NEW new \in Secrets,
           NEW bad \in BOOLEAN, NEW how, ~SetkeyOk(p, u, old, bad, how)
    PROVE  Setkey(p, u, old, new, bad, how).pwdb \in {p.pwdb, NULL}
  <1> DEFINE first  == bad /\ how \notin {"midway", "wipe", "late"}
             second == bad /\ how \in {"midway", "wipe"}
             d == Decrypt(p, u, old, first)
             e == Encrypt(d, u, new, second, how)
  <1>1. Setkey(p, u, old, new, bad, how) = IF d.plbuf = NULL THEN d ELSE e
    BY DEF Setkey
  <1>2. first \in BOOLEAN /\ second \in BOOLEAN
    OBVIOUS
  <1>3. DecryptOk(p, u, old, first) => second
    BY DEF DecryptOk, SetkeyOk
  <1> HIDE DEF first, second
  <1>6. d.plbuf # NULL => second
    BY <1>2, <1>3, DecryptType
  <1>4. d \in Profile /\ d.pwdb = p.pwdb
    BY <1>2, DecryptType
  <1> HIDE DEF d
  <1>5. second => e.pwdb \in {d.pwdb, NULL}
    BY <1>4 DEF Encrypt, Profile
  <1> QED
    BY <1>1, <1>4, <1>5, <1>6

-----------------------------------------------------------------------------
(* actions.c *)

\* Whoever has opened the PWDB for a change knows the key of the file, if it is his own.
LEMMA OpenKnows ==
    ASSUME TypeOK, NEW u \in Users, NEW p \in Profile, NEW m \in Secrets, NEW ss, NEW f \in Fault,
           SameKey(u, p, disk[p.path])
    PROVE  /\ Made(Open(p, u, m, ss, f).p, p, u, m)
           /\ Open(p, u, m, ss, f).status = "kNoError" =>
                 /\ p.sessioned = FALSE => Opens(p, u, m)
                 /\ Owned(disk[p.path], u) => disk[p.path].secret = m
           /\ Open(p, u, m, ss, f).status # "kNoError" /\ p.sessioned = FALSE =>
                 Open(p, u, m, ss, f).p.plbuf = NULL
  <1> DEFINE bad == f.at = "validate"
             k   == Setkey(p, u, ss, m, bad, f.how)
             y   == [k EXCEPT !.pwdb = ReadPwdb(p.path)]
             cut == f.at = "decrypt"
             o   == Open(p, u, m, ss, f)
  <1>1. cut \in BOOLEAN /\ bad \in BOOLEAN /\ p.sessioned \in BOOLEAN /\ p.path \in Paths
    BY DEF Profile
  <1>2. CASE p.sessioned = FALSE
    <2>1. o = [status |-> IF DecryptOk(p, u, m, cut) THEN "kNoError" ELSE "kAuthenticationFailure",
               p      |-> Decrypt(p, u, m, cut)]
      BY <1>2 DEF Open
    <2>2. Made(p, p, u, m)
      BY DEF Made
    <2> HIDE DEF cut
    <2>3. Made(Decrypt(p, u, m, cut), p, u, m)
      BY <1>1, <2>2, DecryptMade
    <2>4. ~DecryptOk(p, u, m, cut) => Decrypt(p, u, m, cut).plbuf = NULL
      BY <1>1, DecryptType
    <2>5. DecryptOk(p, u, m, cut) => Opens(p, u, m) /\ (Owned(disk[p.path], u) => disk[p.path].secret = m)
      BY <1>2 DEF DecryptOk, Opens, SameKey
    <2> HIDE DEF o
    <2> QED
      BY <1>2, <2>1, <2>3, <2>4, <2>5 DEF o
  <1>3. CASE p.sessioned = TRUE
    <2>1. o.p.path = p.path /\ o.p.sessioned = p.sessioned
      BY OpenType
    <2>2. Made(o.p, p, u, m)
      BY <1>3, <2>1 DEF Made
    <2>3. ASSUME o.status = "kNoError", Owned(disk[p.path], u)
          PROVE  disk[p.path].secret = m
      <3>1. DecryptOk(y, u, m, cut)
        <4>1. CASE ~SetkeyOk(p, u, ss, bad, f.how)
          BY <1>3, <2>3, <4>1 DEF Open
        <4>2. CASE SetkeyOk(p, u, ss, bad, f.how) /\ (f.at = "reload" \/ ~Readable(p.path))
          BY <1>3, <2>3, <4>2 DEF Open
        <4>3. CASE SetkeyOk(p, u, ss, bad, f.how) /\ ~(f.at = "reload" \/ ~Readable(p.path))
          BY <1>3, <2>3, <4>3 DEF Open
        <4> QED
          BY <4>1, <4>2, <4>3
      <3>2. k \in Profile
        BY <1>1, SetkeyFrame
      <3> HIDE DEF k
      <3>3. y.pwdb = ReadPwdb(p.path)
        BY <3>2 DEF Profile
      <3>4. ReadPwdb(p.path) = disk[p.path]
        BY <2>3, ConstantsAssumption DEF Owned, ReadPwdb
      <3> QED
        BY <3>1, <3>3, <3>4 DEF DecryptOk, Opens
    <2> QED
      BY <1>3, <2>2, <2>3
  <1> QED
    BY <1>1, <1>2, <1>3

LEMMA RestoreMade ==
    ASSUME NEW p \in Profile, NEW x \in Profile, NEW u \in Users, NEW m \in Secrets,
           NEW ss \in Secrets \cup {NoSecret}, NEW bare \in BOOLEAN, NEW f \in Fault,
           Made(x, p, u, m), x.plbuf = NULL \/ (p.sessioned = FALSE => Opens(p, u, m))
    PROVE  Made(Restore(x, u, m, ss, bare, f), p, u, m)
  <1> DEFINE cut  == "reencrypt" \in f.also
             lost == "restore" \in f.also
             t == IF bare THEN [x EXCEPT !.plbuf.framed = TRUE] ELSE x
             e == Encrypt(t, u, m, cut, f.how)
             k == Setkey(e, u, m, ss, lost, f.how)
  <1>1. Restore(x, u, m, ss, bare, f) =
           IF x.plbuf = NULL \/ (bare /\ "reshuffle" \in f.also) THEN x
           ELSE IF cut \/ ~x.sessioned \/ ss = NoSecret THEN e
           ELSE k
    BY DEF Restore
  <1>2. cut \in BOOLEAN /\ lost \in BOOLEAN
    OBVIOUS
  <1> HIDE DEF cut, lost
  <1>3. CASE x.plbuf = NULL
    BY <1>1, <1>3
  <1>4. CASE x.plbuf # NULL
    <2>1. x.plbuf \in Text
      BY <1>4 DEF Profile
    <2>2. t \in Profile /\ t.plbuf # NULL /\ t.pwdb = x.pwdb /\ t.path = x.path /\ t.sessioned = x.sessioned
      <3>1. CASE bare
        <4>1. t = [x EXCEPT !.plbuf = [x.plbuf EXCEPT !.framed = TRUE]]
          BY <3>1
        <4>2. [x.plbuf EXCEPT !.framed = TRUE] \in Text
          BY <2>1 DEF Text
        <4> QED
          BY <4>1, <4>2, NullAssumption DEF Profile
      <3>2. CASE ~bare
        BY <1>4, <3>2
      <3> QED
        BY <3>1, <3>2
    <2> HIDE DEF t
    <2>3. Made(t, p, u, m)
      BY <2>2 DEF Made
    <2>4. e \in Profile /\ Made(e, p, u, m) /\ e.sessioned = x.sessioned
      <3>1. e \in Profile /\ e.sessioned = t.sessioned
        BY <1>2, <2>2, EncryptType
      <3>2. Made(e, p, u, m)
        BY <1>2, <1>4, <2>2, <2>3, EncryptMade
      <3> QED
        BY <2>2, <3>1, <3>2
    <2> HIDE DEF e
    <2>5. ss # NoSecret => k.path = e.path /\ k.sessioned = e.sessioned
      BY <1>2, <2>4, SetkeyFrame
    <2> HIDE DEF k
    <2>6. ss # NoSecret /\ x.sessioned => Made(k, p, u, m)
      BY <2>4, <2>5 DEF Made
    <2> QED
      BY <1>1, <1>2, <2>4, <2>6
  <1> QED
    BY <1>3, <1>4

LEMMA DroppedMade ==
    ASSUME NEW p, NEW x \in Profile, NEW u, NEW m, Made(x, p, u, m)
    PROVE  Made(Dropped(x), p, u, m)
  BY DEF Dropped, Profile, Made

LEMMA SealedMade ==
    ASSUME NEW p \in Profile, NEW x \in Profile, NEW u \in Users, NEW m \in Secrets,
           Made(x, p, u, m), p.sessioned = FALSE => Opens(p, u, m), NEW db \in Db, NEW f \in Fault
    PROVE  Made(Sealed(x, u, m, db, f), p, u, m)
  <1> DEFINE t == [x EXCEPT !.plbuf = Framed(db)]
             cut == f.at = "encrypt"
  <1>1. t \in Profile /\ t.plbuf # NULL
        /\ t.pwdb = x.pwdb /\ t.path = x.path /\ t.sessioned = x.sessioned
    BY TextTypes, NullAssumption DEF Profile
  <1>2. cut \in BOOLEAN
    OBVIOUS
  <1>3. Sealed(x, u, m, db, f) = Encrypt(t, u, m, cut, f.how)
    BY DEF Sealed
  <1> HIDE DEF t, cut
  <1>4. Made(t, p, u, m)
    BY <1>1 DEF Made
  <1> QED
    BY <1>1, <1>2, <1>3, <1>4, EncryptMade

LEMMA SealedUnder ==
    ASSUME NEW x \in Profile, NEW u, NEW m, NEW db, NEW f, f.at # "encrypt"
    PROVE  Sealed(x, u, m, db, f).pwdb = [user |-> u, secret |-> m, text |-> Framed(db)]
  BY DEF Sealed, Encrypt, Profile

LEMMA RekeyedMade ==
    ASSUME NEW p \in Profile, NEW x \in Profile, NEW u \in Users, NEW m \in Secrets,
           NEW ss \in Secrets \cup {NoSecret}, x.sessioned => ss # NoSecret, NEW f \in Fault,
           Made(x, p, u, m)
    PROVE  Made(Rekeyed(x, u, m, ss, f), p, u, m)
  <1> DEFINE cut == f.at = "rekey"
             k   == Setkey(x, u, m, ss, cut, f.how)
  <1>1. cut \in BOOLEAN /\ x.sessioned \in BOOLEAN
    BY DEF Profile
  <1>2. Rekeyed(x, u, m, ss, f) = IF x.sessioned THEN k ELSE x
    BY DEF Rekeyed
  <1> HIDE DEF cut
  <1>3. ASSUME ss \in Secrets
        PROVE  k.path = x.path /\ k.sessioned = x.sessioned
    <2>1. k.path = x.path
      BY <1>1, <1>3, SetkeyFrame
    <2>2. k.sessioned = x.sessioned
      BY <1>1, <1>3, SetkeyFrame
    <2> QED
      BY <2>1, <2>2
  <1> HIDE DEF k
  <1> QED
    BY <1>1, <1>2, <1>3 DEF Made

-----------------------------------------------------------------------------
(* What a step leaves behind *)

\* The ciphertext of a profile without a session is under the password of the request.
Keyed(x, u, m) ==
    x.sessioned = FALSE /\ x.pwdb # NULL => x.pwdb.user = u /\ x.pwdb.secret = m

LEMMA MadeKeyed ==
    ASSUME NEW p, NEW x, NEW u, NEW m, Made(x, p, u, m), p.sessioned = FALSE => Opens(p, u, m)
    PROVE  Keyed(x, u, m)
  BY DEF Made, Keyed, Opens

LEMMA StillStep ==
    ASSUME TypeOK, KeyInv, UNCHANGED disk, NEW u \in Users,
           UNCHANGED profiles \/ Keep(u, NULL)
    PROVE  KeyStep
  BY DEF TypeOK, KeyInv, KeyStep, KeysFixed, Keep, Attached, SameKey, Owned

LEMMA LooksStep ==
    ASSUME TypeOK, KeyInv, UNCHANGED disk, NEW u \in Users, NEW x, Keep(u, x),
           SameKey(u, x, disk[x.path])
    PROVE  KeyStep
  BY DEF TypeOK, KeyInv, KeyStep, KeysFixed, Keep, Attached, SameKey, Owned

LEMMA MadeStep ==
    ASSUME TypeOK, KeyInv, UNCHANGED disk, NEW u \in Users, profiles[u] # NULL,
           NEW x, Keep(u, x), NEW m, Made(x, profiles[u], u, m)
    PROVE  KeyStep
  <1> DEFINE p == profiles[u]
  <1>1. SameKey(u, p, disk[p.path])
    BY DEF KeyInv, Attached
  <1>2. SameKey(u, x, disk[x.path])
    BY <1>1 DEF SameKey, Made, Opens
  <1> QED
    BY <1>2, LooksStep

LEMMA WrittenStep ==
    ASSUME FilesOpen, TypeOK, KeyInv, NEW u \in Users, NEW path \in Paths, NEW f \in Faults,
           NEW c \in Cipher, c.user = u, kwrite(path, c, f),
           NEW x, x.path = path, Keep(u, x), Keyed(x, u, c.secret),
           (Owned(disk[path], u) => disk[path].secret = c.secret) \/ reply'.op = "init"
    PROVE  KeyStep
  <1>1. /\ disk' = [disk EXCEPT ![path] = disk'[path]]
        /\ disk'[path] \in {c, Torn} /\ Torn \notin Cipher
    BY ConstantsAssumption DEF kwrite, TypeOK, FilesOpen
  <1>2. KeysFixed
    <2> SUFFICES ASSUME NEW other \in Paths, disk[other] \in Cipher, disk'[other] \in Cipher,
                        disk[other].user = disk'[other].user, reply'.op # "init"
                 PROVE  disk[other].secret = disk'[other].secret
      BY DEF KeysFixed
    <2>1. CASE other # path
      BY <1>1, <2>1 DEF TypeOK
    <2>2. CASE other = path
      BY <1>1, <2>2 DEF Owned
    <2> QED
      BY <2>1, <2>2
  <1>3. SameKey(u, x, disk'[x.path])
    BY <1>1 DEF SameKey, Owned, Keyed
  <1>4. ASSUME NEW v \in Users, v # u, profiles[v] # NULL
        PROVE  SameKey(v, profiles[v], disk'[profiles[v].path])
    <2>1. SameKey(v, profiles[v], disk[profiles[v].path]) /\ profiles[v].path \in Paths
      BY <1>4 DEF KeyInv, Attached, TypeOK, Profile
    <2>2. Owned(disk'[profiles[v].path], v) => disk'[profiles[v].path] = disk[profiles[v].path]
      BY <1>1, <1>4, <2>1 DEF Owned, TypeOK
    <2> QED
      BY <2>1, <2>2 DEF SameKey
  <1>5. profiles' = [profiles EXCEPT ![u] = x]
    BY DEF Keep
  <1>6. KeyInv'
    BY <1>3, <1>4, <1>5 DEF KeyInv, Attached, SameKey, Owned, TypeOK
  <1> QED
    BY <1>2, <1>6 DEF KeyStep

LEMMA PowerStep ==
    ASSUME TypeOK, NEW path \in Paths, NEW u, NEW a, NEW f, PowerFails(path, u, a, f)
    PROVE  KeyStep
  <1>1. disk' = [disk EXCEPT ![path] = Torn] /\ Torn \notin Cipher
    BY ConstantsAssumption DEF PowerFails
  <1>2. KeysFixed
    BY <1>1 DEF KeysFixed, TypeOK
  <1>3. KeyInv'
    BY DEF PowerFails, KeyInv, Attached
  <1> QED
    BY <1>2, <1>3 DEF KeyStep

-----------------------------------------------------------------------------
(* The handlers *)

LEMMA AddKeys ==
    ASSUME FilesOpen, TypeOK, KeyInv, NEW u \in Users, NEW m \in Secrets,
           NEW ss \in Secrets \cup {NoSecret}, NEW a \in Aliases, NEW w \in Passwds,
           NEW f \in Faults, AddPassword(u, m, ss, a, w, f)
    PROVE  KeyStep
  <1> DEFINE p  == profiles[u]
             x  == Open(p, u, m, ss, f).p
             st == Open(p, u, m, ss, f).status
             db == DetachedDb(x.plbuf)
             in == Inserted(db, a, w)
             q  == [x EXCEPT !.plbuf = Bare(db)]
             n  == [x EXCEPT !.plbuf = [framed |-> FALSE, db |-> in]]
             e  == Sealed(x, u, m, in, f)
             r  == Rekeyed(e, u, m, ss, f)
             Back(y, bare) == Keep(u, Restore(y, u, m, ss, bare, f))
  <1>1. \/ UNCHANGED profiles /\ UNCHANGED disk
        \/ /\ p # NULL /\ UNCHANGED disk
           /\ \/ p.sessioned /\ Back(p, FALSE)
              \/ st # "kNoError" /\ Back(x, FALSE)
              \/ st = "kNoError" /\ (Back(x, FALSE) \/ Back(q, TRUE) \/ Back(n, TRUE) \/ Back(e, FALSE))
        \/ /\ p # NULL /\ (p.sessioned => ss # NoSecret) /\ st = "kNoError"
           /\ f.at # "encrypt" /\ kwrite(e.path, e.pwdb, f)
           /\ Back(e, FALSE) \/ Back(r, FALSE) \/ Keep(u, r)
        \/ p # NULL /\ PowerFails(p.path, u, a, f)
    BY ZenonT(60) DEF AddPassword, AddStops, AddWrites, AddFails, Ready
  <1>2. /\ p \in Profile \cup {NULL} /\ f \in Fault
        /\ p # NULL => p.path \in Paths /\ p.sessioned \in BOOLEAN
    BY GoodFault DEF TypeOK, Profile
  <1>3. p # NULL => SameKey(u, p, disk[p.path]) /\ Made(p, p, u, m)
    BY DEF KeyInv, Attached, Made
  <1>4. CASE UNCHANGED profiles /\ UNCHANGED disk
    BY <1>4, StillStep
  <1>5. CASE p # NULL /\ PowerFails(p.path, u, a, f)
    BY <1>2, <1>5, PowerStep
  <1>6. ASSUME p # NULL PROVE KeyStep
    <2> HIDE DEF p
    <2>1. p \in Profile
      BY <1>2, <1>6
    <2>2. /\ x \in Profile /\ x.path = p.path /\ x.sessioned = p.sessioned
          /\ st = "kNoError" => x.plbuf \in Text
      BY <1>2, <2>1, OpenType
    <2>3. /\ Made(x, p, u, m)
          /\ st = "kNoError" => /\ p.sessioned = FALSE => Opens(p, u, m)
                                /\ Owned(disk[p.path], u) => disk[p.path].secret = m
          /\ st # "kNoError" /\ p.sessioned = FALSE => x.plbuf = NULL
      BY <1>2, <1>3, <1>6, <2>1, OpenKnows
    <2> HIDE DEF x, st
    <2>4. ASSUME NEW y \in Profile, Made(y, p, u, m), NEW bare \in BOOLEAN,
                 y.plbuf = NULL \/ (p.sessioned = FALSE => Opens(p, u, m))
          PROVE  Made(Restore(y, u, m, ss, bare, f), p, u, m)
      BY <1>2, <2>1, <2>4, RestoreMade
    <2>5. ASSUME NEW y, Made(y, p, u, m), Keep(u, y), UNCHANGED disk
          PROVE  KeyStep
      BY <1>6, <2>5, MadeStep DEF p
    <2>6. CASE p.sessioned /\ Back(p, FALSE) /\ UNCHANGED disk
      BY <1>2, <1>3, <1>6, <2>1, <2>4, <2>5, <2>6
    <2>7. CASE st # "kNoError" /\ Back(x, FALSE) /\ UNCHANGED disk
      BY <1>2, <1>6, <2>2, <2>3, <2>4, <2>5, <2>7
    <2>8. ASSUME st = "kNoError"
          PROVE  /\ q \in Profile /\ Made(q, p, u, m)
                 /\ n \in Profile /\ Made(n, p, u, m)
                 /\ e \in Profile /\ Made(e, p, u, m) /\ e.path = p.path /\ e.sessioned = p.sessioned
                 /\ f.at # "encrypt" => e.pwdb \in Cipher /\ e.pwdb.user = u /\ e.pwdb.secret = m
      <3>1. db \in Db /\ in \in Db
        BY <2>2, <2>8, DetachedType, DbTypes
      <3> HIDE DEF db, in
      <3>2. q \in Profile /\ q.pwdb = x.pwdb /\ q.path = x.path /\ q.sessioned = x.sessioned
        BY <2>2, <3>1, TextTypes DEF Profile
      <3>3. n \in Profile /\ n.pwdb = x.pwdb /\ n.path = x.path /\ n.sessioned = x.sessioned
        BY <2>2, <3>1, TextTypes DEF Profile
      <3>4. /\ e \in Profile /\ e.path = x.path /\ e.sessioned = x.sessioned
            /\ f.at # "encrypt" => e.pwdb \in Cipher
        BY <1>2, <2>2, <3>1, SealedType
      <3>5. Made(x, p, u, m) /\ (p.sessioned = FALSE => Opens(p, u, m))
        BY <2>3, <2>8
      <3>6. Made(e, p, u, m)
        BY <1>2, <2>1, <2>2, <3>1, <3>5, SealedMade
      <3>7. ASSUME f.at # "encrypt"
            PROVE  e.pwdb.user = u /\ e.pwdb.secret = m
        <4>1. e.pwdb = [user |-> u, secret |-> m, text |-> Framed(in)]
          BY <2>2, <3>7, SealedUnder
        <4> QED
          BY <4>1
      <3> HIDE DEF q, n, e
      <3>8. Made(q, p, u, m) /\ Made(n, p, u, m)
        BY <2>3, <3>2, <3>3 DEF Made
      <3> QED
        BY <2>2, <3>2, <3>3, <3>4, <3>6, <3>7, <3>8
    <2> HIDE DEF db, in, q, n, e
    <2>9. CASE /\ st = "kNoError" /\ UNCHANGED disk
               /\ Back(x, FALSE) \/ Back(q, TRUE) \/ Back(n, TRUE) \/ Back(e, FALSE)
      BY <2>2, <2>3, <2>4, <2>5, <2>8, <2>9
    <2>10. CASE /\ p.sessioned => ss # NoSecret
                /\ st = "kNoError" /\ f.at # "encrypt" /\ kwrite(e.path, e.pwdb, f)
                /\ Back(e, FALSE) \/ Back(r, FALSE) \/ Keep(u, r)
      <3>1. r \in Profile /\ Made(r, p, u, m)
        <4>1. e.sessioned => ss # NoSecret
          BY <2>8, <2>10
        <4>2. r \in Profile
          BY <1>2, <2>8, <2>10, <4>1, RekeyedType
        <4>3. Made(r, p, u, m)
          BY <1>2, <2>1, <2>8, <2>10, <4>1, RekeyedMade
        <4> QED
          BY <4>2, <4>3
      <3> HIDE DEF r
      <3>2. PICK y : Keep(u, y) /\ Made(y, p, u, m)
        BY <2>3, <2>4, <2>8, <2>10, <3>1
      <3>3. Keyed(y, u, m) /\ y.path = p.path
        BY <2>3, <2>10, <3>2, MadeKeyed DEF Made
      <3> QED
        BY <1>2, <1>6, <2>3, <2>8, <2>10, <3>2, <3>3, WrittenStep
    <2> QED
      BY <1>1, <1>4, <1>5, <1>6, <2>6, <2>7, <2>9, <2>10
  <1> QED
    BY <1>1, <1>4, <1>6

LEMMA DelKeys ==
    ASSUME FilesOpen, TypeOK, KeyInv, NEW u \in Users, NEW m \in Secrets,
           NEW ss \in Secrets \cup {NoSecret}, NEW a \in Aliases,
           NEW f \in Faults, DelPassword(u, m, ss, a, f)
    PROVE  KeyStep
  <1> DEFINE p    == profiles[u]
             x    == Open(p, u, m, ss, f).p
             st   == Open(p, u, m, ss, f).status
             db   == DetachedDb(x.plbuf)
             lost == "reencrypt" \in f.also
             c    == Encrypt(x, u, m, lost, f.how)
             e(b) == Sealed(x, u, m, Removed(db, b), f)
             r(b) == Rekeyed(e(b), u, m, ss, f)
             Back(y) == Keep(u, Dropped(y))
  <1>1. \/ UNCHANGED profiles /\ UNCHANGED disk
        \/ /\ p # NULL /\ UNCHANGED disk
           /\ \/ Back(p)
              \/ Back(x)
              \/ st = "kNoError" /\ Back(c)
              \/ st = "kNoError" /\ \E b \in findalias(db, a) : Back(e(b))
        \/ /\ p # NULL /\ (p.sessioned => ss # NoSecret) /\ st = "kNoError"
           /\ f.at # "encrypt"
           /\ \E b \in findalias(db, a) :
                 /\ kwrite(e(b).path, e(b).pwdb, f)
                 /\ Back(e(b)) \/ Back(r(b)) \/ Keep(u, r(b))
        \/ p # NULL /\ PowerFails(p.path, u, a, f)
    BY ZenonT(60) DEF DelPassword, DelStops, DelFindsNone, DelWrites, DelFails, Ready
  <1>2. /\ p \in Profile \cup {NULL} /\ f \in Fault /\ lost \in BOOLEAN
        /\ p # NULL => p.path \in Paths /\ p.sessioned \in BOOLEAN
    BY GoodFault DEF TypeOK, Profile
  <1>3. p # NULL => SameKey(u, p, disk[p.path]) /\ Made(p, p, u, m)
    BY DEF KeyInv, Attached, Made
  <1>4. CASE UNCHANGED profiles /\ UNCHANGED disk
    BY <1>4, StillStep
  <1>5. CASE p # NULL /\ PowerFails(p.path, u, a, f)
    BY <1>2, <1>5, PowerStep
  <1> HIDE DEF lost
  <1>6. ASSUME p # NULL PROVE KeyStep
    <2> HIDE DEF p
    <2>1. p \in Profile
      BY <1>2, <1>6
    <2>2. /\ x \in Profile /\ x.path = p.path /\ x.sessioned = p.sessioned
          /\ st = "kNoError" => x.plbuf \in Text
      BY <1>2, <2>1, OpenType
    <2>3. /\ Made(x, p, u, m)
          /\ st = "kNoError" => /\ p.sessioned = FALSE => Opens(p, u, m)
                                /\ Owned(disk[p.path], u) => disk[p.path].secret = m
      BY <1>2, <1>3, <1>6, <2>1, OpenKnows
    <2> HIDE DEF x, st
    <2>4. ASSUME NEW y \in Profile, Made(y, p, u, m), Back(y), UNCHANGED disk
          PROVE  KeyStep
      BY <1>6, <2>4, DroppedMade, MadeStep DEF p
    <2>5. ASSUME st = "kNoError"
          PROVE  c \in Profile /\ Made(c, p, u, m)
      <3>1. x.plbuf # NULL /\ (p.sessioned = FALSE => Opens(p, u, m))
        <4>1. x.plbuf # NULL
          BY <2>2, <2>5, NullAssumption
        <4> QED
          BY <2>3, <2>5, <4>1
      <3>2. c \in Profile
        BY <1>2, <2>2, <3>1, EncryptType
      <3>3. Made(c, p, u, m)
        BY <1>2, <2>1, <2>2, <2>3, <3>1, EncryptMade
      <3> QED
        BY <3>2, <3>3
    <2>6. ASSUME st = "kNoError", NEW b \in findalias(db, a)
          PROVE  /\ e(b) \in Profile /\ Made(e(b), p, u, m)
                 /\ e(b).path = p.path /\ e(b).sessioned = p.sessioned
                 /\ f.at # "encrypt" =>
                      e(b).pwdb \in Cipher /\ e(b).pwdb.user = u /\ e(b).pwdb.secret = m
      <3>1. db \in Db /\ Removed(db, b) \in Db
        BY <2>2, <2>6, DetachedType, DbTypes
      <3> HIDE DEF db
      <3>2. /\ e(b) \in Profile /\ e(b).path = x.path /\ e(b).sessioned = x.sessioned
            /\ f.at # "encrypt" => e(b).pwdb \in Cipher
        BY <1>2, <2>2, <3>1, SealedType
      <3>3. Made(x, p, u, m) /\ (p.sessioned = FALSE => Opens(p, u, m))
        BY <2>3, <2>6
      <3>4. Made(e(b), p, u, m)
        BY <1>2, <2>1, <2>2, <3>1, <3>3, SealedMade
      <3>5. ASSUME f.at # "encrypt"
            PROVE  e(b).pwdb.user = u /\ e(b).pwdb.secret = m
        <4>1. e(b).pwdb = [user |-> u, secret |-> m, text |-> Framed(Removed(db, b))]
          BY <2>2, <3>5, SealedUnder
        <4> QED
          BY <4>1
      <3> HIDE DEF e
      <3> QED
        BY <2>2, <3>2, <3>4, <3>5
    <2> HIDE DEF db, c, e
    <2>7. CASE /\ UNCHANGED disk
               /\ \/ Back(p)
                  \/ Back(x)
                  \/ st = "kNoError" /\ Back(c)
                  \/ st = "kNoError" /\ \E b \in findalias(db, a) : Back(e(b))
      BY <1>3, <1>6, <2>1, <2>2, <2>3, <2>4, <2>5, <2>6, <2>7
    <2>8. CASE /\ p.sessioned => ss # NoSecret
               /\ st = "kNoError" /\ f.at # "encrypt"
               /\ \E b \in findalias(db, a) :
                     /\ kwrite(e(b).path, e(b).pwdb, f)
                     /\ Back(e(b)) \/ Back(r(b)) \/ Keep(u, r(b))
      <3>1. PICK b \in findalias(db, a) :
                     /\ kwrite(e(b).path, e(b).pwdb, f)
                     /\ Back(e(b)) \/ Back(r(b)) \/ Keep(u, r(b))
        BY <2>8
      <3>2. e(b).sessioned => ss # NoSecret
        BY <2>6, <2>8
      <3>3. r(b) \in Profile
        BY <1>2, <2>6, <2>8, <3>2, RekeyedType
      <3>4. Made(r(b), p, u, m)
        BY <1>2, <2>1, <2>6, <2>8, <3>2, RekeyedMade
      <3> HIDE DEF r
      <3>5. PICK y : Keep(u, y) /\ Made(y, p, u, m)
        BY <2>6, <2>8, <3>1, <3>3, <3>4, DroppedMade
      <3>6. Keyed(y, u, m) /\ y.path = p.path
        BY <2>3, <2>8, <3>5, MadeKeyed DEF Made
      <3> QED
        BY <1>2, <1>6, <2>3, <2>6, <2>8, <3>1, <3>5, <3>6, WrittenStep
    <2> QED
      BY <1>1, <1>4, <1>5, <1>6, <2>7, <2>8
  <1> QED
    BY <1>1, <1>4, <1>6

LEMMA LookKeys ==
    ASSUME FilesOpen, TypeOK, KeyInv, NEW u \in Users, NEW s \in Secrets, NEW f \in Faults,
           \/ \E a \in Aliases : GetPassword(u, s, a, f)
           \/ ListAliases(u, s, f)
    PROVE  KeyStep
  <1> DEFINE p    == profiles[u]
             cut  == f.at = "decrypt"
             ok   == DecryptOk(p, u, s, cut)
             d    == Decrypt(p, u, s, cut)
             db   == DetachedDb(d.plbuf)
             lost == "reencrypt" \in f.also
             e    == Encrypt(d, u, s, lost, f.how)
             r    == Reseal(d, u, s, db, f)
  <1>1. /\ UNCHANGED disk
        /\ \/ p = NULL /\ Keep(u, NULL)
           \/ p # NULL /\ ~ok /\ Keep(u, d)
           \/ p # NULL /\ ok /\ Keep(u, e)
           \/ p # NULL /\ ok /\ Keep(u, r)
    <2>1. CASE \E a \in Aliases : GetPassword(u, s, a, f)
      <3>1. PICK a \in Aliases : GetPassword(u, s, a, f)
        BY <2>1
      <3> QED
        BY <3>1, ZenonT(60) DEF GetPassword
    <2>2. CASE ListAliases(u, s, f)
      BY <2>2, ZenonT(60) DEF ListAliases
    <2> QED
      BY <2>1, <2>2
  <1>2. p \in Profile \cup {NULL} /\ f \in Fault /\ cut \in BOOLEAN /\ lost \in BOOLEAN
    BY GoodFault DEF TypeOK
  <1>3. CASE p = NULL
    BY <1>1, <1>3, StillStep
  <1>4. CASE p # NULL
    <2>1. p \in Profile /\ Made(p, p, u, s)
      BY <1>2, <1>4 DEF Made
    <2>2. ok => d \in Profile /\ d.plbuf # NULL /\ db \in Db /\ Opens(p, u, s)
      BY <1>2, <2>1, OpenedType, NullAssumption DEF DecryptOk
    <2>3. ASSUME NEW y, Made(y, p, u, s), Keep(u, y)
          PROVE  KeyStep
      BY <1>1, <1>4, <2>3, MadeStep
    <2> HIDE DEF p, cut, lost
    <2>4. d \in Profile /\ Made(d, p, u, s)
      BY <1>2, <2>1, DecryptType, DecryptMade
    <2> HIDE DEF d, ok, db
    <2>5. ok => Made(e, p, u, s)
      BY <1>2, <2>1, <2>2, <2>4, EncryptMade
    <2>6. ok => Made(r, p, u, s)
      BY <1>2, <2>1, <2>2, <2>4, SealedMade, DroppedMade DEF Reseal
    <2> HIDE DEF e, r
    <2> QED
      BY <1>1, <1>4, <2>3, <2>4, <2>5, <2>6
  <1> QED
    BY <1>3, <1>4

\* What StartSession makes of a profile that was under m.
LEMMA StartKeyed ==
    ASSUME NEW op, NEW u \in Users, NEW p \in Profile, p.plbuf = NULL,
           NEW m \in Secrets, NEW ss \in Secrets \cup {NoSecret}, NEW f,
           StartSession(op, u, p, m, ss, f), Keyed(p, u, m)
    PROVE  \E x : Keep(u, x) /\ x.path = p.path /\ Keyed(x, u, m)
  <1> DEFINE cut == f.at = "rekey"
             ok  == SetkeyOk(p, u, m, cut, f.how)
             k   == Setkey(p, u, m, ss, cut, f.how)
             s   == [k EXCEPT !.sessioned = TRUE]
  <1>1. Keep(u, p) \/ (ss # NoSecret /\ Keep(u, s)) \/ (ss # NoSecret /\ ~ok /\ Keep(u, k))
    BY DEF StartSession
  <1>2. cut \in BOOLEAN
    OBVIOUS
  <1> HIDE DEF cut
  <1>3. ss # NoSecret => k \in Profile /\ k.path = p.path /\ k.sessioned = p.sessioned
    BY <1>2, SetkeyFrame
  <1>4. ss # NoSecret /\ ~ok => k.pwdb \in {p.pwdb, NULL}
    BY <1>2, SetkeyFails
  <1> HIDE DEF k, ok
  <1>5. ss # NoSecret => s.path = p.path /\ s.sessioned = TRUE
    BY <1>3 DEF Profile
  <1>6. ss # NoSecret /\ ~ok => Keyed(k, u, m)
    BY <1>3, <1>4 DEF Keyed
  <1> HIDE DEF s
  <1>7. ss # NoSecret => Keyed(s, u, m)
    BY <1>5 DEF Keyed
  <1> QED
    BY <1>1, <1>3, <1>5, <1>6, <1>7

LEMMA AttachKeys ==
    ASSUME FilesOpen, TypeOK, KeyInv, NEW u \in Users, NEW path \in Paths, NEW m \in Secrets,
           NEW ss \in Secrets \cup {NoSecret}, NEW f \in Faults,
           Attach(u, path, m, ss, f)
    PROVE  KeyStep
  <1> DEFINE p == NewProfile(path, ReadPwdb(path))
  <1>1. /\ UNCHANGED disk
        /\ \/ UNCHANGED profiles
           \/ /\ Readable(path) /\ DecryptOk(p, u, m, f.at = "decrypt")
              /\ StartSession("attach", u, p, m, ss, f)
    BY ZenonT(60) DEF Attach
  <1>2. CASE UNCHANGED profiles
    BY <1>1, <1>2, StillStep
  <1>3. CASE /\ Readable(path) /\ DecryptOk(p, u, m, f.at = "decrypt")
             /\ StartSession("attach", u, p, m, ss, f)
    <2>1. ReadPwdb(path) \in Cipher \cup {NULL} /\ (ReadPwdb(path) # NULL => ReadPwdb(path) = disk[path])
      BY <1>3, ReadType DEF ReadPwdb
    <2>2. p \in Profile /\ p.plbuf = NULL /\ p.pwdb = ReadPwdb(path) /\ p.path = path
      BY <2>1 DEF NewProfile, Profile
    <2>3. Opens(p, u, m)
      BY <1>3 DEF DecryptOk
    <2> HIDE DEF p
    <2>4. Keyed(p, u, m) /\ disk[path].secret = m
      BY <2>1, <2>2, <2>3 DEF Keyed, Opens
    <2>5. PICK x : Keep(u, x) /\ x.path = p.path /\ Keyed(x, u, m)
      BY <1>3, <2>2, <2>4, StartKeyed
    <2>6. SameKey(u, x, disk[x.path])
      BY <2>2, <2>4, <2>5 DEF SameKey, Keyed
    <2> QED
      BY <1>1, <2>5, <2>6, LooksStep
  <1> QED
    BY <1>1, <1>2, <1>3

LEMMA InitAttachKeys ==
    ASSUME FilesOpen, TypeOK, KeyInv, NEW u \in Users, NEW path \in Paths, NEW m \in Secrets,
           NEW ss \in Secrets \cup {NoSecret}, NEW f \in Faults,
           InitAttach(u, path, m, ss, f)
    PROVE  KeyStep
  <1> DEFINE cut == f.at = "encrypt"
             p == [NewProfile(path, NULL) EXCEPT !.plbuf = Framed(StubDb)]
             e == Encrypt(p, u, m, cut, f.how)
  <1>1. \/ Keep(u, profiles[u]) /\ UNCHANGED disk
        \/ Keep(u, NULL) /\ UNCHANGED disk
        \/ Keep(u, Dropped(p)) /\ UNCHANGED disk
        \/ f.at = "encrypt" /\ Keep(u, e) /\ UNCHANGED disk
        \/ /\ f.at # "encrypt" /\ kwrite(path, e.pwdb, f) /\ reply'.op = "init"
           /\ Keep(u, e) \/ StartSession("init", u, e, m, ss, f)
        \/ PowerFails(path, u, NULL, f)
    <2>1. StartSession("init", u, e, m, ss, f) => reply'.op = "init"
      BY DEF StartSession, Answer
    <2>2. \A err, status : Answer("init", u, NULL, f, err, status, {}) => reply'.op = "init"
      BY DEF Answer
    <2> QED
      BY <2>1, <2>2, ZenonT(60) DEF InitAttach
  <1>2. p \in Profile /\ p.plbuf # NULL /\ p.pwdb = NULL /\ p.path = path
    <2>1. p \in Profile /\ p.plbuf = Framed(StubDb) /\ p.pwdb = NULL /\ Framed(StubDb) # NULL /\ p.path = path
      BY StubDbType, TextTypes, NullAssumption DEF NewProfile, Profile
    <2> QED
      BY <2>1
  <1>3. cut \in BOOLEAN /\ (f.at # "encrypt" <=> ~cut)
    OBVIOUS
  <1>4. Dropped(p).pwdb = NULL
    BY <1>2 DEF Dropped, Profile
  <1> HIDE DEF p, cut
  <1>5. /\ e \in Profile /\ e.path = path
        /\ f.at # "encrypt" => e.pwdb \in Cipher /\ e.plbuf = NULL
    BY <1>2, <1>3, EncryptType
  <1>6. f.at # "encrypt" => e.pwdb.user = u /\ e.pwdb.secret = m
    BY <1>2, <1>3 DEF Encrypt, Profile
  <1>7. f.at = "encrypt" => e.pwdb = NULL
    BY <1>2, <1>3 DEF Encrypt, Profile
  <1> HIDE DEF e
  <1>8. ASSUME NEW x, x.pwdb = NULL, Keep(u, x), UNCHANGED disk
        PROVE  KeyStep
    BY <1>8, LooksStep DEF SameKey
  <1>9. CASE Keep(u, profiles[u]) /\ UNCHANGED disk
    <2>1. UNCHANGED profiles
      BY <1>9 DEF Keep, TypeOK
    <2> QED
      BY <1>9, <2>1, StillStep
  <1>10. CASE Keep(u, NULL) /\ UNCHANGED disk
    BY <1>10, StillStep
  <1>11. CASE /\ f.at # "encrypt" /\ kwrite(path, e.pwdb, f) /\ reply'.op = "init"
              /\ Keep(u, e) \/ StartSession("init", u, e, m, ss, f)
    <2>1. Keyed(e, u, m)
      BY <1>6, <1>11 DEF Keyed
    <2>2. PICK x : Keep(u, x) /\ x.path = path /\ Keyed(x, u, m)
      BY <1>5, <1>11, <2>1, StartKeyed
    <2> QED
      BY <1>5, <1>6, <1>11, <2>2, WrittenStep
  <1>12. CASE PowerFails(path, u, NULL, f)
    BY <1>12, PowerStep
  <1> QED
    BY <1>1, <1>4, <1>7, <1>8, <1>9, <1>10, <1>11, <1>12

LEMMA DetachKeys ==
    ASSUME FilesOpen, TypeOK, KeyInv, NEW u \in Users, NEW s \in Secrets, NEW f \in Faults,
           Detach(u, s, f)
    PROVE  KeyStep
  <1> DEFINE p == profiles[u]
             cut == f.at = "decrypt"
             d == Decrypt(p, u, s, cut)
  <1>1. /\ UNCHANGED disk
        /\ \/ Keep(u, NULL)
           \/ p # NULL /\ Keep(u, d)
    BY ZenonT(60) DEF Detach
  <1>2. CASE Keep(u, NULL)
    BY <1>1, <1>2, StillStep
  <1>3. CASE p # NULL /\ Keep(u, d)
    <2>1. p \in Profile /\ Made(p, p, u, s) /\ cut \in BOOLEAN
      BY <1>3 DEF TypeOK, Made
    <2> HIDE DEF cut
    <2>2. Made(d, p, u, s)
      BY <2>1, DecryptMade
    <2> HIDE DEF d
    <2> QED
      BY <1>1, <1>3, <2>2, MadeStep
  <1> QED
    BY <1>1, <1>2, <1>3

-----------------------------------------------------------------------------
(* The specification *)

LEMMA KeysStep ==
    ASSUME FilesOpen, TypeOK, KeyInv, [Next]_vars
    PROVE  KeyStep
  <1>1. ASSUME NEW op, NEW on, Boot(op, on)
        PROVE  KeyStep
    BY <1>1 DEF Boot, KeyStep, KeyInv, KeysFixed, Attached
  <1>2. CASE Load \/ Unload \/ Crash
    BY <1>1, <1>2 DEF Load, Unload, Crash
  <1>3. ASSUME NEW u \in Users, NEW f \in Faults, Ioctl(u, f)
        PROVE  KeyStep
    <2>1. PathsOf[u] \subseteq Paths
      BY ConstantsAssumption
    <2>2. PICK m \in Secrets :
             \/ \E path \in PathsOf[u], ss \in Secrets \cup {NoSecret} :
                   Attach(u, path, m, ss, f) \/ InitAttach(u, path, m, ss, f)
             \/ Detach(u, m, f)
             \/ ListAliases(u, m, f)
             \/ \E a \in Aliases : GetPassword(u, m, a, f)
             \/ \E a \in Aliases, ss \in Secrets \cup {NoSecret} :
                   \/ DelPassword(u, m, ss, a, f)
                   \/ \E w \in Passwds : AddPassword(u, m, ss, a, w, f)
      BY <1>3 DEF Ioctl
    <2> QED
      BY <2>1, <2>2, AttachKeys, InitAttachKeys, DetachKeys, LookKeys, DelKeys, AddKeys
  <1>4. CASE UNCHANGED vars
    BY <1>4 DEF vars, KeyStep, KeyInv, KeysFixed, Attached, SameKey, Owned
  <1> QED
    BY <1>2, <1>3, <1>4 DEF Next

\* Whatever fails, as long as a file that is there can be opened for writing, the key of
\* a PWDB file is the one its owner gave when the file was made: no session password and
\* no stale copy in memory ever gets to the disk under another.
THEOREM DeviceKeepsKeys ==
    ASSUME FilesOpen
    PROVE  Spec => FileKeyFixed
  <1>1. Init => TypeOK /\ KeyInv
    <2>1. Init => KeyInv
      BY DEF Init, KeyInv, Attached
    <2> QED
      BY <2>1, InitSafe
  <1>2. TypeOK /\ KeyInv /\ [Next]_vars => TypeOK' /\ KeyInv' /\ KeysFixed
    BY StepSafe, KeysStep DEF KeyStep
  <1> QED
    BY <1>1, <1>2, PTL DEF Spec, FileKeyFixed, KeysFixed

-----------------------------------------------------------------------------
(* The detour of add and del over the master password *)

\* What SuccessKeepsKey says of a step.
KeyKept ==
    \A u \in Users :
       (reply'.user = u /\ reply'.status = "kNoError" /\ Attached(u) /\ profiles'[u] # NULL)
       => \/ profiles'[u].pwdb = NULL /\ reply'.fault.at = "encrypt"
          \/ /\ profiles'[u].pwdb # NULL
             /\ profiles'[u].pwdb.secret = profiles[u].pwdb.secret

\* A handler has answered user u, with kNoError or without.
Granted(u, f) == \E op, a, err, out : Answer(op, u, a, f, err, "kNoError", out)
Refusals == {"kInvalidParams", "kAliasNotFound", "kAliasAlreadyUsed",
             "kProfilePreviouslyAttached", "kProfileNotAttached",
             "kAuthenticationFailure", "kGeneralError", "kPWDBReadingError",
             "kPWDBWritingError"}
Refused(u, f) ==
    \E op, a, err, status, out : /\ Answer(op, u, a, f, err, status, out)
                                 /\ status \in Refusals \/ status # "kNoError"

LEMMA RefusedReply ==
    ASSUME NEW u, NEW f, Refused(u, f)
    PROVE  KeyKept
  <1>1. reply'.status # "kNoError"
    BY DEF Refused, Refusals, Answer
  <1> QED
    BY <1>1 DEF KeyKept

LEMMA GrantedReply ==
    ASSUME NEW u, NEW f, Granted(u, f)
    PROVE  reply'.user = u /\ reply'.fault = f
  BY DEF Granted, Answer

LEMMA SetkeyKey ==
    ASSUME NEW x \in Profile, NEW u \in Users, NEW old, NEW new \in Secrets,
           NEW bad \in BOOLEAN, NEW how, SetkeyOk(x, u, old, bad, how)
    PROVE  /\ Setkey(x, u, old, new, bad, how).pwdb # NULL
           /\ Setkey(x, u, old, new, bad, how).pwdb.secret = new
  <1> DEFINE first  == bad /\ how \notin {"midway", "wipe", "late"}
             second == bad /\ how \in {"midway", "wipe"}
             d == Decrypt(x, u, old, first)
             e == Encrypt(d, u, new, second, how)
             z == Decrypt(e, u, new, bad /\ how = "late")
  <1>1. Setkey(x, u, old, new, bad, how) =
           IF d.plbuf = NULL THEN d ELSE IF e.plbuf # NULL \/ x.plbuf = NULL THEN e ELSE z
    BY DEF Setkey
  <1>2. ~first /\ ~second /\ first \in BOOLEAN /\ second \in BOOLEAN /\ Opens(x, u, old)
        /\ (bad /\ how = "late") \in BOOLEAN
    BY DEF SetkeyOk
  <1> HIDE DEF first, second
  <1>3. d \in Profile /\ d.plbuf \in Text
    BY <1>2, DecryptType DEF DecryptOk
  <1>4. d.plbuf # NULL
    BY <1>3, NullAssumption
  <1> HIDE DEF d
  <1>5. e \in Profile /\ e.pwdb # NULL /\ e.pwdb.secret = new
    <2>1. e \in Profile /\ e.pwdb \in Cipher
      BY <1>2, <1>3, <1>4, EncryptType
    <2>2. e.pwdb.secret = new
      BY <1>2, <1>3 DEF Encrypt, Profile
    <2> QED
      BY <2>1, <2>2, NullAssumption
  <1> HIDE DEF e
  <1>6. z.pwdb = e.pwdb
    BY <1>2, <1>5, DecryptType
  <1> QED
    BY <1>1, <1>4, <1>5, <1>6

\* The password that opens the profile for add and del is the one it is under.
LEMMA OpenKey ==
    ASSUME NEW u, NEW p, p.sessioned \in BOOLEAN, NEW m, NEW ss, NEW f,
           Open(p, u, m, ss, f).status = "kNoError"
    PROVE  Opens(p, u, IF p.sessioned THEN ss ELSE m)
  BY DEF Open, SetkeyOk, DecryptOk

\* What was sealed with the master password goes back under the password it came with.
LEMMA RekeyedKey ==
    ASSUME NEW x \in Profile, NEW u \in Users, NEW m \in Secrets, NEW db \in Db,
           NEW ss \in Secrets \cup {NoSecret}, x.sessioned => ss # NoSecret,
           NEW f \in Fault, f.at # "encrypt", RekeyOk(Sealed(x, u, m, db, f), u, m, f)
    PROVE  LET r == Rekeyed(Sealed(x, u, m, db, f), u, m, ss, f)
           IN  r.pwdb # NULL /\ r.pwdb.secret = IF x.sessioned THEN ss ELSE m
  <1> DEFINE e   == Sealed(x, u, m, db, f)
             cut == f.at = "rekey"
             k   == Setkey(e, u, m, ss, cut, f.how)
  <1>1. /\ e \in Profile /\ e.sessioned = x.sessioned /\ e.pwdb \in Cipher
        /\ e.pwdb = [user |-> u, secret |-> m, text |-> Framed(db)]
    BY SealedType, SealedUnder
  <1> HIDE DEF e
  <1>2. e.pwdb # NULL /\ e.pwdb.secret = m
    BY <1>1, NullAssumption
  <1>3. Rekeyed(e, u, m, ss, f) = IF e.sessioned THEN k ELSE e
    BY DEF Rekeyed
  <1>4. x.sessioned => SetkeyOk(e, u, m, cut, f.how)
    BY <1>1 DEF RekeyOk, e
  <1>5. cut \in BOOLEAN
    OBVIOUS
  <1> HIDE DEF cut
  <1>6. x.sessioned => k.pwdb # NULL /\ k.pwdb.secret = ss
    BY <1>1, <1>4, <1>5, SetkeyKey
  <1> QED
    BY <1>1, <1>2, <1>3, <1>6 DEF e

LEMMA EditKept ==
    ASSUME TypeOK, NEW u \in Users, NEW m \in Secrets, NEW ss \in Secrets \cup {NoSecret},
           NEW a \in Aliases, NEW f \in Faults,
           \/ \E w \in Passwds : AddPassword(u, m, ss, a, w, f)
           \/ DelPassword(u, m, ss, a, f)
    PROVE  KeyKept
  <1> DEFINE p  == profiles[u]
             x  == Open(p, u, m, ss, f).p
             st == Open(p, u, m, ss, f).status
             db == DetachedDb(x.plbuf)
             e(new) == Sealed(x, u, m, new, f)
             Done(new) == /\ RekeyOk(e(new), u, m, f)
                           /\ Keep(u, Rekeyed(e(new), u, m, ss, f))
  <1>1. \/ Refused(u, f)
        \/ /\ Granted(u, f)
           /\ /\ p # NULL /\ (p.sessioned => ss # NoSecret) /\ st = "kNoError"
              /\ f.at \in {"none", "rekey"}
              /\ \/ \E w \in Passwds : Done(Inserted(db, a, w))
                 \/ \E b \in findalias(db, a) : Done(Removed(db, b))
    <2>1. CASE \E w \in Passwds : AddPassword(u, m, ss, a, w, f)
      <3>1. PICK w \in Passwds : AddPassword(u, m, ss, a, w, f)
        BY <2>1
      <3> QED
        BY <3>1, ZenonT(60) DEF AddPassword, AddStops, AddWrites, AddFails, PowerFails, Ready,
                                Refused, Refusals, Granted
    <2>2. CASE DelPassword(u, m, ss, a, f)
      BY <2>2, ZenonT(60) DEF DelPassword, DelFindsNone, DelStops, DelWrites, DelFails,
                              PowerFails, Ready, Refused, Refusals, Granted
    <2> QED
      BY <2>1, <2>2
  <1>2. CASE Refused(u, f)
    BY <1>2, RefusedReply
  <1>3. CASE /\ Granted(u, f)
             /\ p # NULL /\ (p.sessioned => ss # NoSecret) /\ st = "kNoError"
             /\ f.at \in {"none", "rekey"}
             /\ \/ \E w \in Passwds : Done(Inserted(db, a, w))
                \/ \E b \in findalias(db, a) : Done(Removed(db, b))
    <2>1. f \in Fault /\ f.at # "encrypt"
      BY <1>3, ConstantsAssumption
    <2>2. p \in Profile /\ p.sessioned \in BOOLEAN
      BY <1>3 DEF TypeOK, Profile
    <2>3. Opens(p, u, IF p.sessioned THEN ss ELSE m)
      BY <1>3, <2>2, OpenKey
    <2>4. x \in Profile /\ x.sessioned = p.sessioned /\ db \in Db
      BY <1>3, <2>1, <2>2, OpenType, DetachedType
    <2> HIDE DEF st, x, db
    <2>5. PICK new \in Db : Done(new)
      BY <1>3, <2>4, DbTypes
    <2> DEFINE r == Rekeyed(e(new), u, m, ss, f)
    <2>6. r.pwdb # NULL /\ r.pwdb.secret = IF x.sessioned THEN ss ELSE m
      BY <1>3, <2>1, <2>4, <2>5, RekeyedKey
    <2>7. p.pwdb.secret = IF p.sessioned THEN ss ELSE m
      BY <2>3 DEF Opens
    <2>8. profiles'[u] = r
      BY <2>5 DEF Keep, TypeOK
    <2> HIDE DEF r
    <2> QED
      BY <1>3, <2>4, <2>6, <2>7, <2>8, GrantedReply DEF KeyKept
  <1> QED
    BY <1>1, <1>2, <1>3

LEMMA LookKept ==
    ASSUME TypeOK, NEW u \in Users, NEW s \in Secrets, NEW f \in Faults,
           \/ \E a \in Aliases : GetPassword(u, s, a, f)
           \/ ListAliases(u, s, f)
    PROVE  KeyKept
  <1> DEFINE p   == profiles[u]
             cut == f.at = "decrypt"
             ok  == DecryptOk(p, u, s, cut)
             d   == Decrypt(p, u, s, cut)
             db  == DetachedDb(d.plbuf)
             e   == Sealed(d, u, s, db, f)
             r   == Reseal(d, u, s, db, f)
  <1>1. \/ Refused(u, f)
        \/ Granted(u, f) /\ p # NULL /\ ok /\ Keep(u, r)
    <2>1. CASE \E a \in Aliases : GetPassword(u, s, a, f)
      <3>1. PICK a \in Aliases : GetPassword(u, s, a, f)
        BY <2>1
      <3> QED
        BY <3>1, ZenonT(60) DEF GetPassword, Refused, Refusals, Granted
    <2>2. CASE ListAliases(u, s, f)
      BY <2>2, ZenonT(60) DEF ListAliases, Refused, Refusals, Granted
    <2> QED
      BY <2>1, <2>2
  <1>2. CASE Refused(u, f)
    BY <1>2, RefusedReply
  <1>3. CASE Granted(u, f) /\ p # NULL /\ ok /\ Keep(u, r)
    <2>1. p \in Profile /\ f \in Fault /\ cut \in BOOLEAN
      BY <1>3, ConstantsAssumption DEF TypeOK
    <2>2. p.pwdb # NULL /\ p.pwdb.secret = s
      BY <1>3 DEF DecryptOk, Opens
    <2> HIDE DEF cut
    <2>3. d \in Profile /\ d.pwdb = p.pwdb /\ db \in Db
      BY <1>3, <2>1, DecryptType, DetachedType
    <2> HIDE DEF d, db, ok
    <2>4. \/ e.pwdb = NULL /\ f.at = "encrypt"
          \/ e.pwdb # NULL /\ e.pwdb.secret = s
      <3>1. CASE f.at = "encrypt"
        BY <2>2, <2>3, <3>1 DEF Sealed, Encrypt, Profile
      <3>2. CASE f.at # "encrypt"
        <4>1. e.pwdb \in Cipher /\ e.pwdb = [user |-> u, secret |-> s, text |-> Framed(db)]
          BY <2>1, <2>3, <3>2, SealedType, SealedUnder
        <4> HIDE DEF e
        <4> QED
          BY <4>1, NullAssumption
      <3> QED
        BY <3>1, <3>2
    <2>5. Dropped(d).pwdb = p.pwdb
      BY <2>3 DEF Dropped, Profile
    <2>6. r \in {Dropped(d), e}
      BY DEF Reseal
    <2>7. profiles'[u] = r
      BY <1>3 DEF Keep, TypeOK
    <2> HIDE DEF e, r
    <2> QED
      BY <1>3, <2>2, <2>4, <2>5, <2>6, <2>7, GrantedReply DEF KeyKept
  <1> QED
    BY <1>1, <1>2, <1>3

LEMMA ComeAndGoKept ==
    ASSUME TypeOK, NEW u \in Users, NEW m \in Secrets, NEW f \in Faults,
           \/ \E path \in PathsOf[u], ss \in Secrets \cup {NoSecret} :
                 Attach(u, path, m, ss, f) \/ InitAttach(u, path, m, ss, f)
           \/ Detach(u, m, f)
    PROVE  KeyKept
  <1>1. \/ Refused(u, f)
        \/ Granted(u, f) /\ (profiles[u] = NULL \/ Keep(u, NULL))
    <2>1. ASSUME NEW path \in PathsOf[u], NEW ss \in Secrets \cup {NoSecret}, Attach(u, path, m, ss, f)
          PROVE  Refused(u, f) \/ (Granted(u, f) /\ profiles[u] = NULL)
      BY <2>1, ZenonT(60) DEF Attach, StartSession, Refused, Refusals, Granted
    <2>2. ASSUME NEW path \in PathsOf[u], NEW ss \in Secrets \cup {NoSecret}, InitAttach(u, path, m, ss, f)
          PROVE  Refused(u, f) \/ (Granted(u, f) /\ profiles[u] = NULL)
      BY <2>2, ZenonT(60) DEF InitAttach, StartSession, PowerFails, Refused, Refusals, Granted
    <2>3. CASE Detach(u, m, f)
      BY <2>3, ZenonT(60) DEF Detach, Refused, Refusals, Granted
    <2> QED
      BY <2>1, <2>2, <2>3
  <1>2. Keep(u, NULL) => profiles'[u] = NULL
    BY DEF Keep, TypeOK
  <1> QED
    BY <1>1, <1>2, RefusedReply, GrantedReply DEF KeyKept, Attached

\* A handler that answers kNoError gives the profile back under the password it was
\* under, for any number of users and passwords and whatever fails on its way.
THEOREM DeviceGivesKeyBack == Spec => SuccessKeepsKey
  <1>1. TypeOK /\ Next => KeyKept
    <2>1. ASSUME Load \/ Unload \/ Crash
          PROVE  KeyKept
      BY <2>1 DEF Load, Unload, Crash, Boot, KeyKept
    <2>2. ASSUME TypeOK, NEW u \in Users, NEW f \in Faults, Ioctl(u, f)
          PROVE  KeyKept
      <3>1. PICK m \in Secrets :
               \/ \E path \in PathsOf[u], ss \in Secrets \cup {NoSecret} :
                     Attach(u, path, m, ss, f) \/ InitAttach(u, path, m, ss, f)
               \/ Detach(u, m, f)
               \/ ListAliases(u, m, f)
               \/ \E a \in Aliases : GetPassword(u, m, a, f)
               \/ \E a \in Aliases, ss \in Secrets \cup {NoSecret} :
                     \/ DelPassword(u, m, ss, a, f)
                     \/ \E w \in Passwds : AddPassword(u, m, ss, a, w, f)
        BY <2>2 DEF Ioctl
      <3> QED
        BY <2>2, <3>1, ComeAndGoKept, LookKept, EditKept
    <2> QED
      BY <2>1, <2>2 DEF Next
  <1>2. TypeOK /\ [Next]_vars => [KeyKept]_vars
    BY <1>1
  <1> QED
    BY <1>2, DeviceTypeCorrect, PTL DEF Spec, SuccessKeepsKey, KeyKept

-----------------------------------------------------------------------------
(***************************************************************************)
(* What every handler has put away when it returns: the plaintext, but     *)
(* where SealingFails names the call, and a PWDB that can be decrypted,    *)
(* but where a cipher or the loading of a file fails.  For every fault.    *)
(***************************************************************************)

\* x has a PWDB if p has one and no cipher has freed it.
Kept(p, x, f) == p.pwdb # NULL /\ f.how # "wipe" => x.pwdb # NULL

\* The file of a sessioned profile cannot be loaded again.
Unloadable(p, f) == p.sessioned /\ (f.at = "reload" \/ disk[p.path] \notin Cipher)

\* What PlaintextCleared and PwdbSurvives say of a user, and of a step.
Cleared(u, x) ==
    (x # NULL /\ x.plbuf # NULL)
    => x = profiles[u] \/ (reply'.user = u /\ SealingFails(reply'))

Survives(u, x) ==
    (Attached(u) /\ profiles[u].pwdb # NULL /\ x # NULL)
    => \/ x.pwdb # NULL
       \/ reply'.user = u /\ reply'.fault.how = "wipe"
       \/ /\ reply'.user = u /\ reply'.op \in {"add", "del"} /\ profiles[u].sessioned
          /\ reply'.fault.at = "reload" \/ disk[profiles[u].path] \notin Cipher

PutAway == \A u \in Users : Cleared(u, profiles'[u]) /\ Survives(u, profiles'[u])

LEMMA KeepPut ==
    ASSUME TypeOK, NEW u \in Users, NEW x, Keep(u, x), Cleared(u, x), Survives(u, x)
    PROVE  PutAway
  <1>1. profiles'[u] = x /\ \A v \in Users \ {u} : profiles'[v] = profiles[v]
    BY DEF Keep, TypeOK
  <1>2. ASSUME NEW v \in Users \ {u}
        PROVE  Cleared(v, profiles'[v]) /\ Survives(v, profiles'[v])
    BY <1>1, <1>2 DEF Cleared, Survives
  <1> QED
    BY <1>1, <1>2 DEF PutAway

LEMMA StillPut ==
    ASSUME TypeOK, UNCHANGED profiles
    PROVE  PutAway
  BY DEF PutAway, Cleared, Survives

LEMMA GonePut ==
    ASSUME profiles' = [v \in Users |-> NULL]
    PROVE  PutAway
  BY DEF PutAway, Cleared, Survives

-----------------------------------------------------------------------------
(* crypto.c and the helpers of actions.c *)

LEMMA EncryptKept ==
    ASSUME NEW p \in Profile, NEW u \in Users, NEW s \in Secrets, NEW bad \in BOOLEAN,
           NEW f \in Fault, bad \/ p.plbuf # NULL
    PROVE  Kept(p, Encrypt(p, u, s, bad, f.how), f)
  <1>1. CASE bad
    BY <1>1 DEF Encrypt, Kept, Profile
  <1>2. CASE ~bad
    BY <1>2, EncryptType, NullAssumption DEF Kept
  <1> QED
    BY <1>1, <1>2

LEMMA SetkeyKept ==
    ASSUME NEW p \in Profile, NEW u \in Users, NEW old, NEW new \in Secrets,
           NEW bad \in BOOLEAN, NEW f \in Fault
    PROVE  Kept(p, Setkey(p, u, old, new, bad, f.how), f)
  <1> DEFINE first  == bad /\ f.how \notin {"midway", "wipe", "late"}
             second == bad /\ f.how \in {"midway", "wipe"}
             third  == bad /\ f.how = "late"
             d == Decrypt(p, u, old, first)
             e == Encrypt(d, u, new, second, f.how)
             z == Decrypt(e, u, new, third)
  <1>1. first \in BOOLEAN /\ second \in BOOLEAN /\ third \in BOOLEAN
    OBVIOUS
  <1>2. Setkey(p, u, old, new, bad, f.how) =
           IF d.plbuf = NULL THEN d ELSE IF e.plbuf # NULL \/ p.plbuf = NULL THEN e ELSE z
    BY DEF Setkey
  <1> HIDE DEF first, second, third
  <1>3. d \in Profile /\ d.pwdb = p.pwdb
    BY <1>1, DecryptType
  <1> HIDE DEF d
  <1>4. d.plbuf # NULL => e \in Profile /\ Kept(d, e, f)
    BY <1>1, <1>3, EncryptType, EncryptKept
  <1> HIDE DEF e
  <1>5. d.plbuf # NULL => z.pwdb = e.pwdb
    BY <1>1, <1>4, DecryptType
  <1> HIDE DEF z
  <1> QED
    BY <1>2, <1>3, <1>4, <1>5 DEF Kept

LEMMA OpenKept ==
    ASSUME TypeOK, NEW u \in Users, NEW p \in Profile, NEW m \in Secrets, NEW ss, NEW f \in Fault,
           ~Unloadable(p, f)
    PROVE  Kept(p, Open(p, u, m, ss, f).p, f)
  <1> DEFINE bad == f.at = "validate"
             k   == Setkey(p, u, ss, m, bad, f.how)
             y   == [k EXCEPT !.pwdb = ReadPwdb(p.path)]
             r   == IF p.sessioned THEN y ELSE p
             cut == f.at = "decrypt"
  <1>1. p.sessioned => /\ disk[p.path] \in Cipher /\ f.at # "reload"
                       /\ Readable(p.path) /\ ReadPwdb(p.path) = disk[p.path]
    BY ConstantsAssumption DEF Unloadable, Readable, ReadPwdb
  <1>2. \/ Open(p, u, m, ss, f).p = k
        \/ Open(p, u, m, ss, f).p = Decrypt(r, u, m, cut)
    <2>1. CASE p.sessioned /\ ~SetkeyOk(p, u, ss, bad, f.how)
      BY <2>1 DEF Open
    <2>2. CASE ~(p.sessioned /\ ~SetkeyOk(p, u, ss, bad, f.how))
      BY <1>1, <2>2 DEF Open
    <2> QED
      BY <2>1, <2>2
  <1>3. bad \in BOOLEAN /\ cut \in BOOLEAN /\ p.sessioned \in BOOLEAN
    BY DEF Profile
  <1> HIDE DEF bad, cut
  <1>4. k \in Profile /\ Kept(p, k, f)
    BY <1>3, SetkeyFrame, SetkeyKept
  <1> HIDE DEF k
  <1>5. p.sessioned => y \in Profile /\ y.pwdb # NULL
    BY <1>1, <1>4, NullAssumption DEF Profile
  <1> HIDE DEF y
  <1>6. r \in Profile /\ Kept(p, r, f)
    BY <1>5 DEF Kept
  <1> HIDE DEF r
  <1>7. Decrypt(r, u, m, cut).pwdb = r.pwdb
    BY <1>3, <1>6, DecryptType
  <1> QED
    BY <1>2, <1>4, <1>6, <1>7 DEF Kept

LEMMA DroppedKept ==
    ASSUME NEW p \in Profile, NEW f
    PROVE  Kept(p, Dropped(p), f)
  BY DEF Dropped, Profile, Kept

LEMMA SealedKept ==
    ASSUME NEW p \in Profile, NEW u \in Users, NEW m \in Secrets, NEW db \in Db, NEW f \in Fault
    PROVE  Kept(p, Sealed(p, u, m, db, f), f)
  <1> DEFINE t == [p EXCEPT !.plbuf = Framed(db)]
             cut == f.at = "encrypt"
  <1>1. t \in Profile /\ t.pwdb = p.pwdb /\ t.plbuf # NULL
    BY TextTypes, NullAssumption DEF Profile
  <1>2. cut \in BOOLEAN /\ Sealed(p, u, m, db, f) = Encrypt(t, u, m, cut, f.how)
    BY DEF Sealed
  <1> HIDE DEF t, cut
  <1> QED
    BY <1>1, <1>2, EncryptKept DEF Kept

LEMMA RekeyedKept ==
    ASSUME NEW p \in Profile, NEW u \in Users, NEW m \in Secrets,
           NEW ss \in Secrets \cup {NoSecret}, p.sessioned => ss # NoSecret, NEW f \in Fault
    PROVE  Kept(p, Rekeyed(p, u, m, ss, f), f)
  <1> DEFINE cut == f.at = "rekey"
  <1>1. Rekeyed(p, u, m, ss, f) = IF p.sessioned THEN Setkey(p, u, m, ss, cut, f.how) ELSE p
    BY DEF Rekeyed
  <1>2. cut \in BOOLEAN
    OBVIOUS
  <1> HIDE DEF cut
  <1>3. p.sessioned => Kept(p, Setkey(p, u, m, ss, cut, f.how), f)
    BY <1>2, SetkeyKept
  <1> QED
    BY <1>1, <1>3 DEF Kept

\* A change of key that has succeeded leaves nothing in the clear.
LEMMA RekeyedClear ==
    ASSUME NEW p \in Profile, NEW u \in Users, NEW m \in Secrets,
           NEW ss \in Secrets \cup {NoSecret}, p.sessioned => ss # NoSecret, NEW f \in Fault,
           p.plbuf = NULL, RekeyOk(p, u, m, f)
    PROVE  Rekeyed(p, u, m, ss, f).plbuf = NULL
  <1> DEFINE cut == f.at = "rekey"
  <1>1. p.sessioned => ~(cut /\ f.how \in {"midway", "wipe"})
    BY DEF RekeyOk, SetkeyOk
  <1>2. Rekeyed(p, u, m, ss, f) = IF p.sessioned THEN Setkey(p, u, m, ss, cut, f.how) ELSE p
    BY DEF Rekeyed
  <1>3. cut \in BOOLEAN
    OBVIOUS
  <1> HIDE DEF cut
  <1> QED
    BY <1>1, <1>2, <1>3, SetkeyGood

LEMMA RestoreKept ==
    ASSUME NEW u \in Users, NEW p \in Profile, NEW m \in Secrets, NEW ss \in Secrets \cup {NoSecret},
           NEW bare \in BOOLEAN, NEW f \in Fault
    PROVE  Kept(p, Restore(p, u, m, ss, bare, f), f)
  <1> DEFINE cut  == "reencrypt" \in f.also
             lost == "restore" \in f.also
             t == IF bare THEN [p EXCEPT !.plbuf.framed = TRUE] ELSE p
             e == Encrypt(t, u, m, cut, f.how)
             k == Setkey(e, u, m, ss, lost, f.how)
  <1>1. Restore(p, u, m, ss, bare, f) =
           IF p.plbuf = NULL \/ (bare /\ "reshuffle" \in f.also) THEN p
           ELSE IF cut \/ ~p.sessioned \/ ss = NoSecret THEN e
           ELSE k
    BY DEF Restore
  <1>2. cut \in BOOLEAN /\ lost \in BOOLEAN
    OBVIOUS
  <1> HIDE DEF cut, lost
  <1>3. CASE p.plbuf = NULL
    BY <1>1, <1>3 DEF Kept
  <1>4. CASE p.plbuf # NULL
    <2>1. p.plbuf \in Text
      BY <1>4 DEF Profile
    <2>2. t \in Profile /\ t.plbuf # NULL /\ t.pwdb = p.pwdb
      <3>1. CASE bare
        <4>1. t = [p EXCEPT !.plbuf = [p.plbuf EXCEPT !.framed = TRUE]]
          BY <3>1
        <4>2. [p.plbuf EXCEPT !.framed = TRUE] \in Text
          BY <2>1 DEF Text
        <4> QED
          BY <4>1, <4>2, NullAssumption DEF Profile
      <3>2. CASE ~bare
        BY <1>4, <3>2
      <3> QED
        BY <3>1, <3>2
    <2> HIDE DEF t
    <2>3. e \in Profile /\ Kept(t, e, f)
      BY <1>2, <2>2, EncryptType, EncryptKept
    <2> HIDE DEF e
    <2>4. ss # NoSecret => Kept(e, k, f)
      BY <1>2, <2>3, SetkeyKept
    <2> HIDE DEF k
    <2> QED
      BY <1>1, <2>2, <2>3, <2>4 DEF Kept
  <1> QED
    BY <1>3, <1>4

-----------------------------------------------------------------------------
(* The handlers *)

\* How a handler of add or del leaves the profile p of u, of which it has made x.
LEMMA EditPut ==
    ASSUME TypeOK, NEW u \in Users, NEW f \in Fault, NEW x \in Profile, profiles[u] # NULL,
           Keep(u, x), reply'.user = u, reply'.fault = f, reply'.op \in {"add", "del"},
           ~Unloadable(profiles[u], f) => Kept(profiles[u], x, f),
           x.plbuf = NULL \/ SealingFails(reply')
    PROVE  PutAway
  <1>1. Cleared(u, x)
    BY DEF Cleared
  <1>2. Survives(u, x)
    BY DEF Survives, Kept, Unloadable
  <1> QED
    BY <1>1, <1>2, KeepPut

LEMMA AddFailsPut ==
    ASSUME TypeOK, NEW u \in Users, NEW m \in Secrets, NEW ss \in Secrets \cup {NoSecret},
           NEW a, NEW f \in Fault, NEW err, NEW status, NEW p \in Profile, NEW bare \in BOOLEAN,
           AddFails(u, m, ss, a, f, err, status, p, bare), profiles[u] # NULL,
           ~Unloadable(profiles[u], f) => Kept(profiles[u], p, f)
    PROVE  PutAway
  <1> DEFINE x == Restore(p, u, m, ss, bare, f)
  <1>1. Keep(u, x) /\ reply'.user = u /\ reply'.fault = f /\ reply'.op = "add"
    BY DEF AddFails, Answer
  <1>2. x \in Profile /\ Kept(p, x, f) /\ (Recovers(f) => x.plbuf = NULL)
    BY RestoreType, RestoreKept, RestoreGood
  <1>3. ~Recovers(f) => SealingFails(reply')
    BY <1>1 DEF Recovers, SealingFails
  <1> HIDE DEF x
  <1>4. ~Unloadable(profiles[u], f) => Kept(profiles[u], x, f)
    BY <1>2 DEF Kept
  <1> QED
    BY <1>1, <1>2, <1>3, <1>4, EditPut

LEMMA DelFailsPut ==
    ASSUME TypeOK, NEW u \in Users, NEW a, NEW f \in Fault, NEW err, NEW status, NEW p \in Profile,
           DelFails(u, a, f, err, status, p), profiles[u] # NULL,
           ~Unloadable(profiles[u], f) => Kept(profiles[u], p, f)
    PROVE  PutAway
  <1> DEFINE x == Dropped(p)
  <1>1. Keep(u, x) /\ reply'.user = u /\ reply'.fault = f /\ reply'.op = "del"
    BY DEF DelFails, Answer
  <1>2. x \in Profile /\ Kept(p, x, f) /\ x.plbuf = NULL
    BY DroppedType, DroppedKept
  <1> HIDE DEF x
  <1>3. ~Unloadable(profiles[u], f) => Kept(profiles[u], x, f)
    BY <1>2 DEF Kept
  <1> QED
    BY <1>1, <1>2, <1>3, EditPut

\* What both make of an open PWDB, and what is left when the new one is in the file.
LEMMA EditMade ==
    ASSUME TypeOK, NEW u \in Users, NEW m \in Secrets, NEW ss \in Secrets \cup {NoSecret},
           NEW f \in Fault, NEW x \in Profile, x.sessioned => ss # NoSecret, NEW new \in Db
    PROVE  LET e == Sealed(x, u, m, new, f)
               r == Rekeyed(e, u, m, ss, f)
           IN  /\ e \in Profile /\ Kept(x, e, f)
               /\ r \in Profile /\ Kept(x, r, f)
               /\ f.at # "encrypt" /\ RekeyOk(e, u, m, f) => r.plbuf = NULL
  <1> DEFINE e == Sealed(x, u, m, new, f)
             r == Rekeyed(e, u, m, ss, f)
  <1>1. /\ e \in Profile /\ Kept(x, e, f) /\ e.sessioned = x.sessioned
        /\ f.at # "encrypt" => e.plbuf = NULL
    BY SealedType, SealedKept, SealedGood
  <1> HIDE DEF e
  <1>2. r \in Profile /\ Kept(e, r, f)
    BY <1>1, RekeyedType, RekeyedKept
  <1>3. f.at # "encrypt" /\ RekeyOk(e, u, m, f) => r.plbuf = NULL
    BY <1>1, RekeyedClear
  <1> QED
    BY <1>1, <1>2, <1>3 DEF Kept, e

\* What they begin with.
LEMMA EditOpened ==
    ASSUME TypeOK, NEW u \in Users, NEW m \in Secrets, NEW ss, NEW f \in Fault, profiles[u] # NULL
    PROVE  LET p == profiles[u]
               o == Open(p, u, m, ss, f)
           IN  /\ p \in Profile /\ Kept(p, p, f)
               /\ o.p \in Profile /\ o.p.sessioned = p.sessioned
               /\ ~Unloadable(p, f) => Kept(p, o.p, f)
               /\ o.status = "kNoError" => DetachedDb(o.p.plbuf) \in Db
  <1>1. profiles[u] \in Profile
    BY DEF TypeOK
  <1> QED
    BY <1>1, OpenType, OpenKept, DetachedType DEF Kept

LEMMA AddPut ==
    ASSUME TypeOK, NEW u \in Users, NEW m \in Secrets, NEW ss \in Secrets \cup {NoSecret},
           NEW a \in Aliases, NEW w \in Passwds, NEW f \in Fault,
           AddPassword(u, m, ss, a, w, f)
    PROVE  PutAway
  <1> DEFINE p  == profiles[u]
             x  == Open(p, u, m, ss, f).p
             st == Open(p, u, m, ss, f).status
             db == DetachedDb(x.plbuf)
             q  == [x EXCEPT !.plbuf = Bare(db)]
             n  == [x EXCEPT !.plbuf = [framed |-> FALSE, db |-> Inserted(db, a, w)]]
             e  == Sealed(x, u, m, Inserted(db, a, w), f)
             r  == Rekeyed(e, u, m, ss, f)
             Fails(z, bare) == \E err, status : AddFails(u, m, ss, a, f, err, status, z, bare)
  <1>1. \/ UNCHANGED profiles
        \/ p # NULL /\ (Fails(p, FALSE) \/ Fails(x, FALSE))
        \/ /\ p # NULL /\ st = "kNoError"
           /\ Fails(q, TRUE) \/ Fails(n, TRUE) \/ Fails(e, FALSE)
        \/ /\ p # NULL /\ (p.sessioned => ss # NoSecret) /\ st = "kNoError"
           /\ \/ Fails(r, FALSE)
              \/ /\ f.at # "encrypt" /\ RekeyOk(e, u, m, f) /\ Keep(u, r)
                 /\ Answer("add", u, a, f, "0", "kNoError", {})
        \/ PowerFails(p.path, u, a, f)
    BY ZenonT(60) DEF AddPassword, AddStops, AddWrites, Ready
  <1>2. p # NULL => /\ p \in Profile /\ Kept(p, p, f)
                    /\ x \in Profile /\ x.sessioned = p.sessioned
                    /\ ~Unloadable(p, f) => Kept(p, x, f)
                    /\ st = "kNoError" => db \in Db
    BY EditOpened
  <1> HIDE DEF p, x, st, db
  <1>3. p # NULL /\ st = "kNoError" =>
           /\ q \in Profile /\ Kept(x, q, f)
           /\ n \in Profile /\ Kept(x, n, f)
           /\ e \in Profile /\ Kept(x, e, f)
    <2> SUFFICES ASSUME p # NULL, st = "kNoError"
                 PROVE  /\ q \in Profile /\ Kept(x, q, f)
                        /\ n \in Profile /\ Kept(x, n, f)
                        /\ e \in Profile /\ Kept(x, e, f)
      OBVIOUS
    <2>1. db \in Db /\ Inserted(db, a, w) \in Db /\ x \in Profile
      BY <1>2, DbTypes
    <2>2. q \in Profile /\ q.pwdb = x.pwdb
      BY <2>1, TextTypes DEF Profile
    <2>3. n \in Profile /\ n.pwdb = x.pwdb
      BY <2>1, TextTypes DEF Profile
    <2>4. e \in Profile /\ Kept(x, e, f)
      BY <2>1, SealedType, SealedKept
    <2> QED
      BY <2>2, <2>3, <2>4 DEF Kept
  <1>4. p # NULL /\ (p.sessioned => ss # NoSecret) /\ st = "kNoError" =>
           /\ r \in Profile /\ Kept(x, r, f)
           /\ f.at # "encrypt" /\ RekeyOk(e, u, m, f) => r.plbuf = NULL
    BY <1>2, DbTypes, EditMade
  <1> HIDE DEF q, n, e, r
  <1>5. ASSUME p # NULL, NEW z \in Profile, NEW bare \in BOOLEAN, Fails(z, bare),
               ~Unloadable(p, f) => Kept(p, z, f)
        PROVE  PutAway
    BY <1>5, AddFailsPut DEF p
  <1>6. CASE p # NULL /\ (Fails(p, FALSE) \/ Fails(x, FALSE))
    BY <1>2, <1>5, <1>6
  <1>7. CASE /\ p # NULL /\ st = "kNoError"
             /\ Fails(q, TRUE) \/ Fails(n, TRUE) \/ Fails(e, FALSE)
    <2>1. \A z : Kept(x, z, f) /\ ~Unloadable(p, f) => Kept(p, z, f)
      BY <1>2, <1>7 DEF Kept
    <2> QED
      BY <1>3, <1>5, <1>7, <2>1
  <1>8. CASE /\ p # NULL /\ (p.sessioned => ss # NoSecret) /\ st = "kNoError"
             /\ \/ Fails(r, FALSE)
                \/ /\ f.at # "encrypt" /\ RekeyOk(e, u, m, f) /\ Keep(u, r)
                   /\ Answer("add", u, a, f, "0", "kNoError", {})
    <2>1. r \in Profile /\ (~Unloadable(p, f) => Kept(p, r, f))
      BY <1>2, <1>4, <1>8 DEF Kept
    <2>2. CASE Fails(r, FALSE)
      BY <1>5, <1>8, <2>1, <2>2
    <2>3. CASE /\ f.at # "encrypt" /\ RekeyOk(e, u, m, f) /\ Keep(u, r)
               /\ Answer("add", u, a, f, "0", "kNoError", {})
      <3>1. r.plbuf = NULL
        BY <1>4, <1>8, <2>3
      <3>2. reply'.user = u /\ reply'.fault = f /\ reply'.op = "add"
        BY <2>3 DEF Answer
      <3> QED
        BY <1>8, <2>1, <2>3, <3>1, <3>2, EditPut DEF p
    <2> QED
      BY <1>8, <2>2, <2>3
  <1> QED
    BY <1>1, <1>6, <1>7, <1>8, StillPut, GonePut DEF PowerFails

LEMMA DelPut ==
    ASSUME TypeOK, NEW u \in Users, NEW m \in Secrets, NEW ss \in Secrets \cup {NoSecret},
           NEW a \in Aliases, NEW f \in Fault,
           DelPassword(u, m, ss, a, f)
    PROVE  PutAway
  <1> DEFINE p  == profiles[u]
             x  == Open(p, u, m, ss, f).p
             st == Open(p, u, m, ss, f).status
             db == DetachedDb(x.plbuf)
             lost == "reencrypt" \in f.also
             q  == Encrypt(x, u, m, lost, f.how)
             e(b) == Sealed(x, u, m, Removed(db, b), f)
             r(b) == Rekeyed(e(b), u, m, ss, f)
             Fails(z) == \E err, status : DelFails(u, a, f, err, status, z)
             Done(b) == /\ f.at # "encrypt" /\ RekeyOk(e(b), u, m, f) /\ Keep(u, r(b))
                        /\ Answer("del", u, a, f, "0", "kNoError", {})
  <1>1. \/ UNCHANGED profiles
        \/ p # NULL /\ (Fails(p) \/ Fails(x))
        \/ p # NULL /\ st = "kNoError" /\ Fails(q)
        \/ /\ p # NULL /\ (p.sessioned => ss # NoSecret) /\ st = "kNoError"
           /\ \E b \in findalias(db, a) : Fails(e(b)) \/ Fails(r(b)) \/ Done(b)
        \/ PowerFails(p.path, u, a, f)
    BY ZenonT(60) DEF DelPassword, DelFindsNone, DelStops, DelWrites, Ready
  <1>2. p # NULL => /\ p \in Profile /\ Kept(p, p, f)
                    /\ x \in Profile /\ x.sessioned = p.sessioned
                    /\ ~Unloadable(p, f) => Kept(p, x, f)
                    /\ st = "kNoError" => db \in Db
    BY EditOpened
  <1>3. p # NULL /\ st = "kNoError" => x.plbuf # NULL
    BY OpenType, NullAssumption DEF TypeOK
  <1>4. lost \in BOOLEAN
    OBVIOUS
  <1> HIDE DEF p, x, st, db, lost
  <1>5. p # NULL /\ st = "kNoError" => q \in Profile /\ Kept(x, q, f)
    BY <1>2, <1>3, <1>4, EncryptType, EncryptKept
  <1>6. ASSUME p # NULL, p.sessioned => ss # NoSecret, st = "kNoError", NEW b \in findalias(db, a)
        PROVE  /\ e(b) \in Profile /\ Kept(x, e(b), f)
               /\ r(b) \in Profile /\ Kept(x, r(b), f)
               /\ f.at # "encrypt" /\ RekeyOk(e(b), u, m, f) => r(b).plbuf = NULL
    <2>1. Removed(db, b) \in Db
      BY <1>2, <1>6, DbTypes
    <2> QED
      BY <1>2, <1>6, <2>1, EditMade
  <1> HIDE DEF q, e, r
  <1>7. ASSUME p # NULL, NEW z \in Profile, Fails(z), ~Unloadable(p, f) => Kept(p, z, f)
        PROVE  PutAway
    BY <1>7, DelFailsPut DEF p
  <1>8. p # NULL => \A z : Kept(x, z, f) /\ ~Unloadable(p, f) => Kept(p, z, f)
    BY <1>2 DEF Kept
  <1>9. CASE p # NULL /\ (Fails(p) \/ Fails(x))
    BY <1>2, <1>7, <1>9
  <1>10. CASE p # NULL /\ st = "kNoError" /\ Fails(q)
    BY <1>5, <1>7, <1>8, <1>10
  <1>11. CASE /\ p # NULL /\ (p.sessioned => ss # NoSecret) /\ st = "kNoError"
              /\ \E b \in findalias(db, a) : Fails(e(b)) \/ Fails(r(b)) \/ Done(b)
    <2>1. PICK b \in findalias(db, a) : Fails(e(b)) \/ Fails(r(b)) \/ Done(b)
      BY <1>11
    <2>2. CASE Fails(e(b)) \/ Fails(r(b))
      BY <1>6, <1>7, <1>8, <1>11, <2>2
    <2>3. CASE Done(b)
      <3>1. r(b) \in Profile /\ r(b).plbuf = NULL /\ (~Unloadable(p, f) => Kept(p, r(b), f))
        BY <1>6, <1>8, <1>11, <2>3
      <3>2. reply'.user = u /\ reply'.fault = f /\ reply'.op = "del"
        BY <2>3 DEF Answer
      <3> QED
        BY <1>11, <2>3, <3>1, <3>2, EditPut DEF p
    <2> QED
      BY <2>1, <2>2, <2>3
  <1> QED
    BY <1>1, <1>9, <1>10, <1>11, StillPut, GonePut DEF PowerFails

LEMMA LookPut ==
    ASSUME TypeOK, NEW u \in Users, NEW s \in Secrets, NEW f \in Fault,
           \/ \E a \in Aliases : GetPassword(u, s, a, f)
           \/ ListAliases(u, s, f)
    PROVE  PutAway
  <1> DEFINE p    == profiles[u]
             cut  == f.at = "decrypt"
             ok   == DecryptOk(p, u, s, cut)
             d    == Decrypt(p, u, s, cut)
             db   == DetachedDb(d.plbuf)
             lost == "reencrypt" \in f.also
             e    == Encrypt(d, u, s, lost, f.how)
             r    == Reseal(d, u, s, db, f)
             Looked == \E op \in {"get", "aliases"} : \E a, err, status, out :
                          Answer(op, u, a, f, err, status, out)
  <1>1. /\ Looked
        /\ \/ p = NULL /\ Keep(u, NULL)
           \/ p # NULL /\ ~ok /\ Keep(u, d)
           \/ p # NULL /\ ok /\ f.at = "detach" /\ Keep(u, e)
           \/ p # NULL /\ ok /\ Keep(u, r)
    <2>1. CASE \E a \in Aliases : GetPassword(u, s, a, f)
      <3>1. PICK a \in Aliases : GetPassword(u, s, a, f)
        BY <2>1
      <3> QED
        BY <3>1, ZenonT(60) DEF GetPassword
    <2>2. CASE ListAliases(u, s, f)
      BY <2>2, ZenonT(60) DEF ListAliases
    <2> QED
      BY <2>1, <2>2
  <1>2. reply'.user = u /\ reply'.fault = f /\ reply'.op \in {"get", "aliases"}
    BY <1>1 DEF Answer
  <1>3. p \in Profile \cup {NULL} /\ cut \in BOOLEAN /\ lost \in BOOLEAN
    BY DEF TypeOK
  <1>4. p # NULL /\ ok => d.plbuf # NULL /\ db \in Db
    BY <1>3, OpenedType, NullAssumption
  <1> HIDE DEF p, cut, lost
  <1>5. p # NULL => /\ d \in Profile /\ d.pwdb = p.pwdb
                    /\ ~ok => d.plbuf = NULL
                    /\ ok => d.plbuf # NULL /\ db \in Db
    <2>1. p # NULL => /\ d \in Profile /\ d.pwdb = p.pwdb
                      /\ ~ok => d.plbuf = NULL
      BY <1>3, DecryptType
    <2> QED
      BY <1>4, <2>1
  <1>6. (f.at = "encrypt" \/ (f.at = "detach" /\ lost)) => SealingFails(reply')
    BY <1>2 DEF SealingFails, lost
  <1> HIDE DEF ok, d, db
  <1>7. p # NULL /\ ok => /\ e \in Profile /\ Kept(p, e, f)
                          /\ ~lost => e.plbuf = NULL
    BY <1>3, <1>5, EncryptType, EncryptKept DEF Kept
  <1>8. p # NULL /\ ok => /\ Kept(p, r, f)
                          /\ f.at # "encrypt" => r.plbuf = NULL
    <2> SUFFICES ASSUME p # NULL, ok
                 PROVE  Kept(p, r, f) /\ (f.at # "encrypt" => r.plbuf = NULL)
      OBVIOUS
    <2>1. r \in {Dropped(d), Sealed(d, u, s, db, f)}
      BY DEF Reseal
    <2>2. Kept(d, r, f)
      BY <1>5, <2>1, DroppedKept, SealedKept
    <2>3. f.at # "encrypt" => r.plbuf = NULL
      BY <1>5, ResealGood
    <2> QED
      BY <1>5, <2>2, <2>3 DEF Kept
  <1> HIDE DEF e, r
  <1>9. ASSUME p # NULL, NEW x, Keep(u, x), Kept(p, x, f), x.plbuf = NULL \/ SealingFails(reply')
        PROVE  PutAway
    <2>1. Cleared(u, x)
      BY <1>2, <1>9 DEF Cleared, p
    <2>2. Survives(u, x)
      BY <1>2, <1>9 DEF Survives, Kept, p
    <2> QED
      BY <1>9, <2>1, <2>2, KeepPut
  <1>10. CASE p = NULL /\ Keep(u, NULL)
    BY <1>10, KeepPut DEF Cleared, Survives
  <1>11. CASE p # NULL /\ ~ok /\ Keep(u, d)
    BY <1>5, <1>9, <1>11 DEF Kept
  <1>12. CASE p # NULL /\ ok /\ f.at = "detach" /\ Keep(u, e)
    BY <1>6, <1>7, <1>9, <1>12
  <1>13. CASE p # NULL /\ ok /\ Keep(u, r)
    BY <1>6, <1>8, <1>9, <1>13
  <1> QED
    BY <1>1, <1>10, <1>11, <1>12, <1>13

\* An attachment that ends so leaves nothing in the clear but where the session key
\* cannot be set.
LEMMA StartPut ==
    ASSUME TypeOK, NEW op \in {"attach", "init"}, NEW u \in Users, NEW p \in Profile,
           NEW m \in Secrets, NEW ss \in Secrets \cup {NoSecret}, NEW f \in Fault,
           StartSession(op, u, p, m, ss, f), p.plbuf = NULL, profiles[u] = NULL
    PROVE  PutAway
  <1> DEFINE cut == f.at = "rekey"
             k == Setkey(p, u, m, ss, cut, f.how)
             s == [k EXCEPT !.sessioned = TRUE]
  <1>1. /\ Keep(u, p) \/ (ss # NoSecret /\ Keep(u, s)) \/ (ss # NoSecret /\ Keep(u, k))
        /\ reply'.user = u /\ reply'.fault = f /\ reply'.op = op
    BY DEF StartSession, Answer
  <1>2. cut \in BOOLEAN /\ (cut /\ f.how \in {"midway", "wipe"} => SealingFails(reply'))
    BY <1>1 DEF SealingFails
  <1> HIDE DEF cut
  <1>3. ss # NoSecret => /\ k \in Profile
                         /\ k.plbuf = NULL \/ SealingFails(reply')
    BY <1>2, SetkeyFrame, SetkeyGood
  <1> HIDE DEF k
  <1>4. ss # NoSecret => s.plbuf = k.plbuf
    BY <1>3 DEF Profile
  <1> HIDE DEF s
  <1>5. ASSUME NEW x, Keep(u, x), x.plbuf = NULL \/ SealingFails(reply')
        PROVE  PutAway
    <2>1. Cleared(u, x) /\ Survives(u, x)
      BY <1>1, <1>5 DEF Cleared, Survives, Attached
    <2> QED
      BY <1>5, <2>1, KeepPut
  <1> QED
    BY <1>1, <1>3, <1>4, <1>5

LEMMA AttachPut ==
    ASSUME TypeOK, NEW u \in Users, NEW path \in Paths, NEW m \in Secrets,
           NEW ss \in Secrets \cup {NoSecret}, NEW f \in Fault,
           Attach(u, path, m, ss, f)
    PROVE  PutAway
  <1> DEFINE p == NewProfile(path, ReadPwdb(path))
  <1>1. \/ UNCHANGED profiles
        \/ profiles[u] = NULL /\ Readable(path) /\ StartSession("attach", u, p, m, ss, f)
    BY ZenonT(60) DEF Attach
  <1>2. Readable(path) => p \in Profile /\ p.plbuf = NULL
    BY ReadType DEF NewProfile, Profile
  <1> HIDE DEF p
  <1> QED
    BY <1>1, <1>2, StillPut, StartPut

LEMMA InitAttachPut ==
    ASSUME TypeOK, NEW u \in Users, NEW path \in Paths, NEW m \in Secrets,
           NEW ss \in Secrets \cup {NoSecret}, NEW f \in Fault,
           InitAttach(u, path, m, ss, f)
    PROVE  PutAway
  <1> DEFINE cut == f.at = "encrypt"
             p == [NewProfile(path, NULL) EXCEPT !.plbuf = Framed(StubDb)]
             e == Encrypt(p, u, m, cut, f.how)
             Stayed == \E status : Answer("init", u, NULL, f, "0", status, {})
  <1>1. \/ Keep(u, profiles[u])
        \/ /\ profiles[u] = NULL
           /\ \/ Keep(u, NULL)
              \/ Keep(u, Dropped(p))
              \/ Stayed /\ Keep(u, e)
              \/ f.at # "encrypt" /\ StartSession("init", u, e, m, ss, f)
        \/ PowerFails(path, u, NULL, f)
    BY ZenonT(60) DEF InitAttach
  <1>2. p \in Profile /\ p.plbuf # NULL
    BY StubDbType, TextTypes, NullAssumption DEF NewProfile, Profile
  <1>3. cut \in BOOLEAN /\ (f.at # "encrypt" <=> ~cut)
    OBVIOUS
  <1>4. Stayed => /\ reply'.user = u
                  /\ f.at = "encrypt" => SealingFails(reply')
    BY DEF Answer, SealingFails
  <1> HIDE DEF p, cut, Stayed
  <1>5. e \in Profile /\ (f.at # "encrypt" => e.plbuf = NULL)
    BY <1>2, <1>3, EncryptType
  <1>6. Dropped(p).plbuf = NULL
    BY <1>2, DroppedType
  <1> HIDE DEF e
  <1>7. profiles[u] = NULL => \A x : Survives(u, x)
    BY DEF Survives, Attached
  <1>8. CASE Keep(u, profiles[u])
    <2>1. Cleared(u, profiles[u]) /\ Survives(u, profiles[u])
      BY DEF Cleared, Survives
    <2> QED
      BY <1>8, <2>1, KeepPut
  <1>9. CASE profiles[u] = NULL /\ (Keep(u, NULL) \/ Keep(u, Dropped(p)))
    <2>1. Cleared(u, NULL) /\ Cleared(u, Dropped(p))
      BY <1>6 DEF Cleared
    <2> QED
      BY <1>7, <1>9, <2>1, KeepPut
  <1>10. CASE profiles[u] = NULL /\ Stayed /\ Keep(u, e)
    <2>1. Cleared(u, e)
      BY <1>4, <1>5, <1>10 DEF Cleared
    <2> QED
      BY <1>7, <1>10, <2>1, KeepPut
  <1>11. CASE profiles[u] = NULL /\ f.at # "encrypt" /\ StartSession("init", u, e, m, ss, f)
    BY <1>5, <1>11, StartPut
  <1> QED
    BY <1>1, <1>8, <1>9, <1>10, <1>11, GonePut DEF PowerFails

LEMMA DetachPut ==
    ASSUME TypeOK, NEW u \in Users, NEW s \in Secrets, NEW f \in Fault, Detach(u, s, f)
    PROVE  PutAway
  <1> DEFINE p == profiles[u]
             cut == f.at = "decrypt"
             d == Decrypt(p, u, s, cut)
  <1>1. \/ Keep(u, NULL)
        \/ p # NULL /\ ~DecryptOk(p, u, s, cut) /\ Keep(u, d)
    BY ZenonT(60) DEF Detach
  <1>2. p \in Profile \cup {NULL} /\ cut \in BOOLEAN
    BY DEF TypeOK
  <1> HIDE DEF cut
  <1>3. p # NULL /\ ~DecryptOk(p, u, s, cut) => d.plbuf = NULL /\ d.pwdb = p.pwdb
    BY <1>2, DecryptType
  <1> HIDE DEF d
  <1>4. p # NULL /\ ~DecryptOk(p, u, s, cut) => Cleared(u, d) /\ Survives(u, d)
    BY <1>3 DEF Cleared, Survives
  <1>5. Cleared(u, NULL) /\ Survives(u, NULL)
    BY DEF Cleared, Survives
  <1> QED
    BY <1>1, <1>4, <1>5, KeepPut

LEMMA NextPut == TypeOK /\ Next => PutAway
  <1>1. ASSUME Load \/ Unload \/ Crash
        PROVE  PutAway
    BY <1>1, GonePut DEF Load, Unload, Crash, Boot
  <1>2. ASSUME TypeOK, NEW u \in Users, NEW f \in Faults, Ioctl(u, f)
        PROVE  PutAway
    <2>1. PathsOf[u] \subseteq Paths /\ f \in Fault
      BY ConstantsAssumption
    <2>2. PICK m \in Secrets :
             \/ \E path \in PathsOf[u], ss \in Secrets \cup {NoSecret} :
                   Attach(u, path, m, ss, f) \/ InitAttach(u, path, m, ss, f)
             \/ Detach(u, m, f)
             \/ ListAliases(u, m, f)
             \/ \E a \in Aliases : GetPassword(u, m, a, f)
             \/ \E a \in Aliases, ss \in Secrets \cup {NoSecret} :
                   \/ DelPassword(u, m, ss, a, f)
                   \/ \E w \in Passwds : AddPassword(u, m, ss, a, w, f)
      BY <1>2 DEF Ioctl
    <2> QED
      BY <1>2, <2>1, <2>2, AttachPut, InitAttachPut, DetachPut, LookPut, DelPut, AddPut
  <1> QED
    BY <1>1, <1>2 DEF Next

-----------------------------------------------------------------------------
(* The specification *)

AllCleared ==
    \A u \in Users :
       (profiles'[u] # NULL /\ profiles'[u].plbuf # NULL)
       => \/ profiles'[u] = profiles[u]
          \/ reply'.user = u /\ SealingFails(reply')

AllSurvive ==
    \A u \in Users :
       (Attached(u) /\ profiles[u].pwdb # NULL /\ profiles'[u] # NULL)
       => \/ profiles'[u].pwdb # NULL
          \/ reply'.user = u /\ reply'.fault.how = "wipe"
          \/ /\ reply'.user = u /\ reply'.op \in {"add", "del"} /\ profiles[u].sessioned
             /\ reply'.fault.at = "reload" \/ disk[profiles[u].path] \notin Cipher

\* For any instance and any faults, no handler that returns leaves a plaintext in memory,
\* its own or one that an earlier handler had left, but where SealingFails names the call
\* that found no memory.
THEOREM DeviceClearsPlaintext == Spec => PlaintextCleared
  <1>1. TypeOK /\ [Next]_vars => [AllCleared]_vars
    BY NextPut DEF PutAway, Cleared, AllCleared
  <1> QED
    BY <1>1, DeviceTypeCorrect, PTL DEF Spec, PlaintextCleared, AllCleared

\* For any instance and any faults, an attached profile loses its PWDB only to a cipher
\* that fails once the old one is freed, or to a file that add or del cannot load again.
THEOREM DeviceKeepsPwdb == Spec => PwdbSurvives
  <1>1. TypeOK /\ [Next]_vars => [AllSurvive]_vars
    BY NextPut DEF PutAway, Survives, AllSurvive
  <1> QED
    BY <1>1, DeviceTypeCorrect, PTL DEF Spec, PwdbSurvives, AllSurvive
=============================================================================
