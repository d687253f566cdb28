------------------------ MODULE ZacariasStore_proofs ------------------------
(***************************************************************************)
(* The driver and what it promises its users: that the two copies of a     *)
(* PWDB have the same entries, and, from that, that the driver implements  *)
(* the PasswordStore.                                                      *)
(***************************************************************************)
EXTENDS ZacariasStore, ZacariasDevice_proofs

-----------------------------------------------------------------------------
(***************************************************************************)
(* The two copies of a PWDB: if every user has files of his own and a      *)
(* handler that fails does so before it has changed anything, the copy in  *)
(* memory has the entries of the file, for any number of users, files,     *)
(* secrets, aliases and passwords.                                         *)
(*                                                                         *)
(* The files of different users do not meet, so a step disturbs one        *)
(* profile.  Every handler decrypts it, and gives it back with the text it *)
(* had (Same) or with the text it has just written; for the first the text *)
(* must have been framed, or framing it again would make another one.      *)
(***************************************************************************)

OwnFiles == \A u, v \in Users : u # v => PathsOf[u] \cap PathsOf[v] = {}

\* A call fails while the handler can still put everything back, or the power does.
Early(f) ==
    /\ f.at \in {"none", "alloc", "register", "read", "validate", "decrypt", "detach",
                 "lookup", "generate", "remove", "power"}
    /\ f.how \notin {"midway", "wipe"}
    /\ f.also = {}

FailsEarly == \A f \in Faults : Early(f)

Matched(u, p, c) ==
    /\ p.pwdb # NULL /\ p.pwdb.user = u
    /\ c \in Cipher /\ c.user = u
    /\ p.pwdb.text = c.text

SyncInv ==
    \A u \in Users : Attached(u) =>
        /\ profiles[u].path \in PathsOf[u]
        /\ Matched(u, profiles[u], disk[profiles[u].path])

\* A profile as a handler finds it.
Synced(u, p, c) == Matched(u, p, c) /\ p.plbuf = NULL /\ p.pwdb.text.framed = TRUE

\* Profile x is p with the same entries under some key of u.
Same(x, p, u) ==
    /\ x.path = p.path
    /\ x.pwdb # NULL /\ x.pwdb.user = u
    /\ x.pwdb.text = p.pwdb.text

-----------------------------------------------------------------------------
(* crypto.c and plbuf_editor.c *)

LEMMA DetachedSame ==
    ASSUME NEW text \in Text, text.framed = TRUE
    PROVE  Framed(DetachedDb(text)) = text /\ DetachedDb(text) = text.db
  BY DEF Framed, DetachedDb, Text

LEMMA FramedAgain ==
    ASSUME NEW db \in Db
    PROVE  Bare(db) = NULL \/ [Bare(db) EXCEPT !.framed = TRUE] = Framed(db)
  <1> DEFINE bare == [framed |-> FALSE, db |-> db]
  <1>1. Bare(db) = NULL \/ Bare(db) = bare
    BY DEF Bare
  <1>2. /\ [bare EXCEPT !.framed = TRUE] \in Text
        /\ [bare EXCEPT !.framed = TRUE].framed = TRUE
        /\ [bare EXCEPT !.framed = TRUE].db = db
    BY DEF Text
  <1>3. \A t \in Text : t.framed = TRUE /\ t.db = db => t = Framed(db)
    BY DEF Text, Framed
  <1> QED
    BY <1>1, <1>2, <1>3

LEMMA DecryptSame ==
    ASSUME NEW x \in Profile, NEW p, NEW u, Same(x, p, u), NEW v, NEW s, NEW bad \in BOOLEAN
    PROVE  /\ Same(Decrypt(x, v, s, bad), p, u)
           /\ DecryptOk(x, v, s, bad) => Decrypt(x, v, s, bad).plbuf = p.pwdb.text
  <1>1. /\ Decrypt(x, v, s, bad).pwdb = x.pwdb
        /\ Decrypt(x, v, s, bad).path = x.path
        /\ Decrypt(x, v, s, bad).sessioned = x.sessioned
        /\ DecryptOk(x, v, s, bad) => Decrypt(x, v, s, bad).plbuf = x.pwdb.text
    BY DecryptType
  <1> QED
    BY <1>1 DEF Same

LEMMA EncryptSame ==
    ASSUME NEW x \in Profile, NEW p, NEW u \in Users, Same(x, p, u), x.plbuf # NULL,
           x.plbuf = p.pwdb.text, NEW s \in Secrets, NEW bad \in BOOLEAN, ~bad, NEW how
    PROVE  Same(Encrypt(x, u, s, bad, how), p, u)
  BY EncryptType, NullAssumption DEF Same

LEMMA SetkeyKeeps ==
    ASSUME NEW x \in Profile, x.plbuf = NULL, NEW p, NEW u \in Users, Same(x, p, u),
           NEW old, NEW new \in Secrets, NEW bad \in BOOLEAN, NEW how,
           bad => how \notin {"midway", "wipe"}
    PROVE  Same(Setkey(x, u, old, new, bad, how), p, u)
  <1> DEFINE first  == bad /\ how \notin {"midway", "wipe", "late"}
             second == bad /\ how \in {"midway", "wipe"}
             d == Decrypt(x, u, old, first)
             e == Encrypt(d, u, new, second, how)
  <1>1. Setkey(x, u, old, new, bad, how) = IF d.plbuf = NULL THEN d ELSE e
    BY DEF Setkey
  <1>2. first \in BOOLEAN /\ second \in BOOLEAN /\ ~second
    OBVIOUS
  <1> HIDE DEF first, second
  <1>3. Same(d, p, u) /\ d \in Profile /\ (d.plbuf # NULL => d.plbuf = p.pwdb.text)
    BY <1>2, DecryptSame, DecryptType
  <1> HIDE DEF d
  <1>4. d.plbuf # NULL => Same(e, p, u)
    BY <1>2, <1>3, EncryptSame
  <1> QED
    BY <1>1, <1>3, <1>4

-----------------------------------------------------------------------------
(* actions.c *)

\* Opening the PWDB leaves the entries of the file in pwdb and, if it succeeds, in plbuf.
LEMMA OpenSame ==
    ASSUME TypeOK, NEW u \in Users, NEW p \in Profile, NEW m \in Secrets, NEW ss,
           NEW f \in Fault, Early(f), Synced(u, p, disk[p.path])
    PROVE  /\ Same(Open(p, u, m, ss, f).p, p, u)
           /\ Open(p, u, m, ss, f).status = "kNoError" =>
                 Open(p, u, m, ss, f).p.plbuf = p.pwdb.text
           /\ Open(p, u, m, ss, f).status # "kNoError" =>
                 Open(p, u, m, ss, f).p.plbuf = NULL
  <1> DEFINE bad == f.at = "validate"
             ok  == SetkeyOk(p, u, ss, bad, f.how)
             k   == Setkey(p, u, ss, m, bad, f.how)
             y   == [k EXCEPT !.pwdb = ReadPwdb(p.path)]
             r   == IF p.sessioned THEN y ELSE p
             cut == f.at = "decrypt"
             o   == Open(p, u, m, ss, f)
  <1>1. /\ bad \in BOOLEAN /\ cut \in BOOLEAN /\ p.sessioned \in BOOLEAN /\ p.path \in Paths
        /\ f.at # "reload" /\ f.how \notin {"midway", "wipe"} /\ Same(p, p, u)
    BY DEF Profile, Early, Synced, Matched, Same
  <1>2. Readable(p.path) /\ ReadPwdb(p.path) = disk[p.path]
    BY ConstantsAssumption DEF Synced, Matched, Readable, ReadPwdb
  <1>3. IF p.sessioned /\ ~ok
        THEN o = [status |-> "kAuthenticationFailure", p |-> k]
        ELSE o = [status |-> IF DecryptOk(r, u, m, cut) THEN "kNoError" ELSE "kAuthenticationFailure",
                  p      |-> Decrypt(r, u, m, cut)]
    <2>1. CASE p.sessioned /\ ~ok
      BY <2>1 DEF Open
    <2>2. CASE ~(p.sessioned /\ ~ok)
      <3>1. ~(p.sessioned /\ ok /\ (f.at = "reload" \/ ~Readable(p.path)))
        BY <1>1, <1>2
      <3> HIDE DEF ok
      <3> QED
        BY <2>2, <3>1 DEF Open, ok
    <2> QED
      BY <2>1, <2>2
  <1> HIDE DEF bad, cut, ok
  <1>4. k \in Profile /\ k.path = p.path /\ k.sessioned = p.sessioned /\ k.plbuf = NULL /\ Same(k, p, u)
    <2>1. p.plbuf = NULL
      BY DEF Synced
    <2>2. Same(k, p, u)
      BY <1>1, <2>1, SetkeyKeeps
    <2>3. k \in Profile /\ k.path = p.path /\ k.sessioned = p.sessioned
      BY <1>1, SetkeyFrame
    <2>4. k.plbuf = NULL
      BY <1>1, <2>1, SetkeyGood
    <2> QED
      BY <2>2, <2>3, <2>4
  <1> HIDE DEF k
  <1>5. y \in Profile /\ Same(y, p, u)
    <2>1. y \in Profile /\ y.path = k.path /\ y.sessioned = k.sessioned /\ y.pwdb = disk[p.path]
      BY <1>2, <1>4 DEF Profile, Synced, Matched
    <2> HIDE DEF y
    <2> QED
      BY <1>4, <2>1, NullAssumption DEF Same, Synced, Matched
  <1> HIDE DEF y
  <1>6. r \in Profile /\ Same(r, p, u)
    BY <1>1, <1>5
  <1> HIDE DEF r
  <1>7. /\ Same(Decrypt(r, u, m, cut), p, u)
        /\ DecryptOk(r, u, m, cut) => Decrypt(r, u, m, cut).plbuf = p.pwdb.text
        /\ ~DecryptOk(r, u, m, cut) => Decrypt(r, u, m, cut).plbuf = NULL
    BY <1>1, <1>6, DecryptSame, DecryptGood
  <1> QED
    BY <1>3, <1>4, <1>7

\* The epilogue of add puts back what it is given, the text of p with or without its frame.
LEMMA RestoreSame ==
    ASSUME NEW p \in Profile, p.pwdb # NULL, NEW x \in Profile, NEW u \in Users, Same(x, p, u),
           NEW m \in Secrets, NEW ss \in Secrets \cup {NoSecret}, NEW bare \in BOOLEAN,
           NEW f \in Fault, Early(f),
           \/ x.plbuf = NULL
           \/ (IF bare THEN [x.plbuf EXCEPT !.framed = TRUE] ELSE x.plbuf) = p.pwdb.text
    PROVE  Same(Restore(x, u, m, ss, bare, f), p, u)
  <1> DEFINE cut  == "reencrypt" \in f.also
             lost == "restore" \in f.also
             t == IF bare THEN [x EXCEPT !.plbuf.framed = TRUE] ELSE x
             e == Encrypt(t, u, m, cut, f.how)
             k == Setkey(e, u, m, ss, lost, f.how)
  <1>1. Restore(x, u, m, ss, bare, f) =
           IF x.plbuf = NULL \/ (bare /\ "reshuffle" \in f.also) THEN x
           ELSE IF cut \/ ~x.sessioned \/ ss = NoSecret THEN e
           ELSE k
    BY DEF Restore
  <1>2. cut \in BOOLEAN /\ lost \in BOOLEAN /\ ~cut /\ ~lost /\ "reshuffle" \notin f.also
    BY DEF Early
  <1> HIDE DEF cut, lost
  <1>3. CASE x.plbuf = NULL
    BY <1>1, <1>3
  <1>4. CASE x.plbuf # NULL
    <2>1. p.pwdb.text \in Text /\ p.pwdb.text # NULL /\ x.pwdb \in Cipher \cup {NULL}
      BY NullAssumption DEF Profile, Cipher
    <2>2. t.path = x.path /\ t.sessioned = x.sessioned /\ t.pwdb = x.pwdb /\ t \in Profile
          /\ t.plbuf = p.pwdb.text
      <3>1. CASE bare
        <4>1. t = [x EXCEPT !.plbuf = [x.plbuf EXCEPT !.framed = TRUE]]
          BY <3>1
        <4>2. [x.plbuf EXCEPT !.framed = TRUE] = p.pwdb.text
          BY <1>4, <3>1
        <4> HIDE DEF t
        <4> QED
          BY <2>1, <4>1, <4>2 DEF Profile
      <3>2. CASE ~bare
        BY <1>4, <3>2
      <3> QED
        BY <3>1, <3>2
    <2> HIDE DEF t
    <2>3. e \in Profile /\ e.plbuf = NULL /\ Same(e, p, u)
      <3>1. Same(t, p, u)
        BY <2>2 DEF Same
      <3>2. e \in Profile /\ e.plbuf = NULL
        BY <1>2, <2>1, <2>2, EncryptType
      <3>3. Same(e, p, u)
        BY <1>2, <2>1, <2>2, <3>1, EncryptSame
      <3> QED
        BY <3>2, <3>3
    <2> HIDE DEF e
    <2>4. ss # NoSecret => Same(k, p, u)
      BY <1>2, <2>3, SetkeyKeeps
    <2> HIDE DEF k
    <2> QED
      BY <1>1, <1>2, <1>4, <2>3, <2>4
  <1> QED
    BY <1>3, <1>4

LEMMA DroppedSame ==
    ASSUME NEW x \in Profile, NEW p, NEW u, Same(x, p, u)
    PROVE  Same(Dropped(x), p, u)
  BY DEF Dropped, Profile, Same

\* What was detached from the text is sealed again as the text it was.
LEMMA SealedSame ==
    ASSUME NEW p \in Profile, p.pwdb # NULL, p.pwdb.text.framed = TRUE,
           NEW x \in Profile, NEW u \in Users, Same(x, p, u),
           NEW m \in Secrets, NEW f \in Fault, Early(f)
    PROVE  Same(Sealed(x, u, m, DetachedDb(p.pwdb.text), f), p, u)
  <1> DEFINE db == DetachedDb(p.pwdb.text)
             e  == Sealed(x, u, m, db, f)
  <1>1. p.pwdb.text \in Text /\ f.at # "encrypt"
    BY DEF Profile, Cipher, Early
  <1>2. Framed(db) = p.pwdb.text /\ db \in Db
    BY <1>1, DetachedSame, DetachedType
  <1> HIDE DEF db
  <1>3. e.pwdb = [user |-> u, secret |-> m, text |-> Framed(db)]
    BY <1>1, SealedUnder
  <1>4. e.path = x.path /\ e.sessioned = x.sessioned /\ e.pwdb \in Cipher
    BY <1>1, <1>2, SealedType
  <1>5. e.pwdb.user = u /\ e.pwdb.text = p.pwdb.text
    BY <1>2, <1>3
  <1> QED
    BY <1>4, <1>5, NullAssumption DEF Same, db

-----------------------------------------------------------------------------
(* What a step leaves behind *)

LEMMA EarlyFault ==
    ASSUME FailsEarly, NEW f \in Faults
    PROVE  f \in Fault /\ Early(f) /\ Seals(f)
  BY GoodFault DEF FailsEarly, Early, Seals

LEMMA AtRest ==
    ASSUME FailsEarly, TypeOK, GoodInv, SyncInv, NEW u \in Users, profiles[u] # NULL
    PROVE  /\ profiles[u] \in Profile /\ profiles[u].path \in PathsOf[u]
           /\ profiles[u].pwdb # NULL /\ profiles[u].pwdb.text.framed = TRUE
           /\ profiles[u].plbuf = NULL /\ Same(profiles[u], profiles[u], u)
           /\ Synced(u, profiles[u], disk[profiles[u].path])
  <1> DEFINE p == profiles[u]
  <1>1. SealingWorks /\ ReframingWorks
    BY DEF FailsEarly, Early, Seals, SealingWorks, Reframes, ReframingWorks
  <1>2. p \in Profile /\ p.path \in PathsOf[u] /\ Matched(u, p, disk[p.path]) /\ Good(p)
    BY DEF TypeOK, SyncInv, GoodInv, Attached
  <1>3. p.plbuf = NULL /\ p.pwdb # NULL /\ p.pwdb.text.framed = TRUE
    BY <1>1, <1>2 DEF Good, Framing, FramedPwdb, Matched
  <1> QED
    BY <1>2, <1>3 DEF Synced, Same, Matched

LEMMA SyncStill ==
    ASSUME TypeOK, SyncInv, UNCHANGED disk, NEW u \in Users,
           UNCHANGED profiles \/ Keep(u, NULL)
    PROVE  SyncInv'
  BY DEF TypeOK, SyncInv, Keep, Attached, Matched

LEMMA SyncSame ==
    ASSUME TypeOK, SyncInv, UNCHANGED disk, NEW u \in Users, profiles[u] # NULL,
           NEW x, Keep(u, x), Same(x, profiles[u], u)
    PROVE  SyncInv'
  <1>1. profiles[u].path \in PathsOf[u] /\ Matched(u, profiles[u], disk[profiles[u].path])
    BY DEF SyncInv, Attached
  <1>2. x.path \in PathsOf[u] /\ Matched(u, x, disk[x.path])
    BY <1>1 DEF Same, Matched
  <1> QED
    BY <1>2 DEF TypeOK, SyncInv, Keep, Attached, Matched

LEMMA SyncWrite ==
    ASSUME OwnFiles, TypeOK, SyncInv, NEW u \in Users, NEW path \in PathsOf[u], NEW c \in Cipher,
           c.user = u, disk' = [disk EXCEPT ![path] = c],
           NEW x, Keep(u, x), x.path = path, x.pwdb # NULL, x.pwdb.user = u, x.pwdb.text = c.text
    PROVE  SyncInv'
  <1>1. disk'[path] = c /\ path \in Paths
    BY ConstantsAssumption DEF TypeOK
  <1>2. x.path \in PathsOf[u] /\ Matched(u, x, disk'[x.path])
    BY <1>1 DEF Matched
  <1>3. ASSUME NEW v \in Users, v # u, profiles[v] # NULL
        PROVE  profiles[v].path \in PathsOf[v] /\ Matched(v, profiles[v], disk'[profiles[v].path])
    <2>1. profiles[v].path \in PathsOf[v] /\ Matched(v, profiles[v], disk[profiles[v].path])
      BY <1>3 DEF SyncInv, Attached
    <2>2. profiles[v].path # path /\ profiles[v].path \in Paths
      BY <1>3, <2>1, ConstantsAssumption DEF OwnFiles
    <2>3. disk'[profiles[v].path] = disk[profiles[v].path]
      BY <2>2 DEF TypeOK
    <2> QED
      BY <2>1, <2>3
  <1>4. profiles' = [profiles EXCEPT ![u] = x]
    BY DEF Keep
  <1> QED
    BY <1>2, <1>3, <1>4 DEF SyncInv, Attached, Matched, TypeOK

LEMMA RekeyedSame ==
    ASSUME NEW x \in Profile, NEW u \in Users, x.pwdb # NULL, x.pwdb.user = u, x.plbuf = NULL,
           NEW m \in Secrets, NEW ss \in Secrets \cup {NoSecret}, x.sessioned => ss # NoSecret,
           NEW f \in Fault, Early(f)
    PROVE  Same(Rekeyed(x, u, m, ss, f), x, u)
  <1> DEFINE cut == f.at = "rekey"
  <1>1. Rekeyed(x, u, m, ss, f) = IF x.sessioned THEN Setkey(x, u, m, ss, cut, f.how) ELSE x
    BY DEF Rekeyed
  <1>2. cut \in BOOLEAN /\ ~cut /\ Same(x, x, u)
    BY DEF Early, Same
  <1> HIDE DEF cut
  <1> QED
    BY <1>1, <1>2, SetkeyKeeps

-----------------------------------------------------------------------------
(* The handlers *)

LEMMA AddSync ==
    ASSUME OwnFiles, FailsEarly, TypeOK, GoodInv, SyncInv, NEW u \in Users, NEW m \in Secrets,
           NEW ss \in Secrets \cup {NoSecret}, NEW a \in Aliases, NEW w \in Passwds,
           NEW f \in Faults, AddPassword(u, m, ss, a, w, f)
    PROVE  SyncInv'
  <1> DEFINE p  == profiles[u]
             x  == Open(p, u, m, ss, f).p
             st == Open(p, u, m, ss, f).status
             db == DetachedDb(x.plbuf)
             in == Inserted(db, a, w)
             q  == [x EXCEPT !.plbuf = Bare(db)]
             n  == [x EXCEPT !.plbuf = [framed |-> FALSE, db |-> in]]
             e  == Sealed(x, u, m, in, f)
             r  == Rekeyed(e, u, m, ss, f)
             Back(y, bare) == Keep(u, Restore(y, u, m, ss, bare, f))
  <1>1. \/ UNCHANGED profiles /\ UNCHANGED disk
        \/ /\ p # NULL /\ UNCHANGED disk
           /\ \/ Back(p, FALSE)
              \/ st # "kNoError" /\ Back(x, FALSE)
              \/ st = "kNoError" /\ (Back(x, FALSE) \/ Back(q, TRUE))
              \/ f.at = "shuffle" /\ Back(n, TRUE)
              \/ f.at = "encrypt" /\ Back(e, FALSE)
        \/ /\ p # NULL /\ (p.sessioned => ss # NoSecret) /\ st = "kNoError"
           /\ f.at \in {"none", "write", "rekey"} /\ kwrite(e.path, e.pwdb, f)
           /\ \/ f.at = "write"
              \/ Back(r, FALSE)
              \/ Keep(u, r)
        \/ p # NULL /\ PowerFails(p.path, u, a, f)
    BY ZenonT(60) DEF AddPassword, AddStops, AddWrites, AddFails, Ready
  <1>2. f \in Fault /\ Early(f) /\ Seals(f)
    BY EarlyFault
  <1>3. f.at \notin {"shuffle", "encrypt", "write"}
    BY <1>2 DEF Early
  <1>4. CASE UNCHANGED profiles /\ UNCHANGED disk
    BY <1>4, SyncStill
  <1>5. ASSUME p # NULL PROVE SyncInv'
    <2>1. /\ p \in Profile /\ p.path \in PathsOf[u] /\ p.pwdb # NULL /\ p.pwdb.text.framed = TRUE
          /\ p.plbuf = NULL /\ Same(p, p, u) /\ Synced(u, p, disk[p.path])
      BY <1>5, AtRest
    <2>2. ASSUME NEW y, Same(y, p, u), Keep(u, y), UNCHANGED disk
          PROVE  SyncInv'
      BY <1>5, <2>2, SyncSame
    <2> HIDE DEF p
    <2>3. p.pwdb.text \in Text
      BY <2>1 DEF Profile, Cipher
    <2>4. /\ x \in Profile /\ x.path = p.path /\ x.sessioned = p.sessioned
          /\ Same(x, p, u)
          /\ st = "kNoError" => x.plbuf = p.pwdb.text
          /\ st # "kNoError" => x.plbuf = NULL
      BY <1>2, <2>1, OpenType, OpenSame
    <2> HIDE DEF x, st
    <2>5. ASSUME NEW y \in Profile, Same(y, p, u), NEW bare \in BOOLEAN, Back(y, bare), UNCHANGED disk,
                 \/ y.plbuf = NULL
                 \/ (IF bare THEN [y.plbuf EXCEPT !.framed = TRUE] ELSE y.plbuf) = p.pwdb.text
          PROVE  SyncInv'
      BY <1>2, <2>1, <2>2, <2>5, RestoreSame
    <2>6. ASSUME st = "kNoError"
          PROVE  /\ q \in Profile /\ Same(q, p, u)
                 /\ \/ q.plbuf = NULL
                    \/ [q.plbuf EXCEPT !.framed = TRUE] = p.pwdb.text
      <3>1. db \in Db /\ Framed(db) = p.pwdb.text
        BY <2>1, <2>3, <2>4, <2>6, DetachedType, DetachedSame
      <3> HIDE DEF db
      <3>2. q \in Profile /\ q.pwdb = x.pwdb /\ q.path = x.path /\ q.plbuf = Bare(db)
        BY <2>4, <3>1, TextTypes DEF Profile
      <3>3. Bare(db) = NULL \/ [Bare(db) EXCEPT !.framed = TRUE] = Framed(db)
        BY <3>1, FramedAgain
      <3> HIDE DEF q
      <3> QED
        BY <2>4, <3>1, <3>2, <3>3 DEF Same
    <2>7. CASE /\ UNCHANGED disk
               /\ \/ Back(p, FALSE)
                  \/ st # "kNoError" /\ Back(x, FALSE)
                  \/ st = "kNoError" /\ (Back(x, FALSE) \/ Back(q, TRUE))
      <3> HIDE DEF q, db
      <3>1. CASE Back(p, FALSE)
        BY <2>1, <2>5, <2>7, <3>1
      <3>2. CASE Back(x, FALSE)
        BY <2>4, <2>5, <2>7, <3>2
      <3>3. CASE st = "kNoError" /\ Back(q, TRUE)
        BY <2>5, <2>6, <2>7, <3>3
      <3> QED
        BY <2>7, <3>1, <3>2, <3>3
    <2>8. CASE /\ p.sessioned => ss # NoSecret
               /\ st = "kNoError" /\ f.at \in {"none", "rekey"} /\ kwrite(e.path, e.pwdb, f)
               /\ Back(r, FALSE) \/ Keep(u, r)
      <3>1. in \in Db
        BY <2>3, <2>4, <2>8, DetachedType, DbTypes
      <3> HIDE DEF db, in
      <3>2. /\ e \in Profile /\ e.path = p.path /\ e.sessioned = p.sessioned
            /\ e.pwdb \in Cipher /\ e.pwdb.user = u /\ e.plbuf = NULL
        BY <1>2, <1>3, <2>4, <3>1, SealedType, SealedGood
      <3> HIDE DEF e
      <3>3. Same(r, e, u)
        BY <1>2, <2>8, <3>2, NullAssumption, RekeyedSame
      <3>4. r.plbuf = NULL
        BY <1>2, <2>8, <3>2, RekeyedGood
      <3> HIDE DEF r
      <3>5. Restore(r, u, m, ss, FALSE, f) = r
        BY <3>4 DEF Restore
      <3>6. disk' = [disk EXCEPT ![p.path] = e.pwdb]
        BY <1>3, <2>8, <3>2 DEF kwrite
      <3> QED
        BY <2>1, <2>8, <3>2, <3>3, <3>5, <3>6, SyncWrite DEF Same
    <2>9. CASE PowerFails(p.path, u, a, f)
      BY <2>9 DEF PowerFails, SyncInv, Attached
    <2> QED
      BY <1>1, <1>3, <1>4, <1>5, <2>7, <2>8, <2>9
  <1> QED
    BY <1>1, <1>4, <1>5

LEMMA DelSync ==
    ASSUME OwnFiles, FailsEarly, TypeOK, GoodInv, SyncInv, NEW u \in Users, NEW m \in Secrets,
           NEW ss \in Secrets \cup {NoSecret}, NEW a \in Aliases,
           NEW f \in Faults, DelPassword(u, m, ss, a, f)
    PROVE  SyncInv'
  <1> DEFINE p    == profiles[u]
             x    == Open(p, u, m, ss, f).p
             st   == Open(p, u, m, ss, f).status
             db   == DetachedDb(x.plbuf)
             lost == "reencrypt" \in f.also
             c    == Encrypt(x, u, m, lost, f.how)
             e(b) == Sealed(x, u, m, Removed(db, b), f)
             r(b) == Rekeyed(e(b), u, m, ss, f)
             Back(y) == Keep(u, Dropped(y))
  <1>1. \/ UNCHANGED profiles /\ UNCHANGED disk
        \/ /\ p # NULL /\ UNCHANGED disk
           /\ \/ Back(p)
              \/ Back(x)
              \/ st = "kNoError" /\ Back(c)
              \/ f.at = "encrypt"
        \/ /\ p # NULL /\ (p.sessioned => ss # NoSecret) /\ st = "kNoError"
           /\ f.at \in {"none", "write", "rekey"}
           /\ \E b \in findalias(db, a) :
                 /\ kwrite(e(b).path, e(b).pwdb, f)
                 /\ f.at = "write" \/ Back(r(b)) \/ Keep(u, r(b))
        \/ p # NULL /\ PowerFails(p.path, u, a, f)
    BY ZenonT(60) DEF DelPassword, DelStops, DelFindsNone, DelWrites, DelFails, Ready
  <1>2. f \in Fault /\ Early(f) /\ Seals(f)
    BY EarlyFault
  <1>3. f.at \notin {"shuffle", "encrypt", "write"} /\ lost \in BOOLEAN /\ ~lost
    BY <1>2 DEF Early
  <1> HIDE DEF lost
  <1>4. CASE UNCHANGED profiles /\ UNCHANGED disk
    BY <1>4, SyncStill
  <1>5. ASSUME p # NULL PROVE SyncInv'
    <2>1. /\ p \in Profile /\ p.path \in PathsOf[u] /\ p.pwdb # NULL /\ p.pwdb.text.framed = TRUE
          /\ p.plbuf = NULL /\ Same(p, p, u) /\ Synced(u, p, disk[p.path])
      BY <1>5, AtRest
    <2>2. ASSUME NEW y \in Profile, Same(y, p, u), Back(y), UNCHANGED disk
          PROVE  SyncInv'
      BY <1>5, <2>2, DroppedSame, SyncSame
    <2> HIDE DEF p
    <2>3. p.pwdb.text \in Text /\ p.pwdb.text # NULL
      BY <2>1, NullAssumption DEF Profile, Cipher
    <2>4. /\ x \in Profile /\ x.path = p.path /\ x.sessioned = p.sessioned
          /\ Same(x, p, u)
          /\ st = "kNoError" => x.plbuf = p.pwdb.text
      BY <1>2, <2>1, OpenType, OpenSame
    <2> HIDE DEF x, st
    <2>5. st = "kNoError" => c \in Profile /\ Same(c, p, u)
      BY <1>3, <2>3, <2>4, EncryptType, EncryptSame
    <2> HIDE DEF c
    <2>6. CASE /\ UNCHANGED disk
               /\ Back(p) \/ Back(x) \/ (st = "kNoError" /\ Back(c))
      BY <2>1, <2>2, <2>4, <2>5, <2>6
    <2>7. CASE /\ p.sessioned => ss # NoSecret
               /\ st = "kNoError" /\ f.at \in {"none", "rekey"}
               /\ \E b \in findalias(db, a) :
                     /\ kwrite(e(b).path, e(b).pwdb, f)
                     /\ Back(r(b)) \/ Keep(u, r(b))
      <3>1. PICK b \in findalias(db, a) :
                     /\ kwrite(e(b).path, e(b).pwdb, f)
                     /\ Back(r(b)) \/ Keep(u, r(b))
        BY <2>7
      <3>2. Removed(db, b) \in Db
        BY <2>3, <2>4, <2>7, DetachedType, DbTypes
      <3> HIDE DEF db
      <3>3. /\ e(b) \in Profile /\ e(b).path = p.path /\ e(b).sessioned = p.sessioned
            /\ e(b).pwdb \in Cipher /\ e(b).pwdb.user = u /\ e(b).plbuf = NULL
        BY <1>2, <1>3, <2>4, <3>2, SealedType, SealedGood
      <3> HIDE DEF e
      <3>4. r(b) \in Profile /\ Same(r(b), e(b), u)
        BY <1>2, <2>7, <3>3, NullAssumption, RekeyedType, RekeyedSame
      <3> HIDE DEF r
      <3>5. Same(Dropped(r(b)), e(b), u)
        BY <3>4, DroppedSame
      <3>6. disk' = [disk EXCEPT ![p.path] = e(b).pwdb]
        BY <1>3, <3>1, <3>3 DEF kwrite
      <3> QED
        BY <2>1, <3>1, <3>3, <3>4, <3>5, <3>6, SyncWrite DEF Same
    <2>8. CASE PowerFails(p.path, u, a, f)
      BY <2>8 DEF PowerFails, SyncInv, Attached
    <2> QED
      BY <1>1, <1>3, <1>4, <1>5, <2>6, <2>7, <2>8
  <1> QED
    BY <1>1, <1>4, <1>5

LEMMA LookSync ==
    ASSUME FailsEarly, TypeOK, GoodInv, SyncInv, NEW u \in Users, NEW s \in Secrets, NEW f \in Faults,
           \/ \E a \in Aliases : GetPassword(u, s, a, f)
           \/ ListAliases(u, s, f)
    PROVE  SyncInv'
  <1> DEFINE p    == profiles[u]
             cut  == f.at = "decrypt"
             ok   == DecryptOk(p, u, s, cut)
             d    == Decrypt(p, u, s, cut)
             db   == DetachedDb(d.plbuf)
             lost == "reencrypt" \in f.also
             e    == Encrypt(d, u, s, lost, f.how)
             r    == Reseal(d, u, s, db, f)
  <1>1. /\ UNCHANGED disk
        /\ \/ p = NULL /\ Keep(u, NULL)
           \/ p # NULL /\ ~ok /\ Keep(u, d)
           \/ p # NULL /\ ok /\ Keep(u, e)
           \/ p # NULL /\ ok /\ Keep(u, r)
    <2>1. CASE \E a \in Aliases : GetPassword(u, s, a, f)
      <3>1. PICK a \in Aliases : GetPassword(u, s, a, f)
        BY <2>1
      <3> QED
        BY <3>1, ZenonT(60) DEF GetPassword
    <2>2. CASE ListAliases(u, s, f)
      BY <2>2, ZenonT(60) DEF ListAliases
    <2> QED
      BY <2>1, <2>2
  <1>2. /\ f \in Fault /\ Early(f) /\ cut \in BOOLEAN /\ lost \in BOOLEAN /\ ~lost
    BY EarlyFault DEF Early
  <1>3. CASE p = NULL
    BY <1>1, <1>3, SyncStill
  <1>4. CASE p # NULL
    <2>1. /\ p \in Profile /\ p.pwdb # NULL /\ p.pwdb.text.framed = TRUE
          /\ Same(p, p, u)
      BY <1>4, AtRest
    <2>2. ASSUME NEW y, Same(y, p, u), Keep(u, y)
          PROVE  SyncInv'
      BY <1>1, <1>4, <2>2, SyncSame
    <2> HIDE DEF p, cut, lost
    <2>3. p.pwdb.text \in Text /\ p.pwdb.text # NULL
      BY <2>1, NullAssumption DEF Profile, Cipher
    <2>4. d \in Profile /\ Same(d, p, u) /\ (ok => d.plbuf = p.pwdb.text)
      BY <1>2, <2>1, DecryptType, DecryptSame
    <2> HIDE DEF d, ok
    <2>5. ok => Same(e, p, u)
      BY <1>2, <2>3, <2>4, EncryptSame
    <2>6. ok => Same(r, p, u)
      <3>1. Same(Dropped(d), p, u) /\ Same(Sealed(d, u, s, DetachedDb(p.pwdb.text), f), p, u)
        BY <1>2, <2>1, <2>4, DroppedSame, SealedSame
      <3> QED
        BY <2>4, <3>1 DEF Reseal
    <2> HIDE DEF e, r
    <2> QED
      BY <1>1, <1>4, <2>2, <2>4, <2>5, <2>6
  <1> QED
    BY <1>3, <1>4

\* Whatever session there is, the entries are those of the profile it starts with.
LEMMA StartSame ==
    ASSUME NEW op, NEW u \in Users, NEW p \in Profile, p.plbuf = NULL, p.pwdb # NULL, p.pwdb.user = u,
           NEW m \in Secrets, NEW ss \in Secrets \cup {NoSecret}, NEW f, Early(f),
           StartSession(op, u, p, m, ss, f)
    PROVE  \E x : Keep(u, x) /\ Same(x, p, u)
  <1> DEFINE cut == f.at = "rekey"
             k   == Setkey(p, u, m, ss, cut, f.how)
             s   == [k EXCEPT !.sessioned = TRUE]
  <1>1. Keep(u, p) \/ (ss # NoSecret /\ Keep(u, s)) \/ (ss # NoSecret /\ Keep(u, k))
    BY DEF StartSession
  <1>2. cut \in BOOLEAN /\ ~cut /\ Same(p, p, u)
    BY DEF Early, Same
  <1> HIDE DEF cut
  <1>3. ss # NoSecret => k \in Profile /\ Same(k, p, u)
    BY <1>2, SetkeyFrame, SetkeyKeeps
  <1> HIDE DEF k
  <1>4. ss # NoSecret => Same(s, p, u)
    BY <1>3 DEF Same, Profile
  <1> QED
    BY <1>1, <1>2, <1>3, <1>4

LEMMA AttachSync ==
    ASSUME OwnFiles, FailsEarly, TypeOK, SyncInv, NEW u \in Users, NEW path \in PathsOf[u],
           NEW m \in Secrets, NEW ss \in Secrets \cup {NoSecret}, NEW f \in Faults,
           Attach(u, path, m, ss, f)
    PROVE  SyncInv'
  <1> DEFINE p == NewProfile(path, ReadPwdb(path))
  <1>1. /\ UNCHANGED disk
        /\ \/ UNCHANGED profiles
           \/ /\ Readable(path) /\ DecryptOk(p, u, m, f.at = "decrypt")
              /\ StartSession("attach", u, p, m, ss, f)
    BY ZenonT(60) DEF Attach
  <1>2. CASE UNCHANGED profiles
    BY <1>1, <1>2, SyncStill
  <1>3. CASE /\ Readable(path) /\ DecryptOk(p, u, m, f.at = "decrypt")
             /\ StartSession("attach", u, p, m, ss, f)
    <2>1. path \in Paths /\ Early(f)
      BY EarlyFault, ConstantsAssumption
    <2>2. ReadPwdb(path) \in Cipher \cup {NULL} /\ (ReadPwdb(path) # NULL => ReadPwdb(path) = disk[path])
      BY <1>3, <2>1, ReadType DEF ReadPwdb
    <2>3. p \in Profile /\ p.plbuf = NULL /\ p.pwdb = ReadPwdb(path) /\ p.path = path
      BY <2>1, <2>2 DEF NewProfile, Profile
    <2>4. p.pwdb # NULL /\ p.pwdb.user = u
      BY <1>3 DEF DecryptOk, Opens
    <2> HIDE DEF p
    <2>5. PICK x : Keep(u, x) /\ Same(x, p, u)
      BY <1>3, <2>1, <2>3, <2>4, StartSame
    <2>6. disk[path] \in Cipher /\ disk[path] = p.pwdb
      BY <2>2, <2>3, <2>4
    <2>7. disk' = [disk EXCEPT ![path] = disk[path]]
      BY <1>1, <2>1 DEF TypeOK
    <2> QED
      BY <2>3, <2>4, <2>5, <2>6, <2>7, SyncWrite DEF Same
  <1> QED
    BY <1>1, <1>2, <1>3

LEMMA InitAttachSync ==
    ASSUME OwnFiles, FailsEarly, TypeOK, SyncInv, NEW u \in Users, NEW path \in PathsOf[u],
           NEW m \in Secrets, NEW ss \in Secrets \cup {NoSecret}, NEW f \in Faults,
           InitAttach(u, path, m, ss, f)
    PROVE  SyncInv'
  <1> DEFINE cut == f.at = "encrypt"
             p == [NewProfile(path, NULL) EXCEPT !.plbuf = Framed(StubDb)]
             e == Encrypt(p, u, m, cut, f.how)
  <1>1. \/ Keep(u, profiles[u]) /\ UNCHANGED disk
        \/ Keep(u, NULL) /\ UNCHANGED disk
        \/ f.at \in {"insert", "stub", "encrypt"}
        \/ /\ f.at \in {"none", "write", "rekey"} /\ kwrite(path, e.pwdb, f)
           /\ f.at = "write" \/ StartSession("init", u, e, m, ss, f)
        \/ PowerFails(path, u, NULL, f)
    BY ZenonT(60) DEF InitAttach
  <1>2. Early(f) /\ f.at \notin {"insert", "stub", "encrypt", "write"}
    BY EarlyFault DEF Early
  <1>3. cut \in BOOLEAN /\ ~cut /\ path \in Paths
    BY <1>2, ConstantsAssumption
  <1>4. p \in Profile /\ p.path = path /\ p.plbuf # NULL
    <2>1. p \in Profile /\ p.path = path /\ p.plbuf = Framed(StubDb) /\ Framed(StubDb) # NULL
      BY <1>3, StubDbType, TextTypes, NullAssumption DEF NewProfile, Profile
    <2> QED
      BY <2>1
  <1> HIDE DEF p, cut
  <1>5. /\ e \in Profile /\ e.path = path /\ e.plbuf = NULL
        /\ e.pwdb \in Cipher /\ e.pwdb.user = u
    BY <1>3, <1>4, EncryptType
  <1> HIDE DEF e
  <1>6. CASE Keep(u, profiles[u]) /\ UNCHANGED disk
    <2>1. UNCHANGED profiles
      BY <1>6 DEF Keep, TypeOK
    <2> QED
      BY <1>6, <2>1, SyncStill
  <1>7. CASE Keep(u, NULL) /\ UNCHANGED disk
    BY <1>7, SyncStill
  <1>8. CASE /\ kwrite(path, e.pwdb, f)
             /\ StartSession("init", u, e, m, ss, f)
    <2>1. PICK x : Keep(u, x) /\ Same(x, e, u)
      BY <1>2, <1>5, <1>8, NullAssumption, StartSame
    <2>2. disk' = [disk EXCEPT ![path] = e.pwdb]
      BY <1>2, <1>8 DEF kwrite
    <2> QED
      BY <1>5, <2>1, <2>2, SyncWrite DEF Same
  <1>9. CASE PowerFails(path, u, NULL, f)
    BY <1>9 DEF PowerFails, SyncInv, Attached
  <1> QED
    BY <1>1, <1>2, <1>6, <1>7, <1>8, <1>9

LEMMA DetachSync ==
    ASSUME FailsEarly, TypeOK, GoodInv, SyncInv, NEW u \in Users, NEW s \in Secrets, NEW f \in Faults,
           Detach(u, s, f)
    PROVE  SyncInv'
  <1> DEFINE p == profiles[u]
             cut == f.at = "decrypt"
             d == Decrypt(p, u, s, cut)
  <1>1. /\ UNCHANGED disk
        /\ Keep(u, NULL) \/ (p # NULL /\ Keep(u, d))
    BY ZenonT(60) DEF Detach
  <1>2. CASE Keep(u, NULL)
    BY <1>1, <1>2, SyncStill
  <1>3. CASE p # NULL /\ Keep(u, d)
    <2>1. p \in Profile /\ Same(p, p, u) /\ cut \in BOOLEAN
      BY <1>3, AtRest
    <2> HIDE DEF cut
    <2>2. Same(d, p, u)
      BY <2>1, DecryptSame
    <2> HIDE DEF d
    <2> QED
      BY <1>1, <1>3, <2>2, SyncSame
  <1> QED
    BY <1>1, <1>2, <1>3

-----------------------------------------------------------------------------
(* The specification *)

LEMMA SyncStep ==
    ASSUME OwnFiles, FailsEarly, TypeOK, GoodInv, SyncInv, [Next]_vars
    PROVE  SyncInv'
  <1>1. CASE Load \/ Unload \/ Crash
    BY <1>1 DEF Load, Unload, Crash, Boot, SyncInv, Attached
  <1>2. ASSUME NEW u \in Users, NEW f \in Faults, Ioctl(u, f)
        PROVE  SyncInv'
    <2>1. PICK m \in Secrets :
             \/ \E path \in PathsOf[u], ss \in Secrets \cup {NoSecret} :
                   Attach(u, path, m, ss, f) \/ InitAttach(u, path, m, ss, f)
             \/ Detach(u, m, f)
             \/ ListAliases(u, m, f)
             \/ \E a \in Aliases : GetPassword(u, m, a, f)
             \/ \E a \in Aliases, ss \in Secrets \cup {NoSecret} :
                   \/ DelPassword(u, m, ss, a, f)
                   \/ \E w \in Passwds : AddPassword(u, m, ss, a, w, f)
      BY <1>2 DEF Ioctl
    <2> QED
      BY <2>1, AttachSync, InitAttachSync, DetachSync, LookSync, DelSync, AddSync
  <1>3. CASE UNCHANGED vars
    BY <1>3 DEF vars, SyncInv, Attached, Matched
  <1> QED
    BY <1>1, <1>2, <1>3 DEF Next

\* If every user has files of his own, and a call only fails while the handler can still
\* put everything back, an attached profile has in memory the entries of its file: no
\* update is ever lost by writing the one over the other, for any number of users.
THEOREM DeviceMatchesDisk ==
    ASSUME OwnFiles, FailsEarly
    PROVE  Spec => []MemoryMatchesDisk
  <1>1. Init => SyncInv
    BY DEF Init, SyncInv, Attached
  <1>2. TypeOK /\ GoodInv /\ SyncInv /\ [Next]_vars => SyncInv'
    BY SyncStep
  <1>3. SyncInv => MemoryMatchesDisk
    BY DEF SyncInv, Matched, MemoryMatchesDisk
  <1> QED
    BY <1>1, <1>2, <1>3, GoodAlways, PTL DEF Spec

-----------------------------------------------------------------------------
(***************************************************************************)
(* The driver implements the PasswordStore, for any number of users,       *)
(* files, secrets, aliases and passwords: if every user has files of his   *)
(* own, no alias is a prefix of another and a handler that fails does so   *)
(* before it has changed anything, each of its answers is a step of the    *)
(* store.                                                                  *)
(*                                                                         *)
(* The store knows nothing of the copies in memory, from which the driver  *)
(* answers; what makes them invisible is SyncInv (above): at               *)
(* rest they have the entries of the files.  So a request finds in the     *)
(* plaintext what the store finds in the file (Mirror), and what it then   *)
(* writes over the whole file differs in one entry (PutMaps, RemoveMaps).  *)
(***************************************************************************)

\* A call fails while the handler can still put everything back, and no call fails that
\* answers with something else than a failure ("not found" for what is there).
Honest(f) ==
    /\ f.at \in {"none", "alloc", "register", "read", "validate", "decrypt", "detach",
                 "generate"}
    /\ f.how \notin {"midway", "wipe"}
    /\ f.also = {}

FailsHonestly == \A f \in Faults : Honest(f)

NoPrefixes == \A a, b \in Aliases : <<a, b>> \in Prefixes => a = b

Requests == {"attach", "init", "detach", "add", "del", "get", "aliases"}
Reasons  == {"kInvalidParams", "kAliasNotFound", "kAliasAlreadyUsed",
             "kProfilePreviouslyAttached", "kProfileNotAttached",
             "kAuthenticationFailure", "kGeneralError", "kPWDBReadingError"}

-----------------------------------------------------------------------------
(* What the store sees *)

LEMMA HonestFault ==
    ASSUME FailsHonestly, NEW f \in Faults
    PROVE  f \in Fault /\ Honest(f) /\ Early(f) /\ Seals(f)
  BY GoodFault DEF FailsHonestly, Honest, Early, Seals

LEMMA HonestEarly == FailsHonestly => FailsEarly
  BY DEF FailsHonestly, FailsEarly, Honest, Early

\* The file of an attached user says what the copy in memory says.
LEMMA Mirror ==
    ASSUME TypeOK, SyncInv, NEW u \in Users, profiles[u] # NULL
    PROVE  /\ StoreHome[u] = profiles[u].path /\ StoreHome[u] # NULL
           /\ profiles[u].path \in Paths
           /\ StoreFiles[profiles[u].path] = [user |-> u, db |-> profiles[u].pwdb.text.db]
           /\ \A a : Store!Entry(u, a) = profiles[u].pwdb.text.db[a]
  <1>1. profiles[u] \in Profile /\ profiles[u].path \in Paths
    BY DEF TypeOK, Profile
  <1>2. StoreHome[u] = profiles[u].path /\ StoreHome[u] # NULL
    BY <1>1, DetachedAssumption DEF StoreHome
  <1>3. Matched(u, profiles[u], disk[profiles[u].path])
    BY DEF SyncInv, Attached
  <1>4. StoreFiles[profiles[u].path] = [user |-> u, db |-> profiles[u].pwdb.text.db]
    BY <1>1, <1>3 DEF Matched, StoreFiles
  <1> QED
    BY <1>1, <1>2, <1>4 DEF Store!Entry

LEMMA FilesStay ==
    ASSUME UNCHANGED disk
    PROVE  StoreFiles' = StoreFiles
  BY DEF StoreFiles

LEMMA HomeStays ==
    ASSUME TypeOK, NEW u \in Users, profiles[u] # NULL,
           NEW x \in Profile, x.path = profiles[u].path, Keep(u, x)
    PROVE  StoreHome' = StoreHome
  BY DetachedAssumption DEF TypeOK, Keep, StoreHome

LEMMA HomeMoves ==
    ASSUME TypeOK, NEW u \in Users, NEW x \in Profile \cup {NULL}, Keep(u, x)
    PROVE  StoreHome' = [StoreHome EXCEPT ![u] = IF x = NULL THEN NULL ELSE x.path]
  BY DEF TypeOK, Keep, StoreHome

LEMMA FileMoves ==
    ASSUME TypeOK, NEW path \in Paths, NEW c \in Cipher, disk' = [disk EXCEPT ![path] = c]
    PROVE  StoreFiles' = [StoreFiles EXCEPT ![path] = [user |-> c.user, db |-> c.text.db]]
  BY DEF TypeOK, StoreFiles

LEMMA AnswerMoves ==
    ASSUME NEW op, NEW u, NEW a, NEW f, NEW err, NEW status, NEW out,
           Answer(op, u, a, f, err, status, out)
    PROVE  Store!Says(op, u, a, status, out)
  BY DEF Answer, StoreAnswer, Store!Says

-----------------------------------------------------------------------------
(* The steps of the store *)

LEMMA RefuseMaps ==
    ASSUME NEW op \in Requests, NEW u \in Users, NEW a \in Aliases \cup {NULL},
           NEW f, NEW err, NEW status \in Reasons, Answer(op, u, a, f, err, status, {}),
           UNCHANGED StoreFiles, UNCHANGED StoreHome,
           status = "kProfileNotAttached" => StoreHome[u] = NULL,
           status = "kProfilePreviouslyAttached" => StoreHome[u] # NULL,
           status = "kAliasNotFound" => StoreHome[u] # NULL /\ Store!Entry(u, a) = NoPasswd,
           status = "kAliasAlreadyUsed" => StoreHome[u] # NULL /\ Store!Entry(u, a) # NoPasswd
    PROVE  Store!StoreNext
  <1>1. Store!Says(op, u, a, status, {})
    BY AnswerMoves
  <1>2. status \notin {"kNoError", "kPWDBWritingError"}
    BY DEF Reasons
  <1>3. Store!Refuse(op, u, a, status)
    BY <1>1, <1>2 DEF Store!Refuse
  <1> QED
    BY <1>3 DEF Store!StoreNext, Requests, Reasons

\* Whatever a handler that refuses leaves in memory, the user stays where he was.
LEMMA FailMaps ==
    ASSUME TypeOK, SyncInv, UNCHANGED disk, NEW u \in Users, profiles[u] # NULL,
           NEW x \in Profile, x.path = profiles[u].path, Keep(u, x),
           NEW op \in Requests, NEW a \in Aliases \cup {NULL}, NEW f, NEW err,
           NEW status \in Reasons \ {"kProfileNotAttached"},
           Answer(op, u, a, f, err, status, {}),
           status = "kAliasNotFound" => profiles[u].pwdb.text.db[a] = NoPasswd,
           status = "kAliasAlreadyUsed" => profiles[u].pwdb.text.db[a] # NoPasswd
    PROVE  Store!StoreNext
  <1>1. StoreFiles' = StoreFiles /\ StoreHome' = StoreHome
    BY FilesStay, HomeStays
  <1>2. StoreHome[u] # NULL /\ Store!Entry(u, a) = profiles[u].pwdb.text.db[a]
    BY Mirror
  <1> QED
    BY <1>1, <1>2, RefuseMaps

LEMMA NotAttachedMaps ==
    ASSUME TypeOK, NEW u \in Users, profiles[u] = NULL, UNCHANGED disk, UNCHANGED profiles,
           NEW op \in Requests, NEW a \in Aliases \cup {NULL}, NEW f, NEW err,
           NEW status \in {"kProfileNotAttached", "kGeneralError", "kPWDBReadingError",
                           "kAuthenticationFailure"},
           Answer(op, u, a, f, err, status, {})
    PROVE  Store!StoreNext
  <1>1. StoreFiles' = StoreFiles /\ StoreHome' = StoreHome /\ StoreHome[u] = NULL
    BY DEF StoreFiles, StoreHome
  <1>2. status \in Reasons
    BY DEF Reasons
  <1> QED
    BY <1>1, <1>2, RefuseMaps

LEMMA PutMaps ==
    ASSUME TypeOK, SyncInv, NEW u \in Users, profiles[u] # NULL,
           NEW x \in Profile, x.path = profiles[u].path, Keep(u, x),
           NEW a \in Aliases, profiles[u].pwdb.text.db[a] = NoPasswd, NEW w \in Passwds,
           NEW c \in Cipher, c.user = u, c.text.db = Inserted(profiles[u].pwdb.text.db, a, w),
           disk' = [disk EXCEPT ![profiles[u].path] = c],
           NEW f, NEW err, Answer("add", u, a, f, err, "kNoError", {})
    PROVE  Store!StoreNext
  <1> DEFINE h  == profiles[u].path
             db == profiles[u].pwdb.text.db
  <1>1. /\ StoreHome[u] = h /\ StoreHome[u] # NULL /\ h \in Paths
        /\ StoreFiles[h] = [user |-> u, db |-> db]
        /\ Store!Entry(u, a) = NoPasswd
    BY Mirror
  <1>2. StoreHome' = StoreHome
    BY HomeStays
  <1>3. StoreFiles' = [StoreFiles EXCEPT ![h] = [user |-> u, db |-> [db EXCEPT ![a] = w]]]
    <2>1. disk' = [disk EXCEPT ![h] = c] /\ c.text.db = [db EXCEPT ![a] = w]
      BY DEF Inserted
    <2> HIDE DEF h, db
    <2>2. StoreFiles' = [StoreFiles EXCEPT ![h] = [user |-> c.user, db |-> c.text.db]]
      BY <1>1, <2>1, FileMoves
    <2> QED
      BY <2>1, <2>2
  <1>4. Store!Says("add", u, a, "kNoError", {})
    BY AnswerMoves
  <1> HIDE DEF h, db
  <1>5. StoreFiles' = [StoreFiles EXCEPT ![StoreHome[u]].db[a] = w]
    <2>1. [StoreFiles[h] EXCEPT !.db[a] = w] = [user |-> u, db |-> [db EXCEPT ![a] = w]]
      BY <1>1
    <2>2. [StoreFiles EXCEPT ![h].db[a] = w] = [StoreFiles EXCEPT ![h] = [StoreFiles[h] EXCEPT !.db[a] = w]]
      OBVIOUS
    <2>3. StoreFiles' = [StoreFiles EXCEPT ![h].db[a] = w]
      BY <1>3, <2>1, <2>2
    <2> QED
      BY <1>1, <2>3
  <1>6. Store!Put(u, a, w)
    BY <1>1, <1>2, <1>4, <1>5 DEF Store!Put
  <1> QED
    BY <1>6 DEF Store!StoreNext

LEMMA RemoveMaps ==
    ASSUME TypeOK, SyncInv, NEW u \in Users, profiles[u] # NULL,
           NEW x \in Profile, x.path = profiles[u].path, Keep(u, x),
           NEW a \in Aliases, profiles[u].pwdb.text.db[a] # NoPasswd,
           NEW c \in Cipher, c.user = u, c.text.db = Removed(profiles[u].pwdb.text.db, a),
           disk' = [disk EXCEPT ![profiles[u].path] = c],
           NEW f, NEW err, Answer("del", u, a, f, err, "kNoError", {})
    PROVE  Store!StoreNext
  <1> DEFINE h  == profiles[u].path
             db == profiles[u].pwdb.text.db
  <1>1. /\ StoreHome[u] = h /\ StoreHome[u] # NULL /\ h \in Paths
        /\ StoreFiles[h] = [user |-> u, db |-> db]
        /\ Store!Entry(u, a) # NoPasswd
    BY Mirror
  <1>2. StoreHome' = StoreHome
    BY HomeStays
  <1>3. StoreFiles' = [StoreFiles EXCEPT ![h] = [user |-> u, db |-> [db EXCEPT ![a] = NoPasswd]]]
    <2>1. disk' = [disk EXCEPT ![h] = c] /\ c.text.db = [db EXCEPT ![a] = NoPasswd]
      BY DEF Removed
    <2> HIDE DEF h, db
    <2>2. StoreFiles' = [StoreFiles EXCEPT ![h] = [user |-> c.user, db |-> c.text.db]]
      BY <1>1, <2>1, FileMoves
    <2> QED
      BY <2>1, <2>2
  <1>4. Store!Says("del", u, a, "kNoError", {})
    BY AnswerMoves
  <1> HIDE DEF h, db
  <1>5. StoreFiles' = [StoreFiles EXCEPT ![StoreHome[u]].db[a] = NoPasswd]
    <2>1. [StoreFiles[h] EXCEPT !.db[a] = NoPasswd] = [user |-> u, db |-> [db EXCEPT ![a] = NoPasswd]]
      BY <1>1
    <2>2. [StoreFiles EXCEPT ![h].db[a] = NoPasswd] = [StoreFiles EXCEPT ![h] = [StoreFiles[h] EXCEPT !.db[a] = NoPasswd]]
      OBVIOUS
    <2>3. StoreFiles' = [StoreFiles EXCEPT ![h].db[a] = NoPasswd]
      BY <1>3, <2>1, <2>2
    <2> QED
      BY <1>1, <2>3
  <1>6. Store!Remove(u, a)
    BY <1>1, <1>2, <1>4, <1>5 DEF Store!Remove
  <1> QED
    BY <1>6 DEF Store!StoreNext

-----------------------------------------------------------------------------
(* The handlers *)

\* Without prefixes findalias() finds the alias it was asked for.
LEMMA FoundAlias ==
    ASSUME NoPrefixes, NEW db \in Db, NEW a \in Aliases
    PROVE  findalias(db, a) = IF db[a] # NoPasswd THEN {a} ELSE {}
  BY PrefixesAssumption DEF NoPrefixes, findalias, Stored

LEMMA OpenStatus ==
    ASSUME NEW p, p.sessioned \in BOOLEAN, NEW u, NEW m, NEW ss, NEW f
    PROVE  Open(p, u, m, ss, f).status \in
              {"kNoError", "kAuthenticationFailure", "kPWDBReadingError"}
  BY DEF Open

\* The PWDB of an attached user, once it has been opened.
LEMMA OpenedText ==
    ASSUME FailsHonestly, TypeOK, GoodInv, SyncInv, NEW u \in Users, profiles[u] # NULL,
           NEW m \in Secrets, NEW ss, NEW f \in Faults
    PROVE  LET p == profiles[u]
               o == Open(p, u, m, ss, f)
           IN  /\ o.p \in Profile /\ o.p.path = p.path /\ o.p.sessioned = p.sessioned
               /\ o.status = "kNoError" => /\ o.p.plbuf = p.pwdb.text /\ o.p.plbuf \in Text
                                           /\ DetachedDb(o.p.plbuf) = p.pwdb.text.db
  <1>1. /\ profiles[u] \in Profile /\ profiles[u].pwdb.text.framed = TRUE
        /\ Synced(u, profiles[u], disk[profiles[u].path])
    BY HonestEarly, AtRest
  <1>2. f \in Fault /\ Early(f)
    BY HonestFault
  <1>3. /\ Open(profiles[u], u, m, ss, f).p \in Profile
        /\ Open(profiles[u], u, m, ss, f).p.path = profiles[u].path
        /\ Open(profiles[u], u, m, ss, f).p.sessioned = profiles[u].sessioned
        /\ Open(profiles[u], u, m, ss, f).status = "kNoError" =>
              Open(profiles[u], u, m, ss, f).p.plbuf \in Text
    BY <1>1, <1>2, OpenType
  <1>4. Open(profiles[u], u, m, ss, f).status = "kNoError" =>
           Open(profiles[u], u, m, ss, f).p.plbuf = profiles[u].pwdb.text
    BY <1>1, <1>2, OpenSame
  <1> QED
    BY <1>1, <1>3, <1>4, DetachedSame

LEMMA AddFailMaps ==
    ASSUME FailsHonestly, TypeOK, SyncInv, UNCHANGED disk, NEW u \in Users, profiles[u] # NULL,
           NEW m \in Secrets, NEW ss \in Secrets \cup {NoSecret}, NEW a \in Aliases,
           NEW f \in Faults, NEW err, NEW status \in Reasons \ {"kProfileNotAttached"},
           NEW y \in Profile, y.path = profiles[u].path, NEW bare \in BOOLEAN,
           AddFails(u, m, ss, a, f, err, status, y, bare),
           status # "kAliasNotFound",
           status = "kAliasAlreadyUsed" => profiles[u].pwdb.text.db[a] # NoPasswd
    PROVE  Store!StoreNext
  <1> DEFINE x == Restore(y, u, m, ss, bare, f)
  <1>1. x \in Profile /\ x.path = profiles[u].path
    BY HonestFault, RestoreType
  <1>2. Keep(u, x) /\ Answer("add", u, a, f, err, status, {})
    BY DEF AddFails
  <1>3. "add" \in Requests
    BY DEF Requests
  <1> HIDE DEF x
  <1> QED
    BY <1>1, <1>2, <1>3, FailMaps

LEMMA AddMaps ==
    ASSUME FailsHonestly, NoPrefixes, TypeOK, GoodInv, SyncInv, NEW u \in Users, NEW m \in Secrets,
           NEW ss \in Secrets \cup {NoSecret}, NEW a \in Aliases, NEW w \in Passwds,
           NEW f \in Faults, AddPassword(u, m, ss, a, w, f)
    PROVE  Store!StoreNext
  <1> DEFINE p  == profiles[u]
             x  == Open(p, u, m, ss, f).p
             st == Open(p, u, m, ss, f).status
             db == DetachedDb(x.plbuf)
             in == Inserted(db, a, w)
             q  == [x EXCEPT !.plbuf = Bare(db)]
             e  == Sealed(x, u, m, in, f)
             r  == Rekeyed(e, u, m, ss, f)
             Fails(err, status, y, bare) == AddFails(u, m, ss, a, f, err, status, y, bare)
  <1>1. \/ /\ p = NULL /\ UNCHANGED profiles /\ UNCHANGED disk
           /\ Answer("add", u, a, f, "0", "kProfileNotAttached", {})
        \/ /\ p # NULL /\ UNCHANGED disk
           /\ \/ Fails("EINVAL", "kInvalidParams", p, FALSE)
              \/ st # "kNoError" /\ Fails("0", st, x, FALSE)
              \/ st = "kNoError" /\ Fails("0", "kGeneralError", x, FALSE)
              \/ /\ st = "kNoError" /\ findalias(db, a) # {}
                 /\ Fails("0", "kAliasAlreadyUsed", q, TRUE)
              \/ st = "kNoError" /\ Fails("ENOMEM", "kGeneralError", q, TRUE)
        \/ f.at \in {"insert", "shuffle", "encrypt", "write", "power"}
        \/ /\ p # NULL /\ (p.sessioned => ss # NoSecret) /\ st = "kNoError"
           /\ findalias(db, a) = {}
           /\ f.at \in {"none", "rekey"} /\ kwrite(e.path, e.pwdb, f)
           /\ \/ ~RekeyOk(e, u, m, f)
              \/ /\ RekeyOk(e, u, m, f) /\ Keep(u, r)
                 /\ Answer("add", u, a, f, "0", "kNoError", {})
    BY ZenonT(60) DEF AddPassword, AddStops, AddWrites, PowerFails, Ready
  <1>2. f \in Fault /\ Honest(f)
    BY HonestFault
  <1>3. f.at \notin {"insert", "shuffle", "encrypt", "write", "power", "rekey"}
    BY <1>2 DEF Honest
  <1>4. CASE /\ p = NULL /\ UNCHANGED profiles /\ UNCHANGED disk
             /\ Answer("add", u, a, f, "0", "kProfileNotAttached", {})
    BY <1>4, NotAttachedMaps DEF Requests
  <1>5. ASSUME p # NULL PROVE Store!StoreNext
    <2>1. p \in Profile /\ p.sessioned \in BOOLEAN /\ p.pwdb.text.db \in Db
      <3>1. p \in Profile /\ p.pwdb # NULL
        BY <1>5, HonestEarly, AtRest
      <3> QED
        BY <3>1 DEF Profile, Cipher, Text
    <2>2. /\ x \in Profile /\ x.path = p.path /\ x.sessioned = p.sessioned
          /\ st = "kNoError" => x.plbuf = p.pwdb.text /\ x.plbuf \in Text /\ db = p.pwdb.text.db
      BY <1>5, OpenedText
    <2>3. st # "kNoError" => st \in {"kAuthenticationFailure", "kPWDBReadingError"}
      BY <2>1, OpenStatus
    <2> HIDE DEF x, st, db
    <2>4. st = "kNoError" => q \in Profile /\ q.path = p.path
      BY <2>1, <2>2, TextTypes DEF Profile
    <2> HIDE DEF q
    <2>5. CASE /\ UNCHANGED disk
               /\ \/ Fails("EINVAL", "kInvalidParams", p, FALSE)
                  \/ st # "kNoError" /\ Fails("0", st, x, FALSE)
                  \/ st = "kNoError" /\ Fails("0", "kGeneralError", x, FALSE)
                  \/ /\ st = "kNoError" /\ findalias(db, a) # {}
                     /\ Fails("0", "kAliasAlreadyUsed", q, TRUE)
                  \/ st = "kNoError" /\ Fails("ENOMEM", "kGeneralError", q, TRUE)
      <3>1. CASE Fails("EINVAL", "kInvalidParams", p, FALSE)
        BY <1>5, <2>1, <2>5, <3>1, AddFailMaps DEF Reasons
      <3>2. CASE st # "kNoError" /\ Fails("0", st, x, FALSE)
        BY <1>5, <2>2, <2>3, <2>5, <3>2, AddFailMaps DEF Reasons
      <3>3. CASE Fails("0", "kGeneralError", x, FALSE)
        BY <1>5, <2>2, <2>5, <3>3, AddFailMaps DEF Reasons
      <3>4. CASE /\ st = "kNoError" /\ findalias(db, a) # {}
                 /\ Fails("0", "kAliasAlreadyUsed", q, TRUE)
        <4>1. p.pwdb.text.db[a] # NoPasswd
          BY <2>1, <2>2, <3>4, FoundAlias
        <4> QED
          BY <1>5, <2>4, <2>5, <3>4, <4>1, AddFailMaps DEF Reasons
      <3>5. CASE st = "kNoError" /\ Fails("ENOMEM", "kGeneralError", q, TRUE)
        BY <1>5, <2>4, <2>5, <3>5, AddFailMaps DEF Reasons
      <3> HIDE DEF Fails
      <3> QED
        BY <2>5, <3>1, <3>2, <3>3, <3>4, <3>5
    <2>6. CASE /\ p.sessioned => ss # NoSecret
               /\ st = "kNoError" /\ findalias(db, a) = {} /\ kwrite(e.path, e.pwdb, f)
               /\ \/ ~RekeyOk(e, u, m, f)
                  \/ /\ RekeyOk(e, u, m, f) /\ Keep(u, r)
                     /\ Answer("add", u, a, f, "0", "kNoError", {})
      <3>1. p.pwdb.text.db[a] = NoPasswd /\ in = Inserted(p.pwdb.text.db, a, w) /\ in \in Db
        BY <2>1, <2>2, <2>6, FoundAlias, DbTypes
      <3> HIDE DEF in
      <3>2. /\ e \in Profile /\ e.path = p.path /\ e.sessioned = p.sessioned /\ e.pwdb \in Cipher
            /\ e.pwdb = [user |-> u, secret |-> m, text |-> Framed(in)]
        BY <1>2, <1>3, <2>2, <3>1, SealedType, SealedUnder
      <3> HIDE DEF e
      <3>3. e.pwdb.user = u /\ e.pwdb.secret = m /\ e.pwdb.text.db = in
        BY <3>2 DEF Framed
      <3>4. RekeyOk(e, u, m, f)
        BY <1>3, <3>2, <3>3, NullAssumption DEF RekeyOk, SetkeyOk, Opens
      <3>5. r \in Profile /\ r.path = p.path
        BY <1>2, <2>6, <3>2, RekeyedType
      <3> HIDE DEF r
      <3>6. disk' = [disk EXCEPT ![p.path] = e.pwdb]
        BY <1>3, <2>6, <3>2 DEF kwrite
      <3>7. Keep(u, r) /\ Answer("add", u, a, f, "0", "kNoError", {})
        BY <2>6, <3>4
      <3> QED
        BY <1>5, <3>1, <3>2, <3>3, <3>5, <3>6, <3>7, PutMaps
    <2> QED
      BY <1>1, <1>3, <1>5, <2>5, <2>6
  <1> QED
    BY <1>1, <1>3, <1>4, <1>5

LEMMA DelFailMaps ==
    ASSUME TypeOK, SyncInv, UNCHANGED disk, NEW u \in Users, profiles[u] # NULL,
           NEW a \in Aliases, NEW f, NEW err, NEW status \in Reasons \ {"kProfileNotAttached"},
           NEW y \in Profile, y.path = profiles[u].path, DelFails(u, a, f, err, status, y),
           status # "kAliasAlreadyUsed",
           status = "kAliasNotFound" => profiles[u].pwdb.text.db[a] = NoPasswd
    PROVE  Store!StoreNext
  <1>1. Dropped(y) \in Profile /\ Dropped(y).path = profiles[u].path
    BY DroppedType
  <1>2. Keep(u, Dropped(y)) /\ Answer("del", u, a, f, err, status, {})
    BY DEF DelFails
  <1>3. "del" \in Requests
    BY DEF Requests
  <1> QED
    BY <1>1, <1>2, <1>3, FailMaps

LEMMA DelMaps ==
    ASSUME FailsHonestly, NoPrefixes, TypeOK, GoodInv, SyncInv, NEW u \in Users, NEW m \in Secrets,
           NEW ss \in Secrets \cup {NoSecret}, NEW a \in Aliases,
           NEW f \in Faults, DelPassword(u, m, ss, a, f)
    PROVE  Store!StoreNext
  <1> DEFINE p  == profiles[u]
             x  == Open(p, u, m, ss, f).p
             st == Open(p, u, m, ss, f).status
             db == DetachedDb(x.plbuf)
             lost == "reencrypt" \in f.also
             c  == Encrypt(x, u, m, lost, f.how)
             e(b) == Sealed(x, u, m, Removed(db, b), f)
             r(b) == Rekeyed(e(b), u, m, ss, f)
             Fails(status, y) == DelFails(u, a, f, "0", status, y)
  <1>1. \/ /\ p = NULL /\ UNCHANGED profiles /\ UNCHANGED disk
           /\ Answer("del", u, a, f, "0", "kProfileNotAttached", {})
        \/ /\ p # NULL /\ UNCHANGED disk
           /\ \/ Fails("kInvalidParams", p)
              \/ st # "kNoError" /\ Fails(st, x)
              \/ st = "kNoError" /\ Fails("kGeneralError", c)
              \/ st = "kNoError" /\ findalias(db, a) = {} /\ Fails("kAliasNotFound", x)
        \/ f.at \in {"insert", "remove", "stub", "shuffle", "encrypt", "write", "power"}
        \/ /\ p # NULL /\ (p.sessioned => ss # NoSecret) /\ st = "kNoError"
           /\ f.at \in {"none", "rekey"}
           /\ \E b \in findalias(db, a) :
                 /\ kwrite(e(b).path, e(b).pwdb, f)
                 /\ \/ ~RekeyOk(e(b), u, m, f)
                    \/ /\ RekeyOk(e(b), u, m, f) /\ Keep(u, r(b))
                       /\ Answer("del", u, a, f, "0", "kNoError", {})
    BY ZenonT(60) DEF DelPassword, DelFindsNone, DelStops, DelWrites, PowerFails, Ready
  <1>2. f \in Fault /\ Honest(f)
    BY HonestFault
  <1>3. /\ f.at \notin {"insert", "remove", "stub", "shuffle", "encrypt", "write", "power", "rekey"}
        /\ lost \in BOOLEAN /\ ~lost
    BY <1>2 DEF Honest
  <1> HIDE DEF lost
  <1>4. CASE /\ p = NULL /\ UNCHANGED profiles /\ UNCHANGED disk
             /\ Answer("del", u, a, f, "0", "kProfileNotAttached", {})
    BY <1>4, NotAttachedMaps DEF Requests
  <1>5. ASSUME p # NULL PROVE Store!StoreNext
    <2>1. p \in Profile /\ p.sessioned \in BOOLEAN /\ p.pwdb.text.db \in Db
      <3>1. p \in Profile /\ p.pwdb # NULL
        BY <1>5, HonestEarly, AtRest
      <3> QED
        BY <3>1 DEF Profile, Cipher, Text
    <2>2. /\ x \in Profile /\ x.path = p.path /\ x.sessioned = p.sessioned
          /\ st = "kNoError" => x.plbuf = p.pwdb.text /\ x.plbuf \in Text /\ db = p.pwdb.text.db
      BY <1>5, OpenedText
    <2>3. st # "kNoError" => st \in {"kAuthenticationFailure", "kPWDBReadingError"}
      BY <2>1, OpenStatus
    <2> HIDE DEF x, st, db
    <2>4. st = "kNoError" => c \in Profile /\ c.path = p.path
      BY <1>3, <2>2, NullAssumption, EncryptType
    <2> HIDE DEF c
    <2>5. CASE /\ UNCHANGED disk
               /\ \/ Fails("kInvalidParams", p)
                  \/ st # "kNoError" /\ Fails(st, x)
                  \/ st = "kNoError" /\ Fails("kGeneralError", c)
                  \/ st = "kNoError" /\ findalias(db, a) = {} /\ Fails("kAliasNotFound", x)
      <3>1. CASE Fails("kInvalidParams", p)
        BY <1>5, <2>1, <2>5, <3>1, DelFailMaps DEF Reasons
      <3>2. CASE st # "kNoError" /\ Fails(st, x)
        BY <1>5, <2>2, <2>3, <2>5, <3>2, DelFailMaps DEF Reasons
      <3>3. CASE st = "kNoError" /\ Fails("kGeneralError", c)
        BY <1>5, <2>4, <2>5, <3>3, DelFailMaps DEF Reasons
      <3>4. CASE st = "kNoError" /\ findalias(db, a) = {} /\ Fails("kAliasNotFound", x)
        <4>1. p.pwdb.text.db[a] = NoPasswd
          BY <2>1, <2>2, <3>4, FoundAlias
        <4> QED
          BY <1>5, <2>2, <2>5, <3>4, <4>1, DelFailMaps DEF Reasons
      <3> HIDE DEF Fails
      <3> QED
        BY <2>5, <3>1, <3>2, <3>3, <3>4
    <2>6. CASE /\ p.sessioned => ss # NoSecret
               /\ st = "kNoError"
               /\ \E b \in findalias(db, a) :
                     /\ kwrite(e(b).path, e(b).pwdb, f)
                     /\ \/ ~RekeyOk(e(b), u, m, f)
                        \/ /\ RekeyOk(e(b), u, m, f) /\ Keep(u, r(b))
                           /\ Answer("del", u, a, f, "0", "kNoError", {})
      <3>1. PICK b \in findalias(db, a) :
                     /\ kwrite(e(b).path, e(b).pwdb, f)
                     /\ \/ ~RekeyOk(e(b), u, m, f)
                        \/ /\ RekeyOk(e(b), u, m, f) /\ Keep(u, r(b))
                           /\ Answer("del", u, a, f, "0", "kNoError", {})
        BY <2>6
      <3>2. b = a /\ p.pwdb.text.db[a] # NoPasswd
        BY <2>1, <2>2, <2>6, FoundAlias
      <3>3. Removed(db, b) = Removed(p.pwdb.text.db, a) /\ Removed(db, b) \in Db
        BY <2>1, <2>2, <2>6, <3>2, DbTypes
      <3> HIDE DEF db
      <3>4. /\ e(b) \in Profile /\ e(b).path = p.path /\ e(b).sessioned = p.sessioned
            /\ e(b).pwdb \in Cipher
            /\ e(b).pwdb = [user |-> u, secret |-> m, text |-> Framed(Removed(db, b))]
        BY <1>2, <1>3, <2>2, <3>3, SealedType, SealedUnder
      <3> HIDE DEF e
      <3>5. e(b).pwdb.user = u /\ e(b).pwdb.secret = m /\ e(b).pwdb.text.db = Removed(db, b)
        BY <3>4 DEF Framed
      <3>6. RekeyOk(e(b), u, m, f)
        BY <1>3, <3>4, <3>5, NullAssumption DEF RekeyOk, SetkeyOk, Opens
      <3>7. r(b) \in Profile /\ r(b).path = p.path
        BY <1>2, <2>6, <3>4, RekeyedType
      <3> HIDE DEF r
      <3>8. disk' = [disk EXCEPT ![p.path] = e(b).pwdb]
        BY <1>3, <3>1, <3>4 DEF kwrite
      <3>9. Keep(u, r(b)) /\ Answer("del", u, a, f, "0", "kNoError", {})
        BY <3>1, <3>6
      <3> QED
        BY <1>5, <3>2, <3>3, <3>4, <3>5, <3>7, <3>8, <3>9, RemoveMaps
    <2> QED
      BY <1>1, <1>3, <1>5, <2>5, <2>6
  <1> QED
    BY <1>1, <1>3, <1>4, <1>5

\* What "get" and "aliases" find in the plaintext, and what they leave in memory.
LEMMA LookedText ==
    ASSUME FailsHonestly, TypeOK, GoodInv, SyncInv, NEW u \in Users, profiles[u] # NULL,
           NEW s \in Secrets, NEW f \in Faults
    PROVE  LET p  == profiles[u]
               d  == Decrypt(p, u, s, f.at = "decrypt")
               ok == DecryptOk(p, u, s, f.at = "decrypt")
               db == DetachedDb(d.plbuf)
               e  == Encrypt(d, u, s, "reencrypt" \in f.also, f.how)
               r  == Reseal(d, u, s, db, f)
           IN  /\ d \in Profile /\ d.path = p.path
               /\ ok => /\ db = p.pwdb.text.db /\ db \in Db
                        /\ e \in Profile /\ e.path = p.path
                        /\ r \in Profile /\ r.path = p.path
  <1> DEFINE p    == profiles[u]
             cut  == f.at = "decrypt"
             d    == Decrypt(p, u, s, cut)
             ok   == DecryptOk(p, u, s, cut)
             db   == DetachedDb(d.plbuf)
             lost == "reencrypt" \in f.also
             e    == Encrypt(d, u, s, lost, f.how)
             r    == Reseal(d, u, s, db, f)
  <1>1. f \in Fault /\ cut \in BOOLEAN /\ lost \in BOOLEAN
    BY HonestFault
  <1>2. p \in Profile /\ p.pwdb # NULL /\ p.pwdb.text.framed = TRUE
    BY HonestEarly, AtRest
  <1>3. p.pwdb.text \in Text /\ p.pwdb.text # NULL /\ p.pwdb.text.db \in Db
    BY <1>2, NullAssumption DEF Profile, Cipher, Text
  <1> HIDE DEF p, cut, lost
  <1>4. d \in Profile /\ d.path = p.path /\ (ok => d.plbuf = p.pwdb.text)
    BY <1>1, <1>2, DecryptType
  <1> HIDE DEF d, ok
  <1>5. ok => db = p.pwdb.text.db /\ db \in Db
    BY <1>2, <1>3, <1>4, DetachedSame
  <1> HIDE DEF db
  <1>6. ok => e \in Profile /\ e.path = p.path
    BY <1>1, <1>3, <1>4, EncryptType
  <1>7. ok => r \in Profile /\ r.path = p.path
    BY <1>1, <1>4, <1>5, SealedType, DroppedType DEF Reseal
  <1> QED
    BY <1>4, <1>5, <1>6, <1>7 DEF p, cut, d, ok, db, lost, e, r

LEMMA GetMaps ==
    ASSUME FailsHonestly, NoPrefixes, TypeOK, GoodInv, SyncInv, NEW u \in Users, NEW s \in Secrets,
           NEW a \in Aliases, NEW f \in Faults, GetPassword(u, s, a, f)
    PROVE  Store!StoreNext
  <1> DEFINE p    == profiles[u]
             d    == Decrypt(p, u, s, f.at = "decrypt")
             ok   == DecryptOk(p, u, s, f.at = "decrypt")
             db   == DetachedDb(d.plbuf)
             e    == Encrypt(d, u, s, "reencrypt" \in f.also, f.how)
             r    == Reseal(d, u, s, db, f)
             Ans(status, out) == Answer("get", u, a, f, "0", status, out)
  <1>1. /\ UNCHANGED disk
        /\ \/ p = NULL /\ Keep(u, NULL) /\ Ans("kProfileNotAttached", {})
           \/ /\ p # NULL
              /\ \/ ~ok /\ Keep(u, d) /\ Ans("kAuthenticationFailure", {})
                 \/ ok /\ Keep(u, e) /\ Ans("kGeneralError", {})
                 \/ ok /\ findalias(db, a) = {} /\ Keep(u, r) /\ Ans("kAliasNotFound", {})
                 \/ ok /\ \E b \in findalias(db, a) : Keep(u, r) /\ Ans("kNoError", {db[b]})
           \/ f.at = "lookup"
    BY ZenonT(60) DEF GetPassword
  <1>2. f.at # "lookup" /\ "get" \in Requests
    BY HonestFault DEF Honest, Requests
  <1>3. CASE p = NULL /\ Keep(u, NULL) /\ Ans("kProfileNotAttached", {})
    <2>1. UNCHANGED profiles
      BY <1>3 DEF TypeOK, Keep
    <2> QED
      BY <1>1, <1>2, <1>3, <2>1, NotAttachedMaps
  <1>4. ASSUME p # NULL PROVE Store!StoreNext
    <2>1. /\ d \in Profile /\ d.path = p.path
          /\ ok => /\ db = p.pwdb.text.db /\ db \in Db
                   /\ e \in Profile /\ e.path = p.path
                   /\ r \in Profile /\ r.path = p.path
      BY <1>4, LookedText
    <2> HIDE DEF d, ok, db, e, r
    <2>2. CASE ~ok /\ Keep(u, d) /\ Ans("kAuthenticationFailure", {})
      BY <1>1, <1>2, <1>4, <2>1, <2>2, FailMaps DEF Reasons
    <2>3. CASE ok /\ Keep(u, e) /\ Ans("kGeneralError", {})
      BY <1>1, <1>2, <1>4, <2>1, <2>3, FailMaps DEF Reasons
    <2>4. CASE ok /\ findalias(db, a) = {} /\ Keep(u, r) /\ Ans("kAliasNotFound", {})
      <3>1. p.pwdb.text.db[a] = NoPasswd
        BY <2>1, <2>4, FoundAlias
      <3> QED
        BY <1>1, <1>2, <1>4, <2>1, <2>4, <3>1, FailMaps DEF Reasons
    <2>5. CASE ok /\ \E b \in findalias(db, a) : Keep(u, r) /\ Ans("kNoError", {db[b]})
      <3>1. db[a] # NoPasswd /\ Keep(u, r) /\ Ans("kNoError", {db[a]})
        BY <2>1, <2>5, FoundAlias
      <3>2. StoreHome[u] # NULL /\ Store!Entry(u, a) = db[a]
        BY <1>4, <2>1, <2>5, Mirror
      <3>3. StoreFiles' = StoreFiles /\ StoreHome' = StoreHome
        BY <1>1, <1>4, <2>1, <2>5, <3>1, FilesStay, HomeStays
      <3>4. Store!Says("get", u, a, "kNoError", {db[a]})
        BY <3>1, AnswerMoves
      <3>5. Store!Look(u, a)
        BY <3>1, <3>2, <3>3, <3>4 DEF Store!Look
      <3> QED
        BY <3>5 DEF Store!StoreNext
    <2> QED
      BY <1>1, <1>2, <1>4, <2>2, <2>3, <2>4, <2>5
  <1> QED
    BY <1>1, <1>2, <1>3, <1>4

LEMMA ListMaps ==
    ASSUME FailsHonestly, TypeOK, GoodInv, SyncInv, NEW u \in Users, NEW s \in Secrets,
           NEW f \in Faults, ListAliases(u, s, f)
    PROVE  Store!StoreNext
  <1> DEFINE p    == profiles[u]
             d    == Decrypt(p, u, s, f.at = "decrypt")
             ok   == DecryptOk(p, u, s, f.at = "decrypt")
             db   == DetachedDb(d.plbuf)
             e    == Encrypt(d, u, s, "reencrypt" \in f.also, f.how)
             r    == Reseal(d, u, s, db, f)
             Ans(status, out) == Answer("aliases", u, NULL, f, "0", status, out)
  <1>1. /\ UNCHANGED disk
        /\ \/ p = NULL /\ Keep(u, NULL) /\ Ans("kProfileNotAttached", {})
           \/ /\ p # NULL
              /\ \/ ~ok /\ Keep(u, d) /\ Ans("kAuthenticationFailure", {})
                 \/ ok /\ Keep(u, e) /\ Ans("kGeneralError", {})
                 \/ ok /\ Keep(u, r) /\ Ans("kGeneralError", {})
                 \/ /\ ok /\ Cardinality(Stored(db)) <= ListCap
                    /\ Keep(u, r) /\ Ans("kNoError", Stored(db))
           \/ f.at = "lookup"
    BY ZenonT(60) DEF ListAliases
  <1>2. f.at # "lookup" /\ "aliases" \in Requests
    BY HonestFault DEF Honest, Requests
  <1>3. CASE p = NULL /\ Keep(u, NULL) /\ Ans("kProfileNotAttached", {})
    <2>1. UNCHANGED profiles
      BY <1>3 DEF TypeOK, Keep
    <2> QED
      BY <1>1, <1>2, <1>3, <2>1, NotAttachedMaps
  <1>4. ASSUME p # NULL PROVE Store!StoreNext
    <2>1. /\ d \in Profile /\ d.path = p.path
          /\ ok => /\ db = p.pwdb.text.db
                   /\ e \in Profile /\ e.path = p.path
                   /\ r \in Profile /\ r.path = p.path
      BY <1>4, LookedText
    <2> HIDE DEF d, ok, db, e, r
    <2>2. CASE ~ok /\ Keep(u, d) /\ Ans("kAuthenticationFailure", {})
      BY <1>1, <1>2, <1>4, <2>1, <2>2, FailMaps DEF Reasons
    <2>3. CASE ok /\ Keep(u, e) /\ Ans("kGeneralError", {})
      BY <1>1, <1>2, <1>4, <2>1, <2>3, FailMaps DEF Reasons
    <2>4. CASE ok /\ Keep(u, r) /\ Ans("kGeneralError", {})
      BY <1>1, <1>2, <1>4, <2>1, <2>4, FailMaps DEF Reasons
    <2>5. CASE /\ ok /\ Cardinality(Stored(db)) <= ListCap
               /\ Keep(u, r) /\ Ans("kNoError", Stored(db))
      <3>1. StoreHome[u] # NULL /\ StoreFiles[StoreHome[u]].db = db
        <4>1. /\ StoreHome[u] = p.path /\ StoreHome[u] # NULL
              /\ StoreFiles[p.path] = [user |-> u, db |-> db]
          BY <1>4, <2>1, <2>5, Mirror
        <4> HIDE DEF p
        <4> QED
          BY <4>1
      <3>2. Store!Named(StoreFiles[StoreHome[u]].db) = Stored(db)
        BY <3>1 DEF Store!Named, Stored
      <3>3. StoreFiles' = StoreFiles /\ StoreHome' = StoreHome
        BY <1>1, <1>4, <2>1, <2>5, FilesStay, HomeStays
      <3>4. Store!Says("aliases", u, NULL, "kNoError", Store!Named(StoreFiles[StoreHome[u]].db))
        BY <2>5, <3>2, AnswerMoves
      <3>5. Cardinality(Store!Named(StoreFiles[StoreHome[u]].db)) <= ListCap
        BY <2>5, <3>2
      \* The store counts with the Cardinality of its own instance.
      <3>6. Store!List(u)
        BY <3>1, <3>3, <3>4, <3>5, Zenon DEF Store!List, Store!Cardinality, Cardinality
      <3> QED
        BY <3>6 DEF Store!StoreNext
    <2> QED
      BY <1>1, <1>2, <1>4, <2>2, <2>3, <2>4, <2>5
  <1> QED
    BY <1>1, <1>2, <1>3, <1>4

\* With the right password, what follows the registration cannot fail.
LEMMA StartAnswers ==
    ASSUME NEW op, NEW u \in Users, NEW p \in Profile, NEW m \in Secrets, Opens(p, u, m),
           NEW ss \in Secrets \cup {NoSecret}, NEW f \in Faults, f.at # "rekey",
           StartSession(op, u, p, m, ss, f)
    PROVE  \E x \in Profile : /\ x.path = p.path /\ Keep(u, x)
                              /\ Answer(op, u, NULL, f, "0", "kNoError", {})
  <1> DEFINE cut == f.at = "rekey"
             k   == Setkey(p, u, m, ss, cut, f.how)
             s   == [k EXCEPT !.sessioned = TRUE]
  <1>1. SetkeyOk(p, u, m, f.at = "rekey", f.how)
    BY DEF SetkeyOk
  <1>2. /\ Keep(u, p) \/ (ss # NoSecret /\ Keep(u, s))
        /\ Answer(op, u, NULL, f, "0", "kNoError", {})
    BY <1>1 DEF StartSession
  <1>3. cut \in BOOLEAN
    OBVIOUS
  <1> HIDE DEF cut
  <1>4. ss # NoSecret => k \in Profile /\ k.path = p.path
    BY <1>3, SetkeyFrame
  <1> HIDE DEF k
  <1>5. ss # NoSecret => s \in Profile /\ s.path = p.path
    BY <1>4 DEF Profile
  <1> QED
    BY <1>2, <1>5

LEMMA AttachMaps ==
    ASSUME FailsHonestly, TypeOK, SyncInv, NEW u \in Users, NEW path \in PathsOf[u],
           NEW m \in Secrets, NEW ss \in Secrets \cup {NoSecret}, NEW f \in Faults,
           Attach(u, path, m, ss, f)
    PROVE  Store!StoreNext
  <1> DEFINE p == NewProfile(path, ReadPwdb(path))
             Ok == DecryptOk(p, u, m, f.at = "decrypt")
             Ans(status) == Answer("attach", u, NULL, f, "0", status, {})
  <1>1. /\ UNCHANGED disk
        /\ \/ /\ profiles[u] # NULL /\ UNCHANGED profiles /\ Ans("kProfilePreviouslyAttached")
           \/ /\ profiles[u] = NULL /\ UNCHANGED profiles
              /\ \/ Ans("kPWDBReadingError")
                 \/ Ans("kGeneralError")
                 \/ Ans("kAuthenticationFailure")
           \/ /\ profiles[u] = NULL /\ Readable(path) /\ Ok
              /\ StartSession("attach", u, p, m, ss, f)
    BY ZenonT(60) DEF Attach
  <1>2. "attach" \in Requests /\ f.at # "rekey" /\ path \in Paths
    BY HonestFault, ConstantsAssumption DEF Requests, Honest
  <1>3. CASE profiles[u] # NULL /\ UNCHANGED profiles /\ Ans("kProfilePreviouslyAttached")
    <2>1. StoreFiles' = StoreFiles /\ StoreHome' = StoreHome /\ StoreHome[u] # NULL
      BY <1>1, <1>3, Mirror, FilesStay DEF StoreHome
    <2> QED
      BY <1>2, <1>3, <2>1, RefuseMaps DEF Reasons
  <1>4. CASE /\ profiles[u] = NULL /\ UNCHANGED profiles
             /\ \/ Ans("kPWDBReadingError")
                \/ Ans("kGeneralError")
                \/ Ans("kAuthenticationFailure")
    BY <1>1, <1>2, <1>4, NotAttachedMaps
  <1>5. CASE /\ profiles[u] = NULL /\ Readable(path) /\ Ok
             /\ StartSession("attach", u, p, m, ss, f)
    <2>1. ReadPwdb(path) \in Cipher \cup {NULL} /\ (ReadPwdb(path) # NULL => ReadPwdb(path) = disk[path])
      BY <1>2, <1>5, ReadType DEF ReadPwdb
    <2>2. p \in Profile /\ p.pwdb = ReadPwdb(path) /\ p.path = path
      BY <1>2, <2>1 DEF NewProfile, Profile
    <2>3. Opens(p, u, m)
      BY <1>5 DEF DecryptOk
    <2> HIDE DEF p
    <2>4. PICK x \in Profile : /\ x.path = path /\ Keep(u, x)
                               /\ Answer("attach", u, NULL, f, "0", "kNoError", {})
      BY <1>2, <1>5, <2>2, <2>3, StartAnswers
    <2>5. disk[path] \in Cipher /\ disk[path].user = u
      BY <2>1, <2>2, <2>3 DEF Opens
    <2>6. StoreFiles[path] = [user |-> u, db |-> disk[path].text.db] /\ disk[path].text.db \in Db
      BY <1>2, <2>5 DEF StoreFiles, Cipher, Text
    <2>7. StoreFiles[path] # Missing /\ StoreFiles[path].user = u
      BY <2>6, NoFileAssumption
    <2>8. StoreHome' = [StoreHome EXCEPT ![u] = path] /\ StoreHome[u] = NULL
      BY <1>5, <2>4, HomeMoves, DetachedAssumption DEF StoreHome
    <2>9. StoreFiles' = StoreFiles /\ Store!Says("attach", u, NULL, "kNoError", {})
      BY <1>1, <2>4, FilesStay, AnswerMoves
    <2>10. Store!OpenFile(u, path)
      BY <2>7, <2>8, <2>9 DEF Store!OpenFile
    <2> QED
      BY <1>2, <2>10 DEF Store!StoreNext
  <1> QED
    BY <1>1, <1>3, <1>4, <1>5

LEMMA InitAttachMaps ==
    ASSUME FailsHonestly, TypeOK, SyncInv, NEW u \in Users, NEW path \in PathsOf[u],
           NEW m \in Secrets, NEW ss \in Secrets \cup {NoSecret}, NEW f \in Faults,
           InitAttach(u, path, m, ss, f)
    PROVE  Store!StoreNext
  <1> DEFINE cut == f.at = "encrypt"
             p == [NewProfile(path, NULL) EXCEPT !.plbuf = Framed(StubDb)]
             e == Encrypt(p, u, m, cut, f.how)
             Ans(status) == Answer("init", u, NULL, f, "0", status, {})
  <1>1. \/ /\ profiles[u] # NULL /\ Keep(u, profiles[u]) /\ UNCHANGED disk
           /\ Ans("kProfilePreviouslyAttached")
        \/ profiles[u] = NULL /\ Keep(u, NULL) /\ UNCHANGED disk /\ Ans("kGeneralError")
        \/ f.at \in {"insert", "stub", "encrypt", "write", "power"}
        \/ /\ profiles[u] = NULL /\ kwrite(path, e.pwdb, f)
           /\ StartSession("init", u, e, m, ss, f)
    BY ZenonT(60) DEF InitAttach, PowerFails
  <1>2. /\ f.at \notin {"insert", "stub", "encrypt", "write", "power", "rekey"}
        /\ "init" \in Requests /\ path \in Paths
    BY HonestFault, ConstantsAssumption DEF Honest, Requests
  <1>3. cut \in BOOLEAN /\ ~cut
    BY <1>2
  <1>4. CASE /\ profiles[u] # NULL /\ Keep(u, profiles[u]) /\ UNCHANGED disk
             /\ Ans("kProfilePreviouslyAttached")
    <2>1. UNCHANGED profiles
      BY <1>4 DEF Keep, TypeOK
    <2>2. StoreFiles' = StoreFiles /\ StoreHome' = StoreHome /\ StoreHome[u] # NULL
      BY <1>4, <2>1, Mirror, FilesStay DEF StoreHome
    <2> QED
      BY <1>2, <1>4, <2>2, RefuseMaps DEF Reasons
  <1>5. CASE profiles[u] = NULL /\ Keep(u, NULL) /\ UNCHANGED disk /\ Ans("kGeneralError")
    <2>1. UNCHANGED profiles
      BY <1>5 DEF Keep, TypeOK
    <2> QED
      BY <1>2, <1>5, <2>1, NotAttachedMaps
  <1>6. CASE /\ profiles[u] = NULL /\ kwrite(path, e.pwdb, f)
             /\ StartSession("init", u, e, m, ss, f)
    <2>1. /\ p \in Profile /\ p.path = path /\ p.plbuf = Framed(StubDb) /\ Framed(StubDb) # NULL
      BY <1>2, StubDbType, TextTypes, NullAssumption DEF NewProfile, Profile
    <2>2. e.pwdb = [user |-> u, secret |-> m, text |-> p.plbuf]
      BY <1>3, <2>1 DEF Encrypt, Profile
    <2> HIDE DEF p, cut
    <2>3. e \in Profile /\ e.path = path /\ e.pwdb \in Cipher
      BY <1>3, <2>1, EncryptType
    <2> HIDE DEF e
    <2>4. e.pwdb.user = u /\ e.pwdb.secret = m /\ e.pwdb.text.db = StubDb
      BY <2>1, <2>2 DEF Framed
    <2>5. Opens(e, u, m)
      BY <2>3, <2>4, NullAssumption DEF Opens
    <2>6. PICK x \in Profile : /\ x.path = path /\ Keep(u, x)
                               /\ Answer("init", u, NULL, f, "0", "kNoError", {})
      BY <1>2, <1>6, <2>3, <2>5, StartAnswers
    <2>7. disk' = [disk EXCEPT ![path] = e.pwdb]
      BY <1>2, <1>6 DEF kwrite
    <2>8. StoreFiles' = [StoreFiles EXCEPT ![path] = [user |-> u, db |-> StubDb]]
      BY <1>2, <2>3, <2>4, <2>7, FileMoves
    <2>9. StoreHome' = [StoreHome EXCEPT ![u] = path] /\ StoreHome[u] = NULL
      BY <1>6, <2>6, HomeMoves, DetachedAssumption DEF StoreHome
    <2>10. Store!Says("init", u, NULL, "kNoError", {})
      BY <2>6, AnswerMoves
    <2>11. Store!Create(u, path)
      BY <2>8, <2>9, <2>10 DEF Store!Create, Store!Empty, StubDb
    <2> QED
      BY <1>2, <2>11 DEF Store!StoreNext
  <1> QED
    BY <1>1, <1>2, <1>4, <1>5, <1>6

LEMMA DetachMaps ==
    ASSUME FailsHonestly, TypeOK, GoodInv, SyncInv, NEW u \in Users, NEW s \in Secrets,
           NEW f \in Faults, Detach(u, s, f)
    PROVE  Store!StoreNext
  <1> DEFINE p == profiles[u]
             cut == f.at = "decrypt"
             d == Decrypt(p, u, s, cut)
             Ans(status) == Answer("detach", u, NULL, f, "0", status, {})
  <1>1. /\ UNCHANGED disk
        /\ \/ p = NULL /\ Keep(u, NULL) /\ Ans("kProfileNotAttached")
           \/ p # NULL /\ Keep(u, d) /\ Ans("kAuthenticationFailure")
           \/ p # NULL /\ Keep(u, NULL) /\ Ans("kNoError")
    BY ZenonT(60) DEF Detach
  <1>2. "detach" \in Requests
    BY DEF Requests
  <1>3. CASE p = NULL /\ Keep(u, NULL) /\ Ans("kProfileNotAttached")
    <2>1. UNCHANGED profiles
      BY <1>3 DEF Keep, TypeOK
    <2> QED
      BY <1>1, <1>2, <1>3, <2>1, NotAttachedMaps
  <1>4. CASE p # NULL /\ Keep(u, d) /\ Ans("kAuthenticationFailure")
    <2>1. p \in Profile /\ cut \in BOOLEAN
      BY <1>4 DEF TypeOK
    <2> HIDE DEF cut
    <2>2. d \in Profile /\ d.path = p.path
      BY <2>1, DecryptType
    <2> HIDE DEF d
    <2> QED
      BY <1>1, <1>2, <1>4, <2>2, FailMaps DEF Reasons
  <1>5. CASE p # NULL /\ Keep(u, NULL) /\ Ans("kNoError")
    <2>1. StoreHome[u] # NULL /\ StoreHome' = [StoreHome EXCEPT ![u] = NULL]
      BY <1>5, Mirror, HomeMoves
    <2>2. StoreFiles' = StoreFiles /\ Store!Says("detach", u, NULL, "kNoError", {})
      BY <1>1, <1>5, FilesStay, AnswerMoves
    <2>3. Store!Close(u)
      BY <2>1, <2>2 DEF Store!Close
    <2> QED
      BY <2>3 DEF Store!StoreNext
  <1> QED
    BY <1>1, <1>3, <1>4, <1>5

LEMMA BootMaps ==
    ASSUME NEW op \in {"load", "unload", "crash"}, NEW on, Boot(op, on)
    PROVE  Store!StoreNext
  <1>1. StoreHome' = [u \in Users |-> NULL] /\ StoreFiles' = StoreFiles
    BY FilesStay DEF Boot, StoreHome
  <1>2. Store!Says(op, NULL, NULL, "kNoError", {})
    BY AnswerMoves DEF Boot
  <1>3. Store!Restart(op)
    BY <1>1, <1>2 DEF Store!Restart
  <1> QED
    BY <1>3 DEF Store!StoreNext

-----------------------------------------------------------------------------
(* The specification *)

LEMMA InitMaps == Init => Store!StoreInit
  BY ConstantsAssumption DEF Init, Store!StoreInit, StoreFiles, StoreHome, StoreAnswer

LEMMA StepMaps ==
    ASSUME FailsHonestly, NoPrefixes, TypeOK, GoodInv, SyncInv, [Next]_vars
    PROVE  [Store!StoreNext]_Store!storeVars
  <1>1. CASE Load \/ Unload \/ Crash
    BY <1>1, BootMaps DEF Load, Unload, Crash
  <1>2. ASSUME NEW u \in Users, NEW f \in Faults, Ioctl(u, f)
        PROVE  Store!StoreNext
    <2>1. PICK m \in Secrets :
             \/ \E path \in PathsOf[u], ss \in Secrets \cup {NoSecret} :
                   Attach(u, path, m, ss, f) \/ InitAttach(u, path, m, ss, f)
             \/ Detach(u, m, f)
             \/ ListAliases(u, m, f)
             \/ \E a \in Aliases : GetPassword(u, m, a, f)
             \/ \E a \in Aliases, ss \in Secrets \cup {NoSecret} :
                   \/ DelPassword(u, m, ss, a, f)
                   \/ \E w \in Passwds : AddPassword(u, m, ss, a, w, f)
      BY <1>2 DEF Ioctl
    <2> QED
      BY <2>1, AttachMaps, InitAttachMaps, DetachMaps, ListMaps, GetMaps, DelMaps, AddMaps
  <1>3. CASE UNCHANGED vars
    BY <1>3 DEF vars, Store!storeVars, StoreFiles, StoreHome, StoreAnswer
  <1> QED
    BY <1>1, <1>2, <1>3 DEF Next

\* If every user has files of his own, no alias is a prefix of another and handlers fail
\* only while they can put everything back, the driver is a PasswordStore, for any number
\* of users, files, secrets, aliases and passwords: every answer of actions.c is a step of
\* a store that has no copies, no ciphertexts and no sessions.
THEOREM DeviceIsStore ==
    ASSUME OwnFiles, FailsHonestly, NoPrefixes
    PROVE  Spec => ImplementsStore
  <1>1. Init => SyncInv /\ Store!StoreInit
    BY InitMaps DEF Init, SyncInv, Attached
  <1>2. TypeOK /\ GoodInv /\ SyncInv /\ [Next]_vars => SyncInv'
    BY HonestEarly, SyncStep
  <1>3. TypeOK /\ GoodInv /\ SyncInv /\ [Next]_vars => [Store!StoreNext]_Store!storeVars
    BY StepMaps
  <1> QED
    BY <1>1, <1>2, <1>3, GoodAlways, PTL DEF Spec, ImplementsStore, Store!StoreSpec
=============================================================================
