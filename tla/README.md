# Zacarias in TLA+

Zacarias is a password manager whose password databases (PWDB) are only ever
decrypted by a device driver. A user runs the tool `zc`, which asks for
passwords at the terminal and sends requests to `/dev/zacarias` by `ioctl`; the
driver keeps a list of attached profiles, each with the encrypted PWDB of one
user, and writes a PWDB to its file when it changes; `zc password get` types the
answer into another window. This directory models the driver, its data
structures, the way `zc` processes share it, and what one such process does with
the passwords it holds; it checks the models with TLC and proves their main
properties with TLAPS.

## The system

| component | source | state | operations |
|---|---|---|---|
| PWDB editing | `src/dev/sec/plbuf_editor.c` | none: works on a plaintext buffer | add, del, find, passwd, aliases, detach (drop the frame), shuffle (shuffle the lines and put a frame of garbage around them) |
| PWDB encryption | `src/dev/sec/crypto.c` | none: works on a profile's `pwdb` and `plbuf` | decrypt, encrypt, setkey |
| profile list | `src/dev/ctx/ctx.c` | doubly linked list of profiles | init, add, del, get, deinit |
| handlers | `src/dev/actions.c` | the list, `pwdb`/`plbuf`/`sessioned` of each profile, the PWDB files | attach, init and attach, detach, add, del, get, aliases |
| file access | `src/dev/linux/kio_impl.c` | PWDB files | kread, kwrite (truncate, then write) |
| device entry | `src/dev/linux/cdev_*.c`, `src/dev/defs/types.h` | the device lock | open, ioctl, load, unload |
| client calls | `src/cmd/devio.c` | retry counters | open with retries, one call per request, ioctl with retries |
| commands | `src/cmd/{attach,detach,password,exec}.c` | passwords in memory, what the callout knows of them, exit status | one function per command, each with an epilogue that clears and frees |
| keyboard | `src/kbd/` | echo of the terminal, abort flag, signal handlers, callout | getuserkey (prompt), sendkeys (type), demuxer and mapper of an ABNT2 keyboard |
| alias globbing | `src/cmd/strglob.c`, `password.c` | one line of the answer | strglob, and the loop over lines and globs |
| the rest of `zc` | `src/cmd/` | none | options, suggestions, help, `device install` |

A command opens the device, asks for passwords, and calls `ioctl` once, or up to
eleven times if it fails. A handler takes the device lock with a *trylock*
before it looks at anything, so it either runs alone or is answered `EBUSY`. It
decrypts the PWDB of the profile into `plbuf`, edits that, encrypts it again,
and writes it. A **sessioned** profile is kept under a session password in
memory while its file stays under the master password: `add` and `del` go back
to the master password for the time of the change ("dirty trick",
`actions.c:57`).

What makes it hard:

* *Partial failure.* Each handler makes up to a dozen calls that may fail and
  has to leave the profile encrypted, under the right key, and equal to its
  file. The epilogues are all different.
* *Two keys and two copies* of the same PWDB, in memory and on disk.
* *Ordering.* The frame of a text must be on whenever it is encrypted: the next
  `detach` of the text cuts the first and the last line without looking at them.
* *Concurrency* between processes, at a lock nobody waits for, with clients that
  call again after any error; a handler may die with the lock.
* *Signals.* The handlers of SIGINT and SIGTERM turn the echo on, set a flag, or
  call a callout that frees what the interrupted function frees as well, and
  exits; they may come at any instruction, and one during the other.
* *Crashes* between the truncation of the file and the last byte.
* *Pointers* of the list, when profiles are removed in any order and memory is
  used again.
* *Buffers and bytes*: a length kept in 8 bits, an alias copied without its NUL,
  flags that carry over from one key to the next.

The full list of hazards, each at its line and with the properties that cover
it, is in `PROJECT.json`.

What makes each part correct: the list is a set of users and never follows a
freed pointer; commands are atomic and end; no handler leaves plaintext behind or loses the
PWDB of a profile, but where a named call fails; a successful change is in the file; the keys stay what they were; nothing is
encrypted without its frame; while nothing fails that cannot be put back the
driver cannot be told from a dictionary per file; a process gives the terminal
back as it was, clears and frees its memory once, and uses no password that was
cut, seen or given up; and a password is typed as it was meant.

## Modules

```
PasswordStore <--(implements)-- ZacariasStore --> ZacariasDevice --> Pwdb
                                     ^                  ^
                          MCZacariasDevice      ZacariasDevice_proofs
                                                        ^
                                     ZacariasStore_proofs (and ZacariasStore)
ProfileSet     <--(implements)-- ProfileList  <-- MCProfileList, ProfileList_proofs
AtomicRequests <--(implements)-- ZcClients    <-- MCZcClients, ZcClients_proofs
                                 ZcCommand    <-- MCZcCommand, ZcCommand_proofs
                                 ZcKeyboard   <-- MCZcKeyboard, ZcKeyboard_proofs
                                 ZcAliases    <-- MCZcAliases, ZcAliases_proofs
                                 SequenceFacts <-- ZcKeyboard_proofs, ZcAliases_proofs
```

**Pwdb** holds the operators of `plbuf_editor.c` and `crypto.c`. A plaintext is
a function from aliases to passwords and a flag for its frame; a ciphertext is
the key that made it and its plaintext. The shuffle makes the order of the lines
something nobody can rely on, so a function is what is left of them, and where
the code takes the first match the model takes any. `findalias` keeps the one
thing about text that matters: an alias matches every stored alias it is a
*prefix* of (`Prefixes`). What detaching an unframed text loses is up to two
entries, and which ones does not matter to any property. Decryption with
another key fails. A user name is part of the key (`gen_userkey` salts with it).

**ZacariasDevice** has one action per handler of `actions.c` (`Attach`,
`InitAttach`, `Detach`, `AddPassword`, `DelPassword`, `GetPassword`,
`ListAliases`) with its epilogue, and `Load`, `Unload`, `Crash`. Variables:
`profiles` (the attached profile of each user: path, `pwdb`, `plbuf`,
`sessioned`), `disk`, `loaded`, and `reply`, the last request and its answer. A
`Fault` names the one call of a handler that fails, in which manner, and which
calls of its epilogue fail as well; what an action does with it follows the
early returns. A write can fail before or after the truncation (`torn`), or the
power goes in between (`PowerFails`). Every handler is one step: they hold the
lock, and `ZcClients` is where that is shown to be enough.

The handlers for `setkey` and `is_sessioned` are commented out in the source and
not modelled. Requests without a user, an alias or a master password are not
modelled: `zc` sends none. A session password is in the request (`ss`) exactly
when `--sessioned` is given. A profile whose `pwdb` is eight zero bytes (init),
freed and not yet replaced, or half read is `NULL`: none of them can be
decrypted. `kwrite` returns an error for a file that cannot be opened, as in the
FreeBSD version; the Linux one compares `filp_open()` with NULL. A shuffle
without memory returns an error too (`Framed` of **Pwdb**), where the code clears a
null pointer. On Linux both end in a dead handler: they are hazards, and `Oops` in
`ZcClients`.

**PasswordStore** is what users are promised: files with an owner and entries;
a request edits one entry; what is answered is true. **ZacariasStore** has the
refinement mapping, and what the manual says of `del` taken literally.

**ProfileList** is `ctx.c` over an explicit heap whose addresses are reused at
once: `Add`, `AddLeaks` (the profile is allocated and its PWDB is not), `Del`
with its three cases of `Unlink`, `Deinit`. `Reach` is what a walk along `next`
comes across, defined as a least closed set so that it needs no recursion.
**ProfileSet** is the set it implements.

**ZcClients** has several `zc` processes of one user: `OpenLock`/`OpenUnlock`
(`cdev_open` takes and returns the lock in two steps), `OpenBusy` and the
`Reopen`s by a relative path, which is the device only for a process started in
`/dev` (`InDev`), `Type`/`Abandon`, `Enter`/`Busy`, then the steps of
the handler on the shared `plbuf`, `pwdb` and `file` (`Open`, `Edit`, `Seal`,
`Write`), and `Leave`, where an errno makes `zcdev_ioctl` call again. In `Oops`
a handler dies in the kernel and takes its process and the lock with it: at the
allocation of a profile (`ctx.c:16`), at that of the shuffled text
(`plbuf_editor.c:357`, which leaves the plaintext as well), or at a file that
cannot be opened for writing (`kio_impl.c:27`). The
profile has no session, and the call that fails with an errno is the generation
of a password (`ENOMEM`, `actions.c:102`). **AtomicRequests** is what the
commands may count on.

**ZcCommand** is one process from `zc_exec` to its end. `Open`; for each
password `Prompt`, `Reset`, `Hook`, `TypeLine`, `Decode`, `Restore`, as
`zacarias_getuserkey` does them; `Check`; `Call`; for `get` then `FillDrain`,
`Send`, `Arm`, `ArmArgs`, `TypeKey` or `InjectKey`, `LastKey`, `Finish`,
`Forget`; and every epilogue, `FreeNext` by `FreeNext`, to `Return` and `Exit`.
`Arrives` interrupts any of them with what the installed handler does: the one
that turns the echo on and sets the flag, or the watchdog that calls the callout
(`CallOut`, `DrainOut`). A buffer is a null pointer, live, or freed; a password
is one of `Keys`, or `"partial"`, `"garbage"`, `"nothing"`; `keys` is how much of it
the copy that is typed has, less than all where the demuxer has no room for a long
one (`longPassword`). A prompt whose key finds no memory is killed with the echo off
(`noMemory`, `kbd.c:337`). Signals at a place
between two statements are among the `Mishaps`, so that the properties can name
the moment at which they do not hold. Which of the prompts there are follows
from the command line.

**ZcKeyboard** follows one password from the line typed at the prompt of `add`
(escapes, `\xhh`) over the demuxer (letters and accents apart) and the mapper
(keys, shift) to the window that composes dead keys again. A character is a base
and a mark; which character a byte is (ISO 8859-1) is a constant. An escaped `x`
is a token of its own where no two digits follow. One table of an ABNT2 keyboard
serves `pt_br_key_mapper` and the X server, whose layouts agree; `IsHex`, `room
% 2^8`, `anulate_sh` and the flag that holds shift are kept exactly.

**ZcAliases** is `strglob` over sequences of characters, as a recursive function
of the two places the loop is at (`Goes` is one round of it), and
`zc_password_aliases` with its `alias[]` array that is neither cleared nor
terminated. `Matches` is the meaning of a glob. A set in a glob holds ordinary
characters only; the code takes `*` and `?` within one for themselves.

## Runs

| run | question | instance | result |
|---|---|---|---|
| `device_files` | plaintext cleared, the PWDB of a profile survives, types | 1 user, 1 file, 1 alias, 2 secrets; every fault and failed recovery, file faults, power failure | holds |
| `device_memory` | a success is durable and gives the profile back under its key, only framed texts are encrypted, the key of a file is fixed | 1 user, 1 file, 2 aliases (one a prefix of the other), 2 secrets; every fault and failed recovery but a failed reframing and a file that cannot be opened for writing | holds |
| `device_store` | memory equals file, implements `PasswordStore` | 1 user, 2 files, 2 aliases, no prefixes; faults a handler can put back | holds |
| `profile_list` | list intact, a set of users | 4 users, 4 addresses | holds |
| `clients` | handlers exclude each other, commands are atomic and end, zero means success, the lock comes back | 2 commands, one of them started in `/dev`, 2 retries, every combination of requests, handlers that die | holds |
| `command` | echo, memory, signals, exit status, callout | every command line, both signals anywhere and any number of times, every mishap, 2 passwords of 2 keys, with and without X | holds |
| `keyboard` | a password is decoded and typed as meant | all of up to 3 tokens of an alphabet of 22, and some of 31 to 33 characters | holds |
| `aliases` | `strglob` means what globs mean of the string it is given; globs that end in a star find all; lists are exact for beginnings | 2 lines of up to 3 characters, all globs of up to 3 tokens, an `alias[]` of 4 | holds |
| `session_lost` | a session password stays in force | 1 user | **violated** |
| `del_prefix` | `del` removes the alias it is given | 2 aliases | **violated** |
| `aborted_cleared` | "all sensitive data was cleared" | `get` on X, signals at no narrow place | **violated** |
| `stuck_profile` | an attached profile can be detached | 1 user; `--init` finds no memory for its first entry or its frame | **violated** |

Why the bounds are enough. Handlers work on one profile; two files of one user
show what a handler could do to another, and the proofs speak of any number of
users. Two secrets give every pattern of equal and unequal master, session and
wrong passwords that one request and the key of the PWDB can form; they are
symmetric. Two aliases are an entry and its neighbour, and with `ListCap` = 1 a
list that does and one that does not fit; what `device_files` asks is about the
plaintext as a whole, for which an entry or none (with `ListCap` = 0) is enough. Four list nodes give a head, a tail and
two neighbours in the middle. Two clients give a holder of the lock and one that
is refused or overtakes (the theorems hold for any number); the retry counter is
2 instead of 10, and nothing depends on its size. Two keys give a first and a
last; the loop does the same for each. Three tokens give every pair of
neighbours a third to spoil, and the lengths around 31 are where a byte
overflows. Two lines are what one leaves in `alias[]` for the next, and with an
array of four a line fits, fits without its newline, or does not fit.

Where a property excludes faults or moments, it does because the code does not
keep it there, and the hazards say so:

* plaintext stays (`PlaintextCleared`) where `SealingFails` says: in `get` and
  `aliases`, which do not look at the result of their encryption, or whose detaching
  and then encryption fails; in `--init`, whose encryption or change to the session
  password fails; in `attach`, at that change; and in the epilogue of `add`, when the
  reframing, the encryption or the change back to the session password fails. Every
  other fault is in the run and in the theorem. A handler that dies (`Oops`) leaves
  its plaintext as well;
* an attached profile is left without a PWDB (`PwdbSurvives`) by a cipher that fails
  after the old ciphertext was freed, and by `add` or `del` that cannot load the
  file of a sessioned profile again;
* a failed reframing makes a later add encrypt an unframed text
  (`EncryptedIsFramed`);
* a file that cannot be opened for writing leaves the profile of a failed
  `--init`, with a key of its own, to overwrite the file later (`FileKeyFixed`);
* a failed write makes memory run ahead of the file (`MemoryMatchesDisk`);
* `happened` in ZcCommand names the signals between two statements after which a
  seen password is used, a cut one is set, something is freed twice or the
  callout misses a buffer; besides a missing device, an end of input, a
  console that refuses `TIOCSTI`, a password too long for the demuxer (both in
  `ZeroMeansTyped`) and a key without memory (`EchoRestored`);
* a `del` that is given up at its prompt exits with zero (`password.c:332`), against
  the man page's "EXIT STATUS" (`ZeroMeansDone`);
* `Typable` in ZcKeyboard names the characters for which the wrong key is
  pressed, and lengths beyond 31. In ZcAliases `TwoStars` names the globs that
  `strglob` does not understand, and `IsPrefixGlob` those that list neither too
  little nor too much.

The last two of these, like that of `del`, go against what the documents promise. A
password of 32 characters or more is typed in part, as the room of the demuxer is
counted in a byte (`ptbr.c:62`), and `get` exits with zero; and a glob that does not end in a star lists
nothing, since the newline of each line is matched too (`password.c:181`), though the
manual has such globs for its example.

The violations are disagreements between code and documents. A `del` of an
unknown alias in a sessioned profile leaves the copy in memory under the master
password, so that `get` and `detach` with the session password fail
(`MANUAL.md`, "Sessioned profiles"). `del --alias=ab` may remove `abc`
(`plbuf_editor.c:613`). An interrupted `get` says that all sensitive data was cleared (`password.c:513`) while the
demuxed copy of the password (`kbd.c:59`) was not. An `--init` that fails once its
profile is on the list (`actions.c:693`) leaves it there without a PWDB, so that
neither `attach` nor `detach` works for its user (`MANUAL.md`, "Detaching your
profile").

### Fairness

`clients` and `command` assume weak fairness of the processes' own steps
(`Step`), which is what a scheduler gives to a process that never blocks: the lock
is only ever tried, and the handlers of signals run to their end. Nothing is
assumed of the user at the keyboard, of signals, or of a handler that may die, so
`EveryCommandEnds` begins when the passwords have been typed, and `CalloutExits`
when the callout is called. The lock needs to be no fairer than it is: a client
that always finds it taken runs out of retries and ends.

## Proofs

All for every value of the constants, under the named `ASSUME`s of the modules:
null values differ from data, profiles and paths; prefixes are reflexive;
`MaxTries` is a natural number; a password has at least one key
(`ZcCommand`); lines and globs are not empty, characters are finitely many and
no wildcards, and behind `alias[]` there is some NUL (`AliasesAssumption`); a
line at the prompt is made of tokens, none of which is ambiguous, and a byte is a
character (`KeyboardAssumption`, `Latin1Assumption`). None bounds a set or the
length of a sequence.

* `ZacariasDevice_proofs`: **DeviceTypeCorrect** (`TypeOK`) and
  **DeviceDurable** (`SuccessIsDurable`), for all faults. `TypeOK` is inductive
  by itself; it is proved bottom up, one typing lemma per operator of `Pwdb`
  (what `Decrypt`, `Encrypt`, `Setkey` return, and that they leave path and
  session flag alone), then one per part of a handler, then one per action.
  Durability needs no further strengthening: the answer `kNoError` only comes
  from branches that have just written what they hold, so a step either ends in
  such a branch or in one that does not answer so.
* There too: **DeviceClearsPlaintext** (`PlaintextCleared`) and **DeviceKeepsPwdb**
  (`PwdbSurvives`), for all faults. Both are about one step and rest on `TypeOK`
  alone: each helper either leaves nothing in `plbuf` or was made to fail by a call
  that `SealingFails` names, and either leaves something in `pwdb` or was given a
  "wipe" or a file that is gone; `Kept` is what a part of a handler says of both.
* **DeviceEncryptsFramed** (`EncryptedIsFramed`), if the faults spare the reframing
  in the epilogue of add (`ReframingWorks`). Its invariant, `GoodInv`, says what
  that hypothesis gives of profiles and files, and what the stronger one that every
  encryption works (`SealingWorks`) gives besides, which `ZacariasStore_proofs`
  needs. Its lemmas follow text and frame through the helpers; where an epilogue is
  given a bare text, it must be the one that frames it.
* And there: **DeviceKeepsKeys** (`FileKeyFixed`), if a file that is there can
  be opened for writing (`FilesOpen`), for users who may share files. The
  property is about one step and needs to know why add and del, which write with
  the password of the request, write with the key of the file: without a
  session, because memory and file have the same key (`KeyInv`); with one,
  because the file is loaded again before it is decrypted (`OpenKnows`). And
  **DeviceGivesKeyBack** (`SuccessKeepsKey`), for all faults: the password that
  opened the profile (`OpenKey`) is the one it is put back under (`RekeyedKey`).
* `ZacariasStore_proofs`: **DeviceMatchesDisk** (`MemoryMatchesDisk`), if users
  have files of their own (`OwnFiles`) and what fails does so before the handler
  has changed anything it would not put back (`FailsEarly`). The invariant needs
  `GoodInv`: an unframed text would be framed into another one on its way back,
  and a text left in memory encrypted later. Everything a handler gives back is
  then the same text (`Same`), or the text just written.
* There too: **DeviceIsStore** (the refinement of `PasswordStore`), if users
  have files of their own, no alias is a prefix of another (`NoPrefixes`) and
  failures are those a handler can put back and does not answer with "not found"
  (`FailsHonestly`). The invariant is the one of DeviceMatchesDisk: what a
  request finds in the plaintext is what the store has in its file (`Mirror`),
  so each answer of a handler is one action of the store (`PutMaps`,
  `RemoveMaps`, `FailMaps`, ...).
* `ProfileList_proofs`: **ListTypeCorrect**, **ListNeverDangles**,
  **ListHasUsersOnce**, **ListIsSet**. The inductive invariant is the
  conjunction of `TypeOK`, `LinksAreLive` and `OneProfilePerUser`. Reachability
  is bounded from above by exhibiting a closed set and from below by showing
  that every closed set contains it, which replaces induction over the list.
* `ZcClients_proofs`: **ClientsTypeCorrect**, **ClientsExclude** (`OneHandler`),
  **ClientsZeroMeansDone** (`ZeroMeansDone`) and **ClientsAtomic** (the refinement
  of `AtomicRequests`). `OneHandler` alone
  does not give atomicity; `IInv` adds what may have been answered at each place
  (`StatusInv`) and that plaintext and ciphertext are the file's entries, or
  those with the one change of the handler that runs (`DataInv`). A request
  takes effect at `Write` (add, del), `Seal` (attach, detach) or `Edit` (get).
* `ZcCommand_proofs`: **CommandTypeCorrect**, **CommandRestoresEcho**,
  **CommandReturnsClean**, **CommandFreesLive**, **CommandUsesUnseen**,
  **CommandSetsAsTyped**, **CommandTypesAll** and **CommandDrains**, for any
  command lines, passwords, signals and mishaps. One inductive invariant, in
  named parts: what the echo is while the prompt's handler is installed
  (`EchoInv`), which command is where (`PlaceInv`), that a buffer that is live
  is still to be freed (`CleanInv`) and is on that list once (`OnceInv`), what
  has been asked for so far (`AskedInv`, `AnswerInv`), what text a buffer may
  hold (`TextInv`), what the drain and the callout know (`DrainInv`), how sent
  and typed keys compare with those of the copy (`TypedInv`), and that a seen password is remembered by
  the abort flag until it is thrown away (`SeenInv`).

* `ZcKeyboard_proofs`: **KeyboardTypeCorrect**, **KeyboardDecodes** (`KeyAsMeant`),
  **KeyboardTypesInOrder** (`TextIsPrefix`) and **KeyboardTypesAll** (`TypedWhole`),
  for passwords of any tokens and any length. The invariant (`Decoded`, `Places`,
  `Sent`) says what the part behind each place has become: the line before `lp` is
  the first tokens, `input` is the keys of the characters before `ip`, and the
  window has `i` characters of which the next has had `o` of its keys. The window's
  dead key and `anulate_sh` are functions of that character and `o` (`DeadAt`,
  `AnulateAt`), so what a key does can be settled character by character
  (`KeysOfCharacter`), the accents by their table. That nothing is left out is
  `PiecesAreShort`: a typable character takes at most three of the eight bytes that
  the buffer has for it, and below 32 characters the byte does not overflow.
* `ZcAliases_proofs`: **StrglobMeans**: for every string and every glob without two
  stars in a row, the recursion of `strglob` and `Matches` agree; from it
  **AliasesMatchRight** (`StrglobMatches`), which is about the string that `strglob`
  is given, newline and leftovers included, and **AliasesFoundByStars**
  (`StarGlobsFindAll`): a way to cut the alias is one to cut that string, with the rest
  for the last star. **AliasesTypeCorrect**,
  **AliasesWriteStored** (`WrittenIsStored`) and **AliasesListExact**
  (`PrefixGlobsAreExact`), for any answer, globs and stack. The proof of StrglobMeans
  goes from the end of the glob to its beginning: what `Goes` says of the places
  behind a token is that the rest can be cut (`CutFrom`), which for a star is a
  second induction over the string. AliasesListExact needs what has been written so
  far as an equation (`Written`: the lines of the globs before `g`, then of those
  before `n`), of which the property keeps only that it is a beginning.
* `SequenceFacts` has the lemmas both rest on: what `FlattenSeq`, `IsPrefix` and the
  first pieces of a concatenation (`First`) are.

Induction over data is done without the library's induction theorems, whose
operator parameter no installed prover can instantiate: `NatSetInduction` states it
for a set of natural numbers, and follows from the well-foundedness of `<` (the
least number that is not in the set, `LeastNatural`). A recursive function is
reached through its defining equation, for which a function that satisfies it has
to be shown to exist (`FlattensExists`, `StrglobWalk`). This is why `strglob` has
its body in an operator of its own, `Goes`.

Model-checked only: the liveness properties `EveryCommandEnds`, `LockComesBack` and
`CalloutExits`, which need ENABLED and are out of the prover's reach. Every safety
property of a run that holds is a theorem.

## Not modelled

The cryptography, base64 and PEM; the FreeBSD and Windows entry points (same
handlers); the console and Windows keyboards beyond `TIOCSTI`; options, help, the
suggestions for a misspelt command (`didumean.c`, which only prints), the pager,
`insmod`. An answer that cannot be copied back to the process
(`copy_to_user` in `cdev_ioctl.c`): the buffer has just been read from the same
place. Truncation of names longer than 1023 bytes. Globs with a set that is not
closed, where the code reads behind the pattern. Two users who share a file are in
the hazards and in `DeviceKeepsKeys` only: they lose updates.

What is left to do: a client model with sessions, built from the handlers of
ZacariasDevice instead of their steps.
