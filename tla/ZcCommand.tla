------------------------------ MODULE ZcCommand ------------------------------
(***************************************************************************)
(* One "zc" process from zc_exec() on: the passwords it asks for           *)
(* (zacarias_getuserkey() of kbd/kbd.c), the memory it keeps them in (the  *)
(* functions of cmd/attach.c, detach.c and password.c), the typing of a    *)
(* password into another window (zacarias_sendkeys()), and the signals     *)
(* that interrupt it anywhere.                                             *)
(*                                                                         *)
(* What the device does with a request is in ZcClients and ZacariasDevice; *)
(* here it succeeds or it does not.  How a password is made into key       *)
(* events is in ZcKeyboard; here it has Size keys, and the copy of a long  *)
(* one may have fewer.                                                     *)
(***************************************************************************)
EXTENDS Naturals, Sequences

CONSTANTS
    Commands,  \* the command lines
    Keys,      \* passwords a user may type
    Size,      \* the length of the password that "get" types
    Display,   \* whether there is an X display: the possibilities
    Signals,   \* the signals that are sent, any number of times
    Mishaps    \* what may go wrong, and the narrow places a signal may arrive at

Buffers == {"pwdb", "pwdb2", "session", "session2", "password", "password2", "input", "aliases"}

\* Places that a signal seldom finds the process at, between two statements or in the few
\* microseconds of a loop; the properties have to name them.
Narrow == {"reset", "decode", "armArgs", "free", "returned", "callout"}

BeforeExit == {"open", "prompt", "reset", "hook", "reading", "decode", "restore", "check",
               "call", "drain", "send", "arm", "armArgs", "type", "finish", "forget",
               "free", "returned", "callout"}
Ended      == {"exited", "aborted", "killed"}

ASSUME CommandAssumption ==
    /\ Commands \subseteq [op : {"attach", "detach", "add", "del", "get", "aliases"},
                           init : BOOLEAN, sessioned : BOOLEAN, generate : BOOLEAN]
    /\ \A c \in Commands :
          /\ c.init => c.op = "attach"
          /\ c.sessioned => c.op \in {"attach", "add", "del"}
          /\ c.generate => c.op = "add"
    /\ {"nothing", "partial", "garbage"} \cap Keys = {}
    /\ Size \in Nat \ {0}
    /\ Display \in SUBSET BOOLEAN
    /\ Signals \subseteq {"SIGINT", "SIGTERM"}
    /\ Mishaps \subseteq Narrow \cup
           {"noDevice", "noTerminal", "endOfInput", "noMemory", "longPassword", "noTIOCSTI"}

VARIABLES
    command,   \* the command line
    pc,        \* where the process is
    todo,      \* the buffers it has yet to ask for, or to free
    seg,       \* each buffer: a null pointer, allocated, or freed
    text,      \* what getuserkey() made of the line typed for it
    line,      \* the line last read
    echo,      \* does the terminal show what is typed?
    saved,     \* "old" of kbd.c: did it, when the prompt began?
    shown,     \* was a password typed for all to see?
    hook,      \* the handler of each signal
    blocked,   \* the signals whose handler is running
    abort,     \* g_abort_kbd_rw
    callout,   \* g_cancel_callout: none, with no arguments yet, or with the drain
    drain,     \* is zc_drain filled in?
    happened,  \* the mishaps so far that a property excepts
    misfreed,  \* was memory freed that was not allocated?
    keys,      \* the keys of what sendkeys() is to type
    sent,      \* those it is done with
    typed,     \* and those that arrived
    err        \* what the command returns: 0, or 1 for anything else

memory   == <<seg, misfreed>>
keyboard == <<text, line, echo, saved, shown>>
signal   == <<hook, blocked, abort, callout, drain, happened>>
typing   == <<keys, sent, typed>>
vars     == <<command, pc, todo, memory, keyboard, signal, typing, err>>

Goto(place) == pc' = place

\* Mutant: the epilogue forgets the confirmation.
EpilogueForgets ==
    /\ pc' = "free"
    /\ todo' = <<"pwdb", "session", "session2", "password", "password2", "aliases">>

\* The epilogues free whatever is not NULL, in this order.
Epilogue ==
    /\ pc' = "free"
    /\ todo' = <<"pwdb", "pwdb2", "session", "session2", "password", "password2", "aliases">>

Free(b) ==
    /\ seg' = [seg EXCEPT ![b] = IF @ = "null" THEN "null" ELSE "freed"]
    /\ misfreed' = (misfreed \/ seg[b] = "freed")

-----------------------------------------------------------------------------
(* What each command asks for. *)

When(condition, prompts) == IF condition THEN prompts ELSE <<>>

Prompts ==
    <<"pwdb">> \o When(command.init, <<"pwdb2">>)
               \o When(command.sessioned, <<"session">>)
               \o When(command.sessioned /\ command.op = "attach", <<"session2">>)
               \o When(command.op = "add" /\ ~command.generate, <<"password", "password2">>)

Again == [pwdb2 |-> "pwdb", session2 |-> "session", password2 |-> "password"]

\* A bad or missing option, or no device.  zc_password_add() gets to its epilogue before
\* password[] has a value, and frees what it finds there.
Open ==
    /\ pc = "open"
    /\ \/ /\ Goto("prompt") /\ todo' = Prompts
          /\ UNCHANGED <<misfreed, happened, err>>
       \/ /\ Epilogue
          /\ UNCHANGED <<misfreed, happened, err>>
       \/ /\ "noDevice" \in Mishaps
          /\ Epilogue
          /\ err' = 1
          /\ misfreed' \in IF command.op = "add" THEN BOOLEAN ELSE {misfreed}
          /\ happened' = happened \cup {"noDevice"}
    /\ UNCHANGED <<command, seg, keyboard, hook, blocked, abort, callout, drain, typing>>

-----------------------------------------------------------------------------
(* zacarias_getuserkey() *)

Prompt ==
    /\ pc = "prompt"
    /\ \/ /\ saved' = echo
          /\ echo' = FALSE
          /\ Goto("reset")
       \/ /\ "noTerminal" \in Mishaps
          /\ Goto("check")
          /\ UNCHANGED <<saved, echo>>
    /\ UNCHANGED <<command, todo, memory, text, line, shown, signal, typing, err>>

Reset ==
    /\ pc = "reset"
    /\ abort' = FALSE
    /\ Goto("hook")
    /\ UNCHANGED <<command, todo, memory, keyboard, hook, blocked, callout, drain, happened,
                   typing, err>>

Hook ==
    /\ pc = "hook"
    /\ hook' = [s \in Signals |-> "getuserkey"]
    /\ Goto("reading")
    /\ UNCHANGED <<command, todo, memory, keyboard, blocked, abort, callout, drain, happened,
                   typing, err>>

\* fgets() goes on after a signal.  At the end of the input it leaves line as it was, not
\* initialised: empty, or anything.  No segment is allocated for an empty line; that there is
\* one for another is not looked at.
TypeLine ==
    /\ pc = "reading"
    /\ shown' = (shown \/ echo)
    /\ \/ /\ line' \in Keys
          /\ UNCHANGED happened
       \/ /\ "endOfInput" \in Mishaps
          /\ line' \in {"nothing", "garbage"}
          /\ happened' = happened \cup {"endOfInput"}
       \/ /\ line' = "nothing"
          /\ UNCHANGED happened
    /\ IF line' = "nothing"
       THEN Goto("restore") /\ UNCHANGED seg
       ELSE /\ Goto("decode")
            /\ \/ seg' = [seg EXCEPT ![Head(todo)] = "live"]
               \/ "noMemory" \in Mishaps /\ UNCHANGED seg
    /\ UNCHANGED <<command, todo, misfreed, text, echo, saved, hook, blocked, abort, callout,
                   drain, typing, err>>

\* Mutant: the line is decoded whatever the abort flag says.
DecodeAnyway ==
    /\ pc = "decode"
    /\ text' = [text EXCEPT ![Head(todo)] = line]
    /\ Goto("restore")
    /\ UNCHANGED <<command, todo, memory, line, echo, saved, shown, signal, typing, err>>

\* The loop looks at the abort flag before each character.  Without a segment, the first one
\* is written through a null pointer.
Decode ==
    /\ pc = "decode"
    /\ LET b == Head(todo)
       IN  \/ /\ abort
              /\ Goto("restore")
              /\ UNCHANGED <<text, happened>>
           \/ /\ ~abort /\ text[b] = "nothing"
              /\ seg[b] = "null" /\ "noMemory" \in Mishaps
              /\ Goto("killed")
              /\ happened' = happened \cup {"noMemory"}
              /\ UNCHANGED text
           \/ /\ ~abort /\ text[b] = "nothing" /\ seg[b] # "null"
              /\ text' = [text EXCEPT ![b] = "partial"]
              /\ UNCHANGED <<pc, happened>>
           \/ /\ ~abort /\ text[b] = "partial"
              /\ text' = [text EXCEPT ![b] = line]
              /\ Goto("restore")
              /\ UNCHANGED happened
    /\ UNCHANGED <<command, todo, memory, line, echo, saved, shown, hook, blocked, abort,
                   callout, drain, typing, err>>

\* Mutant: an empty line skips the epilogue of zacarias_getuserkey().
RestoreIfKey ==
    /\ pc = "restore"
    /\ line' = "nothing"
    /\ echo' = IF line = "nothing" THEN echo ELSE saved
    /\ Goto("check")
    /\ UNCHANGED <<command, todo, memory, text, saved, shown, signal, typing, err>>

Restore ==
    /\ pc = "restore"
    /\ line' = "nothing"
    /\ echo' = saved
    /\ Goto("check")
    /\ UNCHANGED <<command, todo, memory, text, saved, shown, signal, typing, err>>

-----------------------------------------------------------------------------
(* The command, its prompts answered one after the other. *)

\* Mutant: only the sizes are compared.
MatchesAnything(x, y) == x # "nothing"

\* Two lines that were cut short or never read may be equal, or not.
MayMatch(x, y)  == x = y \/ {x, y} \cap {"partial", "garbage"} # {}
MayDiffer(x, y) == x # y \/ {x, y} \cap {"partial", "garbage"} # {}

\* Without a key, or if it is not the same as the first time, the command is over.
Check ==
    /\ pc = "check"
    /\ LET b     == Head(todo)
           isKey == seg[b] = "live" /\ text[b] # "nothing"
       IN  \/ /\ isKey
              /\ b \in DOMAIN Again => MayMatch(text[b], text[Again[b]])
              /\ todo' = Tail(todo)
              /\ Goto(IF todo' = <<>> THEN "call" ELSE "prompt")
           \/ /\ isKey => b \in DOMAIN Again /\ MayDiffer(text[b], text[Again[b]])
              /\ Epilogue
    /\ UNCHANGED <<command, memory, keyboard, signal, typing, err>>

\* The device refuses, fails, or does what it is asked; a list of aliases and a password
\* come in new segments, and may come although ioctl() failed.
Call ==
    /\ pc = "call"
    /\ \/ /\ err' = 1
          /\ Epilogue
          /\ \/ UNCHANGED seg
             \/ command.op = "get" /\ seg' = [seg EXCEPT !["password"] = "live"]
             \/ command.op = "aliases" /\ seg' = [seg EXCEPT !["aliases"] = "live"]
       \/ /\ err' = 0
          /\ IF command.op = "get"
             THEN /\ seg' = [seg EXCEPT !["password"] = "live"]
                  /\ Goto("drain") /\ UNCHANGED todo
             ELSE /\ seg' = IF command.op = "aliases" THEN [seg EXCEPT !["aliases"] = "live"]
                            ELSE seg
                  /\ Epilogue
    /\ UNCHANGED <<command, misfreed, keyboard, signal, typing>>

FillDrain ==
    /\ pc = "drain"
    /\ drain' = TRUE
    /\ Goto("send")
    /\ UNCHANGED <<command, todo, memory, keyboard, hook, blocked, abort, callout, happened,
                   typing, err>>

-----------------------------------------------------------------------------
(* zacarias_sendkeys() and zacarias_tty_sendkeys() *)

\* For X, a copy of the password is made in which accents are keys of their own.  Its room is
\* counted in eight bits: a long password goes into the copy with what there is room for.
Send ==
    /\ pc = "send" /\ TRUE \in Display
    /\ \/ /\ seg' = [seg EXCEPT !["input"] = "live"]
          /\ Goto("arm")
          /\ \/ /\ keys' = Size
                /\ UNCHANGED happened
             \/ /\ "longPassword" \in Mishaps
                /\ keys' \in 0..(Size - 1)
                /\ happened' = happened \cup {"longPassword"}
          /\ UNCHANGED err
       \/ /\ "noMemory" \in Mishaps
          /\ err' = 1
          /\ Goto("forget")
          /\ UNCHANGED <<seg, keys, happened>>
    /\ UNCHANGED <<command, todo, misfreed, keyboard, hook, blocked, abort, callout, drain,
                   sent, typed>>

\* Without a display, the password itself is sent to /dev/console, if it can be opened.
SendConsole ==
    /\ pc = "send" /\ FALSE \in Display
    /\ \/ Goto("arm") /\ keys' = Size /\ UNCHANGED err
       \/ Goto("forget") /\ err' = 1 /\ UNCHANGED keys
    /\ UNCHANGED <<command, todo, memory, keyboard, signal, sent, typed>>

OnX == seg["input"] # "null"

Arm ==
    /\ pc = "arm"
    /\ callout' = "noArgs"
    /\ Goto("armArgs")
    /\ UNCHANGED <<command, todo, memory, keyboard, hook, blocked, abort, drain, happened,
                   typing, err>>

ArmArgs ==
    /\ pc = "armArgs"
    /\ callout' = "drain"
    /\ abort' = FALSE
    /\ Goto("type")
    /\ UNCHANGED <<command, todo, memory, keyboard, hook, blocked, drain, happened, typing, err>>

\* Mutants: one key too many; an unknown symbol ends the loop without an error.
TypeKeyTooMany ==
    /\ pc = "type" /\ OnX
    /\ ~abort /\ sent <= keys
    /\ sent' = sent + 1 /\ typed' = typed + 1
    /\ UNCHANGED <<command, pc, todo, memory, keyboard, signal, keys, err>>
TypeKeyQuietly ==
    /\ pc = "type" /\ OnX
    /\ ~abort /\ sent < keys
    /\ \/ sent' = sent + 1 /\ typed' = typed + 1 /\ UNCHANGED <<pc, keys>>
       \/ Goto("finish") /\ UNCHANGED typing
    /\ UNCHANGED <<command, todo, memory, keyboard, signal, err>>

\* After the sleep(), key by key.  The keyboard layout may not have a symbol.
TypeKey ==
    /\ pc = "type" /\ OnX
    /\ ~abort /\ sent < keys
    /\ \/ /\ sent' = sent + 1 /\ typed' = typed + 1
          /\ UNCHANGED <<pc, err>>
       \/ /\ err' = 1
          /\ Goto("finish")
          /\ UNCHANGED <<sent, typed>>
    /\ UNCHANGED <<command, todo, memory, keyboard, signal, keys>>

\* The result of ioctl(TIOCSTI) is not looked at.
InjectKey ==
    /\ pc = "type" /\ ~OnX
    /\ ~abort /\ sent < keys
    /\ sent' = sent + 1
    /\ \/ /\ typed' = typed + 1
          /\ UNCHANGED happened
       \/ /\ "noTIOCSTI" \in Mishaps
          /\ happened' = happened \cup {"noTIOCSTI"}
          /\ UNCHANGED typed
    /\ UNCHANGED <<command, pc, todo, memory, keyboard, hook, blocked, abort, callout, drain,
                   keys, err>>

LastKey ==
    /\ pc = "type"
    /\ abort \/ sent = keys
    /\ err' = IF abort THEN 1 ELSE 0
    /\ Goto("finish")
    /\ UNCHANGED <<command, todo, memory, keyboard, signal, typing>>

Finish ==
    /\ pc = "finish"
    /\ Free("input")
    /\ Goto("forget")
    /\ UNCHANGED <<command, todo, keyboard, signal, typing, err>>

\* Mutant: zc_drain is not zeroed.
ForgetNothing ==
    /\ pc = "forget"
    /\ Epilogue
    /\ UNCHANGED <<command, memory, keyboard, signal, typing, err>>

\* Back in zc_password_get().  Nothing resets the callout.
Forget ==
    /\ pc = "forget"
    /\ drain' = FALSE
    /\ Epilogue
    /\ UNCHANGED <<command, memory, keyboard, hook, blocked, abort, callout, happened,
                   typing, err>>

-----------------------------------------------------------------------------
(* The end of a command, and the end of the process. *)

FreeNext ==
    /\ pc = "free" /\ todo # <<>>
    /\ Free(Head(todo))
    /\ todo' = Tail(todo)
    /\ UNCHANGED <<command, pc, keyboard, signal, typing, err>>

\* signal(SIGINT | SIGTERM, NULL): with these numbers, that is SIGTERM alone.
Return ==
    /\ pc = "free" /\ todo = <<>>
    /\ hook' = IF command.op = "get"
               THEN [s \in Signals |-> IF s = "SIGTERM" THEN "default" ELSE hook[s]]
               ELSE hook
    /\ Goto("returned")
    /\ UNCHANGED <<command, todo, memory, keyboard, blocked, abort, callout, drain, happened,
                   typing, err>>

Exit ==
    /\ pc = "returned"
    /\ Goto("exited")
    /\ UNCHANGED <<command, todo, memory, keyboard, signal, typing, err>>

\* zc_drain_out_data(), on the stack of the handler: it forgets the sizes and not the
\* pointers, says that everything was cleared, and calls exit().
DrainOut ==
    /\ pc = "callout"
    /\ \/ /\ todo # <<>>
          /\ Free(Head(todo))
          /\ todo' = Tail(todo)
          /\ UNCHANGED <<pc, err>>
       \/ /\ todo = <<>>
          /\ err' = 1
          /\ Goto("aborted")
          /\ UNCHANGED <<todo, memory>>
    /\ UNCHANGED <<command, keyboard, signal, typing>>

-----------------------------------------------------------------------------
(* Signals.  Until the first prompt they are zc_sigint_watchdog()'s, which does *)
(* nothing to this process.                                                     *)

Deliverable(s) ==
    /\ pc \in BeforeExit /\ s \notin blocked
    /\ pc \in Narrow => pc \in Mishaps

Arrives(s) ==
    /\ Deliverable(s) /\ hook[s] = "getuserkey"
    /\ happened' = happened \cup ({pc} \cap Narrow)

Die(s) ==
    /\ Deliverable(s) /\ hook[s] = "default"
    /\ Goto("killed")
    /\ UNCHANGED <<command, todo, memory, keyboard, signal, typing, err>>

\* getuserkey_sigint_watchdog()
Cancel(s) ==
    /\ Arrives(s)
    /\ callout = "none"
    /\ echo' = saved
    /\ abort' = TRUE
    /\ UNCHANGED <<command, pc, todo, memory, text, line, saved, shown,
                   hook, blocked, callout, drain, typing, err>>

\* Mutants: the drain is filled in without the master password; a signal interrupts its
\* own handler.
CallOutHalf(s) ==
    /\ Arrives(s)
    /\ callout # "none"
    /\ echo' = saved
    /\ blocked' = blocked \cup {s}
    /\ todo' = IF drain THEN <<"password">> ELSE <<>>
    /\ Goto("callout")
    /\ UNCHANGED <<command, memory, text, line, saved, shown, hook, abort, callout, drain, typing, err>>
CallOutAgain(s) ==
    /\ Arrives(s)
    /\ callout # "none"
    /\ echo' = saved
    /\ todo' = IF drain THEN <<"pwdb", "password">> ELSE <<>>
    /\ Goto("callout")
    /\ UNCHANGED <<command, memory, text, line, saved, shown, hook, blocked, abort, callout,
                   drain, typing, err>>

\* The callout is forgotten after it was called, but it does not return.  Once
\* zc_password_get() has returned, there is anything where zc_drain was.
CallOut(s) ==
    /\ Arrives(s)
    /\ callout # "none"
    /\ echo' = saved
    /\ blocked' = blocked \cup {s}
    /\ todo' = IF drain /\ callout = "drain" THEN <<"pwdb", "password">> ELSE <<>>
    /\ misfreed' \in IF pc = "returned" THEN {misfreed, TRUE} ELSE {misfreed}
    /\ Goto("callout")
    /\ UNCHANGED <<command, seg, text, line, saved, shown, hook, abort, callout, drain, typing, err>>

Interrupt == \E s \in Signals : Die(s) \/ Cancel(s) \/ CallOut(s)

-----------------------------------------------------------------------------
Init ==
    /\ command \in Commands
    /\ pc = "open"
    /\ todo = <<>>
    /\ seg = [b \in Buffers |-> "null"]
    /\ text = [b \in Buffers |-> "nothing"]
    /\ line = "nothing"
    /\ echo = TRUE /\ saved = TRUE /\ shown = FALSE
    /\ hook = [s \in Signals |-> "watchdog"]
    /\ blocked = {}
    /\ abort = FALSE
    /\ callout = "none"
    /\ drain = FALSE
    /\ misfreed = FALSE /\ happened = {}
    /\ keys = Size /\ sent = 0 /\ typed = 0
    /\ err = IF command.op = "del" THEN 0 ELSE 1   \* see ZcClients

Step ==
    \/ Open \/ Prompt \/ Reset \/ Hook \/ Decode \/ Restore \/ Check \/ Call
    \/ FillDrain \/ Send \/ SendConsole \/ Arm \/ ArmArgs \/ TypeKey \/ InjectKey \/ LastKey \/ Finish \/ Forget
    \/ FreeNext \/ Return \/ Exit \/ DrainOut

Next == Step \/ TypeLine \/ Interrupt

Spec == Init /\ [][Next]_vars

\* The process runs when it can; nobody has to type, or to send signals.
FairSpec == Spec /\ WF_vars(Step)

-----------------------------------------------------------------------------
TypeOK ==
    /\ command \in Commands
    /\ pc \in BeforeExit \cup Ended
    /\ todo \in Seq(Buffers)
    /\ seg \in [Buffers -> {"null", "live", "freed"}]
    /\ text \in [Buffers -> Keys \cup {"nothing", "partial", "garbage"}]
    /\ line \in Keys \cup {"nothing", "garbage"}
    /\ echo \in BOOLEAN /\ saved \in BOOLEAN /\ shown \in BOOLEAN
    /\ hook \in [Signals -> {"watchdog", "getuserkey", "default"}]
    /\ blocked \subseteq Signals
    /\ abort \in BOOLEAN
    /\ callout \in {"none", "noArgs", "drain"}
    /\ drain \in BOOLEAN
    /\ misfreed \in BOOLEAN /\ happened \subseteq Mishaps
    /\ keys \in 0..Size /\ sent \in 0..Size /\ typed \in 0..sent
    /\ err \in 0..1

\* However the process ends, the terminal shows what is typed again: the handlers, the
\* prompts that are given up and the callout's exit() included.  Only a prompt that had no
\* memory for its line, and wrote it all the same, leaves the terminal as it was.
EchoRestored == pc \in Ended /\ "noMemory" \notin happened => echo

\* Every command that returns has cleared the memory it kept a password in, wherever
\* it was interrupted and whichever way it left.
ReturnsClean == pc = "returned" => \A b \in Buffers : seg[b] # "live"

\* Unless the device was missing, a signal interrupted the callout of another, or came
\* when zc_password_get() had returned, nothing is freed twice or freed without being
\* allocated: the epilogue of "get" and the callout that interrupts it share their pointers.
FreesAreLive == misfreed => happened \cap {"noDevice", "callout", "returned"} # {}

\* If Ctrl-C at a prompt turned the echo on, what was typed then is not used; unless it
\* came between the change of the echo and that of the flag.
SeenIsNotUsed ==
    pc \in {"call", "drain", "send", "arm", "armArgs", "type"} /\ shown => "reset" \in happened

\* A password that is set was typed twice, the same both times and to its last character,
\* unless its line never came or a signal found the process decoding it.
SetAsTyped ==
    pc = "call" /\ happened \cap {"decode", "endOfInput"} = {} =>
        \A b \in DOMAIN Again :
            text[b] # "nothing" => text[b] \in Keys /\ text[b] = text[Again[b]]

\* zacarias.1, EXIT STATUS, of "get": zero only if the whole password was typed, whatever
\* interrupted it, unless the console refused a key or the copy for X had no room for all of
\* a long password.
ZeroMeansTyped ==
    pc = "exited" /\ command.op = "get" /\ err = 0
       /\ happened \cap {"longPassword", "noTIOCSTI"} = {} => typed = Size

\* A callout that knows its arguments while zc_drain has the pointers has freed all it can
\* know of when it ends the process.
DrainClears ==
    pc = "aborted" /\ happened \cap {"armArgs", "free", "returned"} = {} =>
        \A b \in Buffers \ {"input"} : seg[b] # "live"

\* password.c, zc_drain_out_data(): "Aborted by the user. Anyway, all sensitive data was
\* cleared."
AbortedMeansCleared == pc = "aborted" => \A b \in Buffers : seg[b] # "live"

\* The callout ends the process whatever interrupts it: by its exit(), or by SIGTERM once
\* zc_password_get() has given that back its default action.
CalloutExits == pc = "callout" ~> pc \in {"aborted", "killed"}
=============================================================================
