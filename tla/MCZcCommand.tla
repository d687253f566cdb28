----------------------------- MODULE MCZcCommand -----------------------------
(* Instances of ZcCommand for TLC. *)
EXTENDS ZcCommand

Run(op) == [op |-> op, init |-> FALSE, sessioned |-> FALSE, generate |-> FALSE]

AllCommands ==
    {[Run("attach") EXCEPT !.init = i, !.sessioned = s] : i, s \in BOOLEAN}
    \cup {[Run("add") EXCEPT !.sessioned = s, !.generate = g] : s, g \in BOOLEAN}
    \cup {[Run("del") EXCEPT !.sessioned = s] : s \in BOOLEAN}
    \cup {Run("detach"), Run("get"), Run("aliases")}
Get == {Run("get")}

AllMishaps == Narrow \cup
    {"noDevice", "noTerminal", "endOfInput", "noMemory", "longPassword", "noTIOCSTI"}
=============================================================================
