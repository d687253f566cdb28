----------------------------- MODULE ProfileSet -----------------------------
(***************************************************************************)
(* What dev/ctx/ctx.c promises dev/actions.c: a set of attached users.     *)
(* Adding one that is there and removing one that is not are errors that   *)
(* change nothing, and adding one may fail for want of memory.             *)
(***************************************************************************)
CONSTANT Users

VARIABLES attached, outcome

setVars == <<attached, outcome>>

SetInit == attached = {} /\ outcome = "none"

Join(u) ==
    /\ u \notin attached
    /\ attached' = attached \cup {u}
    /\ outcome' = "ok"

Leave(u) ==
    /\ u \in attached
    /\ attached' = attached \ {u}
    /\ outcome' = "ok"

Fail == attached' = attached /\ outcome' = "error"

Clear == attached' = {} /\ outcome' = "none"

SetNext == (\E u \in Users : Join(u) \/ Leave(u)) \/ Fail \/ Clear

SetSpec == SetInit /\ [][SetNext]_setVars
=============================================================================
