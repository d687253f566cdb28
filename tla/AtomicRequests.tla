--------------------------- MODULE AtomicRequests ---------------------------
(***************************************************************************)
(* What several "zc" commands of one user may count on when they run at    *)
(* the same time: each is carried out completely, in one step and once, or *)
(* refused and not carried out at all.                                     *)
(*                                                                         *)
(* This module is the specification the clients are checked against; it    *)
(* translates no code of its own.                                          *)
(***************************************************************************)
CONSTANTS Clients, Aliases, Nobody

VARIABLES
    request,   \* what each client asks for: [op, alias, right]
    entries,   \* who added the entry of each alias, or Nobody
    attached,  \* is the profile attached?
    answer,    \* "pending", "ok" or "refused", for each client
    got        \* whose password each "get" was answered

requestVars == <<request, entries, attached, answer, got>>

RequestsInit ==
    /\ entries = [a \in Aliases |-> Nobody]
    /\ answer = [c \in Clients |-> "pending"]
    /\ got = [c \in Clients |-> Nobody]

Does(c, op) ==
    /\ request[c].op = op /\ request[c].right
    /\ answer[c] = "pending"
    /\ answer' = [answer EXCEPT ![c] = "ok"]
    /\ UNCHANGED request

Attach(c) ==
    /\ Does(c, "attach") /\ ~attached
    /\ attached' = TRUE
    /\ UNCHANGED <<entries, got>>

Detach(c) ==
    /\ Does(c, "detach") /\ attached
    /\ attached' = FALSE
    /\ UNCHANGED <<entries, got>>

Add(c) ==
    /\ Does(c, "add") /\ attached
    /\ entries[request[c].alias] = Nobody
    /\ entries' = [entries EXCEPT ![request[c].alias] = c]
    /\ UNCHANGED <<attached, got>>

Del(c) ==
    /\ Does(c, "del") /\ attached
    /\ entries[request[c].alias] # Nobody
    /\ entries' = [entries EXCEPT ![request[c].alias] = Nobody]
    /\ UNCHANGED <<attached, got>>

Get(c) ==
    /\ Does(c, "get") /\ attached
    /\ entries[request[c].alias] # Nobody
    /\ got' = [got EXCEPT ![c] = entries[request[c].alias]]
    /\ UNCHANGED <<entries, attached>>

Refuse(c) ==
    /\ answer[c] = "pending"
    /\ answer' = [answer EXCEPT ![c] = "refused"]
    /\ UNCHANGED <<request, entries, attached, got>>

RequestsNext ==
    \E c \in Clients :
        Attach(c) \/ Detach(c) \/ Add(c) \/ Del(c) \/ Get(c) \/ Refuse(c)

RequestsSpec == RequestsInit /\ [][RequestsNext]_requestVars
=============================================================================
