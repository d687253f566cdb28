---------------------------- MODULE ProfileList ----------------------------
(***************************************************************************)
(* The list of attached profiles, dev/ctx/ctx.c: a doubly linked list in   *)
(* kernel memory.  The memory is part of the model, because what could go  *)
(* wrong is a pointer to a profile that was freed, or a profile that       *)
(* cannot be reached any more.  An address that was freed can be given out *)
(* again at once.  The callers hold the device lock: an operation is one   *)
(* step.                                                                   *)
(***************************************************************************)

CONSTANTS
    Addresses,  \* where profiles may be allocated
    Users,
    NULL        \* the null pointer, and what is at an address that is free

VARIABLES
    heap,       \* the profile at each address
    head, tail, \* the two ends of the list
    err         \* what the last operation returned

vars == <<heap, head, tail, err>>

ASSUME NullAssumption == NULL \notin Addresses

Pointer == Addresses \cup {NULL}
Profile == [user : Users, last : Pointer, next : Pointer]

ASSUME NullIsNoProfile == NULL \notin Profile

Live == {n \in Addresses : heap[n] # NULL}

\* A set of addresses that following "next" does not leave.
Closed(h, S) == \A n \in S : h[n] # NULL /\ h[n].next # NULL => h[n].next \in S

\* What following "next" from an address comes across.
Reach(h, from) == {n \in Addresses :
                      \A S \in SUBSET Addresses : from \in S /\ Closed(h, S) => n \in S}

\* What the loop of zacarias_profiles_ctx_get() goes through.
Listed == IF head = NULL THEN {} ELSE Reach(heap, head)

\* Mutant: the list is not searched before a profile goes on it.
GetNone(u) == {}

\* zacarias_profiles_ctx_get()
Get(u) == {n \in Listed : heap[n].user = u}

-----------------------------------------------------------------------------
\* zacarias_profiles_ctx_add().  The new profile is zeroed; its "last" is only set
\* when the list is not empty.
Add(u) ==
    /\ Get(u) = {}
    /\ \E n \in Addresses \ Live :
          /\ heap' = [m \in Addresses |->
                        IF m = n THEN [user |-> u, next |-> NULL,
                                       last |-> IF head = NULL THEN NULL ELSE tail]
                        ELSE IF m = tail /\ head # NULL THEN [heap[m] EXCEPT !.next = n]
                        ELSE heap[m]]
          /\ head' = IF head = NULL THEN n ELSE head
          /\ tail' = n
    /\ err' = "ok"

\* Mutant: the profile is left as it came from the allocator, without a user.
AddLeaksRaw(u) ==
    /\ Get(u) = {}
    /\ \E n \in Addresses \ Live :
          heap' = [heap EXCEPT ![n] = [user |-> NULL, last |-> NULL, next |-> NULL]]
    /\ err' = "error"
    /\ UNCHANGED <<head, tail>>

\* The profile has been allocated and there is no memory for its PWDB: nobody frees
\* the profile.
AddLeaks(u) ==
    /\ Get(u) = {}
    /\ \E n \in Addresses \ Live :
          heap' = [heap EXCEPT ![n] = [user |-> u, last |-> NULL, next |-> NULL]]
    /\ err' = "error"
    /\ UNCHANGED <<head, tail>>

\* The user is there already, or there is no PWDB to attach.
AddRefused == err' = "error" /\ UNCHANGED <<heap, head, tail>>

\* Mutants of Unlink: the head goes and the tail stays; the head goes as if it
\* were the only profile.
UnlinkHeadOnly(p) ==
    /\ head' = IF p = head THEN heap[p].next ELSE head
    /\ tail' = IF p = tail /\ p # head THEN heap[p].last ELSE tail
    /\ heap' = [heap EXCEPT ![p] = NULL]
UnlinkAllFromHead(p) ==
    /\ head' = IF p = head THEN NULL ELSE head
    /\ tail' = IF p = head THEN NULL ELSE IF p = tail THEN heap[p].last ELSE tail
    /\ heap' = [m \in Addresses |->
                  IF m = p \/ m \notin Live THEN NULL
                  ELSE [heap[m] EXCEPT
                          !.next = IF p # head /\ m = heap[p].last THEN heap[p].next ELSE @,
                          !.last = IF p # head /\ p # tail /\ m = heap[p].next
                                   THEN heap[p].last ELSE @]]

\* zacarias_profiles_ctx_del() of the profile at p: as head, as tail or from the middle,
\* and freed.  When the head goes, the "last" of the new head is left pointing to it.
Unlink(p) ==
    /\ head' = IF p = head THEN heap[p].next ELSE head
    /\ tail' = IF p # tail THEN tail ELSE IF p = head THEN NULL ELSE heap[p].last
    /\ heap' = [m \in Addresses |->
                  IF m = p \/ m \notin Live THEN NULL
                  ELSE [heap[m] EXCEPT
                          !.next = IF p # head /\ m = heap[p].last THEN heap[p].next ELSE @,
                          !.last = IF p # head /\ p # tail /\ m = heap[p].next
                                   THEN heap[p].last ELSE @]]

Del(u) ==
    \/ /\ \E p \in Get(u) : Unlink(p)
       /\ err' = "ok"
    \/ /\ Get(u) = {}
       /\ err' = "error"
       /\ UNCHANGED <<heap, head, tail>>

\* zacarias_profiles_ctx_deinit(), and the init of the next load of the driver.
Deinit ==
    /\ heap' = [m \in Addresses |-> IF m \in Listed THEN NULL ELSE heap[m]]
    /\ head' = NULL /\ tail' = NULL
    /\ err' = "none"

Init ==
    /\ heap = [n \in Addresses |-> NULL]
    /\ head = NULL /\ tail = NULL
    /\ err = "none"

Next == Deinit \/ AddRefused \/ \E u \in Users : Add(u) \/ AddLeaks(u) \/ Del(u)

Spec == Init /\ [][Next]_vars

-----------------------------------------------------------------------------
TypeOK ==
    /\ heap \in [Addresses -> Profile \cup {NULL}]
    /\ head \in Pointer /\ tail \in Pointer
    /\ err \in {"none", "ok", "error"}

\* No operation of ctx.c, in whatever order they come and wherever the allocator puts
\* the profiles, follows a pointer to memory that was freed: the ends of the list and
\* every "next" in it lead to live profiles, and so does the "last" of every profile
\* but the head, whose "last" may dangle and is never looked at.  There is no way
\* back to the head, so a walk along the list ends.
LinksAreLive ==
    /\ head = NULL <=> tail = NULL
    /\ head # NULL => head \in Listed /\ tail \in Listed
    /\ \A n \in Listed :
          /\ n \in Live
          /\ heap[n].next = NULL <=> n = tail
          /\ n # tail => heap[n].next \in Listed /\ heap[heap[n].next].last = n
          /\ n # head => heap[n].last \in Listed /\ heap[heap[n].last].next = n
          /\ heap[n].next = NULL \/ heap[n].next # head

\* A user is attached at most once, so which of two profiles a request would meet is
\* never a question, and detaching one leaves none behind.
OneProfilePerUser == \A m, n \in Listed : heap[m].user = heap[n].user => m = n

\* The list is a set of users: no profile is lost when its neighbour goes, none comes
\* back, and an operation that returns an error has left the set alone.
Set == INSTANCE ProfileSet WITH attached <- {heap[n].user : n \in Listed}, outcome <- err

ImplementsSet == Set!SetSpec
=============================================================================
