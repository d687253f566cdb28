------------------------- MODULE ProfileList_proofs -------------------------
(***************************************************************************)
(* The list of profiles is intact and is a set of users, for any number of *)
(* addresses and users.                                                    *)
(*                                                                         *)
(* Reachability needs no induction here: Reach(h, from) is the least set   *)
(* that holds from and that "next" does not leave, so to bound it from     *)
(* above one exhibits such a set, and to show that something is in it one  *)
(* shows that every such set has it.                                       *)
(***************************************************************************)
EXTENDS ProfileList, TLAPS

\* Whatever holds the first address and is closed holds all that can be reached.
LEMMA ReachLeast ==
    ASSUME NEW h, NEW from, NEW S \in SUBSET Addresses, from \in S, Closed(h, S)
    PROVE  Reach(h, from) \subseteq S
  BY DEF Reach

\* What can be reached holds the first address and is closed.
LEMMA ReachClosed ==
    ASSUME NEW h, NEW from \in Addresses,
           \A n \in Addresses : h[n] # NULL => h[n].next \in Pointer
    PROVE  /\ from \in Reach(h, from)
           /\ Reach(h, from) \in SUBSET Addresses
           /\ Closed(h, Reach(h, from))
  <1>1. from \in Reach(h, from) /\ Reach(h, from) \in SUBSET Addresses
    BY DEF Reach
  <1>2. ASSUME NEW n \in Reach(h, from), h[n] # NULL, h[n].next # NULL
        PROVE  h[n].next \in Reach(h, from)
    <2>1. h[n].next \in Addresses
      BY <1>1, <1>2 DEF Pointer
    <2>2. ASSUME NEW S \in SUBSET Addresses, from \in S, Closed(h, S)
          PROVE  h[n].next \in S
      BY <1>2, <2>2 DEF Closed, Reach
    <2> QED
      BY <2>1, <2>2 DEF Reach
  <1> QED
    BY <1>1, <1>2 DEF Closed

IInv == TypeOK /\ LinksAreLive /\ OneProfilePerUser

\* The list seen as a set of addresses.
LEMMA ListedClosed ==
    ASSUME TypeOK
    PROVE  /\ Listed \in SUBSET Addresses
           /\ Closed(heap, Listed)
           /\ head # NULL => head \in Listed
  <1>1. \A n \in Addresses : heap[n] # NULL => heap[n].next \in Pointer
    BY DEF TypeOK, Profile
  <1>2. CASE head = NULL
    BY <1>2 DEF Listed, Closed
  <1>3. CASE head # NULL
    <2>1. head \in Addresses
      BY <1>3 DEF TypeOK, Pointer
    <2> QED
      BY <1>1, <1>3, <2>1, ReachClosed DEF Listed
  <1> QED
    BY <1>2, <1>3

LEMMA ListedLeast ==
    ASSUME NEW S \in SUBSET Addresses, head # NULL => head \in S, Closed(heap, S)
    PROVE  Listed \subseteq S
  <1>1. CASE head = NULL
    BY <1>1 DEF Listed
  <1>2. CASE head # NULL
    BY <1>2, ReachLeast DEF Listed
  <1> QED
    BY <1>1, <1>2
-----------------------------------------------------------------------------
(* zacarias_profiles_ctx_add() *)

\* The step of Add that puts the profile of u at n.
AddAt(u, n) ==
    /\ heap' = [m \in Addresses |->
                  IF m = n THEN [user |-> u, next |-> NULL,
                                 last |-> IF head = NULL THEN NULL ELSE tail]
                  ELSE IF m = tail /\ head # NULL THEN [heap[m] EXCEPT !.next = n]
                  ELSE heap[m]]
    /\ head' = IF head = NULL THEN n ELSE head
    /\ tail' = n

LEMMA AddTypeOK ==
    ASSUME IInv, NEW u \in Users, NEW n \in Addresses, AddAt(u, n), err' = "ok"
    PROVE  TypeOK'
  <1>1. n \in Pointer /\ tail \in Pointer /\ head \in Pointer /\ NULL \in Pointer
    BY DEF IInv, TypeOK, Pointer
  <1>2. ASSUME NEW m \in Addresses PROVE heap'[m] \in Profile \cup {NULL}
    <2>1. CASE m = n
      BY <1>1, <2>1 DEF AddAt, Profile
    <2>2. CASE m # n /\ m = tail /\ head # NULL
      <3>1. heap[m] \in Profile
        BY <2>2 DEF IInv, TypeOK, LinksAreLive, Live
      <3>2. heap'[m] = [heap[m] EXCEPT !.next = n]
        BY <2>2 DEF AddAt
      <3> QED
        BY <1>1, <3>1, <3>2 DEF Profile
    <2>3. CASE m # n /\ ~(m = tail /\ head # NULL)
      BY <2>3 DEF AddAt, IInv, TypeOK
    <2> QED
      BY <2>1, <2>2, <2>3
  <1>3. heap' = [m \in Addresses |-> heap'[m]]
    BY DEF AddAt
  <1>4. heap' \in [Addresses -> Profile \cup {NULL}]
    BY <1>2, <1>3
  <1> QED
    BY <1>1, <1>4 DEF TypeOK, AddAt

LEMMA AddListed ==
    ASSUME IInv, NEW u \in Users, NEW n \in Addresses \ Live, AddAt(u, n), err' = "ok"
    PROVE  Listed' = Listed \cup {n}
  <1>1. TypeOK'
    BY AddTypeOK
  <1>2. Listed \in SUBSET Addresses /\ Closed(heap, Listed) /\ (head # NULL => head \in Listed)
    BY ListedClosed DEF IInv
  <1>3. head' # NULL /\ head' \in Addresses
    BY <1>1, NullAssumption DEF IInv, TypeOK, AddAt, Pointer
  <1>4. Listed' = Reach(heap', head')
    BY <1>3 DEF Listed
  <1>5. n \notin Listed
    BY DEF IInv, LinksAreLive
  <1>6. Listed' \subseteq Listed \cup {n}
    <2>1. Closed(heap', Listed \cup {n})
      <3> SUFFICES ASSUME NEW m \in Listed \cup {n}, heap'[m].next # NULL
                   PROVE  heap'[m].next \in Listed \cup {n}
        BY DEF Closed
      <3>1. CASE m = n
        BY <3>1 DEF AddAt
      <3>2. CASE m # n /\ m = tail /\ head # NULL
        <4>1. heap[m] \in Profile
          BY <1>2, <3>2 DEF IInv, TypeOK, LinksAreLive, Live
        <4> QED
          BY <1>2, <3>2, <4>1 DEF AddAt, Profile
      <3>3. CASE m # n /\ ~(m = tail /\ head # NULL)
        <4>1. heap'[m] = heap[m] /\ heap[m] # NULL
          BY <1>2, <3>3 DEF AddAt, IInv, LinksAreLive, Live
        <4> QED
          BY <1>2, <3>3, <4>1 DEF Closed
      <3> QED
        BY <3>1, <3>2, <3>3
    <2>2. head' \in Listed \cup {n}
      BY <1>2 DEF AddAt
    <2> QED
      BY <1>2, <1>4, <2>1, <2>2, ReachLeast
  <1>7. head' \in Listed' /\ Listed' \in SUBSET Addresses /\ Closed(heap', Listed')
    <2>1. \A m \in Addresses : heap'[m] # NULL => heap'[m].next \in Pointer
      BY <1>1 DEF TypeOK, Profile
    <2> QED
      BY <1>3, <1>4, <2>1, ReachClosed
  <1>8. CASE head = NULL
    <2>1. Listed = {} /\ head' = n
      BY <1>8 DEF Listed, AddAt
    <2> QED
      BY <1>6, <1>7, <2>1
  <1>9. CASE head # NULL
    <2> DEFINE S == Listed' \cap Listed
    <2>1. Closed(heap, S)
      <3> SUFFICES ASSUME NEW m \in S, heap[m] # NULL, heap[m].next # NULL
                   PROVE  heap[m].next \in S
        BY DEF Closed
      <3>1. m # tail /\ m # n
        BY <1>5 DEF IInv, LinksAreLive
      <3>2. heap'[m] = heap[m]
        BY <1>2, <3>1 DEF AddAt
      <3> QED
        BY <1>2, <1>7, <3>2 DEF Closed
    <2>2. Listed \subseteq S
      <3>1. head \in S
        BY <1>2, <1>7, <1>9 DEF AddAt
      <3> QED
        BY <1>2, <2>1, <3>1, ListedLeast
    <2>3. n \in Listed'
      <3>1. tail \in Listed' /\ tail \in Listed /\ tail # n
        BY <1>5, <1>9, <2>2 DEF IInv, LinksAreLive
      <3>2. heap[tail] \in Profile
        BY <1>2, <3>1 DEF IInv, TypeOK, LinksAreLive, Live
      <3>3. heap'[tail] # NULL /\ heap'[tail].next = n
        BY <1>1, <1>2, <1>9, <3>1, <3>2, NullIsNoProfile DEF AddAt, Profile, Pointer
      <3>4. n # NULL
        BY NullAssumption
      <3> QED
        BY <1>7, <3>1, <3>3, <3>4 DEF Closed
    <2> QED
      BY <1>6, <2>2, <2>3
  <1> QED
    BY <1>8, <1>9

\* In the list a link is null or stays in the list.
LEMMA ListedProfiles ==
    ASSUME IInv, NEW m \in Listed
    PROVE  /\ m \in Addresses /\ heap[m] \in Profile /\ heap[m] # NULL
           /\ heap[m].next \in Pointer /\ heap[m].last \in Pointer
  <1>1. m \in Addresses
    BY ListedClosed DEF IInv
  <1>2. heap[m] \in Profile
    BY <1>1 DEF IInv, TypeOK, LinksAreLive, Live
  <1> QED
    BY <1>1, <1>2, NullIsNoProfile DEF Profile

LEMMA AddKeepsIInv ==
    ASSUME IInv, NEW u \in Users, Add(u)
    PROVE  /\ IInv'
           /\ \E n \in Addresses : /\ Listed' = Listed \cup {n} /\ heap'[n].user = u
                                   /\ \A m \in Listed : heap'[m].user = heap[m].user
  <1>1. PICK n \in Addresses \ Live : AddAt(u, n)
    BY DEF Add, AddAt
  <1>2. err' = "ok" /\ Get(u) = {}
    BY DEF Add
  <1>3. Listed' = Listed \cup {n}
    BY <1>1, <1>2, AddListed
  <1>4. TypeOK'
    BY <1>1, <1>2, AddTypeOK
  <1>5. n \notin Listed /\ n # NULL
    BY NullAssumption DEF IInv, LinksAreLive
  <1>6. heap'[n] = [user |-> u, next |-> NULL, last |-> IF head = NULL THEN NULL ELSE tail]
    BY <1>1 DEF AddAt
  <1>7. ASSUME NEW m \in Listed
        PROVE  /\ m \in Addresses /\ m # n /\ m # NULL /\ head # NULL
               /\ heap'[m].user = heap[m].user /\ heap'[m].last = heap[m].last
               /\ heap'[m].next = IF m = tail THEN n ELSE heap[m].next
               /\ heap'[m] # NULL
    <2>1. m \in Addresses /\ m # n /\ m # NULL /\ head # NULL /\ heap[m] \in Profile
      BY <1>5, ListedProfiles, NullAssumption DEF Listed
    <2>2. CASE m = tail
      <3>1. heap'[m] = [heap[m] EXCEPT !.next = n]
        BY <1>1, <2>1, <2>2 DEF AddAt
      <3>2. heap'[m] \in Profile
        BY <2>1, <3>1 DEF Profile, Pointer
      <3> QED
        BY <2>1, <2>2, <3>1, <3>2, NullIsNoProfile DEF Profile
    <2>3. CASE m # tail
      BY <1>1, <2>1, <2>3, NullIsNoProfile DEF AddAt
    <2> QED
      BY <2>1, <2>2, <2>3
  <1>8. LinksAreLive'
    <2>1. head' # NULL /\ tail' # NULL /\ head' \in Listed' /\ tail' \in Listed'
      <3>1. head # NULL => head \in Listed
        BY DEF IInv, LinksAreLive
      <3> QED
        BY <1>1, <1>3, <1>5, <3>1 DEF AddAt
    <2>2. ASSUME NEW m \in Listed'
          PROVE  /\ m \in Live'
                 /\ heap'[m].next = NULL <=> m = tail'
                 /\ m # tail' => heap'[m].next \in Listed' /\ heap'[heap'[m].next].last = m
                 /\ m # head' => heap'[m].last \in Listed' /\ heap'[heap'[m].last].next = m
                 /\ heap'[m].next = NULL \/ heap'[m].next # head'
      <3>1. CASE m = n
        <4>0. tail \in Pointer
          BY DEF IInv, TypeOK
        <4>1. m \in Live' /\ heap'[m].next = NULL /\ m = tail'
          <5>1. heap'[n] \in Profile
            BY <1>6, <4>0 DEF Profile, Pointer
          <5> QED
            BY <1>1, <1>6, <3>1, <5>1, NullIsNoProfile DEF Live, AddAt
        <4>2. CASE head = NULL
          BY <1>1, <3>1, <4>1, <4>2 DEF AddAt
        <4>3. CASE head # NULL
          <5>1. tail \in Listed /\ heap'[m].last = tail
            BY <1>6, <3>1, <4>3 DEF IInv, LinksAreLive
          <5>2. heap'[tail].next = n
            BY <1>7, <5>1
          <5> QED
            BY <1>3, <3>1, <4>1, <5>1, <5>2
        <4> QED
          BY <4>2, <4>3
      <3>2. CASE m \in Listed
        <4>1. m \in Live' /\ m # tail'
          BY <1>1, <1>7, <3>2 DEF Live, AddAt
        <4>2. heap'[m].next # NULL
          BY <1>5, <1>7, <3>2 DEF IInv, LinksAreLive
        <4>3. heap'[m].next \in Listed' /\ heap'[heap'[m].next].last = m
          <5>1. CASE m = tail
            BY <1>3, <1>6, <1>7, <3>2, <5>1
          <5>2. CASE m # tail
            <6>1. heap[m].next \in Listed /\ heap[heap[m].next].last = m
              BY <3>2, <5>2 DEF IInv, LinksAreLive
            <6> QED
              BY <1>3, <1>7, <3>2, <5>2, <6>1
          <5> QED
            BY <5>1, <5>2
        <4>4. m # head' => heap'[m].last \in Listed' /\ heap'[heap'[m].last].next = m
          <5> SUFFICES ASSUME m # head
                       PROVE  heap'[m].last \in Listed' /\ heap'[heap'[m].last].next = m
            BY <1>1, <1>7, <3>2 DEF AddAt
          <5>1. heap[m].last \in Listed /\ heap[heap[m].last].next = m
            BY <3>2 DEF IInv, LinksAreLive
          <5>2. heap[m].last # tail
            BY <1>7, <3>2, <5>1 DEF IInv, LinksAreLive
          <5> QED
            BY <1>3, <1>7, <3>2, <5>1, <5>2
        <4>5. heap'[m].next # head'
          <5>1. head' = head /\ head \in Listed
            BY <1>1, <1>7, <3>2 DEF AddAt, IInv, LinksAreLive
          <5> QED
            BY <1>5, <1>7, <3>2, <4>2, <5>1 DEF IInv, LinksAreLive
        <4> QED
          BY <4>1, <4>2, <4>3, <4>4, <4>5
      <3> QED
        BY <1>3, <3>1, <3>2
    <2> QED
      BY <2>1, <2>2 DEF LinksAreLive
  <1>9. OneProfilePerUser'
    <2>1. \A m \in Listed : heap'[m].user # u
      BY <1>2, <1>7 DEF Get
    <2> QED
      BY <1>3, <1>6, <1>7, <2>1 DEF IInv, OneProfilePerUser
  <1> QED
    BY <1>3, <1>4, <1>6, <1>7, <1>8, <1>9 DEF IInv
-----------------------------------------------------------------------------
(* zacarias_profiles_ctx_del() *)

\* Nothing in the list but the "last" of a profile leads to it.
LEMMA OneWayIn ==
    ASSUME IInv, NEW p \in Listed, NEW m \in Listed, heap[m].next = p
    PROVE  p # head /\ m = heap[p].last /\ m # p
  <1>1. m # tail /\ p # NULL /\ p # head
    BY ListedProfiles, NullAssumption DEF IInv, LinksAreLive
  <1>2. m = heap[p].last
    BY <1>1 DEF IInv, LinksAreLive
  <1>3. m # p
    <2> SUFFICES ASSUME m = p PROVE FALSE
      OBVIOUS
    <2> DEFINE S == Listed \ {p}
    <2>1. ASSUME NEW k \in S, heap[k] # NULL, heap[k].next # NULL
          PROVE  heap[k].next \in S
      <3>1. heap[k].next \in Listed
        BY <2>1, ListedClosed DEF IInv, Closed
      <3>2. heap[k].next # p
        <4>1. k # tail
          BY <2>1 DEF IInv, LinksAreLive
        <4>2. heap[heap[k].next].last = k
          BY <4>1 DEF IInv, LinksAreLive
        <4> QED
          BY <1>2, <4>2
      <3> QED
        BY <3>1, <3>2
    <2>2. Closed(heap, S)
      BY <2>1 DEF Closed
    <2>3. S \in SUBSET Addresses /\ head \in S
      BY <1>1, ListedClosed DEF IInv, Listed
    <2>4. Listed \subseteq S
      BY <2>2, <2>3, ListedLeast
    <2> QED
      BY <2>4
  <1> QED
    BY <1>1, <1>2, <1>3

\* What Unlink does to the other profiles, listed or not.
LEMMA UnlinkHeap ==
    ASSUME IInv, NEW p \in Listed, Unlink(p), NEW m \in Live, m # p
    PROVE  /\ heap'[m] \in Profile
           /\ heap'[m].user = heap[m].user
           /\ heap'[m].next = IF p # head /\ m = heap[p].last THEN heap[p].next
                              ELSE heap[m].next
           /\ heap'[m].last = IF p # head /\ p # tail /\ m = heap[p].next
                              THEN heap[p].last ELSE heap[m].last
  <1>1. m \in Addresses /\ heap[m] \in Profile
    BY DEF Live, IInv, TypeOK
  <1>2. heap[p].next \in Pointer /\ heap[p].last \in Pointer
    BY ListedProfiles
  <1>3. heap'[m] =
           [heap[m] EXCEPT
              !.next = IF p # head /\ m = heap[p].last THEN heap[p].next ELSE heap[m].next,
              !.last = IF p # head /\ p # tail /\ m = heap[p].next
                       THEN heap[p].last ELSE heap[m].last]
    BY <1>1 DEF Unlink
  <1> QED
    BY <1>1, <1>2, <1>3 DEF Profile

LEMMA UnlinkTypeOK ==
    ASSUME IInv, NEW p \in Listed, Unlink(p), err' = "ok"
    PROVE  TypeOK'
  <1>1. /\ heap[p].next \in Pointer /\ heap[p].last \in Pointer
        /\ head \in Pointer /\ tail \in Pointer /\ NULL \in Pointer
    BY ListedProfiles DEF IInv, TypeOK, Pointer
  <1>2. ASSUME NEW m \in Addresses PROVE heap'[m] \in Profile \cup {NULL}
    <2>1. CASE m \in Live /\ m # p
      BY <2>1, UnlinkHeap
    <2>2. CASE m = p \/ m \notin Live
      BY <2>2 DEF Unlink
    <2> QED
      BY <2>1, <2>2
  <1>3. heap' = [m \in Addresses |-> heap'[m]]
    BY DEF Unlink
  <1>4. heap' \in [Addresses -> Profile \cup {NULL}]
    BY <1>2, <1>3
  <1> QED
    BY <1>1, <1>4 DEF TypeOK, Unlink

LEMMA UnlinkListed ==
    ASSUME IInv, NEW p \in Listed, Unlink(p), err' = "ok"
    PROVE  Listed' = Listed \ {p}
  <1>1. TypeOK'
    BY UnlinkTypeOK
  <1>2. /\ Listed \in SUBSET Addresses /\ Closed(heap, Listed) /\ head \in Listed
        /\ head # NULL
    <2>1. head # NULL
      BY DEF Listed
    <2> QED
      BY <2>1, ListedClosed DEF IInv
  <1>3. ASSUME NEW m \in Listed, m # p
        PROVE  /\ heap'[m] # NULL
               /\ heap'[m].next = IF p # head /\ m = heap[p].last THEN heap[p].next
                                  ELSE heap[m].next
    <2>1. m \in Live
      BY DEF IInv, LinksAreLive
    <2> QED
      BY <1>3, <2>1, UnlinkHeap, NullIsNoProfile
  <1>4. heap[p].next # NULL => heap[p].next \in Listed \ {p}
    <2>1. heap[p].next # NULL => heap[p].next \in Listed
      BY <1>2, ListedProfiles DEF Closed
    <2> QED
      BY <2>1, OneWayIn
  <1>5. ASSUME NEW m \in Listed \ {p}, heap'[m].next # NULL
        PROVE  heap'[m].next \in Listed \ {p}
    <2>1. CASE p # head /\ m = heap[p].last
      BY <1>3, <1>4, <1>5, <2>1
    <2>2. CASE ~(p # head /\ m = heap[p].last)
      <3>1. heap'[m].next = heap[m].next /\ heap[m] # NULL
        BY <1>3, <2>2, ListedProfiles
      <3>2. heap[m].next \in Listed
        BY <1>2, <1>5, <3>1 DEF Closed
      <3>3. heap[m].next # p
        BY <2>2, OneWayIn
      <3> QED
        BY <3>1, <3>2, <3>3
    <2> QED
      BY <2>1, <2>2
  <1>6. Closed(heap', Listed \ {p})
    BY <1>5 DEF Closed
  <1>7. head' = NULL \/ head' \in Listed \ {p}
    BY <1>2, <1>4 DEF Unlink
  <1>8. Listed' \subseteq Listed \ {p}
    <2>1. CASE head' = NULL
      BY <2>1 DEF Listed
    <2>2. CASE head' # NULL
      <3>1. Listed' = Reach(heap', head')
        BY <2>2 DEF Listed
      <3> QED
        BY <1>2, <1>6, <1>7, <2>2, <3>1, ReachLeast
    <2> QED
      BY <2>1, <2>2
  <1>9. Listed' \in SUBSET Addresses /\ Closed(heap', Listed') /\ (head' # NULL => head' \in Listed')
    <2>1. CASE head' = NULL
      BY <2>1 DEF Listed, Closed
    <2>2. CASE head' # NULL
      <3>1. Listed' = Reach(heap', head') /\ head' \in Addresses
        BY <1>1, <2>2 DEF Listed, TypeOK, Pointer
      <3>2. \A m \in Addresses : heap'[m] # NULL => heap'[m].next \in Pointer
        BY <1>1 DEF TypeOK, Profile
      <3> QED
        BY <3>1, <3>2, ReachClosed
    <2> QED
      BY <2>1, <2>2
  <1>10. Listed \ {p} \subseteq Listed'
    <2>1. CASE p = head
      <3> DEFINE S == (Listed' \cap Listed) \cup {p}
      <3>1. ASSUME NEW m \in S, heap[m] # NULL, heap[m].next # NULL
            PROVE  heap[m].next \in S
        <4>1. CASE m = p
          BY <1>4, <1>9, <2>1, <3>1, <4>1 DEF Unlink
        <4>2. CASE m # p
          BY <1>2, <1>3, <1>9, <2>1, <3>1, <4>2 DEF Closed
        <4> QED
          BY <4>1, <4>2
      <3>2. Listed \subseteq S
        <4>1. S \in SUBSET Addresses /\ head \in S /\ Closed(heap, S)
          BY <1>2, <2>1, <3>1 DEF Closed
        <4> QED
          BY <4>1, ListedLeast
      <3> QED
        BY <3>2
    <2>2. CASE p # head
      <3>1. head' = head /\ head \in Listed'
        BY <1>2, <1>9, <2>2 DEF Unlink
      <3>2. heap[p].last \in Listed /\ heap[heap[p].last].next = p
        BY <2>2 DEF IInv, LinksAreLive
      <3>3. heap[p].last # p
        BY <3>2, OneWayIn
      <3>4. heap[p].last \in Listed'
        <4> SUFFICES ASSUME heap[p].last \notin Listed' PROVE FALSE
          OBVIOUS
        <4> DEFINE S == (Listed' \cap Listed) \ {p}
        <4>1. ASSUME NEW m \in S, heap[m] # NULL, heap[m].next # NULL
              PROVE  heap[m].next \in S
          <5>1. heap[m].next \in Listed /\ heap[m].next # p
            BY <1>2, <4>1, OneWayIn DEF Closed
          <5>2. heap'[m].next = heap[m].next /\ heap'[m] # NULL
            BY <1>3, <4>1
          <5> QED
            BY <1>9, <4>1, <5>1, <5>2 DEF Closed
        <4>2. S \in SUBSET Addresses /\ head \in S /\ Closed(heap, S)
          BY <1>2, <2>2, <3>1, <4>1 DEF Closed
        <4> QED
          BY <4>2, ListedLeast
      <3> DEFINE S == (Listed' \cap Listed) \cup {p}
      <3>5. ASSUME NEW m \in S, heap[m] # NULL, heap[m].next # NULL
            PROVE  heap[m].next \in S
        <4>1. CASE m = p
          <5>1. heap'[heap[p].last].next = heap[p].next /\ heap'[heap[p].last] # NULL
            BY <1>3, <2>2, <3>2, <3>3
          <5> QED
            BY <1>4, <1>9, <3>4, <3>5, <4>1, <5>1 DEF Closed
        <4>2. CASE m # p /\ m = heap[p].last
          BY <3>2, <4>2
        <4>3. CASE m # p /\ m # heap[p].last
          BY <1>2, <1>3, <1>9, <3>5, <4>3 DEF Closed
        <4> QED
          BY <4>1, <4>2, <4>3
      <3>6. Listed \subseteq S
        <4>1. S \in SUBSET Addresses /\ head \in S /\ Closed(heap, S)
          BY <1>2, <3>1, <3>5 DEF Closed
        <4> QED
          BY <4>1, ListedLeast
      <3> QED
        BY <3>6
    <2> QED
      BY <2>1, <2>2
  <1> QED
    BY <1>8, <1>10

LEMMA DelKeepsIInv ==
    ASSUME IInv, NEW p \in Listed, Unlink(p), err' = "ok"
    PROVE  /\ IInv'
           /\ Listed' = Listed \ {p}
           /\ \A m \in Listed' : heap'[m].user = heap[m].user
  <1>1. TypeOK' /\ Listed' = Listed \ {p}
    BY UnlinkTypeOK, UnlinkListed
  <1>2. ASSUME NEW m \in Listed, m # p
        PROVE  /\ m \in Live /\ m \in Live' /\ m # NULL
               /\ heap'[m].user = heap[m].user
               /\ heap'[m].next = IF p # head /\ m = heap[p].last THEN heap[p].next
                                  ELSE heap[m].next
               /\ heap'[m].last = IF p # head /\ p # tail /\ m = heap[p].next
                                  THEN heap[p].last ELSE heap[m].last
    <2>1. m \in Live
      BY DEF IInv, LinksAreLive
    <2> QED
      BY <1>2, <2>1, UnlinkHeap, NullIsNoProfile, NullAssumption DEF Live
  <1>3. /\ head # NULL /\ head \in Listed /\ tail \in Listed
        /\ (heap[p].next = NULL <=> p = tail)
        /\ p # NULL
    BY ListedProfiles, NullAssumption DEF IInv, LinksAreLive, Listed
  <1>4. p # tail => /\ heap[p].next \in Listed \ {p} /\ heap[heap[p].next].last = p
                    /\ heap[p].next # head
    <2> SUFFICES ASSUME p # tail
                 PROVE  /\ heap[p].next \in Listed \ {p} /\ heap[heap[p].next].last = p
                        /\ heap[p].next # head
      OBVIOUS
    <2>1. heap[p].next \in Listed /\ heap[heap[p].next].last = p /\ heap[p].next # head
      BY <1>3 DEF IInv, LinksAreLive
    <2> QED
      BY <2>1, OneWayIn
  <1>5. p # head => heap[p].last \in Listed \ {p} /\ heap[heap[p].last].next = p
    <2> SUFFICES ASSUME p # head
                 PROVE  heap[p].last \in Listed \ {p} /\ heap[heap[p].last].next = p
      OBVIOUS
    <2>1. heap[p].last \in Listed /\ heap[heap[p].last].next = p
      BY DEF IInv, LinksAreLive
    <2> QED
      BY <2>1, OneWayIn
  <1>6. /\ head' = IF p = head THEN heap[p].next ELSE head
        /\ tail' = IF p # tail THEN tail ELSE IF p = head THEN NULL ELSE heap[p].last
    BY DEF Unlink
  <1>7. LinksAreLive'
    <2>1. head' = NULL <=> tail' = NULL
      <3>1. tail # NULL /\ (p # head => heap[p].last # NULL)
        BY <1>3, <1>5, ListedProfiles, NullAssumption
      <3> QED
        BY <1>3, <1>6, <3>1
    <2>2. head' # NULL => head' \in Listed' /\ tail' \in Listed'
      BY <1>1, <1>3, <1>4, <1>5, <1>6
    <2>3. ASSUME NEW m \in Listed'
          PROVE  /\ m \in Live'
                 /\ heap'[m].next = NULL <=> m = tail'
                 /\ m # tail' => heap'[m].next \in Listed' /\ heap'[heap'[m].next].last = m
                 /\ m # head' => heap'[m].last \in Listed' /\ heap'[heap'[m].last].next = m
                 /\ heap'[m].next = NULL \/ heap'[m].next # head'
      <3>1. m \in Listed /\ m # p
        BY <1>1
      <3>2. heap[m].next = NULL <=> m = tail
        BY <3>1 DEF IInv, LinksAreLive
      <3>3. m # tail => heap[m].next \in Listed /\ heap[heap[m].next].last = m
                        /\ heap[m].next # head
        BY <3>1, <3>2 DEF IInv, LinksAreLive
      <3>4. m # head => heap[m].last \in Listed /\ heap[heap[m].last].next = m
        BY <3>1 DEF IInv, LinksAreLive
      <3>5. heap[m].next = p => p # head /\ m = heap[p].last
        BY <3>1, OneWayIn
      <3>6. heap'[m].next = NULL <=> m = tail'
        BY <1>2, <1>3, <1>4, <1>5, <1>6, <3>1, <3>2
      <3>7. m # tail' => heap'[m].next \in Listed' /\ heap'[heap'[m].next].last = m
        <4> SUFFICES ASSUME m # tail'
                     PROVE  heap'[m].next \in Listed' /\ heap'[heap'[m].next].last = m
          OBVIOUS
        <4>1. CASE p # head /\ m = heap[p].last
          <5>1. p # tail
            BY <1>6, <4>1
          <5> QED
            BY <1>1, <1>2, <1>4, <3>1, <4>1, <5>1
        <4>2. CASE ~(p # head /\ m = heap[p].last)
          <5>1. m # tail
            BY <1>3, <1>6, <3>1, <4>2
          <5>2. heap'[m].next = heap[m].next /\ heap[m].next \in Listed \ {p}
            BY <1>2, <3>1, <3>3, <3>5, <4>2, <5>1
          <5>3. heap[m].next # heap[p].next \/ p = tail
            BY <1>4, <3>1, <3>3, <5>1
          <5> QED
            BY <1>1, <1>2, <3>3, <5>1, <5>2, <5>3
        <4> QED
          BY <4>1, <4>2
      <3>8. m # head' => heap'[m].last \in Listed' /\ heap'[heap'[m].last].next = m
        <4> SUFFICES ASSUME m # head'
                     PROVE  heap'[m].last \in Listed' /\ heap'[heap'[m].last].next = m
          OBVIOUS
        <4>1. CASE p # head /\ p # tail /\ m = heap[p].next
          BY <1>1, <1>2, <1>5, <3>1, <4>1
        <4>2. CASE ~(p # head /\ p # tail /\ m = heap[p].next)
          <5>1. m # head
            BY <1>3, <1>6, <3>1, <4>2
          <5>2. heap'[m].last = heap[m].last
            BY <1>2, <3>1, <4>2
          <5>3. heap[m].last # p
            <6> SUFFICES ASSUME heap[m].last = p PROVE FALSE
              OBVIOUS
            <6>1. heap[p].next = m /\ m # NULL
              BY <1>2, <3>1, <3>4, <5>1
            <6> QED
              BY <1>3, <1>6, <4>2, <6>1
          <5>4. ~(p # head /\ heap[m].last = heap[p].last)
            BY <1>5, <3>1, <3>4, <5>1
          <5> QED
            BY <1>1, <1>2, <3>4, <5>1, <5>2, <5>3, <5>4
        <4> QED
          BY <4>1, <4>2
      <3>9. heap'[m].next = NULL \/ heap'[m].next # head'
        <4>1. CASE p # head
          BY <1>2, <1>3, <1>4, <1>6, <3>1, <3>2, <3>3, <4>1
        <4>2. CASE p = head
          BY <1>2, <1>3, <1>4, <1>6, <3>1, <3>2, <3>3, <4>2
        <4> QED
          BY <4>1, <4>2
      <3> QED
        BY <1>2, <3>1, <3>6, <3>7, <3>8, <3>9
    <2> QED
      BY <2>1, <2>2, <2>3 DEF LinksAreLive
  <1>8. OneProfilePerUser'
    BY <1>1, <1>2 DEF IInv, OneProfilePerUser
  <1> QED
    BY <1>1, <1>2, <1>7, <1>8 DEF IInv
-----------------------------------------------------------------------------
(* The steps that leave the list alone, or empty *)

\* What is not on the list may change without anyone on it noticing.
LEMMA AwayFromList ==
    ASSUME IInv, TypeOK', UNCHANGED <<head, tail>>,
           \A m \in Listed : heap'[m] = heap[m]
    PROVE  IInv' /\ Listed' = Listed
  <1>1. Listed \in SUBSET Addresses /\ Closed(heap, Listed) /\ (head # NULL => head \in Listed)
    BY ListedClosed DEF IInv
  <1>2. Listed' = Listed
    <2>1. CASE head = NULL
      BY <2>1 DEF Listed
    <2>2. CASE head # NULL
      <3>1. Listed' = Reach(heap', head) /\ head \in Addresses
        BY <2>2 DEF Listed, IInv, TypeOK, Pointer
      <3>2. Closed(heap', Listed)
        BY <1>1 DEF Closed
      <3>3. Listed' \subseteq Listed
        BY <1>1, <2>2, <3>1, <3>2, ReachLeast
      <3>4. \A m \in Addresses : heap'[m] # NULL => heap'[m].next \in Pointer
        BY DEF TypeOK, Profile
      <3>5. /\ head \in Listed' /\ Listed' \in SUBSET Addresses /\ Closed(heap', Listed')
        BY <3>1, <3>4, ReachClosed
      <3>6. Closed(heap, Listed')
        BY <3>3, <3>5 DEF Closed
      <3>7. Listed \subseteq Listed'
        BY <3>5, <3>6, ListedLeast
      <3> QED
        BY <3>3, <3>7
    <2> QED
      BY <2>1, <2>2
  <1>3. LinksAreLive'
    <2>1. ASSUME NEW m \in Listed
          PROVE  /\ m \in Live'
                 /\ heap'[m].next = NULL <=> m = tail'
                 /\ m # tail' => heap'[m].next \in Listed' /\ heap'[heap'[m].next].last = m
                 /\ m # head' => heap'[m].last \in Listed' /\ heap'[heap'[m].last].next = m
                 /\ heap'[m].next = NULL \/ heap'[m].next # head'
      BY <1>1, <1>2 DEF IInv, LinksAreLive, Live
    <2> QED
      BY <1>2, <2>1 DEF IInv, LinksAreLive
  <1>4. OneProfilePerUser'
    BY <1>2 DEF IInv, OneProfilePerUser
  <1> QED
    BY <1>2, <1>3, <1>4 DEF IInv

LEMMA AddLeaksKeepsIInv ==
    ASSUME IInv, NEW u \in Users, AddLeaks(u)
    PROVE  IInv' /\ Listed' = Listed /\ \A m \in Listed : heap'[m] = heap[m]
  <1>1. PICK n \in Addresses \ Live :
           heap' = [heap EXCEPT ![n] = [user |-> u, last |-> NULL, next |-> NULL]]
    BY DEF AddLeaks
  <1>2. TypeOK'
    <2>1. [user |-> u, last |-> NULL, next |-> NULL] \in Profile
      BY DEF Profile, Pointer
    <2> QED
      BY <1>1, <2>1 DEF IInv, TypeOK, AddLeaks
  <1>3. \A m \in Listed : heap'[m] = heap[m]
    BY <1>1 DEF IInv, TypeOK, LinksAreLive
  <1> QED
    BY <1>2, <1>3, AwayFromList DEF AddLeaks

LEMMA DeinitKeepsIInv ==
    ASSUME IInv, Deinit
    PROVE  IInv' /\ Listed' = {}
  <1>1. Listed' = {}
    BY DEF Listed, Deinit
  <1>2. TypeOK'
    BY DEF IInv, TypeOK, Deinit, Pointer
  <1> QED
    BY <1>1, <1>2 DEF IInv, LinksAreLive, OneProfilePerUser, Deinit
-----------------------------------------------------------------------------
LEMMA InitIInv == Init => IInv
  BY DEF Init, IInv, TypeOK, LinksAreLive, OneProfilePerUser, Listed, Pointer

LEMMA NextIInv == IInv /\ [Next]_vars => IInv'
  <1> SUFFICES ASSUME IInv, [Next]_vars PROVE IInv'
    OBVIOUS
  <1>1. CASE Deinit
    BY <1>1, DeinitKeepsIInv
  <1>2. CASE AddRefused
    <2>1. TypeOK'
      BY <1>2 DEF IInv, TypeOK, AddRefused
    <2> QED
      BY <1>2, <2>1, AwayFromList DEF AddRefused
  <1>3. ASSUME NEW u \in Users, Add(u) PROVE IInv'
    BY <1>3, AddKeepsIInv
  <1>4. ASSUME NEW u \in Users, AddLeaks(u) PROVE IInv'
    BY <1>4, AddLeaksKeepsIInv
  <1>5. ASSUME NEW u \in Users, Del(u) PROVE IInv'
    <2>1. CASE \E p \in Get(u) : Unlink(p) /\ err' = "ok"
      BY <2>1, DelKeepsIInv DEF Get
    <2>2. CASE err' = "error" /\ UNCHANGED <<heap, head, tail>>
      <3>1. TypeOK'
        BY <2>2 DEF IInv, TypeOK
      <3> QED
        BY <2>2, <3>1, AwayFromList
    <2> QED
      BY <1>5, <2>1, <2>2 DEF Del
  <1>6. CASE UNCHANGED vars
    <2>1. TypeOK'
      BY <1>6 DEF IInv, TypeOK, vars
    <2> QED
      BY <1>6, <2>1, AwayFromList DEF vars
  <1> QED
    BY <1>1, <1>2, <1>3, <1>4, <1>5, <1>6 DEF Next

\* The memory of the list, its ends and its links always have their types.
THEOREM ListTypeCorrect == Spec => []TypeOK
  <1>1. IInv => TypeOK
    BY DEF IInv
  <1> QED
    BY <1>1, InitIInv, NextIInv, PTL DEF Spec

\* However long the list is and however it came about, ctx.c never follows a link to a
\* profile that was freed.
THEOREM ListNeverDangles == Spec => []LinksAreLive
  <1>1. IInv => LinksAreLive
    BY DEF IInv
  <1> QED
    BY <1>1, InitIInv, NextIInv, PTL DEF Spec

\* No user is ever attached twice.
THEOREM ListHasUsersOnce == Spec => []OneProfilePerUser
  <1>1. IInv => OneProfilePerUser
    BY DEF IInv
  <1> QED
    BY <1>1, InitIInv, NextIInv, PTL DEF Spec
-----------------------------------------------------------------------------
(* The list implements the set of attached users *)

LEMMA InitSet == Init => Set!SetInit
  BY DEF Init, Set!SetInit, Listed

LEMMA AddIsJoin ==
    ASSUME IInv, NEW u \in Users, Add(u)
    PROVE  Set!Join(u)
  <1>1. PICK n \in Addresses : /\ Listed' = Listed \cup {n} /\ heap'[n].user = u
                               /\ \A m \in Listed : heap'[m].user = heap[m].user
    BY AddKeepsIInv
  <1>2. u \notin {heap[m].user : m \in Listed}
    BY DEF Add, Get
  <1>3. {heap'[m].user : m \in Listed'} = {heap[m].user : m \in Listed} \cup {u}
    BY <1>1
  <1> QED
    BY <1>2, <1>3 DEF Set!Join, Add

LEMMA UnlinkIsLeave ==
    ASSUME IInv, NEW u \in Users, NEW p \in Get(u), Unlink(p), err' = "ok"
    PROVE  Set!Leave(u)
  <1>1. p \in Listed /\ heap[p].user = u
    BY DEF Get
  <1>2. Listed' = Listed \ {p} /\ \A m \in Listed' : heap'[m].user = heap[m].user
    BY <1>1, DelKeepsIInv
  <1>3. \A m \in Listed : heap[m].user = u => m = p
    BY <1>1 DEF IInv, OneProfilePerUser
  <1>4. {heap'[m].user : m \in Listed'} = {heap[m].user : m \in Listed} \ {u}
    BY <1>1, <1>2, <1>3
  <1> QED
    BY <1>1, <1>4 DEF Set!Leave

\* An operation that leaves the list alone leaves the set alone.
LEMMA SameSet ==
    ASSUME Listed' = Listed, \A m \in Listed : heap'[m] = heap[m]
    PROVE  {heap'[m].user : m \in Listed'} = {heap[m].user : m \in Listed}
  OBVIOUS

LEMMA NextSet == IInv /\ [Next]_vars => [Set!SetNext]_(Set!setVars)
  <1> SUFFICES ASSUME IInv, [Next]_vars PROVE [Set!SetNext]_(Set!setVars)
    OBVIOUS
  <1>1. CASE Deinit
    <2>1. Listed' = {}
      BY <1>1, DeinitKeepsIInv
    <2> QED
      BY <1>1, <2>1 DEF Deinit, Set!SetNext, Set!Clear
  <1>2. CASE UNCHANGED <<heap, head, tail>> /\ err' = "error"
    <2>1. Listed' = Listed
      BY <1>2 DEF Listed
    <2> QED
      BY <1>2, <2>1, SameSet DEF Set!SetNext, Set!Fail
  <1>3. ASSUME NEW u \in Users, Add(u) PROVE Set!SetNext
    BY <1>3, AddIsJoin DEF Set!SetNext
  <1>4. ASSUME NEW u \in Users, AddLeaks(u) PROVE Set!SetNext
    <2>1. Listed' = Listed /\ \A m \in Listed : heap'[m] = heap[m]
      BY <1>4, AddLeaksKeepsIInv
    <2> QED
      BY <1>4, <2>1, SameSet DEF AddLeaks, Set!SetNext, Set!Fail
  <1>5. ASSUME NEW u \in Users, NEW p \in Get(u), Unlink(p), err' = "ok" PROVE Set!SetNext
    BY <1>5, UnlinkIsLeave DEF Set!SetNext
  <1>6. CASE UNCHANGED vars
    <2>1. Listed' = Listed /\ \A m \in Listed : heap'[m] = heap[m]
      BY <1>6 DEF vars, Listed
    <2> QED
      BY <1>6, <2>1, SameSet DEF vars, Set!setVars
  <1> QED
    BY <1>1, <1>2, <1>3, <1>4, <1>5, <1>6 DEF Next, Del, AddRefused

\* ctx.c implements a set of users: every operation does to the users on the list what
\* it says, and no other user comes or goes.
THEOREM ListIsSet == Spec => ImplementsSet
  BY InitSet, InitIInv, NextIInv, NextSet, PTL DEF Spec, ImplementsSet, Set!SetSpec
=============================================================================
