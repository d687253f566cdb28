---------------------------- MODULE MCProfileList ----------------------------
(* Four addresses and four users: every position in a list of four. *)
EXTENDS ProfileList, TLC

CONSTANTS n1, n2, n3, n4, u1, u2, u3, u4

AnyUserAnywhere == Permutations({n1, n2, n3, n4}) \cup Permutations({u1, u2, u3, u4})
=============================================================================
