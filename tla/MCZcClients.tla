----------------------------- MODULE MCZcClients -----------------------------
(* A few commands of one user at the same time. *)
EXTENDS ZcClients

CONSTANTS c1, c2, a1
=============================================================================
