---------------------------- MODULE ClientPageMC ----------------------------
(***************************************************************************)
(* ClientPage for TLC with one attempt: what becomes of its handoff.       *)
(***************************************************************************)
EXTENDS ClientPage

CONSTANTS t1, s1, s2
=============================================================================
