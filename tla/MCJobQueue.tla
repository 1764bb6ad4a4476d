----------------------------- MODULE MCJobQueue -----------------------------
(* Model values for TLC. *)
EXTENDS JobQueue, TLC

CONSTANTS j1, j2, w1, w2
=============================================================================
