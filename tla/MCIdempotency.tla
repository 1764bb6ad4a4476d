--------------------------- MODULE MCIdempotency ---------------------------
(* Model values for TLC. *)
EXTENDS Idempotency, TLC

CONSTANTS k1, r1, r2, r3
=============================================================================
