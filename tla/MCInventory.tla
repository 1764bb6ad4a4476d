---------------------------- MODULE MCInventory ----------------------------
(* Model values for TLC. *)
EXTENDS Inventory, TLC

CONSTANTS p1, p2, po1, po2, k1, k2, s1, s2, s3

\* Requests are interchangeable, and so are products, order numbers and keys.
Symmetry == Permutations(Sessions) \cup Permutations(Manual)
            \cup Permutations(Products) \cup Permutations(Keys)
=============================================================================
