----------------------------- MODULE MCTTLCache -----------------------------
(* Workloads and model values for TLC. *)
EXTENDS TTLCache, TLC

CONSTANTS t1, t2, t3

Symmetry == Permutations(Threads)

\* Every view by itself, and two that one bust drops in separate calls.
AllWorkloads == {{e} : e \in DOMAIN Views} \cup {{"inventory", "reorder_count"}}

\* GET /products/<id>.
ProductAnswer == {{"api_product"}}
=============================================================================
