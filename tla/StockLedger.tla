---------------------------- MODULE StockLedger ----------------------------
(***************************************************************************)
(* What the inventory promises about stock, with no sessions, locks or     *)
(* transactions: a product is created with an opening balance, its balance *)
(* changes only by posting a signed movement while the product is live,    *)
(* the balance never leaves 0..MaxInt, and nothing is posted to a product  *)
(* after it was soft-deleted.  Inventory is shown to implement this.       *)
(***************************************************************************)
EXTENDS Integers

CONSTANTS Products, \* product ids
          MaxInt    \* largest value of an INT4 column, scaled down

VARIABLES state,    \* products.deleted_at: "absent", "live" or "deleted"
          stock,    \* products.current_stock
          ledger    \* opening balance plus the signed movements

vars == <<state, stock, ledger>>

Init == /\ state = [p \in Products |-> "absent"]
        /\ stock = [p \in Products |-> 0]
        /\ ledger = [p \in Products |-> 0]

Create(p) ==
  \E n \in 0..MaxInt :
    /\ state[p] = "absent"
    /\ state' = [state EXCEPT ![p] = "live"]
    /\ stock' = [stock EXCEPT ![p] = n]
    /\ ledger' = [ledger EXCEPT ![p] = n]

Post(p) ==
  \E d \in -MaxInt..MaxInt :
    /\ state[p] = "live"
    /\ stock[p] + d \in 0..MaxInt
    /\ stock' = [stock EXCEPT ![p] = @ + d]
    /\ ledger' = [ledger EXCEPT ![p] = @ + d]
    /\ UNCHANGED state

Delete(p) ==
  /\ state[p] = "live"
  /\ state' = [state EXCEPT ![p] = "deleted"]
  /\ UNCHANGED <<stock, ledger>>

Next == \E p \in Products : Create(p) \/ Post(p) \/ Delete(p)

Spec == Init /\ [][Next]_vars
=============================================================================
