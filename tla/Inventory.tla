----------------------------- MODULE Inventory -----------------------------
(***************************************************************************)
(* Products, stock movements, purchase orders and goods receipts.          *)
(*                                                                         *)
(* Each session is one request of the Flask application and the database   *)
(* transaction it runs.  The variables hold the COMMITTED state: under     *)
(* READ COMMITTED no other session sees what a transaction has written     *)
(* before it commits, so a transaction's writes are kept in its tx record  *)
(* and applied by its commit step.  prodLock and orderLock are the row     *)
(* locks (SELECT ... FOR UPDATE and UPDATE) of products and                *)
(* purchase_orders.  A request reads before it opens the transaction (the  *)
(* services' pre-checks), so what it read may be stale by then.            *)
(***************************************************************************)
EXTENDS Integers, FiniteSets, FiniteSetsExt

CONSTANTS Products,    \* product ids
          Manual,      \* po_numbers typed by users
          Sessions,    \* concurrent requests
          Keys,        \* idempotency keys supplied by clients
          FreshKey,    \* the generated recv-<po>-<uuid> key: never seen before
          NoOne,       \* owner of a free row lock
          NoReceipt,   \* no goods_receipts row has this key
          Quantities,  \* quantities clients send
          Openings,    \* opening balances of new products
          Types,       \* movement types clients send
          CreatedAs,   \* statuses orders are created with
          MaxInt,      \* largest value of an INT4 column, scaled down
          MaxDay,      \* bound on calendar days; 0 switches the reorder routes off
          CriticalLevel \* stock_status is "critical" at or below this balance

ASSUME QuantitiesAssumption == Quantities \subseteq Nat \ {0}
ASSUME MaxIntAssumption == MaxInt \in Nat
ASSUME OpeningsAssumption == Openings \subseteq 0..MaxInt
ASSUME MaxDayAssumption == MaxDay \in Nat
ASSUME NoOneAssumption == NoOne \notin Sessions
ASSUME FreshKeyAssumption == FreshKey \notin Keys

VARIABLES prod,          \* lifecycle of each product row
          current_stock, \* products.current_stock
          on_order,      \* products.on_order
          ledger,        \* opening balance plus every movements row, signed
          order,         \* purchase_orders rows, by po_number (UNIQUE)
          receipts,      \* goods_receipts by idempotency_key: <<order, quantity>>
          applied,       \* history: how often a keyed receipt moved stock
          reordered,     \* history: products a reorder route wrote on_order of
          today,         \* the date that AUTO- po_numbers carry
          prodLock,      \* owner of the row lock of each product
          orderLock,     \* owner of the row lock of each purchase order
          tx             \* the request each session runs

rows  == <<prod, current_stock, on_order, ledger, order, receipts, applied,
           reordered, today>>
locks == <<prodLock, orderLock>>
vars  == <<rows, locks, tx>>

\* mark_ordered and auto_draft_pos number their orders AUTO-<date>-<sku>.
AutoNumbers == Products \X (1..MaxDay)
Orders      == Manual \cup AutoNumbers

ASSUME NoReceiptAssumption == NoReceipt \notin Orders \X Quantities

Statuses  == {"draft", "approved", "in_transit", "received", "cancelled"}
Open      == {"approved", "in_transit"}

ASSUME CreatedAsAssumption == CreatedAs \subseteq Statuses

\* The transitions sp_po_transition accepts.
ValidTransition(from, to) ==
  \/ from = "draft"      /\ to \in {"approved", "cancelled"}
  \/ from = "approved"   /\ to \in {"in_transit", "cancelled"}
  \/ from = "in_transit" /\ to \in {"received", "cancelled"}

ASSUME TypesAssumption == Types \subseteq {"IN", "OUT", "ADJUSTMENT", "RETURN"}
Delta(type, q) == IF type = "OUT" THEN -q ELSE q

Unused == [status |-> "none"]

Outstanding(o) == order[o].quantity - order[o].received

-----------------------------------------------------------------------------
(* Types *)

OrderRow == [status : Statuses, born : Statuses, product : Products,
             quantity : Quantities, received : Nat, deleted : BOOLEAN]

Idle == [pc |-> "idle"]

MoveTx    == [pc : {"move_lock", "move_commit"}, product : Products,
              delta : Int, seen : Int]
OrderTx   == [pc : {"po_begin", "po_receipt", "po_product", "po_commit"},
              order : Orders, to : Statuses, qty : Quantities \cup {0},
              key : Keys \cup {FreshKey}, byUser : BOOLEAN, seen : Int]
MarkTx    == [pc : {"mark"}, order : AutoNumbers, qty : Quantities]
AutoTx    == [pc : {"auto"}, todo : SUBSET Products]

TypeOK ==
  /\ prod \in [Products -> {"absent", "live", "deleted"}]
  /\ current_stock \in [Products -> Int]
  /\ on_order \in [Products -> Nat]
  /\ ledger \in [Products -> Int]
  /\ order \in [Orders -> OrderRow \cup {Unused}]
  /\ receipts \in [Keys -> (Orders \X Quantities) \cup {NoReceipt}]
  /\ applied \in [Keys -> Nat]
  /\ reordered \subseteq Products
  /\ today \in Nat \ {0}
  /\ prodLock \in [Products -> Sessions \cup {NoOne}]
  /\ orderLock \in [Orders -> Sessions \cup {NoOne}]
  /\ tx \in [Sessions -> MoveTx \cup OrderTx \cup MarkTx \cup AutoTx \cup {Idle}]

Init ==
  /\ prod = [p \in Products |-> "absent"]
  /\ current_stock = [p \in Products |-> 0]
  /\ on_order = [p \in Products |-> 0]
  /\ ledger = [p \in Products |-> 0]
  /\ order = [o \in Orders |-> Unused]
  /\ receipts = [k \in Keys |-> NoReceipt]
  /\ applied = [k \in Keys |-> 0]
  /\ reordered = {}
  /\ today = 1
  /\ prodLock = [p \in Products |-> NoOne]
  /\ orderLock = [o \in Orders |-> NoOne]
  /\ tx = [s \in Sessions |-> Idle]

-----------------------------------------------------------------------------
(* Sessions *)

Start(s, request) == /\ tx[s] = Idle
                     /\ tx' = [tx EXCEPT ![s] = request]

Step(s, pc) == tx' = [tx EXCEPT ![s].pc = pc]

ProductFree_Ignored(p) == p \in Products
OrderFree_Ignored(o)   == o \in Orders

\* Nobody holds the row's lock: FOR UPDATE and UPDATE go ahead.
ProductFree(p) == prodLock[p] = NoOne
OrderFree(o)   == orderLock[o] = NoOne

Finish_KeepsProductLock(s) ==
  /\ orderLock' = [o \in Orders |-> IF orderLock[o] = s THEN NoOne ELSE orderLock[o]]
  /\ tx' = [tx EXCEPT ![s] = Idle]
  /\ UNCHANGED prodLock

\* The end of a transaction, by COMMIT or ROLLBACK, frees its row locks.
Finish(s) ==
  /\ prodLock' = [p \in Products |-> IF prodLock[p] = s THEN NoOne ELSE prodLock[p]]
  /\ orderLock' = [o \in Orders |-> IF orderLock[o] = s THEN NoOne ELSE orderLock[o]]
  /\ tx' = [tx EXCEPT ![s] = Idle]

\* RAISE EXCEPTION, a constraint violation, a lost connection, a statement
\* timeout or a killed web worker: nothing of the transaction survives.
Rollback(s) == Finish(s) /\ UNCHANGED rows

Abort(s) == tx[s] # Idle /\ Rollback(s)

-----------------------------------------------------------------------------
(* Products *)

ProductCreate(p, n) ==
  /\ prod[p] = "absent"
  /\ prod' = [prod EXCEPT ![p] = "live"]
  /\ current_stock' = [current_stock EXCEPT ![p] = n]
  /\ ledger' = [ledger EXCEPT ![p] = n]
  /\ UNCHANGED <<on_order, order, receipts, applied, reordered, today, locks, tx>>

\* Soft delete: waits for the row lock, leaves stock and orders alone.
ProductDelete(p) ==
  /\ prod[p] = "live"
  /\ ProductFree(p)
  /\ prod' = [prod EXCEPT ![p] = "deleted"]
  /\ UNCHANGED <<current_stock, on_order, ledger, order, receipts, applied,
                 reordered, today, locks, tx>>

-----------------------------------------------------------------------------
(* Stock movements *)

\* MovementService.record up to the call of sp_movement_record: the product is
\* read and the balance checked without a lock.
MovementRequest(s, p, type, q) ==
  /\ prod[p] = "live"
  /\ current_stock[p] + Delta(type, q) >= 0
  /\ Start(s, [pc |-> "move_lock", product |-> p, delta |-> Delta(type, q), seen |-> 0])
  /\ UNCHANGED <<rows, locks>>

MovementAccepts_TrustsPrecheck(s) == prod[tx[s].product] = "live"

\* The guards of sp_movement_record.  A balance above MaxInt is PostgreSQL's
\* "integer out of range".
MovementAccepts(s) ==
  LET p == tx[s].product IN
  /\ prod[p] = "live"
  /\ current_stock[p] + tx[s].delta \in 0..MaxInt

\* SELECT ... FOR UPDATE of the product in sp_movement_record.
MovementLock(s) ==
  LET p == tx[s].product IN
  /\ tx[s].pc = "move_lock"
  /\ ProductFree(p)
  /\ \/ /\ MovementAccepts(s)
        /\ prodLock' = [prodLock EXCEPT ![p] = s]
        /\ tx' = [tx EXCEPT ![s].pc = "move_commit", ![s].seen = current_stock[p]]
        /\ UNCHANGED <<rows, orderLock>>
     \/ /\ ~MovementAccepts(s)
        /\ Rollback(s)

\* INSERT INTO movements, the absolute write of the balance read under the
\* lock plus the delta, COMMIT.
MovementCommit(s) ==
  LET p == tx[s].product IN
  /\ tx[s].pc = "move_commit"
  /\ current_stock' = [current_stock EXCEPT ![p] = tx[s].seen + tx[s].delta]
  /\ ledger' = [ledger EXCEPT ![p] = @ + tx[s].delta]
  /\ Finish(s)
  /\ UNCHANGED <<prod, on_order, order, receipts, applied, reordered, today>>

-----------------------------------------------------------------------------
(* Purchase orders *)

NewRow(status, p, q) ==
  [status |-> status, born |-> status, product |-> p, quantity |-> q,
   received |-> 0, deleted |-> FALSE]

\* sp_po_create, from the board (draft, approved) or the API (any status).  The
\* product's row must exist (foreign key) but may be soft-deleted.
PoCreate(o, p, q, status) ==
  /\ order[o] = Unused
  /\ prod[p] # "absent"
  /\ order' = [order EXCEPT ![o] = NewRow(status, p, q)]
  /\ \/ /\ status \in Open
        /\ ProductFree(p)
        /\ on_order[p] + q <= MaxInt
        /\ on_order' = [on_order EXCEPT ![p] = @ + q]
     \/ /\ status \notin Open
        /\ UNCHANGED on_order
  /\ UNCHANGED <<prod, current_stock, ledger, receipts, applied, reordered,
                 today, locks, tx>>

\* update_po_status: no pre-check, sp_po_transition is called with two
\* arguments.  qty 0 stands for p_received_quantity NULL.
TransitionRequest(s, o, to) ==
  /\ order[o] # Unused
  /\ Start(s, [pc |-> "po_begin", order |-> o, to |-> to, qty |-> 0,
               key |-> FreshKey, byUser |-> FALSE, seen |-> 0])
  /\ UNCHANGED <<rows, locks>>

\* receive_po and POService.receive: status and outstanding quantity are checked
\* on an unlocked read, then sp_po_transition is called with the key.
ReceiveRequest(s, o, q, k) ==
  /\ order[o] # Unused
  /\ ~order[o].deleted
  /\ order[o].status = "in_transit"
  /\ q <= Outstanding(o)
  /\ Start(s, [pc |-> "po_begin", order |-> o, to |-> "received", qty |-> q,
               key |-> k, byUser |-> TRUE, seen |-> 0])
  /\ UNCHANGED <<rows, locks>>

\* v_receive_qty := COALESCE(p_received_quantity, po.quantity)
ReceiveQty(s) == IF tx[s].qty = 0 THEN order[tx[s].order].quantity ELSE tx[s].qty

PoAccepts_TrustsPrecheck(s) ==
  /\ ~order[tx[s].order].deleted
  /\ ValidTransition(order[tx[s].order].status, tx[s].to)

\* The checks of sp_po_transition on the locked row.
PoAccepts(s) ==
  LET po == order[tx[s].order] IN
  /\ ~po.deleted
  /\ ValidTransition(po.status, tx[s].to)
  /\ tx[s].to = "received" => ReceiveQty(s) <= Outstanding(tx[s].order)

TouchesProduct_NotInTransit(s) ==
  \/ tx[s].to \in {"approved", "received"}
  \/ tx[s].to = "cancelled" /\ order[tx[s].order].status = "approved"

\* Does the transition write the product's row?
TouchesProduct(s) ==
  \/ tx[s].to \in {"approved", "received"}
  \/ tx[s].to = "cancelled" /\ order[tx[s].order].status \in Open

\* SELECT ... FOR UPDATE of the order.  A transition to the current status
\* returns without effect, like the transitions that raise.
PoBegin(s) ==
  LET o == tx[s].order IN
  /\ tx[s].pc = "po_begin"
  /\ OrderFree(o)
  /\ \/ /\ PoAccepts(s)
        /\ orderLock' = [orderLock EXCEPT ![o] = s]
        /\ Step(s, IF tx[s].to = "received" /\ tx[s].byUser THEN "po_receipt"
                   ELSE IF TouchesProduct(s) THEN "po_product" ELSE "po_commit")
        /\ UNCHANGED <<rows, prodLock>>
     \/ /\ ~PoAccepts(s)
        /\ Rollback(s)

KeyInFlight_Ignored(s, k) == FALSE

\* Another transaction has inserted key k and has not ended yet.
KeyInFlight(s, k) ==
  \E r \in Sessions \ {s} :
    /\ tx[r].pc \in {"po_product", "po_commit"}
    /\ tx[r].byUser
    /\ tx[r].key = k
    /\ k # FreshKey

KeyUnused(k) == k \in Keys => receipts[k] = NoReceipt

\* sp_goods_receipt_create: INSERT ... ON CONFLICT DO NOTHING waits for an
\* uncommitted row with the same key.  A key that is taken ends the call: a
\* replay (same order and quantity) returns, anything else raises.
PoReceipt(s) ==
  LET k == tx[s].key IN
  /\ tx[s].pc = "po_receipt"
  /\ ~KeyInFlight(s, k)
  /\ \/ /\ KeyUnused(k)
        /\ Step(s, "po_product")
        /\ UNCHANGED <<rows, locks>>
     \/ /\ ~KeyUnused(k)
        /\ Rollback(s)

\* Can the product's row take the effect of the transition?  Receiving goes
\* through sp_movement_record, which refuses a deleted product.
ProductAccepts(s) ==
  LET po == order[tx[s].order]
      p  == po.product
  IN  /\ tx[s].to = "approved" => on_order[p] + po.quantity <= MaxInt
      /\ tx[s].to = "received" => /\ prod[p] = "live"
                                  /\ current_stock[p] + ReceiveQty(s) <= MaxInt

\* The product's row lock, taken while the order's is held.
PoProduct(s) ==
  LET p == order[tx[s].order].product IN
  /\ tx[s].pc = "po_product"
  /\ ProductFree(p)
  /\ \/ /\ ProductAccepts(s)
        /\ prodLock' = [prodLock EXCEPT ![p] = s]
        /\ tx' = [tx EXCEPT ![s].pc = "po_commit", ![s].seen = current_stock[p]]
        /\ UNCHANGED <<rows, orderLock>>
     \/ /\ ~ProductAccepts(s)
        /\ Rollback(s)

\* GREATEST(on_order - n, 0)
Released(n, p) == IF on_order[p] > n THEN on_order[p] - n ELSE 0

Completes_OffByOne(o, q) == order[o].received + q > order[o].quantity

\* Is the order fully received once q more arrive?
Completes(o, q) == order[o].received + q >= order[o].quantity

\* COMMIT of a receipt: the order's received quantity and status, the movement,
\* the stock, on_order and the goods_receipts row.
CommitReceive(s) ==
  LET o    == tx[s].order
      p    == order[o].product
      q    == ReceiveQty(s)
  IN  /\ order' = [order EXCEPT ![o].received = @ + q,
                                ![o].status = IF Completes(o, q) THEN "received" ELSE "in_transit"]
      /\ current_stock' = [current_stock EXCEPT ![p] = tx[s].seen + q]
      /\ ledger' = [ledger EXCEPT ![p] = @ + q]
      /\ on_order' = [on_order EXCEPT ![p] = Released(q, p)]
      /\ \/ /\ tx[s].key \in Keys
            /\ receipts' = [receipts EXCEPT ![tx[s].key] = <<o, q>>]
            /\ applied' = [applied EXCEPT ![tx[s].key] = @ + 1]
         \/ /\ tx[s].key \notin Keys
            /\ UNCHANGED <<receipts, applied>>
      /\ UNCHANGED <<prod, reordered, today>>

\* COMMIT of any other transition: the status and its effect on on_order.
CommitStatus(s) ==
  LET o == tx[s].order
      p == order[o].product
  IN  /\ order' = [order EXCEPT ![o].status = tx[s].to]
      /\ on_order' = [on_order EXCEPT ![p] =
           CASE tx[s].to = "approved"  -> @ + order[o].quantity
             [] TouchesProduct(s) /\ tx[s].to = "cancelled"
                                       -> Released(Outstanding(o), p)
             [] OTHER                  -> @]
      /\ UNCHANGED <<prod, current_stock, ledger, receipts, applied, reordered, today>>

PoCommit(s) ==
  /\ tx[s].pc = "po_commit"
  /\ \/ tx[s].to = "received" /\ CommitReceive(s)
     \/ tx[s].to # "received" /\ CommitStatus(s)
  /\ Finish(s)

\* sp_po_soft_delete: hides the row, leaves on_order alone.
PoSoftDelete(o) ==
  /\ order[o] # Unused
  /\ ~order[o].deleted
  /\ OrderFree(o)
  /\ order' = [order EXCEPT ![o].deleted = TRUE]
  /\ UNCHANGED <<prod, current_stock, on_order, ledger, receipts, applied,
                 reordered, today, locks, tx>>

-----------------------------------------------------------------------------
(* Reorder routes: a draft order and an absolute write of on_order *)

Insertable_NoCheck(o, q) == order[o] = Unused

\* UNIQUE (po_number) and CHECK (quantity > 0) of purchase_orders.
Insertable(o, q) == order[o] = Unused /\ q > 0

\* One transaction: sp_po_create of a draft, then sp_product_set_on_order.
DraftAndSetOnOrder(o, q) ==
  LET p == o[1] IN
  /\ order' = [order EXCEPT ![o] = NewRow("draft", p, q)]
  /\ on_order' = [on_order EXCEPT ![p] = q]
  /\ reordered' = reordered \cup {p}
  /\ UNCHANGED <<prod, current_stock, ledger, receipts, applied, today>>

\* mark_ordered reads the product, computes the quantity (EOQ or deficit) and
\* the number ...
MarkRequest(s, p, q) ==
  /\ today <= MaxDay
  /\ prod[p] = "live"
  /\ Start(s, [pc |-> "mark", order |-> <<p, today>>, qty |-> q])
  /\ UNCHANGED <<rows, locks>>

\* ... then writes.  A number that is taken is a unique violation.
MarkCommit(s) ==
  LET o == tx[s].order IN
  /\ tx[s].pc = "mark"
  /\ ProductFree(o[1])
  /\ \/ /\ Insertable(o, tx[s].qty)
        /\ DraftAndSetOnOrder(o, tx[s].qty)
        /\ Finish(s)
     \/ /\ ~Insertable(o, tx[s].qty)
        /\ Rollback(s)

\* low_stock filtered to the critical products, and the loop's own re-check of
\* on_order: both look at the same read.
Critical == {p \in Products : /\ prod[p] = "live"
                              /\ current_stock[p] <= CriticalLevel
                              /\ on_order[p] = 0}

AutoRequest(s) ==
  /\ today <= MaxDay
  /\ Critical # {}
  /\ Start(s, [pc |-> "auto", todo |-> Critical])
  /\ UNCHANGED <<rows, locks>>

\* One product of the loop, a transaction of its own.  The quantity may be
\* capped to 0 (half a year's demand rounded), which CHECK (quantity > 0)
\* refuses; that error and a taken number both escape the POError handler, so
\* they end the request and leave the remaining products undrafted.
AutoStep(s, p, q) ==
  /\ tx[s].pc = "auto"
  /\ today <= MaxDay
  /\ p \in tx[s].todo
  /\ ProductFree(p)
  /\ \/ /\ Insertable(<<p, today>>, q)
        /\ DraftAndSetOnOrder(<<p, today>>, q)
        /\ tx' = [tx EXCEPT ![s] = IF tx[s].todo = {p} THEN Idle
                                   ELSE [pc |-> "auto", todo |-> tx[s].todo \ {p}]]
        /\ UNCHANGED locks
     \/ /\ ~Insertable(<<p, today>>, q)
        /\ Rollback(s)

\* Midnight.
NextDay ==
  /\ today < MaxDay
  /\ today' = today + 1
  /\ UNCHANGED <<prod, current_stock, on_order, ledger, order, receipts,
                 applied, reordered, locks, tx>>

-----------------------------------------------------------------------------
(* Specification *)

Request(s) ==
  \/ \E p \in Products, type \in Types, q \in Quantities :
        MovementRequest(s, p, type, q)
  \/ \E o \in Orders, to \in Statuses : TransitionRequest(s, o, to)
  \/ \E o \in Orders, q \in Quantities, k \in Keys \cup {FreshKey} :
        ReceiveRequest(s, o, q, k)
  \/ \E p \in Products, q \in Quantities : MarkRequest(s, p, q)
  \/ AutoRequest(s)

\* The next step of a request that is under way.
Advance(s) ==
  \/ MovementLock(s) \/ MovementCommit(s)
  \/ PoBegin(s) \/ PoReceipt(s) \/ PoProduct(s) \/ PoCommit(s)
  \/ MarkCommit(s)
  \/ \E p \in Products, q \in Quantities \cup {0} : AutoStep(s, p, q)

\* Requests that take one step.
Single ==
  \/ \E p \in Products : ProductDelete(p) \/ \E n \in Openings : ProductCreate(p, n)
  \/ \E o \in Manual, p \in Products, q \in Quantities, status \in CreatedAs :
        PoCreate(o, p, q, status)
  \/ \E o \in Orders : PoSoftDelete(o)
  \/ NextDay

Next == Single \/ \E s \in Sessions : Request(s) \/ Advance(s) \/ Abort(s)

Spec == Init /\ [][Next]_vars

\* A request's thread keeps running, and PostgreSQL queues the waiters of a row
\* lock in arrival order, so a request that can step again and again does.
FairSpec == Spec /\ \A s \in Sessions : SF_vars(Advance(s))

-----------------------------------------------------------------------------
(* Properties *)

StockHeld(s, p, d) == /\ prodLock[p] = s
                      /\ prod[p] = "live"
                      /\ tx[s].seen = current_stock[p]
                      /\ current_stock[p] + d \in 0..MaxInt

Checked(s) ==
  /\ tx[s].pc \in {"po_begin", "po_receipt", "po_product", "po_commit"} =>
       order[tx[s].order] # Unused
  /\ tx[s].pc = "move_commit" => StockHeld(s, tx[s].product, tx[s].delta)
  /\ tx[s].pc \in {"po_receipt", "po_product", "po_commit"} =>
       orderLock[tx[s].order] = s /\ PoAccepts(s)
  /\ tx[s].pc = "po_commit" /\ tx[s].to = "received" =>
       StockHeld(s, order[tx[s].order].product, ReceiveQty(s))

\* What a transaction checked under a row lock is still true when it commits:
\* sp_movement_record and sp_po_transition write from values they read earlier,
\* so nothing may change those rows in between.
ChecksStillHold == \A s \in Sessions : Checked(s)

\* No lost update: the balance that sp_movement_record and sp_po_transition
\* write as an absolute value always equals the opening balance plus every
\* movement, whatever sessions interleave with the pre-checks.
StockMatchesLedger == \A p \in Products : current_stock[p] = ledger[p]

\* "OUT" requests that each passed the unlocked pre-check of
\* MovementService.record never overdraw the product together, and no balance
\* overflows its column.
StockInRange == \A p \in Products : current_stock[p] \in 0..MaxInt

\* Concurrent and repeated receipts, whose pre-checks all saw the same
\* outstanding quantity, never receive more than was ordered.
NeverOverReceived ==
  \A o \in Orders : order[o] # Unused => order[o].received <= order[o].quantity

\* An order that went through receiving is "received" exactly when all of it
\* arrived: partial receipts leave it in_transit and the last one closes it.
\* (The API can create an order as "received" without any receipt.)
ReceivedMeansComplete ==
  \A o \in Orders :
    order[o] # Unused /\ order[o].born # "received" =>
      (order[o].status = "received" <=> order[o].received = order[o].quantity)

\* A client's idempotency key moves stock at most once, however its requests
\* are repeated or overlap, and has a goods_receipts row exactly when it did.
KeyAppliedOnce ==
  \A k \in Keys : applied[k] = (IF receipts[k] = NoReceipt THEN 0 ELSE 1)

OpenOrders(p) == {o \in Orders : /\ order[o] # Unused
                                 /\ order[o].product = p
                                 /\ order[o].status \in Open}

OnOrderMatches(p) == on_order[p] = MapThenSumSet(Outstanding, OpenOrders(p))

\* The on_order contract of sp_po_transition: on_order counts what is still
\* outstanding on approved and in_transit orders, soft-deleted ones included,
\* for every product whose on_order no reorder route has overwritten.
OnOrderContract == \A p \in Products \ reordered : OnOrderMatches(p)

\* The contract as the comments of procedures.sql state it, for every product.
OnOrderCountsOpenOrders == \A p \in Products : OnOrderMatches(p)

Blocked(s) ==
  \/ tx[s].pc = "move_lock"  /\ ~ProductFree(tx[s].product)
  \/ tx[s].pc = "po_begin"   /\ ~OrderFree(tx[s].order)
  \/ tx[s].pc = "po_receipt" /\ KeyInFlight(s, tx[s].key)
  \/ tx[s].pc = "po_product" /\ ~ProductFree(order[tx[s].order].product)
  \/ tx[s].pc = "mark"       /\ ~ProductFree(tx[s].order[1])
  \/ tx[s].pc = "auto"       /\ \A p \in tx[s].todo : ~ProductFree(p)

\* The order row, the receipt key and the product row are always taken in this
\* order, so the requests under way never all wait for each other.
NoDeadlock ==
  (\E s \in Sessions : tx[s] # Idle) => \E s \in Sessions : tx[s] # Idle /\ ~Blocked(s)

\* received and cancelled are terminal: whatever requests were under way when
\* an order got there, only its soft delete can still change the row.
TerminalOrdersFrozen ==
  [][\A o \in Orders :
       order[o] # Unused /\ order[o].status \in {"received", "cancelled"} =>
         order'[o] = [order[o] EXCEPT !.deleted = order'[o].deleted]]_vars

Ledger == INSTANCE StockLedger WITH state <- prod, stock <- current_stock

\* Movements and receipts implement atomic postings to a ledger; in particular
\* no request that passed its pre-check before the product was soft-deleted
\* changes the product's stock afterwards.
ImplementsStockLedger == Ledger!Spec

\* Every request that starts also ends, whatever locks it has to wait for.
RequestsEnd == \A s \in Sessions : tx[s] # Idle ~> tx[s] = Idle
=============================================================================
