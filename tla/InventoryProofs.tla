-------------------------- MODULE InventoryProofs --------------------------
(***************************************************************************)
(* Theorems about Inventory, for any number of products, orders, sessions, *)
(* keys and quantities.                                                    *)
(***************************************************************************)
EXTENDS Inventory, FiniteSetTheorems, WellFoundedInduction, TLAPS

\* Every session's record is of the kind its pc says.
LEMMA TxKind ==
  ASSUME TypeOK, NEW s \in Sessions
  PROVE  /\ tx[s].pc \in {"move_lock", "move_commit"} => tx[s] \in MoveTx
         /\ tx[s].pc \in {"po_begin", "po_receipt", "po_product", "po_commit"} => tx[s] \in OrderTx
         /\ tx[s].pc = "mark" => tx[s] \in MarkTx
         /\ tx[s].pc = "auto" => tx[s] \in AutoTx
         /\ tx[s] # Idle => tx[s].pc # "idle"
BY DEF TypeOK, MoveTx, OrderTx, MarkTx, AutoTx, Idle

\* A row in use is a full row.
LEMMA OrderKind ==
  ASSUME TypeOK, NEW o \in Orders, order[o] # Unused
  PROVE  order[o] \in OrderRow
BY DEF TypeOK

-----------------------------------------------------------------------------
(* Type correctness.  It needs the first part of ChecksStillHold: a row that *)
(* a session works on exists.                                                *)

LEMMA FinishType ==
  ASSUME TypeOK, NEW s \in Sessions, Finish(s)
  PROVE  /\ prodLock' \in [Products -> Sessions \cup {NoOne}]
         /\ orderLock' \in [Orders -> Sessions \cup {NoOne}]
         /\ tx' \in [Sessions -> MoveTx \cup OrderTx \cup MarkTx \cup AutoTx \cup {Idle}]
BY DEF Finish, TypeOK

LEMMA RollbackType ==
  ASSUME TypeOK, NEW s \in Sessions, Rollback(s)
  PROVE  TypeOK'
BY FinishType DEF Rollback, TypeOK, rows

LEMMA StepType ==
  ASSUME TypeOK, NEW s \in Sessions, tx[s] \in OrderTx,
         NEW pc \in {"po_receipt", "po_product", "po_commit"}, Step(s, pc)
  PROVE  tx' \in [Sessions -> MoveTx \cup OrderTx \cup MarkTx \cup AutoTx \cup {Idle}]
<1>1. [tx[s] EXCEPT !.pc = pc] \in OrderTx
  BY DEF OrderTx
<1>2. QED
  BY <1>1 DEF Step, TypeOK

LEMMA StartType ==
  ASSUME TypeOK, NEW s \in Sessions, NEW request,
         request \in MoveTx \cup OrderTx \cup MarkTx \cup AutoTx,
         Start(s, request), UNCHANGED <<rows, locks>>
  PROVE  TypeOK'
BY DEF Start, TypeOK, rows, locks

LEMMA RequestType ==
  ASSUME TypeOK, NEW s \in Sessions, Request(s)
  PROVE  TypeOK'
<1>1. ASSUME NEW p \in Products, NEW type \in Types, NEW q \in Quantities,
             MovementRequest(s, p, type, q)
      PROVE  TypeOK'
  <2>1. [pc |-> "move_lock", product |-> p, delta |-> Delta(type, q), seen |-> 0] \in MoveTx
    BY QuantitiesAssumption DEF MoveTx, Delta
  <2>2. QED
    BY <1>1, <2>1, StartType DEF MovementRequest
<1>2. ASSUME NEW o \in Orders, NEW to \in Statuses, TransitionRequest(s, o, to)
      PROVE  TypeOK'
  <2>1. [pc |-> "po_begin", order |-> o, to |-> to, qty |-> 0,
         key |-> FreshKey, byUser |-> FALSE, seen |-> 0] \in OrderTx
    BY DEF OrderTx
  <2>2. QED
    BY <1>2, <2>1, StartType DEF TransitionRequest
<1>3. ASSUME NEW o \in Orders, NEW q \in Quantities, NEW k \in Keys \cup {FreshKey},
             ReceiveRequest(s, o, q, k)
      PROVE  TypeOK'
  <2>1. [pc |-> "po_begin", order |-> o, to |-> "received", qty |-> q,
         key |-> k, byUser |-> TRUE, seen |-> 0] \in OrderTx
    BY DEF OrderTx, Statuses
  <2>2. QED
    BY <1>3, <2>1, StartType DEF ReceiveRequest
<1>4. ASSUME NEW p \in Products, NEW q \in Quantities, MarkRequest(s, p, q)
      PROVE  TypeOK'
  <2>1. today \in 1..MaxDay
    BY <1>4, MaxDayAssumption DEF MarkRequest, TypeOK
  <2>2. [pc |-> "mark", order |-> <<p, today>>, qty |-> q] \in MarkTx
    BY <2>1 DEF MarkTx, AutoNumbers
  <2>3. QED
    BY <1>4, <2>2, StartType DEF MarkRequest
<1>5. ASSUME AutoRequest(s)
      PROVE  TypeOK'
  <2>1. [pc |-> "auto", todo |-> Critical] \in AutoTx
    BY DEF AutoTx, Critical
  <2>2. QED
    BY <1>5, <2>1, StartType DEF AutoRequest
<1>6. QED
  BY <1>1, <1>2, <1>3, <1>4, <1>5 DEF Request

\* A new status and received quantity make a full row again.
LEMMA RowUpdateType ==
  ASSUME NEW row \in OrderRow, NEW n \in Nat, NEW status \in Statuses
  PROVE  [row EXCEPT !.received = n, !.status = status] \in OrderRow
BY DEF OrderRow

\* What PoCommit writes to the order's row is again a full row.
LEMMA CommitOrderType ==
  ASSUME TypeOK, NEW s \in Sessions, tx[s] \in OrderTx, order[tx[s].order] # Unused,
         CommitReceive(s) \/ CommitStatus(s)
  PROVE  order' \in [Orders -> OrderRow \cup {Unused}]
<1> DEFINE o == tx[s].order
<1>1. o \in Orders /\ order[o] \in OrderRow /\ tx[s].to \in Statuses
  BY OrderKind DEF OrderTx
<1>2. ReceiveQty(s) \in Nat \ {0}
  BY <1>1, QuantitiesAssumption DEF ReceiveQty, OrderTx, OrderRow
<1>3. CASE CommitReceive(s)
  <2>1. [order[o] EXCEPT !.received = @ + ReceiveQty(s),
                         !.status = IF Completes(o, ReceiveQty(s)) THEN "received" ELSE "in_transit"]
          \in OrderRow
    <3>1. (IF Completes(o, ReceiveQty(s)) THEN "received" ELSE "in_transit") \in Statuses
      BY DEF Statuses
    <3>2. order[o].received + ReceiveQty(s) \in Nat
      BY <1>1, <1>2 DEF OrderRow
    <3>3. QED
      BY <1>1, <3>1, <3>2, RowUpdateType
  <2> DEFINE new == [order[o] EXCEPT !.received = @ + ReceiveQty(s),
                       !.status = IF Completes(o, ReceiveQty(s)) THEN "received" ELSE "in_transit"]
  <2>2. order' = [order EXCEPT ![o] = new]
    BY <1>3 DEF CommitReceive
  <2>3. new \in OrderRow
    BY <2>1
  <2> HIDE DEF new
  <2>4. QED
    BY <1>1, <2>2, <2>3 DEF TypeOK
<1>4. CASE CommitStatus(s)
  <2>1. [order[o] EXCEPT !.status = tx[s].to] \in OrderRow
    BY <1>1 DEF OrderRow
  <2>2. QED
    BY <1>1, <1>4, <2>1 DEF CommitStatus, TypeOK
<1>5. QED
  BY <1>3, <1>4

LEMMA CommitReceiveType ==
  ASSUME TypeOK, NEW s \in Sessions, tx[s] \in OrderTx, order[tx[s].order] # Unused,
         CommitReceive(s), Finish(s)
  PROVE  TypeOK'
<1> DEFINE o == tx[s].order
           p == order[o].product
           q == ReceiveQty(s)
<1>1. /\ o \in Orders /\ p \in Products /\ tx[s].seen \in Int
      /\ order[o].quantity \in Quantities
  BY OrderKind DEF OrderTx, OrderRow
<1>2. q \in Quantities /\ q \in Nat
  BY <1>1, QuantitiesAssumption DEF ReceiveQty, OrderTx
<1>3. order' \in [Orders -> OrderRow \cup {Unused}]
  BY CommitOrderType
<1>4. /\ current_stock' \in [Products -> Int]
      /\ ledger' \in [Products -> Int]
  BY <1>1, <1>2 DEF CommitReceive, TypeOK
<1>5. Released(q, p) \in Nat
  BY <1>1, <1>2 DEF Released, TypeOK
<1>6. on_order' \in [Products -> Nat]
  BY <1>1, <1>5 DEF CommitReceive, TypeOK
<1>7. /\ receipts' \in [Keys -> (Orders \X Quantities) \cup {NoReceipt}]
      /\ applied' \in [Keys -> Nat]
  <2>1. <<o, q>> \in Orders \X Quantities
    BY <1>1, <1>2
  <2>2. CASE tx[s].key \in Keys
    <3>1. /\ receipts' = [receipts EXCEPT ![tx[s].key] = <<o, q>>]
          /\ applied' = [applied EXCEPT ![tx[s].key] = @ + 1]
      BY <2>2 DEF CommitReceive
    <3> HIDE DEF o, q
    <3>2. QED
      BY <2>1, <2>2, <3>1 DEF TypeOK
  <2>3. CASE tx[s].key \notin Keys
    BY <2>3 DEF CommitReceive, TypeOK
  <2>4. QED
    BY <2>2, <2>3
<1>8. QED
  BY <1>3, <1>4, <1>6, <1>7, FinishType DEF CommitReceive, TypeOK

LEMMA CommitStatusType ==
  ASSUME TypeOK, NEW s \in Sessions, tx[s] \in OrderTx, order[tx[s].order] # Unused,
         CommitStatus(s), Finish(s), NeverOverReceived
  PROVE  TypeOK'
<1> DEFINE o == tx[s].order
           p == order[o].product
<1>1. /\ o \in Orders /\ p \in Products
      /\ order[o].quantity \in Nat /\ order[o].received \in Nat
  BY OrderKind, QuantitiesAssumption DEF OrderTx, OrderRow
<1>2. Released(Outstanding(o), p) \in Nat
  BY <1>1 DEF Released, TypeOK, Outstanding, NeverOverReceived
<1>3. on_order' \in [Products -> Nat]
  BY <1>1, <1>2 DEF CommitStatus, TypeOK
<1>4. QED
  BY <1>3, FinishType, CommitOrderType DEF CommitStatus, TypeOK

LEMMA NewRowType ==
  ASSUME NEW status \in Statuses, NEW p \in Products, NEW q \in Quantities
  PROVE  NewRow(status, p, q) \in OrderRow
BY DEF NewRow, OrderRow

LEMMA DraftType ==
  ASSUME TypeOK, NEW o \in AutoNumbers, NEW q \in Quantities, DraftAndSetOnOrder(o, q)
  PROVE  /\ order' \in [Orders -> OrderRow \cup {Unused}]
         /\ on_order' \in [Products -> Nat]
         /\ reordered' \subseteq Products
<1>1. o[1] \in Products /\ o \in Orders
  BY DEF AutoNumbers, Orders
<1>2. NewRow("draft", o[1], q) \in OrderRow
  BY <1>1, NewRowType DEF Statuses
<1>3. QED
  BY <1>1, <1>2, QuantitiesAssumption DEF DraftAndSetOnOrder, TypeOK

-----------------------------------------------------------------------------
(* Type correctness of the steps of a request that is under way *)

LEMMA MovementType ==
  ASSUME TypeOK, NEW s \in Sessions, MovementLock(s) \/ MovementCommit(s)
  PROVE  TypeOK'
<1>1. tx[s] \in MoveTx
  BY TxKind DEF MovementLock, MovementCommit
<1> DEFINE p == tx[s].product
<1>2. p \in Products /\ tx[s].delta \in Int /\ tx[s].seen \in Int
  BY <1>1 DEF MoveTx
<1>3. CASE MovementLock(s) /\ MovementAccepts(s)
  <2>1. [tx[s] EXCEPT !.pc = "move_commit", !.seen = current_stock[p]] \in MoveTx
    BY <1>1, <1>2 DEF MoveTx, TypeOK
  <2>2. tx' = [tx EXCEPT ![s] = [tx[s] EXCEPT !.pc = "move_commit", !.seen = current_stock[p]]]
    BY <1>3 DEF MovementLock, TypeOK
  <2>3. prodLock' = [prodLock EXCEPT ![p] = s] /\ UNCHANGED <<rows, orderLock>>
    BY <1>3 DEF MovementLock
  <2>4. prodLock' \in [Products -> Sessions \cup {NoOne}]
    BY <1>2, <2>3 DEF TypeOK
  <2>5. tx' \in [Sessions -> MoveTx \cup OrderTx \cup MarkTx \cup AutoTx \cup {Idle}]
    BY <2>1, <2>2 DEF TypeOK
  <2>6. QED
    BY <2>3, <2>4, <2>5 DEF TypeOK, rows
<1>4. CASE MovementLock(s) /\ ~MovementAccepts(s)
  BY <1>4, RollbackType DEF MovementLock
<1>5. CASE MovementCommit(s)
  <2>1. current_stock' \in [Products -> Int] /\ ledger' \in [Products -> Int]
    BY <1>2, <1>5 DEF MovementCommit, TypeOK
  <2>2. QED
    BY <1>5, <2>1, FinishType DEF MovementCommit, TypeOK
<1>6. QED
  BY <1>3, <1>4, <1>5

LEMMA PoBeginType ==
  ASSUME TypeOK, NEW s \in Sessions, PoBegin(s)
  PROVE  TypeOK'
<1>1. tx[s] \in OrderTx
  BY TxKind DEF PoBegin
<1>2. CASE PoAccepts(s)
  <2> DEFINE pc == IF tx[s].to = "received" /\ tx[s].byUser THEN "po_receipt"
                   ELSE IF TouchesProduct(s) THEN "po_product" ELSE "po_commit"
  <2>1. pc \in {"po_receipt", "po_product", "po_commit"}
    OBVIOUS
  <2>2. /\ Step(s, pc) /\ UNCHANGED <<rows, prodLock>>
        /\ orderLock' = [orderLock EXCEPT ![tx[s].order] = s]
    BY <1>2 DEF PoBegin
  <2>3. tx' \in [Sessions -> MoveTx \cup OrderTx \cup MarkTx \cup AutoTx \cup {Idle}]
    <3> HIDE DEF pc
    <3>1. QED
      BY <1>1, <2>1, <2>2, StepType
  <2>4. orderLock' \in [Orders -> Sessions \cup {NoOne}]
    BY <1>1, <2>2 DEF TypeOK, OrderTx
  <2>5. QED
    BY <2>2, <2>3, <2>4 DEF TypeOK, rows
<1>3. CASE ~PoAccepts(s)
  BY <1>3, RollbackType DEF PoBegin
<1>4. QED
  BY <1>2, <1>3

LEMMA PoReceiptType ==
  ASSUME TypeOK, NEW s \in Sessions, PoReceipt(s)
  PROVE  TypeOK'
<1>1. tx[s] \in OrderTx
  BY TxKind DEF PoReceipt
<1>2. CASE KeyUnused(tx[s].key)
  <2>1. Step(s, "po_product") /\ UNCHANGED <<rows, locks>>
    BY <1>2 DEF PoReceipt
  <2>2. QED
    BY <1>1, <2>1, StepType DEF TypeOK, rows, locks
<1>3. CASE ~KeyUnused(tx[s].key)
  BY <1>3, RollbackType DEF PoReceipt
<1>4. QED
  BY <1>2, <1>3

LEMMA PoProductType ==
  ASSUME TypeOK, NEW s \in Sessions, order[tx[s].order] # Unused, PoProduct(s)
  PROVE  TypeOK'
<1> DEFINE p == order[tx[s].order].product
<1>1. tx[s] \in OrderTx
  BY TxKind DEF PoProduct
<1>2. p \in Products
  BY <1>1, OrderKind DEF OrderTx, OrderRow
<1>3. CASE ProductAccepts(s)
  <2>1. [tx[s] EXCEPT !.pc = "po_commit", !.seen = current_stock[p]] \in OrderTx
    BY <1>1, <1>2 DEF OrderTx, TypeOK
  <2>2. /\ tx' = [tx EXCEPT ![s] = [tx[s] EXCEPT !.pc = "po_commit", !.seen = current_stock[p]]]
        /\ prodLock' = [prodLock EXCEPT ![p] = s]
        /\ UNCHANGED <<rows, orderLock>>
    BY <1>3 DEF PoProduct, TypeOK
  <2>3. tx' \in [Sessions -> MoveTx \cup OrderTx \cup MarkTx \cup AutoTx \cup {Idle}]
    BY <2>1, <2>2 DEF TypeOK
  <2>4. prodLock' \in [Products -> Sessions \cup {NoOne}]
    BY <1>2, <2>2 DEF TypeOK
  <2>5. QED
    BY <2>2, <2>3, <2>4 DEF TypeOK, rows
<1>4. CASE ~ProductAccepts(s)
  BY <1>4, RollbackType DEF PoProduct
<1>5. QED
  BY <1>3, <1>4

LEMMA PoCommitType ==
  ASSUME TypeOK, NeverOverReceived, NEW s \in Sessions, order[tx[s].order] # Unused,
         PoCommit(s)
  PROVE  TypeOK'
<1>1. tx[s] \in OrderTx
  BY TxKind DEF PoCommit
<1>2. QED
  BY <1>1, CommitReceiveType, CommitStatusType DEF PoCommit

LEMMA MarkType ==
  ASSUME TypeOK, NEW s \in Sessions, MarkCommit(s)
  PROVE  TypeOK'
<1>1. tx[s].order \in AutoNumbers /\ tx[s].qty \in Quantities
  BY TxKind DEF MarkCommit, MarkTx
<1>2. CASE Insertable(tx[s].order, tx[s].qty)
  <2>1. DraftAndSetOnOrder(tx[s].order, tx[s].qty) /\ Finish(s)
    BY <1>2 DEF MarkCommit
  <2>2. QED
    BY <1>1, <2>1, DraftType, FinishType DEF DraftAndSetOnOrder, TypeOK
<1>3. CASE ~Insertable(tx[s].order, tx[s].qty)
  BY <1>3, RollbackType DEF MarkCommit
<1>4. QED
  BY <1>2, <1>3

LEMMA AutoStepType ==
  ASSUME TypeOK, NEW s \in Sessions, NEW p \in Products, NEW q \in Quantities \cup {0},
         AutoStep(s, p, q)
  PROVE  TypeOK'
<1>1. tx[s].todo \subseteq Products
  BY TxKind DEF AutoStep, AutoTx
<1>2. CASE Insertable(<<p, today>>, q)
  <2>1. /\ DraftAndSetOnOrder(<<p, today>>, q) /\ UNCHANGED locks
        /\ tx' = [tx EXCEPT ![s] = IF tx[s].todo = {p} THEN Idle
                                   ELSE [pc |-> "auto", todo |-> tx[s].todo \ {p}]]
    BY <1>2 DEF AutoStep
  <2>2. [pc |-> "auto", todo |-> tx[s].todo \ {p}] \in AutoTx
    BY <1>1 DEF AutoTx
  <2>3. tx' \in [Sessions -> MoveTx \cup OrderTx \cup MarkTx \cup AutoTx \cup {Idle}]
    BY <2>1, <2>2 DEF TypeOK
  <2>4. q \in Quantities
    BY <1>2 DEF Insertable
  <2>5. <<p, today>> \in AutoNumbers
    BY MaxDayAssumption DEF AutoStep, AutoNumbers, TypeOK
  <2>6. QED
    BY <2>1, <2>3, <2>4, <2>5, DraftType DEF DraftAndSetOnOrder, TypeOK, locks
<1>3. CASE ~Insertable(<<p, today>>, q)
  BY <1>3, RollbackType DEF AutoStep
<1>4. QED
  BY <1>2, <1>3

LEMMA SingleType ==
  ASSUME TypeOK, Single
  PROVE  TypeOK'
<1>1. ASSUME NEW p \in Products, ProductDelete(p)
      PROVE  TypeOK'
  BY <1>1 DEF ProductDelete, TypeOK, locks
<1>2. ASSUME NEW p \in Products, NEW n \in Openings, ProductCreate(p, n)
      PROVE  TypeOK'
  <2>1. n \in Int
    BY OpeningsAssumption, MaxIntAssumption
  <2>2. QED
    BY <1>2, <2>1 DEF ProductCreate, TypeOK, locks
<1>3. ASSUME NEW o \in Manual, NEW p \in Products, NEW q \in Quantities,
             NEW status \in CreatedAs, PoCreate(o, p, q, status)
      PROVE  TypeOK'
  <2>1. NewRow(status, p, q) \in OrderRow
    BY NewRowType, CreatedAsAssumption
  <2>2. order' \in [Orders -> OrderRow \cup {Unused}]
    BY <1>3, <2>1 DEF PoCreate, TypeOK, Orders
  <2>3. on_order' \in [Products -> Nat]
    BY <1>3, QuantitiesAssumption DEF PoCreate, TypeOK
  <2>4. QED
    BY <1>3, <2>2, <2>3 DEF PoCreate, TypeOK, locks
<1>4. ASSUME NEW o \in Orders, PoSoftDelete(o)
      PROVE  TypeOK'
  <2>1. order[o] \in OrderRow
    BY <1>4, OrderKind DEF PoSoftDelete
  <2>2. [order[o] EXCEPT !.deleted = TRUE] \in OrderRow
    BY <2>1 DEF OrderRow
  <2>3. order' = [order EXCEPT ![o] = [order[o] EXCEPT !.deleted = TRUE]]
    BY <1>4 DEF PoSoftDelete, TypeOK
  <2>4. order' \in [Orders -> OrderRow \cup {Unused}]
    BY <2>2, <2>3 DEF TypeOK
  <2>5. QED
    BY <1>4, <2>4 DEF PoSoftDelete, TypeOK, locks
<1>5. CASE NextDay
  BY <1>5 DEF NextDay, TypeOK, locks
<1>6. QED
  BY <1>1, <1>2, <1>3, <1>4, <1>5 DEF Single

-----------------------------------------------------------------------------
(* The inductive invariant.  Stock safety is not inductive alone: a commit     *)
(* writes a balance it read in an earlier step, so the invariant also says     *)
(* that what each session checked still holds.                                 *)

IndInv == /\ TypeOK
          /\ ChecksStillHold
          /\ StockMatchesLedger
          /\ StockInRange
          /\ NeverOverReceived
          /\ ReceivedMeansComplete

LEMMA TypeStep ==
  ASSUME IndInv, [Next]_vars
  PROVE  TypeOK'
<1> USE DEF IndInv
<1>1. CASE Single
  BY <1>1, SingleType
<1>2. ASSUME NEW s \in Sessions, Request(s)
      PROVE  TypeOK'
  BY <1>2, RequestType
<1>3. ASSUME NEW s \in Sessions, Advance(s)
      PROVE  TypeOK'
  <2>1. tx[s].pc \in {"po_product", "po_commit"} => order[tx[s].order] # Unused
    BY DEF ChecksStillHold, Checked
  <2>2. CASE MovementLock(s) \/ MovementCommit(s)
    BY <2>2, MovementType
  <2>3. CASE PoBegin(s)
    BY <2>3, PoBeginType
  <2>4. CASE PoReceipt(s)
    BY <2>4, PoReceiptType
  <2>5. CASE PoProduct(s)
    BY <2>1, <2>5, PoProductType DEF PoProduct
  <2>6. CASE PoCommit(s)
    BY <2>1, <2>6, PoCommitType DEF PoCommit
  <2>7. CASE MarkCommit(s)
    BY <2>7, MarkType
  <2>8. ASSUME NEW p \in Products, NEW q \in Quantities \cup {0}, AutoStep(s, p, q)
        PROVE  TypeOK'
    BY <2>8, AutoStepType
  <2>9. QED
    BY <1>3, <2>2, <2>3, <2>4, <2>5, <2>6, <2>7, <2>8 DEF Advance
<1>4. ASSUME NEW s \in Sessions, Abort(s)
      PROVE  TypeOK'
  BY <1>4, RollbackType DEF Abort
<1>5. CASE UNCHANGED vars
  BY <1>5 DEF vars, rows, locks, TypeOK
<1>6. QED
  BY <1>1, <1>2, <1>3, <1>4, <1>5 DEF Next

-----------------------------------------------------------------------------
(* What a session checked survives the steps of the others *)

\* The step leaves session r and the rows it has locked alone, and drops no order.
Untouched(r) ==
  /\ tx'[r] = tx[r]
  /\ \A o \in Orders : order[o] # Unused =>
       /\ order'[o] # Unused
       /\ orderLock[o] = r => orderLock'[o] = r /\ order'[o] = order[o]
  /\ \A p \in Products : prod[p] = "live" /\ prodLock[p] = r =>
       /\ prodLock'[p] = r
       /\ prod'[p] = "live"
       /\ current_stock'[p] = current_stock[p]

LEMMA CheckedFrame ==
  ASSUME TypeOK, NEW r \in Sessions, Checked(r), Untouched(r)
  PROVE  Checked(r)'
<1> DEFINE o == tx[r].order
           Ordering == {"po_begin", "po_receipt", "po_product", "po_commit"}
<1>1. tx'[r] = tx[r]
  BY DEF Untouched
<1>2. tx[r].pc \in Ordering => o \in Orders /\ order[o] # Unused /\ order'[o] # Unused
  BY TxKind DEF OrderTx, Checked, Untouched
<1>3. tx[r].pc = "move_commit" => StockHeld(r, tx[r].product, tx[r].delta)'
  <2>1. tx[r].pc = "move_commit" => tx[r].product \in Products
    BY TxKind DEF MoveTx
  <2>2. QED
    BY <1>1, <2>1 DEF Checked, StockHeld, Untouched
<1>4. tx[r].pc \in {"po_receipt", "po_product", "po_commit"} =>
        order'[o] = order[o] /\ orderLock'[o] = r
  BY <1>2 DEF Checked, Untouched
<1>5. tx[r].pc \in {"po_receipt", "po_product", "po_commit"} => PoAccepts(r)'
  BY <1>1, <1>4 DEF Checked, PoAccepts, ReceiveQty, Outstanding
<1>6. tx[r].pc = "po_commit" /\ tx[r].to = "received" =>
        StockHeld(r, order[o].product, ReceiveQty(r))'
  <2>1. tx[r].pc = "po_commit" => order[o].product \in Products
    BY <1>2, OrderKind DEF OrderRow
  <2>2. QED
    BY <1>1, <1>4, <2>1 DEF Checked, StockHeld, Untouched, ReceiveQty
<1>7. QED
  BY <1>1, <1>2, <1>3, <1>4, <1>5, <1>6 DEF Checked

\* A session that is idle, or whose request has locked nothing yet, has little
\* to check.
LEMMA CheckedEarly ==
  ASSUME TypeOK, NEW s \in Sessions, tx'[s].pc \notin {"po_receipt", "po_product", "po_commit", "move_commit"},
         tx'[s].pc = "po_begin" => order'[tx'[s].order] # Unused
  PROVE  Checked(s)'
BY DEF Checked

\* Finish frees no lock but the session's own.
LEMMA FinishFrame ==
  ASSUME TypeOK, NEW s \in Sessions, NEW r \in Sessions, r # s, Finish(s),
         \A o \in Orders : order[o] # Unused =>
           order'[o] # Unused /\ (orderLock[o] = r => order'[o] = order[o]),
         \A p \in Products : prod[p] = "live" /\ prodLock[p] = r =>
           prod'[p] = "live" /\ current_stock'[p] = current_stock[p]
  PROVE  Untouched(r)
BY DEF Finish, TypeOK, Untouched

LEMMA FinishChecked ==
  ASSUME TypeOK, NEW s \in Sessions, Finish(s)
  PROVE  Checked(s)'
<1>1. tx'[s] = Idle
  BY DEF Finish, TypeOK
<1>2. QED
  BY <1>1, CheckedEarly DEF Idle

LEMMA RollbackChecked ==
  ASSUME TypeOK, ChecksStillHold, NEW s \in Sessions, Rollback(s)
  PROVE  ChecksStillHold'
<1>1. ASSUME NEW r \in Sessions, r # s
      PROVE  Untouched(r)
  BY <1>1, FinishFrame DEF Rollback, rows
<1>2. QED
  BY <1>1, CheckedFrame, FinishChecked DEF ChecksStillHold, Rollback

LEMMA RequestChecked ==
  ASSUME TypeOK, ChecksStillHold, NEW s \in Sessions, Request(s)
  PROVE  ChecksStillHold'
<1>1. /\ UNCHANGED <<rows, locks>>
      /\ \A r \in Sessions : r # s => tx'[r] = tx[r]
  BY DEF Request, MovementRequest, TransitionRequest, ReceiveRequest, MarkRequest,
         AutoRequest, Start, TypeOK
<1>2. /\ tx'[s].pc \in {"move_lock", "po_begin", "mark", "auto"}
      /\ tx'[s].pc = "po_begin" => order'[tx'[s].order] # Unused
  <2>1. ASSUME NEW p \in Products, NEW type \in Types, NEW q \in Quantities,
               MovementRequest(s, p, type, q)
        PROVE  tx'[s].pc = "move_lock"
    BY <2>1 DEF MovementRequest, Start, TypeOK
  <2>2. ASSUME NEW o \in Orders, NEW to \in Statuses, TransitionRequest(s, o, to)
        PROVE  tx'[s].pc = "po_begin" /\ order'[tx'[s].order] # Unused
    BY <1>1, <2>2 DEF TransitionRequest, Start, TypeOK, rows
  <2>3. ASSUME NEW o \in Orders, NEW q \in Quantities, NEW k \in Keys \cup {FreshKey},
               ReceiveRequest(s, o, q, k)
        PROVE  tx'[s].pc = "po_begin" /\ order'[tx'[s].order] # Unused
    BY <1>1, <2>3 DEF ReceiveRequest, Start, TypeOK, rows
  <2>4. ASSUME NEW p \in Products, NEW q \in Quantities, MarkRequest(s, p, q)
        PROVE  tx'[s].pc = "mark"
    BY <2>4 DEF MarkRequest, Start, TypeOK
  <2>5. ASSUME AutoRequest(s)
        PROVE  tx'[s].pc = "auto"
    BY <2>5 DEF AutoRequest, Start, TypeOK
  <2>6. QED
    BY <2>1, <2>2, <2>3, <2>4, <2>5 DEF Request
<1>3. ASSUME NEW r \in Sessions, r # s
      PROVE  Untouched(r)
  BY <1>1, <1>3 DEF Untouched, rows, locks
<1>4. QED
  BY <1>2, <1>3, CheckedFrame, CheckedEarly DEF ChecksStillHold

LEMMA MovementLockChecked ==
  ASSUME TypeOK, ChecksStillHold, NEW s \in Sessions, MovementLock(s)
  PROVE  ChecksStillHold'
<1> DEFINE p == tx[s].product
<1>1. tx[s] \in MoveTx /\ p \in Products
  BY TxKind DEF MovementLock, MoveTx
<1>2. CASE MovementAccepts(s)
  <2>1. /\ tx' = [tx EXCEPT ![s] = [tx[s] EXCEPT !.pc = "move_commit", !.seen = current_stock[p]]]
        /\ prodLock' = [prodLock EXCEPT ![p] = s]
        /\ ProductFree(p)
        /\ UNCHANGED <<rows, orderLock>>
    BY <1>2 DEF MovementLock, TypeOK
  <2>2. /\ tx'[s].pc = "move_commit" /\ tx'[s].product = p
        /\ tx'[s].delta = tx[s].delta /\ tx'[s].seen = current_stock[p]
    BY <1>1, <2>1 DEF MoveTx, TypeOK
  <2>3. StockHeld(s, p, tx[s].delta)'
    BY <1>1, <1>2, <2>1, <2>2 DEF MovementAccepts, StockHeld, TypeOK, rows
  <2>4. Checked(s)'
    BY <2>2, <2>3 DEF Checked
  <2>5. ASSUME NEW r \in Sessions, r # s
        PROVE  Untouched(r)
    BY <1>1, <2>1, <2>5, NoOneAssumption DEF Untouched, ProductFree, TypeOK, rows
  <2>6. QED
    BY <2>4, <2>5, CheckedFrame DEF ChecksStillHold
<1>3. CASE ~MovementAccepts(s)
  BY <1>3, RollbackChecked DEF MovementLock
<1>4. QED
  BY <1>2, <1>3

LEMMA MovementCommitChecked ==
  ASSUME TypeOK, ChecksStillHold, NEW s \in Sessions, MovementCommit(s)
  PROVE  ChecksStillHold'
<1> DEFINE p == tx[s].product
<1>1. p \in Products
  BY TxKind DEF MovementCommit, MoveTx
<1>2. prodLock[p] = s
  BY DEF ChecksStillHold, Checked, StockHeld, MovementCommit
<1>3. ASSUME NEW r \in Sessions, r # s
      PROVE  Untouched(r)
  BY <1>1, <1>2, <1>3, FinishFrame DEF MovementCommit, TypeOK
<1>4. QED
  BY <1>3, CheckedFrame, FinishChecked DEF ChecksStillHold, MovementCommit

LEMMA PoBeginChecked ==
  ASSUME TypeOK, ChecksStillHold, NEW s \in Sessions, PoBegin(s)
  PROVE  ChecksStillHold'
<1> DEFINE o == tx[s].order
<1>1. tx[s] \in OrderTx /\ o \in Orders /\ order[o] # Unused
  BY TxKind DEF PoBegin, OrderTx, ChecksStillHold, Checked
<1>2. CASE PoAccepts(s)
  <2> DEFINE pc == IF tx[s].to = "received" /\ tx[s].byUser THEN "po_receipt"
                   ELSE IF TouchesProduct(s) THEN "po_product" ELSE "po_commit"
  <2>1. /\ tx' = [tx EXCEPT ![s].pc = pc]
        /\ orderLock' = [orderLock EXCEPT ![o] = s]
        /\ OrderFree(o)
        /\ UNCHANGED <<rows, prodLock>>
    BY <1>2 DEF PoBegin, Step
  <2>2. /\ pc \in {"po_receipt", "po_product", "po_commit"}
        /\ pc = "po_commit" => tx[s].to # "received"
    BY DEF TouchesProduct
  <2> HIDE DEF pc
  <2>3. /\ tx'[s].pc = pc /\ tx'[s].order = o /\ tx'[s].to = tx[s].to
        /\ tx'[s].qty = tx[s].qty
    BY <1>1, <2>1 DEF OrderTx, TypeOK
  <2>4. PoAccepts(s)'
    BY <1>2, <2>1, <2>3 DEF PoAccepts, ReceiveQty, Outstanding, rows
  <2>5. Checked(s)'
    BY <1>1, <2>1, <2>2, <2>3, <2>4 DEF Checked, TypeOK, rows
  <2>6. ASSUME NEW r \in Sessions, r # s
        PROVE  Untouched(r)
    BY <1>1, <2>1, <2>6, NoOneAssumption DEF Untouched, OrderFree, TypeOK, rows
  <2>7. QED
    BY <2>5, <2>6, CheckedFrame DEF ChecksStillHold
<1>3. CASE ~PoAccepts(s)
  BY <1>3, RollbackChecked DEF PoBegin
<1>4. QED
  BY <1>2, <1>3

LEMMA PoReceiptChecked ==
  ASSUME TypeOK, ChecksStillHold, NEW s \in Sessions, PoReceipt(s)
  PROVE  ChecksStillHold'
<1>1. tx[s] \in OrderTx /\ Checked(s)
  BY TxKind DEF PoReceipt, ChecksStillHold
<1>2. CASE KeyUnused(tx[s].key)
  <2>1. tx' = [tx EXCEPT ![s].pc = "po_product"] /\ UNCHANGED <<rows, locks>>
    BY <1>2 DEF PoReceipt, Step
  <2>2. /\ tx'[s].pc = "po_product" /\ tx'[s].order = tx[s].order
        /\ tx'[s].to = tx[s].to /\ tx'[s].qty = tx[s].qty
    BY <1>1, <2>1 DEF OrderTx, TypeOK
  <2>3. Checked(s)'
    BY <1>1, <2>1, <2>2 DEF Checked, PoAccepts, ReceiveQty, Outstanding, PoReceipt, rows, locks
  <2>4. ASSUME NEW r \in Sessions, r # s
        PROVE  Untouched(r)
    BY <2>1, <2>4 DEF Untouched, rows, locks, TypeOK
  <2>5. QED
    BY <2>3, <2>4, CheckedFrame DEF ChecksStillHold
<1>3. CASE ~KeyUnused(tx[s].key)
  BY <1>3, RollbackChecked DEF PoReceipt
<1>4. QED
  BY <1>2, <1>3

LEMMA ReceiveQtyType ==
  ASSUME TypeOK, NEW s \in Sessions, tx[s] \in OrderTx, order[tx[s].order] # Unused
  PROVE  ReceiveQty(s) \in Quantities
BY OrderKind DEF ReceiveQty, OrderTx, OrderRow

LEMMA PoProductChecked ==
  ASSUME TypeOK, ChecksStillHold, StockInRange, NEW s \in Sessions, PoProduct(s)
  PROVE  ChecksStillHold'
<1> DEFINE o == tx[s].order
           p == order[o].product
<1>1. tx[s] \in OrderTx /\ Checked(s) /\ order[o] # Unused
  BY TxKind DEF PoProduct, ChecksStillHold, Checked
<1>2. o \in Orders /\ p \in Products
  BY <1>1, OrderKind DEF OrderTx, OrderRow
<1>3. CASE ProductAccepts(s)
  <2>1. /\ tx' = [tx EXCEPT ![s] = [tx[s] EXCEPT !.pc = "po_commit", !.seen = current_stock[p]]]
        /\ prodLock' = [prodLock EXCEPT ![p] = s]
        /\ ProductFree(p)
        /\ UNCHANGED <<rows, orderLock>>
    BY <1>3 DEF PoProduct, TypeOK
  <2>2. /\ tx'[s].pc = "po_commit" /\ tx'[s].order = o /\ tx'[s].to = tx[s].to
        /\ tx'[s].qty = tx[s].qty /\ tx'[s].seen = current_stock[p]
    BY <1>1, <2>1 DEF OrderTx, TypeOK
  <2>3. PoAccepts(s)' /\ ReceiveQty(s)' = ReceiveQty(s)
    BY <1>1, <2>1, <2>2 DEF Checked, PoAccepts, ReceiveQty, Outstanding, PoProduct, rows
  <2>4. tx[s].to = "received" => StockHeld(s, p, ReceiveQty(s))'
    <3>1. ReceiveQty(s) \in Nat
      BY <1>1, ReceiveQtyType, QuantitiesAssumption
    <3>2. current_stock[p] \in 0..MaxInt
      BY <1>2 DEF StockInRange
    <3>3. tx[s].to = "received" => prod[p] = "live" /\ current_stock[p] + ReceiveQty(s) \in 0..MaxInt
      BY <1>3, <3>1, <3>2, MaxIntAssumption DEF ProductAccepts
    <3>4. prodLock'[p] = s
      BY <1>2, <2>1 DEF TypeOK
    <3>5. QED
      BY <2>1, <2>2, <2>3, <3>3, <3>4 DEF StockHeld, rows
  <2>5. Checked(s)'
    BY <1>1, <2>1, <2>2, <2>3, <2>4 DEF Checked, PoProduct, rows
  <2>6. ASSUME NEW r \in Sessions, r # s
        PROVE  Untouched(r)
    BY <1>2, <2>1, <2>6, NoOneAssumption DEF Untouched, ProductFree, TypeOK, rows
  <2>7. QED
    BY <2>5, <2>6, CheckedFrame DEF ChecksStillHold
<1>4. CASE ~ProductAccepts(s)
  BY <1>4, RollbackChecked DEF PoProduct
<1>5. QED
  BY <1>3, <1>4

\* The rows after PoCommit.
LEMMA CommitRows ==
  ASSUME TypeOK, NEW s \in Sessions, tx[s] \in OrderTx, order[tx[s].order] # Unused,
         CommitReceive(s) \/ CommitStatus(s)
  PROVE  LET o == tx[s].order IN
         /\ \A x \in Orders : x # o => order'[x] = order[x]
         /\ order'[o] # Unused
         /\ order'[o].quantity = order[o].quantity
         /\ order'[o].born = order[o].born
         /\ CommitReceive(s) =>
              /\ order'[o].received = order[o].received + ReceiveQty(s)
              /\ order'[o].status = IF Completes(o, ReceiveQty(s)) THEN "received" ELSE "in_transit"
         /\ CommitStatus(s) =>
              /\ order'[o].received = order[o].received
              /\ order'[o].status = tx[s].to
<1> DEFINE o == tx[s].order
<1>1. o \in Orders /\ order[o] \in OrderRow /\ tx[s].to \in Statuses
  BY OrderKind DEF OrderTx
<1>2. \A x \in Orders : x # o => order'[x] = order[x]
  BY <1>1 DEF CommitReceive, CommitStatus, TypeOK
<1>3. ASSUME CommitReceive(s)
      PROVE  /\ order'[o].received = order[o].received + ReceiveQty(s)
             /\ order'[o].status = IF Completes(o, ReceiveQty(s)) THEN "received" ELSE "in_transit"
             /\ order'[o].quantity = order[o].quantity
             /\ order'[o].born = order[o].born
  BY <1>1, <1>3 DEF CommitReceive, TypeOK, OrderRow
<1>4. ASSUME CommitStatus(s)
      PROVE  /\ order'[o].received = order[o].received
             /\ order'[o].status = tx[s].to
             /\ order'[o].quantity = order[o].quantity
             /\ order'[o].born = order[o].born
  BY <1>1, <1>4 DEF CommitStatus, TypeOK, OrderRow
<1>5. order'[o].status \in Statuses
  BY <1>1, <1>3, <1>4 DEF Statuses
<1>6. order'[o] # Unused
  BY <1>5 DEF Unused, Statuses
<1>7. QED
  BY <1>2, <1>3, <1>4, <1>6

\* Committing writes only rows the session has locked.
LEMMA PoCommitChecked ==
  ASSUME TypeOK, ChecksStillHold, NEW s \in Sessions, PoCommit(s)
  PROVE  ChecksStillHold'
<1> DEFINE o == tx[s].order
           p == order[o].product
<1>1. /\ tx[s] \in OrderTx /\ order[o] # Unused /\ orderLock[o] = s
      /\ tx[s].to = "received" => prodLock[p] = s
  BY TxKind DEF PoCommit, ChecksStillHold, Checked, StockHeld
<1>2. CommitReceive(s) \/ CommitStatus(s)
  BY DEF PoCommit
<1>3. o \in Orders /\ p \in Products
  BY <1>1, OrderKind DEF OrderTx, OrderRow
<1>4. ASSUME NEW r \in Sessions, r # s
      PROVE  Untouched(r)
  <2>1. \A x \in Orders : order[x] # Unused =>
          order'[x] # Unused /\ (orderLock[x] = r => order'[x] = order[x])
    BY <1>1, <1>2, <1>4, CommitRows
  <2>2. \A x \in Products : prodLock[x] = r =>
          prod'[x] = prod[x] /\ current_stock'[x] = current_stock[x]
    BY <1>1, <1>3, <1>4 DEF PoCommit, CommitReceive, CommitStatus, TypeOK
  <2>3. QED
    BY <1>4, <2>1, <2>2, FinishFrame DEF PoCommit
<1>5. QED
  BY <1>4, CheckedFrame, FinishChecked DEF ChecksStillHold, PoCommit

\* A new draft disturbs no row in use.
LEMMA DraftRows ==
  ASSUME TypeOK, NEW o \in AutoNumbers, NEW q \in Quantities, Insertable(o, q),
         DraftAndSetOnOrder(o, q)
  PROVE  /\ \A x \in Orders : order[x] # Unused => order'[x] = order[x]
         /\ \A x \in Orders : x # o => order'[x] = order[x]
         /\ order'[o] = NewRow("draft", o[1], q)
BY DEF DraftAndSetOnOrder, Insertable, TypeOK, Orders

LEMMA MarkChecked ==
  ASSUME TypeOK, ChecksStillHold, NEW s \in Sessions, MarkCommit(s)
  PROVE  ChecksStillHold'
<1>1. tx[s].order \in AutoNumbers /\ tx[s].qty \in Quantities
  BY TxKind DEF MarkCommit, MarkTx
<1>2. CASE Insertable(tx[s].order, tx[s].qty)
  <2>1. DraftAndSetOnOrder(tx[s].order, tx[s].qty) /\ Finish(s)
    BY <1>2 DEF MarkCommit
  <2>2. \A x \in Orders : order[x] # Unused => order'[x] = order[x]
    BY <1>1, <1>2, <2>1, DraftRows
  <2>3. ASSUME NEW r \in Sessions, r # s
        PROVE  Untouched(r)
    BY <2>1, <2>2, <2>3, FinishFrame DEF DraftAndSetOnOrder
  <2>4. QED
    BY <2>1, <2>3, CheckedFrame, FinishChecked DEF ChecksStillHold
<1>3. CASE ~Insertable(tx[s].order, tx[s].qty)
  BY <1>3, RollbackChecked DEF MarkCommit
<1>4. QED
  BY <1>2, <1>3

LEMMA AutoStepChecked ==
  ASSUME TypeOK, ChecksStillHold, NEW s \in Sessions, NEW p \in Products,
         NEW q \in Quantities \cup {0}, AutoStep(s, p, q)
  PROVE  ChecksStillHold'
<1>1. <<p, today>> \in AutoNumbers
  BY MaxDayAssumption DEF AutoStep, AutoNumbers, TypeOK
<1>2. CASE Insertable(<<p, today>>, q)
  <2>1. /\ DraftAndSetOnOrder(<<p, today>>, q) /\ UNCHANGED locks
        /\ tx' = [tx EXCEPT ![s] = IF tx[s].todo = {p} THEN Idle
                                   ELSE [pc |-> "auto", todo |-> tx[s].todo \ {p}]]
    BY <1>2 DEF AutoStep
  <2>2. \A x \in Orders : order[x] # Unused => order'[x] = order[x]
    BY <1>1, <1>2, <2>1, DraftRows DEF Insertable
  <2>3. ASSUME NEW r \in Sessions, r # s
        PROVE  Untouched(r)
    BY <2>1, <2>2, <2>3 DEF Untouched, DraftAndSetOnOrder, TypeOK, locks
  <2>4. tx'[s].pc \in {"idle", "auto"}
    BY <2>1 DEF TypeOK, Idle
  <2>5. QED
    BY <2>3, <2>4, CheckedFrame, CheckedEarly DEF ChecksStillHold
<1>3. CASE ~Insertable(<<p, today>>, q)
  BY <1>3, RollbackChecked DEF AutoStep
<1>4. QED
  BY <1>2, <1>3

LEMMA SingleChecked ==
  ASSUME TypeOK, ChecksStillHold, Single
  PROVE  ChecksStillHold'
<1>1. SUFFICES ASSUME NEW r \in Sessions PROVE Untouched(r)
  BY <1>1, CheckedFrame DEF ChecksStillHold
<1>2. ASSUME NEW p \in Products, ProductDelete(p)
      PROVE  Untouched(r)
  BY <1>2, NoOneAssumption DEF ProductDelete, ProductFree, Untouched, TypeOK, locks
<1>3. ASSUME NEW p \in Products, NEW n \in Openings, ProductCreate(p, n)
      PROVE  Untouched(r)
  BY <1>3 DEF ProductCreate, Untouched, TypeOK, locks
<1>4. ASSUME NEW o \in Manual, NEW p \in Products, NEW q \in Quantities,
             NEW status \in CreatedAs, PoCreate(o, p, q, status)
      PROVE  Untouched(r)
  BY <1>4 DEF PoCreate, Untouched, TypeOK, locks, Orders
<1>5. ASSUME NEW o \in Orders, PoSoftDelete(o)
      PROVE  Untouched(r)
  <2>1. order[o] \in OrderRow
    BY <1>5, OrderKind DEF PoSoftDelete
  <2>2. order'[o].status = order[o].status
    BY <1>5, <2>1 DEF PoSoftDelete, TypeOK, OrderRow
  <2>3. order'[o] # Unused
    BY <2>1, <2>2 DEF OrderRow, Unused, Statuses
  <2>4. QED
    BY <1>5, <2>3, NoOneAssumption DEF PoSoftDelete, OrderFree, Untouched, TypeOK, locks
<1>6. CASE NextDay
  BY <1>6 DEF NextDay, Untouched, locks
<1>7. QED
  BY <1>2, <1>3, <1>4, <1>5, <1>6 DEF Single

LEMMA CheckedStep ==
  ASSUME IndInv, [Next]_vars
  PROVE  ChecksStillHold'
<1> USE DEF IndInv
<1>1. CASE Single
  BY <1>1, SingleChecked
<1>2. ASSUME NEW s \in Sessions, Request(s)
      PROVE  ChecksStillHold'
  BY <1>2, RequestChecked
<1>3. ASSUME NEW s \in Sessions, Advance(s)
      PROVE  ChecksStillHold'
  BY <1>3, MovementLockChecked, MovementCommitChecked, PoBeginChecked, PoReceiptChecked,
     PoProductChecked, PoCommitChecked, MarkChecked, AutoStepChecked DEF Advance
<1>4. ASSUME NEW s \in Sessions, Abort(s)
      PROVE  ChecksStillHold'
  BY <1>4, RollbackChecked DEF Abort
<1>5. CASE UNCHANGED vars
  <2>1. ASSUME NEW r \in Sessions PROVE Untouched(r)
    BY <1>5 DEF vars, rows, locks, Untouched
  <2>2. QED
    BY <2>1, CheckedFrame DEF ChecksStillHold
<1>6. QED
  BY <1>1, <1>2, <1>3, <1>4, <1>5 DEF Next

-----------------------------------------------------------------------------
(* Stock: every step is a step of the abstract ledger or leaves it alone *)

StockVars == <<prod, current_stock, ledger>>

\* Writing back a checked balance plus its delta is a posting.
LEMMA Posting ==
  ASSUME StockInRange, TypeOK, NEW p \in Products, NEW d \in Int,
         prod[p] = "live", current_stock[p] + d \in 0..MaxInt,
         current_stock' = [current_stock EXCEPT ![p] = current_stock[p] + d],
         ledger' = [ledger EXCEPT ![p] = @ + d],
         UNCHANGED prod
  PROVE  Ledger!Next
<1>1. current_stock[p] \in 0..MaxInt
  BY DEF StockInRange
<1>2. d \in -MaxInt..MaxInt
  BY <1>1, MaxIntAssumption
<1>3. Ledger!Post(p)
  BY <1>2 DEF Ledger!Post
<1>4. QED
  BY <1>3 DEF Ledger!Next

LEMMA SingleStock ==
  ASSUME Single
  PROVE  Ledger!Next \/ UNCHANGED StockVars
<1>1. ASSUME NEW p \in Products, ProductDelete(p)
      PROVE  Ledger!Next
  BY <1>1 DEF ProductDelete, Ledger!Next, Ledger!Delete
<1>2. ASSUME NEW p \in Products, NEW n \in Openings, ProductCreate(p, n)
      PROVE  Ledger!Next
  BY <1>2, OpeningsAssumption DEF ProductCreate, Ledger!Next, Ledger!Create
<1>3. ASSUME NEW o \in Manual, NEW p \in Products, NEW q \in Quantities,
             NEW status \in CreatedAs, PoCreate(o, p, q, status)
      PROVE  UNCHANGED StockVars
  BY <1>3 DEF PoCreate, StockVars
<1>4. ASSUME NEW o \in Orders, PoSoftDelete(o)
      PROVE  UNCHANGED StockVars
  BY <1>4 DEF PoSoftDelete, StockVars
<1>5. CASE NextDay
  BY <1>5 DEF NextDay, StockVars
<1>6. QED
  BY <1>1, <1>2, <1>3, <1>4, <1>5 DEF Single

LEMMA MovementStock ==
  ASSUME IndInv, NEW s \in Sessions, MovementCommit(s)
  PROVE  Ledger!Next
<1> DEFINE p == tx[s].product
<1>1. tx[s] \in MoveTx /\ StockHeld(s, p, tx[s].delta)
  BY TxKind DEF IndInv, MovementCommit, ChecksStillHold, Checked
<1>2. p \in Products /\ tx[s].delta \in Int
  BY <1>1 DEF MoveTx
<1>3. QED
  BY <1>1, <1>2, Posting DEF IndInv, MovementCommit, StockHeld

LEMMA PoCommitStock ==
  ASSUME IndInv, NEW s \in Sessions, PoCommit(s)
  PROVE  Ledger!Next \/ UNCHANGED StockVars
<1> DEFINE o == tx[s].order
           p == order[o].product
<1>1. CASE CommitStatus(s)
  BY <1>1 DEF CommitStatus, StockVars
<1>2. CASE tx[s].to = "received" /\ CommitReceive(s)
  <2>1. /\ tx[s] \in OrderTx /\ order[o] # Unused
        /\ StockHeld(s, p, ReceiveQty(s))
    BY <1>2, TxKind DEF IndInv, PoCommit, ChecksStillHold, Checked
  <2>2. p \in Products /\ ReceiveQty(s) \in Int
    <3>1. ReceiveQty(s) \in Nat
      BY <2>1, ReceiveQtyType, QuantitiesAssumption DEF IndInv
    <3>2. QED
      BY <2>1, <3>1, OrderKind DEF IndInv, OrderTx, OrderRow
  <2>3. /\ current_stock' = [current_stock EXCEPT ![p] = current_stock[p] + ReceiveQty(s)]
        /\ ledger' = [ledger EXCEPT ![p] = @ + ReceiveQty(s)]
        /\ UNCHANGED prod
    BY <1>2, <2>1 DEF CommitReceive, StockHeld
  <2>4. QED
    BY <2>1, <2>2, <2>3, Posting DEF IndInv, StockHeld
<1>3. QED
  BY <1>1, <1>2 DEF PoCommit

\* Every step of a session is a posting or leaves the stock alone.
LEMMA StockStep ==
  ASSUME IndInv, [Next]_vars
  PROVE  Ledger!Next \/ UNCHANGED StockVars
<1>1. CASE Single
  BY <1>1, SingleStock
<1>2. ASSUME NEW s \in Sessions, Request(s)
      PROVE  UNCHANGED StockVars
  BY <1>2 DEF Request, MovementRequest, TransitionRequest, ReceiveRequest, MarkRequest,
              AutoRequest, rows, StockVars
<1>3. ASSUME NEW s \in Sessions, Rollback(s)
      PROVE  UNCHANGED StockVars
  BY <1>3 DEF Rollback, rows, StockVars
<1>4. ASSUME NEW s \in Sessions, Advance(s)
      PROVE  Ledger!Next \/ UNCHANGED StockVars
  <2>1. CASE MovementLock(s) \/ PoBegin(s) \/ PoReceipt(s) \/ PoProduct(s)
    BY <1>3, <2>1 DEF MovementLock, PoBegin, PoReceipt, PoProduct, rows, StockVars
  <2>2. CASE MovementCommit(s)
    BY <2>2, MovementStock
  <2>3. CASE PoCommit(s)
    BY <2>3, PoCommitStock
  <2>4. CASE MarkCommit(s)
    BY <1>3, <2>4 DEF MarkCommit, DraftAndSetOnOrder, StockVars
  <2>5. ASSUME NEW p \in Products, NEW q \in Quantities \cup {0}, AutoStep(s, p, q)
        PROVE  UNCHANGED StockVars
    BY <1>3, <2>5 DEF AutoStep, DraftAndSetOnOrder, StockVars
  <2>6. QED
    BY <1>4, <2>1, <2>2, <2>3, <2>4, <2>5 DEF Advance
<1>5. ASSUME NEW s \in Sessions, Abort(s)
      PROVE  UNCHANGED StockVars
  BY <1>3, <1>5 DEF Abort
<1>6. CASE UNCHANGED vars
  BY <1>6 DEF vars, rows, StockVars
<1>7. QED
  BY <1>1, <1>2, <1>4, <1>5, <1>6 DEF Next

\* A posting keeps stock and ledger equal and in range.
LEMMA StockSafe ==
  ASSUME IndInv, [Next]_vars
  PROVE  StockMatchesLedger' /\ StockInRange'
<1>1. CASE UNCHANGED StockVars
  BY <1>1 DEF IndInv, StockVars, StockMatchesLedger, StockInRange
<1>2. ASSUME NEW p \in Products, Ledger!Create(p)
      PROVE  StockMatchesLedger' /\ StockInRange'
  BY <1>2 DEF Ledger!Create, IndInv, TypeOK, StockMatchesLedger, StockInRange
<1>3. ASSUME NEW p \in Products, Ledger!Post(p)
      PROVE  StockMatchesLedger' /\ StockInRange'
  BY <1>3 DEF Ledger!Post, IndInv, TypeOK, StockMatchesLedger, StockInRange
<1>4. ASSUME NEW p \in Products, Ledger!Delete(p)
      PROVE  StockMatchesLedger' /\ StockInRange'
  BY <1>4 DEF Ledger!Delete, IndInv, StockMatchesLedger, StockInRange
<1>5. QED
  BY <1>1, <1>2, <1>3, <1>4, StockStep DEF Ledger!Next

-----------------------------------------------------------------------------
(* Orders: what a step may do to the rows *)

\* The row of an order that is being committed fits its quantity and status.
RowSafe(row) ==
  row # Unused =>
    /\ row.received <= row.quantity
    /\ row.born # "received" => (row.status = "received" <=> row.received = row.quantity)

LEMMA RowsAreSafe ==
  (NeverOverReceived /\ ReceivedMeansComplete) <=> \A o \in Orders : RowSafe(order[o])
BY DEF NeverOverReceived, ReceivedMeansComplete, RowSafe

LEMMA NewRowSafe ==
  ASSUME NEW status \in Statuses, NEW p \in Products, NEW q \in Quantities
  PROVE  RowSafe(NewRow(status, p, q))
BY QuantitiesAssumption DEF RowSafe, NewRow

\* The status an accepted transition starts from is not terminal.
LEMMA CommitAccepted ==
  ASSUME IndInv, NEW s \in Sessions, PoCommit(s)
  PROVE  LET o == tx[s].order IN
         /\ tx[s] \in OrderTx /\ o \in Orders /\ order[o] # Unused /\ order[o] \in OrderRow
         /\ order[o].status \notin {"received", "cancelled"}
         /\ tx[s].to = "received" => ReceiveQty(s) <= order[o].quantity - order[o].received
<1>1. tx[s] \in OrderTx /\ order[tx[s].order] # Unused /\ PoAccepts(s)
  BY TxKind DEF IndInv, PoCommit, ChecksStillHold, Checked
<1>2. tx[s].order \in Orders
  BY <1>1 DEF OrderTx
<1>3. order[tx[s].order] \in OrderRow
  BY <1>1, <1>2, OrderKind DEF IndInv
<1>4. QED
  BY <1>1, <1>2, <1>3 DEF PoAccepts, ValidTransition, Outstanding

LEMMA PoCommitSafe ==
  ASSUME IndInv, NEW s \in Sessions, PoCommit(s)
  PROVE  \A x \in Orders : RowSafe(order[x])'
<1> DEFINE o == tx[s].order
           q == ReceiveQty(s)
<1>1. /\ tx[s] \in OrderTx /\ o \in Orders /\ order[o] # Unused /\ order[o] \in OrderRow
      /\ order[o].status \notin {"received", "cancelled"}
      /\ tx[s].to = "received" => q <= order[o].quantity - order[o].received
  BY CommitAccepted
<1>2. RowSafe(order[o]) /\ \A x \in Orders : RowSafe(order[x])
  BY <1>1, RowsAreSafe DEF IndInv
<1>3. order[o].quantity \in Nat /\ order[o].received \in Nat
  BY <1>1, QuantitiesAssumption DEF OrderRow
<1>4. CASE tx[s].to = "received" /\ CommitReceive(s)
  <2>1. q \in Nat
    BY <1>1, ReceiveQtyType, QuantitiesAssumption DEF IndInv
  <2>2. /\ \A x \in Orders : x # o => order'[x] = order[x]
        /\ order'[o].quantity = order[o].quantity
        /\ order'[o].received = order[o].received + q
        /\ order'[o].status = IF Completes(o, q) THEN "received" ELSE "in_transit"
    BY <1>1, <1>4, CommitRows DEF IndInv
  <2> HIDE DEF q
  <2>3. RowSafe(order'[o])
    BY <1>1, <1>3, <1>4, <2>1, <2>2 DEF RowSafe, Completes
  <2>4. QED
    BY <1>2, <2>2, <2>3 DEF RowSafe
<1>5. CASE tx[s].to # "received" /\ CommitStatus(s)
  <2>1. /\ \A x \in Orders : x # o => order'[x] = order[x]
        /\ order'[o].quantity = order[o].quantity
        /\ order'[o].received = order[o].received
        /\ order'[o].status = tx[s].to
        /\ order'[o].born = order[o].born
    BY <1>1, <1>5, CommitRows DEF IndInv
  <2>2. RowSafe(order'[o])
    BY <1>1, <1>2, <1>5, <2>1 DEF RowSafe
  <2>3. QED
    BY <1>2, <2>1, <2>2 DEF RowSafe
<1>6. QED
  BY <1>4, <1>5 DEF PoCommit

\* Steps other than PoCommit insert a row, hide one, or leave them alone.
LEMMA OtherRows ==
  ASSUME IndInv, [Next]_vars, ~\E s \in Sessions : PoCommit(s), NEW x \in Orders
  PROVE  \/ order'[x] = order[x]
         \/ order[x] = Unused /\ \E status \in Statuses, p \in Products, q \in Quantities :
                                    order'[x] = NewRow(status, p, q)
         \/ order[x] # Unused /\ order'[x] = [order[x] EXCEPT !.deleted = TRUE]
<1> USE DEF IndInv
<1> DEFINE Goal == \/ order'[x] = order[x]
                   \/ order[x] = Unused /\ \E status \in Statuses, p \in Products, q \in Quantities :
                                              order'[x] = NewRow(status, p, q)
                   \/ order[x] # Unused /\ order'[x] = [order[x] EXCEPT !.deleted = TRUE]
<1>1. ASSUME NEW p \in Products, NEW n \in Openings, ProductDelete(p) \/ ProductCreate(p, n)
      PROVE  Goal
  BY <1>1 DEF ProductDelete, ProductCreate
<1>2. ASSUME NEW p \in Products, ProductDelete(p)
      PROVE  Goal
  BY <1>2 DEF ProductDelete
<1>3. ASSUME NEW o \in Manual, NEW p \in Products, NEW q \in Quantities,
             NEW status \in CreatedAs, PoCreate(o, p, q, status)
      PROVE  Goal
  <2>1. CASE x = o
    BY <1>3, <2>1, CreatedAsAssumption DEF PoCreate, TypeOK
  <2>2. CASE x # o
    BY <1>3, <2>2 DEF PoCreate, TypeOK
  <2>3. QED
    BY <2>1, <2>2
<1>4. ASSUME NEW o \in Orders, PoSoftDelete(o)
      PROVE  Goal
  BY <1>4 DEF PoSoftDelete, TypeOK
<1>5. CASE NextDay
  BY <1>5 DEF NextDay
<1>6. ASSUME NEW s \in Sessions, Request(s) \/ Rollback(s)
      PROVE  Goal
  BY <1>6 DEF Request, MovementRequest, TransitionRequest, ReceiveRequest, MarkRequest,
              AutoRequest, Rollback, rows
<1>7. ASSUME NEW o \in AutoNumbers, NEW q \in Quantities, Insertable(o, q),
             DraftAndSetOnOrder(o, q)
      PROVE  Goal
  <2>1. o[1] \in Products /\ "draft" \in Statuses
    BY DEF AutoNumbers, Statuses
  <2>2. CASE x = o
    BY <1>7, <2>1, <2>2, DraftRows DEF Insertable
  <2>3. CASE x # o
    BY <1>7, <2>3, DraftRows
  <2>4. QED
    BY <2>2, <2>3
<1>8. ASSUME NEW s \in Sessions, Advance(s)
      PROVE  Goal
  <2>1. CASE MovementLock(s) \/ MovementCommit(s) \/ PoBegin(s) \/ PoReceipt(s) \/ PoProduct(s)
    BY <1>6, <2>1 DEF MovementLock, MovementCommit, PoBegin, PoReceipt, PoProduct, rows
  <2>2. CASE MarkCommit(s)
    <3>1. tx[s].order \in AutoNumbers /\ tx[s].qty \in Quantities
      BY <2>2, TxKind DEF MarkCommit, MarkTx
    <3>2. QED
      BY <1>6, <1>7, <2>2, <3>1 DEF MarkCommit
  <2>3. ASSUME NEW p \in Products, NEW q \in Quantities \cup {0}, AutoStep(s, p, q)
        PROVE  Goal
    <3>1. <<p, today>> \in AutoNumbers
      BY <2>3, MaxDayAssumption DEF AutoStep, AutoNumbers, TypeOK
    <3>2. Insertable(<<p, today>>, q) => q \in Quantities
      BY DEF Insertable
    <3>3. QED
      BY <1>6, <1>7, <2>3, <3>1, <3>2 DEF AutoStep
  <2>4. QED
    BY <1>8, <2>1, <2>2, <2>3 DEF Advance
<1>9. ASSUME NEW s \in Sessions, Abort(s)
      PROVE  Goal
  BY <1>6, <1>9 DEF Abort
<1>10. CASE UNCHANGED vars
  BY <1>10 DEF vars, rows
<1>11. QED
  BY <1>1, <1>2, <1>3, <1>4, <1>5, <1>6, <1>8, <1>9, <1>10 DEF Next, Single

LEMMA RowsStep ==
  ASSUME IndInv, [Next]_vars
  PROVE  NeverOverReceived' /\ ReceivedMeansComplete'
<1>1. SUFFICES ASSUME NEW x \in Orders PROVE RowSafe(order[x])'
  BY <1>1 DEF NeverOverReceived, ReceivedMeansComplete, RowSafe
<1>2. CASE \E s \in Sessions : PoCommit(s)
  BY <1>2, PoCommitSafe
<1>3. CASE ~\E s \in Sessions : PoCommit(s)
  <2>1. RowSafe(order[x])
    BY RowsAreSafe DEF IndInv
  <2>2. CASE order'[x] = order[x]
    BY <2>1, <2>2 DEF RowSafe
  <2>3. CASE \E status \in Statuses, p \in Products, q \in Quantities :
               order'[x] = NewRow(status, p, q)
    BY <2>3, NewRowSafe DEF RowSafe
  <2>4. CASE order[x] # Unused /\ order'[x] = [order[x] EXCEPT !.deleted = TRUE]
    <3>1. order[x] \in OrderRow
      BY <2>4, OrderKind DEF IndInv
    <3>2. /\ order'[x].received = order[x].received
          /\ order'[x].quantity = order[x].quantity
          /\ order'[x].status = order[x].status
          /\ order'[x].born = order[x].born
      BY <2>4, <3>1 DEF OrderRow
    <3>3. QED
      BY <2>1, <2>4, <3>2 DEF RowSafe
  <2>5. QED
    BY <1>3, <2>2, <2>3, <2>4, OtherRows
<1>4. QED
  BY <1>2, <1>3

\* A row in a terminal status is changed by its soft delete only.
LEMMA TerminalStep ==
  ASSUME IndInv, [Next]_vars, NEW x \in Orders, order[x] # Unused,
         order[x].status \in {"received", "cancelled"}
  PROVE  order'[x] = [order[x] EXCEPT !.deleted = order'[x].deleted]
<1>1. order[x] \in OrderRow
  BY OrderKind DEF IndInv
<1>2. ASSUME order'[x] = order[x]
      PROVE  order'[x] = [order[x] EXCEPT !.deleted = order'[x].deleted]
  BY <1>1, <1>2 DEF OrderRow
<1>3. CASE \E s \in Sessions : PoCommit(s)
  <2>1. PICK s \in Sessions : PoCommit(s)
    BY <1>3
  <2>2. /\ tx[s] \in OrderTx /\ order[tx[s].order] # Unused
        /\ order[tx[s].order].status \notin {"received", "cancelled"}
    BY <2>1, CommitAccepted
  <2>3. x # tx[s].order
    BY <2>2
  <2>4. order'[x] = order[x]
    BY <2>1, <2>2, <2>3, CommitRows DEF IndInv, PoCommit
  <2>5. QED
    BY <1>2, <2>4
<1>4. CASE ~\E s \in Sessions : PoCommit(s)
  <2>1. \/ order'[x] = order[x]
        \/ order'[x] = [order[x] EXCEPT !.deleted = TRUE]
    BY <1>4, OtherRows
  <2>2. CASE order'[x] = [order[x] EXCEPT !.deleted = TRUE]
    BY <1>1, <2>2 DEF OrderRow
  <2>3. QED
    BY <1>2, <2>1, <2>2
<1>5. QED
  BY <1>3, <1>4

-----------------------------------------------------------------------------
(* The theorems *)

LEMMA InitInv == Init => IndInv
<1> SUFFICES ASSUME Init PROVE IndInv
  OBVIOUS
<1>1. TypeOK
  BY DEF Init, TypeOK
<1>2. ChecksStillHold
  BY DEF Init, ChecksStillHold, Checked, Idle
<1>3. StockMatchesLedger /\ StockInRange
  BY MaxIntAssumption DEF Init, StockMatchesLedger, StockInRange
<1>4. NeverOverReceived /\ ReceivedMeansComplete
  BY DEF Init, NeverOverReceived, ReceivedMeansComplete
<1>5. QED
  BY <1>1, <1>2, <1>3, <1>4 DEF IndInv

LEMMA NextInv == IndInv /\ [Next]_vars => IndInv'
BY TypeStep, CheckedStep, StockSafe, RowsStep DEF IndInv

\* The inductive invariant holds in every reachable state.
THEOREM Invariance == Spec => []IndInv
BY InitInv, NextInv, PTL DEF Spec

\* Type correctness: sp_po_transition never subtracts more from on_order than
\* GREATEST allows, and no transaction works on a row that does not exist.
THEOREM TypeCorrect == Spec => []TypeOK
<1>1. IndInv => TypeOK
  BY DEF IndInv
<1>2. QED
  BY <1>1, Invariance, PTL

\* What a transaction checked under its row locks is still true at its commit.
THEOREM LocksProtectChecks == Spec => []ChecksStillHold
<1>1. IndInv => ChecksStillHold
  BY DEF IndInv
<1>2. QED
  BY <1>1, Invariance, PTL

\* No movement or receipt is ever lost from a product's balance.
THEOREM NoLostUpdate == Spec => []StockMatchesLedger
<1>1. IndInv => StockMatchesLedger
  BY DEF IndInv
<1>2. QED
  BY <1>1, Invariance, PTL

\* No interleaving of movements and receipts overdraws or overflows a balance.
THEOREM NoOverdraft == Spec => []StockInRange
<1>1. IndInv => StockInRange
  BY DEF IndInv
<1>2. QED
  BY <1>1, Invariance, PTL

\* No interleaving of receipts receives more than was ordered.
THEOREM NoOverReceipt == Spec => []NeverOverReceived
<1>1. IndInv => NeverOverReceived
  BY DEF IndInv
<1>2. QED
  BY <1>1, Invariance, PTL

\* Receiving closes an order exactly when all of it has arrived.
THEOREM ReceivedIsComplete == Spec => []ReceivedMeansComplete
<1>1. IndInv => ReceivedMeansComplete
  BY DEF IndInv
<1>2. QED
  BY <1>1, Invariance, PTL

\* Nothing but a soft delete touches an order that is received or cancelled.
THEOREM TerminalIsFinal == Spec => TerminalOrdersFrozen
<1>1. IndInv /\ [Next]_vars =>
        [\A o \in Orders :
           order[o] # Unused /\ order[o].status \in {"received", "cancelled"} =>
             order'[o] = [order[o] EXCEPT !.deleted = order'[o].deleted]]_vars
  BY TerminalStep
<1>2. QED
  BY <1>1, Invariance, PTL DEF Spec, TerminalOrdersFrozen

\* Sessions, locks and transactions implement the atomic stock ledger.
THEOREM Refinement == Spec => ImplementsStockLedger
<1>1. Init => Ledger!Init
  BY DEF Init, Ledger!Init
<1>2. IndInv /\ [Next]_vars => [Ledger!Next]_(Ledger!vars)
  BY StockStep DEF StockVars, Ledger!vars
<1>3. QED
  BY <1>1, <1>2, Invariance, PTL DEF Spec, ImplementsStockLedger, Ledger!Spec

-----------------------------------------------------------------------------
(* What sessions wait for: row locks and idempotency keys                    *)

Ordering == {"po_begin", "po_receipt", "po_product", "po_commit"}

\* Only receipts of users carry a client's key, a loop of drafts has something
\* left, and a session that has a product row locked is past its last wait.
SessionSound(s) ==
  /\ tx[s].pc \in Ordering => (tx[s].key \in Keys => tx[s].byUser /\ tx[s].to = "received")
  /\ tx[s].pc = "auto" => tx[s].todo # {}
  /\ \A p \in Products : prodLock[p] = s => tx[s].pc \in {"move_commit", "po_commit"}
  /\ \A o \in Orders : orderLock[o] = s => tx[s].pc \in {"po_receipt", "po_product", "po_commit"}

SessionsSound == \A s \in Sessions : SessionSound(s)

\* The session has inserted key k and has not committed yet.
HasKey(s, k) == tx[s].pc \in {"po_product", "po_commit"} /\ tx[s].key = k

\* The unique index: an uncommitted key is one session's, and nobody has
\* committed it before.
KeysReserved ==
  \A k \in Keys, s \in Sessions : HasKey(s, k) =>
    /\ receipts[k] = NoReceipt
    /\ \A r \in Sessions : HasKey(r, k) => r = s

WaitInv == IndInv /\ SessionsSound /\ KeysReserved /\ KeyAppliedOnce

-----------------------------------------------------------------------------
(* A step of session s leaves the other sessions and their locks alone       *)

OthersAlone(s) ==
  /\ \A r \in Sessions : r # s => tx'[r] = tx[r]
  /\ \A r \in Sessions, p \in Products : r # s /\ prodLock'[p] = r => prodLock[p] = r
  /\ \A r \in Sessions, o \in Orders : r # s /\ orderLock'[o] = r => orderLock[o] = r

LEMMA SoundFrame ==
  ASSUME SessionsSound, NEW s \in Sessions, OthersAlone(s), SessionSound(s)'
  PROVE  SessionsSound'
<1>1. ASSUME NEW r \in Sessions, r # s
      PROVE  SessionSound(r)'
  BY <1>1 DEF SessionsSound, SessionSound, OthersAlone
<1>2. QED
  BY <1>1 DEF SessionsSound

\* The keys of a session that inserts none and commits none.
LEMMA KeysFrame ==
  ASSUME KeysReserved, KeyAppliedOnce, NEW s \in Sessions, OthersAlone(s),
         UNCHANGED <<receipts, applied>>,
         \A k \in Keys : HasKey(s, k)' => HasKey(s, k)
  PROVE  KeysReserved' /\ KeyAppliedOnce'
<1>1. \A r \in Sessions, k \in Keys : HasKey(r, k)' => HasKey(r, k)
  BY DEF HasKey, OthersAlone
<1>2. QED
  BY <1>1 DEF KeysReserved, KeyAppliedOnce

\* The end of a transaction leaves nothing behind.
LEMMA FinishAlone ==
  ASSUME TypeOK, NEW s \in Sessions, Finish(s)
  PROVE  OthersAlone(s) /\ SessionSound(s)' /\ \A k \in Keys : ~HasKey(s, k)'
<1>1. tx'[s] = Idle /\ \A r \in Sessions : r # s => tx'[r] = tx[r]
  BY DEF Finish, TypeOK
<1>2. tx'[s].pc = "idle"
  BY <1>1 DEF Idle
<1>3. /\ \A p \in Products : prodLock'[p] = IF prodLock[p] = s THEN NoOne ELSE prodLock[p]
      /\ \A o \in Orders : orderLock'[o] = IF orderLock[o] = s THEN NoOne ELSE orderLock[o]
  BY DEF Finish
<1>4. OthersAlone(s)
  BY <1>1, <1>3, NoOneAssumption DEF OthersAlone
<1>5. SessionSound(s)'
  BY <1>2, <1>3, NoOneAssumption DEF SessionSound, Ordering
<1>6. QED
  BY <1>2, <1>4, <1>5 DEF HasKey

\* A transaction that ends without a receipt.
LEMMA FinishWaits ==
  ASSUME WaitInv, IndInv', NEW s \in Sessions, Finish(s), UNCHANGED <<receipts, applied>>
  PROVE  WaitInv'
<1>1. OthersAlone(s) /\ SessionSound(s)' /\ \A k \in Keys : ~HasKey(s, k)'
  BY FinishAlone DEF WaitInv, IndInv
<1>2. QED
  BY <1>1, SoundFrame, KeysFrame DEF WaitInv

LEMMA RollbackWaits ==
  ASSUME WaitInv, IndInv', NEW s \in Sessions, Rollback(s)
  PROVE  WaitInv'
BY FinishWaits DEF Rollback, rows

-----------------------------------------------------------------------------
(* The steps of a session *)

\* A new request holds no lock and no key.
LEMMA RequestWaits ==
  ASSUME WaitInv, IndInv', NEW s \in Sessions, Request(s)
  PROVE  WaitInv'
<1> TypeOK
  BY DEF WaitInv, IndInv
<1>1. /\ tx[s] = Idle /\ UNCHANGED <<rows, locks>>
      /\ \A r \in Sessions : r # s => tx'[r] = tx[r]
  BY DEF Request, MovementRequest, TransitionRequest, ReceiveRequest, MarkRequest,
         AutoRequest, Start, TypeOK
<1>2. /\ tx'[s].pc \in {"move_lock", "po_begin", "mark", "auto"}
      /\ tx'[s].pc = "po_begin" => (tx'[s].key \in Keys => tx'[s].byUser /\ tx'[s].to = "received")
      /\ tx'[s].pc = "auto" => tx'[s].todo # {}
  <2>1. ASSUME NEW p \in Products, NEW type \in Types, NEW q \in Quantities,
               MovementRequest(s, p, type, q)
        PROVE  tx'[s].pc = "move_lock"
    BY <2>1 DEF MovementRequest, Start, TypeOK
  <2>2. ASSUME NEW o \in Orders, NEW to \in Statuses, TransitionRequest(s, o, to)
        PROVE  tx'[s].pc = "po_begin" /\ tx'[s].key \notin Keys
    BY <2>2, FreshKeyAssumption DEF TransitionRequest, Start, TypeOK
  <2>3. ASSUME NEW o \in Orders, NEW q \in Quantities, NEW k \in Keys \cup {FreshKey},
               ReceiveRequest(s, o, q, k)
        PROVE  tx'[s].pc = "po_begin" /\ tx'[s].byUser /\ tx'[s].to = "received"
    BY <2>3 DEF ReceiveRequest, Start, TypeOK
  <2>4. ASSUME NEW p \in Products, NEW q \in Quantities, MarkRequest(s, p, q)
        PROVE  tx'[s].pc = "mark"
    BY <2>4 DEF MarkRequest, Start, TypeOK
  <2>5. ASSUME AutoRequest(s)
        PROVE  tx'[s].pc = "auto" /\ tx'[s].todo # {}
    BY <2>5 DEF AutoRequest, Start, TypeOK
  <2>6. QED
    BY <2>1, <2>2, <2>3, <2>4, <2>5 DEF Request
<1>3. (\A p \in Products : prodLock[p] # s) /\ (\A o \in Orders : orderLock[o] # s)
  BY <1>1 DEF WaitInv, SessionsSound, SessionSound, Idle
<1>4. OthersAlone(s) /\ SessionSound(s)'
  BY <1>1, <1>2, <1>3 DEF OthersAlone, SessionSound, Ordering, locks
<1>5. \A k \in Keys : ~HasKey(s, k)'
  BY <1>2 DEF HasKey
<1>6. QED
  BY <1>1, <1>4, <1>5, SoundFrame, KeysFrame DEF WaitInv, rows

LEMMA MovementWaits ==
  ASSUME WaitInv, IndInv', NEW s \in Sessions, MovementLock(s) \/ MovementCommit(s)
  PROVE  WaitInv'
<1> TypeOK /\ SessionSound(s)
  BY DEF WaitInv, IndInv, SessionsSound
<1>1. CASE MovementLock(s) /\ MovementAccepts(s)
  <2> DEFINE p == tx[s].product
  <2>1. tx[s] \in MoveTx /\ p \in Products
    BY <1>1, TxKind DEF MovementLock, MoveTx
  <2>2. /\ tx' = [tx EXCEPT ![s].pc = "move_commit", ![s].seen = current_stock[p]]
        /\ prodLock' = [prodLock EXCEPT ![p] = s]
        /\ UNCHANGED <<rows, orderLock>> /\ tx[s].pc = "move_lock"
    BY <1>1 DEF MovementLock, Rollback
  <2>3. tx'[s].pc = "move_commit" /\ \A r \in Sessions : r # s => tx'[r] = tx[r]
    BY <2>1, <2>2 DEF TypeOK, MoveTx
  <2>4. OthersAlone(s)
    BY <2>1, <2>2, <2>3 DEF OthersAlone, TypeOK
  <2>5. SessionSound(s)'
    BY <2>2, <2>3 DEF SessionSound, Ordering
  <2>6. \A k \in Keys : ~HasKey(s, k)'
    BY <2>3 DEF HasKey
  <2>7. QED
    BY <2>2, <2>4, <2>5, <2>6, SoundFrame, KeysFrame DEF WaitInv, rows
<1>2. CASE MovementLock(s) /\ ~MovementAccepts(s)
  BY <1>2, RollbackWaits DEF MovementLock
<1>3. CASE MovementCommit(s)
  BY <1>3, FinishWaits DEF MovementCommit
<1>4. QED
  BY <1>1, <1>2, <1>3

LEMMA PoBeginWaits ==
  ASSUME WaitInv, IndInv', NEW s \in Sessions, PoBegin(s)
  PROVE  WaitInv'
<1> TypeOK /\ SessionSound(s)
  BY DEF WaitInv, IndInv, SessionsSound
<1> DEFINE o == tx[s].order
<1>1. tx[s] \in OrderTx /\ o \in Orders /\ tx[s].pc = "po_begin"
  BY TxKind DEF PoBegin, OrderTx
<1>2. CASE PoAccepts(s)
  <2> DEFINE pc == IF tx[s].to = "received" /\ tx[s].byUser THEN "po_receipt"
                   ELSE IF TouchesProduct(s) THEN "po_product" ELSE "po_commit"
  <2>1. /\ tx' = [tx EXCEPT ![s].pc = pc]
        /\ orderLock' = [orderLock EXCEPT ![o] = s]
        /\ UNCHANGED <<rows, prodLock>>
    BY <1>2 DEF PoBegin, Step, Rollback
  <2>2. /\ pc \in {"po_receipt", "po_product", "po_commit"}
        /\ tx[s].key \in Keys => pc = "po_receipt"
    BY <1>1 DEF SessionSound, Ordering
  <2> HIDE DEF pc
  <2>3. /\ tx'[s].pc = pc /\ tx'[s].key = tx[s].key
        /\ tx'[s].byUser = tx[s].byUser /\ tx'[s].to = tx[s].to
        /\ \A r \in Sessions : r # s => tx'[r] = tx[r]
    BY <1>1, <2>1 DEF OrderTx, TypeOK
  <2>4. OthersAlone(s)
    BY <1>1, <2>1, <2>3 DEF OthersAlone, TypeOK
  <2>5. SessionSound(s)'
    BY <1>1, <2>1, <2>2, <2>3 DEF SessionSound, Ordering
  <2>6. \A k \in Keys : ~HasKey(s, k)'
    BY <2>2, <2>3 DEF HasKey
  <2>7. QED
    BY <2>1, <2>4, <2>5, <2>6, SoundFrame, KeysFrame DEF WaitInv, rows
<1>3. CASE ~PoAccepts(s)
  BY <1>3, RollbackWaits DEF PoBegin
<1>4. QED
  BY <1>2, <1>3

\* The only step that takes a key: it waited for every uncommitted insert of the
\* key and found no committed one.
LEMMA PoReceiptWaits ==
  ASSUME WaitInv, IndInv', NEW s \in Sessions, PoReceipt(s)
  PROVE  WaitInv'
<1> TypeOK /\ SessionSound(s)
  BY DEF WaitInv, IndInv, SessionsSound
<1> DEFINE k == tx[s].key
<1>1. tx[s] \in OrderTx /\ tx[s].pc = "po_receipt" /\ ~KeyInFlight(s, k)
  BY TxKind DEF PoReceipt
<1>2. CASE KeyUnused(k)
  <2>1. tx' = [tx EXCEPT ![s].pc = "po_product"] /\ UNCHANGED <<rows, locks>>
    BY <1>2 DEF PoReceipt, Step, Rollback
  <2>2. /\ tx'[s].pc = "po_product" /\ tx'[s].key = k
        /\ tx'[s].byUser = tx[s].byUser /\ tx'[s].to = tx[s].to
        /\ \A r \in Sessions : r # s => tx'[r] = tx[r]
    BY <1>1, <2>1 DEF OrderTx, TypeOK
  <2>3. OthersAlone(s)
    BY <2>1, <2>2 DEF OthersAlone, locks
  <2>4. SessionSound(s)'
    BY <1>1, <2>1, <2>2 DEF SessionSound, Ordering, locks
  <2>5. k \in Keys => \A r \in Sessions : r # s => ~HasKey(r, k)
    <3>1. ASSUME k \in Keys, NEW r \in Sessions, r # s, HasKey(r, k)
          PROVE  FALSE
      <4>1. tx[r].byUser
        BY <3>1 DEF HasKey, WaitInv, SessionsSound, SessionSound, Ordering
      <4>2. QED
        BY <1>1, <3>1, <4>1, FreshKeyAssumption DEF HasKey, KeyInFlight
    <3>2. QED
      BY <3>1
  <2>6. /\ \A i \in Keys : HasKey(s, i)' <=> i = k
        /\ \A r \in Sessions, i \in Keys : r # s => (HasKey(r, i)' <=> HasKey(r, i))
    BY <2>2 DEF HasKey
  <2>7. receipts' = receipts /\ applied' = applied /\ (k \in Keys => receipts[k] = NoReceipt)
    BY <1>2, <2>1 DEF rows, KeyUnused
  <2>8. KeysReserved' /\ KeyAppliedOnce'
    BY <2>5, <2>6, <2>7 DEF WaitInv, KeysReserved, KeyAppliedOnce
  <2>9. QED
    BY <2>3, <2>4, <2>8, SoundFrame DEF WaitInv
<1>3. CASE ~KeyUnused(k)
  BY <1>3, RollbackWaits DEF PoReceipt
<1>4. QED
  BY <1>2, <1>3

LEMMA PoProductWaits ==
  ASSUME WaitInv, IndInv', NEW s \in Sessions, PoProduct(s)
  PROVE  WaitInv'
<1> TypeOK /\ SessionSound(s)
  BY DEF WaitInv, IndInv, SessionsSound
<1> DEFINE p == order[tx[s].order].product
<1>1. tx[s] \in OrderTx /\ tx[s].pc = "po_product"
  BY TxKind DEF PoProduct
<1>2. CASE ProductAccepts(s)
  <2>1. /\ tx' = [tx EXCEPT ![s].pc = "po_commit", ![s].seen = current_stock[p]]
        /\ prodLock' = [prodLock EXCEPT ![p] = s]
        /\ UNCHANGED <<rows, orderLock>>
    BY <1>2 DEF PoProduct, Rollback
  <2>2. /\ tx'[s].pc = "po_commit" /\ tx'[s].key = tx[s].key
        /\ tx'[s].byUser = tx[s].byUser /\ tx'[s].to = tx[s].to
        /\ \A r \in Sessions : r # s => tx'[r] = tx[r]
    BY <1>1, <2>1 DEF OrderTx, TypeOK
  <2>3. OthersAlone(s)
    BY <2>1, <2>2 DEF OthersAlone, TypeOK
  <2>4. SessionSound(s)'
    BY <1>1, <2>1, <2>2 DEF SessionSound, Ordering
  <2>5. \A k \in Keys : HasKey(s, k)' => HasKey(s, k)
    BY <1>1, <2>2 DEF HasKey
  <2>6. QED
    BY <2>1, <2>3, <2>4, <2>5, SoundFrame, KeysFrame DEF WaitInv, rows
<1>3. CASE ~ProductAccepts(s)
  BY <1>3, RollbackWaits DEF PoProduct
<1>4. QED
  BY <1>2, <1>3

\* COMMIT of a receipt spends the key, which nobody else has.
LEMMA PoCommitWaits ==
  ASSUME WaitInv, IndInv', NEW s \in Sessions, PoCommit(s)
  PROVE  WaitInv'
<1> TypeOK /\ TypeOK'
  BY DEF WaitInv, IndInv
<1> DEFINE k == tx[s].key
<1>1. CASE tx[s].to # "received" \/ k \notin Keys
  BY <1>1, FinishWaits DEF PoCommit, CommitStatus, CommitReceive
<1>2. CASE tx[s].to = "received" /\ k \in Keys
  <2>1. PICK x \in Orders \X Quantities : receipts' = [receipts EXCEPT ![k] = x]
    <3> DEFINE x == <<tx[s].order, ReceiveQty(s)>>
    <3>1. tx[s] \in OrderTx /\ tx[s].order \in Orders /\ order[tx[s].order] # Unused
      BY TxKind DEF PoCommit, OrderTx, WaitInv, IndInv, ChecksStillHold, Checked
    <3>2. ReceiveQty(s) \in Quantities
      BY <3>1, OrderKind DEF ReceiveQty, OrderTx, OrderRow
    <3>3. receipts' = [receipts EXCEPT ![k] = x]
      BY <1>2 DEF PoCommit, CommitReceive
    <3>4. QED
      BY <3>1, <3>2, <3>3
  <2>2. applied' = [applied EXCEPT ![k] = @ + 1] /\ Finish(s)
    BY <1>2 DEF PoCommit, CommitReceive
  <2>3. HasKey(s, k)
    BY DEF HasKey, PoCommit
  <2>4. receipts[k] = NoReceipt /\ applied[k] = 0 /\ \A r \in Sessions : HasKey(r, k) => r = s
    BY <1>2, <2>3 DEF WaitInv, KeysReserved, KeyAppliedOnce
  <2>5. OthersAlone(s) /\ SessionSound(s)' /\ \A i \in Keys : ~HasKey(s, i)'
    BY <2>2, FinishAlone
  <2>6. \A r \in Sessions, i \in Keys : HasKey(r, i)' => r # s /\ HasKey(r, i) /\ i # k
    <3>1. \A r \in Sessions, i \in Keys : r # s => (HasKey(r, i)' <=> HasKey(r, i))
      BY <2>5 DEF HasKey, OthersAlone
    <3>2. QED
      BY <2>4, <2>5, <3>1
  <2>7. /\ receipts'[k] # NoReceipt /\ applied'[k] = 1
        /\ \A i \in Keys : i # k => receipts'[i] = receipts[i] /\ applied'[i] = applied[i]
    BY <1>2, <2>1, <2>2, <2>4, NoReceiptAssumption DEF TypeOK
  <2>8. KeysReserved'
    BY <2>6, <2>7 DEF WaitInv, KeysReserved
  <2>9. KeyAppliedOnce'
    BY <2>7 DEF WaitInv, KeyAppliedOnce
  <2>10. QED
    BY <2>5, <2>8, <2>9, SoundFrame DEF WaitInv
<1>3. QED
  BY <1>1, <1>2

LEMMA DraftWaits ==
  ASSUME WaitInv, IndInv', NEW s \in Sessions,
         \/ MarkCommit(s)
         \/ \E p \in Products, q \in Quantities \cup {0} : AutoStep(s, p, q)
  PROVE  WaitInv'
<1> TypeOK /\ SessionSound(s)
  BY DEF WaitInv, IndInv, SessionsSound
<1>1. CASE MarkCommit(s)
  BY <1>1, FinishWaits, RollbackWaits DEF MarkCommit, DraftAndSetOnOrder
<1>2. ASSUME NEW p \in Products, NEW q \in Quantities \cup {0}, AutoStep(s, p, q)
      PROVE  WaitInv'
  <2>1. CASE Insertable(<<p, today>>, q)
    <3>1. /\ tx[s].pc = "auto" /\ p \in tx[s].todo
          /\ UNCHANGED <<receipts, applied, locks>>
          /\ tx' = [tx EXCEPT ![s] = IF tx[s].todo = {p} THEN Idle
                                     ELSE [pc |-> "auto", todo |-> tx[s].todo \ {p}]]
      BY <1>2, <2>1 DEF AutoStep, DraftAndSetOnOrder, Rollback
    <3>2. /\ \A r \in Sessions : r # s => tx'[r] = tx[r]
          /\ tx'[s].pc \in {"idle", "auto"}
          /\ tx'[s].pc = "auto" => tx'[s].todo # {}
      <4>1. tx[s] \in AutoTx
        BY <3>1, TxKind
      <4>2. CASE tx[s].todo = {p}
        BY <3>1, <4>2 DEF TypeOK, Idle
      <4>3. CASE tx[s].todo # {p}
        <5>1. tx[s].todo \ {p} # {}
          BY <3>1, <4>3
        <5>2. QED
          BY <3>1, <4>3, <5>1 DEF TypeOK
      <4>4. QED
        BY <4>2, <4>3
    <3>3. OthersAlone(s)
      BY <3>1, <3>2 DEF OthersAlone, locks
    <3>4. SessionSound(s)'
      BY <3>1, <3>2 DEF SessionSound, Ordering, locks
    <3>5. \A k \in Keys : ~HasKey(s, k)'
      BY <3>2 DEF HasKey
    <3>6. QED
      BY <3>1, <3>3, <3>4, <3>5, SoundFrame, KeysFrame DEF WaitInv
  <2>2. CASE ~Insertable(<<p, today>>, q)
    BY <1>2, <2>2, RollbackWaits DEF AutoStep
  <2>3. QED
    BY <2>1, <2>2
<1>3. QED
  BY <1>1, <1>2

\* Requests of one step take no lock that they keep, and no key.
LEMMA SingleWaits ==
  ASSUME WaitInv, IndInv', Single
  PROVE  WaitInv'
<1>1. UNCHANGED <<receipts, applied, prodLock, orderLock, tx>>
  BY DEF Single, ProductDelete, ProductCreate, PoCreate, PoSoftDelete, NextDay, locks
<1>2. QED
  BY <1>1 DEF WaitInv, SessionsSound, SessionSound, Ordering, KeysReserved, HasKey, KeyAppliedOnce

-----------------------------------------------------------------------------
(* Theorems *)

\* The invariant behind the two theorems below: what a session holds follows
\* from where it is in its transaction.
THEOREM WaitInvariance == Spec => []WaitInv
<1>1. Init => WaitInv
  <2>1. SUFFICES ASSUME Init
                 PROVE  WaitInv
    OBVIOUS
  <2>2. SessionsSound
    BY <2>1, NoOneAssumption DEF Init, SessionsSound, SessionSound, Idle, Ordering
  <2>3. KeysReserved /\ KeyAppliedOnce
    BY <2>1 DEF Init, KeysReserved, HasKey, KeyAppliedOnce, Idle
  <2>4. QED
    BY <2>1, <2>2, <2>3, InitInv DEF WaitInv
<1>2. WaitInv /\ [Next]_vars => WaitInv'
  <2>1. SUFFICES ASSUME WaitInv, [Next]_vars
                 PROVE  WaitInv'
    OBVIOUS
  <2>2. IndInv'
    BY <2>1, NextInv DEF WaitInv
  <2>3. CASE UNCHANGED vars
    BY <2>1, <2>2, <2>3 DEF vars, rows, locks, WaitInv, SessionsSound, SessionSound, Ordering,
                      KeysReserved, HasKey, KeyAppliedOnce
  <2>4. CASE Single
    BY <2>1, <2>2, <2>4, SingleWaits
  <2>5. ASSUME NEW s \in Sessions, Request(s) \/ Abort(s)
        PROVE  WaitInv'
    BY <2>1, <2>2, <2>5, RequestWaits, RollbackWaits DEF Abort
  <2>6. ASSUME NEW s \in Sessions, Advance(s)
        PROVE  WaitInv'
    BY <2>1, <2>2, <2>6, MovementWaits, PoBeginWaits, PoReceiptWaits, PoProductWaits,
       PoCommitWaits, DraftWaits DEF Advance
  <2>7. QED
    BY <2>1, <2>3, <2>4, <2>5, <2>6 DEF Next
<1>3. QED
  BY <1>1, <1>2, PTL DEF Spec

\* However a client repeats and overlaps its receipts, its key moves stock once,
\* and has a goods_receipts row exactly when it did.
THEOREM KeyMovesStockOnce == Spec => []KeyAppliedOnce
<1>1. WaitInv => KeyAppliedOnce
  BY DEF WaitInv
<1>2. QED
  BY <1>1, WaitInvariance, PTL

\* Whoever has a product's row locked can step.
LEMMA ProductHolderSteps ==
  ASSUME WaitInv, NEW p \in Products, ~ProductFree(p)
  PROVE  \E r \in Sessions : tx[r] # Idle /\ ~Blocked(r)
<1>1. PICK r \in Sessions : prodLock[p] = r
  BY DEF ProductFree, WaitInv, IndInv, TypeOK
<1>2. tx[r].pc \in {"move_commit", "po_commit"}
  BY <1>1 DEF WaitInv, SessionsSound, SessionSound
<1>3. tx[r] # Idle /\ ~Blocked(r)
  BY <1>2 DEF Idle, Blocked
<1>4. QED
  BY <1>3

\* A session past its order and its key can step, or the holder of its product can.
LEMMA PastKeySteps ==
  ASSUME WaitInv, NEW s \in Sessions, tx[s].pc \in {"po_product", "po_commit"}
  PROVE  \E r \in Sessions : tx[r] # Idle /\ ~Blocked(r)
<1>1. tx[s] # Idle
  BY DEF Idle
<1>2. CASE Blocked(s)
  <2>1. ~ProductFree(order[tx[s].order].product)
    BY <1>2 DEF Blocked
  <2>2. order[tx[s].order].product \in Products
    BY TxKind, OrderKind DEF WaitInv, IndInv, ChecksStillHold, Checked, OrderTx, OrderRow
  <2>3. QED
    BY <2>1, <2>2, ProductHolderSteps
<1>3. CASE ~Blocked(s)
  BY <1>1, <1>3
<1>4. QED
  BY <1>2, <1>3

\* The order row, the receipt key and the product row are taken in this order,
\* so among the requests under way there is always one that can step.
THEOREM DeadlockFree == Spec => []NoDeadlock
<1>1. WaitInv => NoDeadlock
  <2>1. SUFFICES ASSUME WaitInv, NEW s \in Sessions, tx[s] # Idle
                 PROVE  \E r \in Sessions : tx[r] # Idle /\ ~Blocked(r)
    BY DEF NoDeadlock
  <2> TypeOK
    BY <2>1 DEF WaitInv, IndInv
  <2>2. ASSUME NEW r \in Sessions, tx[r].pc = "po_receipt"
        PROVE  \E x \in Sessions : tx[x] # Idle /\ ~Blocked(x)
    <3>1. CASE Blocked(r)
      <4>1. PICK x \in Sessions : tx[x].pc \in {"po_product", "po_commit"}
        BY <2>2, <3>1 DEF Blocked, KeyInFlight
      <4>2. QED
        BY <2>1, <4>1, PastKeySteps
    <3>2. CASE ~Blocked(r)
      BY <2>2, <3>2 DEF Idle
    <3>3. QED
      BY <3>1, <3>2
  <2>3. CASE ~Blocked(s)
    BY <2>1, <2>3
  <2>4. CASE tx[s].pc = "move_lock" /\ Blocked(s)
    <3>1. tx[s].product \in Products /\ ~ProductFree(tx[s].product)
      BY <2>4, TxKind DEF Blocked, MoveTx
    <3>2. QED
      BY <2>1, <3>1, ProductHolderSteps
  <2>5. CASE tx[s].pc = "mark" /\ Blocked(s)
    <3>1. tx[s].order[1] \in Products /\ ~ProductFree(tx[s].order[1])
      BY <2>5, TxKind DEF Blocked, MarkTx, AutoNumbers
    <3>2. QED
      BY <2>1, <3>1, ProductHolderSteps
  <2>6. CASE tx[s].pc = "auto" /\ Blocked(s)
    <3>1. PICK p \in tx[s].todo : p \in Products
      BY <2>1, <2>6, TxKind DEF AutoTx, WaitInv, SessionsSound, SessionSound
    <3>2. ~ProductFree(p)
      BY <2>6, <3>1 DEF Blocked
    <3>3. QED
      BY <2>1, <3>1, <3>2, ProductHolderSteps
  <2>7. CASE tx[s].pc = "po_begin" /\ Blocked(s)
    <3>1. tx[s].order \in Orders /\ ~OrderFree(tx[s].order)
      BY <2>7, TxKind DEF Blocked, OrderTx
    <3>2. PICK r \in Sessions : orderLock[tx[s].order] = r
      BY <3>1 DEF OrderFree, TypeOK
    <3>3. tx[r].pc \in {"po_receipt", "po_product", "po_commit"}
      BY <2>1, <3>1, <3>2 DEF WaitInv, SessionsSound, SessionSound
    <3>4. QED
      BY <2>1, <2>2, <3>3, PastKeySteps
  <2>8. CASE tx[s].pc = "po_receipt"
    BY <2>2, <2>8
  <2>9. CASE tx[s].pc \in {"po_product", "po_commit"}
    BY <2>1, <2>9, PastKeySteps
  <2>10. QED
    BY <2>3, <2>4, <2>5, <2>6, <2>7, <2>8, <2>9 DEF Blocked
<1>2. QED
  BY <1>1, WaitInvariance, PTL

-----------------------------------------------------------------------------
(* Sums.  MapThenSumSet adds up what the rows of a set owe by taking them one *)
(* by one.  Every fact about it comes from a counterexample of least          *)
(* cardinality.                                                               *)

LEMMA LeastOf ==
  ASSUME NEW T, T \subseteq Nat, T # {}
  PROVE  \E x \in T : \A y \in T : x <= y
<1>1. PICK x \in T : \A y \in T : ~(<<y, x>> \in OpToRel(<, Nat))
  BY NatLessThanWellFounded, WFMin, Zenon
<1>2. ASSUME NEW y \in T
      PROVE  x <= y
  <2>1. x \in Nat /\ y \in Nat /\ ~(y < x)
    BY <1>1 DEF OpToRel
  <2>2. QED
    BY <2>1
<1>3. QED
  BY <1>2

\* What is outstanding on row x of the table r.
Owes(r, x) == r[x].quantity - r[x].received

First(s) == CHOOSE x \in s : TRUE

\* One unfolding of the sum over s, given the sums g over smaller sets.
Unfold(r, g, s) == IF s = {} THEN 0 ELSE Owes(r, First(s)) + g[s \ {First(s)}]

Partial(r, S) == CHOOSE g : g = [s \in SUBSET S |-> Unfold(r, g, s)]

\* What is outstanding on the rows S of the table r.
Total(r, S) == Partial(r, S)[S]

LEMMA FirstIn ==
  ASSUME NEW s, s # {}
  PROVE  First(s) \in s
BY Zenon DEF First

LEMMA SumIsTotal ==
  ASSUME NEW S
  PROVE  MapThenSumSet(Outstanding, S) = Total(order, S)
BY Zenon DEF MapThenSumSet, MapThenFoldSet, Total, Partial, Unfold, First, Owes, Outstanding

\* Taking an element out of a subset of a finite set.
LEMMA Smaller ==
  ASSUME NEW S, IsFiniteSet(S), NEW t \in SUBSET S, NEW x \in t
  PROVE  /\ t \ {x} \in SUBSET S
         /\ Cardinality(t) \in Nat /\ Cardinality(t \ {x}) \in Nat
         /\ Cardinality(t \ {x}) = Cardinality(t) - 1
<1>1. IsFiniteSet(t)
  BY FS_Subset
<1>2. QED
  BY <1>1, FS_RemoveElement, FS_CardinalityType

\* The recursion is well founded on the subsets of a finite set.
LEMMA PartialExists ==
  ASSUME NEW r, NEW S, IsFiniteSet(S)
  PROVE  \E g : g = [s \in SUBSET S |-> Unfold(r, g, s)]
<1> DEFINE Small(n) == {s \in SUBSET S : Cardinality(s) <= n}
           Has(n) == \E g : g = [s \in Small(n) |-> Unfold(r, g, s)]
           N == Cardinality(S)
           T == {n \in Nat : ~Has(n)}
<1>1. N \in Nat
  BY FS_CardinalityType
<1>2. \A s \in SUBSET S : Cardinality(s) \in Nat /\ Cardinality(s) <= N
  BY FS_Subset, FS_CardinalityType
<1>3. \A s \in SUBSET S : s # {} => /\ First(s) \in s /\ s \ {First(s)} \in SUBSET S
                                    /\ Cardinality(s \ {First(s)}) = Cardinality(s) - 1
  BY FirstIn, Smaller
<1>4. Has(0)
  <2> DEFINE g == [s \in Small(0) |-> 0]
  <2>1. ASSUME NEW s \in Small(0)
        PROVE  s = {}
    <3>1. SUFFICES ASSUME s # {} PROVE FALSE
      OBVIOUS
    <3>2. s \in SUBSET S /\ Cardinality(s) = 0
      BY <1>2, <2>1
    <3>3. s \ {First(s)} \in SUBSET S /\ Cardinality(s \ {First(s)}) = 0 - 1
      BY <1>3, <3>1, <3>2
    <3>4. Cardinality(s \ {First(s)}) \in Nat
      BY <1>2, <3>3
    <3>5. QED
      BY <3>3, <3>4
  <2> HIDE DEF g
  <2>2. ASSUME NEW s \in Small(0)
        PROVE  Unfold(r, g, s) = 0
    BY <2>1, <2>2, Zenon DEF Unfold
  <2>3. g = [s \in Small(0) |-> Unfold(r, g, s)]
    BY <2>2, Zenon DEF g
  <2>4. QED
    BY <2>3
<1>5. ASSUME NEW n \in Nat, Has(n)
      PROVE  Has(n + 1)
  <2>1. PICK g : g = [s \in Small(n) |-> Unfold(r, g, s)]
    BY <1>5
  <2> DEFINE h == [s \in Small(n + 1) |-> Unfold(r, g, s)]
  <2>2. ASSUME NEW s \in Small(n)
        PROVE  s \in Small(n + 1) /\ h[s] = g[s]
    <3>1. s \in Small(n + 1)
      BY <1>2, <2>2
    <3>2. h[s] = Unfold(r, g, s)
      BY <3>1
    <3>3. g[s] = Unfold(r, g, s)
      BY <2>1, <2>2
    <3>4. QED
      BY <3>1, <3>2, <3>3
  <2> HIDE DEF h
  <2>3. ASSUME NEW s \in Small(n + 1)
        PROVE  Unfold(r, g, s) = Unfold(r, h, s)
    <3>1. CASE s = {}
      BY <3>1 DEF Unfold
    <3>2. CASE s # {}
      <4>1. s \ {First(s)} \in Small(n)
        BY <1>2, <1>3, <2>3, <3>2
      <4>2. h[s \ {First(s)}] = g[s \ {First(s)}]
        BY <2>2, <4>1
      <4>3. QED
        BY <4>2, Zenon DEF Unfold
    <3>3. QED
      BY <3>1, <3>2
  <2>4. h = [s \in Small(n + 1) |-> Unfold(r, h, s)]
    BY <2>3, Zenon DEF h
  <2>5. QED
    BY <2>4
<1> HIDE DEF Has
<1>6. T = {}
  <2>1. SUFFICES ASSUME T # {} PROVE FALSE
    OBVIOUS
  <2>2. PICK n \in T : \A m \in T : n <= m
    BY <2>1, LeastOf
  <2>3. n # 0
    BY <1>4, <2>2
  <2>4. n - 1 \in Nat /\ n - 1 \notin T
    BY <2>2, <2>3
  <2>5. Has((n - 1) + 1)
    BY <1>5, <2>4
  <2>6. QED
    BY <2>2, <2>5
<1>7. Has(N)
  BY <1>1, <1>6
<1>8. Small(N) = SUBSET S
  BY <1>2
<1>9. QED
  BY <1>7, <1>8, Zenon DEF Has

LEMMA PartialUnfolds ==
  ASSUME NEW r, NEW S, IsFiniteSet(S), NEW t \in SUBSET S
  PROVE  Partial(r, S)[t] = Unfold(r, Partial(r, S), t)
<1>1. Partial(r, S) = [s \in SUBSET S |-> Unfold(r, Partial(r, S), s)]
  BY PartialExists, Zenon DEF Partial
<1>2. QED
  BY <1>1, Zenon

LEMMA PartialSplits ==
  ASSUME NEW r, NEW S, IsFiniteSet(S), NEW t \in SUBSET S
  PROVE  /\ t = {} => Partial(r, S)[t] = 0
         /\ t # {} => Partial(r, S)[t] = Owes(r, First(t)) + Partial(r, S)[t \ {First(t)}]
<1> DEFINE I == Partial(r, S)
<1> HIDE DEF I
<1>1. I[t] = Unfold(r, I, t)
  BY PartialUnfolds, Zenon DEF I
<1>2. QED
  BY <1>1 DEF Unfold, I

LEMMA PartialEmpty ==
  ASSUME NEW r, NEW S, IsFiniteSet(S)
  PROVE  Partial(r, S)[{}] = 0
BY PartialSplits

LEMMA PartialNat ==
  ASSUME NEW r, NEW S, IsFiniteSet(S), \A x \in S : Owes(r, x) \in Nat
  PROVE  \A t \in SUBSET S : Partial(r, S)[t] \in Nat
<1> DEFINE I == Partial(r, S)
           T == {Cardinality(t) : t \in {t \in SUBSET S : I[t] \notin Nat}}
<1> HIDE DEF I
<1>1. SUFFICES ASSUME T # {} PROVE FALSE
  BY DEF I
<1>2. T \subseteq Nat
  BY FS_Subset, FS_CardinalityType
<1>3. PICK n \in T : \A m \in T : n <= m
  BY <1>1, <1>2, LeastOf
<1>4. PICK t \in SUBSET S : I[t] \notin Nat /\ n = Cardinality(t)
  BY <1>3
<1>5. t # {} /\ I[t] = Owes(r, First(t)) + I[t \ {First(t)}]
  BY <1>4, PartialSplits DEF I
<1>6. First(t) \in t
  BY <1>5, FirstIn
<1>7. /\ t \ {First(t)} \in SUBSET S /\ n \in Nat
      /\ Cardinality(t \ {First(t)}) = n - 1
  BY <1>4, <1>6, Smaller
<1>8. n - 1 \notin T
  BY <1>3, <1>7
<1>9. I[t \ {First(t)}] \in Nat
  BY <1>7, <1>8
<1>10. Owes(r, First(t)) \in Nat
  BY <1>6
<1>11. QED
  BY <1>4, <1>5, <1>9, <1>10

\* The sum does not depend on the order in which elements are taken.
LEMMA PartialTakesAny ==
  ASSUME NEW r, NEW S, IsFiniteSet(S), \A x \in S : Owes(r, x) \in Nat
  PROVE  \A t \in SUBSET S : \A y \in t :
           Partial(r, S)[t] = Owes(r, y) + Partial(r, S)[t \ {y}]
<1> DEFINE I == Partial(r, S)
           Bad(t) == \E y \in t : I[t] # Owes(r, y) + I[t \ {y}]
           T == {Cardinality(t) : t \in {t \in SUBSET S : Bad(t)}}
<1> HIDE DEF I
<1>1. SUFFICES ASSUME T # {} PROVE FALSE
  BY DEF I
<1>2. T \subseteq Nat
  BY FS_Subset, FS_CardinalityType
<1>3. PICK n \in T : \A m \in T : n <= m
  BY <1>1, <1>2, LeastOf
<1>4. PICK t \in SUBSET S : Bad(t) /\ n = Cardinality(t)
  BY <1>3
<1>5. PICK y \in t : I[t] # Owes(r, y) + I[t \ {y}]
  BY <1>4
<1> DEFINE x == First(t)
<1> HIDE DEF x, Bad
<1>6. x \in t /\ I[t] = Owes(r, x) + I[t \ {x}]
  BY <1>5, FirstIn, PartialSplits DEF I, x
<1>7. x # y
  BY <1>5, <1>6
<1>8. /\ t \ {x} \in SUBSET S /\ Cardinality(t \ {x}) = n - 1
      /\ t \ {y} \in SUBSET S /\ Cardinality(t \ {y}) = n - 1 /\ n \in Nat
  BY <1>4, <1>5, <1>6, Smaller
<1>9. n - 1 \notin T
  BY <1>3, <1>8
<1>10. ~Bad(t \ {x}) /\ ~Bad(t \ {y})
  BY <1>8, <1>9
<1>11. I[t \ {x}] = Owes(r, y) + I[(t \ {x}) \ {y}]
  BY <1>5, <1>7, <1>10 DEF Bad
<1>12. I[t \ {y}] = Owes(r, x) + I[(t \ {y}) \ {x}]
  BY <1>6, <1>7, <1>10 DEF Bad
<1>13. (t \ {x}) \ {y} = (t \ {y}) \ {x}
  OBVIOUS
<1>14. I[(t \ {x}) \ {y}] \in Nat
  BY <1>8, PartialNat DEF I
<1>15. Owes(r, x) \in Nat /\ Owes(r, y) \in Nat
  BY <1>5, <1>6
<1>16. QED
  BY <1>5, <1>6, <1>11, <1>12, <1>13, <1>14, <1>15

\* Only the rows of the set matter.
LEMMA PartialAgrees ==
  ASSUME NEW r, NEW q, NEW S, NEW R, IsFiniteSet(S), IsFiniteSet(R)
  PROVE  \A t \in SUBSET (S \cap R) :
           (\A x \in t : Owes(r, x) = Owes(q, x)) => Partial(r, S)[t] = Partial(q, R)[t]
<1> DEFINE I == Partial(r, S)
           J == Partial(q, R)
           Bad(t) == (\A x \in t : Owes(r, x) = Owes(q, x)) /\ I[t] # J[t]
           T == {Cardinality(t) : t \in {t \in SUBSET (S \cap R) : Bad(t)}}
<1> HIDE DEF I, J
<1>1. SUFFICES ASSUME T # {} PROVE FALSE
  BY DEF I, J
<1>2. IsFiniteSet(S \cap R)
  BY FS_Subset
<1>3. T \subseteq Nat
  BY <1>2, FS_Subset, FS_CardinalityType
<1>4. PICK n \in T : \A m \in T : n <= m
  BY <1>1, <1>3, LeastOf
<1>5. PICK t \in SUBSET (S \cap R) : Bad(t) /\ n = Cardinality(t)
  BY <1>4
<1>6. t \in SUBSET S /\ t \in SUBSET R
  BY <1>5
<1>7. t # {}
  <2>1. I[{}] = 0 /\ J[{}] = 0
    BY PartialEmpty DEF I, J
  <2>2. QED
    BY <1>5, <2>1
<1> DEFINE y == First(t)
<1> HIDE DEF y
<1>8. y \in t /\ I[t] = Owes(r, y) + I[t \ {y}] /\ J[t] = Owes(q, y) + J[t \ {y}]
  <2>1. y \in t
    BY <1>7, FirstIn DEF y
  <2>2. I[t] = Owes(r, y) + I[t \ {y}]
    BY <1>6, <1>7, PartialSplits DEF I, y
  <2>3. J[t] = Owes(q, y) + J[t \ {y}]
    BY <1>6, <1>7, PartialSplits DEF J, y
  <2>4. QED
    BY <2>1, <2>2, <2>3
<1>9. t \ {y} \in SUBSET (S \cap R) /\ n \in Nat /\ Cardinality(t \ {y}) = n - 1
  BY <1>2, <1>5, <1>8, Smaller
<1>10. n - 1 \notin T
  BY <1>4, <1>9
<1>11. ~Bad(t \ {y})
  BY <1>9, <1>10
<1>12. I[t \ {y}] = J[t \ {y}]
  BY <1>5, <1>11
<1>13. Owes(r, y) = Owes(q, y)
  BY <1>5, <1>8
<1>14. QED
  BY <1>5, <1>8, <1>12, <1>13

LEMMA TotalEmpty ==
  ASSUME NEW r
  PROVE  Total(r, {}) = 0
BY FS_EmptySet, PartialSplits DEF Total

LEMMA TotalNat ==
  ASSUME NEW r, NEW S, IsFiniteSet(S), \A x \in S : Owes(r, x) \in Nat
  PROVE  Total(r, S) \in Nat
BY PartialNat DEF Total

LEMMA TotalWithout ==
  ASSUME NEW r, NEW S, IsFiniteSet(S), \A x \in S : Owes(r, x) \in Nat, NEW y \in S
  PROVE  Total(r, S) = Owes(r, y) + Total(r, S \ {y})
<1>1. Partial(r, S)[S] = Owes(r, y) + Partial(r, S)[S \ {y}]
  BY PartialTakesAny
<1>2. IsFiniteSet(S \ {y}) /\ S \ {y} \in SUBSET (S \cap (S \ {y}))
  BY FS_Subset
<1>3. Partial(r, S)[S \ {y}] = Partial(r, S \ {y})[S \ {y}]
  BY <1>2, PartialAgrees
<1>4. QED
  BY <1>1, <1>3 DEF Total

LEMMA TotalAgrees ==
  ASSUME NEW r, NEW q, NEW S, IsFiniteSet(S), \A x \in S : Owes(r, x) = Owes(q, x)
  PROVE  Total(r, S) = Total(q, S)
BY PartialAgrees DEF Total

-----------------------------------------------------------------------------
(* on_order *)

\* The open orders of p in the table r, and what they owe together.
OpenIn(r, p) == {o \in Orders : r[o] # Unused /\ r[o].product = p /\ r[o].status \in Open}
Owed(r, p) == Total(r, OpenIn(r, p))

\* What row o contributes.
Part(r, p, o) == IF o \in OpenIn(r, p) THEN Owes(r, o) ELSE 0

\* No row owes a negative quantity.
NothingNegative(r) == \A x \in Orders : r[x] # Unused => Owes(r, x) \in Nat

LEMMA OwedSplits ==
  ASSUME NEW r, NothingNegative(r), NEW p, IsFiniteSet(OpenIn(r, p)), NEW o \in Orders
  PROVE  /\ Part(r, p, o) \in Nat
         /\ Total(r, OpenIn(r, p) \ {o}) \in Nat
         /\ Owed(r, p) = Part(r, p, o) + Total(r, OpenIn(r, p) \ {o})
<1> DEFINE S == OpenIn(r, p)
<1>1. \A x \in S : Owes(r, x) \in Nat
  BY DEF NothingNegative, OpenIn
<1> HIDE DEF S
<1>2. IsFiniteSet(S) /\ IsFiniteSet(S \ {o})
  BY FS_Subset DEF S
<1>3. Total(r, S \ {o}) \in Nat
  BY <1>1, <1>2, TotalNat
<1>4. CASE o \in S
  BY <1>1, <1>2, <1>3, <1>4, TotalWithout DEF Part, Owed, S
<1>5. CASE o \notin S
  <2>1. S \ {o} = S
    BY <1>5
  <2>2. QED
    BY <1>3, <1>5, <2>1 DEF Part, Owed, S
<1>6. QED
  BY <1>4, <1>5

\* A change of one row changes the sum by what that row contributes.
LEMMA OneRow ==
  ASSUME NEW r, NEW q, NothingNegative(r), NothingNegative(q), NEW o \in Orders,
         \A x \in Orders : x # o => q[x] = r[x],
         NEW p, IsFiniteSet(OpenIn(r, p))
  PROVE  /\ IsFiniteSet(OpenIn(q, p))
         /\ Owed(q, p) \in Nat /\ Owed(r, p) \in Nat
         /\ Owed(q, p) + Part(r, p, o) = Owed(r, p) + Part(q, p, o)
         /\ Part(r, p, o) \in Nat /\ Part(q, p, o) \in Nat
         /\ Part(r, p, o) <= Owed(r, p)
<1> DEFINE S == OpenIn(r, p) \ {o}
<1>1. OpenIn(q, p) \ {o} = S /\ OpenIn(q, p) \subseteq OpenIn(r, p) \cup {o}
  <2>1. ASSUME NEW x \in Orders, x # o
        PROVE  x \in OpenIn(q, p) <=> x \in OpenIn(r, p)
    BY <2>1 DEF OpenIn
  <2>2. OpenIn(q, p) \subseteq Orders /\ OpenIn(r, p) \subseteq Orders
    BY DEF OpenIn
  <2>3. QED
    BY <2>1, <2>2
<1>2. \A x \in S : Owes(r, x) = Owes(q, x)
  BY DEF OpenIn, Owes
<1>3. IsFiniteSet(OpenIn(q, p)) /\ IsFiniteSet(S)
  BY <1>1, FS_AddElement, FS_Subset
<1>4. Total(r, S) = Total(q, S)
  BY <1>2, <1>3, TotalAgrees
<1>5. /\ Part(r, p, o) \in Nat /\ Total(r, S) \in Nat
      /\ Owed(r, p) = Part(r, p, o) + Total(r, S)
  BY OwedSplits
<1>6. /\ Part(q, p, o) \in Nat
      /\ Owed(q, p) = Part(q, p, o) + Total(q, S)
  <2>1. Owed(q, p) = Part(q, p, o) + Total(q, OpenIn(q, p) \ {o}) /\ Part(q, p, o) \in Nat
    BY <1>3, OwedSplits
  <2>2. QED
    BY <1>1, <2>1
<1>7. QED
  BY <1>3, <1>4, <1>5, <1>6

LEMMA PartOf ==
  ASSUME NEW r, NEW p, NEW o \in Orders
  PROVE  /\ r[o] = Unused => Part(r, p, o) = 0
         /\ r[o] # Unused => Part(r, p, o) = IF r[o].product = p /\ r[o].status \in Open
                                             THEN Owes(r, o) ELSE 0
BY DEF Part, OpenIn

LEMMA RowsNotNegative ==
  ASSUME NEW r \in [Orders -> OrderRow \cup {Unused}],
         \A x \in Orders : r[x] # Unused => r[x].received <= r[x].quantity
  PROVE  NothingNegative(r)
<1>1. SUFFICES ASSUME NEW x \in Orders, r[x] # Unused
               PROVE  Owes(r, x) \in Nat
  BY DEF NothingNegative
<1>2. r[x] \in OrderRow
  BY <1>1
<1>3. r[x].quantity \in Nat /\ r[x].received \in Nat
  BY <1>2, QuantitiesAssumption DEF OrderRow
<1>4. QED
  BY <1>1, <1>3 DEF Owes

\* Nothing has arrived on a draft: approving it adds its whole quantity.
DraftsFresh ==
  \A o \in Orders : order[o] # Unused /\ order[o].status = "draft" => order[o].received = 0

CountInv == /\ IndInv
            /\ DraftsFresh
            /\ \A p \in Products : IsFiniteSet(OpenIn(order, p))
            /\ \A p \in Products \ reordered : on_order[p] = Owed(order, p)

\* A step that changes one row, and on_order by what the row contributes.
LEMMA CountMoves ==
  ASSUME CountInv, IndInv', NEW o \in Orders,
         \A x \in Orders : x # o => order'[x] = order[x],
         order'[o] # Unused /\ order'[o].status = "draft" => order'[o].received = 0,
         \A p \in Products \ reordered' :
            /\ p \notin reordered
            /\ on_order[p] = Owed(order, p) /\ Part(order, p, o) <= on_order[p] =>
                 on_order'[p] + Part(order, p, o) = on_order[p] + Part(order', p, o)
  PROVE  CountInv'
<1>1. NothingNegative(order) /\ NothingNegative(order')
  <2>1. /\ order \in [Orders -> OrderRow \cup {Unused}]
        /\ \A x \in Orders : order[x] # Unused => order[x].received <= order[x].quantity
    BY DEF CountInv, IndInv, TypeOK, NeverOverReceived
  <2>2. /\ order' \in [Orders -> OrderRow \cup {Unused}]
        /\ \A x \in Orders : order'[x] # Unused => order'[x].received <= order'[x].quantity
    BY DEF IndInv, TypeOK, NeverOverReceived
  <2>3. QED
    BY <2>1, <2>2, RowsNotNegative
<1>2. ASSUME NEW p \in Products
      PROVE  /\ IsFiniteSet(OpenIn(order', p))
             /\ Owed(order', p) \in Nat /\ Owed(order, p) \in Nat
             /\ Owed(order', p) + Part(order, p, o) = Owed(order, p) + Part(order', p, o)
             /\ Part(order, p, o) \in Nat /\ Part(order', p, o) \in Nat
             /\ Part(order, p, o) <= Owed(order, p)
  <2>1. IsFiniteSet(OpenIn(order, p))
    BY DEF CountInv
  <2>2. QED
    BY <1>1, <2>1, OneRow
<1>3. ASSUME NEW p \in Products \ reordered'
      PROVE  on_order'[p] = Owed(order', p)
  <2>1. on_order[p] = Owed(order, p)
    BY <1>3 DEF CountInv
  <2>2. on_order'[p] + Part(order, p, o) = on_order[p] + Part(order', p, o)
    BY <1>2, <1>3, <2>1
  <2>3. on_order'[p] \in Nat
    BY DEF IndInv, TypeOK
  <2>4. QED
    BY <1>2, <2>1, <2>2, <2>3
<1>4. DraftsFresh'
  BY DEF CountInv, DraftsFresh
<1>5. QED
  BY <1>2, <1>3, <1>4 DEF CountInv

LEMMA CountFrame ==
  ASSUME CountInv, IndInv', UNCHANGED <<order, on_order, reordered>>
  PROVE  CountInv'
BY DEF CountInv, DraftsFresh

LEMMA CreateCounts ==
  ASSUME CountInv, IndInv', NEW o \in Manual, NEW p \in Products, NEW q \in Quantities,
         NEW status \in CreatedAs, PoCreate(o, p, q, status)
  PROVE  CountInv'
<1> DEFINE row == NewRow(status, p, q)
<1>1. o \in Orders /\ q \in Nat /\ status \in Statuses
  BY QuantitiesAssumption, CreatedAsAssumption DEF Orders
<1>2. /\ \A x \in Orders : x # o => order'[x] = order[x]
      /\ order'[o] = row /\ order[o] = Unused /\ UNCHANGED reordered
  BY <1>1 DEF PoCreate, CountInv, IndInv, TypeOK
<1>3. /\ row.status = status /\ row.product = p /\ row.quantity = q /\ row.received = 0
      /\ row # Unused
  BY <1>1 DEF NewRow, Unused, Statuses
<1>4. on_order \in [Products -> Nat]
  BY DEF CountInv, IndInv, TypeOK
<1> HIDE DEF row
<1>5. ASSUME NEW x \in Products
      PROVE  on_order'[x] + Part(order, x, o) = on_order[x] + Part(order', x, o)
  <2>1. Part(order, x, o) = 0
    BY <1>1, <1>2, PartOf
  <2>2. Part(order', x, o) = IF p = x /\ status \in Open THEN q ELSE 0
    BY <1>1, <1>2, <1>3, PartOf DEF Owes
  <2>3. CASE status \in Open
    BY <1>1, <1>4, <2>1, <2>2, <2>3 DEF PoCreate
  <2>4. CASE status \notin Open
    BY <1>4, <2>1, <2>2, <2>4 DEF PoCreate
  <2>5. QED
    BY <2>3, <2>4
<1>6. QED
  BY <1>1, <1>2, <1>3, <1>5, CountMoves

LEMMA DeleteCounts ==
  ASSUME CountInv, IndInv', NEW o \in Orders, PoSoftDelete(o)
  PROVE  CountInv'
<1>1. /\ \A x \in Orders : x # o => order'[x] = order[x]
      /\ order'[o] = [order[o] EXCEPT !.deleted = TRUE] /\ order[o] # Unused
      /\ UNCHANGED <<on_order, reordered>>
  BY DEF PoSoftDelete, CountInv, IndInv, TypeOK
<1>2. order[o] \in OrderRow
  BY <1>1, OrderKind DEF CountInv, IndInv
<1>3. /\ order'[o].status = order[o].status /\ order'[o].product = order[o].product
      /\ order'[o].quantity = order[o].quantity /\ order'[o].received = order[o].received
      /\ order'[o].status \in Statuses
  BY <1>1, <1>2 DEF OrderRow
<1>4. order'[o] # Unused
  BY <1>3 DEF Statuses, Unused
<1>5. ASSUME NEW x \in Products
      PROVE  Part(order, x, o) = Part(order', x, o)
  <2>1. Part(order, x, o) = IF order[o].product = x /\ order[o].status \in Open
                            THEN Owes(order, o) ELSE 0
    BY <1>1, PartOf
  <2>2. Part(order', x, o) = IF order'[o].product = x /\ order'[o].status \in Open
                             THEN Owes(order', o) ELSE 0
    BY <1>4, PartOf
  <2>3. Owes(order, o) = Owes(order', o)
    BY <1>3 DEF Owes
  <2>4. QED
    BY <1>3, <2>1, <2>2, <2>3
<1>6. order'[o].status = "draft" => order'[o].received = 0
  BY <1>1, <1>3 DEF CountInv, DraftsFresh
<1>7. QED
  BY <1>1, <1>5, <1>6, CountMoves

\* The reorder routes: the product they write joins reordered.
LEMMA DraftCounts ==
  ASSUME CountInv, IndInv', NEW o \in AutoNumbers, NEW q \in Quantities, Insertable(o, q),
         DraftAndSetOnOrder(o, q)
  PROVE  CountInv'
<1>1. o \in Orders /\ o[1] \in Products
  BY DEF Orders, AutoNumbers
<1>2. /\ \A x \in Orders : x # o => order'[x] = order[x]
      /\ order'[o] = NewRow("draft", o[1], q) /\ order[o] = Unused
  BY DraftRows DEF Insertable, CountInv, IndInv
<1>3. /\ order'[o] # Unused /\ order'[o].status = "draft" /\ order'[o].received = 0
  BY <1>2 DEF NewRow, Unused
<1>4. ASSUME NEW x \in Products \ reordered'
      PROVE  x \notin reordered /\ on_order'[x] = on_order[x]
  BY <1>4 DEF DraftAndSetOnOrder, CountInv, IndInv, TypeOK
<1>5. ASSUME NEW x \in Products
      PROVE  Part(order, x, o) = 0 /\ Part(order', x, o) = 0
  BY <1>1, <1>2, <1>3, PartOf DEF Open
<1>6. QED
  BY <1>1, <1>2, <1>3, <1>4, <1>5, CountMoves

LEMMA ReceiveCounts ==
  ASSUME CountInv, IndInv', NEW s \in Sessions, PoCommit(s), tx[s].to = "received",
         CommitReceive(s)
  PROVE  CountInv'
<1> DEFINE o == tx[s].order
           p == order[o].product
           q == ReceiveQty(s)
<1>1. IndInv
  BY DEF CountInv
<1>2. /\ tx[s] \in OrderTx /\ o \in Orders /\ order[o] # Unused /\ order[o] \in OrderRow
      /\ q <= order[o].quantity - order[o].received
  BY <1>1, CommitAccepted
<1>3. order[o].status = "in_transit"
  <2>1. PoAccepts(s)
    BY <1>1 DEF IndInv, ChecksStillHold, Checked, PoCommit
  <2>2. QED
    BY <2>1 DEF PoAccepts, ValidTransition
<1>4. q \in Nat /\ order[o].quantity \in Nat /\ order[o].received \in Nat /\ p \in Products
  BY <1>1, <1>2, ReceiveQtyType, QuantitiesAssumption DEF IndInv, OrderRow
<1>5. /\ \A x \in Orders : x # o => order'[x] = order[x]
      /\ order'[o] # Unused
      /\ order'[o].quantity = order[o].quantity
      /\ order'[o].received = order[o].received + q
      /\ order'[o].status = IF Completes(o, q) THEN "received" ELSE "in_transit"
  BY <1>1, <1>2, CommitRows DEF IndInv
<1>6. order'[o].product = p
  BY <1>1, <1>2 DEF CommitReceive, IndInv, TypeOK, OrderRow
<1>7. on_order \in [Products -> Nat] /\ UNCHANGED reordered
      /\ on_order' = [on_order EXCEPT ![p] = Released(q, p)]
  BY <1>1 DEF CommitReceive, IndInv, TypeOK
<1> HIDE DEF q, p, o
<1>8. ASSUME NEW x \in Products, Part(order, x, o) <= on_order[x]
      PROVE  on_order'[x] + Part(order, x, o) = on_order[x] + Part(order', x, o)
  <2>1. CASE x # p
    <3>1. Part(order, x, o) = 0 /\ Part(order', x, o) = 0
      BY <1>2, <1>5, <1>6, <2>1, PartOf DEF p
    <3>2. QED
      BY <1>7, <2>1, <3>1
  <2>2. CASE x = p
    <3>1. Part(order, x, o) = order[o].quantity - order[o].received
      BY <1>2, <1>3, <2>2, PartOf DEF p, Owes, Open
    <3>2. Part(order', x, o) = order[o].quantity - (order[o].received + q)
      <4>1. CASE Completes(o, q)
        <5>1. order[o].received + q = order[o].quantity
          BY <1>2, <1>4, <4>1 DEF Completes
        <5>2. Part(order', x, o) = 0
          BY <1>2, <1>5, <4>1, PartOf DEF Open
        <5>3. QED
          BY <1>4, <5>1, <5>2
      <4>2. CASE ~Completes(o, q)
        BY <1>2, <1>5, <1>6, <2>2, <4>2, PartOf DEF Owes, Open
      <4>3. QED
        BY <4>1, <4>2
    <3>3. on_order[x] \in Nat /\ q <= on_order[x]
      BY <1>2, <1>4, <1>7, <1>8, <3>1
    <3>4. on_order'[x] = on_order[x] - q
      BY <1>4, <1>7, <2>2, <3>3 DEF Released
    <3>5. QED
      BY <1>4, <3>1, <3>2, <3>3, <3>4
  <2>3. QED
    BY <2>1, <2>2
<1>9. order'[o].status # "draft"
  BY <1>5
<1>10. QED
  BY <1>2, <1>5, <1>7, <1>8, <1>9, CountMoves

LEMMA StatusCounts ==
  ASSUME CountInv, IndInv', NEW s \in Sessions, PoCommit(s), tx[s].to # "received",
         CommitStatus(s)
  PROVE  CountInv'
<1> DEFINE o == tx[s].order
           p == order[o].product
           to == tx[s].to
<1>1. IndInv
  BY DEF CountInv
<1>2. tx[s] \in OrderTx /\ o \in Orders /\ order[o] # Unused /\ order[o] \in OrderRow
  BY <1>1, CommitAccepted
<1>3. ValidTransition(order[o].status, to)
  <2>1. PoAccepts(s)
    BY <1>1 DEF IndInv, ChecksStillHold, Checked, PoCommit
  <2>2. QED
    BY <2>1 DEF PoAccepts
<1>4. order[o].quantity \in Nat /\ order[o].received \in Nat /\ p \in Products
  BY <1>2, QuantitiesAssumption DEF OrderRow
<1>5. /\ \A x \in Orders : x # o => order'[x] = order[x]
      /\ order'[o] # Unused
      /\ order'[o].quantity = order[o].quantity
      /\ order'[o].received = order[o].received
      /\ order'[o].status = to
  BY <1>1, <1>2, CommitRows DEF IndInv
<1>6. order'[o].product = p
  BY <1>1, <1>2 DEF CommitStatus, IndInv, TypeOK, OrderRow
<1>7. on_order \in [Products -> Nat] /\ UNCHANGED reordered
  BY <1>1 DEF CommitStatus, IndInv, TypeOK
<1>8. /\ to = "approved" => on_order' = [on_order EXCEPT ![p] = @ + order[o].quantity]
      /\ to = "cancelled" /\ order[o].status \in Open =>
           on_order' = [on_order EXCEPT ![p] = Released(Outstanding(o), p)]
      /\ to # "approved" /\ ~(to = "cancelled" /\ order[o].status \in Open) => on_order' = on_order
  <2>1. CASE to = "approved"
    BY <2>1 DEF CommitStatus
  <2>2. CASE to = "cancelled" /\ order[o].status \in Open
    BY <2>2 DEF CommitStatus, TouchesProduct
  <2>3. CASE to # "approved" /\ ~(to = "cancelled" /\ order[o].status \in Open)
    <3>1. on_order' = [on_order EXCEPT ![p] = @]
      BY <2>3 DEF CommitStatus, TouchesProduct
    <3>2. QED
      BY <1>7, <2>3, <3>1
  <2>4. QED
    BY <2>1, <2>2, <2>3
<1>9. order[o].status = "draft" => order[o].received = 0
  BY <1>2 DEF CountInv, DraftsFresh
<1>10. order[o].received <= order[o].quantity
  BY <1>1, <1>2 DEF IndInv, NeverOverReceived
<1> HIDE DEF p, o, to
<1>11. ASSUME NEW x \in Products, Part(order, x, o) <= on_order[x]
      PROVE  on_order'[x] + Part(order, x, o) = on_order[x] + Part(order', x, o)
  <2>1. CASE x # p
    <3>1. Part(order, x, o) = 0 /\ Part(order', x, o) = 0
      BY <1>2, <1>5, <1>6, <2>1, PartOf DEF p
    <3>2. on_order'[x] = on_order[x]
      BY <1>7, <1>8, <2>1
    <3>3. QED
      BY <1>7, <3>1, <3>2
  <2>2. CASE x = p
    <3> DEFINE n == order[o].quantity - order[o].received
    <3>1. n \in Nat
      BY <1>4, <1>10
    <3>2. Part(order, x, o) = IF order[o].status \in Open THEN n ELSE 0
      BY <1>2, <2>2, PartOf DEF p, Owes
    <3>3. Part(order', x, o) = IF to \in Open THEN n ELSE 0
      BY <1>2, <1>5, <1>6, <2>2, PartOf DEF Owes
    <3>4. on_order[x] \in Nat
      BY <1>7
    <3>5. CASE to = "approved"
      <4>1. order[o].status = "draft" /\ order[o].quantity = n
        BY <1>3, <1>4, <1>9, <3>5 DEF ValidTransition
      <4>2. on_order'[x] = on_order[x] + n
        BY <1>7, <1>8, <2>2, <3>5, <4>1
      <4>3. QED
        BY <3>2, <3>3, <3>4, <3>1, <3>5, <4>1, <4>2 DEF Open
    <3>6. CASE to = "cancelled" /\ order[o].status \in Open
      <4>1. n <= on_order[x]
        BY <1>11, <3>2, <3>6
      <4>2. on_order'[x] = on_order[x] - n
        BY <1>7, <1>8, <2>2, <3>1, <3>4, <3>6, <4>1 DEF Released, Outstanding
      <4>3. QED
        BY <3>1, <3>2, <3>3, <3>4, <3>6, <4>2 DEF Open
    <3>7. CASE to # "approved" /\ ~(to = "cancelled" /\ order[o].status \in Open)
      <4>1. order[o].status \in Open <=> to \in Open
        BY <1>3, <3>7 DEF ValidTransition, Open, to
      <4>2. QED
        BY <1>8, <3>1, <3>2, <3>3, <3>4, <3>7, <4>1
    <3>8. QED
      BY <3>5, <3>6, <3>7
  <2>3. QED
    BY <2>1, <2>2
<1>12. order'[o].status # "draft"
  BY <1>3, <1>5 DEF ValidTransition
<1>13. QED
  BY <1>2, <1>5, <1>7, <1>11, <1>12, CountMoves

LEMMA CountStep ==
  ASSUME CountInv, [Next]_vars
  PROVE  CountInv'
<1>1. IndInv /\ IndInv'
  BY NextInv DEF CountInv
<1>2. ASSUME UNCHANGED rows
      PROVE  CountInv'
  BY <1>1, <1>2, CountFrame DEF rows
<1>3. CASE Single
  <2>1. ASSUME NEW p \in Products, ProductDelete(p) \/ \E n \in Openings : ProductCreate(p, n)
        PROVE  CountInv'
    BY <1>1, <2>1, CountFrame DEF ProductDelete, ProductCreate
  <2>2. ASSUME NEW o \in Manual, NEW p \in Products, NEW q \in Quantities,
               NEW status \in CreatedAs, PoCreate(o, p, q, status)
        PROVE  CountInv'
    BY <1>1, <2>2, CreateCounts
  <2>3. ASSUME NEW o \in Orders, PoSoftDelete(o)
        PROVE  CountInv'
    BY <1>1, <2>3, DeleteCounts
  <2>4. CASE NextDay
    BY <1>1, <2>4, CountFrame DEF NextDay
  <2>5. QED
    BY <1>3, <2>1, <2>2, <2>3, <2>4 DEF Single
<1>4. ASSUME NEW s \in Sessions, Request(s) \/ Rollback(s)
      PROVE  CountInv'
  BY <1>2, <1>4 DEF Request, MovementRequest, TransitionRequest, ReceiveRequest, MarkRequest,
                    AutoRequest, Rollback
<1>5. ASSUME NEW s \in Sessions, Advance(s)
      PROVE  CountInv'
  <2>1. CASE MovementLock(s) \/ PoBegin(s) \/ PoReceipt(s) \/ PoProduct(s)
    BY <1>2, <1>4, <2>1 DEF MovementLock, PoBegin, PoReceipt, PoProduct
  <2>2. CASE MovementCommit(s)
    BY <1>1, <2>2, CountFrame DEF MovementCommit
  <2>3. CASE PoCommit(s)
    BY <1>1, <2>3, ReceiveCounts, StatusCounts DEF PoCommit
  <2>4. CASE MarkCommit(s)
    <3>1. tx[s].order \in AutoNumbers /\ tx[s].qty \in Quantities
      BY <1>1, <2>4, TxKind DEF MarkCommit, MarkTx, IndInv
    <3>2. QED
      BY <1>1, <1>4, <2>4, <3>1, DraftCounts DEF MarkCommit
  <2>5. ASSUME NEW p \in Products, NEW q \in Quantities \cup {0}, AutoStep(s, p, q)
        PROVE  CountInv'
    <3>1. <<p, today>> \in AutoNumbers
      BY <1>1, <2>5, MaxDayAssumption DEF AutoStep, AutoNumbers, IndInv, TypeOK
    <3>2. Insertable(<<p, today>>, q) => q \in Quantities
      BY DEF Insertable
    <3>3. QED
      BY <1>1, <1>4, <2>5, <3>1, <3>2, DraftCounts DEF AutoStep
  <2>6. QED
    BY <1>5, <2>1, <2>2, <2>3, <2>4, <2>5 DEF Advance
<1>6. ASSUME NEW s \in Sessions, Abort(s)
      PROVE  CountInv'
  BY <1>4, <1>6 DEF Abort
<1>7. CASE UNCHANGED vars
  BY <1>2, <1>7 DEF vars
<1>8. QED
  BY <1>3, <1>4, <1>5, <1>6, <1>7 DEF Next

LEMMA CountInit == Init => CountInv
<1> SUFFICES ASSUME Init PROVE CountInv
  OBVIOUS
<1>1. IndInv
  BY InitInv
<1>2. ASSUME NEW p \in Products
      PROVE  OpenIn(order, p) = {}
  BY DEF Init, OpenIn
<1>3. \A p \in Products : IsFiniteSet(OpenIn(order, p)) /\ Owed(order, p) = 0
  BY <1>2, FS_EmptySet, TotalEmpty DEF Owed
<1>4. QED
  BY <1>1, <1>3 DEF CountInv, DraftsFresh, Init

\* on_order counts what is outstanding on the product's open orders, whatever
\* approvals, partial receipts, cancellations and soft deletes interleave, until
\* a reorder route overwrites it: GREATEST(on_order - n, 0) never has to clip.
THEOREM OnOrderCounted == Spec => []OnOrderContract
<1>1. CountInv => OnOrderContract
  <2>1. \A p : OpenOrders(p) = OpenIn(order, p)
    BY DEF OpenOrders, OpenIn
  <2>2. \A p : MapThenSumSet(Outstanding, OpenOrders(p)) = Total(order, OpenOrders(p))
    BY SumIsTotal
  <2>3. QED
    BY <2>1, <2>2 DEF CountInv, OnOrderContract, OnOrderMatches, Owed
<1>2. QED
  BY <1>1, CountInit, CountStep, PTL DEF Spec
=============================================================================
