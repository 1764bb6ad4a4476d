----------------------------- MODULE CachedViews -----------------------------
(***************************************************************************)
(* What each cached page or API answer reads, under which key it is        *)
(* cached, what each kind of write changes, and which invalidate() calls   *)
(* follow the write.                                                       *)
(*                                                                         *)
(* A view is a record: the cache that holds it, the prefixes its key       *)
(* starts with (among those some invalidate() names), the tables read      *)
(* before the cache is asked, and the tables each batch of queries of its  *)
(* producer reads, in order.  Every query has a READ COMMITTED snapshot of *)
(* its own.  The thresholds that colour a view come from the settings      *)
(* entry, which is a view itself, and are left out of the others.          *)
(***************************************************************************)
EXTENDS Integers, Sequences

View(cache, prefixes, reads) ==
  [cache |-> cache, prefixes |-> prefixes \cup {""}, before |-> {}, reads |-> reads]

-----------------------------------------------------------------------------
(* The dashboard *)

\* Totals, deltas against the last 30 days and the previous month.
DashboardKpis == <<{"products"}, {"movements"}, {"products", "movements"}>>

\* Daily series, categories, the reorder queue, slow movers, top sellers, top
\* suppliers, stock per warehouse.
DashboardPanels == <<{"movements"}, {"products", "suppliers"},
                     {"products", "movements", "suppliers"}>>

\* Turnover, ABC classes and the savings of the EOQ model.
DashboardAnalysis == <<{"products", "movements"}, {"products"}>>

DashboardView ==
  View("dashboard", {"dashboard:"}, DashboardKpis \o DashboardPanels \o DashboardAnalysis)

-----------------------------------------------------------------------------
(* The reports page *)

\* With a period, the products that moved in it are read before the cache is
\* asked; the key names the period, not the products.
PeriodProducts == {"movements"}

\* Categories, KPIs and stock status: of the period from the fact tables, of
\* today from the products.
ReportKpis(period) == <<IF period THEN {"facts", "products"} ELSE {"products"}>>

\* Warehouses, filters, the movement series and the top SKUs.
ReportWarehouses == <<{"products"}, {"facts", "products"}>>

ReportSuppliers == <<{"suppliers", "products"}, {"orders", "suppliers", "products"}>>

\* Coverage, turnover, ageing, reorder gap, activity and idle days.
ReportHealth == <<{"products", "movements"}>>

ReportActivity == <<{"products", "movements"}>>

\* Month and year to date: movements and order totals.
ReportPeriods == <<{"movements", "products"}, {"orders"}>>

ReportYears == <<{"movements", "products"}>>

\* Category counts, order status, open orders, warehouse analytics.
ReportOrders == <<{"products"}, {"orders", "suppliers", "products"}, {"facts"}>>

\* Monthly trend and sales.
ReportSales == <<{"movements", "products"}>>

ReportSalesMonths == <<{"movements", "products"}>>

ReportSalesYears == <<{"movements", "products"}>>

ReportSpend == <<{"orders"}, {"suppliers", "products"}>>

ReportReads(period) ==
  ReportKpis(period) \o ReportWarehouses \o ReportSuppliers \o ReportHealth \o
  ReportActivity \o ReportPeriods \o ReportYears \o ReportOrders \o ReportSales \o
  ReportSalesMonths \o ReportSalesYears \o ReportSpend

ReportsView == View("reports", {"reports:"}, ReportReads(FALSE))

PeriodReportsView ==
  [View("reports", {"reports:"}, ReportReads(TRUE)) EXCEPT !.before = PeriodProducts]

-----------------------------------------------------------------------------
(* The other pages *)

\* The rows with their suppliers, then the category and warehouse filters.
InventoryView == View("products", {}, <<{"products", "suppliers"}, {"products"}>>)

ReorderAlertsView == View("products", {}, <<{"products", "suppliers"}>>)

EoqView == View("products", {}, <<{"products"}>>)

\* The star schema, or the products if it is empty; then the chart.
WarehousesView == View("products", {}, <<{"facts", "products"}, {"products"}>>)

SuppliersView == View("suppliers", {}, <<{"suppliers", "products"}>>)

\* The ledger page: the rows, then their number.
MovementsView == View("api", {"movements"}, <<{"movements", "products"}, {"movements"}>>)

\* Filters, orders, counts and the receipt history.
BoardView ==
  View("api", {"purchase_orders", "purchase_orders:board"},
       <<{"suppliers"}, {"products"}, {"orders", "suppliers", "products"}, {"orders"}>>)

\* Session and login facts, one transaction each, then the state of the ETL.
MonitoringView == View("monitoring", {}, <<{"facts"}, {"facts"}, {"etl_state"}>>)

\* The badge every page shows.
ReorderCountView == View("global", {}, <<{"products"}>>)

\* A user's settings; filled by get() and set(), without the rebuild lock.
SettingsView == View("global", {}, <<{"settings"}>>)

-----------------------------------------------------------------------------
(* API answers *)

LiveView       == View("api", {}, <<{"products"}, {"products"}, {"movements"}>>)
ApiProducts    == View("api", {"product"}, <<{"products", "suppliers"}>>)
ApiProduct     == View("api", {"product"}, <<{"products"}>>)
ApiSuppliers   == View("api", {"suppliers"}, <<{"suppliers", "products"}>>)
ApiSupplier    == View("api", {}, <<{"suppliers"}>>)
ApiRecent      == View("api", {"movements"}, <<{"movements"}>>)

Views == [dashboard |-> DashboardView, reports |-> ReportsView,
          period_reports |-> PeriodReportsView, inventory |-> InventoryView,
          reorder_alerts |-> ReorderAlertsView, eoq |-> EoqView,
          warehouses |-> WarehousesView, suppliers |-> SuppliersView,
          movements |-> MovementsView, board |-> BoardView,
          monitoring |-> MonitoringView, reorder_count |-> ReorderCountView,
          settings |-> SettingsView, live |-> LiveView,
          api_products |-> ApiProducts, api_product |-> ApiProduct,
          api_suppliers |-> ApiSuppliers, api_supplier |-> ApiSupplier,
          api_recent |-> ApiRecent]

\* Views whose reader holds no rebuild lock.
Unlocked == {"settings"}

-----------------------------------------------------------------------------
(* Writes and their busts *)

\* The tables a kind of write changes.  Receiving an order records a movement
\* and updates the product; a restore replaces everything.
Changes(k) ==
  CASE k = "product"  -> {"products"}
    [] k = "supplier" -> {"suppliers"}
    [] k = "movement" -> {"movements", "products"}
    [] k = "order"    -> {"orders", "movements", "products"}
    [] k = "settings" -> {"settings"}
    [] k = "etl"      -> {"facts", "etl_state"}
    [] k = "restore"  -> {"products", "suppliers", "movements", "orders", "settings",
                          "facts", "etl_state"}

BustProducts ==
  <<<<"products", "">>, <<"dashboard", "dashboard:">>, <<"reports", "">>, <<"global", "">>,
    <<"api", "product">>, <<"landing", "">>>>

BustSuppliers ==
  <<<<"suppliers", "">>, <<"reports", "reports:">>, <<"api", "suppliers">>, <<"landing", "">>>>

BustMovements_NoGlobal ==
  <<<<"products", "">>, <<"dashboard", "dashboard:">>, <<"reports", "reports:">>,
    <<"api", "movements">>>>

BustMovements ==
  <<<<"products", "">>, <<"dashboard", "dashboard:">>, <<"reports", "reports:">>,
    <<"global", "">>, <<"api", "movements">>>>

BustOrders ==
  <<<<"products", "">>, <<"dashboard", "dashboard:">>, <<"reports", "reports:">>,
    <<"global", "">>, <<"api", "purchase_orders">>, <<"api", "purchase_orders:board">>>>

BustSettings == <<<<"global", "">>, <<"api", "settings">>>>

\* The calls that follow a write, in order.  An ETL run and a restore bust the
\* monitoring page only.
BustCalls(k) ==
  CASE k = "product"  -> BustProducts
    [] k = "supplier" -> BustSuppliers
    [] k = "movement" -> BustMovements
    [] k = "order"    -> BustOrders
    [] k = "settings" -> BustSettings
    [] k \in {"etl", "restore"} -> <<<<"monitoring", "">>>>

\* invalidate(prefix) on a cache drops the keys that start with the prefix.
Dropped(call, e) == Views[e].cache = call[1] /\ call[2] \in Views[e].prefixes

\* What a kind of write changes of what a batch of queries reads.
Touches(k, tables) == Changes(k) \cap tables # {}

Affects(k, e) ==
  \/ Touches(k, Views[e].before)
  \/ \E i \in 1..Len(Views[e].reads) : Touches(k, Views[e].reads[i])
=============================================================================
