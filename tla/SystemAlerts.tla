---------------------------- MODULE SystemAlerts ----------------------------
(***************************************************************************)
(* System alerts: a failed ETL run, a failed backup or an exhausted pool   *)
(* is stored in model_monitoring_alerts unless an unresolved alert of its  *)
(* type is there, and then routed to the external channels.  Lookup and    *)
(* save are separate statements that other processes fall between; a       *)
(* unique index on type and date is the only thing that stops a second     *)
(* row.  No code resolves an alert, so every row counts as unresolved.     *)
(***************************************************************************)
EXTENDS Integers, FiniteSets

CONSTANTS Raisers,       \* processes that report failures
          MaxAlertDay,   \* days the clock may advance
          MaxRaises      \* failures reported

ASSUME AlertsAssumption == MaxAlertDay \in Nat \ {0} /\ MaxRaises \in Nat

\* The types that go through _maybe_create_system_alert, and all.
RoutedTypes == {"etl_failure", "backup_failure"}
AlertTypes  == RoutedTypes \cup {"pool_exhaustion"}

VARIABLES
  alerts,      \* model_monitoring_alerts: [type, date]
  raiser,      \* what each raiser does
  alertDate,   \* date.today()
  raises,      \* failures so far, bounded by MaxRaises
  reported,    \* history: types whose report has ended
  lost,        \* history: types whose report the database or a crash cut short
  together     \* history: types that two raisers looked up before either saved

alertVars == <<alerts, raiser, alertDate, raises, reported, lost, together>>

Quiet == [pc |-> "quiet", type |-> "none", date |-> 0]

SystemAlertsTypeOK ==
  /\ alerts \subseteq [type : AlertTypes, date : 1..MaxAlertDay]
  /\ raiser \in [Raisers -> {Quiet} \cup [pc : {"lookup", "save", "route"}, type : AlertTypes,
                                          date : 1..MaxAlertDay]]
  /\ alertDate \in 1..MaxAlertDay /\ raises \in 0..MaxRaises
  /\ reported \subseteq AlertTypes /\ lost \subseteq AlertTypes /\ together \subseteq AlertTypes
  \* only a stored alert is routed, and never that of the pool
  /\ \A r \in Raisers : raiser[r].pc = "route" =>
       raiser[r].type \in RoutedTypes /\ [type |-> raiser[r].type, date |-> raiser[r].date] \in alerts

SystemAlertsInit ==
  /\ alerts = {} /\ raiser = [r \in Raisers |-> Quiet]
  /\ alertDate = 1 /\ raises = 0
  /\ reported = {} /\ lost = {} /\ together = {}

-----------------------------------------------------------------------------
\* A failure; generate_*_alert dates the alert.
RaiseAlert(r, type) ==
  /\ raiser[r] = Quiet /\ raises < MaxRaises /\ raises' = raises + 1
  /\ raiser' = [raiser EXCEPT ![r] = [pc |-> "lookup", type |-> type, date |-> alertDate]]
  /\ UNCHANGED <<alerts, alertDate, reported, lost, together>>

unresolved_alerts_Today(r)   == {a \in alerts : a.type = raiser[r].type /\ a.date = alertDate}

unresolved_alerts(r) == {a \in alerts : a.type = raiser[r].type}

Report(r) ==
  /\ raiser' = [raiser EXCEPT ![r] = Quiet]
  /\ reported' = reported \cup {raiser[r].type}

\* deduplicate_alerts: one that is there ends the report.
LookupAlert(r) ==
  LET type == raiser[r].type IN
  /\ raiser[r].pc = "lookup"
  /\ \/ /\ unresolved_alerts(r) # {} /\ Report(r) /\ UNCHANGED together
     \/ /\ unresolved_alerts(r) = {}
        /\ raiser' = [raiser EXCEPT ![r].pc = "save"]
        /\ together' = together \cup
             {t \in {type} : \E q \in Raisers : raiser[q].pc = "save" /\ raiser[q].type = t}
        /\ UNCHANGED reported
  /\ UNCHANGED <<alerts, alertDate, raises, lost>>

\* The unique index refuses a second row of the day; the caller swallows the error.
save_alert(r) ==
  LET row == [type |-> raiser[r].type, date |-> raiser[r].date] IN
  /\ raiser[r].pc = "save"
  /\ IF row \notin alerts /\ row.type \in RoutedTypes
     THEN raiser' = [raiser EXCEPT ![r].pc = "route"] /\ UNCHANGED reported
     ELSE Report(r)
  /\ alerts' = alerts \cup {row}
  /\ UNCHANGED <<alertDate, raises, lost, together>>

\* notify_alert never raises.
RouteAlert(r) ==
  /\ raiser[r].pc = "route"
  /\ Report(r)
  /\ UNCHANGED <<alerts, alertDate, raises, lost, together>>

\* The database refuses a statement, or the process dies.
RaiserStops(r) ==
  /\ raiser[r] # Quiet
  /\ Report(r)
  /\ lost' = lost \cup {t \in {raiser[r].type} : raiser[r].pc # "route"}
  /\ UNCHANGED <<alerts, alertDate, raises, together>>

AlertMidnight ==
  /\ alertDate < MaxAlertDay /\ alertDate' = alertDate + 1
  /\ UNCHANGED <<alerts, raiser, raises, reported, lost, together>>

SystemAlertsNext ==
  \/ \E r \in Raisers : \/ LookupAlert(r) \/ save_alert(r) \/ RouteAlert(r) \/ RaiserStops(r)
                        \/ \E type \in AlertTypes : RaiseAlert(r, type)
  \/ AlertMidnight

SystemAlertsSpec == SystemAlertsInit /\ [][SystemAlertsNext]_alertVars

-----------------------------------------------------------------------------
(* Properties *)

\* "Skips when an unresolved alert of the same type already exists": a second
\* row means that two raisers looked before either saved, on either side of
\* midnight.
AlertOnce ==
  \A a, b \in alerts : a.type = b.type => a = b \/ a.type \in together

\* A failure that was reported has left an alert of its type, whichever other
\* failures were reported before or at the same time, unless the database or
\* a crash cut the report short.
FailuresAlerted ==
  \A t \in reported \ lost : \E a \in alerts : a.type = t

\* Each type of failure that was reported has one alert: the lookup before
\* the insert neither lets a second one through nor suppresses the first.
OneAlertPerFailure == AlertOnce /\ FailuresAlerted
=============================================================================
