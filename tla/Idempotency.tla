---------------------------- MODULE Idempotency ----------------------------
(***************************************************************************)
(* The @idempotent decorator around the write endpoints, and the           *)
(* idempotency_keys table behind it.  Reserving, running the view,         *)
(* recording the response and releasing the key are separate transactions, *)
(* and requests with the same key may overlap, repeat and die anywhere.    *)
(*                                                                         *)
(* A "page" view (routes/ui.py) answers with a redirect Response or with   *)
(* rendered HTML, a string.  An "api" view (routes/api.py) answers with    *)
(* what api_response and api_error build: a (Response, status) tuple.      *)
(***************************************************************************)
EXTENDS Integers, FiniteSets

CONSTANTS Keys,       \* (idempotency key, user) pairs
          Requests,   \* requests that may be under way at once
          Kinds,      \* kinds of view requests go to
          MaxEffects  \* bound on how often a key's effect is committed

ASSUME KindsAssumption == Kinds \subseteq {"page", "api"}
ASSUME MaxEffectsAssumption == MaxEffects \in Nat

VARIABLES keyRow,  \* idempotency_keys: no row, response_json NULL, or a redirect
          req,     \* where each request is in the decorator
          effects, \* history: commits of the endpoint's effect under a key
          cleaned, \* history: keys that retention has deleted
          leaked   \* history: keys whose release failed or whose owner died

vars == <<keyRow, req, effects, cleaned, leaked>>

Idle == [pc |-> "idle"]
Active == [pc : {"check", "view", "release"}, key : Keys, kind : Kinds]
          \cup [pc : {"record"}, key : Keys, kind : Kinds \cap {"page"}]

\* Only a page's response is ever recorded: record_idempotency reads the
\* redirect's location, which nothing else has.
TypeOK ==
  /\ keyRow \in [Keys -> {"absent", "reserved", "redirect"}]
  /\ req \in [Requests -> Active \cup {Idle}]
  /\ effects \in [Keys -> 0..MaxEffects]
  /\ cleaned \subseteq Keys
  /\ leaked \subseteq Keys

Init ==
  /\ keyRow = [k \in Keys |-> "absent"]
  /\ req = [r \in Requests |-> Idle]
  /\ effects = [k \in Keys |-> 0]
  /\ cleaned = {}
  /\ leaked = {}

Goto(r, pc) == req' = [req EXCEPT ![r].pc = pc]
Return(r)   == req' = [req EXCEPT ![r] = Idle]

Reserves_CheckOnly(k) == keyRow[k] # "redirect"

\* INSERT ... ON CONFLICT (key, user_id) DO NOTHING inserted the row.
Reserves(k) == keyRow[k] = "absent"

\* reserve_idempotency
Reserve(r, k, kind) ==
  /\ req[r] = Idle
  /\ effects[k] < MaxEffects
  /\ req' = [req EXCEPT ![r] = [pc |-> IF Reserves(k) THEN "view" ELSE "check",
                                key |-> k, kind |-> kind]]
  /\ keyRow' = [keyRow EXCEPT ![k] = IF Reserves(k) THEN "reserved" ELSE @]
  /\ UNCHANGED <<effects, cleaned, leaked>>

\* check_idempotency: replay the stored redirect, or 409 while there is none.
Check(r) ==
  /\ req[r].pc = "check"
  /\ Return(r)
  /\ UNCHANGED <<keyRow, effects, cleaned, leaked>>

After_LeaksOnRaise(r, result) ==
  IF result = "raise" THEN Return(r) ELSE Goto(r, IF result = "redirect" THEN "record" ELSE "release")

\* Only a Response has a status_code: a redirect is recorded.  HTML, the API's
\* tuples and exceptions have their reservation released.
After(r, result) == Goto(r, IF result = "redirect" THEN "record" ELSE "release")

Results(kind) == IF kind = "page" THEN {"redirect", "html", "raise"}
                 ELSE {"tuple", "raise"}

\* The view runs.  It commits its effect or refuses the request (a page may say
\* so by a redirect with a flash message), and it may raise after the commit.
View(r) ==
  /\ req[r].pc = "view"
  /\ \E result \in Results(req[r].kind), done \in {0, 1} :
       /\ effects[req[r].key] + done <= MaxEffects
       /\ effects' = [effects EXCEPT ![req[r].key] = @ + done]
       /\ After(r, result)
  /\ UNCHANGED <<keyRow, cleaned, leaked>>

\* record_idempotency: the redirect is stored.
Record(r) ==
  /\ req[r].pc = "record"
  /\ keyRow' = [keyRow EXCEPT ![req[r].key] = "redirect"]
  /\ Return(r)
  /\ UNCHANGED <<effects, cleaned, leaked>>

\* It raised, before or after its COMMIT took effect; the exception is swallowed
\* and the reservation released.
RecordFails(r) ==
  /\ req[r].pc = "record"
  /\ \E stored \in BOOLEAN :
       keyRow' = [keyRow EXCEPT ![req[r].key] = IF stored THEN "redirect" ELSE @]
  /\ Goto(r, "release")
  /\ UNCHANGED <<effects, cleaned, leaked>>

Releasable_Unguarded(k) == keyRow[k] # "absent"

\* DELETE ... WHERE response_json IS NULL
Releasable(k) == keyRow[k] = "reserved"

\* release_idempotency; its own failure is swallowed or re-raised.
Release(r) ==
  LET k == req[r].key IN
  /\ req[r].pc = "release"
  /\ \/ /\ keyRow' = [keyRow EXCEPT ![k] = IF Releasable(k) THEN "absent" ELSE @]
        /\ UNCHANGED leaked
     \/ /\ leaked' = leaked \cup {k}
        /\ UNCHANGED keyRow
  /\ Return(r)
  /\ UNCHANGED <<effects, cleaned>>

Owns(r, k) == req[r] # Idle /\ req[r].pc # "check" /\ req[r].key = k

\* The web worker dies with the request.
Crash(r) ==
  /\ req[r] # Idle
  /\ leaked' = leaked \cup {k \in Keys : Owns(r, k)}
  /\ Return(r)
  /\ UNCHANGED <<keyRow, effects, cleaned>>

\* sp_idempotency_cleanup, by age alone.
Cleanup(k) ==
  /\ keyRow[k] # "absent"
  /\ keyRow' = [keyRow EXCEPT ![k] = "absent"]
  /\ cleaned' = cleaned \cup {k}
  /\ UNCHANGED <<req, effects, leaked>>

Handle(r) == Check(r) \/ View(r) \/ Record(r) \/ RecordFails(r) \/ Release(r)

Next == \/ \E r \in Requests, k \in Keys, kind \in Kinds : Reserve(r, k, kind)
        \/ \E r \in Requests : Handle(r) \/ Crash(r)
        \/ \E k \in Keys : Cleanup(k)

Spec == Init /\ [][Next]_vars

\* A request that is not killed runs to its end (gunicorn --timeout 120).
FairSpec == Spec /\ \A r \in Requests : WF_vars(Handle(r))

-----------------------------------------------------------------------------
(* Properties *)

\* "Closes the check-then-act race where two concurrent retries both pass a
\* plain check": two requests with one key never execute the view at the same
\* time, although a request releases whatever reservation it finds.
OneOwnerPerKey ==
  \A k \in Keys \ cleaned : \A q, r \in Requests : Owns(q, k) /\ Owns(r, k) => q = r

\* Once a redirect is recorded, the key is never released and its effect never
\* committed again, until retention deletes the key.
RecordedIsFinal ==
  [][\A k \in Keys : keyRow[k] = "redirect" /\ k \notin cleaned' =>
       keyRow'[k] = "redirect" /\ effects'[k] = effects[k]]_vars

\* No key is poisoned: a reservation always turns into a recorded response or is
\* released, exceptions included, unless its owner died or its release failed.
ReservationsEnd ==
  \A k \in Keys : keyRow[k] = "reserved" ~> keyRow[k] # "reserved" \/ k \in leaked

\* The decorator's promise, for as long as retention keeps the key: "If key
\* exists and was seen before, returns cached response"; "If key is new, executes
\* the endpoint and caches the response".
EffectOncePerKey == \A k \in Keys \ cleaned : effects[k] <= 1
=============================================================================
