------------------------- MODULE IdempotencyProofs -------------------------
(***************************************************************************)
(* Theorems about the @idempotent decorator, for any number of keys,       *)
(* overlapping requests and effects, through crashes and failed writes.    *)
(***************************************************************************)
EXTENDS Idempotency, TLAPS

\* A request inside the decorator has a key and a kind of view.
LEMMA ActiveRequest ==
  ASSUME TypeOK, NEW r \in Requests, req[r] # Idle
  PROVE  /\ req[r] \in Active
         /\ req[r].key \in Keys
         /\ req[r].kind \in Kinds
         /\ req[r].pc \in {"check", "view", "record", "release"}
         /\ req[r].pc = "record" => req[r].kind = "page"
BY DEF TypeOK, Active

\* Only a request inside the decorator is at one of its steps.
LEMMA NotIdle ==
  ASSUME NEW r, req[r].pc \in {"check", "view", "record", "release"}
  PROVE  req[r] # Idle
BY DEF Idle

\* Changing a request's step keeps its key and kind.
LEMMA GotoType ==
  ASSUME TypeOK, NEW r \in Requests, req[r] # Idle,
         NEW pc \in {"view", "record", "release"},
         pc = "record" => req[r].kind = "page", Goto(r, pc)
  PROVE  /\ req' \in [Requests -> Active \cup {Idle}]
         /\ \A q \in Requests : q # r => req'[q] = req[q]
         /\ req'[r] # Idle /\ req'[r].pc = pc /\ req'[r].key = req[r].key
<1>1. req[r] \in Active /\ req \in [Requests -> Active \cup {Idle}]
  BY ActiveRequest DEF TypeOK
<1>2. [req[r] EXCEPT !.pc = pc] \in Active
  BY <1>1 DEF Active
<1>3. req' = [req EXCEPT ![r] = [req[r] EXCEPT !.pc = pc]]
  BY DEF Goto
<1>4. req'[r] = [req[r] EXCEPT !.pc = pc] /\ \A q \in Requests : q # r => req'[q] = req[q]
  BY <1>1, <1>3
<1>5. req'[r].pc = pc /\ req'[r].key = req[r].key
  BY <1>1, <1>4 DEF Active
<1>6. QED
  BY <1>1, <1>2, <1>3, <1>4, <1>5 DEF Idle

LEMMA ReturnType ==
  ASSUME TypeOK, NEW r \in Requests, Return(r)
  PROVE  /\ req' \in [Requests -> Active \cup {Idle}]
         /\ \A q \in Requests : q # r => req'[q] = req[q]
         /\ req'[r] = Idle
BY DEF TypeOK, Return

-----------------------------------------------------------------------------
(* Type correctness *)

LEMMA TypeStep ==
  ASSUME TypeOK, [Next]_vars
  PROVE  TypeOK'
<1>1. ASSUME NEW r \in Requests, NEW k \in Keys, NEW kind \in Kinds, Reserve(r, k, kind)
      PROVE  TypeOK'
  <2>1. \A pc \in {"view", "check"} : [pc |-> pc, key |-> k, kind |-> kind] \in Active
    BY DEF Active
  <2>2. req' \in [Requests -> Active \cup {Idle}]
    BY <1>1, <2>1 DEF Reserve, TypeOK
  <2>3. QED
    BY <1>1, <2>2 DEF Reserve, TypeOK
<1>2. ASSUME NEW r \in Requests, Check(r)
      PROVE  TypeOK'
  BY <1>2, ReturnType DEF Check, TypeOK
<1>3. ASSUME NEW r \in Requests, View(r)
      PROVE  TypeOK'
  <2>1. req[r] # Idle /\ req[r].key \in Keys /\ req[r].kind \in Kinds
    BY <1>3, NotIdle, ActiveRequest DEF View
  <2>2. PICK result \in Results(req[r].kind), done \in {0, 1} :
          /\ effects[req[r].key] + done <= MaxEffects
          /\ effects' = [effects EXCEPT ![req[r].key] = @ + done]
          /\ After(r, result)
    BY <1>3 DEF View
  <2>3. result = "redirect" => req[r].kind = "page"
    BY DEF Results
  <2>4. req' \in [Requests -> Active \cup {Idle}]
    BY <2>1, <2>2, <2>3, GotoType DEF After
  <2>5. effects' \in [Keys -> 0..MaxEffects]
    BY <2>1, <2>2, MaxEffectsAssumption DEF TypeOK
  <2>6. QED
    BY <1>3, <2>4, <2>5 DEF View, TypeOK
<1>4. ASSUME NEW r \in Requests, Record(r)
      PROVE  TypeOK'
  BY <1>4, ReturnType DEF Record, TypeOK
<1>5. ASSUME NEW r \in Requests, RecordFails(r)
      PROVE  TypeOK'
  <2>1. req' \in [Requests -> Active \cup {Idle}]
    BY <1>5, NotIdle, GotoType DEF RecordFails
  <2>2. QED
    BY <1>5, <2>1 DEF RecordFails, TypeOK
<1>6. ASSUME NEW r \in Requests, Release(r)
      PROVE  TypeOK'
  <2>1. req[r] # Idle /\ req[r].key \in Keys
    BY <1>6, NotIdle, ActiveRequest DEF Release
  <2>2. QED
    BY <1>6, <2>1, ReturnType DEF Release, TypeOK
<1>7. ASSUME NEW r \in Requests, Crash(r)
      PROVE  TypeOK'
  BY <1>7, ReturnType DEF Crash, TypeOK
<1>8. ASSUME NEW k \in Keys, Cleanup(k)
      PROVE  TypeOK'
  BY <1>8 DEF Cleanup, TypeOK
<1>9. CASE UNCHANGED vars
  BY <1>9 DEF vars, TypeOK
<1>10. QED
  BY <1>1, <1>2, <1>3, <1>4, <1>5, <1>6, <1>7, <1>8, <1>9 DEF Next, Handle

\* Type correctness: in particular a response is recorded for pages only, and
\* no request ever gets lost between the steps of the decorator.
THEOREM IdempotencyTypeCorrect == Spec => []TypeOK
<1>1. Init => TypeOK
  BY MaxEffectsAssumption DEF Init, TypeOK
<1>2. TypeOK /\ [Next]_vars => TypeOK'
  BY TypeStep
<1>3. QED
  BY <1>1, <1>2, PTL DEF Spec

-----------------------------------------------------------------------------
(* The inductive invariant.  OneOwnerPerKey alone is not inductive: a second *)
(* INSERT must find the first owner's row.  So as long as retention has not  *)
(* deleted the key, an owner's row is in the table; it holds a response only *)
(* when the owner's own COMMIT took effect although it seemed to fail.       *)

OwnersHaveRows ==
  \A k \in Keys \ cleaned, r \in Requests : Owns(r, k) =>
    \/ keyRow[k] = "reserved"
    \/ keyRow[k] = "redirect" /\ req[r].pc = "release"

OwnerInv == TypeOK /\ OneOwnerPerKey /\ OwnersHaveRows

\* A step of one request that leaves no other key's row changed, makes it own
\* no new key and leaves its own row as OwnersHaveRows wants it.
LEMMA OwnerKeeps ==
  ASSUME OwnerInv, TypeOK', cleaned' = cleaned, NEW r \in Requests, req[r] # Idle,
         req[r].pc # "check",
         \A q \in Requests : q # r => req'[q] = req[q],
         \A k \in Keys : k # req[r].key => keyRow'[k] = keyRow[k],
         \/ req'[r] = Idle
         \/ /\ req'[r].key = req[r].key
            /\ \/ req[r].key \in cleaned
               \/ keyRow'[req[r].key] = "reserved"
               \/ keyRow'[req[r].key] = "redirect" /\ req'[r].pc = "release"
  PROVE  OwnerInv'
<1>1. \A k \in Keys : Owns(r, k)' => Owns(r, k)
  BY DEF Owns
<1>2. \A q \in Requests, k \in Keys : q # r => (Owns(q, k)' <=> Owns(q, k))
  BY DEF Owns
<1>3. OneOwnerPerKey'
  BY <1>1, <1>2 DEF OwnerInv, OneOwnerPerKey
<1>4. OwnersHaveRows'
  <2>1. SUFFICES ASSUME NEW k \in Keys \ cleaned, NEW q \in Requests, Owns(q, k)'
                 PROVE  \/ keyRow'[k] = "reserved"
                        \/ keyRow'[k] = "redirect" /\ req'[q].pc = "release"
    BY DEF OwnersHaveRows
  <2>2. Owns(q, k)
    BY <1>1, <1>2, <2>1
  <2>3. CASE q = r
    BY <2>1, <2>2, <2>3 DEF Owns
  <2>4. CASE q # r
    <3>1. k # req[r].key
      <4>1. k = req[r].key => Owns(r, k)
        BY DEF Owns
      <4>2. QED
        BY <2>2, <2>4, <4>1 DEF OwnerInv, OneOwnerPerKey
    <3>2. \/ keyRow[k] = "reserved"
          \/ keyRow[k] = "redirect" /\ req[q].pc = "release"
      BY <2>2 DEF OwnerInv, OwnersHaveRows
    <3>3. keyRow'[k] = keyRow[k] /\ req'[q] = req[q]
      BY <2>4, <3>1
    <3>4. QED
      BY <3>2, <3>3
  <2>5. QED
    BY <2>3, <2>4
<1>5. QED
  BY <1>3, <1>4 DEF OwnerInv

LEMMA OwnerStep ==
  ASSUME OwnerInv, [Next]_vars
  PROVE  OwnerInv'
<1> TypeOK /\ TypeOK'
  BY TypeStep DEF OwnerInv
<1>1. ASSUME NEW r \in Requests, NEW k \in Keys, NEW kind \in Kinds, Reserve(r, k, kind)
      PROVE  OwnerInv'
  <2>1. /\ req[r] = Idle /\ cleaned' = cleaned
        /\ req'[r].pc = IF Reserves(k) THEN "view" ELSE "check"
        /\ req'[r].key = k
        /\ \A q \in Requests : q # r => req'[q] = req[q]
        /\ \A i \in Keys : i # k => keyRow'[i] = keyRow[i]
        /\ keyRow'[k] = IF Reserves(k) THEN "reserved" ELSE keyRow[k]
    BY <1>1 DEF Reserve, TypeOK
  <2>2. \A q \in Requests, i \in Keys : q # r => (Owns(q, i)' <=> Owns(q, i))
    BY <2>1 DEF Owns
  <2>3. \A i \in Keys : Owns(r, i)' => i = k /\ Reserves(k)
    BY <2>1 DEF Owns
  <2>4. k \notin cleaned /\ Reserves(k) => \A q \in Requests : ~Owns(q, k)
    BY DEF OwnerInv, OwnersHaveRows, Reserves
  <2>5. OneOwnerPerKey'
    BY <2>1, <2>2, <2>3, <2>4 DEF OwnerInv, OneOwnerPerKey
  <2>6. OwnersHaveRows'
    BY <2>1, <2>2, <2>3, <2>4 DEF OwnerInv, OwnersHaveRows
  <2>7. QED
    BY <2>5, <2>6 DEF OwnerInv
<1>2. ASSUME NEW r \in Requests, Check(r)
      PROVE  OwnerInv'
  <2>1. /\ \A q \in Requests : q # r => req'[q] = req[q]
        /\ req'[r] = Idle /\ UNCHANGED <<keyRow, cleaned>>
    BY <1>2, ReturnType DEF Check
  <2>2. \A q \in Requests, k \in Keys : Owns(q, k)' => q # r /\ Owns(q, k)
    BY <2>1 DEF Owns
  <2>3. QED
    BY <2>1, <2>2 DEF OwnerInv, OneOwnerPerKey, OwnersHaveRows
<1>3. ASSUME NEW r \in Requests, View(r)
      PROVE  OwnerInv'
  <2>1. req[r] # Idle /\ req[r].pc = "view" /\ req[r].key \in Keys /\ UNCHANGED <<keyRow, cleaned>>
    BY <1>3, NotIdle, ActiveRequest DEF View
  <2>2. PICK pc \in {"record", "release"} : Goto(r, pc) /\ (pc = "record" => req[r].kind = "page")
    BY <1>3 DEF View, After, Results
  <2>3. req[r].key \notin cleaned => keyRow[req[r].key] = "reserved"
    BY <2>1 DEF OwnerInv, OwnersHaveRows, Owns
  <2>4. /\ \A q \in Requests : q # r => req'[q] = req[q]
        /\ req'[r].key = req[r].key
    BY <2>1, <2>2, GotoType
  <2>5. cleaned' = cleaned /\ \A k \in Keys : keyRow'[k] = keyRow[k]
    BY <2>1
  <2>6. QED
    BY <2>1, <2>3, <2>4, <2>5, OwnerKeeps
<1>4. ASSUME NEW r \in Requests, Record(r)
      PROVE  OwnerInv'
  <2>1. req[r] # Idle /\ req[r].pc = "record" /\ cleaned' = cleaned
    BY <1>4, NotIdle DEF Record
  <2>2. \A k \in Keys : k # req[r].key => keyRow'[k] = keyRow[k]
    BY <1>4 DEF Record, TypeOK
  <2>3. QED
    BY <1>4, <2>1, <2>2, ReturnType, OwnerKeeps DEF Record
<1>5. ASSUME NEW r \in Requests, RecordFails(r)
      PROVE  OwnerInv'
  <2>1. /\ req[r] # Idle /\ req[r].pc = "record" /\ cleaned' = cleaned /\ Goto(r, "release")
        /\ req[r].key \in Keys
    BY <1>5, NotIdle, ActiveRequest DEF RecordFails
  <2>2. /\ \A k \in Keys : k # req[r].key => keyRow'[k] = keyRow[k]
        /\ keyRow'[req[r].key] \in {"redirect", keyRow[req[r].key]}
    BY <1>5, <2>1 DEF RecordFails, TypeOK
  <2>3. req[r].key \notin cleaned => keyRow[req[r].key] = "reserved"
    BY <2>1 DEF OwnerInv, OwnersHaveRows, Owns
  <2>4. QED
    BY <2>1, <2>2, <2>3, GotoType, OwnerKeeps
<1>6. ASSUME NEW r \in Requests, Release(r)
      PROVE  OwnerInv'
  <2>1. req[r] # Idle /\ req[r].pc = "release" /\ cleaned' = cleaned /\ Return(r)
    BY <1>6, NotIdle DEF Release
  <2>2. \A k \in Keys : k # req[r].key => keyRow'[k] = keyRow[k]
    BY <1>6 DEF Release, TypeOK
  <2>3. QED
    BY <2>1, <2>2, ReturnType, OwnerKeeps
<1>7. ASSUME NEW r \in Requests, Crash(r)
      PROVE  OwnerInv'
  <2>1. /\ \A q \in Requests : q # r => req'[q] = req[q]
        /\ req'[r] = Idle /\ UNCHANGED <<keyRow, cleaned>>
    BY <1>7, ReturnType DEF Crash
  <2>2. \A q \in Requests, k \in Keys : Owns(q, k)' => q # r /\ Owns(q, k)
    BY <2>1 DEF Owns
  <2>3. QED
    BY <2>1, <2>2 DEF OwnerInv, OneOwnerPerKey, OwnersHaveRows
<1>8. ASSUME NEW k \in Keys, Cleanup(k)
      PROVE  OwnerInv'
  <2>1. /\ req' = req /\ cleaned' = cleaned \cup {k}
        /\ \A i \in Keys : i # k => keyRow'[i] = keyRow[i]
    BY <1>8 DEF Cleanup, TypeOK
  <2>2. \A q \in Requests, i \in Keys : Owns(q, i)' <=> Owns(q, i)
    BY <2>1 DEF Owns
  <2>3. QED
    BY <2>1, <2>2 DEF OwnerInv, OneOwnerPerKey, OwnersHaveRows
<1>9. CASE UNCHANGED vars
  BY <1>9 DEF vars, OwnerInv, OneOwnerPerKey, OwnersHaveRows, Owns
<1>10. QED
  BY <1>1, <1>2, <1>3, <1>4, <1>5, <1>6, <1>7, <1>8, <1>9 DEF Next, Handle

LEMMA OwnerInvariant == Spec => []OwnerInv
<1>1. Init => OwnerInv
  BY MaxEffectsAssumption DEF Init, OwnerInv, TypeOK, OneOwnerPerKey, OwnersHaveRows, Owns
<1>2. OwnerInv /\ [Next]_vars => OwnerInv'
  BY OwnerStep
<1>3. QED
  BY <1>1, <1>2, PTL DEF Spec

\* Two requests with one key never execute the view at the same time, whatever
\* overlaps, crashes or fails: the check-then-act race that reserve_idempotency
\* is there to close, and the DELETE of release_idempotency cannot reopen.
THEOREM OneOwner == Spec => []OneOwnerPerKey
<1>1. OwnerInv => OneOwnerPerKey
  BY DEF OwnerInv
<1>2. QED
  BY <1>1, OwnerInvariant, PTL

\* A recorded redirect is final: until retention deletes the key no request
\* releases it and no view commits its effect again.
THEOREM RecordedFinal == Spec => RecordedIsFinal
<1> DEFINE Final == \A k \in Keys : keyRow[k] = "redirect" /\ k \notin cleaned' =>
                      keyRow'[k] = "redirect" /\ effects'[k] = effects[k]
<1>1. OwnerInv /\ [Next]_vars => [Final]_vars
  <2> SUFFICES ASSUME OwnerInv, Next
               PROVE  Final
    OBVIOUS
  <2> TypeOK
    BY DEF OwnerInv
  <2>1. ASSUME NEW r \in Requests, NEW k \in Keys, NEW kind \in Kinds, Reserve(r, k, kind)
        PROVE  Final
    BY <2>1 DEF Reserve, Reserves, TypeOK
  <2>2. ASSUME NEW r \in Requests, Check(r)
        PROVE  Final
    BY <2>2 DEF Check
  <2>3. ASSUME NEW r \in Requests, View(r)
        PROVE  Final
    <3>1. /\ req[r] # Idle /\ req[r].pc = "view" /\ req[r].key \in Keys
          /\ UNCHANGED <<keyRow, cleaned>>
      BY <2>3, NotIdle, ActiveRequest DEF View
    <3>2. req[r].key \notin cleaned => keyRow[req[r].key] = "reserved"
      BY <3>1 DEF OwnerInv, OwnersHaveRows, Owns
    <3>3. \A k \in Keys : k # req[r].key => effects'[k] = effects[k]
      BY <2>3 DEF View, TypeOK
    <3>4. QED
      BY <3>1, <3>2, <3>3
  <2>4. ASSUME NEW r \in Requests, Record(r)
        PROVE  Final
    BY <2>4 DEF Record, TypeOK
  <2>5. ASSUME NEW r \in Requests, RecordFails(r)
        PROVE  Final
    BY <2>5 DEF RecordFails, TypeOK
  <2>6. ASSUME NEW r \in Requests, Release(r)
        PROVE  Final
    BY <2>6 DEF Release, Releasable, TypeOK
  <2>7. ASSUME NEW r \in Requests, Crash(r)
        PROVE  Final
    BY <2>7 DEF Crash
  <2>8. ASSUME NEW k \in Keys, Cleanup(k)
        PROVE  Final
    BY <2>8 DEF Cleanup, TypeOK
  <2>9. QED
    BY <2>1, <2>2, <2>3, <2>4, <2>5, <2>6, <2>7, <2>8 DEF Next, Handle
<1>2. QED
  BY <1>1, OwnerInvariant, PTL DEF Spec, RecordedIsFinal
=============================================================================
