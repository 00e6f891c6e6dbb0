-------------------------- MODULE AdmissionProofs --------------------------
(***************************************************************************)
(* Theorems about Admission, for any number of Keys, requests and savers:  *)
(* that a request finds the policy the store has for its API Key; that the *)
(* content filter in force is the one a restart would load; that a         *)
(* schedule is open exactly in the intervals its rules describe; that every*)
(* answer of the gate is the one the policy asks for; and that the findings*)
(* and the markers stay within their bounds.                               *)
(***************************************************************************)
EXTENDS Admission, FiniteSetTheorems, Sums, TLAPS

-----------------------------------------------------------------------------
(* The maps of the policies.                                                *)

MapTypes == /\ byID \in [Keys -> Policies \cup {None}]
            /\ byHash \in [Hashes -> Keys \cup {None}]

\* One step of an operator that changes the maps.
Rebinds(k, p) ==
  /\ p \in Policies /\ byHash[p.hash] \in {None, k}
  /\ rows' = [rows EXCEPT ![k] = p] /\ byID' = [byID EXCEPT ![k] = p]
  /\ byHash' = Bound(k, p.hash)
Relists(k, p) ==
  /\ p \in Policies /\ byID[k] # None /\ p.hash = byID[k].hash
  /\ rows' = [rows EXCEPT ![k] = p] /\ byID' = [byID EXCEPT ![k] = p]
  /\ byHash' = byHash
Deletes(k) ==
  /\ byID[k] # None
  /\ rows' = [rows EXCEPT ![k] = None] /\ byID' = [byID EXCEPT ![k] = None]
  /\ byHash' = [byHash EXCEPT ![byID[k].hash] = None]

LEMMA PolicyCases ==
  ASSUME MapTypes, [Next]_vars
  PROVE  \/ UNCHANGED policies
         \/ \E k \in Keys : Deletes(k) \/ \E p \in Policies : Rebinds(k, p) \/ Relists(k, p)
<1>1. ASSUME NEW k \in Keys, NEW raw \in Hashes \cup {None}, NEW edit \in Edits,
             NEW list \in Whitelists \cup {None}, UpsertPolicy(k, raw, edit, list)
      PROVE  \E p \in Policies : Rebinds(k, p)
  <2>. DEFINE p == Edited(k, raw, edit, list)
  <2>1. p \in Policies
    <3>1. p.hash \in Hashes
      BY <1>1 DEF UpsertPolicy, Edited, MapTypes, Policies
    <3>2. /\ p.enabled \in {e.enabled : e \in Edits} /\ p.disabled \in {e.disabled : e \in Edits}
          /\ p.rules \in {e.rules : e \in Edits} /\ p.models \in {e.models : e \in Edits}
      BY DEF Edited
    <3>3. /\ p.ips \in {w.ips : w \in Whitelists \cup {NoWhitelist}}
          /\ p.ipOn \in {w.ipOn : w \in Whitelists \cup {NoWhitelist}}
      BY DEF Edited, MapTypes, Policies
    <3>4. p = [hash |-> p.hash, enabled |-> p.enabled, disabled |-> p.disabled, rules |-> p.rules,
               models |-> p.models, ips |-> p.ips, ipOn |-> p.ipOn]
      BY DEF Edited
    <3>. HIDE DEF p
    <3>. QED BY <3>1, <3>2, <3>3, <3>4 DEF Policies
  <2>. QED BY <1>1, <2>1 DEF UpsertPolicy, Rebinds
<1>2. ASSUME NEW k \in Keys, NEW list \in Whitelists, UpdatePolicyIPWhitelist(k, list)
      PROVE  \E p \in Policies : Relists(k, p)
  <2>. DEFINE p == [byID[k] EXCEPT !.ips = list.ips, !.ipOn = list.ipOn]
  <2>1. byID[k] \in Policies /\ byID[k] # None
    BY <1>2 DEF UpdatePolicyIPWhitelist, MapTypes
  <2>2. p \in Policies /\ p.hash = byID[k].hash
    BY <2>1 DEF Policies
  <2>. QED BY <1>2, <2>1, <2>2 DEF UpdatePolicyIPWhitelist, Relists
<1>3. ASSUME NEW k \in Keys, DeletePolicy(k) PROVE Deletes(k)
  BY <1>3 DEF DeletePolicy, Deletes
<1>4. ASSUME NEW r \in Requests, Lookup(r) \/ Scan(r) \/ Insert(r) \/ Pick(r) \/ Gate(r) \/ Retry(r)
      PROVE  UNCHANGED policies
  BY <1>4 DEF Lookup, Scan, Insert, Pick, Gate, Retry
<1>5. ASSUME NEW k \in Keys, Settle(k) \/ ResetPolicyUsage(k) PROVE UNCHANGED policies
  BY <1>5 DEF Settle, ResetPolicyUsage
<1>6. ASSUME NEW s \in Savers, ApplyFilter(s) \/ \E settings \in Submissions : StoreFilter(s, settings)
      PROVE  UNCHANGED policies
  BY <1>6 DEF ApplyFilter, StoreFilter
<1>7. CASE Tick \/ UNCHANGED vars
  BY <1>7 DEF Tick, vars
<1>. QED BY <1>1, <1>2, <1>3, <1>4, <1>5, <1>6, <1>7 DEF Next

LEMMA MapsInit == Init => MapTypes /\ MapsAgree
<1>. SUFFICES ASSUME Init PROVE MapTypes /\ MapsAgree
  OBVIOUS
<1>1. /\ byID = rows /\ byID \in [Keys -> Policies \cup {None}]
      /\ \A k, l \in Keys : k # l /\ byID[k] # None /\ byID[l] # None => byID[k].hash # byID[l].hash
  BY SeedAssumption DEF Init
<1>2. ASSUME NEW h \in Hashes
      PROVE  /\ byHash[h] \in Keys \cup {None}
             /\ \A k \in Keys : byHash[h] = k <=> byID[k] # None /\ byID[k].hash = h
  <2>1. CASE \E k \in Keys : byID[k] # None /\ byID[k].hash = h
    <3>1. byHash[h] = CHOOSE k \in Keys : byID[k] # None /\ byID[k].hash = h
      BY <2>1 DEF Init, PolicyMap
    <3>2. byHash[h] \in Keys /\ byID[byHash[h]] # None /\ byID[byHash[h]].hash = h
      BY <2>1, <3>1
    <3>. QED BY <1>1, <3>2
  <2>2. CASE ~ \E k \in Keys : byID[k] # None /\ byID[k].hash = h
    <3>1. byHash[h] = None
      BY <2>2 DEF Init, PolicyMap
    <3>. QED BY <2>2, <3>1, AdmissionAssumption
  <2>. QED BY <2>1, <2>2
<1>3. byHash = [h \in Hashes |-> byHash[h]]
  BY DEF Init, PolicyMap
<1>. QED BY <1>1, <1>2, <1>3 DEF MapTypes, MapsAgree

LEMMA MapsStep == MapTypes /\ MapsAgree /\ [Next]_vars => MapTypes' /\ MapsAgree'
<1>. SUFFICES ASSUME MapTypes, MapsAgree, [Next]_vars PROVE MapTypes' /\ MapsAgree'
  OBVIOUS
<1>. /\ None \notin Policies /\ None \notin Keys /\ byID = rows
     /\ \A p \in Policies : p.hash \in Hashes
  BY SeedAssumption, AdmissionAssumption DEF MapsAgree, Policies
<1>1. CASE UNCHANGED policies
  BY <1>1 DEF policies, MapTypes, MapsAgree
<1>2. ASSUME NEW k \in Keys, NEW p \in Policies, Rebinds(k, p) PROVE MapTypes' /\ MapsAgree'
  <2>1. byID' = rows' /\ \A l \in Keys : byID'[l] = IF l = k THEN p ELSE byID[l]
    BY <1>2 DEF Rebinds, MapTypes
  <2>2. \A h \in Hashes : byHash'[h] = IF h = p.hash THEN k ELSE IF byHash[h] = k THEN None ELSE byHash[h]
    BY <1>2 DEF Rebinds, Bound
  <2>3. MapTypes'
    BY <1>2, <2>2 DEF Rebinds, Bound, MapTypes
  <2>4. ASSUME NEW h \in Hashes, NEW l \in Keys
        PROVE  byHash'[h] = l <=> byID'[l] # None /\ byID'[l].hash = h
    <3>1. byHash[h] = l <=> byID[l] # None /\ byID[l].hash = h
      BY DEF MapsAgree
    <3>2. CASE l = k
      BY <2>1, <2>2, <3>1, <3>2
    <3>3. CASE l # k
      <4>1. byHash[p.hash] # l
        BY <1>2, <3>3 DEF Rebinds
      <4>. QED BY <2>1, <2>2, <3>1, <3>3, <4>1
    <3>. QED BY <3>2, <3>3
  <2>. QED BY <2>1, <2>3, <2>4 DEF MapsAgree
<1>3. ASSUME NEW k \in Keys, NEW p \in Policies, Relists(k, p) PROVE MapTypes' /\ MapsAgree'
  <2>1. byID' = rows' /\ \A l \in Keys : byID'[l] = IF l = k THEN p ELSE byID[l]
    BY <1>3 DEF Relists, MapTypes
  <2>2. \A l \in Keys : /\ byID'[l] # None <=> byID[l] # None
                        /\ byID[l] # None => byID'[l].hash = byID[l].hash
    BY <1>3, <2>1 DEF Relists
  <2>. QED BY <1>3, <2>1, <2>2 DEF Relists, MapTypes, MapsAgree
<1>4. ASSUME NEW k \in Keys, Deletes(k) PROVE MapTypes' /\ MapsAgree'
  <2>1. byID' = rows' /\ \A l \in Keys : byID'[l] = IF l = k THEN None ELSE byID[l]
    BY <1>4 DEF Deletes, MapTypes
  <2>2. byID[k].hash \in Hashes /\ byHash[byID[k].hash] = k
    BY <1>4 DEF Deletes, MapTypes, MapsAgree
  <2>3. \A h \in Hashes : byHash'[h] = IF h = byID[k].hash THEN None ELSE byHash[h]
    BY <1>4 DEF Deletes, MapTypes
  <2>. QED BY <1>4, <2>1, <2>2, <2>3 DEF Deletes, MapTypes, MapsAgree
<1>. QED BY <1>1, <1>2, <1>3, <1>4, PolicyCases

\* A request finds the policy that the store has for its API Key
\* (engine.go:458-477, panel.go:257-444): both maps follow the table through
\* any sequence of saves, rebindings, whitelist edits and deletions.
THEOREM MapsFollowStore == Spec => []MapsAgree
<1>1. Spec => [](MapTypes /\ MapsAgree)
  BY MapsInit, MapsStep, PTL DEF Spec
<1>. QED BY <1>1, PTL

-----------------------------------------------------------------------------
(* The content filter.                                                      *)

\* Unless saves overlap, one at a time is between the store and memory.
SaveInv ==
  /\ save \in [Savers -> Filters \cup {None}]
  /\ overlapped \in BOOLEAN
  /\ ~overlapped => \/ InFlight = {} /\ filter = stored
                    \/ \E s \in Savers : InFlight = {s} /\ save[s] = stored

LEMMA SaveInit == Init => SaveInv
BY DEF Init, SaveInv, InFlight

LEMMA SaveStep == SaveInv /\ [Next]_vars => SaveInv'
<1>. SUFFICES ASSUME SaveInv, [Next]_vars PROVE SaveInv'
  OBVIOUS
<1>1. ASSUME NEW s \in Savers, NEW settings \in Submissions, StoreFilter(s, settings) PROVE SaveInv'
  <2>. DEFINE new == NormalizedFilter(settings)
  <2>1. new \in Filters /\ new # None
    BY SeedAssumption DEF NormalizedFilter, Filters
  <2>2. save' = [save EXCEPT ![s] = new] /\ stored' = new
    BY <1>1 DEF StoreFilter
  <2>3. overlapped' \in BOOLEAN /\ (~overlapped' => InFlight = {})
    BY <1>1 DEF StoreFilter
  <2>. HIDE DEF new
  <2>4. InFlight = {} => InFlight' = {s}
    BY <2>1, <2>2 DEF InFlight, SaveInv
  <2>. QED BY <2>1, <2>2, <2>3, <2>4 DEF SaveInv
<1>2. ASSUME NEW s \in Savers, ApplyFilter(s) PROVE SaveInv'
  <2>1. /\ save[s] # None /\ save' = [save EXCEPT ![s] = None] /\ filter' = save[s]
        /\ UNCHANGED <<stored, overlapped>>
    BY <1>2 DEF ApplyFilter
  <2>2. s \in InFlight
    BY <2>1 DEF InFlight
  <2>3. ~overlapped => InFlight' = {} /\ filter' = stored'
    <3>. SUFFICES ASSUME ~overlapped PROVE InFlight = {s} /\ save[s] = stored
      BY <2>1 DEF InFlight, SaveInv
    <3>. QED BY <2>2 DEF SaveInv
  <2>. QED BY <2>1, <2>3 DEF SaveInv
<1>3. ASSUME UNCHANGED filters PROVE SaveInv'
  BY <1>3 DEF filters, SaveInv, InFlight
<1>4. ASSUME NEW r \in Requests, Lookup(r) \/ Scan(r) \/ Insert(r) \/ Pick(r) \/ Gate(r) \/ Retry(r)
      PROVE  UNCHANGED filters
  BY <1>4 DEF Lookup, Scan, Insert, Pick, Gate, Retry
<1>5. ASSUME NEW k \in Keys,
             \/ Settle(k) \/ ResetPolicyUsage(k) \/ DeletePolicy(k)
             \/ \E list \in Whitelists : UpdatePolicyIPWhitelist(k, list)
             \/ \E raw \in Hashes \cup {None}, edit \in Edits, list \in Whitelists \cup {None} :
                  UpsertPolicy(k, raw, edit, list)
      PROVE  UNCHANGED filters
  BY <1>5 DEF Settle, ResetPolicyUsage, DeletePolicy, UpdatePolicyIPWhitelist, UpsertPolicy
<1>6. CASE Tick \/ UNCHANGED vars
  BY <1>3, <1>6 DEF Tick, vars
<1>. QED BY <1>1, <1>2, <1>3, <1>4, <1>5, <1>6 DEF Next

\* The filter in force is the one a restart would load (content_filter.go:216-236),
\* whatever was saved, unless saves overlapped.
THEOREM FilterFollowsStore == Spec => []FilterStored
<1>1. SaveInv => FilterStored
  <2>. SUFFICES ASSUME SaveInv, InFlight = {}, ~overlapped PROVE filter = stored
    BY DEF FilterStored
  <2>. QED BY DEF SaveInv
<1>. QED BY <1>1, SaveInit, SaveStep, PTL DEF Spec

-----------------------------------------------------------------------------
(* The schedule.                                                            *)

\* Division with remainder.
LEMMA Division ==
  ASSUME NEW m \in Nat \ {0}
  PROVE  /\ \A t \in Int : /\ t = m * (t \div m) + (t % m)
                           /\ t \div m \in Int /\ t % m \in 0 .. (m - 1)
         /\ \A t \in Nat : t \div m \in Nat
         /\ \A k \in Int, y \in 0 .. (m - 1) : (m * k + y) % m = y
OBVIOUS

\* Multiples of a positive number.
LEMMA Multiples ==
  ASSUME NEW m \in Nat \ {0}
  PROVE  /\ \A k \in Int : m * k \in Int /\ m * (k + 1) = m * k + m /\ m * (k - 1) = m * k - m
         /\ \A k \in Nat : k >= 1 => m * k >= m
         /\ \A k \in Nat : k >= 2 => m * k >= 2 * m
         /\ \A j, k \in Int : m * (j + k) = m * j + m * k /\ m * (j - k) = m * j - m * k
         /\ \A j, k \in Nat : j <= k => m * j <= m * k
OBVIOUS

\* The days since the last one of that weekday.
DaysSince(weekday, day) == IF weekday >= day THEN weekday - day ELSE weekday - day + Days

\* How far t lies behind the opening of a rule on one of its days, in the week.
LEMMA SinceOpening ==
  ASSUME NEW t \in Nat, NEW day \in 0 .. (Days - 1), NEW start \in 0 .. (SlotsPerDay - 1)
  PROVE  LET e == DaysSince(WeekdayOf(t), day)
             s == SlotOf(t)
         IN  (t + Days * SlotsPerDay - (day * SlotsPerDay + start)) % (Days * SlotsPerDay)
               = IF e = 0 /\ s < start THEN Days * SlotsPerDay + s - start
                 ELSE SlotsPerDay * e + s - start
<1>. DEFINE S == SlotsPerDay
            W == S * Days
            n == t \div S
            q == n \div Days
            d == WeekdayOf(t)
            s == SlotOf(t)
            e == DaysSince(d, day)
            x == t + W - (S * day + start)
<1>1. S \in Nat \ {0} /\ Days \in Nat \ {0}
  BY AdmissionAssumption
<1>2. W \in Nat \ {0} /\ Days * S = W /\ day * S = S * day
  BY <1>1
<1>3. t = S * n + s /\ n \in Nat /\ s \in 0 .. (S - 1)
  <2>1. /\ t = SlotsPerDay * (t \div SlotsPerDay) + (t % SlotsPerDay)
        /\ t \div SlotsPerDay \in Nat /\ t % SlotsPerDay \in 0 .. (SlotsPerDay - 1)
    <3>1. t \in Int
      OBVIOUS
    <3>. QED BY <1>1, <3>1, Division
  <2>. QED BY <2>1 DEF SlotOf
<1>4. n = Days * q + d /\ q \in Nat /\ d \in 0 .. (Days - 1)
  <2>. HIDE DEF n
  <2>1. n \in Nat /\ n \in Int
    BY <1>3
  <2>2. /\ n = Days * (n \div Days) + (n % Days)
        /\ n \div Days \in Nat /\ n % Days \in 0 .. (Days - 1)
    BY <1>1, <2>1, Division
  <2>3. d = n % Days
    BY DEF WeekdayOf, n
  <2>. QED BY <2>2, <2>3
<1>5. e \in 0 .. (Days - 1) /\ day \in Nat /\ start \in Nat /\ start <= S - 1
  BY <1>1, <1>4 DEF DaysSince
<1>6. \E i \in {0, 1} : d - day = e - Days * i
  <2>1. CASE d >= day
    BY <1>1, <1>4, <1>5, <2>1 DEF DaysSince
  <2>2. CASE ~(d >= day)
    BY <1>1, <1>4, <1>5, <2>2 DEF DaysSince
  <2>. QED BY <2>1, <2>2
<1>. HIDE DEF n, q, d, s, e, S
<1>7. PICK i \in {0, 1} : d - day = e - Days * i
  BY <1>6
<1>. DEFINE k == q + 1 - i
<1>8. k \in Int /\ x = W * k + (S * e + s - start)
  <2>1. n - day = Days * k + e - Days
    <3>1. Days * k = Days * q + Days - Days * i
      BY <1>1, <1>4
    <3>2. Days * q \in Nat /\ Days * i \in Nat
      BY <1>1, <1>4
    <3>. QED BY <1>1, <1>3, <1>4, <1>5, <1>7, <3>1, <3>2
  <2>2. k \in Int /\ Days * k \in Int /\ S * (Days * k) = W * k
    BY <1>1, <1>4
  <2>3. S * (n - day) = S * (Days * k) + S * e - S * Days
    <3>. DEFINE a == Days * k
    <3>1. a \in Int
      BY <2>2
    <3>. HIDE DEF a
    <3>2. S * (a + e - Days) = S * a + S * e - S * Days
      <4>1. S * (a + e) = S * a + S * e /\ S * ((a + e) - Days) = S * (a + e) - S * Days
        BY <1>1, <1>5, <3>1, Multiples
      <4>. DEFINE u == S * a
                  v == S * e
                  w == S * Days
                  z == S * (a + e)
                  y == S * (a + e - Days)
      <4>2. u \in Int /\ v \in Int /\ w \in Int /\ z = u + v /\ y = z - w
        BY <1>1, <1>5, <3>1, <4>1
      <4>. HIDE DEF u, v, w, y, z
      <4>3. y = u + v - w
        BY <4>2
      <4>. QED BY <4>3 DEF u, v, w, y
    <3>3. n - day = a + e - Days
      BY <2>1 DEF a
    <3>. QED BY <3>2, <3>3 DEF a
  <2>4. S * (n - day) = S * n - S * day
    BY <1>1, <1>3, <1>5, Multiples
  <2>5. S * n \in Int /\ S * day \in Int /\ S * e \in Int /\ W * k \in Int /\ W \in Int
    BY <1>1, <1>2, <1>3, <1>5, <2>2
  <2>6. t + W - (S * day + start) = W * k + (S * e + s - start)
    <3>. DEFINE A == S * n
                B == S * day
                C == S * e
                F == W * k
    <3>1. /\ t = A + s /\ A - B = F + C - W
          /\ A \in Int /\ B \in Int /\ C \in Int /\ F \in Int /\ W \in Int /\ s \in Int /\ start \in Int
      BY <1>3, <1>5, <2>2, <2>3, <2>4, <2>5
    <3>. HIDE DEF A, B, C, F, W, k
    <3>2. t + W - (B + start) = F + (C + s - start)
      BY <3>1
    <3>. QED BY <3>2 DEF A, B, C, F
  <2>. QED BY <2>2, <2>6
<1>. HIDE DEF k, x
<1>9. CASE e = 0 /\ s < start
  <2>1. S * e = 0 /\ W * k = W * (k - 1) + W /\ k - 1 \in Int /\ W * (k - 1) \in Int
    BY <1>1, <1>2, <1>8, <1>9, Multiples
  <2>2. x = W * (k - 1) + (W + s - start)
    BY <1>2, <1>3, <1>5, <1>8, <2>1
  <2>3. W >= S
    BY <1>1, Multiples
  <2>4. W + s - start \in 0 .. (W - 1)
    BY <1>1, <1>2, <1>3, <1>5, <1>9, <2>3
  <2>5. x % W = W + s - start
    <3>. DEFINE j == k - 1
                y == W + s - start
    <3>1. j \in Int /\ y \in 0 .. (W - 1) /\ x = W * j + y
      BY <2>1, <2>2, <2>4
    <3>. HIDE DEF j, y, W
    <3>2. (W * j + y) % W = y
      BY <1>2, <3>1, Division
    <3>. QED BY <3>1, <3>2 DEF y
  <2>. QED BY <1>2, <1>9, <2>5 DEF x, S, d, e, s
<1>10. CASE ~(e = 0 /\ s < start)
  <2>1. S * e <= S * (Days - 1) /\ S * (Days - 1) = W - S /\ S * e \in Nat
    BY <1>1, <1>5, Multiples
  <2>2. e >= 1 => S * e >= S
    BY <1>1, <1>5, Multiples
  <2>3. S * e + s - start \in 0 .. (W - 1)
    <3>1. S * e + s - start <= W - 1
      BY <1>1, <1>2, <1>3, <1>5, <2>1
    <3>2. S * e + s - start >= 0
      BY <1>1, <1>2, <1>3, <1>5, <1>10, <2>1, <2>2
    <3>. QED BY <1>2, <1>3, <1>5, <2>1, <3>1, <3>2
  <2>4. x % W = S * e + s - start
    BY <1>2, <1>8, <2>3, Division
  <2>. QED BY <1>2, <1>10, <2>4 DEF x, S, d, e, s
<1>. QED BY <1>9, <1>10

\* Where the second half of an overnight rule is looked up.
LEMMA PreviousDay ==
  ASSUME NEW d \in 0 .. (Days - 1), NEW day \in 0 .. (Days - 1)
  PROVE  /\ (d + Days - 1) % Days = day <=> DaysSince(d, day) = 1 \/ Days = 1
         /\ d = day <=> DaysSince(d, day) = 0
         /\ DaysSince(d, day) \in 0 .. (Days - 1)
<1>1. Days \in Nat \ {0}
  BY AdmissionAssumption
<1>2. \A k \in Int, y \in 0 .. (Days - 1) : (Days * k + y) % Days = y
  BY <1>1, Division
<1>3. (d + Days - 1) % Days = IF d = 0 THEN Days - 1 ELSE d - 1
  <2>1. CASE d = 0
    <3>1. (Days * 0 + (Days - 1)) % Days = Days - 1
      BY <1>1, <1>2
    <3>2. Days * 0 + (Days - 1) = d + Days - 1
      BY <1>1, <2>1
    <3>. QED BY <2>1, <3>1, <3>2
  <2>2. CASE d # 0
    <3>1. (Days * 1 + (d - 1)) % Days = d - 1
      BY <1>1, <1>2, <2>2
    <3>2. Days * 1 + (d - 1) = d + Days - 1
      BY <1>1
    <3>. QED BY <2>2, <3>1, <3>2
  <2>. QED BY <2>1, <2>2
<1>. QED BY <1>1, <1>3 DEF DaysSince

\* The two readings of the schedule (access_schedule.go) agree at every time: a
\* rule that opens late and closes early spans midnight, also from the last
\* weekday to the first.
THEOREM ScheduleIsIntervals ==
  ASSUME NEW p \in Policies, NEW t \in Nat
  PROVE  AllowsAt(p, t) <=> InSchedule(p, t)
<1>. DEFINE S == SlotsPerDay
            W == Days * SlotsPerDay
            d == WeekdayOf(t)
            s == SlotOf(t)
            prev == (d + Days - 1) % Days
<1>1. S \in Nat \ {0} /\ Days \in Nat \ {0}
  BY AdmissionAssumption
<1>2. s \in 0 .. (S - 1) /\ d \in 0 .. (Days - 1)
  <2>1. t \div S \in Nat
    BY <1>1, Division
  <2>. QED BY <1>1, <2>1, Division DEF SlotOf, WeekdayOf
<1>3. \A rule \in p.rules : /\ rule.days \subseteq 0 .. (Days - 1)
                            /\ rule.start \in 0 .. (S - 1) /\ rule.end \in 0 .. (S - 1)
                            /\ rule.start # rule.end
  BY RuleAssumption DEF Policies
<1>. DEFINE Open(rule) == IF rule.start < rule.end
                          THEN d \in rule.days /\ s \in rule.start .. rule.end - 1
                          ELSE \/ d \in rule.days /\ s >= rule.start
                               \/ prev \in rule.days /\ s < rule.end
            Length(rule) == (rule.end + S - rule.start) % S
            Since(rule, day) == (t + W - (day * S + rule.start)) % W
<1>. HIDE DEF d, s
<1>4. ASSUME NEW rule \in p.rules, NEW day \in rule.days
      PROVE  Since(rule, day) < Length(rule) <=>
               IF rule.start < rule.end THEN d = day /\ s >= rule.start /\ s < rule.end
               ELSE (d = day /\ s >= rule.start) \/ (prev = day /\ s < rule.end)
  <2>. DEFINE a == rule.start
              b == rule.end
              e == DaysSince(d, day)
  <2>1. a \in 0 .. (S - 1) /\ b \in 0 .. (S - 1) /\ a # b /\ day \in 0 .. (Days - 1)
    BY <1>3
  <2>2. Length(rule) = IF a < b THEN b - a ELSE b + S - a
    <3>1. \A k \in Int, y \in 0 .. (S - 1) : (S * k + y) % S = y
      BY <1>1, Division
    <3>2. CASE a < b
      <4>1. (S * 1 + (b - a)) % S = b - a /\ S * 1 + (b - a) = b + S - a
        BY <1>1, <2>1, <3>1, <3>2, SMTT(30)
      <4>. QED BY <3>2, <4>1
    <3>3. CASE ~(a < b)
      <4>. DEFINE y == b + S - a
      <4>1. y \in 0 .. (S - 1) /\ S * 0 = 0
        BY <1>1, <2>1, <3>3
      <4>. HIDE DEF y
      <4>2. (S * 0 + y) % S = y /\ S * 0 + y = y
        BY <3>1, <4>1
      <4>. QED BY <3>3, <4>2 DEF y
    <3>. QED BY <3>2, <3>3
  <2>3. Since(rule, day) = IF e = 0 /\ s < a THEN W + s - a ELSE S * e + s - a
    BY <2>1, SinceOpening DEF d, s
  <2>4. /\ prev = day <=> e = 1 \/ Days = 1
        /\ d = day <=> e = 0
        /\ e \in 0 .. (Days - 1)
    BY <1>2, <2>1, PreviousDay
  <2>5. /\ e = 0 => S * e = 0
        /\ e = 1 => S * e = S
        /\ e >= 2 => S * e >= 2 * S
        /\ Days = 1 => W = S
        /\ Days >= 2 => W >= 2 * S
        /\ S * e \in Nat /\ W \in Nat
    <3>1. W = S * Days
      BY <1>1
    <3>. QED BY <1>1, <2>4, <3>1, Multiples
  <2>. DEFINE P == S * e
              since == Since(rule, day)
              length == Length(rule)
              before == prev = day
              same == d = day
  <2>. HIDE DEF a, b, e, P, W, S, since, length, before, same, prev
  <2>6. since < length <=> IF a < b THEN same /\ s >= a /\ s < b
                           ELSE (same /\ s >= a) \/ (before /\ s < b)
    <3>0. /\ a \in Nat /\ b \in Nat /\ s \in Nat /\ S \in Nat \ {0} /\ a < S /\ b < S /\ s < S /\ a # b
          /\ e \in Nat /\ P \in Nat /\ W \in Nat /\ Days \in Nat \ {0} /\ e < Days
          /\ length = IF a < b THEN b - a ELSE b + S - a
          /\ since = IF e = 0 /\ s < a THEN W + s - a ELSE P + s - a
          /\ before <=> e = 1 \/ Days = 1
          /\ same <=> e = 0
      BY <1>1, <1>2, <2>1, <2>2, <2>3, <2>4, <2>5 DEF P, since, length, before, same
    <3>1. /\ e = 0 => P = 0
          /\ e = 1 => P = S
          /\ e >= 2 => P >= 2 * S
          /\ Days = 1 => W = S
          /\ Days >= 2 => W >= 2 * S
      BY <2>5 DEF P
    <3>2. CASE e = 0 /\ s < a
      BY <3>0, <3>1, <3>2
    <3>3. CASE e = 0 /\ ~(s < a)
      BY <3>0, <3>1, <3>3
    <3>4. CASE e = 1
      BY <3>0, <3>1, <3>4
    <3>5. CASE e >= 2
      BY <3>0, <3>1, <3>5
    <3>. QED BY <3>0, <3>2, <3>3, <3>4, <3>5
  <2>. QED BY <2>6 DEF a, b, since, length, before, same
<1>5. ASSUME NEW rule \in p.rules
      PROVE  Open(rule) <=> \E day \in rule.days : Since(rule, day) < Length(rule)
  <2>1. /\ rule.start \in Int /\ rule.end \in Int /\ s \in Int
    BY <1>2, <1>3
  <2>. HIDE DEF Since, Length, prev
  <2>2. CASE rule.start < rule.end
    BY <1>4, <2>1, <2>2
  <2>3. CASE ~(rule.start < rule.end)
    BY <1>4, <2>1, <2>3
  <2>. QED BY <2>2, <2>3
<1>6. AllowsAt(p, t) <=> p.rules = {} \/ \E rule \in p.rules : Open(rule)
  BY DEF AllowsAt, d, s
<1>7. InSchedule(p, t) <=>
        p.rules = {} \/ \E rule \in p.rules : \E day \in rule.days : Since(rule, day) < Length(rule)
  BY DEF InSchedule
<1>. HIDE DEF Open, Since, Length
<1>. QED BY <1>5, <1>6, <1>7
-----------------------------------------------------------------------------
(* What the scan found, on its way to the gate.                             *)

Terms == Builtin \cup UNION {s.active : s \in Submissions}
Records ==
  [pc : {"new", "scan", "insert", "ready", "gate", "routed", "done"}, key : Keys \cup {None},
   read : Nat, at : Nat, inforce : SUBSET Terms]

Shapes ==
  /\ now \in Clock
  /\ filter.active \subseteq Terms
  /\ req \in [Requests -> Records]
  /\ DOMAIN captured = Requests

\* The entry that the scan of r makes.
Finding(r) ==
  [key |-> req[r].key, model |-> RequestOf[r].requested, read |-> req[r].read,
   match |-> RequestText(RequestOf[r].body) \cap req[r].inforce # {}]

\* A request that was scanned has its own finding in the map when it comes to
\* the gate, or is one of the lost; any other request has none.
Carried(r) ==
  /\ req[r].pc \in {"scan", "insert"} => req[r].key # None /\ req[r].read \in Clock
  /\ req[r].pc \in {"new", "routed", "done"} => req[r].key = None
  /\ req[r].pc \in {"new", "scan", "insert"} => captured[r] = None /\ r \notin lost
  /\ req[r].pc = "routed" => captured[r] = None
  /\ req[r].pc \in {"ready", "gate"} =>
       /\ captured[r] # None <=> req[r].key # None /\ r \notin lost
       /\ captured[r] # None => captured[r] = Finding(r)

FindingInv == Shapes /\ \A r \in Requests : Carried(r)

LEMMA FindingInit == Init => FindingInv
<1>. SUFFICES ASSUME Init PROVE FindingInv
  OBVIOUS
<1>1. /\ now \in Clock /\ filter.active = Builtin /\ lost = {}
      /\ req = [r \in Requests |-> Blank] /\ captured = [r \in Requests |-> None]
  BY AdmissionAssumption DEF Init
<1>2. Blank \in Records
  BY DEF Blank, Records
<1>3. Shapes
  BY <1>1, <1>2 DEF Shapes, Terms
<1>4. ASSUME NEW r \in Requests PROVE Carried(r)
  BY <1>1 DEF Carried, Blank
<1>. QED BY <1>3, <1>4 DEF FindingInv

\* What an answer of the gate leaves of the request and of the map.
LEMMA GateLeaves ==
  ASSUME NEW r \in Requests, Gate(r)
  PROVE  /\ UNCHANGED <<now, filter>>
         /\ \E pc \in {"done", "routed"} :
              /\ req' = [req EXCEPT ![r] = [Blank EXCEPT !.pc = pc]]
              /\ \/ pc = "done" /\ UNCHANGED content
                 \/ /\ captured' = [Without(captured, Expired(req[r].at)) EXCEPT ![r] = None]
                    /\ lost' = lost \cup (Expired(req[r].at) \ {r})
<1>1. UNCHANGED <<now, filter>>
  BY DEF Gate, filters
<1>2. CASE byHash[RequestOf[r].hash] = None
  <2>1. End(r, "bypass") /\ UNCHANGED content
    BY <1>2 DEF Gate
  <2>. QED BY <1>1, <2>1 DEF End
<1>3. CASE byHash[RequestOf[r].hash] # None
  <2>1. /\ captured' = [Without(captured, Expired(req[r].at)) EXCEPT ![r] = None]
        /\ lost' = lost \cup (Expired(req[r].at) \ {r})
    BY <1>3 DEF Gate
  <2>2. (\E k, env : Route(r, k, env)) \/ (\E code : End(r, code))
    BY <1>3 DEF Gate
  <2>3. \E pc \in {"done", "routed"} : req' = [req EXCEPT ![r] = [Blank EXCEPT !.pc = pc]]
    BY <2>2 DEF Route, End
  <2>. QED BY <1>1, <2>1, <2>3
<1>. QED BY <1>2, <1>3

\* Findings that are dropped are lost, and no request but theirs notices.
LEMMA DropsAreLost ==
  ASSUME FindingInv, NEW out \in SUBSET Requests,
         UNCHANGED <<now, filter, req>>, captured' = Without(captured, out),
         out \subseteq {r \in Requests : captured[r] # None}, lost' = lost \cup out
  PROVE  FindingInv'
<1>1. Shapes'
  BY DEF FindingInv, Shapes, Without
<1>2. ASSUME NEW r \in Requests PROVE Carried(r)'
  <2>1. /\ Carried(r) /\ req'[r] = req[r]
        /\ captured'[r] = (IF r \in out THEN None ELSE captured[r])
        /\ r \in out => captured[r] # None
        /\ r \in lost' <=> r \in lost \/ r \in out
    BY DEF FindingInv, Without
  <2>. QED BY <2>1 DEF Carried, Finding
<1>. QED BY <1>1, <1>2 DEF FindingInv

LEMMA FindingStep ==
  ASSUME MapTypes, SaveInv, FindingInv, [Next]_vars
  PROVE  FindingInv'
<1>1. /\ now \in Nat /\ Clock \subseteq Nat
      /\ \A r \in Requests : Carried(r) /\ req[r] \in Records /\ RequestOf[r].hash \in Hashes
      /\ DOMAIN req = Requests /\ DOMAIN captured = Requests
  BY AdmissionAssumption DEF FindingInv, Shapes
\* One request changes, to a record of its own.
<1>2. ASSUME NEW r \in Requests, NEW rec \in Records, req' = [req EXCEPT ![r] = rec],
             UNCHANGED <<now, filter, captured, lost>>, Carried(r)'
      PROVE  FindingInv'
  <2>1. Shapes'
    BY <1>2 DEF FindingInv, Shapes
  <2>2. ASSUME NEW q \in Requests, q # r PROVE Carried(q)'
    BY <1>1, <1>2, <2>2 DEF Carried, Finding
  <2>. QED BY <1>2, <2>1, <2>2 DEF FindingInv
<1>3. ASSUME NEW r \in Requests, Lookup(r) PROVE FindingInv'
  <2>. DEFINE k == byHash[RequestOf[r].hash]
              rec == IF k = None \/ RequestText(RequestOf[r].body) = {}
                     THEN [req[r] EXCEPT !.pc = "ready"]
                     ELSE [req[r] EXCEPT !.pc = "scan", !.key = k, !.read = now]
  <2>1. k \in Keys \cup {None}
    BY <1>1 DEF MapTypes
  <2>2. rec \in Records
    <3>. HIDE DEF k
    <3>. QED BY <1>1, <2>1 DEF Records
  <2>3. req' = [req EXCEPT ![r] = rec] /\ UNCHANGED <<now, filter, captured, lost>>
    BY <1>3 DEF Lookup, Step, filters, content
  <2>4. req[r].pc = "new" /\ req[r].key = None /\ captured[r] = None /\ r \notin lost
    BY <1>1, <1>3 DEF Lookup, Carried
  <2>5. req'[r] = rec /\ captured'[r] = None /\ r \notin lost'
    BY <1>1, <2>3, <2>4
  <2>6. \/ rec.pc = "ready" /\ rec.key = None
        \/ rec.pc = "scan" /\ rec.key # None /\ rec.read = now
    BY <1>1, <2>4 DEF Records
  <2>7. now \in Clock
    BY DEF FindingInv, Shapes
  <2>. HIDE DEF rec
  <2>8. Carried(r)'
    BY <2>5, <2>6, <2>7 DEF Carried
  <2>. QED BY <1>2, <2>2, <2>3, <2>8
<1>4. ASSUME NEW r \in Requests, Scan(r) PROVE FindingInv'
  <2>. DEFINE rec == [req[r] EXCEPT !.pc = "insert", !.inforce = InForce]
  <2>1. InForce \in SUBSET Terms
    BY DEF FindingInv, Shapes, InForce
  <2>2. rec \in Records /\ rec.pc = "insert" /\ rec.key = req[r].key /\ rec.read = req[r].read
    BY <1>1, <2>1 DEF Records
  <2>3. req' = [req EXCEPT ![r] = rec] /\ UNCHANGED <<now, filter, captured, lost>> /\ req[r].pc = "scan"
    BY <1>4 DEF Scan, filters, content
  <2>4. req'[r] = rec
    BY <1>1, <2>3
  <2>. HIDE DEF rec
  <2>5. Carried(r)'
    BY <1>1, <2>2, <2>3, <2>4 DEF Carried
  <2>. QED BY <1>2, <2>2, <2>3, <2>5
<1>5. ASSUME NEW r \in Requests, Pick(r) PROVE FindingInv'
  <2>. DEFINE rec == [req[r] EXCEPT !.pc = "gate", !.at = now]
  <2>1. /\ rec \in Records /\ rec.pc = "gate" /\ rec.key = req[r].key /\ rec.read = req[r].read
        /\ rec.inforce = req[r].inforce
    BY <1>1 DEF Records
  <2>2. req' = [req EXCEPT ![r] = rec] /\ UNCHANGED <<now, filter, captured, lost>> /\ req[r].pc = "ready"
    BY <1>5 DEF Pick, filters, content
  <2>3. req'[r] = rec
    BY <1>1, <2>2
  <2>. HIDE DEF rec
  <2>4. Carried(r)'
    BY <1>1, <2>1, <2>2, <2>3 DEF Carried, Finding
  <2>. QED BY <1>2, <2>1, <2>2, <2>4
<1>6. ASSUME NEW r \in Requests, Retry(r) PROVE FindingInv'
  <2>. DEFINE rec == [req[r] EXCEPT !.pc = "ready"]
  <2>1. rec \in Records /\ rec.pc = "ready" /\ rec.key = req[r].key
    BY <1>1 DEF Records
  <2>2. req' = [req EXCEPT ![r] = rec] /\ UNCHANGED <<now, filter, captured, lost>> /\ req[r].pc = "routed"
    BY <1>6 DEF Retry, Step, filters, content
  <2>3. req'[r] = rec
    BY <1>1, <2>2
  <2>. HIDE DEF rec
  <2>4. Carried(r)'
    BY <1>1, <2>1, <2>2, <2>3 DEF Carried
  <2>. QED BY <1>2, <2>1, <2>2, <2>4
<1>7. ASSUME NEW r \in Requests, Insert(r) PROVE FindingInv'
  <2>. DEFINE out == Expired(req[r].read)
              kept == Without(captured, out)
              entry == Finding(r)
  <2>1. /\ req' = [req EXCEPT ![r].pc = "ready"] /\ req[r].pc = "insert"
        /\ captured' = (IF Full(kept) THEN kept ELSE [kept EXCEPT ![r] = entry])
        /\ lost' = lost \cup out \cup (IF Full(kept) THEN {r} ELSE {})
        /\ UNCHANGED <<now, filter>>
    BY <1>7 DEF Insert, Step, Finding, filters
  <2>2. /\ req[r].key # None /\ req[r].key \in Keys /\ req[r].read \in Clock
        /\ captured[r] = None /\ r \notin lost
    BY <1>1, <2>1 DEF Carried, Records
  <2>3. entry # None
    <3>1. RequestOf[r].requested \in Models
      BY DEF Models
    <3>2. entry \in Entries
      BY <2>2, <3>1 DEF Finding, Entries
    <3>. QED BY <3>2, RequestAssumption
  <2>4. /\ req'[r] = [req[r] EXCEPT !.pc = "ready"] /\ req' \in [Requests -> Records]
        /\ \A q \in Requests : q # r => req'[q] = req[q]
    <3>1. [req[r] EXCEPT !.pc = "ready"] \in Records
      BY <1>1 DEF Records
    <3>2. req' = [req EXCEPT ![r] = [req[r] EXCEPT !.pc = "ready"]]
      BY <2>1
    <3>. QED BY <1>1, <3>1, <3>2 DEF FindingInv, Shapes
  <2>5. /\ DOMAIN captured' = Requests
        /\ captured'[r] = (IF Full(kept) THEN None ELSE entry)
        /\ \A q \in Requests : q # r => captured'[q] = (IF q \in out THEN None ELSE captured[q])
    <3>1. DOMAIN kept = Requests /\ kept[r] = None
      BY <2>2 DEF Without
    <3>2. \A q \in Requests : kept[q] = IF q \in out THEN None ELSE captured[q]
      BY DEF Without
    <3>. HIDE DEF kept, entry
    <3>. QED BY <2>1, <3>1, <3>2
  <2>6. \A q \in Requests : q \in out => captured[q] # None
    BY DEF Expired
  <2>. HIDE DEF out, kept, entry
  <2>7. Shapes'
    BY <1>1, <2>1, <2>4, <2>5 DEF FindingInv, Shapes
  <2>8. Carried(r)'
    <3>1. /\ req'[r].pc = "ready" /\ req'[r].key = req[r].key /\ req'[r].read = req[r].read
          /\ req'[r].inforce = req[r].inforce
      BY <1>1, <2>4 DEF Records
    <3>2. Finding(r)' = entry
      BY <3>1 DEF Finding, entry
    <3>3. r \in lost' <=> Full(kept)
      BY <2>1, <2>2, <2>6
    <3>. QED BY <2>2, <2>3, <2>5, <3>1, <3>2, <3>3 DEF Carried
  <2>9. ASSUME NEW q \in Requests, q # r PROVE Carried(q)'
    <3>1. /\ Carried(q) /\ req'[q] = req[q] /\ (q \in lost' <=> q \in lost \/ q \in out)
          /\ captured'[q] = (IF q \in out THEN None ELSE captured[q])
          /\ q \in out => captured[q] # None
      BY <1>1, <2>1, <2>4, <2>5, <2>6, <2>9
    <3>2. Finding(q)' = Finding(q)
      BY <3>1 DEF Finding
    <3>. QED BY <3>1, <3>2 DEF Carried
  <2>. QED BY <2>7, <2>8, <2>9 DEF FindingInv
<1>8. ASSUME NEW r \in Requests, Gate(r) PROVE FindingInv'
  <2>. DEFINE out == Expired(req[r].at)
              kept == Without(captured, out)
  <2>1. PICK pc \in {"done", "routed"} :
          /\ req' = [req EXCEPT ![r] = [Blank EXCEPT !.pc = pc]]
          /\ \/ pc = "done" /\ UNCHANGED content
             \/ captured' = [kept EXCEPT ![r] = None] /\ lost' = lost \cup (out \ {r})
    BY <1>8, GateLeaves
  <2>2. UNCHANGED <<now, filter>>
    BY <1>8, GateLeaves
  <2>. DEFINE rec == [Blank EXCEPT !.pc = pc]
  <2>3. rec \in Records /\ rec.pc = pc /\ rec.key = None
    BY DEF Blank, Records
  <2>. HIDE DEF rec
  <2>4. /\ req' \in [Requests -> Records] /\ req'[r] = rec
        /\ \A q \in Requests : q # r => req'[q] = req[q]
    BY <1>1, <2>1, <2>3 DEF FindingInv, Shapes, rec
  <2>5. CASE pc = "done" /\ UNCHANGED content
    <3>1. Carried(r)'
      BY <2>3, <2>4, <2>5 DEF Carried, content
    <3>. QED BY <1>2, <2>1, <2>2, <2>3, <2>5, <3>1 DEF content, rec
  <2>6. CASE captured' = [kept EXCEPT ![r] = None] /\ lost' = lost \cup (out \ {r})
    <3>1. /\ DOMAIN captured' = Requests /\ captured'[r] = None
          /\ \A q \in Requests : q # r => captured'[q] = (IF q \in out THEN None ELSE captured[q])
      BY <2>6 DEF Without
    <3>2. \A q \in Requests : q \in out => captured[q] # None
      BY DEF Expired
    <3>. HIDE DEF out, kept
    <3>3. Shapes'
      BY <2>2, <2>4, <3>1 DEF FindingInv, Shapes
    <3>4. Carried(r)'
      BY <2>3, <2>4, <3>1 DEF Carried
    <3>5. ASSUME NEW q \in Requests, q # r PROVE Carried(q)'
      <4>1. /\ Carried(q) /\ req'[q] = req[q] /\ (q \in lost' <=> q \in lost \/ q \in out)
            /\ captured'[q] = (IF q \in out THEN None ELSE captured[q])
            /\ q \in out => captured[q] # None
        BY <1>1, <2>4, <2>6, <3>1, <3>2, <3>5
      <4>2. Finding(q)' = Finding(q)
        BY <4>1 DEF Finding
      <4>. QED BY <4>1, <4>2 DEF Carried
    <3>. QED BY <3>3, <3>4, <3>5 DEF FindingInv
  <2>. QED BY <2>1, <2>5, <2>6
<1>9. ASSUME NEW k \in Keys, ResetPolicyUsage(k) \/ DeletePolicy(k) PROVE FindingInv'
  <2>1. DiscardKeyAccounting(k) /\ UNCHANGED <<now, filter, req>>
    BY <1>9 DEF ResetPolicyUsage, DeletePolicy, filters
  <2>. QED BY <2>1, DropsAreLost DEF DiscardKeyAccounting
<1>10. ASSUME UNCHANGED <<req, content>>, now' \in Clock, filter'.active \subseteq Terms
       PROVE  FindingInv'
  BY <1>10 DEF FindingInv, Shapes, Carried, Finding, content
<1>11. now \in Clock /\ filter.active \subseteq Terms
  BY DEF FindingInv, Shapes
<1>12. ASSUME NEW s \in Savers, ApplyFilter(s) \/ \E settings \in Submissions : StoreFilter(s, settings)
       PROVE  FindingInv'
  <2>1. UNCHANGED <<req, content, now>>
    BY <1>12 DEF ApplyFilter, StoreFilter
  <2>2. filter'.active \subseteq Terms
    <3>1. CASE ApplyFilter(s)
      <4>1. filter' \in Filters
        BY <3>1 DEF ApplyFilter, SaveInv
      <4>. QED BY <4>1 DEF Filters, Terms
    <3>2. CASE \E settings \in Submissions : StoreFilter(s, settings)
      BY <1>11, <3>2 DEF StoreFilter
    <3>. QED BY <1>12, <3>1, <3>2
  <2>. QED BY <1>10, <1>11, <2>1, <2>2
<1>13. ASSUME NEW k \in Keys,
              \/ Settle(k) \/ \E list \in Whitelists : UpdatePolicyIPWhitelist(k, list)
              \/ \E raw \in Hashes \cup {None}, edit \in Edits, list \in Whitelists \cup {None} :
                   UpsertPolicy(k, raw, edit, list)
       PROVE  FindingInv'
  <2>1. UNCHANGED <<req, content, now, filter>>
    BY <1>13 DEF Settle, UpdatePolicyIPWhitelist, UpsertPolicy, filters
  <2>. QED BY <1>10, <1>11, <2>1
<1>14. CASE Tick \/ UNCHANGED vars
  <2>1. UNCHANGED <<req, content, filter>> /\ now' \in Clock
    BY <1>11, <1>14 DEF Tick, vars, filters
  <2>. QED BY <1>10, <1>11, <2>1
<1>. QED
  BY <1>3, <1>4, <1>5, <1>6, <1>7, <1>8, <1>9, <1>12, <1>13, <1>14 DEF Next

-----------------------------------------------------------------------------
(* The account and the refusal.                                             *)

\* An account comes no later than another.
NotAfter(c, d) ==
  \/ c.priority < d.priority
  \/ c.priority = d.priority /\ c.id <= d.id

\* This is a total order.
LEMMA NotAfterOrders ==
  ASSUME NEW c, NEW d, NEW e,
         c.id \in Int /\ d.id \in Int /\ e.id \in Int,
         c.priority \in Int /\ d.priority \in Int /\ e.priority \in Int
  PROVE  /\ NotAfter(c, d) \/ NotAfter(d, c)
         /\ NotAfter(c, d) /\ NotAfter(d, e) => NotAfter(c, e)
BY DEF NotAfter

\* Of some accounts of an offer, one comes first.
LEMMA SomeComesFirst ==
  ASSUME NEW offer \in Seq([id : Int, priority : Int]), NEW S \in SUBSET DOMAIN offer, S # {}
  PROVE  \E i \in S : \A j \in S : NotAfter(offer[i], offer[j])
<1>. DEFINE G == {T \in SUBSET S : T # {} => \E i \in T : \A j \in T : NotAfter(offer[i], offer[j])}
<1>1. IsFiniteSet(S)
  <2>1. Len(offer) \in Nat /\ S \in SUBSET (1 .. Len(offer))
    OBVIOUS
  <2>2. IsFiniteSet(1 .. Len(offer))
    BY <2>1, FS_Interval
  <2>. HIDE DEF G
  <2>. QED BY <2>1, <2>2, FS_Subset
<1>2. \A i \in S : offer[i].id \in Int /\ offer[i].priority \in Int
  <2>1. ASSUME NEW i \in S PROVE offer[i] \in [id : Int, priority : Int]
    <3>. DEFINE R == [id : Int, priority : Int]
    <3>1. offer \in Seq(R) /\ i \in 1 .. Len(offer)
      OBVIOUS
    <3>. HIDE DEF R
    <3>2. offer[i] \in R
      BY <3>1
    <3>. QED BY <3>2 DEF R
  <2>. QED BY <2>1
<1>3. \A i, j, h \in S : /\ NotAfter(offer[i], offer[j]) \/ NotAfter(offer[j], offer[i])
                         /\ NotAfter(offer[i], offer[j]) /\ NotAfter(offer[j], offer[h])
                              => NotAfter(offer[i], offer[h])
  <2>. SUFFICES ASSUME NEW i \in S, NEW j \in S, NEW h \in S
                PROVE  /\ NotAfter(offer[i], offer[j]) \/ NotAfter(offer[j], offer[i])
                       /\ NotAfter(offer[i], offer[j]) /\ NotAfter(offer[j], offer[h])
                            => NotAfter(offer[i], offer[h])
    OBVIOUS
  <2>1. /\ offer[i].id \in Int /\ offer[j].id \in Int /\ offer[h].id \in Int
        /\ offer[i].priority \in Int /\ offer[j].priority \in Int /\ offer[h].priority \in Int
    BY <1>2
  <2>. QED BY <2>1, NotAfterOrders
<1>4. ASSUME NEW T \in SUBSET S, \A U \in SUBSET T : U # T => U \in G
      PROVE  T \in G
  <2>. SUFFICES ASSUME T # {} PROVE \E i \in T : \A j \in T : NotAfter(offer[i], offer[j])
    BY DEF G
  <2>1. PICK y \in T : TRUE
    OBVIOUS
  <2>. DEFINE U == T \ {y}
  <2>2. U \in G
    BY <1>4, <2>1
  <2>3. CASE U = {}
    BY <1>3, <2>1, <2>3
  <2>4. CASE U # {}
    <3>1. PICK i \in U : \A j \in U : NotAfter(offer[i], offer[j])
      BY <2>2, <2>4
    <3>. QED BY <1>3, <2>1, <3>1
  <2>. QED BY <2>3, <2>4
<1>. HIDE DEF G
<1>5. S \in G
  BY <1>1, <1>4, SubsetInduction
<1>. QED BY <1>5 DEF G

\* The scheduler prefers an account that no other of the offer comes before
\* (routing.go: by priority and then by account, each at its first place).
LEMMA SelectedIsPreferred ==
  ASSUME NEW offer \in Seq([id : Int, priority : Int]), SelectCPACandidate(offer) # None
  PROVE  Preferred(offer, SelectCPACandidate(offer))
<1>. DEFINE first == {j \in DOMAIN offer : \A h \in 1 .. (j - 1) : offer[h].id # offer[j].id}
            choices == {offer[i] : i \in first}
            c == CHOOSE x \in choices : \A d \in choices :
                   \/ x.priority < d.priority
                   \/ x.priority = d.priority /\ x.id <= d.id
<1>1. choices # {} /\ SelectCPACandidate(offer) = c.id
  <2>1. SelectCPACandidate(offer) = IF choices = {} THEN None ELSE c.id
    BY DEF SelectCPACandidate
  <2>. HIDE DEF choices, c
  <2>. QED BY <2>1
<1>2. \E i \in first : \A j \in first : NotAfter(offer[i], offer[j])
  <2>1. first \in SUBSET DOMAIN offer /\ first # {}
    BY <1>1
  <2>. HIDE DEF first
  <2>. QED BY <2>1, SomeComesFirst
<1>. HIDE DEF first
<1>3. c \in choices /\ \A d \in choices : NotAfter(c, d)
  <2>1. \E x \in choices : \A d \in choices : NotAfter(x, d)
    BY <1>2
  <2>2. \E x \in choices : \A d \in choices :
          \/ x.priority < d.priority
          \/ x.priority = d.priority /\ x.id <= d.id
    BY <2>1 DEF NotAfter
  <2>. HIDE DEF choices
  <2>3. c \in choices /\ \A d \in choices :
          \/ c.priority < d.priority
          \/ c.priority = d.priority /\ c.id <= d.id
    BY <2>2
  <2>. QED BY <2>3 DEF NotAfter
<1>. HIDE DEF c
<1>4. \E i \in first : offer[i].id = c.id /\ \A j \in first : NotAfter(offer[i], offer[j])
  BY <1>3
<1>. QED BY <1>1, <1>4 DEF Preferred, NotAfter, first

\* The refusal that is answered is the first gate that fails.
LEMMA FirstRefusal ==
  ASSUME NEW gates, DOMAIN gates \subseteq 1 .. 11, Refusals(gates) # {}
  PROVE  LET i == Min(Refusals(gates))
         IN  i \in DOMAIN gates /\ gates[i].fails /\ \A j \in DOMAIN gates : j < i => ~gates[j].fails
<1>. DEFINE S == Refusals(gates)
            i == Min(S)
<1>1. S \subseteq 1 .. 11 /\ S \in SUBSET Int /\ IsFiniteSet(S)
  <2>1. S \subseteq 1 .. 11
    BY DEF Refusals
  <2>. HIDE DEF S
  <2>2. S \in SUBSET (1 .. 11) /\ S \in SUBSET Int
    BY <2>1
  <2>3. IsFiniteSet(1 .. 11)
    <3>1. \A n \in Nat : IsFiniteSet(1 .. n)
      BY FS_Interval
    <3>. QED BY <3>1
  <2>. QED BY <2>1, <2>2, <2>3, FS_Subset
<1>2. i \in S /\ \A j \in S : i <= j
  BY <1>1, LeastExists DEF Min
<1>3. \A j \in S : j < i => FALSE
  BY <1>1, <1>2
<1>. HIDE DEF i
<1>. QED BY <1>2, <1>3 DEF Refusals, i

\* What the gate finds of the scan is what the request's finding says, if the
\* finding was kept, and nothing otherwise.
LEMMA GateFinds ==
  ASSUME FindingInv, NEW r \in Requests, req[r].pc = "gate",
         NEW k \in Keys, k = byHash[RequestOf[r].hash]
  PROVE  LET kept == Without(captured, Expired(req[r].at))
             found == IF kept[r] # None /\ kept[r].key = k THEN kept[r] ELSE None
         IN  /\ found # None <=> Kept(r)
             /\ found # None => found = Finding(r)
<1>. DEFINE kept == Without(captured, Expired(req[r].at))
            found == IF kept[r] # None /\ kept[r].key = k THEN kept[r] ELSE None
<1>1. /\ captured[r] # None <=> req[r].key # None /\ r \notin lost
      /\ captured[r] # None => captured[r] = Finding(r)
      /\ req[r].read \in Nat /\ req[r].at \in Nat
  BY DEF FindingInv, Shapes, Carried, Records
<1>2. kept[r] = IF captured[r] # None /\ captured[r].read + CaptureTTL < req[r].at
                THEN None ELSE captured[r]
  BY DEF Without, Expired
<1>3. /\ captured[r] # None => captured[r].read = req[r].read /\ captured[r].key = req[r].key
      /\ req[r].read + CaptureTTL < req[r].at <=> ~(req[r].at <= req[r].read + CaptureTTL)
  BY <1>1, RequestAssumption DEF Finding
<1>4. k # None
  BY AdmissionAssumption
<1>. HIDE DEF kept
<1>. QED BY <1>1, <1>2, <1>3, <1>4 DEF Kept, kept

\* The gate's decision is just, whatever the rest of the system answers.
LEMMA DecisionIsJust ==
  ASSUME FindingInv, NEW r \in Requests, req[r].pc = "gate",
         NEW p \in Policies, NEW env \in Environments, NEW found, NEW a,
         found # None <=> Kept(r), found # None => found = Finding(r),
         RequestOf[r].says = RequestText(RequestOf[r].body),
         LET model == IF found # None THEN found.model ELSE RequestOf[r].rewritten
             gates == Gates(p, found, model, r, env)
             refusals == Refusals(gates)
         IN  IF refusals = {}
             THEN IF p.enabled THEN a.code = "allowed" /\ a.auth = SelectCPACandidate(env.offer)
                               ELSE a.code = "tracked"
             ELSE a.code = gates[Min(refusals)].code
  PROVE  Fair(r, p, a)
<1>. DEFINE model == IF found # None THEN found.model ELSE RequestOf[r].rewritten
            gates == Gates(p, found, model, r, env)
            i == Min(Refusals(gates))
            open == ~p.disabled /\ (p.ipOn => RequestOf[r].ip \in p.ips)
            scheduled == InSchedule(p, req[r].at)
            forbidden == Forbidden(r)
            allowed == p.models = {} \/ Judged(r) \in p.models
<1>1. found # None /\ found.match <=> forbidden
  <2>1. found # None => found.match = (RequestText(RequestOf[r].body) \cap req[r].inforce # {})
    BY DEF Finding
  <2>. QED BY <2>1 DEF Forbidden
<1>2. model = Judged(r)
  BY DEF Finding, Judged
<1>3. AllowsAt(p, req[r].at) <=> scheduled
  <2>1. req[r].at \in Nat
    BY DEF FindingInv, Shapes, Records
  <2>. QED BY <2>1, ScheduleIsIntervals
<1>4. DOMAIN gates = 1 .. 11
  BY DEF Gates
<1>5. /\ gates[1].code = "key_disabled" /\ gates[2].code = "ip_not_allowed"
      /\ gates[3].code = "content_forbidden" /\ gates[4].code = "access_schedule_closed"
      /\ gates[5].code = "model_not_allowed" /\ gates[6].code = "model_rate_not_configured"
      /\ gates[7].code = "key_dollar_budget_exhausted"
      /\ gates[8].code = "quota_persistence_unavailable"
      /\ gates[9].code = "quota_scheduler_candidates_required"
      /\ gates[10].code = "quota_persistence_unavailable"
      /\ gates[11].code = "quota_persistence_unavailable"
  BY DEF Gates
<1>6. /\ gates[1].fails <=> p.disabled
      /\ gates[2].fails <=> ~(p.ipOn => RequestOf[r].ip \in p.ips)
      /\ gates[3].fails <=> forbidden
      /\ gates[4].fails <=> ~scheduled
      /\ gates[5].fails <=> ~allowed
      /\ gates[7].fails => p.enabled
      /\ gates[9].fails <=> p.enabled /\ SelectCPACandidate(env.offer) = None
  <2>1. /\ gates[1].fails = p.disabled
        /\ gates[2].fails = ~AllowsIP(p, RequestOf[r].ip)
        /\ gates[3].fails = (found # None /\ found.match)
        /\ gates[4].fails = ~AllowsAt(p, req[r].at)
        /\ gates[5].fails = ~ModelAllowed(p, model)
        /\ gates[7].fails = (p.enabled /\ env.trouble = "spent")
        /\ gates[9].fails = (p.enabled /\ SelectCPACandidate(env.offer) = None)
    BY DEF Gates
  <2>. HIDE DEF gates, model
  <2>. QED BY <1>1, <1>2, <1>3, <2>1 DEF AllowsIP, ModelAllowed
<1>. HIDE DEF gates, model, open, scheduled, forbidden, allowed
<1>7. CASE Refusals(gates) = {}
  <2>1. \A j \in 1 .. 11 : ~gates[j].fails
    BY <1>4, <1>7 DEF Refusals
  <2>2. open /\ scheduled /\ ~forbidden /\ allowed
    BY <1>6, <2>1 DEF open
  <2>3. CASE p.enabled
    <3>1. a.code = "allowed" /\ a.auth = SelectCPACandidate(env.offer)
      BY <1>7, <2>3 DEF gates, model
    <3>2. SelectCPACandidate(env.offer) # None
      BY <1>6, <2>1, <2>3
    <3>3. Preferred(env.offer, a.auth)
      BY <3>1, <3>2, RequestAssumption, SelectedIsPreferred
    <3>. QED BY <2>2, <2>3, <3>1, <3>3 DEF Fair, open, scheduled, forbidden, allowed
  <2>4. CASE ~p.enabled
    <3>1. a.code = "tracked"
      BY <1>7, <2>4 DEF gates, model
    <3>. QED BY <2>2, <3>1 DEF Fair, open, scheduled, forbidden, allowed
  <2>. QED BY <2>3, <2>4
<1>8. CASE Refusals(gates) # {}
  <2>1. a.code = gates[i].code
    BY <1>8 DEF gates, model
  <2>2. i \in 1 .. 11 /\ gates[i].fails /\ \A j \in 1 .. 11 : j < i => ~gates[j].fails
    BY <1>4, <1>8, FirstRefusal
  <2>. HIDE DEF i
  <2>3. CASE i = 1
    BY <1>5, <1>6, <2>1, <2>2, <2>3 DEF Fair
  <2>4. CASE i = 2
    BY <1>5, <1>6, <2>1, <2>2, <2>4 DEF Fair
  <2>5. CASE i = 3
    <3>1. open /\ forbidden
      BY <1>6, <2>2, <2>5 DEF open
    <3>. QED BY <1>5, <2>1, <2>5, <3>1 DEF Fair, open, forbidden
  <2>6. CASE i = 4
    <3>1. open /\ ~forbidden /\ ~scheduled
      BY <1>6, <2>2, <2>6 DEF open
    <3>. QED BY <1>5, <2>1, <2>6, <3>1 DEF Fair, open, forbidden, scheduled
  <2>7. CASE i = 5
    <3>1. open /\ ~forbidden /\ scheduled /\ ~allowed
      BY <1>6, <2>2, <2>7 DEF open
    <3>. QED BY <1>5, <2>1, <2>7, <3>1 DEF Fair, open, forbidden, scheduled, allowed
  <2>8. CASE i \in 6 .. 11
    <3>1. open /\ ~forbidden /\ scheduled /\ allowed
      BY <1>6, <2>2, <2>8 DEF open
    <3>2. /\ a.code \in {"model_rate_not_configured", "key_dollar_budget_exhausted",
                         "quota_persistence_unavailable", "quota_scheduler_candidates_required"}
          /\ a.code = "key_dollar_budget_exhausted" => p.enabled
      BY <1>5, <1>6, <2>1, <2>2, <2>8
    <3>. QED BY <3>1, <3>2 DEF Fair, open, forbidden, scheduled, allowed
  <2>. QED BY <2>2, <2>3, <2>4, <2>5, <2>6, <2>7, <2>8
<1>. QED BY <1>7, <1>8

\* The extraction of the text reads what the user said last, of every request.
TextIsRead == \A r \in Requests : RequestOf[r].says = RequestText(RequestOf[r].body)

LEMMA AnswerStep ==
  ASSUME MapTypes, MapsAgree, FindingInv, TextIsRead, Next,
         NEW r \in Requests, answer' # None, answer'.req = r, req[r].pc = "gate"
  PROVE  LET k == byHash[RequestOf[r].hash]
         IN  IF k = None THEN answer'.code = "bypass" ELSE Fair(r, rows[k], answer')
<1>1. PICK q \in Requests : Gate(q)
  <2>1. ASSUME NEW q \in Requests, Lookup(q) \/ Scan(q) \/ Insert(q) \/ Pick(q) \/ Retry(q)
        PROVE  FALSE
    BY <2>1 DEF Lookup, Scan, Insert, Pick, Retry
  <2>2. ASSUME NEW k \in Keys,
               \/ Settle(k) \/ ResetPolicyUsage(k) \/ DeletePolicy(k)
               \/ \E list \in Whitelists : UpdatePolicyIPWhitelist(k, list)
               \/ \E raw \in Hashes \cup {None}, edit \in Edits, list \in Whitelists \cup {None} :
                    UpsertPolicy(k, raw, edit, list)
        PROVE  FALSE
    BY <2>2 DEF Settle, ResetPolicyUsage, DeletePolicy, UpdatePolicyIPWhitelist, UpsertPolicy, Change
  <2>3. ASSUME NEW s \in Savers, ApplyFilter(s) \/ \E settings \in Submissions : StoreFilter(s, settings)
        PROVE  FALSE
    BY <2>3 DEF ApplyFilter, StoreFilter, Change
  <2>4. ~Tick
    BY DEF Tick
  <2>. QED BY <2>1, <2>2, <2>3, <2>4 DEF Next
<1>. DEFINE k == byHash[RequestOf[q].hash]
            kept == Without(captured, Expired(req[q].at))
            found == IF kept[q] # None /\ kept[q].key = k THEN kept[q] ELSE None
            model == IF found # None THEN found.model ELSE RequestOf[q].rewritten
<1>2. CASE k = None
  <2>1. End(q, "bypass")
    BY <1>1, <1>2 DEF Gate
  <2>. QED BY <1>2, <2>1 DEF End
<1>3. CASE k # None
  <2>1. PICK env \in Environments :
          LET gates == Gates(byID[k], found, model, q, env)
          IN  IF Refusals(gates) = {} THEN Route(q, k, env)
              ELSE End(q, gates[Min(Refusals(gates))].code)
    BY <1>1, <1>3 DEF Gate
  <2>2. k \in Keys /\ byID[k] \in Policies /\ rows[k] = byID[k]
    <3>1. RequestOf[q].hash \in Hashes
      BY AdmissionAssumption
    <3>2. k \in Keys
      BY <1>3, <3>1 DEF MapTypes
    <3>. QED BY <3>1, <3>2 DEF MapTypes, MapsAgree
  <2>3. q = r
    BY <2>1, SMTT(30) DEF Route, End
  <2>4. (found # None <=> Kept(q)) /\ (found # None => found = Finding(q))
    BY <2>2, <2>3, GateFinds
  <2>. DEFINE gates == Gates(byID[k], found, model, q, env)
  <2>5. IF Refusals(gates) = {}
        THEN IF byID[k].enabled
             THEN answer'.code = "allowed" /\ answer'.auth = SelectCPACandidate(env.offer)
             ELSE answer'.code = "tracked"
        ELSE answer'.code = gates[Min(Refusals(gates))].code
    <3>. HIDE DEF gates, k, found, model
    <3>. QED BY <2>1 DEF Route, End, gates
  <2>6. Fair(q, byID[k], answer')
    <3>. HIDE DEF found, k
    <3>. QED BY <2>2, <2>3, <2>4, <2>5, DecisionIsJust DEF TextIsRead
  <2>. QED BY <1>3, <2>2, <2>3, <2>6
<1>. QED BY <1>2, <1>3

\* Every answer of the gate is the one the policy in the store asks for
\* (engine.go:546-644): whatever is edited, saved, crowded out or outlived
\* between the capture and the gate, a request is routed only inside its
\* schedule, from its whitelist and for an allowed model, no text that the
\* filter in force at the scan matched passes unless its finding was not kept,
\* and a refusal names the first gate that fails.
THEOREM GateIsJust ==
  ASSUME TextIsRead
  PROVE  Spec => AnswersAreJust
<1>. DEFINE IInv == MapTypes /\ MapsAgree /\ SaveInv /\ FindingInv
<1>1. Init => IInv
  BY MapsInit, SaveInit, FindingInit
<1>2. IInv /\ [Next]_vars => IInv'
  BY MapsStep, SaveStep, FindingStep
<1>. DEFINE Just ==
       \A r \in Requests : answer' # None /\ answer'.req = r /\ req[r].pc = "gate" =>
         LET k == byHash[RequestOf[r].hash]
         IN IF k = None THEN answer'.code = "bypass" ELSE Fair(r, rows[k], answer')
<1>3. IInv /\ [Next]_vars => [Just]_vars
  BY AnswerStep
<1>4. Spec => [][Just]_vars
  <2>. HIDE DEF Just, IInv
  <2>. QED BY <1>1, <1>2, <1>3, PTL DEF Spec
<1>. QED BY <1>4 DEF AnswersAreJust

-----------------------------------------------------------------------------
(* The bounded maps.                                                        *)

Bounded ==
  /\ changes \in 0 .. MaxChanges /\ lost \subseteq Requests
  /\ \A r \in Requests :
       captured[r] # None => captured[r].key \in Keys /\ captured[r].model \in Models
  /\ Size(captured) <= MaxCaptured
  /\ pending \in [Keys -> Nat] /\ Markers <= MaxPending

\* Nothing new is in this map.
Shrinks(map, new) == \A r \in Requests : new[r] # None => map[r] = new[r]

LEMMA SizeShrinks ==
  ASSUME NEW map, NEW new, Shrinks(map, new)
  PROVE  Size(new) <= Size(map) /\ Size(new) \in Nat /\ Size(map) \in Nat
<1>. DEFINE A == {r \in Requests : map[r] # None}
            B == {r \in Requests : new[r] # None}
<1>1. B \in SUBSET A /\ A \in SUBSET Requests
  BY DEF Shrinks
<1>2. IsFiniteSet(A) /\ IsFiniteSet(Requests)
  BY <1>1, RequestAssumption, FS_Subset
<1>3. IsFiniteSet(B) /\ Cardinality(B) <= Cardinality(A)
  BY <1>1, <1>2, FS_Subset
<1>. HIDE DEF A, B
<1>4. Cardinality(A) \in Nat /\ Cardinality(B) \in Nat
  BY <1>2, <1>3, FS_CardinalityType
<1>. QED BY <1>3, <1>4 DEF Size, A, B

LEMMA SizeGrows ==
  ASSUME NEW map, NEW new, NEW r \in Requests, \A q \in Requests \ {r} : new[q] = map[q]
  PROVE  Size(new) <= Size(map) + 1 /\ Size(new) \in Nat /\ Size(map) \in Nat
<1>. DEFINE A == {q \in Requests : map[q] # None}
            B == {q \in Requests : new[q] # None}
            C == A \cup {r}
<1>1. B \in SUBSET C /\ A \in SUBSET Requests
  OBVIOUS
<1>2. IsFiniteSet(A)
  BY <1>1, RequestAssumption, FS_Subset
<1>. HIDE DEF A, B
<1>3. IsFiniteSet(C) /\ (Cardinality(C) = Cardinality(A) \/ Cardinality(C) = Cardinality(A) + 1)
  BY <1>2, FS_AddElement
<1>. HIDE DEF C
<1>4. IsFiniteSet(B) /\ Cardinality(B) <= Cardinality(C)
  BY <1>1, <1>3, FS_Subset
<1>5. Cardinality(A) \in Nat /\ Cardinality(B) \in Nat /\ Cardinality(C) \in Nat
  BY <1>2, <1>3, <1>4, FS_CardinalityType
<1>. QED BY <1>3, <1>4, <1>5 DEF Size, A, B

\* Only Insert puts a finding into the map, and only into one with room.
LEMMA ContentStep ==
  ASSUME FindingInv, Bounded, [Next]_vars
  PROVE  /\ lost' \subseteq Requests
         /\ \A r \in Requests :
              captured'[r] # None => captured'[r].key \in Keys /\ captured'[r].model \in Models
         /\ Size(captured') <= MaxCaptured
<1>. MaxCaptured \in Nat \ {0}
  BY AdmissionAssumption
<1>1. ASSUME lost' \subseteq Requests, Shrinks(captured, captured')
      PROVE  /\ lost' \subseteq Requests
             /\ \A r \in Requests :
                  captured'[r] # None => captured'[r].key \in Keys /\ captured'[r].model \in Models
             /\ Size(captured') <= MaxCaptured
  <2>1. Size(captured') <= Size(captured) /\ Size(captured') \in Nat /\ Size(captured) \in Nat
    BY <1>1, SizeShrinks
  <2>2. Size(captured') <= MaxCaptured
    BY <2>1 DEF Bounded
  <2>. QED BY <1>1, <2>2 DEF Bounded, Shrinks
<1>2. DOMAIN captured = Requests
  BY DEF FindingInv, Shapes
<1>3. ASSUME NEW r \in Requests, Insert(r)
      PROVE  /\ lost' \subseteq Requests
             /\ \A q \in Requests :
                  captured'[q] # None => captured'[q].key \in Keys /\ captured'[q].model \in Models
             /\ Size(captured') <= MaxCaptured
  <2>. DEFINE kept == Without(captured, Expired(req[r].read))
  <2>1. /\ captured' = IF Full(kept) THEN kept ELSE [kept EXCEPT ![r] = Finding(r)]
        /\ lost' \subseteq Requests
    BY <1>3 DEF Insert, Finding, Bounded, Expired
  <2>2. Shrinks(captured, kept) /\ DOMAIN kept = Requests
    BY DEF Shrinks, Without
  <2>. HIDE DEF kept
  <2>3. CASE Full(kept)
    BY <1>1, <2>1, <2>2, <2>3
  <2>4. CASE ~Full(kept)
    <3>1. /\ captured'[r] = Finding(r)
          /\ \A q \in Requests \ {r} : captured'[q] = kept[q]
      BY <2>1, <2>2, <2>4
    <3>2. Size(captured') <= Size(kept) + 1 /\ Size(captured') \in Nat /\ Size(kept) \in Nat
      BY <3>1, SizeGrows
    <3>3. Size(captured') <= MaxCaptured
      BY <2>4, <3>2 DEF Full
    <3>4. Finding(r).key \in Keys /\ Finding(r).model \in Models
      BY <1>3 DEF FindingInv, Carried, Shapes, Records, Insert, Finding, Models
    <3>. QED BY <2>1, <2>2, <3>1, <3>3, <3>4 DEF Bounded, Shrinks
  <2>. QED BY <2>3, <2>4
<1>4. ASSUME NEW r \in Requests, Gate(r) PROVE lost' \subseteq Requests /\ Shrinks(captured, captured')
  <2>1. \/ UNCHANGED content
        \/ /\ captured' = [Without(captured, Expired(req[r].at)) EXCEPT ![r] = None]
           /\ lost' = lost \cup (Expired(req[r].at) \ {r})
    BY <1>4, GateLeaves
  <2>. QED BY <2>1 DEF content, Shrinks, Without, Expired, Bounded
<1>5. ASSUME NEW k \in Keys, ResetPolicyUsage(k) \/ DeletePolicy(k)
      PROVE  lost' \subseteq Requests /\ Shrinks(captured, captured')
  BY <1>5 DEF ResetPolicyUsage, DeletePolicy, DiscardKeyAccounting, Without, Shrinks, Bounded
<1>6. ASSUME UNCHANGED content PROVE lost' \subseteq Requests /\ Shrinks(captured, captured')
  BY <1>6 DEF content, Bounded, Shrinks
<1>7. ASSUME NEW r \in Requests, Lookup(r) \/ Scan(r) \/ Pick(r) \/ Retry(r) PROVE UNCHANGED content
  BY <1>7 DEF Lookup, Scan, Pick, Retry
<1>8. ASSUME NEW k \in Keys,
             \/ Settle(k) \/ \E list \in Whitelists : UpdatePolicyIPWhitelist(k, list)
             \/ \E raw \in Hashes \cup {None}, edit \in Edits, list \in Whitelists \cup {None} :
                  UpsertPolicy(k, raw, edit, list)
      PROVE  UNCHANGED content
  BY <1>8 DEF Settle, UpdatePolicyIPWhitelist, UpsertPolicy
<1>9. ASSUME NEW s \in Savers, ApplyFilter(s) \/ \E settings \in Submissions : StoreFilter(s, settings)
      PROVE  UNCHANGED content
  BY <1>9 DEF ApplyFilter, StoreFilter
<1>10. CASE Tick \/ UNCHANGED vars
  BY <1>1, <1>6, <1>10 DEF Tick, vars
<1>. QED
  BY <1>1, <1>3, <1>4, <1>5, <1>6, <1>7, <1>8, <1>9, <1>10 DEF Next

\* A marker is added only by a routing, and only below the bound.
LEMMA RouteHasRoom ==
  ASSUME MapTypes, NEW r \in Requests, Gate(r), Markers \in Nat
  PROVE  \/ UNCHANGED pending
         \/ Markers < MaxPending /\ \E k \in Keys : pending' = [pending EXCEPT ![k] = @ + 1]
<1>. DEFINE k == byHash[RequestOf[r].hash]
            kept == Without(captured, Expired(req[r].at))
            found == IF kept[r] # None /\ kept[r].key = k THEN kept[r] ELSE None
            model == IF found # None THEN found.model ELSE RequestOf[r].rewritten
<1>1. CASE k = None
  BY <1>1 DEF Gate, End
<1>2. CASE k # None
  <2>1. PICK env \in Environments :
          LET gates == Gates(byID[k], found, model, r, env)
          IN  IF Refusals(gates) = {} THEN Route(r, k, env)
              ELSE End(r, gates[Min(Refusals(gates))].code)
    BY <1>2 DEF Gate
  <2>. DEFINE gates == Gates(byID[k], found, model, r, env)
  <2>2. DOMAIN gates = 1 .. 11 /\ gates[10].fails = (Markers >= MaxPending)
    BY DEF Gates
  <2>3. k \in Keys
    <3>1. RequestOf[r].hash \in Hashes
      BY AdmissionAssumption
    <3>. QED BY <1>2, <3>1 DEF MapTypes
  <2>. HIDE DEF gates, k, found, model
  <2>4. CASE Refusals(gates) = {}
    <3>1. ~gates[10].fails
      BY <2>2, <2>4 DEF Refusals
    <3>2. ~(Markers >= MaxPending) /\ MaxPending \in Nat
      BY <2>2, <3>1, AdmissionAssumption
    <3>3. pending' = [pending EXCEPT ![k] = @ + 1]
      BY <2>1, <2>4 DEF Route, gates
    <3>4. Markers < MaxPending
      BY <3>2
    <3>. QED BY <2>3, <3>3, <3>4
  <2>5. CASE Refusals(gates) # {}
    BY <2>1, <2>5 DEF End, gates
  <2>. QED BY <2>4, <2>5
<1>. QED BY <1>1, <1>2

LEMMA PendingStep ==
  ASSUME MapTypes, Bounded, [Next]_vars
  PROVE  pending' \in [Keys -> Nat] /\ Markers' <= MaxPending
<1>1. /\ IsFiniteSet(Keys) /\ MaxPending \in Nat
      /\ pending \in [Keys -> Nat] /\ NatsOn(pending, Keys) /\ IntsOn(pending, Keys)
  BY RequestAssumption, AdmissionAssumption DEF Bounded, NatsOn, IntsOn
<1>2. Markers \in Nat /\ Markers <= MaxPending
  BY <1>1, SumNat DEF Bounded, Markers
<1>3. ASSUME NEW new \in [Keys -> Nat], \A k \in Keys : new[k] <= pending[k], pending' = new
      PROVE  pending' \in [Keys -> Nat] /\ Markers' <= MaxPending
  <2>. DEFINE sum == SumFunctionOnSet(new, Keys)
  <2>1. NatsOn(new, Keys)
    BY DEF NatsOn
  <2>2. sum <= Markers /\ sum \in Nat
    BY <1>1, <1>3, <2>1, SumAtMost, SumNat DEF Markers
  <2>3. Markers' = sum
    BY <1>3 DEF Markers
  <2>. HIDE DEF sum
  <2>. QED BY <1>1, <1>2, <1>3, <2>2, <2>3
<1>4. ASSUME UNCHANGED pending PROVE pending' \in [Keys -> Nat] /\ Markers' <= MaxPending
  BY <1>4 DEF Bounded, Markers
<1>5. ASSUME NEW r \in Requests, Gate(r) PROVE pending' \in [Keys -> Nat] /\ Markers' <= MaxPending
  <2>1. CASE UNCHANGED pending
    BY <1>4, <2>1
  <2>2. CASE Markers < MaxPending /\ \E k \in Keys : pending' = [pending EXCEPT ![k] = @ + 1]
    <3>1. PICK k \in Keys : pending' = [pending EXCEPT ![k] = @ + 1]
      BY <2>2
    <3>. DEFINE new == [pending EXCEPT ![k] = @ + 1]
                sum == SumFunctionOnSet(new, Keys)
    <3>2. new \in [Keys -> Nat] /\ new[k] = pending[k] + 1 /\ \A x \in Keys \ {k} : new[x] = pending[x]
      BY <1>1
    <3>3. 1 \in Int
      OBVIOUS
    <3>4. sum = Markers + 1
      <4>. HIDE DEF new
      <4>. QED BY <1>1, <3>2, <3>3, SumChange DEF Markers
    <3>5. Markers' = sum
      BY <3>1 DEF Markers
    <3>. HIDE DEF sum
    <3>6. Markers' <= MaxPending
      BY <1>1, <1>2, <2>2, <3>4, <3>5
    <3>. QED BY <3>1, <3>2, <3>6
  <2>. QED BY <1>2, <1>5, <2>1, <2>2, RouteHasRoom
<1>6. ASSUME NEW k \in Keys, Settle(k) PROVE pending' \in [Keys -> Nat] /\ Markers' <= MaxPending
  <2>. DEFINE new == [pending EXCEPT ![k] = @ - 1]
  <2>1. pending[k] > 0 /\ pending' = new
    BY <1>6 DEF Settle
  <2>2. new \in [Keys -> Nat] /\ \A l \in Keys : new[l] <= pending[l]
    BY <1>1, <2>1
  <2>. HIDE DEF new
  <2>. QED BY <1>3, <2>1, <2>2
<1>7. ASSUME NEW k \in Keys, ResetPolicyUsage(k) \/ DeletePolicy(k)
      PROVE  pending' \in [Keys -> Nat] /\ Markers' <= MaxPending
  <2>. DEFINE new == [pending EXCEPT ![k] = 0]
  <2>1. pending' = new
    BY <1>7 DEF ResetPolicyUsage, DeletePolicy, DiscardKeyAccounting
  <2>2. new \in [Keys -> Nat] /\ \A l \in Keys : new[l] <= pending[l]
    BY <1>1
  <2>. HIDE DEF new
  <2>. QED BY <1>3, <2>1, <2>2
<1>8. ASSUME NEW r \in Requests, Lookup(r) \/ Scan(r) \/ Insert(r) \/ Pick(r) \/ Retry(r)
      PROVE  UNCHANGED pending
  BY <1>8 DEF Lookup, Scan, Insert, Pick, Retry
<1>9. ASSUME NEW k \in Keys,
             \/ \E list \in Whitelists : UpdatePolicyIPWhitelist(k, list)
             \/ \E raw \in Hashes \cup {None}, edit \in Edits, list \in Whitelists \cup {None} :
                  UpsertPolicy(k, raw, edit, list)
      PROVE  UNCHANGED pending
  BY <1>9 DEF UpdatePolicyIPWhitelist, UpsertPolicy
<1>10. ASSUME NEW s \in Savers, ApplyFilter(s) \/ \E settings \in Submissions : StoreFilter(s, settings)
       PROVE  UNCHANGED pending
  BY <1>10 DEF ApplyFilter, StoreFilter
<1>11. CASE Tick \/ UNCHANGED vars
  BY <1>4, <1>11 DEF Tick, vars
<1>. QED
  BY <1>4, <1>5, <1>6, <1>7, <1>8, <1>9, <1>10, <1>11 DEF Next

LEMMA ChangesStep ==
  ASSUME Bounded, [Next]_vars
  PROVE  changes' \in 0 .. MaxChanges
<1>1. MaxChanges \in Nat /\ changes \in 0 .. MaxChanges
  BY AdmissionAssumption DEF Bounded
<1>2. ASSUME Change PROVE changes' \in 0 .. MaxChanges
  BY <1>1, <1>2 DEF Change
<1>3. ASSUME NEW r \in Requests, Lookup(r) \/ Scan(r) \/ Insert(r) \/ Pick(r) \/ Gate(r) \/ Retry(r)
      PROVE  UNCHANGED changes
  BY <1>3 DEF Lookup, Scan, Insert, Pick, Gate, Retry
<1>4. ASSUME NEW k \in Keys,
             \/ ResetPolicyUsage(k) \/ DeletePolicy(k)
             \/ \E list \in Whitelists : UpdatePolicyIPWhitelist(k, list)
             \/ \E raw \in Hashes \cup {None}, edit \in Edits, list \in Whitelists \cup {None} :
                  UpsertPolicy(k, raw, edit, list)
      PROVE  Change
  BY <1>4 DEF ResetPolicyUsage, DeletePolicy, UpdatePolicyIPWhitelist, UpsertPolicy
<1>5. ASSUME NEW k \in Keys, Settle(k) PROVE UNCHANGED changes
  BY <1>5 DEF Settle
<1>6. ASSUME NEW s \in Savers, ApplyFilter(s) \/ \E settings \in Submissions : StoreFilter(s, settings)
      PROVE  UNCHANGED changes \/ Change
  BY <1>6 DEF ApplyFilter, StoreFilter
<1>7. CASE Tick \/ UNCHANGED vars
  BY <1>1, <1>7 DEF Tick, vars
<1>. QED BY <1>1, <1>2, <1>3, <1>4, <1>5, <1>6, <1>7 DEF Next

LEMMA BoundedInit == Init => Bounded
<1>. SUFFICES ASSUME Init PROVE Bounded
  OBVIOUS
<1>1. /\ changes = 0 /\ lost = {} /\ captured = [r \in Requests |-> None]
      /\ pending = [k \in Keys |-> 0]
  BY DEF Init
<1>2. IsFiniteSet(Keys) /\ IntsOn(pending, Keys) /\ \A k \in Keys : pending[k] = 0
  BY <1>1, RequestAssumption DEF IntsOn
<1>3. Markers = 0
  BY <1>2, SumZero DEF Markers
<1>4. Size(captured) = 0
  <2>1. {r \in Requests : captured[r] # None} = {}
    BY <1>1
  <2>. QED BY <2>1, FS_EmptySet DEF Size
<1>. QED BY <1>1, <1>3, <1>4, AdmissionAssumption DEF Bounded

\* Every variable keeps its type, and the two collections that requests fill
\* keep their bounds: the findings of the scan (request_content.go:65-91) and
\* the pending markers (engine.go:657-684), whatever is captured, routed,
\* settled, reset and deleted.
THEOREM MapsStayBounded == Spec => []TypeOK
<1>. DEFINE IInv == MapTypes /\ MapsAgree /\ SaveInv /\ FindingInv /\ Bounded
<1>1. Init => IInv
  BY MapsInit, SaveInit, FindingInit, BoundedInit
<1>2. IInv /\ [Next]_vars => IInv'
  <2>. SUFFICES ASSUME IInv, [Next]_vars PROVE IInv'
    OBVIOUS
  <2>1. Bounded'
    BY ContentStep, PendingStep, ChangesStep DEF Bounded, Size
  <2>. QED BY <2>1, MapsStep, SaveStep, FindingStep
<1>3. IInv => TypeOK
  BY AdmissionAssumption DEF TypeOK, MapTypes, FindingInv, Shapes, Records, Bounded
<1>. HIDE DEF IInv
<1>. QED BY <1>1, <1>2, <1>3, PTL DEF Spec

=============================================================================
