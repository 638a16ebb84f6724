-------------------------- MODULE MetricStoreProofs --------------------------
(***************************************************************************)
(* Proofs about MetricStore, for any number of queue managers, metrics,    *)
(* label values and records.                                               *)
(***************************************************************************)
EXTENDS MetricStore, TLAPS

-----------------------------------------------------------------------------
(* The records of one metric.                                              *)

\* Taking the first record off leaves the objects of the others.
LEMMA TailObjects ==
  ASSUME NEW q \in Seq(Records), q # <<>>
  PROVE  /\ Tail(q) \in Seq(Records)
         /\ q[1] \in Records
         /\ {q[i].object : i \in DOMAIN q}
              = {q[1].object} \cup {Tail(q)[i].object : i \in DOMAIN Tail(q)}
<1> DEFINE n == Len(q)
<1>1. n \in Nat /\ n >= 1 /\ DOMAIN q = 1..n
  OBVIOUS
<1>2. Tail(q) \in Seq(Records) /\ DOMAIN Tail(q) = 1..(n - 1)
  OBVIOUS
<1>3. \A i \in 1..(n - 1) : Tail(q)[i] = q[i + 1]
  OBVIOUS
<1>4. q[1] \in Records
  BY <1>1
<1>5. ASSUME NEW i \in 1..n, i # 1
      PROVE  i - 1 \in 1..(n - 1) /\ Tail(q)[i - 1] = q[i]
  BY <1>1, <1>3, <1>5
<1>6. \A i \in 1..(n - 1) : i + 1 \in 1..n
  BY <1>1
<1> HIDE DEF n
<1>7. ASSUME NEW i \in DOMAIN q
      PROVE  q[i].object \in {q[1].object} \cup {Tail(q)[j].object : j \in DOMAIN Tail(q)}
  <2>1. CASE i = 1
    BY <2>1
  <2>2. CASE i # 1
    BY <2>2, <1>1, <1>2, <1>5
  <2>3. QED
    BY <2>1, <2>2
<1>8. ASSUME NEW j \in DOMAIN Tail(q)
      PROVE  Tail(q)[j].object \in {q[i].object : i \in DOMAIN q}
  BY <1>1, <1>2, <1>3, <1>6
<1>9. q[1].object \in {q[i].object : i \in DOMAIN q}
  BY <1>1
<1>10. QED
  BY <1>2, <1>4, <1>7, <1>8, <1>9

-----------------------------------------------------------------------------
(* The inductive invariants.                                               *)

\* No call in progress: the variables of a call are at rest. A family at hand
\* belongs to a call that has removed the vanished metrics, is registered and has
\* the children set so far. A metric the call brings is registered or to come.
CallInv ==
  /\ scope = None => /\ grouped = NoRecords /\ fresh = NoObjects
                     /\ metric = None /\ vanished = {} /\ seen = {}
  /\ metric # None => /\ scope # None /\ vanished = {} /\ labelNames[metric] # None
                      /\ seen \subseteq shown[metric][scope]
  /\ metric = None => seen = {}
  /\ \A m \in Metrics : fresh[m] # {} => labelNames[m] # None \/ grouped[m] # <<>>

BookInv == TypeOK /\ CallInv /\ BookkeepingIsSound

\* Between its calls a scope shows, owns and lists its last stored poll.
AtRest(s) ==
  \A m \in Metrics :
    /\ shown[m][s] = good[m][s]
    /\ scoped[m][s] = good[m][s]
    /\ m \in scopeMetrics[s] <=> good[m][s] # {}

\* In a call each metric is vanished and not yet removed, still to come, at hand,
\* or done.
InCall(s, m) ==
  /\ m \in vanished => fresh[m] = {} /\ grouped[m] = <<>>
  /\ m # metric /\ (m \in vanished \/ grouped[m] # <<>>) =>
       /\ shown[m][s] = good[m][s]
       /\ scoped[m][s] = good[m][s]
       /\ fresh[m] = ObjectsOf(grouped)[m]
  /\ m = metric =>
       /\ shown[m][s] = good[m][s] \cup seen
       /\ scoped[m][s] = good[m][s]
       /\ fresh[m] = ObjectsOf(grouped)[m] \cup seen
  /\ m # metric /\ m \notin vanished /\ grouped[m] = <<>> =>
       /\ shown[m][s] = fresh[m]
       /\ scoped[m][s] = fresh[m]

CacheInv ==
  /\ \A s \in Scopes \ {scope} : Accepted(s) => AtRest(s)
  /\ \A s \in Scopes \cap {scope}, m \in Metrics : Accepted(s) => InCall(s, m)

-----------------------------------------------------------------------------
(* Type correctness and sound bookkeeping, whatever labels the records carry. *)

LEMMA BookInit == Init => BookInv
  BY MetricStoreAssumption
  DEF Init, BookInv, TypeOK, CallInv, BookkeepingIsSound, NoRecords, NoObjects,
      NoSeries, SeriesSets

\* An exception changes nothing but the call.
LEMMA RaiseKeepsBooks == BookInv /\ scope # None /\ Raise => BookInv'
  BY DEF Raise, BookInv, TypeOK, CallInv, BookkeepingIsSound, NoRecords, NoObjects,
         storeVars

LEMMA BookStep == BookInv /\ [Next]_vars => BookInv'
<1> SUFFICES ASSUME BookInv, [Next]_vars PROVE BookInv'
  OBVIOUS
<1> USE DEF BookInv, storeVars
<1>1. ASSUME NEW s \in Scopes, record_failure(s) PROVE BookInv'
  BY <1>1 DEF record_failure, Ended, callVars, TypeOK, CallInv, BookkeepingIsSound
<1>2. ASSUME NEW s \in Scopes, NEW b \in Batches, record_success(s, b) PROVE BookInv'
  <2>1. b \in [Metrics -> Seq(Records)]
    BY MetricStoreAssumption
  <2>2. ObjectsOf(b) \in [Metrics -> SUBSET Objects]
    <3>1. \A m \in Metrics : \A i \in DOMAIN b[m] : b[m][i] \in Records
      BY <2>1
    <3>2. QED
      BY <3>1 DEF ObjectsOf, Records
  <2>3. \A m \in Metrics : ObjectsOf(b)[m] # {} => b[m] # <<>>
    BY DEF ObjectsOf
  <2>4. TypeOK'
    BY <1>2, <2>1, <2>2 DEF record_success, TypeOK
  <2>5. CallInv'
    BY <1>2, <2>3, MetricStoreAssumption DEF record_success, TypeOK, CallInv
  <2>6. BookkeepingIsSound'
    BY <1>2 DEF record_success, BookkeepingIsSound
  <2>7. QED
    BY <2>4, <2>5, <2>6
<1>3. ASSUME NEW m \in Metrics, RemoveVanished(m) PROVE BookInv'
  <2>1. scope \in Scopes
    BY <1>3 DEF RemoveVanished, TypeOK
  <2>2. TypeOK'
    BY <1>3, <2>1 DEF RemoveVanished, RemoveScopeFromFamily, TypeOK, SeriesSets
  <2>3. CallInv'
    BY <1>3, <2>1 DEF RemoveVanished, CallInv
  <2>4. BookkeepingIsSound'
    BY <1>3, <2>1 DEF RemoveVanished, RemoveScopeFromFamily, BookkeepingIsSound,
                      TypeOK, SeriesSets
  <2>5. QED
    BY <2>2, <2>3, <2>4
<1>4. ASSUME NEW m \in Metrics, OpenFamily(m) PROVE BookInv'
  <2>1. grouped[m][1] \in Records /\ grouped[m][1].labels \in LabelSets
    BY <1>4, TailObjects DEF OpenFamily, TypeOK, Records
  <2>2. TypeOK'
    BY <1>4, <2>1 DEF OpenFamily, BetweenGroups, TypeOK
  <2>3. CallInv'
    BY <1>4, <2>1, MetricStoreAssumption DEF OpenFamily, BetweenGroups, TypeOK, CallInv
  <2>4. BookkeepingIsSound'
    BY <1>4, <2>1, MetricStoreAssumption DEF OpenFamily, TypeOK, BookkeepingIsSound
  <2>5. QED
    BY <2>2, <2>3, <2>4
<1>5. ASSUME NEW m \in Metrics, FamilyRaises(m) PROVE BookInv'
  BY <1>5, RaiseKeepsBooks DEF FamilyRaises, BetweenGroups
<1>6. CASE SetSeries
  <2> DEFINE r == grouped[metric][1]
  <2>1. metric \in Metrics /\ scope \in Scopes
    BY <1>6 DEF SetSeries, TypeOK, CallInv
  <2>2. grouped[metric] \in Seq(Records) /\ grouped[metric] # <<>>
    BY <1>6, <2>1 DEF SetSeries, TypeOK
  <2>3. r \in Records /\ r.object \in Objects /\ Tail(grouped[metric]) \in Seq(Records)
    BY <2>2, TailObjects DEF Records
  <2> HIDE DEF r
  <2>4. TypeOK'
    BY <1>6, <2>1, <2>3 DEF SetSeries, TypeOK, SeriesSets, r
  <2>5. CallInv'
    BY <1>6, <2>1, <2>3 DEF SetSeries, CallInv, TypeOK, SeriesSets, r
  <2>6. BookkeepingIsSound'
    BY <1>6, <2>1 DEF SetSeries, BookkeepingIsSound, TypeOK, SeriesSets
  <2>7. QED
    BY <2>4, <2>5, <2>6
<1>7. CASE SetRaises
  BY <1>7, RaiseKeepsBooks DEF SetRaises, CallInv
<1>8. CASE CloseFamily
  <2>1. metric \in Metrics /\ scope \in Scopes
    BY <1>8 DEF CloseFamily, TypeOK, CallInv
  <2>2. TypeOK'
    BY <1>8, <2>1 DEF CloseFamily, TypeOK, SeriesSets
  <2>3. CallInv'
    BY <1>8, <2>1 DEF CloseFamily, CallInv
  <2>4. BookkeepingIsSound'
    BY <1>8, <2>1 DEF CloseFamily, BookkeepingIsSound, CallInv, TypeOK, SeriesSets
  <2>5. QED
    BY <2>2, <2>3, <2>4
<1>9. CASE Commit
  <2>1. scope \in Scopes /\ \A m \in Metrics : grouped[m] = <<>>
    BY <1>9 DEF Commit, BetweenGroups, TypeOK, NoRecords
  <2>2. TypeOK'
    BY <1>9, <2>1 DEF Commit, Ended, BetweenGroups, TypeOK, SeriesSets, NoObjects
  <2>3. CallInv'
    BY <1>9, <2>1 DEF Commit, BetweenGroups, CallInv, NoObjects
  <2>4. BookkeepingIsSound'
    BY <1>9, <2>1 DEF Commit, BookkeepingIsSound, CallInv, TypeOK
  <2>5. QED
    BY <2>2, <2>3, <2>4
<1>10. CASE UNCHANGED vars
  BY <1>10 DEF vars, callVars, TypeOK, CallInv, BookkeepingIsSound
<1>11. QED
  BY <1>1, <1>2, <1>3, <1>4, <1>5, <1>6, <1>7, <1>8, <1>9, <1>10 DEF Next

\* Whatever was rejected before, the store's tables fit each other: no later
\* replacement can meet an unregistered family or a missing child.
THEOREM BooksAreSound == Spec => [](TypeOK /\ BookkeepingIsSound)
<1>1. BookInv => TypeOK /\ BookkeepingIsSound
  BY DEF BookInv
<1>2. QED
  BY <1>1, BookInit, BookStep, PTL DEF Spec

\* A replacement touches no other queue manager's series or bookkeeping,
\* although they share the gauges.
THEOREM ScopesAreIsolated == Spec => OtherScopesUntouched
<1> DEFINE Untouched == \A s \in Scopes \ {scope}, m \in Metrics :
                          /\ shown'[m][s] = shown[m][s]
                          /\ scoped'[m][s] = scoped[m][s]
                          /\ scopeMetrics'[s] = scopeMetrics[s]
<1>1. ASSUME BookInv, [Next]_vars PROVE [Untouched]_vars
  <2> SUFFICES ASSUME Next PROVE Untouched
    BY <1>1
  <2> SUFFICES ASSUME NEW s \in Scopes, s # scope, NEW n \in Metrics
               PROVE  /\ shown'[n][s] = shown[n][s]
                      /\ scoped'[n][s] = scoped[n][s]
                      /\ scopeMetrics'[s] = scopeMetrics[s]
    OBVIOUS
  <2>1. CASE UNCHANGED storeVars
    BY <2>1 DEF storeVars
  <2>2. ASSUME NEW m \in Metrics, RemoveVanished(m)
        PROVE  /\ shown'[n][s] = shown[n][s]
               /\ scoped'[n][s] = scoped[n][s]
               /\ scopeMetrics'[s] = scopeMetrics[s]
    BY <1>1, <2>2 DEF RemoveVanished, RemoveScopeFromFamily, BookInv, TypeOK, SeriesSets
  <2>3. CASE SetSeries
    BY <1>1, <2>3 DEF SetSeries, BookInv, TypeOK, SeriesSets
  <2>4. CASE CloseFamily
    BY <1>1, <2>4 DEF CloseFamily, BookInv, TypeOK, SeriesSets
  <2>5. CASE Commit
    BY <1>1, <2>5 DEF Commit, BookInv, TypeOK
  <2>6. CASE \E m \in Metrics : OpenFamily(m)
    BY <2>6 DEF OpenFamily
  <2>7. CASE \E m \in Metrics : FamilyRaises(m)
    BY <2>7, <2>1 DEF FamilyRaises, Raise
  <2>8. CASE SetRaises
    BY <2>8, <2>1 DEF SetRaises, Raise
  <2>9. CASE \E q \in Scopes : record_failure(q)
    BY <2>9, <2>1 DEF record_failure
  <2>10. CASE \E q \in Scopes, b \in Batches : record_success(q, b)
    BY <2>10, <2>1 DEF record_success
  <2>11. QED
    BY <2>2, <2>3, <2>4, <2>5, <2>6, <2>7, <2>8, <2>9, <2>10 DEF Next
<1>2. QED
  BY <1>1, BookInit, BookStep, PTL DEF Spec, OtherScopesUntouched

-----------------------------------------------------------------------------
(* The cache of a queue manager none of whose polls was rejected.          *)

LEMMA CacheInit == Init => CacheInv
  BY MetricStoreAssumption
  DEF Init, CacheInv, AtRest, InCall, NoSeries

LEMMA CacheStep ==
  ASSUME BookInv, BookInv', CacheInv, [Next]_vars
  PROVE  CacheInv'
<1> USE DEF storeVars
<1>0. ASSUME NEW q \in Scopes, Accepted(q)' PROVE Accepted(q)
  <2> USE <1>0 DEF Accepted
  <2>1. CASE UNCHANGED last
    BY <2>1
  <2>2. ASSUME NEW s \in Scopes, record_failure(s) PROVE Accepted(q)
    BY <2>2 DEF record_failure, Ended, BookInv, TypeOK
  <2>3. CASE Commit
    BY <2>3 DEF Commit, Ended, BookInv, TypeOK
  <2>4. CASE Raise
    BY <2>4 DEF Raise, BookInv, TypeOK
  <2>5. QED
    BY <2>1, <2>2, <2>3, <2>4
    DEF Next, vars, record_success, RemoveVanished, OpenFamily, FamilyRaises, SetSeries,
        SetRaises, CloseFamily
<1>1. ASSUME NEW s \in Scopes, record_failure(s) PROVE CacheInv'
  <2>1. scope = None /\ scope' = None /\ UNCHANGED <<shown, scoped, scopeMetrics, good>>
    BY <1>1 DEF record_failure
  <2>2. \A q \in Scopes : Accepted(q)' => AtRest(q)
    BY <1>0, <2>1, MetricStoreAssumption DEF CacheInv
  <2>3. \A q \in Scopes : Accepted(q)' => AtRest(q)'
    BY <2>1, <2>2 DEF AtRest
  <2>4. QED
    BY <2>1, <2>3, MetricStoreAssumption DEF CacheInv
<1>2. ASSUME NEW s \in Scopes, NEW b \in Batches, record_success(s, b) PROVE CacheInv'
  <2>1. scope = None /\ scope' = s /\ metric' = None /\ metric = None
    BY <1>2, MetricStoreAssumption DEF record_success, CacheInv, BookInv, CallInv
  <2>2. \A q \in Scopes \ {scope'} : Accepted(q)' => AtRest(q)'
    <3>1. \A q \in Scopes : Accepted(q) => AtRest(q)
      BY <2>1, MetricStoreAssumption DEF CacheInv
    <3>2. UNCHANGED <<shown, scoped, scopeMetrics, good>>
      BY <1>2 DEF record_success
    <3>3. QED
      BY <1>0, <3>1, <3>2 DEF AtRest
  <2>3. ASSUME NEW m \in Metrics, Accepted(s) PROVE InCall(s, m)'
    <3>0. AtRest(s)
      BY <2>1, <2>3, MetricStoreAssumption DEF CacheInv
    <3>1. b[m] = <<>> => ObjectsOf(b)[m] = {}
      BY DEF ObjectsOf
    <3>2. b[m] # <<>> <=> m \in Current(b)
      BY DEF Current
    <3>3. metric' # m
      BY <2>1, MetricStoreAssumption
    <3>4. QED
      BY <1>2, <2>1, <3>0, <3>1, <3>2, <3>3 DEF record_success, AtRest, InCall
  <2>4. QED
    BY <1>0, <2>1, <2>2, <2>3 DEF CacheInv
<1>3. ASSUME NEW m \in Metrics, RemoveVanished(m) PROVE CacheInv'
  <2>1. scope \in Scopes /\ scope' = scope /\ metric = None
    BY <1>3 DEF RemoveVanished, BookInv, TypeOK, CallInv
  <2>2. \A q \in Scopes \ {scope'} : Accepted(q)' => AtRest(q)'
    BY <1>0, <1>3, <2>1 DEF RemoveVanished, RemoveScopeFromFamily, CacheInv, AtRest, BookInv,
                      TypeOK, SeriesSets
  <2>3. ASSUME NEW n \in Metrics, Accepted(scope) PROVE InCall(scope, n)'
    <3>1. InCall(scope, n) /\ n # metric /\ n # metric'
      BY <1>3, <2>1, <2>3, MetricStoreAssumption DEF RemoveVanished, CacheInv
    <3>2. ObjectsOf(grouped)' = ObjectsOf(grouped) /\ UNCHANGED <<good, fresh, grouped>>
      BY <1>3 DEF RemoveVanished, ObjectsOf
    <3>3. CASE n = m
      <4>1. shown'[n][scope] = {} /\ scoped'[n][scope] = {} /\ n \notin vanished'
        BY <1>3, <2>1, <3>1, <3>3
        DEF RemoveVanished, RemoveScopeFromFamily, InCall, BookInv, TypeOK, SeriesSets
      <4>2. fresh[n] = {} /\ grouped[n] = <<>>
        BY <1>3, <3>1, <3>3 DEF RemoveVanished, InCall
      <4>3. QED
        BY <2>1, <3>1, <3>2, <4>1, <4>2 DEF InCall
    <3>4. CASE n # m
      <4>1. /\ shown'[n][scope] = shown[n][scope]
            /\ scoped'[n][scope] = scoped[n][scope]
            /\ n \in vanished' <=> n \in vanished
        BY <1>3, <2>1, <3>4
        DEF RemoveVanished, RemoveScopeFromFamily, BookInv, TypeOK, SeriesSets
      <4>2. QED
        BY <2>1, <3>1, <3>2, <4>1 DEF InCall
    <3>5. QED
      BY <3>3, <3>4
  <2>4. QED
    BY <1>0, <2>1, <2>2, <2>3 DEF CacheInv
<1>4. ASSUME NEW m \in Metrics, OpenFamily(m) PROVE CacheInv'
  <2>1. scope \in Scopes /\ scope' = scope /\ metric = None /\ seen = {} /\ vanished = {}
    BY <1>4 DEF OpenFamily, BetweenGroups, BookInv, TypeOK, CallInv
  <2>2. \A q \in Scopes \ {scope'} : Accepted(q)' => AtRest(q)'
    BY <1>0, <1>4, <2>1 DEF OpenFamily, CacheInv, AtRest
  <2>3. ASSUME NEW n \in Metrics, Accepted(scope) PROVE InCall(scope, n)'
    BY <1>4, <2>1, <2>3, MetricStoreAssumption DEF OpenFamily, CacheInv, InCall, ObjectsOf
  <2>4. QED
    BY <1>0, <2>1, <2>2, <2>3 DEF CacheInv
<1>6. CASE SetSeries
  <2> DEFINE r == grouped[metric][1]
  <2>1. metric \in Metrics /\ scope \in Scopes /\ scope' = scope /\ vanished = {}
    BY <1>6 DEF SetSeries, BookInv, TypeOK, CallInv
  <2>2. grouped \in [Metrics -> Seq(Records)] /\ grouped[metric] # <<>>
    BY <1>6 DEF SetSeries, BookInv, TypeOK
  <2>3. ObjectsOf(grouped)[metric] = {r.object} \cup ObjectsOf(grouped')[metric]
    <3>1. grouped'[metric] = Tail(grouped[metric])
      BY <1>6, <2>1, <2>2 DEF SetSeries
    <3>2. {grouped[metric][i].object : i \in DOMAIN grouped[metric]}
            = {r.object} \cup {grouped'[metric][i].object : i \in DOMAIN grouped'[metric]}
      <4> DEFINE q == grouped[metric]
      <4>1. q \in Seq(Records) /\ q # <<>>
        BY <2>1, <2>2
      <4> HIDE DEF q
      <4>2. {q[i].object : i \in DOMAIN q}
              = {q[1].object} \cup {Tail(q)[i].object : i \in DOMAIN Tail(q)}
        BY <4>1, TailObjects
      <4>3. grouped'[metric] = Tail(q)
        BY <3>1 DEF q
      <4>4. QED
        BY <4>2, <4>3 DEF q, r
    <3>3. QED
      BY <2>1, <3>2 DEF ObjectsOf
  <2>4. \A n \in Metrics \ {metric} : /\ grouped'[n] = grouped[n]
                                     /\ ObjectsOf(grouped')[n] = ObjectsOf(grouped)[n]
    BY <1>6, <2>2 DEF SetSeries, ObjectsOf
  <2>5. /\ shown' = [shown EXCEPT ![metric][scope] = @ \cup {r.object}]
        /\ seen' = seen \cup {r.object}
        /\ UNCHANGED <<scoped, scopeMetrics, good, fresh, vanished, metric>>
    BY <1>6 DEF SetSeries
  <2> HIDE DEF r
  <2>6. \A q \in Scopes \ {scope'} : Accepted(q)' => AtRest(q)'
    BY <1>0, <2>1, <2>5 DEF CacheInv, AtRest, BookInv, TypeOK, SeriesSets
  <2>7. ASSUME NEW n \in Metrics, Accepted(scope) PROVE InCall(scope, n)'
    <3>0. InCall(scope, n)
      BY <2>1, <2>7 DEF CacheInv
    <3>1. CASE n = metric
      <4>1. shown'[n][scope] = shown[n][scope] \cup {r.object}
        BY <2>1, <2>5, <3>1 DEF BookInv, TypeOK, SeriesSets
      <4>2. ObjectsOf(grouped)[n] = {r.object} \cup ObjectsOf(grouped)'[n]
        BY <2>3, <3>1 DEF ObjectsOf
      <4>3. n \notin vanished' /\ n = metric' /\ UNCHANGED <<scoped, good, fresh>>
        BY <2>1, <2>5, <3>1
      <4>4. /\ shown'[n][scope] = good[n][scope] \cup seen'
            /\ scoped'[n][scope] = good[n][scope]
            /\ fresh[n] = ObjectsOf(grouped)'[n] \cup seen'
        <5>1. /\ shown[n][scope] = good[n][scope] \cup seen
              /\ scoped[n][scope] = good[n][scope]
              /\ fresh[n] = ObjectsOf(grouped)[n] \cup seen
          BY <3>0, <3>1 DEF InCall
        <5>2. seen' = seen \cup {r.object}
          BY <2>5
        <5>3. QED
          BY <4>1, <4>2, <4>3, <5>1, <5>2
      <4>5. QED
        BY <2>1, <4>3, <4>4 DEF InCall
    <3>2. CASE n # metric
      <4>1. /\ shown'[n][scope] = shown[n][scope]
            /\ ObjectsOf(grouped)'[n] = ObjectsOf(grouped)[n]
            /\ grouped'[n] = grouped[n]
        BY <2>1, <2>4, <2>5, <3>2 DEF BookInv, TypeOK, SeriesSets, ObjectsOf
      <4>2. n # metric' /\ UNCHANGED <<scoped, good, fresh, vanished, scope>>
        BY <2>1, <2>5, <3>2
      <4>3. QED
        BY <3>0, <3>2, <4>1, <4>2 DEF InCall
    <3>3. QED
      BY <3>1, <3>2
  <2>8. QED
    BY <1>0, <2>1, <2>6, <2>7 DEF CacheInv
<1>8. CASE CloseFamily
  <2>1. metric \in Metrics /\ scope \in Scopes /\ scope' = scope /\ vanished = {}
    BY <1>8 DEF CloseFamily, BookInv, TypeOK, CallInv
  <2>2. ObjectsOf(grouped)[metric] = {}
    BY <1>8, <2>1 DEF CloseFamily, ObjectsOf
  <2>3. \A q \in Scopes \ {scope'} : Accepted(q)' => AtRest(q)'
    BY <1>0, <1>8, <2>1 DEF CloseFamily, CacheInv, AtRest, BookInv, TypeOK, SeriesSets
  <2>4. ASSUME NEW n \in Metrics, Accepted(scope) PROVE InCall(scope, n)'
    <3>0. /\ InCall(scope, n) /\ n # metric' /\ n \notin vanished'
          /\ UNCHANGED <<good, fresh, grouped, vanished, scope>>
          /\ ObjectsOf(grouped)' = ObjectsOf(grouped)
      BY <1>8, <2>1, <2>4, MetricStoreAssumption DEF CloseFamily, CacheInv, ObjectsOf
    <3>1. CASE n = metric
      <4>1. /\ shown'[n][scope] = shown[n][scope] \ (scoped[n][scope] \ seen)
            /\ scoped'[n][scope] = seen
            /\ grouped[n] = <<>>
        BY <1>8, <2>1, <3>1 DEF CloseFamily, BookInv, TypeOK, SeriesSets
      <4>2. /\ shown[n][scope] = good[n][scope] \cup seen
            /\ scoped[n][scope] = good[n][scope]
            /\ fresh[n] = seen
        BY <2>2, <3>0, <3>1 DEF InCall
      <4>3. shown'[n][scope] = fresh[n]
        BY <4>1, <4>2
      <4>4. QED
        BY <3>0, <4>1, <4>2, <4>3 DEF InCall
    <3>2. CASE n # metric
      <4>1. shown'[n][scope] = shown[n][scope] /\ scoped'[n][scope] = scoped[n][scope]
        BY <1>8, <2>1, <3>2 DEF CloseFamily, BookInv, TypeOK, SeriesSets
      <4>2. QED
        BY <3>0, <3>2, <4>1 DEF InCall
    <3>3. QED
      BY <3>1, <3>2
  <2>5. QED
    BY <1>0, <2>1, <2>3, <2>4 DEF CacheInv
<1>9. CASE Commit
  <2>1. scope \in Scopes /\ scope' = None /\ metric = None /\ vanished = {}
    BY <1>9 DEF Commit, BetweenGroups, BookInv, TypeOK
  <2>2. ASSUME NEW m \in Metrics, Accepted(scope)
        PROVE            /\ grouped[m] = <<>> /\ m # metric
                         /\ shown[m][scope] = fresh[m] /\ scoped[m][scope] = fresh[m]
    BY <1>9, <2>1, <2>2, MetricStoreAssumption
    DEF Commit, BetweenGroups, NoRecords, CacheInv, InCall
  <2>3. \A q \in Scopes : Accepted(q)' => AtRest(q)'
    BY <1>0, <1>9, <2>1, <2>2 DEF Commit, CacheInv, AtRest, BookInv, TypeOK, SeriesSets
  <2>4. QED
    BY <1>0, <2>1, <2>3, MetricStoreAssumption DEF CacheInv
<1>12. ASSUME Raise, scope # None PROVE CacheInv'
  <2>1. \A q \in Scopes : Accepted(q)' => q # scope
    BY <1>12 DEF Raise, Accepted, BookInv, TypeOK
  <2>2. \A q \in Scopes : Accepted(q)' => AtRest(q)
    BY <1>0, <2>1 DEF CacheInv
  <2>3. \A q \in Scopes : Accepted(q)' => AtRest(q)'
    BY <2>2, <1>12 DEF Raise, AtRest
  <2>4. QED
    BY <2>3, <1>12, MetricStoreAssumption DEF Raise, CacheInv
<1>10. CASE UNCHANGED vars
  BY <1>10 DEF vars, callVars, CacheInv, Accepted, AtRest, InCall, ObjectsOf
<1>11. QED
  BY <1>1, <1>2, <1>3, <1>4, <1>6, <1>8, <1>9, <1>10, <1>12
  DEF Next, FamilyRaises, SetRaises, BetweenGroups, BookInv, CallInv

\* The cache holds the last stored poll of each queue manager none of whose polls
\* was rejected, whatever the others bring, and a scrape that falls into a
\* replacement misses no series kept and sees none that is neither old nor new.
THEOREM CacheIsFaithful ==
  Spec => [](CacheHoldsLastSuccess /\ ScrapesSeeNoGap)
<1>1. BookInv /\ CacheInv => CacheHoldsLastSuccess
  BY DEF CacheInv, AtRest, CacheHoldsLastSuccess
<1>2. BookInv /\ CacheInv => ScrapesSeeNoGap
  BY DEF CacheInv, InCall, ScrapesSeeNoGap
<1>3. Init => BookInv /\ CacheInv
  BY BookInit, CacheInit
<1>4. BookInv /\ CacheInv /\ [Next]_vars => (BookInv /\ CacheInv)'
  BY BookStep, CacheStep
<1>5. QED
  BY <1>1, <1>2, <1>3, <1>4, PTL DEF Spec

-----------------------------------------------------------------------------
(* target_up                                                               *)

\* It is 1 during a replacement and tells the last poll's end after it.
UpInv == TargetUpTellsOutcome /\ (scope # None => up[scope] = "up")

LEMMA UpStep ==
  ASSUME BookInv, UpInv, [Next]_vars
  PROVE  UpInv'
<1>0. /\ up \in [Scopes -> {"unset", "up", "down"}]
      /\ last \in [Scopes -> {"none", "stored", "rejected", "failed"}]
      /\ scope \in Scopes \cup {None} /\ None \notin Scopes
      /\ metric # None => scope # None
  BY MetricStoreAssumption DEF BookInv, TypeOK, CallInv
<1> USE <1>0 DEF UpInv, TargetUpTellsOutcome
<1>1. ASSUME UNCHANGED <<up, scope, last>>
      PROVE  UpInv'
  BY <1>1
<1>2. ASSUME NEW s \in Scopes, record_failure(s)
      PROVE  UpInv'
  <2>1. up' = [up EXCEPT ![s] = "down"] /\ scope = None /\ scope' = None
        /\ last' = [last EXCEPT ![s] = IF last[s] = "rejected" THEN last[s] ELSE "failed"]
    BY <1>2 DEF record_failure, Ended
  <2> QED
    BY <2>1
<1>3. ASSUME NEW s \in Scopes, NEW b, record_success(s, b)
      PROVE  UpInv'
  <2>1. up' = [up EXCEPT ![s] = "up"] /\ scope' = s /\ scope = None /\ last' = last
    BY <1>3 DEF record_success
  <2> QED
    BY <2>1
<1>4. ASSUME scope # None, Raise
      PROVE  UpInv'
  <2>1. up' = up /\ scope' = None /\ last' = [last EXCEPT ![scope] = "rejected"]
    BY <1>4 DEF Raise
  <2> QED
    BY <1>4, <2>1
<1>5. CASE Commit
  <2>1. up' = up /\ scope # None /\ scope' = None
        /\ last' = [last EXCEPT ![scope] =
                      IF last[scope] = "rejected" THEN last[scope] ELSE "stored"]
    BY <1>5 DEF Commit, BetweenGroups, Ended
  <2> QED
    BY <2>1
<1>6. CASE \E m \in Metrics : RemoveVanished(m) \/ OpenFamily(m)
  BY <1>1, <1>6 DEF RemoveVanished, OpenFamily
<1>7. CASE \E m \in Metrics : FamilyRaises(m)
  BY <1>4, <1>7 DEF FamilyRaises, BetweenGroups
<1>8. CASE SetRaises
  BY <1>4, <1>8 DEF SetRaises
<1>9. CASE SetSeries \/ CloseFamily \/ UNCHANGED vars
  BY <1>1, <1>9 DEF SetSeries, CloseFamily, vars
<1> QED
  BY <1>2, <1>3, <1>4, <1>5, <1>6, <1>7, <1>8, <1>9 DEF Next

\* Unless the store rejected one of its polls, a queue manager's target_up tells how its
\* last poll ended, whatever the polls of the others did meanwhile.
THEOREM TargetUpIsTruthful == Spec => []TargetUpTellsOutcome
<1>1. Init => BookInv /\ UpInv
  <2>1. Init => UpInv
    BY DEF Init, UpInv, TargetUpTellsOutcome
  <2> QED
    BY <2>1, BookInit
<1>2. BookInv /\ UpInv /\ [Next]_vars => (BookInv /\ UpInv)'
  BY BookStep, UpStep
<1>3. UpInv => TargetUpTellsOutcome
  BY DEF UpInv
<1> QED
  BY <1>1, <1>2, <1>3, PTL DEF Spec
=============================================================================
