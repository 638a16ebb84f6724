---------------------------- MODULE MetricStore ----------------------------
(***************************************************************************)
(* The metric cache: the Prometheus families, the series each queue        *)
(* manager (a scope) owns in them, and record_success / record_failure.    *)
(*                                                                         *)
(* The store's lock admits one record_ call at a time. A scrape does not   *)
(* take it: it sees the gauges between any two steps of a replacement, so  *)
(* setting a child is a step of its own. The children that one family      *)
(* drops at once go in one step: a scrape between two of these removals    *)
(* sees a set between the two states. Values and times are left out. A     *)
(* record carries its queue manager as a label, so that children of two    *)
(* scopes never are the same one.                                          *)
(***************************************************************************)
EXTENDS Naturals, Sequences

CONSTANTS
  Scopes,        \* queue managers
  Metrics,       \* metric names
  LabelSets,     \* label name tuples a record may carry
  Objects,       \* label values (queue, channel, ...) that tell series apart
  Batches,       \* what a poll may bring: records by metric, in the poll's order
  None

Records == [labels : LabelSets, object : Objects]

ASSUME MetricStoreAssumption ==
  /\ Batches \subseteq [Metrics -> Seq(Records)]
  /\ None \notin Scopes /\ None \notin Metrics /\ None \notin LabelSets

VARIABLES
  labelNames,   \* _FamilyState.label_names of each registered family
  shown,        \* the children of each gauge, by scope
  scoped,       \* _FamilyState.scoped_series
  scopeMetrics, \* _scope_metrics
  up,           \* target_up
  scope,        \* the scope whose record_success holds _lock, or None
  grouped,      \* its records not yet set
  fresh,        \* all the objects it brought, by metric
  vanished,     \* metrics left to remove (prior_metrics - current_metrics)
  metric,       \* the group at hand, or None
  seen,         \* objects of it set so far
  good,         \* history: the objects of each scope's last stored poll
  last          \* history: how each scope's last poll ended, or that one was rejected

callVars == <<grouped, fresh, vanished, metric, seen>>
storeVars == <<labelNames, shown, scoped, scopeMetrics>>
vars == <<storeVars, up, scope, callVars, good, last>>

NoRecords == [m \in Metrics |-> <<>>]
NoObjects == [m \in Metrics |-> {}]
NoSeries == [m \in Metrics |-> [s \in Scopes |-> {}]]

Init ==
  /\ labelNames = [m \in Metrics |-> None]
  /\ shown = NoSeries /\ scoped = NoSeries /\ good = NoSeries
  /\ scopeMetrics = [s \in Scopes |-> {}]
  /\ up = [s \in Scopes |-> "unset"]
  /\ last = [s \in Scopes |-> "none"]
  /\ scope = None /\ metric = None
  /\ grouped = NoRecords /\ fresh = NoObjects
  /\ vanished = {} /\ seen = {}

Ended(s, how) == last' = [last EXCEPT ![s] = IF @ = "rejected" THEN @ ELSE how]

ObjectsOf(b) == [m \in Metrics |-> {b[m][i].object : i \in DOMAIN b[m]}]
Current(b) == {m \in Metrics : b[m] # <<>>}

-----------------------------------------------------------------------------
FailureUncounted(s) ==                                   \* mutant: target_up kept
  /\ scope = None
  /\ Ended(s, "failed")
  /\ UNCHANGED <<storeVars, up, scope, callVars, good>>

record_failure(s) ==
  /\ scope = None
  /\ up' = [up EXCEPT ![s] = "down"]
  /\ Ended(s, "failed")
  /\ UNCHANGED <<storeVars, scope, callVars, good>>

MetricsBookedFirst(s, b) ==             \* mutant: _scope_metrics before the groups
  /\ scope = None
  /\ up' = [up EXCEPT ![s] = "up"]
  /\ scope' = s
  /\ grouped' = b
  /\ fresh' = ObjectsOf(b)
  /\ vanished' = scopeMetrics[s] \ Current(b)
  /\ scopeMetrics' = [scopeMetrics EXCEPT ![s] = Current(b)]
  /\ UNCHANGED <<labelNames, shown, scoped, metric, seen, good, last>>

\* target_up goes to 1 before the first series is touched.
record_success(s, b) ==
  /\ scope = None
  /\ up' = [up EXCEPT ![s] = "up"]
  /\ scope' = s
  /\ grouped' = b
  /\ fresh' = ObjectsOf(b)
  /\ vanished' = scopeMetrics[s] \ Current(b)
  /\ UNCHANGED <<storeVars, metric, seen, good, last>>

ClearFamily(m) ==                                   \* mutant: clears the whole gauge
  /\ shown' = [shown EXCEPT ![m] = [s \in Scopes |-> {}]]
  /\ scoped' = [scoped EXCEPT ![m][scope] = {}]

ForgetScope(m) ==                               \* mutant: gauge.remove left out
  /\ scoped' = [scoped EXCEPT ![m][scope] = {}]
  /\ UNCHANGED shown

RemoveScopeFromFamily(m) ==
  /\ shown' = [shown EXCEPT ![m][scope] = @ \ scoped[m][scope]]
  /\ scoped' = [scoped EXCEPT ![m][scope] = {}]

RemoveVanished(m) ==
  /\ scope # None
  /\ m \in vanished
  /\ RemoveScopeFromFamily(m)
  /\ vanished' = vanished \ {m}
  /\ UNCHANGED <<labelNames, scopeMetrics, up, scope, grouped, fresh, metric, seen,
                 good, last>>

\* The exception leaves _replace_scope_records where it stands and frees _lock.
Raise ==
  /\ scope' = None /\ metric' = None
  /\ grouped' = NoRecords /\ fresh' = NoObjects
  /\ vanished' = {} /\ seen' = {}
  /\ last' = [last EXCEPT ![scope] = "rejected"]
  /\ UNCHANGED <<storeVars, up, good>>

BetweenGroups == scope # None /\ vanished = {} /\ metric = None

ClearThenSet(m) ==                        \* mutant: old children go before new come
  /\ BetweenGroups /\ grouped[m] # <<>>
  /\ labelNames[m] \in {None, grouped[m][1].labels}
  /\ labelNames' = [labelNames EXCEPT ![m] = grouped[m][1].labels]
  /\ metric' = m
  /\ seen' = {}
  /\ shown' = [shown EXCEPT ![m][scope] = @ \ scoped[m][scope]]
  /\ UNCHANGED <<scoped, scopeMetrics, up, scope, grouped, fresh, vanished, good, last>>

\* A group goes to its family: a new one takes the label names of the group's
\* first record. The groups come in the order the poll first named them, so any.
OpenFamily(m) ==
  /\ BetweenGroups /\ grouped[m] # <<>>
  /\ labelNames[m] \in {None, grouped[m][1].labels}
  /\ labelNames' = [labelNames EXCEPT ![m] = grouped[m][1].labels]
  /\ metric' = m
  /\ seen' = {}
  /\ UNCHANGED <<shown, scoped, scopeMetrics, up, scope, grouped, fresh, vanished, good,
                 last>>

FamilyRaises(m) ==
  /\ BetweenGroups /\ grouped[m] # <<>>
  /\ labelNames[m] \notin {None, grouped[m][1].labels}
  /\ Raise

SetSeries ==
  /\ metric # None /\ grouped[metric] # <<>>
  /\ LET r == grouped[metric][1] IN
       /\ r.labels = labelNames[metric]
       /\ shown' = [shown EXCEPT ![metric][scope] = @ \cup {r.object}]
       /\ seen' = seen \cup {r.object}
  /\ grouped' = [grouped EXCEPT ![metric] = Tail(@)]
  /\ UNCHANGED <<labelNames, scoped, scopeMetrics, up, scope, fresh, vanished, metric,
                 good, last>>

\* A missing label name is a KeyError, an extra one a ValueError of labels().
SetRaises ==
  /\ metric # None /\ grouped[metric] # <<>>
  /\ grouped[metric][1].labels # labelNames[metric]
  /\ Raise

StaleSeriesKept ==                                  \* mutant: gauge.remove left out
  /\ metric # None /\ grouped[metric] = <<>>
  /\ scoped' = [scoped EXCEPT ![metric][scope] = seen]
  /\ metric' = None /\ seen' = {}
  /\ UNCHANGED <<labelNames, shown, scopeMetrics, up, scope, grouped, fresh, vanished,
                 good, last>>

CloseFamily ==
  /\ metric # None /\ grouped[metric] = <<>>
  /\ shown' = [shown EXCEPT ![metric][scope] = @ \ (scoped[metric][scope] \ seen)]
  /\ scoped' = [scoped EXCEPT ![metric][scope] = seen]
  /\ metric' = None /\ seen' = {}
  /\ UNCHANGED <<labelNames, scopeMetrics, up, scope, grouped, fresh, vanished, good,
                 last>>

CommitWithLoopMetric ==     \* mutant: the name in the loop variable counts as well
  /\ BetweenGroups /\ grouped = NoRecords
  /\ scopeMetrics' = [scopeMetrics EXCEPT ![scope] =
                      {m \in Metrics : fresh[m] # {}} \cup {metric}]
  /\ good' = [m \in Metrics |-> [good[m] EXCEPT ![scope] = fresh[m]]]
  /\ Ended(scope, "stored")
  /\ scope' = None
  /\ fresh' = NoObjects
  /\ UNCHANGED <<labelNames, shown, scoped, up, grouped, vanished, metric, seen>>

Commit ==
  /\ BetweenGroups /\ grouped = NoRecords
  /\ scopeMetrics' = [scopeMetrics EXCEPT ![scope] = {m \in Metrics : fresh[m] # {}}]
  /\ good' = [m \in Metrics |-> [good[m] EXCEPT ![scope] = fresh[m]]]
  /\ Ended(scope, "stored")
  /\ scope' = None
  /\ fresh' = NoObjects
  /\ UNCHANGED <<labelNames, shown, scoped, up, grouped, vanished, metric, seen>>

Next ==
  \/ \E s \in Scopes : record_failure(s)
  \/ \E s \in Scopes, b \in Batches : record_success(s, b)
  \/ \E m \in Metrics : RemoveVanished(m) \/ OpenFamily(m) \/ FamilyRaises(m)
  \/ SetSeries \/ SetRaises \/ CloseFamily \/ Commit

Spec == Init /\ [][Next]_vars

-----------------------------------------------------------------------------
(* Properties.                                                             *)

SeriesSets == [Metrics -> [Scopes -> SUBSET Objects]]

\* Every variable keeps its type.
TypeOK ==
  /\ labelNames \in [Metrics -> LabelSets \cup {None}]
  /\ shown \in SeriesSets /\ scoped \in SeriesSets /\ good \in SeriesSets
  /\ scopeMetrics \in [Scopes -> SUBSET Metrics]
  /\ up \in [Scopes -> {"unset", "up", "down"}]
  /\ last \in [Scopes -> {"none", "stored", "rejected", "failed"}]
  /\ scope \in Scopes \cup {None}
  /\ grouped \in [Metrics -> Seq(Records)]
  /\ fresh \in [Metrics -> SUBSET Objects]
  /\ vanished \subseteq Metrics /\ seen \subseteq Objects
  /\ metric \in Metrics \cup {None}

\* A queue manager none of whose polls was rejected. What a rejected poll leaves
\* behind is its own, see the README.
Accepted(s) == last[s] # "rejected"

\* Outside a replacement of its own, a queue manager's series in the cache are
\* those of its last stored poll, no stale one and none missing, however often
\* its polls have failed since: failed polls leave the samples in the cache. No
\* poll of another queue manager, rejected or not, changes that.
CacheHoldsLastSuccess ==
  \A s \in Scopes \ {scope}, m \in Metrics : Accepted(s) => shown[m][s] = good[m][s]

\* A scrape that falls into the replacement misses no series that the queue manager had
\* and still has, and sees none that neither the last stored poll nor the new one has.
ScrapesSeeNoGap ==
  \A s \in Scopes \cap {scope}, m \in Metrics :
    Accepted(s) => /\ good[m][s] \cap fresh[m] \subseteq shown[m][s]
                   /\ shown[m][s] \subseteq good[m][s] \cup fresh[m]

\* A replacement touches no other queue manager's series or bookkeeping.
OtherScopesUntouched ==
  [][\A s \in Scopes \ {scope}, m \in Metrics :
       /\ shown'[m][s] = shown[m][s]
       /\ scoped'[m][s] = scoped[m][s]
       /\ scopeMetrics'[s] = scopeMetrics[s]]_vars

\* target_up tells whether the last background poll succeeded, unless the store
\* rejected one (then it stays 1).
TargetUpTellsOutcome ==
  \A s \in Scopes \ {scope} :
    last[s] \notin {"none", "rejected"} => (up[s] = "up" <=> last[s] = "stored")

\* Whatever was rejected before, a removal never meets a metric whose family
\* was not registered (self._families[metric_name] would raise a KeyError), nor
\* a child that is not there.
BookkeepingIsSound ==
  /\ \A s \in Scopes, m \in Metrics : m \in scopeMetrics[s] => labelNames[m] # None
  /\ \A s \in Scopes, m \in Metrics : scoped[m][s] \subseteq shown[m][s]

\* After a stored poll its queue manager shows that poll's series and nothing else.
StaleSeriesAreRemoved ==
  [][\A s \in Scopes : scope = s /\ good' # good =>
       \A m \in Metrics : shown'[m][s] = good'[m][s]]_vars
=============================================================================
