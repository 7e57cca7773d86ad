----------------------------- MODULE GraphMetrics -----------------------------
(***************************************************************************)
(* What a chart is computed from.  graph-metrics-aggregator summarises the *)
(* HISTORY#STATE items of five minutes into a GRAPH#5M item (metrics.py),  *)
(* and the backend turns those into the points of a chart, joined by twos  *)
(* or fours for longer windows (services/ddb.py).                          *)
(* A tick is a second; the first tick of a bucket stands for its first     *)
(* second, and the three sensors and the AI scores are one metric of a     *)
(* factory state, CPU and memory one of an infra state.  The last usage of *)
(* a disk and the values of single nodes are left out.                     *)
(***************************************************************************)
EXTENDS Integers, Sequences, FiniteSets, FiniteSetsExt, SequencesExt, Functions

CONSTANT BucketTicks \* the ticks of a bucket: 300, scaled down

ASSUME BucketAssumption == BucketTicks \in Nat \ {0}

None == [none |-> TRUE]
NoSince == -1 \* a request without since

-----------------------------------------------------------------------------
\* bucket.py.  A bucket is known by the tick it starts with.
FloorToBucket(t) == (t \div BucketTicks) * BucketTicks
BucketEnd(b) == b + BucketTicks - 1
\* closed_buckets() with the deployed LOOKBACK_BUCKETS = 1
ClosedBucket(now) == FloorToBucket(now) - BucketTicks

\* query_history(): keys have milliseconds and the lower bound has none, which
\* makes it greater than the keys of the bucket's first second.
QueryHistory(history, b) == {i \in history : b < i.at /\ i.at <= BucketEnd(b)}

TimestampInBucket(t, b) == b <= t /\ t <= BucketEnd(b)

\* The time of a state's observation, or of its item when there is none.
FactoryAt(i) == IF i.factory = None THEN i.at ELSE i.factory.at
InfraAt(i) == IF i.infra = None THEN i.at ELSE i.infra.at

\* _actual_observation_count() counts items, and a copy of an observation
\* that a later item repeats like the observation.
ObservationCount(items, b) ==
  Cardinality({i \in items : \/ TimestampInBucket(FactoryAt(i), b)
                             \/ TimestampInBucket(InfraAt(i), b)})

\* A faulty variant of Once: what several items repeat is added several times.
Always(readings) == readings

\* _add_once(): of the readings of one time, the first item's is added.
Once(readings) ==
  {r \in readings : ~\E q \in readings : q.at = r.at /\ q.item < r.item}

Reading(at, value, i) == [at |-> at, value |-> value, item |-> i.at]

FactoryReadings(items, b) ==
  {Reading(FactoryAt(i), i.factory.value, i) : i \in
     {j \in items : j.factory # None /\ TimestampInBucket(FactoryAt(j), b)}}

InfraReadings(items, b) ==
  {Reading(InfraAt(i), i.infra.value, i) : i \in
     {j \in items : j.infra # None /\ TimestampInBucket(InfraAt(j), b)}}

\* The risk is of the time it was calculated at, which no test looks at.
RiskReadings(items) ==
  {Reading(i.risk.at, i.risk.score, i) : i \in {j \in items : j.risk # None}}

Values(readings) == {r.value : r \in readings}

Sum(f) == FoldFunction(+, 0, f)

\* NumericReducer.summary(): the mean as a fraction
Summary(readings) ==
  IF readings = {} THEN None
  ELSE [count |-> Cardinality(readings),
        min |-> Min(Values(readings)), max |-> Max(Values(readings)),
        mean |-> [num |-> Sum([r \in readings |-> r.value]),
                  den |-> Cardinality(readings)]]

\* aggregate_graph_item(): an empty bucket has an item, too.
AggregateGraphItem(history, b) ==
  LET items == QueryHistory(history, b)
  IN [start |-> b, count |-> ObservationCount(items, b),
      sensor |-> Summary(Once(FactoryReadings(items, b))),
      infra |-> Summary(Once(InfraReadings(items, b))),
      risk |-> Summary(Once(RiskReadings(items)))]

-----------------------------------------------------------------------------
Metrics == {"sensor", "infra", "risk"}

\* _extract_graph_5m(): the risk of a bucket without observations is hidden.
Extract(g) ==
  [timestamp |-> g.start, end |-> BucketEnd(g.start), count |-> g.count,
   values |-> [m \in Metrics |->
     IF g[m] = None \/ (m = "risk" /\ g.count = 0) THEN None
     ELSE [min |-> g[m].min, max |-> g[m].max, mean |-> g[m].mean]]]

Plus(p, q) == [num |-> p.num * q.den + q.num * p.den, den |-> p.den * q.den]
Zero == [num |-> 0, den |-> 1]
SumFractions(f) == FoldFunction(Plus, Zero, f)

Count(group) == Sum([k \in DOMAIN group |-> group[k].count])

Known(group, m) == {p \in ToSet(group) : p.values[m] # None}

\* A faulty variant of WeightedAverage: missing values weigh like zeroes.
WeightedAverageWithZeroes(group, m) ==
  LET weighted == [k \in DOMAIN group |->
        IF group[k].values[m] = None THEN Zero
        ELSE [group[k].values[m].mean EXCEPT !.num = @ * group[k].count]]
  IN [SumFractions(weighted) EXCEPT !.den = @ * Count(group)]

\* _wavg(): averages weigh what their bucket counts, without the empty ones.
Weight(p, m) == IF p.values[m] = None THEN 0 ELSE p.count

Weighted(p, m) ==
  IF Weight(p, m) = 0 THEN Zero
  ELSE [num |-> p.values[m].mean.num * p.count, den |-> p.values[m].mean.den]

WeightedAverage(group, m) ==
  LET sum == SumFractions([k \in DOMAIN group |-> Weighted(group[k], m)])
      weight == Sum([k \in DOMAIN group |-> Weight(group[k], m)])
  IN [num |-> sum.num, den |-> sum.den * weight]

\* A faulty variant of Merged: the range of the averages.
MergedAverages(group) ==
  LET known(m) == Known(group, m)
      average(p, m) == p.values[m].mean.num \div p.values[m].mean.den
  IN [timestamp |-> Head(group).timestamp, end |-> Last(group).end,
      count |-> Count(group),
      values |-> [m \in Metrics |->
        IF known(m) = {} THEN None
        ELSE [min |-> Min({average(p, m) : p \in known(m)}),
              max |-> Max({average(p, m) : p \in known(m)}),
              mean |-> WeightedAverage(group, m)]]]

\* _merge_extracted_group()
Merged(group) ==
  [timestamp |-> Head(group).timestamp, end |-> Last(group).end,
   count |-> Count(group),
   values |-> [m \in Metrics |->
     IF Known(group, m) = {} THEN None
     ELSE [min |-> Min({p.values[m].min : p \in Known(group, m)}),
           max |-> Max({p.values[m].max : p \in Known(group, m)}),
           mean |-> WeightedAverage(group, m)]]]

\* _reaggregate_extracted(): groups are of n items in a row, whatever is
\* missing between them, and the last may have fewer.
Reaggregate(points, n) ==
  IF n = 1 THEN points
  ELSE [k \in 1..(Len(points) + n - 1) \div n |->
          Merged(SubSeq(points, (k - 1) * n + 1, Min({k * n, Len(points)})))]

\* Items in the order of their keys, and the points they give.
Sorted(items) ==
  [k \in 1..Cardinality(items) |->
     CHOOSE g \in items : Cardinality({h \in items : h.start < g.start}) = k - 1]

Points(items, n) ==
  LET sorted == Sorted(items)
  IN Reaggregate([k \in DOMAIN sorted |-> Extract(sorted[k])], n)

\* A faulty variant of GraphHistory: the items are read from after since, so
\* they are joined anew from another one on.
GraphHistoryAfter(graph, n, since, oldest) ==
  ToSet(Points({g \in graph : g.start > since /\ g.start >= oldest}, n))

\* get_factory_history() for the windows over GRAPH#5M, with or without since;
\* graph is the set of the stored items.
GraphHistory(graph, n, since, oldest) ==
  LET from == IF since = NoSince THEN oldest ELSE since
  IN {p \in ToSet(Points({g \in graph : g.start >= from}, n)) :
        since # NoSince => p.timestamp > since}
=============================================================================
