------------------------------ MODULE GraphCharts ------------------------------
(***************************************************************************)
(* From the states a data processor stores to the chart of a page: HISTORY *)
(* items, the aggregator that is invoked every five minutes, at a phase    *)
(* the deployment decides, and a page that stays open on one window and    *)
(* asks for what is newer than its last point (useFactoryHistory.ts).      *)
(* Calls of the aggregator and of the page may fail, Lambda repeats an     *)
(* invocation later, and answers may come in another order than asked for. *)
(***************************************************************************)
EXTENDS GraphMetrics

CONSTANTS Messages,    \* what may come: [at, kind, source, value, score]
          Phases,      \* the schedule's, when in a bucket it fires
          Windows,     \* the page's, as the number of buckets a point joins
          WindowTicks, \* what the page's window reaches back
          MaxTime,     \* bound: ticks
          MaxFaults,   \* bound: failing calls
          MaxRequests  \* bound: requests of the page at a time

Message == [at : Nat, kind : {"factory_state", "infra_state", "refresh", "image_snapshot"},
            source : Int, value : Int, score : Int]

ASSUME MessagesAssumption == Messages \subseteq Message
ASSUME WindowsAssumption == Phases \subseteq 0..BucketTicks - 1 /\ Windows \subseteq {1, 2, 4}
ASSUME BoundsAssumption == {WindowTicks, MaxTime, MaxFaults, MaxRequests} \subseteq Nat \ {0}

VARIABLES now,
          latest,      \* the item LATEST: its factory, infra and risk
          history,     \* the items HISTORY#STATE
          graph,       \* the items GRAPH#5M
          archive,     \* the objects metrics_5m in S3
          phase,       \* of the aggregator's schedule
          fired,       \* the last tick the schedule invoked it in
          invocations, \* "first" and "retry": what Lambda has yet to run
          joined,      \* how many buckets the window joins: 1, 2 or 4
          chart,       \* the points the page shows
          cache,       \* the browser's cache of them
          requests,    \* of the page, in the order of asking
          faults

stored == <<now, latest, history>>
aggregator == <<graph, archive, fired, invocations>>
page == <<chart, cache, requests>>
vars == <<stored, aggregator, phase, joined, page, faults>>

Init ==
  /\ now = 0
  /\ latest = [factory |-> None, infra |-> None, risk |-> None]
  /\ history = {} /\ graph = {} /\ archive = {}
  /\ phase \in Phases
  /\ fired = -1 /\ invocations = {}
  /\ joined \in Windows
  /\ chart = {} /\ cache = {} /\ requests = << >>
  /\ faults = 0

-----------------------------------------------------------------------------
\* A message, or the schedule's refresh, changes LATEST; a copy is a HISTORY
\* item.  The risk needs a factory state, and an image leaves it as it is.
Observation(m) == [at |-> m.source, value |-> m.value]

Risk(m, factory) == IF factory = None THEN None ELSE [at |-> now, score |-> m.score]

Updated(m) ==
  CASE m.kind = "factory_state" ->
         [latest EXCEPT !.factory = Observation(m), !.risk = Risk(m, Observation(m))]
    [] m.kind = "infra_state" ->
         [latest EXCEPT !.infra = Observation(m), !.risk = Risk(m, latest.factory)]
    [] m.kind = "refresh" -> [latest EXCEPT !.risk = Risk(m, latest.factory)]
    [] m.kind = "image_snapshot" -> latest

Process(m) ==
  /\ m.at = now /\ \A i \in history : i.at < now
  /\ latest' = Updated(m)
  /\ history' = history \cup
       {[at |-> now, factory |-> latest'.factory, infra |-> latest'.infra,
         risk |-> latest'.risk]}
  /\ UNCHANGED <<now, aggregator, phase, joined, page, faults>>

Due == now % BucketTicks = phase /\ fired < now

Tick ==
  /\ now < MaxTime /\ ~Due /\ "first" \notin invocations
  /\ now' = now + 1
  /\ UNCHANGED <<latest, history, aggregator, phase, joined, page, faults>>

-----------------------------------------------------------------------------
\* The scheduler, rate(5 minutes)
Invoke ==
  /\ Due
  /\ fired' = now
  /\ invocations' = invocations \cup {"first"}
  /\ UNCHANGED <<stored, graph, archive, phase, joined, page, faults>>

Put(items, item) == {i \in items : i.start # item.start} \cup {item}

\* handler(): the item is put into DynamoDB, then into S3.  A retry takes the
\* bucket that was closed last by then.
Aggregate(i) ==
  /\ i \in invocations
  /\ LET item == AggregateGraphItem(history, ClosedBucket(now))
     IN graph' = Put(graph, item) /\ archive' = Put(archive, item)
  /\ invocations' = invocations \ {i}
  /\ UNCHANGED <<stored, fired, phase, joined, page, faults>>

\* One of its calls fails, before or after the item is in DynamoDB.
AggregateFails(i) ==
  /\ i \in invocations
  /\ faults < MaxFaults
  /\ faults' = faults + 1
  /\ \/ graph' = graph
     \/ graph' = Put(graph, AggregateGraphItem(history, ClosedBucket(now)))
  /\ invocations' = (invocations \ {i}) \cup {"retry"}
  /\ UNCHANGED <<stored, archive, fired, phase, joined, page>>

-----------------------------------------------------------------------------
Oldest == now - WindowTicks

Timestamps(points) == {p.timestamp : p \in points}
LatestTimestamp(points) == IF points = {} THEN NoSince ELSE Max(Timestamps(points))

\* mergeHistoryItems(): what came last of a timestamp wins.
MergeHistoryItems(current, incoming) ==
  {p \in incoming \cup {q \in current : q.timestamp \notin Timestamps(incoming)} :
     p.timestamp >= Oldest}

\* A faulty variant of Load: what is new in the cache is put to what is shown.
LoadOntoChart ==
  /\ Len(requests) < MaxRequests
  /\ LET since == LatestTimestamp(cache)
     IN requests' = Append([k \in DOMAIN requests |-> [requests[k] EXCEPT !.current = FALSE]],
          [base |-> chart, since |-> since, current |-> TRUE,
           answer |-> GraphHistory(graph, joined, since, Oldest)])
  /\ UNCHANGED <<stored, aggregator, phase, joined, chart, cache, faults>>

\* load(): the first request has no base, each refresh the cached points, and
\* it makes earlier ones stale.  get_factory_history() reads what is stored.
Load ==
  /\ Len(requests) < MaxRequests
  /\ LET since == LatestTimestamp(cache)
     IN requests' = Append([k \in DOMAIN requests |-> [requests[k] EXCEPT !.current = FALSE]],
          [base |-> cache, since |-> since, current |-> TRUE,
           answer |-> GraphHistory(graph, joined, since, Oldest)])
  /\ UNCHANGED <<stored, aggregator, phase, joined, chart, cache, faults>>

\* A stale answer still goes to the cache.
Receive(k) ==
  /\ k \in DOMAIN requests
  /\ LET r == requests[k]
         merged == IF r.since = NoSince THEN r.answer ELSE MergeHistoryItems(r.base, r.answer)
     IN /\ cache' = merged
        /\ chart' = IF r.current THEN merged ELSE chart
  /\ requests' = RemoveAt(requests, k)
  /\ UNCHANGED <<stored, aggregator, phase, joined, faults>>

\* The request fails or times out: the page keeps what it shows.
RequestFails(k) ==
  /\ k \in DOMAIN requests
  /\ faults < MaxFaults
  /\ faults' = faults + 1
  /\ requests' = RemoveAt(requests, k)
  /\ UNCHANGED <<stored, aggregator, phase, joined, chart, cache>>

Lambda == Invoke \/ \E i \in {"first", "retry"} : Aggregate(i)

Page == Load \/ \E k \in 1..MaxRequests : Receive(k)

Next == (\E m \in Messages : Process(m)) \/ Tick \/ Lambda \/ Page
          \/ (\E i \in {"first", "retry"} : AggregateFails(i))
          \/ \E k \in 1..MaxRequests : RequestFails(k)

Spec == Init /\ [][Next]_vars

-----------------------------------------------------------------------------

Counted(summary) == IF summary = None THEN 0 ELSE summary.count

\* HISTORY repeats an observation with every later change of LATEST, and an
\* aggregation may be repeated: still no observation counts twice in a chart,
\* in one bucket or in two.
CountedOnce ==
  /\ Sum([g \in graph |-> Counted(g.sensor)])
       <= Cardinality({i.factory.at : i \in {j \in history : j.factory # None}})
  /\ Sum([g \in graph |-> Counted(g.infra)])
       <= Cardinality({i.infra.at : i \in {j \in history : j.infra # None}})

\* The points of a chart do not overlap, although a refresh joins buckets anew
\* and answers are merged out of order: no bucket is drawn twice.
PointsDisjoint ==
  \A p, q \in chart : p = q \/ p.end < q.timestamp \/ q.end < p.timestamp

\* Averages of averages, with other weights than theirs and with buckets that
\* miss a value, stay between the least and the greatest value.
AverageInRange ==
  \A p \in chart, m \in Metrics : p.values[m] # None =>
    LET v == p.values[m]
    IN v.mean.den > 0 /\ v.min * v.mean.den <= v.mean.num /\ v.mean.num <= v.max * v.mean.den

\* However buckets are joined, the range of a point reaches to every risk of
\* its buckets that have observations, but those of their first second.
SpikesShown ==
  \A p \in chart, g \in graph : \A i \in QueryHistory(history, g.start) :
    (p.timestamp <= g.start /\ g.start <= p.end /\ g.count > 0 /\ i.risk # None)
      => p.values["risk"].min <= i.risk.score /\ i.risk.score <= p.values["risk"].max

\* A page of the 6 hour window asks for what is newer than its last point
\* only, of requests that fail or are answered out of order: between its first
\* and its last point it has every bucket that is stored.
NothingSkipped ==
  joined = 1 =>
    \A g \in graph, p, q \in chart :
      p.timestamp < g.start /\ g.start < q.timestamp => g.start \in Timestamps(chart)

=============================================================================
