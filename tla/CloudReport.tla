------------------------------ MODULE CloudReport ------------------------------
(***************************************************************************)
(* The day of the cloud infrastructure: aggregate_cloud_infra_hour.py      *)
(* makes a summary of an hour's snapshots, merge_cloud_infra_daily.py a    *)
(* context of the summaries.  A count of a snapshot is named after the     *)
(* event it makes.  Utilisations, lists of pods and texts are left out.    *)
(***************************************************************************)
EXTENDS ReportEvents

CONSTANTS Allowed,       \* ticks allowed between snapshots, per stream
          MaxCloudEvents \* events kept of an hour: 20

Streams == <<"fast", "slow">>

ASSUME CloudAssumption ==
  /\ \A s \in ToSet(Streams) : Allowed[s] \in Nat \ {0}
  /\ MaxCloudEvents \in Nat \ {0}

\* Counts of the fast and of the slow snapshots, by how an hour takes them.
Summed == [fast |-> {"backend_alb_5xx", "pipeline_lambda_error",
                     "pipeline_lambda_throttle", "dynamodb_throttle_or_error",
                     "scheduler_disabled"},
           slow |-> {"eks_node_not_ready", "storage_freshness_stale"}]
Maximal == [fast |-> {"backend_alb_unhealthy", "factory_freshness_stale"},
            slow |-> {"eks_pod_unhealthy", "argocd_out_of_sync", "argocd_degraded"}]

FastCounts == Summed.fast \cup Maximal.fast
SlowCounts == Summed.slow \cup Maximal.slow

\* Counts whose event has a magnitude of 5 whatever they are.
Flat == {"dynamodb_throttle_or_error", "eks_pod_unhealthy"}

\* Counts the day takes the largest hour of, although hours sum them up.
DailyMaximal == {"scheduler_disabled", "storage_freshness_stale"}
                  \cup Maximal.fast \cup Maximal.slow

-----------------------------------------------------------------------------
(* aggregate_cloud_infra_hour.py *)

CloudDataQuality(records, hour) ==
  LET gaps(s) == GapWindows(s, records[s], Start(hour), ExclusiveEnd(End(hour)), Allowed[s])
  IN [actual |-> [s \in ToSet(Streams) |-> Len(records[s])],
      gaps |-> LongestGaps(FlattenSeq(Each(gaps, Streams)))]

\* _backend_runtime(), _data_pipeline(), _eks_management(), _argocd() and
\* _freshness(): the counts of an hour.
HourCounts(records) ==
  LET stream(m) == IF m \in FastCounts THEN "fast" ELSE "slow"
      numbers(m) == Each(LAMBDA r : r.counts[m], records[stream(m)])
  IN [m \in FastCounts \cup SlowCounts |->
        IF m \in Summed.fast \cup Summed.slow THEN Total(numbers(m)) ELSE MostOf(numbers(m))]

\* The count of restarts may start anew, which makes no negative restarts.
RestartIncrease(slow) ==
  IF Len(slow) < 2 THEN 0 ELSE Most(Last(slow).restarts - Head(slow).restarts, 0)

\* _last_text(clusters, "status")
LastCluster(slow) == IF slow = << >> THEN "none" ELSE Last(slow).cluster

\* The last desired count is above the least running one.
CapacityMismatch(fast) ==
  fast # << >> /\ Last(fast).desired > LeastOf(Each(LAMBDA r : r.running, fast))

\* _latest_snapshot(): the first of the latest, and fast ones come first.
LatestStatus(records) ==
  LET all == Each(LAMBDA r : r, records["fast"] \o records["slow"])
      latest == Ranked(all, LAMBDA r, q : r.time > q.time, 1)
  IN IF latest = << >> THEN "none" ELSE latest[1].overall

HourEvent(type, severity, hour, magnitude) ==
  [type |-> type, kind |-> type, severity |-> severity, start |-> Start(hour),
   end |-> End(hour), minutes |-> HourTicks, magnitude |-> magnitude]

GapEvent(gap) ==
  [type |-> "cloud_" \o gap.dataset \o "_collection_gap", kind |-> gap.dataset,
   severity |-> "warning", start |-> gap.start, end |-> gap.end,
   minutes |-> Length(gap), magnitude |-> Least(Length(gap), MaxBonus)]

CountEvents(counts, types, hour) ==
  Each(LAMBDA m : HourEvent(m, "warning", hour, IF m \in Flat THEN 5 ELSE counts[m]),
       Kept(LAMBDA m : counts[m] > 0, types))

\* Events of equal scores stay in this order.
BackendAndPipeline ==
  <<"backend_alb_unhealthy", "backend_alb_5xx", "pipeline_lambda_error",
    "pipeline_lambda_throttle", "dynamodb_throttle_or_error", "scheduler_disabled">>
ClusterAndFreshness ==
  <<"eks_node_not_ready", "eks_pod_unhealthy", "eks_pod_restart_increase",
    "argocd_out_of_sync", "argocd_degraded", "factory_freshness_stale",
    "storage_freshness_stale">>

CloudHourEvents(quality, counts, restarts, fast, cluster, overall, hour) ==
  LET all == [m \in DOMAIN counts \cup {"eks_pod_restart_increase"} |->
                IF m = "eks_pod_restart_increase" THEN restarts ELSE counts[m]]
      when(condition, type, severity, magnitude) ==
        IF condition THEN <<HourEvent(type, severity, hour, magnitude)>> ELSE << >>
  IN TopEvents(
       when(overall \notin {"none", "normal"}, "cloud_overall_status_non_normal",
            "warning", 5)
       \o Each(GapEvent, quality.gaps)
       \o when(CapacityMismatch(fast), "backend_ecs_capacity_mismatch", "warning", 5)
       \o CountEvents(all, BackendAndPipeline, hour)
       \o when(cluster \notin {"none", "ACTIVE"}, "eks_cluster_non_active", "danger", 10)
       \o CountEvents(all, ClusterAndFreshness, hour),
       MaxCloudEvents)

\* aggregate_cloud_infra_hour_records()
CloudHour(files, hour) ==
  LET records == [fast |-> HourRecords(files, "fast", hour),
                  slow |-> HourRecords(files, "slow", hour)]
      quality == CloudDataQuality(records, hour)
      counts == HourCounts(records)
      restarts == RestartIncrease(records["slow"])
      cluster == LastCluster(records["slow"])
      overall == LatestStatus(records)
  IN [hour |-> hour, quality |-> quality, counts |-> counts, restarts |-> restarts,
      cluster |-> cluster, overall |-> overall,
      events |-> CloudHourEvents(quality, counts, restarts, records["fast"],
                                 cluster, overall, hour)]

-----------------------------------------------------------------------------
(* merge_cloud_infra_daily.py; hours in order *)

Empty(h) == \A s \in ToSet(Streams) : h.quality.actual[s] = 0

\* _empty_tail_hour_count()
EmptyTail(hours) ==
  Cardinality({k \in DOMAIN hours : \A n \in k..Len(hours) : Empty(hours[n])})

MergeCloudQuality(hours) ==
  [actual |-> [s \in ToSet(Streams) |->
                 Total(Each(LAMBDA h : h.quality.actual[s], hours))],
   missingHours |-> Hours - Cardinality({h.hour : h \in ToSet(hours)}),
   emptyTail |-> EmptyTail(hours),
   gaps |-> LongestGaps(FlattenSeq(Each(LAMBDA h : h.quality.gaps, hours)))]

DailyCounts(hours) ==
  [m \in DOMAIN Head(hours).counts |->
     LET numbers == Each(LAMBDA h : h.counts[m], hours)
     IN IF m \in DailyMaximal THEN MostOf(numbers) ELSE Total(numbers)]

\* _cluster_status(): the first that is not ACTIVE, else the last.
DailyCluster(hours) ==
  LET known == Kept(LAMBDA c : c # "none", Each(LAMBDA h : h.cluster, hours))
      bad == Kept(LAMBDA c : c # "ACTIVE", known)
  IN IF bad # << >> THEN Head(bad)
     ELSE IF known # << >> THEN Last(known) ELSE "none"

CloudOverall(hours, events) ==
  IF \E e \in ToSet(events) : e.severity = "danger" THEN "danger"
  ELSE IF \/ \E h \in ToSet(hours) : h.overall \notin {"none", "normal"}
          \/ events # << >>
       THEN "warning" ELSE "normal"

\* _recommended_checks(): one per type of event, in the order of the events.
CloudChecks(events) ==
  LET new(k) == \A j \in 1..k - 1 : events[j].type # events[k].type
      first == Kept(new, [k \in DOMAIN events |-> k])
  IN Each(LAMBDA k : [type |-> events[k].type, severity |-> events[k].severity],
          SubSeq(first, 1, Least(10, Len(first))))

\* merge_cloud_infra_daily(): the summary, which is also the report's context.
MergeCloudDaily(hours) ==
  LET events == TopEvents(FlattenSeq(Each(LAMBDA h : h.events, hours)), MaxEvents)
  IN [quality |-> MergeCloudQuality(hours), counts |-> DailyCounts(hours),
      restarts |-> Total(Each(LAMBDA h : h.restarts, hours)),
      cluster |-> DailyCluster(hours), overall |-> CloudOverall(hours, events),
      events |-> events, checks |-> CloudChecks(events)]

-----------------------------------------------------------------------------
(* cloud_infra_report_renderer.py *)

\* A gap is allowed to be two intervals long.
CloudExpected(stream) == (2 * HourTicks) \div Allowed[stream]

\* _key_metrics_table(): the counts it judges, and the rates of collection.
JudgedCounts == {"backend_alb_unhealthy", "backend_alb_5xx", "pipeline_lambda_error",
                 "pipeline_lambda_throttle", "eks_node_not_ready",
                 "factory_freshness_stale", "storage_freshness_stale"}

CloudConcerns(context) ==
  {m \in JudgedCounts : context.counts[m] > 0}
    \cup (IF context.restarts > 0 THEN {"eks_pod_restart_increase"} ELSE {})
    \cup {s \in ToSet(Streams) :
            100 * context.quality.actual[s] < 99 * Hours * CloudExpected(s)}

\* The code's part of the text.
CloudText(context) ==
  [overall |-> context.overall, concerns |-> CloudConcerns(context),
   events |-> SubSeq(context.events, 1, Least(10, Len(context.events))),
   checks |-> context.checks]
=============================================================================
