----------------------------- MODULE FactoryReport -----------------------------
(***************************************************************************)
(* A factory's day: aggregate_hour.py makes a summary of an hour's         *)
(* records, merge_daily.py a context of the hours' summaries, and          *)
(* generate_report.py judges it.  Averages, percentiles and evidence ids   *)
(* are left out; AI scores are in tenths.                                  *)
(***************************************************************************)
EXTENDS ReportEvents

CONSTANTS Interval,        \* ticks between records, per dataset
          MaxHourlyEvents  \* events kept of an hour: 5

Datasets == <<"factory_state", "risk_score", "infra_state">>
AiScores == <<"fire_score", "fall_score", "bend_score">>

ASSUME FactoryAssumption ==
  /\ \A d \in ToSet(Datasets) : Interval[d] \in Nat \ {0}
  /\ MaxHourlyEvents \in Nat \ {0}

RiskWarningMax == 84
TemperatureWarning == 32
AiSpike == 7

ExpectedCount(dataset) == HourTicks \div Interval[dataset]

-----------------------------------------------------------------------------
(* aggregate_hour.py *)

\* The allowed gap follows the factory state's interval but for infra states.
AllowedGap(dataset) ==
  2 * (IF dataset = "infra_state" THEN Interval["infra_state"]
                                  ELSE Interval["factory_state"])

\* max_gap_seconds() looks between records only, so the longest of both.
LegacyGap(records) ==
  MostOf([k \in 1..Len(records) - 1 |-> records[k + 1].time - records[k].time])

DataQuality(records, hour) ==
  LET gaps(d) == GapWindows(d, records[d], Start(hour), ExclusiveEnd(End(hour)),
                            AllowedGap(d))
      all == FlattenSeq(Each(gaps, Datasets))
  IN [gapCount |-> Len(all), gaps |-> LongestGaps(all),
      maxGap |-> MostOf(Each(Length, all)
                          \o Each(LAMBDA d : LegacyGap(records[d]), Datasets))]

Minutes(count, dataset) == count * Interval[dataset]

RiskSummary(records) ==
  [scores |-> {r.score : r \in ToSet(records)},
   warningMinutes |-> Minutes(Count(LAMBDA r : r.level = "warning", records), "risk_score"),
   dangerMinutes |-> Minutes(Count(LAMBDA r : r.level = "danger", records), "risk_score")]

SpikeEvents(records) ==
  FlattenSeq(Each(LAMBDA field :
    ThresholdWindows(records, Each(LAMBDA r : r[field] >= AiSpike, records),
                     Interval["factory_state"], "ai_score_spike", field,
                     Each(LAMBDA r : r[field], records)), AiScores))

IsHot(r) == r.temperature >= TemperatureWarning

FactoryStateSummary(records) ==
  [hotMinutes |-> Minutes(Count(IsHot, records), "factory_state"),
   sounds |-> Count(LAMBDA r : r.sound, records),
   spikes |-> SpikeEvents(records)]

NotReady(r) == Most(r.nodesTotal - r.nodesReady, 0)
PodsDown(r) == Most(r.podsTotal - r.podsReady, 0)

\* The restarts within an hour: those before its first record are in none.
RestartDelta(records) ==
  IF Len(records) < 2 THEN 0
  ELSE LET counts == Each(LAMBDA r : r.restarts, records)
       IN MostOf(counts) - LeastOf(counts)

InfraSummary(records) ==
  [notReady |-> MostOf(Each(NotReady, records)),
   notReadyMinutes |-> Minutes(Count(LAMBDA r : NotReady(r) > 0, records), "infra_state"),
   unhealthyMinutes |-> Minutes(Count(LAMBDA r : PodsDown(r) > 0, records), "infra_state"),
   restarts |-> RestartDelta(records)]

PipelineSummary(records, quality) ==
  LET minutes(status) ==
        Total(Each(LAMBDA d :
          Count(LAMBDA r : r.pipeline = status, records[d])
            * Interval[IF d = "infra_state" THEN d ELSE "factory_state"], Datasets))
  IN [warningMinutes |-> minutes("warning"),
      criticalMinutes |-> minutes("critical"), maxGap |-> quality.maxGap]

SnapshotSummary(records) ==
  [count |-> Len(records),
   final |-> IF records = << >> THEN << >> ELSE <<Last(records)>>]

RestartEvent(records, restarts) ==
  IF restarts = 0 THEN << >>
  ELSE <<[type |-> "workload_unhealthy", kind |-> "restarts", severity |-> "warning",
          start |-> Last(records).time, end |-> Last(records).time,
          minutes |-> 0, magnitude |-> 5 * restarts]>>

\* A score of 0 counts as 100 here: float(score or 100).
ScoreOr100(r) == IF r.score = 0 THEN 100 ELSE r.score

HourEvents(records, state, infra) ==
  LET of(d, Test(_), type, kind, Magnitude(_)) ==
        ThresholdWindows(records[d], Each(Test, records[d]), Interval[d], type,
                         kind, Each(Magnitude, records[d]))
  IN TopEvents(
    of("risk_score", LAMBDA r : ScoreOr100(r) <= RiskWarningMax,
       "risk_degradation", "risk", LAMBDA r : (100 - ScoreOr100(r)) \div 2)
    \o of("factory_state", IsHot, "sensor_threshold_exceeded", "temperature",
          LAMBDA r : r.temperature - TemperatureWarning)
    \o state.spikes
    \o of("infra_state", LAMBDA r : NotReady(r) > 0, "node_not_ready", "nodes",
          LAMBDA r : 5 * NotReady(r))
    \o of("infra_state", LAMBDA r : PodsDown(r) > 0, "workload_unhealthy", "pods",
          LAMBDA r : 5 * PodsDown(r))
    \o RestartEvent(records["infra_state"], infra.restarts),
    MaxHourlyEvents)

\* aggregate_factory_hour_records()
FactoryHour(files, hour) ==
  LET records == [factory_state |-> HourRecords(files, "factory_state", hour),
                  risk_score |-> HourRecords(files, "risk_score", hour),
                  infra_state |-> HourRecords(files, "infra_state", hour),
                  state_snapshot |-> HourRecords(files, "state_snapshot", hour)]
      quality == DataQuality(records, hour)
      state == FactoryStateSummary(records["factory_state"])
      infra == InfraSummary(records["infra_state"])
  IN [hour |-> hour, quality |-> quality, state |-> state, infra |-> infra,
      actual |-> [d \in ToSet(Datasets) |-> Len(records[d])],
      expected |-> [d \in ToSet(Datasets) |-> ExpectedCount(d)],
      risk |-> RiskSummary(records["risk_score"]),
      pipeline |-> PipelineSummary(records, quality),
      snapshot |-> SnapshotSummary(records["state_snapshot"]),
      events |-> HourEvents(records, state, infra)]

-----------------------------------------------------------------------------
(* merge_daily.py; hours in order *)

MergeDataQuality(hours) ==
  LET sum(Count1(_)) == Total(Each(Count1, hours))
  IN [expected |-> [d \in ToSet(Datasets) |-> sum(LAMBDA h : h.expected[d])],
      actual |-> [d \in ToSet(Datasets) |-> sum(LAMBDA h : h.actual[d])],
      missingHours |-> Hours - Cardinality({h.hour : h \in ToSet(hours)}),
      gapCount |-> sum(LAMBDA h : h.quality.gapCount),
      maxGap |-> MostOf(Each(LAMBDA h : h.quality.maxGap, hours)),
      gaps |-> LongestGaps(FlattenSeq(Each(LAMBDA h : h.quality.gaps, hours)))]

\* A faulty variant of MergeRisk: the last hour speaks for the day.
MergeRiskOfLast(hours) ==
  [scores |-> UNION {h.risk.scores : h \in ToSet(hours)},
   warningMinutes |-> Last(hours).risk.warningMinutes,
   dangerMinutes |-> Last(hours).risk.dangerMinutes]

MergeRisk(hours) ==
  [scores |-> UNION {h.risk.scores : h \in ToSet(hours)},
   warningMinutes |-> Total(Each(LAMBDA h : h.risk.warningMinutes, hours)),
   dangerMinutes |-> Total(Each(LAMBDA h : h.risk.dangerMinutes, hours))]

MergeFactoryState(hours) ==
  [hotMinutes |-> Total(Each(LAMBDA h : h.state.hotMinutes, hours)),
   sounds |-> Total(Each(LAMBDA h : h.state.sounds, hours)),
   spikes |-> Total(Each(LAMBDA h : Len(h.state.spikes), hours))]

MergeInfra(hours) ==
  [notReady |-> MostOf(Each(LAMBDA h : h.infra.notReady, hours)),
   notReadyMinutes |-> Total(Each(LAMBDA h : h.infra.notReadyMinutes, hours)),
   unhealthyMinutes |-> Total(Each(LAMBDA h : h.infra.unhealthyMinutes, hours)),
   restarts |-> Total(Each(LAMBDA h : h.infra.restarts, hours))]

\* A gap of at least five minutes is critical.
MergePipeline(hours) ==
  [warningMinutes |-> Total(Each(LAMBDA h : h.pipeline.warningMinutes, hours)),
   criticalMinutes |-> Total(Each(LAMBDA h : h.pipeline.criticalMinutes, hours)),
   criticalGaps |-> Count(LAMBDA h : h.pipeline.maxGap >= 5, hours)]

MergeSnapshot(hours) ==
  [count |-> Total(Each(LAMBDA h : h.snapshot.count, hours)),
   final |-> LET finals == FlattenSeq(Each(LAMBDA h : h.snapshot.final, hours))
             IN Ranked(finals, LAMBDA r, q : r.time > q.time, 1)]

\* _recommended_checks(): what the events and the sums call for, five at most.
RecommendedChecks(events, hours) ==
  LET types == {e.type : e \in ToSet(events)}
      any(Test(_)) == \E h \in ToSet(hours) : Test(h)
      check(wanted, item) == IF wanted THEN <<item>> ELSE << >>
      all == check("risk_degradation" \in types, "risk")
             \o check("sensor_threshold_exceeded" \in types, "temperature")
             \o check(any(LAMBDA h : h.state.spikes # << >>), "ai_score")
             \o check(any(LAMBDA h : h.state.sounds > 0), "sound")
             \o check("node_not_ready" \in types, "nodes")
             \o check("workload_unhealthy" \in types, "workloads")
             \o check(any(LAMBDA h : h.pipeline.maxGap >= 5), "publisher")
             \o check(any(LAMBDA h : h.infra.restarts >= 3), "restarts")
  IN SubSeq(all, 1, Least(5, Len(all)))

\* merge_factory_daily(): the summary, which is also the report's context.
MergeFactoryDaily(hours) ==
  LET events == TopEvents(
                  MergeBoundaryEvents(FlattenSeq(Each(LAMBDA h : h.events, hours))),
                  MaxEvents)
  IN [quality |-> MergeDataQuality(hours), risk |-> MergeRisk(hours),
      state |-> MergeFactoryState(hours), infra |-> MergeInfra(hours),
      pipeline |-> MergePipeline(hours), snapshot |-> MergeSnapshot(hours),
      events |-> events, checks |-> RecommendedChecks(events, hours)]

-----------------------------------------------------------------------------
(* generate_report.py *)

\* A faulty variant of FactoryOverall: the infrastructure does not count.
FactoryOverallWithoutInfra(context) ==
  IF context.risk.dangerMinutes > 0 THEN "danger"
  ELSE IF \/ context.risk.warningMinutes > 0
          \/ context.quality.gapCount > 0
          \/ context.pipeline.criticalMinutes > 0
       THEN "warning" ELSE "normal"

FactoryOverall(context) ==
  IF context.risk.dangerMinutes > 0 THEN "danger"
  ELSE IF \/ context.risk.warningMinutes > 0
          \/ context.quality.gapCount > 0
          \/ context.pipeline.criticalMinutes > 0
          \/ context.infra.notReady > 0
          \/ context.infra.restarts > 0
       THEN "warning" ELSE "normal"

\* _render_key_metrics_table(): what the report's tables ask a reader to check.
FactoryConcerns(context) ==
  LET asks == [min_score |-> \E s \in context.risk.scores : s < 80,
               warning_minutes |-> context.risk.warningMinutes > 0,
               danger_minutes |-> context.risk.dangerMinutes > 0,
               max_gap |-> context.quality.maxGap > 0,
               ai_spikes |-> context.state.spikes > 0,
               abnormal_sounds |-> context.state.sounds > 0,
               node_not_ready |-> context.infra.notReady > 0,
               workload_restarts |-> context.infra.restarts > 0]
  IN {m \in DOMAIN asks : asks[m]}
       \cup {d \in ToSet(Datasets) :
               100 * context.quality.actual[d] < 99 * context.quality.expected[d]}

\* The code's part of the text; the sections repeat the judgements.
FactoryText(context) ==
  [overall |-> FactoryOverall(context), concerns |-> FactoryConcerns(context),
   events |-> SubSeq(context.events, 1, Least(5, Len(context.events))),
   checks |-> context.checks]
=============================================================================
