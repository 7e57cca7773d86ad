--------------------------- MODULE MCReportWorkflow ---------------------------
(* Days of two hours of eight ticks for TLC, which differ from a normal day *)
(* by a silence, some abnormal records or records that are late.            *)
EXTENDS ReportWorkflow

Ticks == 0..Hours * HourTicks - 1

SomeIntervals == [factory_state |-> 1, risk_score |-> 1, infra_state |-> 2]
SomeAllowed == [fast |-> 2, slow |-> 4]

State(t) ==
  [dataset |-> "factory_state", time |-> t, temperature |-> 20, fire_score |-> 0,
   fall_score |-> 0, bend_score |-> 0, sound |-> FALSE, pipeline |-> "normal"]
RiskScore(t) == [dataset |-> "risk_score", time |-> t, score |-> 95, level |-> "safe",
                 pipeline |-> "normal"]
Infra(t) == [dataset |-> "infra_state", time |-> t, nodesTotal |-> 2, nodesReady |-> 2,
             podsTotal |-> 4, podsReady |-> 4, restarts |-> 0, pipeline |-> "normal"]
Snapshot(t) == [dataset |-> "state_snapshot", time |-> t]

Even == {t \in Ticks : t % 2 = 0}

FactoryDay == {State(t) : t \in Ticks} \cup {RiskScore(t) : t \in Ticks}
                \cup {Infra(t) : t \in Even} \cup {Snapshot(t) : t \in Even}

FastSnapshot(t) ==
  [dataset |-> "fast", time |-> t, overall |-> "normal", desired |-> 2, running |-> 2,
   counts |-> [m \in Summed.fast \cup Maximal.fast |-> 0]]
SlowSnapshot(t) ==
  [dataset |-> "slow", time |-> t, overall |-> "normal", cluster |-> "ACTIVE",
   restarts |-> 0, counts |-> [m \in Summed.slow \cup Maximal.slow |-> 0]]

CloudDay == {FastSnapshot(t) : t \in Ticks} \cup {SlowSnapshot(t) : t \in Even}

-----------------------------------------------------------------------------
Without(records, d, a, b) ==
  {r \in records : r.dataset # d \/ r.time < a \/ r.time > b}

\* Days without the records of d from a to b.
Silent(records, d, stretches) ==
  Each(LAMBDA s : [files |-> Without(records, d, s[1], s[2]), late |-> {}], stretches)

\* Those records are only late.
Delayed(records, d, a, b) ==
  [files |-> Without(records, d, a, b), late |-> records \ Without(records, d, a, b)]

\* Records of d at the given times become Bad(record).
Changed(records, d, times, Bad(_)) ==
  {IF r.dataset = d /\ r.time \in times THEN Bad(r) ELSE r : r \in records}

Some(records, d, times, Bad(_)) ==
  Each(LAMBDA ts : [files |-> Changed(records, d, ts, Bad), late |-> {}], times)

Alarming(r) == [r EXCEPT !.score = 30, !.level = "danger"]
Hot(r) == [r EXCEPT !.temperature = 36]
Spiking(r) == [r EXCEPT !.fire_score = 8, !.fall_score = 9, !.sound = TRUE]
Down(r) == [r EXCEPT !.nodesReady = 1, !.podsReady = 2, !.restarts = 3]

FactoryDays ==
  <<Delayed(FactoryDay, "infra_state", 6, 9)>>
    \o Silent(FactoryDay, "factory_state", <<<<0, 2>>, <<7, 8>>, <<6, 9>>, <<8, 15>>>>)
    \o Silent(FactoryDay, "infra_state", <<<<6, 9>>, <<6, 11>>, <<0, 15>>>>)
    \o Some(FactoryDay, "factory_state", <<{7, 8}, {6, 10}, {5, 9}, {7, 10}>>, Hot)
    \o Some(FactoryDay, "risk_score", <<{0}, {7, 9}, {15}>>, Alarming)
    \o Some(Changed(FactoryDay, "factory_state", {3, 7, 8}, Spiking),
            "infra_state", <<{}, {6, 8, 14}>>, Down)

Failing(r) == [r EXCEPT !.counts = [m \in DOMAIN r.counts |-> 60], !.overall = "critical"]
Inactive(r) == [r EXCEPT !.cluster = "UPDATING", !.restarts = 2]
Thin(r) == [r EXCEPT !.running = 1]

CloudDays ==
  <<[files |-> CloudDay, late |-> {}], Delayed(CloudDay, "fast", 7, 8)>>
    \o Silent(CloudDay, "fast", <<<<5, 6>>, <<7, 8>>, <<6, 9>>, <<0, 15>>>>)
    \o Silent(CloudDay, "slow", <<<<6, 9>>, <<0, 15>>>>)
    \o Some(CloudDay, "fast", <<{0}, {7, 8}>>, Failing)
    \o Some(CloudDay, "slow", <<{6}, {8, 10}>>, Inactive)
    \o Some(Changed(CloudDay, "fast", {3, 12}, Thin), "slow", <<{14}>>, Failing)

\* The k-th day of the factory with the k-th of the cloud.
SomeDays ==
  LET both(f, c) == [files |-> [factory |-> f.files, cloud |-> c.files],
                     late |-> [factory |-> f.late, cloud |-> c.late]]
      at(k) == ((k - 1) % Len(CloudDays)) + 1
  IN {both(FactoryDays[k], CloudDays[at(k)]) : k \in DOMAIN FactoryDays}
=============================================================================
