------------------------------ MODULE RiskScore ------------------------------
(***************************************************************************)
(* The risk score (src/apps/data-processor/processor): normalizer.py makes *)
(* states of the payloads, pipeline_status.py judges the age of the last   *)
(* infra state, risk.py subtracts weighted penalties from 100 and caps the *)
(* result by gates.  Scores are in hundredths, as round(..., 2) leaves     *)
(* them.  Of the three AI scores only the highest matters, of the nodes    *)
(* the fullest disk and how many of the known networks are bad.            *)
(***************************************************************************)
EXTENDS Integers, Sequences, FiniteSets, SequencesExt

None == -1           \* a measurement that is missing
NoInfra == [nodesTotal |-> None]

\* Hundredths of a point; the weights sum up to 100.
Weights ==
  [temperature |-> 1000, humidity |-> 500, pressure |-> 500,
   ai_event_rate |-> 1500, node_status |-> 2000, pod_health |-> 1500,
   device_availability |-> 1000, data_freshness |-> 1000,
   storage_pressure |-> 500, network_reachability |-> 500]

FullScore == 10000
SafeMin == 8500
WarningMin == 5000
DangerCap == 4900

\* A faulty variant of WarningCap: the lowest score that is still safe.
WarningCapAtSafe == SafeMin
WarningCap == 8400

WarningSeconds == 60
CriticalSeconds == 120
OutageSeconds == 300

-----------------------------------------------------------------------------
(* normalizer.py *)

\* A missing number becomes 0: _float(None).
NumberOrZero(v) == IF v = None THEN 0 ELSE v

NormalizeFactoryState(payload) ==
  [payload EXCEPT !.temperature = NumberOrZero(@), !.humidity = NumberOrZero(@),
                  !.pressure = NumberOrZero(@), !.ai = NumberOrZero(@),
                  !.samples = NumberOrZero(@)]

\* The counts of the summary or, without one, those of the list of nodes; a
\* device that does not say whether it is available keeps its own status.
NormalizeInfraState(payload) ==
  [nodesTotal |-> Cardinality(DOMAIN payload.nodes),
   nodesReady |-> Cardinality({n \in DOMAIN payload.nodes : payload.nodes[n].ready}),
   podsTotal |-> payload.pods.total, podsReady |-> payload.pods.running,
   devices |-> payload.devices,
   disks |-> {payload.nodes[n].disk : n \in DOMAIN payload.nodes} \ {None},
   networks |-> [n \in DOMAIN payload.nodes |-> payload.nodes[n].network]]

-----------------------------------------------------------------------------
(* pipeline_status.py *)

PipelineStatus(age) ==
  CASE age = None -> "critical"
    [] age # None /\ age > CriticalSeconds -> "critical"
    [] age # None /\ age > WarningSeconds /\ age <= CriticalSeconds -> "warning"
    [] OTHER -> "normal"

-----------------------------------------------------------------------------
(* risk.py: weighted penalties *)

Clamp(v, lo, hi) == IF v < lo THEN lo ELSE IF v > hi THEN hi ELSE v

Severity(contribution) ==
  IF contribution >= 2000 THEN "danger" ELSE "warning"

\* _add_weighted() for a risk of part/whole; without a risk, no penalty.
Weighted(field, part, whole) ==
  LET share == IF whole <= 0 THEN 0 ELSE Clamp(part, 0, whole)
      contribution == (2 * Weights[field] * share + whole) \div (2 * whole)
  IN IF share = 0 THEN << >>
     ELSE <<[field |-> field, reason |-> field \o "_weighted_penalty",
             contribution |-> contribution,
             severity |-> Severity(contribution)]>>

\* _linear_high_risk()
LinearHigh(field, v, warning, critical) ==
  Weighted(field, v - warning, critical - warning)

Pressure(v) ==
  IF v < 990 THEN Weighted("pressure", 990 - v, 20)
             ELSE Weighted("pressure", v - 1030, 20)

Required == {"bme280", "camera", "microphone"}

Unavailable(infra) == {d \in Required : infra.devices[d] = "unavailable"}

FactoryPenalties(f) ==
  LinearHigh("temperature", f.temperature, 32, 38)
    \o LinearHigh("humidity", f.humidity, 70, 85)
    \o Pressure(f.pressure)
    \o Weighted("ai_event_rate", IF f.sound THEN f.ai + 5 ELSE f.ai, 100)

InfraPenalties(i) ==
  IF i = NoInfra THEN << >>
  ELSE LET known == {n \in DOMAIN i.networks : i.networks[n] # "unknown"}
           bad == {n \in known : i.networks[n] # "ok"}
           present == {d \in Required : i.devices[d] # "absent"}
       IN Weighted("node_status", i.nodesTotal - i.nodesReady, i.nodesTotal)
          \o Weighted("pod_health", i.podsTotal - i.podsReady, i.podsTotal)
          \o Weighted("device_availability", Cardinality(Unavailable(i)),
                      Cardinality(present))
          \o (IF i.disks = {} THEN << >>
              ELSE LinearHigh("storage_pressure",
                     CHOOSE d \in i.disks : \A e \in i.disks : e <= d, 75, 90))
          \o Weighted("network_reachability", Cardinality(bad),
                      Cardinality(known))

FreshnessPenalty(age) ==
  IF age = None THEN Weighted("data_freshness", 1, 1)
  ELSE LinearHigh("data_freshness", age, WarningSeconds, CriticalSeconds)

-----------------------------------------------------------------------------
(* risk.py: gates and their caps *)

NoCap == FullScore

CappedGate(raised, name, level, field, cap) ==
  IF raised THEN <<[name |-> name, level |-> level, field |-> field, cap |-> cap]>>
            ELSE << >>

Gate(raised, name, level, field) == CappedGate(raised, name, level, field, NoCap)

FactoryStateGates(f) ==
  Gate(f.temperature >= 38, "temperature_critical", "warning", "temperature")
    \o Gate(f.humidity >= 85, "humidity_critical", "warning", "humidity")
    \o Gate(f.ai >= 95, "ai_score_critical", "danger", "ai_event_rate")
    \o Gate(f.ai < 95 /\ (f.ai >= 80 \/ (f.ai >= 60 /\ f.sound)),
            "ai_score_warning", "warning", "ai_event_rate")

InfraGates(i, f) ==
  IF i = NoInfra THEN << >>
  ELSE CappedGate(i.nodesTotal > 0 /\ i.nodesReady = 0,
                  "nodes_all_not_ready", "danger", "node_status", 0)
       \o Gate(i.nodesReady > 0 /\ i.nodesReady < i.nodesTotal,
               "nodes_partially_not_ready", "warning", "node_status")
       \o Gate(i.podsTotal > 0 /\ i.podsReady = 0,
               "pods_all_unready", "danger", "pod_health")
       \o Gate(i.podsReady > 0 /\ i.podsReady < i.podsTotal,
               "pods_partially_unready", "warning", "pod_health")
       \o Gate(Unavailable(i) # {}, "required_device_unavailable",
               IF "bme280" \in Unavailable(i) /\ f.samples = 0
                 THEN "danger" ELSE "warning",
               "device_availability")

PipelineGates(age) ==
  LET outage == age # None /\ age > OutageSeconds
      status == PipelineStatus(age)
  IN CappedGate(outage, "pipeline_status_outage", "danger", "data_freshness", 0)
     \o Gate(~outage /\ status = "critical",
             "pipeline_status_critical", "danger", "data_freshness")
     \o Gate(~outage /\ status = "warning",
             "pipeline_status_warning", "warning", "data_freshness")

\* A faulty variant of CapOf: a warning hides what a danger would cap.
CapOfWarningFirst(gates) ==
  IF \E g \in gates : g.level = "warning" THEN WarningCap
  ELSE IF \E g \in gates : g.level = "danger" THEN DangerCap ELSE NoCap

\* The cap of the worst level among the gates.
CapOf(gates) ==
  IF \E g \in gates : g.level = "danger" THEN DangerCap
  ELSE IF \E g \in gates : g.level = "warning" THEN WarningCap
  ELSE NoCap

Least(v, w) == IF v <= w THEN v ELSE w

\* _apply_gate_caps(): the explicit caps of the gates and that of their level.
Capped(base, gates) ==
  LET caps == {CapOf(gates)} \cup {g.cap : g \in gates}
  IN Least(base, CHOOSE c \in caps : \A d \in caps : c <= d)

Level(score) ==
  IF score >= SafeMin THEN "safe"
  ELSE IF score >= WarningMin THEN "warning" ELSE "danger"

\* _gate_causes()
GateCauses(gates, base, score) ==
  [k \in DOMAIN gates |->
    [field |-> gates[k].field, reason |-> gates[k].name,
     severity |-> gates[k].level,
     contribution |-> IF base - score > Weights[gates[k].field]
                        THEN base - score ELSE Weights[gates[k].field]]]

SeverityRank == [safe |-> 1, warning |-> 2, danger |-> 3]

\* The stable sort by severity and contribution, the highest first.
Precedes(causes, j, k) ==
  LET a == causes[j]
      b == causes[k]
      ra == SeverityRank[a.severity]
      rb == SeverityRank[b.severity]
  IN \/ ra > rb
     \/ ra = rb /\ a.contribution > b.contribution
     \/ ra = rb /\ a.contribution = b.contribution /\ j < k

MaxCauses == 5

\* contributions[:5], a set of causes with their position.
TopCauses(causes) ==
  LET before(k) == {j \in DOMAIN causes : Precedes(causes, j, k)}
  IN {[cause |-> causes[k], position |-> Cardinality(before(k))] :
        k \in {k \in DOMAIN causes : Cardinality(before(k)) < MaxCauses}}

TotalOf(penalties) ==
  FoldLeft(LAMBDA total, c : total + c.contribution, 0, penalties)

\* calculate()
Risk(factory, infra, age) ==
  LET penalties == FactoryPenalties(factory) \o InfraPenalties(infra)
                     \o FreshnessPenalty(age)
      gates == FactoryStateGates(factory) \o InfraGates(infra, factory)
                 \o PipelineGates(age)
      base == Clamp(FullScore - TotalOf(penalties), 0, FullScore)
      score == Capped(base, ToSet(gates))
  IN [score |-> score, base |-> base, level |-> Level(score),
      gates |-> ToSet(gates),
      causes |-> TopCauses(penalties \o GateCauses(gates, base, score))]
=============================================================================
