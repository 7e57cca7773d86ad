---------------------------- MODULE SnapshotAlerts ----------------------------
(***************************************************************************)
(* From what is measured to the alerts it raises: a message, a refresh or  *)
(* a collector's run makes a snapshot (lambda_function.py of the data      *)
(* processor, fast_handler.py and slow_handler.py), and the dispatcher     *)
(* evaluates it (rules.py).  Three kinds of snapshot are three behaviours  *)
(* of one specification, told apart by `source`.                           *)
(*                                                                         *)
(* `facts` gives each measurement a place on its scale, from good to bad;  *)
(* place 0 is a missing value or a call that failed.                       *)
(***************************************************************************)
EXTENDS AlertRules

CONSTANTS FactoryScales,  \* what a factory state measures
          InfraScales,    \* what an infra state reports
          AgeScale,       \* ages of the last infra state
          FastScales,     \* answers the fast collector gets, per call
          SlowScales,     \* answers the slow collector gets, per call
          MaxMessages     \* bound: messages or runs after the first snapshot

VARIABLES source,    \* the kind of snapshot
          facts,     \* what is measured
          snapshot,  \* the last snapshot in S3
          alerts,    \* what evaluate() returns for it
          messages   \* messages so far

vars == <<source, facts, snapshot, alerts, messages>>

MeasuredScales ==
  [m \in DOMAIN FactoryScales \cup DOMAIN InfraScales \cup DOMAIN AgeScale |->
     CASE m \in DOMAIN FactoryScales -> FactoryScales[m]
       [] m \in DOMAIN InfraScales -> InfraScales[m]
       [] OTHER -> AgeScale[m]]

Scales == [factory_state_snapshot |-> MeasuredScales,
           cloud_infra_fast |-> FastScales, cloud_infra_slow |-> SlowScales]

Sources == DOMAIN Scales
Places(s, m) == 0..Len(Scales[s][m])

\* Every measurement can be good; the applications are in one of four states
\* when the Kubernetes API answers (_argocd_summary()).
ASSUME ScalesAssumption ==
  /\ MaxMessages \in Nat
  /\ \A s \in Sources : \A m \in DOMAIN Scales[s] : Len(Scales[s][m]) \in Nat \ {0}
  /\ DOMAIN SlowScales = {"eks_cluster", "eks_nodegroups", "autoscaling",
                          "kubernetes_api", "storage_freshness"}
  /\ \A k \in 1..Len(SlowScales.kubernetes_api) :
       LET answer == SlowScales.kubernetes_api[k]
       IN Failed(answer) \/ answer.apps \in {"synced", "no_answer", "out_of_sync",
                                             "degraded"}

\* EKS names the status of every node group it describes.
ASSUME NodegroupsAssumption ==
  \A k \in 1..Len(SlowScales.eks_nodegroups) :
    \A g \in Nodegroups(SlowScales.eks_nodegroups[k]) : g.status # ""

Rising(scale) == \A j, k \in DOMAIN scale : j <= k => scale[j] <= scale[k]
Falling(scale) == \A j, k \in DOMAIN scale : j <= k => scale[k] <= scale[j]
FromMiddle(pressure) == IF pressure < 1010 THEN 1010 - pressure ELSE pressure - 1010

\* From good to bad as risk.py sees it: it asks for high values, a pressure far
\* from 1010, few samples or pods; the first place passes no threshold.
ASSUME MeasurementsAssumption ==
  LET F == FactoryScales
      I == InfraScales
  IN /\ DOMAIN F = {"temperature", "humidity", "pressure", "ai", "sound", "samples"}
     /\ DOMAIN I = {"node1", "node2", "running", "bme280", "camera", "disk", "network"}
     /\ DOMAIN AgeScale = {"age"}
     /\ F.temperature \in Seq(Int) /\ Rising(F.temperature) /\ F.temperature[1] <= 32
     /\ F.humidity \in Seq(Int) /\ Rising(F.humidity) /\ F.humidity[1] <= 70
     /\ F.ai \in Seq(Int) /\ Rising(F.ai) /\ F.ai[1] <= 0
     /\ F.pressure \in Seq(Nat) /\ F.pressure[1] \in 990..1030
     /\ Rising([k \in DOMAIN F.pressure |-> FromMiddle(F.pressure[k])])
     /\ F.samples \in Seq(Nat) /\ Falling(F.samples) /\ F.sound = <<FALSE, TRUE>>
     /\ I.node1 = <<TRUE, FALSE>> /\ I.node2 = <<TRUE, FALSE>>
     /\ I.running \in Seq(Nat) /\ Falling(I.running) /\ I.running[1] >= 2
     /\ \A d \in {"bme280", "camera"} : I[d] = <<"available", "unavailable">>
     /\ I.disk \in Seq(Nat) /\ Rising(I.disk) /\ I.disk[1] <= 75
     /\ I.network = <<"ok", "bad">>
     /\ AgeScale.age \in Seq(Nat) /\ Rising(AgeScale.age)

-----------------------------------------------------------------------------
\* What was measured; `missing` stands for place 0.
Read(f, s, m, missing) == IF f[m] = 0 THEN missing ELSE Scales[s][m][f[m]]

FactoryReading(f, m, missing) == Read(f, "factory_state_snapshot", m, missing)

FactoryPayload(f) ==
  [temperature |-> FactoryReading(f, "temperature", None),
   humidity |-> FactoryReading(f, "humidity", None),
   pressure |-> FactoryReading(f, "pressure", None),
   ai |-> FactoryReading(f, "ai", None),
   sound |-> FactoryReading(f, "sound", FALSE),
   samples |-> FactoryReading(f, "samples", None)]

\* Two nodes, of which the second reports neither disk nor network; a
\* microphone that is never listed.
InfraPayload(f) ==
  [nodes |-> [n \in {"node1", "node2"} |->
                [ready |-> FactoryReading(f, n, FALSE),
                 disk |-> IF n = "node1" THEN FactoryReading(f, "disk", None) ELSE None,
                 network |-> IF n = "node1" THEN FactoryReading(f, "network", "unknown")
                                            ELSE "unknown"]],
   pods |-> [total |-> 2, running |-> FactoryReading(f, "running", 0)],
   devices |-> [d \in Required |->
                  IF d = "microphone" THEN "absent" ELSE FactoryReading(f, d, "absent")]]

\* The factory's snapshot: no age means that no infra state ever arrived.
FactorySnapshot(f) ==
  LET age == FactoryReading(f, "age", None)
      infra == IF age = None THEN NoInfra ELSE NormalizeInfraState(InfraPayload(f))
  IN [risk |-> Risk(NormalizeFactoryState(FactoryPayload(f)), infra, age),
      pipeline |-> PipelineStatus(age)]

CloudAnswers(f, s) == [m \in DOMAIN Scales[s] |-> Read(f, s, m, [failed |-> "error"])]

Snapshot(f, s) ==
  CASE s = "factory_state_snapshot" -> FactorySnapshot(f)
    [] s = "cloud_infra_fast" -> CollectFast(CloudAnswers(f, s))
    [] s = "cloud_infra_slow" -> CollectSlow(CloudAnswers(f, s))

\* evaluate()
Evaluate(s, snap) ==
  CASE s = "factory_state_snapshot" -> FactoryAlerts(snap.risk, snap.pipeline)
    [] s = "cloud_infra_fast" -> FastAlerts(snap)
    [] s = "cloud_infra_slow" -> SlowAlerts(snap)

-----------------------------------------------------------------------------
\* All good, all bad, or a factory that never sent an infra state.
FirstFacts(s) ==
  LET names == DOMAIN Scales[s]
  IN {[m \in names |-> 1], [m \in names |-> Len(Scales[s][m])]}
     \cup {[m \in names |-> IF m = "age" THEN 0 ELSE 1]}

Init ==
  /\ source \in Sources
  /\ facts \in FirstFacts(source)
  /\ snapshot = Snapshot(facts, source)
  /\ alerts = Evaluate(source, snapshot)
  /\ messages = 0

\* The snapshot of the new facts is written and evaluated.
Write(f) ==
  /\ messages < MaxMessages
  /\ messages' = messages + 1
  /\ facts' = f
  /\ snapshot' = Snapshot(f, source)
  /\ alerts' = Evaluate(source, snapshot')
  /\ UNCHANGED source

\* A factory state that differs from the last one in one measurement.
FactoryState ==
  /\ source = "factory_state_snapshot"
  /\ \E m \in DOMAIN FactoryScales : \E p \in Places(source, m) \ {facts[m]} :
       Write([facts EXCEPT ![m] = p])

\* An infra state, which may itself be late.
InfraState ==
  /\ source = "factory_state_snapshot"
  /\ \E m \in DOMAIN InfraScales : \E p \in Places(source, m) \ {facts[m]} :
       \E a \in {1, IF facts.age = 0 THEN 1 ELSE facts.age} :
         Write([facts EXCEPT ![m] = p, !.age = a])

\* The refresh of every minute: time has passed since the last infra state.
Refresh ==
  /\ source = "factory_state_snapshot"
  /\ \E a \in Places(source, "age") :
       /\ facts.age > 0 /\ a > facts.age
       /\ Write([facts EXCEPT !.age = a])

\* A run of a collector, one of whose calls answers differently.
Collect ==
  /\ source \in {"cloud_infra_fast", "cloud_infra_slow"}
  /\ \E m \in DOMAIN Scales[source] : \E p \in Places(source, m) \ {facts[m]} :
       Write([facts EXCEPT ![m] = p])

Next == FactoryState \/ InfraState \/ Refresh \/ Collect

Spec == Init /\ [][Next]_vars

-----------------------------------------------------------------------------
Factory == source = "factory_state_snapshot"
Fast == source = "cloud_infra_fast"
Slow == source = "cloud_infra_slow"

Danger == {a \in alerts : a.severity = "danger"}

\* Every measurement that is there stays or becomes worse.
Worse ==
  \A m \in DOMAIN facts : facts'[m] >= facts[m] /\ (facts[m] = 0 => facts'[m] = 0)

\* A state that is worse in one respect and better in none never scores
\* higher: the penalties, gates and caps of calculate() do not work against
\* each other.
WorseNeverScoresHigher ==
  [][Factory /\ Worse => snapshot'.risk.score <= snapshot.risk.score]_vars

\* The level of the capped score is the worst of the level of the penalties
\* and of the levels of the gates, although the caps are numbers next to the
\* thresholds of the levels (_apply_gate_caps(), _level()).
LevelIsWorstOfGates ==
  Factory =>
    LET levels == {Level(snapshot.risk.base)} \cup {g.level : g \in snapshot.risk.gates}
    IN /\ snapshot.risk.level \in levels
       /\ \A l \in levels : SeverityRank[l] <= SeverityRank[snapshot.risk.level]

\* A danger is never silent: the level raises an alert of that severity, and
\* so does every danger gate under a name of its own, although only five
\* causes are kept (calculate(), _factory_alerts()).
DangerIsAlerted ==
  Factory =>
    /\ snapshot.risk.level = "danger" => Danger # {}
    /\ \A g \in {g \in snapshot.risk.gates : g.level = "danger"} :
         \E a \in Danger :
           \/ a.reason = g.field
           \/ g.field = "data_freshness" /\ a.reason = "pipeline_status"

\* When the pipeline is all that is wrong, its alert is the only one: the
\* score that the late data lowers raises none of its own.
LatenessAlertedOnce ==
  Factory /\ (\A m \in DOMAIN facts \ {"age"} : facts[m] = 1) =>
    alerts = PipelineAlerts(snapshot.pipeline)

\* No section that alerts are about is abnormal in silence: what the rules
\* suppress as unknown is explained by a collector's error.
AbnormalIsAlerted ==
  /\ Fast /\ (\E s \in FastSections : snapshot[s].status # "normal") => alerts # {}
  /\ Slow /\ (snapshot.status # "normal" \/ snapshot.storage # "normal") => alerts # {}

\* A critical section raises a danger, and that without waiting for a second
\* observation, whichever specific or generic reason speaks for it.
CriticalIsImmediate ==
  (\/ Fast /\ \E s \in FastSections : snapshot[s].status = "critical"
   \/ Slow /\ snapshot.status = "critical")
  => \E a \in Danger : a.observations = 1

=============================================================================
