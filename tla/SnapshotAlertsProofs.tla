------------------------- MODULE SnapshotAlertsProofs -------------------------
(***************************************************************************)
(* Proofs about the alerts of a snapshot, for every scale of answers and   *)
(* any number of messages and runs.  The invariant says that what is       *)
(* stored and raised is computed from the facts; the rest is about the     *)
(* rules themselves.                                                       *)
(***************************************************************************)
EXTENDS SnapshotAlerts, TLAPS, FiniteSetTheorems, SequenceTheorems, WellFoundedInduction

Produced ==
  /\ source \in Sources
  /\ DOMAIN facts = DOMAIN Scales[source]
  /\ \A m \in DOMAIN facts : facts[m] \in Places(source, m)
  /\ snapshot = Snapshot(facts, source)
  /\ alerts = Evaluate(source, snapshot)

\* The three kinds of snapshot.
LEMMA SourceNames ==
  Sources = {"factory_state_snapshot", "cloud_infra_fast", "cloud_infra_slow"}
BY DEF Sources, Scales

\* Init computes them from the facts.
LEMMA FirstProduced == ASSUME Init PROVE Produced
<1>1. source \in Sources
  BY DEF Init
<1>2. PICK f \in FirstFacts(source) : facts = f
  BY DEF Init
<1>3. DOMAIN facts = DOMAIN Scales[source]
  BY <1>2 DEF FirstFacts
<1>4. \A m \in DOMAIN Scales[source] :
        Len(Scales[source][m]) \in Nat /\ Len(Scales[source][m]) >= 1
  BY <1>1, ScalesAssumption
<1>5. \A m \in DOMAIN Scales[source] :
        facts[m] \in {0, 1, Len(Scales[source][m])}
  BY <1>2 DEF FirstFacts
<1>6. \A m \in DOMAIN facts : facts[m] \in Places(source, m)
  BY <1>3, <1>4, <1>5 DEF Places
<1> QED BY <1>1, <1>3, <1>6 DEF Init, Produced

\* A snapshot of facts that differ in the places of some measurements.
LEMMA WriteProduces ==
  ASSUME Produced, NEW f, Write(f), DOMAIN f = DOMAIN facts,
         \A m \in DOMAIN facts : f[m] = facts[m] \/ f[m] \in Places(source, m)
  PROVE  Produced'
BY DEF Produced, Write, Places

\* Every message, refresh and run does, too.
LEMMA StepProduces == ASSUME Produced, [Next]_vars PROVE Produced'
<1>1. CASE UNCHANGED vars
  BY <1>1 DEF Produced, vars, Places
<1>2. ASSUME NEW m, NEW p \in Places(source, m), Write([facts EXCEPT ![m] = p])
      PROVE  Produced'
  BY <1>2, WriteProduces
<1>3. CASE FactoryState
  BY <1>2, <1>3 DEF FactoryState
<1>4. CASE Collect
  BY <1>2, <1>4 DEF Collect
<1>5. CASE Refresh
  BY <1>2, <1>5 DEF Refresh
<1>6. CASE InfraState
  <2>0. PICK m \in DOMAIN InfraScales : \E p \in Places(source, m) :
          \E a \in {1, IF facts.age = 0 THEN 1 ELSE facts.age} :
            Write([facts EXCEPT ![m] = p, !.age = a])
    BY <1>6 DEF InfraState
  <2>1. PICK p \in Places(source, m),
             a \in {1, IF facts.age = 0 THEN 1 ELSE facts.age} :
          Write([facts EXCEPT ![m] = p, !.age = a])
    BY <2>0
  <2> DEFINE f == [facts EXCEPT ![m] = p, !.age = a]
  <2>2. DOMAIN f = DOMAIN facts
    OBVIOUS
  <2>3. "age" \in DOMAIN facts => 1 \in Places(source, "age")
    BY ScalesAssumption DEF Produced, Places
  <2>4. a = 1 \/ a = facts["age"]
    BY <2>1
  <2>5. \A n \in DOMAIN facts : f[n] = facts[n] \/ f[n] \in Places(source, n)
    BY <2>3, <2>4
  <2> HIDE DEF f
  <2> QED BY <2>1, <2>2, <2>5, WriteProduces DEF f
<1> QED BY <1>1, <1>3, <1>4, <1>5, <1>6 DEF Next

\* The snapshot and the alerts are always those of the facts.
LEMMA AlwaysProduced == Spec => []Produced
BY FirstProduced, StepProduces, PTL DEF Spec

-----------------------------------------------------------------------------
\* An abnormal section of a fast snapshot has a specific reason, a generic one
\* or an error that suppresses it, and each of them is an alert.
LEMMA FastSpeaks ==
  ASSUME NEW fast, NEW s \in FastSections, fast[s].status # "normal"
  PROVE  FastAlerts(fast) # {}
<1> DEFINE specific ==
             UNION {{CloudAlert("cloud_infra_fast",
                                SpecificSeverity(fast[r].status), q, "fast") :
                       q \in SpecificReasons(fast)[r]} : r \in FastSections}
           failed == {CloudAlert("cloud_infra_fast", "warning", ErrorReason(e),
                                 "fast") : e \in fast.errors}
           generic == {CloudAlert("cloud_infra_fast", fast[r].status,
                                  r \o "_" \o fast[r].status, "fast") :
                         r \in Generic(fast)}
<1>0. FastAlerts(fast) = specific \cup failed \cup generic
  BY DEF FastAlerts
<1>1. CASE SpecificReasons(fast)[s] # {}
  <2>1. PICK r \in SpecificReasons(fast)[s] : TRUE
    BY <1>1
  <2> DEFINE own == {CloudAlert("cloud_infra_fast",
                                SpecificSeverity(fast[s].status), q, "fast") :
                       q \in SpecificReasons(fast)[s]}
  <2>2. own \subseteq specific
    OBVIOUS
  <2>3. own # {}
    BY <2>1
  <2> HIDE DEF own, specific, failed, generic
  <2> QED BY <1>0, <2>2, <2>3
<1>2. CASE s \in Generic(fast)
  <2>1. generic # {}
    BY <1>2
  <2> HIDE DEF specific, failed, generic
  <2> QED BY <1>0, <2>1
<1>3. CASE fast.errors # {}
  <2>1. failed # {}
    BY <1>3
  <2> HIDE DEF specific, failed, generic
  <2> QED BY <1>0, <2>1
<1> QED BY <1>1, <1>2, <1>3 DEF Generic, Suppressed

\* The same of a slow snapshot's status and of its storage.
LEMMA SlowSpeaks ==
  ASSUME NEW slow, slow.status # "normal" \/ slow.storage # "normal"
  PROVE  SlowAlerts(slow) # {}
<1>1. CASE slow.errors # {}
  <2>1. PICK e \in slow.errors : TRUE
    BY <1>1
  <2>2. CloudAlert("cloud_infra_slow", "warning", ErrorReason(e), "slow")
          \in SlowAlerts(slow)
    BY <2>1 DEF SlowAlerts
  <2> QED BY <2>2
<1>2. CASE slow.errors = {}
  BY <1>2 DEF SlowAlerts, Suppressed
<1> QED BY <1>1, <1>2

\* What the rules pass over is always explained by another alert: no section
\* is abnormal in silence.
THEOREM NothingAbnormalInSilence == Spec => []AbnormalIsAlerted
<1>1. Produced => AbnormalIsAlerted
  <2> SUFFICES ASSUME Produced PROVE AbnormalIsAlerted
    OBVIOUS
  <2>1. Fast => alerts = FastAlerts(snapshot)
    BY DEF Produced, Evaluate, Fast
  <2>2. Slow => alerts = SlowAlerts(snapshot)
    BY DEF Produced, Evaluate, Slow
  <2> QED BY <2>1, <2>2, FastSpeaks, SlowSpeaks DEF AbnormalIsAlerted
<1> QED BY <1>1, AlwaysProduced, PTL

-----------------------------------------------------------------------------
Statuses == {"normal", "unknown", "warning", "critical"}

\* worst_status() is one of the statuses.
LEMMA WorstIsOneOf ==
  ASSUME NEW S, S \subseteq Statuses, S # {}
  PROVE  WorstStatus(S) \in S
<1>1. \E s \in S : \A r \in S : StatusRank[r] <= StatusRank[s]
  <2>1. CASE "critical" \in S
    BY <2>1 DEF Statuses, StatusRank
  <2>2. CASE "critical" \notin S /\ "warning" \in S
    BY <2>2 DEF Statuses, StatusRank
  <2>3. CASE "critical" \notin S /\ "warning" \notin S /\ "unknown" \in S
    BY <2>3 DEF Statuses, StatusRank
  <2>4. CASE S = {"normal"}
    BY <2>4 DEF StatusRank
  <2> QED BY <2>1, <2>2, <2>3, <2>4 DEF Statuses
<1> QED BY <1>1 DEF WorstStatus

\* A danger is an alert that asks for no confirmation.
Immediate(a) == a.severity = "danger" /\ a.observations = 1

\* _cloud_confirmation_policy() asks only warnings to be seen twice.
LEMMA DangerIsImmediate ==
  \A s, reason, status :
    /\ Immediate(CloudAlert(s, "danger", reason, status))
    /\ Immediate(CloudAlert(s, "critical", reason, status))
BY DEF Immediate, CloudAlert

\* A critical section of a fast snapshot, by its specific or generic reason.
LEMMA FastCritical ==
  ASSUME NEW fast, NEW s \in FastSections, fast[s].status = "critical"
  PROVE  \E a \in FastAlerts(fast) : Immediate(a)
<1>1. CASE SpecificReasons(fast)[s] # {}
  <2>1. PICK r \in SpecificReasons(fast)[s] : TRUE
    BY <1>1
  <2> DEFINE own == {CloudAlert("cloud_infra_fast",
                                SpecificSeverity(fast[s].status), q, "fast") :
                       q \in SpecificReasons(fast)[s]}
  <2>2. CloudAlert("cloud_infra_fast", SpecificSeverity(fast[s].status), r, "fast")
          \in FastAlerts(fast)
    <3>1. own \subseteq FastAlerts(fast)
      BY DEF FastAlerts
    <3> QED BY <2>1, <3>1
  <2>3. SpecificSeverity(fast[s].status) = "danger"
    BY DEF SpecificSeverity
  <2> QED BY <2>2, <2>3, DangerIsImmediate
<1>2. CASE SpecificReasons(fast)[s] = {}
  <2>1. s \in Generic(fast)
    BY <1>2 DEF Generic, Suppressed
  <2>2. CloudAlert("cloud_infra_fast", fast[s].status,
                   s \o "_" \o fast[s].status, "fast") \in FastAlerts(fast)
    BY <2>1 DEF FastAlerts
  <2> QED BY <2>2, DangerIsImmediate
<1> QED BY <1>1, <1>2

\* One critical node group makes the groups critical.
LEMMA NodegroupsAre ==
  ASSUME NEW groups
  PROVE  /\ NodegroupsStatus(groups) \in Statuses
         /\ NodegroupsStatus(groups) = "critical" => \E g \in groups : g.status # "ACTIVE"
<1> DEFINE parts == {NodegroupStatus(g) : g \in groups}
<1>1. parts \subseteq Statuses
  BY DEF NodegroupStatus, Statuses
<1>2. NodegroupsStatus(groups) = WorstStatus(parts)
  BY DEF NodegroupsStatus
<1>3. CASE parts = {}
  <2> HIDE DEF parts
  <2> QED BY <1>2, <1>3 DEF WorstStatus, Statuses
<1>4. CASE parts # {}
  <2>1. NodegroupsStatus(groups) \in parts
    <3> HIDE DEF parts
    <3> QED BY <1>1, <1>2, <1>4, WorstIsOneOf
  <2>2. ASSUME NodegroupsStatus(groups) = "critical"
        PROVE  \E g \in groups : g.status # "ACTIVE"
    <3>1. PICK g \in groups : NodegroupStatus(g) = "critical"
      BY <2>1, <2>2
    <3> QED BY <3>1 DEF NodegroupStatus
  <2> QED BY <1>1, <2>1, <2>2
<1> QED BY <1>3, <1>4

\* Nodes, pods and applications have a status each.
LEMMA KubernetesAre ==
  ASSUME NEW answer,
         Failed(answer) \/
           answer.apps \in {"synced", "no_answer", "out_of_sync", "degraded"}
  PROVE  \A s \in DOMAIN Kubernetes(answer) : Kubernetes(answer)[s] \in Statuses
BY DEF Kubernetes, NodesStatus, PodsStatus, ArgocdStatus, Statuses

\* Whichever part of the slow snapshot is critical, a rule of its own finds it.
LEMMA SlowCritical ==
  ASSUME NEW answers,
         Failed(answers.kubernetes_api) \/
           answers.kubernetes_api.apps
             \in {"synced", "no_answer", "out_of_sync", "degraded"},
         \A g \in Nodegroups(answers.eks_nodegroups) : g.status # "",
         CollectSlow(answers).status = "critical"
  PROVE  \E a \in SlowAlerts(CollectSlow(answers)) : Immediate(a)
<1> DEFINE slow == CollectSlow(answers)
           kubernetes == Kubernetes(KubernetesAnswer(answers))
           groups == Nodegroups(answers.eks_nodegroups)
           parts == {ClusterStatus(answers.eks_cluster),
                     NodegroupsStatus(groups),
                     AsgStatus(Autoscaling(answers))}
                      \cup {kubernetes[s] : s \in DOMAIN kubernetes}
           A(severity, reason) ==
             CloudAlert("cloud_infra_slow", severity, reason, "slow")
<1>1. /\ slow.cluster = ClusterState(answers.eks_cluster)
      /\ slow.nodegroups = groups
      /\ slow.autoscaling = Autoscaling(answers)
      /\ slow.sections = kubernetes
      /\ slow.status = WorstStatus(parts)
  BY DEF CollectSlow
<1>2. \A s \in DOMAIN kubernetes : kubernetes[s] \in Statuses
  <2>1. KubernetesAnswer(answers) = answers.kubernetes_api
          \/ Failed(KubernetesAnswer(answers))
    BY DEF KubernetesAnswer, Failed
  <2>2. Failed(KubernetesAnswer(answers)) \/
          KubernetesAnswer(answers).apps
            \in {"synced", "no_answer", "out_of_sync", "degraded"}
    BY <2>1
  <2> QED BY <2>2, KubernetesAre
<1>3. parts \subseteq Statuses
  <2>1. ClusterStatus(answers.eks_cluster) \in Statuses
    BY DEF ClusterStatus, Statuses
  <2>2. NodegroupsStatus(groups) \in Statuses
    BY NodegroupsAre
  <2>3. AsgStatus(Autoscaling(answers)) \in Statuses
    BY DEF AsgStatus, Statuses
  <2> HIDE DEF kubernetes
  <2> QED BY <1>2, <2>1, <2>2, <2>3
<1>4. "critical" \in parts
  <2> HIDE DEF kubernetes
  <2>1. parts # {}
    OBVIOUS
  <2> HIDE DEF parts
  <2> QED BY <1>1, <1>3, <2>1, WorstIsOneOf
<1>5. CASE ClusterStatus(answers.eks_cluster) = "critical"
  <2>1. slow.cluster \notin {"", "ACTIVE"}
    BY <1>1, <1>5 DEF ClusterStatus
  <2>2. A("danger", "eks_cluster_not_active") \in SlowAlerts(slow)
    <3> HIDE DEF slow
    <3> QED BY <2>1 DEF SlowAlerts
  <2> QED BY <2>2, DangerIsImmediate
<1>6. CASE NodegroupsStatus(groups) = "critical"
  <2>1. \E g \in slow.nodegroups : g.status \notin {"", "ACTIVE"}
    BY <1>1, <1>6, NodegroupsAre
  <2>2. A("danger", "eks_nodegroup_not_active") \in SlowAlerts(slow)
    <3> HIDE DEF slow
    <3> QED BY <2>1 DEF SlowAlerts
  <2> QED BY <2>2, DangerIsImmediate
<1>7. CASE AsgStatus(Autoscaling(answers)) = "critical"
  <2>1. slow.autoscaling.healthy < slow.autoscaling.desired
    BY <1>1, <1>7 DEF AsgStatus
  <2>2. A("danger", "autoscaling_unhealthy_instances") \in SlowAlerts(slow)
    <3> HIDE DEF slow
    <3> QED BY <2>1 DEF SlowAlerts
  <2> QED BY <2>2, DangerIsImmediate
<1>8. ASSUME NEW s \in DOMAIN kubernetes, kubernetes[s] = "critical"
      PROVE  \E a \in SlowAlerts(slow) : Immediate(a)
  <2>1. s \in DOMAIN slow.sections /\ slow.sections[s] = "critical"
    BY <1>1, <1>8
  <2>2. A(CloudSeverity(slow.sections[s]), s \o "_" \o slow.sections[s])
          \in SlowAlerts(slow)
    <3> HIDE DEF slow
    <3> QED BY <2>1 DEF SlowAlerts, Suppressed
  <2>3. CloudSeverity(slow.sections[s]) = "danger"
    BY <2>1 DEF CloudSeverity
  <2> QED BY <2>2, <2>3, DangerIsImmediate
<1> HIDE DEF kubernetes
<1> QED BY <1>4, <1>5, <1>6, <1>7, <1>8

\* A critical section is a danger at once: neither the confirmation policy nor
\* the suppression of unknown sections nor the choice between specific and
\* generic reasons delays it, for any answers of the APIs.
THEOREM CriticalAtOnce == Spec => []CriticalIsImmediate
<1>1. Produced => CriticalIsImmediate
  <2> SUFFICES ASSUME Produced PROVE CriticalIsImmediate
    OBVIOUS
  <2>1. ASSUME Fast, NEW s \in FastSections, snapshot[s].status = "critical"
        PROVE  \E a \in Danger : a.observations = 1
    <3>1. alerts = FastAlerts(snapshot)
      BY <2>1 DEF Produced, Evaluate, Fast
    <3> QED BY <2>1, <3>1, FastCritical DEF Danger, Immediate
  <2>2. ASSUME Slow, snapshot.status = "critical"
        PROVE  \E a \in Danger : a.observations = 1
    <3> DEFINE answers == CloudAnswers(facts, source)
               k == facts["kubernetes_api"]
    <3>1. /\ alerts = SlowAlerts(snapshot)
          /\ snapshot = CollectSlow(answers)
          /\ Scales[source] = SlowScales
      BY <2>2 DEF Produced, Evaluate, Slow, Snapshot, Scales
    <3>2. /\ "kubernetes_api" \in DOMAIN facts
          /\ k \in 0..Len(SlowScales.kubernetes_api)
          /\ Len(SlowScales.kubernetes_api) \in Nat
      BY <2>2, <3>1, ScalesAssumption, SourceNames
         DEF Produced, Places, Slow
    <3>3. answers.kubernetes_api =
            IF k = 0 THEN [failed |-> "error"] ELSE SlowScales.kubernetes_api[k]
      BY <3>1, <3>2 DEF CloudAnswers, Read, Produced
    <3>4. Failed(answers.kubernetes_api) \/
            answers.kubernetes_api.apps
              \in {"synced", "no_answer", "out_of_sync", "degraded"}
      <4>1. CASE k = 0
        BY <3>3, <4>1 DEF Failed
      <4>2. CASE k # 0
        <5>1. k \in 1..Len(SlowScales.kubernetes_api)
          BY <3>2, <4>2
        <5> QED BY <3>3, <4>2, <5>1, ScalesAssumption
      <4> QED BY <4>1, <4>2
    <3>5. \A g \in Nodegroups(answers.eks_nodegroups) : g.status # ""
      <4> DEFINE j == facts["eks_nodegroups"]
      <4>1. /\ "eks_nodegroups" \in DOMAIN facts
            /\ j \in 0..Len(SlowScales.eks_nodegroups)
            /\ Len(SlowScales.eks_nodegroups) \in Nat
        BY <2>2, <3>1, ScalesAssumption, SourceNames
           DEF Produced, Places, Slow
      <4>2. answers.eks_nodegroups =
              IF j = 0 THEN [failed |-> "error"] ELSE SlowScales.eks_nodegroups[j]
        BY <3>1, <4>1 DEF CloudAnswers, Read, Produced
      <4>3. CASE j = 0
        BY <4>2, <4>3 DEF Nodegroups, Failed
      <4>4. CASE j # 0
        <5>1. j \in 1..Len(SlowScales.eks_nodegroups)
          BY <4>1, <4>4
        <5> QED BY <4>2, <4>4, <5>1, NodegroupsAssumption
      <4> QED BY <4>3, <4>4
    <3> HIDE DEF answers
    <3> QED BY <2>2, <3>1, <3>4, <3>5, SlowCritical DEF Danger, Immediate
  <2> QED BY <2>1, <2>2 DEF CriticalIsImmediate
<1> QED BY <1>1, AlwaysProduced, PTL

-----------------------------------------------------------------------------
\* What every gate of calculate() is like: only a danger has a cap of its own.
GateLike(g) ==
  \/ g.level = "danger" /\ g.cap \in {0, NoCap}
  \/ g.level = "warning" /\ g.cap = NoCap

GateNames ==
  {"temperature_critical", "humidity_critical", "ai_score_critical",
   "ai_score_warning", "nodes_all_not_ready", "nodes_partially_not_ready",
   "pods_all_unready", "pods_partially_unready", "required_device_unavailable",
   "pipeline_status_outage", "pipeline_status_critical",
   "pipeline_status_warning"}

GateFields == {"temperature", "humidity", "ai_event_rate", "node_status",
               "pod_health", "device_availability", "data_freshness"}

Gates == {g \in [name : GateNames, level : {"danger", "warning"},
                 field : GateFields, cap : {0, NoCap}] : GateLike(g)}

\* Lists of one kind, one after the other.
LEMMA Concatenated ==
  ASSUME NEW S, NEW s \in Seq(S), NEW t \in Seq(S)
  PROVE  s \o t \in Seq(S)
OBVIOUS

\* _apply_gate_caps() and _level(): for any score of the penalties and any
\* gates, the level of the capped score is the worst of the level of the
\* penalties and those of the gates, and no lower.
THEOREM CapsMeanLevels ==
  ASSUME NEW base \in 0..FullScore, NEW gates, \A g \in gates : GateLike(g)
  PROVE  LET levels == {Level(base)} \cup {g.level : g \in gates}
             level == Level(Capped(base, gates))
         IN /\ level \in levels
            /\ \A l \in levels : SeverityRank[l] <= SeverityRank[level]
<1> DEFINE caps == {CapOf(gates)} \cup {g.cap : g \in gates}
           cap == CHOOSE c \in caps : \A d \in caps : c <= d
<1> USE DEF FullScore, NoCap, DangerCap, WarningCap, SafeMin, WarningMin
<1>1. Capped(base, gates) = Least(base, cap)
  BY DEF Capped
<1>2. CASE \E g \in gates : g.level = "danger"
  <2>1. PICK g \in gates : g.level = "danger"
    BY <1>2
  <2>2. CapOf(gates) = 4900
    BY <1>2 DEF CapOf
  <2>3. caps \subseteq {0, 4900, 10000} /\ 4900 \in caps
    BY <2>2 DEF GateLike
  <2>4. \E c \in caps : \A d \in caps : c <= d
    <3>1. CASE 0 \in caps
      BY <2>3, <3>1
    <3>2. CASE 0 \notin caps
      BY <2>3, <3>2
    <3> QED BY <3>1, <3>2
  <2>5. cap \in {0, 4900}
    <3>1. cap \in caps /\ \A d \in caps : cap <= d
      BY <2>4
    <3> HIDE DEF cap, caps
    <3> QED BY <2>3, <3>1
  <2>6. Level(Capped(base, gates)) = "danger"
    <3> HIDE DEF cap
    <3> QED BY <1>1, <2>5 DEF Least, Level
  <2>7. \A l \in {Level(base)} \cup {h.level : h \in gates} :
          SeverityRank[l] <= SeverityRank["danger"]
    BY DEF SeverityRank, Level, GateLike
  <2> QED BY <2>1, <2>6, <2>7
<1>3. CASE ~\E g \in gates : g.level = "danger"
  <2>1. \A g \in gates : g.level = "warning" /\ g.cap = 10000
    BY <1>3 DEF GateLike
  <2>2. CASE gates = {}
    <3>1. caps = {10000}
      BY <2>2 DEF CapOf
    <3>2. cap = 10000
      BY <3>1
    <3>3. Capped(base, gates) = base
      <4> HIDE DEF cap
      <4> QED BY <1>1, <3>2 DEF Least
    <3>4. {Level(base)} \cup {g.level : g \in gates} = {Level(base)}
      BY <2>2
    <3>5. SeverityRank[Level(base)] <= SeverityRank[Level(base)]
      BY DEF SeverityRank, Level
    <3> QED BY <3>3, <3>4, <3>5
  <2>3. CASE gates # {}
    <3>1. PICK g \in gates : g.level = "warning"
      BY <2>1, <2>3
    <3>2. CapOf(gates) = 8400
      BY <1>3, <3>1 DEF CapOf
    <3>3. caps = {8400, 10000}
      BY <2>1, <3>1, <3>2
    <3>4. cap = 8400
      <4>1. \E c \in caps : \A d \in caps : c <= d
        BY <3>3
      <4>2. cap \in caps /\ \A d \in caps : cap <= d
        BY <4>1
      <4> HIDE DEF cap, caps
      <4> QED BY <3>3, <4>2
    <3>5. Capped(base, gates) = IF base <= 8400 THEN base ELSE 8400
      <4> HIDE DEF cap
      <4> QED BY <1>1, <3>4 DEF Least
    <3>6. {Level(base)} \cup {h.level : h \in gates} = {Level(base), "warning"}
      BY <2>1, <3>1
    <3>7. /\ Level(Capped(base, gates)) \in {Level(base), "warning"}
          /\ \A l \in {Level(base), "warning"} :
               SeverityRank[l] <= SeverityRank[Level(Capped(base, gates))]
      BY <3>5 DEF Level, SeverityRank
    <3> QED BY <3>6, <3>7
  <2> QED BY <2>2, <2>3
<1> QED BY <1>2, <1>3

-----------------------------------------------------------------------------
\* Induction over a set of numbers.
LEMMA Induction ==
  ASSUME NEW S, 0 \in S, \A n \in Nat : n \in S => n + 1 \in S
  PROVE  Nat \subseteq S
<1> DEFINE R == OpToRel(<, Nat)
           T == Nat \ S
<1> SUFFICES ASSUME T # {} PROVE FALSE  OBVIOUS
<1>1. PICK n \in T : \A m \in T : ~ (<<m, n>> \in R)
  <2>1. IsWellFoundedOn(R, Nat)  BY NatLessThanWellFounded
  <2>2. T \subseteq Nat /\ T # {}  OBVIOUS
  <2> HIDE DEF R, T
  <2> QED BY <2>1, <2>2, WFMin
<1>2. \A m \in T : ~ (m < n)  BY <1>1 DEF OpToRel
<1>3. n # 0 /\ n - 1 \in Nat  OBVIOUS
<1>4. n - 1 \in S  BY <1>2, <1>3
<1> QED BY <1>3, <1>4

\* Induction over the subsets of a finite set.
LEMMA FiniteInduction ==
  ASSUME NEW S, IsFiniteSet(S), NEW P, {} \in P,
         \A T \in SUBSET S : T # {} /\ (\A x \in T : T \ {x} \in P) => T \in P
  PROVE  \A T \in SUBSET S : T \in P
<1> DEFINE R == StrictSubsetOrdering(S)
           F == FiniteSubsetsOf(S)
           D == (SUBSET S) \ P
<1> SUFFICES ASSUME D # {} PROVE FALSE  OBVIOUS
<1>1. IsWellFoundedOn(R, F)  BY FS_StrictSubsetOrderingWellFounded
<1>2. D \subseteq F  BY FS_Subset DEF FiniteSubsetsOf
<1>3. PICK B \in D : \A C \in D : ~ (<<C, B>> \in R)
  <2> HIDE DEF R, F, D
  <2> QED BY <1>1, <1>2, WFMin
<1>4. \A x \in B : ~ (B \ {x} \in D)
  <2> SUFFICES ASSUME NEW x \in B, B \ {x} \in D PROVE FALSE  OBVIOUS
  <2>1. <<B \ {x}, B>> \in StrictSubsetOrdering(S)  BY DEF StrictSubsetOrdering
  <2> QED BY <1>3, <2>1
<1> QED BY <1>4

\* A finite set of numbers has a least and a greatest one.
LEMMA LeastAndGreatest ==
  ASSUME NEW S, IsFiniteSet(S), S \subseteq Int, S # {}
  PROVE  /\ Min(S) \in S /\ \A y \in S : Min(S) <= y
         /\ Max(S) \in S /\ \A y \in S : y <= Max(S)
<1> DEFINE Bounded(T) == /\ \E x \in T : \A y \in T : x <= y
                         /\ \E x \in T : \A y \in T : y <= x
           P == {T \in SUBSET S : T = {} \/ Bounded(T)}
<1>1. {} \in P  OBVIOUS
<1>2. \A T \in SUBSET S : T # {} /\ (\A x \in T : T \ {x} \in P) => T \in P
  <2> SUFFICES ASSUME NEW T \in SUBSET S, T # {}, \A x \in T : T \ {x} \in P
               PROVE  Bounded(T)
    OBVIOUS
  <2>1. PICK x \in T : TRUE  OBVIOUS
  <2>2. CASE T \ {x} = {}
    <3>1. \A y \in T : y = x  BY <2>2
    <3>2. x \in Int  OBVIOUS
    <3> QED BY <2>1, <3>1, <3>2
  <2>3. CASE T \ {x} # {}
    <3>1. Bounded(T \ {x})  BY <2>1, <2>3
    <3>2. PICK a \in T \ {x} : \A y \in T \ {x} : a <= y  BY <3>1
    <3>3. PICK b \in T \ {x} : \A y \in T \ {x} : y <= b  BY <3>1
    <3>4. x \in Int /\ a \in Int /\ b \in Int /\ T \subseteq Int  OBVIOUS
    <3>5. \E c \in T : \A y \in T : c <= y
      <4>1. CASE a <= x  BY <4>1, <3>2
      <4>2. CASE x <= a  BY <4>2, <3>2, <3>4
      <4> QED BY <3>4, <4>1, <4>2
    <3>6. \E c \in T : \A y \in T : y <= c
      <4>1. CASE x <= b  BY <4>1, <3>3
      <4>2. CASE b <= x  BY <4>2, <3>3, <3>4
      <4> QED BY <3>4, <4>1, <4>2
    <3> QED BY <3>5, <3>6
  <2> QED BY <2>2, <2>3
<1>3. S \in P
  <2> HIDE DEF P
  <2> QED BY <1>1, <1>2, FiniteInduction
<1> QED BY <1>3 DEF Min, Max

-----------------------------------------------------------------------------
(***************************************************************************)
(* Folds.  A fold takes one element after the other from a finite set; its *)
(* equation has a solution, which the definition of the fold chooses.      *)
(***************************************************************************)
Pick(s) == CHOOSE x \in s : TRUE

Removes(rest, S) == \A s \in SUBSET S : s # {} => \E x \in s : rest[s] = s \ {x}

Folds(f, S, V, base, rest, step) ==
  /\ f \in [SUBSET S -> V]
  /\ \A s \in SUBSET S : f[s] = IF s = {} THEN base ELSE step[<<s, f[rest[s]]>>]

\* A step that is total on the subsets has a fold: by induction over their size.
LEMMA FoldExists ==
  ASSUME NEW S, IsFiniteSet(S), NEW V, NEW base, base \in V, NEW rest, Removes(rest, S),
         NEW step, step \in [(SUBSET S) \X V -> V]
  PROVE  \E f : Folds(f, S, V, base, rest, step)
<1> DEFINE Small(n) == {s \in SUBSET S : Cardinality(s) <= n}
           Eq(f, s) == f[s] = IF s = {} THEN base ELSE step[<<s, f[rest[s]]>>]
           P == {n \in Nat : \E f \in [Small(n) -> V] : \A s \in Small(n) : Eq(f, s)}
<1>0. \A s \in SUBSET S : IsFiniteSet(s) /\ Cardinality(s) \in Nat
  BY FS_Subset, FS_CardinalityType
<1>1. 0 \in P
  <2>1. Small(0) = {{}}
    BY <1>0, FS_EmptySet
  <2>2. \A s \in Small(0) : Eq([s1 \in Small(0) |-> base], s)
    BY <2>1
  <2> QED BY <2>2
<1>2. \A n \in Nat : n \in P => n + 1 \in P
  <2> SUFFICES ASSUME NEW n \in Nat, n \in P PROVE n + 1 \in P  OBVIOUS
  <2>1. PICK f \in [Small(n) -> V] : \A s \in Small(n) : Eq(f, s)  OBVIOUS
  <2> DEFINE g == [s \in Small(n + 1) |-> IF s = {} THEN base ELSE step[<<s, f[rest[s]]>>]]
  <2>2. \A s \in Small(n + 1) : s # {} => rest[s] \in Small(n)
    <3> SUFFICES ASSUME NEW s \in Small(n + 1), s # {} PROVE rest[s] \in Small(n)  OBVIOUS
    <3>1. PICK x \in s : rest[s] = s \ {x}  BY DEF Removes
    <3>2. Cardinality(rest[s]) = Cardinality(s) - 1  BY <1>0, <3>1, FS_RemoveElement
    <3> QED BY <1>0, <3>1, <3>2
  <2>3. g \in [Small(n + 1) -> V]
    BY <2>2
  <2>4. \A s \in Small(n) : s \in Small(n + 1)
    BY <1>0
  <2>5. \A s \in Small(n) : g[s] = f[s]
    BY <2>1, <2>4
  <2>6. \A s \in Small(n + 1) : Eq(g, s)
    <3> SUFFICES ASSUME NEW s \in Small(n + 1) PROVE Eq(g, s)  OBVIOUS
    <3>1. g[s] = IF s = {} THEN base ELSE step[<<s, f[rest[s]]>>]  OBVIOUS
    <3>2. s # {} => g[rest[s]] = f[rest[s]]  BY <2>2, <2>5
    <3> HIDE DEF g
    <3> QED BY <3>1, <3>2
  <2>7. \E h \in [Small(n + 1) -> V] : \A s \in Small(n + 1) : Eq(h, s)
    <3> HIDE DEF g, Eq, Small
    <3> QED BY <2>3, <2>6
  <2> HIDE DEF Eq, Small
  <2> QED BY <2>7
<1>3. Cardinality(S) \in P
  <2> HIDE DEF P
  <2> QED BY <1>0, <1>1, <1>2, Induction
<1>4. Small(Cardinality(S)) = SUBSET S
  BY <1>0, FS_Subset
<1> QED BY <1>3, <1>4 DEF Folds

-----------------------------------------------------------------------------
(***************************************************************************)
(* The sum of the penalties is what adding them one by one makes it.       *)
(***************************************************************************)
Sums(t, p) ==
  /\ t \in [0..Len(p) -> Int]
  /\ t[0] = 0
  /\ \A k \in 1..Len(p) : t[k] = t[k - 1] + p[k].contribution
  /\ TotalOf(p) = t[Len(p)]

\* TotalOf() adds one penalty after the other.
LEMMA TotalUnfolds ==
  ASSUME NEW S, NEW p \in Seq(S), \A k \in 1..Len(p) : p[k].contribution \in Int
  PROVE  \E t : Sums(t, p)
<1> DEFINE n == Len(p)
           D == 1..n
           rest == [s \in SUBSET D |-> s \ {Max(s)}]
           step == [q \in (SUBSET D) \X Int |->
                      IF q[1] = {} THEN 0 ELSE q[2] + p[Max(q[1])].contribution]
           Body(i) == [s \in SUBSET D |->
                         IF s = {} THEN 0 ELSE i[s \ {Max(s)}] + p[Max(s)].contribution]
           iter == CHOOSE i : i = Body(i)
<1>1. n \in Nat /\ DOMAIN p = D
  BY LenProperties
<1>2. IsFiniteSet(D)
  BY <1>1, FS_Interval
<1> HIDE DEF n
<1>3. \A s \in SUBSET D : s # {} => Max(s) \in s /\ \A y \in s : y <= Max(s)
  <2> SUFFICES ASSUME NEW s \in SUBSET D, s # {}
               PROVE  Max(s) \in s /\ \A y \in s : y <= Max(s)
    OBVIOUS
  <2>1. s \subseteq Int  BY <1>1
  <2> HIDE DEF D
  <2>2. IsFiniteSet(s)  BY <1>2, FS_Subset
  <2> QED BY <2>1, <2>2, LeastAndGreatest
<1>4. \A k \in D : p[k].contribution \in Int
  BY DEF n
<1>5. step \in [(SUBSET D) \X Int -> Int]
  BY <1>3, <1>4
<1>6. Removes(rest, D)
  BY <1>3 DEF Removes
<1>7. PICK f : Folds(f, D, Int, 0, rest, step)
  <2>1. 0 \in Int  OBVIOUS
  <2> HIDE DEF step, rest, D
  <2> QED BY <1>2, <1>5, <1>6, <2>1, FoldExists
<1>8. \A s \in SUBSET D : f[s] = IF s = {} THEN 0 ELSE f[s \ {Max(s)}] + p[Max(s)].contribution
  <2> SUFFICES ASSUME NEW s \in SUBSET D, s # {}
               PROVE  f[s] = f[s \ {Max(s)}] + p[Max(s)].contribution
    BY <1>7 DEF Folds
  <2>1. rest[s] = s \ {Max(s)} /\ rest[s] \in SUBSET D  OBVIOUS
  <2>2. <<s, f[rest[s]]>> \in (SUBSET D) \X Int  BY <1>7, <2>1 DEF Folds
  <2>3. f[s] = step[<<s, f[rest[s]]>>]  BY <1>7 DEF Folds
  <2>4. step[<<s, f[rest[s]]>>] = f[rest[s]] + p[Max(s)].contribution  BY <2>2
  <2> QED BY <2>1, <2>3, <2>4
<1>9. f = Body(f)
  BY <1>7, <1>8 DEF Folds
<1>10. iter = Body(iter)
  BY <1>9
<1>11. TotalOf(p) = iter[D]
  BY <1>1 DEF TotalOf, FoldLeft, MapThenFoldSet
<1>12. \A s \in SUBSET D : iter[s] = IF s = {} THEN 0 ELSE iter[s \ {Max(s)}] + p[Max(s)].contribution
  <2> HIDE DEF iter
  <2> QED BY <1>10
<1> HIDE DEF iter
<1> DEFINE t == [k \in 0..n |-> iter[1..k]]
<1>13. t[0] = 0
  <2>1. 1..0 = {} /\ 0 \in 0..n  BY <1>1
  <2>2. iter[{}] = 0  BY <1>12
  <2> QED BY <2>1, <2>2
<1>14. ASSUME NEW k \in 1..n PROVE t[k] = t[k - 1] + p[k].contribution
  <2>1. 1..k \in SUBSET D /\ k \in 1..k /\ \A y \in 1..k : y <= k  BY <1>1
  <2>2. Max(1..k) = k
    <3> DEFINE s == 1..k
    <3>1. Max(s) \in s /\ k <= Max(s)  BY <1>3, <2>1
    <3> QED BY <2>1, <3>1
  <2>3. (1..k) \ {k} = 1..(k - 1)  BY <1>1
  <2>4. iter[1..k] = iter[(1..k) \ {Max(1..k)}] + p[Max(1..k)].contribution  BY <1>12, <2>1
  <2>5. k - 1 \in 0..n /\ k \in 0..n  BY <1>1
  <2> QED BY <2>2, <2>3, <2>4, <2>5
<1>15. \A k \in Nat : k \in 0..n => t[k] \in Int
  <2> DEFINE I == {k \in Nat : k \in 0..n => t[k] \in Int}
  <2>1. 0 \in I  BY <1>13
  <2>2. \A k \in Nat : k \in I => k + 1 \in I
    <3> SUFFICES ASSUME NEW k \in Nat, k \in I, k + 1 \in 0..n PROVE t[k + 1] \in Int  OBVIOUS
    <3>1. k \in 0..n /\ k + 1 \in 1..n /\ (k + 1) - 1 = k  BY <1>1
    <3>2. t[k] \in Int  BY <3>1
    <3>3. t[k + 1] = t[k] + p[k + 1].contribution  BY <1>14, <3>1
    <3> QED BY <1>4, <3>1, <3>2, <3>3
  <2> HIDE DEF I
  <2>3. Nat \subseteq I  BY <2>1, <2>2, Induction
  <2> QED BY <2>3 DEF I
<1>16. t \in [0..n -> Int] /\ TotalOf(p) = t[n]
  BY <1>1, <1>11, <1>15
<1> HIDE DEF t
<1>17. Sums(t, p)  BY <1>13, <1>14, <1>16 DEF Sums, n
<1> QED BY <1>17

\* Only one thing can be the sum.
LEMMA TotalOfSum ==
  ASSUME NEW S, NEW p \in Seq(S), \A k \in 1..Len(p) : p[k].contribution \in Int,
         NEW u, u \in [0..Len(p) -> Int], u[0] = 0,
         \A k \in 1..Len(p) : u[k] = u[k - 1] + p[k].contribution
  PROVE  TotalOf(p) = u[Len(p)]
<1> DEFINE n == Len(p)
<1>1. PICK t : Sums(t, p)  BY TotalUnfolds
<1>2. n \in Nat  BY LenProperties
<1>3. /\ t[0] = 0 /\ TotalOf(p) = t[n]
      /\ \A k \in 1..n : t[k] = t[k - 1] + p[k].contribution
      /\ \A k \in 1..n : u[k] = u[k - 1] + p[k].contribution
  BY <1>1 DEF Sums
<1> HIDE DEF n
<1> DEFINE I == {k \in Nat : k \in 0..n => t[k] = u[k]}
<1>4. 0 \in I  BY <1>3
<1>5. \A k \in Nat : k \in I => k + 1 \in I
  <2> SUFFICES ASSUME NEW k \in Nat, k \in I, k + 1 \in 0..n PROVE t[k + 1] = u[k + 1]  OBVIOUS
  <2>1. k \in 0..n /\ k + 1 \in 1..n /\ (k + 1) - 1 = k  BY <1>2
  <2>2. t[k] = u[k]  BY <2>1
  <2> QED BY <1>3, <2>1, <2>2
<1>6. n \in I
  <2> HIDE DEF I
  <2> QED BY <1>2, <1>4, <1>5, Induction
<1> QED BY <1>2, <1>3, <1>6 DEF n

\* Nothing adds up to nothing.
LEMMA TotalOfNone == TotalOf(<< >>) = 0
<1> DEFINE u == [k \in 0..0 |-> 0]
<1>1. << >> \in Seq(Int) /\ Len(<< >>) = 0  OBVIOUS
<1>2. u[0] = 0 /\ u \in [0..Len(<< >>) -> Int]  BY <1>1
<1>3. \A k \in 1..Len(<< >>) : FALSE  BY <1>1
<1> HIDE DEF u
<1>4. TotalOf(<< >>) = u[Len(<< >>)]  BY <1>1, <1>2, <1>3, TotalOfSum
<1> QED BY <1>1, <1>2, <1>4

\* One penalty adds up to its contribution.
LEMMA TotalOfOne ==
  ASSUME NEW c, c.contribution \in Int
  PROVE  TotalOf(<<c>>) = c.contribution
<1> DEFINE p == <<c>>
           u == [k \in 0..1 |-> IF k = 0 THEN 0 ELSE c.contribution]
<1>1. p \in Seq({c}) /\ Len(p) = 1 /\ p[1] = c  OBVIOUS
<1>2. u \in [0..1 -> Int] /\ u[0] = 0 /\ u[1] = c.contribution  OBVIOUS
<1> HIDE DEF p, u
<1>3. \A k \in 1..Len(p) : k = 1 /\ p[k].contribution \in Int /\ u[k] = u[k - 1] + p[k].contribution
  BY <1>1, <1>2
<1>4. TotalOf(p) = u[Len(p)]  BY <1>1, <1>2, <1>3, TotalOfSum
<1> QED BY <1>1, <1>2, <1>4 DEF p

\* Two lists of penalties add up to the sum of their totals.
LEMMA TotalOfBoth ==
  ASSUME NEW S, NEW p \in Seq(S), NEW q \in Seq(S), \A c \in S : c.contribution \in Int
  PROVE  /\ TotalOf(p \o q) = TotalOf(p) + TotalOf(q)
         /\ TotalOf(p) \in Int /\ TotalOf(q) \in Int
<1> DEFINE n == Len(p)
           m == Len(q)
           r == p \o q
<1>1. /\ n \in Nat /\ m \in Nat /\ r \in Seq(S) /\ Len(r) = n + m
      /\ \A k \in 1..(n + m) : r[k] = IF k <= n THEN p[k] ELSE q[k - n]
  BY LenProperties, ConcatProperties
<1>2. /\ \A k \in 1..n : p[k].contribution \in Int
      /\ \A k \in 1..m : q[k].contribution \in Int
      /\ \A k \in 1..(n + m) : r[k].contribution \in Int
  <2>1. /\ \A k \in 1..n : p[k] \in S
        /\ \A k \in 1..m : q[k] \in S
    BY ElementOfSeq
  <2>2. \A k \in 1..Len(r) : r[k] \in S
    <3> HIDE DEF r
    <3> QED BY <1>1, ElementOfSeq
  <2> HIDE DEF r
  <2> QED BY <1>1, <2>1, <2>2
<1>3. PICK t : Sums(t, p)  BY <1>2, TotalUnfolds
<1>4. PICK v : Sums(v, q)  BY <1>2, TotalUnfolds
<1>5. /\ t \in [0..n -> Int] /\ t[0] = 0 /\ TotalOf(p) = t[n]
      /\ \A k \in 1..n : t[k] = t[k - 1] + p[k].contribution
      /\ v \in [0..m -> Int] /\ v[0] = 0 /\ TotalOf(q) = v[m]
      /\ \A k \in 1..m : v[k] = v[k - 1] + q[k].contribution
  BY <1>3, <1>4 DEF Sums
<1> HIDE DEF n, m, r
<1> DEFINE u == [k \in 0..(n + m) |-> IF k <= n THEN t[k] ELSE t[n] + v[k - n]]
<1>6. \A k \in 0..(n + m) : u[k] = IF k <= n THEN t[k] ELSE t[n] + v[k - n]
  OBVIOUS
<1>7. u \in [0..(n + m) -> Int]
  <2>1. \A k \in 0..(n + m) : k <= n => t[k] \in Int  BY <1>1, <1>5
  <2>2. \A k \in 0..(n + m) : ~ (k <= n) => t[n] + v[k - n] \in Int  BY <1>1, <1>5
  <2> QED BY <2>1, <2>2
<1> HIDE DEF u
<1>8. ASSUME NEW k \in 1..(n + m) PROVE u[k] = u[k - 1] + r[k].contribution
  <2>0. k \in 0..(n + m) /\ k - 1 \in 0..(n + m) /\ k \in Int  BY <1>1
  <2>1. CASE k <= n
    <3>1. k \in 1..n /\ k - 1 <= n  BY <1>1, <2>1
    <3>2. u[k] = t[k] /\ u[k - 1] = t[k - 1] /\ r[k] = p[k]  BY <1>1, <1>6, <2>0, <2>1, <3>1
    <3>3. t[k] = t[k - 1] + p[k].contribution  BY <1>5, <3>1
    <3> QED BY <3>2, <3>3
  <2>2. CASE k = n + 1
    <3>1. k - n = 1 /\ k - 1 = n /\ 1 \in 1..m /\ ~ (k <= n) /\ 1 - 1 = 0  BY <1>1, <2>0, <2>2
    <3>2. u[k] = t[n] + v[1] /\ r[k] = q[1] /\ u[k - 1] = t[n]
      BY <1>1, <1>6, <2>0, <3>1
    <3>3. v[1] = v[0] + q[1].contribution  BY <1>5, <3>1
    <3>4. q[1].contribution \in Int  BY <1>2, <3>1
    <3>5. v[0] = 0 /\ u[k] = t[n] + (0 + q[1].contribution)  BY <1>5, <3>2, <3>3
    <3>6. 0 + q[1].contribution = q[1].contribution  BY <3>4
    <3> QED BY <3>2, <3>5, <3>6
  <2>3. CASE k > n + 1
    <3> DEFINE j == k - n
    <3>1. j \in 1..m /\ j - 1 \in 0..m /\ j \in 0..m /\ ~ (k <= n) /\ ~ (k - 1 <= n) /\ (k - 1) - n = j - 1
      BY <1>1, <2>0, <2>3
    <3>2. u[k] = t[n] + v[j] /\ r[k] = q[j]  BY <1>1, <1>6, <2>0, <3>1
    <3>3. u[k - 1] = t[n] + v[j - 1]  BY <1>6, <2>0, <3>1
    <3> HIDE DEF j
    <3>4. v[j] = v[j - 1] + q[j].contribution  BY <1>5, <3>1
    <3>5. v[j] \in Int /\ v[j - 1] \in Int
      BY <1>5, <3>1
    <3>6. q[j].contribution \in Int
      BY <1>2, <3>1
    <3>7. t[n] \in Int
      <4>1. n \in 0..n  BY <1>1
      <4> QED BY <1>5, <4>1
    <3> QED BY <3>2, <3>3, <3>4, <3>5, <3>6, <3>7
  <2> QED BY <1>1, <2>0, <2>1, <2>2, <2>3
<1>9. u[0] = 0 /\ u[n + m] = t[n] + v[m]
  <2>1. u[0] = 0  BY <1>1, <1>5, <1>6
  <2>2. CASE m = 0
    <3>1. u[n] = t[n] /\ n + m = n  BY <1>1, <1>6, <2>2
    <3> QED BY <1>1, <1>5, <2>1, <2>2, <3>1
  <2>3. CASE m # 0
    <3>1. ~ (n + m <= n) /\ (n + m) - n = m /\ n + m \in 0..(n + m)  BY <1>1, <2>3
    <3> QED BY <1>6, <2>1, <3>1
  <2> QED BY <2>2, <2>3
<1>10. TotalOf(r) = u[n + m]
  <2>1. /\ u \in [0..Len(r) -> Int]
        /\ \A k \in 1..Len(r) :
             r[k].contribution \in Int /\ u[k] = u[k - 1] + r[k].contribution
    BY <1>1, <1>2, <1>7, <1>8
  <2> QED BY <1>1, <1>9, <2>1, TotalOfSum
<1>11. t[n] \in Int /\ v[m] \in Int  BY <1>1, <1>5
<1> QED BY <1>5, <1>9, <1>10, <1>11 DEF r

-----------------------------------------------------------------------------
(***************************************************************************)
(* What a penalty takes off, in hundredths: _add_weighted() rounds the     *)
(* share of the weight.                                                    *)
(***************************************************************************)
Fields == DOMAIN Weights

Amount(field, part, whole) ==
  IF whole <= 0 THEN 0
  ELSE (2 * Weights[field] * Clamp(part, 0, whole) + whole) \div (2 * whole)

\* What \div rounds down.
LEMMA Division ==
  ASSUME NEW a \in Int, NEW d \in Nat \ {0}
  PROVE  /\ a \div d \in Int
         /\ d * (a \div d) <= a /\ a < d * (a \div d) + d
OBVIOUS

\* The quotient is the one number that the remainder leaves room for.
LEMMA Quotient ==
  ASSUME NEW a \in Int, NEW d \in Nat \ {0}, NEW q \in Int
  PROVE  /\ a < d * (q + 1) => a \div d <= q
         /\ d * q <= a => q <= a \div d
<1> DEFINE r == a \div d
<1>1. r \in Int /\ d * r <= a /\ a < d * r + d  BY Division
<1> HIDE DEF r
<1>2. ASSUME a < d * (q + 1), q < r PROVE FALSE
  <2>1. q + 1 <= r  BY <1>1, <1>2
  <2>2. d * (q + 1) <= d * r  BY <1>1, <2>1
  <2> QED BY <1>1, <1>2, <2>2
<1>3. ASSUME d * q <= a, r < q PROVE FALSE
  <2>1. r + 1 <= q  BY <1>1, <1>3
  <2>2. d * (r + 1) <= d * q  BY <1>1, <2>1
  <2>3. d * (r + 1) = d * r + d  BY <1>1
  <2> QED BY <1>1, <1>3, <2>2, <2>3
<1>4. q \in Int /\ r \in Int  BY <1>1
<1> QED BY <1>2, <1>3, <1>4 DEF r

\* The weights and their fields.
LEMMA WeightTypes ==
  /\ \A f \in Fields : Weights[f] \in Nat
  /\ Fields = {"temperature", "humidity", "pressure", "ai_event_rate", "node_status",
               "pod_health", "device_availability", "data_freshness",
               "storage_pressure", "network_reachability"}
BY DEF Fields, Weights

\* _clamp() stays within its bounds.
LEMMA ClampTypes ==
  ASSUME NEW v \in Int, NEW hi \in Nat
  PROVE  Clamp(v, 0, hi) \in Nat /\ Clamp(v, 0, hi) <= hi
BY DEF Clamp

\* A penalty takes no more than the weight of its field.
LEMMA AmountRange ==
  ASSUME NEW field \in Fields, NEW part \in Int, NEW whole \in Int
  PROVE  Amount(field, part, whole) \in Nat /\ Amount(field, part, whole) <= Weights[field]
<1> DEFINE w == Weights[field]
           c == Clamp(part, 0, whole)
           d == 2 * whole
           a == 2 * w * c + whole
<1>1. CASE whole <= 0
  BY <1>1, WeightTypes DEF Amount
<1>2. CASE whole > 0
  <2>0. whole \in Nat  BY <1>2
  <2>1. w \in Nat /\ c \in Nat /\ c <= whole
    <3>1. w \in Nat  BY WeightTypes
    <3>2. c \in Nat /\ c <= whole  BY <2>0, ClampTypes
    <3> QED BY <3>1, <3>2
  <2>2. Amount(field, part, whole) = a \div d  BY <1>2 DEF Amount
  <2> HIDE DEF w, c
  <2>3. w * c \in Nat /\ w * c <= w * whole  BY <1>2, <2>1
  <2>4. a = 2 * (w * c) + whole  BY <2>1, <1>2
  <2>5. d * (w + 1) = 2 * (w * whole) + 2 * whole  BY <2>1
  <2>6. d \in Nat \ {0} /\ a \in Int /\ d * 0 = 0  BY <1>2, <2>3, <2>4
  <2>7. w * whole \in Int  BY <2>1
  <2> HIDE DEF a, d
  <2>8. a < d * (w + 1)  BY <1>2, <2>3, <2>4, <2>5, <2>7
  <2>9. d * 0 <= a  BY <1>2, <2>3, <2>4, <2>6
  <2>10. a \div d <= w /\ 0 <= a \div d /\ a \div d \in Int
    BY <2>1, <2>6, <2>8, <2>9, Quotient, Division
  <2> QED BY <2>2, <2>10 DEF w
<1> QED BY <1>1, <1>2

\* More of the same whole never takes off less.
LEMMA AmountRises ==
  ASSUME NEW field \in Fields, NEW part \in Int, NEW more \in Int, part <= more,
         NEW whole \in Int
  PROVE  Amount(field, part, whole) <= Amount(field, more, whole)
<1> DEFINE w == Weights[field]
           c == Clamp(part, 0, whole)
           e == Clamp(more, 0, whole)
           d == 2 * whole
           a == 2 * w * c + whole
           b == 2 * w * e + whole
<1>1. CASE whole <= 0
  BY <1>1, WeightTypes DEF Amount
<1>2. CASE whole > 0
  <2>0. whole \in Nat  BY <1>2
  <2>1. w \in Nat /\ c \in Nat /\ e \in Nat
    <3>1. w \in Nat  BY WeightTypes
    <3>2. c \in Nat /\ e \in Nat  BY <2>0, ClampTypes
    <3> QED BY <3>1, <3>2
  <2>2. c <= e  BY <1>2 DEF Clamp
  <2>3. Amount(field, part, whole) = a \div d /\ Amount(field, more, whole) = b \div d
    BY <1>2 DEF Amount
  <2> HIDE DEF w, c, e
  <2>4. w * c \in Nat /\ w * e \in Nat /\ w * c <= w * e  BY <2>1, <2>2
  <2>5. a = 2 * (w * c) + whole /\ b = 2 * (w * e) + whole  BY <2>1, <1>2
  <2>6. d \in Nat \ {0} /\ a \in Int /\ b \in Int /\ a <= b  BY <1>2, <2>4, <2>5
  <2> HIDE DEF a, b, d
  <2>7. a \div d \in Int /\ d * (a \div d) <= a  BY <2>6, Division
  <2>8. d * (a \div d) <= b
    <3> DEFINE r == d * (a \div d)
    <3>1. r \in Int /\ r <= a  BY <2>6, <2>7
    <3> HIDE DEF r
    <3>2. r <= b  BY <2>6, <3>1
    <3> QED BY <3>2 DEF r
  <2>9. a \div d <= b \div d  BY <2>6, <2>7, <2>8, Quotient
  <2> QED BY <2>3, <2>9
<1> QED BY <1>1, <1>2

-----------------------------------------------------------------------------
\* The penalties about some of the fields.
Reasons == {f \o "_weighted_penalty" : f \in Fields}

Severities == {"warning", "danger"}

Penalties(F) == [field : F, reason : Reasons, contribution : Nat, severity : Severities]

Late == {"data_freshness"}
Own == Fields \ Late

\* Penalties of some fields are penalties of more fields.
LEMMA MorePenalties ==
  ASSUME NEW F, NEW G, F \subseteq G
  PROVE  Seq(Penalties(F)) \subseteq Seq(Penalties(G))
<1>1. Penalties(F) \subseteq Penalties(G)  BY DEF Penalties
<1> HIDE DEF Penalties
<1> QED BY <1>1

\* Two lists of penalties of some fields.
LEMMA PenaltiesAdd ==
  ASSUME NEW F, NEW s \in Seq(Penalties(F)), NEW t \in Seq(Penalties(F))
  PROVE  /\ s \o t \in Seq(Penalties(F))
         /\ TotalOf(s \o t) = TotalOf(s) + TotalOf(t)
         /\ TotalOf(s) \in Int /\ TotalOf(t) \in Int
<1>1. \A c \in Penalties(F) : c.contribution \in Int  BY DEF Penalties
<1> HIDE DEF Penalties
<1> QED BY <1>1, TotalOfBoth, Concatenated

\* A penalty or none, and what it takes off.
LEMMA WeightedIs ==
  ASSUME NEW field \in Fields, NEW part \in Int, NEW whole \in Int
  PROVE  LET s == Weighted(field, part, whole)
         IN /\ s \in Seq(Penalties({field})) /\ Len(s) <= 1
            /\ TotalOf(s) = Amount(field, part, whole)
            /\ part <= 0 => s = << >>
<1> DEFINE s == Weighted(field, part, whole)
           share == IF whole <= 0 THEN 0 ELSE Clamp(part, 0, whole)
           contribution == (2 * Weights[field] * share + whole) \div (2 * whole)
           c == [field |-> field, reason |-> field \o "_weighted_penalty",
                 contribution |-> contribution, severity |-> Severity(contribution)]
<1>1. s = IF share = 0 THEN << >> ELSE <<c>>
  BY DEF Weighted
<1>2. part <= 0 => share = 0
  BY DEF Clamp
<1>3. CASE share = 0
  <2>1. s = << >>  BY <1>1, <1>3
  <2>2. Amount(field, part, whole) = 0
    <3>1. CASE whole <= 0  BY <3>1 DEF Amount
    <3>2. CASE whole > 0
      <4>1. Clamp(part, 0, whole) = 0  BY <1>3, <3>2
      <4>2. Amount(field, part, whole) = (2 * Weights[field] * 0 + whole) \div (2 * whole)
        BY <3>2, <4>1 DEF Amount
      <4>3. 2 * Weights[field] * 0 + whole = whole  BY WeightTypes
      <4>4. whole \div (2 * whole) = 0
        <5>1. 2 * whole \in Nat \ {0} /\ 0 \in Int /\ whole < 2 * whole * (0 + 1)
              /\ 2 * whole * 0 <= whole
          BY <3>2
        <5>2. whole \div (2 * whole) <= 0 /\ 0 <= whole \div (2 * whole)
              /\ whole \div (2 * whole) \in Int
          <6> DEFINE d == 2 * whole
          <6>1. d \in Nat \ {0} /\ whole < d * (0 + 1) /\ d * 0 <= whole  BY <5>1
          <6> HIDE DEF d
          <6>2. whole \div d <= 0 /\ 0 <= whole \div d /\ whole \div d \in Int
            BY <5>1, <6>1, Quotient, Division
          <6> QED BY <6>2 DEF d
        <5> QED BY <5>2
      <4> QED BY <4>2, <4>3, <4>4
    <3> QED BY <3>1, <3>2
  <2>3. << >> \in Seq(Penalties({field})) /\ Len(<< >>) = 0  OBVIOUS
  <2> HIDE DEF s
  <2> QED BY <2>1, <2>2, <2>3, TotalOfNone DEF s
<1>4. CASE share # 0
  <2>1. whole > 0 /\ share = Clamp(part, 0, whole)  BY <1>4
  <2>2. contribution = Amount(field, part, whole)  BY <2>1 DEF Amount
  <2>3. contribution \in Nat  BY <2>2, AmountRange
  <2>4. Severity(contribution) \in Severities  BY DEF Severity, Severities
  <2>5. field \o "_weighted_penalty" \in Reasons  BY DEF Reasons
  <2>6. s = <<c>>  BY <1>1, <1>4
  <2> HIDE DEF contribution, share, s
  <2>7. c \in Penalties({field}) /\ c.contribution = contribution
    BY <2>3, <2>4, <2>5 DEF Penalties
  <2> HIDE DEF c
  <2>8. <<c>> \in Seq(Penalties({field})) /\ Len(<<c>>) = 1  BY <2>7
  <2>9. TotalOf(<<c>>) = contribution  BY <2>3, <2>7, TotalOfOne
  <2> QED BY <1>2, <1>4, <2>2, <2>6, <2>8, <2>9 DEF s
<1> QED BY <1>3, <1>4

\* The same of the penalties of some fields.
LEMMA Weighs ==
  ASSUME NEW F, NEW field \in F, F \subseteq Fields, NEW part \in Int, NEW whole \in Int
  PROVE  LET s == Weighted(field, part, whole)
         IN /\ s \in Seq(Penalties(F))
            /\ TotalOf(s) = Amount(field, part, whole)
            /\ part <= 0 => s = << >>
<1>1. {field} \subseteq F  OBVIOUS
<1> QED BY <1>1, WeightedIs, MorePenalties

PressureAmount(v) ==
  IF v < 990 THEN Amount("pressure", 990 - v, 20) ELSE Amount("pressure", v - 1030, 20)

Noise(f) == IF f.sound THEN f.ai + 5 ELSE f.ai

FactoryAmount(f) ==
  Amount("temperature", f.temperature - 32, 6) + Amount("humidity", f.humidity - 70, 15)
    + PressureAmount(f.pressure) + Amount("ai_event_rate", Noise(f), 100)

\* The numbers of a normalized factory state.
FactoryNumbers(f) == f.temperature \in Int /\ f.humidity \in Int /\ f.pressure \in Int
                       /\ f.ai \in Int /\ f.samples \in Int

\* The penalties of a factory state add up to its amounts.
LEMMA FactoryPenaltiesAdd ==
  ASSUME NEW f, FactoryNumbers(f)
  PROVE  FactoryPenalties(f) \in Seq(Penalties(Own)) /\ TotalOf(FactoryPenalties(f)) = FactoryAmount(f)
<1> DEFINE t == LinearHigh("temperature", f.temperature, 32, 38)
           h == LinearHigh("humidity", f.humidity, 70, 85)
           p == Pressure(f.pressure)
           a == Weighted("ai_event_rate", Noise(f), 100)
<1>0. FactoryPenalties(f) = t \o h \o p \o a
  BY DEF FactoryPenalties, Noise
<1>1. /\ "temperature" \in Own /\ "humidity" \in Own /\ "pressure" \in Own
      /\ "ai_event_rate" \in Own /\ Own \subseteq Fields
  BY WeightTypes DEF Own, Late
<1>2. t \in Seq(Penalties(Own)) /\ TotalOf(t) = Amount("temperature", f.temperature - 32, 6)
  <2>1. f.temperature - 32 \in Int /\ 6 \in Int  BY DEF FactoryNumbers
  <2>2. t = Weighted("temperature", f.temperature - 32, 6)  BY DEF LinearHigh
  <2> QED BY <1>1, <2>1, <2>2, Weighs
<1>3. h \in Seq(Penalties(Own)) /\ TotalOf(h) = Amount("humidity", f.humidity - 70, 15)
  <2>1. f.humidity - 70 \in Int /\ 15 \in Int  BY DEF FactoryNumbers
  <2>2. h = Weighted("humidity", f.humidity - 70, 15)  BY DEF LinearHigh
  <2> QED BY <1>1, <2>1, <2>2, Weighs
<1>4. p \in Seq(Penalties(Own)) /\ TotalOf(p) = PressureAmount(f.pressure)
  <2>1. 990 - f.pressure \in Int /\ f.pressure - 1030 \in Int /\ 20 \in Int  BY DEF FactoryNumbers
  <2> QED BY <1>1, <2>1, Weighs DEF Pressure, PressureAmount
<1>5. a \in Seq(Penalties(Own)) /\ TotalOf(a) = Amount("ai_event_rate", Noise(f), 100)
  <2>1. Noise(f) \in Int /\ 100 \in Int  BY DEF FactoryNumbers, Noise
  <2> QED BY <1>1, <2>1, Weighs
<1> HIDE DEF t, h, p, a
<1>6. t \o h \in Seq(Penalties(Own)) /\ TotalOf(t \o h) = TotalOf(t) + TotalOf(h)
  BY <1>2, <1>3, PenaltiesAdd
<1>7. t \o h \o p \in Seq(Penalties(Own)) /\ TotalOf(t \o h \o p) = TotalOf(t \o h) + TotalOf(p)
  BY <1>4, <1>6, PenaltiesAdd
<1>8. /\ t \o h \o p \o a \in Seq(Penalties(Own))
      /\ TotalOf(t \o h \o p \o a) = TotalOf(t \o h \o p) + TotalOf(a)
  BY <1>5, <1>7, PenaltiesAdd
<1> QED BY <1>0, <1>2, <1>3, <1>4, <1>5, <1>6, <1>7, <1>8 DEF FactoryAmount

-----------------------------------------------------------------------------
KnownNetworks(i) == {n \in DOMAIN i.networks : i.networks[n] # "unknown"}
BadNetworks(i) == {n \in KnownNetworks(i) : i.networks[n] # "ok"}
Present(i) == {d \in Required : i.devices[d] # "absent"}

\* A normalized infra state of two nodes, of which at most one has a disk.
InfraNumbers(i) ==
  /\ i.nodesTotal = 2 /\ i.nodesReady \in 0..2
  /\ i.podsTotal = 2 /\ i.podsReady \in Nat
  /\ i.disks = {} \/ \E d \in Nat : i.disks = {d}
  /\ DOMAIN i.networks = {"node1", "node2"}

DiskAmount(i) ==
  IF i.disks = {} THEN 0
  ELSE Amount("storage_pressure", (CHOOSE d \in i.disks : \A e \in i.disks : e <= d) - 75, 15)

InfraAmount(i) ==
  IF i = NoInfra THEN 0
  ELSE Amount("node_status", i.nodesTotal - i.nodesReady, i.nodesTotal)
         + Amount("pod_health", i.podsTotal - i.podsReady, i.podsTotal)
         + Amount("device_availability", Cardinality(Unavailable(i)), Cardinality(Present(i)))
         + DiskAmount(i)
         + Amount("network_reachability", Cardinality(BadNetworks(i)),
                  Cardinality(KnownNetworks(i)))

\* The fullest of one disk.
LEMMA DiskOf ==
  ASSUME NEW d \in Nat
  PROVE  (CHOOSE c \in {d} : \A e \in {d} : e <= c) = d
OBVIOUS

\* What an infra state counts is finite.
LEMMA InfraCounts ==
  ASSUME NEW i, InfraNumbers(i)
  PROVE  /\ i # NoInfra
         /\ IsFiniteSet(Unavailable(i)) /\ IsFiniteSet(Present(i))
         /\ IsFiniteSet(KnownNetworks(i)) /\ IsFiniteSet(BadNetworks(i))
         /\ Cardinality(Unavailable(i)) \in Nat /\ Cardinality(Present(i)) \in Nat
         /\ Cardinality(KnownNetworks(i)) \in Nat /\ Cardinality(BadNetworks(i)) \in Nat
<1>1. i # NoInfra
  <2>1. i.nodesTotal = 2  BY DEF InfraNumbers
  <2>2. NoInfra.nodesTotal = -1  BY DEF NoInfra, None
  <2> QED BY <2>1, <2>2
<1>2. IsFiniteSet(Required) /\ IsFiniteSet({"node1", "node2"})
  <2>1. IsFiniteSet({"bme280"}) /\ IsFiniteSet({"node1"})  BY FS_Singleton
  <2>2. IsFiniteSet({"bme280"} \cup {"camera"}) /\ IsFiniteSet({"node1"} \cup {"node2"})
    BY <2>1, FS_AddElement
  <2>3. IsFiniteSet(({"bme280"} \cup {"camera"}) \cup {"microphone"})
    BY <2>2, FS_AddElement
  <2>4. /\ Required = ({"bme280"} \cup {"camera"}) \cup {"microphone"}
        /\ {"node1", "node2"} = {"node1"} \cup {"node2"}
    BY DEF Required
  <2> QED BY <2>2, <2>3, <2>4
<1>3. Unavailable(i) \subseteq Required /\ Present(i) \subseteq Required
  BY DEF Unavailable, Present
<1>4. KnownNetworks(i) \subseteq {"node1", "node2"} /\ BadNetworks(i) \subseteq {"node1", "node2"}
  BY DEF KnownNetworks, BadNetworks, InfraNumbers
<1> QED BY <1>1, <1>2, <1>3, <1>4, FS_Subset, FS_CardinalityType

\* The penalties of an infra state add up to its amounts.
LEMMA InfraPenaltiesAdd ==
  ASSUME NEW i, i = NoInfra \/ InfraNumbers(i)
  PROVE  InfraPenalties(i) \in Seq(Penalties(Own)) /\ TotalOf(InfraPenalties(i)) = InfraAmount(i)
<1>0. CASE i = NoInfra
  <2>1. InfraPenalties(i) = << >> /\ InfraAmount(i) = 0  BY <1>0 DEF InfraPenalties, InfraAmount
  <2>2. << >> \in Seq(Penalties(Own))  OBVIOUS
  <2> QED BY <2>1, <2>2, TotalOfNone
<1>1. CASE InfraNumbers(i)
  <2> DEFINE disk == CHOOSE d \in i.disks : \A e \in i.disks : e <= d
             n == Weighted("node_status", i.nodesTotal - i.nodesReady, i.nodesTotal)
             p == Weighted("pod_health", i.podsTotal - i.podsReady, i.podsTotal)
             d == Weighted("device_availability", Cardinality(Unavailable(i)),
                           Cardinality(Present(i)))
             s == IF i.disks = {} THEN << >>
                  ELSE LinearHigh("storage_pressure", disk, 75, 90)
             w == Weighted("network_reachability", Cardinality(BadNetworks(i)),
                           Cardinality(KnownNetworks(i)))
  <2>0. InfraPenalties(i) = n \o p \o d \o s \o w
    BY <1>1, InfraCounts DEF InfraPenalties, KnownNetworks, BadNetworks, Present
  <2>1. /\ "node_status" \in Own /\ "pod_health" \in Own /\ "device_availability" \in Own
        /\ "storage_pressure" \in Own /\ "network_reachability" \in Own /\ Own \subseteq Fields
    BY WeightTypes DEF Own, Late
  <2>2. /\ n \in Seq(Penalties(Own))
        /\ TotalOf(n) = Amount("node_status", i.nodesTotal - i.nodesReady, i.nodesTotal)
    <3>1. i.nodesTotal - i.nodesReady \in Int /\ i.nodesTotal \in Int
      BY <1>1 DEF InfraNumbers
    <3> QED BY <2>1, <3>1, Weighs
  <2>3. /\ p \in Seq(Penalties(Own))
        /\ TotalOf(p) = Amount("pod_health", i.podsTotal - i.podsReady, i.podsTotal)
    <3>1. i.podsTotal - i.podsReady \in Int /\ i.podsTotal \in Int
      BY <1>1 DEF InfraNumbers
    <3> QED BY <2>1, <3>1, Weighs
  <2>4. /\ d \in Seq(Penalties(Own))
        /\ TotalOf(d) = Amount("device_availability", Cardinality(Unavailable(i)),
                               Cardinality(Present(i)))
    <3>1. Cardinality(Unavailable(i)) \in Int /\ Cardinality(Present(i)) \in Int
      BY <1>1, InfraCounts
    <3> QED BY <2>1, <3>1, Weighs
  <2>5. s \in Seq(Penalties(Own)) /\ TotalOf(s) = DiskAmount(i)
    <3>1. CASE i.disks = {}
      <4>1. s = << >> /\ DiskAmount(i) = 0  BY <3>1 DEF DiskAmount
      <4>2. << >> \in Seq(Penalties(Own))  OBVIOUS
      <4> HIDE DEF s
      <4> QED BY <4>1, <4>2, TotalOfNone
    <3>2. CASE i.disks # {}
      <4>1. PICK e \in Nat : i.disks = {e}  BY <1>1, <3>2 DEF InfraNumbers
      <4>2. disk = e  BY <4>1, DiskOf
      <4>3. s = Weighted("storage_pressure", e - 75, 15)
        <5>1. s = Weighted("storage_pressure", disk - 75, 90 - 75)  BY <3>2 DEF LinearHigh
        <5>2. 90 - 75 = 15  OBVIOUS
        <5> HIDE DEF disk
        <5> QED BY <4>2, <5>1, <5>2
      <4>4. DiskAmount(i) = Amount("storage_pressure", e - 75, 15)
        BY <3>2, <4>2 DEF DiskAmount
      <4>5. e - 75 \in Int /\ 15 \in Int  OBVIOUS
      <4> HIDE DEF s
      <4> QED BY <2>1, <4>3, <4>4, <4>5, Weighs
    <3> QED BY <3>1, <3>2
  <2>6. /\ w \in Seq(Penalties(Own))
        /\ TotalOf(w) = Amount("network_reachability", Cardinality(BadNetworks(i)),
                               Cardinality(KnownNetworks(i)))
    <3>1. Cardinality(BadNetworks(i)) \in Int /\ Cardinality(KnownNetworks(i)) \in Int
      BY <1>1, InfraCounts
    <3> QED BY <2>1, <3>1, Weighs
  <2>7. i # NoInfra  BY <1>1, InfraCounts
  <2> HIDE DEF n, p, d, s, w
  <2>8. n \o p \in Seq(Penalties(Own)) /\ TotalOf(n \o p) = TotalOf(n) + TotalOf(p)
    BY <2>2, <2>3, PenaltiesAdd
  <2>9. n \o p \o d \in Seq(Penalties(Own)) /\ TotalOf(n \o p \o d) = TotalOf(n \o p) + TotalOf(d)
    BY <2>4, <2>8, PenaltiesAdd
  <2>10. /\ n \o p \o d \o s \in Seq(Penalties(Own))
         /\ TotalOf(n \o p \o d \o s) = TotalOf(n \o p \o d) + TotalOf(s)
    BY <2>5, <2>9, PenaltiesAdd
  <2>11. /\ n \o p \o d \o s \o w \in Seq(Penalties(Own))
         /\ TotalOf(n \o p \o d \o s \o w) = TotalOf(n \o p \o d \o s) + TotalOf(w)
    BY <2>6, <2>10, PenaltiesAdd
  <2> QED BY <2>0, <2>2, <2>3, <2>4, <2>5, <2>6, <2>7, <2>8, <2>9, <2>10, <2>11 DEF InfraAmount
<1> QED BY <1>0, <1>1

FreshnessAmount(age) ==
  IF age = None THEN Amount("data_freshness", 1, 1) ELSE Amount("data_freshness", age - 60, 60)

\* The penalty of late data; within the first minute there is none.
LEMMA FreshnessPenaltyAdds ==
  ASSUME NEW age \in Int
  PROVE  LET s == FreshnessPenalty(age)
         IN /\ s \in Seq(Penalties(Late)) /\ Len(s) <= 1
            /\ TotalOf(s) = FreshnessAmount(age)
            /\ age # None /\ age <= 60 => s = << >>
<1>1. "data_freshness" \in Fields /\ {"data_freshness"} = Late  BY WeightTypes DEF Late
<1>2. FreshnessPenalty(age) =
        IF age = None THEN Weighted("data_freshness", 1, 1)
        ELSE Weighted("data_freshness", age - 60, 60)
  BY DEF FreshnessPenalty, LinearHigh, WarningSeconds, CriticalSeconds
<1>3. age - 60 \in Int /\ 60 \in Int /\ 1 \in Int /\ (age <= 60 => age - 60 <= 0)  OBVIOUS
<1>4. CASE age = None
  <2>1. FreshnessPenalty(age) = Weighted("data_freshness", 1, 1)  BY <1>2, <1>4
  <2>2. FreshnessAmount(age) = Amount("data_freshness", 1, 1)  BY <1>4 DEF FreshnessAmount
  <2> QED BY <1>1, <1>3, <1>4, <2>1, <2>2, WeightedIs
<1>5. CASE age # None
  <2>1. FreshnessPenalty(age) = Weighted("data_freshness", age - 60, 60)  BY <1>2, <1>5
  <2>2. FreshnessAmount(age) = Amount("data_freshness", age - 60, 60)  BY <1>5 DEF FreshnessAmount
  <2> DEFINE part == age - 60
  <2>3. part \in Int /\ (age <= 60 => part <= 0)  OBVIOUS
  <2>4. FreshnessPenalty(age) = Weighted("data_freshness", part, 60)  BY <2>1
  <2>5. FreshnessAmount(age) = Amount("data_freshness", part, 60)  BY <2>2
  <2> HIDE DEF part
  <2>6. LET s == Weighted("data_freshness", part, 60)
        IN /\ s \in Seq(Penalties({"data_freshness"})) /\ Len(s) <= 1
           /\ TotalOf(s) = Amount("data_freshness", part, 60)
           /\ part <= 0 => s = << >>
    BY <1>1, <1>3, <2>3, WeightedIs
  <2> QED BY <1>1, <2>3, <2>4, <2>5, <2>6
<1> QED BY <1>4, <1>5

-----------------------------------------------------------------------------
\* All the penalties, and the score they leave.
AllPenalties(factory, infra, age) ==
  FactoryPenalties(factory) \o InfraPenalties(infra) \o FreshnessPenalty(age)

Taken(factory, infra, age) == FactoryAmount(factory) + InfraAmount(infra) + FreshnessAmount(age)

RiskInputs(factory, infra, age) ==
  FactoryNumbers(factory) /\ (infra = NoInfra \/ InfraNumbers(infra)) /\ age \in Int

\* calculate() takes the three amounts off the full score.
LEMMA PenaltiesTaken ==
  ASSUME NEW factory, NEW infra, NEW age, RiskInputs(factory, infra, age)
  PROVE  LET all == AllPenalties(factory, infra, age)
         IN /\ all \in Seq(Penalties(Fields))
            /\ TotalOf(all) = Taken(factory, infra, age) /\ TotalOf(all) \in Int
            /\ Risk(factory, infra, age).base = Clamp(FullScore - TotalOf(all), 0, FullScore)
<1> DEFINE s == FactoryPenalties(factory)
           t == InfraPenalties(infra)
           u == FreshnessPenalty(age)
           all == AllPenalties(factory, infra, age)
<1>1. Own \subseteq Fields /\ Late \subseteq Fields  BY WeightTypes DEF Own, Late
<1>2. /\ s \in Seq(Penalties(Own)) /\ TotalOf(s) = FactoryAmount(factory)
      /\ t \in Seq(Penalties(Own)) /\ TotalOf(t) = InfraAmount(infra)
      /\ u \in Seq(Penalties(Late)) /\ TotalOf(u) = FreshnessAmount(age)
  BY FactoryPenaltiesAdd, InfraPenaltiesAdd, FreshnessPenaltyAdds DEF RiskInputs
<1>3. /\ s \in Seq(Penalties(Fields)) /\ t \in Seq(Penalties(Fields))
      /\ u \in Seq(Penalties(Fields))
  BY <1>1, <1>2, MorePenalties
<1>4. all = s \o t \o u  BY DEF AllPenalties
<1> HIDE DEF s, t, u
<1>5. s \o t \in Seq(Penalties(Fields)) /\ TotalOf(s \o t) = TotalOf(s) + TotalOf(t)
  BY <1>3, PenaltiesAdd
<1>6. /\ s \o t \o u \in Seq(Penalties(Fields))
      /\ TotalOf(s \o t \o u) = TotalOf(s \o t) + TotalOf(u)
      /\ TotalOf(s \o t) \in Int /\ TotalOf(u) \in Int
  BY <1>3, <1>5, PenaltiesAdd
<1>7. TotalOf(all) = Taken(factory, infra, age)  BY <1>2, <1>4, <1>5, <1>6 DEF Taken
<1>8. TotalOf(all) \in Int  BY <1>4, <1>6
<1>9. Risk(factory, infra, age).base = Clamp(FullScore - TotalOf(all), 0, FullScore)
  BY DEF Risk, AllPenalties
<1> QED BY <1>4, <1>6, <1>7, <1>8, <1>9

-----------------------------------------------------------------------------
\* The gates about some of the fields.
GatesOf(F) == {g \in Gates : g.field \in F}

\* The gate that a condition raises.
Raised(on, name, level, field, cap) ==
  IF on THEN {[name |-> name, level |-> level, field |-> field, cap |-> cap]} ELSE {}

GateRaised(name, level, field, cap, F) ==
  /\ name \in GateNames /\ field \in GateFields /\ field \in F
  /\ \/ level = "danger" /\ cap \in {0, NoCap}
     \/ level = "warning" /\ cap = NoCap

\* A gate that is raised is the only element of its list.
LEMMA OneGate ==
  ASSUME NEW on, NEW name, NEW level, NEW field, NEW cap, NEW F,
         GateRaised(name, level, field, cap, F)
  PROVE  LET s == CappedGate(on, name, level, field, cap)
         IN /\ s \in Seq(GatesOf(F)) /\ Len(s) = IF on THEN 1 ELSE 0
            /\ ToSet(s) = Raised(on, name, level, field, cap)
<1> DEFINE g == [name |-> name, level |-> level, field |-> field, cap |-> cap]
           s == CappedGate(on, name, level, field, cap)
<1>1. g \in GatesOf(F)
  BY DEF GatesOf, Gates, GateLike, GateRaised
<1>2. s = IF on THEN <<g>> ELSE << >>
  BY DEF CappedGate
<1>3. Raised(on, name, level, field, cap) = IF on THEN {g} ELSE {}
  BY DEF Raised
<1> HIDE DEF g, s
<1>4. /\ ToSet(<<g>>) = {g} /\ <<g>> \in Seq(GatesOf(F)) /\ Len(<<g>>) = 1
      /\ ToSet(<< >>) = {} /\ << >> \in Seq(GatesOf(F)) /\ Len(<< >>) = 0
  BY <1>1 DEF ToSet
<1> QED BY <1>2, <1>3, <1>4 DEF s

\* The elements of two lists.
LEMMA ToSetBoth ==
  ASSUME NEW S, NEW s \in Seq(S), NEW t \in Seq(S)
  PROVE  s \o t \in Seq(S) /\ Len(s \o t) = Len(s) + Len(t) /\ ToSet(s \o t) = ToSet(s) \cup ToSet(t)
<1> DEFINE r == s \o t
           n == Len(s)
           m == Len(t)
<1>1. /\ n \in Nat /\ m \in Nat /\ r \in Seq(S) /\ Len(r) = n + m
      /\ \A k \in 1..(n + m) : r[k] = IF k <= n THEN s[k] ELSE t[k - n]
  BY LenProperties, ConcatProperties
<1>2. DOMAIN s = 1..n /\ DOMAIN t = 1..m /\ DOMAIN r = 1..(n + m)
  <2>1. DOMAIN s = 1..n /\ DOMAIN t = 1..m  BY LenProperties
  <2>2. DOMAIN r = 1..Len(r)
    <3> HIDE DEF r
    <3> QED BY <1>1, LenProperties
  <2> QED BY <1>1, <2>1, <2>2
<1>3. ToSet(s) = {s[k] : k \in 1..n} /\ ToSet(t) = {t[k] : k \in 1..m}
      /\ ToSet(r) = {r[k] : k \in 1..(n + m)}
  <2> HIDE DEF r, n, m
  <2> QED BY <1>2 DEF ToSet
<1> HIDE DEF r, n, m
<1>4. ToSet(r) \subseteq ToSet(s) \cup ToSet(t)
  <2> SUFFICES ASSUME NEW k \in 1..(n + m) PROVE r[k] \in ToSet(s) \cup ToSet(t)  BY <1>3
  <2>1. CASE k <= n
    <3>1. k \in 1..n /\ r[k] = s[k]  BY <1>1, <2>1
    <3> QED BY <1>3, <3>1
  <2>2. CASE ~ (k <= n)
    <3>1. k - n \in 1..m /\ r[k] = t[k - n]  BY <1>1, <2>2
    <3> QED BY <1>3, <3>1
  <2> QED BY <2>1, <2>2
<1>5. ToSet(s) \subseteq ToSet(r)
  <2> SUFFICES ASSUME NEW k \in 1..n PROVE s[k] \in ToSet(r)  BY <1>3
  <2>1. k \in 1..(n + m) /\ k <= n  BY <1>1
  <2>2. r[k] = s[k]  BY <1>1, <2>1
  <2> QED BY <1>3, <2>1, <2>2
<1>6. ToSet(t) \subseteq ToSet(r)
  <2> SUFFICES ASSUME NEW k \in 1..m PROVE t[k] \in ToSet(r)  BY <1>3
  <2>1. n + k \in 1..(n + m) /\ ~ (n + k <= n) /\ (n + k) - n = k  BY <1>1
  <2>2. r[n + k] = t[k]  BY <1>1, <2>1
  <2> QED BY <1>3, <2>1, <2>2
<1> QED BY <1>1, <1>4, <1>5, <1>6 DEF r, n, m

\* A list of gates, as a set.
Listed(s, S, R) == s \in Seq(S) /\ ToSet(s) = R

\* Lists and their elements, joined.
LEMMA ListsJoin ==
  \A S, s, t, Q, R : Listed(s, S, Q) /\ Listed(t, S, R) => Listed(s \o t, S, Q \cup R)
<1> SUFFICES ASSUME NEW S, NEW s, NEW t, NEW Q, NEW R, Listed(s, S, Q), Listed(t, S, R)
             PROVE  Listed(s \o t, S, Q \cup R)
  OBVIOUS
<1>1. s \in Seq(S) /\ t \in Seq(S) /\ ToSet(s) = Q /\ ToSet(t) = R  BY DEF Listed
<1>2. s \o t \in Seq(S) /\ ToSet(s \o t) = ToSet(s) \cup ToSet(t)  BY <1>1, ToSetBoth
<1> QED BY <1>1, <1>2 DEF Listed

FactoryGateSet(f) ==
  Raised(f.temperature >= 38, "temperature_critical", "warning", "temperature", NoCap)
    \cup Raised(f.humidity >= 85, "humidity_critical", "warning", "humidity", NoCap)
    \cup Raised(f.ai >= 95, "ai_score_critical", "danger", "ai_event_rate", NoCap)
    \cup Raised(f.ai < 95 /\ (f.ai >= 80 \/ (f.ai >= 60 /\ f.sound)),
                "ai_score_warning", "warning", "ai_event_rate", NoCap)

DeviceLevel(i, f) ==
  IF "bme280" \in Unavailable(i) /\ f.samples = 0 THEN "danger" ELSE "warning"

InfraGateSet(i, f) ==
  IF i = NoInfra THEN {}
  ELSE Raised(i.nodesTotal > 0 /\ i.nodesReady = 0,
              "nodes_all_not_ready", "danger", "node_status", 0)
       \cup Raised(i.nodesReady > 0 /\ i.nodesReady < i.nodesTotal,
                   "nodes_partially_not_ready", "warning", "node_status", NoCap)
       \cup Raised(i.podsTotal > 0 /\ i.podsReady = 0,
                   "pods_all_unready", "danger", "pod_health", NoCap)
       \cup Raised(i.podsReady > 0 /\ i.podsReady < i.podsTotal,
                   "pods_partially_unready", "warning", "pod_health", NoCap)
       \cup Raised(Unavailable(i) # {}, "required_device_unavailable", DeviceLevel(i, f),
                   "device_availability", NoCap)

Outage(age) == age # None /\ age > OutageSeconds

PipelineGateSet(age) ==
  Raised(Outage(age), "pipeline_status_outage", "danger", "data_freshness", 0)
    \cup Raised(~Outage(age) /\ PipelineStatus(age) = "critical",
                "pipeline_status_critical", "danger", "data_freshness", NoCap)
    \cup Raised(~Outage(age) /\ PipelineStatus(age) = "warning",
                "pipeline_status_warning", "warning", "data_freshness", NoCap)

\* The gates of a factory state.
LEMMA FactoryGatesAre ==
  ASSUME NEW f
  PROVE  /\ FactoryStateGates(f) \in Seq(GatesOf(Own))
         /\ ToSet(FactoryStateGates(f)) = FactoryGateSet(f)
<1> DEFINE g1 == Gate(f.temperature >= 38, "temperature_critical", "warning", "temperature")
           g2 == Gate(f.humidity >= 85, "humidity_critical", "warning", "humidity")
           g3 == Gate(f.ai >= 95, "ai_score_critical", "danger", "ai_event_rate")
           g4 == Gate(f.ai < 95 /\ (f.ai >= 80 \/ (f.ai >= 60 /\ f.sound)),
                      "ai_score_warning", "warning", "ai_event_rate")
           r1 == Raised(f.temperature >= 38, "temperature_critical", "warning", "temperature", NoCap)
           r2 == Raised(f.humidity >= 85, "humidity_critical", "warning", "humidity", NoCap)
           r3 == Raised(f.ai >= 95, "ai_score_critical", "danger", "ai_event_rate", NoCap)
           r4 == Raised(f.ai < 95 /\ (f.ai >= 80 \/ (f.ai >= 60 /\ f.sound)),
                        "ai_score_warning", "warning", "ai_event_rate", NoCap)
<1>0. FactoryStateGates(f) = g1 \o g2 \o g3 \o g4
  BY DEF FactoryStateGates
<1>1. /\ GateRaised("temperature_critical", "warning", "temperature", NoCap, Own)
      /\ GateRaised("humidity_critical", "warning", "humidity", NoCap, Own)
      /\ GateRaised("ai_score_critical", "danger", "ai_event_rate", NoCap, Own)
      /\ GateRaised("ai_score_warning", "warning", "ai_event_rate", NoCap, Own)
  BY WeightTypes DEF GateRaised, GateNames, GateFields, Own, Late
<1>2. /\ g1 \in Seq(GatesOf(Own)) /\ ToSet(g1) = r1
      /\ g2 \in Seq(GatesOf(Own)) /\ ToSet(g2) = r2
      /\ g3 \in Seq(GatesOf(Own)) /\ ToSet(g3) = r3
      /\ g4 \in Seq(GatesOf(Own)) /\ ToSet(g4) = r4
  BY <1>1, OneGate DEF Gate
<1>3. FactoryGateSet(f) = r1 \cup r2 \cup r3 \cup r4
  BY DEF FactoryGateSet
<1> HIDE DEF g1, g2, g3, g4, r1, r2, r3, r4
<1>4. /\ Listed(g1, GatesOf(Own), r1) /\ Listed(g2, GatesOf(Own), r2)
      /\ Listed(g3, GatesOf(Own), r3) /\ Listed(g4, GatesOf(Own), r4)
  BY <1>2 DEF Listed
<1>5. Listed(g1 \o g2 \o g3, GatesOf(Own), r1 \cup r2 \cup r3)
  BY <1>4, ListsJoin
<1>6. Listed(g1 \o g2 \o g3 \o g4, GatesOf(Own), r1 \cup r2 \cup r3 \cup r4)
  BY <1>4, <1>5, ListsJoin
<1> QED BY <1>0, <1>3, <1>6 DEF Listed

\* The gates of an infra state.
LEMMA InfraGatesAre ==
  ASSUME NEW i, NEW f
  PROVE  /\ InfraGates(i, f) \in Seq(GatesOf(Own))
         /\ ToSet(InfraGates(i, f)) = InfraGateSet(i, f)
<1>0. CASE i = NoInfra
  <2>1. InfraGates(i, f) = << >> /\ InfraGateSet(i, f) = {}
    BY <1>0 DEF InfraGates, InfraGateSet
  <2>2. << >> \in Seq(GatesOf(Own)) /\ ToSet(<< >>) = {}  BY DEF ToSet
  <2> QED BY <2>1, <2>2
<1>1. CASE i # NoInfra
  <2> DEFINE c1 == i.nodesTotal > 0 /\ i.nodesReady = 0
             c2 == i.nodesReady > 0 /\ i.nodesReady < i.nodesTotal
             c3 == i.podsTotal > 0 /\ i.podsReady = 0
             c4 == i.podsReady > 0 /\ i.podsReady < i.podsTotal
             c5 == Unavailable(i) # {}
             g1 == CappedGate(c1, "nodes_all_not_ready", "danger", "node_status", 0)
             g2 == Gate(c2, "nodes_partially_not_ready", "warning", "node_status")
             g3 == Gate(c3, "pods_all_unready", "danger", "pod_health")
             g4 == Gate(c4, "pods_partially_unready", "warning", "pod_health")
             g5 == Gate(c5, "required_device_unavailable", DeviceLevel(i, f),
                        "device_availability")
             r1 == Raised(c1, "nodes_all_not_ready", "danger", "node_status", 0)
             r2 == Raised(c2, "nodes_partially_not_ready", "warning", "node_status", NoCap)
             r3 == Raised(c3, "pods_all_unready", "danger", "pod_health", NoCap)
             r4 == Raised(c4, "pods_partially_unready", "warning", "pod_health", NoCap)
             r5 == Raised(c5, "required_device_unavailable", DeviceLevel(i, f),
                          "device_availability", NoCap)
  <2>0. InfraGates(i, f) = g1 \o g2 \o g3 \o g4 \o g5
    BY <1>1 DEF InfraGates, DeviceLevel
  <2>1. /\ GateRaised("nodes_all_not_ready", "danger", "node_status", 0, Own)
        /\ GateRaised("nodes_partially_not_ready", "warning", "node_status", NoCap, Own)
        /\ GateRaised("pods_all_unready", "danger", "pod_health", NoCap, Own)
        /\ GateRaised("pods_partially_unready", "warning", "pod_health", NoCap, Own)
    BY WeightTypes DEF GateRaised, GateNames, GateFields, Own, Late
  <2>2. GateRaised("required_device_unavailable", DeviceLevel(i, f), "device_availability",
                   NoCap, Own)
    BY WeightTypes DEF GateRaised, GateNames, GateFields, Own, Late, DeviceLevel
  <2>3. /\ g1 \in Seq(GatesOf(Own)) /\ ToSet(g1) = r1
        /\ g2 \in Seq(GatesOf(Own)) /\ ToSet(g2) = r2
        /\ g3 \in Seq(GatesOf(Own)) /\ ToSet(g3) = r3
        /\ g4 \in Seq(GatesOf(Own)) /\ ToSet(g4) = r4
        /\ g5 \in Seq(GatesOf(Own)) /\ ToSet(g5) = r5
    <3> HIDE DEF c1, c2, c3, c4, c5
    <3> QED BY <2>1, <2>2, OneGate DEF Gate
  <2>4. InfraGateSet(i, f) = r1 \cup r2 \cup r3 \cup r4 \cup r5
    BY <1>1 DEF InfraGateSet
  <2> HIDE DEF g1, g2, g3, g4, g5, r1, r2, r3, r4, r5
  <2>5. /\ Listed(g1, GatesOf(Own), r1) /\ Listed(g2, GatesOf(Own), r2)
        /\ Listed(g3, GatesOf(Own), r3) /\ Listed(g4, GatesOf(Own), r4)
        /\ Listed(g5, GatesOf(Own), r5)
    BY <2>3 DEF Listed
  <2>6. Listed(g1 \o g2 \o g3, GatesOf(Own), r1 \cup r2 \cup r3)
    BY <2>5, ListsJoin
  <2>7. Listed(g1 \o g2 \o g3 \o g4, GatesOf(Own), r1 \cup r2 \cup r3 \cup r4)
    BY <2>5, <2>6, ListsJoin
  <2>8. Listed(g1 \o g2 \o g3 \o g4 \o g5, GatesOf(Own),
               r1 \cup r2 \cup r3 \cup r4 \cup r5)
    BY <2>5, <2>7, ListsJoin
  <2> QED BY <2>0, <2>4, <2>8 DEF Listed
<1> QED BY <1>0, <1>1

\* At most one of the three gates of the pipeline is raised.
LEMMA PipelineGatesAre ==
  ASSUME NEW age
  PROVE  /\ PipelineGates(age) \in Seq(GatesOf(Late)) /\ Len(PipelineGates(age)) <= 1
         /\ ToSet(PipelineGates(age)) = PipelineGateSet(age)
<1> DEFINE c2 == ~Outage(age) /\ PipelineStatus(age) = "critical"
           c3 == ~Outage(age) /\ PipelineStatus(age) = "warning"
           g1 == CappedGate(Outage(age), "pipeline_status_outage", "danger", "data_freshness", 0)
           g2 == Gate(c2, "pipeline_status_critical", "danger", "data_freshness")
           g3 == Gate(c3, "pipeline_status_warning", "warning", "data_freshness")
           r1 == Raised(Outage(age), "pipeline_status_outage", "danger", "data_freshness", 0)
           r2 == Raised(c2, "pipeline_status_critical", "danger", "data_freshness", NoCap)
           r3 == Raised(c3, "pipeline_status_warning", "warning", "data_freshness", NoCap)
<1>0. PipelineGates(age) = g1 \o g2 \o g3
  BY DEF PipelineGates, Outage
<1>1. /\ GateRaised("pipeline_status_outage", "danger", "data_freshness", 0, Late)
      /\ GateRaised("pipeline_status_critical", "danger", "data_freshness", NoCap, Late)
      /\ GateRaised("pipeline_status_warning", "warning", "data_freshness", NoCap, Late)
  BY DEF GateRaised, GateNames, GateFields, Late
<1>2. /\ g1 \in Seq(GatesOf(Late)) /\ ToSet(g1) = r1 /\ Len(g1) = IF Outage(age) THEN 1 ELSE 0
      /\ g2 \in Seq(GatesOf(Late)) /\ ToSet(g2) = r2 /\ Len(g2) = IF c2 THEN 1 ELSE 0
      /\ g3 \in Seq(GatesOf(Late)) /\ ToSet(g3) = r3 /\ Len(g3) = IF c3 THEN 1 ELSE 0
  <2> HIDE DEF c2, c3
  <2> QED BY <1>1, OneGate DEF Gate
<1>3. PipelineGateSet(age) = r1 \cup r2 \cup r3
  BY DEF PipelineGateSet
<1>4. Len(g1) + Len(g2) + Len(g3) <= 1
  <2>1. ~ (Outage(age) /\ c2) /\ ~ (Outage(age) /\ c3) /\ ~ (c2 /\ c3)  OBVIOUS
  <2> HIDE DEF c2, c3, g1, g2, g3
  <2> QED BY <1>2, <2>1
<1> HIDE DEF g1, g2, g3, r1, r2, r3, c2, c3
<1>5. /\ Listed(g1, GatesOf(Late), r1) /\ Listed(g2, GatesOf(Late), r2)
      /\ Listed(g3, GatesOf(Late), r3)
  BY <1>2 DEF Listed
<1>6. Listed(g1 \o g2 \o g3, GatesOf(Late), r1 \cup r2 \cup r3)
  BY <1>5, ListsJoin
<1>7. Len(g1 \o g2 \o g3) = Len(g1) + Len(g2) + Len(g3)
  <2>1. g1 \in Seq(GatesOf(Late)) /\ g2 \in Seq(GatesOf(Late)) /\ g3 \in Seq(GatesOf(Late))
    BY <1>2
  <2> QED BY <2>1
<1> QED BY <1>0, <1>3, <1>4, <1>6, <1>7 DEF Listed

AllGates(factory, infra, age) ==
  FactoryStateGates(factory) \o InfraGates(infra, factory) \o PipelineGates(age)

GateSet(factory, infra, age) ==
  FactoryGateSet(factory) \cup InfraGateSet(infra, factory) \cup PipelineGateSet(age)

\* The gates of calculate(), whatever was measured.
LEMMA RiskGatesAre ==
  ASSUME NEW factory, NEW infra, NEW age
  PROVE  /\ AllGates(factory, infra, age) \in Seq(Gates)
         /\ Risk(factory, infra, age).gates = ToSet(AllGates(factory, infra, age))
         /\ Risk(factory, infra, age).gates = GateSet(factory, infra, age)
         /\ GateSet(factory, infra, age) \subseteq Gates
<1> DEFINE s == FactoryStateGates(factory)
           t == InfraGates(infra, factory)
           u == PipelineGates(age)
<1>1. Risk(factory, infra, age).gates = ToSet(AllGates(factory, infra, age))
  BY DEF Risk, AllGates
<1>2. AllGates(factory, infra, age) = s \o t \o u  BY DEF AllGates
<1>3. /\ s \in Seq(Gates) /\ ToSet(s) = FactoryGateSet(factory)
      /\ t \in Seq(Gates) /\ ToSet(t) = InfraGateSet(infra, factory)
      /\ u \in Seq(Gates) /\ ToSet(u) = PipelineGateSet(age)
  <2>1. Seq(GatesOf(Own)) \subseteq Seq(Gates) /\ Seq(GatesOf(Late)) \subseteq Seq(Gates)
    <3>1. GatesOf(Own) \subseteq Gates /\ GatesOf(Late) \subseteq Gates  BY DEF GatesOf
    <3> HIDE DEF GatesOf, Gates
    <3> QED BY <3>1
  <2> QED BY <2>1, FactoryGatesAre, InfraGatesAre, PipelineGatesAre
<1> HIDE DEF s, t, u
<1>4. /\ Listed(s, Gates, FactoryGateSet(factory))
      /\ Listed(t, Gates, InfraGateSet(infra, factory))
      /\ Listed(u, Gates, PipelineGateSet(age))
  BY <1>3 DEF Listed
<1>5. Listed(s \o t \o u, Gates, GateSet(factory, infra, age))
  BY <1>4, ListsJoin DEF GateSet
<1>6. ToSet(s \o t \o u) \subseteq Gates
  <2> DEFINE r == s \o t \o u
  <2>1. r \in Seq(Gates)  BY <1>5 DEF Listed
  <2> HIDE DEF r, Gates
  <2>2. ToSet(r) \subseteq Gates  BY <2>1 DEF ToSet
  <2> QED BY <2>2 DEF r
<1> QED BY <1>1, <1>2, <1>5, <1>6 DEF Listed

-----------------------------------------------------------------------------
(***************************************************************************)
(* What the places of the measurements mean for the score.                 *)
(***************************************************************************)
FactoryNames == {"temperature", "humidity", "pressure", "ai", "sound", "samples"}
InfraNames == {"node1", "node2", "running", "bme280", "camera", "disk", "network"}
Names == FactoryNames \cup InfraNames \cup {"age"}

Scale(m) == Scales["factory_state_snapshot"][m]

\* Each measurement has the scale of its payload.
LEMMA ScaleOf ==
  /\ DOMAIN Scales["factory_state_snapshot"] = Names
  /\ \A m \in FactoryNames : Scale(m) = FactoryScales[m]
  /\ \A m \in InfraNames : Scale(m) = InfraScales[m]
  /\ Scale("age") = AgeScale["age"]
<1>1. Scales["factory_state_snapshot"] = MeasuredScales
  BY DEF Scales
<1>2. /\ DOMAIN FactoryScales = FactoryNames /\ DOMAIN InfraScales = InfraNames
      /\ DOMAIN AgeScale = {"age"}
  BY MeasurementsAssumption DEF FactoryNames, InfraNames
<1>3. FactoryNames \cap InfraNames = {} /\ "age" \notin FactoryNames /\ "age" \notin InfraNames
  BY DEF FactoryNames, InfraNames
<1> QED BY <1>1, <1>2, <1>3 DEF MeasuredScales, Names, Scale

\* Measured facts, and facts that are nowhere better.
Measured(f) == DOMAIN f = Names /\ \A m \in Names : f[m] \in 0..Len(Scale(m))

WorsePlaces(f, g) == \A m \in Names : f[m] <= g[m] /\ (f[m] = 0 => g[m] = 0)

\* A reading is the place on its scale, or what stands for a missing one.
LEMMA ReadingIs ==
  ASSUME NEW f, NEW m, NEW missing
  PROVE  FactoryReading(f, m, missing) = IF f[m] = 0 THEN missing ELSE Scale(m)[f[m]]
BY DEF FactoryReading, Read, Scale

\* A number is missing in both, or it is the same or a worse one.
LEMMA NumberWorsens ==
  ASSUME NEW f, Measured(f), NEW g, Measured(g), WorsePlaces(f, g), NEW m \in Names,
         NEW V, V \subseteq Int, Scale(m) \in Seq(V), NEW missing
  PROVE  LET v == FactoryReading(f, m, missing)
             w == FactoryReading(g, m, missing)
         IN \/ v = missing /\ w = missing
            \/ /\ f[m] \in DOMAIN Scale(m) /\ g[m] \in DOMAIN Scale(m)
               /\ v = Scale(m)[f[m]] /\ w = Scale(m)[g[m]] /\ v \in V /\ w \in V
               /\ Rising(Scale(m)) => v <= w
               /\ Falling(Scale(m)) => w <= v
<1>1. /\ f[m] \in 0..Len(Scale(m)) /\ g[m] \in 0..Len(Scale(m))
      /\ f[m] <= g[m] /\ (f[m] = 0 => g[m] = 0)
  BY DEF Measured, WorsePlaces
<1>2. Len(Scale(m)) \in Nat /\ DOMAIN Scale(m) = 1..Len(Scale(m))
  BY LenProperties
<1>3. CASE f[m] = 0
  BY <1>1, <1>3, ReadingIs
<1>4. CASE f[m] # 0
  <2>1. f[m] \in DOMAIN Scale(m) /\ g[m] \in DOMAIN Scale(m) /\ g[m] # 0
    BY <1>1, <1>2, <1>4
  <2>2. /\ FactoryReading(f, m, missing) = Scale(m)[f[m]]
        /\ FactoryReading(g, m, missing) = Scale(m)[g[m]]
    BY <1>4, <2>1, ReadingIs
  <2>3. Scale(m)[f[m]] \in V /\ Scale(m)[g[m]] \in V
    BY <1>2, <2>1, ElementOfSeq
  <2>4. /\ Rising(Scale(m)) => Scale(m)[f[m]] <= Scale(m)[g[m]]
        /\ Falling(Scale(m)) => Scale(m)[g[m]] <= Scale(m)[f[m]]
    BY <1>1, <2>1 DEF Rising, Falling
  <2> QED BY <2>1, <2>2, <2>3, <2>4
<1> QED BY <1>3, <1>4

\* A measurement of two places.
LEMMA TwoPlaces ==
  ASSUME NEW f, Measured(f), NEW m \in Names, NEW x, NEW y, Scale(m) = <<x, y>>, NEW missing
  PROVE  /\ f[m] \in {0, 1, 2}
         /\ f[m] = 0 => FactoryReading(f, m, missing) = missing
         /\ f[m] = 1 => FactoryReading(f, m, missing) = x
         /\ f[m] = 2 => FactoryReading(f, m, missing) = y
<1>1. f[m] \in 0..Len(Scale(m))  BY DEF Measured
<1>2. Len(Scale(m)) = 2 /\ Scale(m)[1] = x /\ Scale(m)[2] = y  OBVIOUS
<1> QED BY <1>1, <1>2, ReadingIs

\* The scales as MeasurementsAssumption has them.
LEMMA ScaleTypes ==
  /\ Scale("temperature") \in Seq(Int) /\ Rising(Scale("temperature"))
  /\ Scale("humidity") \in Seq(Int) /\ Rising(Scale("humidity"))
  /\ Scale("ai") \in Seq(Int) /\ Rising(Scale("ai"))
  /\ Scale("pressure") \in Seq(Nat)
  /\ \A j, k \in DOMAIN Scale("pressure") :
       j <= k => FromMiddle(Scale("pressure")[j]) <= FromMiddle(Scale("pressure")[k])
  /\ Scale("samples") \in Seq(Nat) /\ Falling(Scale("samples"))
  /\ Scale("sound") = <<FALSE, TRUE>>
  /\ Scale("node1") = <<TRUE, FALSE>> /\ Scale("node2") = <<TRUE, FALSE>>
  /\ Scale("running") \in Seq(Nat) /\ Falling(Scale("running"))
  /\ Scale("bme280") = <<"available", "unavailable">>
  /\ Scale("camera") = <<"available", "unavailable">>
  /\ Scale("disk") \in Seq(Nat) /\ Rising(Scale("disk"))
  /\ Scale("network") = <<"ok", "bad">>
  /\ Scale("age") \in Seq(Nat) /\ Rising(Scale("age"))
<1>1. /\ \A m \in FactoryNames : Scale(m) = FactoryScales[m]
      /\ \A m \in InfraNames : Scale(m) = InfraScales[m]
      /\ Scale("age") = AgeScale["age"]
  BY ScaleOf
<1>2. \A j, k \in DOMAIN Scale("pressure") :
        j <= k => FromMiddle(Scale("pressure")[j]) <= FromMiddle(Scale("pressure")[k])
  BY <1>1, MeasurementsAssumption DEF FactoryNames, Rising
<1>3. /\ Scale("temperature") = FactoryScales.temperature
      /\ Scale("humidity") = FactoryScales.humidity /\ Scale("ai") = FactoryScales.ai
      /\ Scale("pressure") = FactoryScales.pressure
      /\ Scale("samples") = FactoryScales.samples /\ Scale("sound") = FactoryScales.sound
  BY <1>1 DEF FactoryNames
<1>4. /\ Scale("node1") = InfraScales.node1 /\ Scale("node2") = InfraScales.node2
      /\ Scale("running") = InfraScales.running
      /\ Scale("bme280") = InfraScales["bme280"] /\ Scale("camera") = InfraScales["camera"]
      /\ Scale("disk") = InfraScales.disk /\ Scale("network") = InfraScales.network
  BY <1>1 DEF InfraNames
<1>5. /\ FactoryScales.temperature \in Seq(Int) /\ Rising(FactoryScales.temperature)
      /\ FactoryScales.humidity \in Seq(Int) /\ Rising(FactoryScales.humidity)
      /\ FactoryScales.ai \in Seq(Int) /\ Rising(FactoryScales.ai)
      /\ FactoryScales.pressure \in Seq(Nat)
      /\ FactoryScales.samples \in Seq(Nat) /\ Falling(FactoryScales.samples)
  BY MeasurementsAssumption
<1>6. FactoryScales.sound = <<FALSE, TRUE>>
  BY MeasurementsAssumption
<1>7. /\ InfraScales.node1 = <<TRUE, FALSE>> /\ InfraScales.node2 = <<TRUE, FALSE>>
      /\ InfraScales.running \in Seq(Nat) /\ Falling(InfraScales.running)
      /\ InfraScales["bme280"] = <<"available", "unavailable">>
      /\ InfraScales["camera"] = <<"available", "unavailable">>
      /\ InfraScales.disk \in Seq(Nat) /\ Rising(InfraScales.disk)
      /\ InfraScales.network = <<"ok", "bad">>
  BY MeasurementsAssumption
<1>8. AgeScale["age"] \in Seq(Nat) /\ Rising(AgeScale["age"])
  BY MeasurementsAssumption
<1>9. /\ Scale("temperature") \in Seq(Int) /\ Rising(Scale("temperature"))
      /\ Scale("humidity") \in Seq(Int) /\ Rising(Scale("humidity"))
      /\ Scale("ai") \in Seq(Int) /\ Rising(Scale("ai"))
      /\ Scale("pressure") \in Seq(Nat)
      /\ Scale("samples") \in Seq(Nat) /\ Falling(Scale("samples"))
  BY <1>3, <1>5
<1>10. Scale("sound") = <<FALSE, TRUE>>
  BY <1>3, <1>6
<1>11. /\ Scale("node1") = <<TRUE, FALSE>> /\ Scale("node2") = <<TRUE, FALSE>>
       /\ Scale("running") \in Seq(Nat) /\ Falling(Scale("running"))
       /\ Scale("bme280") = <<"available", "unavailable">>
       /\ Scale("camera") = <<"available", "unavailable">>
       /\ Scale("disk") \in Seq(Nat) /\ Rising(Scale("disk"))
       /\ Scale("network") = <<"ok", "bad">>
  BY <1>4, <1>7
<1>12. Scale("age") \in Seq(Nat) /\ Rising(Scale("age"))
  BY <1>1, <1>8
<1> QED BY <1>2, <1>9, <1>10, <1>11, <1>12

-----------------------------------------------------------------------------
(* The normalized states of the facts. *)

FactoryInput(f) == NormalizeFactoryState(FactoryPayload(f))
AgeInput(f) == FactoryReading(f, "age", None)
InfraInput(f) == IF AgeInput(f) = None THEN NoInfra ELSE NormalizeInfraState(InfraPayload(f))

\* What the snapshot is computed from.
LEMMA SnapshotInputs ==
  ASSUME NEW f
  PROVE  FactorySnapshot(f) = [risk |-> Risk(FactoryInput(f), InfraInput(f), AgeInput(f)),
                               pipeline |-> PipelineStatus(AgeInput(f))]
BY DEF FactorySnapshot, FactoryInput, InfraInput, AgeInput

\* The normalized factory state.
LEMMA FactoryInputIs ==
  ASSUME NEW f
  PROVE  LET i == FactoryInput(f)
         IN /\ i.temperature = NumberOrZero(FactoryReading(f, "temperature", None))
            /\ i.humidity = NumberOrZero(FactoryReading(f, "humidity", None))
            /\ i.pressure = NumberOrZero(FactoryReading(f, "pressure", None))
            /\ i.ai = NumberOrZero(FactoryReading(f, "ai", None))
            /\ i.samples = NumberOrZero(FactoryReading(f, "samples", None))
            /\ i.sound = FactoryReading(f, "sound", FALSE)
BY DEF FactoryInput, NormalizeFactoryState, FactoryPayload

TwoNodes == {"node1", "node2"}
ReadyNodes(f) == {n \in TwoNodes : FactoryReading(f, n, FALSE)}

\* The normalized infra state.
LEMMA InfraInputIs ==
  ASSUME NEW f, AgeInput(f) # None
  PROVE  LET i == InfraInput(f)
         IN /\ i.nodesTotal = Cardinality(TwoNodes)
            /\ i.nodesReady = Cardinality(ReadyNodes(f))
            /\ i.podsTotal = 2 /\ i.podsReady = FactoryReading(f, "running", 0)
            /\ i.devices = [d \in Required |-> IF d = "microphone" THEN "absent"
                                               ELSE FactoryReading(f, d, "absent")]
            /\ i.disks = {FactoryReading(f, "disk", None), None} \ {None}
            /\ i.networks = [n \in TwoNodes |->
                               IF n = "node1" THEN FactoryReading(f, "network", "unknown")
                               ELSE "unknown"]
<1> DEFINE p == InfraPayload(f)
           i == NormalizeInfraState(p)
<1>1. InfraInput(f) = i
  BY DEF InfraInput
<1>2. /\ DOMAIN p.nodes = TwoNodes
      /\ \A n \in TwoNodes :
           /\ p.nodes[n].ready = FactoryReading(f, n, FALSE)
           /\ p.nodes[n].disk = IF n = "node1" THEN FactoryReading(f, "disk", None) ELSE None
           /\ p.nodes[n].network =
                IF n = "node1" THEN FactoryReading(f, "network", "unknown") ELSE "unknown"
      /\ p.pods.total = 2 /\ p.pods.running = FactoryReading(f, "running", 0)
      /\ p.devices = [d \in Required |-> IF d = "microphone" THEN "absent"
                                         ELSE FactoryReading(f, d, "absent")]
  BY DEF InfraPayload, TwoNodes
<1> HIDE DEF p
<1>3. /\ i.nodesTotal = Cardinality(DOMAIN p.nodes)
      /\ i.nodesReady = Cardinality({n \in DOMAIN p.nodes : p.nodes[n].ready})
      /\ i.podsTotal = p.pods.total /\ i.podsReady = p.pods.running
      /\ i.devices = p.devices
      /\ i.disks = {p.nodes[n].disk : n \in DOMAIN p.nodes} \ {None}
      /\ i.networks = [n \in DOMAIN p.nodes |-> p.nodes[n].network]
  BY DEF NormalizeInfraState
<1> HIDE DEF i
<1>4. {n \in DOMAIN p.nodes : p.nodes[n].ready} = ReadyNodes(f)
  BY <1>2 DEF ReadyNodes
<1>5. {p.nodes[n].disk : n \in DOMAIN p.nodes} = {FactoryReading(f, "disk", None), None}
  BY <1>2 DEF TwoNodes
<1>6. [n \in DOMAIN p.nodes |-> p.nodes[n].network] =
        [n \in TwoNodes |-> IF n = "node1" THEN FactoryReading(f, "network", "unknown")
                            ELSE "unknown"]
  BY <1>2
<1> QED BY <1>1, <1>2, <1>3, <1>4, <1>5, <1>6

\* Two nodes.
LEMMA NodesCounted ==
  /\ IsFiniteSet(TwoNodes) /\ Cardinality(TwoNodes) = 2
  /\ \A S \in SUBSET TwoNodes : IsFiniteSet(S) /\ Cardinality(S) \in 0..2
<1>1. IsFiniteSet({"node1"}) /\ Cardinality({"node1"}) = 1  BY FS_Singleton
<1>2. TwoNodes = {"node1"} \cup {"node2"} /\ "node2" \notin {"node1"}  BY DEF TwoNodes
<1>3. IsFiniteSet({"node1"} \cup {"node2"}) /\ Cardinality({"node1"} \cup {"node2"}) = 1 + 1
  BY <1>1, <1>2, FS_AddElement
<1>4. IsFiniteSet(TwoNodes) /\ Cardinality(TwoNodes) = 2  BY <1>2, <1>3
<1>5. ASSUME NEW S \in SUBSET TwoNodes PROVE IsFiniteSet(S) /\ Cardinality(S) \in 0..2
  <2>1. IsFiniteSet(S) /\ Cardinality(S) <= 2  BY <1>4, FS_Subset
  <2>2. Cardinality(S) \in Nat  BY <2>1, FS_CardinalityType
  <2> QED BY <2>1, <2>2
<1> QED BY <1>4, <1>5

-----------------------------------------------------------------------------
\* A reading is on its scale or missing.
LEMMA NumberIs ==
  ASSUME NEW f, Measured(f), NEW m \in Names, NEW V, Scale(m) \in Seq(V), NEW missing
  PROVE  FactoryReading(f, m, missing) \in V \cup {missing}
<1>1. f[m] \in 0..Len(Scale(m)) /\ Len(Scale(m)) \in Nat
  BY LenProperties DEF Measured
<1>2. CASE f[m] = 0
  BY <1>2, ReadingIs
<1>3. CASE f[m] # 0
  <2>1. f[m] \in 1..Len(Scale(m))  BY <1>1, <1>3
  <2>2. Scale(m)[f[m]] \in V  BY <2>1, ElementOfSeq
  <2> QED BY <1>3, <2>2, ReadingIs
<1> QED BY <1>2, <1>3

\* Measurements that are true or false, and false when they are missing.
LEMMA FirstIsFalse ==
  ASSUME NEW f, Measured(f), NEW m \in Names, Scale(m) = <<FALSE, TRUE>>
  PROVE  /\ f[m] \in {0, 1, 2}
         /\ f[m] \in {0, 1} => FactoryReading(f, m, FALSE) = FALSE
         /\ f[m] = 2 => FactoryReading(f, m, FALSE) = TRUE
<1>1. f[m] \in 0..Len(Scale(m))   BY DEF Measured
<1>2. Len(Scale(m)) = 2 /\ Scale(m)[1] = FALSE /\ Scale(m)[2] = TRUE  OBVIOUS
<1>3. f[m] \in {0, 1, 2}  BY <1>1, <1>2
<1>4. f[m] = 0 => FactoryReading(f, m, FALSE) = FALSE  BY DEF FactoryReading, Read
<1>5. f[m] = 1 => FactoryReading(f, m, FALSE) = FALSE  BY <1>2 DEF FactoryReading, Read, Scale
<1>6. f[m] = 2 => FactoryReading(f, m, FALSE) = TRUE  BY <1>2 DEF FactoryReading, Read, Scale
<1> QED BY <1>3, <1>4, <1>5, <1>6

\* A scale from true to false.
LEMMA FirstIsTrue ==
  ASSUME NEW f, Measured(f), NEW m \in Names, Scale(m) = <<TRUE, FALSE>>
  PROVE  /\ f[m] \in {0, 1, 2}
         /\ f[m] \in {0, 2} => FactoryReading(f, m, FALSE) = FALSE
         /\ f[m] = 1 => FactoryReading(f, m, FALSE) = TRUE
<1>1. f[m] \in 0..Len(Scale(m))   BY DEF Measured
<1>2. Len(Scale(m)) = 2 /\ Scale(m)[1] = TRUE /\ Scale(m)[2] = FALSE  OBVIOUS
<1>3. f[m] \in {0, 1, 2}  BY <1>1, <1>2
<1>4. f[m] = 0 => FactoryReading(f, m, FALSE) = FALSE  BY DEF FactoryReading, Read
<1>5. f[m] = 2 => FactoryReading(f, m, FALSE) = FALSE  BY <1>2 DEF FactoryReading, Read, Scale
<1>6. f[m] = 1 => FactoryReading(f, m, FALSE) = TRUE  BY <1>2 DEF FactoryReading, Read, Scale
<1> QED BY <1>3, <1>4, <1>5, <1>6

\* The names of the measurements.
LEMMA AreNames ==
  /\ "temperature" \in Names /\ "humidity" \in Names /\ "pressure" \in Names
  /\ "ai" \in Names /\ "sound" \in Names /\ "samples" \in Names /\ "node1" \in Names
  /\ "node2" \in Names /\ "running" \in Names /\ "bme280" \in Names /\ "camera" \in Names
  /\ "disk" \in Names /\ "network" \in Names /\ "age" \in Names
BY DEF Names, FactoryNames, InfraNames

\* The states of measured facts are numbers.
LEMMA InputTypes ==
  ASSUME NEW f, Measured(f)
  PROVE  RiskInputs(FactoryInput(f), InfraInput(f), AgeInput(f))
<1>1. /\ FactoryReading(f, "temperature", None) \in Int
      /\ FactoryReading(f, "humidity", None) \in Int
      /\ FactoryReading(f, "pressure", None) \in Int
      /\ FactoryReading(f, "ai", None) \in Int
      /\ FactoryReading(f, "samples", None) \in Int
      /\ AgeInput(f) \in Int
      /\ FactoryReading(f, "running", 0) \in Nat
      /\ FactoryReading(f, "disk", None) \in Nat \cup {None}
  <2>1. None \in Int /\ 0 \in Nat /\ Nat \subseteq Int  BY DEF None
  <2>2. /\ FactoryReading(f, "temperature", None) \in Int \cup {None}
        /\ FactoryReading(f, "humidity", None) \in Int \cup {None}
        /\ FactoryReading(f, "pressure", None) \in Nat \cup {None}
        /\ FactoryReading(f, "ai", None) \in Int \cup {None}
        /\ FactoryReading(f, "samples", None) \in Nat \cup {None}
        /\ AgeInput(f) \in Nat \cup {None}
        /\ FactoryReading(f, "running", 0) \in Nat \cup {0}
        /\ FactoryReading(f, "disk", None) \in Nat \cup {None}
    BY AreNames, ScaleTypes, NumberIs DEF AgeInput
  <2> QED BY <2>1, <2>2
<1>2. \A v \in Int : NumberOrZero(v) \in Int  BY DEF NumberOrZero
<1>3. FactoryNumbers(FactoryInput(f))
  BY <1>1, <1>2, FactoryInputIs DEF FactoryNumbers
<1>4. ASSUME AgeInput(f) # None PROVE InfraNumbers(InfraInput(f))
  <2> DEFINE i == InfraInput(f)
  <2>1. i.nodesTotal = 2 /\ i.nodesReady \in 0..2
    <3>1. ReadyNodes(f) \in SUBSET TwoNodes  BY DEF ReadyNodes
    <3> QED BY <1>4, <3>1, InfraInputIs, NodesCounted
  <2>2. i.podsTotal = 2 /\ i.podsReady \in Nat  BY <1>1, <1>4, InfraInputIs
  <2>3. i.disks = {} \/ \E d \in Nat : i.disks = {d}
    <3> DEFINE d == FactoryReading(f, "disk", None)
    <3>1. i.disks = {d, None} \ {None}  BY <1>4, InfraInputIs
    <3>2. d = None \/ (d \in Nat /\ d # None)  BY <1>1 DEF None
    <3> HIDE DEF d, i
    <3> QED BY <3>1, <3>2
  <2>4. DOMAIN i.networks = {"node1", "node2"}
    <3>1. i.networks = [n \in TwoNodes |->
                          IF n = "node1" THEN FactoryReading(f, "network", "unknown")
                          ELSE "unknown"]
      BY <1>4, InfraInputIs
    <3> HIDE DEF i
    <3> QED BY <3>1 DEF TwoNodes
  <2> HIDE DEF i
  <2> QED BY <2>1, <2>2, <2>3, <2>4 DEF InfraNumbers, i
<1>5. AgeInput(f) = None => InfraInput(f) = NoInfra  BY DEF InfraInput
<1> QED BY <1>1, <1>3, <1>4, <1>5 DEF RiskInputs

\* A worse factory state: further beyond every threshold.
WorseFactory(x, y) ==
  /\ x.temperature <= y.temperature /\ x.humidity <= y.humidity /\ x.ai <= y.ai
  /\ FromMiddle(x.pressure) <= FromMiddle(y.pressure)
  /\ x.sound \in BOOLEAN /\ y.sound \in BOOLEAN /\ (x.sound => y.sound)
  /\ x.samples = 0 => y.samples = 0

\* Worse places make a worse factory state.
LEMMA FactoryWorsens ==
  ASSUME NEW f, Measured(f), NEW g, Measured(g), WorsePlaces(f, g)
  PROVE  WorseFactory(FactoryInput(f), FactoryInput(g))
<1>0. /\ Int \subseteq Int /\ Nat \subseteq Int /\ NumberOrZero(None) = 0
      /\ \A v, w \in Int : v <= w => NumberOrZero(v) <= NumberOrZero(w)
      /\ \A v \in Nat : NumberOrZero(v) = v
  BY DEF NumberOrZero, None
<1>1. /\ NumberOrZero(FactoryReading(f, "temperature", None))
           <= NumberOrZero(FactoryReading(g, "temperature", None))
      /\ NumberOrZero(FactoryReading(f, "humidity", None))
           <= NumberOrZero(FactoryReading(g, "humidity", None))
      /\ NumberOrZero(FactoryReading(f, "ai", None))
           <= NumberOrZero(FactoryReading(g, "ai", None))
  <2>1. ASSUME NEW m \in {"temperature", "humidity", "ai"}
        PROVE  NumberOrZero(FactoryReading(f, m, None)) <= NumberOrZero(FactoryReading(g, m, None))
    <3>1. m \in Names /\ Scale(m) \in Seq(Int) /\ Rising(Scale(m))
      BY AreNames, ScaleTypes
    <3>2. \/ FactoryReading(f, m, None) = None /\ FactoryReading(g, m, None) = None
          \/ /\ FactoryReading(f, m, None) \in Int /\ FactoryReading(g, m, None) \in Int
             /\ FactoryReading(f, m, None) <= FactoryReading(g, m, None)
      BY <1>0, <3>1, NumberWorsens
    <3> QED BY <1>0, <3>2
  <2> QED BY <2>1
<1>2. FromMiddle(NumberOrZero(FactoryReading(f, "pressure", None)))
        <= FromMiddle(NumberOrZero(FactoryReading(g, "pressure", None)))
  <2> DEFINE s == Scale("pressure")
             v == FactoryReading(f, "pressure", None)
             w == FactoryReading(g, "pressure", None)
             j == f["pressure"]
             k == g["pressure"]
  <2>1. \/ v = None /\ w = None
        \/ j \in DOMAIN s /\ k \in DOMAIN s /\ v = s[j] /\ w = s[k] /\ v \in Nat /\ w \in Nat
    <3>1. "pressure" \in Names /\ s \in Seq(Nat)  BY AreNames, ScaleTypes
    <3> HIDE DEF FactoryReading
    <3> QED BY <1>0, <3>1, NumberWorsens
  <2>2. j <= k  BY AreNames DEF WorsePlaces
  <2>3. \A l, n \in DOMAIN s : l <= n => FromMiddle(s[l]) <= FromMiddle(s[n])
    BY ScaleTypes
  <2>4. FromMiddle(0) <= FromMiddle(0)  BY DEF FromMiddle
  <2> HIDE DEF s, v, w, j, k
  <2>5. FromMiddle(NumberOrZero(v)) <= FromMiddle(NumberOrZero(w))
    <3>1. CASE v = None /\ w = None  BY <1>0, <2>4, <3>1
    <3>2. CASE j \in DOMAIN s /\ k \in DOMAIN s /\ v = s[j] /\ w = s[k] /\ v \in Nat /\ w \in Nat
      <4>1. FromMiddle(s[j]) <= FromMiddle(s[k])  BY <2>2, <2>3, <3>2
      <4>2. NumberOrZero(v) = s[j] /\ NumberOrZero(w) = s[k]  BY <1>0, <3>2
      <4> QED BY <4>1, <4>2
    <3> QED BY <2>1, <3>1, <3>2
  <2> QED BY <2>5 DEF v, w
<1>3. /\ FactoryReading(f, "sound", FALSE) \in BOOLEAN
      /\ FactoryReading(g, "sound", FALSE) \in BOOLEAN
      /\ FactoryReading(f, "sound", FALSE) => FactoryReading(g, "sound", FALSE)
  <2>0. "sound" \in Names /\ Scale("sound") = <<FALSE, TRUE>>  BY AreNames, ScaleTypes
  <2>1. /\ f["sound"] \in {0, 1, 2} /\ g["sound"] \in {0, 1, 2}
        /\ f["sound"] \in {0, 1} => FactoryReading(f, "sound", FALSE) = FALSE
        /\ f["sound"] = 2 => FactoryReading(f, "sound", FALSE) = TRUE
        /\ g["sound"] \in {0, 1} => FactoryReading(g, "sound", FALSE) = FALSE
        /\ g["sound"] = 2 => FactoryReading(g, "sound", FALSE) = TRUE
    BY <2>0, FirstIsFalse
  <2>2. f["sound"] <= g["sound"]  BY AreNames DEF WorsePlaces
  <2>3. f["sound"] = 2 => g["sound"] = 2  BY <2>1, <2>2
  <2> HIDE DEF FactoryReading
  <2> QED BY <2>1, <2>3
<1>4. NumberOrZero(FactoryReading(f, "samples", None)) = 0
        => NumberOrZero(FactoryReading(g, "samples", None)) = 0
  <2>1. \/ FactoryReading(f, "samples", None) = None /\ FactoryReading(g, "samples", None) = None
        \/ /\ FactoryReading(f, "samples", None) \in Nat
           /\ FactoryReading(g, "samples", None) \in Nat
           /\ FactoryReading(g, "samples", None) <= FactoryReading(f, "samples", None)
    <3>1. "samples" \in Names /\ Scale("samples") \in Seq(Nat) /\ Falling(Scale("samples"))
      BY AreNames, ScaleTypes
    <3> QED BY <1>0, <3>1, NumberWorsens
  <2> QED BY <1>0, <2>1
<1> QED BY <1>1, <1>2, <1>3, <1>4, FactoryInputIs DEF WorseFactory

\* A worse infra state: of the same nodes, pods, devices, disks and networks.
WorseInfra(i, j) ==
  /\ j.nodesReady <= i.nodesReady /\ j.podsReady <= i.podsReady
  /\ Unavailable(i) \subseteq Unavailable(j) /\ Present(i) = Present(j)
  /\ \/ i.disks = {} /\ j.disks = {}
     \/ \E d, e \in Nat : i.disks = {d} /\ j.disks = {e} /\ d <= e
  /\ KnownNetworks(i) = KnownNetworks(j) /\ BadNetworks(i) \subseteq BadNetworks(j)

\* ... and older data.
LEMMA AgeWorsens ==
  ASSUME NEW f, Measured(f), NEW g, Measured(g), WorsePlaces(f, g)
  PROVE  \/ AgeInput(f) = None /\ AgeInput(g) = None
         \/ AgeInput(f) \in Nat /\ AgeInput(g) \in Nat /\ AgeInput(f) <= AgeInput(g)
<1>1. Nat \subseteq Int  OBVIOUS
<1>2. "age" \in Names /\ Scale("age") \in Seq(Nat) /\ Rising(Scale("age"))
  BY AreNames, ScaleTypes
<1> QED BY <1>1, <1>2, NumberWorsens DEF AgeInput

\* ... and a worse infra state.
LEMMA InfraWorsens ==
  ASSUME NEW f, Measured(f), NEW g, Measured(g), WorsePlaces(f, g),
         AgeInput(f) # None, AgeInput(g) # None
  PROVE  WorseInfra(InfraInput(f), InfraInput(g))
<1> DEFINE i == InfraInput(f)
           j == InfraInput(g)
<1>0. Nat \subseteq Int /\ \A m \in Names : f[m] <= g[m] /\ (f[m] = 0 => g[m] = 0)
  BY DEF WorsePlaces
<1>1. j.nodesReady <= i.nodesReady
  <2>1. ASSUME NEW n \in TwoNodes
        PROVE  FactoryReading(g, n, FALSE) => FactoryReading(f, n, FALSE)
    <3>1. n \in Names /\ Scale(n) = <<TRUE, FALSE>>
      BY AreNames, ScaleTypes DEF TwoNodes
    <3>2. /\ f[n] \in {0, 1, 2} /\ g[n] \in {0, 1, 2}
          /\ f[n] = 1 => FactoryReading(f, n, FALSE) = TRUE
          /\ g[n] \in {0, 2} => FactoryReading(g, n, FALSE) = FALSE
      BY <3>1, FirstIsTrue
    <3>3. g[n] = 1 => f[n] = 1  BY <1>0, <3>1, <3>2
    <3> QED BY <3>2, <3>3
  <2>2. ReadyNodes(g) \subseteq ReadyNodes(f)  BY <2>1 DEF ReadyNodes
  <2>3. IsFiniteSet(ReadyNodes(f))
    <3>1. ReadyNodes(f) \in SUBSET TwoNodes  BY DEF ReadyNodes
    <3> QED BY <3>1, NodesCounted
  <2>4. Cardinality(ReadyNodes(g)) <= Cardinality(ReadyNodes(f))  BY <2>2, <2>3, FS_Subset
  <2>5. i.nodesReady = Cardinality(ReadyNodes(f)) /\ j.nodesReady = Cardinality(ReadyNodes(g))
    BY InfraInputIs
  <2> QED BY <2>4, <2>5
<1>2. j.podsReady <= i.podsReady
  <2>1. \/ FactoryReading(f, "running", 0) = 0 /\ FactoryReading(g, "running", 0) = 0
        \/ FactoryReading(g, "running", 0) <= FactoryReading(f, "running", 0)
    <3>1. "running" \in Names /\ Scale("running") \in Seq(Nat) /\ Falling(Scale("running"))
      BY AreNames, ScaleTypes
    <3> QED BY <1>0, <3>1, NumberWorsens
  <2>2. 0 <= 0  OBVIOUS
  <2>3. FactoryReading(g, "running", 0) <= FactoryReading(f, "running", 0)  BY <2>1, <2>2
  <2> QED BY <2>3, InfraInputIs
<1>3. ASSUME NEW d \in Required
      PROVE  /\ i.devices[d] = "unavailable" => j.devices[d] = "unavailable"
             /\ i.devices[d] = "absent" <=> j.devices[d] = "absent"
  <2>0. /\ i.devices = [c \in Required |-> IF c = "microphone" THEN "absent"
                                           ELSE FactoryReading(f, c, "absent")]
        /\ j.devices = [c \in Required |-> IF c = "microphone" THEN "absent"
                                           ELSE FactoryReading(g, c, "absent")]
    BY InfraInputIs
  <2>1. /\ i.devices[d] = IF d = "microphone" THEN "absent" ELSE FactoryReading(f, d, "absent")
        /\ j.devices[d] = IF d = "microphone" THEN "absent" ELSE FactoryReading(g, d, "absent")
    <3> HIDE DEF i, j
    <3> QED BY <2>0
  <2>2. CASE d = "microphone"  BY <2>1, <2>2
  <2>3. CASE d # "microphone"
    <3>1. d \in Names /\ Scale(d) = <<"available", "unavailable">>
      BY <2>3, AreNames, ScaleTypes DEF Required
    <3>2. /\ f[d] \in {0, 1, 2} /\ g[d] \in {0, 1, 2}
          /\ f[d] = 0 => FactoryReading(f, d, "absent") = "absent"
          /\ f[d] = 1 => FactoryReading(f, d, "absent") = "available"
          /\ f[d] = 2 => FactoryReading(f, d, "absent") = "unavailable"
          /\ g[d] = 0 => FactoryReading(g, d, "absent") = "absent"
          /\ g[d] = 1 => FactoryReading(g, d, "absent") = "available"
          /\ g[d] = 2 => FactoryReading(g, d, "absent") = "unavailable"
      BY <3>1, TwoPlaces
    <3>3. (f[d] = 0 <=> g[d] = 0) /\ (f[d] = 2 => g[d] = 2)  BY <1>0, <3>1, <3>2
    <3> QED BY <2>1, <2>3, <3>2, <3>3
  <2> QED BY <2>2, <2>3
<1>4. Unavailable(i) \subseteq Unavailable(j) /\ Present(i) = Present(j)
  <2> HIDE DEF i, j
  <2> QED BY <1>3 DEF Unavailable, Present
<1>5. \/ i.disks = {} /\ j.disks = {}
      \/ \E d, e \in Nat : i.disks = {d} /\ j.disks = {e} /\ d <= e
  <2> DEFINE d == FactoryReading(f, "disk", None)
             e == FactoryReading(g, "disk", None)
  <2>1. i.disks = {d, None} \ {None} /\ j.disks = {e, None} \ {None}  BY InfraInputIs
  <2>2. (d = None /\ e = None) \/ (d \in Nat /\ e \in Nat /\ d <= e)
    <3>1. "disk" \in Names /\ Scale("disk") \in Seq(Nat) /\ Rising(Scale("disk"))
      BY AreNames, ScaleTypes
    <3> QED BY <1>0, <3>1, NumberWorsens
  <2> HIDE DEF d, e, i, j
  <2>3. CASE d = None /\ e = None  BY <2>1, <2>3
  <2>4. CASE d \in Nat /\ e \in Nat /\ d <= e
    <3>1. d # None /\ e # None  BY <2>4 DEF None
    <3>2. i.disks = {d} /\ j.disks = {e}  BY <2>1, <3>1
    <3> QED BY <2>4, <3>2
  <2> QED BY <2>2, <2>3, <2>4
<1>6. KnownNetworks(i) = KnownNetworks(j) /\ BadNetworks(i) \subseteq BadNetworks(j)
  <2> DEFINE v == FactoryReading(f, "network", "unknown")
             w == FactoryReading(g, "network", "unknown")
  <2>1. /\ i.networks = [n \in TwoNodes |-> IF n = "node1" THEN v ELSE "unknown"]
        /\ j.networks = [n \in TwoNodes |-> IF n = "node1" THEN w ELSE "unknown"]
    BY InfraInputIs
  <2>2. /\ f["network"] \in {0, 1, 2} /\ g["network"] \in {0, 1, 2}
        /\ f["network"] = 0 => v = "unknown"
        /\ f["network"] = 1 => v = "ok"
        /\ f["network"] = 2 => v = "bad"
        /\ g["network"] = 0 => w = "unknown"
        /\ g["network"] = 1 => w = "ok"
        /\ g["network"] = 2 => w = "bad"
    BY AreNames, ScaleTypes, TwoPlaces
  <2>3. (f["network"] = 0 <=> g["network"] = 0) /\ (f["network"] = 2 => g["network"] = 2)
    BY <1>0, <2>2, AreNames
  <2> HIDE DEF v, w, i, j
  <2>4. (v = "unknown" <=> w = "unknown") /\ (v = "bad" => w = "bad") /\ v \in {"unknown", "ok", "bad"}
        /\ w \in {"unknown", "ok", "bad"}
    BY <2>2, <2>3
  <2>5. /\ KnownNetworks(i) = {n \in TwoNodes : n = "node1" /\ v # "unknown"}
        /\ KnownNetworks(j) = {n \in TwoNodes : n = "node1" /\ w # "unknown"}
    BY <2>1 DEF KnownNetworks
  <2>6. /\ BadNetworks(i) = {n \in KnownNetworks(i) : v # "ok"}
        /\ BadNetworks(j) = {n \in KnownNetworks(j) : w # "ok"}
    BY <2>1, <2>5 DEF BadNetworks
  <2> QED BY <2>4, <2>5, <2>6
<1> QED BY <1>1, <1>2, <1>4, <1>5, <1>6 DEF WorseInfra

-----------------------------------------------------------------------------
(***************************************************************************)
(* Worse measurements take off no less.                                    *)
(***************************************************************************)
LEMMA AmountTypes == \A f \in Fields : \A p, w \in Int : Amount(f, p, w) \in Int
<1> SUFFICES ASSUME NEW f \in Fields, NEW p \in Int, NEW w \in Int PROVE Amount(f, p, w) \in Int
  OBVIOUS
<1>1. Amount(f, p, w) \in Nat  BY AmountRange
<1> QED BY <1>1

\* No risk takes nothing.
LEMMA NothingTaken ==
  ASSUME NEW field \in Fields, NEW part \in Int, part <= 0, NEW whole \in Int
  PROVE  Amount(field, part, whole) = 0
<1>1. Weighted(field, part, whole) = << >>  BY WeightedIs
<1>2. TotalOf(Weighted(field, part, whole)) = Amount(field, part, whole)  BY WeightedIs
<1> QED BY <1>1, <1>2, TotalOfNone

\* A worse factory state takes more off the score.
LEMMA FactoryTakesMore ==
  ASSUME NEW x, FactoryNumbers(x), NEW y, FactoryNumbers(y), WorseFactory(x, y)
  PROVE  /\ FactoryAmount(x) <= FactoryAmount(y)
         /\ FactoryAmount(x) \in Int /\ FactoryAmount(y) \in Int
<1>0. /\ "temperature" \in Fields /\ "humidity" \in Fields /\ "pressure" \in Fields
      /\ "ai_event_rate" \in Fields /\ 6 \in Int /\ 15 \in Int /\ 20 \in Int /\ 100 \in Int
      /\ \A f \in Fields : \A p, w \in Int : Amount(f, p, w) \in Int
  BY WeightTypes, AmountTypes
<1>1. /\ x.temperature - 32 \in Int /\ y.temperature - 32 \in Int
      /\ x.temperature - 32 <= y.temperature - 32
      /\ x.humidity - 70 \in Int /\ y.humidity - 70 \in Int /\ x.humidity - 70 <= y.humidity - 70
      /\ Noise(x) \in Int /\ Noise(y) \in Int /\ Noise(x) <= Noise(y)
  BY DEF FactoryNumbers, WorseFactory, Noise
<1>2. Amount("temperature", x.temperature - 32, 6) <= Amount("temperature", y.temperature - 32, 6)
  BY <1>0, <1>1, AmountRises
<1>3. Amount("humidity", x.humidity - 70, 15) <= Amount("humidity", y.humidity - 70, 15)
  BY <1>0, <1>1, AmountRises
<1>4. Amount("ai_event_rate", Noise(x), 100) <= Amount("ai_event_rate", Noise(y), 100)
  BY <1>0, <1>1, AmountRises
<1>5. PressureAmount(x.pressure) <= PressureAmount(y.pressure)
  <2> DEFINE p == IF x.pressure < 990 THEN 990 - x.pressure ELSE x.pressure - 1030
             q == IF y.pressure < 990 THEN 990 - y.pressure ELSE y.pressure - 1030
  <2>1. /\ PressureAmount(x.pressure) = Amount("pressure", p, 20)
        /\ PressureAmount(y.pressure) = Amount("pressure", q, 20)
    BY DEF PressureAmount
  <2>2. p \in Int /\ q \in Int  BY DEF FactoryNumbers
  <2>3. p <= q \/ p <= 0
    BY DEF FactoryNumbers, WorseFactory, FromMiddle
  <2> HIDE DEF p, q
  <2>4. CASE p <= q  BY <1>0, <2>1, <2>2, <2>4, AmountRises
  <2>5. CASE p <= 0
    <3>1. Amount("pressure", p, 20) = 0  BY <1>0, <2>2, <2>5, NothingTaken
    <3>2. Amount("pressure", q, 20) \in Nat  BY <1>0, <2>2, AmountRange
    <3> QED BY <2>1, <3>1, <3>2
  <2> QED BY <2>3, <2>4, <2>5
<1>6. PressureAmount(x.pressure) \in Int /\ PressureAmount(y.pressure) \in Int
  <2>1. /\ 990 - x.pressure \in Int /\ x.pressure - 1030 \in Int
        /\ 990 - y.pressure \in Int /\ y.pressure - 1030 \in Int
    BY DEF FactoryNumbers
  <2> QED BY <1>0, <2>1 DEF PressureAmount
<1>7. /\ Amount("temperature", x.temperature - 32, 6) \in Int
      /\ Amount("temperature", y.temperature - 32, 6) \in Int
      /\ Amount("humidity", x.humidity - 70, 15) \in Int
      /\ Amount("humidity", y.humidity - 70, 15) \in Int
      /\ Amount("ai_event_rate", Noise(x), 100) \in Int
      /\ Amount("ai_event_rate", Noise(y), 100) \in Int
  BY <1>0, <1>1
<1> QED BY <1>2, <1>3, <1>4, <1>5, <1>6, <1>7 DEF FactoryAmount

\* So does a worse infra state.
LEMMA InfraTakesMore ==
  ASSUME NEW i, InfraNumbers(i), NEW j, InfraNumbers(j), WorseInfra(i, j)
  PROVE  /\ InfraAmount(i) <= InfraAmount(j)
         /\ InfraAmount(i) \in Int /\ InfraAmount(j) \in Int
<1>0. /\ "node_status" \in Fields /\ "pod_health" \in Fields /\ "device_availability" \in Fields
      /\ "storage_pressure" \in Fields /\ "network_reachability" \in Fields
      /\ \A f \in Fields : \A p, w \in Int : Amount(f, p, w) \in Int
  BY WeightTypes, AmountTypes
<1>1. /\ i.nodesTotal = 2 /\ j.nodesTotal = 2 /\ i.podsTotal = 2 /\ j.podsTotal = 2
      /\ 2 - i.nodesReady \in Int /\ 2 - j.nodesReady \in Int
      /\ 2 - i.nodesReady <= 2 - j.nodesReady
      /\ 2 - i.podsReady \in Int /\ 2 - j.podsReady \in Int
      /\ 2 - i.podsReady <= 2 - j.podsReady
      /\ 2 \in Int
  BY DEF InfraNumbers, WorseInfra
<1> DEFINE n(k) == Amount("node_status", k.nodesTotal - k.nodesReady, k.nodesTotal)
           p(k) == Amount("pod_health", k.podsTotal - k.podsReady, k.podsTotal)
           d(k) == Amount("device_availability", Cardinality(Unavailable(k)),
                          Cardinality(Present(k)))
           w(k) == Amount("network_reachability", Cardinality(BadNetworks(k)),
                          Cardinality(KnownNetworks(k)))
<1>2. n(i) <= n(j) /\ n(i) \in Int /\ n(j) \in Int
  <2>1. n(i) = Amount("node_status", 2 - i.nodesReady, 2)
        /\ n(j) = Amount("node_status", 2 - j.nodesReady, 2)
    BY <1>1
  <2> DEFINE u == 2 - i.nodesReady
             v == 2 - j.nodesReady
  <2>2. u \in Int /\ v \in Int /\ u <= v /\ n(i) = Amount("node_status", u, 2)
        /\ n(j) = Amount("node_status", v, 2)
    BY <1>1, <2>1
  <2> HIDE DEF n, u, v
  <2> QED BY <1>0, <1>1, <2>2, AmountRises
<1>3. p(i) <= p(j) /\ p(i) \in Int /\ p(j) \in Int
  <2>1. p(i) = Amount("pod_health", 2 - i.podsReady, 2)
        /\ p(j) = Amount("pod_health", 2 - j.podsReady, 2)
    BY <1>1
  <2> DEFINE u == 2 - i.podsReady
             v == 2 - j.podsReady
  <2>2. u \in Int /\ v \in Int /\ u <= v /\ p(i) = Amount("pod_health", u, 2)
        /\ p(j) = Amount("pod_health", v, 2)
    BY <1>1, <2>1
  <2> HIDE DEF p, u, v
  <2> QED BY <1>0, <1>1, <2>2, AmountRises
<1>4. /\ Cardinality(Unavailable(i)) \in Int /\ Cardinality(Unavailable(j)) \in Int
      /\ Cardinality(Unavailable(i)) <= Cardinality(Unavailable(j))
      /\ Cardinality(Present(i)) \in Int /\ Present(i) = Present(j)
  BY InfraCounts, FS_Subset DEF WorseInfra
<1>5. d(i) <= d(j) /\ d(i) \in Int /\ d(j) \in Int
  BY <1>0, <1>4, AmountRises
<1>6. /\ Cardinality(BadNetworks(i)) \in Int /\ Cardinality(BadNetworks(j)) \in Int
      /\ Cardinality(BadNetworks(i)) <= Cardinality(BadNetworks(j))
      /\ Cardinality(KnownNetworks(i)) \in Int /\ KnownNetworks(i) = KnownNetworks(j)
  BY InfraCounts, FS_Subset DEF WorseInfra
<1>7. w(i) <= w(j) /\ w(i) \in Int /\ w(j) \in Int
  BY <1>0, <1>6, AmountRises
<1>8. DiskAmount(i) <= DiskAmount(j) /\ DiskAmount(i) \in Int /\ DiskAmount(j) \in Int
  <2>1. CASE i.disks = {} /\ j.disks = {}
    <3>1. DiskAmount(i) = 0 /\ DiskAmount(j) = 0  BY <2>1 DEF DiskAmount
    <3> QED BY <3>1
  <2>2. CASE \E a, b \in Nat : i.disks = {a} /\ j.disks = {b} /\ a <= b
    <3>1. PICK a \in Nat, b \in Nat : i.disks = {a} /\ j.disks = {b} /\ a <= b  BY <2>2
    <3>2. /\ DiskAmount(i) = Amount("storage_pressure", a - 75, 15)
          /\ DiskAmount(j) = Amount("storage_pressure", b - 75, 15)
      BY <3>1, DiskOf DEF DiskAmount
    <3>3. a - 75 \in Int /\ b - 75 \in Int /\ a - 75 <= b - 75 /\ 15 \in Int  BY <3>1
    <3> QED BY <1>0, <3>2, <3>3, AmountRises
  <2> QED BY <2>1, <2>2 DEF WorseInfra
<1>9. i # NoInfra /\ j # NoInfra  BY InfraCounts
<1>10. /\ InfraAmount(i) = n(i) + p(i) + d(i) + DiskAmount(i) + w(i)
       /\ InfraAmount(j) = n(j) + p(j) + d(j) + DiskAmount(j) + w(j)
  BY <1>9 DEF InfraAmount
<1> HIDE DEF n, p, d, w
<1> QED BY <1>2, <1>3, <1>5, <1>7, <1>8, <1>10

\* So does older data, but never more than ten points.
LEMMA AgeTakesMore ==
  ASSUME NEW a \in Int, NEW b \in Int,
         (a = None /\ b = None) \/ (a \in Nat /\ b \in Nat /\ a <= b)
  PROVE  /\ FreshnessAmount(a) <= FreshnessAmount(b)
         /\ FreshnessAmount(a) \in Int /\ FreshnessAmount(b) \in Int
         /\ FreshnessAmount(a) <= 1000 /\ FreshnessAmount(b) <= 1000
<1>0. "data_freshness" \in Fields /\ Weights["data_freshness"] = 1000 /\ 60 \in Int /\ 1 \in Int
  BY WeightTypes DEF Weights
<1>1. ASSUME NEW p \in Int, NEW w \in Int
      PROVE  Amount("data_freshness", p, w) \in Int /\ Amount("data_freshness", p, w) <= 1000
  BY <1>0, AmountRange
<1>2. CASE a = None /\ b = None
  <2>1. FreshnessAmount(a) = Amount("data_freshness", 1, 1) /\ FreshnessAmount(b) = FreshnessAmount(a)
    BY <1>2 DEF FreshnessAmount
  <2> QED BY <1>0, <1>1, <2>1
<1>3. CASE a \in Nat /\ b \in Nat /\ a <= b
  <2>1. a # None /\ b # None  BY <1>3 DEF None
  <2>2. /\ FreshnessAmount(a) = Amount("data_freshness", a - 60, 60)
        /\ FreshnessAmount(b) = Amount("data_freshness", b - 60, 60)
    BY <2>1 DEF FreshnessAmount
  <2>3. a - 60 \in Int /\ b - 60 \in Int /\ a - 60 <= b - 60  BY <1>3
  <2> QED BY <1>0, <1>1, <2>2, <2>3, AmountRises
<1> QED BY <1>2, <1>3

-----------------------------------------------------------------------------
(***************************************************************************)
(* Worse measurements raise no weaker gates.                               *)
(***************************************************************************)
AtLeast(g, h) == (g.cap = 0 => h.cap = 0) /\ (g.level = "danger" => h.level = "danger")

GatesWorsen(G, H) == \A g \in G : \E h \in H : AtLeast(g, h)

\* The gate that a condition raises.
LEMMA RaisedIs ==
  ASSUME NEW on, NEW name, NEW level, NEW field, NEW cap
  PROVE  /\ \A g \in Raised(on, name, level, field, cap) :
              /\ on
              /\ g = [name |-> name, level |-> level, field |-> field, cap |-> cap]
              /\ g.level = level /\ g.cap = cap /\ g.field = field
         /\ on => \E g \in Raised(on, name, level, field, cap) :
                    g.level = level /\ g.cap = cap /\ g.field = field
<1> DEFINE r == [name |-> name, level |-> level, field |-> field, cap |-> cap]
<1>1. r.level = level /\ r.cap = cap /\ r.field = field  OBVIOUS
<1> HIDE DEF r
<1>2. Raised(on, name, level, field, cap) = IF on THEN {r} ELSE {}  BY DEF Raised, r
<1>3. CASE on
  <2>1. Raised(on, name, level, field, cap) = {r}  BY <1>2, <1>3
  <2> QED BY <1>1, <1>3, <2>1 DEF r
<1>4. CASE ~ on
  <2>1. Raised(on, name, level, field, cap) = {}  BY <1>2, <1>4
  <2> QED BY <1>4, <2>1
<1> QED BY <1>3, <1>4

\* A condition that is answered by a gate at least as bad.
LEMMA RaisedWorsens ==
  ASSUME NEW on, NEW name, NEW level, NEW field, NEW cap, NEW H,
         on => \E h \in H : (cap = 0 => h.cap = 0) /\ (level = "danger" => h.level = "danger")
  PROVE  GatesWorsen(Raised(on, name, level, field, cap), H)
<1> SUFFICES ASSUME NEW g \in Raised(on, name, level, field, cap) PROVE \E h \in H : AtLeast(g, h)
  BY DEF GatesWorsen
<1>1. on /\ g.level = level /\ g.cap = cap  BY RaisedIs
<1> QED BY <1>1 DEF AtLeast

\* A worse factory state raises gates that are at least as bad.
LEMMA FactoryGatesWorsen ==
  ASSUME NEW x, FactoryNumbers(x), NEW y, FactoryNumbers(y), WorseFactory(x, y)
  PROVE  GatesWorsen(FactoryGateSet(x), FactoryGateSet(y))
<1> DEFINE c1(f) == f.temperature >= 38
           c2(f) == f.humidity >= 85
           c3(f) == f.ai >= 95
           c4(f) == f.ai < 95 /\ (f.ai >= 80 \/ (f.ai >= 60 /\ f.sound))
           r1(f) == Raised(c1(f), "temperature_critical", "warning", "temperature", NoCap)
           r2(f) == Raised(c2(f), "humidity_critical", "warning", "humidity", NoCap)
           r3(f) == Raised(c3(f), "ai_score_critical", "danger", "ai_event_rate", NoCap)
           r4(f) == Raised(c4(f), "ai_score_warning", "warning", "ai_event_rate", NoCap)
           H == FactoryGateSet(y)
<1>0. /\ FactoryGateSet(x) = r1(x) \cup r2(x) \cup r3(x) \cup r4(x)
      /\ H = r1(y) \cup r2(y) \cup r3(y) \cup r4(y)
  BY DEF FactoryGateSet
<1>1. /\ c1(x) => c1(y)
      /\ c2(x) => c2(y)
      /\ c3(x) => c3(y)
      /\ c4(x) => c3(y) \/ c4(y)
  BY DEF FactoryNumbers, WorseFactory
<1>2. NoCap # 0 /\ "warning" # "danger"  BY DEF NoCap, FullScore
<1> HIDE DEF c1, c2, c3, c4
<1>3. /\ c1(y) => \E h \in r1(y) : h.level = "warning"
      /\ c2(y) => \E h \in r2(y) : h.level = "warning"
      /\ c3(y) => \E h \in r3(y) : h.level = "danger"
      /\ c4(y) => \E h \in r4(y) : h.level = "warning"
  BY RaisedIs
<1> HIDE DEF H
<1>4. /\ c1(x) => \E h \in H : TRUE
      /\ c2(x) => \E h \in H : TRUE
      /\ c3(x) => \E h \in H : h.level = "danger"
      /\ c4(x) => \E h \in H : TRUE
  <2> HIDE DEF r1, r2, r3, r4
  <2> QED BY <1>0, <1>1, <1>3
<1>5. GatesWorsen(r1(x), H)  BY <1>2, <1>4, RaisedWorsens
<1>6. GatesWorsen(r2(x), H)  BY <1>2, <1>4, RaisedWorsens
<1>7. GatesWorsen(r3(x), H)  BY <1>2, <1>4, RaisedWorsens
<1>8. GatesWorsen(r4(x), H)  BY <1>2, <1>4, RaisedWorsens
<1> HIDE DEF r1, r2, r3, r4
<1>9. GatesWorsen(FactoryGateSet(x), H)  BY <1>0, <1>5, <1>6, <1>7, <1>8 DEF GatesWorsen
<1> QED BY <1>9 DEF H

\* So does a worse infra state.
LEMMA InfraGatesWorsen ==
  ASSUME NEW i, InfraNumbers(i), NEW j, InfraNumbers(j), WorseInfra(i, j),
         NEW x, NEW y, WorseFactory(x, y)
  PROVE  GatesWorsen(InfraGateSet(i, x), InfraGateSet(j, y))
<1> DEFINE c1(k) == k.nodesTotal > 0 /\ k.nodesReady = 0
           c2(k) == k.nodesReady > 0 /\ k.nodesReady < k.nodesTotal
           c3(k) == k.podsTotal > 0 /\ k.podsReady = 0
           c4(k) == k.podsReady > 0 /\ k.podsReady < k.podsTotal
           c5(k) == Unavailable(k) # {}
           r1(k) == Raised(c1(k), "nodes_all_not_ready", "danger", "node_status", 0)
           r2(k) == Raised(c2(k), "nodes_partially_not_ready", "warning", "node_status", NoCap)
           r3(k) == Raised(c3(k), "pods_all_unready", "danger", "pod_health", NoCap)
           r4(k) == Raised(c4(k), "pods_partially_unready", "warning", "pod_health", NoCap)
           r5(k, l) == Raised(c5(k), "required_device_unavailable", l, "device_availability",
                              NoCap)
           H == InfraGateSet(j, y)
<1>0. /\ InfraGateSet(i, x) = r1(i) \cup r2(i) \cup r3(i) \cup r4(i) \cup r5(i, DeviceLevel(i, x))
      /\ H = r1(j) \cup r2(j) \cup r3(j) \cup r4(j) \cup r5(j, DeviceLevel(j, y))
  BY InfraCounts DEF InfraGateSet
<1>1. /\ c1(i) => c1(j)
      /\ c2(i) => c1(j) \/ c2(j)
      /\ c3(i) => c3(j)
      /\ c4(i) => c3(j) \/ c4(j)
      /\ c5(i) => c5(j)
  <2>1. (c1(i) => c1(j)) /\ (c2(i) => c1(j) \/ c2(j))
    BY DEF InfraNumbers, WorseInfra
  <2>2. (c3(i) => c3(j)) /\ (c4(i) => c3(j) \/ c4(j))
    BY DEF InfraNumbers, WorseInfra
  <2>3. c5(i) => c5(j)
    BY DEF WorseInfra
  <2> QED BY <2>1, <2>2, <2>3
<1>2. DeviceLevel(i, x) = "danger" => DeviceLevel(j, y) = "danger"
  BY DEF DeviceLevel, WorseInfra, WorseFactory
<1>3. NoCap # 0 /\ "warning" # "danger"  BY DEF NoCap, FullScore
<1> HIDE DEF c1, c2, c3, c4, c5
<1>4. /\ c1(j) => \E h \in r1(j) : h.level = "danger" /\ h.cap = 0
      /\ c2(j) => \E h \in r2(j) : h.level = "warning"
      /\ c3(j) => \E h \in r3(j) : h.level = "danger"
      /\ c4(j) => \E h \in r4(j) : h.level = "warning"
      /\ c5(j) => \E h \in r5(j, DeviceLevel(j, y)) : h.level = DeviceLevel(j, y)
  BY RaisedIs
<1> HIDE DEF H
<1>5. /\ c1(i) => \E h \in H : h.level = "danger" /\ h.cap = 0
      /\ c2(i) => \E h \in H : TRUE
      /\ c3(i) => \E h \in H : h.level = "danger"
      /\ c4(i) => \E h \in H : TRUE
      /\ c5(i) => \E h \in H : h.level = DeviceLevel(j, y)
  <2> HIDE DEF r1, r2, r3, r4, r5
  <2> QED BY <1>0, <1>1, <1>4
<1>6. GatesWorsen(r1(i), H)  BY <1>5, RaisedWorsens
<1>7. GatesWorsen(r2(i), H)  BY <1>3, <1>5, RaisedWorsens
<1>8. GatesWorsen(r3(i), H)  BY <1>3, <1>5, RaisedWorsens
<1>9. GatesWorsen(r4(i), H)  BY <1>3, <1>5, RaisedWorsens
<1>10. GatesWorsen(r5(i, DeviceLevel(i, x)), H)
  <2> DEFINE l == DeviceLevel(i, x)
             m == DeviceLevel(j, y)
  <2>1. c5(i) => \E h \in H : h.level = m  BY <1>5
  <2>2. l = "danger" => m = "danger"  BY <1>2
  <2> HIDE DEF l, m
  <2>3. c5(i) => \E h \in H : (NoCap = 0 => h.cap = 0) /\ (l = "danger" => h.level = "danger")
    BY <1>3, <2>1, <2>2
  <2>4. GatesWorsen(r5(i, l), H)  BY <2>3, RaisedWorsens
  <2> QED BY <2>4 DEF l
<1> HIDE DEF r1, r2, r3, r4, r5
<1>11. GatesWorsen(InfraGateSet(i, x), H)
  BY <1>0, <1>6, <1>7, <1>8, <1>9, <1>10 DEF GatesWorsen
<1> QED BY <1>11 DEF H

\* pipeline_status() of an age, and the outage.
LEMMA PipelineIs ==
  /\ PipelineStatus(None) = "critical" /\ ~ Outage(None)
  /\ \A a \in Nat : /\ PipelineStatus(a) = IF a > 120 THEN "critical"
                                           ELSE IF a > 60 THEN "warning" ELSE "normal"
                    /\ Outage(a) <=> a > 300
<1>1. PipelineStatus(None) = "critical" /\ ~ Outage(None)
  BY DEF PipelineStatus, Outage
<1>2. ASSUME NEW a \in Nat
      PROVE  /\ PipelineStatus(a) = IF a > 120 THEN "critical"
                                    ELSE IF a > 60 THEN "warning" ELSE "normal"
             /\ Outage(a) <=> a > 300
  <2>1. a # None  BY DEF None
  <2> HIDE DEF None
  <2> QED BY <2>1 DEF PipelineStatus, Outage, OutageSeconds, CriticalSeconds, WarningSeconds
<1> QED BY <1>1, <1>2

\* So does older data.
LEMMA PipelineGatesWorsen ==
  ASSUME NEW a, NEW b, (a = None /\ b = None) \/ (a \in Nat /\ b \in Nat /\ a <= b)
  PROVE  GatesWorsen(PipelineGateSet(a), PipelineGateSet(b))
<1> DEFINE c1(t) == Outage(t)
           c2(t) == ~Outage(t) /\ PipelineStatus(t) = "critical"
           c3(t) == ~Outage(t) /\ PipelineStatus(t) = "warning"
           r1(t) == Raised(c1(t), "pipeline_status_outage", "danger", "data_freshness", 0)
           r2(t) == Raised(c2(t), "pipeline_status_critical", "danger", "data_freshness", NoCap)
           r3(t) == Raised(c3(t), "pipeline_status_warning", "warning", "data_freshness", NoCap)
           H == PipelineGateSet(b)
<1>0. PipelineGateSet(a) = r1(a) \cup r2(a) \cup r3(a) /\ H = r1(b) \cup r2(b) \cup r3(b)
  BY DEF PipelineGateSet
<1>1. /\ c1(a) => c1(b)
      /\ c2(a) => c1(b) \/ c2(b)
      /\ c3(a) => c1(b) \/ c2(b) \/ c3(b)
  <2>1. CASE a = None /\ b = None  BY <2>1
  <2>2. CASE a \in Nat /\ b \in Nat /\ a <= b
    <3>1. /\ PipelineStatus(a) = IF a > 120 THEN "critical"
                                 ELSE IF a > 60 THEN "warning" ELSE "normal"
          /\ Outage(a) <=> a > 300
          /\ PipelineStatus(b) = IF b > 120 THEN "critical"
                                 ELSE IF b > 60 THEN "warning" ELSE "normal"
          /\ Outage(b) <=> b > 300
      BY <2>2, PipelineIs
    <3> QED BY <2>2, <3>1
  <2> QED BY <2>1, <2>2
<1>2. NoCap # 0 /\ "warning" # "danger"  BY DEF NoCap, FullScore
<1> HIDE DEF c1, c2, c3
<1>3. /\ c1(b) => \E h \in r1(b) : h.level = "danger" /\ h.cap = 0
      /\ c2(b) => \E h \in r2(b) : h.level = "danger"
      /\ c3(b) => \E h \in r3(b) : h.level = "warning"
  BY RaisedIs
<1> HIDE DEF H
<1>4. /\ c1(a) => \E h \in H : h.level = "danger" /\ h.cap = 0
      /\ c2(a) => \E h \in H : h.level = "danger"
      /\ c3(a) => \E h \in H : TRUE
  <2> HIDE DEF r1, r2, r3
  <2> QED BY <1>0, <1>1, <1>3
<1>5. GatesWorsen(r1(a), H)  BY <1>4, RaisedWorsens
<1>6. GatesWorsen(r2(a), H)  BY <1>2, <1>4, RaisedWorsens
<1>7. GatesWorsen(r3(a), H)  BY <1>2, <1>4, RaisedWorsens
<1> HIDE DEF r1, r2, r3
<1>8. GatesWorsen(PipelineGateSet(a), H)  BY <1>0, <1>5, <1>6, <1>7 DEF GatesWorsen
<1> QED BY <1>8 DEF H

-----------------------------------------------------------------------------
\* The cap that gates put on the score.
CapFor(gates) ==
  IF \E g \in gates : g.cap = 0 THEN 0
  ELSE IF \E g \in gates : g.level = "danger" THEN DangerCap
  ELSE IF gates # {} THEN WarningCap ELSE NoCap

\* The cap of any gates.
LEMMA CapIs ==
  ASSUME NEW gates, \A g \in gates : GateLike(g), NEW base \in Int
  PROVE  Capped(base, gates) = IF base <= CapFor(gates) THEN base ELSE CapFor(gates)
<1> DEFINE caps == {CapOf(gates)} \cup {g.cap : g \in gates}
           cap == CHOOSE c \in caps : \A d \in caps : c <= d
<1> USE DEF FullScore, NoCap, DangerCap, WarningCap
<1>1. Capped(base, gates) = IF base <= cap THEN base ELSE cap
  BY DEF Capped, Least
<1>2. CapFor(gates) \in caps /\ \A d \in caps : d \in Int /\ CapFor(gates) <= d
  <2>1. \A g \in gates : g.cap \in {0, 10000} /\ (g.cap = 0 => g.level = "danger")
                         /\ g.level \in {"danger", "warning"}
    BY DEF GateLike
  <2>2. CapOf(gates) = IF \E g \in gates : g.level = "danger" THEN 4900
                       ELSE IF gates # {} THEN 8400 ELSE 10000
    BY <2>1 DEF CapOf
  <2>3. CASE \E g \in gates : g.cap = 0
    <3>1. CapFor(gates) = 0  BY <2>3 DEF CapFor
    <3>2. 0 \in caps /\ caps \subseteq {0, 4900, 10000}  BY <2>1, <2>2, <2>3
    <3> HIDE DEF caps
    <3> QED BY <3>1, <3>2
  <2>4. CASE ~ \E g \in gates : g.cap = 0
    <3>1. CapFor(gates) = CapOf(gates)  BY <2>1, <2>2, <2>4 DEF CapFor
    <3>2. caps \subseteq {CapOf(gates), 10000} /\ CapOf(gates) \in caps  BY <2>1, <2>4
    <3>3. CapOf(gates) \in {4900, 8400, 10000}  BY <2>2
    <3> HIDE DEF caps
    <3> QED BY <3>1, <3>2, <3>3
  <2> QED BY <2>3, <2>4
<1>3. cap \in caps /\ \A d \in caps : cap <= d
  <2> HIDE DEF caps
  <2> QED BY <1>2
<1>4. cap = CapFor(gates)
  <2> HIDE DEF cap, caps
  <2> QED BY <1>2, <1>3
<1> QED BY <1>1, <1>4

\* Gates that are at least as bad have no higher cap.
LEMMA CapFalls ==
  ASSUME NEW G, NEW H, \A h \in H : GateLike(h), GatesWorsen(G, H)
  PROVE  CapFor(H) <= CapFor(G) /\ CapFor(H) \in Nat /\ CapFor(G) \in Nat
<1>1. /\ (\E g \in G : g.cap = 0) => \E h \in H : h.cap = 0
      /\ (\E g \in G : g.level = "danger") => \E h \in H : h.level = "danger"
      /\ G # {} => H # {}
  BY DEF GatesWorsen, AtLeast
<1> QED BY <1>1 DEF CapFor, DangerCap, WarningCap, NoCap, FullScore

-----------------------------------------------------------------------------
FactoryRisk(f) == Risk(FactoryInput(f), InfraInput(f), AgeInput(f))

\* The score is the capped base, the level is the score's.
LEMMA RiskIs ==
  ASSUME NEW factory, NEW infra, NEW age
  PROVE  LET risk == Risk(factory, infra, age)
         IN risk.score = Capped(risk.base, risk.gates) /\ risk.level = Level(risk.score)
BY DEF Risk

\* What is left of the full score is a number.
LEMMA BaseIsNumber ==
  ASSUME NEW f, Measured(f)
  PROVE  /\ FactoryRisk(f).base \in 0..FullScore
         /\ Taken(FactoryInput(f), InfraInput(f), AgeInput(f)) \in Int
         /\ FactoryRisk(f).base =
              Clamp(FullScore - Taken(FactoryInput(f), InfraInput(f), AgeInput(f)), 0, FullScore)
<1> DEFINE taken == Taken(FactoryInput(f), InfraInput(f), AgeInput(f))
<1>1. taken \in Int /\ FactoryRisk(f).base = Clamp(FullScore - taken, 0, FullScore)
  BY InputTypes, PenaltiesTaken DEF FactoryRisk
<1> HIDE DEF taken
<1>2. FullScore - taken \in Int /\ FullScore \in Nat  BY <1>1 DEF FullScore
<1>3. Clamp(FullScore - taken, 0, FullScore) \in 0..FullScore  BY <1>2, ClampTypes
<1> QED BY <1>1, <1>3 DEF taken

\* With an age there is an infra state.
LEMMA InfraIsKnown ==
  ASSUME NEW f, Measured(f), AgeInput(f) # None
  PROVE  InfraNumbers(InfraInput(f))
<1> DEFINE i == InfraInput(f)
<1>1. i.nodesTotal = 2  BY InfraInputIs, NodesCounted
<1>2. i = NoInfra \/ InfraNumbers(i)  BY InputTypes DEF RiskInputs
<1> HIDE DEF i
<1>3. i # NoInfra  BY <1>1 DEF NoInfra, None
<1> QED BY <1>2, <1>3 DEF i

\* Worse measurements take more off the score.
LEMMA TakenRises ==
  ASSUME NEW f, Measured(f), NEW g, Measured(g), WorsePlaces(f, g)
  PROVE  Taken(FactoryInput(f), InfraInput(f), AgeInput(f))
           <= Taken(FactoryInput(g), InfraInput(g), AgeInput(g))
<1> DEFINE x == FactoryInput(f)
           y == FactoryInput(g)
           i == InfraInput(f)
           j == InfraInput(g)
           a == AgeInput(f)
           b == AgeInput(g)
<1>1. RiskInputs(x, i, a) /\ RiskInputs(y, j, b) /\ WorseFactory(x, y)
  BY InputTypes, FactoryWorsens
<1>2. (a = None /\ b = None) \/ (a \in Nat /\ b \in Nat /\ a <= b)
  BY AgeWorsens
<1>3. /\ FactoryAmount(x) <= FactoryAmount(y)
      /\ FactoryAmount(x) \in Int /\ FactoryAmount(y) \in Int
  BY <1>1, FactoryTakesMore DEF RiskInputs
<1>4. /\ FreshnessAmount(a) <= FreshnessAmount(b)
      /\ FreshnessAmount(a) \in Int /\ FreshnessAmount(b) \in Int
  <2>1. a \in Int /\ b \in Int  BY <1>1 DEF RiskInputs
  <2> HIDE DEF a, b
  <2> QED BY <1>2, <2>1, AgeTakesMore
<1>5. /\ InfraAmount(i) <= InfraAmount(j)
      /\ InfraAmount(i) \in Int /\ InfraAmount(j) \in Int
  <2>1. CASE a = None /\ b = None
    <3>1. i = NoInfra /\ j = NoInfra  BY <2>1 DEF InfraInput
    <3> HIDE DEF i, j
    <3>2. InfraAmount(i) = 0 /\ InfraAmount(j) = 0  BY <3>1 DEF InfraAmount
    <3> QED BY <3>2
  <2>2. CASE a \in Nat /\ b \in Nat /\ a <= b
    <3>1. a # None /\ b # None  BY <2>2 DEF None
    <3>2. WorseInfra(i, j)  BY <3>1, InfraWorsens
    <3>5. InfraNumbers(i) /\ InfraNumbers(j)  BY <3>1, InfraIsKnown
    <3> HIDE DEF i, j
    <3> QED BY <3>2, <3>5, InfraTakesMore
  <2> QED BY <1>2, <2>1, <2>2
<1> HIDE DEF x, y, i, j, a, b
<1>6. Taken(x, i, a) <= Taken(y, j, b)  BY <1>3, <1>4, <1>5 DEF Taken
<1> QED BY <1>6 DEF x, y, i, j, a, b

\* Worse measurements raise gates that are at least as bad.
LEMMA AllGatesWorsen ==
  ASSUME NEW f, Measured(f), NEW g, Measured(g), WorsePlaces(f, g)
  PROVE  GatesWorsen(FactoryRisk(f).gates, FactoryRisk(g).gates)
<1> DEFINE x == FactoryInput(f)
           y == FactoryInput(g)
           i == InfraInput(f)
           j == InfraInput(g)
           a == AgeInput(f)
           b == AgeInput(g)
<1>1. RiskInputs(x, i, a) /\ RiskInputs(y, j, b) /\ WorseFactory(x, y)
  BY InputTypes, FactoryWorsens
<1>2. (a = None /\ b = None) \/ (a \in Nat /\ b \in Nat /\ a <= b)
  BY AgeWorsens
<1>3. GatesWorsen(FactoryGateSet(x), FactoryGateSet(y))
  BY <1>1, FactoryGatesWorsen DEF RiskInputs
<1>4. GatesWorsen(PipelineGateSet(a), PipelineGateSet(b))
  <2> HIDE DEF a, b
  <2> QED BY <1>2, PipelineGatesWorsen
<1>5. GatesWorsen(InfraGateSet(i, x), InfraGateSet(j, y))
  <2>1. CASE a = None /\ b = None
    <3>1. i = NoInfra  BY <2>1 DEF InfraInput
    <3> HIDE DEF i
    <3>2. InfraGateSet(i, x) = {}  BY <3>1 DEF InfraGateSet
    <3> QED BY <3>2 DEF GatesWorsen
  <2>2. CASE a \in Nat /\ b \in Nat /\ a <= b
    <3>1. a # None /\ b # None  BY <2>2 DEF None
    <3>2. WorseInfra(i, j)  BY <3>1, InfraWorsens
    <3>5. InfraNumbers(i) /\ InfraNumbers(j)  BY <3>1, InfraIsKnown
    <3> HIDE DEF i, j
    <3> QED BY <1>1, <3>2, <3>5, InfraGatesWorsen
  <2> QED BY <1>2, <2>1, <2>2
<1>6. /\ FactoryRisk(f).gates =
           FactoryGateSet(x) \cup InfraGateSet(i, x) \cup PipelineGateSet(a)
      /\ FactoryRisk(g).gates =
           FactoryGateSet(y) \cup InfraGateSet(j, y) \cup PipelineGateSet(b)
  BY RiskGatesAre DEF FactoryRisk, GateSet
<1> HIDE DEF x, y, i, j, a, b
<1> QED BY <1>3, <1>4, <1>5, <1>6 DEF GatesWorsen

\* The gates of calculate() are such, whatever was measured.
LEMMA GatesAreLike ==
  ASSUME NEW f
  PROVE  \A g \in FactoryRisk(f).gates : GateLike(g) /\ g \in Gates
<1>1. FactoryRisk(f).gates \subseteq Gates  BY RiskGatesAre DEF FactoryRisk
<1> QED BY <1>1 DEF Gates

\* calculate() is monotone: what is nowhere better does not score higher.
LEMMA WorseScores ==
  ASSUME NEW f, Measured(f), NEW g, Measured(g), WorsePlaces(f, g)
  PROVE  FactoryRisk(g).score <= FactoryRisk(f).score
<1> DEFINE s == Taken(FactoryInput(f), InfraInput(f), AgeInput(f))
           t == Taken(FactoryInput(g), InfraInput(g), AgeInput(g))
           p == FactoryRisk(f).base
           q == FactoryRisk(g).base
           G == FactoryRisk(f).gates
           H == FactoryRisk(g).gates
<1>1. /\ p \in 0..FullScore /\ q \in 0..FullScore /\ s \in Int /\ t \in Int /\ s <= t
      /\ p = Clamp(FullScore - s, 0, FullScore) /\ q = Clamp(FullScore - t, 0, FullScore)
  BY BaseIsNumber, TakenRises
<1>2. /\ FactoryRisk(f).score = Capped(p, G) /\ FactoryRisk(g).score = Capped(q, H)
  BY RiskIs DEF FactoryRisk
<1>3. GatesWorsen(G, H) /\ (\A e \in G : GateLike(e)) /\ (\A h \in H : GateLike(h))
  BY AllGatesWorsen, GatesAreLike
<1> HIDE DEF s, t, p, q, G, H
<1>4. q <= p /\ p \in Int /\ q \in Int
  <2> DEFINE v == FullScore - s
             w == FullScore - t
  <2>1. FullScore \in Nat /\ \A n \in 0..FullScore : n \in Int  BY DEF FullScore
  <2>2. v \in Int /\ w \in Int /\ w <= v  BY <1>1, <2>1
  <2>3. p = Clamp(v, 0, FullScore) /\ q = Clamp(w, 0, FullScore)  BY <1>1
  <2>4. p \in Int /\ q \in Int  BY <1>1, <2>1
  <2> HIDE DEF v, w, FullScore
  <2>5. q <= p  BY <2>1, <2>2, <2>3 DEF Clamp
  <2> QED BY <2>4, <2>5
<1>5. CapFor(H) <= CapFor(G) /\ CapFor(H) \in Nat /\ CapFor(G) \in Nat
  BY <1>3, CapFalls
<1>6. /\ Capped(p, G) = IF p <= CapFor(G) THEN p ELSE CapFor(G)
      /\ Capped(q, H) = IF q <= CapFor(H) THEN q ELSE CapFor(H)
  BY <1>3, <1>4, CapIs
<1> QED BY <1>2, <1>4, <1>5, <1>6

\* The facts of a factory's snapshot are measurements.
LEMMA FactoryMeasured ==
  ASSUME NEW f, DOMAIN f = DOMAIN Scales["factory_state_snapshot"],
         \A m \in DOMAIN f : f[m] \in Places("factory_state_snapshot", m)
  PROVE  /\ Measured(f) /\ DOMAIN f = Names
         /\ Snapshot(f, "factory_state_snapshot") = FactorySnapshot(f)
         /\ FactorySnapshot(f).risk = FactoryRisk(f)
<1>1. DOMAIN f = Names  BY ScaleOf
<1>2. Measured(f)  BY <1>1 DEF Measured, Places, Scale
<1>3. Snapshot(f, "factory_state_snapshot") = FactorySnapshot(f)  BY DEF Snapshot
<1> QED BY <1>1, <1>2, <1>3, SnapshotInputs DEF FactoryRisk

\* The invariant, for a factory.
LEMMA FactoryProduced ==
  ASSUME Produced, Factory
  PROVE  /\ Measured(facts) /\ DOMAIN facts = Names
         /\ snapshot = FactorySnapshot(facts)
         /\ snapshot.risk = FactoryRisk(facts)
         /\ snapshot.pipeline = PipelineStatus(AgeInput(facts))
         /\ alerts = FactoryAlerts(snapshot.risk, snapshot.pipeline)
<1>1. /\ source = "factory_state_snapshot" /\ snapshot = Snapshot(facts, source)
      /\ DOMAIN facts = DOMAIN Scales[source]
      /\ \A m \in DOMAIN facts : facts[m] \in Places(source, m)
      /\ alerts = Evaluate(source, snapshot)
  BY DEF Produced, Factory
<1>2. /\ Measured(facts) /\ DOMAIN facts = Names
      /\ snapshot = FactorySnapshot(facts) /\ snapshot.risk = FactoryRisk(facts)
  BY <1>1, FactoryMeasured
<1>3. alerts = FactoryAlerts(snapshot.risk, snapshot.pipeline)
  BY <1>1 DEF Evaluate
<1>4. snapshot.pipeline = PipelineStatus(AgeInput(facts))
  BY <1>2, SnapshotInputs
<1> QED BY <1>2, <1>3, <1>4

\* calculate(): whatever the scales of the measurements, a factory that is
\* worse in some respect and better in none never gets a higher score.
THEOREM ScoresAreMonotone == Spec => WorseNeverScoresHigher
<1>1. ASSUME Produced, Produced', [Next]_vars
      PROVE  [Factory /\ Worse => snapshot'.risk.score <= snapshot.risk.score]_vars
  <2> SUFFICES ASSUME Factory, Worse, Next PROVE snapshot'.risk.score <= snapshot.risk.score
    BY <1>1
  <2>1. source' = source
    BY DEF Next, FactoryState, InfraState, Refresh, Collect, Write
  <2>2. Measured(facts) /\ DOMAIN facts = Names /\ snapshot.risk = FactoryRisk(facts)
    BY <1>1, FactoryProduced
  <2>3. Factory'  BY <2>1 DEF Factory
  <2>4. Measured(facts') /\ snapshot'.risk = FactoryRisk(facts')
    <3>1. /\ source' = "factory_state_snapshot" /\ snapshot' = Snapshot(facts', source')
          /\ DOMAIN facts' = DOMAIN Scales[source']
          /\ \A m \in DOMAIN facts' : facts'[m] \in Places(source', m)
      BY <1>1, <2>3 DEF Produced, Factory, Places
    <3> QED BY <3>1, FactoryMeasured
  <2>5. WorsePlaces(facts, facts')
    <3>1. \A m \in Names : facts[m] \in Int /\ facts'[m] \in Int
      BY <2>2, <2>4 DEF Measured
    <3> QED BY <2>2, <3>1 DEF Worse, WorsePlaces
  <2>6. /\ snapshot.risk.score = FactoryRisk(facts).score
        /\ snapshot'.risk.score = FactoryRisk(facts').score
    BY <2>2, <2>4
  <2>7. FactoryRisk(facts').score <= FactoryRisk(facts).score
    <3> QED BY <2>2, <2>4, <2>5, WorseScores
  <2> QED BY <2>6, <2>7
<1> QED BY <1>1, AlwaysProduced, PTL DEF Spec, WorseNeverScoresHigher

-----------------------------------------------------------------------------
\* _level() and _apply_gate_caps(): the level of a snapshot is the worst of
\* what its penalties and its gates say.
LEMMA LevelIsWorst ==
  ASSUME NEW f, Measured(f)
  PROVE  LET risk == FactoryRisk(f)
             levels == {Level(risk.base)} \cup {g.level : g \in risk.gates}
         IN /\ risk.level \in levels
            /\ \A l \in levels : SeverityRank[l] <= SeverityRank[risk.level]
<1> DEFINE risk == FactoryRisk(f)
<1>1. risk.base \in 0..FullScore  BY BaseIsNumber
<1>2. \A g \in risk.gates : GateLike(g)  BY GatesAreLike
<1>3. risk.level = Level(Capped(risk.base, risk.gates))  BY RiskIs DEF FactoryRisk
<1> HIDE DEF risk
<1>4. LET levels == {Level(risk.base)} \cup {g.level : g \in risk.gates}
      IN /\ risk.level \in levels
         /\ \A l \in levels : SeverityRank[l] <= SeverityRank[risk.level]
  BY <1>1, <1>2, <1>3, CapsMeanLevels
<1> QED BY <1>4 DEF risk

\* The level of a factory's snapshot is the worst of what its penalties and
\* its gates say, for any measurements.
THEOREM LevelsFollowGates == Spec => []LevelIsWorstOfGates
<1>1. Produced => LevelIsWorstOfGates
  <2> SUFFICES ASSUME Produced, Factory PROVE LevelIsWorstOfGates
    BY DEF LevelIsWorstOfGates
  <2>1. Measured(facts) /\ snapshot.risk = FactoryRisk(facts)  BY FactoryProduced
  <2> QED BY <2>1, LevelIsWorst DEF LevelIsWorstOfGates
<1> QED BY <1>1, AlwaysProduced, PTL

-----------------------------------------------------------------------------
(***************************************************************************)
(* The causes that calculate() sorts.                                      *)
(***************************************************************************)
Causes(F) == [field : F, reason : Reasons \cup GateNames, contribution : Int,
              severity : Severities]

CauseList(factory, infra, age) ==
  LET risk == Risk(factory, infra, age)
  IN AllPenalties(factory, infra, age)
       \o GateCauses(AllGates(factory, infra, age), risk.base, risk.score)

\* The causes are the first of that list.
LEMMA CausesAreTop ==
  ASSUME NEW factory, NEW infra, NEW age
  PROVE  Risk(factory, infra, age).causes = TopCauses(CauseList(factory, infra, age))
BY DEF Risk, CauseList, AllPenalties, AllGates

\* Penalties are causes.
LEMMA PenaltiesAreCauses ==
  ASSUME NEW F, NEW s \in Seq(Penalties(F))
  PROVE  s \in Seq(Causes(F))
<1>1. Penalties(F) \subseteq Causes(F)  BY DEF Penalties, Causes
<1> HIDE DEF Penalties, Causes
<1> QED BY <1>1

\* _gate_causes() makes a cause of the same field of every gate.
LEMMA GateCausesAre ==
  ASSUME NEW F, F \subseteq Fields, NEW gates \in Seq(GatesOf(F)), NEW base \in Int,
         NEW score \in Int
  PROVE  LET s == GateCauses(gates, base, score)
         IN /\ s \in Seq(Causes(F)) /\ Len(s) = Len(gates)
            /\ \A k \in 1..Len(gates) : s[k].field = gates[k].field
<1> DEFINE s == GateCauses(gates, base, score)
           n == Len(gates)
           more(k) == IF base - score > Weights[gates[k].field]
                        THEN base - score ELSE Weights[gates[k].field]
<1>1. n \in Nat /\ DOMAIN gates = 1..n /\ \A k \in 1..n : gates[k] \in GatesOf(F)
  BY LenProperties, ElementOfSeq
<1>2. s = [k \in 1..n |-> [field |-> gates[k].field, reason |-> gates[k].name,
                           severity |-> gates[k].level, contribution |-> more(k)]]
  BY <1>1 DEF GateCauses
<1>3. ASSUME NEW k \in 1..n
      PROVE  /\ gates[k].field \in F /\ gates[k].name \in GateNames
             /\ gates[k].level \in Severities /\ more(k) \in Int
  <2>1. /\ gates[k].field \in F /\ gates[k].name \in GateNames
        /\ gates[k].level \in Severities
    <3>1. gates[k] \in GatesOf(F)  BY <1>1
    <3> QED BY <3>1 DEF GatesOf, Gates, Severities
  <2>2. Weights[gates[k].field] \in Int
    <3>1. gates[k].field \in Fields  BY <2>1
    <3>2. \A x \in Fields : Weights[x] \in Nat  BY WeightTypes
    <3>3. Weights[gates[k].field] \in Nat
      <4> HIDE DEF Fields
      <4> QED BY <3>1, <3>2
    <3> QED BY <3>3
  <2> QED BY <2>1, <2>2
<1> HIDE DEF s, more, n
<1>4. \A k \in 1..n : s[k] \in Causes(F) /\ s[k].field = gates[k].field
  BY <1>2, <1>3 DEF Causes
<1>5. s \in [1..n -> Causes(F)]
  <2>1. DOMAIN s = 1..n /\ s = [k \in 1..n |-> s[k]]  BY <1>2
  <2> QED BY <1>4, <2>1
<1>6. s \in Seq(Causes(F)) /\ Len(s) = n
  <2> HIDE DEF Causes
  <2> QED BY <1>1, <1>5
<1> QED BY <1>4, <1>6 DEF s, n

\* The score is a number, too.
LEMMA ScoreIsInt ==
  ASSUME NEW f, Measured(f)
  PROVE  FactoryRisk(f).base \in Int /\ FactoryRisk(f).score \in Int
<1> DEFINE p == FactoryRisk(f).base
           G == FactoryRisk(f).gates
<1>1. p \in Int
  <2>1. p \in 0..FullScore  BY BaseIsNumber
  <2>2. \A n \in 0..FullScore : n \in Int  BY DEF FullScore
  <2> HIDE DEF p
  <2> QED BY <2>1, <2>2
<1>2. FactoryRisk(f).score = Capped(p, G)  BY RiskIs DEF FactoryRisk
<1>3. \A g \in G : GateLike(g)  BY GatesAreLike
<1> HIDE DEF p, G
<1>4. CapFor(G) \in Int  BY DEF CapFor, DangerCap, WarningCap, NoCap, FullScore
<1>5. Capped(p, G) \in Int  BY <1>1, <1>3, <1>4, CapIs
<1> QED BY <1>1, <1>2, <1>5 DEF p

\* A top cause is one of the list.
LEMMA TopCausesAreListed ==
  ASSUME NEW s, NEW c \in TopCauses(s)
  PROVE  \E k \in DOMAIN s : c.cause = s[k]
<1> DEFINE before(k) == {j \in DOMAIN s : Precedes(s, j, k)}
           first == {k \in DOMAIN s : Cardinality(before(k)) < MaxCauses}
<1>1. TopCauses(s) = {[cause |-> s[k], position |-> Cardinality(before(k))] : k \in first}
  BY DEF TopCauses
<1>2. first \subseteq DOMAIN s  OBVIOUS
<1> HIDE DEF before, first
<1>3. PICK k \in first : c = [cause |-> s[k], position |-> Cardinality(before(k))]  BY <1>1
<1> QED BY <1>2, <1>3

\* A list without elements.
LEMMA NoGates ==
  ASSUME NEW S, NEW s \in Seq(S), ToSet(s) = {}
  PROVE  s = << >>
<1>1. Len(s) \in Nat /\ DOMAIN s = 1..Len(s)  BY LenProperties
<1>2. Len(s) = 0
  <2> SUFFICES ASSUME Len(s) # 0 PROVE FALSE  OBVIOUS
  <2>1. 1 \in DOMAIN s  BY <1>1
  <2>2. s[1] \in ToSet(s)  BY <2>1 DEF ToSet
  <2> QED BY <2>2
<1> QED BY <1>2

-----------------------------------------------------------------------------
\* All but the age is good.
OnlyLate(f) == \A m \in Names \ {"age"} : f[m] = 1

\* The first places pass no threshold of risk.py.
LEMMA FirstPlaces ==
  ASSUME NEW f, Measured(f), OnlyLate(f)
  PROVE  /\ FactoryReading(f, "temperature", None) \in Int
         /\ FactoryReading(f, "temperature", None) <= 32
         /\ FactoryReading(f, "humidity", None) \in Int /\ FactoryReading(f, "humidity", None) <= 70
         /\ FactoryReading(f, "pressure", None) \in 990..1030
         /\ FactoryReading(f, "ai", None) \in Int /\ FactoryReading(f, "ai", None) <= 0
         /\ FactoryReading(f, "running", 0) \in Int /\ FactoryReading(f, "running", 0) >= 2
         /\ FactoryReading(f, "disk", None) \in Nat /\ FactoryReading(f, "disk", None) <= 75
<1>1. ASSUME NEW m \in Names \ {"age"}, NEW missing
      PROVE  FactoryReading(f, m, missing) = Scale(m)[1] /\ 1 \in 1..Len(Scale(m))
  <2>1. f[m] = 1 /\ f[m] \in 0..Len(Scale(m))  BY DEF OnlyLate, Measured
  <2>2. 1 # 0 /\ 1 \in 1..Len(Scale(m))  BY <2>1
  <2> QED BY <2>1, <2>2, ReadingIs
<1>2. /\ Scale("temperature") = FactoryScales.temperature
      /\ Scale("humidity") = FactoryScales.humidity /\ Scale("ai") = FactoryScales.ai
      /\ Scale("pressure") = FactoryScales.pressure
      /\ Scale("running") = InfraScales.running /\ Scale("disk") = InfraScales.disk
  BY ScaleOf DEF FactoryNames, InfraNames
<1>3. /\ FactoryScales.temperature[1] <= 32 /\ FactoryScales.humidity[1] <= 70
      /\ FactoryScales.pressure[1] \in 990..1030 /\ FactoryScales.ai[1] <= 0
      /\ InfraScales.running[1] >= 2 /\ InfraScales.disk[1] <= 75
  BY MeasurementsAssumption
<1>4. /\ "temperature" \in Names \ {"age"} /\ "humidity" \in Names \ {"age"}
      /\ "pressure" \in Names \ {"age"} /\ "ai" \in Names \ {"age"}
      /\ "running" \in Names \ {"age"} /\ "disk" \in Names \ {"age"}
  BY AreNames
<1>5. /\ Scale("temperature")[1] \in Int /\ Scale("humidity")[1] \in Int /\ Scale("ai")[1] \in Int
      /\ Scale("running")[1] \in Nat /\ Scale("disk")[1] \in Nat
  <2>1. /\ 1 \in 1..Len(Scale("temperature")) /\ 1 \in 1..Len(Scale("humidity"))
        /\ 1 \in 1..Len(Scale("ai")) /\ 1 \in 1..Len(Scale("running"))
        /\ 1 \in 1..Len(Scale("disk"))
    BY <1>1, <1>4
  <2> QED BY <2>1, ScaleTypes, ElementOfSeq
<1>6. /\ FactoryReading(f, "temperature", None) = Scale("temperature")[1]
      /\ FactoryReading(f, "humidity", None) = Scale("humidity")[1]
      /\ FactoryReading(f, "pressure", None) = Scale("pressure")[1]
      /\ FactoryReading(f, "ai", None) = Scale("ai")[1]
      /\ FactoryReading(f, "running", 0) = Scale("running")[1]
      /\ FactoryReading(f, "disk", None) = Scale("disk")[1]
  BY <1>1, <1>4
<1> QED BY <1>2, <1>3, <1>5, <1>6

\* What risk.py has nothing to say about.
GoodFactory(f) ==
  /\ f.temperature <= 32 /\ f.humidity <= 70 /\ f.pressure \in 990..1030
  /\ f.ai <= 0 /\ f.sound = FALSE

GoodInfra(i) ==
  /\ i.nodesReady = 2 /\ i.podsReady >= 2
  /\ Unavailable(i) = {} /\ BadNetworks(i) = {}
  /\ \A d \in i.disks : d <= 75

\* A good factory state has no penalty and no gate.
LEMMA GoodFactoryCosts ==
  ASSUME NEW f, FactoryNumbers(f), GoodFactory(f)
  PROVE  FactoryPenalties(f) = << >> /\ FactoryGateSet(f) = {}
<1> DEFINE t == LinearHigh("temperature", f.temperature, 32, 38)
           h == LinearHigh("humidity", f.humidity, 70, 85)
           p == Pressure(f.pressure)
           a == Weighted("ai_event_rate", Noise(f), 100)
<1>0. FactoryPenalties(f) = t \o h \o p \o a
  BY DEF FactoryPenalties, Noise
<1>1. /\ "temperature" \in Fields /\ "humidity" \in Fields /\ "pressure" \in Fields
      /\ "ai_event_rate" \in Fields
  BY WeightTypes
<1>2. t = << >>
  <2>1. f.temperature - 32 \in Int /\ 6 \in Int /\ f.temperature - 32 <= 0
    BY DEF FactoryNumbers, GoodFactory
  <2>2. t = Weighted("temperature", f.temperature - 32, 6)  BY DEF LinearHigh
  <2> QED BY <1>1, <2>1, <2>2, WeightedIs
<1>3. h = << >>
  <2>1. f.humidity - 70 \in Int /\ 15 \in Int /\ f.humidity - 70 <= 0
    BY DEF FactoryNumbers, GoodFactory
  <2>2. h = Weighted("humidity", f.humidity - 70, 15)  BY DEF LinearHigh
  <2> QED BY <1>1, <2>1, <2>2, WeightedIs
<1>4. p = << >>
  <2>1. /\ f.pressure - 1030 \in Int /\ 20 \in Int /\ f.pressure - 1030 <= 0
        /\ ~ (f.pressure < 990)
    BY DEF FactoryNumbers, GoodFactory
  <2>2. p = Weighted("pressure", f.pressure - 1030, 20)  BY <2>1 DEF Pressure
  <2> DEFINE over == f.pressure - 1030
  <2>3. p = Weighted("pressure", over, 20) /\ over \in Int /\ 20 \in Int /\ over <= 0
    BY <2>1, <2>2
  <2> HIDE DEF p, over
  <2> QED BY <1>1, <2>3, WeightedIs
<1>5. a = << >>
  <2>1. Noise(f) \in Int /\ 100 \in Int /\ Noise(f) <= 0
    BY DEF FactoryNumbers, GoodFactory, Noise
  <2> QED BY <1>1, <2>1, WeightedIs
<1>6. FactoryPenalties(f) = << >>
  <2> HIDE DEF t, h, p, a
  <2> QED BY <1>0, <1>2, <1>3, <1>4, <1>5
<1>7. FactoryGateSet(f) = {}
  <2>1. /\ ~ (f.temperature >= 38) /\ ~ (f.humidity >= 85) /\ ~ (f.ai >= 95)
        /\ ~ (f.ai < 95 /\ (f.ai >= 80 \/ (f.ai >= 60 /\ f.sound)))
    BY DEF FactoryNumbers, GoodFactory
  <2> QED BY <2>1 DEF FactoryGateSet, Raised
<1> QED BY <1>6, <1>7

\* Nor has a good infra state.
LEMMA GoodInfraCosts ==
  ASSUME NEW i, InfraNumbers(i), GoodInfra(i), NEW f
  PROVE  InfraPenalties(i) = << >> /\ InfraGateSet(i, f) = {}
<1> DEFINE disk == CHOOSE d \in i.disks : \A e \in i.disks : e <= d
           n == Weighted("node_status", i.nodesTotal - i.nodesReady, i.nodesTotal)
           p == Weighted("pod_health", i.podsTotal - i.podsReady, i.podsTotal)
           d == Weighted("device_availability", Cardinality(Unavailable(i)),
                         Cardinality(Present(i)))
           s == IF i.disks = {} THEN << >>
                ELSE LinearHigh("storage_pressure", disk, 75, 90)
           w == Weighted("network_reachability", Cardinality(BadNetworks(i)),
                         Cardinality(KnownNetworks(i)))
<1>0. InfraPenalties(i) = n \o p \o d \o s \o w
  BY InfraCounts DEF InfraPenalties, KnownNetworks, BadNetworks, Present
<1>1. /\ "node_status" \in Fields /\ "pod_health" \in Fields /\ "device_availability" \in Fields
      /\ "storage_pressure" \in Fields /\ "network_reachability" \in Fields
  BY WeightTypes
<1>2. n = << >>
  <2>1. i.nodesTotal - i.nodesReady \in Int /\ i.nodesTotal \in Int /\ i.nodesTotal - i.nodesReady <= 0
    BY DEF InfraNumbers, GoodInfra
  <2> QED BY <1>1, <2>1, WeightedIs
<1>3. p = << >>
  <2>1. i.podsTotal - i.podsReady \in Int /\ i.podsTotal \in Int /\ i.podsTotal - i.podsReady <= 0
    BY DEF InfraNumbers, GoodInfra
  <2> QED BY <1>1, <2>1, WeightedIs
<1>4. d = << >>
  <2>1. Cardinality(Unavailable(i)) = 0  BY FS_EmptySet DEF GoodInfra
  <2>2. Cardinality(Present(i)) \in Int /\ 0 \in Int /\ 0 <= 0  BY InfraCounts
  <2>3. d = Weighted("device_availability", 0, Cardinality(Present(i)))  BY <2>1
  <2> HIDE DEF d
  <2> QED BY <1>1, <2>2, <2>3, WeightedIs
<1>5. s = << >>
  <2>1. CASE i.disks = {}  BY <2>1
  <2>2. CASE i.disks # {}
    <3>1. PICK e \in Nat : i.disks = {e}  BY <2>2 DEF InfraNumbers
    <3>2. disk = e  BY <3>1, DiskOf
    <3>3. s = Weighted("storage_pressure", e - 75, 15)
      <4>1. s = Weighted("storage_pressure", disk - 75, 90 - 75)  BY <2>2 DEF LinearHigh
      <4>2. 90 - 75 = 15  OBVIOUS
      <4> HIDE DEF disk
      <4> QED BY <3>2, <4>1, <4>2
    <3>4. e \in i.disks  BY <3>1
    <3>5. e <= 75  BY <3>4 DEF GoodInfra
    <3>6. e - 75 \in Int /\ 15 \in Int /\ e - 75 <= 0  BY <3>5
    <3> HIDE DEF s
    <3> QED BY <1>1, <3>3, <3>6, WeightedIs
  <2> QED BY <2>1, <2>2
<1>6. w = << >>
  <2>1. Cardinality(BadNetworks(i)) = 0  BY FS_EmptySet DEF GoodInfra
  <2>2. Cardinality(KnownNetworks(i)) \in Int /\ 0 \in Int /\ 0 <= 0  BY InfraCounts
  <2>3. w = Weighted("network_reachability", 0, Cardinality(KnownNetworks(i)))  BY <2>1
  <2> HIDE DEF w
  <2> QED BY <1>1, <2>2, <2>3, WeightedIs
<1>7. InfraPenalties(i) = << >>
  <2> HIDE DEF n, p, d, s, w
  <2> QED BY <1>0, <1>2, <1>3, <1>4, <1>5, <1>6
<1>8. InfraGateSet(i, f) = {}
  <2>1. /\ ~ (i.nodesTotal > 0 /\ i.nodesReady = 0)
        /\ ~ (i.nodesReady > 0 /\ i.nodesReady < i.nodesTotal)
        /\ ~ (i.podsTotal > 0 /\ i.podsReady = 0)
        /\ ~ (i.podsReady > 0 /\ i.podsReady < i.podsTotal)
    BY DEF InfraNumbers, GoodInfra
  <2>2. ~ (Unavailable(i) # {})  BY DEF GoodInfra
  <2> QED BY <2>1, <2>2 DEF InfraGateSet, Raised
<1> QED BY <1>7, <1>8

\* All but the age is good: both states are.
LEMMA OnlyLateIsGood ==
  ASSUME NEW f, Measured(f), OnlyLate(f)
  PROVE  /\ GoodFactory(FactoryInput(f))
         /\ AgeInput(f) # None => GoodInfra(InfraInput(f))
<1>1. /\ FactoryReading(f, "temperature", None) <= 32
      /\ FactoryReading(f, "humidity", None) <= 70
      /\ FactoryReading(f, "pressure", None) \in 990..1030
      /\ FactoryReading(f, "ai", None) <= 0
      /\ FactoryReading(f, "running", 0) >= 2
      /\ FactoryReading(f, "disk", None) <= 75
  BY FirstPlaces
<1>2. \A m \in Names \ {"age"} : f[m] = 1  BY DEF OnlyLate
<1>3. GoodFactory(FactoryInput(f))
  <2> DEFINE x == FactoryInput(f)
  <2>1. x.sound = FALSE
    <3>1. "sound" \in Names /\ "sound" \in Names \ {"age"} /\ Scale("sound") = <<FALSE, TRUE>>
      BY AreNames, ScaleTypes
    <3>2. f["sound"] = 1  BY <1>2, <3>1
    <3>3. FactoryReading(f, "sound", FALSE) = FALSE  BY <3>1, <3>2, FirstIsFalse
    <3> QED BY <3>3, FactoryInputIs
  <2>2. x.temperature <= 32
    <3>1. x.temperature = NumberOrZero(FactoryReading(f, "temperature", None))
      BY FactoryInputIs
    <3> HIDE DEF x
    <3> QED BY <1>1, <3>1 DEF NumberOrZero
  <2>3. x.humidity <= 70
    <3>1. x.humidity = NumberOrZero(FactoryReading(f, "humidity", None))
      BY FactoryInputIs
    <3> HIDE DEF x
    <3> QED BY <1>1, <3>1 DEF NumberOrZero
  <2>4. x.ai <= 0
    <3>1. x.ai = NumberOrZero(FactoryReading(f, "ai", None))  BY FactoryInputIs
    <3> HIDE DEF x
    <3> QED BY <1>1, <3>1 DEF NumberOrZero
  <2>5. x.pressure \in 990..1030
    <3>1. x.pressure = NumberOrZero(FactoryReading(f, "pressure", None))
      BY FactoryInputIs
    <3> HIDE DEF x
    <3> QED BY <1>1, <3>1 DEF NumberOrZero, None
  <2> QED BY <2>1, <2>2, <2>3, <2>4, <2>5 DEF GoodFactory
<1>4. ASSUME AgeInput(f) # None PROVE GoodInfra(InfraInput(f))
  <2> DEFINE i == InfraInput(f)
  <2>0. /\ i.nodesReady = Cardinality(ReadyNodes(f))
        /\ i.podsReady = FactoryReading(f, "running", 0)
        /\ i.devices = [d \in Required |-> IF d = "microphone" THEN "absent"
                                           ELSE FactoryReading(f, d, "absent")]
        /\ i.disks = {FactoryReading(f, "disk", None), None} \ {None}
        /\ i.networks = [n \in TwoNodes |->
                           IF n = "node1" THEN FactoryReading(f, "network", "unknown")
                           ELSE "unknown"]
    BY <1>4, InfraInputIs
  <2> HIDE DEF i
  <2>1. i.nodesReady = 2
    <3>1. ASSUME NEW n \in TwoNodes PROVE FactoryReading(f, n, FALSE)
      <4>1. n \in Names /\ n \in Names \ {"age"} /\ Scale(n) = <<TRUE, FALSE>>
        BY AreNames, ScaleTypes DEF TwoNodes
      <4>2. f[n] = 1  BY <1>2, <4>1
      <4> QED BY <4>1, <4>2, FirstIsTrue
    <3>2. ReadyNodes(f) = TwoNodes  BY <3>1 DEF ReadyNodes
    <3> QED BY <2>0, <3>2, NodesCounted
  <2>2. ASSUME NEW d \in Required PROVE i.devices[d] # "unavailable"
    <3>1. i.devices[d] = IF d = "microphone" THEN "absent" ELSE FactoryReading(f, d, "absent")
      BY <2>0
    <3>2. CASE d = "microphone"  BY <3>1, <3>2
    <3>3. CASE d # "microphone"
      <4>1. /\ d \in Names /\ d \in Names \ {"age"}
            /\ Scale(d) = <<"available", "unavailable">>
        BY <3>3, AreNames, ScaleTypes DEF Required
      <4>2. f[d] = 1  BY <1>2, <4>1
      <4>3. FactoryReading(f, d, "absent") = "available"  BY <4>1, <4>2, TwoPlaces
      <4> QED BY <3>1, <3>3, <4>3
    <3> QED BY <3>2, <3>3
  <2>3. Unavailable(i) = {}  BY <2>2 DEF Unavailable
  <2>4. BadNetworks(i) = {}
    <3>1. FactoryReading(f, "network", "unknown") = "ok"
      <4>1. /\ "network" \in Names /\ "network" \in Names \ {"age"}
            /\ Scale("network") = <<"ok", "bad">>
        BY AreNames, ScaleTypes
      <4>2. f["network"] = 1  BY <1>2, <4>1
      <4> QED BY <4>1, <4>2, TwoPlaces
    <3>2. \A n \in DOMAIN i.networks : i.networks[n] \in {"ok", "unknown"}
      BY <2>0, <3>1
    <3> QED BY <3>2 DEF BadNetworks, KnownNetworks
  <2>5. \A d \in i.disks : d <= 75  BY <1>1, <2>0
  <2>6. i.podsReady >= 2  BY <1>1, <2>0
  <2> QED BY <2>1, <2>3, <2>4, <2>5, <2>6 DEF GoodInfra, i
<1> QED BY <1>3, <1>4

-----------------------------------------------------------------------------
\* With nothing but late data, the lateness is the only penalty and gate.
LEMMA OnlyLatePenalty ==
  ASSUME NEW f, Measured(f), OnlyLate(f)
  PROVE  LET factory == FactoryInput(f)
             infra == InfraInput(f)
             age == AgeInput(f)
         IN /\ AllPenalties(factory, infra, age) = FreshnessPenalty(age)
            /\ AllGates(factory, infra, age) = PipelineGates(age)
            /\ FactoryRisk(f).gates = PipelineGateSet(age)
<1> DEFINE x == FactoryInput(f)
           i == InfraInput(f)
           a == AgeInput(f)
<1>1. RiskInputs(x, i, a)  BY InputTypes
<1>2. GoodFactory(x) /\ (a # None => GoodInfra(i))  BY OnlyLateIsGood
<1>3. a = None => i = NoInfra  BY DEF InfraInput
<1>4. a # None => InfraNumbers(i)  BY InfraIsKnown
<1>5. FactoryRisk(f) = Risk(x, i, a)  BY DEF FactoryRisk
<1> HIDE DEF x, i, a
<1>6. FactoryPenalties(x) = << >> /\ FactoryGateSet(x) = {}
  BY <1>1, <1>2, GoodFactoryCosts DEF RiskInputs
<1>7. InfraPenalties(i) = << >> /\ InfraGateSet(i, x) = {}
  <2>1. CASE a = None
    BY <1>3, <2>1 DEF InfraPenalties, InfraGateSet
  <2>2. CASE a # None
    BY <1>2, <1>4, <2>2, GoodInfraCosts
  <2> QED BY <2>1, <2>2
<1>8. FactoryStateGates(x) = << >>  BY <1>6, FactoryGatesAre, NoGates
<1>9. InfraGates(i, x) = << >>  BY <1>7, InfraGatesAre, NoGates
<1>10. AllPenalties(x, i, a) = FreshnessPenalty(a)
  <2>1. FreshnessPenalty(a) \in Seq(Penalties(Late))
    BY <1>1, FreshnessPenaltyAdds DEF RiskInputs
  <2>2. AllPenalties(x, i, a) = << >> \o << >> \o FreshnessPenalty(a)
    BY <1>6, <1>7 DEF AllPenalties
  <2> QED BY <2>1, <2>2
<1>11. AllGates(x, i, a) = PipelineGates(a)
  <2>1. PipelineGates(a) \in Seq(GatesOf(Late))  BY PipelineGatesAre
  <2>2. AllGates(x, i, a) = << >> \o << >> \o PipelineGates(a)
    BY <1>8, <1>9 DEF AllGates
  <2> QED BY <2>1, <2>2
<1>12. FactoryRisk(f).gates = PipelineGateSet(a)
  BY <1>5, <1>11, RiskGatesAre, PipelineGatesAre
<1> QED BY <1>10, <1>11, <1>12 DEF x, i, a

\* A cause of the snapshot is in the list that was sorted.
LEMMA CausesOfRisk ==
  ASSUME NEW f, NEW c \in FactoryRisk(f).causes
  PROVE  LET list == CauseList(FactoryInput(f), InfraInput(f), AgeInput(f))
         IN \E k \in DOMAIN list : c.cause = list[k]
<1> DEFINE list == CauseList(FactoryInput(f), InfraInput(f), AgeInput(f))
<1>1. FactoryRisk(f).causes = TopCauses(list)  BY CausesAreTop DEF FactoryRisk
<1> HIDE DEF list
<1>2. \E k \in DOMAIN list : c.cause = list[k]  BY <1>1, TopCausesAreListed
<1> QED BY <1>2 DEF list

\* Then every cause is about the lateness.
LEMMA OnlyLateCauses ==
  ASSUME NEW f, Measured(f), OnlyLate(f)
  PROVE  \A c \in FactoryRisk(f).causes : c.cause.field = "data_freshness"
<1> DEFINE a == AgeInput(f)
           base == FactoryRisk(f).base
           score == FactoryRisk(f).score
           list == CauseList(FactoryInput(f), InfraInput(f), AgeInput(f))
           late == FreshnessPenalty(a)
           gates == GateCauses(PipelineGates(a), base, score)
<1>1. a \in Int  BY InputTypes DEF RiskInputs
<1>2. base \in Int /\ score \in Int  BY ScoreIsInt
<1>3. list = late \o gates
  BY OnlyLatePenalty DEF CauseList, FactoryRisk
<1>4. late \in Seq(Causes(Late))
  <2>1. late \in Seq(Penalties(Late))  BY <1>1, FreshnessPenaltyAdds
  <2> HIDE DEF late
  <2> QED BY <2>1, PenaltiesAreCauses
<1>5. gates \in Seq(Causes(Late))
  <2>1. Late \subseteq Fields  BY WeightTypes DEF Late
  <2>2. PipelineGates(a) \in Seq(GatesOf(Late))  BY PipelineGatesAre
  <2> HIDE DEF a, base, score
  <2> QED BY <1>2, <2>1, <2>2, GateCausesAre
<1> HIDE DEF list, late, gates
<1>6. list \in Seq(Causes(Late))  BY <1>3, <1>4, <1>5
<1> TAKE c \in FactoryRisk(f).causes
<1>7. PICK k \in DOMAIN list : c.cause = list[k]  BY CausesOfRisk DEF list
<1>8. list[k] \in Causes(Late)  BY <1>6, <1>7, ElementOfSeq, LenProperties
<1>9. list[k].field = "data_freshness"  BY <1>8 DEF Causes, Late
<1> QED BY <1>7, <1>9

\* Fresh data and nothing else: no penalty, no gate, no cause.
LEMMA AllGood ==
  ASSUME NEW f, Measured(f), OnlyLate(f), ~ Alerting(PipelineStatus(AgeInput(f)))
  PROVE  /\ FactoryRisk(f).gates = {} /\ FactoryRisk(f).causes = {}
         /\ FactoryRisk(f).level = "safe"
<1> DEFINE x == FactoryInput(f)
           i == InfraInput(f)
           a == AgeInput(f)
           base == FactoryRisk(f).base
           score == FactoryRisk(f).score
<1>0. FactoryRisk(f) = Risk(x, i, a)  BY DEF FactoryRisk
<1>1. RiskInputs(x, i, a)  BY InputTypes
<1>2. a = None \/ a \in Nat
  <2>1. "age" \in Names /\ Scale("age") \in Seq(Nat)  BY AreNames, ScaleTypes
  <2>2. FactoryReading(f, "age", None) \in Nat \cup {None}  BY <2>1, NumberIs
  <2> QED BY <2>2 DEF AgeInput
<1>3. AllPenalties(x, i, a) = FreshnessPenalty(a) /\ AllGates(x, i, a) = PipelineGates(a)
  BY OnlyLatePenalty
<1>4. FactoryRisk(f).gates = PipelineGateSet(a)  BY OnlyLatePenalty
<1>5. ~ Alerting(PipelineStatus(a))  OBVIOUS
<1>6. a \in Nat /\ a <= 60
  <2> HIDE DEF a
  <2> QED BY <1>2, <1>5, PipelineIs DEF Alerting
<1>7. base \in Int /\ score \in Int /\ score = Capped(base, FactoryRisk(f).gates)
      /\ FactoryRisk(f).level = Level(score)
  BY ScoreIsInt, RiskIs DEF FactoryRisk
<1>8. FactoryRisk(f).causes = TopCauses(CauseList(x, i, a))
  BY CausesAreTop DEF FactoryRisk
<1>9. CauseList(x, i, a) = AllPenalties(x, i, a) \o GateCauses(AllGates(x, i, a), base, score)
  BY DEF CauseList, FactoryRisk
<1> HIDE DEF x, i, a, base, score
<1>10. FreshnessPenalty(a) = << >>
  <2>1. a \in Int /\ a # None  BY <1>6 DEF None
  <2> QED BY <1>6, <2>1, FreshnessPenaltyAdds
<1>11. PipelineGateSet(a) = {}
  <2>1. PipelineStatus(a) = "normal" /\ ~ Outage(a)  BY <1>6, PipelineIs
  <2> QED BY <2>1 DEF PipelineGateSet, Raised
<1>12. PipelineGates(a) = << >>  BY <1>11, PipelineGatesAre, NoGates
<1>13. FactoryRisk(f).causes = {}
  <2>1. GateCauses(<< >>, base, score) = << >>  BY DEF GateCauses
  <2>2. CauseList(x, i, a) = << >>  BY <1>3, <1>9, <1>10, <1>12, <2>1
  <2>3. TopCauses(<< >>) = {}
    <3>1. DOMAIN << >> = {}  OBVIOUS
    <3>2. \A c : c \notin TopCauses(<< >>)  BY <3>1, TopCausesAreListed
    <3> QED BY <3>2
  <2> QED BY <1>8, <2>2, <2>3
<1>14. base = 10000
  <2>1. FactoryRisk(f).base = Clamp(FullScore - TotalOf(AllPenalties(x, i, a)), 0, FullScore)
    BY <1>0, <1>1, PenaltiesTaken
  <2>2. TotalOf(AllPenalties(x, i, a)) = 0  BY <1>3, <1>10, TotalOfNone
  <2> QED BY <2>1, <2>2 DEF base, Clamp, FullScore
<1>15. score = 10000
  <2>1. \A g \in {} : GateLike(g)  OBVIOUS
  <2>2. CapFor({}) = 10000  BY DEF CapFor, NoCap, FullScore
  <2>3. Capped(base, {}) = IF base <= CapFor({}) THEN base ELSE CapFor({})
    BY <1>7, <2>1, CapIs
  <2> QED BY <1>4, <1>7, <1>11, <1>14, <2>2, <2>3
<1>16. FactoryRisk(f).level = "safe"  BY <1>7, <1>15 DEF Level, SafeMin
<1> QED BY <1>4, <1>11, <1>13, <1>16

\* When the pipeline is all that is wrong, nothing else is alerted: neither the
\* score that the late data lowers, nor its causes and gates.
THEOREM LatenessIsAlertedOnce == Spec => []LatenessAlertedOnce
<1>1. ASSUME NEW f, Measured(f), OnlyLate(f)
      PROVE  LET p == PipelineStatus(AgeInput(f))
             IN FactoryAlerts(FactoryRisk(f), p) = PipelineAlerts(p)
  <2> DEFINE risk == FactoryRisk(f)
             p == PipelineStatus(AgeInput(f))
  <2>1. \A c \in risk.causes : c.cause.field = "data_freshness"  BY <1>1, OnlyLateCauses
  <2>2. \A g \in risk.gates : g.field = "data_freshness"
    <3>1. risk.gates = PipelineGateSet(AgeInput(f))  BY <1>1, OnlyLatePenalty
    <3> HIDE DEF risk
    <3> QED BY <3>1 DEF PipelineGateSet, Raised
  <2>3. ~ Alerting(p) => risk.gates = {} /\ risk.causes = {} /\ risk.level = "safe"
    BY <1>1, AllGood
  <2> HIDE DEF risk, p
  <2>4. LevelAlerts(risk, p) = {} /\ CauseAlerts(risk, p) = {} /\ GateAlerts(risk, p) = {}
    <3>1. CASE Alerting(p)
      <4>1. OwnCauses(risk, p) = {}
        BY <2>1, <3>1 DEF OwnCauses, Independent, IsPipelineFreshness
      <4>2. LevelAlerts(risk, p) = {}  BY <3>1, <4>1 DEF LevelAlerts
      <4>3. CauseAlerts(risk, p) = {}  BY <4>1 DEF CauseAlerts
      <4>4. GateAlerts(risk, p) = {}
        BY <2>2, <3>1 DEF GateAlerts, Independent, IsPipelineFreshness
      <4> QED BY <4>2, <4>3, <4>4
    <3>2. CASE ~ Alerting(p)
      <4>1. OwnCauses(risk, p) = {}  BY <2>3, <3>2 DEF OwnCauses
      <4>2. LevelAlerts(risk, p) = {}  BY <2>3, <3>2 DEF LevelAlerts
      <4>3. CauseAlerts(risk, p) = {}  BY <4>1 DEF CauseAlerts
      <4>4. GateAlerts(risk, p) = {}  BY <2>3, <3>2 DEF GateAlerts
      <4> QED BY <4>2, <4>3, <4>4
    <3> QED BY <3>1, <3>2
  <2>5. FactoryAlerts(risk, p) = PipelineAlerts(p)
    BY <2>4 DEF FactoryAlerts
  <2> QED BY <2>5 DEF risk, p
<1>2. Produced => LatenessAlertedOnce
  <2> SUFFICES ASSUME Produced, Factory, \A m \in DOMAIN facts \ {"age"} : facts[m] = 1
               PROVE  alerts = PipelineAlerts(snapshot.pipeline)
    BY DEF LatenessAlertedOnce
  <2>1. Measured(facts) /\ DOMAIN facts = Names  BY FactoryProduced
  <2>2. OnlyLate(facts)  BY <2>1 DEF OnlyLate
  <2>3. /\ snapshot.risk = FactoryRisk(facts)
        /\ snapshot.pipeline = PipelineStatus(AgeInput(facts))
        /\ alerts = FactoryAlerts(snapshot.risk, snapshot.pipeline)
    BY FactoryProduced
  <2> QED BY <1>1, <2>1, <2>2, <2>3
<1> QED BY <1>2, AlwaysProduced, PTL

-----------------------------------------------------------------------------
(***************************************************************************)
(* Five causes are kept, and at most two are about the lateness: a cause   *)
(* of another kind is among them when there is one.                        *)
(***************************************************************************)
LEMMA PrecedesIsOrder ==
  ASSUME NEW s \in Seq(Causes(Fields))
  PROVE  /\ \A k \in DOMAIN s : ~ Precedes(s, k, k)
         /\ \A j, k, l \in DOMAIN s :
              Precedes(s, j, k) /\ Precedes(s, k, l) => Precedes(s, j, l)
<1> DEFINE R == [k \in DOMAIN s |-> SeverityRank[s[k].severity]]
           C == [k \in DOMAIN s |-> s[k].contribution]
<1>1. DOMAIN s \subseteq Int
  <2>1. DOMAIN s = 1..Len(s) /\ Len(s) \in Nat  BY LenProperties
  <2> QED BY <2>1
<1>2. ASSUME NEW k \in DOMAIN s
      PROVE  /\ R[k] = SeverityRank[s[k].severity] /\ C[k] = s[k].contribution
             /\ R[k] \in Int /\ C[k] \in Int
  <2>1. s[k] \in Causes(Fields)  BY ElementOfSeq, LenProperties
  <2>2. s[k].severity \in {"warning", "danger"} /\ s[k].contribution \in Int
    BY <2>1 DEF Causes, Severities
  <2>3. SeverityRank[s[k].severity] \in Int  BY <2>2 DEF SeverityRank
  <2> QED BY <2>2, <2>3
<1> HIDE DEF R, C
<1>3. ASSUME NEW j \in DOMAIN s, NEW k \in DOMAIN s
      PROVE  Precedes(s, j, k) <=> \/ R[j] > R[k]
                                   \/ R[j] = R[k] /\ C[j] > C[k]
                                   \/ R[j] = R[k] /\ C[j] = C[k] /\ j < k
  BY <1>2 DEF Precedes
<1>4. ASSUME NEW k \in DOMAIN s PROVE ~ Precedes(s, k, k)
  BY <1>1, <1>2, <1>3
<1>5. ASSUME NEW j \in DOMAIN s, NEW k \in DOMAIN s, NEW l \in DOMAIN s,
             Precedes(s, j, k), Precedes(s, k, l)
      PROVE  Precedes(s, j, l)
  <2>1. \/ R[j] > R[k]
        \/ R[j] = R[k] /\ C[j] > C[k]
        \/ R[j] = R[k] /\ C[j] = C[k] /\ j < k
    BY <1>3, <1>5
  <2>2. \/ R[k] > R[l]
        \/ R[k] = R[l] /\ C[k] > C[l]
        \/ R[k] = R[l] /\ C[k] = C[l] /\ k < l
    BY <1>3, <1>5
  <2>3. /\ R[j] \in Int /\ R[k] \in Int /\ R[l] \in Int
        /\ C[j] \in Int /\ C[k] \in Int /\ C[l] \in Int /\ j \in Int /\ k \in Int /\ l \in Int
    BY <1>1, <1>2
  <2>4. \/ R[j] > R[l]
        \/ R[j] = R[l] /\ C[j] > C[l]
        \/ R[j] = R[l] /\ C[j] = C[l] /\ j < l
    BY <2>1, <2>2, <2>3
  <2> QED BY <1>3, <2>4
<1> QED BY <1>4, <1>5

\* Of some causes, one that none of them precedes.
LEMMA FirstOfSome ==
  ASSUME NEW s \in Seq(Causes(Fields)), NEW O \in SUBSET (DOMAIN s), O # {}
  PROVE  \E k \in O : \A j \in O : ~ Precedes(s, j, k)
<1> DEFINE First(T) == \E k \in T : \A j \in T : ~ Precedes(s, j, k)
           P == {T \in SUBSET (DOMAIN s) : T = {} \/ First(T)}
<1>1. IsFiniteSet(DOMAIN s)
  <2>1. DOMAIN s = 1..Len(s) /\ Len(s) \in Nat  BY LenProperties
  <2>2. 1 \in Int /\ Len(s) \in Int  BY <2>1
  <2> QED BY <2>1, <2>2, FS_Interval
<1>2. {} \in P  OBVIOUS
<1>3. \A T \in SUBSET (DOMAIN s) : T # {} /\ (\A x \in T : T \ {x} \in P) => T \in P
  <2> SUFFICES ASSUME NEW T \in SUBSET (DOMAIN s), T # {}, \A x \in T : T \ {x} \in P
               PROVE  First(T)
    OBVIOUS
  <2>1. PICK x \in T : TRUE  OBVIOUS
  <2>2. ~ Precedes(s, x, x)  BY PrecedesIsOrder
  <2>3. CASE T \ {x} = {}
    <3>1. \A y \in T : y = x  BY <2>3
    <3> QED BY <2>1, <2>2, <3>1
  <2>4. CASE T \ {x} # {}
    <3>1. First(T \ {x})  BY <2>1, <2>4
    <3>2. PICK k \in T \ {x} : \A j \in T \ {x} : ~ Precedes(s, j, k)  BY <3>1
    <3>3. CASE ~ Precedes(s, x, k)
      <4>1. \A j \in T : ~ Precedes(s, j, k)  BY <3>2, <3>3
      <4> QED BY <4>1
    <3>4. CASE Precedes(s, x, k)
      <4>1. ASSUME NEW j \in T, Precedes(s, j, x) PROVE FALSE
        <5>1. j # x  BY <2>2, <4>1
        <5>2. j \in DOMAIN s /\ x \in DOMAIN s /\ k \in DOMAIN s  OBVIOUS
        <5>3. Precedes(s, j, k)  BY <3>4, <4>1, <5>2, PrecedesIsOrder
        <5> QED BY <3>2, <5>1, <5>3
      <4> QED BY <4>1
    <3> QED BY <3>3, <3>4
  <2> QED BY <2>3, <2>4
<1>4. O \in P
  <2> HIDE DEF P
  <2> QED BY <1>1, <1>2, <1>3, FiniteInduction
<1> QED BY <1>4

\* A kind of cause that all but few are of is among the top causes.
LEMMA TopKeeps ==
  ASSUME NEW s \in Seq(Causes(Fields)), NEW O \in SUBSET (DOMAIN s), O # {},
         NEW a, NEW b, (DOMAIN s) \ O \subseteq {a, b}
  PROVE  \E c \in TopCauses(s) : \E k \in O : c.cause = s[k]
<1> DEFINE before(k) == {j \in DOMAIN s : Precedes(s, j, k)}
           first == {k \in DOMAIN s : Cardinality(before(k)) < MaxCauses}
<1>1. TopCauses(s) = {[cause |-> s[k], position |-> Cardinality(before(k))] : k \in first}
  BY DEF TopCauses
<1>2. PICK k \in O : \A j \in O : ~ Precedes(s, j, k)  BY FirstOfSome
<1>3. before(k) \subseteq {a, b}  BY <1>2
<1>4. Cardinality(before(k)) < MaxCauses
  <2>1. IsFiniteSet({a}) /\ Cardinality({a}) = 1  BY FS_Singleton
  <2>2. /\ IsFiniteSet({a} \cup {b})
        /\ Cardinality({a} \cup {b}) = IF b \in {a} THEN Cardinality({a})
                                       ELSE Cardinality({a}) + 1
    BY <2>1, FS_AddElement
  <2>3. Cardinality({a} \cup {b}) <= 2
    <3> DEFINE n == Cardinality({a} \cup {b})
    <3>1. n = 1 \/ n = 1 + 1  BY <2>1, <2>2
    <3> HIDE DEF n
    <3>2. n <= 2  BY <3>1
    <3> QED BY <3>2 DEF n
  <2>4. before(k) \subseteq {a} \cup {b}  BY <1>3
  <2> HIDE DEF before
  <2>5. /\ Cardinality(before(k)) <= Cardinality({a} \cup {b})
        /\ IsFiniteSet(before(k))
    BY <2>2, <2>4, FS_Subset
  <2>6. Cardinality(before(k)) \in Nat /\ Cardinality({a} \cup {b}) \in Nat
    BY <2>2, <2>5, FS_CardinalityType
  <2> DEFINE fewer == Cardinality(before(k))
             most == Cardinality({a} \cup {b})
  <2>7. fewer <= most /\ most <= 2 /\ fewer \in Nat /\ most \in Nat
    BY <2>3, <2>5, <2>6
  <2> HIDE DEF fewer, most
  <2>8. fewer < 5  BY <2>7
  <2> QED BY <2>8 DEF MaxCauses, fewer
<1>5. k \in first  BY <1>4
<1>6. [cause |-> s[k], position |-> Cardinality(before(k))] \in TopCauses(s)
  <2> HIDE DEF before, first
  <2> QED BY <1>1, <1>5
<1> HIDE DEF before
<1> QED BY <1>6

\* What stands where in two lists, one after the other.
LEMMA JoinedAt ==
  ASSUME NEW S, NEW s \in Seq(S), NEW t \in Seq(S)
  PROVE  /\ s \o t \in Seq(S) /\ Len(s \o t) = Len(s) + Len(t)
         /\ \A k \in 1..Len(s) : (s \o t)[k] = s[k]
         /\ \A k \in 1..Len(t) : (s \o t)[k + Len(s)] = t[k]
<1>1. Len(s) \in Nat /\ Len(t) \in Nat  BY LenProperties
<1>2. s \o t \in Seq(S) /\ Len(s \o t) = Len(s) + Len(t)  OBVIOUS
<1>3. \A k \in 1..Len(s) : (s \o t)[k] = s[k]  OBVIOUS
<1>4. ASSUME NEW k \in 1..Len(t) PROVE (s \o t)[k + Len(s)] = t[k]
  <2>1. k + Len(s) \in 1..(Len(s) + Len(t)) /\ ~ (k + Len(s) <= Len(s))
        /\ k + Len(s) - Len(s) = k
    BY <1>1
  <2> QED BY <1>1, <2>1
<1> QED BY <1>2, <1>3, <1>4

\* Where the causes about the lateness stand: the last penalty and the last
\* gate, if any.
LEMMA LateIsLast ==
  ASSUME NEW f, Measured(f)
  PROVE  LET s == CauseList(FactoryInput(f), InfraInput(f), AgeInput(f))
             n == Len(AllPenalties(FactoryInput(f), InfraInput(f), AgeInput(f)))
         IN /\ s \in Seq(Causes(Fields))
            /\ \A k \in DOMAIN s : s[k].field \in Own \/ k = n \/ k = Len(s)
            /\ FactoryPenalties(FactoryInput(f)) \o InfraPenalties(InfraInput(f)) # << >> =>
                 1 \in DOMAIN s /\ s[1].field \in Own
<1> DEFINE x == FactoryInput(f)
           i == InfraInput(f)
           a == AgeInput(f)
           base == FactoryRisk(f).base
           score == FactoryRisk(f).score
           s == CauseList(x, i, a)
           p == FactoryPenalties(x) \o InfraPenalties(i)
           l == FreshnessPenalty(a)
           g == FactoryStateGates(x) \o InfraGates(i, x)
           h == PipelineGates(a)
           c == GateCauses(g \o h, base, score)
<1>0. RiskInputs(x, i, a)  BY InputTypes
<1>1. s = (p \o l) \o c
  BY DEF CauseList, AllPenalties, AllGates, FactoryRisk
<1>2. base \in Int /\ score \in Int  BY ScoreIsInt
<1>3. AllPenalties(x, i, a) = p \o l  BY DEF AllPenalties
<1> HIDE DEF x, i, a, base, score, s
<1>4. Own \subseteq Fields /\ Late \subseteq Fields
  BY WeightTypes DEF Own, Late
<1>5. p \in Seq(Penalties(Own))
  <2>1. FactoryPenalties(x) \in Seq(Penalties(Own)) /\ InfraPenalties(i) \in Seq(Penalties(Own))
    BY <1>0, FactoryPenaltiesAdd, InfraPenaltiesAdd DEF RiskInputs
  <2> QED BY <2>1, PenaltiesAdd
<1>6. l \in Seq(Penalties(Late)) /\ Len(l) <= 1
  BY <1>0, FreshnessPenaltyAdds DEF RiskInputs
<1>7. g \in Seq(GatesOf(Own))  BY FactoryGatesAre, InfraGatesAre, ToSetBoth
<1>8. h \in Seq(GatesOf(Late)) /\ Len(h) <= 1  BY PipelineGatesAre
<1> HIDE DEF p, l, g, h
<1>9. p \in Seq(Causes(Own)) /\ l \in Seq(Causes(Late))
  BY <1>5, <1>6, PenaltiesAreCauses
<1>10. Causes(Own) \subseteq Causes(Fields) /\ Causes(Late) \subseteq Causes(Fields)
  BY <1>4 DEF Causes
<1>11. GatesOf(Own) \subseteq GatesOf(Fields) /\ GatesOf(Late) \subseteq GatesOf(Fields)
  BY <1>4 DEF GatesOf
<1>12. g \o h \in Seq(GatesOf(Fields)) /\ Len(g \o h) = Len(g) + Len(h)
       /\ \A k \in 1..Len(g) : (g \o h)[k] = g[k]
  <2> HIDE DEF GatesOf
  <2> QED BY <1>7, <1>8, <1>11
<1>13. /\ c \in Seq(Causes(Fields)) /\ Len(c) = Len(g) + Len(h)
       /\ \A k \in 1..Len(g \o h) : c[k].field = (g \o h)[k].field
  BY <1>2, <1>12, GateCausesAre
<1> HIDE DEF c
<1>14. \A k \in 1..Len(p) : p[k].field \in Own
  <2>1. \A k \in 1..Len(p) : p[k] \in Causes(Own)  BY <1>9, ElementOfSeq
  <2> QED BY <2>1 DEF Causes
<1>15. \A k \in 1..Len(g) : c[k].field \in Own
  <2> TAKE k \in 1..Len(g)
  <2>1. g[k] \in GatesOf(Own)  BY <1>7, ElementOfSeq
  <2>2. Len(g) \in Nat /\ Len(h) \in Nat  BY <1>7, <1>8, LenProperties
  <2>3. k \in 1..Len(g \o h)  BY <1>12, <2>2
  <2>4. c[k].field = g[k].field  BY <1>12, <1>13, <2>3
  <2> QED BY <2>1, <2>4 DEF GatesOf
<1>16. /\ p \o l \in Seq(Causes(Fields)) /\ Len(p \o l) = Len(p) + Len(l)
       /\ \A k \in 1..Len(p) : (p \o l)[k] = p[k]
  <2> HIDE DEF Causes
  <2> QED BY <1>9, <1>10
<1> DEFINE q == p \o l
<1>17. /\ s \in Seq(Causes(Fields)) /\ Len(s) = Len(q) + Len(c)
       /\ \A k \in 1..Len(q) : s[k] = q[k]
       /\ \A k \in 1..Len(c) : s[k + Len(q)] = c[k]
  <2>1. q \in Seq(Causes(Fields)) /\ s = q \o c  BY <1>1, <1>16
  <2>2. q \in Seq(Causes(Fields)) /\ c \in Seq(Causes(Fields))  BY <1>13, <2>1
  <2> HIDE DEF q
  <2>3. /\ q \o c \in Seq(Causes(Fields)) /\ Len(q \o c) = Len(q) + Len(c)
        /\ \A k \in 1..Len(q) : (q \o c)[k] = q[k]
        /\ \A k \in 1..Len(c) : (q \o c)[k + Len(q)] = c[k]
    BY <2>2, JoinedAt
  <2> QED BY <2>1, <2>3
<1>18. /\ Len(p) \in Nat /\ Len(l) \in Nat /\ Len(g) \in Nat /\ Len(h) \in Nat
       /\ DOMAIN s = 1..Len(s)
  BY <1>5, <1>6, <1>7, <1>8, <1>17, LenProperties
<1> HIDE DEF q
<1>19. ASSUME NEW k \in DOMAIN s PROVE s[k].field \in Own \/ k = Len(q) \/ k = Len(s)
  <2>0. Len(q) = Len(p) + Len(l)  BY <1>16 DEF q
  <2>1. k \in 1..Len(s)  BY <1>18
  <2>2. CASE k <= Len(p)
    <3>1. k \in 1..Len(p) /\ k \in 1..Len(q)  BY <1>18, <2>0, <2>1, <2>2
    <3>2. s[k] = p[k]  BY <1>16, <1>17, <3>1 DEF q
    <3> QED BY <1>14, <3>1, <3>2
  <2>3. CASE k > Len(p) /\ k <= Len(q)
    <3>1. k = Len(q)  BY <1>6, <1>18, <2>0, <2>1, <2>3
    <3> QED BY <3>1
  <2>4. CASE k > Len(q) /\ k <= Len(q) + Len(g)
    <3> DEFINE j == k - Len(q)
    <3>1. j \in 1..Len(g) /\ j \in 1..Len(c) /\ k = j + Len(q)
      BY <1>13, <1>18, <2>0, <2>1, <2>4
    <3> HIDE DEF j
    <3>2. s[k] = c[j]  BY <1>17, <3>1
    <3> QED BY <1>15, <3>1, <3>2
  <2>5. CASE k > Len(q) + Len(g)
    <3>1. k = Len(s)  BY <1>8, <1>13, <1>17, <1>18, <2>0, <2>1, <2>5
    <3> QED BY <3>1
  <2> QED BY <1>18, <2>0, <2>1, <2>2, <2>3, <2>4, <2>5
<1>20. ASSUME p # << >> PROVE 1 \in DOMAIN s /\ s[1].field \in Own
  <2>1. Len(p) >= 1  BY <1>5, <1>18, <1>20, EmptySeq
  <2>2. Len(q) = Len(p) + Len(l)  BY <1>16 DEF q
  <2>3. Len(s) >= 1 /\ 1 \in 1..Len(p) /\ 1 \in 1..Len(q)
    BY <1>13, <1>17, <1>18, <2>1, <2>2
  <2>4. s[1] = p[1]  BY <1>16, <1>17, <2>3 DEF q
  <2> QED BY <1>14, <1>18, <2>3, <2>4
<1> QED BY <1>3, <1>17, <1>19, <1>20 DEF x, i, a, s, p, q, l

\* A gate of another kind is not about the lateness.
LEMMA ToSetOwn ==
  ASSUME NEW s \in Seq(GatesOf(Own)), NEW g \in ToSet(s)
  PROVE  g.field # "data_freshness"
<1>1. g \in GatesOf(Own)  BY ElementOfSeq, LenProperties DEF ToSet
<1> QED BY <1>1 DEF GatesOf, Own, Late

\* A penalty of another kind leaves a cause of another kind among the top ones.
LEMMA OwnIsKept ==
  ASSUME NEW f, Measured(f),
         FactoryPenalties(FactoryInput(f)) \o InfraPenalties(InfraInput(f)) # << >>
  PROVE  \E c \in FactoryRisk(f).causes : c.cause.field \in Own
<1> DEFINE s == CauseList(FactoryInput(f), InfraInput(f), AgeInput(f))
           n == Len(AllPenalties(FactoryInput(f), InfraInput(f), AgeInput(f)))
           O == {k \in DOMAIN s : s[k].field \in Own}
<1>1. /\ s \in Seq(Causes(Fields))
      /\ \A k \in DOMAIN s : s[k].field \in Own \/ k = n \/ k = Len(s)
      /\ 1 \in DOMAIN s /\ s[1].field \in Own
  BY LateIsLast
<1>2. FactoryRisk(f).causes = TopCauses(s)  BY CausesAreTop DEF FactoryRisk
<1> HIDE DEF s, n
<1>3. O \in SUBSET (DOMAIN s) /\ O # {} /\ (DOMAIN s) \ O \subseteq {n, Len(s)}
  BY <1>1
<1>4. \A k \in O : s[k].field \in Own  OBVIOUS
<1> HIDE DEF O
<1>5. \E c \in TopCauses(s) : \E k \in O : c.cause = s[k]  BY <1>1, <1>3, TopKeeps
<1> QED BY <1>2, <1>4, <1>5

\* Late data alone does not make a score dangerous.
LEMMA LatenessCostsLittle ==
  ASSUME NEW f, Measured(f),
         FactoryPenalties(FactoryInput(f)) \o InfraPenalties(InfraInput(f)) = << >>
  PROVE  Level(FactoryRisk(f).base) # "danger"
<1> DEFINE x == FactoryInput(f)
           i == InfraInput(f)
           a == AgeInput(f)
           base == FactoryRisk(f).base
<1>0. base = Risk(x, i, a).base  BY DEF FactoryRisk
<1>1. RiskInputs(x, i, a)  BY InputTypes
<1>2. a = None \/ a \in Nat
  <2>1. "age" \in Names /\ Scale("age") \in Seq(Nat)  BY AreNames, ScaleTypes
  <2>2. FactoryReading(f, "age", None) \in Nat \cup {None}  BY <2>1, NumberIs
  <2> QED BY <2>2 DEF AgeInput
<1>3. FactoryPenalties(x) \o InfraPenalties(i) = << >>  OBVIOUS
<1> HIDE DEF x, i, a, base
<1>4. FreshnessPenalty(a) \in Seq(Penalties(Late))
      /\ TotalOf(FreshnessPenalty(a)) = FreshnessAmount(a)
  BY <1>1, FreshnessPenaltyAdds DEF RiskInputs
<1>5. FreshnessAmount(a) <= 1000 /\ FreshnessAmount(a) \in Int
  <2>1. a \in Int /\ ((a = None /\ a = None) \/ (a \in Nat /\ a \in Nat /\ a <= a))
    BY <1>1, <1>2 DEF RiskInputs
  <2> QED BY <2>1, AgeTakesMore
<1>6. AllPenalties(x, i, a) = FreshnessPenalty(a)
  <2>1. AllPenalties(x, i, a) = << >> \o FreshnessPenalty(a)  BY <1>3 DEF AllPenalties
  <2> QED BY <1>4, <2>1
<1>7. base = Clamp(FullScore - FreshnessAmount(a), 0, FullScore)
  BY <1>0, <1>1, <1>4, <1>6, PenaltiesTaken
<1>8. base >= 9000  BY <1>5, <1>7 DEF Clamp, FullScore
<1>9. base \in Int  BY <1>5, <1>7 DEF Clamp, FullScore
<1> QED BY <1>8, <1>9 DEF base, Level, SafeMin, WarningMin

\* A danger gate speaks for itself, or the pipeline's alert does.
LEMMA DangerGateSpeaks ==
  ASSUME NEW f, Measured(f), NEW g \in FactoryRisk(f).gates, g.level = "danger"
  PROVE  \E a \in FactoryAlerts(FactoryRisk(f), PipelineStatus(AgeInput(f))) :
           /\ a.severity = "danger"
           /\ \/ a.reason = g.field
              \/ g.field = "data_freshness" /\ a.reason = "pipeline_status"
<1> DEFINE risk == FactoryRisk(f)
           age == AgeInput(f)
           p == PipelineStatus(age)
<1>1. age = None \/ age \in Nat
  <2>1. "age" \in Names /\ Scale("age") \in Seq(Nat)  BY AreNames, ScaleTypes
  <2>2. FactoryReading(f, "age", None) \in Nat \cup {None}  BY <2>1, NumberIs
  <2> QED BY <2>2 DEF AgeInput
<1>2. risk.gates = FactoryGateSet(FactoryInput(f)) \cup InfraGateSet(InfraInput(f), FactoryInput(f))
                     \cup PipelineGateSet(age)
  BY RiskGatesAre DEF FactoryRisk, GateSet
<1>3. g \in risk.gates /\ g.level = "danger"  OBVIOUS
<1> HIDE DEF risk, age, p
<1>4. CASE Independent(g, p)
  <2> DEFINE a == Alert("danger", g.field, "state_snapshot")
  <2>1. a \in FactoryAlerts(risk, p)
    <3>1. a \in GateAlerts(risk, p)  BY <1>3, <1>4 DEF GateAlerts
    <3> QED BY <3>1 DEF FactoryAlerts
  <2>2. a.severity = "danger" /\ a.reason = g.field  BY DEF Alert
  <2> QED BY <2>1, <2>2 DEF risk, p, age
<1>5. CASE ~ Independent(g, p)
  <2>1. Alerting(p) /\ g.field = "data_freshness"
    BY <1>5 DEF Independent, IsPipelineFreshness
  <2>2. g \in PipelineGateSet(age)
    <3>1. g \notin FactoryGateSet(FactoryInput(f))
      BY <2>1, FactoryGatesAre, ToSetOwn
    <3>2. g \notin InfraGateSet(InfraInput(f), FactoryInput(f))
      BY <2>1, InfraGatesAre, ToSetOwn
    <3> QED BY <1>2, <1>3, <3>1, <3>2
  <2>3. Outage(age) \/ PipelineStatus(age) = "critical"
    BY <1>3, <2>2 DEF PipelineGateSet, Raised
  <2>4. p = "critical"
    <3>1. age = None \/ (age \in Nat /\ age > 300) \/ PipelineStatus(age) = "critical"
      BY <1>1, <2>3, PipelineIs
    <3> QED BY <3>1, PipelineIs DEF p
  <2> DEFINE a == Alert("danger", "pipeline_status", p)
  <2>5. a \in FactoryAlerts(risk, p)
    BY <2>1, <2>4 DEF FactoryAlerts, PipelineAlerts
  <2>6. a.severity = "danger" /\ a.reason = "pipeline_status"  BY DEF Alert
  <2> QED BY <2>1, <2>5, <2>6 DEF risk, p, age
<1> QED BY <1>4, <1>5

\* A dangerous level raises an alert of that severity.
LEMMA DangerLevelSpeaks ==
  ASSUME NEW f, Measured(f), FactoryRisk(f).level = "danger"
  PROVE  \E a \in FactoryAlerts(FactoryRisk(f), PipelineStatus(AgeInput(f))) :
           a.severity = "danger"
<1> DEFINE risk == FactoryRisk(f)
           p == PipelineStatus(AgeInput(f))
           own == OwnCauses(risk, p)
<1>0. risk.level = "danger"  OBVIOUS
<1>1. Level(risk.base) = "danger" \/ \E g \in risk.gates : g.level = "danger"
  BY LevelIsWorst
<1>2. CASE \E g \in risk.gates : g.level = "danger"
  BY <1>2, DangerGateSpeaks
<1>3. CASE Level(risk.base) = "danger"
  <2>1. FactoryPenalties(FactoryInput(f)) \o InfraPenalties(InfraInput(f)) # << >>
    BY <1>3, LatenessCostsLittle
  <2>2. \E c \in risk.causes : c.cause.field \in Own  BY <2>1, OwnIsKept
  <2> HIDE DEF risk, p
  <2>3. own # {}
    BY <2>2 DEF OwnCauses, Independent, IsPipelineFreshness, Own, Late
  <2> DEFINE reason == IF own = {} THEN "risk_level" ELSE TopCause(own).cause.reason
             a == Alert(risk.level, reason, "state_snapshot")
  <2>4. LevelAlerts(risk, p) = {a}  BY <1>0, <2>3 DEF LevelAlerts
  <2>5. a.severity = "danger"  BY <1>0 DEF Alert
  <2>6. a \in FactoryAlerts(risk, p)
    <3> HIDE DEF a
    <3> QED BY <2>4 DEF FactoryAlerts
  <2> QED BY <2>5, <2>6 DEF risk, p
<1> QED BY <1>1, <1>2, <1>3

\* A danger is never silent: the level raises an alert of that severity, and
\* so does every danger gate, although only five causes are kept and late data
\* is left to the pipeline's own alert.
THEOREM DangersAreAlerted == Spec => []DangerIsAlerted
<1>1. Produced => DangerIsAlerted
  <2> SUFFICES ASSUME Produced, Factory PROVE DangerIsAlerted
    BY DEF DangerIsAlerted
  <2>1. /\ Measured(facts) /\ snapshot.risk = FactoryRisk(facts)
        /\ alerts = FactoryAlerts(FactoryRisk(facts), PipelineStatus(AgeInput(facts)))
    BY FactoryProduced
  <2>2. snapshot.risk.level = "danger" => Danger # {}
    <3>1. FactoryRisk(facts).level = "danger" => \E a \in alerts : a.severity = "danger"
      BY <2>1, DangerLevelSpeaks
    <3> QED BY <2>1, <3>1 DEF Danger
  <2>3. ASSUME NEW g \in snapshot.risk.gates, g.level = "danger"
        PROVE  \E a \in Danger : \/ a.reason = g.field
                                 \/ g.field = "data_freshness" /\ a.reason = "pipeline_status"
    <3>1. \E a \in alerts :
            /\ a.severity = "danger"
            /\ \/ a.reason = g.field
               \/ g.field = "data_freshness" /\ a.reason = "pipeline_status"
      BY <2>1, <2>3, DangerGateSpeaks
    <3> QED BY <3>1 DEF Danger
  <2> QED BY <2>2, <2>3 DEF DangerIsAlerted
<1> QED BY <1>1, AlwaysProduced, PTL

=============================================================================
