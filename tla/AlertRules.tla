------------------------------ MODULE AlertRules ------------------------------
(***************************************************************************)
(* The rules that find the alerts of a snapshot                            *)
(* (src/apps/risk-alert-dispatcher/alert_dispatcher/rules.py).  An alert   *)
(* is the fingerprint it is stored under, its severity, reason and         *)
(* (fingerprint) status, with its confirmation policy; evaluate() returns  *)
(* one alert for each fingerprint, here a set.                             *)
(***************************************************************************)
EXTENDS RiskScore, CloudSections

\* _cloud_confirmation_policy() per source type: the warnings to be seen twice.
ConfirmedReasons ==
  [cloud_infra_fast |-> {"backend_runtime_warning", "data_pipeline_warning",
                         "data_pipeline_lambda_errors"},
   cloud_infra_slow |-> {"eks_management_warning", "pods_warning"}]

Alert(severity, reason, status) ==
  [severity |-> severity, reason |-> reason, status |-> status,
   observations |-> 1]

CloudAlert(source, severity, reason, status) ==
  LET level == IF severity = "critical" THEN "danger" ELSE severity
  IN [severity |-> level, reason |-> reason, status |-> status,
      observations |-> IF level = "warning" /\ reason \in ConfirmedReasons[source]
                         THEN 2 ELSE 1]

-----------------------------------------------------------------------------
(* Factory snapshots *)

IsPipelineFreshness(item) == item.field = "data_freshness"

\* _top_cause(): the first of those that contribute most.
TopCause(causes) ==
  CHOOSE c \in causes : \A d \in causes :
    \/ c.cause.contribution > d.cause.contribution
    \/ c.cause.contribution = d.cause.contribution /\ c.position <= d.position

Alerting(pipeline) == pipeline \in {"warning", "critical"}

\* A faulty variant of Independent: freshness is not left to the pipeline's
\* own alert.
AlwaysIndependent(item, pipeline) == TRUE

\* Freshness is left to the pipeline's own alert when there is one.
Independent(item, pipeline) ==
  ~(Alerting(pipeline) /\ IsPipelineFreshness(item))

OwnCauses(risk, pipeline) ==
  {c \in risk.causes : Independent(c.cause, pipeline)}

LevelAlerts(risk, pipeline) ==
  LET own == OwnCauses(risk, pipeline)
      reason == IF own = {} THEN "risk_level" ELSE TopCause(own).cause.reason
  IN IF risk.level \in {"warning", "danger"} /\ (own # {} \/ ~Alerting(pipeline))
       THEN {Alert(risk.level, reason, "state_snapshot")} ELSE {}

PipelineAlerts(pipeline) ==
  IF Alerting(pipeline)
    THEN {Alert(IF pipeline = "critical" THEN "danger" ELSE "warning",
                "pipeline_status", pipeline)}
    ELSE {}

CauseAlerts(risk, pipeline) ==
  {Alert("danger", c.cause.reason, "state_snapshot") :
     c \in {c \in OwnCauses(risk, pipeline) : c.cause.severity = "danger"}}

\* A faulty variant of GateAlerts: it asks for the `severity` of a gate, which
\* has a `level`.
GateAlertsBySeverity(risk, pipeline) == {}

\* A gate has no `reason` either, so its field is the alert's.
GateAlerts(risk, pipeline) ==
  {Alert("danger", g.field, "state_snapshot") :
     g \in {g \in risk.gates : Independent(g, pipeline) /\ g.level = "danger"}}

\* _factory_alerts(): the level, the pipeline, and every danger among the top
\* causes and the gates.
FactoryAlerts(risk, pipeline) ==
  LevelAlerts(risk, pipeline) \cup PipelineAlerts(pipeline)
    \cup CauseAlerts(risk, pipeline) \cup GateAlerts(risk, pipeline)

-----------------------------------------------------------------------------
(* Cloud snapshots *)

\* A faulty variant of Suppressed: whether an error explains it is not asked.
SuppressedUnknown(status, errors) == status = "unknown"

\* _suppress_unknown_when_collector_failed()
Suppressed(status, errors) == status = "unknown" /\ errors # {}

\* A faulty variant of SpecificSeverity: a specific reason is a warning.
SpecificIsWarning(status) == "warning"

\* _cloud_specific_severity()
SpecificSeverity(status) == IF status = "critical" THEN "danger" ELSE "warning"

\* _cloud_severity()
CloudSeverity(status) ==
  CASE status = "critical" -> "danger"
    [] status \in {"warning", "unknown"} -> "warning"
    [] OTHER -> status

\* _error_reason(): asks for the fields `collector` and `error`.
ErrorReason(error) ==
  LET collector == IF "collector" \in DOMAIN error THEN error.collector
                   ELSE "collector_error"
      unauthorized == "error" \in DOMAIN error /\ error.error = "unauthorized"
  IN collector \o (IF unauthorized THEN "_unauthorized" ELSE "_error")

\* A counter of an answer; 0 when the call failed and there is none.
Count(answer, counter) == IF Failed(answer) THEN 0 ELSE answer[counter]

\* The specific reasons of each section of a fast snapshot.
SpecificReasons(fast) ==
  LET lambdas == fast.data_pipeline.lambdas
      reasons(raised, reason) == IF raised THEN {reason} ELSE {}
  IN [data_pipeline |->
        reasons(Count(lambdas, "errors") > 0, "data_pipeline_lambda_errors")
        \cup reasons(Count(lambdas, "throttles") > 0, "data_pipeline_lambda_throttles")
        \cup reasons(Count(fast.data_pipeline.dynamodb, "throttles") > 0,
                     "dynamodb_throttles"),
      backend_runtime |->
        reasons(Count(fast.backend_runtime.alb, "unhealthy") > 0,
                "alb_unhealthy_hosts")]

FastSections == {"backend_runtime", "data_pipeline"}

\* The sections that no specific reason explains.
Generic(fast) ==
  {s \in FastSections : /\ fast[s].status # "normal"
                        /\ SpecificReasons(fast)[s] = {}
                        /\ ~Suppressed(fast[s].status, fast.errors)}

\* _cloud_fast_alerts()
FastAlerts(fast) ==
  LET A(severity, reason) == CloudAlert("cloud_infra_fast", severity, reason, "fast")
  IN (UNION {{A(SpecificSeverity(fast[s].status), r) : r \in SpecificReasons(fast)[s]} :
                s \in FastSections})
     \cup {A("warning", ErrorReason(e)) : e \in fast.errors}
     \cup {A(fast[s].status, s \o "_" \o fast[s].status) : s \in Generic(fast)}

\* _cloud_slow_alerts()
SlowAlerts(slow) ==
  LET A(severity, reason) == CloudAlert("cloud_infra_slow", severity, reason, "slow")
      alarm(raised, reason) == IF raised THEN {A("danger", reason)} ELSE {}
      abnormal == {s \in DOMAIN slow.sections :
                     /\ slow.sections[s] # "normal"
                     /\ ~Suppressed(slow.sections[s], slow.errors)}
      specific ==
        alarm(slow.cluster \notin {"", "ACTIVE"}, "eks_cluster_not_active")
        \cup alarm(\E g \in slow.nodegroups : g.status \notin {"", "ACTIVE"},
                   "eks_nodegroup_not_active")
        \cup alarm(slow.autoscaling.healthy < slow.autoscaling.desired,
                   "autoscaling_unhealthy_instances")
        \cup {A(CloudSeverity(slow.sections[s]), s \o "_" \o slow.sections[s]) :
                s \in abnormal}
      generic == IF slow.status = "normal" \/ specific # {}
                      \/ Suppressed(slow.status, slow.errors) THEN {}
                 ELSE {A(CloudSeverity(slow.status), "eks_management_" \o slow.status)}
      storage == IF slow.storage = "normal" THEN {}
                 ELSE {A(CloudSeverity(slow.storage), "storage_freshness_" \o slow.storage)}
  IN specific \cup generic \cup storage
     \cup {A("warning", ErrorReason(e)) : e \in slow.errors}
=============================================================================
