---------------------------- MODULE CloudSections ----------------------------
(***************************************************************************)
(* What the collectors of the cloud infrastructure                         *)
(* (src/apps/cloud-infra-collector/cloud_infra) make of the answers of the *)
(* AWS and Kubernetes APIs: the sections of the fast and of the slow       *)
(* snapshot with their statuses.  An answer is a record of what the rules  *)
(* look at: a metric is reduced to whether it passes its threshold, a      *)
(* counter to the numbers 0, 1, ...  A call that raises is an answer       *)
(* [failed |-> message].                                                   *)
(***************************************************************************)
EXTENDS Naturals, Sequences, FiniteSets

StatusRank == [normal |-> 0, unknown |-> 1, warning |-> 2, critical |-> 3]

\* worst_status(), section_status()
WorstStatus(statuses) ==
  IF statuses = {} THEN "unknown"
  ELSE CHOOSE s \in statuses :
         \A t \in statuses : StatusRank[t] <= StatusRank[s]

Failed(answer) == "failed" \in DOMAIN answer

\* The calls of the set that raised, as the fast collector reports them: an
\* item of `source` and `message`.
FastErrors(answers) ==
  {[source |-> c, message |-> answers[c].failed] :
     c \in {c \in DOMAIN answers : Failed(answers[c])}}

\* The slow collector's items: `collector` and `error`.
SlowErrors(answers) ==
  {[collector |-> c, error |-> answers[c].failed] :
     c \in {c \in DOMAIN answers : Failed(answers[c])}}

-----------------------------------------------------------------------------
(* fast_collectors.py: each status is asked of an answer that did not fail *)

\* A service that was not found counts no tasks at all, like one scaled to 0.
EcsStatus(ecs, metrics) ==
  IF ecs.desired > 0 /\ ecs.running = 0 THEN "critical"
  ELSE IF ecs.running < ecs.desired \/ metrics.high THEN "warning"
  ELSE "normal"

AlbStatus(alb) ==
  IF alb.healthy = 0 THEN "critical"
  ELSE IF alb.errors > 0 \/ alb.slow THEN "warning"
  ELSE "normal"

CloudfrontStatus(cloudfront) ==
  IF cloudfront.errorRateHigh THEN "warning" ELSE "normal"

\* Redis or RDS: not available, or a metric beyond its threshold.
StoreStatus(store) ==
  IF ~store.available THEN "critical"
  ELSE IF store.strained THEN "warning" ELSE "normal"

LambdaStatus(l) ==
  IF l.errors > 0 \/ l.throttles > 0 THEN "warning" ELSE "normal"

DynamodbStatus(d) ==
  IF d.systemErrors > 0 THEN "critical"
  ELSE IF d.throttles > 0 THEN "warning" ELSE "normal"

DlqStatus(q) == IF q.visible > 0 THEN "warning" ELSE "normal"

SchedulerStatus(s) ==
  IF s.schedules = 0 THEN "unknown"
  ELSE IF s.disabled > 0 THEN "warning" ELSE "normal"

\* A section whose collectors all answered has the worst status; one failed
\* call makes it unknown.
Judged(answers, status) ==
  IF \E c \in DOMAIN answers : Failed(answers[c]) THEN "unknown" ELSE status

Restricted(f, names) == [c \in names |-> f[c]]

BackendRuntime(facts) ==
  LET own == Restricted(facts, {"ecs", "ecs_cloudwatch", "alb", "cloudfront"})
  IN [errors |-> FastErrors(own), alb |-> own.alb,
      status |-> Judged(own, WorstStatus({EcsStatus(own.ecs, own.ecs_cloudwatch),
                                          AlbStatus(own.alb),
                                          CloudfrontStatus(own.cloudfront)}))]

Datastores(facts) ==
  LET own == Restricted(facts, {"elasticache", "rds"})
  IN [errors |-> FastErrors(own),
      status |-> Judged(own, WorstStatus({StoreStatus(own.elasticache),
                                          StoreStatus(own.rds)}))]

DataPipeline(facts) ==
  LET own == Restricted(facts, {"lambda_cloudwatch", "dynamodb_cloudwatch",
                                "sqs_dlq_cloudwatch", "scheduler"})
  IN [errors |-> FastErrors(own),
      lambdas |-> own.lambda_cloudwatch, dynamodb |-> own.dynamodb_cloudwatch,
      status |-> Judged(own,
        WorstStatus({LambdaStatus(own.lambda_cloudwatch),
                     DynamodbStatus(own.dynamodb_cloudwatch),
                     DlqStatus(own.sqs_dlq_cloudwatch),
                     SchedulerStatus(own.scheduler)}))]

\* The pipeline status of the factories, as their LATEST items have it.
FactoryFreshness(facts) ==
  LET own == [c \in {"dynamodb:GetItem"} |-> facts.factory_latest]
  IN [errors |-> FastErrors(own),
      status |-> Judged(own, WorstStatus({facts.factory_latest.pipeline}))]

CollectFast(facts) ==
  LET backend == BackendRuntime(facts)
      stores == Datastores(facts)
      pipeline == DataPipeline(facts)
      freshness == FactoryFreshness(facts)
  IN [backend_runtime |-> backend, datastores |-> stores,
      data_pipeline |-> pipeline, factory_freshness |-> freshness,
      errors |-> backend.errors \cup stores.errors \cup pipeline.errors
                   \cup freshness.errors]

-----------------------------------------------------------------------------
(* slow_collectors.py and k8s_metrics.py *)

NodesStatus(ready, total) ==
  IF total > 0 /\ ready = total THEN "normal"
  ELSE IF total > 0 /\ ready = 0 THEN "critical" ELSE "warning"

PodsStatus(failed, pending) ==
  IF failed > 0 THEN "critical" ELSE IF pending > 0 THEN "warning" ELSE "normal"

\* The applications are an optional call: without them the status is unknown
\* although no error is reported.
ArgocdStatus(apps) ==
  CASE apps = "no_answer" -> "unknown"
    [] apps = "degraded" -> "critical"
    [] apps = "out_of_sync" -> "warning"
    [] apps = "synced" -> "normal"

\* _cluster_summary() or, when it failed, the fallback of _safe(); "" stands for
\* an answer without a status.
ClusterState(cluster) == IF Failed(cluster) THEN "UNKNOWN" ELSE cluster.status

ClusterStatus(cluster) ==
  CASE ClusterState(cluster) = "ACTIVE" -> "normal"
    [] ClusterState(cluster) \in {"CREATING", "UPDATING"} -> "warning"
    [] ClusterState(cluster) = "" -> "unknown"
    [] OTHER -> "critical"

NodegroupStatus(group) ==
  IF group.issues THEN "warning"
  ELSE CASE group.status = "ACTIVE" -> "normal"
         [] group.status \in {"CREATING", "UPDATING"} -> "warning"
         [] OTHER -> "critical"

\* _nodegroup_summaries(): no group when the call failed.
Nodegroups(answer) == IF Failed(answer) THEN {} ELSE answer.groups

\* _nodegroups_status(): unknown without a group.
NodegroupsStatus(groups) == WorstStatus({NodegroupStatus(g) : g \in groups})

\* _asg_summary() asks for the groups of the node groups, if there are any.
AutoscalingAnswer(facts) ==
  IF Nodegroups(facts.eks_nodegroups) = {} THEN [desired |-> 0, healthy |-> 0]
  ELSE facts.autoscaling

\* A failed call counts nothing.
Autoscaling(facts) ==
  IF Failed(AutoscalingAnswer(facts)) THEN [desired |-> 0, healthy |-> 0]
  ELSE AutoscalingAnswer(facts)

AsgStatus(asg) ==
  IF asg.desired > 0 /\ asg.healthy = 0 THEN "critical"
  ELSE IF asg.healthy < asg.desired THEN "warning" ELSE "normal"

\* Without the cluster's endpoint there is no client for the Kubernetes API.
KubernetesAnswer(facts) ==
  IF Failed(facts.eks_cluster) THEN [failed |-> "no_endpoint"]
  ELSE facts.kubernetes_api

\* kubernetes_summary() or _empty_kubernetes_summary().
Kubernetes(answer) ==
  IF Failed(answer) THEN [nodes |-> "unknown", pods |-> "unknown", argocd |-> "unknown"]
  ELSE [nodes |-> NodesStatus(answer.ready, answer.total),
        pods |-> PodsStatus(answer.failedPods, answer.pending),
        argocd |-> ArgocdStatus(answer.apps)]

\* _storage_status()
StorageStatus(storage) ==
  CASE Failed(storage) -> "unknown"
    [] ~Failed(storage) /\ ~storage.raw /\ ~storage.processed /\ ~storage.aggregated
         -> "unknown"
    [] ~Failed(storage) /\ storage.processed /\ storage.aggregated -> "normal"
    [] OTHER -> "warning"

\* _collect_storage_freshness(): whether the listings found an object at all.
StorageFreshness(facts) == StorageStatus(facts.storage_freshness)

\* collect_slow()
CollectSlow(facts) ==
  LET kubernetes == Kubernetes(KubernetesAnswer(facts))
      asked == [eks_cluster |-> facts.eks_cluster,
                eks_nodegroups |-> facts.eks_nodegroups,
                autoscaling |-> AutoscalingAnswer(facts),
                kubernetes_api |-> KubernetesAnswer(facts),
                storage_freshness |-> facts.storage_freshness]
  IN [cluster |-> ClusterState(facts.eks_cluster),
      nodegroups |-> Nodegroups(facts.eks_nodegroups),
      autoscaling |-> Autoscaling(facts),
      sections |-> kubernetes,
      status |-> WorstStatus({ClusterStatus(facts.eks_cluster),
                              NodegroupsStatus(Nodegroups(facts.eks_nodegroups)),
                              AsgStatus(Autoscaling(facts))}
                             \cup {kubernetes[s] : s \in DOMAIN kubernetes}),
      storage |-> StorageFreshness(facts),
      errors |-> SlowErrors(asked)]
=============================================================================
