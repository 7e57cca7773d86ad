--------------------------- MODULE MCSnapshotAlerts ---------------------------
(* Scales for TLC: values on both sides of every threshold of the score, and *)
(* for each call the answers the sections and the rules tell apart.          *)
EXTENDS SnapshotAlerts

SomeFactoryScales ==
  [temperature |-> <<20, 35, 38>>, humidity |-> <<40, 85>>,
   pressure |-> <<1013, 980>>, ai |-> <<0, 60, 80, 95>>,
   sound |-> <<FALSE, TRUE>>, samples |-> <<1, 0>>]

SomeInfraScales ==
  [node1 |-> <<TRUE, FALSE>>, node2 |-> <<TRUE, FALSE>>, running |-> <<2, 1, 0>>,
   bme280 |-> <<"available", "unavailable">>,
   camera |-> <<"available", "unavailable">>,
   disk |-> <<50, 80, 95>>, network |-> <<"ok", "bad">>]

SomeAgeScale == [age |-> <<60, 61, 120, 121, 301>>]

Group(status, issues) == [status |-> status, issues |-> issues]

Healthy == Group("ACTIVE", FALSE)

SomeFastScales ==
  [ecs |-> <<[desired |-> 2, running |-> 2], [desired |-> 2, running |-> 1],
             [desired |-> 2, running |-> 0]>>,
   ecs_cloudwatch |-> <<[high |-> FALSE], [high |-> TRUE]>>,
   alb |-> <<[healthy |-> 2, unhealthy |-> 0, errors |-> 0, slow |-> FALSE],
             [healthy |-> 2, unhealthy |-> 0, errors |-> 0, slow |-> TRUE],
             [healthy |-> 1, unhealthy |-> 1, errors |-> 0, slow |-> FALSE],
             [healthy |-> 0, unhealthy |-> 2, errors |-> 1, slow |-> TRUE]>>,
   cloudfront |-> <<[errorRateHigh |-> FALSE], [errorRateHigh |-> TRUE]>>,
   elasticache |-> <<[available |-> TRUE, strained |-> FALSE],
                     [available |-> FALSE, strained |-> TRUE]>>,
   rds |-> <<[available |-> TRUE, strained |-> FALSE],
             [available |-> TRUE, strained |-> TRUE]>>,
   lambda_cloudwatch |-> <<[errors |-> 0, throttles |-> 0],
                           [errors |-> 1, throttles |-> 0],
                           [errors |-> 1, throttles |-> 1]>>,
   dynamodb_cloudwatch |-> <<[systemErrors |-> 0, throttles |-> 0],
                             [systemErrors |-> 0, throttles |-> 1],
                             [systemErrors |-> 1, throttles |-> 0]>>,
   sqs_dlq_cloudwatch |-> <<[visible |-> 0], [visible |-> 1]>>,
   scheduler |-> <<[schedules |-> 1, disabled |-> 0], [schedules |-> 0, disabled |-> 0],
                   [schedules |-> 1, disabled |-> 1]>>,
   factory_latest |-> <<[pipeline |-> "normal"], [pipeline |-> "critical"]>>]

K8s(ready, failed, pending, apps) ==
  [ready |-> ready, total |-> 2, failedPods |-> failed, pending |-> pending,
   apps |-> apps]

SomeSlowScales ==
  [eks_cluster |-> <<[status |-> "ACTIVE"], [status |-> ""], [status |-> "UPDATING"],
                    [status |-> "FAILED"]>>,
   eks_nodegroups |-> <<[groups |-> {Healthy}], [groups |-> {}],
                        [groups |-> {Healthy, Group("ACTIVE", TRUE)}],
                        [groups |-> {Healthy, Group("UPDATING", FALSE)}],
                        [groups |-> {Group("ACTIVE", TRUE), Group("DEGRADED", FALSE)}]>>,
   autoscaling |-> <<[desired |-> 2, healthy |-> 2], [desired |-> 2, healthy |-> 1],
                     [desired |-> 2, healthy |-> 0]>>,
   kubernetes_api |-> <<K8s(2, 0, 0, "synced"), K8s(2, 0, 1, "synced"),
                        K8s(2, 0, 0, "no_answer"), K8s(1, 0, 0, "out_of_sync"),
                        K8s(2, 1, 0, "degraded"), K8s(0, 0, 2, "synced"),
                        [failed |-> "unauthorized"]>>,
   storage_freshness |-> <<[raw |-> TRUE, processed |-> TRUE, aggregated |-> TRUE],
                           [raw |-> TRUE, processed |-> TRUE, aggregated |-> FALSE],
                           [raw |-> FALSE, processed |-> FALSE, aggregated |-> FALSE]>>]
=============================================================================
