# Aegis-Pi Risk Twin: TLA+ models

Specifications of the parts of Aegis-Pi Risk Twin whose correctness depends on
the order of steps (Lambda functions that run concurrently on the same DynamoDB
items, processes that share a spool directory, collectors that overwrite each
other's item, answers that arrive on a page its user has left) and of the
computations between them (risk score, alert rules, reports, charts). A module
models one component or one computation, TLC checks its properties on
small instances, and the TLA+ proof system proves the most important ones for
every value of the constants. Paths below are relative to the repository's
root; `PROJECT.json` maps each definition to its lines.

## The system

A factory's edge cluster turns sensor rows into messages, spools them and
publishes them to AWS IoT Core. In the cloud Lambda functions keep the current
state and its history, judge the risk, send alerts and aggregate; a backend and
a browser show the result.

```
 InfluxDB, k8s -> log adapter --\                               /-> risk-alert-dispatcher -> Slack
                                 > outbox -> IoT publisher -> data-processor -> S3, DynamoDB
 camera -> snapshot uploader ---/            (IoT rule)          |-> lambda-notifier -> Redis -> backend -> browser
               |-> S3 (presigned PUT)                            |-> graph-metrics-aggregator -> GRAPH#5M
 AWS APIs -> cloud-infra-collector -> CLOUD#infra item -> backend\-> daily-report-generator -> reports
```

| Component | State it keeps | Operations | What is hard |
| --- | --- | --- | --- |
| factory-a-log-adapter | outbox files | build a state, write it under its message id | shares the outbox with processes of another user; repeated ids |
| snapshot-uploader | upload state file, outbox files, S3 objects | scan, hash, presign, PUT, write metadata, write state | crash between any two writes; images written while they are read |
| edge-iot-publisher | none beyond the outbox | scan, read and validate, publish, unlink, quarantine | no acknowledgement; crash between publish and unlink |
| snapshot-presigner | none | authorise, validate, presign | stateless |
| data-processor | LATEST and HISTORY items, S3 objects | factory state, infra state, image reference, one-minute refresh | reads before writes without conditions; duplicates, reordering, retries |
| risk-alert-dispatcher | ALERT and OBSERVATION items, Slack channel | confirm, reserve, send, record | at-least-once events, up to three concurrent invocations, kills, retries |
| graph-metrics-aggregator | GRAPH#5M items, S3 objects | aggregate the closed bucket | bucket bounds as strings, late data |
| cloud-infra-collector | CLOUD#infra item, HISTORY, S3 | fast run every minute, slow run every five | both put back the whole item |
| lambda-notifier | none | publish LATEST changes to Redis | batches are repeated, bisected and given up; Redis keeps nothing |
| dashboard-backend | caches, PostgreSQL users, WebSockets | reads, live updates, users, chat, reports | two stores changed one after the other; timeouts that leave threads running |
| dashboard-web | component state | reconnect, fetch, merge | late answers, sockets of an earlier factory |
| daily-report-generator | report objects in S3 | hourly map, merge, generate | workflow with partial results |
| edge-agent, charts, infra, scripts | none | health server, deployment | only constants and assumptions here |

What makes them correct:

- **Alerts**: one message per snapshot and alert, in the order of the snapshots,
  never two inside a cooldown, none without the confirmation it needs, none
  lost without a failure that explains it; the stored status tells the truth.
- **Current state**: the pipeline is never called normal without a fresh
  heartbeat; silence is noticed; every message is processed and stored in the
  end; LATEST and HISTORY become coherent again.
- **Score and rules**: what is worse never scores higher, the level is the worst
  of what the parts say, and nothing dangerous or critical stays silent.
- **Cloud infrastructure status**: the overall status agrees with the sections;
  "normal" is only shown when both collectors recently found it.
- **Edge**: nothing that was spooled disappears unsent; the upload state and the
  metadata speak of objects that exist; the outbox drains.
- **Reports**: every record of a day counts once, long silences and the worst of
  the day are told, an incident over an hour's end is one incident.
- **Charts**: no observation counts twice, points neither overlap nor skip what
  is stored, extremes survive every joining of buckets.
- **Delivery**: an answered page shows its own factory, and ends with the last
  state.
- **Users**: user pool and database agree. They do not always (Findings).

## Modules

| Module | Models | State and actions |
| --- | --- | --- |
| `AlertThrottle` | what the dispatcher promises | grants and messages; `Grant`, `Post`, `Tick` |
| `AlertDispatcher` | risk-alert-dispatcher | items, observations, running invocations, S3 and Lambda queues; one action per DynamoDB or Slack call |
| `DataProcessor` | data-processor, one factory | LATEST, HISTORY, S3, running invocations; one action per DynamoDB or S3 call |
| `CloudInfraStatus` | cloud-infra-collector and the backend's reading of its item | the item, its history, running collectors |
| `EdgeOutbox` | log adapter, uploader and publisher on one outbox | files, S3 objects, upload state, three processes |
| `RiskScore` | normalisation, pipeline status, penalties, gates and caps | operators only |
| `CloudSections` | the collectors' judgement of what APIs answer | operators only |
| `AlertRules` | the dispatcher's rules | operators only, over the two modules above |
| `SnapshotAlerts` | from a measurement to its alerts | facts, last snapshot, its alerts; one action per kind of message or run |
| `ReportEvents`, `FactoryReport`, `CloudReport` | the reports' aggregations and judgements | operators only |
| `ReportWorkflow` | the state machine that runs them | stored objects, branches of an execution; one action per task |
| `GraphMetrics` | buckets, points and their joining | operators only |
| `GraphCharts` | data-processor's HISTORY, aggregator, backend and a page's chart | items, invocations, chart, requests |
| `LiveView` | stream, notifier, WebSockets and a page | items, stream, sockets, requests, page |
| `UserAdmin` | create, change and delete a user | account, row, grants, locks, two requests |
| `MC...` | instances for TLC | constants and symmetry only |
| `...Proofs` | theorems and proofs | see Proofs |

`SnapshotAlerts` composes the score of the data processor, the sections of the
collectors and the rules of the dispatcher; `ReportWorkflow` composes both
reports; `GraphCharts` goes from the data processor's writes to a browser. The
modules of operators are used by those and declare no state of their own.
`AlertDispatcher` implements `AlertThrottle` (`ThrottleSpec`, an INSTANCE with a
mapping of the clock and two history variables).

Definitions called "a faulty variant of X" are not part of a specification: each
is X with a plausible mistake, and replacing X by it must violate the property
it was written for. They show that the property depends on that code.

### AlertDispatcher

`handler()` reads the clock once (`inv[w].now`), then for every alert runs
`confirm()` (`ConfirmCount`, `ConfirmReset`: two conditional updates with a gap
between them), `reserve()` (`Reserve`), `slack.send()` (`Send`, which may fail
before or after the channel has the message) and `record_slack_result()`
(`Record`, unconditional). Other invocations run between any two of these. S3
delivers an event late or twice, `Fail` kills an invocation at any step and
Lambda retries its event from the start. `Tick` is disabled while an invocation
has used up `Timeout`: Lambda kills at 30 s (`src/infra/data-pipeline/variables.tf`),
while the cooldown is 300 s or more, so `Timeout < Cooldown` is the module's
assumption. The rules that find the alerts of a snapshot are an arbitrary set of
alerts per snapshot, so every outcome of the rules is covered. Item TTLs (seven
days), clock skew between hosts and the wording of messages are left out.

`AlertThrottle` is the abstract specification: grants of one fingerprint are for
ever newer snapshots and a cooldown apart, a message needs an unused grant whose
invocation may still be running. `ThrottleSpec` is the refinement, with the same
variables `granted` and `slackLog` (history variables of the dispatcher).

### DataProcessor

An invocation reads LATEST, computes status and risk, updates LATEST, reads it
again, puts that under a HISTORY key and writes S3 objects (`Read`, `Update`,
`Reread`, `PutHistory`, `PutData`, `PutRisk`, `PutSnapshot`). `get_item` is called
without `ConsistentRead`, so a read returns LATEST or what a replica still has
(`replica`, `Replicate`); replicas lag less than a tick of a minute. A read that
finds nothing after the update leaves out HISTORY and snapshot, as in the code. A
state attribute is the message it came from; the risk is the record of the inputs
it was computed from, so "the risk belongs to this state" can be said exactly.
`Fail` stops an invocation anywhere; Lambda retries messages and refreshes.
`Tick` respects the Lambda timeout of 60 s, one tick. Messages the envelope check
rejects change nothing and are not enumerated; the loop of the refresh over several
factories is modelled for one of them.

### CloudInfraStatus

`ReadLatest` and `PutLatest` are separate, so runs of the two collectors
interleave, and `ReadLatest` may see a replica that misses the last puts; `View` is the backend's `_status_with_staleness()`. What the AWS and
Kubernetes collectors find is an arbitrary status per run.

### EdgeOutbox

The three processes are three records with a program counter. The adapter's
`rename` and `chmod` are two steps because it runs as another user than the
publisher (`USER` lines of the Dockerfiles): a renamed file is not readable yet.
The uploader reads the image three times (`UploaderPick`: stat, `UploaderHash`,
`UploaderPut`), and the camera may write the file in between. Publish is QoS 0:
`PublisherSend` may or may not reach the broker and returns all the same when
`Lossy`. One instance of each process runs (replicas 1, strategy Recreate).
The cleanup script `scripts/ops/aegis-outbox-cleanup.sh` is not part of it: its
cron job runs on the factories that send dummy data.
The order in which the publisher takes files is arbitrary here; the code's
order by mtime is one of them. A second collision of a quarantined name in the
same second, and a corrupt upload state file, are not modelled.

### RiskScore, CloudSections, AlertRules and SnapshotAlerts

`RiskScore` is `normalizer.py`, `pipeline_status.py` and `risk.py`: penalties in
hundredths with their weights, the gates, and the caps that keep the score below
a gate's level. `CloudSections` is what the two collectors make of answers: a
metric is reduced to whether it passes its threshold, a call that raises is an
answer of its own, and so is one with no schedule, no node group or no status. `AlertRules` is `rules.py`: the alerts of a snapshot with
fingerprint, severity and confirmation policy, including what is suppressed as
unknown. Texts of reasons, summaries and lists of pods are left out.

In `SnapshotAlerts` a state gives each measurement a place on a scale from good
to bad, 0 for a missing value or a failed call. `FactoryState`, `InfraState`,
`Refresh` and `Collect` change one measurement of one kind, as a message or run
may, recompute the whole snapshot and evaluate the rules on it. So properties
relate a snapshot to its measurements, and an action property compares two
snapshots. The scales have values on both sides of every threshold of the code;
`MeasurementsAssumption` says which way they go, and TLC evaluates it for them.
`NodegroupsAssumption` is about EKS, not about the code: every node group comes
with a status. Of one without, `_nodegroups_status()` would make a critical
section that `_cloud_slow_alerts()` has no danger for when another specific alert
is there.

### ReportEvents, FactoryReport, CloudReport and ReportWorkflow

Time is scaled: `HourTicks` ticks to an hour, `Hours` hours to a day. An hour's
task validates and sorts its records, counts them, finds gaps and runs of samples that
make events, and keeps the most severe (`ReportEvents`, `FactoryReport`,
`CloudReport`); the merge adds counts, joins events over the hours' border and
keeps a bounded number; the generation turns the context into tables and
judgements. Averages, percentiles, utilisations and the language model's prose
are left out: prose is not computed by this code.

`ReportWorkflow` is `step_functions.tf` with its Lambda handlers: each target's
branch goes through `AggregateHour` (in any order), `Merge` and `WriteContext`,
`Generate`, `ValidationFailed` or `WriteMetadata`. `TaskFails` fails the
execution, because no state has Retry or Catch; `Arrive` lets late records come
between tasks; the day may be executed again over what is stored.

### GraphMetrics and GraphCharts

`GraphMetrics` is `metrics.py`, `bucket.py` and `dynamo.py` of the aggregator and
the points of `services/ddb.py`: the bound of the query is compared as a string,
so that the first second of a bucket falls out (`QueryHistory`). Means are
fractions, so nothing is rounded. In `GraphCharts` `Process` writes LATEST and
HISTORY as the data processor does, `Invoke` and `Aggregate` are the schedule and
the handler with its DynamoDB and S3 puts, `Load`, `Receive` and `RequestFails`
are `useFactoryHistory`: what is asked for, `since` which point, and how answers
are merged, late ones included. One factory state metric and one infra state
metric stand for the several that are reduced alike.

### LiveView

`Change` is any update of LATEST, which reaches reads with a delay
(`Replicate`) and the stream at once. `Invoke`, `Publish` and `NotifierFails` are
the notifier with batches that are repeated, bisected and given up after the
retries of the event source mapping. A socket goes through `OpensSocket` (after
the token was awaited), `Accept`, `Subscribe`, and `Breaks`; `OnClose` and `Retry`
are the hook's reconnection, with closures of a factory the page has left; of
several pending timers the hook can clear the one set last, while it is pending
(`held`).
`Navigate` keeps the mounted page and its state but for what the code resets;
`Refresh`, `Read` and `Receive` are its requests, of which an
answer may come in after the page moved on.

### UserAdmin

One user, two requests, each a transaction under READ COMMITTED with row locks,
taken in the order of the code: `Rename` locks the row before the grants, a
deletion the grants before the row. Cognito's calls are actions of their own
that no rollback undoes. `Deadlocked` is PostgreSQL ending a transaction when
both wait, `CommitFails` a failing commit.

## Runs

Times and sizes are those of two TLC workers.

| Run | Instance | Shows |
| --- | --- | --- |
| `alert_immediate` | two invocations, one alert in snapshots of three consecutive ticks, a fault, a retry; fair | the dispatcher implements the throttle (`ThrottleSpec`), the status is honest, every lost reservation has its own fault, spacing and order of the channel, and a raised alert is reserved |
| `alert_confirm` | the same with a confirmation of two observations and a duplicate | no reservation without an older snapshot of the window that raised the alert, too |
| `alert_confirm_race` | two invocations, no duplicate | counterexample: an observation is lost between the two updates of `confirm()` |
| `dp_progress` | one invocation at a time, an infra and a factory state, a duplicate, a failure, a retry; fair; 107 867 states | every message is processed and stored in full, silence is noticed, the refresh repairs LATEST and completes HISTORY |
| `dp_concurrent` | two invocations, two infra states and an image, late reads; 3.0 million states | no false "normal" |
| `infra_overlap` | two invocations of either collector, a failure; 1.75 million states | LATEST and the snapshots stay consistent, the backend's "normal" is earned |
| `edge_outbox` | a state built twice, an image written twice, an invalid file, a crash or failed call; fair; 340 631 states | no state is dropped, markers and metadata refer to what S3 holds, every file leaves the outbox |
| `snapshot_alerts` | all good, all bad or nothing known, then any three changes of one measurement each; 26 817 states | the level is the worst of its parts, worse never scores higher, nothing dangerous, abnormal or critical is silent, late data alone raise one alert |
| `report_day` | 17 pairs of days, of two hours with eight ticks, a failing task, a second execution; 65 998 states | every record counts once; silences, the worst of the day and judgements agree with what happened; an incident is one event |
| `graph_charts` | buckets of three ticks, eight ticks of time, both phases of the schedule, windows of one and two buckets, a failure, two requests at once; 1.75 million states | observations count once, points are disjoint and complete, averages and extremes are right |
| `live_view` | two factories, a change, two moves, a fault, two sockets and requests at a time; fair; 1.47 million states | an answered page is of its own factory and comes to show the current state |
| `users_consistent` | two requests, no failure | counterexample: an active user without an account |

**Bounds.** Every counter is capped by a named constant: `MaxClock`,
`MaxRetries`, `MaxDuplicates`, `MaxFaults`, `MaxVersion`, `MaxCycles`,
`MaxMessages`, `MaxRuns`, `MaxTime`, `MaxRequests`, `MaxChanges`, `MaxVisits`,
`MaxSockets`. Two concurrent invocations suffice because the hazards are pairs
of calls on one item; three snapshots give an alert before, inside and after a
cooldown of two ticks, and both orders of late delivery; one fault with one
retry lets a killed invocation meet its own retry and another invocation. In
`DataProcessor` thresholds of zero and one tick and a clock of two let a
heartbeat be missing, fresh and late. In `EdgeOutbox` two versions of an image
and two builds of one id are what a rewrite and a repeated id need; the theorems
cover several images, of one second or not. In `ReportWorkflow` an hour's limits
on events and gaps are small enough to be passed, and the days hold silences
within an hour and over its border. In `GraphCharts` the time covers three
buckets, so that a late observation, a closed bucket and a bucket joined anew
all occur. In `LiveView` a user may come back to the first factory, and one fault
is enough to lose a push.

What these bounds leave out: `dp_progress` has one invocation at a time, so that
another one's update between a read and a write is only seen as a late replica
(two invocations with a fault and a retry are beyond TLC's time here; the
theorems of `DataProcessorProofs` have any number, but are about safety). In `live_view` one change
makes batches of one record. In `infra_overlap` the clock ends when a slow section
becomes stale (`NormalAlwaysEarned` has any times). In `alert_immediate` repeated
events come from retries only (`DispatcherChannelInOrder` has duplicates).
`users_consistent` has no failed commit; the counterexample needs none.

**Deadlock.** Checked except where a behaviour ends: the clock's bound
(`alert_*`, `infra_overlap`), the bound of messages (`snapshot_alerts`), a day
whose executions are over (`report_day`) and two requests that have ended
(`users_consistent`).

**Symmetry** over workers is used in safety runs only.

**Fairness.** Alerts: weak fairness of time, of each invocation's steps and of
starting each queued event, because Lambda ends or kills what it started and
polls its own queue. Data processor: as above, with strong fairness of
starting each message and the refresh, since with a fixed number of workers a
start is enabled again and again while Lambda would add an execution
environment. Edge: weak fairness of each process, an endless loop that
Kubernetes restarts. Live view: weak fairness of the replica, the notifier's
invocations, messages of a socket, requests, and of the refresh interval, which
the user has turned on and which is longer than a request takes; no fairness of
sockets opening or reconnecting, since the hook gives up. No fairness is asked of
failures, duplicates, new messages, or of a message arriving.

## Proofs

The theorems hold for any number of fingerprints, snapshots, workers, retries,
duplicates and faults, of states, images and rewrites, of factories, sockets and
requests, for days of any records, and for all values measured, under the modules' named assumptions.

- `AlertDispatcherProofs`: `DispatcherInvariant` proves an invariant with the
  types and: an invocation runs within the timeout of the time it read
  (`InTime`), an item bounds every grant ever made for it
  (`ItemsBoundGrants`), an invocation between reserve and record owns its item
  (`HoldersOwnItem`) and is the only one (`OneHolder`), and what it is about to
  send was not sent (`NotYetPosted`). `DispatcherStatusHonest` follows, although
  the recording update is unconditional: nobody else can have reserved the item
  in the meantime. `DispatcherThrottles` proves the refinement step by step
  (`Reserve` is `Grant`, `Send` is `Post`, all else stutters or ticks). Of
  the throttle alone, under `ThrottleAssumption` (the cooldown is longer than the
  timeout, as `DispatcherAssumption` has it, too), `ThrottleOrder` and
  `ThrottleSpacing` are proved from the throttle's own invariant `ThrottleInv`:
  grants of one fingerprint are ordered by stamp and a cooldown apart, and each
  message was posted under a grant within the timeout. Order follows because a
  later grant is at least a cooldown, hence more than a timeout, away while an
  earlier one may still be used. `DispatcherChannelSpaced` and `DispatcherChannelInOrder` carry the throttle's
  theorems over to the dispatcher.
  The same module extends that invariant twice. For `AlertsConfirmedTwice`:
  events, invocations and observations concern written snapshots that raised the
  alert (`Sourced`), and an alert that was confirmed stays so until it is
  reserved (`ConfirmedWhenReserved`), although other invocations overwrite the
  counter meanwhile. For `LossesHaveFaults`: the grants are finite, there is one
  per fingerprint and snapshot, and the lost ones are at most the faults; only
  the grant of a failing sender can become lost in a step, by that fault.
- `DataProcessorProofs`: every item, that of the replica and those invocations
  have read included, is backed by messages that were applied (`Backed`), and the
  steps of an invocation tell which of its calls are done (`Progress`).
  `NeverFalseNormal` and `DoneAlwaysStored` follow, and `ProcessorTypes`.
- `CloudInfraStatusProofs`: both tracks put back an item they read earlier, maybe
  from a replica. The invariant says that any item a run may read or put is
  consistent in itself, that its sections come from runs, and that it is as good
  as the stored one for what it carries (`Consistent`, `Sourced`, `Carried`):
  `OverallAlwaysMatches`, `NormalAlwaysEarned`, `SnapshotsAlwaysOwn`, and
  `CollectorTypes`.
- `EdgeOutboxProofs`: under `OutboxAssumption`, `NextInv` shows that one
  invariant (`IInv`) survives every step, crash and failed call. Its part about
  the uploader, `UploadInv`, is an order of versions: what `stat()` saw is not
  newer than what was hashed, that not newer than the object in S3 once the PUT
  is made, and that not newer than the file (`Candidate`, `Objects`). So what a
  marker names is in S3, or something newer is, and was announced (`Stored`),
  for the state on disk and for the one in memory; when the marker names the
  file as it is, all of them are equal (`EdgeMarkerCurrent`). The case of the
  uploader that finds its metadata still waiting in the outbox needs
  `ReferencesResolve` (`EdgeReferencesResolve`). The part about the files says
  that the name of a state's file determines its content (`StateFiles`), and the
  part about the publisher that what it removes exists and was read under that
  name (`PublisherInv`); together they give `EdgeStatesKept` although
  `unlink()` removes whatever the file holds by then. `EdgeTypes` follows, too.
  The theorems need no assumption on `Second`; of two images of one second,
  which share a metadata file, they say that both were announced, not that the
  publisher saw both.
- `SnapshotAlertsProofs`: what is stored and raised is always computed from the
  facts (`Produced`); the rest is about the operators. `NothingAbnormalInSilence`
  and `CriticalAtOnce` go through the sections and the rules by cases, for all
  answers of the APIs. The four theorems about factories rest on
  `MeasurementsAssumption`: the scales go from good to bad in the direction
  `risk.py` looks, and the first place passes none of its thresholds. The sum of
  the penalties is a fold over a sequence; `FoldExists` and `TotalUnfolds` prove by
  induction that it has the equations of a sum (`TotalOfBoth`), so the score is the
  full score less the amounts of ten fields, each at most its weight
  (`AmountRange`), rounded the same way for more of a risk (`AmountRises`).
  `ScoresAreMonotone` then has two parts: worse measurements take more
  (`TakenRises`), and every gate they had raised is answered by one at least as bad
  (`AllGatesWorsen`), although `ai_score_warning` and others go away when their
  measurement becomes worse. `CapsMeanLevels` says why caps that are
  numbers work like levels, each lies inside the level it stands for, and
  `LevelsFollowGates` carries that to the snapshots. `DangersAreAlerted` needs that
  a cause of another kind is among the five that are kept whenever a penalty of
  another kind exists: only the last penalty and the last gate are about lateness
  (`LateIsLast`), and of the others one is preceded by no other (`FirstOfSome`);
  without a penalty of another kind the lateness takes ten points and no danger
  follows (`LatenessCostsLittle`). `LatenessIsAlertedOnce` shows that all good but
  the age leaves only causes and gates the rules pass over.
- `GraphChartsProofs`: `Invariance` proves three parts together. What the
  history holds (`HistoryOK`): items have times of their own, and a risk repeated
  later is the same. What is stored (`GraphOK`): every bucket is what its part of
  the history gives, which no later message changes, as it is closed; so a
  repeated aggregation puts what is there. What any point is (`PointOK`), whether
  shown, cached, answered or the base of a request: it starts and ends with stored
  buckets, covers at most as many as the window joins, its mean is in range and
  its range reaches to the risks of all it covers. Merging an answer is the hard
  step (`MergeFacts`): the last point of the base may have had fewer buckets than
  it could, and the answer, joined anew from that point's bucket on, starts a full
  group later; were there an overlap, the point would cover more buckets than the
  window joins. Five theorems follow, of which `ObservationsCountedOnce` adds that
  what disjoint buckets count are disjoint sets of times. Sums and weighted means
  are folds over finite sets; `SumUnfolds` and `SumFractionsUnfolds` prove that
  they have the equations they are meant to have, by induction on the set
  (`FiniteInduction`).
- `LiveViewProofs`: requests keep the factory they were made for, only those of
  the present factory are current, and the cache is kept per factory; hence
  `AnsweredPageIsOwn`.

- `ReportWorkflowProofs`: `ReportInvariant` proves `IInv`, which traces every file
  to what it was made of (`Traced`): an hour's summary is of records between
  those of the execution's start and those of now, and since records arrive while
  tasks run, each hour may have read another set. It also says which steps a
  `Fresh` report has behind it. `WorkflowAssumption` says what the pipeline stores
  (`WellFormed`): one record per dataset and second, within the day, levels that
  follow from the score, scores in whole points, counts that are no negative
  numbers, measurements that are numbers. The five theorems then need facts about the pure functions.
  `ContextsCountTheDay`: sums are folds, which `TotalUnfolds` gives the equations
  of a sum; an hour's count is the cardinality of its records (`HourRecordsAre`),
  and the hours split a day (`CountsAddUp`). `SilenceIsReported`: an hour without
  gap windows has records near its start, near its end and soon after each other
  (`NoGapWindows`), so that every stretch of a day twice as long as a gap may be
  has one, also over an hour's end (`SoonHeard`, `StretchHeard`); a day called
  normal has no gap window in any hour, and none is lost where only the longest
  are kept. `ReportsSayTheWorst`: one record of a level adds to the day's minutes
  of that level (`DayLevel`), and for the cloud a quiet day has no event in any
  hour (`CloudDayQuiet`), since ranking and cutting leave at least one of them.
  `ReportsAgree`: a score below 80 has a level whose minutes count
  (`NormalScores`), and counts of the cloud above 0 make an event
  (`CloudDayCounts`). `IncidentsAreUnited` is about folds over lists of events:
  an hour's events end no earlier than they start (`HourEventsAre`); joining those
  of one kind in order of their start keeps each more than the merge gap after
  the one before (`JoinedIs`), and as kinds are listed once, appending the next
  kind's list disturbs none (`SeparateJoins`, `MergedIs`); ranking and cutting pick
  events and none twice, since a stable sort has one element per place
  (`PlacesTaken`, `TopIs`). `StepsExist` and `StepsUnfold` give such a fold's
  equations.

Only model-checked: all liveness, which is out of the prover's reach.

## Findings

Runs with a counterexample:

- `confirm()` loses an observation when another invocation makes its own between
  the two updates (`alert_confirm_race`): the alert is then not sent although it
  was seen in two snapshots of the window.
- `delete_user()` deletes the account before its transaction. When an update of
  the same user runs at the same time, rows and grants are locked in opposite
  order; PostgreSQL may end the deletion, and an active user without an account
  remains, whom no further deletion removes (`users_consistent`).

Seen while modelling, without a run:

- **Data processor.** A HISTORY item may hold another state than the one its key
  names: the copy is made by a second, not consistent read
  (`src/apps/data-processor/README.md:54`). For the same reason LATEST may hold a
  risk that was computed from an older state; the refresh repairs it
  (`EventuallyCoherent`). A repeated message is applied again, over newer states,
  contrary to `docs/specs/iot_data_format.md:504`.
- **Score.** A missing pressure normalises to 0.0 and takes the whole penalty. A
  missing ECS service counts as normal.
- **Alerts.** The fast collector's errors have `source` and `message`, the rules
  read `collector` and `error`, so all are one alert "collector_error_error". Gates
  have `name` and `level`, the rules look for `reason` and `field`, which makes two
  alerts of one gate. One failed pod is critical, where
  `docs/ops/31_risk_alert_dispatcher.md` names a warning. One failing collector
  makes a section unknown and hides a critical one. A failed `describe_cluster`
  raises a danger. `_alb_summary` counts draining and initial targets as unhealthy.
  The section of data stores raises no alert.
- **Cloud collectors.** They are not independent, contrary to
  `docs/ops/29_cloud_infra_metrics_pipeline_plan.md:246`: the slow one may put
  back an old fast section.
- **Edge.** The publisher does not wait for an acknowledgement (QoS 0, contrary to
  `src/apps/edge-iot-publisher/README.md:41`): a file is removed although the
  broker may never have had its message (`received`, with `Lossy`). It also
  quarantines a valid file it meets between the adapter's rename and chmod.
- **Reports.** A failing task of one target stops all others
  (`docs/ops/24_daily_factory_report.md:121` wants them independent). A failed validation leaves the
  execution succeeded with an older report, and the metadata has no validation
  status (`:123`). Restarts between two hours are counted in neither. A score
  of 0 is treated as 100. `gap_minutes` sums only the windows that are kept.
  `_gap_judgement` flags every day. A cloud danger can be pushed out of the ten
  events kept. The key metrics say "no notable events" above spike checks.
- **Charts.** The first second of each bucket is lost (`dynamo.py:22`;
  `docs/changes/0025-multi-resolution-history-storage.md:133`). With the windows of 12 and 24 hours the last partial
  group is not completed by refreshes, and groups by position span missing
  buckets. `source_count` counts copies. A risk calculated during an outage is
  hidden. History written late can fall out of a closed bucket. Refreshing
  faster than answers come shows nothing. The aggregator's loop over factories
  stops at the first exception.
- **Live view.** Before the first answer, moving from a factory with a pushed
  state to one without a cached answer keeps the former on the latter's page
  (`FactoryPage.tsx:1511`). A late `onclose` of an old socket reconnects for the
  factory that was left and leaks the new socket (`useWebSocket.ts:55`); retries
  may be used up by such sockets. There is no 30-second polling fallback, and the
  backoff is another than in
  `docs/changes/0015-websocket-for-dashboard-realtime.md`. A refused token arrives as
  1006 and is retried. Access is checked only when connecting.
- **Users.** A commit that fails after the Cognito call, and two creations over a
  disabled row, also leave pool and database apart. Two updates of grants may
  mix them; promotion and a change of grants leave a global administrator with
  grants. A deletion that is repeated is answered with 502 for ever.

## Not modelled

- `snapshot-presigner`: stateless from request to URL.
- The backend's chat, S3 and Bedrock services: classification of questions, prompts
  and reads of stored reports, text processing without shared state. They are the
  largest part of the code that no definition maps.
- `edge-agent`, charts, infra and scripts: their timeouts, schedules, users and
  replica counts are used as assumptions.
- In modelled components: loops over several factories; the backend's raw history,
  fleet list with its cache and limit on concurrent operations (`ddb.py:93`:
  `wait_for` releases the semaphore while the thread goes on); item TTLs; the
  log adapter's queries and payloads; a corrupt upload state; hour tasks that
  still write after their execution failed; averages, percentiles and lists in
  reports; clock skew between hosts.

Worth adding next: an instance of `EdgeOutbox` with two images of one second
(`OutboxDrains` is checked for one image), `GraphCharts` with a window of four
buckets, and a model of the fleet list's cache.
