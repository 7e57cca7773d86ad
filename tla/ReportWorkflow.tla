---------------------------- MODULE ReportWorkflow ----------------------------
(***************************************************************************)
(* The daily report (step_functions.tf and the lambda_*.py handlers): for  *)
(* each target a task per hour writes an hourly summary, one task merges   *)
(* them into a daily summary and a context, and one lets a language model  *)
(* write the report.  No task is retried and no failure is caught: it      *)
(* fails the execution, and with it every other target.  The day may be    *)
(* executed again later.  Records may arrive late, after an hour was read. *)
(***************************************************************************)
EXTENDS FactoryReport, CloudReport

CONSTANTS Days,    \* the records of a day, and what arrives late, per target
          MaxRuns, \* bound: executions for the day
          MaxFaults \* bound: failing tasks

Targets == {"factory", "cloud"}

Of(records, dataset) == {r \in records : r.dataset = dataset}

\* _level() of the data processor's risk.py
RiskLevel(score) ==
  IF score >= 85 THEN "safe" ELSE IF score >= 50 THEN "warning" ELSE "danger"

\* What the pipeline stores of a day: keys hold dataset and second, a level
\* follows from its score, counts are no negative numbers, measurements numbers.
WellFormed(target, records) ==
  /\ Stored(records)
  /\ target = "factory" =>
       /\ \A r \in Of(records, "risk_score") :
            r.score \in Nat /\ r.level = RiskLevel(r.score)
       /\ \A r \in Of(records, "factory_state") :
            r.temperature \in Int /\ \A field \in ToSet(AiScores) : r[field] \in Int
       /\ \A r \in Of(records, "infra_state") :
            {r.nodesTotal, r.nodesReady, r.podsTotal, r.podsReady, r.restarts} \subseteq Int
  /\ target = "cloud" =>
       /\ \A r \in Of(records, "fast") : \A m \in FastCounts : r.counts[m] \in Nat
       /\ \A r \in Of(records, "slow") :
            /\ r.restarts \in Nat
            /\ \A m \in SlowCounts : r.counts[m] \in Nat

ASSUME WorkflowAssumption ==
  /\ {MaxRuns, MaxFaults} \subseteq Nat
  /\ \A day \in Days : \A t \in Targets : WellFormed(t, day.files[t] \cup day.late[t])

None == [none |-> TRUE]

VARIABLES files,     \* processed records in S3, per target
          late,      \* records that have yet to arrive
          execution, \* of the state machine
          phase,     \* of each target's branch in it
          done,      \* hours whose task has ended
          hourly,    \* intermediate/hourly/hh=NN.json
          summary,   \* factory-daily-summary.json, cloud-infra-daily-summary.json
          context,   \* report-context.json
          report,    \* report.md
          metadata,  \* generation-metadata.json: the report it tells of
          runs, faults,
          seen       \* history: the files when the execution started

store == <<hourly, summary, context, report, metadata>>
vars == <<files, late, execution, phase, done, store, runs, faults, seen>>

Hour(target, records, hour) ==
  IF target = "factory" THEN FactoryHour(records, hour) ELSE CloudHour(records, hour)

MergeDaily(target, hours) ==
  IF target = "factory" THEN MergeFactoryDaily(hours) ELSE MergeCloudDaily(hours)

Text(target, c) == IF target = "factory" THEN FactoryText(c) ELSE CloudText(c)

Init ==
  /\ \E day \in Days : files = day.files /\ late = day.late
  /\ execution = "none"
  /\ phase = [t \in Targets |-> "idle"]
  /\ done = [t \in Targets |-> {}]
  /\ hourly = [t \in Targets |-> [h \in HourSet |-> None]]
  /\ summary = [t \in Targets |-> None]
  /\ context = [t \in Targets |-> None]
  /\ report = [t \in Targets |-> None]
  /\ metadata = [t \in Targets |-> None]
  /\ runs = 0
  /\ faults = 0
  /\ seen = files

-----------------------------------------------------------------------------
\* A task in the middle of its writes goes on although the execution failed.
InFlight == {t \in Targets : phase[t] \in {"merged", "reported"}}

\* The schedule's execution, or a later one that an operator starts.
PrepareReportWindow ==
  /\ execution # "running" /\ InFlight = {}
  /\ runs < MaxRuns
  /\ runs' = runs + 1
  /\ execution' = "running"
  /\ phase' = [t \in Targets |-> "hours"]
  /\ done' = [t \in Targets |-> {}]
  /\ seen' = files
  /\ UNCHANGED <<files, late, store, faults>>

AggregateHour(t, h) ==
  /\ execution = "running" /\ phase[t] = "hours" /\ h \notin done[t]
  /\ hourly' = [hourly EXCEPT ![t][h] = Hour(t, files[t], h)]
  /\ done' = [done EXCEPT ![t] = @ \cup {h}]
  /\ UNCHANGED <<files, late, execution, phase, summary, context, report,
                 metadata, runs, faults, seen>>

\* The merge reads the hours' files and writes the summary first.
Merge(t) ==
  /\ execution = "running" /\ phase[t] = "hours" /\ done[t] = HourSet
  /\ summary' = [summary EXCEPT
       ![t] = MergeDaily(t, [k \in 1..Hours |-> hourly[t][k - 1]])]
  /\ phase' = [phase EXCEPT ![t] = "merged"]
  /\ UNCHANGED <<files, late, execution, done, hourly, context, report,
                 metadata, runs, faults, seen>>

\* build_report_context()
WriteContext(t) ==
  /\ phase[t] = "merged"
  /\ context' = [context EXCEPT ![t] = summary[t]]
  /\ phase' = [phase EXCEPT ![t] = "generate"]
  /\ UNCHANGED <<files, late, execution, done, hourly, summary, report,
                 metadata, runs, faults, seen>>

\* The model's text names the factory and the date; the code adds the numbers.
Generate(t) ==
  /\ execution = "running" /\ phase[t] = "generate"
  /\ report' = [report EXCEPT ![t] = Text(t, context[t])]
  /\ phase' = [phase EXCEPT ![t] = "reported"]
  /\ UNCHANGED <<files, late, execution, done, hourly, summary, context,
                 metadata, runs, faults, seen>>

\* A text that does not is dropped, which is no failure of the task.
ValidationFailed(t) ==
  /\ execution = "running" /\ phase[t] = "generate"
  /\ phase' = [phase EXCEPT ![t] = "done"]
  /\ UNCHANGED <<files, late, execution, done, store, runs, faults, seen>>

WriteMetadata(t) ==
  /\ phase[t] = "reported"
  /\ metadata' = [metadata EXCEPT ![t] = report[t]]
  /\ phase' = [phase EXCEPT ![t] = "done"]
  /\ UNCHANGED <<files, late, execution, done, hourly, summary, context,
                 report, runs, faults, seen>>

\* A call or a write of a task fails, or its time is over.
TaskFails(t) ==
  /\ execution = "running" /\ phase[t] \in {"hours", "merged", "generate", "reported"}
  /\ faults < MaxFaults
  /\ faults' = faults + 1
  /\ execution' = "failed"
  /\ phase' = [phase EXCEPT ![t] = "failed"]
  /\ UNCHANGED <<files, late, done, store, runs, seen>>

Succeed ==
  /\ execution = "running" /\ \A t \in Targets : phase[t] = "done"
  /\ execution' = "succeeded"
  /\ UNCHANGED <<files, late, phase, done, store, runs, faults, seen>>

\* The pipeline stores records that were delayed.
Arrive ==
  /\ \E t \in Targets : late[t] # {}
  /\ files' = [t \in Targets |-> files[t] \cup late[t]]
  /\ late' = [t \in Targets |-> {}]
  /\ UNCHANGED <<execution, phase, done, store, runs, faults, seen>>

Branch(t) ==
  \/ \E h \in HourSet : AggregateHour(t, h)
  \/ Merge(t) \/ WriteContext(t) \/ Generate(t) \/ ValidationFailed(t)
  \/ WriteMetadata(t)

Next == PrepareReportWindow \/ (\E t \in Targets : Branch(t) \/ TaskFails(t))
          \/ Succeed \/ Arrive

Spec == Init /\ [][Next]_vars

-----------------------------------------------------------------------------
Fresh(t) == phase[t] \in {"generate", "reported", "done"}

Overall(t) == Text(t, context[t]).overall

DatasetsOf == [factory |-> ToSet(Datasets), cloud |-> ToSet(Streams)]

\* A day's context counts every record that was there when the execution
\* started, whichever second of which hour it is of, and no record twice.
DayAccountedFor ==
  \A t \in Targets : Fresh(t) =>
    \A d \in DatasetsOf[t] :
      context[t].quality.actual[d] \in
        Cardinality(Of(seen[t], d))..Cardinality(Of(files[t], d))

MissedInARow(t, d) == 2 * (IF t = "factory" THEN AllowedGap(d) ELSE Allowed[d])

\* Hours are judged one by one, yet no long silence hides in the end of one
\* and the start of the next: when the day is called normal, there are records
\* in any stretch of it that is twice as long as a gap may be.
SilenceReported ==
  \A t \in Targets : Fresh(t) /\ Overall(t) = "normal" =>
    \A d \in DatasetsOf[t] :
      LET longest == MissedInARow(t, d)
      IN \A a \in 0..Hours * HourTicks - longest :
           \E r \in Of(files[t], d) : r.time \in a..a + longest - 1

\* What was worst in the day decides what the report says of it: danger of a
\* factory; of the cloud, that any hour had an event.
WorstIsReported ==
  /\ Fresh("factory") /\ (\E r \in Of(seen["factory"], "risk_score") : r.level = "danger")
       => Overall("factory") = "danger"
  /\ Fresh("cloud") /\ (\E h \in HourSet : hourly["cloud"][h].events # << >>)
       => Overall("cloud") # "normal"

\* A report that calls the day normal asks for no check but of the collection
\* of data and of what the AI and the microphones noticed; for the cloud, where
\* the day's counts and its events are made apart, of the collection alone.
JudgementsAgree ==
  \A t \in Targets : report[t] # None /\ report[t].overall = "normal" =>
    report[t].concerns \subseteq
      DatasetsOf[t] \cup (IF t = "factory"
                          THEN {"max_gap", "ai_spikes", "abnormal_sounds"} ELSE {})

\* One incident is one event of the day although it goes on over an hour's
\* end: events of one kind are more than the merge gap apart.
IncidentsUnited ==
  Fresh("factory") =>
    LET events == context["factory"].events
    IN \A j, k \in DOMAIN events :
         j # k /\ events[j].kind = events[k].kind /\ events[j].start <= events[k].start
           => events[k].start > events[j].end + MergeGap + 1

=============================================================================
