-------------------------- MODULE CloudInfraStatus --------------------------
(***************************************************************************)
(* The cloud infrastructure status: the fast and the slow collector        *)
(* (src/apps/cloud-infra-collector) each read the whole LATEST item,       *)
(* replace their section, recompute overall_status and put the whole item  *)
(* back, with no condition; the dashboard backend reads the item and       *)
(* downgrades what is stale (src/apps/dashboard-backend/services).         *)
(* get_item is not asked for a consistent read and may miss the last puts. *)
(* Time is in ticks; a section's status is the worst of its parts.         *)
(***************************************************************************)
EXTENDS Naturals, FiniteSets

CONSTANTS
  FastPeriod, SlowPeriod,  \* the two schedules
  FastStale, SlowStale,    \* FAST_STALE_SECONDS and SLOW_STALE_SECONDS
  RunTime,                 \* longest run of a collector
  Reported,                \* section statuses the collectors may find
  Workers,                 \* concurrent invocations
  MaxClock,                \* bound: the clock stops here
  MaxFaults                \* bound: failed invocations, each retried

Tracks == {"fast", "slow"}
Statuses == {"normal", "unknown", "warning", "critical"}

Period == [fast |-> FastPeriod, slow |-> SlowPeriod]

ASSUME CollectorAssumption ==
  /\ FastPeriod \in Nat \ {0} /\ SlowPeriod \in Nat \ {0}
  /\ FastStale \in Nat /\ SlowStale \in Nat /\ RunTime \in Nat
  /\ MaxClock \in Nat /\ MaxFaults \in Nat
  /\ Reported \subseteq Statuses
  /\ Reported # {}

VARIABLES
  clock,    \* time, in ticks
  due,      \* due[k]: the schedule has fired and the run has not started
  retry,    \* retry[k]: failed runs that Lambda will start again
  faults,   \* failed runs so far
  item,     \* the CLOUD#infra LATEST item
  replica,  \* the item as an eventually consistent read may still see it
  history,  \* the HISTORY#FAST# and HISTORY#SLOW# items, as <<k, now, item>>
  s3,       \* the snapshots in S3, likewise
  inv,      \* inv[w]: the invocation running in w
  reports   \* history variable: what collectors found, as <<k, now, status>>

vars == <<clock, due, retry, faults, item, replica, history, s3, inv, reports>>

None == [status |-> "none"]        \* a section that has never been written

Sections == [status : Statuses, at : Nat] \cup {None}

Items == [fast : Sections, slow : Sections, overall : Statuses \cup {"none"}]

EmptyItem == [fast |-> None, slow |-> None, overall |-> "none"]

Idle == [pc |-> "idle"]

Invocations ==
  [pc : {"collect", "read", "latest", "history", "s3"}, track : Tracks,
   now : Nat, found : Statuses \cup {"none"}, item : Items]

TypeOK ==
  /\ clock \in 0..MaxClock
  /\ due \in [Tracks -> BOOLEAN]
  /\ retry \in [Tracks -> Nat]
  /\ faults \in 0..MaxFaults
  /\ item \in Items /\ replica \in Items
  /\ history \subseteq (Tracks \X Nat \X Items)
  /\ s3 \subseteq (Tracks \X Nat \X Items)
  /\ inv \in [Workers -> Invocations \cup {Idle}]
  /\ reports \subseteq (Tracks \X Nat \X Statuses)

Init ==
  /\ clock = 0
  /\ due = [k \in Tracks |-> TRUE]
  /\ retry = [k \in Tracks |-> 0]
  /\ faults = 0
  /\ item = EmptyItem /\ replica = EmptyItem
  /\ history = {}
  /\ s3 = {}
  /\ inv = [w \in Workers |-> Idle]
  /\ reports = {}

-----------------------------------------------------------------------------
Running(w) == inv[w].pc # "idle"

At(w, pc) == inv[w].pc = pc

\* The schedules fire on time, a run ends within RunTime, and the replicas lag
\* for less than a tick.
Tick ==
  /\ clock < MaxClock
  /\ replica = item
  /\ \A k \in Tracks : ~due[k]
  /\ \A w \in Workers : Running(w) => clock < inv[w].now + RunTime
  /\ clock' = clock + 1
  /\ due' = [k \in Tracks |-> clock' % Period[k] = 0]
  /\ UNCHANGED <<retry, faults, item, replica, history, s3, inv, reports>>

Replicate ==
  /\ replica # item
  /\ replica' = item
  /\ UNCHANGED <<clock, due, retry, faults, item, history, s3, inv, reports>>

\* handler(): the time is read once.
Start(w, k) ==
  /\ ~Running(w)
  /\ \/ /\ due[k]
        /\ due' = [due EXCEPT ![k] = FALSE]
        /\ UNCHANGED retry
     \/ /\ retry[k] > 0
        /\ retry' = [retry EXCEPT ![k] = @ - 1]
        /\ UNCHANGED due
  /\ inv' = [inv EXCEPT ![w] =
               [pc |-> "collect", track |-> k, now |-> clock, found |-> "none",
                item |-> EmptyItem]]
  /\ UNCHANGED <<clock, faults, item, replica, history, s3, reports>>

\* collect_fast() and collect_slow(): errors of single collectors end up in
\* the section's status.
Collect(w) ==
  /\ At(w, "collect")
  /\ \E found \in Reported :
       /\ inv' = [inv EXCEPT ![w].found = found, ![w].pc = "read"]
       /\ reports' = reports \cup {<<inv[w].track, inv[w].now, found>>}
  /\ UNCHANGED <<clock, due, retry, faults, item, replica, history, s3>>

Rank == [none |-> 0, normal |-> 1, unknown |-> 2, warning |-> 3,
         critical |-> 4]

\* worst_status() of the sections that exist.
Worst(s, t) == IF Rank[s] >= Rank[t] THEN s ELSE t

\* A faulty variant of Merged: overall_status is the status just found.
MergedOwnOverall(current, k, found, now) ==
  [current EXCEPT ![k] = [status |-> found, at |-> now], !.overall = found]

\* The item write_fast_snapshot() and write_slow_snapshot() build: the section
\* read for the other track is written back with it.
Merged(current, k, found, now) ==
  LET section == [status |-> found, at |-> now]
      fast == IF k = "fast" THEN section ELSE current.fast
      slow == IF k = "slow" THEN section ELSE current.slow
  IN [fast |-> fast, slow |-> slow,
      overall |-> Worst(fast.status, slow.status)]

\* get_cloud_latest()
ReadLatest(w) ==
  /\ At(w, "read")
  /\ \E current \in {item, replica} :
       inv' = [inv EXCEPT
                 ![w].item = Merged(current, inv[w].track, inv[w].found,
                                    inv[w].now),
                 ![w].pc = "latest"]
  /\ UNCHANGED <<clock, due, retry, faults, item, replica, history, s3, reports>>

PutLatest(w) ==
  /\ At(w, "latest")
  /\ item' = inv[w].item
  /\ inv' = [inv EXCEPT ![w].pc = "history"]
  /\ UNCHANGED <<clock, due, retry, faults, replica, history, s3, reports>>

\* A faulty variant of Snapshot: LATEST as it is by now.
SnapshotOfLatest(w) == <<inv[w].track, inv[w].now, item>>

\* What a run stores is the item it put, not LATEST read again.
Snapshot(w) == <<inv[w].track, inv[w].now, inv[w].item>>

PutHistory(w) ==
  /\ At(w, "history")
  /\ history' = history \cup {Snapshot(w)}
  /\ inv' = [inv EXCEPT ![w].pc = "s3"]
  /\ UNCHANGED <<clock, due, retry, faults, item, replica, s3, reports>>

PutS3(w) ==
  /\ At(w, "s3")
  /\ s3' = s3 \cup {Snapshot(w)}
  /\ inv' = [inv EXCEPT ![w] = Idle]
  /\ UNCHANGED <<clock, due, retry, faults, item, replica, history, reports>>

\* The run raises or dies and Lambda starts it again, later.
Fail(w) ==
  /\ Running(w)
  /\ faults < MaxFaults
  /\ faults' = faults + 1
  /\ retry' = [retry EXCEPT ![inv[w].track] = @ + 1]
  /\ inv' = [inv EXCEPT ![w] = Idle]
  /\ UNCHANGED <<clock, due, item, replica, history, s3, reports>>

Step(w) ==
  Collect(w) \/ ReadLatest(w) \/ PutLatest(w) \/ PutHistory(w) \/ PutS3(w)

Next ==
  \/ Tick
  \/ Replicate
  \/ \E w \in Workers :
       \/ \E k \in Tracks : Start(w, k)
       \/ Step(w)
       \/ Fail(w)

Spec == Init /\ [][Next]_vars

-----------------------------------------------------------------------------
(* services/cloud_infra.py: what the backend answers from the item. *)

Stale(section, limit, now) ==
  section = None \/ now > section.at + limit

MarkStale(section, stale) ==
  IF stale /\ section # None THEN [section EXCEPT !.status = "unknown"]
  ELSE section

\* A faulty variant of View: overall_status is shown as it is stored.
ViewAsStored(i, now) ==
  [fast |-> MarkStale(i.fast, Stale(i.fast, FastStale, now)),
   slow |-> MarkStale(i.slow, Stale(i.slow, SlowStale, now)),
   overall |-> i.overall]

\* _status_with_staleness()
View(i, now) ==
  LET fastStale == Stale(i.fast, FastStale, now)
      slowStale == Stale(i.slow, SlowStale, now)
  IN [fast |-> MarkStale(i.fast, fastStale),
      slow |-> MarkStale(i.slow, slowStale),
      overall |-> IF (fastStale \/ slowStale) /\ i.overall = "normal"
                  THEN "warning" ELSE i.overall]

-----------------------------------------------------------------------------
(* Properties. *)

\* Although concurrent runs overwrite each other, overall_status is always the
\* worst of the two sections stored with it, in LATEST and in each snapshot.
OverallMatchesSections ==
  \A i \in {item} \cup {h[3] : h \in history} :
    i.overall = Worst(i.fast.status, i.slow.status)

\* The backend answers "normal" only when each collector did find its section
\* normal no longer ago than the track's stale limit, whichever runs failed,
\* overwrote each other or were read late.
NormalIsEarned ==
  \A seen \in {item, replica} \ {EmptyItem} :
    View(seen, clock).overall = "normal" =>
      \A k \in Tracks :
        \E r \in reports :
          /\ r[1] = k /\ r[3] = "normal"
          /\ clock <= r[2] + (IF k = "fast" THEN FastStale ELSE SlowStale)
          /\ View(seen, clock)[k] = [status |-> r[3], at |-> r[2]]

\* A snapshot in S3 is the HISTORY item of the same run, and carries the run's
\* own section, whatever became of LATEST meanwhile.
SnapshotsKeepOwnSection ==
  \A h \in s3 : h \in history /\ h[3][h[1]].at = h[2]

=============================================================================
