---------------------------- MODULE DataProcessor ----------------------------
(***************************************************************************)
(* The data processor Lambda (src/apps/data-processor) for one factory:    *)
(* concurrent invocations that read the LATEST item, compute the pipeline  *)
(* status and the risk, update LATEST, copy it to a HISTORY item and write *)
(* the processed objects to S3, one message or one scheduled refresh each. *)
(*                                                                         *)
(* Every DynamoDB or S3 call is a step of its own.  No call is conditional *)
(* and no message is remembered, so duplicated, delayed and retried        *)
(* messages are applied like new ones.  get_item is not asked for a        *)
(* consistent read, so it may miss the latest updates.  The risk is        *)
(* abstracted to the inputs it is computed from.                           *)
(***************************************************************************)
EXTENDS Naturals, FiniteSets

CONSTANTS
  Messages,        \* records [id, kind, ts]; ts is source_timestamp
  WarnAge,         \* WARNING_SECONDS, in ticks
  CriticalAge,     \* CRITICAL_SECONDS, in ticks
  Timeout,         \* Lambda timeout, in ticks
  Workers,         \* concurrent invocations
  MaxClock,        \* bound: the clock stops here
  MaxDuplicates,   \* bound: messages published again by the edge
  MaxRetries,      \* Lambda retries of one message
  MaxFaults        \* bound: failed invocations

Kinds == {"factory_state", "infra_state", "image_snapshot"}

ASSUME ProcessorAssumption ==
  /\ \A m \in Messages :
       /\ DOMAIN m = {"id", "kind", "ts"}
       /\ m.kind \in Kinds
       /\ m.ts \in Nat \ {0}
  /\ \A m, n \in Messages : m.id = n.id => m = n
  /\ WarnAge \in Nat /\ CriticalAge \in Nat
  /\ WarnAge <= CriticalAge /\ Timeout \in Nat \ {0}
  /\ MaxClock \in Nat /\ MaxDuplicates \in Nat
  /\ MaxRetries \in Nat /\ MaxFaults \in Nat

VARIABLES
  clock,       \* time, in ticks
  published,   \* messages the edge has sent
  queue,       \* queue[m]: outstanding deliveries of m to the Lambda
  retries,     \* retries[m]: retries Lambda has made of m
  duplicates,  \* messages sent again so far
  due,         \* the schedule's refresh, or its retry, has not started
  faults,      \* failed invocations so far
  latest,      \* the LATEST item
  replica,     \* LATEST as an eventually consistent read may still see it
  history,     \* history[t]: the HISTORY#STATE#t item
  s3,          \* processed objects: <<dataset, key>>
  inv,         \* inv[w]: the invocation running in w
  applied,     \* history variable: messages LATEST was updated from
  done         \* history variable: messages whose handler returned

transport == <<published, queue, retries, duplicates, due>>
store == <<latest, replica, history, s3>>
vars == <<clock, transport, faults, store, inv, applied, done>>

None == [kind |-> "none"]        \* an attribute or an item that is absent

Optional(S) == S \cup {None}

PipelineStatusOptimistic(infraAt, now) ==
  [status |-> IF infraAt = None THEN "normal"
              ELSE IF now > infraAt.ts + CriticalAge THEN "critical"
              ELSE IF now > infraAt.ts + WarnAge THEN "warning"
              ELSE "normal",
   at |-> now]

\* pipeline_status.calculate(): status and age from the time of the last
\* infra_state; `at` is the time it was computed for.
PipelineStatus(infraAt, now) ==
  [status |-> IF infraAt = None THEN "critical"
              ELSE IF now > infraAt.ts + CriticalAge THEN "critical"
              ELSE IF now > infraAt.ts + WarnAge THEN "warning"
              ELSE "normal",
   at |-> now]

\* risk.calculate(), abstracted to its inputs.
Risk(fs, is, ps) == [fs |-> fs, is |-> is, ps |-> ps]

\* The attributes of an item.  A state attribute is the message it came from
\* (its payload carries message_id and source_timestamp), which also gives
\* last_factory_state_at and last_infra_state_at.
EmptyItem == [fs |-> None, is |-> None, image |-> None, ps |-> None,
              risk |-> None, updatedAt |-> 0]

Exists(item) == item.updatedAt > 0

Items ==
  [fs : Optional(Messages), is : Optional(Messages),
   image : Optional(Messages),
   ps : Optional([status : {"normal", "warning", "critical"}, at : Nat]),
   risk : Optional([fs : Optional(Messages), is : Optional(Messages),
                    ps : [status : {"normal", "warning", "critical"},
                          at : Nat]]),
   updatedAt : Nat]

Refresh == [id |-> 0, kind |-> "refresh", ts |-> 0]

\* `snapshot`: whether write_*_snapshot() returned one, for S3.
Idle == [pc |-> "idle", msg |-> Refresh, now |-> 0, seen |-> EmptyItem,
         snapshot |-> FALSE]

Steps == {"idle", "read", "update", "reread", "history", "data", "risk",
          "snapshot"}

Invocations == [pc : Steps, msg : Messages \cup {Refresh}, now : Nat,
                seen : Items, snapshot : BOOLEAN]

TypeOK ==
  /\ clock \in Nat
  /\ published \subseteq Messages
  /\ queue \in [Messages -> Nat] /\ retries \in [Messages -> Nat]
  /\ duplicates \in Nat /\ due \in BOOLEAN /\ faults \in Nat
  /\ latest \in Items /\ replica \in Items
  /\ history \in [1..MaxClock -> Optional(Items)]
  /\ inv \in [Workers -> Invocations]
  /\ applied \subseteq Messages /\ done \subseteq Messages

Init ==
  /\ clock = 1
  /\ published = {}
  /\ queue = [m \in Messages |-> 0]
  /\ retries = [m \in Messages |-> 0]
  /\ duplicates = 0
  /\ due = TRUE
  /\ faults = 0
  /\ latest = EmptyItem /\ replica = EmptyItem
  /\ history = [t \in 1..MaxClock |-> None]
  /\ s3 = {}
  /\ inv = [w \in Workers |-> Idle]
  /\ applied = {}
  /\ done = {}

-----------------------------------------------------------------------------
(* The environment. *)

At(w, pc) == inv[w].pc = pc

\* The schedule fires every tick, which is longer than DynamoDB's replicas
\* lag.  Lambda kills an invocation at its timeout.
Tick ==
  /\ clock < MaxClock
  /\ replica = latest
  /\ \A w \in Workers : ~At(w, "idle") => clock < inv[w].now + Timeout
  /\ clock' = clock + 1
  /\ due' = TRUE
  /\ UNCHANGED <<published, queue, retries, duplicates, faults, store, inv, applied, done>>

\* The edge publishes a message at or after its source timestamp; the outbox
\* may hold it back.
Publish(m) ==
  /\ m \notin published
  /\ m.ts <= clock
  /\ published' = published \cup {m}
  /\ queue' = [queue EXCEPT ![m] = @ + 1]
  /\ UNCHANGED <<clock, retries, duplicates, due, faults, store, inv,
                 applied, done>>

\* The publisher sends a message again when it stopped between the publish
\* and the removal of the outbox file.
PublishAgain(m) ==
  /\ m \in published
  /\ duplicates < MaxDuplicates
  /\ duplicates' = duplicates + 1
  /\ queue' = [queue EXCEPT ![m] = @ + 1]
  /\ UNCHANGED <<clock, published, retries, due, faults, store, inv, applied,
                 done>>

Replicate ==
  /\ replica # latest
  /\ replica' = latest
  /\ UNCHANGED <<clock, transport, faults, latest, history, s3, inv, applied,
                 done>>

-----------------------------------------------------------------------------
(* The handler. *)

Goto(w, pc) == inv' = [inv EXCEPT ![w].pc = pc]

Return(w) == inv' = [inv EXCEPT ![w] = Idle]

Begin(w, m, pc) ==
  /\ At(w, "idle")
  /\ inv' = [inv EXCEPT ![w] = [Idle EXCEPT !.pc = pc, !.msg = m,
                                           !.now = clock]]

\* handler() of a message; an image reference is written without a read.
StartMessage(w, m) ==
  /\ queue[m] > 0
  /\ queue' = [queue EXCEPT ![m] = @ - 1]
  /\ Begin(w, m, IF m.kind = "image_snapshot" THEN "update" ELSE "read")
  /\ UNCHANGED <<clock, published, retries, duplicates, due, faults, store,
                 applied, done>>

\* handler() of the one-minute schedule, which goes on when the clock stands
\* still at its bound.
StartRefresh(w) ==
  /\ due
  /\ due' = (clock = MaxClock)
  /\ Begin(w, Refresh, "read")
  /\ UNCHANGED <<clock, published, queue, retries, duplicates, faults, store,
                 applied, done>>

\* get_latest_state(); a refresh of a factory without LATEST ends here.
Read(w) ==
  /\ At(w, "read")
  /\ \E seen \in {latest, replica} :
       IF inv[w].msg = Refresh /\ ~Exists(seen)
       THEN Return(w)
       ELSE inv' = [inv EXCEPT ![w].seen = seen, ![w].pc = "update"]
  /\ UNCHANGED <<clock, transport, faults, store, applied, done>>

\* write_factory_state_snapshot(): state, risk and status are one update; the
\* status and the risk come from what was read before.
FactoryUpdate(m, seen, now) ==
  LET ps == PipelineStatus(seen.is, now) IN
  [latest EXCEPT !.fs = m, !.risk = Risk(m, seen.is, ps), !.ps = ps,
                 !.updatedAt = now]

\* write_infra_state_snapshot(): the risk is written only when a factory state
\* was read.
InfraUpdate(m, seen, now) ==
  LET ps == PipelineStatus(m, now) IN
  [latest EXCEPT !.is = m, !.ps = ps, !.updatedAt = now,
                 !.risk = IF seen.fs = None THEN @ ELSE Risk(seen.fs, m, ps)]

\* write_image_snapshot_reference().
ImageUpdate(m, now) == [latest EXCEPT !.image = m, !.updatedAt = now]

\* Faulty variants of RefreshUpdate: nothing but the time, or all but the risk,
\* is written.
RefreshUpdateNothing(seen, now) ==
  [latest EXCEPT !.updatedAt = now]

RefreshUpdateStatusOnly(seen, now) ==
  [latest EXCEPT !.ps = PipelineStatus(seen.is, now), !.updatedAt = now]

\* write_pipeline_status_snapshot().
RefreshUpdate(seen, now) ==
  LET ps == PipelineStatus(seen.is, now) IN
  [latest EXCEPT !.ps = ps, !.updatedAt = now,
                 !.risk = IF seen.fs = None THEN @
                          ELSE Risk(seen.fs, seen.is, ps)]

Update(w) ==
  LET m == inv[w].msg
      seen == inv[w].seen
      now == inv[w].now
  IN /\ At(w, "update")
     /\ \/ /\ m.kind = "factory_state"
           /\ latest' = FactoryUpdate(m, seen, now)
        \/ /\ m.kind = "infra_state"
           /\ latest' = InfraUpdate(m, seen, now)
        \/ /\ m.kind = "image_snapshot"
           /\ latest' = ImageUpdate(m, now)
        \/ /\ m = Refresh
           /\ latest' = RefreshUpdate(seen, now)
     /\ applied' = IF m = Refresh THEN applied ELSE applied \cup {m}
     /\ inv' = [inv EXCEPT ![w].pc = "reread", ![w].seen = EmptyItem]
     /\ UNCHANGED <<clock, transport, faults, replica, history, s3, done>>

\* write_*_snapshot() returns, with or without a snapshot: the objects in S3
\* follow.
Snapshot(w, snapshot) ==
  inv' = [inv EXCEPT
            ![w].seen = EmptyItem,
            ![w].snapshot = snapshot,
            ![w].pc = IF inv[w].msg = Refresh THEN "snapshot" ELSE "data"]

\* _write_history_from_latest(), get_item: LATEST is read again.  When the read
\* finds nothing yet, neither HISTORY nor the state snapshot is written.
Reread(w) ==
  /\ At(w, "reread")
  /\ \E seen \in {latest, replica} :
       IF Exists(seen)
       THEN inv' = [inv EXCEPT ![w].seen = seen, ![w].pc = "history"]
       ELSE Snapshot(w, FALSE)
  /\ UNCHANGED <<clock, transport, faults, store, applied, done>>

\* A faulty variant of PutHistory: only messages are recorded.
PutHistoryOfMessage(w) ==
  /\ At(w, "history")
  /\ history' = IF inv[w].msg = Refresh THEN history
                ELSE [history EXCEPT ![inv[w].now] = inv[w].seen]
  /\ Snapshot(w, TRUE)
  /\ UNCHANGED <<clock, transport, faults, latest, replica, s3, applied, done>>

\* _write_history_from_latest(), put_item under this invocation's time.
PutHistory(w) ==
  /\ At(w, "history")
  /\ history' = [history EXCEPT ![inv[w].now] = inv[w].seen]
  /\ Snapshot(w, TRUE)
  /\ UNCHANGED <<clock, transport, faults, latest, replica, s3, applied, done>>

\* A faulty variant of PutData: the risk score is not stored.
PutDataOnly(w) ==
  /\ At(w, "data")
  /\ s3' = s3 \cup {<<inv[w].msg.kind, inv[w].msg.id>>}
  /\ Goto(w, "snapshot")
  /\ UNCHANGED <<clock, transport, faults, latest, replica, history, applied, done>>

\* s3_writer: the processed object of the message, then for a factory state
\* its risk score, then the state snapshot.  Each overwrites what is there.
PutData(w) ==
  LET m == inv[w].msg IN
  /\ At(w, "data")
  /\ s3' = s3 \cup {<<m.kind, m.id>>}
  /\ Goto(w, IF m.kind = "factory_state" THEN "risk" ELSE "snapshot")
  /\ UNCHANGED <<clock, transport, faults, latest, replica, history, applied, done>>

PutRisk(w) ==
  /\ At(w, "risk")
  /\ s3' = s3 \cup {<<"risk_score", inv[w].msg.id>>}
  /\ Goto(w, "snapshot")
  /\ UNCHANGED <<clock, transport, faults, latest, replica, history, applied, done>>

PutSnapshot(w) ==
  /\ At(w, "snapshot")
  /\ s3' = IF inv[w].snapshot
           THEN s3 \cup {<<"state_snapshot", inv[w].now>>} ELSE s3
  /\ done' = IF inv[w].msg = Refresh THEN done ELSE done \cup {inv[w].msg}
  /\ Return(w)
  /\ UNCHANGED <<clock, transport, faults, latest, replica, history, applied>>

\* A faulty variant of Fail: the handler logs the exception and returns.
FailSwallowed(w) ==
  /\ ~At(w, "idle")
  /\ faults < MaxFaults
  /\ faults' = faults + 1
  /\ Return(w)
  /\ UNCHANGED <<clock, transport, store, applied, done>>

\* A call raises, or the invocation dies: Lambda retries the event from the
\* beginning.
Fail(w) ==
  LET m == inv[w].msg IN
  /\ ~At(w, "idle")
  /\ faults < MaxFaults
  /\ faults' = faults + 1
  /\ Return(w)
  /\ \/ /\ m = Refresh
        /\ due' = TRUE
        /\ UNCHANGED <<retries, queue>>
     \/ /\ m # Refresh
        /\ retries[m] < MaxRetries
        /\ retries' = [retries EXCEPT ![m] = @ + 1]
        /\ queue' = [queue EXCEPT ![m] = @ + 1]
        /\ UNCHANGED due
     \/ /\ m # Refresh
        /\ retries[m] = MaxRetries
        /\ UNCHANGED <<retries, queue, due>>
  /\ UNCHANGED <<clock, published, duplicates, store, applied, done>>

-----------------------------------------------------------------------------
Step(w) ==
  \/ Read(w) \/ Update(w) \/ Reread(w) \/ PutHistory(w)
  \/ PutData(w) \/ PutRisk(w) \/ PutSnapshot(w)

Next ==
  \/ Tick
  \/ Replicate
  \/ \E m \in Messages : Publish(m) \/ PublishAgain(m)
  \/ \E w \in Workers :
       \/ \E m \in Messages : StartMessage(w, m)
       \/ StartRefresh(w)
       \/ Step(w)
       \/ Fail(w)

Spec == Init /\ [][Next]_vars

\* Time passes, replicas catch up, Lambda runs the events it holds, an invocation goes on until
\* it returns or fails, and the schedule keeps firing.
Fairness ==
  /\ WF_vars(Tick)
  /\ WF_vars(Replicate)
  /\ \A w \in Workers : WF_vars(Step(w))
  /\ \A m \in Messages : SF_vars(\E w \in Workers : StartMessage(w, m))
  /\ SF_vars(\E w \in Workers : StartRefresh(w))

FairSpec == Spec /\ Fairness

-----------------------------------------------------------------------------
(* Properties. *)

\* The risk and the pipeline status of an item are computed from the states
\* next to them: what an operator reads in one item belongs together.
Coherent(item) ==
  item.fs # None => item.risk = Risk(item.fs, item.is, item.ps)

\* However messages are reordered, repeated or interleaved, LATEST and HISTORY
\* call the pipeline normal only when some infra_state that was really applied
\* was fresh at the time of the calculation.
NoFalseNormal ==
  \A item \in {latest} \cup {history[t] : t \in 1..MaxClock} :
    (item # None /\ item.ps # None /\ item.ps.status = "normal") =>
      \E m \in applied :
        m.kind = "infra_state" /\ item.ps.at <= m.ts + WarnAge

\* handler(): what a returned handler has stored is complete, the retried and
\* the partly failed attempts included.
DoneIsStored ==
  \A m \in done :
    /\ m \in applied
    /\ <<m.kind, m.id>> \in s3
    /\ m.kind = "factory_state" => <<"risk_score", m.id>> \in s3

\* Every published message is processed, through failures, while Lambda has
\* retries left for it.
EventuallyProcessed ==
  \A m \in Messages : m \in published ~> m \in done

\* The one-minute refresh repairs what interleaved updates and late reads left
\* incoherent.
EventuallyCoherent == <>[]Coherent(latest)

\* ... and HISTORY ends with what LATEST ends with, although the copy an update
\* makes of LATEST may miss that very update.
EventuallyRecorded ==
  <>[](Exists(latest) => \E t \in 1..MaxClock : history[t] = latest)

\* Once the infra states stop, LATEST ends with the status of its age.
SilenceDetected ==
  <>[](latest.is # None =>
         latest.ps.status = PipelineStatus(latest.is, MaxClock).status)

=============================================================================
