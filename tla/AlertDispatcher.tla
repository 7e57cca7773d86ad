--------------------------- MODULE AlertDispatcher ---------------------------
(***************************************************************************)
(* The risk-alert dispatcher (src/apps/risk-alert-dispatcher): concurrent  *)
(* Lambda invocations, each handling one S3 ObjectCreated event of a       *)
(* processed snapshot, that confirm, reserve, send and record the alerts   *)
(* the snapshot raises.  Every DynamoDB call is one step, because other    *)
(* invocations run between two calls; `now` is read once, when the handler *)
(* starts, and used until it returns.                                      *)
(*                                                                         *)
(* A snapshot is identified with its updated_at, one of Stamps, and is     *)
(* written at that time.  S3 may deliver its event more than once, and     *)
(* late; an invocation that raises or is killed is retried by Lambda.      *)
(***************************************************************************)
EXTENDS Naturals, Sequences, FiniteSets

CONSTANTS Fingerprints,    \* the alerts' (pk, sk) pairs
          NeedsConfirm,    \* those _cloud_confirmation_policy asks to confirm
          Required,        \* confirmation_observations of these
          Window,          \* confirmation_window_seconds, in ticks
          Stamps,          \* times at which a snapshot is written
          Cooldown,        \* _cooldown_seconds, in ticks
          Timeout,         \* Lambda timeout, in ticks
          Workers,         \* concurrent invocations
          MaxClock,        \* bound: the clock stops here
          MaxRetries,      \* Lambda retries of one event
          MaxDuplicates,   \* bound: duplicate S3 deliveries
          MaxFaults        \* bound: invocations killed plus Slack failures

ASSUME DispatcherAssumption ==
  /\ NeedsConfirm \subseteq Fingerprints
  /\ Required \in Nat /\ Required >= 2
  /\ Window \in Nat \ {0}
  /\ Stamps \subseteq Nat \ {0}
  /\ Cooldown \in Nat
  /\ Timeout \in Nat
  /\ Timeout < Cooldown
  /\ MaxClock \in Nat /\ MaxRetries \in Nat
  /\ MaxDuplicates \in Nat /\ MaxFaults \in Nat

VARIABLES
  clock,            \* epoch, in ticks
  slackConfigured,  \* a webhook secret or parameter is configured
  raised,           \* raised[s]: the alerts evaluate() finds in snapshot s
  written,          \* snapshots already in S3
  queue,            \* queue[s]: outstanding deliveries of the event of s
  retries,          \* retries[s]: retries Lambda has made of it
  duplicates,       \* duplicate deliveries so far
  item,             \* item[f]: the ALERT# item of f
  obs,              \* obs[f]: the OBSERVATION# item of f
  inv,              \* inv[w]: the invocation running in w
  granted,          \* history: reservations obtained
  observed,         \* history: observations confirm() accepted
  slackLog,         \* what the Slack channel received
  faults            \* history: kills and failed sends

s3Vars == <<raised, written>>
lambdaVars == <<queue, retries, duplicates>>
tableVars == <<item, obs>>
historyVars == <<granted, observed, slackLog, faults>>
vars == <<clock, slackConfigured, s3Vars, lambdaVars, tableVars, inv,
          historyVars>>

\* Attribute values of an item that does not exist: every stamp is above 0.
Absent == 0

Items == [stamp : Stamps \cup {Absent}, until : Nat, sentAt : Nat,
          status : {"none", "pending", "sent", "failed"}]

Observations == [stamp : Stamps \cup {Absent}, at : Nat, count : Nat]

\* The table calls of an alert, which inv[w].fp names, and the other points.
AlertSteps == {"confirm", "reset", "reserve", "send", "record"}

Steps == AlertSteps \cup {"idle", "next"}

Idle == [pc |-> "idle", stamp |-> Absent, now |-> 0, todo |-> {},
         fp |-> "none", outcome |-> "none"]

Invocations ==
  [pc : Steps, stamp : Stamps \cup {Absent}, now : Nat,
   todo : SUBSET Fingerprints, fp : Fingerprints \cup {"none"},
   outcome : {"none", "sent", "failed"}]

TypeOK ==
  /\ clock \in 0..MaxClock
  /\ slackConfigured \in BOOLEAN
  /\ raised \in [Stamps -> SUBSET Fingerprints]
  /\ written \subseteq Stamps
  /\ queue \in [Stamps -> Nat]
  /\ retries \in [Stamps -> 0..MaxRetries]
  /\ duplicates \in 0..MaxDuplicates
  /\ item \in [Fingerprints -> Items]
  /\ obs \in [Fingerprints -> Observations]
  /\ inv \in [Workers -> Invocations]
  /\ granted \subseteq [fp : Fingerprints, stamp : Stamps, at : Nat]
  /\ observed \subseteq [fp : Fingerprints, stamp : Stamps, at : Nat]
  /\ slackLog \in Seq([fp : Fingerprints, stamp : Stamps,
                       grantedAt : Nat, at : Nat])
  /\ faults \in 0..MaxFaults

Init ==
  /\ clock = 0
  /\ slackConfigured \in BOOLEAN
  /\ raised = [s \in Stamps |-> {}]
  /\ written = {}
  /\ queue = [s \in Stamps |-> 0]
  /\ retries = [s \in Stamps |-> 0]
  /\ duplicates = 0
  /\ item = [f \in Fingerprints |-> [stamp |-> Absent, until |-> 0,
                                     sentAt |-> 0, status |-> "none"]]
  /\ obs = [f \in Fingerprints |-> [stamp |-> Absent, at |-> 0, count |-> 0]]
  /\ inv = [w \in Workers |-> Idle]
  /\ granted = {}
  /\ observed = {}
  /\ slackLog = << >>
  /\ faults = 0

-----------------------------------------------------------------------------
(* The environment: time, the snapshot writers, S3 and Lambda. *)

Running(w) == inv[w].pc # "idle"

\* Lambda kills an invocation at its timeout: time does not pass while one
\* that has used its time up is still there.
Tick ==
  /\ clock < MaxClock
  /\ \A w \in Workers : Running(w) => clock < inv[w].now + Timeout
  /\ clock' = clock + 1
  /\ UNCHANGED <<slackConfigured, s3Vars, lambdaVars, tableVars, inv,
                 historyVars>>

\* A data processor or a collector writes the snapshot of time s to S3, and
\* S3 emits the event.
PutSnapshot(s) ==
  /\ clock = s
  /\ s \notin written
  /\ \E alerts \in SUBSET Fingerprints :
       raised' = [raised EXCEPT ![s] = alerts]
  /\ written' = written \cup {s}
  /\ queue' = [queue EXCEPT ![s] = 1]
  /\ UNCHANGED <<clock, slackConfigured, retries, duplicates, tableVars, inv,
                 historyVars>>

\* S3 event delivery is at least once.
DuplicateEvent(s) ==
  /\ s \in written
  /\ duplicates < MaxDuplicates
  /\ duplicates' = duplicates + 1
  /\ queue' = [queue EXCEPT ![s] = @ + 1]
  /\ UNCHANGED <<clock, slackConfigured, s3Vars, retries, tableVars, inv,
                 historyVars>>

-----------------------------------------------------------------------------
(* The handler. *)

\* handler(): the clock is read once, the snapshot is fetched and evaluated.
Start(w, s) ==
  /\ ~Running(w)
  /\ queue[s] > 0
  /\ queue' = [queue EXCEPT ![s] = @ - 1]
  /\ inv' = [inv EXCEPT ![w] =
               [pc |-> "next", stamp |-> s, now |-> clock, todo |-> raised[s],
                fp |-> "none", outcome |-> "none"]]
  /\ UNCHANGED <<clock, slackConfigured, s3Vars, retries, duplicates,
                 tableVars, historyVars>>

At(w, pc) == inv[w].pc = pc

\* The worker goes on to step pc of the alert it is dispatching.
Goto(w, pc) == inv' = [inv EXCEPT ![w].pc = pc]

\* _dispatch() of one of the remaining alerts, up to its first table call.
Dispatch(w, f) ==
  /\ At(w, "next")
  /\ f \in inv[w].todo
  /\ inv' = [inv EXCEPT
               ![w].todo = @ \ {f},
               ![w].fp = f,
               ![w].outcome = "none",
               ![w].pc = IF ~slackConfigured THEN "next"
                         ELSE IF f \in NeedsConfirm THEN "confirm"
                         ELSE "reserve"]
  /\ UNCHANGED <<clock, slackConfigured, s3Vars, lambdaVars, tableVars,
                 historyVars>>

\* A faulty variant of InWindow: the snapshot's age is not compared.
InWindowOfAnySnapshot(w, o) ==
  /\ o.stamp # Absent
  /\ o.at + Window >= inv[w].now

\* confirm(), first conditional update: one more observation of a newer
\* snapshot, the previous one still inside the window.
InWindow(w, o) ==
  /\ o.stamp # Absent
  /\ o.at + Window >= inv[w].now
  /\ o.stamp < inv[w].stamp

Observe(w, count) ==
  LET f == inv[w].fp IN
  /\ obs' = [obs EXCEPT ![f] = [stamp |-> inv[w].stamp, at |-> inv[w].now,
                                count |-> count]]
  /\ observed' = observed \cup
       {[fp |-> f, stamp |-> inv[w].stamp, at |-> inv[w].now]}

ConfirmCount(w) ==
  /\ At(w, "confirm")
  /\ LET o == obs[inv[w].fp] IN
       \/ /\ InWindow(w, o)
          /\ Observe(w, o.count + 1)
          /\ Goto(w, IF o.count + 1 >= Required THEN "reserve" ELSE "next")
       \/ /\ ~InWindow(w, o)
          /\ Goto(w, "reset")
          /\ UNCHANGED <<obs, observed>>
  /\ UNCHANGED <<clock, slackConfigured, s3Vars, lambdaVars, item, granted,
                 slackLog, faults>>

\* confirm(), second conditional update: the count starts again at one, unless
\* the snapshot is not newer than the last one observed.
ConfirmReset(w) ==
  /\ At(w, "reset")
  /\ \/ /\ obs[inv[w].fp].stamp < inv[w].stamp
        /\ Observe(w, 1)
     \/ /\ obs[inv[w].fp].stamp >= inv[w].stamp
        /\ UNCHANGED <<obs, observed>>
  /\ Goto(w, "next")
  /\ UNCHANGED <<clock, slackConfigured, s3Vars, lambdaVars, item, granted,
                 slackLog, faults>>

\* Faulty variants of Reservable: the cooldown, or the snapshot's age, is not
\* looked at.
ReservableInCooldown(w, i) == i.stamp < inv[w].stamp

ReservableForStale(w, i) == i.until <= inv[w].now

\* The condition of reserve()'s update.
Reservable(w, i) ==
  /\ i.stamp < inv[w].stamp
  /\ i.until <= inv[w].now

\* A faulty variant of CooldownUntil: the cooldown lies in the past.
CooldownBehind(w) == inv[w].now - Cooldown

CooldownUntil(w) == inv[w].now + Cooldown

\* reserve(): last_sent_at is set here, before anything is sent.
Reserve(w) ==
  LET f == inv[w].fp IN
  /\ At(w, "reserve")
  /\ \/ /\ Reservable(w, item[f])
        /\ item' = [item EXCEPT ![f] =
                      [stamp |-> inv[w].stamp,
                       until |-> CooldownUntil(w),
                       sentAt |-> inv[w].now, status |-> "pending"]]
        /\ granted' = granted \cup
             {[fp |-> f, stamp |-> inv[w].stamp, at |-> inv[w].now]}
        /\ Goto(w, "send")
     \/ /\ ~Reservable(w, item[f])
        /\ Goto(w, "next")
        /\ UNCHANGED <<item, granted>>
  /\ UNCHANGED <<clock, slackConfigured, s3Vars, lambdaVars, obs, observed,
                 slackLog, faults>>

\* A faulty variant of SendResult: an error of the call is taken for success.
SendResultIgnored(delivered, outcome) == outcome = "sent"

\* slack.send(): it returns, it fails before the channel has the message, or
\* the answer is lost and the message is not.
SendResult(delivered, outcome) == outcome = "sent" => delivered

Send(w, delivered, outcome) ==
  /\ At(w, "send")
  /\ SendResult(delivered, outcome)
  /\ slackLog' = IF delivered
                 THEN Append(slackLog,
                        [fp |-> inv[w].fp, stamp |-> inv[w].stamp,
                         grantedAt |-> inv[w].now, at |-> clock])
                 ELSE slackLog
  /\ outcome = "failed" => faults < MaxFaults
  /\ faults' = IF outcome = "failed" THEN faults + 1 ELSE faults
  /\ inv' = [inv EXCEPT ![w].pc = "record", ![w].outcome = outcome]
  /\ UNCHANGED <<clock, slackConfigured, s3Vars, lambdaVars, tableVars,
                 granted, observed>>

\* record_slack_result(): an unconditional update.
Record(w) ==
  /\ At(w, "record")
  /\ item' = [item EXCEPT ![inv[w].fp].status = inv[w].outcome]
  /\ Goto(w, "next")
  /\ UNCHANGED <<clock, slackConfigured, s3Vars, lambdaVars, obs,
                 historyVars>>

\* A faulty variant of Finish: the handler returns with alerts left.
FinishEarly(w) ==
  /\ At(w, "next")
  /\ inv' = [inv EXCEPT ![w] = Idle]
  /\ UNCHANGED <<clock, slackConfigured, s3Vars, lambdaVars, tableVars,
                 historyVars>>

Finish(w) ==
  /\ At(w, "next")
  /\ inv[w].todo = {}
  /\ inv' = [inv EXCEPT ![w] = Idle]
  /\ UNCHANGED <<clock, slackConfigured, s3Vars, lambdaVars, tableVars,
                 historyVars>>

\* The invocation raises (an S3 or DynamoDB error), crashes or times out.
\* Lambda retries the event from the beginning, at most MaxRetries times.
Fail(w) ==
  /\ Running(w)
  /\ faults < MaxFaults
  /\ faults' = faults + 1
  /\ LET s == inv[w].stamp IN
       IF retries[s] < MaxRetries
       THEN /\ retries' = [retries EXCEPT ![s] = @ + 1]
            /\ queue' = [queue EXCEPT ![s] = @ + 1]
       ELSE UNCHANGED <<retries, queue>>
  /\ inv' = [inv EXCEPT ![w] = Idle]
  /\ UNCHANGED <<clock, slackConfigured, s3Vars, duplicates, tableVars,
                 granted, observed, slackLog>>

-----------------------------------------------------------------------------
\* One step of the invocation in w, failures apart.
Step(w) ==
  \/ \E f \in Fingerprints : Dispatch(w, f)
  \/ ConfirmCount(w)
  \/ ConfirmReset(w)
  \/ Reserve(w)
  \/ \E delivered \in BOOLEAN, outcome \in {"sent", "failed"} :
       Send(w, delivered, outcome)
  \/ Record(w)
  \/ Finish(w)

Next ==
  \/ Tick
  \/ \E s \in Stamps : PutSnapshot(s) \/ DuplicateEvent(s)
  \/ \E w \in Workers :
       \/ \E s \in Stamps : Start(w, s)
       \/ Step(w)
       \/ Fail(w)

Spec == Init /\ [][Next]_vars

\* A started invocation runs to its end or is killed, time passes, and Lambda
\* starts every event it holds: Lambda polls its own event queue.
Fairness ==
  /\ WF_vars(Tick)
  /\ \A w \in Workers : WF_vars(Step(w))
  /\ \A s \in Stamps : WF_vars(\E w \in Workers : Start(w, s))

FairSpec == Spec /\ Fairness

-----------------------------------------------------------------------------
(* Properties. *)

\* The dispatcher implements the throttle: at most one message per snapshot
\* and fingerprint, newest snapshots only, a cooldown between reservations,
\* whatever is redelivered, retried, reordered or run concurrently.
Throttle == INSTANCE AlertThrottle
              WITH clock <- clock, granted <- granted, slackLog <- slackLog

ThrottleSpec == Throttle!Spec

\* What follows for the channel: two messages about one alert are a cooldown
\* less an invocation's lifetime apart, and newer ones are about newer
\* snapshots.
ChannelSpaced == Throttle!PostsSpaced

ChannelInOrder == Throttle!PostsInOrder

\* confirm(): an alert that needs confirmation is reserved only after an
\* older snapshot raised it too and was observed at most a window earlier,
\* although retries and concurrent invocations touch the same counter.
ConfirmedByTwoSnapshots ==
  \A g \in granted :
    g.fp \in NeedsConfirm =>
      \E o \in observed :
        /\ o.fp = g.fp
        /\ o.stamp < g.stamp
        /\ g.fp \in raised[o.stamp] \cap raised[g.stamp]
        /\ g.at <= o.at + Window

PostedFor(f, s) ==
  \E i \in 1..Len(slackLog) : slackLog[i].fp = f /\ slackLog[i].stamp = s

\* record_slack_result() is unconditional, yet an item that says "sent" speaks
\* of the snapshot it names: a slow invocation cannot mark the reservation of
\* a later one, because it is killed before the cooldown is over.
StatusHonest ==
  \A f \in Fingerprints :
    item[f].status = "sent" => PostedFor(f, item[f].stamp)

\* A reservation that is neither posted nor still about to be.
Lost(g) ==
  /\ ~PostedFor(g.fp, g.stamp)
  /\ ~\E w \in Workers :
        At(w, "send") /\ inv[w].fp = g.fp /\ inv[w].stamp = g.stamp

\* A reservation suppresses the alert for a cooldown, so one that is not used
\* is a lost alert: each is due to a different crash or Slack failure.
LossesAttributable == Cardinality({g \in granted : Lost(g)}) <= faults

\* confirm(): a snapshot observed inside the window of an older observed one
\* is counted with it.
ConfirmationsCounted ==
  \A f \in NeedsConfirm :
    obs[f].count = 1 =>
      ~\E o \in observed :
         /\ o.fp = f
         /\ o.stamp < obs[f].stamp
         /\ o.at + Window >= obs[f].at

\* An alert that needs no confirmation leads to a reservation, through kills
\* and retries, as long as Lambda has retries left for its event.
EventuallyAlerted ==
  \A f \in Fingerprints \ NeedsConfirm, s \in Stamps :
    (slackConfigured /\ s \in written /\ f \in raised[s])
      ~> (\E g \in granted : g.fp = f /\ g.at + Cooldown > s)
=============================================================================
