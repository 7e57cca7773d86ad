------------------------- MODULE DataProcessorProofs -------------------------
(***************************************************************************)
(* Proofs about DataProcessor, for any messages, thresholds, number of     *)
(* concurrent invocations, duplicates, retries and failures: no item calls *)
(* the pipeline normal without an infra_state to justify it, and a handler *)
(* that returned has stored everything.                                    *)
(***************************************************************************)
EXTENDS DataProcessor, TLAPS

PipelineStatuses == [status : {"normal", "warning", "critical"}, at : Nat]

\* An item is backed by the messages in S: its infra state is one of them, and
\* a normal pipeline status was computed from one that was fresh then.
Backed(i, S) ==
  /\ i.is # None => i.is \in S /\ i.is.kind = "infra_state"
  /\ i.ps # None /\ i.ps.status = "normal" =>
       \E m \in S : m.kind = "infra_state" /\ i.ps.at <= m.ts + WarnAge

\* What an invocation has done by the time it gets to a call.
Progress(w) ==
  LET m == inv[w].msg
      pc == inv[w].pc
  IN /\ pc \in {"reread", "history", "data", "risk", "snapshot"} /\ m # Refresh
          => m \in applied
     /\ pc \in {"data", "risk"} => m # Refresh
     /\ pc = "risk" => m.kind = "factory_state"
     /\ pc \in {"risk", "snapshot"} /\ m # Refresh => <<m.kind, m.id>> \in s3
     /\ pc = "snapshot" /\ m.kind = "factory_state"
          => <<"risk_score", m.id>> \in s3

\* The inductive invariant: the copies that are still to be read or put are as
\* well backed as LATEST and HISTORY.
IInv ==
  /\ TypeOK
  /\ Backed(latest, applied) /\ Backed(replica, applied)
  /\ \A t \in 1..MaxClock : history[t] # None => Backed(history[t], applied)
  /\ \A w \in Workers : Backed(inv[w].seen, applied) /\ Progress(w)
  /\ DoneIsStored

-----------------------------------------------------------------------------
(* Statuses and items. *)

LEMMA MessageKinds ==
  ASSUME ProcessorAssumption, NEW m \in Messages
  PROVE  m # None /\ m # Refresh /\ m.kind \in Kinds /\ m.ts \in Nat
BY DEF ProcessorAssumption, Kinds, None, Refresh

\* calculate() says "normal" only of an infra state at most WARNING_SECONDS old.
LEMMA StatusFacts ==
  ASSUME ProcessorAssumption, NEW infra \in Optional(Messages), NEW now \in Nat
  PROVE  /\ PipelineStatus(infra, now) \in PipelineStatuses
         /\ PipelineStatus(infra, now).at = now
         /\ PipelineStatus(infra, now).status = "normal" =>
              infra \in Messages /\ now <= infra.ts + WarnAge
<1>1. PipelineStatus(infra, now) \in PipelineStatuses
  BY DEF PipelineStatus, PipelineStatuses
<1>2. PipelineStatus(infra, now).at = now
  BY DEF PipelineStatus
<1>3. ASSUME PipelineStatus(infra, now).status = "normal"
      PROVE  infra \in Messages /\ now <= infra.ts + WarnAge
  <2>1. infra # None
    BY <1>3 DEF PipelineStatus
  <2>2. infra \in Messages /\ infra.ts \in Nat
    BY <2>1, MessageKinds DEF Optional
  <2>3. ~(now > infra.ts + WarnAge)
    BY <1>3 DEF PipelineStatus
  <2> QED BY <2>2, <2>3 DEF ProcessorAssumption
<1> QED BY <1>1, <1>2, <1>3

\* Backing is not lost when more messages are applied.
LEMMA BackedGrows ==
  ASSUME NEW S, NEW T, S \subseteq T, NEW i, Backed(i, S)
  PROVE  Backed(i, T)
BY DEF Backed

\* A status computed from a backed item's infra state is backed.
LEMMA StatusBacked ==
  ASSUME ProcessorAssumption, NEW S, NEW seen \in Items, Backed(seen, S),
         NEW now \in Nat, PipelineStatus(seen.is, now).status = "normal"
  PROVE  \E m \in S : /\ m.kind = "infra_state"
                      /\ PipelineStatus(seen.is, now).at <= m.ts + WarnAge
<1>1. seen.is \in Optional(Messages)
  BY DEF Items
<1>2. /\ seen.is \in Messages /\ now <= seen.is.ts + WarnAge
      /\ PipelineStatus(seen.is, now).at = now
  BY <1>1, StatusFacts
<1>3. seen.is # None
  BY <1>2, MessageKinds
<1> QED BY <1>2, <1>3 DEF Backed

LEMMA EmptyItemFacts == EmptyItem \in Items /\ Backed(EmptyItem, {})
BY DEF EmptyItem, Items, Optional, Backed

\* Each of the four updates turns a backed LATEST and a backed copy, read
\* whenever, into a backed LATEST.
LEMMA FactoryUpdateFacts ==
  ASSUME ProcessorAssumption, NEW S, latest \in Items, Backed(latest, S),
         NEW seen \in Items, Backed(seen, S), NEW now \in Nat, NEW m \in Messages
  PROVE  FactoryUpdate(m, seen, now) \in Items
         /\ Backed(FactoryUpdate(m, seen, now), S)
<1> DEFINE ps == PipelineStatus(seen.is, now)
           new == FactoryUpdate(m, seen, now)
<1>0. seen.is \in Optional(Messages)
  BY DEF Items
<1>1. ps \in PipelineStatuses
  BY <1>0, StatusFacts
<1>2. new = [latest EXCEPT !.fs = m, !.risk = Risk(m, seen.is, ps), !.ps = ps,
                           !.updatedAt = now]
  BY DEF FactoryUpdate
<1>3. Risk(m, seen.is, ps) \in [fs : Optional(Messages), is : Optional(Messages),
                                ps : PipelineStatuses]
  BY <1>0, <1>1 DEF Risk, Optional
<1>4. new \in Items
  BY <1>1, <1>2, <1>3 DEF Items, Optional, PipelineStatuses
<1>5. new.is = latest.is /\ new.ps = ps
  BY <1>2 DEF Items
<1>6. Backed(new, S)
  BY <1>5, StatusBacked DEF Backed
<1> QED BY <1>4, <1>6

LEMMA RefreshUpdateFacts ==
  ASSUME ProcessorAssumption, NEW S, latest \in Items, Backed(latest, S),
         NEW seen \in Items, Backed(seen, S), NEW now \in Nat
  PROVE  RefreshUpdate(seen, now) \in Items
         /\ Backed(RefreshUpdate(seen, now), S)
<1> DEFINE ps == PipelineStatus(seen.is, now)
           new == RefreshUpdate(seen, now)
           risk == IF seen.fs = None THEN latest.risk
                   ELSE Risk(seen.fs, seen.is, ps)
<1>0. seen.is \in Optional(Messages) /\ seen.fs \in Optional(Messages)
  BY DEF Items
<1>1. ps \in PipelineStatuses
  BY <1>0, StatusFacts
<1>2. new = [latest EXCEPT !.ps = ps, !.updatedAt = now, !.risk = risk]
  BY DEF RefreshUpdate
<1>3. Risk(seen.fs, seen.is, ps) \in
        [fs : Optional(Messages), is : Optional(Messages), ps : PipelineStatuses]
  BY <1>0, <1>1 DEF Risk
<1>4. new \in Items
  BY <1>1, <1>2, <1>3 DEF Items, Optional, PipelineStatuses
<1>5. new.is = latest.is /\ new.ps = ps
  BY <1>2 DEF Items
<1>6. Backed(new, S)
  BY <1>5, StatusBacked DEF Backed
<1> QED BY <1>4, <1>6

LEMMA InfraUpdateFacts ==
  ASSUME ProcessorAssumption, NEW S, latest \in Items, Backed(latest, S),
         NEW seen \in Items, Backed(seen, S), NEW now \in Nat,
         NEW m \in Messages, m \in S, m.kind = "infra_state"
  PROVE  InfraUpdate(m, seen, now) \in Items
         /\ Backed(InfraUpdate(m, seen, now), S)
<1> DEFINE ps == PipelineStatus(m, now)
           new == InfraUpdate(m, seen, now)
           risk == IF seen.fs = None THEN latest.risk ELSE Risk(seen.fs, m, ps)
<1>0. m \in Optional(Messages) /\ seen.fs \in Optional(Messages)
  BY DEF Items, Optional
<1>1. /\ ps \in PipelineStatuses /\ ps.at = now
      /\ ps.status = "normal" => now <= m.ts + WarnAge
  BY <1>0, StatusFacts
<1>2. new = [latest EXCEPT !.is = m, !.ps = ps, !.updatedAt = now,
                           !.risk = risk]
  BY DEF InfraUpdate
<1>3. Risk(seen.fs, m, ps) \in
        [fs : Optional(Messages), is : Optional(Messages), ps : PipelineStatuses]
  BY <1>0, <1>1 DEF Risk
<1>4. new \in Items
  BY <1>0, <1>1, <1>2, <1>3 DEF Items, Optional, PipelineStatuses
<1>5. new.is = m /\ new.ps = ps
  BY <1>2 DEF Items
<1>6. Backed(new, S)
  BY <1>1, <1>5 DEF Backed
<1> QED BY <1>4, <1>6

LEMMA ImageUpdateFacts ==
  ASSUME NEW S, latest \in Items, Backed(latest, S), NEW now \in Nat,
         NEW m \in Messages
  PROVE  ImageUpdate(m, now) \in Items /\ Backed(ImageUpdate(m, now), S)
<1>1. ImageUpdate(m, now) \in Items
  BY DEF ImageUpdate, Items, Optional
<1>2. /\ ImageUpdate(m, now).is = latest.is
      /\ ImageUpdate(m, now).ps = latest.ps
  BY DEF ImageUpdate, Items
<1> QED BY <1>1, <1>2 DEF Backed

-----------------------------------------------------------------------------
(* The inductive invariant. *)

LEMMA InitIInv == ProcessorAssumption /\ Init => IInv
<1> SUFFICES ASSUME ProcessorAssumption, Init PROVE IInv
  OBVIOUS
<1>1. Idle \in Invocations
  BY EmptyItemFacts DEF Idle, Invocations, Steps
<1>2. TypeOK
  BY <1>1, EmptyItemFacts DEF Init, TypeOK, Optional
<1>3. \A w \in Workers : Backed(inv[w].seen, applied) /\ Progress(w)
  BY EmptyItemFacts DEF Init, Idle, Progress
<1>4. \A t \in 1..MaxClock : history[t] # None => Backed(history[t], applied)
  BY DEF Init
<1> QED BY <1>2, <1>3, <1>4, EmptyItemFacts DEF Init, IInv, DoneIsStored

LEMMA TypeOfRun ==
  ASSUME TypeOK, NEW w \in Workers
  PROVE  /\ inv[w] \in Invocations
         /\ inv[w].msg \in Messages \cup {Refresh}
         /\ inv[w].now \in Nat /\ inv[w].seen \in Items
BY DEF TypeOK, Invocations

\* An invocation that stands still keeps its progress while others store more.
LEMMA ProgressStays ==
  ASSUME NEW w \in Workers, Progress(w), inv'[w] = inv[w],
         applied \subseteq applied', s3 \subseteq s3'
  PROVE  Progress(w)'
BY DEF Progress

\* A step of one invocation that writes neither LATEST nor HISTORY keeps the
\* invariant when it is typed and keeps its own part of it.
LEMMA LocalStep ==
  ASSUME IInv, TypeOK', NEW w \in Workers,
         \A v \in Workers \ {w} : inv'[v] = inv[v],
         UNCHANGED <<latest, replica, history, applied>>,
         s3 \subseteq s3', Backed(inv[w].seen, applied)', Progress(w)',
         DoneIsStored'
  PROVE  IInv'
<1>1. \A v \in Workers : Backed(inv[v].seen, applied)' /\ Progress(v)'
  BY ProgressStays DEF IInv
<1>2. \A t \in 1..MaxClock : history'[t] # None => Backed(history[t], applied)'
  BY DEF IInv
<1> QED BY <1>1, <1>2 DEF IInv

\* A step outside the invocations and the stores.
LEMMA OutsideStep ==
  ASSUME IInv, TypeOK', UNCHANGED <<latest, history, s3, inv, applied, done>>,
         replica' \in {replica, latest}
  PROVE  IInv'
<1>1. \A v \in Workers : Backed(inv[v].seen, applied)' /\ Progress(v)'
  BY ProgressStays DEF IInv
<1>2. DoneIsStored'
  BY DEF IInv, DoneIsStored
<1>3. \A t \in 1..MaxClock : history'[t] # None => Backed(history[t], applied)'
  BY DEF IInv
<1> QED BY <1>1, <1>2, <1>3 DEF IInv

LEMMA EnvironmentStep ==
  ASSUME ProcessorAssumption, IInv,
         \/ Tick \/ Replicate \/ UNCHANGED vars
         \/ \E m \in Messages : Publish(m) \/ PublishAgain(m)
  PROVE  IInv'
<1> USE DEF IInv
<1>1. CASE Tick
  <2>1. TypeOK'
    BY <1>1 DEF Tick, TypeOK, store
  <2> QED BY <1>1, <2>1, OutsideStep DEF Tick, store
<1>2. CASE Replicate
  <2>1. TypeOK'
    BY <1>2 DEF Replicate, TypeOK, transport
  <2> QED BY <1>2, <2>1, OutsideStep DEF Replicate
<1>3. CASE UNCHANGED vars
  <2>1. TypeOK'
    BY <1>3 DEF vars, TypeOK, transport, store
  <2> QED BY <1>3, <2>1, OutsideStep DEF vars, store
<1>4. ASSUME NEW m \in Messages, Publish(m) \/ PublishAgain(m) PROVE IInv'
  <2>1. queue[m] + 1 \in Nat
    BY DEF TypeOK
  <2>2. TypeOK'
    BY <1>4, <2>1 DEF Publish, PublishAgain, TypeOK, store
  <2> QED BY <1>4, <2>2, OutsideStep DEF Publish, PublishAgain, store
<1> QED BY <1>1, <1>2, <1>3, <1>4

LEMMA IdleFacts == Idle \in Invocations /\ Idle.seen = EmptyItem
BY EmptyItemFacts DEF Idle, Invocations, Steps

\* Start, return and failure: an invocation begins or ends with empty hands.
LEMMA StartStep ==
  ASSUME ProcessorAssumption, IInv, NEW w \in Workers,
         StartRefresh(w) \/ \E m \in Messages : StartMessage(w, m)
  PROVE  IInv'
<1> USE DEF IInv
<1>1. PICK m \in Messages \cup {Refresh}, pc \in {"read", "update"} :
        inv' = [inv EXCEPT ![w] = [Idle EXCEPT !.pc = pc, !.msg = m,
                                               !.now = clock]]
  BY DEF StartRefresh, StartMessage, Begin
<1> DEFINE new == [Idle EXCEPT !.pc = pc, !.msg = m, !.now = clock]
<1>2. new \in Invocations /\ new.pc = pc /\ new.seen = EmptyItem
  <2>1. pc \in Steps /\ clock \in Nat
    BY DEF TypeOK, Steps
  <2> HIDE DEF IInv
  <2> QED BY <2>1, IdleFacts DEF Invocations
<1>3. /\ inv'[w].pc \in {"read", "update"} /\ inv'[w].seen = EmptyItem
      /\ \A v \in Workers \ {w} : inv'[v] = inv[v]
      /\ inv' \in [Workers -> Invocations]
  BY <1>1, <1>2 DEF TypeOK
<1>4. queue' \in [Messages -> Nat] /\ due' \in BOOLEAN
  <2>1. CASE StartRefresh(w)
    BY <2>1 DEF StartRefresh, TypeOK
  <2>2. ASSUME NEW n \in Messages, StartMessage(w, n)
        PROVE  queue' \in [Messages -> Nat] /\ due' \in BOOLEAN
    <3>1. queue[n] - 1 \in Nat
      BY <2>2 DEF StartMessage, TypeOK
    <3> QED BY <2>2, <3>1 DEF StartMessage, TypeOK
  <2> QED BY <2>1, <2>2
<1>5. UNCHANGED <<clock, published, retries, duplicates, faults, store,
                  applied, done>>
  BY DEF StartRefresh, StartMessage
<1>6. TypeOK'
  BY <1>3, <1>4, <1>5 DEF TypeOK, store
<1>7. Backed(inv[w].seen, applied)' /\ Progress(w)'
  BY <1>3, <1>5, EmptyItemFacts, BackedGrows DEF Progress
<1>8. DoneIsStored'
  BY <1>5 DEF DoneIsStored, store
<1> QED BY <1>3, <1>5, <1>6, <1>7, <1>8, LocalStep DEF store

LEMMA FailStep ==
  ASSUME ProcessorAssumption, IInv, NEW w \in Workers, Fail(w)
  PROVE  IInv'
<1> USE DEF IInv
<1>1. inv' = [inv EXCEPT ![w] = Idle]
  BY DEF Fail, Return
<1>2. /\ inv'[w] = Idle /\ \A v \in Workers \ {w} : inv'[v] = inv[v]
      /\ inv' \in [Workers -> Invocations]
  BY <1>1, EmptyItemFacts DEF TypeOK, Invocations, Steps, Idle
<1>3. /\ UNCHANGED <<clock, published, duplicates, store, applied, done>>
      /\ faults' = faults + 1
  BY DEF Fail
<1>4. /\ queue' \in [Messages -> Nat] /\ retries' \in [Messages -> Nat]
      /\ due' \in BOOLEAN
  <2>1. CASE inv[w].msg = Refresh
    BY <2>1 DEF Fail, TypeOK
  <2>2. CASE inv[w].msg # Refresh
    <3>1. inv[w].msg \in Messages
      BY <2>2, TypeOfRun
    <3>2. queue[inv[w].msg] + 1 \in Nat /\ retries[inv[w].msg] + 1 \in Nat
      BY <3>1 DEF TypeOK
    <3> QED BY <2>2, <3>2 DEF Fail, TypeOK
  <2> QED BY <2>1, <2>2
<1>5. TypeOK'
  BY <1>2, <1>3, <1>4 DEF TypeOK, store
<1>6. Backed(inv[w].seen, applied)' /\ Progress(w)'
  BY <1>2, <1>3, EmptyItemFacts, BackedGrows DEF Progress, Idle
<1>7. DoneIsStored'
  BY <1>3 DEF DoneIsStored, store
<1> QED BY <1>2, <1>3, <1>5, <1>6, <1>7, LocalStep DEF store

\* Reading LATEST, before or after the update.
LEMMA ReadStep ==
  ASSUME ProcessorAssumption, IInv, NEW w \in Workers, Read(w) \/ Reread(w)
  PROVE  IInv'
<1> USE DEF IInv
<1>1. UNCHANGED <<clock, transport, faults, store, applied, done>>
  BY DEF Read, Reread
<1>2. latest \in Items /\ replica \in Items /\ inv[w] \in Invocations
  BY TypeOfRun DEF TypeOK
<1>3. PICK seen \in {latest, replica, EmptyItem}, pc \in Steps, m \in {inv[w].msg, Refresh},
           now \in {inv[w].now, 0}, b \in BOOLEAN :
        /\ inv'[w] = [pc |-> pc, msg |-> m, now |-> now, seen |-> seen,
                      snapshot |-> b]
        /\ \/ pc \in {"idle", "update"}
           \/ /\ inv[w].pc = "reread" /\ m = inv[w].msg
              /\ pc \in {"history", "data", "snapshot"}
              /\ pc = "data" => m # Refresh
              /\ pc = "snapshot" => m = Refresh
  <2>1. CASE Read(w)
    <3>1. PICK seen \in {latest, replica} :
            \/ inv' = [inv EXCEPT ![w] = Idle]
            \/ inv' = [inv EXCEPT ![w].seen = seen, ![w].pc = "update"]
      BY <2>1 DEF Read, Return
    <3>2. CASE inv' = [inv EXCEPT ![w] = Idle]
      BY <3>2 DEF Idle, Steps, TypeOK
    <3>3. CASE inv' = [inv EXCEPT ![w].seen = seen, ![w].pc = "update"]
      <4>1. inv'[w] = [inv[w] EXCEPT !.seen = seen, !.pc = "update"]
        BY <3>3 DEF TypeOK
      <4>2. inv'[w] = [pc |-> "update", msg |-> inv[w].msg, now |-> inv[w].now,
                       seen |-> seen, snapshot |-> inv[w].snapshot]
        BY <1>2, <4>1 DEF Invocations
      <4> QED BY <1>2, <4>2 DEF Steps, Invocations
    <3> QED BY <3>1, <3>2, <3>3
  <2>2. CASE Reread(w)
    <3>0. inv[w].pc = "reread"
      BY <2>2 DEF Reread, At
    <3>1. PICK seen \in {latest, replica} :
            \/ inv' = [inv EXCEPT ![w].seen = seen, ![w].pc = "history"]
            \/ Snapshot(w, FALSE)
      BY <2>2 DEF Reread
    <3>2. CASE inv' = [inv EXCEPT ![w].seen = seen, ![w].pc = "history"]
      <4>1. inv'[w] = [inv[w] EXCEPT !.seen = seen, !.pc = "history"]
        BY <3>2 DEF TypeOK
      <4>2. inv'[w] = [pc |-> "history", msg |-> inv[w].msg, now |-> inv[w].now,
                       seen |-> seen, snapshot |-> inv[w].snapshot]
        BY <1>2, <4>1 DEF Invocations
      <4> QED BY <1>2, <3>0, <4>2 DEF Steps, Invocations
    <3>3. CASE Snapshot(w, FALSE)
      <4> DEFINE next == IF inv[w].msg = Refresh THEN "snapshot" ELSE "data"
      <4>1. inv'[w] = [inv[w] EXCEPT !.seen = EmptyItem, !.snapshot = FALSE,
                                     !.pc = next]
        BY <3>3 DEF Snapshot, TypeOK
      <4>2. inv'[w] = [pc |-> next, msg |-> inv[w].msg, now |-> inv[w].now,
                       seen |-> EmptyItem, snapshot |-> FALSE]
        BY <1>2, <4>1 DEF Invocations
      <4> QED BY <3>0, <4>2 DEF Steps
    <3> QED BY <3>1, <3>2, <3>3
  <2> QED BY <2>1, <2>2
<1>4. \A v \in Workers \ {w} : inv'[v] = inv[v]
  BY DEF Read, Reread, Return, Snapshot, TypeOK
<1>5. inv' \in [Workers -> Invocations]
  <2>1. inv'[w] \in Invocations
    BY <1>2, <1>3, EmptyItemFacts DEF Invocations
  <2>2. DOMAIN inv' = Workers /\ inv' = [v \in Workers |-> inv'[v]]
    BY DEF Read, Reread, Return, Snapshot, TypeOK
  <2> QED BY <1>4, <2>1, <2>2 DEF TypeOK
<1>6. TypeOK'
  BY <1>1, <1>5 DEF TypeOK, store, transport
<1>7. Backed(inv[w].seen, applied)'
  BY <1>1, <1>3, EmptyItemFacts, BackedGrows DEF store
<1>8. Progress(w)'
  BY <1>1, <1>3, MessageKinds, TypeOfRun DEF Progress, Refresh, Kinds
<1>9. DoneIsStored'
  BY <1>1 DEF DoneIsStored, store
<1> QED BY <1>1, <1>4, <1>6, <1>7, <1>8, <1>9, LocalStep DEF store

\* The update of LATEST: its invocation's message is applied with it.
LEMMA UpdateStep ==
  ASSUME ProcessorAssumption, IInv, NEW w \in Workers, Update(w)
  PROVE  IInv'
<1> USE DEF IInv
<1> DEFINE m == inv[w].msg
           seen == inv[w].seen
           now == inv[w].now
<1>1. /\ inv[w] \in Invocations /\ m \in Messages \cup {Refresh}
      /\ now \in Nat /\ seen \in Items /\ latest \in Items
  BY TypeOfRun DEF TypeOK
<1>2. /\ applied' = IF m = Refresh THEN applied ELSE applied \cup {m}
      /\ UNCHANGED <<clock, transport, faults, replica, history, s3, done>>
      /\ inv' = [inv EXCEPT ![w].pc = "reread", ![w].seen = EmptyItem]
  BY DEF Update
<1>3. /\ applied \subseteq applied' /\ applied' \subseteq Messages
      /\ m # Refresh => m \in applied'
  BY <1>1, <1>2 DEF TypeOK
<1>4. Backed(latest, applied') /\ Backed(seen, applied')
  BY <1>3, BackedGrows
<1>5. latest' \in Items /\ Backed(latest', applied')
  <2>1. CASE m.kind = "factory_state" /\ latest' = FactoryUpdate(m, seen, now)
    <3>1. m \in Messages
      BY <1>1, <2>1 DEF Refresh
    <3> QED BY <1>1, <1>4, <2>1, <3>1, FactoryUpdateFacts
  <2>2. CASE m.kind = "infra_state" /\ latest' = InfraUpdate(m, seen, now)
    <3>1. m \in Messages /\ m \in applied'
      BY <1>1, <1>3, <2>2, MessageKinds DEF Refresh
    <3> QED BY <1>1, <1>4, <2>2, <3>1, InfraUpdateFacts
  <2>3. CASE m.kind = "image_snapshot" /\ latest' = ImageUpdate(m, now)
    <3>1. m \in Messages
      BY <1>1, <2>3 DEF Refresh
    <3> QED BY <1>1, <1>4, <2>3, <3>1, ImageUpdateFacts
  <2>4. CASE m = Refresh /\ latest' = RefreshUpdate(seen, now)
    BY <1>1, <1>4, <2>4, RefreshUpdateFacts
  <2> QED BY <2>1, <2>2, <2>3, <2>4 DEF Update
<1>6. inv'[w] = [pc |-> "reread", msg |-> m, now |-> now, seen |-> EmptyItem,
                 snapshot |-> inv[w].snapshot]
  <2>1. inv'[w] = [inv[w] EXCEPT !.pc = "reread", !.seen = EmptyItem]
    BY <1>2 DEF TypeOK
  <2> QED BY <1>1, <2>1 DEF Invocations
<1>7. \A v \in Workers \ {w} : inv'[v] = inv[v]
  BY <1>2 DEF TypeOK
<1>8. inv' \in [Workers -> Invocations]
  <2>1. inv'[w] \in Invocations
    BY <1>1, <1>6, EmptyItemFacts DEF Invocations, Steps
  <2> QED BY <1>2, <1>7, <2>1 DEF TypeOK
<1>9. TypeOK'
  BY <1>2, <1>3, <1>5, <1>8 DEF TypeOK, transport
<1>10. Progress(w)'
  BY <1>3, <1>6 DEF Progress
<1>11. Backed(inv[w].seen, applied)'
  BY <1>6, EmptyItemFacts, BackedGrows
<1>12. \A v \in Workers : Backed(inv[v].seen, applied)' /\ Progress(v)'
  <2>1. ASSUME NEW v \in Workers \ {w}
        PROVE  Backed(inv[v].seen, applied)' /\ Progress(v)'
    <3>1. inv'[v] = inv[v] /\ Progress(v) /\ Backed(inv[v].seen, applied)
      BY <1>7
    <3>2. Progress(v)'
      BY <1>2, <1>3, <3>1, ProgressStays
    <3>3. Backed(inv[v].seen, applied')
      BY <1>3, <3>1, BackedGrows
    <3> QED BY <3>1, <3>2, <3>3
  <2> QED BY <1>10, <1>11, <2>1
<1>13. Backed(replica, applied)'
  BY <1>2, <1>3, BackedGrows
<1>14. \A t \in 1..MaxClock : history'[t] # None => Backed(history[t], applied)'
  BY <1>2, <1>3, BackedGrows
<1>15. DoneIsStored'
  BY <1>2, <1>3 DEF DoneIsStored
<1> QED BY <1>5, <1>9, <1>12, <1>13, <1>14, <1>15

\* HISTORY gets the copy that was read, under this invocation's time.
LEMMA HistoryStep ==
  ASSUME ProcessorAssumption, IInv, NEW w \in Workers, PutHistory(w)
  PROVE  IInv'
<1> USE DEF IInv
<1> DEFINE m == inv[w].msg
           next == IF m = Refresh THEN "snapshot" ELSE "data"
<1>1. /\ inv[w] \in Invocations /\ m \in Messages \cup {Refresh}
      /\ inv[w].seen \in Items /\ inv[w].pc = "history"
  BY TypeOfRun DEF PutHistory, At
<1>2. /\ history' = [history EXCEPT ![inv[w].now] = inv[w].seen]
      /\ UNCHANGED <<clock, transport, faults, latest, replica, s3, applied, done>>
      /\ inv' = [inv EXCEPT ![w].seen = EmptyItem, ![w].snapshot = TRUE,
                            ![w].pc = next]
  BY DEF PutHistory, Snapshot
<1>3. history' \in [1..MaxClock -> Optional(Items)]
  BY <1>1, <1>2 DEF TypeOK, Optional
<1>4. \A t \in 1..MaxClock : history'[t] # None => Backed(history[t], applied)'
  BY <1>1, <1>2 DEF TypeOK
<1>5. inv'[w] = [pc |-> next, msg |-> m, now |-> inv[w].now,
                 seen |-> EmptyItem, snapshot |-> TRUE]
  <2>1. inv'[w] = [inv[w] EXCEPT !.seen = EmptyItem, !.snapshot = TRUE,
                                 !.pc = next]
    BY <1>2 DEF TypeOK
  <2> QED BY <1>1, <2>1 DEF Invocations
<1>6. \A v \in Workers \ {w} : inv'[v] = inv[v]
  BY <1>2 DEF TypeOK
<1>7. inv' \in [Workers -> Invocations]
  <2>1. inv'[w] \in Invocations
    BY <1>1, <1>5, EmptyItemFacts DEF Invocations, Steps
  <2> QED BY <1>2, <1>6, <2>1 DEF TypeOK
<1>8. TypeOK'
  BY <1>2, <1>3, <1>7 DEF TypeOK, transport
<1>9. Progress(w)'
  <2>1. CASE m = Refresh
    <3>1. /\ inv'[w].pc = "snapshot" /\ inv'[w].msg = Refresh
          /\ Refresh.kind # "factory_state"
      BY <1>5, <2>1 DEF Refresh
    <3> QED BY <3>1 DEF Progress
  <2>2. CASE m # Refresh
    <3>0. m \in applied
      BY <1>1, <2>2 DEF Progress
    <3>1. inv'[w].pc = "data" /\ inv'[w].msg = m /\ m \in applied'
      BY <1>2, <1>5, <2>2, <3>0
    <3> QED BY <2>2, <3>1 DEF Progress
  <2> QED BY <2>1, <2>2
<1>10. Backed(inv[w].seen, applied)'
  BY <1>2, <1>5, EmptyItemFacts, BackedGrows
<1>11. \A v \in Workers : Backed(inv[v].seen, applied)' /\ Progress(v)'
  <2>1. ASSUME NEW v \in Workers \ {w}
        PROVE  Backed(inv[v].seen, applied)' /\ Progress(v)'
    BY <1>2, <1>6, ProgressStays
  <2> QED BY <1>9, <1>10, <2>1
<1>12. DoneIsStored'
  BY <1>2 DEF DoneIsStored
<1> QED BY <1>2, <1>4, <1>8, <1>11, <1>12

\* The objects of a message and of its risk.
LEMMA PutStep ==
  ASSUME ProcessorAssumption, IInv, NEW w \in Workers, PutData(w) \/ PutRisk(w)
  PROVE  IInv'
<1> USE DEF IInv
<1> DEFINE m == inv[w].msg
           next == IF inv[w].pc = "data" /\ m.kind = "factory_state"
                   THEN "risk" ELSE "snapshot"
<1>1. /\ inv[w] \in Invocations /\ inv[w].pc \in {"data", "risk"}
      /\ m \in Messages /\ m \in applied
  BY TypeOfRun DEF PutData, PutRisk, At, Progress
<1>2. /\ UNCHANGED <<clock, transport, faults, latest, replica, history, applied,
                     done>>
      /\ s3 \subseteq s3'
      /\ inv' = [inv EXCEPT ![w].pc = next]
  BY DEF PutData, PutRisk, Goto, At
<1>3. inv'[w] = [pc |-> next, msg |-> m, now |-> inv[w].now,
                 seen |-> inv[w].seen, snapshot |-> inv[w].snapshot]
  <2>1. inv'[w] = [inv[w] EXCEPT !.pc = next]
    BY <1>2 DEF TypeOK
  <2> QED BY <1>1, <2>1 DEF Invocations
<1>4. \A v \in Workers \ {w} : inv'[v] = inv[v]
  BY <1>2 DEF TypeOK
<1>5. inv' \in [Workers -> Invocations]
  <2>1. inv'[w] \in Invocations
    BY <1>1, <1>3 DEF Invocations, Steps
  <2> QED BY <1>2, <1>4, <2>1 DEF TypeOK
<1>6. TypeOK'
  BY <1>2, <1>5 DEF TypeOK, transport
<1>7. Progress(w)'
  <2>1. CASE PutData(w)
    <3>1. <<m.kind, m.id>> \in s3' /\ inv[w].pc = "data"
      BY <2>1 DEF PutData, At
    <3> QED BY <1>1, <1>2, <1>3, <3>1, MessageKinds DEF Progress
  <2>2. CASE PutRisk(w)
    <3>1. /\ <<"risk_score", m.id>> \in s3' /\ inv[w].pc = "risk"
          /\ <<m.kind, m.id>> \in s3'
      BY <1>1, <1>2, <2>2 DEF PutRisk, At, Progress
    <3> QED BY <1>1, <1>2, <1>3, <3>1 DEF Progress
  <2> QED BY <2>1, <2>2
<1>8. Backed(inv[w].seen, applied)'
  BY <1>2, <1>3
<1>9. DoneIsStored'
  BY <1>2 DEF DoneIsStored
<1> QED BY <1>2, <1>4, <1>6, <1>7, <1>8, <1>9, LocalStep

\* The handler returns: what DoneIsStored asks for is what it has done.
LEMMA ReturnStep ==
  ASSUME ProcessorAssumption, IInv, NEW w \in Workers, PutSnapshot(w)
  PROVE  IInv'
<1> USE DEF IInv
<1> DEFINE m == inv[w].msg
<1>1. m \in Messages \cup {Refresh} /\ inv[w].pc = "snapshot"
  BY TypeOfRun DEF PutSnapshot, At
<1>2. /\ UNCHANGED <<clock, transport, faults, latest, replica, history, applied>>
      /\ s3 \subseteq s3'
      /\ done' = IF m = Refresh THEN done ELSE done \cup {m}
      /\ inv' = [inv EXCEPT ![w] = Idle]
  BY DEF PutSnapshot, Return
<1>3. /\ inv'[w] = Idle /\ \A v \in Workers \ {w} : inv'[v] = inv[v]
      /\ inv' \in [Workers -> Invocations]
  BY <1>2, EmptyItemFacts DEF TypeOK, Invocations, Steps, Idle
<1>4. TypeOK'
  BY <1>1, <1>2, <1>3 DEF TypeOK, transport
<1>5. Progress(w)'
  BY <1>3 DEF Progress, Idle
<1>6. Backed(inv[w].seen, applied)'
  BY <1>2, <1>3, EmptyItemFacts, BackedGrows DEF Idle
<1>7. DoneIsStored'
  <2>1. m # Refresh => /\ m \in applied
                       /\ <<m.kind, m.id>> \in s3
                       /\ m.kind = "factory_state" => <<"risk_score", m.id>> \in s3
    BY <1>1 DEF Progress
  <2> QED BY <1>2, <2>1 DEF DoneIsStored
<1> QED BY <1>2, <1>3, <1>4, <1>5, <1>6, <1>7, LocalStep

LEMMA StepIInv == ProcessorAssumption /\ IInv /\ [Next]_vars => IInv'
BY EnvironmentStep, StartStep, FailStep, ReadStep, UpdateStep, HistoryStep,
   PutStep, ReturnStep
   DEF Next, Step

LEMMA ProcessorInvariant == Spec => []IInv
<1>1. Init => IInv
  BY ProcessorAssumption, InitIInv
<1>2. IInv /\ [Next]_vars => IInv'
  BY ProcessorAssumption, StepIInv
<1> QED BY <1>1, <1>2, PTL DEF Spec

-----------------------------------------------------------------------------
(* The theorems. *)

\* The types of the processor's variables.
THEOREM ProcessorTypes == Spec => []TypeOK
<1>1. IInv => TypeOK
  BY DEF IInv
<1> QED BY <1>1, ProcessorInvariant, PTL

\* LATEST and HISTORY call the pipeline normal only when an infra_state that
\* was applied was fresh, whatever was reordered, repeated or read late.
THEOREM NeverFalseNormal == Spec => []NoFalseNormal
<1>1. IInv => NoFalseNormal
  BY DEF IInv, NoFalseNormal, Backed
<1> QED BY <1>1, ProcessorInvariant, PTL

\* A handler that returned has applied its message and stored its objects,
\* after any number of failed attempts.
THEOREM DoneAlwaysStored == Spec => []DoneIsStored
<1>1. IInv => DoneIsStored
  BY DEF IInv
<1> QED BY <1>1, ProcessorInvariant, PTL
=============================================================================
