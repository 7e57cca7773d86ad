------------------------ MODULE CloudInfraStatusProofs ------------------------
(***************************************************************************)
(* Proofs about CloudInfraStatus, for any periods, stale limits, number of *)
(* invocations and failures: the item and its copies are consistent in     *)
(* themselves, and what they show was found by a collector, although the   *)
(* two tracks overwrite each other.                                        *)
(***************************************************************************)
EXTENDS CloudInfraStatus, TLAPS

\* An item says of both tracks together what it says of each of them.
Consistent(i) == i.overall = Worst(i.fast.status, i.slow.status)

\* A section stands for a run that found it: an old one that another track's
\* put restores is still one that was found.
Sourced(i) ==
  \A k \in Tracks :
    i[k].status # "none" => <<k, i[k].at, i[k].status>> \in reports

\* What an invocation carries from call to call.
Carried(w) ==
  /\ inv[w].pc = "read" => <<inv[w].track, inv[w].now, inv[w].found>> \in reports
  /\ inv[w].pc \in {"latest", "history", "s3"} =>
       /\ Consistent(inv[w].item) /\ Sourced(inv[w].item)
       /\ inv[w].item[inv[w].track].at = inv[w].now
  /\ inv[w].pc = "s3" => Snapshot(w) \in history

Stored(h) == Consistent(h[3]) /\ h[3][h[1]].at = h[2]

\* The inductive invariant: the items a run may read or still has to put are
\* as good as the ones the properties speak of.
IInv ==
  /\ TypeOK
  /\ Consistent(item) /\ Sourced(item)
  /\ Consistent(replica) /\ Sourced(replica)
  /\ \A h \in history : Stored(h)
  /\ s3 \subseteq history
  /\ \A w \in Workers : Carried(w)

-----------------------------------------------------------------------------
(* The sections, items and views. *)

LEMMA SectionTypes ==
  ASSUME NEW s \in Sections
  PROVE  /\ s = None <=> s.status = "none"
         /\ s.status # "none" => s \in [status : Statuses, at : Nat]
         /\ s.status \in Statuses \cup {"none"}
BY DEF Sections, None, Statuses

\* worst_status() is "normal" only when both sections are.
LEMMA WorstNormal ==
  ASSUME NEW s \in Statuses \cup {"none"}, NEW t \in Statuses \cup {"none"},
         Worst(s, t) = "normal"
  PROVE  s \in {"none", "normal"} /\ t \in {"none", "normal"}
BY DEF Worst, Rank, Statuses

LEMMA WorstType ==
  ASSUME NEW s \in Statuses \cup {"none"}, NEW t \in Statuses \cup {"none"}
  PROVE  Worst(s, t) \in Statuses \cup {"none"}
BY DEF Worst

\* What a run builds from any item that was stored is as good as that item.
LEMMA MergedFacts ==
  ASSUME NEW i \in Items, NEW k \in Tracks, NEW found \in Statuses,
         NEW now \in Nat
  PROVE  LET m == Merged(i, k, found, now)
         IN /\ m \in Items
            /\ Consistent(m)
            /\ m[k].at = now
            /\ Sourced(i) /\ <<k, now, found>> \in reports => Sourced(m)
<1> DEFINE section == [status |-> found, at |-> now]
           m == Merged(i, k, found, now)
<1>1. section \in Sections
  BY DEF Sections
<1>2. i.fast \in Sections /\ i.slow \in Sections
  BY DEF Items
<1>3. CASE k = "fast"
  <2>1. m = [fast |-> section, slow |-> i.slow,
             overall |-> Worst(section.status, i.slow.status)]
    BY <1>3 DEF Merged
  <2>2. Worst(section.status, i.slow.status) \in Statuses \cup {"none"}
    BY <1>1, <1>2, SectionTypes, WorstType
  <2>3. m \in Items
    BY <1>1, <1>2, <2>1, <2>2 DEF Items
  <2>4. Consistent(m) /\ m[k].at = now
    BY <1>3, <2>1 DEF Consistent
  <2>5. ASSUME Sourced(i), <<k, now, found>> \in reports
        PROVE  Sourced(m)
    BY <1>3, <2>1, <2>5 DEF Sourced, Tracks
  <2> QED BY <2>3, <2>4, <2>5
<1>4. CASE k = "slow"
  <2>1. m = [fast |-> i.fast, slow |-> section,
             overall |-> Worst(i.fast.status, section.status)]
    BY <1>4 DEF Merged
  <2>2. Worst(i.fast.status, section.status) \in Statuses \cup {"none"}
    BY <1>1, <1>2, SectionTypes, WorstType
  <2>3. m \in Items
    BY <1>1, <1>2, <2>1, <2>2 DEF Items
  <2>4. Consistent(m) /\ m[k].at = now
    BY <1>4, <2>1 DEF Consistent
  <2>5. ASSUME Sourced(i), <<k, now, found>> \in reports
        PROVE  Sourced(m)
    BY <1>4, <2>1, <2>5 DEF Sourced, Tracks
  <2> QED BY <2>3, <2>4, <2>5
<1> QED BY <1>3, <1>4 DEF Tracks

\* What the backend answers is "normal" only from two fresh normal sections.
LEMMA ViewNormal ==
  ASSUME CollectorAssumption, NEW i \in Items, NEW now \in Nat,
         Consistent(i), i # EmptyItem, View(i, now).overall = "normal"
  PROVE  \A k \in Tracks :
           /\ i[k].status = "normal"
           /\ i[k] \in [status : Statuses, at : Nat]
           /\ now <= i[k].at + (IF k = "fast" THEN FastStale ELSE SlowStale)
           /\ View(i, now)[k] = i[k]
<1>1. i.fast \in Sections /\ i.slow \in Sections
  BY DEF Items
<1>2. /\ i.overall = "normal"
      /\ ~Stale(i.fast, FastStale, now) /\ ~Stale(i.slow, SlowStale, now)
  BY DEF View
<1>3. i.fast.status = "normal" /\ i.slow.status = "normal"
  <2>1. i.fast.status # "none" /\ i.slow.status # "none"
    BY <1>1, <1>2, SectionTypes DEF Stale
  <2>2. /\ i.fast.status \in Statuses \cup {"none"}
        /\ i.slow.status \in Statuses \cup {"none"}
        /\ Worst(i.fast.status, i.slow.status) = "normal"
    BY <1>1, <1>2, SectionTypes DEF Consistent
  <2> QED BY <2>1, <2>2, WorstNormal
<1>4. /\ i.fast \in [status : Statuses, at : Nat]
      /\ i.slow \in [status : Statuses, at : Nat]
  BY <1>1, <1>3, SectionTypes
<1>5. now <= i.fast.at + FastStale /\ now <= i.slow.at + SlowStale
  BY <1>2, <1>4 DEF Stale, CollectorAssumption
<1>6. View(i, now).fast = i.fast /\ View(i, now).slow = i.slow
  BY <1>2 DEF View, MarkStale
<1> QED BY <1>3, <1>4, <1>5, <1>6 DEF Tracks

-----------------------------------------------------------------------------
(* The inductive invariant. *)

LEMMA EmptyItemFacts ==
  EmptyItem \in Items /\ Consistent(EmptyItem) /\ Sourced(EmptyItem)
<1>1. Worst("none", "none") = "none"
  BY DEF Worst
<1> QED BY <1>1 DEF EmptyItem, Items, Sections, None, Consistent, Sourced, Tracks

LEMMA InitIInv == CollectorAssumption /\ Init => IInv
<1> SUFFICES ASSUME CollectorAssumption, Init PROVE IInv
  OBVIOUS
<1>1. TypeOK
  BY EmptyItemFacts DEF Init, TypeOK, CollectorAssumption, Tracks, Idle
<1>2. \A w \in Workers : Carried(w)
  BY DEF Init, Carried, Idle
<1> QED BY <1>1, <1>2, EmptyItemFacts DEF Init, IInv

\* A section that was found stays found.
LEMMA ReportsGrow ==
  ASSUME reports \subseteq reports', NEW i, Sourced(i)
  PROVE  Sourced(i)'
BY DEF Sourced

LEMMA RunningType ==
  ASSUME TypeOK, NEW w \in Workers, Running(w)
  PROVE  /\ inv[w] \in Invocations
         /\ inv[w].track \in Tracks /\ inv[w].now \in Nat
         /\ inv[w].item \in Items
BY DEF TypeOK, Running, Idle, Invocations

\* A run that is about to read has found a status.
LEMMA FoundType ==
  ASSUME TypeOK, NEW w \in Workers, Carried(w), inv[w].pc = "read"
  PROVE  inv[w].found \in Statuses
BY DEF Carried, TypeOK

LEMMA TypeStep == CollectorAssumption /\ IInv /\ [Next]_vars => TypeOK'
<1> SUFFICES ASSUME CollectorAssumption, IInv, [Next]_vars PROVE TypeOK'
  OBVIOUS
<1>0. TypeOK /\ \A w \in Workers : Carried(w)
  BY DEF IInv
<1> USE <1>0 DEF TypeOK
<1>1. CASE Tick
  BY <1>1 DEF Tick, CollectorAssumption
<1>2. CASE Replicate
  BY <1>2 DEF Replicate
<1>3. ASSUME NEW w \in Workers, NEW k \in Tracks, Start(w, k)
      PROVE  TypeOK'
  <2>1. [pc |-> "collect", track |-> k, now |-> clock, found |-> "none",
         item |-> EmptyItem] \in Invocations
    BY EmptyItemFacts, CollectorAssumption DEF Invocations
  <2>2. retry' \in [Tracks -> Nat]
    <3>1. CASE retry' = retry
      BY <3>1
    <3>2. CASE retry[k] > 0 /\ retry' = [retry EXCEPT ![k] = @ - 1]
      <4>1. retry[k] - 1 \in Nat
        BY <3>2
      <4> QED BY <3>2, <4>1
    <3> QED BY <1>3, <3>1, <3>2 DEF Start
  <2>3. due' \in [Tracks -> BOOLEAN]
    BY <1>3 DEF Start
  <2> QED BY <1>3, <2>1, <2>2, <2>3 DEF Start
<1>4. ASSUME NEW w \in Workers, Collect(w) PROVE TypeOK'
  <2>0. Running(w)
    BY <1>4 DEF Collect, At, Running
  <2>1. PICK found \in Reported :
          /\ inv' = [inv EXCEPT ![w].found = found, ![w].pc = "read"]
          /\ reports' = reports \cup {<<inv[w].track, inv[w].now, found>>}
    BY <1>4 DEF Collect
  <2>2. found \in Statuses
    BY DEF CollectorAssumption
  <2>3. [inv[w] EXCEPT !.found = found, !.pc = "read"] \in Invocations
    BY <2>0, <2>2, RunningType DEF Invocations
  <2>4. inv' = [inv EXCEPT ![w] = [inv[w] EXCEPT !.found = found, !.pc = "read"]]
    BY <2>1
  <2>5. inv' \in [Workers -> Invocations \cup {Idle}]
    BY <2>3, <2>4
  <2>6. reports' \subseteq (Tracks \X Nat \X Statuses)
    BY <2>0, <2>1, <2>2, RunningType
  <2> QED BY <1>4, <2>5, <2>6 DEF Collect
<1>5. ASSUME NEW w \in Workers, ReadLatest(w) PROVE TypeOK'
  <2>0. Running(w) /\ inv[w].pc = "read"
    BY <1>5 DEF ReadLatest, At, Running
  <2>1. PICK current \in {item, replica} :
          inv' = [inv EXCEPT
                    ![w].item = Merged(current, inv[w].track, inv[w].found,
                                       inv[w].now),
                    ![w].pc = "latest"]
    BY <1>5 DEF ReadLatest
  <2>2. current \in Items
    OBVIOUS
  <2>3. Merged(current, inv[w].track, inv[w].found, inv[w].now) \in Items
    BY <2>0, <2>2, RunningType, FoundType, MergedFacts
  <2>4. inv' = [inv EXCEPT ![w] = [inv[w] EXCEPT
                  !.item = Merged(current, inv[w].track, inv[w].found, inv[w].now),
                  !.pc = "latest"]]
    BY <2>1
  <2>5. inv' \in [Workers -> Invocations \cup {Idle}]
    BY <2>0, <2>3, <2>4, RunningType DEF Invocations
  <2> QED BY <1>5, <2>5 DEF ReadLatest
<1>6. ASSUME NEW w \in Workers, PutLatest(w) PROVE TypeOK'
  <2>0. Running(w)
    BY <1>6 DEF PutLatest, At, Running
  <2>1. inv' = [inv EXCEPT ![w] = [inv[w] EXCEPT !.pc = "history"]]
    BY <1>6 DEF PutLatest
  <2>2. inv' \in [Workers -> Invocations \cup {Idle}]
    BY <2>0, <2>1, RunningType DEF Invocations
  <2> QED BY <1>6, <2>0, <2>2, RunningType DEF PutLatest
<1>7. ASSUME NEW w \in Workers, PutHistory(w) PROVE TypeOK'
  <2>0. Running(w)
    BY <1>7 DEF PutHistory, At, Running
  <2>1. inv' = [inv EXCEPT ![w] = [inv[w] EXCEPT !.pc = "s3"]]
    BY <1>7 DEF PutHistory
  <2>2. inv' \in [Workers -> Invocations \cup {Idle}]
    BY <2>0, <2>1, RunningType DEF Invocations
  <2>3. history' \subseteq (Tracks \X Nat \X Items)
    BY <1>7, <2>0, RunningType DEF PutHistory, Snapshot
  <2> QED BY <1>7, <2>2, <2>3 DEF PutHistory
<1>8. ASSUME NEW w \in Workers, PutS3(w) PROVE TypeOK'
  <2>0. Running(w)
    BY <1>8 DEF PutS3, At, Running
  <2>1. s3' \subseteq (Tracks \X Nat \X Items)
    BY <1>8, <2>0, RunningType DEF PutS3, Snapshot
  <2> QED BY <1>8, <2>1 DEF PutS3
<1>9. ASSUME NEW w \in Workers, Fail(w) PROVE TypeOK'
  <2>0. Running(w)
    BY <1>9 DEF Fail
  <2>1. faults' \in 0..MaxFaults
    BY <1>9 DEF Fail, CollectorAssumption
  <2>2. retry' \in [Tracks -> Nat]
    <3>1. retry[inv[w].track] + 1 \in Nat
      BY <2>0, RunningType
    <3> QED BY <1>9, <3>1 DEF Fail
  <2> QED BY <1>9, <2>1, <2>2 DEF Fail
<1>10. CASE UNCHANGED vars
  BY <1>10 DEF vars
<1> QED BY <1>1, <1>2, <1>3, <1>4, <1>5, <1>6, <1>7, <1>8, <1>9, <1>10
        DEF Next, Step

-----------------------------------------------------------------------------
\* Invocations that stand still keep what they carry while the stores grow.
LEMMA CarriedStays ==
  ASSUME NEW w \in Workers, Carried(w), inv'[w] = inv[w],
         reports \subseteq reports', history \subseteq history'
  PROVE  Carried(w)'
BY DEF Carried, Sourced, Consistent, Snapshot

LEMMA StepIInv == CollectorAssumption /\ IInv /\ [Next]_vars => IInv'
<1> SUFFICES ASSUME CollectorAssumption, IInv, [Next]_vars PROVE IInv'
  OBVIOUS
<1>0. TypeOK'
  BY TypeStep
<1> USE DEF IInv
<1>1. CASE Tick \/ Replicate \/ UNCHANGED vars
  <2>1. UNCHANGED <<item, history, s3, inv, reports>> /\ replica' \in {item, replica}
    BY <1>1 DEF Tick, Replicate, vars
  <2>2. Consistent(item)' /\ Sourced(item)' /\ Consistent(replica)' /\ Sourced(replica)'
    BY <2>1 DEF Consistent, Sourced
  <2>3. \A h \in history' : Stored(h)'
    BY <2>1 DEF Stored, Consistent
  <2>4. \A w \in Workers : Carried(w)'
    BY <2>1, CarriedStays
  <2> QED BY <1>0, <2>1, <2>2, <2>3, <2>4
<1>2. ASSUME NEW w \in Workers, NEW k \in Tracks, Start(w, k) \/ Fail(w)
      PROVE  IInv'
  <2>1. /\ UNCHANGED <<item, replica, history, s3, reports>>
        /\ inv'[w].pc \in {"idle", "collect"}
        /\ \A v \in Workers \ {w} : inv'[v] = inv[v]
    BY <1>2 DEF Start, Fail, Idle, TypeOK
  <2>2. Consistent(item)' /\ Sourced(item)' /\ Consistent(replica)' /\ Sourced(replica)'
    BY <2>1 DEF Consistent, Sourced
  <2>3. \A h \in history' : Stored(h)'
    BY <2>1 DEF Stored, Consistent
  <2>4. \A v \in Workers : Carried(v)'
    <3>1. Carried(w)'
      BY <2>1 DEF Carried
    <3> QED BY <2>1, <3>1, CarriedStays
  <2> QED BY <1>0, <2>1, <2>2, <2>3, <2>4
<1>3. ASSUME NEW w \in Workers, Collect(w) PROVE IInv'
  <2>0. Running(w)
    BY <1>3 DEF Collect, At, Running
  <2>1. PICK found \in Reported :
          /\ inv' = [inv EXCEPT ![w].found = found, ![w].pc = "read"]
          /\ reports' = reports \cup {<<inv[w].track, inv[w].now, found>>}
    BY <1>3 DEF Collect
  <2>2. UNCHANGED <<item, replica, history, s3>>
    BY <1>3 DEF Collect
  <2>3. Consistent(item)' /\ Sourced(item)' /\ Consistent(replica)' /\ Sourced(replica)'
    BY <2>1, <2>2 DEF Consistent, Sourced
  <2>4. \A h \in history' : Stored(h)'
    BY <2>2 DEF Stored, Consistent
  <2>5. Carried(w)'
    <3>1. inv'[w] = [inv[w] EXCEPT !.found = found, !.pc = "read"]
      BY <2>1 DEF TypeOK
    <3>2. /\ inv'[w].pc = "read" /\ inv'[w].found = found
          /\ inv'[w].track = inv[w].track /\ inv'[w].now = inv[w].now
      BY <2>0, <3>1, RunningType DEF Invocations
    <3> QED BY <2>1, <3>2 DEF Carried
  <2>6. \A v \in Workers \ {w} : inv'[v] = inv[v]
    BY <2>1 DEF TypeOK
  <2>7. \A v \in Workers : Carried(v)'
    BY <2>1, <2>2, <2>5, <2>6, CarriedStays
  <2> QED BY <1>0, <2>2, <2>3, <2>4, <2>7
<1>4. ASSUME NEW w \in Workers, ReadLatest(w) PROVE IInv'
  <2>0. Running(w) /\ inv[w].pc = "read"
    BY <1>4 DEF ReadLatest, At, Running
  <2>1. PICK current \in {item, replica} :
          inv' = [inv EXCEPT
                    ![w].item = Merged(current, inv[w].track, inv[w].found,
                                       inv[w].now),
                    ![w].pc = "latest"]
    BY <1>4 DEF ReadLatest
  <2>2. UNCHANGED <<item, replica, history, s3, reports>>
    BY <1>4 DEF ReadLatest
  <2>3. Consistent(item)' /\ Sourced(item)' /\ Consistent(replica)' /\ Sourced(replica)'
    BY <2>2 DEF Consistent, Sourced
  <2>4. \A h \in history' : Stored(h)'
    BY <2>2 DEF Stored, Consistent
  <2> DEFINE m == Merged(current, inv[w].track, inv[w].found, inv[w].now)
  <2>5. Carried(w)'
    <3>1. /\ inv'[w].pc = "latest" /\ inv'[w].item = m
          /\ inv'[w].track = inv[w].track /\ inv'[w].now = inv[w].now
      BY <2>0, <2>1, RunningType DEF Invocations, TypeOK
    <3>2. current \in Items /\ Sourced(current)
      BY DEF TypeOK
    <3>3. <<inv[w].track, inv[w].now, inv[w].found>> \in reports
      BY <2>0 DEF Carried
    <3>4. Consistent(m) /\ Sourced(m) /\ m[inv[w].track].at = inv[w].now
      BY <2>0, <3>2, <3>3, RunningType, FoundType, MergedFacts
    <3> QED BY <2>2, <3>1, <3>4 DEF Carried, Consistent, Sourced
  <2>6. \A v \in Workers \ {w} : inv'[v] = inv[v]
    BY <2>1 DEF TypeOK
  <2>7. \A v \in Workers : Carried(v)'
    BY <2>2, <2>5, <2>6, CarriedStays
  <2> QED BY <1>0, <2>2, <2>3, <2>4, <2>7
<1>5. ASSUME NEW w \in Workers, PutLatest(w) PROVE IInv'
  <2>0. Running(w) /\ inv[w].pc = "latest"
    BY <1>5 DEF PutLatest, At, Running
  <2>1. UNCHANGED <<replica, history, s3, reports>> /\ item' = inv[w].item
    BY <1>5 DEF PutLatest
  <2>2. Consistent(inv[w].item) /\ Sourced(inv[w].item)
    BY <2>0 DEF Carried
  <2>3. Consistent(item)' /\ Sourced(item)' /\ Consistent(replica)' /\ Sourced(replica)'
    BY <2>1, <2>2 DEF Consistent, Sourced
  <2>4. \A h \in history' : Stored(h)'
    BY <2>1 DEF Stored, Consistent
  <2>5. Carried(w)'
    <3>1. /\ inv'[w].pc = "history" /\ inv'[w].item = inv[w].item
          /\ inv'[w].track = inv[w].track /\ inv'[w].now = inv[w].now
      BY <1>5, <2>0, RunningType DEF PutLatest, Invocations, TypeOK
    <3> QED BY <2>0, <2>1, <3>1 DEF Carried, Consistent, Sourced
  <2>6. \A v \in Workers \ {w} : inv'[v] = inv[v]
    BY <1>5 DEF PutLatest, TypeOK
  <2>7. \A v \in Workers : Carried(v)'
    BY <2>1, <2>5, <2>6, CarriedStays
  <2> QED BY <1>0, <2>1, <2>3, <2>4, <2>7
<1>6. ASSUME NEW w \in Workers, PutHistory(w) PROVE IInv'
  <2>0. Running(w) /\ inv[w].pc = "history"
    BY <1>6 DEF PutHistory, At, Running
  <2>1. /\ UNCHANGED <<item, replica, s3, reports>>
        /\ history' = history \cup {Snapshot(w)}
    BY <1>6 DEF PutHistory
  <2>2. Consistent(item)' /\ Sourced(item)' /\ Consistent(replica)' /\ Sourced(replica)'
    BY <2>1 DEF Consistent, Sourced
  <2>3. Stored(Snapshot(w))
    BY <2>0 DEF Carried, Stored, Snapshot
  <2>4. \A h \in history' : Stored(h)'
    BY <2>1, <2>3 DEF Stored, Consistent
  <2>5. Carried(w)'
    <3>1. /\ inv'[w].pc = "s3" /\ inv'[w].item = inv[w].item
          /\ inv'[w].track = inv[w].track /\ inv'[w].now = inv[w].now
      BY <1>6, <2>0, RunningType DEF PutHistory, Invocations, TypeOK
    <3> QED BY <2>0, <2>1, <3>1 DEF Carried, Consistent, Sourced, Snapshot
  <2>6. \A v \in Workers \ {w} : inv'[v] = inv[v]
    BY <1>6 DEF PutHistory, TypeOK
  <2>7. \A v \in Workers : Carried(v)'
    BY <2>1, <2>5, <2>6, CarriedStays
  <2> QED BY <1>0, <2>1, <2>2, <2>4, <2>7
<1>7. ASSUME NEW w \in Workers, PutS3(w) PROVE IInv'
  <2>0. Running(w) /\ inv[w].pc = "s3"
    BY <1>7 DEF PutS3, At, Running
  <2>1. /\ UNCHANGED <<item, replica, history, reports>>
        /\ s3' = s3 \cup {Snapshot(w)}
    BY <1>7 DEF PutS3
  <2>2. Consistent(item)' /\ Sourced(item)' /\ Consistent(replica)' /\ Sourced(replica)'
    BY <2>1 DEF Consistent, Sourced
  <2>3. \A h \in history' : Stored(h)'
    BY <2>1 DEF Stored, Consistent
  <2>4. s3' \subseteq history'
    BY <2>0, <2>1 DEF Carried
  <2>5. inv'[w] = Idle /\ \A v \in Workers \ {w} : inv'[v] = inv[v]
    BY <1>7 DEF PutS3, TypeOK
  <2>6. Carried(w)'
    BY <2>5 DEF Carried, Idle
  <2>7. \A v \in Workers : Carried(v)'
    BY <2>1, <2>5, <2>6, CarriedStays
  <2> QED BY <1>0, <2>2, <2>3, <2>4, <2>7
<1> QED BY <1>1, <1>2, <1>3, <1>4, <1>5, <1>6, <1>7 DEF Next, Step, Tracks

\* The inductive invariant holds of every behaviour.
LEMMA CollectorInvariant == Spec => []IInv
<1>1. Init => IInv
  BY CollectorAssumption, InitIInv
<1>2. IInv /\ [Next]_vars => IInv'
  BY CollectorAssumption, StepIInv
<1> QED BY <1>1, <1>2, PTL DEF Spec

-----------------------------------------------------------------------------
(* The theorems. *)

\* The types of the status module's variables.
THEOREM CollectorTypes == Spec => []TypeOK
<1>1. IInv => TypeOK
  BY DEF IInv
<1> QED BY <1>1, CollectorInvariant, PTL

\* Neither overlapping runs nor stale reads make overall_status disagree with
\* the sections stored beside it.
THEOREM OverallAlwaysMatches == Spec => []OverallMatchesSections
<1>1. IInv => OverallMatchesSections
  BY DEF IInv, OverallMatchesSections, Consistent, Stored
<1> QED BY <1>1, CollectorInvariant, PTL

\* The backend shows "normal" only for what both collectors found within
\* their stale limits.
THEOREM NormalAlwaysEarned == Spec => []NormalIsEarned
<1>1. ASSUME IInv PROVE NormalIsEarned
  <2> SUFFICES ASSUME NEW seen \in {item, replica} \ {EmptyItem},
                      View(seen, clock).overall = "normal",
                      NEW k \in Tracks
               PROVE  \E r \in reports :
                        /\ r[1] = k /\ r[3] = "normal"
                        /\ clock <= r[2] + (IF k = "fast" THEN FastStale
                                                          ELSE SlowStale)
                        /\ View(seen, clock)[k] = [status |-> r[3], at |-> r[2]]
    BY DEF NormalIsEarned
  <2>1. seen \in Items /\ Consistent(seen) /\ Sourced(seen) /\ clock \in Nat
    BY <1>1, CollectorAssumption DEF IInv, TypeOK, CollectorAssumption
  <2>2. /\ seen[k].status = "normal"
        /\ seen[k] \in [status : Statuses, at : Nat]
        /\ clock <= seen[k].at + (IF k = "fast" THEN FastStale ELSE SlowStale)
        /\ View(seen, clock)[k] = seen[k]
    BY <2>1, CollectorAssumption, ViewNormal
  <2>3. <<k, seen[k].at, seen[k].status>> \in reports
    BY <2>1, <2>2 DEF Sourced
  <2>4. seen[k] = [status |-> seen[k].status, at |-> seen[k].at]
    BY <2>2
  <2> WITNESS <<k, seen[k].at, seen[k].status>> \in reports
  <2> QED BY <2>2, <2>4
<1> QED BY <1>1, CollectorInvariant, PTL

\* A snapshot shows what its own run found, whatever was put meanwhile.
THEOREM SnapshotsAlwaysOwn == Spec => []SnapshotsKeepOwnSection
<1>1. IInv => SnapshotsKeepOwnSection
  BY DEF IInv, SnapshotsKeepOwnSection, Stored
<1> QED BY <1>1, CollectorInvariant, PTL
=============================================================================
