------------------------ MODULE AlertDispatcherProofs ------------------------
(***************************************************************************)
(* Proofs about AlertDispatcher, for every set of workers, fingerprints    *)
(* and snapshots, any number of retries, duplicates and faults, and every  *)
(* cooldown longer than the Lambda timeout.                                *)
(*                                                                         *)
(* The argument: an invocation runs within the timeout of the time it read *)
(* (InTime), so the reservation it holds cannot be taken over before the   *)
(* cooldown ends (HoldersOwnItem, OneHolder).  Hence what it sends was not *)
(* sent before, and what it records it records about its own reservation.  *)
(* On top of it, two invariants about what is remembered: every confirmed  *)
(* alert was raised by two snapshots inside the window (CInv), and no      *)
(* reservation is lost without a fault of its own (LInv).                  *)
(***************************************************************************)
EXTENDS AlertDispatcher, TLAPS, FiniteSetTheorems

\* The invocation in w has a reservation it has not finished with.
Holding(w) == inv[w].pc \in {"send", "record"}

GrantOf(w) == [fp |-> inv[w].fp, stamp |-> inv[w].stamp, at |-> inv[w].now]

InTime ==
  \A w \in Workers :
    Running(w) => /\ inv[w].stamp \in Stamps
                  /\ inv[w].now <= clock
                  /\ clock <= inv[w].now + Timeout

FpKnown ==
  \A w \in Workers : inv[w].pc \in AlertSteps => inv[w].fp \in Fingerprints

ItemsBoundGrants ==
  \A g \in granted :
    /\ g.at <= clock
    /\ g.stamp <= item[g.fp].stamp
    /\ g.at + Cooldown <= item[g.fp].until

HoldersOwnItem ==
  \A w \in Workers :
    Holding(w) =>
      /\ GrantOf(w) \in granted
      /\ item[inv[w].fp].stamp = inv[w].stamp
      /\ item[inv[w].fp].until = inv[w].now + Cooldown

OneHolder ==
  \A v, w \in Workers :
    Holding(v) /\ Holding(w) /\ inv[v].fp = inv[w].fp => v = w

PostsGranted ==
  \A i \in 1..Len(slackLog) :
    \E g \in granted : g.fp = slackLog[i].fp /\ g.stamp = slackLog[i].stamp

NotYetPosted ==
  \A w \in Workers :
    inv[w].pc = "send" => ~PostedFor(inv[w].fp, inv[w].stamp)

SentIsPosted ==
  \A w \in Workers :
    inv[w].pc = "record" /\ inv[w].outcome = "sent"
      => PostedFor(inv[w].fp, inv[w].stamp)

\* What the invariant says beyond the types.
Core ==
  /\ InTime
  /\ FpKnown
  /\ ItemsBoundGrants
  /\ HoldersOwnItem
  /\ OneHolder
  /\ PostsGranted
  /\ NotYetPosted
  /\ SentIsPosted
  /\ StatusHonest

IInv == TypeOK /\ Core

-----------------------------------------------------------------------------
\* What the constants give about stamps.
LEMMA StampsAreNat == \A s \in Stamps \cup {Absent} : s \in Nat
BY DispatcherAssumption DEF Absent

\* A step of an invocation that ends without a reservation, or a step of the
\* environment.
LEMMA QuietStep ==
  ASSUME IInv, NEW w \in Workers,
         UNCHANGED <<clock, item, granted, slackLog>>,
         \A v \in Workers \ {w} : inv'[v] = inv[v],
         inv'[w].pc \notin {"send", "record"},
         inv'[w].pc # "idle" => /\ inv'[w].stamp \in Stamps
                                /\ inv'[w].now <= clock
                                /\ clock <= inv'[w].now + Timeout,
         inv'[w].pc \in AlertSteps => inv'[w].fp \in Fingerprints
  PROVE  Core'
<1>1. InTime'
  BY DEF IInv, Core, InTime, Running
<1>2. FpKnown'
  BY DEF IInv, Core, FpKnown
<1>3. ItemsBoundGrants'
  BY DEF IInv, Core, ItemsBoundGrants
<1>4. HoldersOwnItem'
  BY DEF IInv, Core, HoldersOwnItem, Holding, GrantOf
<1>5. OneHolder'
  BY DEF IInv, Core, OneHolder, Holding
<1>6. PostsGranted'
  BY DEF IInv, Core, PostsGranted
<1>7. NotYetPosted'
  BY DEF IInv, Core, NotYetPosted, PostedFor
<1>8. SentIsPosted'
  BY DEF IInv, Core, SentIsPosted, PostedFor
<1>9. StatusHonest'
  BY DEF IInv, Core, StatusHonest, PostedFor
<1> QED BY <1>1, <1>2, <1>3, <1>4, <1>5, <1>6, <1>7, <1>8, <1>9 DEF Core

\* A step that changes none of the variables Core speaks of.
LEMMA OutsideStep ==
  ASSUME IInv, UNCHANGED <<clock, item, granted, slackLog, inv>>
  PROVE  Core'
BY DEF IInv, Core, InTime, Running, FpKnown, ItemsBoundGrants, HoldersOwnItem,
       Holding, GrantOf, OneHolder, PostsGranted, NotYetPosted, SentIsPosted,
       StatusHonest, PostedFor

\* Time passes only while every running invocation has some left.
LEMMA TickStep == ASSUME IInv, Tick PROVE Core'
<1> USE DispatcherAssumption
<1>1. /\ clock \in Nat /\ clock' = clock + 1
      /\ UNCHANGED <<item, granted, slackLog, inv>>
      /\ \A w \in Workers : Running(w) => clock < inv[w].now + Timeout
  BY DEF IInv, TypeOK, Tick, historyVars, tableVars
<1>2. InTime'
  <2> SUFFICES ASSUME NEW w \in Workers, Running(w)
               PROVE  /\ inv[w].stamp \in Stamps
                      /\ inv[w].now <= clock + 1
                      /\ clock + 1 <= inv[w].now + Timeout
    BY <1>1 DEF InTime, Running
  <2>1. inv[w].now \in Nat
    BY DEF IInv, TypeOK, Invocations
  <2> QED BY <1>1, <2>1 DEF IInv, Core, InTime
<1>3. ItemsBoundGrants'
  <2>1. granted \subseteq [fp : Fingerprints, stamp : Stamps, at : Nat]
    BY DEF IInv, TypeOK
  <2> QED BY <1>1, <2>1 DEF IInv, Core, ItemsBoundGrants
<1> QED BY <1>1, <1>2, <1>3
        DEF IInv, Core, FpKnown, HoldersOwnItem, Holding, GrantOf, OneHolder,
            PostsGranted, NotYetPosted, SentIsPosted, StatusHonest, PostedFor

\* What Goto leaves of an invocation.
LEMMA GotoEffect ==
  ASSUME TypeOK, NEW w \in Workers, NEW pc \in Steps, Goto(w, pc)
  PROVE  /\ \A v \in Workers \ {w} : inv'[v] = inv[v]
         /\ inv'[w].pc = pc
         /\ inv'[w].stamp = inv[w].stamp /\ inv'[w].now = inv[w].now
         /\ inv'[w].fp = inv[w].fp /\ inv'[w].outcome = inv[w].outcome
         /\ inv'[w].todo = inv[w].todo
BY DEF TypeOK, Goto, Invocations

\* A holder's cooldown outlasts it: nobody else can reserve its item.
LEMMA ReservableIsFree ==
  ASSUME IInv, NEW w \in Workers, Running(w), NEW f \in Fingerprints,
         Reservable(w, item[f]), NEW v \in Workers, Holding(v)
  PROVE  inv[v].fp # f
<1> USE DispatcherAssumption
<1> SUFFICES ASSUME inv[v].fp = f PROVE FALSE
  OBVIOUS
<1>1. item[f].until = inv[v].now + Cooldown
  BY DEF IInv, Core, HoldersOwnItem
<1>2. item[f].until <= inv[w].now
  BY DEF Reservable
<1>3. inv[w].now <= clock /\ clock <= inv[v].now + Timeout
  BY DEF IInv, Core, InTime, Running, Holding
<1>4. clock \in Nat /\ inv[w].now \in Nat /\ inv[v].now \in Nat
  BY DEF IInv, TypeOK, Invocations
<1> QED BY <1>1, <1>2, <1>3, <1>4

\* A reservation: its stamp is newer than every message and every grant of
\* its fingerprint, and its worker becomes the only holder.
LEMMA ReserveStep ==
  ASSUME IInv, NEW w \in Workers, At(w, "reserve"),
         Reservable(w, item[inv[w].fp]), Reserve(w)
  PROVE  Core'
<1> USE DispatcherAssumption
<1> DEFINE f == inv[w].fp
           new == [fp |-> f, stamp |-> inv[w].stamp, at |-> inv[w].now]
<1>1. /\ item' = [item EXCEPT ![f] =
                    [stamp |-> inv[w].stamp, until |-> inv[w].now + Cooldown,
                     sentAt |-> inv[w].now, status |-> "pending"]]
      /\ granted' = granted \cup {new}
      /\ Goto(w, "send")
      /\ clock' = clock /\ slackLog' = slackLog
  BY DEF Reserve, CooldownUntil
<1>2. /\ \A v \in Workers \ {w} : inv'[v] = inv[v]
      /\ inv'[w].pc = "send"
      /\ inv'[w].stamp = inv[w].stamp /\ inv'[w].now = inv[w].now
      /\ inv'[w].fp = f
  BY <1>1, GotoEffect DEF IInv, Steps, AlertSteps
<1>3. /\ f \in Fingerprints
      /\ Running(w) /\ inv[w].pc = "reserve"
      /\ item \in [Fingerprints -> Items]
      /\ inv[w].stamp \in Stamps /\ inv[w].now \in Nat
      /\ inv[w].now <= clock /\ clock <= inv[w].now + Timeout
      /\ clock \in Nat
      /\ granted \subseteq [fp : Fingerprints, stamp : Stamps, at : Nat]
  BY DEF IInv, Core, FpKnown, InTime, At, Running, TypeOK, AlertSteps,
         Invocations
<1>4. /\ item'[f].stamp = inv[w].stamp
      /\ item'[f].until = inv[w].now + Cooldown
      /\ item'[f].status = "pending"
      /\ \A g \in Fingerprints \ {f} : item'[g] = item[g]
  BY <1>1, <1>3
<1>5. /\ item[f].stamp < inv[w].stamp /\ item[f].until <= inv[w].now
      /\ item[f].stamp \in Nat /\ item[f].until \in Nat
      /\ inv[w].stamp \in Nat
  <2>1. item[f] \in Items
    BY <1>3
  <2>2. item[f].stamp < inv[w].stamp /\ item[f].until <= inv[w].now
    BY DEF Reservable
  <2>3. item[f].stamp \in Stamps \cup {Absent} /\ item[f].until \in Nat
    BY <2>1 DEF Items
  <2>4. item[f].stamp \in Nat
    BY <2>3, StampsAreNat
  <2>5. inv[w].stamp \in Nat
    BY <1>3, StampsAreNat
  <2> QED BY <2>2, <2>3, <2>4, <2>5
<1>6. \A v \in Workers : Holding(v) => inv[v].fp # f
  BY <1>3, ReservableIsFree
<1>7. InTime' /\ FpKnown'
  BY <1>1, <1>2, <1>3 DEF IInv, Core, InTime, FpKnown, Running
<1>8. ItemsBoundGrants'
  <2> SUFFICES ASSUME NEW g \in granted'
               PROVE  /\ g.at <= clock
                      /\ g.stamp <= item'[g.fp].stamp
                      /\ g.at + Cooldown <= item'[g.fp].until
    BY <1>1 DEF ItemsBoundGrants
  <2>1. CASE g = new
    BY <1>3, <1>4, <1>5, <2>1
  <2>2. CASE g \in granted /\ g.fp = f
    <3>1. g.stamp <= item[f].stamp /\ g.at + Cooldown <= item[f].until
      BY <2>2 DEF IInv, Core, ItemsBoundGrants
    <3>2. g.stamp \in Nat /\ g.at \in Nat
      BY <1>3, <2>2
    <3>3. g.at <= clock
      BY <2>2 DEF IInv, Core, ItemsBoundGrants
    <3> QED BY <1>3, <1>4, <1>5, <2>2, <3>1, <3>2, <3>3
  <2>3. CASE g \in granted /\ g.fp # f
    BY <1>3, <1>4, <2>3 DEF IInv, Core, ItemsBoundGrants
  <2> QED BY <1>1, <2>1, <2>2, <2>3
<1>9. HoldersOwnItem'
  <2> SUFFICES ASSUME NEW v \in Workers, inv'[v].pc \in {"send", "record"}
               PROVE  /\ [fp |-> inv'[v].fp, stamp |-> inv'[v].stamp,
                           at |-> inv'[v].now] \in granted'
                      /\ item'[inv'[v].fp].stamp = inv'[v].stamp
                      /\ item'[inv'[v].fp].until = inv'[v].now + Cooldown
    BY DEF HoldersOwnItem, Holding, GrantOf
  <2>1. CASE v = w
    BY <1>1, <1>2, <1>4, <2>1
  <2>2. CASE v # w
    <3>1. inv'[v] = inv[v] /\ Holding(v) /\ inv[v].fp # f
      BY <1>2, <1>6, <2>2 DEF Holding
    <3>2. inv[v].fp \in Fingerprints
      BY <3>1 DEF IInv, Core, FpKnown, Holding, AlertSteps
    <3> QED BY <1>1, <1>4, <3>1, <3>2
            DEF IInv, Core, HoldersOwnItem, GrantOf
  <2> QED BY <2>1, <2>2
<1>10. OneHolder'
  <2> SUFFICES ASSUME NEW u \in Workers, NEW v \in Workers,
                      inv'[u].pc \in {"send", "record"},
                      inv'[v].pc \in {"send", "record"},
                      inv'[u].fp = inv'[v].fp
               PROVE  u = v
    BY DEF OneHolder, Holding
  <2>1. CASE u # w /\ v # w
    BY <1>2, <2>1 DEF IInv, Core, OneHolder, Holding
  <2>2. CASE u = w \/ v = w
    BY <1>2, <1>6, <2>2 DEF Holding
  <2> QED BY <2>1, <2>2
<1>11. PostsGranted'
  BY <1>1 DEF IInv, Core, PostsGranted
<1>12. NotYetPosted'
  <2>1. ~PostedFor(f, inv[w].stamp)
    <3> SUFFICES ASSUME NEW g \in granted, g.fp = f, g.stamp = inv[w].stamp
                 PROVE  FALSE
      BY DEF PostedFor, IInv, Core, PostsGranted
    <3>1. g.stamp <= item[f].stamp
      BY DEF IInv, Core, ItemsBoundGrants
    <3> QED BY <1>5, <3>1
  <2> QED BY <1>1, <1>2, <2>1 DEF IInv, Core, NotYetPosted, PostedFor
<1>13. SentIsPosted'
  BY <1>1, <1>2 DEF IInv, Core, SentIsPosted, PostedFor
<1>14. StatusHonest'
  BY <1>1, <1>4 DEF IInv, Core, StatusHonest, PostedFor
<1> QED BY <1>7, <1>8, <1>9, <1>10, <1>11, <1>12, <1>13, <1>14 DEF Core

\* Sending: the message is new, and it is the sender's own.
LEMMA SendStep ==
  ASSUME IInv, NEW w \in Workers, NEW delivered \in BOOLEAN,
         NEW outcome \in {"sent", "failed"}, Send(w, delivered, outcome)
  PROVE  Core'
<1> DEFINE f == inv[w].fp
           p == [fp |-> f, stamp |-> inv[w].stamp,
                 grantedAt |-> inv[w].now, at |-> clock]
           n == Len(slackLog)
<1>1. /\ inv[w].pc = "send"
      /\ outcome = "sent" => delivered
      /\ slackLog' = IF delivered THEN Append(slackLog, p) ELSE slackLog
      /\ inv' = [inv EXCEPT ![w].pc = "record", ![w].outcome = outcome]
      /\ clock' = clock /\ item' = item /\ granted' = granted
  BY DEF Send, SendResult, At, tableVars
<1>2. /\ \A v \in Workers \ {w} : inv'[v] = inv[v]
      /\ inv'[w].pc = "record" /\ inv'[w].outcome = outcome
      /\ inv'[w].stamp = inv[w].stamp /\ inv'[w].now = inv[w].now
      /\ inv'[w].fp = f
  BY <1>1 DEF IInv, TypeOK, Invocations
<1>3. /\ GrantOf(w) \in granted /\ f \in Fingerprints /\ Holding(w)
      /\ inv[w].stamp \in Stamps /\ inv[w].now \in Nat /\ clock \in Nat
  BY <1>1 DEF IInv, Core, FpKnown, InTime, HoldersOwnItem, Holding, Running,
              TypeOK, AlertSteps, Invocations
<1>4. /\ n \in Nat /\ n <= Len(slackLog')
      /\ \A i \in 1..n : slackLog'[i] = slackLog[i]
      /\ delivered => Len(slackLog') = n + 1 /\ slackLog'[n + 1] = p
      /\ ~delivered => slackLog' = slackLog
  <2>1. slackLog \in Seq([fp : Fingerprints, stamp : Stamps,
                          grantedAt : Nat, at : Nat])
    BY DEF IInv, TypeOK
  <2>2. p \in [fp : Fingerprints, stamp : Stamps, grantedAt : Nat, at : Nat]
    BY <1>3
  <2> QED BY <1>1, <2>1, <2>2
<1>5. \A g \in Fingerprints, s \in Stamps :
        PostedFor(g, s) => PostedFor(g, s)'
  BY <1>4 DEF PostedFor
<1>6. ASSUME NEW g, NEW s, PostedFor(g, s)'
      PROVE  PostedFor(g, s) \/ (g = f /\ s = inv[w].stamp)
  BY <1>4, <1>6 DEF PostedFor
<1>7. InTime' /\ FpKnown'
  BY <1>1, <1>2, <1>3 DEF IInv, Core, InTime, FpKnown, Running, Holding
<1>8. ItemsBoundGrants'
  BY <1>1 DEF IInv, Core, ItemsBoundGrants
<1>9. \A v \in Workers :
        /\ Holding(v)' => Holding(v)
        /\ inv'[v].fp = inv[v].fp /\ inv'[v].stamp = inv[v].stamp
        /\ inv'[v].now = inv[v].now
  BY <1>2, <1>3 DEF Holding
<1>10. HoldersOwnItem'
  <2> SUFFICES ASSUME NEW v \in Workers, Holding(v)'
               PROVE  /\ [fp |-> inv'[v].fp, stamp |-> inv'[v].stamp,
                           at |-> inv'[v].now] \in granted
                      /\ item[inv'[v].fp].stamp = inv'[v].stamp
                      /\ item[inv'[v].fp].until = inv'[v].now + Cooldown
    BY <1>1 DEF HoldersOwnItem, GrantOf
  <2> QED BY <1>9 DEF IInv, Core, HoldersOwnItem, GrantOf
<1>11. OneHolder'
  BY <1>9 DEF IInv, Core, OneHolder
<1>12. PostsGranted'
  <2> SUFFICES ASSUME NEW i \in 1..Len(slackLog')
               PROVE  \E g \in granted : /\ g.fp = slackLog'[i].fp
                                         /\ g.stamp = slackLog'[i].stamp
    BY <1>1 DEF PostsGranted
  <2>1. CASE i \in 1..n
    BY <1>4, <2>1 DEF IInv, Core, PostsGranted
  <2>2. CASE delivered /\ i = n + 1
    <3>1. slackLog'[i] = p
      BY <1>4, <2>2
    <3>2. GrantOf(w) \in granted /\ GrantOf(w).fp = p.fp
          /\ GrantOf(w).stamp = p.stamp
      BY <1>3 DEF GrantOf
    <3> QED BY <3>1, <3>2
  <2> QED BY <1>4, <2>1, <2>2
<1>13. NotYetPosted'
  <2> SUFFICES ASSUME NEW v \in Workers, inv'[v].pc = "send"
               PROVE  ~PostedFor(inv[v].fp, inv[v].stamp)'
    BY <1>9 DEF NotYetPosted, PostedFor
  <2>1. v # w /\ inv[v].pc = "send"
    BY <1>2
  <2>2. inv[v].fp # f
    BY <1>3, <2>1 DEF IInv, Core, OneHolder, Holding
  <2>3. ~PostedFor(inv[v].fp, inv[v].stamp)
    BY <2>1 DEF IInv, Core, NotYetPosted
  <2>4. inv'[v] = inv[v]
    BY <1>2, <2>1
  <2> QED BY <1>4, <2>2, <2>3, <2>4 DEF PostedFor
<1>14. SentIsPosted'
  <2> SUFFICES ASSUME NEW v \in Workers, inv'[v].pc = "record",
                      inv'[v].outcome = "sent"
               PROVE  \E i \in 1..Len(slackLog') :
                        /\ slackLog'[i].fp = inv'[v].fp
                        /\ slackLog'[i].stamp = inv'[v].stamp
    BY DEF SentIsPosted, PostedFor
  <2>1. CASE v = w
    BY <1>1, <1>2, <1>4, <2>1
  <2>2. CASE v # w
    BY <1>2, <1>4, <2>2 DEF IInv, Core, SentIsPosted, PostedFor
  <2> QED BY <2>1, <2>2
<1>15. StatusHonest'
  BY <1>1, <1>4 DEF IInv, Core, StatusHonest, PostedFor
<1> QED BY <1>7, <1>8, <1>10, <1>11, <1>12, <1>13, <1>14, <1>15 DEF Core

\* Recording: the item is still the one the message was reserved with.
LEMMA RecordStep ==
  ASSUME IInv, NEW w \in Workers, Record(w)
  PROVE  Core'
<1> DEFINE f == inv[w].fp
<1>1. /\ inv[w].pc = "record"
      /\ item' = [item EXCEPT ![f].status = inv[w].outcome]
      /\ Goto(w, "next")
      /\ clock' = clock /\ granted' = granted /\ slackLog' = slackLog
  BY DEF Record, At, historyVars
<1>2. /\ \A v \in Workers \ {w} : inv'[v] = inv[v]
      /\ inv'[w].pc = "next"
      /\ inv'[w].stamp = inv[w].stamp /\ inv'[w].now = inv[w].now
  BY <1>1, GotoEffect DEF IInv, Steps, AlertSteps
<1>3. /\ f \in Fingerprints /\ item \in [Fingerprints -> Items]
      /\ item[f].stamp = inv[w].stamp
  BY <1>1 DEF IInv, Core, FpKnown, HoldersOwnItem, Holding, TypeOK, AlertSteps
<1>4. /\ \A g \in Fingerprints : /\ item'[g].stamp = item[g].stamp
                                 /\ item'[g].until = item[g].until
      /\ item'[f].status = inv[w].outcome
      /\ \A g \in Fingerprints \ {f} : item'[g] = item[g]
  BY <1>1, <1>3 DEF Items
<1>5. InTime' /\ FpKnown'
  BY <1>1, <1>2 DEF IInv, Core, InTime, FpKnown, Running, AlertSteps
<1>6. ItemsBoundGrants'
  <2>1. \A g \in granted : g.fp \in Fingerprints
    BY DEF IInv, TypeOK
  <2> QED BY <1>1, <1>4, <2>1 DEF IInv, Core, ItemsBoundGrants
<1>7. \A v \in Workers :
        Holding(v)' => Holding(v) /\ inv'[v] = inv[v]
                       /\ inv[v].fp \in Fingerprints
  BY <1>2 DEF IInv, Core, FpKnown, Holding, AlertSteps
<1>8. HoldersOwnItem'
  BY <1>1, <1>4, <1>7 DEF IInv, Core, HoldersOwnItem, GrantOf
<1>9. OneHolder'
  BY <1>7 DEF IInv, Core, OneHolder
<1>10. PostsGranted'
  BY <1>1 DEF IInv, Core, PostsGranted
<1>11. NotYetPosted' /\ SentIsPosted'
  BY <1>1, <1>2 DEF IInv, Core, NotYetPosted, SentIsPosted, PostedFor
<1>12. StatusHonest'
  <2> SUFFICES ASSUME NEW g \in Fingerprints, item'[g].status = "sent"
               PROVE  PostedFor(g, item'[g].stamp)
    BY <1>1 DEF StatusHonest, PostedFor
  <2>1. CASE g = f
    BY <1>1, <1>3, <1>4, <2>1 DEF IInv, Core, SentIsPosted
  <2>2. CASE g # f
    BY <1>4, <2>2 DEF IInv, Core, StatusHonest
  <2> QED BY <2>1, <2>2
<1> QED BY <1>5, <1>6, <1>8, <1>9, <1>10, <1>11, <1>12 DEF Core

-----------------------------------------------------------------------------
\* What an invocation has at the steps of an alert.
LEMMA AlertStepTypes ==
  ASSUME IInv, NEW w \in Workers, inv[w].pc \in AlertSteps
  PROVE  /\ inv[w].fp \in Fingerprints
         /\ inv[w].stamp \in Stamps /\ inv[w].now \in Nat
         /\ clock \in Nat /\ inv \in [Workers -> Invocations]
BY DEF IInv, Core, FpKnown, InTime, Running, AlertSteps, TypeOK, Invocations

LEMMA GotoTypes ==
  ASSUME TypeOK, NEW w \in Workers, NEW pc \in Steps, Goto(w, pc)
  PROVE  inv' \in [Workers -> Invocations]
BY DEF TypeOK, Goto, Invocations

LEMMA ObserveTypes ==
  ASSUME IInv, NEW w \in Workers, inv[w].pc \in AlertSteps,
         NEW count \in Nat, Observe(w, count)
  PROVE  /\ obs' \in [Fingerprints -> Observations]
         /\ observed' \subseteq [fp : Fingerprints, stamp : Stamps, at : Nat]
<1> DEFINE o == [stamp |-> inv[w].stamp, at |-> inv[w].now, count |-> count]
<1>1. o \in Observations
  BY AlertStepTypes DEF Observations
<1>2. obs' = [obs EXCEPT ![inv[w].fp] = o]
  BY DEF Observe
<1>3. obs' \in [Fingerprints -> Observations]
  BY <1>1, <1>2 DEF IInv, TypeOK
<1>4. observed' \subseteq [fp : Fingerprints, stamp : Stamps, at : Nat]
  BY AlertStepTypes DEF IInv, TypeOK, Observe
<1> QED BY <1>3, <1>4

\* Every step keeps the types.
LEMMA TypeStep == ASSUME IInv, [Next]_vars PROVE TypeOK'
<1>0. TypeOK
  BY DEF IInv
<1>1. CASE Tick
  <2>1. clock' \in 0..MaxClock
    BY <1>0, <1>1, DispatcherAssumption DEF TypeOK, Tick
  <2> QED BY <1>0, <1>1, <2>1
          DEF TypeOK, Tick, s3Vars, lambdaVars, tableVars, historyVars
<1>2. ASSUME NEW s \in Stamps, PutSnapshot(s) PROVE TypeOK'
  BY <1>0, <1>2 DEF TypeOK, PutSnapshot, tableVars, historyVars
<1>3. ASSUME NEW s \in Stamps, DuplicateEvent(s) PROVE TypeOK'
  <2>1. duplicates' \in 0..MaxDuplicates
    BY <1>0, <1>3, DispatcherAssumption DEF TypeOK, DuplicateEvent
  <2>2. queue' \in [Stamps -> Nat]
    BY <1>0, <1>3 DEF TypeOK, DuplicateEvent
  <2> QED BY <1>0, <1>3, <2>1, <2>2
          DEF TypeOK, DuplicateEvent, s3Vars, tableVars, historyVars
<1>4. ASSUME NEW w \in Workers, NEW s \in Stamps, Start(w, s) PROVE TypeOK'
  <2>1. [pc |-> "next", stamp |-> s, now |-> clock, todo |-> raised[s],
         fp |-> "none", outcome |-> "none"] \in Invocations
    BY <1>0 DEF TypeOK, Invocations, Steps
  <2>2. inv' \in [Workers -> Invocations] /\ queue' \in [Stamps -> Nat]
    BY <1>0, <1>4, <2>1 DEF TypeOK, Start
  <2> QED BY <1>0, <1>4, <2>2
          DEF TypeOK, Start, s3Vars, tableVars, historyVars
<1>5. ASSUME NEW w \in Workers, NEW f \in Fingerprints, Dispatch(w, f)
      PROVE  TypeOK'
  <2>1. inv' \in [Workers -> Invocations]
    <3> DEFINE pc == IF ~slackConfigured THEN "next"
                     ELSE IF f \in NeedsConfirm THEN "confirm" ELSE "reserve"
               i == [inv[w] EXCEPT !.todo = @ \ {f}, !.fp = f,
                                   !.outcome = "none", !.pc = pc]
    <3>1. pc \in Steps
      BY DEF Steps, AlertSteps
    <3>2. inv[w] \in Invocations
      BY <1>0 DEF TypeOK
    <3>3. i \in Invocations
      <4> HIDE DEF pc
      <4> QED BY <3>1, <3>2 DEF Invocations
    <3>4. inv' = [inv EXCEPT ![w] = i]
      BY <1>5 DEF Dispatch
    <3> HIDE DEF i
    <3> QED BY <1>0, <3>3, <3>4 DEF TypeOK
  <2> QED BY <1>0, <1>5, <2>1
          DEF TypeOK, Dispatch, s3Vars, lambdaVars, tableVars, historyVars
<1>6. ASSUME NEW w \in Workers, ConfirmCount(w) PROVE TypeOK'
  <2> DEFINE o == obs[inv[w].fp]
  <2>1. inv[w].pc \in AlertSteps
    BY <1>6 DEF ConfirmCount, At, AlertSteps
  <2>2. o.count + 1 \in Nat
    BY <1>0, <2>1, AlertStepTypes DEF TypeOK, Observations
  <2>3. \E pc \in Steps : Goto(w, pc)
    BY <1>6 DEF ConfirmCount, Steps, AlertSteps
  <2>4. /\ obs' \in [Fingerprints -> Observations]
        /\ observed' \subseteq [fp : Fingerprints, stamp : Stamps, at : Nat]
    <3>1. CASE Observe(w, o.count + 1)
      BY <2>1, <2>2, <3>1, ObserveTypes
    <3>2. CASE UNCHANGED <<obs, observed>>
      BY <1>0, <3>2 DEF TypeOK
    <3> QED BY <1>6, <3>1, <3>2 DEF ConfirmCount
  <2>5. inv' \in [Workers -> Invocations]
    BY <1>0, <2>3, GotoTypes
  <2> QED BY <1>0, <1>6, <2>4, <2>5
          DEF TypeOK, ConfirmCount, s3Vars, lambdaVars
<1>7. ASSUME NEW w \in Workers, ConfirmReset(w) PROVE TypeOK'
  <2>1. inv[w].pc \in AlertSteps
    BY <1>7 DEF ConfirmReset, At, AlertSteps
  <2>2. /\ obs' \in [Fingerprints -> Observations]
        /\ observed' \subseteq [fp : Fingerprints, stamp : Stamps, at : Nat]
    <3>1. CASE Observe(w, 1)
      BY <2>1, <3>1, ObserveTypes
    <3>2. CASE UNCHANGED <<obs, observed>>
      BY <1>0, <3>2 DEF TypeOK
    <3> QED BY <1>7, <3>1, <3>2 DEF ConfirmReset
  <2>3. inv' \in [Workers -> Invocations]
    BY <1>0, <1>7, GotoTypes DEF ConfirmReset, Steps, AlertSteps
  <2> QED BY <1>0, <1>7, <2>2, <2>3
          DEF TypeOK, ConfirmReset, s3Vars, lambdaVars
<1>8. ASSUME NEW w \in Workers, Reserve(w) PROVE TypeOK'
  <2> DEFINE f == inv[w].fp
             i == [stamp |-> inv[w].stamp, until |-> inv[w].now + Cooldown,
                   sentAt |-> inv[w].now, status |-> "pending"]
             g == [fp |-> f, stamp |-> inv[w].stamp, at |-> inv[w].now]
  <2>1. inv[w].pc \in AlertSteps
    BY <1>8 DEF Reserve, At, AlertSteps
  <2>2. i \in Items /\ g \in [fp : Fingerprints, stamp : Stamps, at : Nat]
    <3>1. inv[w].now + Cooldown \in Nat
      BY <2>1, AlertStepTypes, DispatcherAssumption
    <3> QED BY <2>1, <3>1, AlertStepTypes DEF Items
  <2>3. \E pc \in Steps : Goto(w, pc)
    BY <1>8 DEF Reserve, Steps, AlertSteps
  <2>4. \/ item' = [item EXCEPT ![f] = i] /\ granted' = granted \cup {g}
        \/ UNCHANGED <<item, granted>>
    BY <1>8 DEF Reserve, CooldownUntil
  <2>5. /\ item' \in [Fingerprints -> Items]
        /\ granted' \subseteq [fp : Fingerprints, stamp : Stamps, at : Nat]
    <3> HIDE DEF i, g
    <3> QED BY <1>0, <2>2, <2>4 DEF TypeOK
  <2>6. inv' \in [Workers -> Invocations]
    BY <1>0, <2>3, GotoTypes
  <2> QED BY <1>0, <1>8, <2>5, <2>6 DEF TypeOK, Reserve, s3Vars, lambdaVars
<1>9. ASSUME NEW w \in Workers, NEW delivered \in BOOLEAN,
             NEW outcome \in {"sent", "failed"}, Send(w, delivered, outcome)
      PROVE  TypeOK'
  <2> DEFINE p == [fp |-> inv[w].fp, stamp |-> inv[w].stamp,
                   grantedAt |-> inv[w].now, at |-> clock]
             Posts == [fp : Fingerprints, stamp : Stamps,
                       grantedAt : Nat, at : Nat]
  <2>1. inv[w].pc \in AlertSteps
    BY <1>9 DEF Send, At, AlertSteps
  <2>2. p \in Posts
    BY <2>1, AlertStepTypes
  <2>3. slackLog' \in Seq(Posts)
    <3>1. slackLog \in Seq(Posts)
      BY <1>0 DEF TypeOK
    <3>2. slackLog' = IF delivered THEN Append(slackLog, p) ELSE slackLog
      BY <1>9 DEF Send
    <3> HIDE DEF p, Posts
    <3> QED BY <2>2, <3>1, <3>2
  <2>4. inv' \in [Workers -> Invocations]
    <3> DEFINE i == [inv[w] EXCEPT !.pc = "record", !.outcome = outcome]
    <3>1. i \in Invocations
      BY <1>0 DEF TypeOK, Invocations, Steps, AlertSteps
    <3>2. inv' = [inv EXCEPT ![w] = i]
      BY <1>9 DEF Send
    <3> HIDE DEF i
    <3> QED BY <1>0, <3>1, <3>2 DEF TypeOK
  <2>5. faults' \in 0..MaxFaults
    BY <1>0, <1>9, DispatcherAssumption DEF TypeOK, Send
  <2> QED BY <1>0, <1>9, <2>3, <2>4, <2>5
          DEF TypeOK, Send, s3Vars, lambdaVars, tableVars
<1>10. ASSUME NEW w \in Workers, Record(w) PROVE TypeOK'
  <2>1. inv[w].outcome \in {"sent", "failed", "none"}
    BY <1>0 DEF TypeOK, Invocations
  <2>2. item' \in [Fingerprints -> Items]
    BY <1>0, <1>10, <2>1 DEF TypeOK, Record, Items
  <2>3. inv' \in [Workers -> Invocations]
    BY <1>0, <1>10, GotoTypes DEF Record, Steps, AlertSteps
  <2> QED BY <1>0, <1>10, <2>2, <2>3
          DEF TypeOK, Record, s3Vars, lambdaVars, historyVars
<1>11. Idle \in Invocations
  BY DEF Idle, Invocations, Steps, Absent
<1>12. ASSUME NEW w \in Workers, Finish(w) PROVE TypeOK'
  BY <1>0, <1>11, <1>12
     DEF TypeOK, Finish, s3Vars, lambdaVars, tableVars, historyVars
<1>13. ASSUME NEW w \in Workers, Fail(w) PROVE TypeOK'
  <2>1. inv' \in [Workers -> Invocations]
    BY <1>0, <1>11, <1>13 DEF TypeOK, Fail
  <2>2. inv[w].stamp \in Stamps
    BY <1>13 DEF IInv, Core, InTime, Fail
  <2>3. retries' \in [Stamps -> 0..MaxRetries] /\ queue' \in [Stamps -> Nat]
    <3> DEFINE s == inv[w].stamp
    <3>1. retries[s] \in 0..MaxRetries /\ queue[s] \in Nat
      BY <1>0, <2>2 DEF TypeOK
    <3>2. CASE retries[s] < MaxRetries
      <4>1. retries[s] + 1 \in 0..MaxRetries /\ queue[s] + 1 \in Nat
        BY <3>1, <3>2, DispatcherAssumption
      <4>2. /\ retries' = [retries EXCEPT ![s] = @ + 1]
            /\ queue' = [queue EXCEPT ![s] = @ + 1]
        BY <1>13, <3>2 DEF Fail
      <4> QED BY <1>0, <4>1, <4>2 DEF TypeOK
    <3>3. CASE ~(retries[s] < MaxRetries)
      BY <1>0, <1>13, <3>3 DEF TypeOK, Fail
    <3> QED BY <3>2, <3>3
  <2>4. faults' \in 0..MaxFaults
    BY <1>0, <1>13, DispatcherAssumption DEF TypeOK, Fail
  <2> QED BY <1>0, <1>13, <2>1, <2>3, <2>4
          DEF TypeOK, Fail, s3Vars, tableVars
<1>14. CASE UNCHANGED vars
  BY <1>0, <1>14
     DEF TypeOK, vars, s3Vars, lambdaVars, tableVars, historyVars
<1> QED BY <1>1, <1>2, <1>3, <1>4, <1>5, <1>6, <1>7, <1>8, <1>9, <1>10, <1>12,
           <1>13, <1>14 DEF Next, Step

\* Every step keeps the rest of the invariant.
LEMMA CoreStep == ASSUME IInv, [Next]_vars PROVE Core'
<1>0. inv \in [Workers -> Invocations] /\ clock \in Nat
  BY DEF IInv, TypeOK
<1>1. CASE Tick
  BY <1>1, TickStep
<1>2. ASSUME NEW s \in Stamps, PutSnapshot(s) \/ DuplicateEvent(s)
      PROVE  Core'
  BY <1>2, OutsideStep
     DEF PutSnapshot, DuplicateEvent, tableVars, historyVars
<1>3. ASSUME NEW w \in Workers, NEW s \in Stamps, Start(w, s) PROVE Core'
  <2>1. /\ \A v \in Workers \ {w} : inv'[v] = inv[v]
        /\ inv'[w].pc = "next" /\ inv'[w].stamp = s /\ inv'[w].now = clock
    BY <1>0, <1>3 DEF Start
  <2>2. UNCHANGED <<clock, item, granted, slackLog>>
    BY <1>3 DEF Start, tableVars, historyVars
  <2>3. clock <= clock + Timeout
    BY <1>0, DispatcherAssumption
  <2> QED BY <1>0, <2>1, <2>2, <2>3, QuietStep DEF AlertSteps
<1>4. ASSUME NEW w \in Workers, inv[w].pc # "idle",
             UNCHANGED <<clock, item, granted, slackLog>>,
             \A v \in Workers \ {w} : inv'[v] = inv[v],
             inv'[w].pc \notin {"send", "record"},
             inv'[w].stamp = inv[w].stamp, inv'[w].now = inv[w].now,
             inv'[w].pc \in AlertSteps => inv'[w].fp \in Fingerprints
      PROVE  Core'
  <2>1. /\ inv[w].stamp \in Stamps
        /\ inv[w].now <= clock /\ clock <= inv[w].now + Timeout
    BY <1>4 DEF IInv, Core, InTime, Running
  <2> QED BY <1>4, <2>1, QuietStep
<1>5. ASSUME NEW w \in Workers, NEW pc \in {"next", "reset", "reserve"},
             inv[w].pc \in AlertSteps, Goto(w, pc),
             UNCHANGED <<clock, item, granted, slackLog>>
      PROVE  Core'
  <2>1. /\ \A v \in Workers \ {w} : inv'[v] = inv[v]
        /\ inv'[w].pc = pc /\ inv'[w].fp = inv[w].fp
        /\ inv'[w].stamp = inv[w].stamp /\ inv'[w].now = inv[w].now
    BY <1>5, GotoEffect DEF IInv, Steps, AlertSteps
  <2>2. inv[w].fp \in Fingerprints /\ inv[w].pc # "idle"
    BY <1>5, AlertStepTypes DEF AlertSteps
  <2> QED BY <1>4, <1>5, <2>1, <2>2
<1>6. ASSUME NEW w \in Workers, NEW f \in Fingerprints, Dispatch(w, f)
      PROVE  Core'
  <2>1. /\ \A v \in Workers \ {w} : inv'[v] = inv[v]
        /\ inv'[w].pc \in {"next", "confirm", "reserve"}
        /\ inv'[w].stamp = inv[w].stamp /\ inv'[w].now = inv[w].now
        /\ inv'[w].fp = f
    BY <1>0, <1>6 DEF Dispatch, Invocations
  <2>2. inv[w].pc # "idle" /\ UNCHANGED <<clock, item, granted, slackLog>>
    BY <1>6 DEF Dispatch, At, tableVars, historyVars
  <2> QED BY <1>4, <2>1, <2>2
<1>7. ASSUME NEW w \in Workers, ConfirmCount(w) PROVE Core'
  <2>1. /\ inv[w].pc \in AlertSteps
        /\ UNCHANGED <<clock, item, granted, slackLog>>
        /\ \E pc \in {"next", "reset", "reserve"} : Goto(w, pc)
    BY <1>7 DEF ConfirmCount, At, AlertSteps
  <2> QED BY <1>5, <2>1
<1>8. ASSUME NEW w \in Workers, ConfirmReset(w) PROVE Core'
  <2>1. /\ inv[w].pc \in AlertSteps
        /\ UNCHANGED <<clock, item, granted, slackLog>>
        /\ Goto(w, "next")
    BY <1>8 DEF ConfirmReset, At, AlertSteps
  <2> QED BY <1>5, <2>1
<1>9. ASSUME NEW w \in Workers, Reserve(w) PROVE Core'
  <2>1. CASE Reservable(w, item[inv[w].fp])
    BY <1>9, <2>1, ReserveStep DEF Reserve
  <2>2. CASE ~Reservable(w, item[inv[w].fp])
    <3>1. /\ inv[w].pc \in AlertSteps
          /\ UNCHANGED <<clock, item, granted, slackLog>>
          /\ Goto(w, "next")
      BY <1>9, <2>2 DEF Reserve, At, AlertSteps
    <3> QED BY <1>5, <3>1
  <2> QED BY <2>1, <2>2
<1>10. ASSUME NEW w \in Workers, NEW delivered \in BOOLEAN,
              NEW outcome \in {"sent", "failed"}, Send(w, delivered, outcome)
       PROVE  Core'
  BY <1>10, SendStep
<1>11. ASSUME NEW w \in Workers, Record(w) PROVE Core'
  BY <1>11, RecordStep
<1>12. ASSUME NEW w \in Workers, Finish(w) \/ Fail(w) PROVE Core'
  <2>1. /\ \A v \in Workers \ {w} : inv'[v] = inv[v]
        /\ inv'[w].pc = "idle"
        /\ UNCHANGED <<clock, item, granted, slackLog>>
    BY <1>0, <1>12 DEF Finish, Fail, Idle, tableVars, historyVars
  <2> QED BY <2>1, QuietStep DEF AlertSteps
<1>13. CASE UNCHANGED vars
  BY <1>13, OutsideStep DEF vars, tableVars, historyVars
<1> QED BY <1>1, <1>2, <1>3, <1>6, <1>7, <1>8, <1>9, <1>10, <1>11, <1>12,
           <1>13 DEF Next, Step

\* The strengthened invariant.
THEOREM DispatcherInvariant == Spec => []IInv
<1>1. Init => IInv
  <2> SUFFICES ASSUME Init PROVE IInv
    OBVIOUS
  <2>1. TypeOK
    BY DispatcherAssumption
       DEF Init, TypeOK, Items, Observations, Invocations, Idle, Steps, Absent
  <2>2. Core
    BY DEF Init, Core, InTime, Running, FpKnown, ItemsBoundGrants,
           HoldersOwnItem, Holding, OneHolder, PostsGranted, NotYetPosted,
           SentIsPosted, StatusHonest, Idle, AlertSteps
  <2> QED BY <2>1, <2>2 DEF IInv
<1>2. IInv /\ [Next]_vars => IInv'
  BY TypeStep, CoreStep DEF IInv
<1> QED BY <1>1, <1>2, PTL DEF Spec

\* The types hold throughout: the counters stay within the retries Lambda
\* makes, and items, observations and invocations are well formed.
THEOREM DispatcherTypes == Spec => []TypeOK
BY DispatcherInvariant, PTL DEF IInv

\* Although record_slack_result() looks at nothing before it writes, an alert
\* item never says "sent" of a snapshot whose message Slack did not get.
THEOREM DispatcherStatusHonest == Spec => []StatusHonest
BY DispatcherInvariant, PTL DEF IInv, Core

-----------------------------------------------------------------------------
\* A reservation is a grant of the throttle.
LEMMA ReserveGrants ==
  ASSUME IInv, NEW w \in Workers, Reserve(w),
         Reservable(w, item[inv[w].fp])
  PROVE  Throttle!Next
<1> DEFINE f == inv[w].fp
           g == [fp |-> f, stamp |-> inv[w].stamp, at |-> inv[w].now]
<1>1. /\ granted' = granted \cup {g}
      /\ clock' = clock /\ slackLog' = slackLog
  BY DEF Reserve
<1>2. inv[w].pc = "reserve" /\ inv[w].pc \in AlertSteps
  BY DEF Reserve, At, AlertSteps
<1>3. /\ f \in Fingerprints /\ inv[w].stamp \in Stamps
      /\ inv[w].now \in Nat /\ clock \in Nat
  BY <1>2, AlertStepTypes
<1>4. inv[w].now <= clock /\ clock <= inv[w].now + Timeout
  BY <1>2 DEF IInv, Core, InTime, Running
<1>5. ASSUME NEW h \in granted, h.fp = f
      PROVE  h.stamp < inv[w].stamp /\ h.at + Cooldown <= inv[w].now
  <2>1. h.stamp <= item[f].stamp /\ h.at + Cooldown <= item[f].until
    BY <1>5 DEF IInv, Core, ItemsBoundGrants
  <2>2. item[f].stamp < inv[w].stamp /\ item[f].until <= inv[w].now
    BY DEF Reservable
  <2>3. h.stamp \in Stamps /\ h.at \in Nat /\ item[f] \in Items
    BY <1>3 DEF IInv, TypeOK
  <2>4. item[f].stamp \in Stamps \cup {Absent} /\ item[f].until \in Nat
    BY <2>3 DEF Items
  <2>5. /\ h.stamp \in Nat /\ item[f].stamp \in Nat
        /\ inv[w].stamp \in Nat
    BY <1>3, <2>3, <2>4, StampsAreNat
  <2>6. Cooldown \in Nat
    BY DispatcherAssumption
  <2> QED BY <1>3, <2>1, <2>2, <2>3, <2>4, <2>5, <2>6
<1>6. Throttle!Grant(g)
  BY <1>1, <1>4, <1>5 DEF Throttle!Grant, Throttle!Admissible
<1>7. inv[w].now \in 0..clock
  BY <1>3, <1>4
<1> QED BY <1>3, <1>6, <1>7 DEF Throttle!Next

\* Sending is a post of the throttle, when the channel gets the message.
LEMMA SendPosts ==
  ASSUME IInv, NEW w \in Workers, NEW outcome \in {"sent", "failed"},
         Send(w, TRUE, outcome)
  PROVE  Throttle!Next
<1> DEFINE g == GrantOf(w)
<1>1. /\ inv[w].pc = "send"
      /\ slackLog' = Append(slackLog, [fp |-> g.fp, stamp |-> g.stamp,
                                       grantedAt |-> g.at, at |-> clock])
      /\ clock' = clock /\ granted' = granted
  BY DEF Send, At, GrantOf
<1>2. g \in granted
  BY <1>1 DEF IInv, Core, HoldersOwnItem, Holding
<1>3. clock <= g.at + Timeout
  BY <1>1 DEF IInv, Core, InTime, Running, GrantOf
<1>4. ~Throttle!Posted(g)
  BY <1>1 DEF IInv, Core, NotYetPosted, PostedFor, Throttle!Posted, GrantOf
<1>5. Throttle!Post(g)
  BY <1>1, <1>3, <1>4 DEF Throttle!Post
<1> QED BY <1>2, <1>5 DEF Throttle!Next

\* Every step of the dispatcher is a step of the throttle or none.
LEMMA ThrottleStep ==
  ASSUME IInv, [Next]_vars
  PROVE  [Throttle!Next]_(Throttle!vars)
<1>1. CASE Tick
  <2>1. Throttle!Tick
    BY <1>1 DEF Tick, historyVars, Throttle!Tick
  <2> QED BY <2>1 DEF Throttle!Next
<1>2. ASSUME UNCHANGED <<clock, granted, slackLog>>
      PROVE  UNCHANGED Throttle!vars
  BY <1>2 DEF Throttle!vars
<1>3. ASSUME NEW s \in Stamps, PutSnapshot(s) \/ DuplicateEvent(s)
      PROVE  UNCHANGED Throttle!vars
  BY <1>2, <1>3 DEF PutSnapshot, DuplicateEvent, historyVars
<1>4. ASSUME NEW w \in Workers, NEW s \in Stamps, Start(w, s)
      PROVE  UNCHANGED Throttle!vars
  BY <1>2, <1>4 DEF Start, historyVars
<1>5. ASSUME NEW w \in Workers,
             \/ \E f \in Fingerprints : Dispatch(w, f)
             \/ ConfirmCount(w)
             \/ ConfirmReset(w)
             \/ Record(w)
             \/ Finish(w)
             \/ Fail(w)
      PROVE  UNCHANGED Throttle!vars
  BY <1>2, <1>5 DEF Dispatch, ConfirmCount, ConfirmReset, Record, Finish,
                    Fail, historyVars
<1>6. ASSUME NEW w \in Workers, Reserve(w)
      PROVE  Throttle!Next \/ UNCHANGED Throttle!vars
  <2>1. CASE Reservable(w, item[inv[w].fp])
    BY <1>6, <2>1, ReserveGrants
  <2>2. CASE ~Reservable(w, item[inv[w].fp])
    BY <1>2, <1>6, <2>2 DEF Reserve
  <2> QED BY <2>1, <2>2
<1>7. ASSUME NEW w \in Workers, NEW delivered \in BOOLEAN,
             NEW outcome \in {"sent", "failed"}, Send(w, delivered, outcome)
      PROVE  Throttle!Next \/ UNCHANGED Throttle!vars
  <2>1. CASE delivered = TRUE
    BY <1>7, <2>1, SendPosts
  <2>2. CASE delivered = FALSE
    BY <1>2, <1>7, <2>2 DEF Send
  <2> QED BY <2>1, <2>2
<1>8. CASE UNCHANGED vars
  BY <1>2, <1>8 DEF vars, historyVars
<1> QED BY <1>1, <1>3, <1>4, <1>5, <1>6, <1>7, <1>8 DEF Next, Step

\* The dispatcher implements the throttle: reservations of one alert are made
\* for ever newer snapshots a cooldown apart, and each is used at most once
\* and in time, under any interleaving, redelivery, retry, kill and Slack
\* failure.
THEOREM DispatcherThrottles == Spec => ThrottleSpec
<1>1. Init => Throttle!Init
  BY DEF Init, Throttle!Init
<1>2. IInv /\ [Next]_vars => [Throttle!Next]_(Throttle!vars)
  BY ThrottleStep
<1> QED BY <1>1, <1>2, DispatcherInvariant, PTL
        DEF Spec, ThrottleSpec, Throttle!Spec

-----------------------------------------------------------------------------
(***************************************************************************)
(* The throttle itself, in the dispatcher's variables.                     *)
(***************************************************************************)
\* The dispatcher's constants are what the throttle asks for.
LEMMA ThrottleAssumptionHolds == Throttle!ThrottleAssumption
BY DispatcherAssumption DEF Throttle!ThrottleAssumption


\* The throttle's own inductive invariant: every message was posted under a
\* grant, within the timeout of it, and grants of one fingerprint are ordered
\* by stamp and a cooldown apart.
GrantsApart ==
  /\ \A g \in granted : g.at <= clock
  /\ \A g, h \in granted :
       g.fp = h.fp /\ g.stamp < h.stamp => g.at + Cooldown <= h.at

\* The grant a message was posted under.
GrantBehind(p) == [fp |-> p.fp, stamp |-> p.stamp, at |-> p.grantedAt]

MessagesGranted ==
  \A i \in 1..Len(slackLog) :
    /\ GrantBehind(slackLog[i]) \in granted
    /\ slackLog[i].grantedAt <= slackLog[i].at
    /\ slackLog[i].at <= slackLog[i].grantedAt + Timeout

ThrottleInv == Throttle!TypeOK /\ GrantsApart /\ MessagesGranted /\ Throttle!PostsInOrder

-----------------------------------------------------------------------------
\* The three kinds of step of the throttle, as the proofs use them.
LEMMA ThrottleCases ==
  ASSUME Throttle!Next
  PROVE  \/ \E f \in Fingerprints, s \in Stamps, t \in 0..clock :
              Throttle!Grant([fp |-> f, stamp |-> s, at |-> t])
         \/ \E g \in granted : Throttle!Post(g)
         \/ Throttle!Tick
BY DEF Throttle!Next

\* The types are kept: the channel holds messages about known fingerprints
\* and stamps, and the clock stays below its bound.
LEMMA ThrottleTypeStep ==
  ASSUME Throttle!TypeOK, [Throttle!Next]_(Throttle!vars) PROVE Throttle!TypeOK'
<1> USE ThrottleAssumptionHolds DEF Throttle!ThrottleAssumption
<1>1. ASSUME NEW f \in Fingerprints, NEW s \in Stamps, NEW t \in 0..clock,
             Throttle!Grant([fp |-> f, stamp |-> s, at |-> t])
      PROVE  Throttle!TypeOK'
  <2>1. [fp |-> f, stamp |-> s, at |-> t] \in Throttle!Grants
    BY <1>1 DEF Throttle!TypeOK, Throttle!Grants
  <2> QED BY <1>1, <2>1 DEF Throttle!TypeOK, Throttle!Grant
<1>2. ASSUME NEW g \in granted, Throttle!Post(g)
      PROVE  Throttle!TypeOK'
  <2> DEFINE p == [fp |-> g.fp, stamp |-> g.stamp,
                   grantedAt |-> g.at, at |-> clock]
  <2>1. g \in Throttle!Grants
    BY DEF Throttle!TypeOK
  <2>2. p \in Throttle!Posts
    BY <2>1 DEF Throttle!TypeOK, Throttle!Grants, Throttle!Posts
  <2>3. slackLog' = Append(slackLog, p)
    BY <1>2 DEF Throttle!Post
  <2>4. slackLog' \in Seq(Throttle!Posts)
    BY <2>2, <2>3 DEF Throttle!TypeOK
  <2> QED BY <1>2, <2>4 DEF Throttle!TypeOK, Throttle!Post
<1>3. CASE Throttle!Tick
  BY <1>3 DEF Throttle!TypeOK, Throttle!Tick
<1>4. CASE UNCHANGED Throttle!vars
  BY <1>4 DEF Throttle!TypeOK, Throttle!vars
<1> QED BY <1>1, <1>2, <1>3, <1>4, ThrottleCases

\* A grant leaves the channel alone and extends the ordered grants.
LEMMA ThrottleGrantStep ==
  ASSUME ThrottleInv,
         NEW f \in Fingerprints, NEW s \in Stamps, NEW t \in 0..clock,
         Throttle!Grant([fp |-> f, stamp |-> s, at |-> t])
  PROVE  GrantsApart' /\ MessagesGranted' /\ Throttle!PostsInOrder'
<1> USE ThrottleAssumptionHolds DEF Throttle!ThrottleAssumption
<1> DEFINE new == [fp |-> f, stamp |-> s, at |-> t]
<1>1. /\ Throttle!Admissible(new)
      /\ granted' = granted \cup {new}
      /\ clock' = clock /\ slackLog' = slackLog
  BY DEF Throttle!Grant
<1>2. granted \subseteq Throttle!Grants /\ clock \in Nat
  BY DEF ThrottleInv, Throttle!TypeOK
<1>3. GrantsApart'
  <2>1. \A g \in granted' : g.at <= clock'
    BY <1>1, <1>2 DEF ThrottleInv, GrantsApart
  <2>2. \A h \in granted :
          h.fp = f => h.stamp < s /\ h.at + Cooldown <= t
    BY <1>1 DEF Throttle!Admissible
  <2>3. ASSUME NEW g \in granted', NEW h \in granted',
               g.fp = h.fp, g.stamp < h.stamp
        PROVE  g.at + Cooldown <= h.at
    <3>1. CASE g \in granted /\ h \in granted
      BY <2>3, <3>1 DEF ThrottleInv, GrantsApart
    <3>2. CASE g \in granted /\ h = new
      BY <2>2, <2>3, <3>2
    <3>3. CASE g = new /\ h \in granted
      <4>1. h.stamp \in Nat /\ s \in Nat
        BY <1>2, <3>3 DEF Throttle!Grants
      <4>2. h.stamp < s /\ s < h.stamp
        BY <2>2, <2>3, <3>3
      <4> QED BY <4>1, <4>2
    <3>4. CASE g = new /\ h = new
      BY <2>3, <3>4
    <3> QED BY <1>1, <3>1, <3>2, <3>3, <3>4
  <2> QED BY <2>1, <2>3 DEF GrantsApart
<1>4. MessagesGranted'
  BY <1>1 DEF ThrottleInv, MessagesGranted, GrantBehind
<1>5. Throttle!PostsInOrder'
  BY <1>1 DEF ThrottleInv, Throttle!PostsInOrder
<1> QED BY <1>3, <1>4, <1>5

\* A message follows all earlier ones about its fingerprint: a later grant is
\* still at least a cooldown away while this one may be used.
LEMMA ThrottlePostStep ==
  ASSUME ThrottleInv, NEW g \in granted, Throttle!Post(g)
  PROVE  GrantsApart' /\ MessagesGranted' /\ Throttle!PostsInOrder'
<1> USE ThrottleAssumptionHolds DEF Throttle!ThrottleAssumption
<1> DEFINE p == [fp |-> g.fp, stamp |-> g.stamp,
                 grantedAt |-> g.at, at |-> clock]
           n == Len(slackLog)
<1>1. /\ clock <= g.at + Timeout
      /\ ~Throttle!Posted(g)
      /\ slackLog' = Append(slackLog, p)
      /\ clock' = clock /\ granted' = granted
  BY DEF Throttle!Post
<1>2. /\ granted \subseteq Throttle!Grants /\ clock \in Nat
      /\ slackLog \in Seq(Throttle!Posts) /\ g \in Throttle!Grants
  BY DEF ThrottleInv, Throttle!TypeOK
<1>3. /\ Len(slackLog') = n + 1 /\ n \in Nat
      /\ \A i \in 1..n : slackLog'[i] = slackLog[i]
      /\ slackLog'[n + 1] = p
  <2>1. p \in Throttle!Posts
    BY <1>2 DEF Throttle!Grants, Throttle!Posts
  <2> QED BY <1>1, <1>2, <2>1
<1>4. GrantsApart'
  BY <1>1 DEF ThrottleInv, GrantsApart
<1>5. MessagesGranted'
  <2>1. ASSUME NEW i \in 1..n
        PROVE  /\ GrantBehind(slackLog'[i]) \in granted'
               /\ slackLog'[i].grantedAt <= slackLog'[i].at
               /\ slackLog'[i].at <= slackLog'[i].grantedAt + Timeout
    BY <1>1, <1>3 DEF ThrottleInv, MessagesGranted
  <2>2. /\ GrantBehind(p) \in granted'
        /\ p.grantedAt <= p.at
        /\ p.at <= p.grantedAt + Timeout
    <3>1. GrantBehind(p) = g
      BY <1>2 DEF GrantBehind, Throttle!Grants
    <3>2. g.at <= clock
      BY DEF ThrottleInv, GrantsApart
    <3> QED BY <1>1, <3>1, <3>2
  <2> QED BY <1>3, <2>1, <2>2 DEF MessagesGranted
<1>6. ASSUME NEW i \in 1..n, slackLog[i].fp = g.fp
      PROVE  slackLog[i].stamp < g.stamp
  <2> DEFINE h == GrantBehind(slackLog[i])
  <2>1. slackLog[i] \in Throttle!Posts
    BY <1>2
  <2>2. h \in granted /\ h.fp = g.fp /\ h.stamp = slackLog[i].stamp
    BY <1>6, <2>1 DEF ThrottleInv, MessagesGranted, GrantBehind
  <2>3. h.stamp # g.stamp
    BY <1>1, <1>6, <2>2 DEF Throttle!Posted
  <2>4. ~(g.stamp < h.stamp)
    <3>1. SUFFICES ASSUME g.stamp < h.stamp PROVE FALSE
      OBVIOUS
    <3>2. g.at + Cooldown <= h.at /\ h.at <= clock
      BY <2>2, <3>1 DEF ThrottleInv, GrantsApart
    <3>3. h.at \in Nat /\ g.at \in Nat
      BY <1>2, <2>2 DEF Throttle!Grants
    <3> QED BY <1>1, <1>2, <3>2, <3>3
  <2>5. g.stamp \in Nat /\ h.stamp \in Nat
    BY <1>2, <2>2 DEF Throttle!Grants
  <2> QED BY <2>2, <2>3, <2>4, <2>5
<1>7. Throttle!PostsInOrder'
  <2>1. SUFFICES ASSUME NEW i \in 1..(n + 1), NEW j \in 1..(n + 1), i < j,
                        slackLog'[i].fp = slackLog'[j].fp
                 PROVE  slackLog'[i].stamp < slackLog'[j].stamp
    BY <1>3 DEF Throttle!PostsInOrder
  <2>2. CASE j \in 1..n
    BY <1>3, <2>1, <2>2 DEF ThrottleInv, Throttle!PostsInOrder
  <2>3. CASE j = n + 1
    BY <1>3, <1>6, <2>1, <2>3
  <2> QED BY <1>3, <2>1, <2>2, <2>3
<1> QED BY <1>4, <1>5, <1>7

\* The strengthened invariant.
LEMMA ThrottleInvariant == ThrottleSpec => []ThrottleInv
<1> USE ThrottleAssumptionHolds DEF Throttle!ThrottleAssumption
<1>1. Throttle!Init => ThrottleInv
  BY DEF Throttle!Init, ThrottleInv, Throttle!TypeOK, GrantsApart, MessagesGranted, Throttle!PostsInOrder
<1>2. ThrottleInv /\ [Throttle!Next]_(Throttle!vars) => ThrottleInv'
  <2> SUFFICES ASSUME ThrottleInv, [Throttle!Next]_(Throttle!vars) PROVE ThrottleInv'
    OBVIOUS
  <2>1. Throttle!TypeOK'
    BY ThrottleTypeStep DEF ThrottleInv
  <2>2. GrantsApart' /\ MessagesGranted' /\ Throttle!PostsInOrder'
    <3>1. CASE \E f \in Fingerprints, s \in Stamps, t \in 0..clock :
                 Throttle!Grant([fp |-> f, stamp |-> s, at |-> t])
      BY <3>1, ThrottleGrantStep
    <3>2. CASE \E g \in granted : Throttle!Post(g)
      BY <3>2, ThrottlePostStep
    <3>3. CASE Throttle!Tick
      <4>1. /\ clock \in Nat /\ clock' = clock + 1
            /\ granted' = granted /\ slackLog' = slackLog
            /\ granted \subseteq Throttle!Grants
        BY <3>3 DEF Throttle!Tick, ThrottleInv, Throttle!TypeOK
      <4>2. \A g \in granted' : g.at <= clock'
        BY <4>1 DEF ThrottleInv, GrantsApart, Throttle!Grants
      <4> QED BY <4>1, <4>2 DEF ThrottleInv, GrantsApart, MessagesGranted, GrantBehind,
                                Throttle!PostsInOrder
    <3>4. CASE UNCHANGED Throttle!vars
      BY <3>4 DEF Throttle!vars, ThrottleInv, GrantsApart, MessagesGranted, GrantBehind,
                  Throttle!PostsInOrder
    <3> QED BY <3>1, <3>2, <3>3, <3>4, ThrottleCases
  <2> QED BY <2>1, <2>2 DEF ThrottleInv
<1> QED BY <1>1, <1>2, PTL DEF ThrottleSpec, Throttle!Spec

\* Whatever is delivered again, late or concurrently, Slack hears about one
\* fingerprint in the order of the snapshots and once per snapshot.
THEOREM ThrottleOrder == ThrottleSpec => []ChannelInOrder
BY ThrottleInvariant, PTL DEF ThrottleInv, ChannelInOrder

\* Messages are as far apart as the grants behind them, less the timeout.
LEMMA MessagesSpaced ==
  ThrottleInv => Throttle!PostsSpaced
<1> USE ThrottleAssumptionHolds DEF Throttle!ThrottleAssumption
<1> SUFFICES ASSUME ThrottleInv, NEW i \in 1..Len(slackLog), NEW j \in 1..Len(slackLog),
                    i < j, slackLog[i].fp = slackLog[j].fp
             PROVE  slackLog[j].at + Timeout >= slackLog[i].at + Cooldown
  BY DEF Throttle!PostsSpaced
<1> DEFINE g == GrantBehind(slackLog[i])
           h == GrantBehind(slackLog[j])
<1>1. slackLog[i] \in Throttle!Posts /\ slackLog[j] \in Throttle!Posts
  BY DEF ThrottleInv, Throttle!TypeOK
<1>2. slackLog[i].stamp < slackLog[j].stamp
  BY DEF ThrottleInv, Throttle!PostsInOrder
<1>3. g \in granted /\ h \in granted
  BY DEF ThrottleInv, MessagesGranted
<1>4. slackLog[i].grantedAt + Cooldown <= slackLog[j].grantedAt
  BY <1>2, <1>3 DEF ThrottleInv, GrantsApart, GrantBehind
<1>5. /\ slackLog[j].grantedAt <= slackLog[j].at
      /\ slackLog[i].at <= slackLog[i].grantedAt + Timeout
  BY DEF ThrottleInv, MessagesGranted
<1> QED BY <1>1, <1>4, <1>5 DEF Throttle!Posts

\* Two messages of the throttle about one fingerprint are a cooldown apart, less
\* the time an invocation may run.
THEOREM ThrottleSpacing == ThrottleSpec => []ChannelSpaced
BY ThrottleInvariant, MessagesSpaced, PTL DEF ChannelSpaced

\* Slack hears about one alert again only after the cooldown, less the time
\* one invocation may run.
THEOREM DispatcherChannelSpaced == Spec => []ChannelSpaced
BY DispatcherThrottles, ThrottleSpacing, PTL

\* Late and repeated deliveries never make the channel go back in time.
THEOREM DispatcherChannelInOrder == Spec => []ChannelInOrder
BY DispatcherThrottles, ThrottleOrder, PTL

-----------------------------------------------------------------------------
(***************************************************************************)
(* What is remembered about confirmations and losses.                      *)
(***************************************************************************)
\* Confirmed(f, s, t): alert f of snapshot s, dispatched at t, was confirmed.
Confirmed(f, s, t) ==
  \E o \in observed :
    /\ o.fp = f
    /\ o.stamp < s
    /\ f \in raised[o.stamp] \cap raised[s]
    /\ t <= o.at + Window

\* Events, invocations and observations are about snapshots that exist, and
\* dispatch alerts these raised.
Sourced ==
  /\ \A s \in Stamps : queue[s] > 0 => s \in written
  /\ \A w \in Workers :
       /\ Running(w) => /\ inv[w].stamp \in written
                        /\ inv[w].todo \subseteq raised[inv[w].stamp]
       /\ inv[w].pc \in AlertSteps => inv[w].fp \in raised[inv[w].stamp]
  /\ \A o \in observed : o.stamp \in written /\ o.fp \in raised[o.stamp]
  /\ \A f \in Fingerprints :
       obs[f].stamp # Absent =>
         [fp |-> f, stamp |-> obs[f].stamp, at |-> obs[f].at] \in observed

\* The inductive part of ConfirmedByTwoSnapshots: an alert that is confirmed
\* stays so until it is reserved.
ConfirmedWhenReserved ==
  /\ \A w \in Workers :
       inv[w].pc = "reserve" /\ inv[w].fp \in NeedsConfirm
         => Confirmed(inv[w].fp, inv[w].stamp, inv[w].now)
  /\ \A g \in granted :
       /\ g.stamp \in written
       /\ g.fp \in NeedsConfirm => Confirmed(g.fp, g.stamp, g.at)

CInv == IInv /\ Sourced /\ ConfirmedWhenReserved

-----------------------------------------------------------------------------
\* Observations are kept and a written snapshot does not change.
LEMMA ConfirmedStays ==
  ASSUME CInv, NEW f, NEW s \in written, NEW t, Confirmed(f, s, t),
         observed \subseteq observed',
         \A r \in written : raised'[r] = raised[r]
  PROVE  Confirmed(f, s, t)'
BY DEF CInv, Sourced, Confirmed

\* A step that leaves the invocations and what they wrote alone.
LEMMA OutsideHistoryStep ==
  ASSUME CInv, UNCHANGED <<inv, granted, observed, obs>>,
         written \subseteq written',
         \A r \in written : raised'[r] = raised[r],
         \A s \in Stamps : queue'[s] > 0 => s \in written'
  PROVE  Sourced' /\ ConfirmedWhenReserved'
<1>1. \A w \in Workers : inv[w].pc \in AlertSteps => Running(w)
  BY DEF Running, AlertSteps
<1>2. \A w \in Workers : Running(w) => inv[w].stamp \in written
  BY DEF CInv, Sourced
<1>3. Sourced'
  BY <1>1, <1>2 DEF CInv, Sourced, Running
<1>4. ASSUME NEW w \in Workers, inv[w].pc = "reserve", inv[w].fp \in NeedsConfirm
      PROVE  Confirmed(inv[w].fp, inv[w].stamp, inv[w].now)'
  <2>1. inv[w].stamp \in written
    BY <1>1, <1>2, <1>4 DEF AlertSteps
  <2>2. Confirmed(inv[w].fp, inv[w].stamp, inv[w].now)
    BY <1>4 DEF CInv, ConfirmedWhenReserved
  <2> QED BY <2>1, <2>2, ConfirmedStays
<1>5. ASSUME NEW g \in granted
      PROVE  /\ g.stamp \in written'
             /\ g.fp \in NeedsConfirm => Confirmed(g.fp, g.stamp, g.at)'
  BY ConfirmedStays DEF CInv, ConfirmedWhenReserved
<1> QED BY <1>3, <1>4, <1>5 DEF ConfirmedWhenReserved

\* A step of the invocation in w that reads no new snapshot.
LEMMA InvocationHistoryStep ==
  ASSUME CInv, NEW w \in Workers,
         UNCHANGED <<raised, written>>,
         \A s \in Stamps : queue'[s] > 0 => s \in written,
         \A v \in Workers \ {w} : inv'[v] = inv[v],
         inv'[w].pc # "idle" => /\ inv'[w].stamp \in written
                                /\ inv'[w].todo \subseteq raised[inv'[w].stamp],
         inv'[w].pc \in AlertSteps => inv'[w].fp \in raised[inv'[w].stamp],
         inv'[w].pc = "reserve" /\ inv'[w].fp \in NeedsConfirm
           => Confirmed(inv'[w].fp, inv'[w].stamp, inv'[w].now),
         observed \subseteq observed',
         \A o \in observed' : o.stamp \in written /\ o.fp \in raised[o.stamp],
         \A f \in Fingerprints :
           obs'[f].stamp # Absent =>
             [fp |-> f, stamp |-> obs'[f].stamp, at |-> obs'[f].at] \in observed',
         \A g \in granted' \ granted :
           /\ g.stamp \in written
           /\ g.fp \in NeedsConfirm => Confirmed(g.fp, g.stamp, g.at)
  PROVE  Sourced' /\ ConfirmedWhenReserved'
<1>1. ASSUME NEW f, NEW s, NEW t, Confirmed(f, s, t)
      PROVE  Confirmed(f, s, t)'
  BY <1>1 DEF Confirmed
<1>2. Sourced'
  BY DEF CInv, Sourced, Running
<1>3. ASSUME NEW v \in Workers, inv'[v].pc = "reserve", inv'[v].fp \in NeedsConfirm
      PROVE  Confirmed(inv[v].fp, inv[v].stamp, inv[v].now)'
  <2>1. Confirmed(inv'[v].fp, inv'[v].stamp, inv'[v].now)
    BY <1>3 DEF CInv, ConfirmedWhenReserved
  <2> QED BY <2>1 DEF Confirmed
<1>4. ASSUME NEW g \in granted'
      PROVE  /\ g.stamp \in written
             /\ g.fp \in NeedsConfirm => Confirmed(g.fp, g.stamp, g.at)'
  BY <1>1 DEF CInv, ConfirmedWhenReserved
<1> QED BY <1>2, <1>3, <1>4 DEF ConfirmedWhenReserved

\* A step of a running invocation that leaves the histories and the tables
\* alone, and does not reach "reserve".
LEMMA QuietHistoryStep ==
  ASSUME CInv, NEW w \in Workers,
         UNCHANGED <<raised, written, granted, observed, obs>>,
         \A s \in Stamps : queue'[s] > 0 => s \in written,
         \A v \in Workers \ {w} : inv'[v] = inv[v],
         inv'[w].pc \notin {"idle", "reserve"} =>
           /\ inv[w].pc # "idle"
           /\ inv'[w].stamp = inv[w].stamp
           /\ inv'[w].todo \subseteq inv[w].todo,
         inv'[w].pc # "reserve",
         inv'[w].pc \in AlertSteps => inv'[w].fp \in raised[inv[w].stamp]
  PROVE  Sourced' /\ ConfirmedWhenReserved'
<1>1. inv'[w].pc # "idle" => /\ inv'[w].stamp \in written
                             /\ inv'[w].todo \subseteq raised[inv'[w].stamp]
  BY DEF CInv, Sourced, Running
<1>2. inv'[w].pc \in AlertSteps => inv'[w].fp \in raised[inv'[w].stamp]
  BY DEF AlertSteps
<1>3. /\ \A o \in observed : o.stamp \in written /\ o.fp \in raised[o.stamp]
      /\ \A f \in Fingerprints :
           obs[f].stamp # Absent =>
             [fp |-> f, stamp |-> obs[f].stamp, at |-> obs[f].at] \in observed
  BY DEF CInv, Sourced
<1> QED BY <1>1, <1>2, <1>3, InvocationHistoryStep

\* What a running invocation is about.
LEMMA RunningFacts ==
  ASSUME CInv, NEW w \in Workers, inv[w].pc # "idle"
  PROVE  /\ inv[w].stamp \in written
         /\ inv[w].todo \subseteq raised[inv[w].stamp]
         /\ inv[w].pc \in AlertSteps => inv[w].fp \in raised[inv[w].stamp]
BY DEF CInv, Sourced, Running

LEMMA DispatchHistory ==
  ASSUME CInv, NEW w \in Workers, NEW f \in Fingerprints, Dispatch(w, f)
  PROVE  Sourced' /\ ConfirmedWhenReserved'
<1>1. inv \in [Workers -> Invocations]
  BY DEF CInv, IInv, TypeOK
<1>2. /\ inv[w].pc = "next" /\ f \in inv[w].todo
      /\ UNCHANGED <<raised, written, queue, granted, observed, obs>>
  BY DEF Dispatch, At, s3Vars, lambdaVars, tableVars, historyVars
<1>3. /\ \A v \in Workers \ {w} : inv'[v] = inv[v]
      /\ inv'[w].stamp = inv[w].stamp /\ inv'[w].now = inv[w].now
      /\ inv'[w].todo = inv[w].todo \ {f} /\ inv'[w].fp = f
      /\ inv'[w].pc = "reserve" => f \notin NeedsConfirm
      /\ inv'[w].pc \in {"next", "confirm", "reserve"}
  BY <1>1 DEF Dispatch, Invocations
<1>4. /\ inv[w].stamp \in written
      /\ inv[w].todo \subseteq raised[inv[w].stamp]
  BY <1>2, RunningFacts
<1>5. /\ \A s \in Stamps : queue[s] > 0 => s \in written
      /\ \A o \in observed : o.stamp \in written /\ o.fp \in raised[o.stamp]
      /\ \A g \in Fingerprints :
           obs[g].stamp # Absent =>
             [fp |-> g, stamp |-> obs[g].stamp, at |-> obs[g].at] \in observed
  BY DEF CInv, Sourced
<1> QED BY <1>2, <1>3, <1>4, <1>5, InvocationHistoryStep

\* What Observe writes is about the invocation's own snapshot.
LEMMA ObserveHistory ==
  ASSUME CInv, NEW w \in Workers, inv[w].pc \in AlertSteps, NEW count,
         Observe(w, count)
  PROVE  /\ observed \subseteq observed'
         /\ \A o \in observed' : o.stamp \in written /\ o.fp \in raised[o.stamp]
         /\ \A f \in Fingerprints :
              obs'[f].stamp # Absent =>
                [fp |-> f, stamp |-> obs'[f].stamp, at |-> obs'[f].at]
                  \in observed'
<1>1. inv[w].stamp \in written /\ inv[w].fp \in raised[inv[w].stamp]
  BY RunningFacts DEF AlertSteps
<1>2. obs \in [Fingerprints -> Observations]
  BY DEF CInv, IInv, TypeOK
<1> QED BY <1>1, <1>2 DEF CInv, Sourced, Observe

\* confirm() goes on to reserve() with the previous observation as witness.
LEMMA CountHistory ==
  ASSUME CInv, NEW w \in Workers, ConfirmCount(w)
  PROVE  Sourced' /\ ConfirmedWhenReserved'
<1> DEFINE f == inv[w].fp
           o == obs[f]
<1>1. /\ inv[w].pc \in AlertSteps
      /\ UNCHANGED <<raised, written, queue, granted>>
  BY DEF ConfirmCount, At, AlertSteps, s3Vars, lambdaVars
<1>2. /\ inv[w].stamp \in written
      /\ inv[w].todo \subseteq raised[inv[w].stamp]
      /\ f \in raised[inv[w].stamp]
      /\ f \in Fingerprints
      /\ \A s \in Stamps : queue[s] > 0 => s \in written
  BY <1>1, RunningFacts DEF CInv, IInv, Core, FpKnown, Sourced, AlertSteps
<1>3. CASE InWindow(w, o)
  <2>1. Observe(w, o.count + 1)
    BY <1>3 DEF ConfirmCount
  <2>2. \E pc \in {"reserve", "next"} : Goto(w, pc)
    BY <1>3 DEF ConfirmCount
  <2>3. PICK pc \in {"reserve", "next"} : Goto(w, pc)
    BY <2>2
  <2>4. /\ \A v \in Workers \ {w} : inv'[v] = inv[v]
        /\ inv'[w].pc = pc
        /\ inv'[w].stamp = inv[w].stamp /\ inv'[w].now = inv[w].now
        /\ inv'[w].fp = f /\ inv'[w].todo = inv[w].todo
    BY <2>3, GotoEffect DEF CInv, IInv, Steps, AlertSteps
  <2>5. Confirmed(f, inv[w].stamp, inv[w].now)
    <3> DEFINE e == [fp |-> f, stamp |-> o.stamp, at |-> o.at]
    <3>1. e \in observed
      BY <1>2, <1>3 DEF CInv, Sourced, InWindow
    <3>2. f \in raised[o.stamp]
      <4>1. e.fp \in raised[e.stamp]
        BY <3>1 DEF CInv, Sourced
      <4> QED BY <4>1
    <3>3. o.stamp < inv[w].stamp /\ inv[w].now <= o.at + Window
      <4>1. o \in Observations /\ inv[w].now \in Nat
        BY <1>2 DEF CInv, IInv, TypeOK, Invocations
      <4>2. o.at \in Nat /\ Window \in Nat
        BY <4>1, DispatcherAssumption DEF Observations
      <4>3. o.stamp < inv[w].stamp /\ o.at + Window >= inv[w].now
        BY <1>3 DEF InWindow
      <4> QED BY <4>1, <4>2, <4>3
    <3> HIDE DEF o
    <3> QED BY <1>2, <3>1, <3>2, <3>3 DEF Confirmed
  <2>6. /\ observed \subseteq observed'
        /\ \A p \in observed' : p.stamp \in written /\ p.fp \in raised[p.stamp]
        /\ \A g \in Fingerprints :
             obs'[g].stamp # Absent =>
               [fp |-> g, stamp |-> obs'[g].stamp, at |-> obs'[g].at]
                 \in observed'
    BY <1>1, <2>1, ObserveHistory
  <2> HIDE DEF o
  <2> QED BY <1>1, <1>2, <2>4, <2>5, <2>6, InvocationHistoryStep
<1>4. CASE ~InWindow(w, o)
  <2>1. Goto(w, "reset") /\ UNCHANGED <<obs, observed>>
    BY <1>4 DEF ConfirmCount
  <2>2. /\ \A v \in Workers \ {w} : inv'[v] = inv[v]
        /\ inv'[w].pc = "reset" /\ inv'[w].stamp = inv[w].stamp
        /\ inv'[w].fp = f /\ inv'[w].todo = inv[w].todo
    BY <2>1, GotoEffect DEF CInv, IInv, Steps, AlertSteps
  <2> QED BY <1>1, <1>2, <2>1, <2>2, QuietHistoryStep DEF AlertSteps
<1> QED BY <1>3, <1>4

LEMMA ResetHistory ==
  ASSUME CInv, NEW w \in Workers, ConfirmReset(w)
  PROVE  Sourced' /\ ConfirmedWhenReserved'
<1>1. /\ inv[w].pc \in AlertSteps /\ Goto(w, "next")
      /\ UNCHANGED <<raised, written, queue, granted>>
  BY DEF ConfirmReset, At, AlertSteps, s3Vars, lambdaVars
<1>2. /\ inv[w].stamp \in written
      /\ inv[w].todo \subseteq raised[inv[w].stamp]
      /\ \A s \in Stamps : queue[s] > 0 => s \in written
  BY <1>1, RunningFacts DEF CInv, Sourced, AlertSteps
<1>3. /\ \A v \in Workers \ {w} : inv'[v] = inv[v]
      /\ inv'[w].pc = "next" /\ inv'[w].stamp = inv[w].stamp
      /\ inv'[w].todo = inv[w].todo
  BY <1>1, GotoEffect DEF CInv, IInv, Steps
<1>4. CASE Observe(w, 1)
  <2>1. /\ observed \subseteq observed'
        /\ \A p \in observed' : p.stamp \in written /\ p.fp \in raised[p.stamp]
        /\ \A g \in Fingerprints :
             obs'[g].stamp # Absent =>
               [fp |-> g, stamp |-> obs'[g].stamp, at |-> obs'[g].at]
                 \in observed'
    BY <1>1, <1>4, ObserveHistory
  <2> QED BY <1>1, <1>2, <1>3, <2>1, InvocationHistoryStep DEF AlertSteps
<1>5. CASE UNCHANGED <<obs, observed>>
  BY <1>1, <1>2, <1>3, <1>5, QuietHistoryStep DEF AlertSteps
<1> QED BY <1>4, <1>5 DEF ConfirmReset

LEMMA ReserveHistory ==
  ASSUME CInv, NEW w \in Workers, Reserve(w)
  PROVE  Sourced' /\ ConfirmedWhenReserved'
<1>1. /\ inv[w].pc = "reserve" /\ inv[w].pc \in AlertSteps
      /\ UNCHANGED <<raised, written, queue, observed, obs>>
      /\ \E pc \in {"send", "next"} : Goto(w, pc)
      /\ granted' \subseteq granted \cup {GrantOf(w)}
  BY DEF Reserve, At, AlertSteps, s3Vars, lambdaVars, GrantOf
<1>2. PICK pc \in {"send", "next"} : Goto(w, pc)
  BY <1>1
<1>3. /\ \A v \in Workers \ {w} : inv'[v] = inv[v]
      /\ inv'[w].pc = pc /\ inv'[w].stamp = inv[w].stamp
      /\ inv'[w].fp = inv[w].fp /\ inv'[w].todo = inv[w].todo
  BY <1>2, GotoEffect DEF CInv, IInv, Steps, AlertSteps
<1>4. /\ inv[w].stamp \in written
      /\ inv[w].todo \subseteq raised[inv[w].stamp]
      /\ inv[w].fp \in raised[inv[w].stamp]
  BY <1>1, RunningFacts
<1>5. ASSUME NEW g \in granted' \ granted
      PROVE  /\ g.stamp \in written
             /\ g.fp \in NeedsConfirm => Confirmed(g.fp, g.stamp, g.at)
  <2>1. g = GrantOf(w)
    BY <1>1, <1>5
  <2>2. g.stamp = inv[w].stamp /\ g.fp = inv[w].fp /\ g.at = inv[w].now
    BY <2>1 DEF GrantOf
  <2>3. inv[w].fp \in NeedsConfirm
          => Confirmed(inv[w].fp, inv[w].stamp, inv[w].now)
    BY <1>1 DEF CInv, ConfirmedWhenReserved
  <2> QED BY <1>4, <2>2, <2>3
<1>6. /\ \A s \in Stamps : queue[s] > 0 => s \in written
      /\ \A o \in observed : o.stamp \in written /\ o.fp \in raised[o.stamp]
      /\ \A f \in Fingerprints :
           obs[f].stamp # Absent =>
             [fp |-> f, stamp |-> obs[f].stamp, at |-> obs[f].at] \in observed
  BY DEF CInv, Sourced
<1> QED BY <1>1, <1>3, <1>4, <1>5, <1>6, InvocationHistoryStep

\* Starting, sending, recording, returning and failing.
LEMMA StartHistory ==
  ASSUME CInv, NEW w \in Workers, NEW s \in Stamps, Start(w, s)
  PROVE  Sourced' /\ ConfirmedWhenReserved'
<1>1. inv \in [Workers -> Invocations] /\ queue \in [Stamps -> Nat]
  BY DEF CInv, IInv, TypeOK
<1>2. /\ \A v \in Workers \ {w} : inv'[v] = inv[v]
      /\ inv'[w].pc = "next" /\ inv'[w].stamp = s /\ inv'[w].todo = raised[s]
      /\ UNCHANGED <<raised, written, granted, observed, obs>>
  BY <1>1 DEF Start, s3Vars, tableVars, historyVars
<1>3. /\ queue[s] > 0
      /\ \A r \in Stamps : queue'[r] > 0 => queue[r] > 0
  BY <1>1 DEF Start
<1>4. /\ \A r \in Stamps : queue[r] > 0 => r \in written
      /\ \A o \in observed : o.stamp \in written /\ o.fp \in raised[o.stamp]
      /\ \A f \in Fingerprints :
           obs[f].stamp # Absent =>
             [fp |-> f, stamp |-> obs[f].stamp, at |-> obs[f].at] \in observed
  BY DEF CInv, Sourced
<1> QED BY <1>2, <1>3, <1>4, InvocationHistoryStep DEF AlertSteps

LEMMA SendHistory ==
  ASSUME CInv, NEW w \in Workers, NEW delivered \in BOOLEAN,
         NEW outcome \in {"sent", "failed"}, Send(w, delivered, outcome)
  PROVE  Sourced' /\ ConfirmedWhenReserved'
<1>1. inv \in [Workers -> Invocations] /\ inv[w].pc = "send"
  BY DEF CInv, IInv, TypeOK, Send, At
<1>2. /\ \A v \in Workers \ {w} : inv'[v] = inv[v]
      /\ inv'[w].pc = "record" /\ inv'[w].stamp = inv[w].stamp
      /\ inv'[w].fp = inv[w].fp /\ inv'[w].todo = inv[w].todo
      /\ UNCHANGED <<raised, written, queue, granted, observed, obs>>
  BY <1>1 DEF Send, Invocations, s3Vars, lambdaVars, tableVars
<1>3. /\ inv[w].fp \in raised[inv[w].stamp]
      /\ \A r \in Stamps : queue[r] > 0 => r \in written
  BY <1>1, RunningFacts DEF AlertSteps, CInv, Sourced
<1> QED BY <1>1, <1>2, <1>3, QuietHistoryStep

LEMMA EndHistory ==
  ASSUME CInv, NEW w \in Workers, Record(w) \/ Finish(w) \/ Fail(w)
  PROVE  Sourced' /\ ConfirmedWhenReserved'
<1>1. /\ inv \in [Workers -> Invocations] /\ inv[w].pc # "idle"
      /\ queue \in [Stamps -> Nat]
  BY DEF CInv, IInv, TypeOK, Record, Finish, Fail, At, Running
<1>2. UNCHANGED <<raised, written, granted, observed, obs>>
  BY DEF Record, Finish, Fail, s3Vars, lambdaVars, tableVars, historyVars
<1>3. \A v \in Workers \ {w} : inv'[v] = inv[v]
  BY <1>1 DEF Record, Goto, Finish, Fail
<1>4. /\ inv'[w].pc \in {"next", "idle"}
      /\ inv'[w].pc = "next" => /\ inv'[w].stamp = inv[w].stamp
                                /\ inv'[w].todo = inv[w].todo
  BY <1>1 DEF Record, Goto, Finish, Fail, Idle, Invocations
<1>5. inv[w].stamp \in written
  BY <1>1, RunningFacts
<1>6. \A r \in Stamps : queue'[r] > 0 => queue[r] > 0 \/ r = inv[w].stamp
  BY <1>1 DEF Record, Finish, Fail, lambdaVars
<1>7. \A r \in Stamps : queue'[r] > 0 => r \in written
  BY <1>5, <1>6 DEF CInv, Sourced
<1> QED BY <1>1, <1>2, <1>3, <1>4, <1>7, QuietHistoryStep DEF AlertSteps

LEMMA EnvironmentHistory ==
  ASSUME CInv,
         \/ Tick
         \/ \E s \in Stamps : PutSnapshot(s) \/ DuplicateEvent(s)
         \/ UNCHANGED vars
  PROVE  Sourced' /\ ConfirmedWhenReserved'
<1>0. /\ queue \in [Stamps -> Nat] /\ written \subseteq Stamps
      /\ raised \in [Stamps -> SUBSET Fingerprints]
      /\ \A r \in Stamps : queue[r] > 0 => r \in written
  BY DEF CInv, IInv, TypeOK, Sourced
<1>1. CASE Tick \/ UNCHANGED vars
  <2>1. UNCHANGED <<inv, granted, observed, obs, raised, written, queue>>
    BY <1>1 DEF Tick, vars, s3Vars, lambdaVars, tableVars, historyVars
  <2> QED BY <1>0, <2>1, OutsideHistoryStep
<1>2. ASSUME NEW s \in Stamps, PutSnapshot(s) \/ DuplicateEvent(s)
      PROVE  Sourced' /\ ConfirmedWhenReserved'
  <2>1. UNCHANGED <<inv, granted, observed, obs>>
    BY <1>2 DEF PutSnapshot, DuplicateEvent, tableVars, historyVars
  <2>2. /\ written \subseteq written' /\ s \in written'
        /\ \A r \in written : raised'[r] = raised[r]
        /\ \A r \in Stamps \ {s} : queue'[r] = queue[r]
    BY <1>0, <1>2 DEF PutSnapshot, DuplicateEvent, s3Vars
  <2>3. \A r \in Stamps : queue'[r] > 0 => r \in written'
    BY <1>0, <2>2
  <2> QED BY <2>1, <2>2, <2>3, OutsideHistoryStep
<1> QED BY <1>1, <1>2

THEOREM HistoryInvariant == Spec => []CInv
<1>1. Init => Sourced /\ ConfirmedWhenReserved
  BY DEF Init, Sourced, ConfirmedWhenReserved, Running, Idle, AlertSteps, Absent
<1>2. CInv /\ [Next]_vars => Sourced' /\ ConfirmedWhenReserved'
  BY EnvironmentHistory, StartHistory, DispatchHistory, CountHistory,
     ResetHistory, ReserveHistory, SendHistory, EndHistory DEF Next, Step
<1>3. CInv <=> IInv /\ (Sourced /\ ConfirmedWhenReserved)
  BY DEF CInv
<1>4. IInv /\ (Sourced /\ ConfirmedWhenReserved) /\ [Next]_vars
        => (Sourced /\ ConfirmedWhenReserved)'
  BY <1>2, <1>3
<1> QED BY <1>1, <1>3, <1>4, DispatcherInvariant, PTL DEF Spec

\* An alert that asks for confirmation is reserved only when an older snapshot
\* raised it too, at most a window earlier, whatever is retried or delivered
\* twice and however many invocations share the counter.
THEOREM AlertsConfirmedTwice == Spec => []ConfirmedByTwoSnapshots
<1>1. CInv => ConfirmedByTwoSnapshots
  BY DEF CInv, ConfirmedWhenReserved, Confirmed, ConfirmedByTwoSnapshots
<1> QED BY <1>1, HistoryInvariant, PTL

-----------------------------------------------------------------------------
\* Lost reservations, counted: a step adds at most the one of the invocation
\* that fails, and then it adds a fault.
LostGrants == {g \in granted : Lost(g)}

LInv ==
  /\ IsFiniteSet(granted)
  /\ \A g, h \in granted : g.fp = h.fp /\ g.stamp = h.stamp => g = h
  /\ Cardinality(LostGrants) <= faults

\* No reservation is lost by the step.
LEMMA NothingLost ==
  ASSUME LInv, IsFiniteSet(granted'), LostGrants' \subseteq LostGrants,
         faults \in Nat, faults' \in Nat, faults <= faults'
  PROVE  Cardinality(LostGrants') <= faults'
<1>1. IsFiniteSet(LostGrants)
  BY FS_Subset DEF LInv, LostGrants
<1>2. /\ IsFiniteSet(LostGrants')
      /\ Cardinality(LostGrants') <= Cardinality(LostGrants)
  BY <1>1, FS_Subset
<1>3. Cardinality(LostGrants) \in Nat /\ Cardinality(LostGrants') \in Nat
  BY <1>1, <1>2, FS_CardinalityType
<1>4. Cardinality(LostGrants) <= faults
  BY DEF LInv
<1> QED BY <1>2, <1>3, <1>4

\* One is, by a fault.
LEMMA OneLost ==
  ASSUME LInv, NEW g, LostGrants' \subseteq LostGrants \cup {g},
         faults \in Nat, faults' = faults + 1
  PROVE  Cardinality(LostGrants') <= faults'
<1>1. IsFiniteSet(LostGrants)
  BY FS_Subset DEF LInv, LostGrants
<1>2. /\ IsFiniteSet(LostGrants \cup {g})
      /\ Cardinality(LostGrants \cup {g}) <= Cardinality(LostGrants) + 1
  <2>1. Cardinality(LostGrants) \in Nat
    BY <1>1, FS_CardinalityType
  <2> QED BY <1>1, <2>1, FS_AddElement
<1>3. /\ IsFiniteSet(LostGrants')
      /\ Cardinality(LostGrants') <= Cardinality(LostGrants \cup {g})
  BY <1>2, FS_Subset
<1>4. /\ Cardinality(LostGrants) \in Nat
      /\ Cardinality(LostGrants \cup {g}) \in Nat
      /\ Cardinality(LostGrants') \in Nat
  BY <1>1, <1>2, <1>3, FS_CardinalityType
<1>5. Cardinality(LostGrants) <= faults
  BY DEF LInv
<1> QED BY <1>2, <1>3, <1>4, <1>5

\* Whoever was about to send still is.
LEMMA SendersStay ==
  ASSUME LInv, UNCHANGED <<granted, slackLog>>,
         faults \in Nat, faults' \in Nat, faults <= faults',
         \A v \in Workers :
           inv[v].pc = "send" => /\ inv'[v].pc = "send"
                                 /\ inv'[v].fp = inv[v].fp
                                 /\ inv'[v].stamp = inv[v].stamp
  PROVE  LInv'
<1>1. LostGrants' \subseteq LostGrants
  BY DEF LostGrants, Lost, PostedFor, At
<1>2. IsFiniteSet(granted')
  BY DEF LInv
<1>3. Cardinality(LostGrants') <= faults'
  BY <1>1, <1>2, NothingLost
<1> QED BY <1>3 DEF LInv

\* The invocation in w gives up sending: of the reservations, only its own can
\* be lost now.
LEMMA SenderFails ==
  ASSUME LInv, IInv, NEW w \in Workers, inv[w].pc = "send",
         granted' = granted, faults' = faults + 1,
         \A f, s : PostedFor(f, s) => PostedFor(f, s)',
         \A v \in Workers \ {w} : inv'[v] = inv[v]
  PROVE  LInv'
<1>1. GrantOf(w) \in granted
  BY DEF IInv, Core, HoldersOwnItem, Holding
<1>2. ASSUME NEW g \in granted, Lost(g)', ~Lost(g)
      PROVE  g = GrantOf(w)
  <2>1. ~PostedFor(g.fp, g.stamp)
    BY <1>2 DEF Lost
  <2>2. PICK v \in Workers : /\ inv[v].pc = "send"
                             /\ inv[v].fp = g.fp /\ inv[v].stamp = g.stamp
    BY <1>2, <2>1 DEF Lost, At
  <2>3. v = w
    BY <1>2, <2>2 DEF Lost, At
  <2>4. GrantOf(w).fp = g.fp /\ GrantOf(w).stamp = g.stamp
    BY <2>2, <2>3 DEF GrantOf
  <2> QED BY <1>1, <1>2, <2>4 DEF LInv
<1>3. LostGrants' \subseteq LostGrants \cup {GrantOf(w)}
  BY <1>2 DEF LostGrants
<1>4. faults \in Nat
  BY DispatcherAssumption DEF IInv, TypeOK
<1>5. Cardinality(LostGrants') <= faults'
  BY <1>3, <1>4, OneLost
<1> QED BY <1>5 DEF LInv

\* A reservation is used by the invocation that made it, and is the first of
\* its snapshot.
LEMMA ReserveLoss ==
  ASSUME LInv, IInv, NEW w \in Workers, Reserve(w),
         Reservable(w, item[inv[w].fp])
  PROVE  LInv'
<1> DEFINE f == inv[w].fp
           new == GrantOf(w)
<1>1. /\ granted' = granted \cup {new}
      /\ Goto(w, "send")
      /\ inv[w].pc = "reserve"
      /\ UNCHANGED <<slackLog, faults>>
  BY DEF Reserve, GrantOf, At
<1>2. /\ \A v \in Workers \ {w} : inv'[v] = inv[v]
      /\ inv'[w].pc = "send"
      /\ inv'[w].stamp = inv[w].stamp /\ inv'[w].fp = f
  BY <1>1, GotoEffect DEF IInv, Steps, AlertSteps
<1>3. new.fp = f /\ new.stamp = inv[w].stamp
  BY DEF GrantOf
<1>4. /\ f \in Fingerprints /\ inv[w].stamp \in Stamps
      /\ inv[w].stamp \in Nat /\ item[f] \in Items
  <2>1. inv[w].pc \in AlertSteps
    BY <1>1 DEF AlertSteps
  <2>2. f \in Fingerprints /\ inv[w].stamp \in Stamps
    BY <2>1, AlertStepTypes
  <2> QED BY <2>2, StampsAreNat DEF IInv, TypeOK
<1>5. ASSUME NEW h \in granted, h.fp = f PROVE h.stamp # inv[w].stamp
  <2>1. h.stamp <= item[f].stamp /\ item[f].stamp < inv[w].stamp
    BY <1>5 DEF IInv, Core, ItemsBoundGrants, Reservable
  <2>2. h.stamp \in Stamps /\ item[f].stamp \in Stamps \cup {Absent}
    BY <1>4 DEF IInv, TypeOK, Items
  <2>3. h.stamp \in Nat /\ item[f].stamp \in Nat
    BY <2>2, StampsAreNat
  <2> QED BY <1>4, <2>1, <2>3
<1>6. \A g, h \in granted' : g.fp = h.fp /\ g.stamp = h.stamp => g = h
  BY <1>1, <1>3, <1>5 DEF LInv
<1>7. IsFiniteSet(granted')
  BY <1>1, FS_AddElement DEF LInv
<1>8. LostGrants' \subseteq LostGrants
  <2> SUFFICES ASSUME NEW g \in granted', Lost(g)'
               PROVE  g \in granted /\ Lost(g)
    BY DEF LostGrants
  <2>1. ~(g.fp = f /\ g.stamp = inv[w].stamp)
    BY <1>2 DEF Lost, At
  <2>2. g \in granted
    BY <1>1, <1>3, <2>1
  <2>3. Lost(g)
    BY <1>1, <1>2 DEF Lost, PostedFor, At
  <2> QED BY <2>2, <2>3
<1>9. faults \in Nat /\ faults' = faults
  BY <1>1, DispatcherAssumption DEF IInv, TypeOK
<1>10. Cardinality(LostGrants') <= faults'
  BY <1>7, <1>8, <1>9, NothingLost
<1> QED BY <1>6, <1>7, <1>10 DEF LInv

\* A message that reaches the channel uses its reservation; a send that fails
\* without it is a fault.
LEMMA SendLoss ==
  ASSUME LInv, IInv, NEW w \in Workers, NEW delivered \in BOOLEAN,
         NEW outcome \in {"sent", "failed"}, Send(w, delivered, outcome)
  PROVE  LInv'
<1> DEFINE p == [fp |-> inv[w].fp, stamp |-> inv[w].stamp,
                 grantedAt |-> inv[w].now, at |-> clock]
           n == Len(slackLog)
<1>1. /\ inv[w].pc = "send"
      /\ outcome = "sent" => delivered
      /\ slackLog' = IF delivered THEN Append(slackLog, p) ELSE slackLog
      /\ granted' = granted
      /\ faults' = IF outcome = "failed" THEN faults + 1 ELSE faults
      /\ \A v \in Workers \ {w} : inv'[v] = inv[v]
  BY DEF Send, SendResult, At, IInv, TypeOK
<1>2. /\ n \in Nat /\ Len(slackLog') >= n /\ Len(slackLog') \in Nat
      /\ \A i \in 1..n : slackLog'[i] = slackLog[i]
      /\ delivered => Len(slackLog') = n + 1 /\ slackLog'[n + 1] = p
  <2>1. slackLog \in Seq([fp : Fingerprints, stamp : Stamps,
                          grantedAt : Nat, at : Nat])
    BY DEF IInv, TypeOK
  <2>2. p \in [fp : Fingerprints, stamp : Stamps, grantedAt : Nat, at : Nat]
    <3>1. inv[w].pc \in AlertSteps
      BY <1>1 DEF AlertSteps
    <3> QED BY <3>1, AlertStepTypes
  <2> HIDE DEF p
  <2> QED BY <1>1, <2>1, <2>2
<1>3. \A f, s : PostedFor(f, s) => PostedFor(f, s)'
  BY <1>2 DEF PostedFor
<1>4. CASE delivered
  <2>1. \A f, s : f = inv[w].fp /\ s = inv[w].stamp => PostedFor(f, s)'
    <3>1. n + 1 \in 1..Len(slackLog')
      BY <1>2, <1>4
    <3>2. slackLog'[n + 1].fp = inv[w].fp /\ slackLog'[n + 1].stamp = inv[w].stamp
      BY <1>2, <1>4
    <3> QED BY <3>1, <3>2 DEF PostedFor
  <2>2. LostGrants' \subseteq LostGrants
    <3> SUFFICES ASSUME NEW g \in granted, Lost(g)' PROVE Lost(g)
      BY <1>1 DEF LostGrants
    <3>1. ~PostedFor(g.fp, g.stamp)
      BY <1>3 DEF Lost
    <3>2. ~(g.fp = inv[w].fp /\ g.stamp = inv[w].stamp)
      BY <2>1 DEF Lost
    <3> QED BY <1>1, <3>1, <3>2 DEF Lost, At
  <2>3. faults \in Nat /\ faults' \in Nat /\ faults <= faults'
    BY <1>1, DispatcherAssumption DEF IInv, TypeOK
  <2>4. Cardinality(LostGrants') <= faults'
    BY <1>1, <2>2, <2>3, NothingLost DEF LInv
  <2> QED BY <1>1, <2>4 DEF LInv
<1>5. CASE ~delivered
  BY <1>1, <1>3, <1>5, SenderFails
<1> QED BY <1>4, <1>5

LEMMA FailLoss ==
  ASSUME LInv, IInv, NEW w \in Workers, Fail(w)
  PROVE  LInv'
<1>1. /\ faults' = faults + 1 /\ UNCHANGED <<granted, slackLog>>
      /\ \A v \in Workers \ {w} : inv'[v] = inv[v]
  BY DEF Fail, IInv, TypeOK
<1>2. faults \in Nat
  BY DispatcherAssumption DEF IInv, TypeOK
<1>3. CASE inv[w].pc = "send"
  BY <1>1, <1>3, SenderFails DEF PostedFor
<1>4. CASE inv[w].pc # "send"
  BY <1>1, <1>2, <1>4, SendersStay
<1> QED BY <1>3, <1>4

LEMMA LossStep == ASSUME LInv, IInv, [Next]_vars PROVE LInv'
<1>0. faults \in Nat /\ inv \in [Workers -> Invocations]
  BY DispatcherAssumption DEF IInv, TypeOK
<1>1. CASE \/ Tick
           \/ \E s \in Stamps : PutSnapshot(s) \/ DuplicateEvent(s)
           \/ UNCHANGED vars
  <2>1. UNCHANGED <<inv, granted, slackLog, faults>>
    BY <1>1 DEF Tick, PutSnapshot, DuplicateEvent, vars, historyVars
  <2> QED BY <1>0, <2>1, SendersStay
<1>2. ASSUME NEW w \in Workers, inv[w].pc # "send",
             \A v \in Workers \ {w} : inv'[v] = inv[v],
             UNCHANGED <<granted, slackLog, faults>>
      PROVE  LInv'
  BY <1>0, <1>2, SendersStay
<1>3. ASSUME NEW w \in Workers, NEW s \in Stamps, Start(w, s) PROVE LInv'
  BY <1>0, <1>2, <1>3 DEF Start, Running, historyVars
<1>4. ASSUME NEW w \in Workers,
             \/ \E f \in Fingerprints : Dispatch(w, f)
             \/ Record(w)
             \/ Finish(w)
      PROVE  LInv'
  BY <1>0, <1>2, <1>4 DEF Dispatch, Record, Finish, At, Goto, historyVars
<1>5. ASSUME NEW w \in Workers, ConfirmCount(w) \/ ConfirmReset(w)
      PROVE  LInv'
  BY <1>0, <1>2, <1>5 DEF ConfirmCount, ConfirmReset, At, Goto
<1>6. ASSUME NEW w \in Workers, Reserve(w) PROVE LInv'
  <2>1. CASE Reservable(w, item[inv[w].fp])
    BY <1>6, <2>1, ReserveLoss
  <2>2. CASE ~Reservable(w, item[inv[w].fp])
    BY <1>0, <1>2, <1>6, <2>2 DEF Reserve, At, Goto
  <2> QED BY <2>1, <2>2
<1>7. ASSUME NEW w \in Workers, NEW delivered \in BOOLEAN,
             NEW outcome \in {"sent", "failed"}, Send(w, delivered, outcome)
      PROVE  LInv'
  BY <1>7, SendLoss
<1>8. ASSUME NEW w \in Workers, Fail(w) PROVE LInv'
  BY <1>8, FailLoss
<1> QED BY <1>1, <1>3, <1>4, <1>5, <1>6, <1>7, <1>8 DEF Next, Step

\* Every reservation that comes to nothing has a kill or a failed send of its
\* own: concurrency, retries and redeliveries alone lose no alert.
THEOREM LossesHaveFaults == Spec => []LossesAttributable
<1>1. Init => LInv
  <2> SUFFICES ASSUME Init PROVE LInv
    OBVIOUS
  <2>1. granted = {} /\ LostGrants = {} /\ faults = 0
    BY DEF Init, LostGrants
  <2> QED BY <2>1, FS_EmptySet DEF LInv
<1>2. LInv /\ IInv /\ [Next]_vars => LInv'
  BY LossStep
<1>3. LInv => LossesAttributable
  BY DEF LInv, LostGrants, LossesAttributable
<1> QED BY <1>1, <1>2, <1>3, DispatcherInvariant, PTL DEF Spec
=============================================================================
