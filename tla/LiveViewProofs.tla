---------------------------- MODULE LiveViewProofs ----------------------------
(***************************************************************************)
(* A proof about LiveView, for any factories, moves, changes and failures: *)
(* an answered page shows its own factory.  What protects it is that every *)
(* way into the shown state is guarded: answers by the request they answer *)
(* (current), pushes by the factory they name, and a move by the cache,    *)
(* which is kept by factory.                                               *)
(***************************************************************************)
EXTENDS LiveView, SequenceTheorems, TLAPS

States == [factory : Factories \cup {"none"}, version : Nat]

\* Requests as the page of factory f may have them: those that are current
\* are its own, and answers are about what was asked for.
Requests(f) ==
  {r \in [factory : Factories, current : BOOLEAN, answer : States] :
     /\ r.current => r.factory = f
     /\ r.answer # None => r.answer.factory = r.factory}

\* The inductive invariant.
IInv ==
  /\ factory \in Factories
  /\ latest \in [Factories -> Nat] /\ replica \in [Factories -> Nat]
  /\ requests \in Seq(Requests(factory))
  /\ cache \in [Factories -> States]
  /\ \A f \in Factories : cache[f] # None => cache[f].factory = f
  /\ OwnFactoryOnceAnswered

-----------------------------------------------------------------------------
LEMMA StateType ==
  /\ None \in States
  /\ \A f \in Factories, v \in Nat :
       State(f, v) \in States /\ State(f, v).factory = f
BY DEF None, States, State

LEMMA RequestType ==
  ASSUME NEW f \in Factories
  PROVE  Request(f) \in Requests(f)
BY StateType DEF Request, Requests

LEMMA RemoveAtType ==
  ASSUME NEW S, NEW s \in Seq(S), NEW i \in 1..Len(s)
  PROVE  RemoveAt(s, i) \in Seq(S)
<1>1. SubSeq(s, 1, i - 1) \in Seq(S)
  BY SubSeqProperties, LenProperties, ElementOfSeq
<1>2. SubSeq(s, i + 1, Len(s)) \in Seq(S)
  BY SubSeqProperties, LenProperties, ElementOfSeq
<1> QED BY <1>1, <1>2, ConcatProperties DEF RemoveAt

\* A move makes every request an earlier one, whose answer will be dropped.
LEMMA OutdatedType ==
  ASSUME NEW f \in Factories, NEW g \in Factories, requests \in Seq(Requests(g))
  PROVE  Outdated \in Seq(Requests(f))
<1>1. /\ DOMAIN requests = 1..Len(requests) /\ Len(requests) \in Nat
      /\ \A k \in 1..Len(requests) : requests[k] \in Requests(g)
  BY LenProperties, ElementOfSeq
<1>2. \A r \in Requests(g) : [r EXCEPT !.current = FALSE] \in Requests(f)
  BY DEF Requests
<1>3. Outdated \in [1..Len(requests) -> Requests(f)]
  BY <1>1, <1>2 DEF Outdated
<1> QED BY <1>1, <1>3

LEMMA InitIInv == Init => IInv
<1> SUFFICES ASSUME Init PROVE IInv
  OBVIOUS
<1>1. requests \in Seq(Requests(factory))
  BY RequestType DEF Init
<1> QED BY <1>1, StateType DEF Init, IInv, OwnFactoryOnceAnswered

LEMMA NavigateStep == ASSUME IInv, NEW f \in Factories, Navigate(f) PROVE IInv'
<1> USE DEF IInv
<1>1. /\ factory' = f /\ f # factory /\ data' = cache[f]
      /\ live' = IF cache[f] # data THEN cache[f]
                 ELSE IF message.factory = f THEN message ELSE live
      /\ requests' = Append(Outdated, Request(f))
      /\ UNCHANGED <<latest, replica, cache>>
  BY DEF Navigate
<1>2. requests' \in Seq(Requests(f))
  BY <1>1, OutdatedType, RequestType
<1>3. OwnFactoryOnceAnswered'
  <2> SUFFICES ASSUME cache[f] # None
               PROVE  cache[f].factory = f /\ live'.factory = f
    BY <1>1 DEF OwnFactoryOnceAnswered
  <2>1. cache[f].factory = f
    OBVIOUS
  <2>2. cache[f] # data
    BY <1>1, <2>1 DEF OwnFactoryOnceAnswered
  <2> QED BY <1>1, <2>1, <2>2
<1> QED BY <1>1, <1>2, <1>3

LEMMA ReadStep == ASSUME IInv, NEW k \in 1..MaxRequests, Read(k) PROVE IInv'
<1> USE DEF IInv
<1>1. k \in 1..Len(requests) /\ requests[k] \in Requests(factory)
  BY LenProperties, ElementOfSeq DEF Read
<1>2. PICK v \in {latest[requests[k].factory], replica[requests[k].factory]} :
        requests' = [requests EXCEPT ![k].answer = State(requests[k].factory, v)]
  BY DEF Read
<1>3. State(requests[k].factory, v) \in States
      /\ State(requests[k].factory, v).factory = requests[k].factory
  BY <1>1, StateType DEF Requests
<1>4. [requests[k] EXCEPT !.answer = State(requests[k].factory, v)]
        \in Requests(factory)
  BY <1>1, <1>3 DEF Requests
<1>5. requests' = [requests EXCEPT ![k] =
                     [requests[k] EXCEPT !.answer = State(requests[k].factory, v)]]
  BY <1>2
<1>6. requests' \in Seq(Requests(factory))
  BY <1>1, <1>4, <1>5, ExceptSeq
<1> QED BY <1>6 DEF Read, shown, OwnFactoryOnceAnswered

LEMMA ReceiveStep == ASSUME IInv, NEW k \in 1..MaxRequests, Receive(k) PROVE IInv'
<1> USE DEF IInv
<1>1. k \in 1..Len(requests) /\ requests[k] \in Requests(factory)
  BY LenProperties, ElementOfSeq DEF Receive
<1>2. requests' \in Seq(Requests(factory))
  BY <1>1, RemoveAtType DEF Receive
<1>3. UNCHANGED <<latest, replica, factory>> /\ requests[k].answer # None
  BY DEF Receive
<1>4. CASE requests[k].current
  <2>1. requests[k].answer \in States /\ requests[k].answer.factory = factory
    BY <1>1, <1>3, <1>4 DEF Requests
  <2>2. /\ data' = requests[k].answer /\ live' = requests[k].answer
        /\ cache' = [cache EXCEPT ![factory] = requests[k].answer]
    BY <1>4 DEF Receive
  <2> QED BY <1>2, <1>3, <2>1, <2>2 DEF OwnFactoryOnceAnswered
<1>5. CASE ~requests[k].current
  BY <1>2, <1>3, <1>5 DEF Receive, OwnFactoryOnceAnswered
<1> QED BY <1>4, <1>5

\* Nothing else touches a request's answer or what was answered.
LEMMA RequestsStep ==
  ASSUME IInv,
         Refresh \/ \E k \in 1..MaxRequests : RequestFails(k)
  PROVE  IInv'
<1> USE DEF IInv
<1>1. CASE Refresh
  <2>1. <<Request(factory)>> \in Seq(Requests(factory))
    BY RequestType
  <2> QED BY <1>1, <2>1 DEF Refresh, shown, OwnFactoryOnceAnswered
<1>2. ASSUME NEW k \in 1..MaxRequests, RequestFails(k) PROVE IInv'
  <2>1. k \in 1..Len(requests)
    BY <1>2, LenProperties DEF RequestFails
  <2>2. requests' \in Seq(Requests(factory))
    BY <1>2, <2>1, RemoveAtType DEF RequestFails
  <2> QED BY <1>2, <2>2 DEF RequestFails, shown, OwnFactoryOnceAnswered
<1> QED BY <1>1, <1>2

LEMMA SocketStep == ASSUME IInv, NEW s, Socket(s) PROVE IInv'
<1> USE DEF IInv
<1>1. CASE OnMessage(s)
  <2>1. /\ UNCHANGED <<latest, replica, factory, data, cache, requests>>
        /\ live' = IF message'.factory = factory THEN message' ELSE live
    BY <1>1 DEF OnMessage
  <2> QED BY <2>1 DEF OwnFactoryOnceAnswered
<1>2. CASE \/ OpensSocket(s) \/ Accept(s) \/ Subscribe(s) \/ Breaks(s)
           \/ OnClose(s)
  BY <1>2 DEF OpensSocket, Accept, Subscribe, Breaks, OnClose, shown,
              OwnFactoryOnceAnswered
<1> QED BY <1>1, <1>2 DEF Socket

LEMMA BackendStep ==
  ASSUME IInv,
         \/ \E f \in Factories : Change(f)
         \/ Replicate \/ Invoke \/ Publish \/ NotifierFails
         \/ \E k \in 1..MaxSockets : Retry(k)
         \/ UNCHANGED vars
  PROVE  IInv'
<1> USE DEF IInv
<1>1. ASSUME NEW f \in Factories, Change(f) PROVE IInv'
  <2>1. /\ latest' = [latest EXCEPT ![f] = @ + 1]
        /\ UNCHANGED <<replica, factory, data, cache, live, requests>>
    BY <1>1 DEF Change, shown
  <2>2. latest' \in [Factories -> Nat]
    <3>1. latest[f] + 1 \in Nat
      OBVIOUS
    <3> QED BY <2>1, <3>1
  <2> QED BY <2>1, <2>2 DEF OwnFactoryOnceAnswered
<1>2. CASE Replicate
  BY <1>2 DEF Replicate, shown, OwnFactoryOnceAnswered
<1>3. CASE Invoke \/ Publish \/ NotifierFails
  BY <1>3 DEF Invoke, Publish, NotifierFails, shown, OwnFactoryOnceAnswered
<1>4. ASSUME NEW k \in 1..MaxSockets, Retry(k) PROVE IInv'
  BY <1>4 DEF Retry, shown, OwnFactoryOnceAnswered
<1>5. CASE UNCHANGED vars
  BY <1>5 DEF vars, shown, OwnFactoryOnceAnswered
<1> QED BY <1>1, <1>2, <1>3, <1>4, <1>5

LEMMA StepIInv == IInv /\ [Next]_vars => IInv'
BY NavigateStep, ReadStep, ReceiveStep, RequestsStep, SocketStep, BackendStep
   DEF Next, Pull

-----------------------------------------------------------------------------
\* Whatever comes in late, an answered page shows its own factory's state.
THEOREM AnsweredPageIsOwn == Spec => []OwnFactoryOnceAnswered
<1>1. IInv => OwnFactoryOnceAnswered
  BY DEF IInv
<1> QED BY <1>1, InitIInv, StepIInv, PTL DEF Spec
=============================================================================
