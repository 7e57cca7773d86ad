------------------------------- MODULE LiveView -------------------------------
(***************************************************************************)
(* From a LATEST item to the page of a factory: the stream's notifier      *)
(* publishes changes, the backend passes them on to WebSockets, and the    *)
(* page shows what was pushed or asked for last (FactoryPage.tsx).  The    *)
(* page stays mounted while its user moves from factory to factory, so     *)
(* what was started for one factory may end on the page of another.        *)
(* A state is known by its factory and its number; the session is valid.   *)
(***************************************************************************)
EXTENDS Integers, Sequences, FiniteSets, FiniteSetsExt, SequencesExt

CONSTANTS Factories,
          MaxRetries,  \* MAX_RETRIES
          MaxChanges,  \* bound: changes of the factories' states
          MaxVisits,   \* bound: moves to another factory
          MaxFaults,   \* bound: failing calls and connections
          MaxRequests, \* bound: requests of the page at a time
          MaxSockets   \* bound: sockets at a time

ASSUME {MaxRetries, MaxChanges, MaxVisits, MaxFaults, MaxRequests, MaxSockets} \subseteq Nat

None == [factory |-> "none", version |-> 0]

VARIABLES latest,    \* the number of each factory's state in DynamoDB
          replica,   \* the number a read that is not consistent may find
          records,   \* the stream's records nobody has processed
          batch,     \* how many of them the notifier was invoked with, or 0
          published, \* how many of those it has published
          factory,   \* the page's
          visits,
          data,      \* the last answer: useFactory()
          cache,     \* the last answer of each factory
          live,      \* what the page shows: liveData
          message,   \* the last message: lastMessage
          requests,  \* for states, in the order of asking
          sockets,   \* [id, factory, phase, inbox]
          wsRef,     \* the socket that a cleanup closes, or 0
          timers,    \* [factory, held] of connections to be retried; a cleanup
          retries,   \*   clears the one that retryTimerRef holds
          faults

stream == <<records, batch, published>>
shown == <<factory, visits, data, cache, live, message>>
connection == <<sockets, wsRef, timers, retries>>
vars == <<latest, replica, stream, shown, requests, connection, faults>>

State(f, v) == [factory |-> f, version |-> v]

Request(f) == [factory |-> f, current |-> TRUE, answer |-> None]

\* connect(), which first waits for the access token
Connect(all, f) ==
  all \cup {[id |-> Min((1..MaxSockets) \ {s.id : s \in all}),
             factory |-> f, phase |-> "token", inbox |-> << >>]}

Init ==
  /\ latest = [f \in Factories |-> 1] /\ replica = latest
  /\ records = << >> /\ batch = 0 /\ published = 0
  /\ factory \in Factories /\ visits = 0
  /\ data = None /\ cache = [f \in Factories |-> None]
  /\ live = None /\ message = None
  /\ requests = <<Request(factory)>>
  /\ sockets = Connect({}, factory) /\ wsRef = 0 /\ timers = << >> /\ retries = 0
  /\ faults = 0

Fault == faults < MaxFaults /\ faults' = faults + 1

-----------------------------------------------------------------------------
\* The data processor changes LATEST; the stream keeps the new image.
Change(f) ==
  /\ MapThenSumSet(LAMBDA g : latest[g] - 1, Factories) < MaxChanges
  /\ latest' = [latest EXCEPT ![f] = @ + 1]
  /\ records' = Append(records, State(f, latest'[f]))
  /\ UNCHANGED <<replica, batch, published, shown, requests, connection, faults>>

Replicate ==
  /\ replica' = latest
  /\ UNCHANGED <<latest, stream, shown, requests, connection, faults>>

\* The mapping invokes the notifier with all records there are, at most ten.
Invoke ==
  /\ batch = 0 /\ records # << >>
  /\ batch' = Len(records)
  /\ UNCHANGED <<latest, replica, records, published, shown, requests, connection, faults>>

\* What is published goes to the sockets that are subscribed by now.
Pushed(r) ==
  {IF s.factory = r.factory /\ s.phase = "subscribed"
     THEN [s EXCEPT !.inbox = Append(@, r)] ELSE s : s \in sockets}

Publish ==
  /\ batch > 0
  /\ sockets' = Pushed(records[published + 1])
  /\ IF published + 1 < batch
       THEN published' = published + 1 /\ UNCHANGED <<records, batch>>
       ELSE /\ records' = SubSeq(records, batch + 1, Len(records))
            /\ batch' = 0 /\ published' = 0
  /\ UNCHANGED <<latest, replica, shown, requests, wsRef, timers, retries, faults>>

\* The notifier fails: all of the batch or its first half is published again,
\* and when that fails too often the batch goes to the DLQ.
NotifierFails ==
  /\ batch > 0 /\ Fault
  /\ published' = 0
  /\ \/ batch' \in {batch, (batch + 1) \div 2} /\ UNCHANGED records
     \/ batch' = 0 /\ records' = SubSeq(records, batch + 1, Len(records))
  /\ UNCHANGED <<latest, replica, shown, requests, connection>>

-----------------------------------------------------------------------------
\* The sockets.  A step takes socket s to s2.
Step(s, s2) == sockets' = (sockets \ {s}) \cup {s2}

OpensSocket(s) ==
  /\ s.phase = "token"
  /\ Step(s, [s EXCEPT !.phase = "connecting"])
  /\ wsRef' = s.id
  /\ UNCHANGED <<latest, replica, stream, shown, requests, timers, retries, faults>>

\* The backend has verified the token and the access to the factory.
Accept(s) ==
  /\ s.phase = "connecting"
  /\ Step(s, [s EXCEPT !.phase = "open"])
  /\ retries' = 0
  /\ UNCHANGED <<latest, replica, stream, shown, requests, wsRef, timers, faults>>

Subscribe(s) ==
  /\ s.phase = "open"
  /\ Step(s, [s EXCEPT !.phase = "subscribed"])
  /\ UNCHANGED <<latest, replica, stream, shown, requests, wsRef, timers, retries, faults>>

\* A connection is refused or breaks, or the backend's subscription fails.
Breaks(s) ==
  /\ s.phase \in {"connecting", "open", "subscribed"}
  /\ Fault
  /\ Step(s, [s EXCEPT !.phase = "closed", !.inbox = << >>])
  /\ UNCHANGED <<latest, replica, stream, shown, requests, wsRef, timers, retries>>

\* onclose comes later, when unmountedRef is FALSE again: a socket that was
\* closed by a move to another factory is opened anew, too.
\* retryTimerRef forgets the timer it held, which goes on.
OnClose(s) ==
  /\ s.phase = "closed"
  /\ sockets' = sockets \ {s}
  /\ wsRef' = IF wsRef = s.id THEN 0 ELSE wsRef
  /\ IF retries < MaxRetries
       THEN /\ retries' = retries + 1
            /\ timers' = Append([k \in DOMAIN timers |-> [timers[k] EXCEPT !.held = FALSE]],
                                [factory |-> s.factory, held |-> TRUE])
       ELSE UNCHANGED <<retries, timers>>
  /\ UNCHANGED <<latest, replica, stream, shown, requests, faults>>

Retry(k) ==
  /\ k \in DOMAIN timers /\ Cardinality(sockets) < MaxSockets
  /\ sockets' = Connect(sockets, timers[k].factory)
  /\ timers' = RemoveAt(timers, k)
  /\ UNCHANGED <<latest, replica, stream, shown, requests, wsRef, retries, faults>>

\* A faulty variant of OnMessage: of any factory.
OnMessageOfAny(s) ==
  /\ s.inbox # << >>
  /\ Step(s, [s EXCEPT !.inbox = Tail(@)])
  /\ message' = Head(s.inbox) /\ live' = message'
  /\ UNCHANGED <<latest, replica, stream, factory, visits, data, cache, requests,
                 wsRef, timers, retries, faults>>

\* onmessage(), and the page's effect of a new lastMessage
OnMessage(s) ==
  /\ s.inbox # << >>
  /\ Step(s, [s EXCEPT !.inbox = Tail(@)])
  /\ message' = Head(s.inbox)
  /\ live' = IF message'.factory = factory THEN message' ELSE live
  /\ UNCHANGED <<latest, replica, stream, factory, visits, data, cache, requests,
                 wsRef, timers, retries, faults>>

-----------------------------------------------------------------------------
Outdated == [k \in DOMAIN requests |-> [requests[k] EXCEPT !.current = FALSE]]

\* The effects of another factoryId.  A cached state is shown; without one,
\* what is shown changes only when there was an answer to forget.
Navigate(f) ==
  /\ f # factory /\ visits < MaxVisits
  /\ Len(requests) < MaxRequests /\ Cardinality(sockets) < MaxSockets
  /\ factory' = f /\ visits' = visits + 1
  /\ data' = cache[f]
  /\ live' = IF cache[f] # data THEN cache[f]
             ELSE IF message.factory = f THEN message ELSE live
  /\ requests' = Append(Outdated, Request(f))
  /\ sockets' = Connect({IF s.id = wsRef THEN [s EXCEPT !.phase = "closed", !.inbox = << >>]
                         ELSE s : s \in sockets}, f)
  /\ timers' = SelectSeq(timers, LAMBDA t : ~t.held)
  /\ UNCHANGED <<latest, replica, stream, cache, message, wsRef, retries, faults>>

\* The refresh interval, longer than a request takes
Refresh ==
  /\ requests = << >>
  /\ requests' = <<Request(factory)>>
  /\ UNCHANGED <<latest, replica, stream, shown, connection, faults>>

\* The backend's get_item() is not a consistent read.
Read(k) ==
  /\ k \in DOMAIN requests /\ requests[k].answer = None
  /\ LET f == requests[k].factory
     IN \E v \in {latest[f], replica[f]} :
          requests' = [requests EXCEPT ![k].answer = State(f, v)]
  /\ UNCHANGED <<latest, replica, stream, shown, connection, faults>>

\* A faulty variant of Receive: an answer does not replace what was pushed.
ReceiveBehind(k) ==
  /\ k \in DOMAIN requests /\ requests[k].answer # None
  /\ requests' = RemoveAt(requests, k)
  /\ IF requests[k].current
       THEN /\ data' = requests[k].answer
            /\ cache' = [cache EXCEPT ![factory] = requests[k].answer]
            /\ live' = IF live.factory = factory THEN live ELSE requests[k].answer
       ELSE UNCHANGED <<data, cache, live>>
  /\ UNCHANGED <<latest, replica, stream, factory, visits, message, connection, faults>>

\* load(): an answer to an earlier request is dropped; another is shown,
\* though what was pushed meanwhile may be newer.
Receive(k) ==
  /\ k \in DOMAIN requests /\ requests[k].answer # None
  /\ requests' = RemoveAt(requests, k)
  /\ IF requests[k].current
       THEN /\ data' = requests[k].answer /\ live' = data'
            /\ cache' = [cache EXCEPT ![factory] = requests[k].answer]
       ELSE UNCHANGED <<data, cache, live>>
  /\ UNCHANGED <<latest, replica, stream, factory, visits, message, connection, faults>>

RequestFails(k) ==
  /\ k \in DOMAIN requests /\ Fault
  /\ requests' = RemoveAt(requests, k)
  /\ UNCHANGED <<latest, replica, stream, shown, connection>>

Socket(s) == OpensSocket(s) \/ Accept(s) \/ Subscribe(s) \/ Breaks(s) \/ OnClose(s) \/ OnMessage(s)

Pull(k) == Read(k) \/ Receive(k)

Next ==
  \/ \E f \in Factories : Change(f) \/ Navigate(f)
  \/ Replicate \/ Invoke \/ Publish \/ NotifierFails
  \/ \E s \in sockets : Socket(s)
  \/ Refresh \/ \E k \in 1..MaxRequests : Pull(k) \/ RequestFails(k)
  \/ \E k \in 1..MaxSockets : Retry(k)

Spec == Init /\ [][Next]_vars

\* Requests are answered or fail, replicas follow, the stream is processed, and
\* messages arrive; the user has turned the refresh interval on.
FairSpec ==
  /\ Spec
  /\ WF_vars(Replicate) /\ WF_vars(Invoke) /\ WF_vars(Publish)
  /\ WF_vars(\E s \in sockets : OnMessage(s))
  /\ WF_vars(Refresh) /\ WF_vars(Pull(1))

-----------------------------------------------------------------------------

\* Answers, messages and sockets of factories the user has left still come in:
\* once the page of a factory has an answer, it shows no other's state.
OwnFactoryOnceAnswered ==
  data # None => data.factory = factory /\ live.factory = factory

\* Pushes are lost, repeated and overtaken by answers.  With the refresh
\* interval on, the page comes to show the state there is all the same.
EventuallyCurrent == <>[](live = State(factory, latest[factory]))
=============================================================================
