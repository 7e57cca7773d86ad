---------------------------- MODULE AlertThrottle ----------------------------
(***************************************************************************)
(* What the risk-alert dispatcher promises, said without saying how: a     *)
(* Slack message about a fingerprint is posted only under a grant, grants  *)
(* of one fingerprint are made for ever newer snapshots and at least a     *)
(* cooldown apart, a grant is used at most once and only while the         *)
(* invocation that obtained it can still be running.  AlertDispatcher      *)
(* refines this module.                                                    *)
(***************************************************************************)
EXTENDS Naturals, Sequences

CONSTANTS Fingerprints,   \* the alerts' (pk, sk) pairs
          Stamps,         \* values of source_updated_at
          Cooldown,       \* _cooldown_seconds
          Timeout,        \* the Lambda timeout
          MaxClock        \* bound: the clock stops here

\* What a user of this module must provide: messages are a cooldown apart
\* only if the cooldown outlasts the invocation that obtained the grant.
ThrottleAssumption ==
  /\ Stamps \subseteq Nat \ {0}
  /\ Cooldown \in Nat
  /\ Timeout \in Nat
  /\ Timeout < Cooldown
  /\ MaxClock \in Nat

VARIABLES clock,          \* epoch, in ticks
          granted,        \* every reservation ever obtained
          slackLog        \* what the Slack channel received, in order

vars == <<clock, granted, slackLog>>

Grants == [fp : Fingerprints, stamp : Stamps, at : Nat]

Posts == [fp : Fingerprints, stamp : Stamps, grantedAt : Nat, at : Nat]

TypeOK ==
  /\ clock \in 0..MaxClock
  /\ granted \subseteq Grants
  /\ slackLog \in Seq(Posts)

Init ==
  /\ clock = 0
  /\ granted = {}
  /\ slackLog = << >>

\* A grant is newer than every earlier grant of its fingerprint and outside
\* the cooldown each of them opened.
Admissible(g) ==
  \A h \in granted :
    h.fp = g.fp => h.stamp < g.stamp /\ h.at + Cooldown <= g.at

Grant(g) ==
  /\ clock <= g.at + Timeout
  /\ Admissible(g)
  /\ granted' = granted \cup {g}
  /\ UNCHANGED <<clock, slackLog>>

Posted(g) ==
  \E i \in 1..Len(slackLog) :
    /\ slackLog[i].fp = g.fp
    /\ slackLog[i].stamp = g.stamp

Post(g) ==
  /\ clock <= g.at + Timeout
  /\ ~Posted(g)
  /\ slackLog' = Append(slackLog, [fp |-> g.fp, stamp |-> g.stamp,
                                   grantedAt |-> g.at, at |-> clock])
  /\ UNCHANGED <<clock, granted>>

Tick ==
  /\ clock < MaxClock
  /\ clock' = clock + 1
  /\ UNCHANGED <<granted, slackLog>>

Next ==
  \/ \E f \in Fingerprints, s \in Stamps, t \in 0..clock :
       Grant([fp |-> f, stamp |-> s, at |-> t])
  \/ \E g \in granted : Post(g)
  \/ Tick

Spec == Init /\ [][Next]_vars

-----------------------------------------------------------------------------
(* The consequences an operator of the system cares about. *)

\* Two messages about one fingerprint are a cooldown apart, less the time an
\* invocation may take between reading the clock and calling Slack.
PostsSpaced ==
  \A i, j \in 1..Len(slackLog) :
    i < j /\ slackLog[i].fp = slackLog[j].fp
    => slackLog[j].at + Timeout >= slackLog[i].at + Cooldown

\* The channel hears about one fingerprint in the order of the snapshots, and
\* of each snapshot at most once.
PostsInOrder ==
  \A i, j \in 1..Len(slackLog) :
    i < j /\ slackLog[i].fp = slackLog[j].fp
    => slackLog[i].stamp < slackLog[j].stamp
=============================================================================
