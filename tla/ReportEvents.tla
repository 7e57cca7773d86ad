----------------------------- MODULE ReportEvents -----------------------------
(***************************************************************************)
(* What the factory and the cloud report share: the hours of a day         *)
(* (time_window.py), the records of an hour, collection gaps, the runs of  *)
(* samples that make an event (event_detection.py), the events that are    *)
(* kept (severity.py) and those that are joined over an hour's end         *)
(* (merge_daily.py).  A tick is a minute, and hours are HourTicks long.    *)
(* No two records of a dataset have one time, as keys hold the second;     *)
(* time zones are whole hours from UTC, so hours are S3 partitions.        *)
(***************************************************************************)
EXTENDS Integers, Sequences, FiniteSets, SequencesExt

CONSTANTS Hours,     \* the hours of a day: 24, scaled down
          HourTicks, \* 60, scaled down
          MaxGaps,   \* gap windows kept per hour, 10, and per day
          MaxEvents, \* events kept of a day, 10: MAX_CONTEXT_EVENTS
          MaxBonus   \* minutes of an event or a gap that count for its score, 20

ASSUME ReportAssumption ==
  {Hours, HourTicks, MaxGaps, MaxEvents, MaxBonus} \subseteq Nat \ {0}

HourSet == 0..Hours - 1

\* The window of an hour: its end is its last tick.
Start(hour) == hour * HourTicks
End(hour) == Start(hour) + HourTicks - 1

\* A faulty variant of ExclusiveEnd: the last tick of an hour falls out.
ExclusiveEndAsIs(end) == end
ExclusiveEnd(end) == end + 1

\* Records under keys that hold the dataset and the second.
Stored(records) ==
  /\ IsFiniteSet(records)
  /\ \A r \in records : r.time \in 0..Hours * HourTicks - 1
  /\ \A r, q \in records : r.dataset = q.dataset /\ r.time = q.time => r = q

\* A sequence as it is, whose elements TLC evaluates once.
Listed(seq) == << >> \o seq

\* _valid_unique_records(): the hour's records of one dataset, in order.
HourRecords(files, dataset, hour) ==
  LET of == {r \in files : /\ r.dataset = dataset
                           /\ r.time >= Start(hour)
                           /\ r.time < ExclusiveEnd(End(hour))}
  IN Listed([k \in 1..Cardinality(of) |->
        CHOOSE r \in of : Cardinality({q \in of : q.time < r.time}) = k - 1])

-----------------------------------------------------------------------------
Least(a, b) == IF a <= b THEN a ELSE b
Most(a, b) == IF a >= b THEN a ELSE b

\* max(..., default=0) and sum() over a sequence of numbers.
MostOf(numbers) == FoldLeft(Most, 0, numbers)
LeastOf(numbers) == FoldLeft(Least, Head(numbers), numbers)
Total(numbers) == FoldLeft(LAMBDA a, b : a + b, 0, numbers)

Each(Op(_), seq) == Listed([k \in DOMAIN seq |-> Op(seq[k])])
Count(Test(_), seq) == Cardinality({k \in DOMAIN seq : Test(seq[k])})

\* SelectSeq, as a list of lists of one or no element.
Kept(Test(_), seq) ==
  FlattenSeq(Each(LAMBDA x : IF Test(x) THEN <<x>> ELSE << >>, seq))

\* The first `limit` elements of a stable sort.
Ranked(seq, Above(_, _), limit) ==
  LET rank(k) == Cardinality({j \in DOMAIN seq :
                   \/ Above(seq[j], seq[k])
                   \/ ~Above(seq[k], seq[j]) /\ j < k})
  IN Listed([n \in 1..Least(limit, Len(seq)) |->
               seq[CHOOSE k \in DOMAIN seq : rank(k) = n - 1]])

-----------------------------------------------------------------------------
(* Gaps *)

\* A faulty variant of GapWindows: silence up to the hour's end is no gap.
GapWindowsWithoutTail(dataset, records, start, end, allowed) ==
  LET marks == <<start>> \o Each(LAMBDA r : r.time, records)
      gaps == [k \in 1..Len(marks) - 1 |->
                [dataset |-> dataset, start |-> marks[k], end |-> marks[k + 1]]]
  IN Kept(LAMBDA g : g.end - g.start > allowed, gaps)

\* From the hour's start to its first record, between records, and from the
\* last to the hour's end; an hour without a record is one gap.
GapWindows(dataset, records, start, end, allowed) ==
  LET marks == <<start>> \o Each(LAMBDA r : r.time, records) \o <<end>>
      gaps == [k \in 1..Len(marks) - 1 |->
                [dataset |-> dataset, start |-> marks[k], end |-> marks[k + 1]]]
  IN Kept(LAMBDA g : records = << >> \/ g.end - g.start > allowed, gaps)

Length(gap) == gap.end - gap.start

LongestGaps(gaps) == Ranked(gaps, LAMBDA g, h : Length(g) > Length(h), MaxGaps)

-----------------------------------------------------------------------------
(* Events *)

\* threshold_windows(): one event per maximal run of samples that hit, as
\* grave as the gravest of them.
ThresholdWindows(samples, hits, interval, type, kind, magnitudes) ==
  LET first == Kept(LAMBDA k : hits[k] /\ (k = 1 \/ ~hits[k - 1]),
                    [k \in DOMAIN samples |-> k])
      last(k) == CHOOSE e \in k..Len(samples) :
                   /\ \A n \in k..e : hits[n]
                   /\ e = Len(samples) \/ ~hits[e + 1]
  IN Each(LAMBDA k :
            [type |-> type, kind |-> kind, severity |-> "warning",
             start |-> samples[k].time, end |-> samples[last(k)].time,
             minutes |-> (last(k) - k + 1) * interval,
             magnitude |-> MostOf(SubSeq(magnitudes, k, last(k)))],
          first)

Base == [info |-> 10, warning |-> 50, danger |-> 80]

Score(e) == Base[e.severity] + Least(e.minutes, MaxBonus) + e.magnitude

\* top_events(): by score, then by time of day, the latest first.
TopEvents(events, limit) ==
  LET above(e, f) == \/ Score(e) > Score(f)
                     \/ Score(e) = Score(f) /\ e.start > f.start
                     \/ Score(e) = Score(f) /\ e.start = f.start /\ e.end > f.end
  IN Ranked(events, above, limit)

MergeGap == 2

\* A faulty variant of MinuteDistance: minutes from one to the other.
MinutesFrom(leftEnd, rightStart) == rightStart - leftEnd

MinuteDistance(leftEnd, rightStart) == rightStart - leftEnd - 1

Combined(left, right) ==
  [left EXCEPT !.end = Most(@, right.end),
               !.minutes = Most(left.end, right.end) - left.start + 1,
               !.magnitude = Most(@, right.magnitude)]

\* Events of one kind, in order of their starts.
Joined(events) ==
  FoldLeft(LAMBDA done, e :
             IF done # << >> /\ MinuteDistance(Last(done).end, e.start) <= MergeGap
               THEN Front(done) \o <<Combined(Last(done), e)>>
               ELSE Append(done, e),
           << >>, Ranked(events, LAMBDA e, f : e.start < f.start, Len(events)))

\* merge_boundary_events(): kinds in order of their first event.
MergeBoundaryEvents(events) ==
  LET kinds == FoldLeft(LAMBDA ks, e : IF Contains(ks, e.kind) THEN ks
                                       ELSE Append(ks, e.kind), << >>, events)
      joined == Each(LAMBDA kind : Joined(Kept(LAMBDA e : e.kind = kind, events)),
                     kinds)
  IN Each(LAMBDA e : [e EXCEPT !.minutes = Most(@, e.end - e.start + 1)],
          FlattenSeq(joined))
=============================================================================
