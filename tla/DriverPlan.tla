---------------------------- MODULE DriverPlan ----------------------------
(***************************************************************************)
(* The time axis of a duty in the driver's app (web/lokforaren/korplan.js) *)
(* and the filter of the catalogue (duties.js): pure functions of a duty   *)
(* and of the meet clock.  Times are minutes; the axis is in steps of      *)
(* 1/Parts of a minute, so that rows of the same minute get the hairline   *)
(* slope the code gives them (0.001 minute there).                         *)
(*                                                                         *)
(* An event is [kind, station, train, t, t2]: t2 # t only for a stop.      *)
(***************************************************************************)
LOCAL INSTANCE Integers
LOCAL INSTANCE Sequences
LOCAL INSTANCE FiniteSets
LOCAL INSTANCE SequencesExt


Day == 1440
PxPerMinute == 7
CompressAfter == 40
CompressedHeight == 160
PreRoll == 20
PostRoll == 30
Top == 30
RowMin == 44
TrainExtra == 42
NoteLine == 18
Parts == 20

Abs(n) == IF n < 0 THEN -n ELSE n
Larger(a, b) == IF a > b THEN a ELSE b

\* onAxis: a time more than six hours before the last one is past midnight.
OnAxis(last, t) == IF last # -1 /\ t < last - 360 THEN t + Day * ((last - 360 - t + Day - 1) \div Day) ELSE t

\* rowsOf: the events in their order, on an axis that goes on.
RowsOf(events) ==
    LET Row(rows, e) ==
          LET last == IF rows = <<>> THEN -1 ELSE rows[Len(rows)].t2
              t == OnAxis(last, e.t)
          IN  Append(rows, [e EXCEPT !.t = t, !.t2 = IF e.kind = "stop" THEN OnAxis(t, e.t2) ELSE t])
    IN  FoldLeft(Row, <<>>, events)

NotesSpace(row) == IF row.notes = 0 THEN 0 ELSE 8 + row.notes * NoteLine

\* trainStarts: the first row of each train.
StartsTrain(rows, i) ==
    /\ rows[i].train # ""
    /\ LET before == {j \in 1 .. i - 1 : rows[j].train # ""}
       IN  before = {} \/ rows[CHOOSE j \in before : \A k \in before : k <= j].train # rows[i].train

\* The times with a place on the axis: arrival and departure for a stop.
Points(rows) ==
    LET Of(i) == IF rows[i].kind = "stop"
                 THEN <<[t |-> rows[i].t, row |-> i, first |-> TRUE], [t |-> rows[i].t2, row |-> i, first |-> FALSE]>>
                 ELSE <<[t |-> rows[i].t, row |-> i, first |-> TRUE]>>
    IN  FlattenSeq([i \in DOMAIN rows |-> Of(i)])

\* What two neighbouring times need between them, in pixels.
Need(rows, p, q) ==
    LET own == IF q.row = p.row THEN RowMin + NotesSpace(rows[p.row])
               ELSE RowMin + (IF p.first THEN NotesSpace(rows[p.row]) ELSE 0)
    IN  own + (IF q.first /\ StartsTrain(rows, q.row) THEN TrainExtra ELSE 0)

Between(rows, p, q) ==
    LET minutes == Larger(0, q.t - p.t) IN
    IF minutes > CompressAfter /\ q.row # p.row
    THEN Larger(CompressedHeight, Need(rows, p, q) + 40)
    ELSE Larger(minutes * PxPerMinute, Need(rows, p, q))

EndOf(rows) == LET ends == {rows[i].t2 : i \in DOMAIN rows} IN CHOOSE t \in ends : \A u \in ends : u <= t

\* build: the anchors of the axis, from twenty minutes before to thirty after.
Anchors(rows) ==
    LET points == Points(rows)
        first == Larger(Top + PreRoll * PxPerMinute, IF StartsTrain(rows, 1) THEN Top + TrainExtra + 24 ELSE 0)
        Place(anchors, i) ==
          LET y == anchors[Len(anchors)].y + Between(rows, points[i - 1], points[i])
              slope == IF points[i].t = points[i - 1].t THEN i - 1 ELSE 0
          IN  Append(anchors, [t |-> points[i].t * Parts + slope, y |-> y])
        placed == FoldLeft(Place, <<[t |-> points[1].t * Parts, y |-> first]>>,
                           [i \in 1 .. Len(points) - 1 |-> i + 1])
    IN  <<[t |-> (rows[1].t - PreRoll) * Parts, y |-> Top]>> \o placed
          \o <<[t |-> (EndOf(rows) + PostRoll) * Parts, y |-> placed[Len(placed)].y + PostRoll * PxPerMinute]>>

\* moments: two for a stop.
Moments(rows) ==
    LET Of(i) == IF rows[i].kind = "stop"
                 THEN <<[t |-> rows[i].t, kind |-> "arrival", station |-> rows[i].station],
                        [t |-> rows[i].t2, kind |-> "departure", station |-> rows[i].station]>>
                 ELSE <<[t |-> rows[i].t, kind |-> rows[i].kind, station |-> rows[i].station]>>
    IN  FlattenSeq([i \in DOMAIN rows |-> Of(i)])

Build(events) ==
    LET rows == RowsOf(events)
    IN  [rows |-> rows, anchors |-> Anchors(rows), moments |-> Moments(rows), start |-> rows[1].t, end |-> EndOf(rows)]

\* yAt: piecewise linear between the anchors, and still outside them.
YAt(plan, minutes) ==
    LET a == plan.anchors
        t == minutes * Parts
        later == {i \in DOMAIN a : t <= a[i].t}
    IN  IF later = {} THEN a[Len(a)].y
        ELSE LET i == CHOOSE i \in later : \A j \in later : i <= j IN
             IF i = 1 THEN a[1].y
             ELSE a[i - 1].y + ((t - a[i - 1].t) * (a[i].y - a[i - 1].y)) \div (a[i].t - a[i - 1].t)

\* axisMinutes: the turn of the clock that is nearest to the duty; of two as
\* near, the one the code meets first.
AxisMinutes(minutes, plan) ==
    LET Nearer(best, k) ==
          LET candidate == minutes + k * Day IN
          IF Abs(2 * candidate - (plan.start + plan.end)) < Abs(2 * best - (plan.start + plan.end))
          THEN candidate ELSE best
    IN  FoldLeft(Nearer, minutes, <<-1, 1, 2>>)

\* next: the first moment in the order of the rows that is later.
Ended == [t |-> -1, kind |-> "end", station |-> ""]
NextMoment(plan, now) ==
    LET later == SelectSeq(plan.moments, LAMBDA m : m.t > now)
    IN  IF later = <<>> THEN Ended ELSE Head(later)

\* filter of duties.js: the duties that begin within the hour, or have begun.
InTime(start, end, which, now) ==
    LET through == (now - start) % Day IN
    CASE which = "all" -> TRUE
      [] which = "soon" -> (start - now) % Day <= 60
      [] which = "ongoing" -> through < (IF end < start THEN end + Day ELSE end) - start
=============================================================================
