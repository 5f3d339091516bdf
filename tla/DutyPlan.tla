------------------------------ MODULE DutyPlan -----------------------------
(***************************************************************************)
(* The duty a driver reads, out of the planning file (fromPlan of          *)
(* web/lokforaren-koruppdrag.js): the calls of the trains it drives, cut   *)
(* to its parts, with the meets and overtakings told at each call.  A call *)
(* has its times here; vehicles, notes and names are left out.             *)
(***************************************************************************)
EXTENDS Integers, Sequences, SequencesExt, FiniteSetsExt

CONSTANTS
    Trains, Stretches,  \* the stretches of the layout: <<start, end>>
    Hidden,             \* stations where meets are not told (HideMeets)
    Serves,             \* <<train, station>> where the train may stop (isStop)
    Sessions,           \* [train -> the sessions it runs]
    Reader,             \* the sessions of the duty
    Period, DAY,
    Begins,             \* [train -> where it may begin]
    Times, MaxCalls, MaxParts,
    None

VARIABLES
    calls, \* [train -> its calls: station, arrival, departure], in order
    duty   \* the parts of the duty: from a call of a train to a call of a train

vars == <<calls, duty>>

Init == calls = [t \in Trains |-> <<>>] /\ duty = <<>>

\* The plan the program reads: a train goes on over a stretch, later.
AddCall(t, station, arrival, departure) ==
    LET last == calls[t][Len(calls[t])]
    IN /\ duty = <<>> /\ Len(calls[t]) < MaxCalls
       /\ arrival <= departure
       /\ calls[t] = <<>> => station \in Begins[t]
       /\ calls[t] # <<>> =>
            /\ last.departure < arrival
            /\ <<last.station, station>> \in Stretches \/ <<station, last.station>> \in Stretches
       /\ calls' = [calls EXCEPT ![t] = Append(@, [station |-> station, arrival |-> arrival, departure |-> departure])]
       /\ UNCHANGED duty

At(point) == calls[point.train][point.index]

\* A part goes on where the duty is, over a train or from the end of one into another that
\* begins there (the train changes its number).  Shunting, one call, comes first only.
AddPart(from, to) ==
    /\ Len(duty) < MaxParts
    /\ from.index \in DOMAIN calls[from.train] /\ to.index \in DOMAIN calls[to.train]
    /\ IF from.train = to.train THEN from.index <= to.index
       ELSE LET end == calls[from.train][Len(calls[from.train])]
            IN /\ from.index < Len(calls[from.train]) /\ to.index > 1
               /\ calls[to.train][1].station = end.station /\ calls[to.train][1].arrival >= end.departure
    /\ duty # <<>> => LET last == At(duty[Len(duty)].to)
                      IN from # to /\ last.station = At(from).station /\ last.departure <= At(from).departure
    /\ duty' = Append(duty, [from |-> from, to |-> to])
    /\ UNCHANGED calls

Points == [train : Trains, index : 1..MaxCalls]
Stations == {s[1] : s \in Stretches} \cup {s[2] : s \in Stretches}

Next ==
    \/ \E t \in Trains, station \in Stations, arrival, departure \in Times : AddCall(t, station, arrival, departure)
    \/ \E from, to \in Points : AddPart(from, to)

(* --------------------------------- meets -------------------------------- *)

\* The direction in which a stretch is run.
Between(a, b) ==
    IF <<a, b>> \in Stretches THEN "forward" ELSE IF <<b, a>> \in Stretches THEN "backward" ELSE None

\* directionInto: the way a train comes, or goes where it begins.
Way(t, i) ==
    LET arrives == IF i > 1 THEN Between(calls[t][i - 1].station, calls[t][i].station) ELSE None
    IN IF arrives # None THEN arrives
       ELSE IF i < Len(calls[t]) THEN Between(calls[t][i].station, calls[t][i + 1].station) ELSE None

IsEnd(t, i) == i = 1 \/ i = Len(calls[t])

\* What call i of train t has to do with call j of train u.
Kind(t, i, u, j) ==
    LET me == calls[t][i]
        other == calls[u][j]
    IN IF u = t \/ me.station # other.station \/ me.station \in Hidden \/ IsEnd(t, i) \/ IsEnd(u, j) THEN None
       ELSE IF Way(t, i) = None \/ Way(u, j) = None THEN None
       ELSE IF Way(t, i) # Way(u, j)
         THEN IF other.arrival < me.departure /\ other.departure > me.arrival THEN "crosses" ELSE None
       ELSE IF other.arrival < me.arrival /\ other.departure > me.departure THEN "overtakes"
       ELSE IF me.arrival < other.arrival /\ me.departure > other.departure THEN "overtaken_by"
       ELSE None

\* qualifier: None is every session.
Qualifier(set) == IF Cardinality(set) = Period THEN None ELSE set

\* The sessions that are told with a meeting: those of the duty need not be said.
When(t, shared) == IF shared = Reader THEN None ELSE Qualifier(shared)

\* The meetings told at a call: [kind, train, from, to, when].
Meets(t, i) ==
    {[kind |-> Kind(t, i, u, j), train |-> u, when |-> When(t, Sessions[t] \cap Sessions[u]),
      from |-> Max({calls[t][i].arrival, calls[u][j].arrival}) % DAY,
      to |-> Min({calls[t][i].departure, calls[u][j].departure}) % DAY] :
        <<u, j>> \in {p \in Trains \X (1..MaxCalls) :
            /\ p[2] \in DOMAIN calls[p[1]] /\ Kind(t, i, p[1], p[2]) # None
            /\ Sessions[t] \cap Sessions[p[1]] # {}}}

(* ------------------------------- the events ----------------------------- *)

\* One train at a time: a part that ends on another train takes the rest of the first.
Segments(part) ==
    IF part.from.train = part.to.train
    THEN <<[train |-> part.from.train, first |-> part.from.index, last |-> part.to.index]>>
    ELSE <<[train |-> part.from.train, first |-> part.from.index, last |-> Len(calls[part.from.train])],
           [train |-> part.to.train, first |-> 1, last |-> part.to.index]>>

Event(segment, i) ==
    LET call == calls[segment.train][i]
        single == segment.first = segment.last
        tell == IF i = segment.first /\ ~single THEN {} ELSE Meets(segment.train, i)
        Is(kind, times) == [kind |-> kind, times |-> times, station |-> call.station, train |-> segment.train, meets |-> tell]
    IN IF i = segment.first /\ ~single THEN Is("departure", <<call.departure % DAY>>)
       ELSE IF i = segment.last /\ ~single THEN Is("arrival", <<call.arrival % DAY>>)
       ELSE IF <<segment.train, call.station>> \in Serves \/ call.arrival # call.departure
         THEN Is("stop", <<call.arrival % DAY, call.departure % DAY>>)
       ELSE Is("pass", <<call.departure % DAY>>)

Walk(segment) ==
    [k \in 1..(segment.last - segment.first + 1) |-> Event(segment, segment.first + k - 1)]

AllSegments == FlattenSeq([k \in DOMAIN duty |-> Segments(duty[k])])
Driven == FlattenSeq([k \in DOMAIN AllSegments |-> Walk(AllSegments[k])])

Edge(kind, time, event) ==
    [kind |-> kind, times |-> <<time>>, station |-> event.station, train |-> None, meets |-> {}]

FirstCall == calls[AllSegments[1].train][AllSegments[1].first]
LastCall == LET s == AllSegments[Len(AllSegments)] IN calls[s.train][s.last]

\* The duty begins when the first train arrives and ends when the last one leaves.
Events ==
    LET driven == Driven
        times == FlattenSeq([k \in DOMAIN driven |-> driven[k].times])
        start == FirstCall.arrival % DAY
        end == LastCall.departure % DAY
    IN (IF start # times[1] THEN <<Edge("duty_start", start, driven[1])>> ELSE <<>>)
       \o driven
       \o (IF end # times[Len(times)] THEN <<Edge("duty_end", end, driven[Len(driven)])>> ELSE <<>>)

(* ------------------------------ properties ------------------------------ *)

\* The plan is a plan.
TypeOK ==
    /\ \A t \in Trains : calls[t] \in Seq([station : Stations, arrival : Times, departure : Times])
    /\ duty \in Seq([from : Points, to : Points])

Mirror(kind) == CASE kind = "overtakes" -> "overtaken_by" [] kind = "overtaken_by" -> "overtakes" [] OTHER -> kind

\* Two drivers are told the same meeting: what one is told of the other train the other is
\* told of his, for the same minutes, and each on the days when both trains run, of those
\* he drives.
MeetsAgree ==
    \A t \in Trains : \A i \in DOMAIN calls[t] : \A m \in Meets(t, i) :
        /\ \E j \in DOMAIN calls[m.train] : \E n \in Meets(m.train, j) :
              n.train = t /\ n.kind = Mirror(m.kind) /\ n.from = m.from /\ n.to = m.to
        /\ \A session \in Reader :
              (m.when = None \/ session \in m.when) <=> session \in Sessions[t] \cap Sessions[m.train]

\* Read from the first event to the last the times of a duty never go back, other than over
\* midnight, and the reading ends as many minutes later as the duty lasts.
ReadsOn ==
    duty # <<>> =>
        LET events == Events
            times == FlattenSeq([k \in DOMAIN events |-> events[k].times])
            steps == [k \in 1..(Len(times) - 1) |-> (times[k + 1] - times[k]) % DAY]
        IN FoldLeft(+, 0, steps) = LastCall.departure - FirstCall.arrival

\* No meeting on the way of a duty is kept from its driver: it is told at the call where the
\* train he drives comes in.
NoMeetingLost ==
    duty # <<>> =>
        LET events == Events IN
        \A k \in DOMAIN AllSegments :
            LET s == AllSegments[k] IN
            \A i \in (s.first + 1)..s.last : \A m \in Meets(s.train, i) :
                \E e \in DOMAIN events : events[e].train = s.train /\ m \in events[e].meets
                                          /\ events[e].station = calls[s.train][i].station

Safe == MeetsAgree /\ ReadsOn /\ NoMeetingLost
=============================================================================
