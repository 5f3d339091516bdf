----------------------------- MODULE TrainBoard -----------------------------
(***************************************************************************)
(* What every page says of the trains (drift-model.js): where each one is, *)
(* which run of its number it is on, how late it is and what is shown of   *)
(* it.  Two services have the same number: two trains told apart by their  *)
(* labels, or one train that runs twice.  The trains, the clock and the    *)
(* channels of the lines are the server's (external): a train is cleared,  *)
(* departs, arrives and departs again, early, in time or late, and a state *)
(* the timetable gave has no time.                                         *)
(***************************************************************************)
EXTENDS Integers, Sequences, SequencesExt, FiniteSets

CONSTANTS
    Plan,      \* the stops of each service: [station, arrival, departure], None where there is none
    None,
    Begin,     \* the clock when the picture begins
    Horizon    \* bound: the minutes followed

VARIABLES
    kind,      \* "labels": two trains of one number; "runs": one train, twice
    told,      \* the picture names the movement of a channel
    passed,    \* minutes since Begin
    live       \* [service -> [done, cleared, timed, actual]]: movement_live and the channels

vars == <<kind, told, passed, live>>

Services == DOMAIN Plan
Number == "116"
Day == 1440
LateMinutes == 3
Now == Begin + passed

\* done counts the events of a service: departure 1, arrival 2, departure 2, ...
Stops(s) == Plan[s]
LastStop(s) == Len(Stops(s))
Events(s) == 2 * (LastStop(s) - 1)
StopOf(n) == n \div 2 + 1
Planned(s, n) == IF n % 2 = 1 THEN Stops(s)[StopOf(n)].departure ELSE Stops(s)[StopOf(n)].arrival
OnLine(s) == live[s].done % 2 = 1

\* trainKey
Key(s) == IF kind = "labels" THEN s ELSE Number

(* --------------------------- the trains (external) ----------------------- *)

Init ==
    /\ kind \in {"labels", "runs"} /\ told \in BOOLEAN
    /\ passed = 0
    /\ live = [s \in Services |-> [done |-> 0, cleared |-> FALSE, timed |-> 0, actual |-> 0]]

\* One train cannot start its second run before it has ended the first.
Free(s) == kind = "labels" \/ \A o \in Services \ {s} :
             live[o].done = Events(o) \/ (live[o].done = 0 /\ ~live[o].cleared
                                          /\ Planned(o, 1) > Planned(s, 1))

Clear(s) ==
    /\ ~OnLine(s) /\ live[s].done < Events(s) /\ ~live[s].cleared /\ Free(s)
    /\ live' = [live EXCEPT ![s].cleared = TRUE]
    /\ UNCHANGED <<kind, told, passed>>

\* The next departure or arrival, with its time or with none.
Event(s, timed) ==
    /\ live[s].done < Events(s) /\ Free(s)
    /\ OnLine(s) \/ live[s].cleared
    /\ LET n == live[s].done + 1 IN
       live' = [live EXCEPT ![s] = [done |-> n, cleared |-> FALSE,
                                    timed |-> IF timed THEN n ELSE @.timed,
                                    actual |-> IF timed THEN passed ELSE @.actual]]
    /\ UNCHANGED <<kind, told, passed>>

Tick == /\ passed < Horizon /\ passed' = passed + 1
        /\ UNCHANGED <<kind, told, live>>

Next == Tick \/ \E s \in Services : Clear(s) \/ \E timed \in BOOLEAN : Event(s, timed)

(* ----------------------------- where they are ---------------------------- *)

\* trains: first every channel that is taken, then the places of the trains that
\* have none.  A channel that names no movement says only the number.
Channel(s) ==
    [key |-> IF told THEN Key(s) ELSE Number, service |-> s, departed |-> OnLine(s),
     from |-> Stops(s)[StopOf(live[s].done)].station,
     to |-> Stops(s)[StopOf(live[s].done) + 1].station]
Channels == {Channel(s) : s \in {t \in Services : OnLine(t) \/ live[t].cleared}}
Standing == {[key |-> Key(s), service |-> s, station |-> Stops(s)[StopOf(live[s].done)].station] :
               s \in {t \in Services : ~OnLine(t)}}
AtStation == {p \in Standing : \A c \in Channels : c.key # p.key}

\* trainStates, for a key
HasState(key) == \E c \in Channels : c.key = key
State(key) == CHOOSE c \in Channels : c.key = key

(* ------------------------------ the run ---------------------------------- *)

\* onLineLeg: the movement names the run; without it the run whose departure is
\* nearest.
Gap(minute, reference) == LET d == (minute - reference) % Day IN IF d <= Day - d THEN d ELSE Day - d
Departs(s, c) == {i \in DOMAIN Stops(s) : Stops(s)[i].station = c.from /\ i < LastStop(s)
                                          /\ \E j \in (i + 1)..LastStop(s) : Stops(s)[j].station = c.to}
Runs(c) == {<<s, i>> \in Services \X (1..4) :
              i \in Departs(s, c) /\ (Key(c.service) = Number \/ c.key = Number \/ Key(s) = c.key)}
Nearest(legs) ==
    CHOOSE l \in legs : \A m \in legs : Gap(Stops(l[1])[l[2]].departure, Now)
                                         <= Gap(Stops(m[1])[m[2]].departure, Now)
Leg(c) ==
    LET exact == {l \in Runs(c) : told /\ l[1] = c.service}
    IN Nearest(IF exact # {} THEN exact ELSE Runs(c))

(* ------------------------------ how late --------------------------------- *)

\* minutesBetween: within half a day to either side.
Between(a, b) == ((b - a + Day \div 2) % Day) - (Day \div 2)
AtLeast0(n) == IF n > 0 THEN n ELSE 0

\* The delay of the last event that has a time.
Measured(s) == IF live[s].timed = 0 THEN 0
               ELSE Between(Planned(s, live[s].timed), Begin + live[s].actual)

\* The channel of a shared number is the one train's that is under way.
Mine(s) ==
    IF Key(s) # Number /\ HasState(Key(s)) THEN {State(Key(s))}
    ELSE IF Cardinality(Services) = 1 \/ live[s].done \in 1..(Events(s) - 1)
         THEN {c \in Channels : c.key = Number} ELSE {}

\* trainLive, for a service.  A train that stands past its departure is counted
\* on by the clock.
Live(s) ==
    LET done == live[s].done
        out == \E c \in Mine(s) : c.departed
        here == Stops(s)[StopOf(done)]
        overdue == IF here.departure = None THEN -1 ELSE Between(here.departure, Now)
        state == CASE out \/ OnLine(s) -> "on_line"
                   [] done = Events(s) -> "arrived"
                   [] overdue >= 0 -> "waiting"
                   [] done = 0 -> "not_departed"
                   [] OTHER -> "at_station"
        counted == state = "waiting" /\ overdue > Measured(s)
    IN [state |-> state, estimated |-> counted,
        delay |-> AtLeast0(IF counted THEN overdue ELSE Measured(s)),
        early |-> IF counted THEN 0 ELSE AtLeast0(-Measured(s))]

\* The train a shared number or key means now: one under way, else the next, else
\* the latest.
Moving == {"on_line", "at_station", "waiting"}
CurrentOf(candidates) ==
    LET moving == {s \in candidates : Live(s).state \in Moving}
        coming == {s \in candidates : Live(s).state = "not_departed"}
        first(S) == CHOOSE s \in S : \A t \in S : Planned(s, 1) <= Planned(t, 1)
        latest(S) == CHOOSE s \in S : \A t \in S : Planned(s, 1) >= Planned(t, 1)
    IN IF moving # {} THEN moving ELSE {IF coming # {} THEN first(coming) ELSE latest(candidates)}

(* ---------------------------- what is shown ------------------------------ *)

\* deviationView: from 3 on with a level, from the minutes of the level.
LateFrom(level) == CASE level = 3 -> 5 [] level = 4 -> LateMinutes [] level = 5 -> 1 [] OTHER -> Horizon + Day
Marked(level, t) == t.delay >= LateFrom(level)

\* legProgress: how much of the leg the train has behind it, of its length.
Progress(s, now) ==
    LET n == live[s].done
        length == Planned(s, n + 1) - Planned(s, n)
        left == IF live[s].timed = n THEN Begin + live[s].actual ELSE Planned(s, n)
    IN IF now <= left THEN 0 ELSE IF now - left >= length THEN length ELSE now - left

\* events, the whole line: the arrival of a train on the line, the departure of one
\* that stands, the first stop still to come of one nobody has seen.
NextEvent(s) ==
    CASE HasState(Key(s)) /\ State(Key(s)).departed -> [kind |-> "arr", station |-> State(Key(s)).to]
      [] HasState(Key(s)) -> [kind |-> "dep", station |-> State(Key(s)).from]
      [] \E p \in AtStation : p.key = Key(s) ->
           [kind |-> "dep", station |-> (CHOOSE p \in AtStation : p.key = Key(s)).station]
      [] OTHER -> [kind |-> "none", station |-> None]

(* ------------------------------ properties ------------------------------- *)

TypeOK ==
    /\ kind \in {"labels", "runs"} /\ told \in BOOLEAN /\ passed \in 0..Horizon
    /\ \A s \in Services : /\ live[s].done \in 0..Events(s) /\ live[s].timed \in 0..live[s].done
                           /\ live[s].cleared \in BOOLEAN /\ live[s].actual \in 0..passed

\* Each train is drawn in one place: on a line or at a station, once.
OnePlace ==
    /\ \A c \in Channels, p \in AtStation : c.key # p.key
    /\ told /\ kind = "labels" => \A s \in Services :
         Cardinality({c \in Channels : c.key = Key(s)}) + Cardinality({p \in AtStation : p.key = Key(s)}) = 1

\* "Never just the first with the number" (drift-model.js:144-152): a train on the
\* line whose movement the picture names is on its own run, however late it left.
RightRun == told => \A c \in Channels : c.departed => Leg(c)[1] = c.service

\* A train that stands past its time is counted on: what is expected of it is never
\* behind the clock; and a train that was never late by a clock is never shown late.
WaitingIsCounted ==
    \A s \in Services :
       LET t == Live(s) IN
       /\ t.state = "waiting" => Stops(s)[StopOf(live[s].done)].departure + t.delay >= Now
       /\ t.delay > 0 => t.estimated \/ (live[s].timed > 0 /\ t.early = 0)

\* A number means a train under way while there is one, and a higher level of
\* deviations never hides what a lower one shows.
NumberMeansTheTrain ==
    /\ \A s \in CurrentOf(Services) :
         (\E t \in Services : Live(t).state \in Moving) => Live(s).state \in Moving
    /\ \A s \in Services, level \in 3..4 : Marked(level, Live(s)) => Marked(level + 1, Live(s))
    /\ told /\ kind = "labels" => \A s \in Services :
         OnLine(s) => NextEvent(s) = [kind |-> "arr", station |-> Stops(s)[StopOf(live[s].done) + 1].station]

Safe == OnePlace /\ RightRun /\ WaitingIsCounted /\ NumberMeansTheTrain

\* A train shown as under way is never again shown as not started, one shown as
\* arrived stays so, and on its line it only goes forward.
BoardStep ==
    \A s \in Services :
       /\ live[s].done > 0 => Live(s)'.state # "not_departed"
       /\ Live(s).state = "arrived" => Live(s)'.state = "arrived"
       /\ OnLine(s) /\ live'[s] = live[s] => Progress(s, Now') >= Progress(s, Now)
=============================================================================
