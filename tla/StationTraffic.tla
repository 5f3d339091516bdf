--------------------------- MODULE StationTraffic ---------------------------
(***************************************************************************)
(* The station service (src/src/tmbox_gateway/protocol_v2.py) over the     *)
(* operations store (operations.py): the one place where every panel, TKL  *)
(* form, v2 box and automatic station gets its traffic decisions.          *)
(*                                                                         *)
(* A command runs in one SQLite savepoint: it is accepted whole or it      *)
(* leaves no trace, also what it did on the way to a refusal.  A command   *)
(* is therefore a guard and a function from store to store; the TKL form   *)
(* and the implied arrival compose those functions inside one action.      *)
(*                                                                         *)
(* One publication and one traffic day are modelled: every row of the      *)
(* store is scoped by the pair, and nothing crosses it.                    *)
(***************************************************************************)
EXTENDS Integers, FiniteSets, Sequences, Functions

CONSTANTS
    Connections,    \* the lines of the published configuration
    Ends,           \* Ends[c]: the two stations of connection c
    Double,         \* the connections with track type double
    Movements,      \* the timetable rows of the day, one per visit of a train
    Station,        \* Station[m]: where the visit takes place
    Service,        \* Service[m]: the train service the visit is part of
    Stop,           \* Stop[m]: its place in the order of the service
    Number,         \* Number[m]: the train number the service runs under
    Arriving,       \* the rows with an arrival time
    Departing,      \* the rows with a departure time
    TracksAt,       \* TracksAt[s]: the active tracks of station s
    Planned,        \* Planned[m]: the timetable's track, or None
    Default,        \* Default[m]: the station's default tracks for the row, in order
    CaseIds,        \* the clearance ids a behaviour may use
    Modes,          \* the dispatch modes in use: local edits may change the mode
    None            \* no movement, no connection, no track

Stations == UNION {Ends[c] : c \in Connections}
Numbers == {Number[m] : m \in Movements}
Tracks == UNION {TracksAt[s] : s \in DOMAIN TracksAt}

ASSUME EndsAssumption ==
    /\ DOMAIN Ends = Connections
    /\ \A c \in Connections : \E a, b \in Stations : a # b /\ Ends[c] = {a, b}
    /\ Double \subseteq Connections
    /\ Modes \subseteq {"clearance", "direct"}
    /\ None \notin Connections \cup Movements \cup Tracks

ASSUME TimetableAssumption ==
    /\ Stop \in [Movements -> Nat]
    /\ DOMAIN Station = Movements
    /\ DOMAIN Service = Movements
    /\ DOMAIN Number = Movements
    /\ Arriving \subseteq Movements
    /\ Departing \subseteq Movements
    /\ \A m, n \in Movements :
        Service[m] = Service[n] => /\ Number[m] = Number[n]
                                   /\ Stop[m] = Stop[n] => m = n

ASSUME TrackAssumption ==
    /\ \A m \in Movements : Station[m] \in DOMAIN TracksAt
    /\ \A m \in Movements : Planned[m] \in TracksAt[Station[m]] \cup {None}
    /\ DOMAIN Planned = Movements
    /\ Default \in [Movements -> Seq(Tracks)]
    /\ \A m \in Movements : \A k \in DOMAIN Default[m] : Default[m][k] \in TracksAt[Station[m]]

VARIABLES
    moves,      \* tkl_movement_states: what each movement has done
    cases,      \* clearances: every case ever asked for
    position,   \* train_positions: where each train number was last seen
    running     \* runtime_clock.running

vars == <<moves, cases, position, running>>

-----------------------------------------------------------------------------
(* Types *)

MoveState == [arrival : {"none", "approaching", "arrived"},
              departure : {"none", "positioned", "departed"},
              crew : BOOLEAN,
              track : Tracks \cup {None}]

\* "approved" is a grant whose settled_at is NULL; once the line is freed the
\* row keeps the word approved and gets a settled_at: "released" here.
Settled == {"rejected", "cancelled", "expired", "invalidated_by_revision", "released"}

CaseRow == [status : {"unused", "waiting", "approved"} \cup Settled,
            movement : Movements \cup {None},
            connection : Connections \cup {None},
            track : Tracks \cup {None},
            due : BOOLEAN]      \* expires_at has passed

Place == [at : {"unknown", "station", "connection"},
          movement : Movements \cup {None},
          connection : Connections \cup {None}]

TypeOK == /\ moves \in [Movements -> MoveState]
          /\ cases \in [CaseIds -> CaseRow]
          /\ position \in [Numbers -> Place]
          /\ running \in BOOLEAN

-----------------------------------------------------------------------------
(* The timetable's legs: train_routes.resolve_departure and resolve_arrival *)

Joins(c, a, b) == a # b /\ Ends[c] = {a, b}

\* p is the previous visit of the train and the leg from p to m resolves: the
\* two stations are neighbours over exactly one published connection.
LeadsTo(p, m) ==
    /\ Service[p] = Service[m]
    /\ Stop[m] = Stop[p] + 1
    /\ p \in Departing
    /\ m \in Arriving
    /\ \E c \in Connections :
        /\ Joins(c, Station[p], Station[m])
        /\ \A d \in Connections : Joins(d, Station[p], Station[m]) => d = c

BroughtIn == {m \in Movements : \E p \in Movements : LeadsTo(p, m)}

\* The visits a walk backwards over resolved legs from m can reach.
Upstream == [m \in Movements |->
    {p \in Movements :
        /\ Service[p] = Service[m]
        /\ Stop[p] < Stop[m]
        /\ \E n \in Movements : LeadsTo(p, n)
        /\ \A q \in Movements :
            Service[q] = Service[m] /\ Stop[p] < Stop[q] /\ Stop[q] <= Stop[m] => q \in BroughtIn}]

-----------------------------------------------------------------------------
(* Reading the store s = [moves, cases, position] *)

Store == [moves |-> moves, cases |-> cases, position |-> position]

IsOpen(c) == c.status \in {"waiting", "approved"}

To(c) == CHOOSE x \in Ends[c.connection] : Ends[c.connection] = {Station[c.movement], x}

\* Mutated form of Channel: every track has a channel per direction.
ChannelPerDirection(m, c) == <<c, Station[m]>>

\* operations.channel_id: a single track is one channel, a double track one per direction.
Channel(m, c) == <<c, IF c \in Double THEN Station[m] ELSE None>>

ChannelOf(case) == Channel(case.movement, case.connection)

HasDeparted(s, m) == s.moves[m].departure = "departed"
HasArrived(s, m) == s.moves[m].arrival = "arrived"

\* Mutated form of Grants: a question counts as a grant.
AnyCase(s, m) == {i \in CaseIds : IsOpen(s.cases[i]) /\ s.cases[i].movement = m}

Grants(s, m) == {i \in CaseIds : s.cases[i].status = "approved" /\ s.cases[i].movement = m}

\* The grant a departure uses: there is exactly one, or it is refused.
GrantOf(s, m) == CHOOSE i \in CaseIds : Grants(s, m) = {i}

\* Open cases towards this station under the movement's train number.
Incoming(s, m) ==
    {i \in CaseIds : /\ IsOpen(s.cases[i])
                     /\ To(s.cases[i]) = Station[m]
                     /\ Number[s.cases[i].movement] = Number[m]}

\* The one train on its way here under this number has reported its departure.
IsExpected(s, m) ==
    \E i \in CaseIds : Incoming(s, m) = {i} /\ HasDeparted(s, s.cases[i].movement)

\* find_track_conflict: a movement that has not departed holds its track ...
TrackHeld(s, m, t) ==
    \E o \in Movements \ {m} :
        Station[o] = Station[m] /\ ~HasDeparted(s, o) /\ s.moves[o].track = t

\* ... and track_conflict(actual=True) only counts those that stand there.
TrackTaken(s, m, t) ==
    \E o \in Movements \ {m} :
        /\ Station[o] = Station[m]
        /\ ~HasDeparted(s, o)
        /\ HasArrived(s, o) \/ s.moves[o].departure = "positioned"
        /\ s.moves[o].track = t

\* default_tracks.choose: the first free default track, else the first.
DefaultTrack(s, m) ==
    LET free == {k \in DOMAIN Default[m] : ~TrackTaken(s, m, Default[m][k])}
    IN  IF Default[m] = <<>> THEN None
        ELSE IF free = {} THEN Default[m][1]
        ELSE Default[m][CHOOSE k \in free : \A j \in free : k <= j]

-----------------------------------------------------------------------------
(* Writing the store: one operator per statement of operations.py *)

\* _settle_clearance_locked, release_clearance, cancel_approved_clearance.
Settle(s, ids, status) ==
    [s EXCEPT !.cases = [i \in CaseIds |-> IF i \in ids
                                           THEN [s.cases[i] EXCEPT !.status = status]
                                           ELSE s.cases[i]]]

\* Mutated form of ExpireDue: the status is not looked at.
ExpireAllDue(s) == Settle(s, {i \in CaseIds : IsOpen(s.cases[i]) /\ s.cases[i].due}, "expired")

\* expire_due_clearances, which runs on the way into a command.
ExpireDue(s) ==
    Settle(s, {i \in CaseIds : s.cases[i].status = "waiting" /\ s.cases[i].due}, "expired")

\* _expire_due: nothing lapses while the meeting clock stands still.
Lapsed(s) == IF running THEN ExpireDue(s) ELSE s
Now == Lapsed(Store)

WaitingOf(s, ms) == {i \in CaseIds : s.cases[i].status = "waiting" /\ s.cases[i].movement \in ms}
GrantsOf(s, ms) == UNION {Grants(s, p) : p \in ms}

\* Mutated form of Chain: the walk stops before the sender known to have left.
ChainToLastSeen(s, m) ==
    {p \in Upstream[m] : \A q \in Upstream[m] : Stop[p] <= Stop[q] => ~HasDeparted(s, q)}

\* _advance visits the senders backwards from m, up to and including the first
\* one that is already known to have left.
Chain(s, m) ==
    {p \in Upstream[m] : \A q \in Upstream[m] : Stop[p] < Stop[q] => ~HasDeparted(s, q)}

\* Mutated form of Advance: the lines are freed and the departures forgotten.
AdvanceLinesOnly(s, m) ==
    Settle(Settle(s, WaitingOf(s, Chain(s, m)), "invalidated_by_revision"),
           GrantsOf(s, Chain(s, m)), "released")

\* _advance: every earlier part of the route is finished.
Advance(s, m) ==
    LET chain == Chain(s, m)
        passed == {q \in chain : \E p \in chain : Stop[q] = Stop[p] + 1}
        closed == Settle(Settle(s, WaitingOf(s, chain), "invalidated_by_revision"),
                         GrantsOf(s, chain), "released")
    IN  [closed EXCEPT !.moves = [p \in Movements |->
            [s.moves[p] EXCEPT
                !.departure = IF p \in chain THEN "departed" ELSE @,
                !.arrival = IF p \in passed THEN "arrived" ELSE @]]]

\* _release_on_arrival: matched by train number, not by movement.
ReleasedBy(s, m) ==
    {i \in CaseIds : /\ s.cases[i].status = "approved"
                     /\ To(s.cases[i]) = Station[m]
                     /\ Number[s.cases[i].movement] = Number[m]
                     /\ HasDeparted(s, s.cases[i].movement)}

-----------------------------------------------------------------------------
(* The commands of _apply: CanX is what it refuses, X what it writes *)

\* Mutated forms: a departed train can be declared again; ready is stored.
CanAlwaysSetPosition(s, m) == m \in Departing
SetReady(s, m) == [s EXCEPT !.moves[m].departure = "ready"]

CanSetPosition(s, m) == m \in Departing /\ ~HasDeparted(s, m)
SetPosition(s, m) == [s EXCEPT !.moves[m].departure = "positioned"]
SetCrew(s, m, ready) == [s EXCEPT !.moves[m].crew = ready]

CanApproach(s, m) == m \in Arriving /\ ~HasArrived(s, m)
Approach(s, m) == [s EXCEPT !.moves[m].arrival = "approaching"]

CanChangeTrack(s, m, t) ==
    /\ ~HasDeparted(s, m)
    /\ t \in TracksAt[Station[m]]
    /\ ~TrackHeld(s, m, t)

\* A changed track withdraws the question that was asked about the old one.
ChangeTrack(s, m, t) ==
    Settle([s EXCEPT !.moves[m].track = t], WaitingOf(s, {m}), "invalidated_by_revision")

\* A train nobody reported on its way brings its whole route up to date first.
CaughtUp(s, m) == IF IsExpected(s, m) THEN s ELSE Advance(s, m)

\* The track named in the command, else the movement's own, else a default.
ArrivalTrack(s, m, t) ==
    IF t # None THEN t
    ELSE IF s.moves[m].track # None THEN s.moves[m].track
    ELSE DefaultTrack(CaughtUp(s, m), m)

CanArrive(s, m, t) ==
    /\ m \in Arriving
    /\ ~HasArrived(s, m)
    /\ ArrivalTrack(s, m, t) \in TracksAt[Station[m]]

Arrive(s, m, t) ==
    LET known == CaughtUp(s, m)
        there == [known EXCEPT
            !.moves[m] = [@ EXCEPT !.arrival = "arrived", !.track = ArrivalTrack(s, m, t)],
            !.position[Number[m]] = [at |-> "station", movement |-> m, connection |-> None]]
    IN  Settle(there, ReleasedBy(there, m), "released")

\* Mutated form of ArrivesFirst: a departure says nothing about the arrival.
NeverArrivesFirst(s, m) == FALSE

\* Whoever sends a train on knows it is here: it arrives first.
ArrivesFirst(s, m) == ~HasArrived(s, m) /\ m \in BroughtIn

CanDepart(s, m) ==
    /\ m \in Departing
    /\ ~HasDeparted(s, m)
    /\ \E i \in CaseIds : Grants(s, m) = {i}
    /\ ArrivesFirst(s, m) => CanArrive(s, m, None)

Depart(s, m) ==
    LET here == IF ArrivesFirst(s, m) THEN Arrive(s, m, None) ELSE s
    IN  [here EXCEPT !.moves[m].departure = "departed",
                     !.position[Number[m]] =
                         [at |-> "connection", movement |-> m,
                          connection |-> s.cases[GrantOf(s, m)].connection]]

\* Mutated form of CanRequest: nobody looks for open cases.
CanRequestBlindly(s, m, c) == Station[m] \in Ends[c] /\ ~HasDeparted(s, m) /\ m \in Departing

CanRequest(s, m, c) ==
    /\ Station[m] \in Ends[c]
    /\ ~HasDeparted(s, m)
    /\ \A i \in CaseIds : IsOpen(s.cases[i]) => /\ s.cases[i].movement # m
                                               /\ ChannelOf(s.cases[i]) # Channel(m, c)
    /\ m \in Departing

\* In mode "direct" a free line is taken without asking.
Request(s, i, m, c, mode) ==
    [s EXCEPT !.cases[i] = [status |-> IF mode = "direct" THEN "approved" ELSE "waiting",
                            movement |-> m, connection |-> c,
                            track |-> s.moves[m].track, due |-> FALSE]]

-----------------------------------------------------------------------------
(* One action per command: the transaction commits what the handler wrote *)

Commit(s) == /\ moves' = s.moves
             /\ cases' = s.cases
             /\ position' = s.position
             /\ UNCHANGED running

PositionSet(m) == CanSetPosition(Store, m) /\ Commit(SetPosition(Store, m))

CrewReadySet(m, ready) == CanSetPosition(Store, m) /\ Commit(SetCrew(Store, m, ready))

TrainApproaching(m) == CanApproach(Store, m) /\ Commit(Approach(Store, m))

TrackChange(m, t) == CanChangeTrack(Store, m, t) /\ Commit(ChangeTrack(Store, m, t))

TrainArrived(m, t) == CanArrive(Now, m, t) /\ Commit(Arrive(Now, m, t))

TrainDeparted(m) == CanDepart(Now, m) /\ Commit(Depart(Now, m))

ClearanceRequest(i, m, c) ==
    /\ cases[i].status = "unused"
    /\ CanRequest(Now, m, c)
    /\ \E mode \in Modes : Commit(Request(Now, i, m, c, mode))

\* clearance.response from the receiving station.
ClearanceResponse(i, approved) ==
    /\ Now.cases[i].status = "waiting"
    /\ Commit(Settle(Now, {i}, IF approved THEN "approved" ELSE "rejected"))

\* Mutated form of ClearanceCancel: the sender may take a used grant back.
CancelAnyCase(i) == IsOpen(Now.cases[i]) /\ Commit(Settle(Now, {i}, "cancelled"))

\* clearance.cancel from the sender, of a question or of an unused grant.
ClearanceCancel(i) ==
    /\ \/ Now.cases[i].status = "waiting"
       \/ Now.cases[i].status = "approved" /\ ~HasDeparted(Now, Now.cases[i].movement)
    /\ Commit(Settle(Now, {i}, "cancelled"))

(***************************************************************************)
(* update_station_movement: the TKL form sends track, arrival and          *)
(* departure in one command.  A field that already has its value is not    *)
(* applied, and one refused field refuses the form.                        *)
(***************************************************************************)
FormTrack(s, m, t) == IF t \in {None, s.moves[m].track} THEN s ELSE ChangeTrack(s, m, t)

FormArrival(s, m, arrival) ==
    IF arrival \in {None, s.moves[m].arrival} THEN s
    ELSE IF arrival = "approaching" THEN Approach(s, m)
    ELSE Arrive(Lapsed(s), m, None)

\* derived_departure: ready is what the two declarations add up to.
Shown(s, m) == IF s.moves[m].departure = "positioned" /\ s.moves[m].crew
               THEN "ready" ELSE s.moves[m].departure

FormDeparture(s, m, departure) ==
    IF departure \in {None, Shown(s, m)} THEN s
    ELSE IF departure = "departed" THEN Depart(Lapsed(s), m)
    ELSE SetCrew(SetPosition(s, m), m, departure = "ready")

AcceptsTrack(s, m, t) == t \in {None, s.moves[m].track} \/ CanChangeTrack(s, m, t)

AcceptsArrival(s, m, arrival) ==
    \/ arrival \in {None, s.moves[m].arrival}
    \/ arrival = "approaching" /\ CanApproach(s, m)
    \/ arrival = "arrived" /\ CanArrive(Lapsed(s), m, None)

AcceptsDeparture(s, m, departure) ==
    \/ departure \in {None, Shown(s, m)}
    \/ departure \in {"positioned", "ready"} /\ CanSetPosition(s, m)
    \/ departure = "departed" /\ CanDepart(Lapsed(s), m)

TKLForm(m, t, arrival, departure) ==
    LET tracked == FormTrack(Store, m, t)
        received == FormArrival(tracked, m, arrival)
    IN  /\ AcceptsTrack(Store, m, t)
        /\ AcceptsArrival(tracked, m, arrival)
        /\ AcceptsDeparture(received, m, departure)
        /\ Commit(FormDeparture(received, m, departure))

\* A snapshot or a panel refresh reads the open cases and expires on the way.
ReadOpenCases == running /\ Commit(ExpireDue(Store))

-----------------------------------------------------------------------------
(* What happens around the service *)

\* Wall time passes the expires_at of a case.
TimeToLiveRunsOut(i) ==
    /\ cases[i].status = "waiting" /\ ~cases[i].due
    /\ cases' = [cases EXCEPT ![i].due = TRUE]
    /\ UNCHANGED <<moves, position, running>>

StartClock == ~running /\ running' = TRUE /\ UNCHANGED <<moves, cases, position>>
StopClock == running /\ running' = FALSE /\ UNCHANGED <<moves, cases, position>>

Passed(h) == {m \in Movements : Service[m] = Service[h] /\ Stop[m] < Stop[h]}

\* Where timetable_positions may put the train n: nowhere yet, at its first visit, or
\* at one it has a time to arrive at.
Spots(n) ==
    {None} \cup {h \in Movements : Number[h] = n /\ (h \in Arriving \/ Passed(h) = {})}

\* The planned track, else a default one (which one, depends on the trains placed before).
SpotTracks(h) == IF Planned[h] # None \/ Default[h] = <<>> THEN {Planned[h]} ELSE Range(Default[h])

\* A placed visit counts as done up to the declaration; one that is over as departed.
PlacedAs(m, over, t) ==
    [arrival |-> IF m \in Arriving THEN "arrived" ELSE "none",
     departure |-> IF m \notin Departing THEN "none" ELSE IF over THEN "departed" ELSE "positioned",
     crew |-> FALSE, track |-> t]

\* here: the visit each number stands at; runs: other services of the numbers that are over.
PlacedAt(here) == Range(here) \ {None}
Over(here, runs) ==
    {m \in Movements : Service[m] \in runs \/ \E h \in PlacedAt(here) : m \in Passed(h)}

MayStand(here, runs, spot) ==
    /\ \A n \in Numbers : here[n] \in Spots(n)
    /\ \A n \in Numbers : spot[n] \in (IF here[n] = None THEN {None} ELSE SpotTracks(here[n]))
    /\ \A m \in Movements : Service[m] \in runs =>
            \E r \in Movements : Number[r] = Number[m] /\ Service[r] \notin runs
    /\ \A h \in PlacedAt(here) : Service[h] \notin runs

PlacedMove(m, here, runs, spot) ==
    IF m \in Over(here, runs) THEN PlacedAs(m, TRUE, Planned[m])
    ELSE IF m \in PlacedAt(here) THEN PlacedAs(m, FALSE, spot[Number[m]])
    ELSE [arrival |-> "none", departure |-> "none", crew |-> FALSE, track |-> Planned[m]]

PlacedPosition(h) == [at |-> IF h = None THEN "unknown" ELSE "station",
                      movement |-> h, connection |-> None]

\* place_trains_by_timetable on a day nothing has happened on yet: each train number
\* stands somewhere, and what its timetable has before that is over.
Init ==
    /\ \E here \in [Numbers -> Movements \cup {None}], runs \in SUBSET Range(Service),
          spot \in [Numbers -> Tracks \cup {None}] :
            /\ MayStand(here, runs, spot)
            /\ moves = [m \in Movements |-> PlacedMove(m, here, runs, spot)]
            /\ position = [n \in Numbers |-> PlacedPosition(here[n])]
    /\ cases = [i \in CaseIds |-> [status |-> "unused", movement |-> None,
                                   connection |-> None, track |-> None, due |-> FALSE]]
    /\ running = FALSE

Declaration ==
    \E m \in Movements :
        \/ PositionSet(m)
        \/ \E ready \in BOOLEAN : CrewReadySet(m, ready)
        \/ TrainApproaching(m)
        \/ \E t \in TracksAt[Station[m]] : TrackChange(m, t)

Running ==
    \E m \in Movements :
        \/ \E t \in TracksAt[Station[m]] \cup {None} : TrainArrived(m, t)
        \/ TrainDeparted(m)

Clearing ==
    \E i \in CaseIds :
        \/ \E m \in Movements, c \in Connections : ClearanceRequest(i, m, c)
        \/ \E approved \in BOOLEAN : ClearanceResponse(i, approved)
        \/ ClearanceCancel(i)

\* A form with one field is that command; the rest say two things at once.
Forms ==
    \E m \in Movements :
        \E t \in TracksAt[Station[m]] \cup {None},
           arrival \in {None} \cup (IF m \in Arriving THEN {"approaching", "arrived"} ELSE {}),
           departure \in {None} \cup (IF m \in Departing THEN {"positioned", "ready", "departed"} ELSE {}) :
            /\ Cardinality({f \in {1, 2, 3} : <<t, arrival, departure>>[f] # None}) > 1
            /\ TKLForm(m, t, arrival, departure)

Clock == StartClock \/ StopClock \/ \E i \in CaseIds : TimeToLiveRunsOut(i)

Next == Declaration \/ Running \/ Clearing \/ Forms \/ ReadOpenCases \/ Clock

Spec == Init /\ [][Next]_vars

-----------------------------------------------------------------------------
(* Properties *)

From(c) == Station[c.movement]
OnLine(n) == position[n].at = "connection"

\* Two open cases never claim the same line, unless it is a double track and
\* they go opposite ways (channel_id, open_clearance_on_channel).
LineIsClaimedOnce ==
    \A i, j \in CaseIds :
        /\ i # j /\ IsOpen(cases[i]) /\ IsOpen(cases[j])
        /\ cases[i].connection = cases[j].connection
        => cases[i].connection \in Double /\ From(cases[i]) # From(cases[j])

\* Two trains that have been reported out on the same line are never both on a
\* single track, nor on a double track in the same direction.
NoTwoTrainsOnOneTrack ==
    \A n, k \in Numbers :
        /\ n # k /\ OnLine(n) /\ OnLine(k)
        /\ position[n].connection = position[k].connection
        => /\ position[n].connection \in Double
           /\ Station[position[n].movement] # Station[position[k].movement]

\* A movement never waits for two answers at once, whichever client asked
\* (shared-traffic.md: a double press or a resend makes no second case).
OneCasePerMovement ==
    \A i, j \in CaseIds :
        i # j /\ IsOpen(cases[i]) /\ IsOpen(cases[j]) => cases[i].movement # cases[j].movement

\* A train the maps show out on a line has departed under a grant for exactly
\* that line, and the grant still holds the line.
TrainOnLineHoldsItsGrant ==
    \A n \in Numbers : OnLine(n) =>
        \E i \in CaseIds :
            /\ cases[i].status = "approved"
            /\ cases[i].movement = position[n].movement
            /\ cases[i].connection = position[n].connection
            /\ HasDeparted(Store, cases[i].movement)

\* An arrival frees no reservation whose train is not recorded as departed.
ReleasedOnlyAfterDeparture ==
    \A i \in CaseIds : cases[i].status = "released" => HasDeparted(Store, cases[i].movement)

\* A train that is recorded as departed from a visit somebody could report it
\* in to is recorded as arrived there too, also when the route was caught up.
DepartedTrainHadArrived ==
    \A m \in Movements : HasDeparted(Store, m) /\ m \in BroughtIn => HasArrived(Store, m)

\* No line is lost: whatever happened, there is still an arrival somebody can
\* report that frees the line behind a train that is out on it.  (The sender
\* can no longer cancel it.)
HeldLineCanBeFreed ==
    \A i \in CaseIds :
        cases[i].status = "approved" /\ HasDeparted(Store, cases[i].movement) =>
            \E m \in Movements : \E t \in TracksAt[Station[m]] :
                CanArrive(Store, m, t) /\ Arrive(Store, m, t).cases[i].status = "released"

\* What a timetable needs for that: every departure leads on over a resolved leg to
\* a station with a track, and a station where a train number is brought in has a line
\* to no other departure of that number than the one before and those after it.
\* (Arrivals are matched to the open cases by train number: _release_on_arrival.)
RoutesAreClear ==
    /\ \A p \in Departing : \E m \in Movements : LeadsTo(p, m) /\ TracksAt[Station[m]] # {}
    /\ \A m \in BroughtIn, q \in Departing :
        /\ Number[q] = Number[m]
        /\ \E c \in Connections : Joins(c, Station[q], Station[m])
        => LeadsTo(q, m) \/ m \in Upstream[q]

\* A grant is not a lease: it ends when the sender takes it back before the
\* departure or when the train is in, and after the departure only then.
GrantIsKeptUntilUsed ==
    [][\A i \in CaseIds :
        cases[i].status = "approved" /\ cases'[i] # cases[i] =>
            \/ cases'[i].status = "released"
            \/ cases'[i].status = "cancelled" /\ ~HasDeparted(Store, cases[i].movement)]_vars

\* Nothing is taken back by a command that comes late: a settled case is never
\* asked, answered or opened again, and a report about a train stands.
NothingIsTakenBack ==
    [][/\ \A i \in CaseIds : cases[i].status \in Settled => cases'[i] = cases[i]
       /\ \A m \in Movements :
            /\ HasDeparted(Store, m) => moves'[m].departure = "departed"
            /\ HasArrived(Store, m) => moves'[m].arrival = "arrived"]_vars

\* A train leaves on a grant it had, or its later arrival proves that it left.
DepartureIsGranted ==
    [][\A m \in Movements :
        ~HasDeparted(Store, m) /\ moves'[m].departure = "departed" =>
            \/ \E i \in CaseIds : cases[i].status = "approved" /\ cases[i].movement = m
            \/ \E q \in Movements : /\ m \in Upstream[q]
                                    /\ ~HasArrived(Store, q)
                                    /\ moves'[q].arrival = "arrived"]_vars

(***************************************************************************)
(* Refinement: the open cases are the claims of LineBlocks.                *)
(***************************************************************************)
Channels == UNION {{Channel(m, c) : m \in {q \in Movements : Station[q] \in Ends[c]}} :
                     c \in Connections}

Holding(ch) == {i \in CaseIds : IsOpen(cases[i]) /\ ChannelOf(cases[i]) = ch}

ClaimOf(case) ==
    [holder |-> case.movement,
     state |-> IF case.status = "waiting" THEN "asked"
               ELSE IF HasDeparted(Store, case.movement) THEN "occupied" ELSE "granted"]

LineView == [ch \in Channels |->
    LET holding == Holding(ch)
    IN  IF holding = {} THEN None ELSE ClaimOf(cases[CHOOSE i \in holding : TRUE])]

Blocks == INSTANCE LineBlocks WITH Lines <- Channels, Trains <- Movements,
                                   Free <- None, line <- LineView

\* A free line is told from one that somebody holds.
ASSUME ClaimAssumption == None \notin Blocks!Claim

\* The store of cases implements the block promises: no command, composed or
\* not, hands a granted or occupied line to another train.
ImplementsLineBlocks == Blocks!Spec
=============================================================================
