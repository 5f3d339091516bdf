----------------------------- MODULE TrainPicker ---------------------------
(***************************************************************************)
(* The train that is chosen in Drift (web/app.js): lit on every picture of *)
(* the railway, and with a panel of its own whose facts are fetched from   *)
(* the server, one fetch at a time, at the choice and with every new       *)
(* picture.  The timetable may change under it.                            *)
(***************************************************************************)
EXTENDS Integers, FiniteSets, Sequences, SequencesExt

CONSTANTS
    Tables,      \* timetables: [publication, trains, stations]
    Calls,       \* [train -> [station -> the minute it is there, or None]]
    MaxAge,      \* what happens to the trains
    MaxTables,   \* changes of the timetable
    Minutes,     \* the time of the clock, of a day of DAY minutes
    DAY, None

VARIABLES
    server,   \* [table, age, changes]
    snapshot, \* the picture last read: [table, age]
    chosen,   \* [train, station]
    detail,   \* what the panel knows: [train, data], the data of a train at an age
    loading,  \* the fetch under way: None or [train, got]
    steady    \* external: from here on no fetch fails

vars == <<server, snapshot, chosen, detail, loading, steady>>

\* The answer for a train the timetable does not have.
Unknown == [train |-> None, age |-> 0]

Trains == UNION {t.trains : t \in Tables}
Stations == UNION {t.stations : t \in Tables}

Init ==
    /\ \E t \in Tables : server = [table |-> t, age |-> 0, changes |-> 0] /\ snapshot = [table |-> t, age |-> 0]
    /\ chosen = [train |-> None, station |-> None]
    /\ detail = [train |-> None, data |-> None]
    /\ loading = None
    /\ steady \in BOOLEAN

TrainsMove ==
    /\ server.age < MaxAge
    /\ server' = [server EXCEPT !.age = @ + 1]
    /\ UNCHANGED <<snapshot, chosen, detail, loading, steady>>

TableChanges(t) ==
    /\ server.changes < MaxTables
    /\ server' = [server EXCEPT !.table = t, !.changes = @ + 1]
    /\ UNCHANGED <<snapshot, chosen, detail, loading, steady>>

(* ------------------------------ the choice ------------------------------ *)

\* selectTrain: another train begins with nothing known.
SelectTrain(d, train) == IF d.train = train THEN d ELSE [train |-> train, data |-> None]

\* renderRouteExplorer: what the timetable lost is not chosen any more.
Explored(c, table) == IF c.train \in table.trains THEN c ELSE [c EXCEPT !.train = None]

\* refreshTrainDetail: not while another fetch is under way.
Refresh(train) == IF train = None \/ loading # None THEN loading ELSE [train |-> train, got |-> None]

\* renderSelection: the lists are drawn, and the facts asked for.
Choose(d, train, station) ==
    /\ detail' = d
    /\ chosen' = Explored([train |-> train, station |-> station], snapshot.table)
    /\ loading' = Refresh(d.train)
    /\ UNCHANGED <<server, snapshot, steady>>

SelectOverviewTrain(train) == Choose(SelectTrain(detail, train), train, None)

\* A station keeps a chosen train on the map, not in the list of stations.
SelectOverviewStation(station, preserve) ==
    Choose(IF ~preserve /\ station # None THEN SelectTrain(detail, None) ELSE detail,
           IF ~preserve /\ station # None THEN None ELSE chosen.train, station)

Clear == Choose(SelectTrain(detail, None), None, None)

(* ------------------------------ new pictures ---------------------------- *)

Signature(table) == <<table.publication, Cardinality(table.trains), Cardinality(table.stations)>>

\* renderOverview: the lists only when the timetable looks like another one; a train or a
\* station that left it cannot be the chosen one; the facts with every picture.
RenderOverview ==
    LET table == server.table
        listed == IF Signature(table) = Signature(snapshot.table) THEN chosen ELSE Explored(chosen, table)
        left == listed.train # None /\ listed.train \notin table.trains
        d == IF left THEN SelectTrain(detail, None) ELSE detail
    IN /\ snapshot' = [table |-> table, age |-> server.age]
       /\ chosen' = [train |-> IF left THEN None ELSE listed.train,
                     station |-> IF listed.station \in table.stations THEN listed.station ELSE None]
       /\ detail' = d
       /\ loading' = Refresh(d.train)
       /\ UNCHANGED <<server, steady>>

ServerAnswers ==
    /\ loading # None /\ loading.got = None
    /\ loading' = [loading EXCEPT !.got =
          IF loading.train \in server.table.trains THEN [train |-> loading.train, age |-> server.age] ELSE Unknown]
    /\ UNCHANGED <<server, snapshot, chosen, detail, steady>>

Takes(d, fetch) == d.train = fetch.train

\* A refusal keeps the facts that are there and says so.
Heard ==
    /\ loading # None /\ loading.got # None
    /\ loading' = None
    /\ detail' = IF Takes(detail, loading) /\ loading.got # Unknown THEN [detail EXCEPT !.data = loading.got] ELSE detail
    /\ UNCHANGED <<server, snapshot, chosen, steady>>

Fails ==
    /\ ~steady /\ loading # None
    /\ loading' = None
    /\ UNCHANGED <<server, snapshot, chosen, detail, steady>>

Next ==
    \/ TrainsMove \/ RenderOverview \/ ServerAnswers \/ Heard \/ Fails \/ Clear
    \/ \E t \in Tables : TableChanges(t)
    \/ \E train \in snapshot.table.trains : SelectOverviewTrain(train)
    \/ \E station \in snapshot.table.stations, preserve \in BOOLEAN : SelectOverviewStation(station, preserve)

\* The page reads its picture again and again; a fetch is answered and heard.
Fairness == WF_vars(RenderOverview) /\ WF_vars(ServerAnswers) /\ WF_vars(Heard)

Spec == Init /\ [][Next]_vars /\ Fairness

(* ----------------------------- the station ------------------------------ *)

\* stationTrafficRows: what has passed today comes after what is ahead, as tomorrow.
SortKey(train, station, minute) ==
    IF Calls[train][station] < minute THEN Calls[train][station] + DAY ELSE Calls[train][station]

RowsBefore(station, minute, a, b) == SortKey(a, station, minute) < SortKey(b, station, minute)

StationTrafficRows(table, station, minute) ==
    LET here == {t \in table.trains : Calls[t][station] # None}
        Before(a, b) == RowsBefore(station, minute, a, b)
    IN SetToSortSeq(here, Before)

(* ------------------------------ properties ------------------------------ *)

\* What the panel knows is of a train and of an age.
TypeOK ==
    /\ chosen.train \in Trains \cup {None} /\ chosen.station \in Stations \cup {None}
    /\ detail.data # None => detail.data.train \in Trains /\ detail.data.age \in 0..MaxAge

\* The facts of one train never stand under another, however the answers come; and what
\* stands as chosen is in the timetable that is drawn.
OwnFacts ==
    /\ detail.data # None => detail.data.train = detail.train
    /\ chosen.train \in snapshot.table.trains \cup {None}
    /\ chosen.train # None => detail.train = chosen.train

\* The next train at a station stands first, whether it comes today or past midnight.
NextFirst ==
    \A station \in snapshot.table.stations, minute \in Minutes :
        LET rows == StationTrafficRows(snapshot.table, station, minute)
        IN \A k \in DOMAIN rows, train \in snapshot.table.trains :
             /\ Calls[train][station] # None => \E j \in DOMAIN rows : rows[j] = train
             /\ k > 1 => (Calls[rows[k - 1]][station] - minute) % DAY <= (Calls[rows[k]][station] - minute) % DAY

Safe == OwnFacts /\ NextFirst

\* A train that stays chosen comes to be shown as it is: a fetch for the one before does not
\* keep it waiting for long.
Stays(train) == steady /\ chosen.train = train /\ train \in server.table.trains
ShownAsItIs(train) == detail.data # None /\ detail.data.train = train /\ detail.data.age = server.age
=============================================================================
