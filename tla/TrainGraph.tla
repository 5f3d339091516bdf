----------------------------- MODULE TrainGraph -----------------------------
(***************************************************************************)
(* The graphic timetable (web/train-graph.js): the track as lines, the     *)
(* distance between two stations, the rows of every line and the legs of   *)
(* every train.  A diagram is drawn anew for each picture; here a picture  *)
(* is any one over the stations of the instance.  Minutes are quarters of  *)
(* a minute in RunTime, so that a median of medians stays whole.           *)
(***************************************************************************)
EXTENDS Integers, FiniteSets, Sequences, SequencesExt

CONSTANTS
    Stations,    \* the stations in the order of the picture
    Links,       \* the connections a network may have, in the order of the picture
    Tables,      \* timetables: sequences of services, a service a sequence of stops
    Sheets,      \* what the plan may say of its own lines: sequences of paths
    Mainlines,   \* main lines the picture may name
    Branches,    \* sets of stations it may name as branches
    Tracks,      \* the tracks of every station, as the catalogue orders them
    Actual       \* tracks the traffic may have given: [service, station, track]

VARIABLES
    picture,     \* [links, table, sheets, mainline, branches, actual]
    track,       \* what is drawn of it: the lines, and the gaps between stations
    opened       \* the stations whose tracks are unfolded

vars == <<picture, track, opened>>

DAY == 1440
NoTime == -1
All == ToSet(Stations)

(* ------------------------------ the track ------------------------------- *)

\* adjacency: the neighbours of a station, in the order of the connections.
Neighbours(links, id) ==
    LET mine == SelectSeq(links, LAMBDA link : id \in {link[1], link[2]})
    IN [i \in 1..Len(mine) |-> IF mine[i][1] = id THEN mine[i][2] ELSE mine[i][1]]

Joined(links, a, b) == b \in ToSet(Neighbours(links, a))

IsPath(links, ids) ==
    Len(ids) >= 2 /\ \A i \in 2..Len(ids) : Joined(links, ids[i-1], ids[i])

\* The pairs a line uses.
Used(ids) == {{ids[i-1], ids[i]} : i \in 2..Len(ids)}

\* longestFrom: depth first over the pairs not used yet; the first of the longest.
RECURSIVE LongestFrom(_, _, _, _)
LongestFrom(links, from, used, visited) ==
    LET free == SelectSeq(Neighbours(links, from),
                          LAMBDA id : id \notin visited /\ {from, id} \notin used)
        Longer(best, id) ==
            LET candidate == <<from>> \o LongestFrom(links, id, used, visited \cup {from})
            IN IF Len(candidate) > Len(best) THEN candidate ELSE best
    IN FoldLeft(Longer, <<from>>, free)

\* traffic: how many trains go straight from one neighbour to the other.
Hops(service) == {i \in 2..Len(service) : service[i-1].at # service[i].at}

Traffic(pic, pair) ==
    Cardinality({<<s, i>> \in (1..Len(pic.table)) \X (2..10) :
                    /\ i \in Hops(pic.table[s])
                    /\ {pic.table[s][i-1].at, pic.table[s][i].at} = pair})

\* heaviestFrom: most trains along the way, the longest of those.
RECURSIVE HeaviestFrom(_, _, _)
HeaviestFrom(pic, from, visited) ==
    LET free == SelectSeq(Neighbours(pic.links, from), LAMBDA id : id \notin visited)
        Heavier(best, id) ==
            LET rest == HeaviestFrom(pic, id, visited \cup {from})
                total == rest.total + Traffic(pic, {from, id})
            IN IF \/ total > best.total
                  \/ total = best.total /\ Len(rest.ids) + 1 > Len(best.ids)
               THEN [ids |-> <<from>> \o rest.ids, total |-> total]
               ELSE best
    IN FoldLeft(Heavier, [ids |-> <<from>>, total |-> 0], free)

\* trimmed: an end with less than half the mean traffic belongs to a branch.
RECURSIVE Trimmed(_, _, _)
Trimmed(pic, ids, rounds) ==
    LET loads == [i \in 1..Len(ids) - 1 |-> Traffic(pic, {ids[i], ids[i+1]})]
        Light(load) == 2 * Len(loads) * load < FoldLeft(LAMBDA sum, x : sum + x, 0, loads)
    IN IF rounds = 0 \/ Len(ids) <= 2 THEN ids
       ELSE IF Light(loads[1]) THEN Trimmed(pic, Tail(ids), rounds - 1)
       ELSE IF Light(Last(loads)) THEN Trimmed(pic, Front(ids), rounds - 1)
       ELSE ids

\* The way most trains take, from every end of the track.
Busiest(pic) ==
    LET ends == SelectSeq(Stations, LAMBDA id :
                    Len(Stations) <= 2 \/ Len(Neighbours(pic.links, id)) = 1)
        Heavier(best, id) ==
            LET way == HeaviestFrom(pic, id, {})
            IN IF \/ way.total > best.total
                  \/ way.total = best.total /\ Len(way.ids) > Len(best.ids)
               THEN way ELSE best
        found == FoldLeft(Heavier, [ids |-> <<>>, total |-> -1], ends)
    IN Trimmed(pic, found.ids, Len(found.ids))

\* The main line: the busiest way, else the one the picture names, else the
\* stations that are no branch, else the longest way; in the stations' order.
MainLine(pic) ==
    LET links == pic.links
        busy == \E pair \in {{l[1], l[2]} : l \in ToSet(links)} : Traffic(pic, pair) > 0
        plain == SelectSeq(Stations, LAMBDA id : id \notin pic.branches)
        far == Last(LongestFrom(links, Head(Stations), {}, {}))
        found == CASE busy /\ IsPath(links, Busiest(pic)) -> Busiest(pic)
                   [] OTHER ->
                      CASE IsPath(links, pic.mainline) -> pic.mainline
                        [] OTHER ->
                           IF IsPath(links, plain) THEN plain
                           ELSE LongestFrom(links, far, {}, {})
        Place(id) == CHOOSE i \in 1..Len(Stations) : Stations[i] = id
    IN IF Len(found) < 2 THEN <<Head(Stations)>>
       ELSE IF Place(Head(found)) > Place(Last(found)) THEN Reverse(found)
       ELSE found

\* The branches: from each station of each line drawn, the longest rest first.
RECURSIVE Grown(_, _, _, _)
Grown(links, drawn, i, j) ==
    LET used == UNION {Used(drawn[k]) : k \in 1..Len(drawn)}
        id == drawn[i][j]
        open == SelectSeq(Neighbours(links, id), LAMBDA other : {id, other} \notin used)
        Way(other) == <<id>> \o LongestFrom(links, other, used \cup {{id, other}}, {id})
        Before(a, b) == \/ Len(Way(a)) > Len(Way(b))
                        \/ /\ Len(Way(a)) = Len(Way(b))
                           /\ \E m, n \in 1..Len(Stations) :
                                m < n /\ Stations[m] = a /\ Stations[n] = b
        first == CHOOSE a \in ToSet(open) : \A b \in ToSet(open) \ {a} : Before(a, b)
    IN IF i > Len(drawn) THEN drawn
       ELSE IF j > Len(drawn[i]) THEN Grown(links, drawn, i + 1, 1)
       ELSE IF open = <<>> THEN Grown(links, drawn, i, j + 1)
       ELSE Grown(links, Append(drawn, Way(first)), i, j)

\* A station on no line is a row of its own.
WithRest(drawn) ==
    LET rest == SelectSeq(Stations, LAMBDA id : \A k \in 1..Len(drawn) : id \notin ToSet(drawn[k]))
    IN drawn \o [i \in 1..Len(rest) |-> <<rest[i]>>]

\* lines: the sheets of the plan when it has any, else the track itself.
Lines(pic) ==
    IF pic.sheets # <<>> THEN WithRest(pic.sheets)
    ELSE WithRest(Grown(pic.links, <<MainLine(pic)>>, 1, 1))

(* ------------------------- distances and tracks ------------------------- *)

\* times: a stop's minutes with its day, a departure never before the arrival.
Times(stop) ==
    LET arrival == IF stop.arrival = NoTime THEN NoTime ELSE stop.arrival + stop.day * DAY
        late == IF stop.departure = NoTime THEN NoTime ELSE stop.departure + stop.day * DAY
    IN [arrival |-> arrival,
        departure |-> IF late # NoTime /\ arrival # NoTime /\ late < arrival
                      THEN late + DAY ELSE late]

Leaves(stop) == IF Times(stop).departure # NoTime THEN Times(stop).departure ELSE Times(stop).arrival
Comes(stop) == IF Times(stop).arrival # NoTime THEN Times(stop).arrival ELSE Times(stop).departure

Median(values) ==
    LET sorted == SortSeq(values, LAMBDA a, b : a < b)
        middle == Len(sorted) \div 2
    IN IF Len(sorted) % 2 = 1 THEN sorted[middle + 1]
       ELSE (sorted[middle] + sorted[middle + 1]) \div 2

\* runTimes: the median of the trains between two neighbours; without any, the
\* median of the other pairs, and ten minutes when no train runs at all.
Samples(pic, pair) ==
    LET Of(service) ==
            LET hops == SetToSortSeq({i \in Hops(service) :
                            /\ {service[i-1].at, service[i].at} = pair
                            /\ NoTime \notin {Leaves(service[i-1]), Comes(service[i])}
                            /\ (Comes(service[i]) - Leaves(service[i-1])) % DAY \in 1..720},
                            LAMBDA a, b : a < b)
            IN [k \in 1..Len(hops) |->
                  4 * ((Comes(service[hops[k]]) - Leaves(service[hops[k]-1])) % DAY)]
    IN FoldLeft(LAMBDA all, service : all \o Of(service), <<>>, pic.table)

RunTime(pic, pair) ==
    LET known == SelectSeq(pic.links, LAMBDA link : Samples(pic, {link[1], link[2]}) # <<>>)
        typical == [i \in 1..Len(known) |-> Median(Samples(pic, {known[i][1], known[i][2]}))]
    IN IF pair \in {{l[1], l[2]} : l \in ToSet(known)} THEN Median(Samples(pic, pair))
       ELSE IF typical = <<>> THEN 40 ELSE Median(typical)

\* trackOf: the track the train really got, else the timetable's, else the
\* station's own; the strongest of the rows of the stop wins.
TrackOf(pic, service, stop) ==
    LET given == {a \in pic.actual : a.service = service /\ a.station = stop.at}
    IN IF given # {} THEN (CHOOSE a \in given : TRUE).track
       ELSE IF stop.track # 0 THEN stop.track ELSE 1

(* ------------------------------- the rows -------------------------------- *)

Larger(a, b) == IF a < b THEN b ELSE a
Smaller(a, b) == IF a < b THEN a ELSE b

GAP == 22
MAXGAP == 110
STEP == 14
TITLE == 28
PANELGAP == 14
TOP == 26

RowsOf(open, id) == IF id \in open THEN Larger(1, Tracks[id]) ELSE 1

\* gapOf: the run time as a distance, within its bounds.
GapOf(pic, a, b) == Larger(GAP, Smaller(MAXGAP, RunTime(pic, {a, b})))

\* The track of a picture: its lines and the distance of every pair.
TrackDrawn(pic) ==
    [lines |-> Lines(pic),
     gap |-> [a \in All |-> [b \in All |-> GapOf(pic, a, b)]]]

\* The rows of one line from y on: [id, y], and where the next line may begin.
Column(drawn, open, ids, y) ==
    LET Add(column, i) ==
            [rows |-> Append(column.rows, [id |-> ids[i], y |-> column.next]),
             next |-> column.next + (RowsOf(open, ids[i]) - 1) * STEP
                        + (IF i < Len(ids) THEN drawn.gap[ids[i]][ids[i+1]] ELSE 0)]
    IN FoldLeft(Add, [rows |-> <<>>, next |-> y], [i \in 1..Len(ids) |-> i])

\* The panels, one above the other: the title over each, air beneath it.
Panels(drawn, open) ==
    LET all == drawn.lines
        title == IF Len(all) > 1 THEN TITLE ELSE 0
        air == IF Len(all) > 1 THEN PANELGAP ELSE 0
        Add(stack, ids) ==
            LET column == Column(drawn, open, ids, stack.next + title)
            IN [panels |-> Append(stack.panels, column.rows), next |-> column.next + air]
    IN FoldLeft(Add, [panels |-> <<>>, next |-> TOP], all).panels

\* The height of a train that stands on a track of a row.
HeightOf(pic, row, service, stop) ==
    IF row.id \in opened /\ TrackOf(pic, service, stop) <= Tracks[row.id]
    THEN row.y + (TrackOf(pic, service, stop) - 1) * STEP
    ELSE row.y

(* ------------------------------- the trains ------------------------------ *)

\* The stops of a service on a panel; `broken` when it left the line before.
Visits(pic, rows, s) ==
    LET service == pic.table[s]
        RowOf(stop) == {k \in 1..Len(rows) : rows[k].id = stop.at}
        Add(seen, i) ==
            IF RowOf(service[i]) = {} \/ Comes(service[i]) = NoTime
            THEN [seen EXCEPT !.off = TRUE]
            ELSE [list |-> Append(seen.list,
                            [i |-> i, stop |-> service[i],
                             y |-> HeightOf(pic, rows[CHOOSE k \in RowOf(service[i]) : \A m \in RowOf(service[i]) : m <= k], s, service[i]),
                             broken |-> seen.off /\ seen.list # <<>>]),
                  off |-> FALSE]
    IN FoldLeft(Add, [list |-> <<>>, off |-> FALSE], [i \in 1..Len(service) |-> i]).list

\* The legs of a train on a panel, from the stop it leaves to the one it comes to.
LegsOf(pic, rows, s) ==
    LET visits == Visits(pic, rows, s)
    IN {[from |-> visits[k].i, to |-> visits[k+1].i, y1 |-> visits[k].y, y2 |-> visits[k+1].y] :
            k \in {k \in 1..Len(visits) - 1 :
                     /\ ~visits[k+1].broken
                     /\ Comes(visits[k+1].stop) >= Leaves(visits[k].stop)}}

(* ------------------------------- behaviour ------------------------------- *)

Pictures ==
    [links: {SelectSeq(Links, LAMBDA link : link \in chosen) : chosen \in SUBSET ToSet(Links)},
     table: Tables, sheets: Sheets, mainline: Mainlines, branches: Branches,
     actual: SUBSET Actual]

Init ==
    /\ picture \in Pictures
    /\ track = TrackDrawn(picture)
    /\ opened = {}

\* Another picture: the traffic gives a train another track, or the plan changes.
Redraw ==
    /\ \E actual \in SUBSET Actual : picture' = [picture EXCEPT !.actual = actual]
    /\ track' = TrackDrawn(picture')
    /\ UNCHANGED opened

\* onStation: the tracks of the station are unfolded, or folded again.
Toggle(id) ==
    /\ opened' = IF id \in opened THEN opened \ {id} ELSE opened \cup {id}
    /\ UNCHANGED <<picture, track>>

Next == Redraw \/ \E id \in All : Toggle(id)

(* ------------------------------ properties ------------------------------- *)

\* The diagram is over a picture of the server; tracks unfold where there are stations.
TypeOK ==
    /\ opened \subseteq All
    /\ DOMAIN picture = {"links", "table", "sheets", "mainline", "branches", "actual"}

\* The stations the first line reaches over the connections.
RECURSIVE Reached(_, _)
Reached(links, ids) ==
    LET more == ids \cup UNION {ToSet(Neighbours(links, id)) : id \in ids}
    IN IF more = ids THEN ids ELSE Reached(links, more)

\* The track is drawn whole: every station has a row, every line is a path, and
\* every connection the main line reaches is on exactly one line, whatever rings
\* and branches the network has (lines).
WholeTrack ==
    LET all == track.lines
        links == picture.links
    IN /\ \A id \in All : \E k \in 1..Len(all) : id \in ToSet(all[k])
       /\ picture.sheets = <<>> =>
            /\ \A k \in 1..Len(all) : Len(all[k]) = 1 \/ IsPath(links, all[k])
            /\ \A link \in ToSet(links) :
                 link[1] \in Reached(links, ToSet(all[1])) =>
                    Cardinality({<<k, i>> \in (1..Len(all)) \X (2..Len(Stations) + 1) :
                        i <= Len(all[k]) /\ {all[k][i-1], all[k][i]} = {link[1], link[2]}}) = 1

\* No leg is drawn across a part of the journey that is not on the panel: a leg
\* joins two stops that follow each other (layout, breakBefore).
LegsAreHops ==
    \A p \in ToSet(Panels(track, opened)), s \in 1..Len(picture.table) :
        \A leg \in LegsOf(picture, p, s) : leg.to = leg.from + 1

\* Every hop of a train along a connection that is drawn has its leg on the panel
\* of that connection (layout: visits, legs).
HopsAreDrawn ==
    \A s \in 1..Len(picture.table) :
        \A i \in Hops(picture.table[s]), p \in ToSet(Panels(track, opened)) :
            LET service == picture.table[s]
            IN (/\ \E k \in 2..Len(p) : {p[k-1].id, p[k].id} = {service[i-1].at, service[i].at}
                /\ NoTime \notin {Leaves(service[i-1]), Comes(service[i])}
                /\ Comes(service[i]) >= Leaves(service[i-1]))
               => \E leg \in LegsOf(picture, p, s) : leg.from = i - 1 /\ leg.to = i

\* Rows never run into each other: each stands beneath the tracks of the one
\* above it, across the panels too (gapOf, trackStep, panelGap).
RowsApart ==
    LET all == FlattenSeq(Panels(track, opened))
    IN \A i \in 2..Len(all) :
         all[i].y >= all[i-1].y + (RowsOf(opened, all[i-1].id) - 1) * STEP + STEP

Safe == WholeTrack /\ LegsAreHops /\ HopsAreDrawn /\ RowsApart

\* Unfolding a station's tracks moves nothing above it and everything beneath it
\* as far; a new track of a train moves no row at all (layout is a function of
\* the picture and of what is unfolded, one row at a time).
GraphStep ==
    \A was \in {FlattenSeq(Panels(track, opened))},
       is \in {FlattenSeq(Panels(track', opened'))} :
        /\ Len(is) = Len(was)
        /\ opened' = opened => is = was
        /\ opened \subseteq opened' =>
             \A i \in 2..Len(is) : is[i].y - was[i].y >= is[i-1].y - was[i-1].y

Spec == Init /\ [][Next]_vars
=============================================================================
