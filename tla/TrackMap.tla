------------------------------ MODULE TrackMap ------------------------------
(***************************************************************************)
(* The map of the lines (web/app.js: topologyLayout, topologyBounds,       *)
(* placeTopologyLabels, renderTopology): where the stations are drawn,     *)
(* which names move aside, where a train on the line is, and which tags a  *)
(* station's row has room for.  A network is drawn anew for every picture; *)
(* here it is any one on the stations of the instance.  Lengths are the    *)
(* layout's own units.                                                     *)
(***************************************************************************)
EXTENDS Integers, FiniteSets, Sequences, SequencesExt

CONSTANTS
    Stations,   \* the stations in the order of the picture
    Links,      \* the connections a network may have, in the order of the picture
    Widths,     \* the widths a name may have
    Legs        \* legs of a train on the line: [departure, duration, length]

VARIABLES
    net,     \* [links, branches, upright]: what the picture says
    place,   \* the station's point
    names,   \* the width of each name
    side,    \* the side each name stands on
    round,   \* the rounds of the search for free sides
    ride     \* [leg, now]: the train on the line and the clock

vars == <<net, place, names, side, round, ride>>

All == ToSet(Stations)

(* ------------------------------ the layout ------------------------------ *)

\* adjacency: the neighbours in the order the connections name them.
Neighbours(links, id) ==
    LET mine == SelectSeq(links, LAMBDA link : id \in {link[1], link[2]})
    IN [i \in 1..Len(mine) |-> IF mine[i][1] = id THEN mine[i][2] ELSE mine[i][1]]

\* bfsFarthest: the order the stations are reached in, with the parent of each.
RECURSIVE Search(_, _, _, _)
Search(links, barred, queue, parent) ==
    IF queue = <<>> THEN parent
    ELSE LET node == Head(queue)
             fresh == SelectSeq(Neighbours(links, node),
                                LAMBDA id : id \notin DOMAIN parent.of \cup barred)
         IN Search(links, barred, Tail(queue) \o fresh,
                   [of |-> [id \in DOMAIN parent.of \cup ToSet(fresh) |->
                              IF id \in DOMAIN parent.of THEN parent.of[id] ELSE node],
                    last |-> IF fresh = <<>> THEN parent.last ELSE Last(fresh)])

Farthest(links, start, barred) ==
    Search(links, barred, <<start>>, [of |-> [id \in {start} |-> start], last |-> start])

RECURSIVE PathTo(_, _)
PathTo(parent, id) ==
    IF parent[id] = id THEN <<id>> ELSE Append(PathTo(parent, parent[id]), id)

\* The spine: from the end farthest from the first station to the end farthest
\* from that one, past no branch station.
Spine(links, branches) ==
    LET connected == SelectSeq(Stations, LAMBDA id : Neighbours(links, id) # <<>>)
        main == SelectSeq(connected, LAMBDA id : id \notin branches)
        start == IF main # <<>> THEN main[1] ELSE connected[1]
        second == Farthest(links, Farthest(links, start, branches).last, branches)
    IN PathTo(second.of, second.last)

Put(points, id, x, y) == [p \in DOMAIN points \cup {id} |->
                            IF p = id THEN [x |-> x, y |-> y] ELSE points[p]]

\* placeBranch: the first child goes on along the branch, the others out from it.
RECURSIVE Branch(_, _, _, _, _, _), Children(_, _, _, _, _, _, _)
Branch(links, points, id, at, along, out) ==
    IF id \in DOMAIN points THEN points
    ELSE LET here == Put(points, id, at.x, at.y)
             kids == SelectSeq(Neighbours(links, id), LAMBDA k : k \notin DOMAIN here)
         IN Children(links, here, kids, 1, at, along, out)
Children(links, points, kids, i, at, along, out) ==
    IF i > Len(kids) THEN points
    ELSE Children(links,
                  Branch(links, points, kids[i],
                         IF i = 1 THEN [x |-> at.x + 100 * along, y |-> at.y]
                                  ELSE [x |-> at.x, y |-> at.y + 65 * out], along, out),
                  kids, i + 1, at, along, out)

\* The branches leave the spine up and down in turn.
RECURSIVE Roots(_, _, _, _, _, _)
Roots(links, points, roots, at, along, flip) ==
    IF roots = <<>> THEN [points |-> points, flip |-> flip]
    ELSE Roots(links,
               Branch(links, points, roots[1], [x |-> at.x, y |-> at.y + 65 * flip], along, flip),
               Tail(roots), at, along, -flip)
RECURSIVE Branches(_, _, _, _, _)
Branches(links, spine, i, points, flip) ==
    IF i > Len(spine) THEN points
    ELSE LET here == Roots(links, points,
                           SelectSeq(Neighbours(links, spine[i]), LAMBDA k : k \notin DOMAIN points),
                           points[spine[i]], IF 2 * (i - 1) < Len(spine) THEN -1 ELSE 1, flip)
         IN Branches(links, spine, i + 1, here.points, here.flip)

\* The stations no line reaches stand in a row after the spine.
Rest(points, after) ==
    LET rest == SelectSeq(Stations, LAMBDA id : id \notin DOMAIN points)
    IN [id \in DOMAIN points \cup ToSet(rest) |->
          IF id \in DOMAIN points THEN points[id]
          ELSE [x |-> 100 * (after + (CHOOSE i \in 1..Len(rest) : rest[i] = id) - 1), y |-> 0]]

Layout(links, branches) ==
    IF links = <<>> THEN Rest(<<>>, 0)
    ELSE LET spine == Spine(links, branches)
             row == [id \in ToSet(spine) |->
                       [x |-> 100 * ((CHOOSE i \in 1..Len(spine) : spine[i] = id) - 1), y |-> 0]]
         IN Rest(Branches(links, spine, 1, row, -1), Len(spine))

\* topologyBounds: an upright window is drawn on its end.
Turned(points, upright) ==
    [id \in DOMAIN points |-> IF upright THEN [x |-> points[id].y, y |-> points[id].x] ELSE points[id]]

(* ------------------------------- the names ------------------------------ *)

\* TOPOLOGY_LABEL_SIDES: across, down, and what it costs to leave the usual place.
Sides == <<[x |-> 0, y |-> 1, cost |-> 0], [x |-> 0, y |-> -1, cost |-> 3],
           [x |-> 1, y |-> 0, cost |-> 4], [x |-> -1, y |-> 0, cost |-> 5],
           [x |-> 1, y |-> 1, cost |-> 6], [x |-> 1, y |-> -1, cost |-> 7],
           [x |-> -1, y |-> 1, cost |-> 8], [x |-> -1, y |-> -1, cost |-> 9]>>
Radius == 7
Tall == 10
Margin == 6

Box(x1, y1, wide, tall) == [x1 |-> x1, y1 |-> y1, x2 |-> x1 + wide, y2 |-> y1 + tall]
Node(id) == Box(place[id].x - Radius - 2, place[id].y - Radius - 2, 2 * Radius + 4, 2 * Radius + 4)

\* The box of a name beside its node.
Spot(id, s) ==
    LET d == Sides[s]
        corner == IF d.x # 0 /\ d.y # 0 THEN 7 ELSE 0
        reach == IF corner > 0 THEN corner ELSE Radius + 5
        x == place[id].x + (IF d.x = 0 THEN -(names[id] \div 2)
                            ELSE IF d.x > 0 THEN reach ELSE -reach - names[id])
        y == place[id].y + (CASE d.y > 0 -> 12 + corner \div 2
                              [] d.y < 0 -> -Tall - (IF d.x # 0 THEN corner ELSE Radius + 5)
                              [] OTHER -> -(Tall \div 2))
    IN Box(x, y, names[id], Tall)

Above0(n) == IF n > 0 THEN n ELSE 0
Lesser(a, b) == IF a < b THEN a ELSE b
Greater(a, b) == IF a > b THEN a ELSE b

\* How much two boxes cover of one another, counting a margin between them.
Overlap(a, b, margin) ==
    Above0(Lesser(a.x2, b.x2) - Greater(a.x1, b.x1) + margin)
      * Above0(Lesser(a.y2, b.y2) - Greater(a.y1, b.y1) + margin)

\* topologyCrosses: an end inside the box, or an edge of the box on both sides of
\* the line whose ends are on both sides of the edge.
Turn(p, q, r) == LET v == (q.x - p.x) * (r.y - p.y) - (q.y - p.y) * (r.x - p.x)
                 IN IF v > 0 THEN 1 ELSE IF v < 0 THEN -1 ELSE 0
Inside(b, p) == p.x >= b.x1 /\ p.x <= b.x2 /\ p.y >= b.y1 /\ p.y <= b.y2
Corners(b) == <<[x |-> b.x1, y |-> b.y1], [x |-> b.x2, y |-> b.y1],
                [x |-> b.x2, y |-> b.y2], [x |-> b.x1, y |-> b.y2]>>
Crosses(b, p, q) ==
    \/ Inside(b, p) \/ Inside(b, q)
    \/ \E i \in 1..4 : LET c == Corners(b)[i]
                           d == Corners(b)[(i % 4) + 1]
                       IN Turn(p, q, c) # Turn(p, q, d) /\ Turn(c, d, p) # Turn(c, d, q)

Sum(S, f(_)) == FoldSet(LAMBDA x, sum : sum + f(x), 0, S)

\* What a spot costs for itself, and for two names in one another.
Own(id, s) ==
    LET box == Spot(id, s) IN
    Sides[s].cost
    + Sum(All \ {id}, LAMBDA o : IF Overlap(box, Node(o), 0) > 0
                                 THEN 1000 + Overlap(box, Node(o), 0) ELSE 0)
    + 300 * Cardinality({i \in 1..Len(net.links) :
                           Crosses(box, place[net.links[i][1]], place[net.links[i][2]])})
Pair(a, b) == LET o == Overlap(a, b, Margin) IN IF o > 0 THEN 1000 + o ELSE 0
Penalty(id, s) == Own(id, s) + Sum(All \ {id}, LAMBDA o : Pair(Spot(id, s), Spot(o, side[o])))

\* What a move gains.  The search compares with the other names where they are.
Gain(id, s) == Penalty(id, side[id]) - Penalty(id, s)

\* One round of the search: the best move of all, among the names that collide.
Improve ==
    /\ round < 4 * Len(Stations)
    /\ ride.now < ride.leg.departure
    /\ LET hit == {id \in All : Penalty(id, side[id]) >= 100}
           gain == [m \in hit \X DOMAIN Sides |-> Gain(m[1], m[2])]
           best == {m \in DOMAIN gain : gain[m] > 0 /\ \A n \in DOMAIN gain : gain[n] <= gain[m]}
       IN \E m \in best : side' = [side EXCEPT ![m[1]] = m[2]]
    /\ round' = round + 1
    /\ UNCHANGED <<net, place, names, ride>>

\* The total of the costs, two names in one another counted once.
TotalCost ==
    Sum(All, LAMBDA id : Own(id, side[id]))
    + Sum({P \in SUBSET All : Cardinality(P) = 2},
          LAMBDA P : LET a == CHOOSE a \in P : TRUE
                         b == CHOOSE b \in P : b # a
                     IN Pair(Spot(a, side[a]), Spot(b, side[b])))

(* ------------------------------- the trains ----------------------------- *)

DayLength == 86400

\* topologyProgress, in parts of the leg: a clock half a day before the departure
\* has not reached it.
Elapsed(leg, now) ==
    LET since == (now - leg.departure) % DayLength IN IF since > DayLength \div 2 THEN 0 ELSE since
Progress(leg, now) == Lesser(leg.duration, Elapsed(leg, now))

\* The train is off both stations, and a tag wider than the line in its middle.
Reach == Radius + 7 + 20
Travelled(leg, now) ==
    LET low == Lesser(Reach, leg.length \div 2)
        high == Greater(leg.length - Reach, low)
    IN low + ((high - low) * Progress(leg, now)) \div leg.duration

\* moveTopologyTrains, once a second; here once in every step of the clock.
Step == 60
Tick ==
    /\ round = 0
    /\ ride.now < ride.leg.departure + ride.leg.duration + 2 * Step
    /\ ride' = [ride EXCEPT !.now = @ + Step]
    /\ UNCHANGED <<net, place, names, side, round>>

\* The row of tags beside a station: up to three trains, else two and how many
\* more; with no room one and the rest, or only the number.
Row(n) == IF n > 3 THEN [shown |-> 2, more |-> n - 2] ELSE [shown |-> n, more |-> 0]

Variants(n) ==
    <<Row(n)>> \o (IF n > 2 THEN <<[shown |-> 1, more |-> n - 1]>> ELSE <<>>)
               \o (IF n > 1 THEN <<[shown |-> 0, more |-> n]>> ELSE <<>>)
\* The first that has a free place, else the first that covers only lines, else the least.
Chosen(n, free, loose) ==
    LET list == Variants(n)
        first(S) == CHOOSE i \in S \cap DOMAIN list : \A j \in S \cap DOMAIN list : i <= j
    IN IF free \cap DOMAIN list # {} THEN list[first(free)]
       ELSE IF loose \cap DOMAIN list # {} THEN list[first(loose)] ELSE list[Len(list)]

(* ---------------------------- the state machine -------------------------- *)

Init ==
    /\ \E used \in SUBSET (1..Len(Links)), branches \in {B \in SUBSET All : Cardinality(B) <= 1},
          upright \in BOOLEAN :
         net = [links |-> SelectSeq(Links, LAMBDA link : \E i \in used : Links[i] = link),
                branches |-> branches, upright |-> upright]
    /\ place = Turned(Layout(net.links, net.branches), net.upright)
    /\ \E wide \in Widths : names = [id \in All |-> wide]
    /\ side = [id \in All |-> 1] /\ round = 0
    /\ \E leg \in Legs : ride = [leg |-> leg, now |-> leg.departure - Step]

Next == Improve \/ Tick

(* ------------------------------ properties ------------------------------ *)

TypeOK ==
    /\ place \in [All -> [x: Int, y: Int]]
    /\ side \in [All -> DOMAIN Sides]
    /\ round \in 0..(4 * Len(Stations))

\* A network is a tree when it has one link fewer than stations it reaches, all
\* reached from one of them.
Reached == {id \in All : Neighbours(net.links, id) # <<>>}
MainReached == Reached \ net.branches
MainLinks == SelectSeq(net.links, LAMBDA l : {l[1], l[2]} \cap net.branches = {})
IsTree == /\ MainReached # {}
          /\ Len(MainLinks) = Cardinality(MainReached) - 1
          /\ \A a \in MainReached : DOMAIN Farthest(MainLinks, a, {}).of = MainReached

\* Every station of the meet is drawn, whatever its lines are; and on lines that
\* form no ring the spine is the longest way there is past no branch.
MapIsWhole ==
    /\ DOMAIN place = All
    /\ round = 0 /\ IsTree =>
         LET spine == Spine(net.links, net.branches) IN
         \A a \in MainReached, b \in MainReached :
            Len(PathTo(Farthest(MainLinks, a, {}).of, b)) <= Len(spine)

\* Nobody is left out of a station's row, whatever there is room for.
NobodyHidden ==
    \A n \in 1..5, free, loose \in SUBSET (1..3) :
        LET row == Chosen(n, free, loose) IN row.shown + row.more = n

Safe == MapIsWhole /\ (round = 0 => NobodyHidden)

\* "Each move strictly lowers the total overlap, so the search always ends"
\* (app.js:4207); and a train never goes back on its line.
MapStep ==
    /\ side' # side => TotalCost' < TotalCost
    /\ ride' # ride => Travelled(ride.leg, ride'.now) >= Travelled(ride.leg, ride.now)
                       /\ Travelled(ride.leg, ride'.now) \in 0..ride.leg.length
=============================================================================
