-------------------------- MODULE MCStationTraffic --------------------------
(***************************************************************************)
(* Small timetables for TLC.                                               *)
(*                                                                         *)
(* Meet:    two trains that meet on a single line between stations 1 and   *)
(*          2; station 2 has two tracks.                                   *)
(* Through: a train 1 -> 2 -> 3 over a single line and a double track, and *)
(*          a train 2 -> 1 against it on the single line.                  *)
(***************************************************************************)
EXTENDS StationTraffic

MeetConnections == {"ab"}
MeetEnds == [c \in MeetConnections |-> {"A", "B"}]
MeetMovements == {"e1", "e2", "w1", "w2"}
MeetStation == [m \in MeetMovements |-> IF m \in {"e1", "w2"} THEN "A" ELSE "B"]
MeetService == [m \in MeetMovements |-> IF m \in {"e1", "e2"} THEN "east" ELSE "west"]
MeetStop == [m \in MeetMovements |-> IF m \in {"e1", "w1"} THEN 1 ELSE 2]
MeetNumber == [m \in MeetMovements |-> IF m \in {"e1", "e2"} THEN 1 ELSE 2]
MeetArriving == {"e2", "w2"}
MeetDeparting == {"e1", "w1"}
MeetTracks == [s \in {"A", "B"} |-> IF s = "A" THEN {"a1"} ELSE {"b1", "b2"}]
MeetPlanned == [m \in MeetMovements |-> CASE m \in {"e1", "w2"} -> "a1"
                                          [] m = "w1" -> "b1"
                                          [] OTHER -> None]
MeetDefault == [m \in MeetMovements |-> IF m = "e2" THEN <<"b1", "b2">> ELSE <<>>]

ThroughConnections == {"ab", "bc"}
ThroughEnds == [c \in ThroughConnections |-> IF c = "ab" THEN {"A", "B"} ELSE {"B", "C"}]
ThroughDouble == {"bc"}
ThroughMovements == {"e1", "e2", "e3", "w1", "w2"}
ThroughStation == [m \in ThroughMovements |-> CASE m \in {"e1", "w2"} -> "A"
                                                [] m \in {"e2", "w1"} -> "B"
                                                [] OTHER -> "C"]
ThroughService == [m \in ThroughMovements |-> IF m \in {"e1", "e2", "e3"} THEN "east" ELSE "west"]
ThroughStop == [m \in ThroughMovements |-> CASE m \in {"e1", "w1"} -> 1
                                             [] m \in {"e2", "w2"} -> 2
                                             [] OTHER -> 3]
ThroughNumber == [m \in ThroughMovements |-> IF m \in {"e1", "e2", "e3"} THEN 1 ELSE 2]
ThroughArriving == {"e2", "e3", "w2"}
ThroughDeparting == {"e1", "e2", "w1"}
ThroughTracks == [s \in {"A", "B", "C"} |-> CASE s = "A" -> {"a1"} [] s = "B" -> {"b1"} [] OTHER -> {"c1"}]
ThroughPlanned == [m \in ThroughMovements |-> CASE m \in {"e1", "w2"} -> "a1"
                                                [] m \in {"e2", "w1"} -> "b1"
                                                [] OTHER -> "c1"]
ThroughDefault == [m \in ThroughMovements |-> <<>>]

\* Bound of the Through runs: the declarations that no traffic decision reads
\* are explored by the Meet run only, those of the trains placed before a
\* departure too.
UndeclaredOnly == \A m \in Movements : /\ ~moves[m].crew
                                       /\ moves[m].arrival # "approaching"
                                       /\ moves[m].departure # "positioned"

\* The timetables of both runs are ones of which HeldLinesCanBeFreed is proved.
ASSUME ClearAssumption == RoutesAreClear

Symmetry == {[x \in CaseIds |-> p[x]] : p \in {q \in [CaseIds -> CaseIds] :
                \A i, j \in CaseIds : q[i] = q[j] => i = j}}
=============================================================================
