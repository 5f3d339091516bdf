------------------------ MODULE StationTrafficProofs ------------------------
(***************************************************************************)
(* Types, safety invariants, action properties and the refinement of       *)
(* LineBlocks for StationTraffic, for every timetable, line plan, set of   *)
(* case ids and dispatch mode.                                             *)
(*                                                                         *)
(* Every command is a function on the store, so each fact about the system *)
(* is a lemma about each function: first what a write does to the types,   *)
(* then to the open cases, then to the trains out on the lines.  The       *)
(* inductive invariant SafeStore joins what the cases, the movements and   *)
(* the positions say of each other.  Catching up a route (Advance) frees a *)
(* line before the position of that train is moved, so the lemmas in       *)
(* between use SafeBut: safe, leaving one train number aside.              *)
(*                                                                         *)
(* Traceable joins the cases with the routes of the trains: from it, every *)
(* line that is held can be freed.  What a step may change follows last: a *)
(* command is composed of writes, and one property of a step is not one of *)
(* its parts, so Onward is what every write is and two writes after each   *)
(* other still are.  What is not Onward changes one case.                  *)
(***************************************************************************)
EXTENDS StationTraffic, TLAPS

-----------------------------------------------------------------------------
(* Types of the store *)

StoreType == [moves : [Movements -> MoveState],
              cases : [CaseIds -> CaseRow],
              position : [Numbers -> Place]]

\* Settling gives the named cases a status and leaves everything else alone.
LEMMA SettleWrites ==
    ASSUME NEW s \in StoreType, NEW ids, NEW status
    PROVE  /\ Settle(s, ids, status).moves = s.moves
           /\ Settle(s, ids, status).position = s.position
           /\ \A i \in CaseIds :
                Settle(s, ids, status).cases[i] =
                    IF i \in ids THEN [s.cases[i] EXCEPT !.status = status] ELSE s.cases[i]
BY DEF Settle, StoreType

LEMMA SettleType ==
    ASSUME NEW s \in StoreType, NEW ids,
           NEW status \in {"waiting", "approved"} \cup Settled
    PROVE  Settle(s, ids, status) \in StoreType
<1>1. \A i \in CaseIds : s.cases[i] \in CaseRow
  BY DEF StoreType
<1>2. \A row \in CaseRow : [row EXCEPT !.status = status] \in CaseRow
  BY DEF CaseRow
<1>3. [i \in CaseIds |-> IF i \in ids THEN [s.cases[i] EXCEPT !.status = status] ELSE s.cases[i]]
        \in [CaseIds -> CaseRow]
  BY <1>1, <1>2
<1> QED BY <1>3 DEF Settle, StoreType

LEMMA ExpireDueType ==
    ASSUME NEW s \in StoreType
    PROVE  ExpireDue(s) \in StoreType
BY SettleType DEF ExpireDue, Settled

LEMMA LapsedType ==
    ASSUME NEW s \in StoreType
    PROVE  Lapsed(s) \in StoreType
BY ExpireDueType DEF Lapsed

\* Writing one movement's row.
LEMMA MoveRowType ==
    ASSUME NEW s \in StoreType, NEW m \in Movements, NEW row \in MoveState
    PROVE  [s EXCEPT !.moves[m] = row] \in StoreType
BY DEF StoreType

LEMMA DeclarationTypes ==
    ASSUME NEW s \in StoreType, NEW m \in Movements, NEW ready \in BOOLEAN
    PROVE  /\ SetPosition(s, m) \in StoreType
           /\ SetCrew(s, m, ready) \in StoreType
           /\ Approach(s, m) \in StoreType
<1>1. /\ [s.moves[m] EXCEPT !.departure = "positioned"] \in MoveState
      /\ [s.moves[m] EXCEPT !.crew = ready] \in MoveState
      /\ [s.moves[m] EXCEPT !.arrival = "approaching"] \in MoveState
  <2>1. s.moves[m] \in MoveState BY DEF StoreType
  <2> QED BY <2>1 DEF MoveState
<1>2. SetPosition(s, m) \in StoreType
  BY <1>1, MoveRowType DEF SetPosition
<1>3. SetCrew(s, m, ready) \in StoreType
  BY <1>1, MoveRowType DEF SetCrew
<1>4. Approach(s, m) \in StoreType
  BY <1>1, MoveRowType DEF Approach
<1> QED BY <1>2, <1>3, <1>4

LEMMA TrackType ==
    ASSUME NEW m \in Movements, NEW t \in TracksAt[Station[m]]
    PROVE  t \in Tracks
BY TrackAssumption DEF Tracks

LEMMA ChangeTrackType ==
    ASSUME NEW s \in StoreType, NEW m \in Movements, NEW t, CanChangeTrack(s, m, t)
    PROVE  ChangeTrack(s, m, t) \in StoreType
<1> DEFINE moved == [s EXCEPT !.moves[m].track = t]
<1>1. t \in Tracks BY TrackType DEF CanChangeTrack
<1>2. moved \in StoreType
  <2>1. s.moves[m] \in MoveState BY DEF StoreType
  <2>2. [s.moves[m] EXCEPT !.track = t] \in MoveState BY <1>1, <2>1 DEF MoveState
  <2> QED BY <2>2, MoveRowType
<1>3. "invalidated_by_revision" \in {"waiting", "approved"} \cup Settled
  BY DEF Settled
<1>4. ChangeTrack(s, m, t) = Settle(moved, WaitingOf(s, {m}), "invalidated_by_revision")
  BY DEF ChangeTrack
<1> HIDE DEF moved
<1> QED BY <1>2, <1>3, <1>4, SettleType

LEMMA AdvanceType ==
    ASSUME NEW s \in StoreType, NEW m \in Movements
    PROVE  Advance(s, m) \in StoreType
<1> DEFINE chain == Chain(s, m)
           passed == {q \in chain : \E p \in chain : Stop[q] = Stop[p] + 1}
           closed == Settle(Settle(s, WaitingOf(s, chain), "invalidated_by_revision"),
                            GrantsOf(s, chain), "released")
           after == [p \in Movements |->
                        [s.moves[p] EXCEPT
                            !.departure = IF p \in chain THEN "departed" ELSE @,
                            !.arrival = IF p \in passed THEN "arrived" ELSE @]]
<1>1. closed \in StoreType BY SettleType DEF Settled
<1>2. after \in [Movements -> MoveState] BY DEF StoreType, MoveState
<1>3. Advance(s, m) = [closed EXCEPT !.moves = after] BY DEF Advance
<1> QED BY <1>1, <1>2, <1>3 DEF StoreType

LEMMA CaughtUpType ==
    ASSUME NEW s \in StoreType, NEW m \in Movements
    PROVE  CaughtUp(s, m) \in StoreType
BY AdvanceType DEF CaughtUp

LEMMA ArriveType ==
    ASSUME NEW s \in StoreType, NEW m \in Movements, NEW t, CanArrive(s, m, t)
    PROVE  Arrive(s, m, t) \in StoreType
<1> DEFINE track == ArrivalTrack(s, m, t)
           known == CaughtUp(s, m)
           spot == [at |-> "station", movement |-> m, connection |-> None]
           row == [known.moves[m] EXCEPT !.arrival = "arrived", !.track = track]
           there == [known EXCEPT !.moves[m] = row, !.position[Number[m]] = spot]
<1>1. track \in Tracks BY TrackType DEF CanArrive
<1>2. known \in StoreType BY CaughtUpType
<1>3. spot \in Place BY DEF Place
<1>4. Number[m] \in Numbers BY DEF Numbers
<1>5. row \in MoveState
  <2>1. known.moves[m] \in MoveState BY <1>2 DEF StoreType
  <2> HIDE DEF track, known
  <2> QED BY <1>1, <2>1 DEF MoveState
<1>6. there \in StoreType
  <2> HIDE DEF row, known, spot
  <2> QED BY <1>2, <1>3, <1>4, <1>5 DEF StoreType
<1>7. Arrive(s, m, t) = Settle(there, ReleasedBy(there, m), "released")
  <2> HIDE DEF track
  <2> QED BY <1>2 DEF Arrive, StoreType, track
<1> QED
  <2> HIDE DEF there
  <2> QED BY <1>6, <1>7, SettleType DEF Settled

\* The grant a departure runs on is the one CanDepart found.
LEMMA DepartureGrant ==
    ASSUME NEW s, NEW m, CanDepart(s, m)
    PROVE  /\ GrantOf(s, m) \in CaseIds
           /\ s.cases[GrantOf(s, m)].status = "approved"
           /\ s.cases[GrantOf(s, m)].movement = m
<1>1. \E i \in CaseIds : Grants(s, m) = {i} BY DEF CanDepart
<1>2. GrantOf(s, m) \in CaseIds /\ Grants(s, m) = {GrantOf(s, m)} BY <1>1 DEF GrantOf
<1>3. GrantOf(s, m) \in Grants(s, m) BY <1>2
<1> QED BY <1>2, <1>3 DEF Grants

LEMMA DepartType ==
    ASSUME NEW s \in StoreType, NEW m \in Movements, CanDepart(s, m)
    PROVE  Depart(s, m) \in StoreType
<1> DEFINE here == IF ArrivesFirst(s, m) THEN Arrive(s, m, None) ELSE s
           grant == GrantOf(s, m)
           spot == [at |-> "connection", movement |-> m, connection |-> s.cases[grant].connection]
<1>1. here \in StoreType BY ArriveType DEF CanDepart
<1>2. grant \in CaseIds BY DepartureGrant
<1>3. spot \in Place
  <2> HIDE DEF grant
  <2> QED BY <1>2 DEF StoreType, CaseRow, Place
<1>4. Number[m] \in Numbers BY DEF Numbers
<1>5. Depart(s, m) = [here EXCEPT !.moves[m].departure = "departed", !.position[Number[m]] = spot]
  BY DEF Depart
<1> HIDE DEF here, spot
<1>6. [here.moves EXCEPT ![m].departure = "departed"] \in [Movements -> MoveState]
  BY <1>1 DEF StoreType, MoveState
<1>7. [here.position EXCEPT ![Number[m]] = spot] \in [Numbers -> Place]
  BY <1>1, <1>3, <1>4 DEF StoreType
<1>8. Depart(s, m) = [here EXCEPT !.moves = [here.moves EXCEPT ![m].departure = "departed"],
                                  !.position = [here.position EXCEPT ![Number[m]] = spot]]
  BY <1>1, <1>5 DEF StoreType
<1> QED BY <1>1, <1>6, <1>7, <1>8 DEF StoreType

LEMMA RequestType ==
    ASSUME NEW s \in StoreType, NEW i \in CaseIds, NEW m \in Movements, NEW c \in Connections,
           NEW mode
    PROVE  Request(s, i, m, c, mode) \in StoreType
<1> DEFINE row == [status |-> IF mode = "direct" THEN "approved" ELSE "waiting",
                   movement |-> m, connection |-> c,
                   track |-> s.moves[m].track, due |-> FALSE]
<1>1. row \in CaseRow BY DEF CaseRow, StoreType, MoveState
<1>2. Request(s, i, m, c, mode) = [s EXCEPT !.cases[i] = row] BY DEF Request
<1> HIDE DEF row
<1> QED BY <1>1, <1>2 DEF StoreType

LEMMA FormTrackType ==
    ASSUME NEW s \in StoreType, NEW m \in Movements, NEW t, AcceptsTrack(s, m, t)
    PROVE  FormTrack(s, m, t) \in StoreType
BY ChangeTrackType DEF FormTrack, AcceptsTrack

LEMMA FormArrivalType ==
    ASSUME NEW s \in StoreType, NEW m \in Movements, NEW arrival, AcceptsArrival(s, m, arrival)
    PROVE  FormArrival(s, m, arrival) \in StoreType
<1>1. CASE arrival \in {None, s.moves[m].arrival}
  BY <1>1 DEF FormArrival
<1>2. CASE arrival \notin {None, s.moves[m].arrival} /\ arrival = "approaching"
  <2>1. FormArrival(s, m, arrival) = Approach(s, m) BY <1>2 DEF FormArrival
  <2> QED BY <2>1, DeclarationTypes
<1>3. CASE arrival \notin {None, s.moves[m].arrival} /\ arrival # "approaching"
  <2>1. FormArrival(s, m, arrival) = Arrive(Lapsed(s), m, None) BY <1>3 DEF FormArrival
  <2>2. CanArrive(Lapsed(s), m, None) BY <1>3 DEF AcceptsArrival
  <2> QED BY <2>1, <2>2, LapsedType, ArriveType
<1> QED BY <1>1, <1>2, <1>3

LEMMA FormDepartureType ==
    ASSUME NEW s \in StoreType, NEW m \in Movements, NEW departure,
           AcceptsDeparture(s, m, departure)
    PROVE  FormDeparture(s, m, departure) \in StoreType
<1>1. CASE departure \in {None, Shown(s, m)}
  BY <1>1 DEF FormDeparture
<1>2. CASE departure \notin {None, Shown(s, m)} /\ departure = "departed"
  <2>1. FormDeparture(s, m, departure) = Depart(Lapsed(s), m) BY <1>2 DEF FormDeparture
  <2>2. CanDepart(Lapsed(s), m) BY <1>2 DEF AcceptsDeparture
  <2> QED BY <2>1, <2>2, LapsedType, DepartType
<1>3. CASE departure \notin {None, Shown(s, m)} /\ departure # "departed"
  <2>1. FormDeparture(s, m, departure) = SetCrew(SetPosition(s, m), m, departure = "ready")
    BY <1>3 DEF FormDeparture
  <2>2. (departure = "ready") \in BOOLEAN OBVIOUS
  <2> QED BY <2>1, <2>2, DeclarationTypes
<1> QED BY <1>1, <1>2, <1>3

LEMMA StoreTyped == ASSUME TypeOK PROVE Store \in StoreType
BY DEF TypeOK, Store, StoreType

LEMMA CommitType ==
    ASSUME NEW s \in StoreType, TypeOK, Commit(s)
    PROVE  TypeOK'
BY DEF Commit, TypeOK, StoreType

\* What a train may have when the timetable has placed it.
LEMMA PlacedType ==
    ASSUME NEW m \in Movements, NEW over \in BOOLEAN, NEW t \in Tracks \cup {None}
    PROVE  PlacedAs(m, over, t) \in MoveState
BY DEF PlacedAs, MoveState

\* The timetable places no case, and keeps each train's route in order: what it has been
\* through is over up to where it stands.
LEMMA InitPlaced ==
    ASSUME Init
    PROVE  /\ TypeOK
           /\ \A i \in CaseIds : cases[i].status = "unused"
           /\ \A n \in Numbers : position[n].at # "connection"
           /\ \A m \in Movements : moves[m].departure = "departed" /\ m \in Arriving
                                     => moves[m].arrival = "arrived"
           /\ \A m, p \in Movements :
                moves[m].arrival = "arrived" /\ Service[p] = Service[m] /\ Stop[p] < Stop[m]
                /\ p \in Departing => moves[p].departure = "departed"
<1>1. PICK here \in [Numbers -> Movements \cup {None}], runs \in SUBSET Range(Service),
           spot \in [Numbers -> Tracks \cup {None}] :
        /\ MayStand(here, runs, spot)
        /\ moves = [m \in Movements |-> PlacedMove(m, here, runs, spot)]
        /\ position = [n \in Numbers |-> PlacedPosition(here[n])]
  BY DEF Init
<1>2. \A m \in Movements : Planned[m] \in Tracks \cup {None} BY TrackAssumption DEF Tracks
<1>3. \A m \in Movements : Number[m] \in Numbers BY DEF Numbers
<1>4. moves \in [Movements -> MoveState]
  <2> SUFFICES ASSUME NEW m \in Movements PROVE PlacedMove(m, here, runs, spot) \in MoveState
    BY <1>1
  <2>1. PlacedAs(m, TRUE, Planned[m]) \in MoveState BY <1>2, PlacedType
  <2>2. spot[Number[m]] \in Tracks \cup {None} BY <1>3
  <2>3. PlacedAs(m, FALSE, spot[Number[m]]) \in MoveState BY <2>2, PlacedType
  <2>4. [arrival |-> "none", departure |-> "none", crew |-> FALSE, track |-> Planned[m]] \in MoveState
    BY <1>2 DEF MoveState
  <2> QED BY <2>1, <2>3, <2>4 DEF PlacedMove
<1>5. position \in [Numbers -> Place]
  BY <1>1 DEF PlacedPosition, Place
<1>6. TypeOK BY <1>4, <1>5 DEF Init, TypeOK, CaseRow
<1>7. \A i \in CaseIds : cases[i].status = "unused" BY DEF Init
<1>8. \A n \in Numbers : position[n].at # "connection" BY <1>1 DEF PlacedPosition
<1>9. ASSUME NEW m \in Movements
      PROVE  /\ moves[m].departure = "departed" /\ m \in Arriving => moves[m].arrival = "arrived"
             /\ moves[m].arrival = "arrived" => m \in Over(here, runs) \cup PlacedAt(here)
             /\ m \in Over(here, runs) /\ m \in Departing => moves[m].departure = "departed"
  BY <1>1 DEF PlacedMove, PlacedAs
<1>10. ASSUME NEW m \in Movements, NEW p \in Movements, m \in Over(here, runs) \cup PlacedAt(here),
              Service[p] = Service[m], Stop[p] < Stop[m]
       PROVE  p \in Over(here, runs)
  <2>1. Stop[p] \in Nat /\ Stop[m] \in Nat BY TimetableAssumption
  <2>2. PlacedAt(here) \subseteq Movements BY DEF PlacedAt, Range
  <2>3. /\ \A h \in PlacedAt(here) : p \in Passed(h) => p \in Over(here, runs)
        /\ Service[p] \in runs => p \in Over(here, runs)
        /\ m \in Over(here, runs) => \/ Service[m] \in runs
                                     \/ \E h \in PlacedAt(here) : m \in Passed(h)
    BY DEF Over
  <2>4. ASSUME m \in PlacedAt(here) PROVE p \in Passed(m) BY <1>10, <2>4 DEF Passed
  <2>5. ASSUME NEW h \in PlacedAt(here), m \in Passed(h) PROVE p \in Passed(h)
    <3>1. Stop[h] \in Nat BY <2>2, TimetableAssumption
    <3> QED BY <1>10, <2>1, <2>5, <3>1 DEF Passed
  <2>6. ASSUME Service[m] \in runs PROVE Service[p] \in runs BY <1>10, <2>6
  <2> QED BY <1>10, <2>3, <2>4, <2>5, <2>6
<1> QED BY <1>6, <1>7, <1>8, <1>9, <1>10

\* Every step keeps the types, one case per command.
LEMMA StepType == ASSUME TypeOK, [Next]_vars PROVE TypeOK'
<1>s. Store \in StoreType BY StoreTyped
<1>n. Now \in StoreType BY <1>s, LapsedType DEF Now
<1>1. ASSUME NEW m \in Movements, PositionSet(m) PROVE TypeOK'
  BY <1>s, <1>1, DeclarationTypes, CommitType DEF PositionSet
<1>2. ASSUME NEW m \in Movements, NEW ready \in BOOLEAN, CrewReadySet(m, ready) PROVE TypeOK'
  BY <1>s, <1>2, DeclarationTypes, CommitType DEF CrewReadySet
<1>3. ASSUME NEW m \in Movements, TrainApproaching(m) PROVE TypeOK'
  BY <1>s, <1>3, DeclarationTypes, CommitType DEF TrainApproaching
<1>4. ASSUME NEW m \in Movements, NEW t, TrackChange(m, t) PROVE TypeOK'
  BY <1>s, <1>4, ChangeTrackType, CommitType DEF TrackChange
<1>5. ASSUME NEW m \in Movements, NEW t, TrainArrived(m, t) PROVE TypeOK'
  BY <1>n, <1>5, ArriveType, CommitType DEF TrainArrived
<1>6. ASSUME NEW m \in Movements, TrainDeparted(m) PROVE TypeOK'
  BY <1>n, <1>6, DepartType, CommitType DEF TrainDeparted
<1>7. ASSUME NEW i \in CaseIds, NEW m \in Movements, NEW c \in Connections,
             ClearanceRequest(i, m, c)
      PROVE  TypeOK'
  BY <1>n, <1>7, RequestType, CommitType DEF ClearanceRequest
<1>8. ASSUME NEW i \in CaseIds, NEW approved \in BOOLEAN, ClearanceResponse(i, approved)
      PROVE  TypeOK'
  <2> DEFINE status == IF approved THEN "approved" ELSE "rejected"
  <2>1. status \in {"waiting", "approved"} \cup Settled BY DEF Settled
  <2> HIDE DEF status
  <2>2. Settle(Now, {i}, status) \in StoreType BY <1>n, <2>1, SettleType
  <2>3. Commit(Settle(Now, {i}, status)) BY <1>8 DEF ClearanceResponse, status
  <2> QED BY <2>2, <2>3, CommitType
<1>9. ASSUME NEW i \in CaseIds, ClearanceCancel(i) PROVE TypeOK'
  <2>1. Settle(Now, {i}, "cancelled") \in StoreType BY <1>n, SettleType DEF Settled
  <2> QED BY <1>9, <2>1, CommitType DEF ClearanceCancel
<1>10. ASSUME NEW m \in Movements, NEW t, NEW arrival, NEW departure,
              TKLForm(m, t, arrival, departure)
       PROVE  TypeOK'
  <2> DEFINE tracked == FormTrack(Store, m, t)
             received == FormArrival(tracked, m, arrival)
             sent == FormDeparture(received, m, departure)
  <2>1. tracked \in StoreType BY <1>s, <1>10, FormTrackType DEF TKLForm
  <2>2. received \in StoreType BY <2>1, <1>10, FormArrivalType DEF TKLForm
  <2>3. sent \in StoreType BY <2>2, <1>10, FormDepartureType DEF TKLForm
  <2>4. Commit(sent) BY <1>10 DEF TKLForm
  <2> QED BY <2>3, <2>4, CommitType
<1>11. ASSUME ReadOpenCases PROVE TypeOK'
  BY <1>s, <1>11, ExpireDueType, CommitType DEF ReadOpenCases
<1>12. ASSUME NEW i \in CaseIds, TimeToLiveRunsOut(i) PROVE TypeOK'
  BY <1>12 DEF TimeToLiveRunsOut, TypeOK, CaseRow
<1>13. ASSUME StartClock \/ StopClock \/ UNCHANGED vars PROVE TypeOK'
  BY <1>13 DEF StartClock, StopClock, vars, TypeOK
<1> QED
  BY <1>1, <1>2, <1>3, <1>4, <1>5, <1>6, <1>7, <1>8, <1>9, <1>10, <1>11, <1>12, <1>13
  DEF Next, Declaration, Running, Clearing, Forms, Clock

\* The rows of the store stay well formed; in particular ready is derived from
\* the two declarations and never stored (operations.derived_departure).
THEOREM TypeCorrect == Spec => []TypeOK
<1>1. Init => TypeOK BY InitPlaced
<1>2. TypeOK /\ [Next]_vars => TypeOK' BY StepType
<1> QED BY <1>1, <1>2, PTL DEF Spec

-----------------------------------------------------------------------------
(* What a safe store is *)

\* An open case is about a movement of the timetable.
Named(s) == \A i \in CaseIds : IsOpen(s.cases[i]) => s.cases[i].movement \in Movements

\* Two open cases are about two channels and two movements.
NoClash(s) ==
    \A i, j \in CaseIds :
        i # j /\ IsOpen(s.cases[i]) /\ IsOpen(s.cases[j])
        => /\ ChannelOf(s.cases[i]) # ChannelOf(s.cases[j])
           /\ s.cases[i].movement # s.cases[j].movement

\* A train out on a line has left, and its grant still holds that line.
BackedBy(s, n, i) ==
    /\ s.cases[i].status = "approved"
    /\ s.cases[i].movement = s.position[n].movement
    /\ s.cases[i].connection = s.position[n].connection
    /\ s.position[n].movement \in Movements
    /\ Number[s.position[n].movement] = n
    /\ HasDeparted(s, s.position[n].movement)

Backed(s, n) == s.position[n].at = "connection" => \E i \in CaseIds : BackedBy(s, n, i)

Released(s) ==
    \A i \in CaseIds : s.cases[i].status = "released" =>
        s.cases[i].movement \in Movements /\ HasDeparted(s, s.cases[i].movement)

InOrder(s) == \A m \in BroughtIn : HasDeparted(s, m) => HasArrived(s, m)

SafeBut(s, n) ==
    /\ s \in StoreType
    /\ Named(s)
    /\ NoClash(s)
    /\ \A k \in Numbers \ {n} : Backed(s, k)
    /\ Released(s)
    /\ InOrder(s)

SafeStore(s) == SafeBut(s, None) /\ \A n \in Numbers : Backed(s, n)

-----------------------------------------------------------------------------
(* Settling cases *)

\* Cases may be settled safely if they are open, if a release is about trains
\* that have left, and if no train still out on the line is left without its
\* grant.
LEMMA SettleSafe ==
    ASSUME NEW s, SafeStore(s), NEW ids,
           NEW status \in {"approved"} \cup Settled,
           \A i \in CaseIds : i \in ids =>
               /\ IsOpen(s.cases[i])
               /\ status = "released" => HasDeparted(s, s.cases[i].movement)
               /\ \/ s.cases[i].status = "waiting"
                  \/ ~HasDeparted(s, s.cases[i].movement)
                  \/ s.position[Number[s.cases[i].movement]].at # "connection"
    PROVE  SafeStore(Settle(s, ids, status))
<1> DEFINE z == Settle(s, ids, status)
<1>s. s \in StoreType BY DEF SafeStore, SafeBut
<1>t. z \in StoreType BY <1>s, SettleType
<1>w. /\ z.moves = s.moves
      /\ z.position = s.position
      /\ \A i \in CaseIds :
            z.cases[i] = IF i \in ids THEN [s.cases[i] EXCEPT !.status = status] ELSE s.cases[i]
  BY <1>s, SettleWrites
<1>c. \A i \in CaseIds :
        /\ z.cases[i].movement = s.cases[i].movement
        /\ z.cases[i].connection = s.cases[i].connection
        /\ z.cases[i].status = IF i \in ids THEN status ELSE s.cases[i].status
        /\ IsOpen(z.cases[i]) => IsOpen(s.cases[i])
  <2> TAKE i \in CaseIds
  <2>1. s.cases[i] \in CaseRow BY <1>s DEF StoreType
  <2> HIDE DEF z
  <2> QED BY <2>1, <1>w DEF CaseRow, IsOpen
<1> HIDE DEF z
<1>1. Named(z) BY <1>c DEF SafeStore, SafeBut, Named
<1>2. NoClash(z) BY <1>c DEF SafeStore, SafeBut, NoClash, ChannelOf
<1>3. ASSUME NEW n \in Numbers PROVE Backed(z, n)
  <2>1. SUFFICES ASSUME s.position[n].at = "connection"
                 PROVE  \E i \in CaseIds : BackedBy(z, n, i)
    BY <1>w DEF Backed
  <2>2. PICK i \in CaseIds : BackedBy(s, n, i) BY <2>1 DEF SafeStore, Backed
  <2>3. i \notin ids BY <2>1, <2>2 DEF BackedBy
  <2> QED BY <2>2, <2>3, <1>w DEF BackedBy, HasDeparted
<1>4. Released(z)
  <2> SUFFICES ASSUME NEW i \in CaseIds, z.cases[i].status = "released"
               PROVE  z.cases[i].movement \in Movements /\ HasDeparted(z, z.cases[i].movement)
    BY DEF Released
  <2>1. CASE i \in ids BY <2>1, <1>c, <1>w DEF SafeStore, SafeBut, Named, HasDeparted
  <2>2. CASE i \notin ids BY <2>2, <1>c, <1>w DEF SafeStore, SafeBut, Released, HasDeparted
  <2> QED BY <2>1, <2>2
<1>5. InOrder(z) BY <1>w DEF SafeStore, SafeBut, InOrder, HasDeparted, HasArrived
<1> QED BY <1>t, <1>1, <1>2, <1>3, <1>4, <1>5 DEF SafeStore, SafeBut, z

LEMMA LapsedSafe == ASSUME NEW s, SafeStore(s) PROVE SafeStore(Lapsed(s))
<1> DEFINE ids == {i \in CaseIds : s.cases[i].status = "waiting" /\ s.cases[i].due}
<1>1. \A i \in CaseIds : i \in ids => IsOpen(s.cases[i]) /\ s.cases[i].status = "waiting"
  BY DEF IsOpen
<1>2. "expired" \in Settled BY DEF Settled
<1> HIDE DEF ids
<1>3. SafeStore(Settle(s, ids, "expired")) BY <1>1, <1>2, SettleSafe
<1> QED BY <1>3 DEF Lapsed, ExpireDue, ids

\* An id nobody has used yet does not expire.
LEMMA LapsedKeepsUnused ==
    ASSUME NEW s \in StoreType, NEW i \in CaseIds, s.cases[i].status = "unused"
    PROVE  Lapsed(s).cases[i].status = "unused"
<1> DEFINE ids == {j \in CaseIds : s.cases[j].status = "waiting" /\ s.cases[j].due}
           z == Settle(s, ids, "expired")
<1>1. i \notin ids OBVIOUS
<1>2. \A j \in CaseIds :
        z.cases[j] = IF j \in ids THEN [s.cases[j] EXCEPT !.status = "expired"] ELSE s.cases[j]
  BY SettleWrites
<1>3. Lapsed(s) = z \/ Lapsed(s) = s BY DEF Lapsed, ExpireDue
<1> HIDE DEF ids, z
<1>4. z.cases[i] = s.cases[i] BY <1>1, <1>2
<1> QED BY <1>3, <1>4

-----------------------------------------------------------------------------
(* Catching up a route *)

\* Whatever changes no case that is not settled by it, and no train that is
\* not number n, is safe to do while n is left aside.
LEMMA AdvanceWrites ==
    ASSUME NEW s \in StoreType, NEW m \in Movements
    PROVE  LET z == Advance(s, m)
               chain == Chain(s, m)
           IN  /\ z.position = s.position
               /\ \A i \in CaseIds :
                    /\ z.cases[i].movement = s.cases[i].movement
                    /\ z.cases[i].connection = s.cases[i].connection
                    /\ \/ z.cases[i] = s.cases[i]
                       \/ /\ s.cases[i].movement \in chain
                          /\ IsOpen(s.cases[i])
                          /\ z.cases[i].status \in {"released", "invalidated_by_revision"}
                          /\ s.cases[i].status = "approved" => z.cases[i].status = "released"
                    /\ s.cases[i].movement \in chain => ~IsOpen(z.cases[i])
               /\ \A p \in Movements :
                    /\ HasDeparted(z, p) <=> HasDeparted(s, p) \/ p \in chain
                    /\ HasArrived(z, p) <=> \/ HasArrived(s, p)
                                            \/ /\ p \in chain
                                               /\ \E o \in chain : Stop[p] = Stop[o] + 1
<1> DEFINE z == Advance(s, m)
           chain == Chain(s, m)
           passed == {q \in chain : \E p \in chain : Stop[q] = Stop[p] + 1}
           half == Settle(s, WaitingOf(s, chain), "invalidated_by_revision")
           closed == Settle(half, GrantsOf(s, chain), "released")
           after == [p \in Movements |->
                        [s.moves[p] EXCEPT
                            !.departure = IF p \in chain THEN "departed" ELSE @,
                            !.arrival = IF p \in passed THEN "arrived" ELSE @]]
<1>1. half \in StoreType BY SettleType DEF Settled
<1>2. closed \in StoreType BY <1>1, SettleType DEF Settled
<1>3. z = [closed EXCEPT !.moves = after] BY DEF Advance
<1>4. /\ z.cases = closed.cases
      /\ z.position = closed.position
      /\ z.moves = after
  <2> HIDE DEF z, closed, after
  <2> QED BY <1>2, <1>3 DEF StoreType
<1>5. z.position = s.position
  <2>1. half.position = s.position BY SettleWrites
  <2>2. closed.position = half.position BY <1>1, SettleWrites
  <2> QED BY <2>1, <2>2, <1>4
<1>6. ASSUME NEW i \in CaseIds
      PROVE  /\ z.cases[i].movement = s.cases[i].movement
             /\ z.cases[i].connection = s.cases[i].connection
             /\ \/ z.cases[i] = s.cases[i]
                \/ /\ s.cases[i].movement \in chain
                   /\ IsOpen(s.cases[i])
                   /\ z.cases[i].status \in {"released", "invalidated_by_revision"}
                   /\ s.cases[i].status = "approved" => z.cases[i].status = "released"
             /\ s.cases[i].movement \in chain => ~IsOpen(z.cases[i])
  <2> DEFINE waits == WaitingOf(s, chain)
             granted == GrantsOf(s, chain)
  <2>1. s.cases[i] \in CaseRow BY DEF StoreType
  <2>2. i \in waits => s.cases[i].movement \in chain /\ IsOpen(s.cases[i])
    BY DEF WaitingOf, IsOpen
  <2>3. i \in granted => s.cases[i].movement \in chain /\ IsOpen(s.cases[i])
    BY DEF GrantsOf, Grants, IsOpen
  <2>10. i \in waits => s.cases[i].status = "waiting"
    BY DEF WaitingOf
  <2>11. s.cases[i].movement \in chain /\ s.cases[i].status = "waiting" => i \in waits
    BY DEF WaitingOf
  <2>12. s.cases[i].movement \in chain /\ s.cases[i].status = "approved" => i \in granted
    BY DEF GrantsOf, Grants
  <2>4. half.cases[i] = IF i \in waits
                        THEN [s.cases[i] EXCEPT !.status = "invalidated_by_revision"]
                        ELSE s.cases[i]
    BY SettleWrites
  <2>5. closed.cases[i] = IF i \in granted
                          THEN [half.cases[i] EXCEPT !.status = "released"]
                          ELSE half.cases[i]
    <3> HIDE DEF half
    <3> QED BY <1>1, SettleWrites DEF closed
  <2>6. z.cases[i] = closed.cases[i] BY <1>4
  <2> HIDE DEF waits, granted, half, closed, z, chain, passed, after
  <2>7. CASE i \in granted
    <3>1. /\ z.cases[i].status = "released"
          /\ z.cases[i].movement = s.cases[i].movement
          /\ z.cases[i].connection = s.cases[i].connection
      BY <2>1, <2>4, <2>5, <2>6, <2>7 DEF CaseRow
    <3> QED BY <3>1, <2>3, <2>7 DEF IsOpen
  <2>8. CASE i \in waits \ granted
    <3>1. /\ z.cases[i].status = "invalidated_by_revision"
          /\ z.cases[i].movement = s.cases[i].movement
          /\ z.cases[i].connection = s.cases[i].connection
      BY <2>1, <2>4, <2>5, <2>6, <2>8 DEF CaseRow
    <3> QED BY <3>1, <2>2, <2>8, <2>10 DEF IsOpen
  <2>9. CASE i \notin granted /\ i \notin waits
    BY <2>4, <2>5, <2>6, <2>9, <2>11, <2>12 DEF IsOpen
  <2> QED BY <2>7, <2>8, <2>9
<1>7. ASSUME NEW p \in Movements
      PROVE  /\ HasDeparted(z, p) <=> HasDeparted(s, p) \/ p \in chain
             /\ HasArrived(z, p) <=> HasArrived(s, p) \/ p \in passed
  <2>1. s.moves[p] \in MoveState BY DEF StoreType
  <2>2. z.moves[p] = [s.moves[p] EXCEPT
                        !.departure = IF p \in chain THEN "departed" ELSE @,
                        !.arrival = IF p \in passed THEN "arrived" ELSE @]
    BY <1>4
  <2> HIDE DEF z, chain, passed
  <2> QED BY <2>1, <2>2 DEF MoveState, HasDeparted, HasArrived
<1> HIDE DEF z, half, closed, after
<1> QED BY <1>5, <1>6, <1>7 DEF z

\* A leg into a visit that the walk reaches puts its sender on the walk too.
LEMMA ChainIsClosed ==
    ASSUME NEW s, NEW m \in Movements, NEW q \in Chain(s, m), NEW p \in Movements,
           LeadsTo(p, q), ~HasDeparted(s, q)
    PROVE  p \in Chain(s, m)
<1>1. q \in Movements /\ Service[q] = Service[m] /\ Stop[q] < Stop[m] /\ q \in Upstream[m]
  BY DEF Chain, Upstream
<1>2. Service[p] = Service[q] /\ Stop[q] = Stop[p] + 1 BY DEF LeadsTo
<1>3. /\ Stop[p] \in Nat /\ Stop[q] \in Nat /\ Stop[m] \in Nat
      /\ \A r \in Movements : Stop[r] \in Nat
  BY <1>1, TimetableAssumption
<1>4. q \in BroughtIn BY <1>1 DEF BroughtIn
<1>5. \A r \in Movements :
        Service[r] = Service[q] /\ Stop[p] < Stop[r] => r = q \/ Stop[q] < Stop[r]
  <2> SUFFICES ASSUME NEW r \in Movements, Service[r] = Service[q], Stop[p] < Stop[r],
                      ~(Stop[q] < Stop[r])
               PROVE  r = q
    OBVIOUS
  <2>1. Stop[r] = Stop[q] BY <1>2, <1>3
  <2> QED BY <2>1, <1>1, TimetableAssumption
<1>6. p \in Upstream[m]
  <2>1. \A r \in Movements :
            Service[r] = Service[m] /\ Stop[p] < Stop[r] /\ Stop[r] <= Stop[m] => r \in BroughtIn
    BY <1>1, <1>4, <1>5 DEF Upstream
  <2>2. Stop[p] < Stop[m] BY <1>1, <1>2, <1>3
  <2> QED BY <1>1, <1>2, <2>1, <2>2 DEF Upstream
<1>7. \A r \in Upstream[m] : Stop[p] < Stop[r] => ~HasDeparted(s, r)
  <2> SUFFICES ASSUME NEW r \in Upstream[m], Stop[p] < Stop[r] PROVE ~HasDeparted(s, r)
    OBVIOUS
  <2>1. r \in Movements /\ Service[r] = Service[m] BY DEF Upstream
  <2>2. r = q \/ Stop[q] < Stop[r] BY <1>1, <1>5, <2>1
  <2> QED BY <2>2 DEF Chain
<1> QED BY <1>6, <1>7 DEF Chain

\* Everybody on the walk from m runs under the number of m.
LEMMA ChainNumber ==
    ASSUME NEW s, NEW m \in Movements, NEW p \in Chain(s, m)
    PROVE  p \in Movements /\ Number[p] = Number[m] /\ p # m
<1>1. p \in Movements /\ Service[p] = Service[m] /\ Stop[p] < Stop[m]
  BY DEF Chain, Upstream
<1>2. Stop[p] # Stop[m] BY <1>1, TimetableAssumption
<1> QED BY <1>1, <1>2, TimetableAssumption

\* Catching up leaves everything safe but the train that is about to arrive.
LEMMA AdvanceSafe ==
    ASSUME NEW s, SafeStore(s), NEW m \in Movements
    PROVE  SafeBut(Advance(s, m), Number[m])
<1> DEFINE z == Advance(s, m)
           chain == Chain(s, m)
<1>s. s \in StoreType BY DEF SafeStore, SafeBut
<1>t. z \in StoreType BY <1>s, AdvanceType
<1>w. /\ z.position = s.position
      /\ \A i \in CaseIds :
            /\ z.cases[i].movement = s.cases[i].movement
            /\ z.cases[i].connection = s.cases[i].connection
            /\ \/ z.cases[i] = s.cases[i]
               \/ /\ s.cases[i].movement \in chain
                  /\ IsOpen(s.cases[i])
                  /\ z.cases[i].status \in {"released", "invalidated_by_revision"}
      /\ \A p \in Movements :
            /\ HasDeparted(z, p) <=> HasDeparted(s, p) \/ p \in chain
            /\ HasArrived(z, p) <=> \/ HasArrived(s, p)
                                    \/ p \in chain /\ \E o \in chain : Stop[p] = Stop[o] + 1
  <2>1. LET zz == Advance(s, m)
            ch == Chain(s, m)
        IN  /\ zz.position = s.position
            /\ \A i \in CaseIds :
                /\ zz.cases[i].movement = s.cases[i].movement
                /\ zz.cases[i].connection = s.cases[i].connection
                /\ \/ zz.cases[i] = s.cases[i]
                   \/ /\ s.cases[i].movement \in ch
                      /\ IsOpen(s.cases[i])
                      /\ zz.cases[i].status \in {"released", "invalidated_by_revision"}
            /\ \A p \in Movements :
                /\ HasDeparted(zz, p) <=> HasDeparted(s, p) \/ p \in ch
                /\ HasArrived(zz, p) <=> \/ HasArrived(s, p)
                                         \/ /\ p \in ch
                                            /\ \E o \in ch : Stop[p] = Stop[o] + 1
    BY <1>s, AdvanceWrites
  <2> QED BY <2>1
<1>n. \A p \in chain : p \in Movements /\ Number[p] = Number[m] BY ChainNumber
<1> HIDE DEF z, chain
<1>o. \A i \in CaseIds : IsOpen(z.cases[i]) => z.cases[i] = s.cases[i]
  BY <1>w DEF IsOpen
<1>1. Named(z) BY <1>o DEF SafeStore, SafeBut, Named
<1>2. NoClash(z) BY <1>o DEF SafeStore, SafeBut, NoClash
<1>3. ASSUME NEW n \in Numbers \ {Number[m]} PROVE Backed(z, n)
  <2>1. SUFFICES ASSUME s.position[n].at = "connection"
                 PROVE  \E i \in CaseIds : BackedBy(z, n, i)
    BY <1>w DEF Backed
  <2>2. PICK i \in CaseIds : BackedBy(s, n, i) BY <2>1 DEF SafeStore, Backed
  <2>3. s.cases[i].movement \notin chain BY <2>2, <1>n DEF BackedBy
  <2> QED BY <2>2, <2>3, <1>w DEF BackedBy
<1>4. Released(z) BY <1>w, <1>n DEF SafeStore, SafeBut, Released, Named
<1>5. InOrder(z)
  <2> SUFFICES ASSUME NEW q \in BroughtIn, HasDeparted(z, q) PROVE HasArrived(z, q)
    BY DEF InOrder
  <2>1. q \in Movements BY DEF BroughtIn
  <2>2. CASE HasDeparted(s, q)
    BY <2>1, <2>2, <1>w DEF SafeStore, SafeBut, InOrder
  <2>3. CASE ~HasDeparted(s, q)
    <3>1. q \in chain BY <2>1, <2>3, <1>w
    <3>2. PICK p \in Movements : LeadsTo(p, q) BY DEF BroughtIn
    <3>3. p \in chain BY <2>3, <3>1, <3>2, ChainIsClosed DEF chain
    <3>4. Stop[q] = Stop[p] + 1 BY <3>2 DEF LeadsTo
    <3> QED BY <2>1, <3>1, <3>3, <3>4, <1>w
  <2> QED BY <2>2, <2>3
<1> QED BY <1>t, <1>1, <1>2, <1>3, <1>4, <1>5 DEF SafeBut, z

LEMMA CaughtUpSafe ==
    ASSUME NEW s, SafeStore(s), NEW m \in Movements
    PROVE  /\ SafeBut(CaughtUp(s, m), Number[m])
           /\ HasDeparted(CaughtUp(s, m), m) <=> HasDeparted(s, m)
           /\ \A i \in CaseIds :
                s.cases[i].movement = m => CaughtUp(s, m).cases[i] = s.cases[i]
<1>1. CASE IsExpected(s, m)
  BY <1>1 DEF CaughtUp, SafeStore, SafeBut
<1>2. CASE ~IsExpected(s, m)
  <2> DEFINE z == Advance(s, m)
             chain == Chain(s, m)
  <2>s. s \in StoreType BY DEF SafeStore, SafeBut
  <2>1. CaughtUp(s, m) = z BY <1>2 DEF CaughtUp
  <2>2. SafeBut(z, Number[m]) BY AdvanceSafe
  <2>3. m \notin chain BY ChainNumber
  <2>4. HasDeparted(z, m) <=> HasDeparted(s, m) \/ m \in chain BY <2>s, AdvanceWrites
  <2>5. \A i \in CaseIds : z.cases[i] = s.cases[i] \/ s.cases[i].movement \in chain
    BY <2>s, AdvanceWrites
  <2> HIDE DEF z, chain
  <2> QED BY <2>1, <2>2, <2>3, <2>4, <2>5
<1> QED BY <1>1, <1>2

-----------------------------------------------------------------------------
(* Arrivals and departures *)

\* An arrival is safe, is recorded, and takes no unused grant from the train
\* that arrives: that is what an implied arrival then departs on.
LEMMA ArriveSafe ==
    ASSUME NEW s, SafeStore(s), NEW m \in Movements, NEW t, CanArrive(s, m, t)
    PROVE  LET z == Arrive(s, m, t)
           IN  /\ SafeStore(z)
               /\ HasArrived(z, m)
               /\ HasDeparted(z, m) <=> HasDeparted(s, m)
               /\ \A i \in CaseIds :
                    ~HasDeparted(s, m) /\ s.cases[i].movement = m => z.cases[i] = s.cases[i]
<1> DEFINE track == ArrivalTrack(s, m, t)
           known == CaughtUp(s, m)
           spot == [at |-> "station", movement |-> m, connection |-> None]
           row == [known.moves[m] EXCEPT !.arrival = "arrived", !.track = track]
           there == [known EXCEPT !.moves[m] = row, !.position[Number[m]] = spot]
           ids == ReleasedBy(there, m)
           z == Settle(there, ids, "released")
<1>s. s \in StoreType BY DEF SafeStore, SafeBut
<1>1. track \in Tracks BY TrackType DEF CanArrive
<1>2. known \in StoreType BY <1>s, CaughtUpType
<1>3. spot \in Place BY DEF Place
<1>4. Number[m] \in Numbers BY DEF Numbers
<1>5. row \in MoveState /\ row.arrival = "arrived" /\ row.departure = known.moves[m].departure
  <2> HIDE DEF track, known
  <2> QED BY <1>1, <1>2 DEF StoreType, MoveState
<1>6. /\ there \in StoreType
      /\ there.cases = known.cases
      /\ \A p \in Movements : there.moves[p] = IF p = m THEN row ELSE known.moves[p]
      /\ \A n \in Numbers :
            there.position[n] = IF n = Number[m] THEN spot ELSE known.position[n]
  <2> HIDE DEF row, known, spot
  <2> QED BY <1>2, <1>3, <1>4, <1>5 DEF StoreType
<1>7. Arrive(s, m, t) = z
  <2> HIDE DEF track
  <2> QED BY <1>2 DEF Arrive, StoreType, track
<1>8. /\ SafeBut(known, Number[m])
      /\ HasDeparted(known, m) <=> HasDeparted(s, m)
      /\ \A i \in CaseIds : s.cases[i].movement = m => known.cases[i] = s.cases[i]
  BY CaughtUpSafe
<1>9. spot.at = "station" OBVIOUS
<1> HIDE DEF known, row, spot, there
<1>10. \A p \in Movements :
        /\ HasDeparted(there, p) <=> HasDeparted(known, p)
        /\ HasArrived(there, p) <=> HasArrived(known, p) \/ p = m
  BY <1>5, <1>6 DEF HasDeparted, HasArrived
<1>11. SafeStore(there)
  <2>1. Named(there) BY <1>6, <1>8 DEF SafeBut, Named
  <2>2. NoClash(there) BY <1>6, <1>8 DEF SafeBut, NoClash
  <2>3. ASSUME NEW n \in Numbers PROVE Backed(there, n)
    <3>1. CASE n = Number[m] BY <3>1, <1>6, <1>9 DEF Backed
    <3>2. CASE n # Number[m] BY <3>2, <1>6, <1>8, <1>10 DEF SafeBut, Backed, BackedBy
    <3> QED BY <3>1, <3>2
  <2>4. Released(there) BY <1>6, <1>8, <1>10 DEF SafeBut, Released
  <2>5. InOrder(there) BY <1>8, <1>10 DEF SafeBut, InOrder, BroughtIn
  <2> QED BY <1>6, <2>1, <2>2, <2>3, <2>4, <2>5 DEF SafeStore, SafeBut
<1>12. \A i \in CaseIds : i \in ids =>
        /\ IsOpen(there.cases[i])
        /\ HasDeparted(there, there.cases[i].movement)
        /\ there.position[Number[there.cases[i].movement]].at # "connection"
  BY <1>4, <1>6, <1>9 DEF ReleasedBy, IsOpen
<1> HIDE DEF ids
<1>13. SafeStore(z) BY <1>11, <1>12, SettleSafe DEF Settled
<1>14. /\ z.moves = there.moves
       /\ \A i \in CaseIds : i \notin ids => z.cases[i] = there.cases[i]
  <2>1. there \in StoreType BY <1>6
  <2>2. /\ z.moves = there.moves
        /\ \A i \in CaseIds :
            z.cases[i] = IF i \in ids THEN [there.cases[i] EXCEPT !.status = "released"]
                         ELSE there.cases[i]
    BY <2>1, SettleWrites
  <2> HIDE DEF z
  <2> QED BY <2>2
<1> HIDE DEF z
<1>15. HasArrived(z, m) /\ (HasDeparted(z, m) <=> HasDeparted(s, m))
  BY <1>8, <1>10, <1>14 DEF HasArrived, HasDeparted
<1>16. ASSUME NEW i \in CaseIds, ~HasDeparted(s, m), s.cases[i].movement = m
       PROVE  z.cases[i] = s.cases[i]
  <2>1. there.cases[i] = s.cases[i] BY <1>16, <1>6, <1>8
  <2>2. i \notin ids BY <1>16, <2>1, <1>8, <1>10 DEF ids, ReleasedBy
  <2> QED BY <2>1, <2>2, <1>14
<1> QED BY <1>7, <1>13, <1>15, <1>16

\* On top of catching up, an arrival writes the row and frees the lines behind the train.
LEMMA ArriveWrites ==
    ASSUME NEW s, SafeStore(s), NEW m \in Movements, NEW t, CanArrive(s, m, t)
    PROVE  LET z == Arrive(s, m, t)
               known == CaughtUp(s, m)
           IN  /\ \A i \in CaseIds :
                    \/ z.cases[i] = known.cases[i]
                    \/ known.cases[i].status = "approved" /\ z.cases[i].status = "released"
               /\ \A i \in CaseIds :
                    /\ known.cases[i].status = "approved"
                    /\ To(known.cases[i]) = Station[m]
                    /\ Number[known.cases[i].movement] = Number[m]
                    /\ HasDeparted(known, known.cases[i].movement)
                    /\ known.cases[i].movement \in Movements
                    => z.cases[i].status = "released"
               /\ \A p \in Movements :
                    /\ HasDeparted(z, p) <=> HasDeparted(known, p)
                    /\ HasArrived(z, p) <=> HasArrived(known, p) \/ p = m
<1> DEFINE track == ArrivalTrack(s, m, t)
           known == CaughtUp(s, m)
           spot == [at |-> "station", movement |-> m, connection |-> None]
           row == [known.moves[m] EXCEPT !.arrival = "arrived", !.track = track]
           there == [known EXCEPT !.moves[m] = row, !.position[Number[m]] = spot]
           ids == ReleasedBy(there, m)
           z == Settle(there, ids, "released")
<1>1. track \in Tracks BY TrackType DEF CanArrive
<1>2. known \in StoreType BY CaughtUpType DEF SafeStore, SafeBut
<1>3. spot \in Place BY DEF Place
<1>4. Number[m] \in Numbers BY DEF Numbers
<1>5. row \in MoveState /\ row.arrival = "arrived" /\ row.departure = known.moves[m].departure
  <2> HIDE DEF track, known
  <2> QED BY <1>1, <1>2 DEF StoreType, MoveState
<1>6. /\ there \in StoreType
      /\ there.cases = known.cases
      /\ \A p \in Movements : there.moves[p] = IF p = m THEN row ELSE known.moves[p]
  <2> HIDE DEF row, known, spot
  <2> QED BY <1>2, <1>3, <1>4, <1>5 DEF StoreType
<1>7. Arrive(s, m, t) = z
  <2> HIDE DEF track
  <2> QED BY <1>2 DEF Arrive, StoreType, track
<1> HIDE DEF known, row, spot, there
<1>8. /\ z.moves = there.moves
      /\ \A i \in CaseIds :
            z.cases[i] = IF i \in ids THEN [there.cases[i] EXCEPT !.status = "released"]
                         ELSE there.cases[i]
  BY <1>6, SettleWrites
<1>9. \A i \in CaseIds : i \in ids => there.cases[i].status = "approved" BY DEF ReleasedBy
<1>10. \A i \in CaseIds : there.cases[i] \in CaseRow BY <1>6 DEF StoreType
<1>11. \A p \in Movements : HasDeparted(there, p) <=> HasDeparted(known, p)
  BY <1>5, <1>6 DEF HasDeparted
<1>12. \A i \in CaseIds :
        /\ known.cases[i].status = "approved"
        /\ To(known.cases[i]) = Station[m]
        /\ Number[known.cases[i].movement] = Number[m]
        /\ HasDeparted(known, known.cases[i].movement)
        /\ known.cases[i].movement \in Movements
        => i \in ids
  BY <1>6, <1>11 DEF ReleasedBy
<1> HIDE DEF ids, z
<1>13. \A i \in CaseIds : i \in ids => z.cases[i].status = "released"
  BY <1>8, <1>10 DEF CaseRow
<1>14. \A i \in CaseIds : \/ z.cases[i] = known.cases[i]
                          \/ known.cases[i].status = "approved" /\ z.cases[i].status = "released"
  BY <1>6, <1>8, <1>9, <1>10 DEF CaseRow
<1>15. \A p \in Movements : /\ HasDeparted(z, p) <=> HasDeparted(known, p)
                            /\ HasArrived(z, p) <=> HasArrived(known, p) \/ p = m
  BY <1>5, <1>6, <1>8 DEF HasDeparted, HasArrived
<1> QED BY <1>7, <1>12, <1>13, <1>14, <1>15 DEF known

LEMMA DepartSafe ==
    ASSUME NEW s, SafeStore(s), NEW m \in Movements, CanDepart(s, m)
    PROVE  SafeStore(Depart(s, m))
<1> DEFINE here == IF ArrivesFirst(s, m) THEN Arrive(s, m, None) ELSE s
           grant == GrantOf(s, m)
           spot == [at |-> "connection", movement |-> m, connection |-> s.cases[grant].connection]
           z == Depart(s, m)
<1>s. s \in StoreType BY DEF SafeStore, SafeBut
<1>d. ~HasDeparted(s, m) BY DEF CanDepart
<1>t. z \in StoreType BY <1>s, DepartType
<1>n. Number[m] \in Numbers BY DEF Numbers
<1>1. grant \in CaseIds /\ s.cases[grant].status = "approved" /\ s.cases[grant].movement = m
  BY DepartureGrant
<1>2. SafeStore(here) /\ here \in StoreType
  <2>1. SafeStore(here) BY ArriveSafe DEF CanDepart
  <2> HIDE DEF here
  <2> QED BY <2>1 DEF SafeStore, SafeBut
<1>3. m \in BroughtIn => HasArrived(here, m)
  <2>1. CASE ArrivesFirst(s, m)
    <3>1. CanArrive(s, m, None) BY <2>1 DEF CanDepart
    <3>2. HasArrived(Arrive(s, m, None), m) BY <3>1, ArriveSafe
    <3> QED BY <2>1, <3>2
  <2>2. CASE ~ArrivesFirst(s, m) BY <2>2 DEF ArrivesFirst
  <2> QED BY <2>1, <2>2
<1>4. \A i \in CaseIds : s.cases[i].movement = m => here.cases[i] = s.cases[i]
  <2>1. CASE ArrivesFirst(s, m)
    <3>1. CanArrive(s, m, None) BY <2>1 DEF CanDepart
    <3>2. \A i \in CaseIds : s.cases[i].movement = m => Arrive(s, m, None).cases[i] = s.cases[i]
      BY <3>1, <1>d, ArriveSafe
    <3> QED BY <2>1, <3>2
  <2>2. CASE ~ArrivesFirst(s, m) BY <2>2
  <2> QED BY <2>1, <2>2
<1>5. z = [here EXCEPT !.moves[m].departure = "departed", !.position[Number[m]] = spot]
  BY DEF Depart
<1> HIDE DEF here, grant, z
<1>6. /\ spot.at = "connection"
      /\ spot.movement = m
      /\ spot.connection = s.cases[grant].connection
  OBVIOUS
<1> HIDE DEF spot
<1>7. /\ z.cases = here.cases
      /\ \A n \in Numbers : z.position[n] = IF n = Number[m] THEN spot ELSE here.position[n]
      /\ \A p \in Movements :
            z.moves[p] = IF p = m THEN [here.moves[m] EXCEPT !.departure = "departed"]
                         ELSE here.moves[p]
  BY <1>2, <1>5, <1>n DEF StoreType
<1>8. \A p \in Movements :
        /\ HasDeparted(z, p) <=> HasDeparted(here, p) \/ p = m
        /\ HasArrived(z, p) <=> HasArrived(here, p)
  <2> SUFFICES ASSUME NEW p \in Movements
               PROVE  /\ HasDeparted(z, p) <=> HasDeparted(here, p) \/ p = m
                      /\ HasArrived(z, p) <=> HasArrived(here, p)
    OBVIOUS
  <2>1. here.moves[p] \in MoveState BY <1>2 DEF StoreType
  <2> QED BY <2>1, <1>7 DEF MoveState, HasDeparted, HasArrived
<1>9. Named(z) /\ NoClash(z) BY <1>2, <1>7 DEF SafeStore, SafeBut, Named, NoClash
<1>10. ASSUME NEW n \in Numbers PROVE Backed(z, n)
  <2>1. CASE n = Number[m]
    <3>1. BackedBy(z, n, grant) BY <2>1, <1>1, <1>4, <1>6, <1>7, <1>8 DEF BackedBy
    <3> QED BY <3>1, <1>1 DEF Backed
  <2>2. CASE n # Number[m] BY <2>2, <1>2, <1>7, <1>8 DEF SafeStore, Backed, BackedBy
  <2> QED BY <2>1, <2>2
<1>11. Released(z) BY <1>2, <1>7, <1>8 DEF SafeStore, SafeBut, Released
<1>12. InOrder(z) BY <1>2, <1>3, <1>8 DEF SafeStore, SafeBut, InOrder, BroughtIn
<1> QED BY <1>t, <1>9, <1>10, <1>11, <1>12 DEF SafeStore, SafeBut, z

-----------------------------------------------------------------------------
(* Declarations, tracks and questions *)

\* What changes no case, no position and no report keeps the store safe.
LEMMA QuietSafe ==
    ASSUME NEW s, SafeStore(s), NEW z \in StoreType,
           z.cases = s.cases, z.position = s.position,
           \A p \in Movements : /\ HasDeparted(z, p) <=> HasDeparted(s, p)
                                /\ HasArrived(s, p) => HasArrived(z, p)
    PROVE  SafeStore(z)
<1>1. Named(z) /\ NoClash(z) BY DEF SafeStore, SafeBut, Named, NoClash
<1>2. \A n \in Numbers : Backed(z, n) BY DEF SafeStore, Backed, BackedBy
<1>3. Released(z) BY DEF SafeStore, SafeBut, Released
<1>4. InOrder(z) BY DEF SafeStore, SafeBut, InOrder, BroughtIn
<1> QED BY <1>1, <1>2, <1>3, <1>4 DEF SafeStore, SafeBut

\* One row of one movement changes, and its reports stay what they were.
LEMMA RowSafe ==
    ASSUME NEW s, SafeStore(s), NEW m \in Movements, NEW row \in MoveState,
           row.departure = "departed" <=> HasDeparted(s, m),
           HasArrived(s, m) => row.arrival = "arrived"
    PROVE  SafeStore([s EXCEPT !.moves[m] = row])
<1> DEFINE z == [s EXCEPT !.moves[m] = row]
<1>s. s \in StoreType BY DEF SafeStore, SafeBut
<1>1. /\ z \in StoreType
      /\ z.cases = s.cases
      /\ z.position = s.position
      /\ \A p \in Movements : z.moves[p] = IF p = m THEN row ELSE s.moves[p]
  BY <1>s DEF StoreType
<1> HIDE DEF z
<1>2. \A p \in Movements : /\ HasDeparted(z, p) <=> HasDeparted(s, p)
                           /\ HasArrived(s, p) => HasArrived(z, p)
  BY <1>1 DEF HasDeparted, HasArrived
<1>3. SafeStore(z) BY <1>1, <1>2, QuietSafe
<1> QED BY <1>3 DEF z

LEMMA SetPositionSafe ==
    ASSUME NEW s, SafeStore(s), NEW m \in Movements, CanSetPosition(s, m)
    PROVE  SafeStore(SetPosition(s, m))
<1> DEFINE row == [s.moves[m] EXCEPT !.departure = "positioned"]
<1>1. s \in StoreType /\ s.moves[m] \in MoveState BY DEF SafeStore, SafeBut, StoreType
<1>2. /\ row \in MoveState
      /\ row.departure # "departed"
      /\ row.arrival = s.moves[m].arrival
  BY <1>1 DEF MoveState
<1>3. SetPosition(s, m) = [s EXCEPT !.moves[m] = row] BY DEF SetPosition
<1> HIDE DEF row
<1> QED BY <1>2, <1>3, RowSafe DEF CanSetPosition, HasArrived

LEMMA SetCrewSafe ==
    ASSUME NEW s, SafeStore(s), NEW m \in Movements, NEW ready \in BOOLEAN
    PROVE  SafeStore(SetCrew(s, m, ready))
<1> DEFINE row == [s.moves[m] EXCEPT !.crew = ready]
<1>1. s \in StoreType /\ s.moves[m] \in MoveState BY DEF SafeStore, SafeBut, StoreType
<1>2. /\ row \in MoveState
      /\ row.departure = s.moves[m].departure
      /\ row.arrival = s.moves[m].arrival
  BY <1>1 DEF MoveState
<1>3. SetCrew(s, m, ready) = [s EXCEPT !.moves[m] = row] BY DEF SetCrew
<1> HIDE DEF row
<1> QED BY <1>2, <1>3, RowSafe DEF HasArrived, HasDeparted

LEMMA ApproachSafe ==
    ASSUME NEW s, SafeStore(s), NEW m \in Movements, CanApproach(s, m)
    PROVE  SafeStore(Approach(s, m))
<1> DEFINE row == [s.moves[m] EXCEPT !.arrival = "approaching"]
<1>1. s \in StoreType /\ s.moves[m] \in MoveState BY DEF SafeStore, SafeBut, StoreType
<1>2. row \in MoveState /\ row.departure = s.moves[m].departure
  BY <1>1 DEF MoveState
<1>3. Approach(s, m) = [s EXCEPT !.moves[m] = row] BY DEF Approach
<1> HIDE DEF row
<1> QED BY <1>2, <1>3, RowSafe DEF CanApproach, HasDeparted

LEMMA ChangeTrackSafe ==
    ASSUME NEW s, SafeStore(s), NEW m \in Movements, NEW t, CanChangeTrack(s, m, t)
    PROVE  SafeStore(ChangeTrack(s, m, t))
<1> DEFINE row == [s.moves[m] EXCEPT !.track = t]
           moved == [s EXCEPT !.moves[m] = row]
           ids == WaitingOf(s, {m})
<1>1. s \in StoreType /\ s.moves[m] \in MoveState BY DEF SafeStore, SafeBut, StoreType
<1>2. t \in Tracks BY TrackType DEF CanChangeTrack
<1>3. /\ row \in MoveState
      /\ row.departure = s.moves[m].departure
      /\ row.arrival = s.moves[m].arrival
  BY <1>1, <1>2 DEF MoveState
<1>4. ChangeTrack(s, m, t) = Settle(moved, ids, "invalidated_by_revision") BY DEF ChangeTrack
<1>5. moved.cases = s.cases BY <1>1 DEF StoreType
<1> HIDE DEF row
<1>6. SafeStore(moved) BY <1>3, RowSafe DEF HasDeparted, HasArrived
<1> HIDE DEF moved
<1>7. \A i \in CaseIds : i \in ids => moved.cases[i].status = "waiting" /\ IsOpen(moved.cases[i])
  BY <1>5 DEF WaitingOf, IsOpen
<1> HIDE DEF ids
<1>8. "invalidated_by_revision" \in Settled BY DEF Settled
<1>9. SafeStore(Settle(moved, ids, "invalidated_by_revision"))
  BY <1>6, <1>7, <1>8, SettleSafe
<1> QED BY <1>4, <1>9

LEMMA RequestSafe ==
    ASSUME NEW s, SafeStore(s), NEW i \in CaseIds, NEW m \in Movements, NEW c \in Connections,
           NEW mode, s.cases[i].status = "unused", CanRequest(s, m, c)
    PROVE  SafeStore(Request(s, i, m, c, mode))
<1> DEFINE row == [status |-> IF mode = "direct" THEN "approved" ELSE "waiting",
                   movement |-> m, connection |-> c,
                   track |-> s.moves[m].track, due |-> FALSE]
           z == Request(s, i, m, c, mode)
<1>s. s \in StoreType BY DEF SafeStore, SafeBut
<1>t. z \in StoreType BY <1>s, RequestType
<1>1. z = [s EXCEPT !.cases[i] = row] BY DEF Request
<1>2. row.status \in {"approved", "waiting"} /\ row.movement = m /\ row.connection = c
  OBVIOUS
<1> HIDE DEF row, z
<1>3. /\ z.moves = s.moves
      /\ z.position = s.position
      /\ \A j \in CaseIds : z.cases[j] = IF j = i THEN row ELSE s.cases[j]
  BY <1>s, <1>1 DEF StoreType
<1>4. Named(z) BY <1>2, <1>3 DEF SafeStore, SafeBut, Named
<1>5. NoClash(z)
  <2>1. \A j \in CaseIds \ {i} : IsOpen(z.cases[j]) =>
            /\ z.cases[j].movement # m
            /\ ChannelOf(z.cases[j]) # Channel(m, c)
    BY <1>3 DEF CanRequest
  <2>2. z.cases[i].movement = m /\ ChannelOf(z.cases[i]) = Channel(m, c)
    BY <1>2, <1>3 DEF ChannelOf
  <2>3. \A j, k \in CaseIds \ {i} :
            j # k /\ IsOpen(z.cases[j]) /\ IsOpen(z.cases[k])
            => /\ ChannelOf(z.cases[j]) # ChannelOf(z.cases[k])
               /\ z.cases[j].movement # z.cases[k].movement
    BY <1>3 DEF SafeStore, SafeBut, NoClash
  <2> QED BY <2>1, <2>2, <2>3 DEF NoClash
<1>6. ASSUME NEW n \in Numbers PROVE Backed(z, n)
  <2>1. SUFFICES ASSUME s.position[n].at = "connection"
                 PROVE  \E j \in CaseIds : BackedBy(z, n, j)
    BY <1>3 DEF Backed
  <2>2. PICK j \in CaseIds : BackedBy(s, n, j) BY <2>1 DEF SafeStore, Backed
  <2>3. j # i BY <2>2 DEF BackedBy
  <2> QED BY <2>2, <2>3, <1>3 DEF BackedBy, HasDeparted
<1>7. Released(z) BY <1>2, <1>3 DEF SafeStore, SafeBut, Released, HasDeparted
<1>8. InOrder(z) BY <1>3 DEF SafeStore, SafeBut, InOrder, HasDeparted, HasArrived
<1> QED BY <1>t, <1>4, <1>5, <1>6, <1>7, <1>8 DEF SafeStore, SafeBut, z

-----------------------------------------------------------------------------
(* The TKL form *)

LEMMA FormTrackSafe ==
    ASSUME NEW s, SafeStore(s), NEW m \in Movements, NEW t, AcceptsTrack(s, m, t)
    PROVE  SafeStore(FormTrack(s, m, t))
BY ChangeTrackSafe DEF FormTrack, AcceptsTrack

LEMMA FormArrivalSafe ==
    ASSUME NEW s, SafeStore(s), NEW m \in Movements, NEW arrival, AcceptsArrival(s, m, arrival)
    PROVE  SafeStore(FormArrival(s, m, arrival))
<1>1. CASE arrival \in {None, s.moves[m].arrival}
  BY <1>1 DEF FormArrival
<1>2. CASE arrival \notin {None, s.moves[m].arrival} /\ arrival = "approaching"
  <2>1. FormArrival(s, m, arrival) = Approach(s, m) BY <1>2 DEF FormArrival
  <2>2. CanApproach(s, m) BY <1>2 DEF AcceptsArrival
  <2> QED BY <2>1, <2>2, ApproachSafe
<1>3. CASE arrival \notin {None, s.moves[m].arrival} /\ arrival # "approaching"
  <2>1. FormArrival(s, m, arrival) = Arrive(Lapsed(s), m, None) BY <1>3 DEF FormArrival
  <2>2. CanArrive(Lapsed(s), m, None) BY <1>3 DEF AcceptsArrival
  <2>3. SafeStore(Arrive(Lapsed(s), m, None)) BY <2>2, LapsedSafe, ArriveSafe
  <2> QED BY <2>1, <2>3
<1> QED BY <1>1, <1>2, <1>3

LEMMA FormDepartureSafe ==
    ASSUME NEW s, SafeStore(s), NEW m \in Movements, NEW departure,
           AcceptsDeparture(s, m, departure)
    PROVE  SafeStore(FormDeparture(s, m, departure))
<1>1. CASE departure \in {None, Shown(s, m)}
  BY <1>1 DEF FormDeparture
<1>2. CASE departure \notin {None, Shown(s, m)} /\ departure = "departed"
  <2>1. FormDeparture(s, m, departure) = Depart(Lapsed(s), m) BY <1>2 DEF FormDeparture
  <2>2. CanDepart(Lapsed(s), m) BY <1>2 DEF AcceptsDeparture
  <2> QED BY <2>1, <2>2, LapsedSafe, DepartSafe
<1>3. CASE departure \notin {None, Shown(s, m)} /\ departure # "departed"
  <2>1. FormDeparture(s, m, departure) = SetCrew(SetPosition(s, m), m, departure = "ready")
    BY <1>3 DEF FormDeparture
  <2>2. (departure = "ready") \in BOOLEAN OBVIOUS
  <2>3. CanSetPosition(s, m) BY <1>3 DEF AcceptsDeparture
  <2>4. SafeStore(SetPosition(s, m)) BY <2>3, SetPositionSafe
  <2> QED BY <2>1, <2>2, <2>4, SetCrewSafe
<1> QED BY <1>1, <1>2, <1>3

-----------------------------------------------------------------------------
(* The inductive invariant *)

SafeState == TypeOK /\ SafeStore(Store)

LEMMA InitSafe == ASSUME Init PROVE SafeState
<1>1. TypeOK BY InitPlaced
<1>2. Store \in StoreType BY <1>1, StoreTyped
<1>3. \A i \in CaseIds : Store.cases[i].status = "unused" BY InitPlaced DEF Store
<1>4. \A n \in Numbers : Store.position[n].at # "connection" BY InitPlaced DEF Store
<1>5. \A m \in Arriving : HasDeparted(Store, m) => HasArrived(Store, m)
  BY InitPlaced, TimetableAssumption DEF Store, HasDeparted, HasArrived
<1>6. Named(Store) /\ NoClash(Store) BY <1>3 DEF Named, NoClash, IsOpen
<1>7. \A n \in Numbers : Backed(Store, n) BY <1>4 DEF Backed
<1>8. Released(Store) /\ InOrder(Store) BY <1>3, <1>5 DEF Released, InOrder, BroughtIn, LeadsTo
<1> QED BY <1>1, <1>2, <1>6, <1>7, <1>8 DEF SafeState, SafeStore, SafeBut

\* A transaction that commits a safe store leaves a safe store behind.
LEMMA CommitSafe ==
    ASSUME NEW s, SafeStore(s), TypeOK, Commit(s)
    PROVE  SafeState'
<1>1. s \in StoreType BY DEF SafeStore, SafeBut
<1>2. TypeOK' BY <1>1, CommitType
<1>3. Store' = s BY <1>1 DEF Commit, Store, StoreType
<1>4. SafeStore(Store)' <=> SafeStore(Store')
  BY DEF SafeStore, SafeBut, StoreType, Named, NoClash, Backed, BackedBy, Released, InOrder,
         HasDeparted, HasArrived, IsOpen, ChannelOf
<1> QED BY <1>2, <1>3, <1>4 DEF SafeState

\* Time and the clock touch neither the cases' status nor the reports.
LEMMA ClockSafe ==
    ASSUME SafeState, Clock \/ UNCHANGED vars
    PROVE  SafeState'
<1>s. TypeOK /\ SafeStore(Store) BY DEF SafeState
<1>1. TypeOK'
  <2>1. ASSUME NEW i \in CaseIds, TimeToLiveRunsOut(i) PROVE TypeOK'
    BY <1>s, <2>1 DEF TimeToLiveRunsOut, TypeOK, CaseRow
  <2> QED BY <1>s, <2>1 DEF Clock, StartClock, StopClock, vars, TypeOK
<1>2. /\ moves' = moves
      /\ position' = position
      /\ \A i \in CaseIds : /\ cases'[i].status = cases[i].status
                            /\ cases'[i].movement = cases[i].movement
                            /\ cases'[i].connection = cases[i].connection
  <2>1. ASSUME NEW j \in CaseIds, TimeToLiveRunsOut(j)
        PROVE  \A i \in CaseIds : /\ cases'[i].status = cases[i].status
                                  /\ cases'[i].movement = cases[i].movement
                                  /\ cases'[i].connection = cases[i].connection
    BY <1>s, <2>1 DEF TimeToLiveRunsOut, TypeOK, CaseRow
  <2> QED BY <2>1 DEF Clock, TimeToLiveRunsOut, StartClock, StopClock, vars
<1>3. Store' \in StoreType BY <1>1 DEF TypeOK, Store, StoreType
<1>4. /\ Store'.moves = Store.moves
      /\ Store'.position = Store.position
      /\ \A i \in CaseIds : /\ Store'.cases[i].status = Store.cases[i].status
                            /\ Store'.cases[i].movement = Store.cases[i].movement
                            /\ Store'.cases[i].connection = Store.cases[i].connection
  BY <1>2 DEF Store
<1>5. SafeStore(Store')
  <2> DEFINE s == Store
             z == Store'
  <2>1. SafeStore(s) /\ z \in StoreType BY <1>s, <1>3
  <2>2. /\ z.moves = s.moves
        /\ z.position = s.position
        /\ \A i \in CaseIds : /\ z.cases[i].status = s.cases[i].status
                              /\ z.cases[i].movement = s.cases[i].movement
                              /\ z.cases[i].connection = s.cases[i].connection
    BY <1>4
  <2> HIDE DEF s, z
  <2>3. Named(z) BY <2>1, <2>2 DEF SafeStore, SafeBut, Named, IsOpen
  <2>4. NoClash(z) BY <2>1, <2>2 DEF SafeStore, SafeBut, NoClash, IsOpen, ChannelOf
  <2>5. \A n \in Numbers : Backed(z, n)
    BY <2>1, <2>2 DEF SafeStore, Backed, BackedBy, HasDeparted
  <2>6. Released(z) BY <2>1, <2>2 DEF SafeStore, SafeBut, Released, HasDeparted
  <2>7. InOrder(z) BY <2>1, <2>2 DEF SafeStore, SafeBut, InOrder, HasDeparted, HasArrived
  <2>8. SafeStore(z) BY <2>1, <2>3, <2>4, <2>5, <2>6, <2>7 DEF SafeStore, SafeBut
  <2> QED BY <2>8 DEF z
<1>6. SafeStore(Store)' <=> SafeStore(Store')
  BY DEF SafeStore, SafeBut, StoreType, Named, NoClash, Backed, BackedBy, Released, InOrder,
         HasDeparted, HasArrived, IsOpen, ChannelOf
<1> QED BY <1>1, <1>5, <1>6 DEF SafeState

\* Every command keeps the store safe; the form does so field by field.
LEMMA StepSafe == ASSUME SafeState, [Next]_vars PROVE SafeState'
<1>s. TypeOK /\ SafeStore(Store) BY DEF SafeState
<1>n. SafeStore(Now) BY <1>s, LapsedSafe DEF Now
<1>1. ASSUME NEW m \in Movements, PositionSet(m) PROVE SafeState'
  BY <1>s, <1>1, SetPositionSafe, CommitSafe DEF PositionSet
<1>2. ASSUME NEW m \in Movements, NEW ready \in BOOLEAN, CrewReadySet(m, ready) PROVE SafeState'
  BY <1>s, <1>2, SetCrewSafe, CommitSafe DEF CrewReadySet
<1>3. ASSUME NEW m \in Movements, TrainApproaching(m) PROVE SafeState'
  BY <1>s, <1>3, ApproachSafe, CommitSafe DEF TrainApproaching
<1>4. ASSUME NEW m \in Movements, NEW t, TrackChange(m, t) PROVE SafeState'
  BY <1>s, <1>4, ChangeTrackSafe, CommitSafe DEF TrackChange
<1>5. ASSUME NEW m \in Movements, NEW t, TrainArrived(m, t) PROVE SafeState'
  <2>1. SafeStore(Arrive(Now, m, t)) BY <1>n, <1>5, ArriveSafe DEF TrainArrived
  <2> QED BY <1>s, <1>5, <2>1, CommitSafe DEF TrainArrived
<1>6. ASSUME NEW m \in Movements, TrainDeparted(m) PROVE SafeState'
  BY <1>s, <1>n, <1>6, DepartSafe, CommitSafe DEF TrainDeparted
<1>7. ASSUME NEW i \in CaseIds, NEW m \in Movements, NEW c \in Connections,
             ClearanceRequest(i, m, c)
      PROVE  SafeState'
  <2>1. Now.cases[i].status = "unused"
    <3>1. Store.cases[i].status = "unused" BY <1>7 DEF ClearanceRequest, Store
    <3>2. Store \in StoreType BY <1>s, StoreTyped
    <3> QED BY <3>1, <3>2, LapsedKeepsUnused DEF Now
  <2>2. CanRequest(Now, m, c) BY <1>7 DEF ClearanceRequest
  <2>3. PICK mode \in Modes : Commit(Request(Now, i, m, c, mode)) BY <1>7 DEF ClearanceRequest
  <2>4. SafeStore(Request(Now, i, m, c, mode)) BY <1>n, <2>1, <2>2, RequestSafe
  <2> QED BY <1>s, <2>3, <2>4, CommitSafe
<1>8. ASSUME NEW i \in CaseIds, NEW approved \in BOOLEAN, ClearanceResponse(i, approved)
      PROVE  SafeState'
  <2> DEFINE status == IF approved THEN "approved" ELSE "rejected"
  <2>1. status \in {"approved"} \cup Settled /\ status # "released" BY DEF Settled
  <2>2. Now.cases[i].status = "waiting" BY <1>8 DEF ClearanceResponse
  <2>3. Commit(Settle(Now, {i}, status)) BY <1>8 DEF ClearanceResponse
  <2> HIDE DEF status
  <2>4. SafeStore(Settle(Now, {i}, status)) BY <1>n, <2>1, <2>2, SettleSafe DEF IsOpen
  <2> QED BY <1>s, <2>3, <2>4, CommitSafe
<1>9. ASSUME NEW i \in CaseIds, ClearanceCancel(i) PROVE SafeState'
  <2>1. \/ Now.cases[i].status = "waiting"
        \/ Now.cases[i].status = "approved" /\ ~HasDeparted(Now, Now.cases[i].movement)
    BY <1>9 DEF ClearanceCancel
  <2>2. "cancelled" \in Settled BY DEF Settled
  <2>3. SafeStore(Settle(Now, {i}, "cancelled")) BY <1>n, <2>1, <2>2, SettleSafe DEF IsOpen
  <2> QED BY <1>s, <1>9, <2>3, CommitSafe DEF ClearanceCancel
<1>10. ASSUME NEW m \in Movements, NEW t, NEW arrival, NEW departure,
              TKLForm(m, t, arrival, departure)
       PROVE  SafeState'
  <2> DEFINE tracked == FormTrack(Store, m, t)
             received == FormArrival(tracked, m, arrival)
             sent == FormDeparture(received, m, departure)
  <2>1. SafeStore(tracked) BY <1>s, <1>10, FormTrackSafe DEF TKLForm
  <2>2. SafeStore(received) BY <2>1, <1>10, FormArrivalSafe DEF TKLForm
  <2>3. SafeStore(sent) BY <2>2, <1>10, FormDepartureSafe DEF TKLForm
  <2>4. Commit(sent) BY <1>10 DEF TKLForm
  <2> QED BY <1>s, <2>3, <2>4, CommitSafe
<1>11. ASSUME ReadOpenCases PROVE SafeState'
  <2>1. Commit(Now) BY <1>11 DEF ReadOpenCases, Now, Lapsed
  <2> QED BY <1>s, <1>n, <2>1, CommitSafe
<1>12. ASSUME Clock \/ UNCHANGED vars PROVE SafeState'
  BY <1>12, ClockSafe
<1> QED
  BY <1>1, <1>2, <1>3, <1>4, <1>5, <1>6, <1>7, <1>8, <1>9, <1>10, <1>11, <1>12
  DEF Next, Declaration, Running, Clearing, Forms

\* The store is safe in every reachable state.
THEOREM AlwaysSafe == Spec => []SafeState
<1>1. Init => SafeState BY InitSafe
<1>2. SafeState /\ [Next]_vars => SafeState' BY StepSafe
<1> QED BY <1>1, <1>2, PTL DEF Spec

-----------------------------------------------------------------------------
(* What follows *)

\* No two open cases claim one line, but for opposite directions of a double
\* track (operations.request_clearance and channel_id).
THEOREM LinesAreClaimedOnce == Spec => []LineIsClaimedOnce
<1>1. SafeState => LineIsClaimedOnce
  <2> SUFFICES ASSUME SafeState, NEW i \in CaseIds, NEW j \in CaseIds,
                      i # j, IsOpen(cases[i]), IsOpen(cases[j]),
                      cases[i].connection = cases[j].connection
               PROVE  cases[i].connection \in Double /\ From(cases[i]) # From(cases[j])
    BY DEF LineIsClaimedOnce
  <2>1. ChannelOf(cases[i]) # ChannelOf(cases[j])
    BY DEF SafeState, SafeStore, SafeBut, NoClash, Store
  <2> QED BY <2>1 DEF ChannelOf, Channel, From
<1> QED BY <1>1, AlwaysSafe, PTL

\* No movement waits for two answers, whichever client asked
\* (operations.open_clearance_for_movement).
THEOREM OneCaseAtATime == Spec => []OneCasePerMovement
<1>1. SafeState => OneCasePerMovement
  BY DEF SafeState, SafeStore, SafeBut, NoClash, Store, OneCasePerMovement
<1> QED BY <1>1, AlwaysSafe, PTL

\* A train shown out on a line is there under a grant that still holds it
\* (protocol_v2._apply train.departed, operations.record_traffic_position).
THEOREM TrainsOnLinesHoldGrants == Spec => []TrainOnLineHoldsItsGrant
<1>1. SafeState => TrainOnLineHoldsItsGrant
  BY DEF SafeState, SafeStore, Backed, BackedBy, Store, TrainOnLineHoldsItsGrant, OnLine
<1> QED BY <1>1, AlwaysSafe, PTL

\* Two trains are never out on one single track, nor follow each other on a
\* double track: each holds its own grant, and the grants hold two channels.
THEOREM TrainsAreKeptApart == Spec => []NoTwoTrainsOnOneTrack
<1>1. SafeState => NoTwoTrainsOnOneTrack
  <2> SUFFICES ASSUME SafeState, NEW n \in Numbers, NEW k \in Numbers,
                      n # k, OnLine(n), OnLine(k),
                      position[n].connection = position[k].connection
               PROVE  /\ position[n].connection \in Double
                      /\ Station[position[n].movement] # Station[position[k].movement]
    BY DEF NoTwoTrainsOnOneTrack
  <2>1. PICK i \in CaseIds : BackedBy(Store, n, i)
    BY DEF SafeState, SafeStore, Backed, Store, OnLine
  <2>2. PICK j \in CaseIds : BackedBy(Store, k, j)
    BY DEF SafeState, SafeStore, Backed, Store, OnLine
  <2>3. i # j BY <2>1, <2>2 DEF BackedBy
  <2>4. IsOpen(cases[i]) /\ IsOpen(cases[j]) BY <2>1, <2>2 DEF BackedBy, Store, IsOpen
  <2>5. ChannelOf(cases[i]) # ChannelOf(cases[j])
    BY <2>3, <2>4 DEF SafeState, SafeStore, SafeBut, NoClash, Store
  <2>6. /\ cases[i].connection = position[n].connection
        /\ cases[j].connection = position[k].connection
        /\ cases[i].movement = position[n].movement
        /\ cases[j].movement = position[k].movement
    BY <2>1, <2>2 DEF BackedBy, Store
  <2> QED BY <2>5, <2>6 DEF ChannelOf, Channel
<1> QED BY <1>1, AlwaysSafe, PTL

\* An arrival frees no line of a train that is not recorded as departed
\* (protocol_v2._release_on_arrival and _advance).
THEOREM LinesAreFreedBehindTrains == Spec => []ReleasedOnlyAfterDeparture
<1>1. SafeState => ReleasedOnlyAfterDeparture
  BY DEF SafeState, SafeStore, SafeBut, Released, Store, ReleasedOnlyAfterDeparture
<1> QED BY <1>1, AlwaysSafe, PTL

\* A departure never overtakes the arrival at the same station, also when a
\* later report brings the route up to date (protocol_v2._advance).
THEOREM ArrivalsPrecedeDepartures == Spec => []DepartedTrainHadArrived
<1>1. SafeState => DepartedTrainHadArrived
  BY DEF SafeState, SafeStore, SafeBut, InOrder, DepartedTrainHadArrived, BroughtIn
<1> QED BY <1>1, AlwaysSafe, PTL

-----------------------------------------------------------------------------
(* The route of a train *)

\* The visits upstream of a visit are in one line: each has the earlier ones upstream of it.
LEMMA UpstreamIsNested ==
    ASSUME NEW m \in Movements, NEW q \in Upstream[m]
    PROVE  /\ q \in Movements
           /\ Upstream[q] \subseteq Upstream[m]
           /\ \A p \in Upstream[m] : Stop[p] < Stop[q] => p \in Upstream[q]
<1>1. /\ q \in Movements /\ Service[q] = Service[m] /\ Stop[q] < Stop[m]
      /\ \A r \in Movements :
            Service[r] = Service[m] /\ Stop[q] < Stop[r] /\ Stop[r] <= Stop[m] => r \in BroughtIn
  BY DEF Upstream
<1>2. \A r \in Movements : Stop[r] \in Nat BY TimetableAssumption
<1>3. ASSUME NEW p \in Upstream[q] PROVE p \in Upstream[m]
  <2>1. /\ p \in Movements /\ Service[p] = Service[q] /\ Stop[p] < Stop[q]
        /\ \A r \in Movements :
              Service[r] = Service[q] /\ Stop[p] < Stop[r] /\ Stop[r] <= Stop[q] => r \in BroughtIn
    BY <1>1, <1>3 DEF Upstream
  <2>2. \A r \in Movements :
            Service[r] = Service[m] /\ Stop[p] < Stop[r] /\ Stop[r] <= Stop[m] => r \in BroughtIn
    BY <1>1, <1>2, <2>1
  <2>3. Service[p] = Service[m] /\ Stop[p] < Stop[m] BY <1>1, <1>2, <2>1
  <2> QED BY <2>1, <2>2, <2>3 DEF Upstream
<1>4. ASSUME NEW p \in Upstream[m], Stop[p] < Stop[q] PROVE p \in Upstream[q]
  <2>1. /\ p \in Movements /\ Service[p] = Service[m]
        /\ \A r \in Movements :
              Service[r] = Service[m] /\ Stop[p] < Stop[r] /\ Stop[r] <= Stop[m] => r \in BroughtIn
    BY DEF Upstream
  <2>2. \A r \in Movements :
            Service[r] = Service[q] /\ Stop[p] < Stop[r] /\ Stop[r] <= Stop[q] => r \in BroughtIn
    BY <1>1, <1>2, <2>1
  <2> QED BY <1>1, <1>4, <2>1, <2>2 DEF Upstream
<1> QED BY <1>1, <1>3, <1>4

\* Two visits of a service at one place in its order are one visit.
LEMMA OneVisitPerStop ==
    ASSUME NEW p \in Movements, NEW q \in Movements, Service[p] = Service[q], Stop[p] = Stop[q]
    PROVE  p = q
BY TimetableAssumption

\* The visit before is the last one upstream, and an arrival that catches up the route
\* always reaches it.
LEMMA VisitBefore ==
    ASSUME NEW p \in Movements, NEW m \in Movements, LeadsTo(p, m)
    PROVE  /\ p \in Upstream[m]
           /\ \A q \in Upstream[m] : q = p \/ Stop[q] < Stop[p]
           /\ \A s : p \in Chain(s, m)
<1>1. Service[p] = Service[m] /\ Stop[m] = Stop[p] + 1 /\ m \in BroughtIn
  BY DEF LeadsTo, BroughtIn
<1>2. \A r \in Movements : Stop[r] \in Nat BY TimetableAssumption
<1>3. p \in Upstream[m]
  <2>1. ASSUME NEW r \in Movements, Service[r] = Service[m], Stop[p] < Stop[r], Stop[r] <= Stop[m]
        PROVE  r \in BroughtIn
    <3>1. Stop[r] = Stop[m] BY <1>1, <1>2, <2>1
    <3>2. r = m BY <2>1, <3>1, OneVisitPerStop
    <3> QED BY <1>1, <3>2
  <2>2. Stop[p] < Stop[m] BY <1>1, <1>2
  <2> QED BY <1>1, <2>1, <2>2 DEF Upstream
<1>4. ASSUME NEW q \in Upstream[m] PROVE q = p \/ Stop[q] < Stop[p]
  <2>1. q \in Movements /\ Service[q] = Service[m] /\ Stop[q] < Stop[m] BY DEF Upstream
  <2>2. Stop[q] = Stop[p] \/ Stop[q] < Stop[p] BY <1>1, <1>2, <2>1
  <2> QED BY <1>1, <2>1, <2>2, OneVisitPerStop
<1>5. ASSUME NEW s PROVE p \in Chain(s, m)
  <2>1. \A q \in Upstream[m] : ~(Stop[p] < Stop[q])
    <3> SUFFICES ASSUME NEW q \in Upstream[m] PROVE ~(Stop[p] < Stop[q])
      OBVIOUS
    <3>1. q \in Movements BY DEF Upstream
    <3> QED BY <1>2, <1>4, <3>1
  <2> QED BY <1>3, <2>1 DEF Chain
<1> QED BY <1>3, <1>4, <1>5

\* A visit with something upstream of it is one a resolved leg brings in.
LEMMA UpstreamIsBroughtIn ==
    ASSUME NEW m \in Movements, NEW p \in Upstream[m]
    PROVE  m \in BroughtIn
<1>1. Stop[p] < Stop[m] /\ Stop[m] \in Nat BY TimetableAssumption DEF Upstream
<1> QED BY <1>1 DEF Upstream

-----------------------------------------------------------------------------
(* What keeps a line from being lost *)

\* An open case is about a departure over a line of its station; a question is about a
\* train that has not left.
WellAsked(s) ==
    \A i \in CaseIds : IsOpen(s.cases[i]) =>
        /\ s.cases[i].movement \in Departing
        /\ s.cases[i].connection \in Connections
        /\ Station[s.cases[i].movement] \in Ends[s.cases[i].connection]
        /\ s.cases[i].status = "waiting" => ~HasDeparted(s, s.cases[i].movement)

\* A train that is in has left every visit upstream.
RouteIsBehind(s) ==
    \A m \in Movements : HasArrived(s, m) => (\A p \in Upstream[m] : HasDeparted(s, p))

\* A train that holds a line after its departure is not in where its route goes next.
StillAwaited(s) ==
    \A i \in CaseIds, m \in Movements :
        /\ s.cases[i].status = "approved"
        /\ HasDeparted(s, s.cases[i].movement)
        /\ LeadsTo(s.cases[i].movement, m)
        => ~HasArrived(s, m)

Traceable(s) == WellAsked(s) /\ RouteIsBehind(s) /\ StillAwaited(s)

\* The other end of the line of a case.
LEMMA OtherEnd ==
    ASSUME NEW case, case.connection \in Connections,
           Station[case.movement] \in Ends[case.connection]
    PROVE  Joins(case.connection, Station[case.movement], To(case))
<1> DEFINE c == case.connection
           here == Station[case.movement]
<1>1. PICK a \in Stations, b \in Stations : a # b /\ Ends[c] = {a, b} BY EndsAssumption
<1>2. here = a \/ here = b BY <1>1
<1>3. \E x \in Ends[c] : Ends[c] = {here, x} BY <1>1, <1>2
<1>4. To(case) \in Ends[c] /\ Ends[c] = {here, To(case)} BY <1>3 DEF To
<1>5. here # To(case) BY <1>1, <1>4
<1> QED BY <1>4, <1>5 DEF Joins

\* The one train that is on its way to a visit under its number comes from the visit
\* before: of a later departure of the number the visit would be upstream, and the train
\* in there already.
LEMMA ExpectedIsNext ==
    ASSUME RoutesAreClear,
           NEW s, SafeStore(s), Traceable(s), NEW m \in BroughtIn, ~HasArrived(s, m),
           NEW i \in Incoming(s, m), HasDeparted(s, s.cases[i].movement)
    PROVE  LeadsTo(s.cases[i].movement, m)
<1> DEFINE q == s.cases[i].movement
<1>1. /\ i \in CaseIds /\ IsOpen(s.cases[i])
      /\ To(s.cases[i]) = Station[m]
      /\ Number[q] = Number[m]
  BY DEF Incoming
<1>2. /\ q \in Departing
      /\ s.cases[i].connection \in Connections
      /\ Station[q] \in Ends[s.cases[i].connection]
  BY <1>1 DEF Traceable, WellAsked
<1>3. Joins(s.cases[i].connection, Station[q], Station[m]) BY <1>1, <1>2, OtherEnd
<1>4. q \in Movements /\ m \in Movements BY <1>2, TimetableAssumption DEF BroughtIn
<1>5. LeadsTo(q, m) \/ m \in Upstream[q] BY <1>1, <1>2, <1>3 DEF RoutesAreClear
<1>6. m \notin Upstream[q]
  <2>1. SUFFICES ASSUME m \in Upstream[q] PROVE FALSE
    OBVIOUS
  <2>2. q \in BroughtIn BY <1>4, <2>1, UpstreamIsBroughtIn
  <2>3. HasArrived(s, q) BY <2>2 DEF SafeStore, SafeBut, InOrder
  <2>4. HasDeparted(s, m) BY <1>4, <2>1, <2>3 DEF Traceable, RouteIsBehind
  <2> QED BY <2>4 DEF SafeStore, SafeBut, InOrder
<1> QED BY <1>5, <1>6

\* Whoever has left has every visit upstream behind it.
LEMMA DepartedIsBehind ==
    ASSUME NEW s, SafeStore(s), RouteIsBehind(s), NEW q \in Movements, HasDeparted(s, q),
           NEW p \in Upstream[q]
    PROVE  HasDeparted(s, p)
<1>1. q \in BroughtIn BY UpstreamIsBroughtIn
<1>2. HasArrived(s, q) BY <1>1 DEF SafeStore, SafeBut, InOrder
<1> QED BY <1>2 DEF RouteIsBehind

\* Catching up a route records every departure upstream and frees every line on the way.
LEMMA AdvanceTraceable ==
    ASSUME NEW s, SafeStore(s), Traceable(s), NEW m \in Movements
    PROVE  LET z == Advance(s, m)
           IN  /\ Traceable(z)
               /\ \A p \in Upstream[m] : HasDeparted(z, p)
               /\ \A i \in CaseIds :
                    LeadsTo(z.cases[i].movement, m) => z.cases[i].status # "approved"
<1> DEFINE z == Advance(s, m)
           chain == Chain(s, m)
<1>s. s \in StoreType /\ Named(s) BY DEF SafeStore, SafeBut
<1>a. /\ \A i \in CaseIds :
            /\ z.cases[i].movement = s.cases[i].movement
            /\ IsOpen(z.cases[i]) => z.cases[i] = s.cases[i]
            /\ s.cases[i].movement \in chain => ~IsOpen(z.cases[i])
      /\ \A p \in Movements :
            /\ HasDeparted(z, p) <=> HasDeparted(s, p) \/ p \in chain
            /\ HasArrived(z, p) <=> \/ HasArrived(s, p)
                                    \/ /\ p \in chain
                                       /\ \E o \in chain : Stop[p] = Stop[o] + 1
  BY <1>s, AdvanceWrites DEF IsOpen
<1>c. \A p \in chain : p \in Upstream[m] /\ p \in Movements /\ Service[p] = Service[m]
  BY DEF Chain, Upstream
<1>n. \A r \in Movements : Stop[r] \in Nat BY TimetableAssumption
<1> HIDE DEF z
<1>1. ASSUME NEW p \in Upstream[m] PROVE HasDeparted(z, p)
  <2>0. p \in Movements BY DEF Upstream
  <2>1. CASE p \in chain BY <2>0, <2>1, <1>a
  <2>2. CASE p \notin chain
    <3>1. PICK q \in Upstream[m] : Stop[p] < Stop[q] /\ HasDeparted(s, q) BY <2>2 DEF Chain
    <3>2. q \in Movements /\ p \in Upstream[q] BY <3>1, UpstreamIsNested
    <3>3. HasDeparted(s, p) BY <3>1, <3>2, DepartedIsBehind DEF Traceable
    <3> QED BY <2>0, <3>3, <1>a
  <2> QED BY <2>1, <2>2
<1> HIDE DEF chain
<1>2. WellAsked(z)
  <2> SUFFICES ASSUME NEW i \in CaseIds, IsOpen(z.cases[i])
               PROVE  /\ z.cases[i].movement \in Departing
                      /\ z.cases[i].connection \in Connections
                      /\ Station[z.cases[i].movement] \in Ends[z.cases[i].connection]
                      /\ z.cases[i].status = "waiting" => ~HasDeparted(z, z.cases[i].movement)
    BY DEF WellAsked
  <2>1. z.cases[i] = s.cases[i] /\ s.cases[i].movement \notin chain BY <1>a
  <2>2. s.cases[i].movement \in Movements BY <1>s, <2>1 DEF Named
  <2> QED BY <1>a, <2>1, <2>2 DEF Traceable, WellAsked
<1>3. RouteIsBehind(z)
  <2> SUFFICES ASSUME NEW q \in Movements, HasArrived(z, q), NEW p \in Upstream[q]
               PROVE  HasDeparted(z, p)
    BY DEF RouteIsBehind
  <2>1. p \in Movements BY DEF Upstream
  <2>2. CASE HasArrived(s, q) BY <1>a, <2>1, <2>2 DEF Traceable, RouteIsBehind
  <2>3. CASE q \in chain
    <3>1. p \in Upstream[m] BY <1>c, <2>3, UpstreamIsNested
    <3> QED BY <1>1, <3>1
  <2> QED BY <1>a, <2>2, <2>3
<1>4. StillAwaited(z)
  <2> SUFFICES ASSUME NEW i \in CaseIds, NEW q \in Movements,
                      z.cases[i].status = "approved", HasDeparted(z, z.cases[i].movement),
                      LeadsTo(z.cases[i].movement, q), HasArrived(z, q)
               PROVE  FALSE
    BY DEF StillAwaited
  <2> DEFINE p == z.cases[i].movement
  <2>1. z.cases[i] = s.cases[i] /\ p \notin chain BY <1>a DEF IsOpen
  <2>2. p \in Movements BY <1>s, <2>1 DEF Named, IsOpen
  <2>3. HasDeparted(s, p) BY <1>a, <2>1, <2>2
  <2>4. ~HasArrived(s, q) BY <2>1, <2>3 DEF Traceable, StillAwaited
  <2>5. PICK o \in chain : q \in chain /\ Stop[q] = Stop[o] + 1 BY <1>a, <2>4
  <2>6. o \in Movements /\ Service[o] = Service[p] /\ Stop[o] = Stop[p]
    <3>1. Service[p] = Service[q] /\ Stop[q] = Stop[p] + 1 BY DEF LeadsTo
    <3>2. o \in Movements /\ Service[o] = Service[m] /\ Service[q] = Service[m] BY <1>c, <2>5
    <3>3. Stop[o] \in Nat /\ Stop[p] \in Nat BY <1>n, <2>2, <3>2
    <3> QED BY <2>5, <3>1, <3>2, <3>3
  <2>7. o = p BY <2>2, <2>6, OneVisitPerStop
  <2> QED BY <2>1, <2>5, <2>7
<1>5. ASSUME NEW i \in CaseIds, LeadsTo(z.cases[i].movement, m), z.cases[i].status = "approved"
      PROVE  FALSE
  <2>1. IsOpen(z.cases[i]) /\ z.cases[i] = s.cases[i] BY <1>5, <1>a DEF IsOpen
  <2>2. s.cases[i].movement \in Movements BY <1>s, <2>1 DEF Named
  <2>3. s.cases[i].movement \in chain BY <1>5, <2>1, <2>2, VisitBefore DEF chain
  <2> QED BY <1>a, <2>1, <2>3
<1> QED BY <1>1, <1>2, <1>3, <1>4, <1>5 DEF Traceable, z

\* What an arrival starts from: everything upstream has left, and whoever still holds a
\* line on the last leg is on its way to this station.
LEMMA CaughtUpTraceable ==
    ASSUME RoutesAreClear,
           NEW s, SafeStore(s), Traceable(s), NEW m \in Movements, ~HasArrived(s, m)
    PROVE  LET known == CaughtUp(s, m)
           IN  /\ Traceable(known)
               /\ \A p \in Upstream[m] : HasDeparted(known, p)
               /\ \A i \in CaseIds :
                    /\ known.cases[i].status = "approved"
                    /\ LeadsTo(known.cases[i].movement, m)
                    => To(known.cases[i]) = Station[m]
<1>1. CASE ~IsExpected(s, m)
  BY <1>1, AdvanceTraceable DEF CaughtUp
<1>2. CASE IsExpected(s, m)
  <2>1. CaughtUp(s, m) = s BY <1>2 DEF CaughtUp
  <2>2. PICK j \in CaseIds : Incoming(s, m) = {j} /\ HasDeparted(s, s.cases[j].movement)
    BY <1>2 DEF IsExpected
  <2> DEFINE q == s.cases[j].movement
  <2>3. IsOpen(s.cases[j]) /\ To(s.cases[j]) = Station[m] BY <2>2 DEF Incoming
  <2>4. q \in Movements BY <2>3 DEF SafeStore, SafeBut, Named
  <2>5. m \in BroughtIn => LeadsTo(q, m)
    <3>1. j \in Incoming(s, m) BY <2>2
    <3> QED BY <2>2, <3>1, ExpectedIsNext
  <2>6. ASSUME NEW p \in Upstream[m] PROVE HasDeparted(s, p)
    <3>1. LeadsTo(q, m) BY <2>5, UpstreamIsBroughtIn
    <3>2. q \in Upstream[m] /\ (p = q \/ Stop[p] < Stop[q]) BY <2>4, <3>1, VisitBefore
    <3>3. p = q \/ p \in Upstream[q] BY <3>2, UpstreamIsNested
    <3> QED BY <2>2, <2>4, <3>3, DepartedIsBehind DEF Traceable
  <2>7. ASSUME NEW i \in CaseIds, s.cases[i].status = "approved", LeadsTo(s.cases[i].movement, m)
        PROVE  To(s.cases[i]) = Station[m]
    <3> DEFINE p == s.cases[i].movement
    <3>1. IsOpen(s.cases[i]) BY <2>7 DEF IsOpen
    <3>2. p \in Movements BY <3>1 DEF SafeStore, SafeBut, Named
    <3>3. LeadsTo(q, m) BY <2>5, <2>7, <3>2 DEF BroughtIn
    <3>4. Service[p] = Service[q] /\ Stop[p] = Stop[q]
      <4>1. /\ Service[p] = Service[m] /\ Stop[m] = Stop[p] + 1
            /\ Service[q] = Service[m] /\ Stop[m] = Stop[q] + 1
        BY <2>7, <3>3 DEF LeadsTo
      <4>2. Stop[p] \in Nat /\ Stop[q] \in Nat BY <2>4, <3>2, TimetableAssumption
      <4> QED BY <4>1, <4>2
    <3>5. p = q BY <2>4, <3>2, <3>4, OneVisitPerStop
    <3>6. i = j BY <2>3, <3>1, <3>5 DEF SafeStore, SafeBut, NoClash
    <3> QED BY <2>3, <3>6
  <2> QED BY <2>1, <2>6, <2>7
<1> QED BY <1>1, <1>2

\* An arrival frees the line of whoever was on the last leg, and all stays traceable.
LEMMA ArriveTraceable ==
    ASSUME RoutesAreClear,
           NEW s, SafeStore(s), Traceable(s), NEW m \in Movements, NEW t, CanArrive(s, m, t)
    PROVE  LET z == Arrive(s, m, t)
           IN  /\ Traceable(z)
               /\ \A i \in CaseIds :
                    /\ s.cases[i].status = "approved"
                    /\ HasDeparted(s, s.cases[i].movement)
                    /\ LeadsTo(s.cases[i].movement, m)
                    => z.cases[i].status = "released"
<1> DEFINE z == Arrive(s, m, t)
           known == CaughtUp(s, m)
<1>a. ~HasArrived(s, m) BY DEF CanArrive
<1>1. /\ Traceable(known)
      /\ \A p \in Upstream[m] : HasDeparted(known, p)
      /\ \A i \in CaseIds :
            known.cases[i].status = "approved" /\ LeadsTo(known.cases[i].movement, m)
            => To(known.cases[i]) = Station[m]
  BY <1>a, CaughtUpTraceable
<1>2. /\ \A i \in CaseIds :
            \/ z.cases[i] = known.cases[i]
            \/ known.cases[i].status = "approved" /\ z.cases[i].status = "released"
      /\ \A i \in CaseIds :
            /\ known.cases[i].status = "approved"
            /\ To(known.cases[i]) = Station[m]
            /\ Number[known.cases[i].movement] = Number[m]
            /\ HasDeparted(known, known.cases[i].movement)
            /\ known.cases[i].movement \in Movements
            => z.cases[i].status = "released"
      /\ \A p \in Movements :
            /\ HasDeparted(z, p) <=> HasDeparted(known, p)
            /\ HasArrived(z, p) <=> HasArrived(known, p) \/ p = m
  BY ArriveWrites
<1>3. SafeBut(known, Number[m]) BY CaughtUpSafe
<1>4. \A i \in CaseIds :
        /\ known.cases[i].movement = s.cases[i].movement
        /\ \/ known.cases[i] = s.cases[i]
           \/ s.cases[i].status = "approved" => known.cases[i].status = "released"
      /\ \A p \in Movements : HasDeparted(s, p) => HasDeparted(known, p)
  <2>1. s \in StoreType BY DEF SafeStore, SafeBut
  <2>2. CASE IsExpected(s, m) BY <2>2 DEF CaughtUp
  <2>3. CASE ~IsExpected(s, m) BY <2>1, <2>3, AdvanceWrites DEF CaughtUp
  <2> QED BY <2>2, <2>3
<1> HIDE DEF z, known
<1>5. \A i \in CaseIds : IsOpen(z.cases[i]) =>
        z.cases[i] = known.cases[i] /\ z.cases[i].movement \in Movements
  BY <1>2, <1>3 DEF SafeBut, Named, IsOpen
<1>6. ASSUME NEW i \in CaseIds, known.cases[i].status = "approved",
             LeadsTo(known.cases[i].movement, m)
      PROVE  z.cases[i].status = "released"
  <2> DEFINE p == known.cases[i].movement
  <2>1. p \in Movements BY <1>3, <1>6 DEF SafeBut, Named, IsOpen
  <2>2. Number[p] = Number[m] BY <1>6, <2>1, TimetableAssumption DEF LeadsTo
  <2>3. HasDeparted(known, p) BY <1>1, <1>6, <2>1, VisitBefore
  <2> QED BY <1>1, <1>2, <1>6, <2>1, <2>2, <2>3
<1>7. WellAsked(z) BY <1>1, <1>2, <1>5 DEF Traceable, WellAsked
<1>8. RouteIsBehind(z)
  <2> SUFFICES ASSUME NEW q \in Movements, HasArrived(z, q), NEW p \in Upstream[q]
               PROVE  HasDeparted(z, p)
    BY DEF RouteIsBehind
  <2>1. p \in Movements BY DEF Upstream
  <2> QED BY <1>1, <1>2, <2>1 DEF Traceable, RouteIsBehind
<1>9. StillAwaited(z)
  <2> SUFFICES ASSUME NEW i \in CaseIds, NEW q \in Movements,
                      z.cases[i].status = "approved", HasDeparted(z, z.cases[i].movement),
                      LeadsTo(z.cases[i].movement, q)
               PROVE  ~HasArrived(z, q)
    BY DEF StillAwaited
  <2>1. z.cases[i] = known.cases[i] /\ z.cases[i].movement \in Movements BY <1>5 DEF IsOpen
  <2>2. q # m BY <1>6, <2>1
  <2>3. ~HasArrived(known, q) BY <1>1, <1>2, <2>1 DEF Traceable, StillAwaited
  <2> QED BY <1>2, <2>2, <2>3
<1>10. ASSUME NEW i \in CaseIds, s.cases[i].status = "approved",
              LeadsTo(s.cases[i].movement, m)
       PROVE  z.cases[i].status = "released"
  <2>1. CASE known.cases[i].status = "approved" BY <1>4, <1>6, <1>10, <2>1
  <2>2. CASE known.cases[i].status = "released" BY <1>2, <2>2
  <2> QED BY <1>4, <1>10, <2>1, <2>2
<1> QED BY <1>7, <1>8, <1>9, <1>10 DEF Traceable, z

\* A departure is on a grant of its own; where the route goes next is ahead of it.
LEMMA DepartTraceable ==
    ASSUME RoutesAreClear,
           NEW s, SafeStore(s), Traceable(s), NEW m \in Movements, CanDepart(s, m)
    PROVE  Traceable(Depart(s, m))
<1> DEFINE here == IF ArrivesFirst(s, m) THEN Arrive(s, m, None) ELSE s
           grant == GrantOf(s, m)
           spot == [at |-> "connection", movement |-> m, connection |-> s.cases[grant].connection]
           z == Depart(s, m)
<1>1. grant \in CaseIds /\ s.cases[grant].status = "approved" /\ s.cases[grant].movement = m
  BY DepartureGrant
<1>2. ~HasDeparted(s, m) BY DEF CanDepart
<1>3. /\ SafeStore(here)
      /\ Traceable(here)
      /\ ~HasDeparted(here, m)
      /\ here.cases[grant] = s.cases[grant]
  <2>1. CASE ArrivesFirst(s, m)
    <3>1. CanArrive(s, m, None) BY <2>1 DEF CanDepart
    <3>2. /\ SafeStore(Arrive(s, m, None))
          /\ ~HasDeparted(Arrive(s, m, None), m)
          /\ Arrive(s, m, None).cases[grant] = s.cases[grant]
      BY <1>1, <1>2, <3>1, ArriveSafe
    <3>3. Traceable(Arrive(s, m, None)) BY <3>1, ArriveTraceable
    <3> QED BY <2>1, <3>2, <3>3
  <2>2. CASE ~ArrivesFirst(s, m) BY <1>2, <2>2
  <2> QED BY <2>1, <2>2
<1>4. z = [here EXCEPT !.moves[m].departure = "departed", !.position[Number[m]] = spot]
  BY DEF Depart
<1> HIDE DEF here, grant, spot, z
<1>5. here \in StoreType BY <1>3 DEF SafeStore, SafeBut
<1>6. /\ z.cases = here.cases
      /\ \A p \in Movements :
            z.moves[p] = IF p = m THEN [here.moves[m] EXCEPT !.departure = "departed"]
                         ELSE here.moves[p]
  BY <1>4, <1>5 DEF StoreType
<1>7. \A p \in Movements : /\ HasDeparted(z, p) <=> HasDeparted(here, p) \/ p = m
                           /\ HasArrived(z, p) <=> HasArrived(here, p)
  <2> SUFFICES ASSUME NEW p \in Movements
               PROVE  /\ HasDeparted(z, p) <=> HasDeparted(here, p) \/ p = m
                      /\ HasArrived(z, p) <=> HasArrived(here, p)
    OBVIOUS
  <2>1. here.moves[p] \in MoveState BY <1>5 DEF StoreType
  <2> QED BY <2>1, <1>6 DEF MoveState, HasDeparted, HasArrived
<1>8. \A i \in CaseIds : IsOpen(here.cases[i]) => here.cases[i].movement \in Movements
  BY <1>3 DEF SafeStore, SafeBut, Named
<1>9. WellAsked(z)
  <2> SUFFICES ASSUME NEW i \in CaseIds, IsOpen(z.cases[i])
               PROVE  /\ z.cases[i].movement \in Departing
                      /\ z.cases[i].connection \in Connections
                      /\ Station[z.cases[i].movement] \in Ends[z.cases[i].connection]
                      /\ z.cases[i].status = "waiting" => ~HasDeparted(z, z.cases[i].movement)
    BY DEF WellAsked
  <2>1. IsOpen(here.cases[i]) /\ z.cases[i] = here.cases[i] BY <1>6
  <2>2. z.cases[i].status = "waiting" => z.cases[i].movement # m
    <3> SUFFICES ASSUME z.cases[i].status = "waiting", z.cases[i].movement = m PROVE FALSE
      OBVIOUS
    <3>1. IsOpen(here.cases[grant]) /\ here.cases[grant].movement = m BY <1>1, <1>3 DEF IsOpen
    <3>2. i # grant BY <1>1, <1>3, <2>1
    <3> QED BY <1>1, <1>3, <2>1, <3>1, <3>2 DEF SafeStore, SafeBut, NoClash
  <2> QED BY <1>3, <1>7, <1>8, <2>1, <2>2 DEF Traceable, WellAsked
<1>10. RouteIsBehind(z)
  <2> SUFFICES ASSUME NEW q \in Movements, HasArrived(z, q), NEW p \in Upstream[q]
               PROVE  HasDeparted(z, p)
    BY DEF RouteIsBehind
  <2>1. p \in Movements BY DEF Upstream
  <2> QED BY <1>3, <1>7, <2>1 DEF Traceable, RouteIsBehind
<1>11. StillAwaited(z)
  <2> SUFFICES ASSUME NEW i \in CaseIds, NEW q \in Movements,
                      z.cases[i].status = "approved", HasDeparted(z, z.cases[i].movement),
                      LeadsTo(z.cases[i].movement, q)
               PROVE  ~HasArrived(here, q)
    BY <1>7 DEF StillAwaited
  <2>1. z.cases[i] = here.cases[i] /\ z.cases[i].movement \in Movements
    BY <1>6, <1>8 DEF IsOpen
  <2>2. CASE z.cases[i].movement = m
    <3>1. m \in Upstream[q] BY <2>2, VisitBefore
    <3> QED BY <1>3, <3>1 DEF Traceable, RouteIsBehind
  <2>3. CASE z.cases[i].movement # m
    BY <1>3, <1>7, <2>1, <2>3 DEF Traceable, StillAwaited
  <2> QED BY <2>2, <2>3
<1> QED BY <1>9, <1>10, <1>11 DEF Traceable, z

\* What settles cases, and what declares something of a train, leaves the trains where
\* they are: an answer counts for a train that has not left.
LEMMA QuietTraceable ==
    ASSUME NEW s, SafeStore(s), Traceable(s), NEW z,
           \A i \in CaseIds :
                \/ ~IsOpen(z.cases[i])
                \/ /\ IsOpen(s.cases[i])
                   /\ z.cases[i].movement = s.cases[i].movement
                   /\ z.cases[i].connection = s.cases[i].connection
                   /\ \/ z.cases[i].status = s.cases[i].status
                      \/ s.cases[i].status = "waiting",
           \A p \in Movements : /\ HasDeparted(z, p) <=> HasDeparted(s, p)
                                /\ HasArrived(z, p) <=> HasArrived(s, p)
    PROVE  Traceable(z)
<1>1. \A i \in CaseIds : IsOpen(s.cases[i]) => s.cases[i].movement \in Movements
  BY DEF SafeStore, SafeBut, Named
<1>2. WellAsked(z) BY <1>1 DEF Traceable, WellAsked, IsOpen
<1>3. RouteIsBehind(z)
  <2> SUFFICES ASSUME NEW q \in Movements, HasArrived(z, q), NEW p \in Upstream[q]
               PROVE  HasDeparted(z, p)
    BY DEF RouteIsBehind
  <2>1. p \in Movements BY DEF Upstream
  <2> QED BY <2>1 DEF Traceable, RouteIsBehind
<1>4. StillAwaited(z)
  <2> SUFFICES ASSUME NEW i \in CaseIds, NEW q \in Movements,
                      z.cases[i].status = "approved", HasDeparted(z, z.cases[i].movement),
                      LeadsTo(z.cases[i].movement, q)
               PROVE  ~HasArrived(z, q)
    BY DEF StillAwaited
  <2>1. /\ IsOpen(s.cases[i]) /\ z.cases[i].movement = s.cases[i].movement
        /\ s.cases[i].status \in {"approved", "waiting"}
    BY DEF IsOpen
  <2>2. HasDeparted(s, s.cases[i].movement) BY <1>1, <2>1
  <2>3. s.cases[i].status = "approved" BY <2>1, <2>2 DEF Traceable, WellAsked
  <2> QED BY <2>1, <2>2, <2>3 DEF Traceable, StillAwaited
<1> QED BY <1>2, <1>3, <1>4 DEF Traceable

LEMMA SettleTraceable ==
    ASSUME NEW s, SafeStore(s), Traceable(s), NEW ids,
           NEW status \in {"approved"} \cup Settled,
           status = "approved" => (\A i \in CaseIds : i \in ids => s.cases[i].status = "waiting")
    PROVE  Traceable(Settle(s, ids, status))
<1> DEFINE z == Settle(s, ids, status)
<1>1. s \in StoreType BY DEF SafeStore, SafeBut
<1>2. /\ z.moves = s.moves
      /\ \A i \in CaseIds :
            z.cases[i] = IF i \in ids THEN [s.cases[i] EXCEPT !.status = status] ELSE s.cases[i]
  BY <1>1, SettleWrites
<1> HIDE DEF z
<1>3. \A i \in CaseIds :
        /\ z.cases[i].movement = s.cases[i].movement
        /\ z.cases[i].connection = s.cases[i].connection
        /\ z.cases[i].status = IF i \in ids THEN status ELSE s.cases[i].status
  <2> TAKE i \in CaseIds
  <2>1. s.cases[i] \in CaseRow BY <1>1 DEF StoreType
  <2> QED BY <2>1, <1>2 DEF CaseRow
<1>4. status \in Settled => status # "waiting" /\ status # "approved" BY DEF Settled
<1>5. \A i \in CaseIds :
        \/ ~IsOpen(z.cases[i])
        \/ /\ IsOpen(s.cases[i])
           /\ z.cases[i].movement = s.cases[i].movement
           /\ z.cases[i].connection = s.cases[i].connection
           /\ \/ z.cases[i].status = s.cases[i].status
              \/ s.cases[i].status = "waiting"
  BY <1>3, <1>4 DEF IsOpen
<1>6. \A p \in Movements : /\ HasDeparted(z, p) <=> HasDeparted(s, p)
                           /\ HasArrived(z, p) <=> HasArrived(s, p)
  BY <1>2 DEF HasDeparted, HasArrived
<1>7. Traceable(z) BY <1>5, <1>6, QuietTraceable
<1> QED BY <1>7 DEF z

LEMMA LapsedTraceable ==
    ASSUME NEW s, SafeStore(s), Traceable(s)
    PROVE  Traceable(Lapsed(s))
<1> DEFINE ids == {i \in CaseIds : s.cases[i].status = "waiting" /\ s.cases[i].due}
<1>1. "expired" \in Settled BY DEF Settled
<1> HIDE DEF ids
<1>2. Traceable(Settle(s, ids, "expired")) BY <1>1, SettleTraceable
<1> QED BY <1>2 DEF Lapsed, ExpireDue, ids

LEMMA RowTraceable ==
    ASSUME NEW s, SafeStore(s), Traceable(s), NEW m \in Movements, NEW row \in MoveState,
           row.departure = "departed" <=> HasDeparted(s, m),
           row.arrival = "arrived" <=> HasArrived(s, m)
    PROVE  Traceable([s EXCEPT !.moves[m] = row])
<1> DEFINE z == [s EXCEPT !.moves[m] = row]
<1>1. s \in StoreType BY DEF SafeStore, SafeBut
<1>2. /\ z.cases = s.cases
      /\ \A p \in Movements : z.moves[p] = IF p = m THEN row ELSE s.moves[p]
  BY <1>1 DEF StoreType
<1> HIDE DEF z
<1>3. \A p \in Movements : /\ HasDeparted(z, p) <=> HasDeparted(s, p)
                           /\ HasArrived(z, p) <=> HasArrived(s, p)
  BY <1>2 DEF HasDeparted, HasArrived
<1>4. Traceable(z) BY <1>2, <1>3, QuietTraceable
<1> QED BY <1>4 DEF z

LEMMA DeclarationsTraceable ==
    ASSUME NEW s, SafeStore(s), Traceable(s), NEW m \in Movements, NEW ready \in BOOLEAN
    PROVE  /\ CanSetPosition(s, m) => Traceable(SetPosition(s, m))
           /\ Traceable(SetCrew(s, m, ready))
           /\ CanApproach(s, m) => Traceable(Approach(s, m))
<1>s. s.moves[m] \in MoveState BY DEF SafeStore, SafeBut, StoreType
<1>1. ASSUME CanSetPosition(s, m) PROVE Traceable(SetPosition(s, m))
  <2> DEFINE row == [s.moves[m] EXCEPT !.departure = "positioned"]
  <2>1. row \in MoveState /\ row.departure # "departed" /\ row.arrival = s.moves[m].arrival
    BY <1>s DEF MoveState
  <2>2. SetPosition(s, m) = [s EXCEPT !.moves[m] = row] BY DEF SetPosition
  <2> HIDE DEF row
  <2> QED BY <1>1, <2>1, <2>2, RowTraceable DEF CanSetPosition, HasArrived
<1>2. Traceable(SetCrew(s, m, ready))
  <2> DEFINE row == [s.moves[m] EXCEPT !.crew = ready]
  <2>1. /\ row \in MoveState
        /\ row.departure = s.moves[m].departure
        /\ row.arrival = s.moves[m].arrival
    BY <1>s DEF MoveState
  <2>2. SetCrew(s, m, ready) = [s EXCEPT !.moves[m] = row] BY DEF SetCrew
  <2> HIDE DEF row
  <2> QED BY <2>1, <2>2, RowTraceable DEF HasArrived, HasDeparted
<1>3. ASSUME CanApproach(s, m) PROVE Traceable(Approach(s, m))
  <2> DEFINE row == [s.moves[m] EXCEPT !.arrival = "approaching"]
  <2>1. row \in MoveState /\ row.departure = s.moves[m].departure /\ row.arrival # "arrived"
    BY <1>s DEF MoveState
  <2>2. Approach(s, m) = [s EXCEPT !.moves[m] = row] BY DEF Approach
  <2> HIDE DEF row
  <2> QED BY <1>3, <2>1, <2>2, RowTraceable DEF CanApproach, HasDeparted
<1> QED BY <1>1, <1>2, <1>3

LEMMA ChangeTrackTraceable ==
    ASSUME NEW s, SafeStore(s), Traceable(s), NEW m \in Movements, NEW t, CanChangeTrack(s, m, t)
    PROVE  Traceable(ChangeTrack(s, m, t))
<1> DEFINE row == [s.moves[m] EXCEPT !.track = t]
           moved == [s EXCEPT !.moves[m] = row]
           ids == WaitingOf(s, {m})
<1>1. s.moves[m] \in MoveState BY DEF SafeStore, SafeBut, StoreType
<1>2. t \in Tracks BY TrackType DEF CanChangeTrack
<1>3. /\ row \in MoveState
      /\ row.departure = s.moves[m].departure
      /\ row.arrival = s.moves[m].arrival
  BY <1>1, <1>2 DEF MoveState
<1>4. ChangeTrack(s, m, t) = Settle(moved, ids, "invalidated_by_revision") BY DEF ChangeTrack
<1> HIDE DEF row
<1>5. SafeStore(moved) /\ Traceable(moved)
  BY <1>3, RowSafe, RowTraceable DEF HasDeparted, HasArrived
<1> HIDE DEF moved, ids
<1>6. "invalidated_by_revision" \in Settled /\ "invalidated_by_revision" # "approved"
  BY DEF Settled
<1>7. Traceable(Settle(moved, ids, "invalidated_by_revision")) BY <1>5, <1>6, SettleTraceable
<1> QED BY <1>4, <1>7

\* A question, or a free line taken without asking, is about a train that has not left.
LEMMA RequestTraceable ==
    ASSUME NEW s, SafeStore(s), Traceable(s), NEW i \in CaseIds, NEW m \in Movements,
           NEW c \in Connections, NEW mode, CanRequest(s, m, c)
    PROVE  Traceable(Request(s, i, m, c, mode))
<1> DEFINE row == [status |-> IF mode = "direct" THEN "approved" ELSE "waiting",
                   movement |-> m, connection |-> c,
                   track |-> s.moves[m].track, due |-> FALSE]
           z == Request(s, i, m, c, mode)
<1>s. s \in StoreType BY DEF SafeStore, SafeBut
<1>1. z = [s EXCEPT !.cases[i] = row] BY DEF Request
<1>2. row.movement = m /\ row.connection = c OBVIOUS
<1> HIDE DEF row, z
<1>3. /\ z.moves = s.moves
      /\ \A j \in CaseIds : z.cases[j] = IF j = i THEN row ELSE s.cases[j]
  BY <1>s, <1>1 DEF StoreType
<1>4. \A p \in Movements : /\ HasDeparted(z, p) <=> HasDeparted(s, p)
                           /\ HasArrived(z, p) <=> HasArrived(s, p)
  BY <1>3 DEF HasDeparted, HasArrived
<1>5. m \in Departing /\ Station[m] \in Ends[c] /\ ~HasDeparted(s, m) BY DEF CanRequest
<1>6. \A j \in CaseIds : IsOpen(s.cases[j]) => s.cases[j].movement \in Movements
  BY DEF SafeStore, SafeBut, Named
<1>7. WellAsked(z)
  <2> SUFFICES ASSUME NEW j \in CaseIds, IsOpen(z.cases[j])
               PROVE  /\ z.cases[j].movement \in Departing
                      /\ z.cases[j].connection \in Connections
                      /\ Station[z.cases[j].movement] \in Ends[z.cases[j].connection]
                      /\ z.cases[j].status = "waiting" => ~HasDeparted(z, z.cases[j].movement)
    BY DEF WellAsked
  <2>1. CASE j = i BY <1>2, <1>3, <1>4, <1>5, <2>1
  <2>2. CASE j # i BY <1>3, <1>4, <1>6, <2>2 DEF Traceable, WellAsked
  <2> QED BY <2>1, <2>2
<1>8. RouteIsBehind(z)
  <2> SUFFICES ASSUME NEW q \in Movements, HasArrived(z, q), NEW p \in Upstream[q]
               PROVE  HasDeparted(z, p)
    BY DEF RouteIsBehind
  <2>1. p \in Movements BY DEF Upstream
  <2> QED BY <1>4, <2>1 DEF Traceable, RouteIsBehind
<1>9. StillAwaited(z)
  <2> SUFFICES ASSUME NEW j \in CaseIds, NEW q \in Movements,
                      z.cases[j].status = "approved", HasDeparted(z, z.cases[j].movement),
                      LeadsTo(z.cases[j].movement, q)
               PROVE  ~HasArrived(z, q)
    BY DEF StillAwaited
  <2>1. j # i BY <1>2, <1>3, <1>4, <1>5
  <2>2. z.cases[j] = s.cases[j] /\ s.cases[j].movement \in Movements BY <1>3, <1>6, <2>1 DEF IsOpen
  <2> QED BY <1>4, <2>2 DEF Traceable, StillAwaited
<1> QED BY <1>7, <1>8, <1>9 DEF Traceable, z

LEMMA FormTrackTraceable ==
    ASSUME NEW s, SafeStore(s), Traceable(s), NEW m \in Movements, NEW t, AcceptsTrack(s, m, t)
    PROVE  Traceable(FormTrack(s, m, t))
BY ChangeTrackTraceable DEF FormTrack, AcceptsTrack

LEMMA FormArrivalTraceable ==
    ASSUME RoutesAreClear,
           NEW s, SafeStore(s), Traceable(s), NEW m \in Movements, NEW arrival,
           AcceptsArrival(s, m, arrival)
    PROVE  Traceable(FormArrival(s, m, arrival))
<1>1. CASE arrival \in {None, s.moves[m].arrival}
  BY <1>1 DEF FormArrival
<1>2. CASE arrival \notin {None, s.moves[m].arrival} /\ arrival = "approaching"
  <2>1. FormArrival(s, m, arrival) = Approach(s, m) BY <1>2 DEF FormArrival
  <2>2. CanApproach(s, m) BY <1>2 DEF AcceptsArrival
  <2> QED BY <2>1, <2>2, DeclarationsTraceable
<1>3. CASE arrival \notin {None, s.moves[m].arrival} /\ arrival # "approaching"
  <2>1. FormArrival(s, m, arrival) = Arrive(Lapsed(s), m, None) BY <1>3 DEF FormArrival
  <2>2. CanArrive(Lapsed(s), m, None) BY <1>3 DEF AcceptsArrival
  <2>3. SafeStore(Lapsed(s)) /\ Traceable(Lapsed(s)) BY LapsedSafe, LapsedTraceable
  <2>4. Traceable(Arrive(Lapsed(s), m, None)) BY <2>2, <2>3, ArriveTraceable
  <2> QED BY <2>1, <2>4
<1> QED BY <1>1, <1>2, <1>3

LEMMA FormDepartureTraceable ==
    ASSUME RoutesAreClear,
           NEW s, SafeStore(s), Traceable(s), NEW m \in Movements, NEW departure,
           AcceptsDeparture(s, m, departure)
    PROVE  Traceable(FormDeparture(s, m, departure))
<1>1. CASE departure \in {None, Shown(s, m)}
  BY <1>1 DEF FormDeparture
<1>2. CASE departure \notin {None, Shown(s, m)} /\ departure = "departed"
  <2>1. FormDeparture(s, m, departure) = Depart(Lapsed(s), m) BY <1>2 DEF FormDeparture
  <2>2. CanDepart(Lapsed(s), m) BY <1>2 DEF AcceptsDeparture
  <2>3. SafeStore(Lapsed(s)) /\ Traceable(Lapsed(s)) BY LapsedSafe, LapsedTraceable
  <2> QED BY <2>1, <2>2, <2>3, DepartTraceable
<1>3. CASE departure \notin {None, Shown(s, m)} /\ departure # "departed"
  <2>1. FormDeparture(s, m, departure) = SetCrew(SetPosition(s, m), m, departure = "ready")
    BY <1>3 DEF FormDeparture
  <2>2. (departure = "ready") \in BOOLEAN OBVIOUS
  <2>3. CanSetPosition(s, m) BY <1>3 DEF AcceptsDeparture
  <2>4. SafeStore(SetPosition(s, m)) /\ Traceable(SetPosition(s, m))
    BY <2>3, SetPositionSafe, DeclarationsTraceable
  <2> QED BY <2>1, <2>2, <2>4, DeclarationsTraceable
<1> QED BY <1>1, <1>2, <1>3

TraceableState == SafeState /\ Traceable(Store)

LEMMA CommitTraceable ==
    ASSUME NEW s, SafeStore(s), Traceable(s), TypeOK, Commit(s)
    PROVE  Traceable(Store)'
<1>1. s \in StoreType BY DEF SafeStore, SafeBut
<1>2. Store' = s BY <1>1 DEF Commit, Store, StoreType
<1>3. Traceable(Store)' <=> Traceable(Store')
  BY DEF Traceable, WellAsked, RouteIsBehind, StillAwaited, HasDeparted, HasArrived, IsOpen
<1> QED BY <1>2, <1>3

LEMMA ClockTraceable ==
    ASSUME TraceableState, Clock \/ UNCHANGED vars
    PROVE  Traceable(Store)'
<1>1. TypeOK /\ SafeStore(Store) /\ Traceable(Store) BY DEF TraceableState, SafeState
<1>2. /\ moves' = moves
      /\ \A i \in CaseIds : /\ cases'[i].status = cases[i].status
                            /\ cases'[i].movement = cases[i].movement
                            /\ cases'[i].connection = cases[i].connection
  <2>1. ASSUME NEW j \in CaseIds, TimeToLiveRunsOut(j)
        PROVE  \A i \in CaseIds : /\ cases'[i].status = cases[i].status
                                  /\ cases'[i].movement = cases[i].movement
                                  /\ cases'[i].connection = cases[i].connection
    BY <1>1, <2>1 DEF TimeToLiveRunsOut, TypeOK, CaseRow
  <2> QED BY <2>1 DEF Clock, TimeToLiveRunsOut, StartClock, StopClock, vars
<1>3. /\ Store'.moves = Store.moves
      /\ \A i \in CaseIds : /\ Store'.cases[i].status = Store.cases[i].status
                            /\ Store'.cases[i].movement = Store.cases[i].movement
                            /\ Store'.cases[i].connection = Store.cases[i].connection
  BY <1>2 DEF Store
<1>4. Traceable(Store')
  <2> DEFINE s == Store
             z == Store'
  <2>1. SafeStore(s) /\ Traceable(s) BY <1>1
  <2>2. \A i \in CaseIds :
            \/ ~IsOpen(z.cases[i])
            \/ /\ IsOpen(s.cases[i])
               /\ z.cases[i].movement = s.cases[i].movement
               /\ z.cases[i].connection = s.cases[i].connection
               /\ z.cases[i].status = s.cases[i].status
    BY <1>3 DEF IsOpen
  <2>3. \A p \in Movements : /\ HasDeparted(z, p) <=> HasDeparted(s, p)
                             /\ HasArrived(z, p) <=> HasArrived(s, p)
    BY <1>3 DEF HasDeparted, HasArrived
  <2> HIDE DEF s, z
  <2>4. Traceable(z) BY <2>1, <2>2, <2>3, QuietTraceable
  <2> QED BY <2>4 DEF z
<1>5. Traceable(Store)' <=> Traceable(Store')
  BY DEF Traceable, WellAsked, RouteIsBehind, StillAwaited, HasDeparted, HasArrived, IsOpen
<1> QED BY <1>4, <1>5

LEMMA InitTraceable == ASSUME Init PROVE TraceableState
<1>1. SafeState BY InitSafe
<1>2. \A i \in CaseIds : Store.cases[i].status = "unused" BY InitPlaced DEF Store
<1>4. WellAsked(Store) /\ StillAwaited(Store) BY <1>2 DEF WellAsked, StillAwaited, IsOpen
<1>5. RouteIsBehind(Store)
  <2> SUFFICES ASSUME NEW m \in Movements, HasArrived(Store, m), NEW p \in Upstream[m]
               PROVE  HasDeparted(Store, p)
    BY DEF RouteIsBehind
  <2>1. p \in Movements /\ Service[p] = Service[m] /\ Stop[p] < Stop[m] BY DEF Upstream
  <2>2. p \in Departing BY DEF Upstream, LeadsTo
  <2> QED BY <2>1, <2>2, InitPlaced DEF Store, HasArrived, HasDeparted
<1> QED BY <1>1, <1>4, <1>5 DEF TraceableState, Traceable

\* Every command leaves every line traceable to the train that holds it.
LEMMA StepTraceable ==
    ASSUME RoutesAreClear, TraceableState, [Next]_vars
    PROVE  TraceableState'
<1>s. TypeOK /\ SafeStore(Store) /\ Traceable(Store) BY DEF TraceableState, SafeState
<1>n. SafeStore(Now) /\ Traceable(Now) BY <1>s, LapsedSafe, LapsedTraceable DEF Now
<1>1. ASSUME NEW m \in Movements, PositionSet(m) PROVE Traceable(Store)'
  BY <1>s, <1>1, SetPositionSafe, DeclarationsTraceable, CommitTraceable DEF PositionSet
<1>2. ASSUME NEW m \in Movements, NEW ready \in BOOLEAN, CrewReadySet(m, ready)
      PROVE  Traceable(Store)'
  BY <1>s, <1>2, SetCrewSafe, DeclarationsTraceable, CommitTraceable DEF CrewReadySet
<1>3. ASSUME NEW m \in Movements, TrainApproaching(m) PROVE Traceable(Store)'
  BY <1>s, <1>3, ApproachSafe, DeclarationsTraceable, CommitTraceable DEF TrainApproaching
<1>4. ASSUME NEW m \in Movements, NEW t, TrackChange(m, t) PROVE Traceable(Store)'
  BY <1>s, <1>4, ChangeTrackSafe, ChangeTrackTraceable, CommitTraceable DEF TrackChange
<1>5. ASSUME NEW m \in Movements, NEW t, TrainArrived(m, t) PROVE Traceable(Store)'
  <2>1. CanArrive(Now, m, t) /\ Commit(Arrive(Now, m, t)) BY <1>5 DEF TrainArrived
  <2>2. SafeStore(Arrive(Now, m, t)) BY <1>n, <2>1, ArriveSafe
  <2>3. Traceable(Arrive(Now, m, t)) BY <1>n, <2>1, ArriveTraceable
  <2> QED BY <1>s, <2>1, <2>2, <2>3, CommitTraceable
<1>6. ASSUME NEW m \in Movements, TrainDeparted(m) PROVE Traceable(Store)'
  <2>1. CanDepart(Now, m) /\ Commit(Depart(Now, m)) BY <1>6 DEF TrainDeparted
  <2>2. SafeStore(Depart(Now, m)) /\ Traceable(Depart(Now, m))
    BY <1>n, <2>1, DepartSafe, DepartTraceable
  <2> QED BY <1>s, <2>1, <2>2, CommitTraceable
<1>7. ASSUME NEW i \in CaseIds, NEW m \in Movements, NEW c \in Connections,
             ClearanceRequest(i, m, c)
      PROVE  Traceable(Store)'
  <2>1. Now.cases[i].status = "unused"
    <3>1. Store.cases[i].status = "unused" BY <1>7 DEF ClearanceRequest, Store
    <3>2. Store \in StoreType BY <1>s, StoreTyped
    <3> QED BY <3>1, <3>2, LapsedKeepsUnused DEF Now
  <2>2. CanRequest(Now, m, c) BY <1>7 DEF ClearanceRequest
  <2>3. PICK mode \in Modes : Commit(Request(Now, i, m, c, mode)) BY <1>7 DEF ClearanceRequest
  <2>4. SafeStore(Request(Now, i, m, c, mode)) BY <1>n, <2>1, <2>2, RequestSafe
  <2>5. Traceable(Request(Now, i, m, c, mode)) BY <1>n, <2>2, RequestTraceable
  <2> QED BY <1>s, <2>3, <2>4, <2>5, CommitTraceable
<1>8. ASSUME NEW i \in CaseIds, NEW approved \in BOOLEAN, ClearanceResponse(i, approved)
      PROVE  Traceable(Store)'
  <2> DEFINE status == IF approved THEN "approved" ELSE "rejected"
  <2>1. status \in {"approved"} \cup Settled /\ status # "released" BY DEF Settled
  <2>2. Now.cases[i].status = "waiting" BY <1>8 DEF ClearanceResponse
  <2>3. Commit(Settle(Now, {i}, status)) BY <1>8 DEF ClearanceResponse
  <2> HIDE DEF status
  <2>4. SafeStore(Settle(Now, {i}, status)) BY <1>n, <2>1, <2>2, SettleSafe DEF IsOpen
  <2>5. Traceable(Settle(Now, {i}, status)) BY <1>n, <2>1, <2>2, SettleTraceable
  <2> QED BY <1>s, <2>3, <2>4, <2>5, CommitTraceable
<1>9. ASSUME NEW i \in CaseIds, ClearanceCancel(i) PROVE Traceable(Store)'
  <2>1. \/ Now.cases[i].status = "waiting"
        \/ Now.cases[i].status = "approved" /\ ~HasDeparted(Now, Now.cases[i].movement)
    BY <1>9 DEF ClearanceCancel
  <2>2. "cancelled" \in Settled /\ "cancelled" # "approved" BY DEF Settled
  <2>3. SafeStore(Settle(Now, {i}, "cancelled")) BY <1>n, <2>1, <2>2, SettleSafe DEF IsOpen
  <2>4. Traceable(Settle(Now, {i}, "cancelled")) BY <1>n, <2>2, SettleTraceable
  <2> QED BY <1>s, <1>9, <2>3, <2>4, CommitTraceable DEF ClearanceCancel
<1>10. ASSUME NEW m \in Movements, NEW t, NEW arrival, NEW departure,
              TKLForm(m, t, arrival, departure)
       PROVE  Traceable(Store)'
  <2> DEFINE tracked == FormTrack(Store, m, t)
             received == FormArrival(tracked, m, arrival)
             sent == FormDeparture(received, m, departure)
  <2>1. SafeStore(tracked) /\ Traceable(tracked)
    BY <1>s, <1>10, FormTrackSafe, FormTrackTraceable DEF TKLForm
  <2>2. AcceptsArrival(tracked, m, arrival) /\ AcceptsDeparture(received, m, departure)
    BY <1>10 DEF TKLForm
  <2>3. SafeStore(received) /\ Traceable(received)
    BY <2>1, <2>2, FormArrivalSafe, FormArrivalTraceable
  <2>4. SafeStore(sent) /\ Traceable(sent)
    BY <2>2, <2>3, FormDepartureSafe, FormDepartureTraceable
  <2>5. Commit(sent) BY <1>10 DEF TKLForm
  <2> QED BY <1>s, <2>4, <2>5, CommitTraceable
<1>11. ASSUME ReadOpenCases PROVE Traceable(Store)'
  <2>1. Commit(Now) BY <1>11 DEF ReadOpenCases, Now, Lapsed
  <2> QED BY <1>s, <1>n, <2>1, CommitTraceable
<1>12. ASSUME Clock \/ UNCHANGED vars PROVE Traceable(Store)'
  BY <1>12, ClockTraceable
<1>13. SafeState' BY StepSafe DEF TraceableState
<1>14. Traceable(Store)'
  BY <1>1, <1>2, <1>3, <1>4, <1>5, <1>6, <1>7, <1>8, <1>9, <1>10, <1>11, <1>12
  DEF Next, Declaration, Running, Clearing, Forms
<1> QED BY <1>13, <1>14 DEF TraceableState

\* A line is never lost behind a train: the arrival where its route goes next can still be
\* reported, on any track there, and frees it (protocol_v2._release_on_arrival and
\* _advance).  RoutesAreClear is what that takes of the timetable and the line plan.
THEOREM HeldLinesCanBeFreed == RoutesAreClear => (Spec => []HeldLineCanBeFreed)
<1> SUFFICES ASSUME RoutesAreClear PROVE Spec => []HeldLineCanBeFreed
  OBVIOUS
<1>1. Init => TraceableState BY InitTraceable
<1>2. TraceableState /\ [Next]_vars => TraceableState' BY StepTraceable
<1>3. TraceableState => HeldLineCanBeFreed
  <2> SUFFICES ASSUME TraceableState, NEW i \in CaseIds,
                      cases[i].status = "approved", HasDeparted(Store, cases[i].movement)
               PROVE  \E m \in Movements : \E t \in TracksAt[Station[m]] :
                        CanArrive(Store, m, t) /\ Arrive(Store, m, t).cases[i].status = "released"
    BY DEF HeldLineCanBeFreed
  <2> DEFINE p == cases[i].movement
  <2>1. SafeStore(Store) /\ Traceable(Store) BY DEF TraceableState, SafeState
  <2>2. Store.cases[i] = cases[i] BY DEF Store
  <2>3. p \in Departing BY <2>1, <2>2 DEF Traceable, WellAsked, IsOpen
  <2>4. PICK m \in Movements : LeadsTo(p, m) /\ TracksAt[Station[m]] # {}
    BY <2>3 DEF RoutesAreClear
  <2>5. PICK t \in TracksAt[Station[m]] : TRUE BY <2>4
  <2>6. ~HasArrived(Store, m) BY <2>1, <2>2, <2>4 DEF Traceable, StillAwaited
  <2>7. CanArrive(Store, m, t)
    <3>1. t # None BY EndsAssumption, TrackType
    <3> QED BY <2>4, <2>6, <3>1 DEF CanArrive, ArrivalTrack, LeadsTo
  <2>8. Arrive(Store, m, t).cases[i].status = "released"
    BY <2>1, <2>2, <2>4, <2>7, ArriveTraceable
  <2> QED BY <2>7, <2>8
<1> QED BY <1>1, <1>2, <1>3, PTL DEF Spec

-----------------------------------------------------------------------------
(* What a write may do *)

\* A question is settled in any way, a grant only by the train coming in.
Closes(was, is) ==
    \/ was.status = "waiting" /\ is.status \in Settled
    \/ was.status = "approved" /\ is.status = "released"

\* p left on a grant it had, or somebody further on reported the train in.
Left(s, z, p) ==
    \/ \E i \in CaseIds : s.cases[i].status = "approved" /\ s.cases[i].movement = p
    \/ \E q \in Movements : p \in Upstream[q] /\ ~HasArrived(s, q) /\ HasArrived(z, q)

Stands(s, z) ==
    \A p \in Movements : /\ HasDeparted(s, p) => HasDeparted(z, p)
                         /\ HasArrived(s, p) => HasArrived(z, p)

\* No question is left about a train that has left meanwhile.
Withdrawn(s, z) ==
    \A i \in CaseIds : z.cases[i].status = "waiting" /\ HasDeparted(z, z.cases[i].movement)
                       => HasDeparted(s, z.cases[i].movement)

Onward(s, z) ==
    /\ \A i \in CaseIds : z.cases[i] = s.cases[i] \/ Closes(s.cases[i], z.cases[i])
    /\ Stands(s, z)
    /\ \A p \in Movements : ~HasDeparted(s, p) /\ HasDeparted(z, p) => Left(s, z, p)
    /\ Withdrawn(s, z)

LEMMA OnwardReflexive == ASSUME NEW s PROVE Onward(s, s)
BY DEF Onward, Stands, Withdrawn

LEMMA OnwardTransitive ==
    ASSUME NEW r, NEW s, NEW z, Onward(r, s), Onward(s, z), Named(r)
    PROVE  Onward(r, z)
<1>0. "waiting" \notin Settled /\ "approved" \notin Settled /\ "released" \in Settled BY DEF Settled
<1>1. \A i \in CaseIds : z.cases[i] = r.cases[i] \/ Closes(r.cases[i], z.cases[i])
  BY <1>0 DEF Onward, Closes
<1>2. Stands(r, z) BY DEF Onward, Stands
<1>3. ASSUME NEW p \in Movements, ~HasDeparted(r, p), HasDeparted(z, p) PROVE Left(r, z, p)
  <2>1. CASE HasDeparted(s, p)
    <3>1. Left(r, s, p) BY <1>3, <2>1 DEF Onward
    <3> QED BY <3>1 DEF Left, Onward, Stands
  <2>2. CASE ~HasDeparted(s, p)
    <3>1. Left(s, z, p) BY <1>3, <2>2 DEF Onward
    <3>2. ASSUME NEW i \in CaseIds, s.cases[i].status = "approved"
          PROVE  s.cases[i] = r.cases[i]
      BY <1>0, <3>2 DEF Onward, Closes
    <3> QED BY <3>1, <3>2 DEF Left, Onward, Stands
  <2> QED BY <2>1, <2>2
<1>4. Withdrawn(r, z)
  <2> SUFFICES ASSUME NEW i \in CaseIds, z.cases[i].status = "waiting",
                      HasDeparted(z, z.cases[i].movement)
               PROVE  HasDeparted(r, z.cases[i].movement)
    BY DEF Withdrawn
  <2>1. z.cases[i] = s.cases[i] BY <1>0 DEF Onward, Closes
  <2> QED BY <2>1 DEF Onward, Withdrawn
<1> QED BY <1>1, <1>2, <1>3, <1>4 DEF Onward

\* Nobody departs or arrives, and cases are only closed.
LEMMA QuietOnward ==
    ASSUME NEW s, NEW z,
           \A p \in Movements : /\ HasDeparted(z, p) <=> HasDeparted(s, p)
                                /\ HasArrived(s, p) => HasArrived(z, p),
           \A i \in CaseIds : \/ z.cases[i] = s.cases[i]
                              \/ /\ Closes(s.cases[i], z.cases[i])
                                 /\ z.cases[i].status # "waiting",
           Named(s)
    PROVE  Onward(s, z)
<1>1. Withdrawn(s, z)
  <2> SUFFICES ASSUME NEW i \in CaseIds, z.cases[i].status = "waiting",
                      HasDeparted(z, z.cases[i].movement)
               PROVE  HasDeparted(s, z.cases[i].movement)
    BY DEF Withdrawn
  <2>1. z.cases[i] = s.cases[i] OBVIOUS
  <2>2. z.cases[i].movement \in Movements BY <2>1 DEF Named, IsOpen
  <2> QED BY <2>2
<1> QED BY <1>1 DEF Onward, Stands

\* Questions are settled and nothing else is written.
LEMMA SettleOnward ==
    ASSUME NEW s, SafeStore(s), NEW ids, NEW status \in Settled,
           \A i \in CaseIds : i \in ids => s.cases[i].status = "waiting"
    PROVE  Onward(s, Settle(s, ids, status))
<1> DEFINE z == Settle(s, ids, status)
<1>1. s \in StoreType /\ Named(s) BY DEF SafeStore, SafeBut
<1>2. /\ z.moves = s.moves
      /\ \A i \in CaseIds :
            z.cases[i] = IF i \in ids THEN [s.cases[i] EXCEPT !.status = status] ELSE s.cases[i]
  BY <1>1, SettleWrites
<1>3. \A i \in CaseIds : s.cases[i] \in CaseRow BY <1>1 DEF StoreType
<1>4. status # "waiting" BY DEF Settled
<1> HIDE DEF z
<1>5. \A i \in CaseIds : \/ z.cases[i] = s.cases[i]
                         \/ Closes(s.cases[i], z.cases[i]) /\ z.cases[i].status # "waiting"
  <2> SUFFICES ASSUME NEW i \in CaseIds, i \in ids
               PROVE  Closes(s.cases[i], z.cases[i]) /\ z.cases[i].status # "waiting"
    BY <1>2
  <2>1. z.cases[i].status = status BY <1>2, <1>3 DEF CaseRow
  <2> QED BY <1>4, <2>1 DEF Closes
<1>6. \A p \in Movements : /\ HasDeparted(z, p) <=> HasDeparted(s, p)
                           /\ HasArrived(s, p) => HasArrived(z, p)
  BY <1>2 DEF HasDeparted, HasArrived
<1>7. Onward(s, z) BY <1>1, <1>5, <1>6, QuietOnward
<1> QED BY <1>7 DEF z

LEMMA LapsedOnward == ASSUME NEW s, SafeStore(s) PROVE Onward(s, Lapsed(s))
<1> DEFINE ids == {i \in CaseIds : s.cases[i].status = "waiting" /\ s.cases[i].due}
<1>1. \A i \in CaseIds : i \in ids => s.cases[i].status = "waiting" OBVIOUS
<1>2. "expired" \in Settled BY DEF Settled
<1> HIDE DEF ids
<1>3. Onward(s, Settle(s, ids, "expired")) BY <1>1, <1>2, SettleOnward
<1> QED BY <1>3, OnwardReflexive DEF Lapsed, ExpireDue, ids

-----------------------------------------------------------------------------
(* Declarations and tracks *)

LEMMA RowOnward ==
    ASSUME NEW s, SafeStore(s), NEW m \in Movements, NEW row,
           row.departure = "departed" <=> HasDeparted(s, m),
           HasArrived(s, m) => row.arrival = "arrived"
    PROVE  Onward(s, [s EXCEPT !.moves[m] = row])
<1> DEFINE z == [s EXCEPT !.moves[m] = row]
<1>1. s \in StoreType /\ Named(s) BY DEF SafeStore, SafeBut
<1>2. /\ z.cases = s.cases
      /\ \A p \in Movements : z.moves[p] = IF p = m THEN row ELSE s.moves[p]
  BY <1>1 DEF StoreType
<1> HIDE DEF z
<1>3. \A p \in Movements : /\ HasDeparted(z, p) <=> HasDeparted(s, p)
                           /\ HasArrived(s, p) => HasArrived(z, p)
  BY <1>2 DEF HasDeparted, HasArrived
<1>4. Onward(s, z) BY <1>1, <1>2, <1>3, QuietOnward
<1> QED BY <1>4 DEF z

LEMMA SetPositionOnward ==
    ASSUME NEW s, SafeStore(s), NEW m \in Movements, CanSetPosition(s, m)
    PROVE  Onward(s, SetPosition(s, m))
<1> DEFINE row == [s.moves[m] EXCEPT !.departure = "positioned"]
<1>1. s.moves[m] \in MoveState BY DEF SafeStore, SafeBut, StoreType
<1>2. row.departure # "departed" /\ row.arrival = s.moves[m].arrival
  BY <1>1 DEF MoveState
<1>3. SetPosition(s, m) = [s EXCEPT !.moves[m] = row] BY DEF SetPosition
<1> HIDE DEF row
<1> QED BY <1>2, <1>3, RowOnward DEF CanSetPosition, HasArrived

LEMMA SetCrewOnward ==
    ASSUME NEW s, SafeStore(s), NEW m \in Movements, NEW ready \in BOOLEAN
    PROVE  Onward(s, SetCrew(s, m, ready))
<1> DEFINE row == [s.moves[m] EXCEPT !.crew = ready]
<1>1. s.moves[m] \in MoveState BY DEF SafeStore, SafeBut, StoreType
<1>2. row.departure = s.moves[m].departure /\ row.arrival = s.moves[m].arrival
  BY <1>1 DEF MoveState
<1>3. SetCrew(s, m, ready) = [s EXCEPT !.moves[m] = row] BY DEF SetCrew
<1> HIDE DEF row
<1> QED BY <1>2, <1>3, RowOnward DEF HasArrived, HasDeparted

LEMMA ApproachOnward ==
    ASSUME NEW s, SafeStore(s), NEW m \in Movements, CanApproach(s, m)
    PROVE  Onward(s, Approach(s, m))
<1> DEFINE row == [s.moves[m] EXCEPT !.arrival = "approaching"]
<1>1. s.moves[m] \in MoveState BY DEF SafeStore, SafeBut, StoreType
<1>2. row.departure = s.moves[m].departure
  BY <1>1 DEF MoveState
<1>3. Approach(s, m) = [s EXCEPT !.moves[m] = row] BY DEF Approach
<1> HIDE DEF row
<1> QED BY <1>2, <1>3, RowOnward DEF CanApproach, HasDeparted

LEMMA ChangeTrackOnward ==
    ASSUME NEW s, SafeStore(s), NEW m \in Movements, NEW t, CanChangeTrack(s, m, t)
    PROVE  Onward(s, ChangeTrack(s, m, t))
<1> DEFINE row == [s.moves[m] EXCEPT !.track = t]
           moved == [s EXCEPT !.moves[m] = row]
           ids == WaitingOf(s, {m})
<1>1. s \in StoreType /\ s.moves[m] \in MoveState /\ Named(s) BY DEF SafeStore, SafeBut, StoreType
<1>2. t \in Tracks BY TrackType DEF CanChangeTrack
<1>3. /\ row \in MoveState
      /\ row.departure = s.moves[m].departure
      /\ row.arrival = s.moves[m].arrival
  BY <1>1, <1>2 DEF MoveState
<1>4. ChangeTrack(s, m, t) = Settle(moved, ids, "invalidated_by_revision") BY DEF ChangeTrack
<1>5. moved.cases = s.cases BY <1>1 DEF StoreType
<1> HIDE DEF row
<1>6. SafeStore(moved) /\ Onward(s, moved) BY <1>3, RowSafe, RowOnward DEF HasDeparted, HasArrived
<1> HIDE DEF moved
<1>7. \A i \in CaseIds : i \in ids => moved.cases[i].status = "waiting"
  BY <1>5 DEF WaitingOf
<1> HIDE DEF ids
<1>8. "invalidated_by_revision" \in Settled BY DEF Settled
<1>9. Onward(moved, Settle(moved, ids, "invalidated_by_revision"))
  BY <1>6, <1>7, <1>8, SettleOnward
<1>10. Onward(s, Settle(moved, ids, "invalidated_by_revision"))
  BY <1>1, <1>6, <1>9, OnwardTransitive
<1> QED BY <1>4, <1>10

-----------------------------------------------------------------------------
(* Arrivals and departures *)

\* Bringing a route up to date closes the cases of those it passes and no other.
LEMMA CaughtUpWrites ==
    ASSUME NEW s, SafeStore(s), NEW m \in Movements
    PROVE  LET known == CaughtUp(s, m)
           IN  /\ \A i \in CaseIds : known.cases[i] = s.cases[i] \/ Closes(s.cases[i], known.cases[i])
               /\ Stands(s, known)
               /\ \A p \in Movements : ~HasDeparted(s, p) /\ HasDeparted(known, p) => p \in Upstream[m]
               /\ Withdrawn(s, known)
<1> DEFINE known == CaughtUp(s, m)
<1>1. CASE IsExpected(s, m)
  BY <1>1 DEF CaughtUp, Stands, Withdrawn
<1>2. CASE ~IsExpected(s, m)
  <2> DEFINE z == Advance(s, m)
             chain == Chain(s, m)
  <2>1. known = z BY <1>2 DEF CaughtUp
  <2>2. s \in StoreType /\ Named(s) BY DEF SafeStore, SafeBut
  <2>3. /\ \A i \in CaseIds :
            /\ z.cases[i].movement = s.cases[i].movement
            /\ \/ z.cases[i] = s.cases[i]
               \/ /\ IsOpen(s.cases[i])
                  /\ z.cases[i].status \in {"released", "invalidated_by_revision"}
                  /\ s.cases[i].status = "approved" => z.cases[i].status = "released"
            /\ s.cases[i].movement \in chain => ~IsOpen(z.cases[i])
        /\ \A p \in Movements :
            /\ HasDeparted(z, p) <=> HasDeparted(s, p) \/ p \in chain
            /\ HasArrived(s, p) => HasArrived(z, p)
    BY <2>2, AdvanceWrites
  <2>4. chain \subseteq Upstream[m] BY DEF Chain
  <2>5. {"released", "invalidated_by_revision"} \subseteq Settled BY DEF Settled
  <2> HIDE DEF known, z, chain
  <2>6. \A i \in CaseIds : z.cases[i] = s.cases[i] \/ Closes(s.cases[i], z.cases[i])
    BY <2>3, <2>5 DEF Closes, IsOpen
  <2>7. Withdrawn(s, z)
    <3> SUFFICES ASSUME NEW i \in CaseIds, z.cases[i].status = "waiting",
                        HasDeparted(z, z.cases[i].movement)
                 PROVE  HasDeparted(s, z.cases[i].movement)
      BY DEF Withdrawn
    <3>1. z.cases[i] = s.cases[i] BY <2>3
    <3>2. z.cases[i].movement \in Movements BY <2>2, <3>1 DEF Named, IsOpen
    <3> QED BY <2>3, <3>1, <3>2 DEF IsOpen
  <2>8. Stands(s, z) BY <2>3 DEF Stands
  <2> QED BY <2>1, <2>3, <2>4, <2>6, <2>7, <2>8 DEF known
<1> QED BY <1>1, <1>2

LEMMA ArriveOnward ==
    ASSUME NEW s, SafeStore(s), NEW m \in Movements, NEW t, CanArrive(s, m, t)
    PROVE  Onward(s, Arrive(s, m, t))
<1> DEFINE z == Arrive(s, m, t)
           known == CaughtUp(s, m)
<1>1. /\ \A i \in CaseIds : known.cases[i] = s.cases[i] \/ Closes(s.cases[i], known.cases[i])
      /\ Stands(s, known)
      /\ \A p \in Movements : ~HasDeparted(s, p) /\ HasDeparted(known, p) => p \in Upstream[m]
      /\ Withdrawn(s, known)
  BY CaughtUpWrites
<1>2. /\ \A i \in CaseIds :
            \/ z.cases[i] = known.cases[i]
            \/ known.cases[i].status = "approved" /\ z.cases[i].status = "released"
      /\ \A p \in Movements :
            /\ HasDeparted(z, p) <=> HasDeparted(known, p)
            /\ HasArrived(z, p) <=> HasArrived(known, p) \/ p = m
  BY ArriveWrites
<1>3. ~HasArrived(s, m) BY DEF CanArrive
<1>4. Named(s) BY DEF SafeStore, SafeBut
<1>5. "waiting" \notin Settled /\ "approved" \notin Settled BY DEF Settled
<1> HIDE DEF z, known
<1>6. \A i \in CaseIds : z.cases[i] = s.cases[i] \/ Closes(s.cases[i], z.cases[i])
  BY <1>1, <1>2, <1>5 DEF Closes
<1>7. Stands(s, z) BY <1>1, <1>2 DEF Stands
<1>8. ASSUME NEW p \in Movements, ~HasDeparted(s, p), HasDeparted(z, p) PROVE Left(s, z, p)
  <2>1. p \in Upstream[m] /\ HasArrived(z, m) BY <1>1, <1>2, <1>8
  <2> QED BY <1>3, <2>1 DEF Left
<1>9. Withdrawn(s, z)
  <2> SUFFICES ASSUME NEW i \in CaseIds, z.cases[i].status = "waiting",
                      HasDeparted(z, z.cases[i].movement)
               PROVE  HasDeparted(s, z.cases[i].movement)
    BY DEF Withdrawn
  <2>1. z.cases[i] = known.cases[i] BY <1>2
  <2>2. known.cases[i] = s.cases[i] BY <1>1, <1>5, <2>1 DEF Closes
  <2>3. z.cases[i].movement \in Movements BY <1>4, <2>1, <2>2 DEF Named, IsOpen
  <2> QED BY <1>1, <1>2, <2>1, <2>3 DEF Withdrawn
<1>10. Onward(s, z) BY <1>6, <1>7, <1>8, <1>9 DEF Onward
<1> QED BY <1>10 DEF z

LEMMA DepartOnward ==
    ASSUME NEW s, SafeStore(s), NEW m \in Movements, CanDepart(s, m)
    PROVE  Onward(s, Depart(s, m))
<1> DEFINE here == IF ArrivesFirst(s, m) THEN Arrive(s, m, None) ELSE s
           grant == GrantOf(s, m)
           spot == [at |-> "connection", movement |-> m, connection |-> s.cases[grant].connection]
           z == Depart(s, m)
<1>1. grant \in CaseIds /\ s.cases[grant].status = "approved" /\ s.cases[grant].movement = m
  BY DepartureGrant DEF SafeStore, SafeBut
<1>2. SafeStore(here) /\ Onward(s, here)
  BY ArriveSafe, ArriveOnward, OnwardReflexive DEF CanDepart
<1>3. NoClash(s) /\ Named(s) BY DEF SafeStore, SafeBut
<1>4. z = [here EXCEPT !.moves[m].departure = "departed", !.position[Number[m]] = spot]
  BY DEF Depart
<1> HIDE DEF here, grant, spot, z
<1>5. here \in StoreType BY <1>2 DEF SafeStore, SafeBut
<1>6. /\ z.cases = here.cases
      /\ \A p \in Movements :
            z.moves[p] = IF p = m THEN [here.moves[m] EXCEPT !.departure = "departed"]
                         ELSE here.moves[p]
  BY <1>4, <1>5 DEF StoreType
<1>7. \A p \in Movements : /\ HasDeparted(z, p) <=> HasDeparted(here, p) \/ p = m
                           /\ HasArrived(z, p) <=> HasArrived(here, p)
  <2> SUFFICES ASSUME NEW p \in Movements
               PROVE  /\ HasDeparted(z, p) <=> HasDeparted(here, p) \/ p = m
                      /\ HasArrived(z, p) <=> HasArrived(here, p)
    OBVIOUS
  <2>1. here.moves[p] \in MoveState BY <1>5 DEF StoreType
  <2> QED BY <2>1, <1>6 DEF MoveState, HasDeparted, HasArrived
<1>8. Stands(s, z) BY <1>2, <1>7 DEF Onward, Stands
<1>9. ASSUME NEW p \in Movements, ~HasDeparted(s, p), HasDeparted(z, p) PROVE Left(s, z, p)
  <2>1. CASE p = m BY <1>1, <2>1 DEF Left
  <2>2. CASE p # m
    <3>1. Left(s, here, p) BY <1>2, <1>7, <1>9, <2>2 DEF Onward
    <3> QED BY <1>7, <3>1 DEF Left
  <2> QED BY <2>1, <2>2
<1>10. Withdrawn(s, z)
  <2> SUFFICES ASSUME NEW i \in CaseIds, z.cases[i].status = "waiting",
                      HasDeparted(z, z.cases[i].movement)
               PROVE  HasDeparted(s, z.cases[i].movement)
    BY DEF Withdrawn
  <2>1. z.cases[i] = s.cases[i]
    <3>1. "waiting" \notin Settled BY DEF Settled
    <3> QED BY <1>2, <1>6, <3>1 DEF Onward, Closes
  <2>2. z.cases[i].movement \in Movements BY <1>3, <2>1 DEF Named, IsOpen
  <2>3. z.cases[i].movement # m
    <3>1. i # grant BY <1>1, <2>1
    <3> QED BY <1>1, <1>3, <2>1, <3>1 DEF NoClash, IsOpen
  <2>4. HasDeparted(here, here.cases[i].movement) BY <1>6, <1>7, <2>2, <2>3
  <2> QED BY <1>2, <1>6, <2>4 DEF Onward, Withdrawn
<1>11. Onward(s, z) BY <1>2, <1>6, <1>8, <1>9, <1>10 DEF Onward
<1> QED BY <1>11 DEF z

-----------------------------------------------------------------------------
(* The TKL form *)

LEMMA FormTrackOnward ==
    ASSUME NEW s, SafeStore(s), NEW m \in Movements, NEW t, AcceptsTrack(s, m, t)
    PROVE  Onward(s, FormTrack(s, m, t))
BY ChangeTrackOnward, OnwardReflexive DEF FormTrack, AcceptsTrack

LEMMA FormArrivalOnward ==
    ASSUME NEW s, SafeStore(s), NEW m \in Movements, NEW arrival, AcceptsArrival(s, m, arrival)
    PROVE  Onward(s, FormArrival(s, m, arrival))
<1>n. Named(s) BY DEF SafeStore, SafeBut
<1>1. CASE arrival \in {None, s.moves[m].arrival}
  BY <1>1, OnwardReflexive DEF FormArrival
<1>2. CASE arrival \notin {None, s.moves[m].arrival} /\ arrival = "approaching"
  <2>1. FormArrival(s, m, arrival) = Approach(s, m) BY <1>2 DEF FormArrival
  <2>2. CanApproach(s, m) BY <1>2 DEF AcceptsArrival
  <2> QED BY <2>1, <2>2, ApproachOnward
<1>3. CASE arrival \notin {None, s.moves[m].arrival} /\ arrival # "approaching"
  <2>1. FormArrival(s, m, arrival) = Arrive(Lapsed(s), m, None) BY <1>3 DEF FormArrival
  <2>2. CanArrive(Lapsed(s), m, None) BY <1>3 DEF AcceptsArrival
  <2>3. Onward(s, Lapsed(s)) BY LapsedOnward
  <2>4. Onward(Lapsed(s), Arrive(Lapsed(s), m, None)) BY <2>2, LapsedSafe, ArriveOnward
  <2> QED BY <1>n, <2>1, <2>3, <2>4, OnwardTransitive
<1> QED BY <1>1, <1>2, <1>3

LEMMA FormDepartureOnward ==
    ASSUME NEW s, SafeStore(s), NEW m \in Movements, NEW departure,
           AcceptsDeparture(s, m, departure)
    PROVE  Onward(s, FormDeparture(s, m, departure))
<1>n. Named(s) BY DEF SafeStore, SafeBut
<1>1. CASE departure \in {None, Shown(s, m)}
  BY <1>1, OnwardReflexive DEF FormDeparture
<1>2. CASE departure \notin {None, Shown(s, m)} /\ departure = "departed"
  <2>1. FormDeparture(s, m, departure) = Depart(Lapsed(s), m) BY <1>2 DEF FormDeparture
  <2>2. CanDepart(Lapsed(s), m) BY <1>2 DEF AcceptsDeparture
  <2>3. Onward(s, Lapsed(s)) BY LapsedOnward
  <2>4. Onward(Lapsed(s), Depart(Lapsed(s), m)) BY <2>2, LapsedSafe, DepartOnward
  <2> QED BY <1>n, <2>1, <2>3, <2>4, OnwardTransitive
<1>3. CASE departure \notin {None, Shown(s, m)} /\ departure # "departed"
  <2> DEFINE placed == SetPosition(s, m)
             ready == departure = "ready"
  <2>1. FormDeparture(s, m, departure) = SetCrew(placed, m, ready)
    BY <1>3 DEF FormDeparture
  <2>2. ready \in BOOLEAN OBVIOUS
  <2>3. CanSetPosition(s, m) BY <1>3 DEF AcceptsDeparture
  <2>4. SafeStore(placed) /\ Onward(s, placed) BY <2>3, SetPositionSafe, SetPositionOnward
  <2> HIDE DEF placed, ready
  <2>5. Onward(placed, SetCrew(placed, m, ready)) BY <2>2, <2>4, SetCrewOnward
  <2> QED BY <1>n, <2>1, <2>4, <2>5, OnwardTransitive
<1> QED BY <1>1, <1>2, <1>3

-----------------------------------------------------------------------------
(* The steps of the service *)

\* The receiving station says yes; wall time passes; the sender takes a grant
\* back that it has not used; somebody asks, or takes a free line.
Answered(was, is) == was.status = "waiting" /\ is = [was EXCEPT !.status = "approved"]
FallsDue(was, is) == was.status = "waiting" /\ is = [was EXCEPT !.due = TRUE]
TakenBack(s, was, is) ==
    was.status = "approved" /\ ~HasDeparted(s, was.movement) /\ is.status = "cancelled"
Asked(s, was, is) == was.status = "unused" /\ IsOpen(is) /\ ~HasDeparted(s, is.movement)

\* One case changes in a way that is not Onward; meanwhile questions may expire.
OneCase(s, z, i) ==
    /\ z.moves = s.moves
    /\ \A j \in CaseIds \ {i} :
         z.cases[j] = s.cases[j] \/ (s.cases[j].status = "waiting" /\ z.cases[j].status = "expired")
    /\ \/ Answered(s.cases[i], z.cases[i])
       \/ FallsDue(s.cases[i], z.cases[i])
       \/ TakenBack(s, s.cases[i], z.cases[i])
       \/ Asked(s, s.cases[i], z.cases[i])

Moves(s, z) == Onward(s, z) \/ \E i \in CaseIds : OneCase(s, z, i)

\* What expires before a command is looked at was a question.
LEMMA LapsedWrites ==
    ASSUME NEW s \in StoreType
    PROVE  /\ Lapsed(s) \in StoreType
           /\ Lapsed(s).moves = s.moves
           /\ \A j \in CaseIds :
                \/ Lapsed(s).cases[j] = s.cases[j]
                \/ s.cases[j].status = "waiting" /\ Lapsed(s).cases[j].status = "expired"
<1> DEFINE ids == {j \in CaseIds : s.cases[j].status = "waiting" /\ s.cases[j].due}
           z == Settle(s, ids, "expired")
<1>1. z.moves = s.moves
      /\ \A j \in CaseIds :
            z.cases[j] = IF j \in ids THEN [s.cases[j] EXCEPT !.status = "expired"] ELSE s.cases[j]
  BY SettleWrites
<1>2. \A j \in CaseIds : j \in ids => s.cases[j].status = "waiting" OBVIOUS
<1>3. \A j \in CaseIds : s.cases[j] \in CaseRow BY DEF StoreType
<1>4. Lapsed(s) = z \/ Lapsed(s) = s BY DEF Lapsed, ExpireDue
<1> HIDE DEF ids, z
<1>5. \A j \in CaseIds : \/ z.cases[j] = s.cases[j]
                         \/ s.cases[j].status = "waiting" /\ z.cases[j].status = "expired"
  BY <1>1, <1>2, <1>3 DEF CaseRow
<1> QED BY <1>1, <1>4, <1>5, LapsedType

\* One case is settled on top of what has expired.
LEMMA SettleOne ==
    ASSUME NEW s \in StoreType, NEW i \in CaseIds, NEW status,
           Lapsed(s).cases[i].status # "expired"
    PROVE  /\ Settle(Lapsed(s), {i}, status).moves = s.moves
           /\ Lapsed(s).cases[i] = s.cases[i]
           /\ Settle(Lapsed(s), {i}, status).cases[i] = [s.cases[i] EXCEPT !.status = status]
           /\ \A j \in CaseIds \ {i} :
                \/ Settle(Lapsed(s), {i}, status).cases[j] = s.cases[j]
                \/ /\ s.cases[j].status = "waiting"
                   /\ Settle(Lapsed(s), {i}, status).cases[j].status = "expired"
<1> DEFINE now == Lapsed(s)
           z == Settle(now, {i}, status)
<1>1. /\ now \in StoreType /\ now.moves = s.moves
      /\ \A j \in CaseIds : \/ now.cases[j] = s.cases[j]
                            \/ s.cases[j].status = "waiting" /\ now.cases[j].status = "expired"
  BY LapsedWrites
<1> HIDE DEF now
<1>2. /\ z.moves = now.moves
      /\ \A j \in CaseIds :
            z.cases[j] = IF j \in {i} THEN [now.cases[j] EXCEPT !.status = status] ELSE now.cases[j]
  BY <1>1, SettleWrites
<1> HIDE DEF z
<1>3. now.cases[i] = s.cases[i] BY <1>1 DEF now
<1> QED BY <1>1, <1>2, <1>3 DEF now, z

LEMMA CommitStore == ASSUME NEW s \in StoreType, Commit(s) PROVE Store' = s
BY DEF Commit, Store, StoreType

LEMMA StepMoves == ASSUME SafeState, [Next]_vars PROVE Moves(Store, Store')
<1> DEFINE s == Store
           z == Store'
<1>s. SafeStore(s) /\ s \in StoreType /\ Named(s) /\ TypeOK BY DEF SafeState, SafeStore, SafeBut
<1>n. SafeStore(Now) /\ Now \in StoreType /\ Onward(s, Now)
  BY <1>s, LapsedSafe, LapsedType, LapsedOnward DEF Now
<1>c. ASSUME NEW r, SafeStore(r), Commit(r) PROVE z = r
  BY <1>c, CommitStore DEF SafeStore, SafeBut
<1>o. ASSUME NEW r, SafeStore(r), Commit(r), Onward(s, r) \/ Onward(Now, r) PROVE Moves(s, z)
  <2>1. Onward(s, r) BY <1>s, <1>n, <1>o, OnwardTransitive
  <2> QED BY <1>c, <1>o, <2>1 DEF Moves
<1> HIDE DEF s, z
<1>1. ASSUME NEW m \in Movements, PositionSet(m) PROVE Moves(s, z)
  BY <1>s, <1>o, <1>1, SetPositionSafe, SetPositionOnward DEF PositionSet, s
<1>2. ASSUME NEW m \in Movements, NEW ready \in BOOLEAN, CrewReadySet(m, ready) PROVE Moves(s, z)
  BY <1>s, <1>o, <1>2, SetCrewSafe, SetCrewOnward DEF CrewReadySet, s
<1>3. ASSUME NEW m \in Movements, TrainApproaching(m) PROVE Moves(s, z)
  BY <1>s, <1>o, <1>3, ApproachSafe, ApproachOnward DEF TrainApproaching, s
<1>4. ASSUME NEW m \in Movements, NEW t, TrackChange(m, t) PROVE Moves(s, z)
  BY <1>s, <1>o, <1>4, ChangeTrackSafe, ChangeTrackOnward DEF TrackChange, s
<1>5. ASSUME NEW m \in Movements, NEW t, TrainArrived(m, t) PROVE Moves(s, z)
  <2>1. SafeStore(Arrive(Now, m, t)) /\ Onward(Now, Arrive(Now, m, t))
    BY <1>n, <1>5, ArriveSafe, ArriveOnward DEF TrainArrived
  <2> QED BY <1>o, <1>5, <2>1 DEF TrainArrived
<1>6. ASSUME NEW m \in Movements, TrainDeparted(m) PROVE Moves(s, z)
  BY <1>n, <1>o, <1>6, DepartSafe, DepartOnward DEF TrainDeparted
<1>7. ASSUME NEW i \in CaseIds, NEW m \in Movements, NEW c \in Connections,
             ClearanceRequest(i, m, c)
      PROVE  Moves(s, z)
  <2> PICK mode \in Modes : Commit(Request(Now, i, m, c, mode)) BY <1>7 DEF ClearanceRequest
  <2>1. s.cases[i].status = "unused" BY <1>7 DEF ClearanceRequest, Store, s
  <2>2. /\ Now.moves = s.moves
        /\ \A j \in CaseIds : \/ Now.cases[j] = s.cases[j]
                              \/ s.cases[j].status = "waiting" /\ Now.cases[j].status = "expired"
    BY <1>s, LapsedWrites DEF Now, s
  <2>3. Now.cases[i].status = "unused" /\ CanRequest(Now, m, c)
    BY <1>7, <2>1, <2>2 DEF ClearanceRequest
  <2> DEFINE r == Request(Now, i, m, c, mode)
             row == [status |-> IF mode = "direct" THEN "approved" ELSE "waiting",
                     movement |-> m, connection |-> c,
                     track |-> Now.moves[m].track, due |-> FALSE]
  <2>4. SafeStore(r) /\ z = r BY <1>n, <1>c, <2>3, RequestSafe
  <2>5. r = [Now EXCEPT !.cases[i] = row] BY DEF Request
  <2>6. row.status \in {"waiting", "approved"} /\ row.movement = m OBVIOUS
  <2> HIDE DEF r, row
  <2>7. r.moves = Now.moves /\ \A j \in CaseIds : r.cases[j] = IF j = i THEN row ELSE Now.cases[j]
    BY <1>n, <2>5 DEF StoreType
  <2>8. ~HasDeparted(s, m) BY <2>2, <2>3 DEF CanRequest, HasDeparted
  <2>9. Asked(s, s.cases[i], r.cases[i]) BY <2>1, <2>6, <2>7, <2>8 DEF Asked, IsOpen
  <2>10. OneCase(s, r, i) BY <2>2, <2>7, <2>9 DEF OneCase
  <2> QED BY <2>4, <2>10 DEF Moves
<1>8. ASSUME NEW i \in CaseIds, NEW approved \in BOOLEAN, ClearanceResponse(i, approved)
      PROVE  Moves(s, z)
  <2>1. Now.cases[i].status = "waiting" /\ \A j \in CaseIds : j \in {i} => IsOpen(Now.cases[j])
    BY <1>8 DEF ClearanceResponse, IsOpen
  <2>2. CASE approved
    <3> DEFINE r == Settle(Now, {i}, "approved")
    <3>1. SafeStore(r) BY <1>n, <2>1, SettleSafe DEF IsOpen
    <3>2. z = r BY <1>8, <1>c, <2>2, <3>1 DEF ClearanceResponse
    <3>3. OneCase(s, r, i)
      BY <1>s, <2>1, SettleOne DEF Now, s, OneCase, Answered
    <3> QED BY <3>2, <3>3 DEF Moves
  <2>3. CASE ~approved
    <3> DEFINE r == Settle(Now, {i}, "rejected")
    <3>1. "rejected" \in Settled BY DEF Settled
    <3>2. SafeStore(r) BY <1>n, <2>1, <3>1, SettleSafe
    <3>3. Onward(Now, r) BY <1>n, <2>1, <3>1, SettleOnward
    <3>4. Commit(r) BY <1>8, <2>3 DEF ClearanceResponse
    <3> QED BY <1>o, <3>2, <3>3, <3>4
  <2> QED BY <2>2, <2>3
<1>9. ASSUME NEW i \in CaseIds, ClearanceCancel(i) PROVE Moves(s, z)
  <2> DEFINE r == Settle(Now, {i}, "cancelled")
  <2>1. \/ Now.cases[i].status = "waiting"
        \/ Now.cases[i].status = "approved" /\ ~HasDeparted(Now, Now.cases[i].movement)
    BY <1>9 DEF ClearanceCancel
  <2>2. "cancelled" \in Settled BY DEF Settled
  <2>3. SafeStore(r) BY <1>n, <2>1, <2>2, SettleSafe DEF IsOpen
  <2>4. Commit(r) BY <1>9 DEF ClearanceCancel
  <2>5. CASE Now.cases[i].status = "waiting"
    <3>1. Onward(Now, r) BY <1>n, <2>2, <2>5, SettleOnward
    <3> QED BY <1>o, <2>3, <2>4, <3>1
  <2>6. CASE Now.cases[i].status = "approved" /\ ~HasDeparted(Now, Now.cases[i].movement)
    <3>1. z = r BY <1>c, <2>3, <2>4
    <3>2. /\ r.moves = s.moves
          /\ Now.cases[i] = s.cases[i]
          /\ r.cases[i] = [s.cases[i] EXCEPT !.status = "cancelled"]
          /\ \A j \in CaseIds \ {i} :
               r.cases[j] = s.cases[j] \/ (s.cases[j].status = "waiting" /\ r.cases[j].status = "expired")
      <4>1. Now = Lapsed(s) BY DEF Now, s
      <4>2. Lapsed(s).cases[i].status # "expired" BY <2>6, <4>1
      <4>3. \A status :
              /\ Settle(Lapsed(s), {i}, status).moves = s.moves
              /\ Lapsed(s).cases[i] = s.cases[i]
              /\ Settle(Lapsed(s), {i}, status).cases[i] = [s.cases[i] EXCEPT !.status = status]
              /\ \A j \in CaseIds \ {i} :
                   \/ Settle(Lapsed(s), {i}, status).cases[j] = s.cases[j]
                   \/ /\ s.cases[j].status = "waiting"
                      /\ Settle(Lapsed(s), {i}, status).cases[j].status = "expired"
        BY <1>s, <4>2, SettleOne
      <4> QED BY <4>1, <4>3
    <3>3. Now.moves = s.moves BY <1>s, LapsedWrites DEF Now, s
    <3>4. s.cases[i] \in CaseRow BY <1>s DEF StoreType
    <3> HIDE DEF r
    <3>5. r.cases[i].status = "cancelled" BY <3>2, <3>4 DEF CaseRow
    <3>6. OneCase(s, r, i)
      BY <2>6, <3>2, <3>3, <3>5 DEF OneCase, TakenBack, HasDeparted
    <3> QED BY <3>1, <3>6 DEF Moves
  <2> QED BY <2>1, <2>5, <2>6
<1>10. ASSUME NEW m \in Movements, NEW t, NEW arrival, NEW departure,
              TKLForm(m, t, arrival, departure)
       PROVE  Moves(s, z)
  <2> DEFINE tracked == FormTrack(s, m, t)
             received == FormArrival(tracked, m, arrival)
             sent == FormDeparture(received, m, departure)
  <2>1. SafeStore(tracked) /\ Onward(s, tracked)
    BY <1>s, <1>10, FormTrackSafe, FormTrackOnward DEF TKLForm, s
  <2>2. SafeStore(received) /\ Onward(tracked, received)
    BY <2>1, <1>10, FormArrivalSafe, FormArrivalOnward DEF TKLForm, s
  <2>3. SafeStore(sent) /\ Onward(received, sent)
    BY <2>2, <1>10, FormDepartureSafe, FormDepartureOnward DEF TKLForm, s
  <2>4. Commit(sent) BY <1>10 DEF TKLForm, s
  <2>5. Named(tracked) BY <2>1 DEF SafeStore, SafeBut
  <2> HIDE DEF tracked, received, sent
  <2>6. Onward(tracked, sent) BY <2>2, <2>3, <2>5, OnwardTransitive
  <2>7. Onward(s, sent) BY <1>s, <2>1, <2>6, OnwardTransitive
  <2> QED BY <1>o, <2>3, <2>4, <2>7
<1>11. ASSUME ReadOpenCases PROVE Moves(s, z)
  <2>1. Commit(Now) BY <1>11 DEF ReadOpenCases, Now, Lapsed
  <2> QED BY <1>n, <1>o, <2>1
<1>12. ASSUME NEW i \in CaseIds, TimeToLiveRunsOut(i) PROVE Moves(s, z)
  <2>0. cases \in [CaseIds -> CaseRow] /\ cases' = [cases EXCEPT ![i].due = TRUE] /\ moves' = moves
        /\ cases[i].status = "waiting" /\ s.moves = moves /\ s.cases = cases /\ z.moves = moves' /\ z.cases = cases'
    BY <1>s, <1>12 DEF TimeToLiveRunsOut, TypeOK, Store, s, z
  <2>1. /\ z.moves = s.moves
        /\ \A j \in CaseIds : z.cases[j] = IF j = i THEN [s.cases[i] EXCEPT !.due = TRUE] ELSE s.cases[j]
        /\ s.cases[i].status = "waiting"
    BY <2>0
  <2> QED BY <2>1 DEF Moves, OneCase, FallsDue
<1>13. ASSUME StartClock \/ StopClock \/ UNCHANGED vars PROVE Moves(s, z)
  <2>1. z = s BY <1>13 DEF StartClock, StopClock, vars, Store, s, z
  <2> QED BY <2>1, OnwardReflexive DEF Moves
<1>14. Moves(s, z)
  BY <1>1, <1>2, <1>3, <1>4, <1>5, <1>6, <1>7, <1>8, <1>9, <1>10, <1>11, <1>12, <1>13
  DEF Next, Declaration, Running, Clearing, Forms, Clock
<1> QED BY <1>14 DEF s, z

-----------------------------------------------------------------------------
(* What no command does *)

LEMMA SafeSteps == Spec => [][SafeState /\ SafeState' /\ Moves(Store, Store')]_vars
<1>1. SafeState /\ [Next]_vars => [SafeState /\ SafeState' /\ Moves(Store, Store')]_vars
  BY StepSafe, StepMoves
<1> QED BY <1>1, AlwaysSafe, PTL DEF Spec

\* A settled case stays what it is, and a report about a train stands, whichever
\* command comes late or twice, and however much of a route an arrival finishes.
THEOREM ReportsAndSettlementsStand == Spec => NothingIsTakenBack
<1> DEFINE A == /\ \A i \in CaseIds : cases[i].status \in Settled => cases'[i] = cases[i]
                /\ \A m \in Movements : /\ HasDeparted(Store, m) => moves'[m].departure = "departed"
                                        /\ HasArrived(Store, m) => moves'[m].arrival = "arrived"
<1>0. "waiting" \notin Settled /\ "approved" \notin Settled /\ "unused" \notin Settled BY DEF Settled
<1>1. ASSUME Moves(Store, Store') PROVE A
  <2>1. Store.cases = cases /\ Store'.cases = cases' /\ Store.moves = moves /\ Store'.moves = moves'
    BY DEF Store
  <2>2. CASE Onward(Store, Store')
    <3>1. \A i \in CaseIds : cases[i].status \in Settled => cases'[i] = cases[i]
      BY <1>0, <2>1, <2>2 DEF Onward, Closes
    <3>2. Stands(Store, Store') BY <2>2 DEF Onward
    <3> QED BY <2>1, <3>1, <3>2 DEF Stands, HasDeparted, HasArrived
  <2>3. CASE \E i \in CaseIds : OneCase(Store, Store', i)
    <3> PICK i \in CaseIds : OneCase(Store, Store', i) BY <2>3
    <3>1. cases[i].status \notin Settled
      BY <1>0, <2>1 DEF OneCase, Answered, FallsDue, TakenBack, Asked
    <3>2. moves' = moves /\ \A j \in CaseIds \ {i} : cases'[j] = cases[j] \/ cases[j].status = "waiting"
      BY <2>1 DEF OneCase
    <3> QED BY <1>0, <2>1, <3>1, <3>2 DEF HasDeparted, HasArrived
  <2> QED BY <1>1, <2>2, <2>3 DEF Moves
<1>2. [SafeState /\ SafeState' /\ Moves(Store, Store')]_vars => [A]_vars BY <1>1
<1>3. Spec => [][A]_vars BY <1>2, SafeSteps, PTL
<1> QED BY <1>3 DEF NothingIsTakenBack

\* A grant ends when the train it was given to is in, or when its sender takes it
\* back before the departure: no lapse, no later question and no other train's
\* report ends it.
THEOREM GrantsAreKeptUntilUsed == Spec => GrantIsKeptUntilUsed
<1> DEFINE A == \A i \in CaseIds :
                  cases[i].status = "approved" /\ cases'[i] # cases[i] =>
                      \/ cases'[i].status = "released"
                      \/ cases'[i].status = "cancelled" /\ ~HasDeparted(Store, cases[i].movement)
<1>1. ASSUME Moves(Store, Store') PROVE A
  <2>1. Store.cases = cases /\ Store'.cases = cases' BY DEF Store
  <2>2. CASE Onward(Store, Store') BY <2>1, <2>2 DEF Onward, Closes
  <2>3. CASE \E i \in CaseIds : OneCase(Store, Store', i)
    <3> PICK i \in CaseIds : OneCase(Store, Store', i) BY <2>3
    <3>1. \A j \in CaseIds \ {i} : cases'[j] = cases[j] \/ cases[j].status = "waiting"
      BY <2>1 DEF OneCase
    <3>2. cases[i].status = "approved" => cases'[i].status = "cancelled" /\ ~HasDeparted(Store, cases[i].movement)
      BY <2>1 DEF OneCase, Answered, FallsDue, TakenBack, Asked
    <3> QED BY <3>1, <3>2
  <2> QED BY <1>1, <2>2, <2>3 DEF Moves
<1>2. [SafeState /\ SafeState' /\ Moves(Store, Store')]_vars => [A]_vars BY <1>1
<1>3. Spec => [][A]_vars BY <1>2, SafeSteps, PTL
<1> QED BY <1>3 DEF GrantIsKeptUntilUsed

\* No train is recorded as departed without a grant, but one whose arrival
\* further on is reported in the same command.
THEOREM DeparturesAreGranted == Spec => DepartureIsGranted
<1> DEFINE A == \A m \in Movements :
                  ~HasDeparted(Store, m) /\ moves'[m].departure = "departed" =>
                      \/ \E i \in CaseIds : cases[i].status = "approved" /\ cases[i].movement = m
                      \/ \E q \in Movements : /\ m \in Upstream[q]
                                              /\ ~HasArrived(Store, q)
                                              /\ moves'[q].arrival = "arrived"
<1>1. ASSUME Moves(Store, Store') PROVE A
  <2>1. Store.cases = cases /\ Store.moves = moves /\ Store'.moves = moves' BY DEF Store
  <2>2. CASE Onward(Store, Store')
    <3>1. \A p \in Movements : ~HasDeparted(Store, p) /\ HasDeparted(Store', p) => Left(Store, Store', p)
      BY <2>2 DEF Onward
    <3>2. \A p \in Movements : /\ HasDeparted(Store', p) <=> moves'[p].departure = "departed"
                               /\ HasArrived(Store', p) <=> moves'[p].arrival = "arrived"
      BY <2>1 DEF HasDeparted, HasArrived
    <3> QED BY <2>1, <3>1, <3>2 DEF Left
  <2>3. CASE \E i \in CaseIds : OneCase(Store, Store', i)
    BY <2>1, <2>3 DEF OneCase, HasDeparted
  <2> QED BY <1>1, <2>2, <2>3 DEF Moves
<1>2. [SafeState /\ SafeState' /\ Moves(Store, Store')]_vars => [A]_vars BY <1>1
<1>3. Spec => [][A]_vars BY <1>2, SafeSteps, PTL
<1> QED BY <1>3 DEF DepartureIsGranted

-----------------------------------------------------------------------------
(* The refinement *)

\* A train that has left is not asked about any more.
AskedInTime(s) ==
    \A i \in CaseIds : s.cases[i].status = "waiting" => ~HasDeparted(s, s.cases[i].movement)

LEMMA AskedInTimeKept ==
    ASSUME NEW s, NEW z, SafeStore(s), AskedInTime(s), Moves(s, z)
    PROVE  AskedInTime(z)
<1>0. "waiting" \notin Settled BY DEF Settled
<1>1. CASE Onward(s, z)
  <2>1. \A i \in CaseIds : z.cases[i].status = "waiting" => z.cases[i] = s.cases[i]
    BY <1>0, <1>1 DEF Onward, Closes
  <2> QED BY <1>1, <2>1 DEF Onward, Withdrawn, AskedInTime
<1>2. ASSUME NEW i \in CaseIds, OneCase(s, z, i) PROVE AskedInTime(z)
  <2>1. s.cases[i] \in CaseRow BY DEF SafeStore, SafeBut, StoreType
  <2>2. z.moves = s.moves /\ \A j \in CaseIds \ {i} : z.cases[j].status = "waiting" => z.cases[j] = s.cases[j]
    BY <1>2 DEF OneCase
  <2>3. z.cases[i].status = "waiting" => ~HasDeparted(s, z.cases[i].movement)
    <3>1. CASE Answered(s.cases[i], z.cases[i]) BY <2>1, <3>1 DEF Answered, CaseRow
    <3>2. CASE FallsDue(s.cases[i], z.cases[i])
      <4>1. z.cases[i].movement = s.cases[i].movement BY <2>1, <3>2 DEF FallsDue, CaseRow
      <4> QED BY <3>2, <4>1 DEF FallsDue, AskedInTime
    <3>3. CASE TakenBack(s, s.cases[i], z.cases[i]) BY <3>3 DEF TakenBack
    <3>4. CASE Asked(s, s.cases[i], z.cases[i]) BY <3>4 DEF Asked
    <3> QED BY <1>2, <3>1, <3>2, <3>3, <3>4 DEF OneCase
  <2> QED BY <2>2, <2>3 DEF AskedInTime, HasDeparted
<1> QED BY <1>1, <1>2 DEF Moves

InTime == SafeState /\ AskedInTime(Store)

LEMMA InTimeStep == ASSUME InTime, [Next]_vars PROVE InTime'
<1>1. SafeState' BY StepSafe DEF InTime
<1>2. Moves(Store, Store') BY StepMoves DEF InTime
<1>3. SafeStore(Store) BY DEF InTime, SafeState
<1>4. AskedInTime(Store') BY <1>2, <1>3, AskedInTimeKept DEF InTime
<1>5. AskedInTime(Store)' <=> AskedInTime(Store') BY DEF AskedInTime, HasDeparted
<1> QED BY <1>1, <1>4, <1>5 DEF InTime

\* What is seen of the line ch in the store s.
Holders(s, ch) == {i \in CaseIds : IsOpen(s.cases[i]) /\ ChannelOf(s.cases[i]) = ch}

Seen(s, case) ==
    [holder |-> case.movement,
     state |-> IF case.status = "waiting" THEN "asked"
               ELSE IF HasDeparted(s, case.movement) THEN "occupied" ELSE "granted"]

ViewOf(s) == [ch \in Channels |->
    IF Holders(s, ch) = {} THEN None ELSE Seen(s, s.cases[CHOOSE i \in Holders(s, ch) : TRUE])]

LEMMA ViewsOfStores == LineView = ViewOf(Store) /\ LineView' = ViewOf(Store')
<1>1. LineView = ViewOf(Store)
  BY DEF LineView, ViewOf, Holding, Holders, ClaimOf, Seen, Store
<1>2. LineView' = ViewOf(Store')
  BY DEF LineView, ViewOf, Holding, Holders, ClaimOf, Seen, Store, HasDeparted
<1> QED BY <1>1, <1>2

\* A line is held by the one open case about it.
LEMMA ViewOfLine ==
    ASSUME NEW s, NoClash(s), NEW ch \in Channels
    PROVE  /\ Holders(s, ch) = {} => ViewOf(s)[ch] = None
           /\ \A i \in Holders(s, ch) : ViewOf(s)[ch] = Seen(s, s.cases[i])
<1>1. Holders(s, ch) = {} => ViewOf(s)[ch] = None BY DEF ViewOf
<1>2. ASSUME NEW i \in Holders(s, ch) PROVE ViewOf(s)[ch] = Seen(s, s.cases[i])
  <2>1. \A j \in Holders(s, ch) : j = i BY <1>2 DEF Holders, NoClash
  <2>2. (CHOOSE j \in Holders(s, ch) : TRUE) = i BY <1>2, <2>1
  <2> QED BY <1>2, <2>2 DEF ViewOf
<1> QED BY <1>1, <1>2

LEMMA SeenIsClaim ==
    ASSUME NEW s, SafeStore(s), NEW i \in CaseIds, IsOpen(s.cases[i])
    PROVE  /\ Seen(s, s.cases[i]) \in Blocks!Claim
           /\ Seen(s, s.cases[i]) # None
           /\ Seen(s, s.cases[i]).holder = s.cases[i].movement
           /\ Seen(s, s.cases[i]).state =
                IF s.cases[i].status = "waiting" THEN "asked"
                ELSE IF HasDeparted(s, s.cases[i].movement) THEN "occupied" ELSE "granted"
<1>1. s.cases[i].movement \in Movements BY DEF SafeStore, SafeBut, Named
<1>2. Seen(s, s.cases[i]) \in Blocks!Claim BY <1>1 DEF Seen, Blocks!Claim
<1>3. Seen(s, s.cases[i]) # None BY <1>2, ClaimAssumption
<1> QED BY <1>2, <1>3 DEF Seen

\* Two claims of one train differ only in how firm they are.
LEMMA ClaimFields ==
    ASSUME NEW was \in Blocks!Claim, NEW is \in Blocks!Claim, was.holder = is.holder
    PROVE  /\ was.state = is.state => was = is
           /\ is = [was EXCEPT !.state = is.state]
BY DEF Blocks!Claim

\* An open case is new, or it was open about the same train before.
LEMMA OpenBefore ==
    ASSUME NEW s, NEW z, SafeStore(s), Moves(s, z), NEW i \in CaseIds, IsOpen(z.cases[i])
    PROVE  \/ Asked(s, s.cases[i], z.cases[i]) /\ OneCase(s, z, i)
           \/ /\ IsOpen(s.cases[i])
              /\ z.cases[i].movement = s.cases[i].movement
              /\ ChannelOf(z.cases[i]) = ChannelOf(s.cases[i])
              /\ \/ z.cases[i].status = s.cases[i].status
                 \/ /\ s.cases[i].status = "waiting" /\ z.cases[i].status = "approved"
                    /\ z.moves = s.moves
<1>0. \A status \in Settled : status # "waiting" /\ status # "approved" BY DEF Settled
<1>1. s.cases[i] \in CaseRow BY DEF SafeStore, SafeBut, StoreType
<1>2. CASE Onward(s, z)
  <2>1. z.cases[i] = s.cases[i] BY <1>0, <1>2 DEF Onward, Closes, IsOpen, Settled
  <2> QED BY <2>1
<1>3. ASSUME NEW j \in CaseIds, OneCase(s, z, j), j # i PROVE z.cases[i] = s.cases[i]
  BY <1>3 DEF OneCase, IsOpen
<1>4. CASE OneCase(s, z, i)
  <2>1. CASE Answered(s.cases[i], z.cases[i])
    <3>1. /\ z.cases[i].movement = s.cases[i].movement /\ z.cases[i].connection = s.cases[i].connection
          /\ s.cases[i].status = "waiting" /\ z.cases[i].status = "approved"
      BY <1>1, <2>1 DEF Answered, CaseRow
    <3> QED BY <1>4, <3>1 DEF ChannelOf, IsOpen, OneCase
  <2>2. CASE FallsDue(s.cases[i], z.cases[i])
    <3>1. /\ z.cases[i].movement = s.cases[i].movement /\ z.cases[i].connection = s.cases[i].connection
          /\ s.cases[i].status = "waiting" /\ z.cases[i].status = "waiting"
      BY <1>1, <2>2 DEF FallsDue, CaseRow
    <3> QED BY <3>1 DEF ChannelOf, IsOpen
  <2>3. CASE TakenBack(s, s.cases[i], z.cases[i]) BY <2>3 DEF TakenBack, IsOpen
  <2>4. CASE Asked(s, s.cases[i], z.cases[i]) BY <1>4, <2>4
  <2> QED BY <1>4, <2>1, <2>2, <2>3, <2>4 DEF OneCase
<1> QED BY <1>2, <1>3, <1>4 DEF Moves

\* What happens to one line is a step of the block promises.
LEMMA LineStep ==
    ASSUME NEW s, NEW z, SafeStore(s), SafeStore(z), AskedInTime(s), Moves(s, z),
           NEW l \in Channels, ViewOf(z)[l] # ViewOf(s)[l]
    PROVE  LET was == ViewOf(s)[l]
               is == ViewOf(z)[l]
           IN  \/ /\ Blocks!Ask(was, is)
                  /\ \A k \in Channels \ {l} : ViewOf(z)[k] = None \/ ViewOf(z)[k].holder # is.holder
               \/ Blocks!Grant(was, is)
               \/ Blocks!Enter(was, is)
               \/ Blocks!Clear(was, is)
<1> DEFINE was == ViewOf(s)[l]
           is == ViewOf(z)[l]
<1>s. NoClash(s) /\ NoClash(z) BY DEF SafeStore, SafeBut
<1>1. CASE Holders(z, l) = {}
  <2>1. is = None BY <1>s, <1>1, ViewOfLine
  <2> QED BY <2>1 DEF Blocks!Clear
<1>2. ASSUME NEW i \in Holders(z, l)
      PROVE  \/ /\ Blocks!Ask(was, is)
                /\ \A k \in Channels \ {l} : ViewOf(z)[k] = None \/ ViewOf(z)[k].holder # is.holder
             \/ Blocks!Grant(was, is)
             \/ Blocks!Enter(was, is)
  <2>1. i \in CaseIds /\ IsOpen(z.cases[i]) /\ ChannelOf(z.cases[i]) = l BY DEF Holders
  <2>2. is = Seen(z, z.cases[i]) BY <1>s, ViewOfLine
  <2>3. /\ is \in Blocks!Claim /\ is # None /\ is.holder = z.cases[i].movement
        /\ is.state = IF z.cases[i].status = "waiting" THEN "asked"
                      ELSE IF HasDeparted(z, z.cases[i].movement) THEN "occupied" ELSE "granted"
    BY <2>1, <2>2, SeenIsClaim
  <2>m. z.cases[i].movement \in Movements BY <2>1 DEF SafeStore, SafeBut, Named
  <2>4. CASE /\ IsOpen(s.cases[i])
             /\ z.cases[i].movement = s.cases[i].movement
             /\ ChannelOf(z.cases[i]) = ChannelOf(s.cases[i])
             /\ \/ z.cases[i].status = s.cases[i].status
                \/ /\ s.cases[i].status = "waiting" /\ z.cases[i].status = "approved"
                   /\ z.moves = s.moves
    <3>1. i \in Holders(s, l) BY <2>1, <2>4 DEF Holders
    <3>2. was = Seen(s, s.cases[i]) BY <1>s, <3>1, ViewOfLine
    <3>3. /\ was \in Blocks!Claim /\ was # None /\ was.holder = s.cases[i].movement
          /\ was.state = IF s.cases[i].status = "waiting" THEN "asked"
                         ELSE IF HasDeparted(s, s.cases[i].movement) THEN "occupied" ELSE "granted"
      BY <2>1, <2>4, <3>2, SeenIsClaim
    <3> HIDE DEF was, is
    <3>4. was.holder = is.holder BY <2>3, <2>4, <3>3
    <3>5. was # is BY DEF was, is
    <3>6. was.state # is.state /\ is = [was EXCEPT !.state = is.state]
      BY <2>3, <3>3, <3>4, <3>5, ClaimFields
    <3>7. HasDeparted(s, s.cases[i].movement) => HasDeparted(z, z.cases[i].movement)
      BY <2>4, <2>m DEF Moves, Onward, Stands, OneCase, HasDeparted
    <3>8. \/ was.state = "asked" /\ is.state = "granted"
          \/ was.state = "granted" /\ is.state = "occupied"
      <4>1. CASE z.cases[i].status = s.cases[i].status
        BY <2>3, <3>3, <3>6, <3>7, <4>1
      <4>2. CASE s.cases[i].status = "waiting" /\ z.cases[i].status = "approved" /\ z.moves = s.moves
        <5>1. ~HasDeparted(z, z.cases[i].movement)
          BY <2>1, <2>4, <4>2 DEF AskedInTime, HasDeparted
        <5> QED BY <2>3, <3>3, <4>2, <5>1
      <4> QED BY <2>4, <4>1, <4>2
    <3>9. CASE was.state = "asked" /\ is.state = "granted"
      BY <3>3, <3>6, <3>9 DEF Blocks!Grant
    <3>10. CASE was.state = "granted" /\ is.state = "occupied"
      BY <3>3, <3>6, <3>10 DEF Blocks!Enter
    <3> QED BY <3>8, <3>9, <3>10
  <2>5. CASE Asked(s, s.cases[i], z.cases[i]) /\ OneCase(s, z, i)
    <3>1. is.state \in {"asked", "granted"}
      BY <2>3, <2>5 DEF Asked, OneCase, HasDeparted
    <3>2. was = None \/ was.state = "asked"
      <4>1. CASE Holders(s, l) = {} BY <1>s, <4>1, ViewOfLine
      <4>2. ASSUME NEW j \in Holders(s, l) PROVE was.state = "asked"
        <5>1. j \in CaseIds /\ IsOpen(s.cases[j]) /\ ChannelOf(s.cases[j]) = l BY DEF Holders
        <5>2. j # i BY <2>5, <5>1 DEF Asked, IsOpen
        <5>3. s.cases[j].status = "waiting"
          <6>1. z.cases[j] # s.cases[j] BY <1>s, <2>1, <5>1, <5>2 DEF NoClash
          <6> QED BY <2>5, <5>1, <5>2, <6>1 DEF OneCase
        <5>4. was = Seen(s, s.cases[j]) BY <1>s, <4>2, ViewOfLine
        <5> QED BY <5>1, <5>3, <5>4, SeenIsClaim
      <4> QED BY <4>1, <4>2
    <3>3. ASSUME NEW k \in Channels \ {l} PROVE ViewOf(z)[k] = None \/ ViewOf(z)[k].holder # is.holder
      <4>1. CASE Holders(z, k) = {} BY <1>s, <4>1, ViewOfLine
      <4>2. ASSUME NEW j \in Holders(z, k) PROVE ViewOf(z)[k].holder # is.holder
        <5>1. j \in CaseIds /\ IsOpen(z.cases[j]) /\ ChannelOf(z.cases[j]) = k BY DEF Holders
        <5>2. ViewOf(z)[k].holder = z.cases[j].movement
          <6>1. ViewOf(z)[k] = Seen(z, z.cases[j]) BY <1>s, <4>2, ViewOfLine
          <6> QED BY <5>1, <6>1, SeenIsClaim
        <5>3. j # i BY <2>1, <5>1
        <5> QED BY <1>s, <2>1, <2>3, <5>1, <5>2, <5>3 DEF NoClash
      <4> QED BY <4>1, <4>2
    <3> HIDE DEF was, is
    <3>4. Blocks!Ask(was, is) BY <2>3, <3>1, <3>2 DEF Blocks!Ask
    <3> QED BY <3>3, <3>4
  <2> QED BY <2>1, <2>4, <2>5, OpenBefore
<1> QED BY <1>1, <1>2

LEMMA ViewsAreLines ==
    ASSUME NEW s, SafeStore(s)
    PROVE  ViewOf(s) \in [Channels -> Blocks!Claim \cup {None}]
<1> SUFFICES ASSUME NEW ch \in Channels PROVE ViewOf(s)[ch] \in Blocks!Claim \cup {None}
  BY DEF ViewOf
<1>s. NoClash(s) BY DEF SafeStore, SafeBut
<1>1. CASE Holders(s, ch) = {} BY <1>s, <1>1, ViewOfLine
<1>2. ASSUME NEW i \in Holders(s, ch) PROVE ViewOf(s)[ch] \in Blocks!Claim
  <2>1. ViewOf(s)[ch] = Seen(s, s.cases[i]) BY <1>s, ViewOfLine
  <2>2. i \in CaseIds /\ IsOpen(s.cases[i]) BY DEF Holders
  <2> QED BY <2>1, <2>2, SeenIsClaim
<1> QED BY <1>1, <1>2

\* Every command of the service, the composed ones too, is a step of the block
\* promises on each line: nobody gets a granted or occupied line before it has
\* been free, and nobody comes to hold a second one.
THEOREM CasesAreBlocks == Spec => ImplementsLineBlocks
<1>1. Init => Blocks!Init
  <2> SUFFICES ASSUME Init PROVE LineView = [l \in Channels |-> None]
    BY DEF Blocks!Init
  <2>1. \A i \in CaseIds : ~IsOpen(cases[i]) BY DEF Init, IsOpen
  <2>2. \A ch \in Channels : Holding(ch) = {} BY <2>1 DEF Holding
  <2> QED BY <2>2 DEF LineView
<1>2. InTime /\ [Next]_vars => [Blocks!Next]_LineView
  <2> SUFFICES ASSUME InTime, [Next]_vars PROVE Blocks!Next
    OBVIOUS
  <2> DEFINE s == Store
             z == Store'
  <2>1. SafeStore(s) /\ AskedInTime(s) /\ Moves(s, z) BY StepMoves DEF InTime, SafeState
  <2>2. SafeStore(z)
    <3>1. SafeStore(Store)' BY StepSafe DEF InTime, SafeState
    <3>2. SafeStore(Store)' <=> SafeStore(Store')
      BY DEF SafeStore, SafeBut, StoreType, Named, NoClash, Backed, BackedBy, Released, InOrder,
             HasDeparted, HasArrived, IsOpen, ChannelOf
    <3> QED BY <3>1, <3>2
  <2>3. LineView = ViewOf(s) /\ LineView' = ViewOf(z) BY ViewsOfStores
  <2> HIDE DEF s, z
  <2>4. ViewOf(z) \in [Channels -> Blocks!Claim \cup {None}] BY <2>2, ViewsAreLines
  <2>5. \A l \in Channels : ViewOf(z)[l] # ViewOf(s)[l] =>
          \/ /\ Blocks!Ask(ViewOf(s)[l], ViewOf(z)[l])
             /\ \A k \in Channels \ {l} : ViewOf(z)[k] = None \/ ViewOf(z)[k].holder # ViewOf(z)[l].holder
          \/ Blocks!Grant(ViewOf(s)[l], ViewOf(z)[l])
          \/ Blocks!Enter(ViewOf(s)[l], ViewOf(z)[l])
          \/ Blocks!Clear(ViewOf(s)[l], ViewOf(z)[l])
    BY <2>1, <2>2, LineStep
  <2> QED BY <2>3, <2>4, <2>5 DEF Blocks!Next
<1>3. Init => InTime
  <2> SUFFICES ASSUME Init PROVE InTime OBVIOUS
  <2>1. SafeState BY InitSafe
  <2>2. AskedInTime(Store) BY DEF Init, AskedInTime, Store
  <2> QED BY <2>1, <2>2 DEF InTime
<1>4. InTime /\ [Next]_vars => InTime' BY InTimeStep
<1>5. Spec => Blocks!Spec BY <1>1, <1>2, <1>3, <1>4, PTL DEF Spec, Blocks!Spec
<1> QED BY <1>5 DEF ImplementsLineBlocks
=============================================================================
