---------------------------- MODULE MeetDayProofs ----------------------------
(***************************************************************************)
(* The calendar enters the day after the one the meet is in, for all       *)
(* lengths of the day, change times and interleavings.                     *)
(*                                                                         *)
(* The thread reads the generation first and the day later, so the day it  *)
(* read is current whenever the generation still is: every step that       *)
(* changes the day makes a generation that was never read before.          *)
(***************************************************************************)
EXTENDS MeetDay, TLAPS

-----------------------------------------------------------------------------
(* Types *)

Reads ==
    [at : {"selection"}, generation : Nat]
      \cup [at : {"clock"}, generation : Nat, elapsed : Clocks]
      \cup [at : {"calendar"}, generation : Nat, elapsed : Clocks, day : Nat, change : Changes]

LEMMA ReadFields ==
    ASSUME NEW t \in Reads
    PROVE  /\ t.generation \in Nat
           /\ t.at \in {"clock", "calendar"} => t.elapsed \in Clocks
           /\ t.at = "calendar" => t.day \in Nat /\ t.change \in Changes
BY DEF Reads

\* The times the clock is set to are on it.
LEMMA ClockTimes ==
    /\ 0 .. Day - 1 \subseteq Clocks /\ 0 .. 2 * Day - 1 \subseteq Clocks /\ 0 \in Clocks
    /\ \A e \in Clocks : e \in Int /\ Max0(e - Day) \in Clocks /\ e % Day \in Clocks
<1>1. Day \in Nat \ {0} /\ MaxElapsed \in Nat /\ 2 * Day <= MaxElapsed + 1
  BY DayAssumption
<1>2. 0 .. Day - 1 \subseteq Clocks /\ 0 .. 2 * Day - 1 \subseteq Clocks /\ 0 \in Clocks
  BY <1>1 DEF Clocks
<1>3. ASSUME NEW e \in Clocks PROVE e \in Int /\ Max0(e - Day) \in Clocks /\ e % Day \in Clocks
  <2>1. e \in 0 .. MaxElapsed
    BY DEF Clocks
  <2>2. e % Day \in 0 .. Day - 1
    BY <1>1, <2>1
  <2> QED
    BY <1>1, <1>2, <2>1, <2>2 DEF Max0, Clocks
<1> QED
  BY <1>2, <1>3

LEMMA InitTyped == Init => TypeOK
<1> SUFFICES ASSUME Init PROVE TypeOK
  OBVIOUS
<1>1. 0 \in Clocks /\ 0 \in 0 .. MaxRestarts
  BY ClockTimes, DayAssumption
<1>2. tick = None /\ restarts = 0 /\ elapsed = 0
  BY DEF Init
<1>3. /\ running \in BOOLEAN /\ mode \in Modes /\ change \in Changes /\ day \in Nat /\ generation \in Nat
      /\ oldRunning \in BOOLEAN /\ waiting \in BOOLEAN /\ due \in BOOLEAN
  BY DEF Init
<1> QED
  BY <1>1, <1>2, <1>3 DEF TypeOK

LEMMA NextTyped == ASSUME TypeOK, [Next]_vars PROVE TypeOK'
<1>a. /\ elapsed \in Clocks /\ running \in BOOLEAN /\ mode \in Modes /\ change \in Changes
      /\ day \in Nat /\ generation \in Nat
      /\ oldRunning \in BOOLEAN /\ waiting \in BOOLEAN /\ due \in BOOLEAN
      /\ tick = None \/ tick \in Reads
      /\ restarts \in 0 .. MaxRestarts
  BY DEF TypeOK, Reads
<1>q. ASSUME /\ elapsed' \in Clocks /\ running' \in BOOLEAN /\ mode' \in Modes /\ change' \in Changes
             /\ day' \in Nat /\ generation' \in Nat
             /\ oldRunning' \in BOOLEAN /\ waiting' \in BOOLEAN /\ due' \in BOOLEAN,
             tick' = None \/ tick' \in Reads,
             restarts' \in 0 .. MaxRestarts
      PROVE  TypeOK'
  BY <1>q DEF TypeOK, Reads
<1>t. /\ 0 .. Day - 1 \subseteq Clocks /\ 0 .. 2 * Day - 1 \subseteq Clocks /\ 0 \in Clocks
      /\ Max0(elapsed - Day) \in Clocks /\ elapsed % Day \in Clocks
  BY <1>a, ClockTimes
<1>d. Days \subseteq Nat /\ MaxRestarts \in Nat /\ MaxElapsed \in Nat
  BY DayAssumption
<1>1. CASE TickReadsSelection
  <2>1. tick' \in [at : {"selection"}, generation : Nat]
    BY <1>1, <1>a DEF TickReadsSelection
  <2> QED
    BY <1>1, <1>a, <1>q, <2>1 DEF TickReadsSelection, Reads
<1>2. CASE TickReadsClock
  <2>1. tick.generation \in Nat
    BY <1>2, <1>a, ReadFields DEF TickReadsClock
  <2>2. tick' = None \/ tick' \in [at : {"clock"}, generation : Nat, elapsed : Clocks]
    BY <1>2, <1>a, <2>1 DEF TickReadsClock
  <2> QED
    BY <1>2, <1>a, <1>q, <2>2 DEF TickReadsClock, Reads
<1>3. CASE TickReadsCalendar
  <2>1. tick.generation \in Nat /\ tick.elapsed \in Clocks
    BY <1>3, <1>a, ReadFields DEF TickReadsCalendar
  <2>2. \/ tick' = None
        \/ tick' \in [at : {"calendar"}, generation : Nat, elapsed : Clocks, day : Nat, change : Changes]
    BY <1>3, <1>a, <2>1 DEF TickReadsCalendar
  <2> QED
    BY <1>3, <1>a, <1>q, <2>2 DEF TickReadsCalendar, Reads
<1>4. CASE TickChanges
  <2>1. tick.day \in Nat
    BY <1>4, <1>a, ReadFields DEF TickChanges
  <2>2. elapsed' \in Clocks /\ day' \in Nat /\ generation' \in Nat
        /\ oldRunning' \in BOOLEAN /\ waiting' \in BOOLEAN
    <3>1. CASE UNCHANGED <<elapsed, day, generation, oldRunning>> /\ waiting' \in BOOLEAN
      BY <3>1, <1>a
    <3>2. CASE RefusedAfter(tick.day) /\ waiting' = FALSE
      <4>1. elapsed' \in Clocks /\ day' \in Nat /\ generation' \in Nat
        BY <3>2, <1>a DEF RefusedAfter
      <4> QED
        BY <3>2, <4>1, <1>a DEF RefusedAfter
    <3>3. CASE /\ elapsed' = Max0(elapsed - Day) /\ day' = tick.day + 1 /\ generation' = generation + 1
               /\ oldRunning' = FALSE /\ waiting' = FALSE
      <4>1. elapsed' \in Clocks /\ day' \in Nat /\ generation' \in Nat
        BY <3>3, <1>a, <1>t, <2>1
      <4> QED
        BY <3>3, <4>1
    <3>4. \/ UNCHANGED <<elapsed, day, generation, oldRunning>> /\ waiting' \in BOOLEAN
          \/ RefusedAfter(tick.day) /\ waiting' = FALSE
          \/ /\ elapsed' = Max0(elapsed - Day) /\ day' = tick.day + 1 /\ generation' = generation + 1
             /\ oldRunning' = FALSE /\ waiting' = FALSE
      BY <1>4 DEF TickChanges
    <3> QED
      BY <3>1, <3>2, <3>3, <3>4
  <2> QED
    BY <1>4, <1>a, <1>q, <2>2 DEF TickChanges
<1>5. CASE ClockRuns
  <2>1. elapsed' \in Clocks
    BY <1>5, <1>a, <1>d DEF ClockRuns, Clocks
  <2> QED
    BY <1>5, <1>a, <1>q, <2>1 DEF ClockRuns
<1>6. CASE TrafficMoves
  BY <1>6, <1>a, <1>q DEF TrafficMoves
<1>7. ASSUME NEW time \in 0 .. Day - 1, SetClock(time) \/ StartNewDay(time) PROVE TypeOK'
  <2>1. time \in Clocks
    BY <1>t
  <2>2. CASE SetClock(time)
    <3>1. elapsed' = time
      BY <2>2 DEF SetClock
    <3> QED
      BY <2>1, <2>2, <3>1, <1>a, <1>q DEF SetClock
  <2>3. CASE StartNewDay(time)
    <3>1. elapsed' \in Clocks /\ day' \in Nat /\ generation' \in Nat /\ oldRunning' \in BOOLEAN
      BY <2>1, <2>3, <1>a DEF StartNewDay, RefusedAfter
    <3> QED
      BY <2>3, <3>1, <1>a, <1>q DEF StartNewDay
  <2> QED
    BY <1>7, <2>2, <2>3
<1>8. ASSUME NEW d \in Nat, NEW time \in Clocks, TimeMachine(d, time) PROVE TypeOK'
  <2>1. elapsed' \in Clocks /\ day' \in Nat /\ generation' \in Nat
    BY <1>8, <1>a DEF TimeMachine
  <2> QED
    BY <1>8, <1>a, <1>q, <2>1 DEF TimeMachine
<1>9. ASSUME NEW m \in Modes, SetMode(m) PROVE TypeOK'
  BY <1>9, <1>a, <1>q DEF SetMode
<1>10. ASSUME NEW at \in Changes, SetChange(at) PROVE TypeOK'
  BY <1>10, <1>a, <1>q DEF SetChange
<1>11. CASE StartStop \/ ResetMeet \/ SelectionChanges
  <2>1. elapsed' \in Clocks /\ day' \in Nat /\ generation' \in Nat
    BY <1>11, <1>a, <1>t DEF StartStop, ResetMeet, SelectionChanges
  <2>2. running' \in BOOLEAN /\ oldRunning' \in BOOLEAN
    BY <1>11, <1>a DEF StartStop, ResetMeet, SelectionChanges
  <2> QED
    BY <1>11, <1>a, <1>q, <2>1, <2>2 DEF StartStop, ResetMeet, SelectionChanges
<1>12. CASE SetStartDay
  BY <1>12, <1>8, <1>a, <1>t DEF SetStartDay
<1>13. CASE Restart
  <2>1. restarts' \in 0 .. MaxRestarts
    BY <1>13, <1>a, <1>d DEF Restart
  <2> QED
    BY <1>13, <1>a, <1>q, <2>1 DEF Restart
<1>14. CASE UNCHANGED vars
  BY <1>14, <1>a, <1>q DEF vars
<1>15. CASE Administration
  <2>1. \A d \in Days, time \in 0 .. 2 * Day - 1 : d \in Nat /\ time \in Clocks
    BY <1>t, <1>d
  <2> QED
    BY <1>15, <1>7, <1>8, <1>9, <1>10, <1>11, <1>12, <1>13, <2>1 DEF Administration
<1> QED
  BY <1>1, <1>2, <1>3, <1>4, <1>5, <1>6, <1>14, <1>15 DEF Next, Tick

\* The time of day is never before the start of the day it belongs to, also when
\* the clock was set back between the thread's look at it and the day change
\* (_enter_day), and what the thread has read is of the kind its next step needs.
THEOREM TimesStayOnTheClock == Spec => []TypeOK
<1> QED BY InitTyped, NextTyped, PTL DEF Spec

-----------------------------------------------------------------------------
(* What the thread has read *)

ReadsAreSound ==
    /\ generation \in Nat
    /\ tick # None => /\ tick.generation \in Nat
                      /\ tick.generation <= generation
                      /\ tick.at = "calendar" /\ tick.generation = generation => tick.day = day

LEMMA InitReadsAreSound == Init => ReadsAreSound
BY DEF Init, ReadsAreSound

\* Steps of others: what the thread has read stays, or becomes old, or is lost.
LEMMA OthersKeepReads ==
    ASSUME ReadsAreSound, tick' = tick \/ tick' = None,
           UNCHANGED <<generation, day>> \/ generation' = generation + 1
    PROVE  ReadsAreSound'
BY DEF ReadsAreSound

LEMMA NextReadsAreSound == ReadsAreSound /\ [Next]_vars => ReadsAreSound'
<1> SUFFICES ASSUME ReadsAreSound, [Next]_vars PROVE ReadsAreSound'
  OBVIOUS
<1>1. CASE TickReadsSelection
  BY <1>1 DEF TickReadsSelection, ReadsAreSound
<1>2. CASE TickReadsClock
  <2>1. CASE running
    BY <1>2, <2>1 DEF TickReadsClock, ReadsAreSound
  <2>2. CASE ~running
    BY <1>2, <2>2 DEF TickReadsClock, ReadsAreSound
  <2> QED
    BY <2>1, <2>2
<1>3. CASE TickReadsCalendar
  <2>1. UNCHANGED <<generation, day>>
    BY <1>3 DEF TickReadsCalendar
  <2>2. CASE tick' = None
    BY <2>1, <2>2 DEF ReadsAreSound
  <2>3. CASE tick' = [at |-> "calendar", generation |-> tick.generation,
                      elapsed |-> tick.elapsed, day |-> day, change |-> change]
    BY <1>3, <2>1, <2>3 DEF TickReadsCalendar, ReadsAreSound
  <2> QED
    BY <1>3, <2>2, <2>3 DEF TickReadsCalendar
<1>4. CASE TickChanges
  <2>1. tick' = None /\ (UNCHANGED <<generation, day>> \/ generation' = generation + 1)
    BY <1>4 DEF TickChanges, RefusedAfter
  <2> QED
    BY <2>1, OthersKeepReads
<1>5. CASE ClockRuns \/ TrafficMoves
  <2>1. UNCHANGED <<tick, generation, day>>
    BY <1>5 DEF ClockRuns, TrafficMoves
  <2> QED
    BY <2>1, OthersKeepReads
<1>6. CASE Administration
  <2>1. /\ tick' = tick \/ tick' = None
        /\ UNCHANGED <<generation, day>> \/ generation' = generation + 1
    BY <1>6 DEF Administration, SetClock, StartNewDay, RefusedAfter, TimeMachine, SetMode, SetChange,
                StartStop, SetStartDay, ResetMeet, SelectionChanges, Restart
  <2> QED
    BY <2>1, OthersKeepReads
<1>7. CASE UNCHANGED vars
  BY <1>7, OthersKeepReads DEF vars
<1> QED
  BY <1>1, <1>2, <1>3, <1>4, <1>5, <1>6, <1>7 DEF Next, Tick

\* Only the thread's last step makes a generation and forgets what was read.
LEMMA StepsAreOneDay == ReadsAreSound /\ [Next]_vars => (ChangedByTick /\ tick.day < MaxDay => day' = day + 1)
<1> SUFFICES ASSUME ReadsAreSound, [Next]_vars, ChangedByTick, tick.day < MaxDay
              PROVE  day' = day + 1
  OBVIOUS
<1>1. tick # None /\ tick' = None /\ generation' # generation
  BY DEF ChangedByTick
<1>2. CASE TickChanges
  <2>1. SelectionStands
    BY <1>1, <1>2 DEF TickChanges
  <2>2. tick.at = "calendar" /\ tick.day = day
    BY <1>1, <1>2, <2>1 DEF TickChanges, SelectionStands, ReadsAreSound
  <2>3. day' = tick.day + 1 \/ RefusedAfter(tick.day)
    BY <1>1, <1>2 DEF TickChanges
  <2> QED
    BY <2>2, <2>3 DEF RefusedAfter
<1>3. CASE Administration
  <2>1. tick' = tick \/ generation' = generation
    BY <1>3 DEF Administration, SetClock, StartNewDay, RefusedAfter, TimeMachine, SetMode, SetChange,
                StartStop, SetStartDay, ResetMeet, SelectionChanges, Restart
  <2> QED
    BY <1>1, <2>1
<1>4. CASE TickReadsSelection \/ TickReadsClock \/ TickReadsCalendar \/ ClockRuns \/ TrafficMoves
  BY <1>1, <1>4 DEF TickReadsSelection, TickReadsClock, TickReadsCalendar, ClockRuns, TrafficMoves
<1>5. CASE UNCHANGED vars
  BY <1>1, <1>5 DEF vars
<1> QED
  BY <1>2, <1>3, <1>4, <1>5 DEF Next, Tick

\* The day change of the calendar thread moves the meet on by one day from where
\* it is, whatever happened since the thread looked at the clock
\* (calendar_tick and begin_transition's expected_generation).
THEOREM DaysAreNotEnteredTwice == Spec => OneDayAtATime
<1>1. ReadsAreSound /\ [Next]_vars => [ChangedByTick /\ tick.day < MaxDay => day' = day + 1]_vars
  BY StepsAreOneDay
<1> QED
  BY <1>1, InitReadsAreSound, NextReadsAreSound, PTL DEF Spec, OneDayAtATime
=============================================================================
