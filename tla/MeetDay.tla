------------------------------- MODULE MeetDay -------------------------------
(***************************************************************************)
(* The change of day: the calendar thread looks at the clock twice a       *)
(* second, without the lock, and when the day change has passed takes the  *)
(* lock and enters the next day (http_server.py, calendar_tick).  All the  *)
(* while administrators set the clock, jump, start days by hand and change *)
(* the rules of the calendar, each under the lock.                         *)
(***************************************************************************)
EXTENDS Integers

CONSTANTS
    Day,            \* the length of a day
    Changes,        \* the times of day the day change may be set to
    WaitLimit,      \* DAY_CHANGE_WAIT_LIMIT
    Days,           \* the days the time machine goes to
    MaxDay,         \* the last day the calendar has
    MaxElapsed,     \* bound: how far the clock runs
    MaxGeneration,  \* bound: how many times the selection changes
    MaxRestarts,    \* bound
    None

ASSUME DayAssumption == /\ Day \in Nat \ {0} /\ WaitLimit \in Nat
                        /\ Changes \subseteq 0 .. Day - 1 /\ Changes # {}
                        /\ MaxDay \in Nat /\ Days \subseteq 1 .. MaxDay
                        /\ MaxElapsed \in Nat /\ 2 * Day <= MaxElapsed + 1
                        /\ MaxGeneration \in Nat /\ MaxRestarts \in Nat

VARIABLES
    elapsed,        \* the running time of the clock, in the day it belongs to
    running,        \* the clock runs
    mode,           \* day_change_mode
    change,         \* change_time: when the next day begins
    day,            \* day_number
    generation,     \* the generation of the meet selection
    oldRunning,     \* trains of the day are on a line, or have stops left after midnight
    waiting,        \* _day_change_waiting: the day change waits for them
    due,            \* _day_change_due: the day is to be changed by hand
    tick,           \* what the calendar thread has read so far, or None
    restarts

vars == <<elapsed, running, mode, change, day, generation, oldRunning, waiting, due, tick, restarts>>

Modes == {"auto", "manual"}
Clocks == 0 .. MaxElapsed

TypeOK ==
    /\ elapsed \in Clocks /\ running \in BOOLEAN
    /\ mode \in Modes /\ change \in Changes
    /\ day \in Nat /\ generation \in Nat
    /\ oldRunning \in BOOLEAN /\ waiting \in BOOLEAN /\ due \in BOOLEAN
    /\ \/ tick = None
       \/ tick \in [at : {"selection"}, generation : Nat]
       \/ tick \in [at : {"clock"}, generation : Nat, elapsed : Clocks]
       \/ tick \in [at : {"calendar"}, generation : Nat, elapsed : Clocks, day : Nat, change : Changes]
    /\ restarts \in 0 .. MaxRestarts

\* Mutated form of Max0: nothing stops the time at midnight.
BelowMidnight(n) == n

Max0(n) == IF n > 0 THEN n ELSE 0
Passed(time, at) == time >= Day + at

-----------------------------------------------------------------------------
(* The calendar thread *)

TickReadsSelection ==
    /\ tick = None
    /\ tick' = [at |-> "selection", generation |-> generation]
    /\ UNCHANGED <<elapsed, running, mode, change, day, generation, oldRunning, waiting, due, restarts>>

\* A clock that stands still changes nothing, not even what is waiting.
TickReadsClock ==
    /\ tick # None /\ tick.at = "selection"
    /\ tick' = IF running
               THEN [at |-> "clock", generation |-> tick.generation, elapsed |-> elapsed]
               ELSE None
    /\ UNCHANGED <<elapsed, running, mode, change, day, generation, oldRunning, waiting, due, restarts>>

\* _stop_waiting before the day change; a reminder in a meet that changes days
\* by hand; else the change goes on.
TickReadsCalendar ==
    /\ tick # None /\ tick.at = "clock"
    /\ \/ /\ ~Passed(tick.elapsed, change)
          /\ waiting' = FALSE /\ due' = FALSE /\ tick' = None
       \/ /\ Passed(tick.elapsed, change) /\ mode = "manual"
          /\ due' = TRUE /\ tick' = None /\ UNCHANGED waiting
       \/ /\ Passed(tick.elapsed, change) /\ mode = "auto"
          /\ tick' = [at |-> "calendar", generation |-> tick.generation,
                      elapsed |-> tick.elapsed, day |-> day, change |-> change]
          /\ UNCHANGED <<waiting, due>>
    /\ UNCHANGED <<elapsed, running, mode, change, day, generation, oldRunning, restarts>>

\* Mutated form of HeldBack: a train that is stuck holds the day for ever.
HeldBackForEver == oldRunning

\* Trains that finish their day hold it back, but not for longer than the limit.
HeldBack == oldRunning /\ tick.elapsed - Day < tick.change + WaitLimit

\* Mutated form of SelectionStands: expected_generation is not passed on.
SelectionStandsOrNot == TRUE

\* begin_transition compares the generation with the one that was read.
SelectionStands == tick.generation = generation

\* set_meet_calendar refuses a day that the calendar does not have, after the
\* transition has begun; _enter_day completes it all the same.  At the bound the
\* generation stands still.
RefusedAfter(d) ==
    /\ ~(d < MaxDay)
    /\ generation' = IF generation < MaxGeneration THEN generation + 1 ELSE generation
    /\ UNCHANGED <<elapsed, day, oldRunning>>

\* Under the lock: the clock is read again, only to say where it is set.
TickChanges ==
    /\ tick # None /\ tick.at = "calendar"
    /\ tick' = None
    /\ \/ /\ HeldBack
          /\ waiting' = TRUE
          /\ UNCHANGED <<elapsed, day, generation, oldRunning>>
       \/ /\ ~HeldBack /\ ~SelectionStands
          /\ waiting' = FALSE
          /\ UNCHANGED <<elapsed, day, generation, oldRunning>>
       \/ /\ ~HeldBack /\ SelectionStands
          /\ waiting' = FALSE
          /\ RefusedAfter(tick.day)
       \/ /\ ~HeldBack /\ SelectionStands
          /\ waiting' = FALSE
          /\ tick.day < MaxDay
          /\ elapsed' = Max0(elapsed - Day)
          /\ day' = tick.day + 1
          /\ generation' = generation + 1
          /\ oldRunning' = FALSE
    /\ UNCHANGED <<running, mode, change, due, restarts>>

Tick == TickReadsSelection \/ TickReadsClock \/ TickReadsCalendar \/ TickChanges

-----------------------------------------------------------------------------
(* What happens meanwhile *)

ClockRuns ==
    /\ running /\ elapsed < MaxElapsed /\ generation < MaxGeneration
    /\ elapsed' = elapsed + 1
    /\ UNCHANGED <<running, mode, change, day, generation, oldRunning, waiting, due, tick, restarts>>

\* control_clock: set to a time of day, started or stopped.
SetClock(time) ==
    /\ elapsed' = time
    /\ UNCHANGED <<running, mode, change, day, generation, oldRunning, waiting, due, tick, restarts>>

StartStop ==
    /\ running' = ~running
    /\ UNCHANGED <<elapsed, mode, change, day, generation, oldRunning, waiting, due, tick, restarts>>

\* A train leaves on a line; the last one arrives.
TrafficMoves ==
    /\ oldRunning' = ~oldRunning
    /\ UNCHANGED <<elapsed, running, mode, change, day, generation, waiting, due, tick, restarts>>

\* save_meet_calendar: neither the mode nor the time makes a new generation.
SetMode(m) ==
    /\ m # mode
    /\ mode' = m
    /\ waiting' = FALSE /\ due' = FALSE
    /\ UNCHANGED <<elapsed, running, change, day, generation, oldRunning, tick, restarts>>

SetChange(at) ==
    /\ change' = at
    /\ UNCHANGED <<elapsed, running, mode, day, generation, oldRunning, waiting, due, tick, restarts>>

\* start_new_day: by hand, when no train of the old day is out.
StartNewDay(time) ==
    /\ generation < MaxGeneration
    /\ ~oldRunning
    /\ \/ RefusedAfter(day)
       \/ /\ day < MaxDay
          /\ elapsed' = time
          /\ day' = day + 1
          /\ generation' = generation + 1
          /\ UNCHANGED oldRunning
    /\ waiting' = FALSE /\ due' = FALSE
    /\ UNCHANGED <<running, mode, change, tick, restarts>>

\* _enter_day with everything forgotten: another day (time_machine), or the same
\* day under another weekday (save_meet_calendar).
TimeMachine(d, time) ==
    /\ generation < MaxGeneration
    /\ elapsed' = time
    /\ day' = d
    /\ generation' = generation + 1
    /\ oldRunning' = FALSE
    /\ UNCHANGED <<running, mode, change, waiting, due, tick, restarts>>

SetStartDay == TimeMachine(day, elapsed % Day)

\* reset_meet: day 1, the plan's start, and the clock stands still.
ResetMeet ==
    /\ generation < MaxGeneration
    /\ elapsed' = 0 /\ running' = FALSE
    /\ day' = 1
    /\ generation' = generation + 1
    /\ oldRunning' = FALSE
    /\ UNCHANGED <<mode, change, waiting, due, tick, restarts>>

\* set_active_day, local edits and configurations: the day and the clock stay.
SelectionChanges ==
    /\ generation < MaxGeneration
    /\ generation' = generation + 1
    /\ UNCHANGED <<elapsed, running, mode, change, day, oldRunning, waiting, due, tick, restarts>>

\* What the thread has read and what it waits for is in memory only.
Restart ==
    /\ restarts < MaxRestarts
    /\ restarts' = restarts + 1
    /\ tick' = None /\ waiting' = FALSE /\ due' = FALSE
    /\ UNCHANGED <<elapsed, running, mode, change, day, generation, oldRunning>>

Init ==
    /\ elapsed = 0 /\ running = FALSE
    /\ mode \in Modes /\ change \in Changes
    /\ day = 1 /\ generation = 1
    /\ oldRunning = FALSE
    /\ waiting = FALSE /\ due = FALSE
    /\ tick = None
    /\ restarts = 0

Administration ==
    \/ \E time \in 0 .. Day - 1 : SetClock(time) \/ StartNewDay(time)
    \/ \E d \in Days, time \in 0 .. 2 * Day - 1 : TimeMachine(d, time)
    \/ \E m \in Modes : SetMode(m)
    \/ \E at \in Changes : SetChange(at)
    \/ StartStop \/ SetStartDay \/ ResetMeet \/ SelectionChanges \/ Restart

Next == Tick \/ ClockRuns \/ TrafficMoves \/ Administration

Spec == Init /\ [][Next]_vars

\* The thread runs until the server stops, and every error in it is caught.
Fairness == WF_vars(Tick)
FairSpec == Spec /\ Fairness

-----------------------------------------------------------------------------
(* Properties *)

ChangedByTick == tick # None /\ tick' = None /\ generation' # generation

\* The calendar moves the meet on by exactly one day from where it is: a day
\* that was started by hand between the look at the clock and the lock is not
\* entered, and its statuses erased, a second time.
OneDayAtATime == [][ChangedByTick /\ tick.day < MaxDay => day' = day + 1]_vars

\* While there is a next day, a clock that has run past the day change and the
\* longest wait does not stay there, whatever trains are stuck and however often
\* the selection changed.
Overdue == running /\ mode = "auto" /\ day < MaxDay /\ elapsed >= Day + change + WaitLimit
DayChangeComes == Overdue ~> ~Overdue

=============================================================================
