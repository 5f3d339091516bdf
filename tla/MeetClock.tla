------------------------------ MODULE MeetClock ------------------------------
(***************************************************************************)
(* The meet clock: one row of the database (operations.py, runtime_clock)  *)
(* from which every reading is computed, the commands that rewrite it, and *)
(* the restarts it has to survive: an orderly one stops the clock and the  *)
(* next start lets it go on, a crash does neither, and an undone jump      *)
(* restarts on the database as it was before the jump.                     *)
(***************************************************************************)
EXTENDS Integers

CONSTANTS
    MaxWall,        \* bound: how long a behaviour lasts
    Times,          \* the times the clock is set to
    Speeds,         \* the rates of the clock
    PlanStart,      \* the plan's time of day at the start
    Day,            \* the length of a day
    None

Reasons == {"none", "break", "restart"}

ASSUME ClockAssumption == /\ MaxWall \in Nat /\ Day \in Nat
                          /\ Times \subseteq Nat /\ PlanStart \in Nat
                          /\ Speeds \subseteq Nat \ {0} /\ 1 \in Speeds
                          /\ None \notin Nat \cup [running : BOOLEAN, reason : Reasons]

VARIABLES
    wall,           \* the time on the wall
    clock,          \* the row runtime_clock
    down,           \* None, or how the clock was when the server went down
    expected,       \* ghost: the meet time by a clock that never stops counting
    leapt,          \* ghost: what undone jumps have added to the meet time since it was set
    kept            \* the database as it was before the last jump, or None

vars == <<wall, clock, down, expected, leapt, kept>>

Row == [base : Nat, recorded : Nat, speed : Speeds, running : BOOLEAN, reason : Reasons]

TypeOK ==
    /\ wall \in Nat
    /\ clock \in Row
    /\ down = None \/ down \in [running : BOOLEAN, reason : Reasons]
    /\ expected \in Int /\ leapt \in Int
    /\ kept = None \/ (/\ kept.clock \in Row /\ kept.wall \in Nat
                      /\ kept.expected \in Int /\ kept.leapt \in Int)

Up == down = None
Max0(n) == IF n > 0 THEN n ELSE 0

\* clock_status: the time is never read from anywhere but the row.
ElapsedOf(row, now) == row.base + (IF row.running THEN Max0(now - row.recorded) * row.speed ELSE 0)
Elapsed == ElapsedOf(clock, wall)

-----------------------------------------------------------------------------
\* The wall clock moves on, and with it everything that is counted in it.
PassTime ==
    /\ wall < MaxWall
    /\ wall' = wall + 1
    /\ expected' = expected + (IF clock.running THEN clock.speed ELSE 0)
    /\ UNCHANGED <<clock, down, leapt, kept>>

\* Mutated form of ConfigureClock: a change of speed keeps the old base.
ConfigureFromBase(time, speed, start) ==
    /\ Up
    /\ clock' = [base |-> IF time # None THEN time ELSE clock.base,
                 recorded |-> wall,
                 speed |-> IF speed # None THEN speed ELSE clock.speed,
                 running |-> start \/ clock.running,
                 reason |-> IF start THEN "none" ELSE clock.reason]
    /\ expected' = IF time # None THEN time ELSE expected
    /\ leapt' = IF time # None THEN 0 ELSE leapt
    /\ UNCHANGED <<wall, down, kept>>

\* Mutated form of ConfigureClock: the time is written as it came.
ConfigureAsGiven(time, speed, start) ==
    /\ Up
    /\ clock' = [clock EXCEPT !.base = time, !.recorded = wall]
    /\ UNCHANGED <<wall, down, expected, leapt, kept>>

\* control_clock start, set and speed: configure_clock with what is given.
ConfigureClock(time, speed, start) ==
    /\ Up
    /\ clock' = [base |-> IF time # None THEN time ELSE Elapsed,
                 recorded |-> wall,
                 speed |-> IF speed # None THEN speed ELSE clock.speed,
                 running |-> start \/ clock.running,
                 reason |-> IF start THEN "none" ELSE clock.reason]
    /\ expected' = IF time # None THEN time ELSE expected
    /\ leapt' = IF time # None THEN 0 ELSE leapt
    /\ UNCHANGED <<wall, down, kept>>

\* control_clock stop, with or without a reason to show.
StopClock(reason) ==
    /\ Up
    /\ clock' = [clock EXCEPT !.base = Elapsed, !.recorded = wall,
                              !.running = FALSE, !.reason = reason]
    /\ UNCHANGED <<wall, down, expected, leapt, kept>>

\* The time machine: a copy of the database is kept
\* and start_traffic_day writes the new time; the clock goes on if it ran.
Jump(time) ==
    /\ Up
    /\ kept' = [clock |-> clock, expected |-> expected, leapt |-> leapt, wall |-> wall]
    /\ clock' = [clock EXCEPT !.base = time, !.recorded = wall]
    /\ expected' = time /\ leapt' = 0
    /\ UNCHANGED <<wall, down>>

\* reset_meet: the plan's start, and the clock stands still.
ResetMeet ==
    /\ Up
    /\ clock' = [clock EXCEPT !.base = PlanStart, !.recorded = wall,
                              !.running = FALSE, !.reason = "none"]
    /\ expected' = PlanStart /\ leapt' = 0
    /\ UNCHANGED <<wall, down, kept>>

\* calendar_tick: the running clock is a day ahead of the day that begins.
NewDay ==
    /\ Up /\ clock.running /\ Elapsed >= Day
    /\ clock' = [clock EXCEPT !.base = Elapsed - Day, !.recorded = wall]
    /\ expected' = expected - Day
    /\ UNCHANGED <<wall, down, leapt, kept>>

\* start_meet: another meet's plan says where its clock stands and how fast it is.
StartMeet(speed) ==
    /\ Up
    /\ clock' = [base |-> PlanStart, recorded |-> wall, speed |-> speed,
                 running |-> FALSE, reason |-> "none"]
    /\ expected' = PlanStart /\ leapt' = 0
    /\ UNCHANGED <<wall, down, kept>>

-----------------------------------------------------------------------------
(* Restarts *)

Noted == [running |-> clock.running, reason |-> clock.reason]

\* An orderly stop: pause_clock_for_restart.
GoDown ==
    /\ Up
    /\ down' = Noted
    /\ clock' = IF clock.running
                THEN [clock EXCEPT !.base = Elapsed, !.recorded = wall,
                                   !.running = FALSE, !.reason = "restart"]
                ELSE clock
    /\ UNCHANGED <<wall, expected, leapt, kept>>

Crash ==
    /\ Up
    /\ down' = Noted
    /\ UNCHANGED <<wall, clock, expected, leapt, kept>>

\* The meet time that a copy which was running takes the time since it was made for.
LeapOf(copy) == IF copy.clock.running THEN (wall - copy.wall) * copy.clock.speed ELSE 0

\* undo_jump: an orderly stop, and then the kept database is put in place; the row
\* in it is not stopped, and still counts from when it was written.
UndoJump ==
    /\ Up /\ kept # None
    /\ down' = [running |-> kept.clock.running, reason |-> kept.clock.reason]
    /\ clock' = kept.clock
    /\ expected' = kept.expected
    /\ leapt' = kept.leapt + LeapOf(kept)
    /\ kept' = None
    /\ UNCHANGED wall

\* Mutated form of Resumed: every clock is started.
ResumedAlways == [clock EXCEPT !.recorded = wall, !.running = TRUE, !.reason = "none"]

\* resume_clock_after_restart: only what a restart stopped.
Resumed == IF clock.reason = "restart" /\ ~clock.running
           THEN [clock EXCEPT !.recorded = wall, !.running = TRUE, !.reason = "none"] ELSE clock

ComeUp ==
    /\ ~Up
    /\ down' = None
    /\ clock' = Resumed
    /\ UNCHANGED <<wall, expected, leapt, kept>>

Init ==
    /\ wall = 0
    /\ clock = [base |-> PlanStart, recorded |-> 0, speed |-> 1, running |-> FALSE, reason |-> "none"]
    /\ down = None
    /\ expected = PlanStart /\ leapt = 0
    /\ kept = None

Configure == \E time \in Times \cup {None}, speed \in Speeds \cup {None}, start \in BOOLEAN :
                ConfigureClock(time, speed, start)

Next == \/ PassTime
        \/ Configure
        \/ \E reason \in {"none", "break"} : StopClock(reason)
        \/ \E time \in Times : Jump(time)
        \/ \E speed \in Speeds : StartMeet(speed)
        \/ NewDay \/ ResetMeet \/ GoDown \/ Crash \/ UndoJump \/ ComeUp

Spec == Init /\ [][Next]_vars

-----------------------------------------------------------------------------
(* Properties *)

\* The clock neither gains nor loses: whatever the row was rewritten by, what is
\* read from it is the meet time that has passed, an orderly restart adds nothing,
\* and an undone jump brings back the time that was; but for a jump made while the
\* clock ran, whose undoing adds the time since the jump to it, and no more.
MeetTimeIsKept == Elapsed = expected + leapt

\* A restart starts what ran and leaves stopped what was stopped, with the
\* reason the administrator gave ("en klocka som admin själv har stoppat förblir
\* stoppad", operations.py).
RestartKeepsTheClock ==
    [][~Up /\ down' = None => clock'.running = down.running /\ clock'.reason = down.reason]_vars
=============================================================================
