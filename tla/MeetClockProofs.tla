--------------------------- MODULE MeetClockProofs ---------------------------
(***************************************************************************)
(* The clock keeps the meet time, for all times, speeds and restarts, and  *)
(* undoing a jump made while it ran adds the time since the jump to it.    *)
(*                                                                         *)
(* MeetTimeIsKept is not inductive: a row recorded in the future would     *)
(* stand still, and an undone jump brings back a row whose time was right  *)
(* when it was kept.  RowsAreSound adds both, and SomeMoreOfARow what such *)
(* a row reads by now.                                                     *)
(* That a restart keeps the clock rests on RestartInv: what the next start *)
(* makes of the row is what went down.                                     *)
(***************************************************************************)
EXTENDS MeetClock, TLAPS

RowsAreSound ==
    /\ clock.recorded <= wall
    /\ kept # None => /\ kept.clock.recorded <= kept.wall /\ kept.wall <= wall
                      /\ ElapsedOf(kept.clock, kept.wall) = kept.expected + kept.leapt

ClockInv == TypeOK /\ RowsAreSound /\ MeetTimeIsKept

\* One more unit of wall time adds the speed to a running clock.
LEMMA OneMoreUnit ==
    ASSUME NEW b \in Nat, NEW r \in Nat, NEW w \in Nat, r <= w, NEW s \in Nat
    PROVE  b + Max0((w + 1) - r) * s = b + Max0(w - r) * s + s
<1> DEFINE d == w - r
<1>1. d \in Nat
  OBVIOUS
<1>2. Max0((w + 1) - r) = d + 1
  BY DEF Max0
<1>3. Max0(w - r) = d
  BY DEF Max0
<1> HIDE DEF d
<1>4. (d + 1) * s = d * s + s
  BY <1>1
<1>5. d * s \in Nat
  BY <1>1
<1> QED
  BY <1>2, <1>3, <1>4, <1>5

\* The same of what is read from a row.
LEMMA OneMoreOfARow ==
    ASSUME NEW row \in Row, NEW now \in Nat, row.recorded <= now, row.running
    PROVE  ElapsedOf(row, now + 1) = ElapsedOf(row, now) + row.speed
<1>1. row.base \in Nat /\ row.recorded \in Nat /\ row.speed \in Nat
  BY ClockAssumption DEF Row
<1>2. row.base + Max0((now + 1) - row.recorded) * row.speed
        = row.base + Max0(now - row.recorded) * row.speed + row.speed
  <2> DEFINE b == row.base  r == row.recorded  s == row.speed
  <2>1. b \in Nat /\ r \in Nat /\ s \in Nat /\ r <= now
    BY <1>1
  <2> HIDE DEF b, r, s
  <2>2. b + Max0((now + 1) - r) * s = b + Max0(now - r) * s + s
    BY <2>1, OneMoreUnit
  <2> QED
    BY <2>2 DEF b, r, s
<1> QED
  BY <1>2 DEF ElapsedOf

\* Any stretch of wall time adds itself times the speed to a running clock.
LEMMA SomeMoreOfARow ==
    ASSUME NEW row \in Row, NEW then \in Nat, NEW now \in Nat, row.recorded <= then, then <= now
    PROVE  ElapsedOf(row, now) = ElapsedOf(row, then) + (IF row.running THEN (now - then) * row.speed ELSE 0)
<1>1. row.base \in Nat /\ row.recorded \in Nat /\ row.speed \in Nat
  BY ClockAssumption DEF Row
<1>2. CASE row.running
  <2> DEFINE b == row.base  s == row.speed  d == then - row.recorded  e == now - then
  <2>1. b \in Nat /\ s \in Nat /\ d \in Nat /\ e \in Nat
    BY <1>1
  <2>2. Max0(then - row.recorded) = d /\ Max0(now - row.recorded) = d + e
    BY <1>1 DEF Max0
  <2>3. ElapsedOf(row, then) = b + d * s /\ ElapsedOf(row, now) = b + (d + e) * s
    BY <1>2, <2>2 DEF ElapsedOf
  <2> HIDE DEF b, s, d, e
  <2>4. (d + e) * s = d * s + e * s /\ d * s \in Nat /\ e * s \in Nat
    BY <2>1
  <2>5. ElapsedOf(row, now) = ElapsedOf(row, then) + e * s
    BY <2>1, <2>3, <2>4
  <2> QED BY <1>2, <2>5 DEF e, s
<1>3. CASE ~row.running
  BY <1>1, <1>3 DEF ElapsedOf
<1> QED BY <1>2, <1>3

\* What is read from a row is a natural number.
LEMMA ElapsedIsNat ==
    ASSUME NEW row \in Row, NEW now \in Nat
    PROVE  ElapsedOf(row, now) \in Nat
<1>1. row.base \in Nat /\ row.recorded \in Nat /\ row.speed \in Nat
  BY ClockAssumption DEF Row
<1>2. Max0(now - row.recorded) \in Nat
  BY <1>1 DEF Max0
<1>3. Max0(now - row.recorded) * row.speed \in Nat
  BY <1>1, <1>2
<1> QED
  BY <1>1, <1>3 DEF ElapsedOf

\* A row written just now reads what was written.
LEMMA JustWritten ==
    ASSUME NEW row \in Row, NEW now \in Nat, row.recorded = now \/ ~row.running
    PROVE  ElapsedOf(row, now) = row.base
<1>1. row.base \in Nat /\ row.speed \in Nat
  BY ClockAssumption DEF Row
<1>2. CASE row.recorded = now
  <2>1. Max0(now - row.recorded) = 0
    BY <1>2 DEF Max0
  <2>2. 0 * row.speed = 0
    BY <1>1
  <2> QED
    BY <1>1, <2>1, <2>2 DEF ElapsedOf
<1>3. CASE ~row.running
  BY <1>1, <1>3 DEF ElapsedOf
<1> QED
  BY <1>2, <1>3

LEMMA InitClockInv == Init => ClockInv
<1> SUFFICES ASSUME Init PROVE ClockInv
  OBVIOUS
<1>1. TypeOK
  BY ClockAssumption DEF Init, TypeOK, Row, Reasons
<1>2. RowsAreSound
  BY DEF Init, RowsAreSound
<1>3. MeetTimeIsKept
  BY <1>1, JustWritten DEF Init, MeetTimeIsKept, Elapsed, TypeOK
<1> QED
  BY <1>1, <1>2, <1>3 DEF ClockInv

\* Every action leaves a row of the database, whatever the ghost counts.
LEMMA NextTyped == ASSUME TypeOK, [Next]_vars PROVE TypeOK'
<1>a. /\ wall \in Nat /\ expected \in Int /\ leapt \in Int /\ clock \in Row /\ Elapsed \in Nat
      /\ clock.base \in Nat /\ clock.recorded \in Nat /\ clock.speed \in Speeds
      /\ clock.speed \in Nat /\ clock.running \in BOOLEAN /\ clock.reason \in Reasons
      /\ down = None \/ down \in [running : BOOLEAN, reason : Reasons]
      /\ kept = None \/ (/\ kept.clock \in Row /\ kept.wall \in Nat
                        /\ kept.expected \in Int /\ kept.leapt \in Int)
  BY ClockAssumption, ElapsedIsNat DEF TypeOK, Row, Elapsed
<1>n. Noted \in [running : BOOLEAN, reason : Reasons]
  BY <1>a DEF Noted
<1>1. CASE PassTime
  BY <1>1, <1>a DEF PassTime, TypeOK
<1>2. ASSUME NEW time \in Times \cup {None}, NEW speed \in Speeds \cup {None},
             NEW start \in BOOLEAN, ConfigureClock(time, speed, start)
      PROVE  TypeOK'
  <2>1. clock' \in Row /\ expected' \in Int /\ leapt' \in Int
    BY <1>2, <1>a, ClockAssumption DEF ConfigureClock, Row, Reasons
  <2> QED
    BY <1>2, <1>a, <2>1 DEF ConfigureClock, TypeOK
<1>3. ASSUME NEW reason \in {"none", "break"}, StopClock(reason) PROVE TypeOK'
  <2>1. clock' \in Row
    BY <1>3, <1>a DEF StopClock, Row, Reasons
  <2> QED
    BY <1>3, <1>a, <2>1 DEF StopClock, TypeOK
<1>4. ASSUME NEW time \in Times, Jump(time) PROVE TypeOK'
  <2>1. time \in Nat
    BY ClockAssumption
  <2>2. /\ clock' \in Row /\ kept'.clock = clock /\ kept'.expected = expected
        /\ kept'.leapt = leapt /\ kept'.wall = wall
    BY <1>4, <1>a, <2>1 DEF Jump, Row
  <2> QED
    BY <1>4, <1>a, <2>1, <2>2 DEF Jump, TypeOK
<1>5. CASE ResetMeet
  <2>1. clock' \in Row
    BY <1>5, <1>a, ClockAssumption DEF ResetMeet, Row, Reasons
  <2> QED
    BY <1>5, <1>a, <2>1, ClockAssumption DEF ResetMeet, TypeOK
<1>6. CASE NewDay
  <2>1. Elapsed - Day \in Nat /\ expected - Day \in Int
    BY <1>6, <1>a, ClockAssumption DEF NewDay
  <2>2. clock' \in Row
    BY <1>6, <1>a, <2>1 DEF NewDay, Row
  <2> QED
    BY <1>6, <1>a, <2>1, <2>2 DEF NewDay, TypeOK
<1>7. ASSUME NEW speed \in Speeds, StartMeet(speed) PROVE TypeOK'
  <2>1. clock' \in Row
    BY <1>7, <1>a, ClockAssumption DEF StartMeet, Row, Reasons
  <2> QED
    BY <1>7, <1>a, <2>1, ClockAssumption DEF StartMeet, TypeOK
<1>8. CASE GoDown
  <2>1. clock' \in Row
    BY <1>8, <1>a DEF GoDown, Row, Reasons
  <2> QED
    BY <1>8, <1>a, <1>n, <2>1 DEF GoDown, TypeOK
<1>9. CASE Crash
  BY <1>9, <1>a, <1>n DEF Crash, TypeOK
<1>10. CASE UndoJump
  <2>1. /\ kept.clock \in Row /\ kept.expected \in Int /\ kept.wall \in Nat /\ kept.leapt \in Int
    BY <1>10, <1>a DEF UndoJump
  <2>3. leapt' \in Int
    <3>1. kept.clock.speed \in Nat
      BY <2>1, ClockAssumption DEF Row
    <3>2. (wall - kept.wall) * kept.clock.speed \in Int
      BY <1>a, <2>1, <3>1
    <3> QED BY <1>10, <2>1, <3>2 DEF UndoJump, LeapOf
  <2>2. [running |-> kept.clock.running, reason |-> kept.clock.reason] \in [running : BOOLEAN, reason : Reasons]
    BY <2>1 DEF Row
  <2> QED
    BY <1>10, <1>a, <2>1, <2>2, <2>3 DEF UndoJump, TypeOK
<1>11. CASE ComeUp
  <2>1. clock' \in Row
    BY <1>11, <1>a DEF ComeUp, Resumed, Row, Reasons
  <2> QED
    BY <1>11, <1>a, <2>1 DEF ComeUp, TypeOK
<1>12. CASE UNCHANGED vars
  BY <1>12 DEF vars, TypeOK
<1> QED
  BY <1>1, <1>2, <1>3, <1>4, <1>5, <1>6, <1>7, <1>8, <1>9, <1>10, <1>11, <1>12
  DEF Next, Configure

LEMMA InitTyped == Init => TypeOK
<1> QED BY ClockAssumption DEF Init, TypeOK, Row, Reasons

\* The row is always one that clock_status can read: its time is never before
\* the start of the day, also after a new day, an undone jump or another meet.
THEOREM RowsAreWellFormed == Spec => []TypeOK
<1> QED BY InitTyped, NextTyped, PTL DEF Spec

-----------------------------------------------------------------------------
(* What a restart finds *)

\* A running clock shows no reason, and while the server is up none is "restart".
Reasoned(row) == row.reason # "restart" /\ (row.running => row.reason = "none")

\* The clock that the next start lets go on is the one that went down.
RestartInv ==
    /\ TypeOK
    /\ Up => Reasoned(clock)
    /\ kept # None => Reasoned(kept.clock)
    /\ ~Up => /\ Resumed.running = down.running /\ Resumed.reason = down.reason
              /\ Reasoned(down)

LEMMA NextRestartInv == ASSUME RestartInv, [Next]_vars PROVE RestartInv'
<1>t. TypeOK'
  BY NextTyped DEF RestartInv
<1>a. /\ clock \in Row /\ (kept = None \/ kept.clock \in Row)
      /\ clock.running \in BOOLEAN /\ clock.reason \in Reasons
  BY DEF RestartInv, TypeOK, Row
<1>n. None \notin [running : BOOLEAN, reason : Reasons]
  BY ClockAssumption
<1>u. Up => Reasoned(clock)
  BY DEF RestartInv
<1>k. kept # None => Reasoned(kept.clock)
  BY DEF RestartInv
<1>d. ~Up => Resumed.running = down.running /\ Resumed.reason = down.reason /\ Reasoned(down)
  BY DEF RestartInv
\* The actions of a running server leave it running, with a row that is reasoned.
<1>r. ASSUME Up, UNCHANGED <<down, kept>>, Reasoned(clock') PROVE RestartInv'
  BY <1>r, <1>t, <1>k DEF RestartInv, Up, Reasoned
<1>1. CASE PassTime
  <2>1. /\ UNCHANGED <<down, clock, kept>>
        /\ Resumed'.running = Resumed.running /\ Resumed'.reason = Resumed.reason
    BY <1>1, <1>a DEF PassTime, Resumed, Row
  <2> QED
    BY <2>1, <1>t, <1>u, <1>k, <1>d DEF RestartInv, Up, Reasoned
<1>2. ASSUME NEW time \in Times \cup {None}, NEW speed \in Speeds \cup {None},
             NEW start \in BOOLEAN, ConfigureClock(time, speed, start)
      PROVE  RestartInv'
  BY <1>2, <1>a, <1>u, <1>r DEF ConfigureClock, Reasoned
<1>3. ASSUME NEW reason \in {"none", "break"}, StopClock(reason) PROVE RestartInv'
  BY <1>3, <1>a, <1>u, <1>r DEF StopClock, Reasoned, Row
<1>4. ASSUME NEW time \in Times, Jump(time) PROVE RestartInv'
  <2>1. /\ Up /\ Up' /\ kept'.clock = clock
        /\ clock'.running = clock.running /\ clock'.reason = clock.reason
    BY <1>4, <1>a DEF Jump, Up, Row
  <2> QED
    BY <2>1, <1>t, <1>u DEF RestartInv, Reasoned
<1>5. CASE ResetMeet
  BY <1>5, <1>a, <1>r DEF ResetMeet, Reasoned, Row
<1>6. CASE NewDay
  BY <1>6, <1>a, <1>u, <1>r DEF NewDay, Reasoned, Row
<1>7. ASSUME NEW speed \in Speeds, StartMeet(speed) PROVE RestartInv'
  BY <1>7, <1>a, <1>r DEF StartMeet, Reasoned
<1>8. CASE GoDown
  <2>1. Up /\ down' = Noted /\ kept' = kept
    BY <1>8 DEF GoDown
  <2>2. ~Up'
    BY <2>1, <1>a, <1>n DEF Up, Noted
  <2>3. Resumed'.running = clock.running /\ Resumed'.reason = clock.reason
    <3>1. CASE clock.running
      <4>1. clock'.reason = "restart" /\ clock'.running = FALSE /\ clock' \in Row
        BY <1>8, <3>1, <1>a, <1>t DEF GoDown, Row, TypeOK
      <4> QED
        BY <2>1, <3>1, <4>1, <1>u DEF Resumed, Reasoned, Row
    <3>2. CASE ~clock.running
      BY <1>8, <2>1, <3>2, <1>u DEF GoDown, Resumed, Reasoned
    <3> QED
      BY <3>1, <3>2
  <2> QED
    BY <2>1, <2>2, <2>3, <1>t, <1>k DEF RestartInv, Noted, Reasoned
<1>9. CASE Crash
  <2>1. Up /\ down' = Noted /\ kept' = kept /\ clock' = clock
    BY <1>9 DEF Crash
  <2>2. ~Up'
    BY <2>1, <1>a, <1>n DEF Up, Noted
  <2>3. Resumed' = clock'
    BY <2>1, <1>u DEF Resumed, Reasoned
  <2> QED
    BY <2>1, <2>2, <2>3, <1>t, <1>k DEF RestartInv, Noted, Reasoned
<1>10. CASE UndoJump
  <2>1. kept # None /\ clock' = kept.clock /\ kept' = None
        /\ down' = [running |-> kept.clock.running, reason |-> kept.clock.reason]
    BY <1>10 DEF UndoJump
  <2>2. ~Up'
    BY <2>1, <1>a, <1>n DEF Up, Row
  <2>3. Resumed' = clock'
    BY <2>1, <1>k DEF Resumed, Reasoned
  <2>4. Reasoned(down')
    BY <2>1, <1>k DEF Reasoned
  <2> QED
    BY <2>1, <2>2, <2>3, <2>4, <1>t DEF RestartInv, Reasoned
<1>11. CASE ComeUp
  <2>1. clock' = Resumed /\ kept' = kept /\ Up'
    BY <1>11 DEF ComeUp, Up
  <2>2. Reasoned(Resumed)
    BY <1>11, <1>d DEF ComeUp, Reasoned
  <2> QED
    BY <2>1, <2>2, <1>t, <1>k DEF RestartInv, Reasoned
<1>12. CASE UNCHANGED vars
  <2>1. /\ UNCHANGED <<down, clock, kept>>
        /\ Resumed'.running = Resumed.running /\ Resumed'.reason = Resumed.reason
    BY <1>12, <1>a DEF vars, Resumed, Row
  <2> QED
    BY <2>1, <1>t, <1>u, <1>k, <1>d DEF RestartInv, Up, Reasoned
<1> QED
  BY <1>1, <1>2, <1>3, <1>4, <1>5, <1>6, <1>7, <1>8, <1>9, <1>10, <1>11, <1>12
  DEF Next, Configure

LEMMA InitRestartInv == Init => RestartInv
<1> QED BY InitTyped DEF Init, RestartInv, Up, Reasoned

\* A restart, orderly or not, with or without a jump undone, starts what ran and
\* leaves stopped what was stopped (pause_clock_for_restart,
\* resume_clock_after_restart: a clock the administrator has stopped stays so).
THEOREM RestartsKeepTheClock == Spec => RestartKeepsTheClock
<1>1. RestartInv /\ [Next]_vars =>
        [~Up /\ down' = None => clock'.running = down.running /\ clock'.reason = down.reason]_vars
  <2> SUFFICES ASSUME RestartInv, Next, ~Up, down' = None
               PROVE  clock'.running = down.running /\ clock'.reason = down.reason
    OBVIOUS
  <2>1. PassTime => down' = down
    BY DEF PassTime
  <2>2. ComeUp
    BY <2>1 DEF Next, Configure, ConfigureClock, StopClock, Jump, StartMeet, NewDay, ResetMeet,
               GoDown, Crash, UndoJump, Up
  <2> QED
    BY <2>2 DEF ComeUp, RestartInv
<1> QED
  BY <1>1, InitRestartInv, NextRestartInv, PTL DEF Spec, RestartKeepsTheClock

-----------------------------------------------------------------------------
(* The meet time *)

\* The actions that write the row anew: its time is the expected one, its hour
\* of writing is now, and everything else is sound as before.
LEMMA Rewritten ==
    ASSUME TypeOK, RowsAreSound, UNCHANGED wall,
           clock' \in Row, clock'.recorded = wall,
           clock'.base = expected' + leapt'
    PROVE  clock'.recorded <= wall' /\ MeetTimeIsKept'
<1>1. wall' \in Nat /\ wall' = wall
  BY DEF TypeOK
<1>2. ElapsedOf(clock', wall') = clock'.base
  BY <1>1, JustWritten
<1> QED
  BY <1>1, <1>2 DEF MeetTimeIsKept, Elapsed

LEMMA NextClockInv ==
    ASSUME ClockInv, [Next]_vars
    PROVE  ClockInv'
<1> USE DEF ClockInv
<1>t. TypeOK'
  BY NextTyped
<1>b. Elapsed = expected + leapt
  BY DEF MeetTimeIsKept
<1>a. /\ wall \in Nat /\ expected \in Int /\ leapt \in Int /\ Elapsed \in Nat /\ clock \in Row
      /\ clock.base \in Nat /\ clock.recorded \in Nat /\ clock.speed \in Speeds
      /\ clock.speed \in Nat /\ clock.running \in BOOLEAN /\ clock.reason \in Reasons
      /\ clock.recorded <= wall
  BY ClockAssumption, ElapsedIsNat DEF TypeOK, Row, Elapsed, RowsAreSound
<1>k. kept # None => /\ kept.clock \in Row /\ kept.clock.recorded \in Nat /\ kept.wall \in Nat
                     /\ kept.clock.speed \in Nat /\ kept.expected \in Int /\ kept.leapt \in Int
  BY ClockAssumption DEF TypeOK, Row
<1>1. CASE PassTime
  <2>1. RowsAreSound'
    BY <1>1, <1>a, <1>k DEF PassTime, RowsAreSound
  <2>2. MeetTimeIsKept'
    <3>1. CASE clock.running
      <4>1. wall' = wall + 1 /\ clock' = clock
        BY <1>1 DEF PassTime
      <4>2. Elapsed' = Elapsed + clock.speed
        BY <1>a, <3>1, <4>1, OneMoreOfARow DEF Elapsed
      <4> QED
        BY <1>1, <1>a, <1>b, <3>1, <4>2 DEF PassTime, MeetTimeIsKept
    <3>2. CASE ~clock.running
      BY <1>1, <1>a, <1>b, <3>2 DEF PassTime, MeetTimeIsKept, Elapsed, ElapsedOf
    <3> QED
      BY <3>1, <3>2
  <2> QED
    BY <1>t, <2>1, <2>2
<1>2. ASSUME NEW time \in Times \cup {None}, NEW speed \in Speeds \cup {None},
             NEW start \in BOOLEAN, ConfigureClock(time, speed, start)
      PROVE  ClockInv'
  <2>1. clock' \in Row
    BY <1>t DEF TypeOK
  <2>2. clock'.recorded = wall /\ clock'.base = expected' + leapt'
    BY <1>2, <1>a, <1>b, ClockAssumption DEF ConfigureClock
  <2>3. UNCHANGED <<wall, kept>>
    BY <1>2 DEF ConfigureClock
  <2> QED
    BY <1>t, <2>1, <2>2, <2>3, Rewritten DEF RowsAreSound
<1>3. ASSUME NEW reason \in {"none", "break"}, StopClock(reason)
      PROVE  ClockInv'
  <2>1. clock' \in Row
    BY <1>t DEF TypeOK
  <2>2. clock'.recorded = wall /\ clock'.base = expected' + leapt' /\ UNCHANGED <<wall, kept>>
    BY <1>3, <1>a, <1>b DEF StopClock, Row
  <2> QED
    BY <1>t, <2>1, <2>2, Rewritten DEF RowsAreSound
<1>4. ASSUME NEW time \in Times, Jump(time)
      PROVE  ClockInv'
  <2>1. time \in Nat
    BY ClockAssumption
  <2>2. clock' \in Row /\ clock'.recorded = wall /\ clock'.base = expected' + leapt'
    <3>1. clock' \in Row /\ clock'.recorded = wall /\ clock'.base = time
      BY <1>4, <1>a, <2>1 DEF Jump, Row
    <3>2. expected' = time /\ leapt' = 0
      BY <1>4 DEF Jump
    <3> QED BY <2>1, <3>1, <3>2
  <2>3. /\ kept'.clock = clock /\ kept'.expected = expected /\ kept'.leapt = leapt /\ kept'.wall = wall
        /\ wall' = wall
    BY <1>4 DEF Jump
  <2>4. clock'.recorded <= wall' /\ MeetTimeIsKept'
    BY <2>2, <2>3, Rewritten
  <2>5. RowsAreSound'
    BY <1>a, <1>b, <2>3, <2>4 DEF RowsAreSound, Elapsed
  <2> QED
    BY <1>t, <2>4, <2>5
<1>5. CASE ResetMeet
  <2>1. /\ clock' \in Row /\ clock'.recorded = wall /\ clock'.base = expected' + leapt'
        /\ UNCHANGED <<wall, kept>>
    BY <1>5, <1>a, <1>t, ClockAssumption DEF ResetMeet, Row, TypeOK
  <2> QED
    BY <1>t, <2>1, Rewritten DEF RowsAreSound
<1>6. CASE GoDown
  <2>1. UNCHANGED <<wall, expected, leapt, kept>>
    BY <1>6 DEF GoDown
  <2>2. CASE clock.running
    <3>1. clock' \in Row /\ clock'.recorded = wall /\ clock'.base = expected' + leapt'
      BY <1>6, <2>2, <1>a, <1>b, <1>t DEF GoDown, Row, TypeOK
    <3> QED
      BY <1>t, <2>1, <3>1, Rewritten DEF RowsAreSound
  <2>3. CASE ~clock.running
    BY <1>6, <1>t, <2>1, <2>3 DEF GoDown, RowsAreSound, MeetTimeIsKept, Elapsed
  <2> QED
    BY <2>2, <2>3
<1>7. CASE Crash
  BY <1>7, <1>t DEF Crash, RowsAreSound, MeetTimeIsKept, Elapsed
<1>8. CASE UndoJump
  <2>1. /\ kept # None /\ clock' = kept.clock /\ kept' = None /\ wall' = wall
        /\ expected' = kept.expected /\ leapt' = kept.leapt + LeapOf(kept)
    BY <1>8 DEF UndoJump
  <2>2. /\ kept.clock.recorded <= kept.wall /\ kept.wall <= wall
        /\ ElapsedOf(kept.clock, kept.wall) = kept.expected + kept.leapt
    BY <2>1 DEF RowsAreSound
  <2>3. ElapsedOf(kept.clock, wall) = ElapsedOf(kept.clock, kept.wall) + LeapOf(kept)
    BY <1>a, <1>k, <2>1, <2>2, SomeMoreOfARow DEF LeapOf
  <2>4. LeapOf(kept) \in Int
    <3>1. (wall - kept.wall) * kept.clock.speed \in Int
      BY <1>a, <1>k, <2>1
    <3> QED BY <3>1 DEF LeapOf
  <2>5. MeetTimeIsKept'
    BY <1>k, <2>1, <2>2, <2>3, <2>4 DEF MeetTimeIsKept, Elapsed
  <2>6. RowsAreSound'
    BY <1>a, <1>k, <2>1, <2>2 DEF RowsAreSound
  <2> QED
    BY <1>t, <2>5, <2>6
<1>9. CASE ComeUp
  <2>0. UNCHANGED <<wall, expected, leapt, kept>>
    BY <1>9 DEF ComeUp
  <2>1. CASE clock.reason = "restart" /\ ~clock.running
    <3>1. clock.base = expected + leapt
      BY <1>a, <1>b, <2>1, JustWritten DEF Elapsed
    <3>2. clock' \in Row /\ clock'.recorded = wall /\ clock'.base = expected' + leapt'
      BY <1>9, <1>a, <1>t, <2>0, <2>1, <3>1 DEF ComeUp, Resumed, Row, TypeOK
    <3> QED
      BY <1>t, <2>0, <3>2, Rewritten DEF RowsAreSound
  <2>2. CASE ~(clock.reason = "restart" /\ ~clock.running)
    BY <1>9, <1>t, <2>0, <2>2 DEF ComeUp, Resumed, RowsAreSound, MeetTimeIsKept, Elapsed
  <2> QED
    BY <2>1, <2>2
<1>10. ASSUME NEW speed \in Speeds, StartMeet(speed)
       PROVE  ClockInv'
  <2>1. /\ clock' \in Row /\ clock'.recorded = wall /\ clock'.base = expected' + leapt'
        /\ UNCHANGED <<wall, kept>>
    BY <1>10, <1>a, <1>t, ClockAssumption DEF StartMeet, TypeOK
  <2> QED
    BY <1>t, <2>1, Rewritten DEF RowsAreSound
<1>11. CASE NewDay
  <2>1. /\ clock' \in Row /\ clock'.recorded = wall /\ clock'.base = expected' + leapt'
        /\ UNCHANGED <<wall, kept>>
    BY <1>11, <1>a, <1>b, <1>t, ClockAssumption DEF NewDay, Row, TypeOK
  <2> QED
    BY <1>t, <2>1, Rewritten DEF RowsAreSound
<1>12. CASE UNCHANGED vars
  BY <1>12, <1>t DEF vars, RowsAreSound, MeetTimeIsKept, Elapsed
<1> QED
  BY <1>1, <1>2, <1>3, <1>4, <1>5, <1>6, <1>7, <1>8, <1>9, <1>10, <1>11, <1>12
  DEF Next, Configure

\* Whatever is configured, jumped to and restarted, the row reads the meet time that
\* has passed; an undone jump that was made while the clock ran adds exactly the time
\* since the jump (clock_status, pause_clock_for_restart, resume_clock_after_restart,
\* undo_jump).
THEOREM TimeIsKept == Spec => []MeetTimeIsKept
<1>1. ClockInv => MeetTimeIsKept
  BY DEF ClockInv
<1> QED
  BY <1>1, NextClockInv, InitClockInv, PTL DEF Spec
=============================================================================
