-------------------------- MODULE DriverTimeline --------------------------
(***************************************************************************)
(* What the driver sees of a duty that is active (web/lokforaren/app.js):  *)
(* the countdown and the plan with its line for now, the reminders before  *)
(* the start, and the list that follows the line unless it is touched.     *)
(* The reminders are on.  The meet clock is the server's (external);       *)
(* without contact the last time stands.  The page is drawn many times in  *)
(* each minute, unless another tab or another app is in front of it        *)
(* (view.duty = FALSE).                                                    *)
(***************************************************************************)
EXTENDS Integers, Sequences, DriverPlan
LOCAL INSTANCE Functions

CONSTANTS Plans,           \* the duties: [Duties -> what Build makes of the events]
          Times,           \* the minutes the clock is set to
          MaxActivations,  \* bound
          MaxSilence,      \* bound: minutes without contact
          Last,            \* bound: the minute in which the clock stands still
          None

VARIABLES clock,   \* external: [time, running, contact]
          active,  \* the activation: [duty, n], or None
          plan,    \* planFor: the activation whose plan is drawn, or None
          view,    \* the rest of the page
          told,    \* history: the reminders that were given
          again,   \* history: one was given again
          watched  \* history: the page has been drawn with the clock going since before the first reminder

vars == <<clock, active, plan, view, told, again, watched>>

Duties == DOMAIN Plans
Thresholds == {20, 10}
Activation(duty, n) == [duty |-> duty, n |-> n]
Reminders == (1 .. MaxActivations) \X Thresholds   \* of an activation

Init ==
    /\ \E time \in Times : clock = [time |-> time, running |-> TRUE, contact |-> TRUE]
    /\ active = None /\ plan = None
    /\ view = [seconds |-> -1, duty |-> TRUE, forced |-> FALSE, screen |-> "choose",
               fired |-> {}, activations |-> 0,
               follow |-> TRUE, touching |-> FALSE, quiet |-> TRUE]
    /\ told = {} /\ again = FALSE /\ watched = FALSE

-----------------------------------------------------------------------------
(* Drawing *)

\* clockSeconds: the time of the server, or the one that stands; -1 is none.
Seconds == IF clock.contact THEN clock.time ELSE view.seconds
Left(a, seconds) == Plans[a.duty].start - AxisMinutes(seconds, Plans[a.duty])
ScreenOf(a, seconds, forced) ==
    IF seconds # -1 /\ Left(a, seconds) > 10 /\ ~forced THEN "countdown" ELSE "plan"

\* remind: within two minutes, once for each activation.
Due(seconds, a, fired) ==
    {<<a.n, b>> : b \in {b \in Thresholds : Left(a, seconds) <= b /\ Left(a, seconds) > b - 2}} \ fired

\* renderFrame and route: the plan of the activation, its screen, its
\* reminders, and the follow that begins again four seconds after a touch.
Drawn(a, c, v0) ==
    LET seconds == IF c.contact THEN c.time ELSE v0.seconds
        v == [v0 EXCEPT !.seconds = seconds]
        drawn == a # None /\ v.duty
        due == IF drawn /\ seconds # -1 /\ c.contact /\ c.running
               THEN Due(seconds, a, v.fired) ELSE {}
        screen == IF drawn THEN ScreenOf(a, seconds, v.forced) ELSE v.screen
    IN  /\ clock' = c /\ active' = a
        /\ plan' = IF drawn THEN a ELSE IF a = None THEN None ELSE plan
        /\ view' = [v EXCEPT !.screen = screen, !.fired = @ \cup due,
                             !.follow = @ \/ (drawn /\ plan # a)
                                          \/ (drawn /\ screen = "plan" /\ ~v.touching /\ v.quiet)]
        /\ told' = told \cup due /\ again' = (again \/ told \cap due # {})
        /\ watched' = /\ drawn /\ c.contact /\ c.running
                      /\ watched \/ Left(a, seconds) > 20

-----------------------------------------------------------------------------
(* The clock and the contact (external) *)

\* A minute of the meet passes; the page is drawn in each of them.
Minute ==
    /\ clock.running /\ clock.contact /\ clock.time # Last
    /\ Drawn(active, [clock EXCEPT !.time = (@ + 1) % Day], view)

ClockSet ==
    \E time \in Times, running \in BOOLEAN : Drawn(active, [clock EXCEPT !.time = time, !.running = running], view)

\* What the clock does meanwhile is seen when the contact is back.
ContactLost == clock.contact /\ Drawn(active, [clock EXCEPT !.contact = FALSE], view)
ContactBack ==
    /\ ~clock.contact
    /\ \E minutes \in 0 .. MaxSilence :
         /\ minutes <= (Last - clock.time) % Day
         /\ Drawn(active, [clock EXCEPT !.contact = TRUE, !.time = (@ + minutes) % Day], view)

-----------------------------------------------------------------------------
(* The driver *)

Activate(duty) ==
    /\ view.activations < MaxActivations
    /\ Drawn(Activation(duty, view.activations + 1), clock,
             [view EXCEPT !.activations = @ + 1, !.forced = FALSE, !.duty = TRUE])

\* endDuty: from the other tab.
EndDuty ==
    /\ active # None /\ ~view.duty
    /\ Drawn(None, clock, view)

PressTab(duty) ==
    /\ active # None
    /\ Drawn(active, clock, [view EXCEPT !.duty = duty, !.screen = IF duty THEN @ ELSE "other",
                                         !.follow = @ \/ (duty /\ view.duty)])

\* The plan before its time.
ShowPlan ==
    /\ view.screen = "countdown"
    /\ Drawn(active, clock, [view EXCEPT !.forced = TRUE])

\* Another language has the plan drawn anew, when the driver is back at it.
LanguageChanged ==
    /\ plan # None /\ ~view.duty
    /\ plan' = None
    /\ UNCHANGED <<clock, active, view, told, again, watched>>

Touch ==
    /\ view.screen = "plan"
    /\ view' = [view EXCEPT !.follow = FALSE, !.touching = ~@, !.quiet = FALSE]
    /\ UNCHANGED <<clock, active, plan, told, again, watched>>

\* Four seconds after the last touch.
Quiet ==
    /\ ~view.quiet /\ ~view.touching
    /\ Drawn(active, clock, [view EXCEPT !.quiet = TRUE])

ToNow ==
    /\ view.screen = "plan" /\ ~view.follow
    /\ view' = [view EXCEPT !.follow = TRUE, !.quiet = TRUE]
    /\ UNCHANGED <<clock, active, plan, told, again, watched>>

Next ==
    \/ Minute \/ ClockSet \/ ContactLost \/ ContactBack
    \/ \E duty \in Duties : Activate(duty)
    \/ EndDuty
    \/ \E duty \in BOOLEAN : PressTab(duty)
    \/ ShowPlan \/ LanguageChanged \/ Touch \/ Quiet \/ ToNow

Fairness == WF_vars(Quiet)

Spec == Init /\ [][Next]_vars /\ Fairness
-----------------------------------------------------------------------------
(* Properties *)

TypeOK ==
    /\ clock.time \in 0 .. Day - 1
    /\ plan # None => plan.n <= view.activations
    /\ view.screen \in {"choose", "countdown", "plan", "other"}
    /\ view.fired \subseteq Reminders

\* The axis grows strictly, also through rows of the same minute, a midnight
\* and the gaps that are pressed together (korplan.js, build).
AxisGrows ==
    plan # None =>
        LET a == Plans[plan.duty].anchors IN \A i \in 2 .. Len(a) : a[i - 1].t < a[i].t /\ a[i - 1].y < a[i].y

\* What the plan calls next is the soonest moment that is to come, and its
\* duty is the one the catalogue lists as going on.
NextIsSoonest ==
    plan # None /\ Seconds # -1 =>
        LET now == AxisMinutes(Seconds, Plans[plan.duty])
            to_come == {m \in Range(Plans[plan.duty].moments) : m.t > now}
            next == NextMoment(Plans[plan.duty], now)
        IN  /\ IF to_come = {} THEN next = Ended ELSE \A m \in to_come : next.t <= m.t
            /\ InTime(Plans[plan.duty].start % Day, Plans[plan.duty].end % Day, "ongoing", Seconds)
                 <=> (Plans[plan.duty].start <= now /\ now < Plans[plan.duty].end)

\* A reminder is given once for an activation, though the clock may be turned
\* back, and a driver who has watched the clock come through its two minutes
\* has been given it.
Reminded ==
    /\ ~again
    /\ watched /\ Seconds # -1 /\ plan # None =>
           \A b \in Thresholds : Left(plan, Seconds) \in b - 1 .. b => <<active.n, b>> \in told

Safe == AxisGrows /\ NextIsSoonest /\ Reminded

\* While the clock goes on the line goes on: it never turns back on the axis.
LineStep ==
    plan # None /\ plan' = plan /\ clock.contact /\ clock'.contact /\ clock'.time = (clock.time + 1) % Day
        /\ AxisMinutes(clock.time, Plans[plan.duty]) \in Plans[plan.duty].start - PreRoll .. Plans[plan.duty].end + PostRoll
        => YAt(Plans[plan.duty], AxisMinutes(clock.time, Plans[plan.duty])) <= YAt(Plans[plan.duty], AxisMinutes(clock'.time, Plans[plan.duty]))

\* A list that is let go of follows the line again.
Working == ~view.touching
UpToDate == view.follow \/ view.screen # "plan"
=============================================================================
