----------------------------- MODULE DayNotice -----------------------------
(***************************************************************************)
(* The toast of the change of day on every page (display-feed.js and       *)
(* day-change.js).  The page asks for /v1/display every two or ten seconds *)
(* and at once when the clock, the meet or an automatic station changed,   *)
(* so two questions may be under way and be answered in any order.  A      *)
(* change is said once in a tab, within SHOWN_SECONDS of it; that the      *)
(* change waits for a train is said as long as it does.                    *)
(***************************************************************************)
EXTENDS Naturals

CONSTANT MaxDays

VARIABLES
    server,  \* external: [day, waiting, fresh, steady]
    asks,    \* the questions under way
    toast,   \* what is shown: Nothing, Waiting, or the day of the change
    kept,    \* sessionStorage: the last change shown
    timer,   \* the next question is due
    times    \* history: how often each change has been said

vars == <<server, asks, toast, kept, timer, times>>

Slots == {1, 2}
Picture == [state: {"free", "asked", "served"}, day: 0..MaxDays, waiting: BOOLEAN, fresh: BOOLEAN]
Blank(state) == [state |-> state, day |-> 0, waiting |-> FALSE, fresh |-> FALSE]
Free == Blank("free")
Asked == Blank("asked")
Nothing == 0
Waiting == MaxDays + 1

Init ==
    /\ \E day \in {0, 1}, waiting, fresh \in BOOLEAN :
         server = [day |-> day, waiting |-> waiting, fresh |-> fresh /\ day > 0, steady |-> TRUE]
    /\ asks = [s \in Slots |-> IF s = 1 THEN Asked ELSE Free]
    /\ toast = Nothing /\ kept = 0 /\ timer = FALSE
    /\ times = [day \in 1..MaxDays |-> 0]

(* ------------------------------ the server ------------------------------ *)

\* A day lasts far longer than a change is told or a question is under way.
NextDay ==
    /\ server.day < MaxDays /\ ~server.fresh
    /\ \A s \in Slots : ~asks[s].fresh
    /\ server' = [server EXCEPT !.day = @ + 1, !.fresh = TRUE, !.waiting = FALSE]
    /\ UNCHANGED <<asks, toast, kept, timer, times>>

Changes ==
    /\ server' \in {[server EXCEPT !.fresh = FALSE], [server EXCEPT !.waiting = ~@],
                    [server EXCEPT !.steady = ~@]}
    /\ UNCHANGED <<asks, toast, kept, timer, times>>

Serve(s) ==
    /\ asks[s].state = "asked"
    /\ asks' = [asks EXCEPT ![s] = [state |-> "served", day |-> server.day, waiting |-> server.waiting,
                     fresh |-> server.fresh]]
    /\ UNCHANGED <<server, toast, kept, timer, times>>

(* ------------------------------- the page ------------------------------- *)

\* notice: a change not said before in this tab, else that one is waited for.
Notice(picture, seen) ==
    IF picture.day > 0 /\ picture.fresh /\ picture.day # seen THEN picture.day
    ELSE IF picture.waiting THEN Waiting ELSE Nothing

IsChange(item) == item \notin {Nothing, Waiting}

ShownUntilClosed(item) ==
    CASE IsChange(item) -> item
      [] item = Waiting -> IF IsChange(toast) THEN toast ELSE item
      [] OTHER -> toast

\* trainmeet:display: a change is shown and remembered; that the next one waits
\* never takes its place, and goes when nothing waits.
Shown(item) ==
    CASE IsChange(item) -> item
      [] item = Waiting -> IF IsChange(toast) THEN toast ELSE item
      [] OTHER -> IF toast = Waiting THEN Nothing ELSE toast

Answer(s) ==
    /\ asks[s].state = "served"
    /\ LET item == Notice(asks[s], kept) IN
         /\ toast' = Shown(item)
         /\ kept' = IF IsChange(item) THEN item ELSE kept
         /\ times' = IF IsChange(item) THEN [times EXCEPT ![item] = @ + 1] ELSE times
    /\ asks' = [asks EXCEPT ![s] = Free]
    /\ timer' = TRUE
    /\ UNCHANGED server

\* No contact: the next question comes by itself.
Fail(s) ==
    /\ asks[s] # Free /\ ~server.steady
    /\ asks' = [asks EXCEPT ![s] = Free]
    /\ timer' = TRUE
    /\ UNCHANGED <<server, toast, kept, times>>

\* refresh, by the timer or by a change the stream told of.
Ask(s) ==
    /\ asks[s] = Free
    /\ asks' = [asks EXCEPT ![s] = Asked]
    /\ timer' = FALSE
    /\ UNCHANGED <<server, toast, kept, times>>

Refresh == \E s \in Slots : Ask(s)
Tick == timer /\ Refresh

\* VISIBLE_MS after the change was shown, or a click on the toast.
Hide(click) ==
    /\ toast # Nothing /\ (click \/ IsChange(toast))
    /\ toast' = Nothing
    /\ UNCHANGED <<server, asks, kept, timer, times>>

\* The page is loaded again, or the next one of the tab is.
Reload ==
    /\ toast' = Nothing /\ timer' = FALSE
    /\ asks' = [s \in Slots |-> IF s = 1 THEN Asked ELSE Free]
    /\ UNCHANGED <<server, kept, times>>

Next ==
    \/ NextDay \/ Changes \/ Refresh \/ Reload \/ Hide(TRUE)
    \/ \E s \in Slots : Serve(s) \/ Answer(s) \/ Fail(s)

Fairness ==
    /\ WF_vars(Tick) /\ WF_vars(Hide(FALSE))
    /\ \A s \in Slots : WF_vars(Serve(s)) /\ WF_vars(Answer(s))

Spec == Init /\ [][Next]_vars /\ Fairness

TypeOK ==
    /\ server \in [day: 0..MaxDays, waiting: BOOLEAN, fresh: BOOLEAN, steady: BOOLEAN]
    /\ asks \in [Slots -> Picture]
    /\ toast \in 0..Waiting
    /\ kept \in 0..MaxDays /\ timer \in BOOLEAN

\* "So that the same change is not shown twice" (day-change.js:23), however the
\* answers overlap and the pages of the tab are loaded.
SaidOnce == \A day \in 1..MaxDays : times[day] <= 1

Working == server.steady
\* What is on the page is true of the server.
UpToDate == (toast = Waiting => server.waiting) /\ (IsChange(toast) => toast = server.day)
=============================================================================
