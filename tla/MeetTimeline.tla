---------------------------- MODULE MeetTimeline ----------------------------
(***************************************************************************)
(* The timeline of Drift (web/meet-timeline.js): the days of the meet on   *)
(* one axis, the plan of a jump, the jump and its undo.  The timeline      *)
(* fetches when the stream (LiveFeed) says that the meet changed, and by   *)
(* itself only while there is no stream.                                   *)
(*                                                                         *)
(* Every change of the meet is one event of the stream: server.news says   *)
(* which state a fetch has seen.  Minutes stand for the seconds of a day;  *)
(* the clock of the meet stands between two changes.                       *)
(***************************************************************************)
EXTENDS LiveFeed, Integers, FiniteSets

CONSTANTS
    Start,      \* the minute each day of the meet starts
    Length,     \* how long it is
    Least,      \* the days the server shows unless it is asked for more
    STEP        \* the step of the slider

VARIABLES
    meet,       \* [now, undo]: where the meet stands, and the jump that may be undone
    view,       \* the page's own state
    asks,       \* requests under way
    steady      \* external: from here on every answer is heard

vars == <<feedVars, meet, view, asks, steady>>

Days == DOMAIN Start
Points == UNION {{[day |-> d, at |-> m] : m \in Start[d]..(Start[d] + Length[d] - 1)} : d \in Days}
Morning(day) == [day |-> day, at |-> Start[day]]

(* ------------------------------ the axis -------------------------------- *)

Offset[day \in Days] == IF day = 1 THEN 0 ELSE Offset[day - 1] + Length[day - 1]

Total(days) == Offset[days] + Length[days]

\* toAxis: a day that is not shown is at the beginning.
ToAxis(point, days) ==
    IF point.day > days THEN 0
    ELSE Offset[point.day] + IF point.at > Start[point.day] THEN point.at - Start[point.day] ELSE 0

\* fromAxis: the last day that begins before x.
FromAxis(x, days) ==
    LET day == CHOOSE d \in 1..days : /\ Offset[d] <= x
                                      /\ \A e \in 1..days : Offset[e] <= x => e <= d
        into == IF x - Offset[day] < Length[day] THEN x - Offset[day] ELSE Length[day] - 1
    IN [day |-> day, at |-> Start[day] + into]

Apart(a, b, days) ==
    LET x == ToAxis(a, days)  y == ToAxis(b, days) IN IF x < y THEN y - x ELSE x - y

(* ------------------------------- the page ------------------------------- *)

Blank == [data |-> None, target |-> None,
          extra |-> FALSE, busy |-> FALSE, undo |-> None, done |-> FALSE, dismissed |-> None,
          loading |-> FALSE, visible |-> TRUE]

Init ==
    /\ FeedInit
    /\ meet = [now |-> Morning(1), undo |-> None]
    /\ view = [Blank EXCEPT !.loading = TRUE]
    /\ asks = {[kind |-> "load", days |-> Least, plan |-> None, got |-> None]}
    /\ steady = FALSE

Larger(a, b) == IF a < b THEN b ELSE a

\* load: one at a time, and only while Drift is in view.  `plan` is the day a step
\* waits for.
MayLoad(v) == v.visible /\ ~v.loading

LoadOf(v, plan) ==
    [kind |-> "load", got |-> None, plan |-> plan,
     days |-> IF v.extra THEN Larger(Least, (IF v.data = None THEN 0 ELSE v.data.days) + 1)
              ELSE Least]

Load(v) ==
    IF MayLoad(v)
    THEN /\ view' = [v EXCEPT !.loading = TRUE]
         /\ asks' = asks \cup {LoadOf(v, None)}
    ELSE view' = v /\ UNCHANGED asks

\* keepUndo: the offer of the server, unless the operator has kept that jump; the
\* text of a jump just made stays a while even without one.
KeepUndo(v, offer) ==
    IF offer # None /\ offer # v.dismissed
    THEN {[v EXCEPT !.undo = offer, !.done = v.done /\ v.undo = offer]}
    ELSE {[v EXCEPT !.undo = None, !.done = FALSE]} \cup (IF v.done THEN {v} ELSE {})

\* setTarget: a point nearer than a step to where the meet stands is no target.
SetTarget(v, point) ==
    IF v.data = None THEN v
    ELSE LET days == v.data.days
             x == ToAxis(point, days)
             snapped == FromAxis(IF x < Total(days) THEN x ELSE Total(days) - 1, days)
         IN [v EXCEPT !.target =
                IF Apart(snapped, v.data.now, days) < STEP THEN None ELSE snapped]

\* The day a step went to, at the time it left.
StepTo(v, plan) ==
    IF plan = None \/ v.data = None THEN v
    ELSE IF plan.day > v.data.days THEN v
    ELSE LET first == Start[plan.day]
             last == Start[plan.day] + Length[plan.day] - 1
             at == Larger(first, IF plan.at < last THEN plan.at ELSE last)
         IN SetTarget(v, [day |-> plan.day, at |-> at])

(* ------------------------------ what is asked ---------------------------- *)

\* The server reads the request: the days asked for, and the meet as it stands.
LoadServed(a) ==
    /\ a.kind = "load" /\ a.got = None
    /\ asks' = (asks \ {a}) \cup
         {[a EXCEPT !.got = [news |-> server.news, now |-> meet.now, undo |-> meet.undo,
                             days |-> IF a.days \in Days THEN Larger(a.days, Least)
                                      ELSE Cardinality(Days)]]}
    /\ UNCHANGED <<feedVars, meet, view, steady>>

LoadAnswered(a) ==
    /\ a.kind = "load" /\ a.got # None
    /\ \E v \in (IF view.busy THEN {view} ELSE KeepUndo(view, a.got.undo)) :
         view' = StepTo([v EXCEPT !.data = a.got, !.extra = FALSE, !.loading = FALSE], a.plan)
    /\ asks' = asks \ {a}
    /\ UNCHANGED <<feedVars, meet, steady>>

\* No answer: a step goes on with the days there are.
LoadFailed(a) ==
    /\ a.kind = "load" /\ ~steady
    /\ view' = StepTo([view EXCEPT !.loading = FALSE], a.plan)
    /\ asks' = asks \ {a}
    /\ UNCHANGED <<feedVars, meet, steady>>

(* ------------------------------ the jump -------------------------------- *)

Jump ==
    /\ view.target # None /\ ~view.busy
    /\ view' = [view EXCEPT !.busy = TRUE]
    /\ asks' = asks \cup {[kind |-> "jump", to |-> view.target, got |-> None]}
    /\ UNCHANGED <<feedVars, meet, steady>>

\* The server moves the meet and takes a backup: the offer to undo it.
JumpServed(a) ==
    /\ a.kind = "jump" /\ a.got = None
    /\ \/ /\ Publish("runtime")
          /\ meet' = [now |-> a.to, undo |-> server.total + 1]
          /\ asks' = (asks \ {a}) \cup {[a EXCEPT !.got = server.total + 1]}
          /\ UNCHANGED <<view, steady>>
       \/ /\ view' = [view EXCEPT !.busy = FALSE]
          /\ asks' = asks \ {a}
          /\ UNCHANGED <<feedVars, meet, steady>>

\* After a jump the page refreshes the rest of Drift and then the timeline.
JumpAnswered(a) ==
    /\ a.kind = "jump" /\ a.got # None
    /\ view' = [view EXCEPT !.target = None,
                            !.undo = a.got, !.done = TRUE, !.busy = FALSE]
    /\ asks' = (asks \ {a}) \cup {[kind |-> "refresh"]}
    /\ UNCHANGED <<feedVars, meet, steady>>

Refreshed(a) ==
    /\ a.kind = "refresh"
    /\ view' = IF MayLoad(view) THEN [view EXCEPT !.loading = TRUE] ELSE view
    /\ asks' = (asks \ {a}) \cup (IF MayLoad(view) THEN {LoadOf(view, None)} ELSE {})
    /\ UNCHANGED <<feedVars, meet, steady>>

Undo ==
    /\ view.undo # None /\ ~view.busy
    /\ view' = [view EXCEPT !.busy = TRUE]
    /\ asks' = asks \cup {[kind |-> "undo", backup |-> view.undo, got |-> None]}
    /\ UNCHANGED <<feedVars, meet, steady>>

\* The server puts back the backup it offers and starts again; any other is refused.
UndoServed(a) ==
    /\ a.kind = "undo" /\ a.got = None
    /\ \/ /\ a.backup = meet.undo
          /\ Publish("runtime")
          /\ \E day \in Days : meet' = [now |-> Morning(day), undo |-> None]
          /\ asks' = (asks \ {a}) \cup {[a EXCEPT !.got = a.backup]}
          /\ UNCHANGED <<view, steady>>
       \/ /\ view' = [view EXCEPT !.busy = FALSE]
          /\ asks' = asks \ {a}
          /\ UNCHANGED <<feedVars, meet, steady>>

\* The page waits for the server and loads anew.
UndoAnswered(a) ==
    /\ a.kind = "undo" /\ a.got # None
    /\ view' = [Blank EXCEPT !.loading = TRUE]
    /\ asks' = {[kind |-> "load", days |-> Least, plan |-> None, got |-> None]}
    /\ stream' = [state |-> "connecting", sent |-> <<>>]
    /\ feed' = [last |-> None, connected |-> FALSE, pending |-> {}]
    /\ UNCHANGED <<server, meet, steady>>

\* A lost answer to a jump or an undo gives the buttons back.
GivenUp(a) ==
    /\ a.kind \in {"jump", "undo"} /\ ~steady
    /\ view' = [view EXCEPT !.busy = FALSE]
    /\ asks' = asks \ {a}
    /\ UNCHANGED <<feedVars, meet, steady>>

\* Behall hoppet: that offer is not shown again.
KeepJump ==
    /\ view.undo # None
    /\ view' = [view EXCEPT !.dismissed = view.undo, !.undo = None, !.done = FALSE]
    /\ UNCHANGED <<feedVars, meet, asks, steady>>

(* ----------------------------- the operator ------------------------------ *)

Drag == /\ view.data # None
        /\ \E n \in 0..(Total(view.data.days) \div STEP) :
             view' = SetTarget(view, FromAxis(n * STEP, view.data.days))
        /\ UNCHANGED <<feedVars, meet, asks, steady>>

\* cancel, and the button Now.
Now == /\ view' = [view EXCEPT !.target = None]
       /\ UNCHANGED <<feedVars, meet, asks, steady>>

From(v) == IF v.target # None THEN v.target ELSE v.data.now

\* The start of the day, and the next day and the one before: a day that is not
\* shown is fetched first, unless a fetch is under way.
StepDay(k) ==
    /\ view.data # None
    /\ LET plan == [day |-> From(view).day + k, at |-> From(view).at]
       IN /\ plan.day \in Days
          /\ IF plan.day <= view.data.days
             THEN view' = StepTo(view, IF k = 0 THEN [plan EXCEPT !.at = Start[plan.day]] ELSE plan)
                  /\ UNCHANGED asks
             ELSE LET v == [view EXCEPT !.extra = TRUE]
                  IN IF MayLoad(v)
                     THEN /\ view' = [v EXCEPT !.loading = TRUE]
                          /\ asks' = asks \cup {LoadOf(v, plan)}
                     ELSE view' = v /\ UNCHANGED asks
    /\ UNCHANGED <<feedVars, meet, steady>>

\* Another page of the workspace, and Drift again.
Turn == /\ view' = [view EXCEPT !.visible = ~@]
        /\ UNCHANGED <<feedVars, meet, asks, steady>>

(* ------------------------------ the events ------------------------------- *)

\* The timer of the page: only without a stream, or without an answer yet.
Tick ==
    /\ view.data = None \/ ~feed.connected
    /\ MayLoad(view)
    /\ Load(view)
    /\ UNCHANGED <<feedVars, meet, steady>>

Flush ==
    /\ feed.pending # {} /\ Flushed
    /\ IF feed.pending \cap Watched # {} THEN Load(view) ELSE UNCHANGED <<view, asks>>
    /\ UNCHANGED <<server, stream, meet, steady>>

\* Anyone else moves the meet: a new day, a jump from another page, the clock.
Moved ==
    /\ Publish("runtime")
    /\ \E day \in Days, undo \in {None, server.total + 1} :
         meet' = [now |-> Morning(day), undo |-> undo]
    /\ UNCHANGED <<view, asks, steady>>

Stream ==
    /\ Accept \/ Reopen \/ Hear
    /\ UNCHANGED <<meet, view, asks, steady>>

StreamBroken ==
    /\ ~steady
    /\ \E state \in {"connecting", "closed"} : Broken(state)
    /\ UNCHANGED <<meet, view, asks, steady>>

Network == /\ ~steady /\ steady' = TRUE
           /\ UNCHANGED <<feedVars, meet, view, asks>>

Serve == \E a \in asks : LoadServed(a) \/ JumpServed(a) \/ UndoServed(a)
Receive == \E a \in asks : \/ LoadAnswered(a) \/ JumpAnswered(a)
                           \/ Refreshed(a) \/ UndoAnswered(a)
Lose == \E a \in asks : LoadFailed(a) \/ GivenUp(a)
Operate == \/ Jump \/ Undo \/ KeepJump \/ Drag \/ Now \/ Turn
           \/ \E k \in -1..1 : StepDay(k)

Next == \/ Serve \/ Receive \/ Lose \/ Operate
        \/ Tick \/ Flush \/ Moved \/ Stream \/ StreamBroken \/ Network

\* A load that the server has read comes to its end.
LoadEnds == \E a \in asks : a.kind = "load" /\ a.got # None /\ asks' = asks \ {a}

\* The server answers, the timer goes off and the stream delivers.
Fairness ==
    /\ WF_vars(Tick)
    /\ WF_vars(\E a \in asks : LoadServed(a))
    /\ WF_asks(LoadEnds)
    /\ WF_vars(Stream)
    /\ WF_vars(Flush)

Spec == Init /\ [][Next]_vars /\ Fairness

(* ------------------------------ properties ------------------------------- *)

TypeOK ==
    /\ FeedTypeOK
    /\ meet \in [now: Points, undo: 0..MaxEvents \cup {None}]
    /\ DOMAIN view = DOMAIN Blank
    /\ view.target \in Points \cup {None}
    /\ view.visible \in BOOLEAN

\* A jump the operator chose to keep is not offered for undoing again (keepUndo).
KeptIsNotOffered == view.dismissed # None => view.undo # view.dismissed

\* One fetch of the timeline at a time, and `loading` says so.
OneLoad == Cardinality({a \in asks : a.kind = "load"}) = IF view.loading THEN 1 ELSE 0

\* What is set on the axis is read back from it, on days of any length.
AxisIsWhole ==
    view.data # None =>
        \A x \in 0..(Total(view.data.days) - 1) :
            ToAxis(FromAxis(x, view.data.days), view.data.days) = x

Safe == KeptIsNotOffered /\ OneLoad /\ AxisIsWhole

Working == steady /\ view.visible
UpToDate == view.data # None /\ view.data.news = server.news
=============================================================================
