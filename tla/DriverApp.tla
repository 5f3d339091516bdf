----------------------------- MODULE DriverApp -----------------------------
(***************************************************************************)
(* The driver's app in the phone (web/lokforaren/app.js): the session and  *)
(* its copy for twelve hours without contact, the tabs, the catalogue of   *)
(* duties, the choice, the activation and the end of a duty, and the clock *)
(* that is asked for every two seconds.  The server is external.           *)
(*                                                                         *)
(* A question that only reads is answered when its answer arrives, by what *)
(* the server may have seen since it was sent; a change is decided when it *)
(* is sent, and its answer arrives later.  The duty of a user may change   *)
(* at the server at any time (another phone, another meet).  app.picked    *)
(* holds the duties pressed since the choice was last taken away (history).*)
(***************************************************************************)
EXTENDS Integers, FiniteSets

CONSTANTS Users, Duties, None

VARIABLES server,   \* external: is every answer heard, whose cookie is valid
          app,      \* the page
          kept,     \* the copy of the session in the phone
          asks,     \* the questions under way
          left      \* history: logged out here, and not let in since

vars == <<server, app, kept, asks, left>>

Session(user, active) == [user |-> user, active |-> active]
Question == [by |-> server.cookie, fresh |-> TRUE]

Init ==
    /\ \E cookie \in Users \cup {None} : server = [steady |-> TRUE, cookie |-> cookie]
    /\ \E user \in Users : kept \in {None, Session(user, None)}
    /\ app = [session |-> None, tab |-> "duty", choosing |-> FALSE,
              screen |-> "start", duties |-> "unknown", loading |-> FALSE, chosen |-> None,
              picked |-> {}, polling |-> FALSE, heard |-> FALSE]
    /\ asks = [session |-> Question, clock |-> None, catalog |-> None, choice |-> None, change |-> None]
    /\ left = FALSE

-----------------------------------------------------------------------------
(* The server (external) *)

\* What the answer to a question may be: a cookie that is not valid any more
\* may have been so when the server saw it.
Answers(q) ==
    {kind \in {"yes", "unknown", "failed"} :
        CASE kind = "yes" -> q.by # None
          [] kind = "unknown" -> q.by = None \/ q.by # server.cookie
          [] kind = "failed" -> ~server.steady}

ServerSteps ==
    /\ \/ server' = [server EXCEPT !.steady = ~@]
       \/ server' = [server EXCEPT !.cookie = None]
    /\ UNCHANGED <<app, kept, asks, left>>

-----------------------------------------------------------------------------
(* The page *)

Stale(q) == IF q = None THEN None ELSE [q EXCEPT !.fresh = FALSE]

\* clearDutyChoice: a press whose answer has not come chooses nothing.
NoChoice(a) == [a EXCEPT !.chosen = None, !.picked = {}]
ChoiceDropped(s) == [s EXCEPT !.choice = Stale(@)]

SaveOffline(a) == kept' = IF a.session # None THEN a.session ELSE kept

\* showLogin: the timer of the clock goes too, but a question under way sets it again.
LoginPage(a, polling) ==
    [NoChoice(a) EXCEPT !.session = None, !.duties = "unknown", !.loading = FALSE,
                        !.screen = "login", !.polling = polling]
ShowLogin(s, polling) ==
    /\ app' = LoginPage(app, polling)
    /\ asks' = [ChoiceDropped(s) EXCEPT !.catalog = Stale(@)]

\* route: the screen of the tab; the catalogue is asked for when it is wanted.
ScreenOf(a) ==
    CASE a.tab = "drivers" -> "drivers"
      [] a.tab = "me" -> "me"
      [] OTHER -> IF a.session.active = None \/ a.choosing THEN "choose" ELSE "duty"

\* searchDuties takes the choice away and asks once more.
Searching(a) == [NoChoice(a) EXCEPT !.duties = "unknown", !.loading = TRUE]
SearchSent(s) == [ChoiceDropped(s) EXCEPT !.catalog = Question]

Routed(a, s) ==
    IF a.session = None THEN app' = a /\ asks' = s
    ELSE LET b == [a EXCEPT !.screen = ScreenOf(a)] IN
         IF b.screen = "choose" /\ b.duties = "unknown" /\ ~b.loading
         THEN app' = Searching(b) /\ asks' = SearchSent(s)
         ELSE app' = b /\ asks' = s

\* loadSession, at the start and after a login.  Without contact the kept
\* session is used, if it is younger than twelve hours.
Enter(session, heard) ==
    Routed([app EXCEPT !.session = session, !.polling = TRUE, !.heard = heard],
           [asks EXCEPT !.session = None, !.catalog = Stale(@), !.choice = Stale(@)])

SessionAnswered ==
    /\ asks.session # None
    /\ \E kind \in Answers(asks.session), young \in BOOLEAN, active \in Duties \cup {None} :
         CASE kind = "yes" ->
                LET session == Session(asks.session.by, active)
                IN  Enter(session, TRUE) /\ kept' = session /\ left' = FALSE
           [] kind = "unknown" -> /\ ShowLogin([asks EXCEPT !.session = None], asks.clock # None)
                                /\ UNCHANGED <<kept, left>>
           [] kind = "failed" ->
                IF kept # None /\ young THEN Enter(kept, FALSE) /\ UNCHANGED <<kept, left>>
                ELSE /\ app' = [app EXCEPT !.screen = "login"]
                     /\ asks' = [asks EXCEPT !.session = None] /\ UNCHANGED <<kept, left>>
    /\ UNCHANGED server

Login ==
    /\ app.screen = "login" /\ asks.session = None
    /\ \E user \in Users :
         /\ server' = [server EXCEPT !.cookie = user]
         /\ asks' = [asks EXCEPT !.session = [by |-> user, fresh |-> TRUE]]
    /\ UNCHANGED <<app, kept, left>>

\* The answer to the logout is waited for, and the login screen comes anyway.
Logout ==
    /\ app.screen = "me"
    /\ \E reached \in BOOLEAN :
         /\ server.steady => reached
         /\ server' = [server EXCEPT !.cookie = IF reached THEN None ELSE @]
    /\ kept' = None /\ left' = TRUE
    /\ ShowLogin(asks, asks.clock # None)

PollClock ==
    /\ app.polling /\ asks.clock = None
    /\ asks' = [asks EXCEPT !.clock = Question]
    /\ UNCHANGED <<server, app, kept, left>>

\* pollClock: contact ends the offline mode; a session that is not known ends the
\* session, and the timer is set again whatever came.
ClockAnswered ==
    /\ asks.clock # None
    /\ \E kind \in Answers(asks.clock) :
         CASE kind = "yes" -> /\ app' = [app EXCEPT !.heard = TRUE, !.polling = TRUE]
                              /\ asks' = [asks EXCEPT !.clock = None]
           [] kind = "unknown" -> ShowLogin([asks EXCEPT !.clock = None], TRUE)
           [] kind = "failed" -> /\ app' = [app EXCEPT !.polling = TRUE]
                                 /\ asks' = [asks EXCEPT !.clock = None]
    /\ UNCHANGED <<server, kept, left>>

\* clockMode: twelve seconds without an answer.
ClockLost ==
    /\ ~server.steady \/ server.cookie = None
    /\ app.heard /\ app' = [app EXCEPT !.heard = FALSE]
    /\ UNCHANGED <<server, kept, asks, left>>

-----------------------------------------------------------------------------
(* The tabs and the choice of a duty *)

PressTab(tab) ==
    /\ app.session # None
    /\ Routed([app EXCEPT !.choosing = FALSE, !.tab = tab], asks)
    /\ UNCHANGED <<server, kept, left>>

OpenChoose ==
    /\ app.session # None
    /\ Routed([app EXCEPT !.choosing = TRUE, !.chosen = None, !.duties = "unknown", !.tab = "catalog"], asks)
    /\ UNCHANGED <<server, kept, left>>

\* Cancel, and the filters: what was chosen before them is not shown any more.
LeaveChoose ==
    /\ app.screen = "choose" /\ app.session.active # None
    /\ Routed([app EXCEPT !.choosing = FALSE, !.tab = "duty"], asks)
    /\ UNCHANGED <<server, kept, left>>

FilterChanged ==
    /\ app.screen = "choose"
    /\ app' = NoChoice(app) /\ asks' = ChoiceDropped(asks)
    /\ UNCHANGED <<server, kept, left>>

Retry ==
    /\ app.screen = "choose" /\ app.duties = "failed"
    /\ app' = Searching(app) /\ asks' = SearchSent(asks)
    /\ UNCHANGED <<server, kept, left>>

CatalogAnswered ==
    /\ asks.catalog # None
    /\ \E kind \in Answers(asks.catalog) :
         IF ~asks.catalog.fresh THEN app' = app /\ asks' = [asks EXCEPT !.catalog = None]
         ELSE CASE kind = "yes" -> /\ app' = [app EXCEPT !.duties = "known", !.loading = FALSE]
                                   /\ asks' = [asks EXCEPT !.catalog = None]
                [] kind = "unknown" -> ShowLogin([asks EXCEPT !.catalog = None], asks.clock # None)
                [] kind = "failed" -> /\ app' = [app EXCEPT !.duties = "failed", !.loading = FALSE]
                                      /\ asks' = [asks EXCEPT !.catalog = None]
    /\ UNCHANGED <<server, kept, left>>

\* Bound: two of these questions at a time, and one change.
Idle == Cardinality({k \in {"catalog", "choice", "change"} : asks[k] # None}) < 2

\* chooseDuty, pressed in the list or found as the only result of a number.
ChooseDuty(duty) ==
    /\ app.screen = "choose" /\ app.duties = "known" /\ (asks.choice = None => Idle)
    /\ app' = [app EXCEPT !.picked = @ \cup {duty}]
    /\ asks' = [asks EXCEPT !.choice = [by |-> server.cookie, fresh |-> TRUE, duty |-> duty]]
    /\ UNCHANGED <<server, kept, left>>

\* Mutated form of Chosen: the request is not compared with the latest one.
ChosenAnyway(a, q) == [a EXCEPT !.chosen = q.duty]

Chosen(a, q) == IF q.fresh THEN [a EXCEPT !.chosen = q.duty] ELSE a

ChoiceAnswered ==
    /\ asks.choice # None
    /\ \E kind \in Answers(asks.choice) :
         IF kind = "unknown" /\ asks.choice.fresh THEN ShowLogin([asks EXCEPT !.choice = None], asks.clock # None)
         ELSE /\ app' = IF kind = "yes" THEN Chosen(app, asks.choice) ELSE app
              /\ asks' = [asks EXCEPT !.choice = None]
    /\ UNCHANGED <<server, kept, left>>

-----------------------------------------------------------------------------
(* Changes at the server *)

\* activateDuty, endDuty, saveIcon, removeIcon and the switch of the profile:
\* sent with the cookie, done or not when the answer is lost.
Send(what, duty) ==
    /\ asks.change = None /\ Idle
    /\ \E kind \in {"yes", "unknown", "failed"} :
         /\ kind = "failed" => ~server.steady
         /\ kind # "failed" => (kind = "yes" <=> server.cookie # None)
         /\ asks' = [asks EXCEPT !.change = [what |-> what, duty |-> duty, by |-> server.cookie, kind |-> kind]]

ActivateDuty ==
    /\ app.screen = "choose" /\ app.chosen # None
    /\ Send("activate", app.chosen)
    /\ UNCHANGED <<server, app, kept, left>>

\* Two presses within four seconds; the first one only changes the label.
EndDuty ==
    /\ app.screen = "me" /\ app.session.active # None
    /\ Send("end", None)
    /\ UNCHANGED <<server, app, kept, left>>

SaveProfile ==
    /\ app.screen = "me"
    /\ Send("profile", None)
    /\ UNCHANGED <<server, app, kept, left>>

Activated(a, duty) == [a EXCEPT !.session.active = duty, !.choosing = FALSE, !.chosen = None, !.tab = "duty"]
Ended(a) == [a EXCEPT !.session.active = None]
Saved(a, user) == [a EXCEPT !.session.user = user]

\* The answer is written into the session of the moment; without one the
\* handler fails before it has saved anything.
ChangeAnswered ==
    /\ asks.change # None
    /\ LET q == asks.change
           rest == [asks EXCEPT !.change = None]
           a == CASE q.what = "activate" -> Activated(app, q.duty)
                  [] q.what = "end" -> Ended(app)
                  [] q.what = "profile" -> Saved(app, q.by)
       IN  CASE q.kind = "unknown" -> ShowLogin(rest, asks.clock # None) /\ UNCHANGED kept
             [] q.kind = "failed" \/ app.session = None -> app' = app /\ asks' = rest /\ UNCHANGED kept
             [] OTHER -> /\ IF q.what = "activate" THEN Routed(a, rest) ELSE app' = a /\ asks' = rest
                         /\ SaveOffline(a)
    /\ UNCHANGED <<server, left>>

\* The app is closed, or loads itself again, and is started anew.
Restart ==
    /\ app' = [app EXCEPT !.session = None, !.tab = "duty", !.choosing = FALSE,
                          !.screen = "start", !.duties = "unknown", !.loading = FALSE, !.chosen = None,
                          !.picked = {}, !.polling = FALSE, !.heard = FALSE]
    /\ asks' = [session |-> Question, clock |-> None, catalog |-> None, choice |-> None, change |-> None]
    /\ UNCHANGED <<server, kept, left>>

Next ==
    \/ ServerSteps \/ SessionAnswered \/ Login \/ Logout \/ PollClock \/ ClockAnswered \/ ClockLost
    \/ \E tab \in {"duty", "drivers", "me"} : PressTab(tab)
    \/ OpenChoose \/ LeaveChoose \/ FilterChanged \/ Retry \/ CatalogAnswered
    \/ \E duty \in Duties : ChooseDuty(duty)
    \/ ChoiceAnswered \/ ActivateDuty \/ EndDuty \/ SaveProfile \/ ChangeAnswered
    \/ Restart

\* Answers arrive and the timer of the clock fires.
Fairness ==
    /\ WF_vars(SessionAnswered) /\ WF_vars(PollClock) /\ WF_vars(ClockAnswered)

Spec == Init /\ [][Next]_vars /\ Fairness
-----------------------------------------------------------------------------
(* Properties *)

TypeOK ==
    /\ app.session \in {None} \cup [user : Users, active : Duties \cup {None}]
    /\ app.duties \in {"unknown", "known", "failed"}
    /\ app.screen \in {"start", "login"} <=> app.session = None
    /\ app.loading => asks.catalog # None /\ asks.catalog.fresh
    /\ app.polling \/ asks.clock # None \/ app.session = None

\* The duty the activation names was pressed in the list that is shown: the
\* answer to a press before a filter, a search or another session chooses
\* nothing (chooseDuty, clearDutyChoice).
ChosenIsPicked == app.chosen # None => app.chosen \in app.picked

\* The copy in the phone is what the driver saw last, so that a start without
\* contact shows the same duty (saveOffline).
KeptIsShown == app.session # None => kept = app.session

\* After a logout nothing of the session is left in the page or in the phone,
\* whichever answers come after it.
LoggedOutForgets == left => app.session = None /\ kept = None /\ app.chosen = None

Safe == ChosenIsPicked /\ KeptIsShown /\ LoggedOutForgets

\* With contact the clock comes back, and a session that ended at the server
\* ends in the phone.
Working == server.steady
UpToDate == app.screen = "login" \/ (app.heard /\ server.cookie # None)
=============================================================================
