------------------------------ MODULE MCPhones ------------------------------
(* The pages of the phones on small sets for TLC: the driver's application (its   *)
(* session, its line, its check-ins) and the box in a browser (WebTerminal).  A   *)
(* behaviour is that of one part; the parts share no state but the session, which *)
(* is DriverApp's alone, so that nothing is lost by looking at one at a time.     *)
EXTENDS Naturals

CONSTANTS PagesOpen, \* the parts looked at
          None,
          Users, Catalog,                                  \* DriverApp
          Times, MaxActivations, MaxSilence, Last,   \* DriverTimeline
          Drivers, Me, Stations, Midnight, Visible, Fading, MaxMinutes, MaxAsks,  \* DriverPresence
          MaxContext, MaxRevision                          \* WebTerminal

Planning == INSTANCE DriverPlan

\* The duties of the small instance: one over midnight with rows of the same minute, and
\* one with a long gap and a proposal between two trains.
Event(kind, station, train, t, t2, notes) ==
    [kind |-> kind, station |-> station, train |-> train, t |-> t, t2 |-> t2, notes |-> notes]
MCDutyTable ==
    [d1 |-> <<Event("duty_start", "A", "", 1435, 1435, 1), Event("departure", "A", "1", 1435, 1435, 0),
              Event("stop", "B", "1", 1439, 2, 2), Event("pass", "C", "1", 2, 2, 0),
              Event("duty_end", "D", "", 4, 4, 0)>>,
     d2 |-> <<Event("duty_start", "A", "", 0, 0, 0), Event("arrival", "B", "1", 1, 1, 0),
              Event("departure", "B", "2", 42, 42, 1), Event("duty_end", "A", "", 43, 43, 0)>>]
MCPlans == [duty \in DOMAIN MCDutyTable |-> Planning!Build(MCDutyTable[duty])]

VARIABLES open, server, asks,
          app, kept, left,
          clock, active, plan, view, told, again, watched,
          hands, presence, armed, sheet,
          box, poll, press

App == INSTANCE DriverApp WITH Duties <- Catalog
Timeline == INSTANCE DriverTimeline WITH Plans <- MCPlans
Presence == INSTANCE DriverPresence
Box == INSTANCE WebTerminal

appVars == <<app, kept, left>>
timelineVars == <<clock, active, plan, view, told, again, watched>>
presenceVars == <<hands, presence, armed, sheet>>
boxVars == <<box, poll, press>>
vars == <<open, server, asks, appVars, timelineVars, presenceVars, boxVars>>

NoApp == app = None /\ kept = None /\ left = None
NoTimeline == /\ clock = None /\ active = None /\ plan = None /\ view = None
              /\ told = None /\ again = None /\ watched = None
NoPresence == hands = None /\ presence = None /\ armed = None /\ sheet = None
NoBox == box = None /\ poll = None /\ press = None

Init ==
    /\ open \in PagesOpen
    /\ \/ open = "app" /\ App!Init /\ NoTimeline /\ NoPresence /\ NoBox
       \/ open = "timeline" /\ Timeline!Init /\ server = None /\ asks = None /\ NoApp /\ NoPresence /\ NoBox
       \/ open = "presence" /\ Presence!Init /\ NoApp /\ NoTimeline /\ NoBox
       \/ open = "box" /\ Box!Init /\ asks = None /\ NoApp /\ NoTimeline /\ NoPresence

\* A step of one part.
InApp(A) == open = "app" /\ A /\ UNCHANGED <<open, timelineVars, presenceVars, boxVars>>
InTimeline(A) == open = "timeline" /\ A /\ UNCHANGED <<open, server, asks, appVars, presenceVars, boxVars>>
InPresence(A) == open = "presence" /\ A /\ UNCHANGED <<open, appVars, timelineVars, boxVars>>
InBox(A) == open = "box" /\ A /\ UNCHANGED <<open, asks, appVars, timelineVars, presenceVars>>

Next == InApp(App!Next) \/ InTimeline(Timeline!Next) \/ InPresence(Presence!Next) \/ InBox(Box!Next)

\* The fairness of each part, while it is the one that is open.
Fairness ==
    /\ WF_App!vars(open = "app" /\ App!SessionAnswered)
    /\ WF_App!vars(open = "app" /\ App!PollClock)
    /\ WF_App!vars(open = "app" /\ App!ClockAnswered)
    /\ WF_Timeline!vars(open = "timeline" /\ Timeline!Quiet)
    /\ WF_Presence!vars(open = "presence" /\ armed /\ Presence!Ask)
    /\ WF_Presence!vars(open = "presence" /\ Presence!Answered)
    /\ WF_Presence!vars(open = "presence" /\ Presence!ClockAnswered)
    /\ WF_Box!vars(open = "box" /\ Box!StartLive)
    /\ WF_Box!vars(open = "box" /\ Box!PollLive)
    /\ WF_Box!vars(open = "box" /\ Box!PollServed)
    /\ WF_Box!vars(open = "box" /\ Box!PollAnswered)
    /\ WF_Box!vars(open = "box" /\ Box!Pushed)
    /\ WF_Box!vars(open = "box" /\ Box!PressServed)
    /\ WF_Box!vars(open = "box" /\ Box!PressAnswered)
    /\ WF_Box!vars(open = "box" /\ Box!ConfirmLive)
    /\ WF_Box!vars(open = "box" /\ Box!PollTimetable)

Spec == Init /\ [][Next]_vars /\ Fairness
-----------------------------------------------------------------------------
\* The small instance
MCTimes == {1414}
MCShown == {"app", "timeline", "presence", "box"}
-----------------------------------------------------------------------------
\* What the phone shows the driver is true: the duty that is activated is one pressed
\* in the list shown, nothing outlives a logout, the plan's next moment is the soonest,
\* reminders come once, and no check-in is shown older than it is (lokforaren/); a box
\* holds digits only for the picture it shows (terminal.js).
PhoneIsTrue ==
    CASE open = "app" -> App!TypeOK /\ App!Safe
      [] open = "timeline" -> Timeline!TypeOK /\ Timeline!Safe
      [] open = "presence" -> Presence!TypeOK /\ Presence!Safe
      [] open = "box" -> Box!TypeOK

\* Neither the driver's line nor the pictures of a box turn back, whichever answer
\* comes first (korplan.js; apply, pollLive and press of terminal.js).
PhoneGoesForward ==
    [][/\ open = "timeline" => Timeline!LineStep
       /\ open = "box" => Box!OrderStep]_vars

Working ==
    CASE open = "app" -> App!Working
      [] open = "timeline" -> Timeline!Working
      [] open = "presence" -> Presence!Working
      [] open = "box" -> Box!Working
UpToDate ==
    CASE open = "app" -> App!UpToDate
      [] open = "timeline" -> Timeline!UpToDate
      [] open = "presence" -> Presence!UpToDate
      [] open = "box" -> Box!UpToDate

\* With contact each part comes back to what the server has: the clock of the driver,
\* the line that was let go of, the check-ins, and the picture of the box.
PhoneComesBack == <>[]Working => []<>UpToDate
=============================================================================
