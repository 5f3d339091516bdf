----------------------------- MODULE MCDisplays -----------------------------
(* The pages that show the meet, on small sets for TLC: the screen of the room    *)
(* (its reading loop, its entry, its clock), the notice of a day change, the map, *)
(* the board and the graph of the trains, and the timeline and the timetable of   *)
(* the administration.                                                            *)
(* A behaviour is that of one page; the pages share no state, so that nothing is  *)
(* lost by looking at one at a time.                                              *)
EXTENDS Integers, Sequences

CONSTANTS PagesOpen, \* the pages looked at
          None,
          MaxDays,                                       \* DayNotice
          Widths,                                        \* TrackMap
          Speeds, Settings, Delays, LastLook,            \* DisplayClock
          Begin, Horizon                                 \* TrainBoard

\* The stations and the lines of the small instance: a ring of three with a tail.
MCStations == <<"a", "b", "c", "d">>
MCLinks == <<<<"a", "b">>, <<"b", "c">>, <<"c", "d">>, <<"b", "d">>>>
MCLegs == {[departure |-> 120, duration |-> 240, length |-> 100]}

\* Two trains of one number, the second over midnight.
Call(station, arrival, departure) == [station |-> station, arrival |-> arrival, departure |-> departure]
MCPlan == [early |-> <<Call("a", None, 1432), Call("b", 1434, 1436), Call("c", 1438, None)>>,
           late  |-> <<Call("a", None, 1438), Call("b", 1441, None)>>]

\* Timetables: none, one train, and three with a train that leaves the line, one that
\* goes the other way and one that does not stop and comes the next day.
NoTime == -1
Stop(at, arrival, departure, track) ==
    [at |-> at, arrival |-> arrival, departure |-> departure, day |-> 0, track |-> track]
MCTables ==
    {<<>>,
     <<<<Stop("a", NoTime, 600, 1), Stop("b", 607, 610, 2), Stop("c", 620, NoTime, 0)>>>>,
     <<<<Stop("a", NoTime, 600, 1), Stop("b", 607, 610, 2), Stop("d", 615, 616, 1),
         Stop("c", 620, NoTime, 1)>>,
       <<Stop("d", NoTime, 700, 1), Stop("b", 703, NoTime, 1)>>,
       <<Stop("a", NoTime, 1435, 1), [Stop("c", 5, NoTime, 1) EXCEPT !.day = 1]>>>>}
MCSheets == {<<>>, <<<<"a", "b", "d">>, <<"b", "c">>>>}
MCTracks == [id \in {"a", "b", "c", "d"} |-> IF id = "b" THEN 3 ELSE IF id = "c" THEN 0 ELSE 1]
MCActual == {[service |-> 1, station |-> "b", track |-> 3]}
MCMainlines == {<<"b", "c">>}
MCBranches == {{"d"}}

\* Days of one and of two minutes.
MCStart == [d \in 1..2 |-> d]
MCLength == [d \in 1..2 |-> IF d = 2 THEN 2 ELSE 1]

\* Edits over one version that are discarded, and a version that replaces them.
MCBounds == {[bases |-> 1, generations |-> 3, ends |-> 1, days |-> TRUE],
             [bases |-> 2, generations |-> 3, ends |-> 1, days |-> FALSE]}

VARIABLES open, server, stream, feed, asks, steady, view,
          page, fetches,
          login, waits, guest,
          toast, kept, timer, times,
          net, place, names, side, round, ride,
          clock, sync, at, hands, left,
          kind, told, passed, live,
          picture, track, opened,
          meet,
          grid, fetching, save, order, asked, runtime, overwritten

Page == INSTANCE DisplayPage WITH Topics <- {"traffic", "devices"}, Watched <- {"traffic"},
                                  MaxEvents <- 2, MaxRestarts <- 1
Entry == INSTANCE DisplayEntry
Notice == INSTANCE DayNotice
Map == INSTANCE TrackMap WITH Stations <- MCStations, Links <- MCLinks, Legs <- MCLegs
Clock == INSTANCE DisplayClock WITH Start <- 86396
Board == INSTANCE TrainBoard WITH Plan <- MCPlan
Graph == INSTANCE TrainGraph WITH
    Stations <- MCStations, Links <- MCLinks, Tables <- MCTables, Sheets <- MCSheets,
    Mainlines <- MCMainlines, Branches <- MCBranches, Tracks <- MCTracks, Actual <- MCActual
Timeline == INSTANCE MeetTimeline WITH
    Start <- MCStart, Length <- MCLength, Least <- 1, STEP <- 2,
    Topics <- {"runtime"}, Watched <- {"runtime"}, MaxEvents <- 1, MaxRestarts <- 0
Table == INSTANCE TimetablePage WITH Mine <- {1}, Others <- {2}, Bounds <- MCBounds

streamVars == <<stream, feed>>
pageVars == <<page, fetches>>
entryVars == <<login, waits, guest>>
noticeVars == <<toast, kept, timer, times>>
mapVars == <<net, place, names, side, round, ride>>
clockVars == <<clock, sync, at, hands, left>>
boardVars == <<kind, told, passed, live>>
graphVars == <<picture, track, opened>>
tableVars == <<grid, fetching, save, order, asked, runtime, overwritten>>
sharedVars == <<server, asks, steady, view>>
vars == <<open, sharedVars, streamVars, pageVars, entryVars, noticeVars, mapVars,
          clockVars, boardVars, graphVars, meet, tableVars>>

NoShared == server = None /\ asks = None /\ steady = None /\ view = None
NoStream == stream = None /\ feed = None
NoPage == page = None /\ fetches = None
NoEntry == login = None /\ waits = None /\ guest = None
NoNotice == toast = None /\ kept = None /\ timer = None /\ times = None
NoMap == net = None /\ place = None /\ names = None /\ side = None /\ round = None /\ ride = None
NoClock == clock = None /\ sync = None /\ at = None /\ hands = None /\ left = None
NoBoard == kind = None /\ told = None /\ passed = None /\ live = None
NoGraph == picture = None /\ track = None /\ opened = None
NoTable == /\ grid = None /\ fetching = None /\ save = None /\ order = None /\ asked = None
           /\ runtime = None /\ overwritten = None

Init ==
    /\ open \in PagesOpen
    /\ \/ /\ open = "page" /\ Page!Init /\ asks = None /\ view = None /\ NoEntry /\ NoNotice
          /\ NoMap /\ NoClock /\ NoBoard /\ NoGraph /\ meet = None /\ NoTable
       \/ /\ open = "entry" /\ Entry!Init /\ server = None /\ asks = None /\ steady = None
          /\ NoStream /\ NoPage /\ NoNotice /\ NoMap /\ NoClock /\ NoBoard /\ NoGraph /\ meet = None /\ NoTable
       \/ /\ open = "notice" /\ Notice!Init /\ steady = None /\ view = None
          /\ NoStream /\ NoPage /\ NoEntry /\ NoMap /\ NoClock /\ NoBoard /\ NoGraph /\ meet = None /\ NoTable
       \/ /\ open = "map" /\ Map!Init /\ NoShared /\ NoStream /\ NoPage /\ NoEntry /\ NoNotice
          /\ NoClock /\ NoBoard /\ NoGraph /\ meet = None /\ NoTable
       \/ /\ open = "clock" /\ Clock!Init /\ NoShared /\ NoStream /\ NoPage /\ NoEntry /\ NoNotice
          /\ NoMap /\ NoBoard /\ NoGraph /\ meet = None /\ NoTable
       \/ /\ open = "board" /\ Board!Init /\ NoShared /\ NoStream /\ NoPage /\ NoEntry /\ NoNotice
          /\ NoMap /\ NoClock /\ NoGraph /\ meet = None /\ NoTable
       \/ /\ open = "graph" /\ Graph!Init /\ NoShared /\ NoStream /\ NoPage /\ NoEntry /\ NoNotice
          /\ NoMap /\ NoClock /\ NoBoard /\ meet = None /\ NoTable
       \/ /\ open = "timeline" /\ Timeline!Init /\ NoPage /\ NoEntry /\ NoNotice
          /\ NoMap /\ NoClock /\ NoBoard /\ NoGraph /\ NoTable
       \/ /\ open = "timetable" /\ Table!Init /\ asks = None /\ steady = None /\ view = None
          /\ NoStream /\ fetches = None /\ NoEntry /\ NoNotice /\ NoMap /\ NoClock /\ NoBoard
          /\ NoGraph /\ meet = None

\* A step of one page.
Still == UNCHANGED <<open, tableVars>>
InPage(A) == /\ open = "page" /\ A /\ Still
             /\ UNCHANGED <<asks, view, entryVars, noticeVars, mapVars, clockVars, boardVars, graphVars, meet>>
InEntry(A) == /\ open = "entry" /\ A /\ Still
              /\ UNCHANGED <<server, asks, steady, streamVars, pageVars, noticeVars, mapVars, clockVars,
                             boardVars, graphVars, meet>>
InNotice(A) == /\ open = "notice" /\ A /\ Still
               /\ UNCHANGED <<steady, view, streamVars, pageVars, entryVars, mapVars, clockVars, boardVars,
                              graphVars, meet>>
InMap(A) == /\ open = "map" /\ A /\ Still
            /\ UNCHANGED <<sharedVars, streamVars, pageVars, entryVars, noticeVars, clockVars, boardVars,
                           graphVars, meet>>
InClock(A) == /\ open = "clock" /\ A /\ Still
              /\ UNCHANGED <<sharedVars, streamVars, pageVars, entryVars, noticeVars, mapVars, boardVars,
                             graphVars, meet>>
InBoard(A) == /\ open = "board" /\ A /\ Still
              /\ UNCHANGED <<sharedVars, streamVars, pageVars, entryVars, noticeVars, mapVars, clockVars,
                             graphVars, meet>>
InGraph(A) == /\ open = "graph" /\ A /\ Still
              /\ UNCHANGED <<sharedVars, streamVars, pageVars, entryVars, noticeVars, mapVars, clockVars,
                             boardVars, meet>>
InTimeline(A) == /\ open = "timeline" /\ A /\ Still
                 /\ UNCHANGED <<pageVars, entryVars, noticeVars, mapVars, clockVars, boardVars, graphVars>>
InTable(A) == /\ open = "timetable" /\ A /\ UNCHANGED open
              /\ UNCHANGED <<asks, steady, view, streamVars, fetches, entryVars, noticeVars, mapVars,
                             clockVars, boardVars, graphVars, meet>>

Next ==
    \/ InPage(Page!Next) \/ InEntry(Entry!Next) \/ InNotice(Notice!Next) \/ InMap(Map!Next)
    \/ InClock(Clock!Next) \/ InBoard(Board!Next) \/ InGraph(Graph!Next) \/ InTimeline(Timeline!Next)
    \/ InTable(Table!Next)

\* The fairness of each page, while it is the one that is open.
Fairness ==
    /\ WF_Page!vars(open = "page" /\ Page!Tick)
    /\ SF_Page!vars(open = "page" /\ \E f \in Page!Current : Page!Served(f))
    /\ SF_Page!vars(open = "page" /\ \E f \in Page!Current : Page!Answered(f))
    /\ WF_Notice!vars(open = "notice" /\ Notice!Tick)
    /\ WF_Notice!vars(open = "notice" /\ Notice!Hide(FALSE))
    /\ WF_Notice!vars(open = "notice" /\ Notice!Serve(1))
    /\ WF_Notice!vars(open = "notice" /\ Notice!Serve(2))
    /\ WF_Notice!vars(open = "notice" /\ Notice!Answer(1))
    /\ WF_Notice!vars(open = "notice" /\ Notice!Answer(2))
    /\ WF_Timeline!vars(open = "timeline" /\ Timeline!Tick)
    /\ WF_Timeline!vars(open = "timeline" /\ \E a \in asks : Timeline!LoadServed(a))
    /\ WF_asks(open = "timeline" /\ Timeline!LoadEnds)
    /\ WF_Timeline!vars(open = "timeline" /\ Timeline!Stream)
    /\ WF_Timeline!vars(open = "timeline" /\ Timeline!Flush)
    /\ WF_Table!vars(open = "timetable" /\ Table!Hears)
    /\ WF_Table!vars(open = "timetable" /\ Table!ServerReads)
    /\ WF_Table!vars(open = "timetable" /\ Table!LoadHeard)
    /\ WF_Table!vars(open = "timetable" /\ Table!ServerSaves)
    /\ WF_Table!vars(open = "timetable" /\ (Table!SaveRefused \/ Table!SaveHeard))
    /\ WF_Table!vars(open = "timetable" /\ Table!SaveEnds)

Spec == Init /\ [][Next]_vars /\ Fairness
-----------------------------------------------------------------------------
MCShown == {"page", "entry", "notice", "map", "clock", "board", "graph", "timeline", "timetable"}

\* What a screen shows is true of the meet, on a state of its shape: one reading loop and
\* no change missed, no settings for a guest, each change of day said once, every station
\* and train drawn in its one place, a jump that was kept not offered again, and no
\* edit of the timetable replaced by somebody who had not seen it.
ScreenIsTrue ==
    CASE open = "page" -> Page!TypeOK /\ Page!OneLoop /\ Page!NothingMissed
      [] open = "entry" -> Entry!TypeOK /\ Entry!GuestSeesNoSettings
      [] open = "notice" -> Notice!TypeOK /\ Notice!SaidOnce
      [] open = "map" -> Map!TypeOK /\ Map!Safe
      [] open = "clock" -> Clock!TypeOK /\ Clock!Safe
      [] open = "board" -> Board!TypeOK /\ Board!Safe
      [] open = "graph" -> Graph!TypeOK /\ Graph!Safe
      [] open = "timeline" -> Timeline!TypeOK /\ Timeline!Safe
      [] open = "timetable" -> Table!TypeOK /\ Table!NothingOverwritten

\* No step takes a screen back: an older picture is not drawn over a newer one, the hands
\* and the trains do not turn back, the search for free sides only improves, and tracks
\* that are unfolded move only what lies beneath them, and what is typed is not lost.
ScreenGoesForward ==
    [][/\ open = "page" => Page!PictureStep
       /\ open = "map" => Map!MapStep
       /\ open = "clock" => Clock!HandsStep
       /\ open = "board" => Board!BoardStep
       /\ open = "graph" => Graph!GraphStep
       /\ open = "timetable" => Table!UnsavedIsKept]_vars

Working ==
    CASE open = "page" -> Page!Working
      [] open = "notice" -> Notice!Working
      [] open = "timeline" -> Timeline!Working /\ ~feed.connected
      [] open = "timetable" -> Table!Working
      [] OTHER -> FALSE
UpToDate ==
    CASE open = "page" -> Page!UpToDate
      [] open = "notice" -> Notice!UpToDate
      [] open = "timeline" -> Timeline!UpToDate
      [] open = "timetable" -> Table!UpToDate
      [] OTHER -> TRUE
\* The notice is asked for at long intervals and may be behind in between.
Settled == open # "notice" => UpToDate

\* When answers come again a screen that is on comes to show what the server has, and so
\* do the timeline without a stream and the timetable with nothing unsaved; a toast does
\* not outlive what it says.
ScreenComesBack == <>[]Working => []<>UpToDate /\ <>[]Settled
=============================================================================
