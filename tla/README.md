# TrainMeet Server: models, checks and proofs

TrainMeet Server runs a model railway meet: it holds the timetable, the meet
clock and the traffic between the stations, and serves browsers (TKL, Drift,
administration, displays), phones and TMBoxes. These modules model the parts of
it in which the order of events decides whether what is shown and done is right.
Paths are relative to `src/src/tmbox_gateway/` unless they begin with `src/`.

    tlc -config MCStationTraffic_meet.cfg MCStationTraffic
    tlapm StationTrafficProofs.tla

`PROJECT.json` maps every definition to its lines, and lists runs, mutants,
theorems, hazards and findings.

## 1. Inventory

The server:

| Component | Code | State | Operations | Right when |
|---|---|---|---|---|
| Station service | `protocol_v2.py`, `operations.py` | movement rows, clearances, positions | train and line commands, the TKL form, lazy expiry | no line has two claims or two trains; grants end only as they should |
| Legs, routes, default tracks | `legs.py`, `train_routes.py`, `default_tracks.py` | none (pure) | what a train comes from and goes to | an arrival finds the case it ends |
| Command deduplication and scope | `protocol_v2.py`, `operations.py` | remembered answers, required scope | handle_command | a resend applies once and never in another day |
| Meet selection | `lifecycle.py` | selection, generation, transition marker | begin, complete, abort, bootstrap | an interrupted change stays closed |
| Changes of the meet | `http_server.py`, `cloud_config.py` | the three stores a change writes | day, jump, reset, weekday, config, meet, edit | traffic never sees stores of two worlds |
| Backup, undo of a jump | `backup.py`, `http_server.py` | the copy before a change | create, restore | the copy is one moment of all stores |
| Meet clock | `operations.py` | one row | configure, start, stop, pause, resume | no time gained or lost |
| Calendar | `http_server.py`, `runtime.py` | day, change time, mode | calendar_tick, start_new_day, time_machine | each day entered once, none skipped |
| Terminal sessions, MQTT transport | `terminal16_mqtt.py`, `mqtt_transport.py`, `terminal16_runtime.py`, `terminal16.py` | sessions, inbox, connections, pictures, answers | receive, handle, command, tick | presses act once, on the picture they were made on; a box that is answered has a picture |
| Publications and local edits | `runtime.py`, `local_edits.py`, `cloud_config.py` | base, edits, revision, waiting version, choice | save, discard, decide, deliver | nobody's edits are replaced unseen |
| Identity, boxes | `identity.py` | clients, grants, assignments | assign, remove, take in again | what was said last about a box stands |
| Driver documents | `driver_documents.py` | duties, files | upload, split, remove | a page belongs to the duty it was sent for |
| Software update | `software_update.py` | status file, attempts | start, follow, restart | an old result is not the new one's |
| Panel engine, shared traffic | `engine.py`, `shared_traffic.py` | dialogues, revision | key presses, refresh | no confirmation acts on another train |
| Automatic stations | `automatic.py` | owners, suppressed clients, answer times | observe, hand_back, take_over, tick | an operator and the automation never both work a station |
| Change feed, external clock, US operations, integration journal, live relay | see `PROJECT.json` | | | |

The pages, each a program of its own with state that outlives its requests:

| Component | Code | State | Right when |
|---|---|---|---|
| TMBox in the browser | `web/app.js` (tmboxV2), `tmbox-nav.js`, `tmbox-attention.js`, `tmbox-render.js` | view, snapshot, awaited answers, what was signalled | what is sent is what the display showed; news is told once |
| Box of the terminal in a browser | `terminal16_web/terminal.js` | session, picture, keys sent | pictures go forward, no key is repeated |
| Driver application | `web/lokforaren/*.js` | session and its copy, duty, clock, reminders, check-ins | it shows its own duty, and says when it is out of contact |
| Displays | `web/app.js` (from 3851), `clock-sync.js`, `live-events.js`, `display-feed.js`, `day-change.js` | reading loop, stream, clock, notices | nothing older is drawn over something newer; no change is missed |
| Trains on the displays | `drift-model.js`, `train-graph.js`, `web/app.js` (topology) | hardly any | trains and names are where they belong |
| Timeline and timetable of the administration | `meet-timeline.js`, `data-page.js` | plan of a jump, grid, what was read | a jump does what its plan said; edits are not lost |
| Administration | `web/app.js`, `settings.js`, `lokforare-admin.js`, `lokforaren-koruppdrag.js` | forms and their baselines, route, waits, dialogs, documents | no late answer undoes what was done since |

They interact in five ways. (1) The **traffic lock** `command_lock` (also the
engine's) serialises traffic commands, changes of the meet and the pictures of
the boxes. (2) The **clock** is read by expiry, the calendar and the automation;
starting and stopping it decides whether questions lapse. (3) A change of the
meet raises the **generation** that commands carry. (4) **Callbacks** run after
the outermost commit and write to other databases. (5) The pages read by
**polls**, and again at once when the **stream** says that a topic changed.

Hard behaviours: three threads reach the traffic lock (HTTP, the MQTT worker,
the loop that ticks calendar and automation) and decide part of what they do
before they have it; the broker and the clients send again; a restart forgets
half of the state; several databases change with no transaction over them;
expiry happens only when somebody looks; and a page has several requests under
way whose answers come in any order, late or never, while it is edited, hidden
or left. `hazards` in `PROJECT.json` has each at its line.

## 2. Modules

| Module | What it is |
|---|---|
| `LineBlocks` | the promise about lines: free, asked, granted, occupied, for one train each |
| `StationTraffic` | the station service; `ImplementsLineBlocks` refines `LineBlocks` |
| `StationTrafficProofs` | its type correctness, safety invariants and action properties, and the refinement of `LineBlocks`, proved |
| `MeetLifecycle`, `MeetLifecycleProofs` | changes of the meet, crashes, exceptions and restored backups against commands |
| `MeetClock`, `MeetClockProofs` | the clock row, restarts, the undone jump |
| `MeetDay`, `MeetDayProofs` | the calendar thread against the administrators |
| `TerminalLink`, `TerminalLinkProofs` | boxes, network thread, inbox and worker |
| `BoxKeypad`, `TMBoxPanel`, `TMBoxPanelProofs` | what a TMBox does with keys and snapshots; the page around it, with its awaited answers |
| `DriverApp`, `DriverTimeline`, `DriverPlan`, `DriverPresence` | the driver's session and duty; the line and the reminders; the plan, pure; the check-ins |
| `WebTerminal` | the terminal's box in a browser |
| `LiveFeed` | the stream of changes and its gaps |
| `DisplayPageProofs` | the loop and the news of `DisplayPage` with `LiveFeed`, proved |
| `DisplayPage`, `DisplayEntry`, `DisplayClock`, `DayNotice` | the reading loop of a screen, who it is for, its hands, and the toast of a day change |
| `TrackMap`, `TrainGraph`, `TrainBoard` | the map, the graphic timetable and the state of the trains |
| `MeetTimeline` | the plan of a jump, the jump and its undo |
| `TimetablePage`, `TimetablePageProofs` | the timetable edited in the server, its saves, discards and choices |
| `AdminForms` | what fills a form and what protects an edit |
| `AdminServer` | update, restart, restore and reset while the server goes away and comes back |
| `AdminAccess` | sign-in, installation, and the address that changes between two requests |
| `AdminBoxes`, `AdminPlacement` | the boxes, and the sides of a station, against other administrators |
| `TrainPicker` | the chosen train and its facts |
| `DutyDocuments`, `DutySheets`, `DutyPlan` | documents of the duties; which page is whose; the plan of a duty |
| `MC*` | small instances; `MCPhones`, `MCDisplays` and `MCAdmin` hold the pages of one kind. `MeetLifecycle`, `MeetClock` and `MeetDay` have values for their constants in the `.cfg` and need none |

**StationTraffic.** `moves` is `tkl_state`, `cases` the clearances, `position`
the train positions, `running` the clock. A handler is a function from a store to
a store (`Arrive`, `Depart`, `Advance`, `Settle`, ...), composed as the code
composes its calls, and an action commits it: a departure that implies an arrival
that frees the lines behind is one action, as it is one `atomic_command`. `Now` is
the store after the lazy expiry with which the handlers begin. The TKL form is
its own action, with its own conditions. `Modes` is the dispatch mode, clearance
or direct. The timetable is constants: who stops where, under which number, and
what a leg brings in. The day begins where the timetable may have placed the trains
(`Init` is `place_trains_by_timetable` at any time of the clock, with nothing having
happened yet); that an administrator who sets the clock moves the trains without
reports again during the day is left out. Not modelled: which publication the caller
acknowledged, his grants, and the optimistic revisions he may send.

**MeetLifecycle.** The data are *cells*: the number, start and weekday of the calendar,
the plan, the statuses, the placed trains, the movements' identities, the panels and
the configuration of the engine. Changes are numbered, and `store[x]` is the change
that wrote cell `x` last. `Steps(kind)` lists, in the code's order, which cells each
write of a change sets; no change sets them all (another weekday keeps the day and its
traffic, an edit writes the plan and what follows from it, a delivered configuration
keeps the active day), and `Write` takes the next one. `Fail` raises at any write, with
what the handler of that kind does about it: a change of the day completes
(`CutShort`), an edit is written back (`Reverted`), the others leave the marker
(`LeftMarked`). `Crash` stops the process, `Restore` puts a copy back, with its
traffic, receipts and generation. Commands carry a selection or, from old firmware,
none. Three ghosts tell what the code itself does not: `torn` (a change of the day was
cut short, and no whole one has followed), `stranded` (commands whose time a restore
took back, or that carry no selection and met a day cut short) and `made`.

**MeetClock.** `clock` is the row, `wall` real time, `expected` a ghost that
counts meet time without the row. `down` is how the clock was when the server
went down. A jump may be made and undone with the clock running; the row that comes
back then counts the time since the copy, and the ghost `leapt` is exactly that time.

**MeetDay.** `tick` holds what the calendar thread has read so far; its reads
are steps, its change is one step, as it is under the lock. Administrators may act
between any two.

**TerminalLink.** `link[d]` holds what the broker has not had acknowledged;
`sessions` belongs to the network thread, `connections` to the worker, `inbox`
lies between them. `working` is the item the worker has decided to do while it
waits for the traffic lock. The box is external, modelled from
`src/docs/protocol/terminal16/README.md`. What a press does to the traffic is
counted, not repeated. `place[d]` is the box's station with publication, day and
generation, which an administrator or a change of the day may replace or take away; a
receipt carries the place it was made in, so a press delivered again after a move is
refused, as is one that raises (`rejected`), and a box without a station is refused
everything. `moved` remembers which presses that may have happened to. Left out: the
limit of 512 answers in memory.

**TMBoxPanel** over **BoxKeypad**. `BoxKeypad` holds the navigation, the attention
and the display as functions of view, configuration and snapshot; `TMBoxPanel`
runs them in the page: the cycle of status, configuration and snapshot is one
request after another (`asked`, one for each refresh that is under way, of which any
number may overlap), a key may come between any two, and a command has its own
answer. `lcd.flashed` and `lcd.remapped` say that the code has left the display as it
was though the state behind it changed, `news.turned` that snapshots came out of order. The server and the traffic are external and change at any time.
The lists of a snapshot are said by what they hold and their order (`InOrder`), not
by the recursion of a filter, so that they can be reasoned about.

**Pages with readings** (`DriverApp`, `DriverPresence`, `WebTerminal`,
`DisplayPage`, `DayNotice`, `MeetTimeline`, `TimetablePage`, `AdminForms`,
`AdminServer`, `AdminAccess`, `AdminBoxes`, `AdminPlacement`, `TrainPicker`,
`DutyDocuments`) are written alike: a variable for what the server has, one for
what the page holds, one for each request under way. A request is sent, served
(the server's answer is fixed then) and heard in three steps, and may be lost in
place of the last two. An `await` in the code is the gap between two actions, and
what the handler keeps in a local variable over the `await` is in the request's
record. What the server does to a disk and to its rows is steps of its own where it
holds no lock over them (`DutyDocuments`: `Receives`, `Clears`, `Looks`, `Forgets`,
`Stored` and their like); the ghosts `crossed` and `mixed` name the documents over
which two administrators' steps have crossed. `DriverPresence` counts in `hands` how
long the clock has stood without contact. `TimetablePage` counts an edit as replaced
unseen when whoever saved, discarded or chose had not seen it then; edits saved while a
chosen version waits to be delivered are told apart (`choice.known`). `AdminForms`
describes each form by what its handlers do: how many requests a save is, which
generation they carry, and whether its reading asks about an edit before or after the
server has answered. Data are numbers that tell older from newer, or own from others'.

**Pages that draw** (`TrackMap`, `TrainGraph`, `TrainBoard`, `DriverPlan`,
`DriverTimeline`, `DutySheets`, `DutyPlan`) are functions of a picture, with the
little state that lasts between two pictures (which tracks are unfolded, how far a
ride has come, where the list has scrolled) as variables. Their pictures are
enumerated: every small network, plan or PDF of the instance. What they promise is
stated independently of how it is computed: names do not cover each other, a row
is as long as its line, a sheet is in one duty, no event of the plan is lost.

**Composites.** `MCPhones`, `MCDisplays` and `MCAdmin` hold one page each: `open`
says which and never changes, and the variables of the others are `None`. The pages
share no state (they run in windows of their own and meet only in the server, which
each module has its own view of), so nothing is lost by looking at one at a time;
`PhoneIsTrue`, `ScreenIsTrue`, `AdminIsRight` and their action and liveness
counterparts are the conjunctions of what the parts promise, by part.

## 3. Runs

Each passing run is checked to break under a mutation of the code for each of its
properties (`mutants`).

| Run | Shows |
|---|---|
| `meet` | Two trains meet on a single line between two stations, one of which has two tracks; all declarations, forms, questions, answers, lapses and clock stops. A line is claimed once, a movement has one case, grants and reports are final. |
| `through` | A train over a single line and a double track, with one against it; routes caught up over two stations. Trains are kept apart, held lines can be freed, and the service implements `LineBlocks`. |
| `changes` | Every kind of change with its own writes, a crash and an exception at any of them, backups put back, a resent command with and without a selection: what traffic may run on, that a command has one effect, on the data its operator saw, and what a completed change mends. |
| `restarts` | Orderly restarts, crashes, jumps undone with the clock running or stopped: the clock neither gains nor loses but by what such an undo adds, and a restart starts what it stopped. |
| `calendar` | The thread against everything an administrator may do: a day is entered once, and it does come. |
| `link` | Two boxes, room for one, an inbox of two, a reconnection, messages sent again, a restart: work left behind is skipped, an answered box gets a picture. |
| `presses` | One box and two keys, messages sent again, a reconnection, a restart and two changes of its station or of the day: a press acts once at most, and its box is told the truth of it unless it was moved meanwhile. |
| `panel` | A TMBox in the browser through new publications, lost answers, removals and outages, with keys and a second refresh at every moment: what is sent was shown but for what the code leaves undrawn, news is told once while snapshots come in order, an assigned box comes to hold the current snapshot. |
| `phones` | The pages of a phone: the application shows its own session and duty, check-ins are no older than shown but for the time the hands stood, line and pictures never turn back, each page comes back with the contact. |
| `displays` | The pages that show the meet, and the timeline and timetable: one reading loop, no change missed, nothing drawn over something newer, no edit replaced that whoever saved, discarded or chose had not seen then, each page comes to show what the server has. |
| `admin` | The administration: no answer undoes what was done since, files and pages go to the duty they belong to unless two administrators cross in one document, a save goes to the meet it was made on, and no part waits for ever. |
| `raising` | a violation, see section 6 |

**Bounds of the server's modules.** Two or three cases are enough for two claims on
a line and a lapsed one beside them; the double track needs three stations.
`through` explores the declarations that no decision reads (`UndeclaredOnly`) only
in `meet`, and with them the trains placed before a departure. In `changes`, three changes give
one over an interrupted one and a restored generation that is handed out again, over
every kind; the theorems have no such bound. The clock run has four units of wall
time, speeds 1 and 3, a speed change on the way and a jump undone after time has
passed; its invariant is proved without bounds.
A day of three units has a midnight, a day change and a wait past it; day
numbers 1 and 5 let the time machine go to the last day. `presses` has two keys of one
box and two places for it: a move away and back is two moves. One press is enough for
`link`, which moves no box, since presses only meet in the inbox and in the view, which `Elsewhere`
also changes; two connections of one box give a press of the old session in every
place; an inbox of two can be full, and can hold a sign of life behind a newer one.

**Bounds of the pages.** A page's hazards need two of a thing: the answer that is
late and the newer one, the old meet and the new, this administrator and another.
- `panel`: two publications (the second while the first is being read), two trains,
  two cases and one message in five starting pictures. Three of them, with every step of
  the traffic, have one refresh at a time, two of them also a second that starts while
  the first waits for the configuration or the snapshot; refreshes are
  interchangeable. The theorems have any number.
- `phones`: one user and duty beside another driver; two activations give an old
  answer after a new choice; meet times to 8 pass the start, the end and a stop.
- `displays`: `MaxDays = 2` changes of day; clocks at speeds 1 and 6 with delays of
  0 and 2 give a small and a large difference; the clock's times are even, so
  `LastLook = 4` is three looks. `Horizon = 11` minutes from `Begin` pass midnight
  and the end of both services. One width (130) makes room for some tags only. The
  timetable runs in two profiles: one version with three generations, a discard
  more and days started, and two versions with three generations and no days, so
  that a choice is made and a delivery comes, without both at once.
- `admin`: two meets, eight sets of one or two forms (each form is one of them or is
  described as one of them; the disturbance form is the automatic one with one request
  less), two boots of the
  server, two attempts at an update, two PDFs and files, two boxes, four versions
  of a configuration. `MaxTasks = 1` leaves out two installations at once, and a
  session does not end while a sign-in or an installation is under way. The documents
  have one administrator with three runs from nothing, or two at two documents with the
  same PDF, and two administrators with one run each at these; a request whose answer was lost is
  served to its end before that page sends another.

**Fairness.** Only the runs with a liveness property need it.
- `calendar`: weak fairness of the thread, which runs twice a second and catches
  every error (`local_server.py`, `_external_clock_loop`, 412-435).
- `link`: weak fairness of the worker (its loop catches every exception), of each
  box's signs of life (every five seconds) and of each box's acknowledged messages
  being read. `AnsweredBoxesGetPictures` also assumes `WorkerKeepsUp`: the inbox is
  empty now and then, and full only for a time. Without it the property is false,
  and rightly: a sign of life is skipped whenever a newer one was received, so a
  worker that is always behind by more than the interval between the signs skips
  them all.
- The pages: weak fairness of their timers (a page in front runs them) and of the
  server and the network answering, and no more than that: nothing is assumed of
  the user or of other administrators. Strong fairness only in `DisplayPage`, whose
  request is replaced by a newer one: of the requests that are current, some are
  answered. Each part states in `Working` when its promise holds: while there is
  contact, the page is in front and nobody edits. A run shows that if `Working`
  holds from some time on, the page is up to date again and again.

`CHECK_DEADLOCK FALSE` everywhere: a meet may end, with every train in, every
message answered and every bound reached.

## 4. Proofs

The theorems hold for every timetable, line plan, number of cases, boxes, worlds,
commands, edits and versions, length of day and restart. They assume only the named
`ASSUME`s of the modules (what a timetable is, `LinkAssumption`, `PanelAssumption`
and the like: types of the constants, and that `None` is not one of the values it
stands beside) and the hypotheses that a theorem names.

Each safety proof has the same shape: an inductive invariant stronger than the
property, one lemma per action that it is kept, one step per action in the lemma that
joins them, and the theorem from that by PTL.

- **StationTrafficProofs**, for `Spec`: type correctness and six safety invariants
  from `SafeState` (`AlwaysSafe`). The properties are not inductive: that two
  trains are never on one track follows from `LineIsClaimedOnce` only if each train
  shown on a line is `Backed` by a grant for that line, which an arrival must not
  settle while the train is out, which in turn needs that a case names a movement of
  its line (`Named`), that only departed cases are released (`Released`), and that a
  departure had its arrival (`InOrder`). Handlers compose, so the lemmas are about
  stores: a helper keeps `SafeBut(n)` (all but train n's position, which the handler
  is about to write), and the handler's last write restores it.
  `HeldLinesCanBeFreed` from `Traceable`: each case was asked on a line its movement
  leads over (`WellAsked`); behind a train that has come in, every stop of its route
  is recorded (`RouteIsBehind`); and while the train of a grant is out, no visit that
  its movement brings in is recorded (`StillAwaited`). So the arrival it runs to is
  still to be reported, and that one settles the case. An arrival finds its case by
  train number, which the timetable must make clear enough: `RoutesAreClear`, that each
  departure leads on over a resolved leg, and that where a number is brought in it has
  a line only to the departures of its own route. Both runs assume it of their
  timetables (`ClearAssumption`); a timetable that breaks it is in section 6.
  For the three action properties and the refinement of `LineBlocks`: an action
  property of a command is not one of the writes it is composed of, so the lemmas
  are about `Onward`, which every write is and two writes after each other still
  are: reports stand, and a case is settled only by what happened to its train. The
  steps that are not `Onward` change one case. The refinement also needs that a train
  that has left is not asked about (`InTime`), and that `None` is not a claim
  (`ClaimAssumption`).
- **MeetLifecycleProofs**, without hypotheses: exceptions in every write, crashes and
  restored backups are all in `Spec`. `Progress` says how far the change under way has
  come: its marker, its copy, and that exactly the cells of the steps done are its own;
  from it `TypeCorrect` and `CompletedChangesMend`. `OnlyCutDaysAreMixed` from `Fits`:
  the cells that mean something together agree in the store, and in every copy that may
  come back, but for the cells the change under way has yet to write and, where `torn`,
  those of the day. `CommandsApplyOnce` from `Answered`: an effect in the store has its
  receipt there, or no resend of the command can pass (its selection is gone, or
  selections have come to be required), in the store and in the copy alike.
  `CommandsStayHome` from `Seen` and `Fitting`: while the generation a command carries
  stands, the cells its operator saw stand too. The properties make the exceptions the
  code makes (`torn`, `stranded`): section 6.
- **MeetClockProofs**: `TimeIsKept` from `ClockInv`: the row was written in the
  past, and the copy a jump left has its own right time, running or not;
  `OneMoreOfARow` and `SomeMoreOfARow` say what more wall time adds to a row's reading.
  `RestartsKeepTheClock` from `RestartInv`: the row that waits for the next start
  is the one that went down, since a running clock carries no reason.
- **MeetDayProofs**: `OneDayAtATime` from `ReadsAreSound`: the thread reads the
  generation before the day, and every change of the day takes a generation never
  read before, so if the generation still stands then so does the day.
- **TerminalLinkProofs**: a press is in many places at once (on the link, in the
  inbox, in the worker's hands, in the answers in memory and in the receipts), so
  five invariants lean on each other: `Typed`; `Ordered` (a link carries the
  connections of its box in order, and the inbox is never ahead of it); `Presses`
  (a key pressed once is one message, however often delivered); `Decided` (answer,
  receipt and effect agree, by `Told` and `Excused`: a no after an effect is of a press
  that was moved); `Ended` (the work of a connection that has ended is
  nowhere but in the inbox).
- **TimetablePageProofs**: `NothingOverwritten` and `UnsavedIsKept`, part of
  `displays`, from `Safe`. A save and a discard are accepted on the generation of
  what the page was given, a choice on a version and a revision. So every reading
  that is held anywhere (on the page, in a request, under a save or an order) must
  be true of its own generation, every choice of its version and revision, and the
  grid and the draft must hold at least what was shown. The server only goes
  forward (`Advances`), which keeps all of that true: a revision number is never
  used twice on a base, since a save counts on over the revisions discarded. What a
  choice knew is counted with it until the delivery (`ChoiceCounts`).
- **DisplayPageProofs**: `OneLoop` and `PictureStep`, and `NothingMissed`, which are
  parts of `displays`, with their types, from `Safe`. `NothingMissed` speaks of a
  moment when all is quiet, so the invariant says of every other one where the news
  is: `UnlessAsked`, that what the picture lacks has been asked for or is `Coming`,
  heard and not yet told, on its way in the stream, or in a gap that the next hello
  will show. That every break leaves such a gap rests on the count (`Counted`): an
  open stream carries one event for each number from what was heard last to what the
  server has, behind a hello that says where they begin, and a boot is never used
  again. Pictures only go forward since a request that is current was asked after the
  picture was taken (`Forward`), and there is only one such (`Looping`). `Sorts` says
  what the constants are; that something is watched is needed, as a gap is told to
  the page as every topic.
- **TMBoxPanelProofs**: `TypeCorrect` over any number of overlapping refreshes, from
  `Typed`; each handler of a key is `Sound` (it is ignored, draws a well formed view,
  or sends what the display reads). `WhatIsSentWasShown` from `Shown`: the display is
  what would be drawn now, except while a station is loading, where nothing can be
  picked, and in the two cases that `lcd` records. `NothingIsToldTwice` from
  `Announced`: what is remembered, what has been heard and what the server has are
  three moments of one history in that order, unless the snapshots have turned, and all
  that was told had come by the first.

Only model-checked, and why:

- all liveness (`calendar`, `link`, `panel` and the pages): out of the prover's reach;
- `PhoneIsTrue` and `ScreenIsTrue` and their action counterparts, but for the parts
  of `TimetablePage` and `DisplayPage`: many small programs, whose drawing parts
  are folds over lists, which the provers cannot take by induction;
- `AdminIsRight` and `AdminStepsAreRight`: nothing in them is beyond the prover, but
  the inductive invariants of the four programs are not written down yet (section 5).

## 5. Plan

In order of what can go wrong.

1. Proofs: the loops of `AdminBoxes` and `AdminPlacement`, and of `MeetTimeline`,
   along the lines of `TimetablePageProofs` and `DisplayPageProofs`; from them the
   parts of `AdminIsRight` and more of `ScreenIsTrue`.
2. `StationTraffic`: revisions, questions that keep an old track, the messages
   that announce a free line.
3. `AutomaticStations`, composed with `StationTraffic`: lost contact, take-over and
   hand-back after commit, the tick's rereading.
4. `PanelEngine` with `SharedPanels`: dialogues against cases that change under them.
5. `AtomicCommands`: nested savepoints, rollback and the callbacks after commit,
   as the refinement that the one-step commands of the other modules rest on.
6. `ChangeFeed` (composed with `LiveFeed`), `ExternalClock`, `IntegrationJournal`.
7. `TrackWarrants`: conflicts over a graph of segments, checked against a reference
   definition.
8. The staging of publications, the backup files beside their write-ahead log,
   identities and the last owner, the live relay.
9. Legs and default tracks as operators against a reference definition.

## 6. Findings

`raising` is a violation the run shows: `_enter_day` and `reset_meet` complete the
transition in a `finally`, also when a write raised, and traffic opens on stores
of two days, where `lifecycle.py` promises to fail closed. The quoted lines are in
`PROJECT.json`.

Observed while modelling, and modelled as the code has it; the properties are
stated beside them, so that the runs pass:

- `protocol_v2.py:655`: `train.arrived` looks for the open case by train number and
  station. A service that runs back and forth under one number may have arrived at a
  later visit, and the earlier line then has no arrival left that frees it.
- `http_server.py:4991`, once more: commands from old firmware, which carry no selection,
  may be applied again or on another day after a change of the day that was cut short
  before it asked for selections (`stranded`).
- `lifecycle.py:99`: a restored backup brings its generation back, which is then handed
  out again: a command made in the time that was undone may be taken on data its operator
  never saw (`stranded`).
- `http_server.py:5300`: undoing a jump that was made with the clock running puts a
  running row back, and the time since the copy is counted (`leapt`).
- `terminal16_runtime.py:345` and 354: a press that took effect, is delivered again and
  finds its box with another station, day or generation, is answered no, where
  `docs/protocol/terminal16` (section 5) has a known message answered `duplicate`; and a
  press that was answered with a fault (375) may take effect when it is delivered again.
- `operations.py:1758`: questions lapse by wall time, also over a break that began
  after they were asked; the comment at `protocol_v2.py:51` says that a break must
  not expire them.
- `terminal16_mqtt.py:138`: a press's session is checked before the traffic lock is
  waited for and not after; if the box connects again in between, the press it
  has given up is carried out (comment at 147).
- `web/app.js:5798` and 6740: the timer and the end of a flash start a refresh whether or
  not the last one is done. When answers take more than four seconds two overlap: an old
  snapshot may be taken after a newer one, whose messages are then signalled again
  (`turned`); and a late snapshot brings the trains back while a configuration is awaited,
  which then changes what an open picker points at without drawing it (`remapped`),
  against the comments at 6570 and 6573.
- `web/app.js:6728`: when a flash ends nothing is drawn before the snapshot comes, so that
  a key pressed in between acts on what is not shown (`flashed`).
- `web/tmbox-nav.js:104`: only a selection past the end is dropped. One that a
  shorter or reordered list slides under stays, which the comment warns of.
- `http_server.py:4374`, `runtime.py:865`: a choice to take Cloud's version stores no
  revision, so local edits saved between it and the delivery are replaced without being
  seen, where `cloud_config.py:355` to 363 has it that they never are ("ersätts aldrig
  tyst"). `NothingOverwritten` is about what was saved when the choice was made.
- `web/lokforaren/app.js:934`, 953 to 962, 1600: check-ins are aged from the hands, which
  stand while there is no contact. The answer of the clock that ends an outage adds the
  outage to check-ins that were read in it, until they are read again: they are shown as
  older than they are (`late` in `DriverPresence`).
- `driver_documents.py:267`, 313, 380: the files are written, looked for and thrown away
  outside the lock that the rows are written under. Two administrators can leave a row
  that points at a file another's removal took (`crossed`), and a page cut from another
  PDF than the document's (`mixed`), against `docs/LOKFORAREN.md:118`.
- `web/app.js:1914`, 1948, 1987: three cards ask whether they are edited before they ask
  the server, and what is typed while the answer is on its way is replaced by it, against
  the comment at 775 ("Background refresh never rewrites fields in an open editor").
- `web/app.js:677` and 1015: the second request of the automatic stations' form, and the
  dialog of the clock, carry the generation the page shows when they are sent, where the
  comment at 3644 binds a command to the context that was shown.
- `web/data-page.js`: the reading that a save makes of its own may be older than one
  heard before it, and nothing asks again (`behind` in `TimetablePage`).
- `web/app.js:3586`: the live facts of a route are those of the number, so that trains
  that share a number get each other's or none.
- `web/app.js:1399`, `identity.py:978`: a dialog left open on a box that was removed
  takes it in again.
- `web/app.js:3641`: a page whose session the server has ended goes on until somebody
  does something.
- `web/app.js:5622`: two requests for a wake lock under way leave one that is never
  released.
- `web/lokforare-admin.js:296`: a PDF dropped while the table is read again goes to
  the latest file when the chosen one is gone.
- `web/lokforaren-koruppdrag.js:394`: meets are sorted as text, so those after
  midnight come first.

## 7. Not modelled

- **Panel engine, shared traffic, automatic stations, change feed, external clock,
  local configuration, US operations, integration journal, live relay**: within
  reach; they are the plan.
- **Text, generated and vendored code** (`terminal16_web/flows.js` is a generated
  table of pictures, `web/qrcode.js` a library, the translations and their audit,
  glyphs): no state and no order of events.
- **Drawing** (`web/drift.js`, `clock-face.js`): draws again what other
  modules hold.
- **I/O around modelled decisions**: routing and authentication of HTTP, the exchange
  with Cloud, host network over D-Bus, clock packs, logging, the download and
  installation of updates, PDF and text recognition.
- **Participant view, Tellurian and network pages, US dispatcher**: a reading loop
  like that of `DisplayPage`, one request and answer per button, or pages of services
  that are not modelled.
- **Inside modelled components**: what `PROJECT.json` says of each under
  `components`, the grants of a device, and the optimistic revisions a caller may send.
