----------------------------- MODULE TMBoxPanel -----------------------------
(***************************************************************************)
(* The TMBox in the browser (app.js, tmboxV2): a page that asks the server *)
(* every four seconds, and when the flash of a command ends, what station  *)
(* it is, then for the station's configuration and its snapshot, each an   *)
(* answer awaited while keys, other refreshes, the screen flashes,         *)
(* commands and publications go on.  The server and the traffic are        *)
(* external.                                                               *)
(***************************************************************************)
EXTENDS BoxKeypad

CONSTANTS
    Order,          \* the movements of the station, in the order of the list
    Cases,          \* the clearance cases, in order
    Ours,           \* those the station itself asks for
    Messages,       \* the line messages, in order
    Lines, Tracks,  \* the connections and tracks of the station, in order
    Languages,
    Traffics,       \* the day when the page is opened, and a bound on what then happens to it
    Refreshes,      \* those that can run at the same time
    MaxPublication  \* bound

VARIABLES
    server,         \* what the server knows
    page,           \* tmboxV2: the browser, its station, configuration and snapshot
    view,           \* nav.view
    memory,         \* what the attention controller remembers
    lcd,            \* what drawV2 drew last, and what has changed since without a drawing
    asked,          \* the refreshes under way, each at the answer it waits for
    sent,           \* the command under way
    news            \* the cases and messages signalled, and the moment of the last snapshot

vars == <<server, page, view, memory, lcd, asked, sent, news>>

Ids(list) == {list[i] : i \in DOMAIN list}

ASSUME PanelAssumption ==
    /\ Order \in Seq(Ids(Order)) /\ Cases \in Seq(Ids(Cases)) /\ Messages \in Seq(Ids(Messages))
    /\ Lines \in Seq(Ids(Lines)) /\ Tracks \in Seq(Ids(Tracks))
    /\ Languages # {} /\ MaxPublication \in Nat \ {0}
    /\ Traffics \subseteq
         [moves : [Ids(Order) -> {"asks", "goes", "gone"}],
          cases : [Ids(Cases) -> {"none", "waiting", "approved", "rejected", "gone"}],
          messages : [Ids(Messages) -> {"none", "sent", "gone"}],
          steps : Nat]
    /\ Numbers \cap Letters = {} /\ None \notin Ids(Primaries)

LinesOf(publication) ==
    IF publication % 2 = 1 THEN Lines ELSE [i \in DOMAIN Lines |-> Lines[Len(Lines) + 1 - i]]
ConfigOf(publication) == [tracks |-> Tracks, lines |-> LinesOf(publication)]

-----------------------------------------------------------------------------
(* The server (external) *)

Allowed(stage) == CASE stage = "asks" -> {"clearance.request", "train.track.change"}
                    [] stage = "goes" -> {"train.departed", "train.track.change"}
                    [] OTHER -> {}

\* The members of kept as the list orders them, by what they are and not by the
\* recursion of SelectSeq, about which nothing could be proved.
InOrder(list, kept) ==
    {some \in [1 .. Cardinality(kept) -> kept] :
        /\ \A x \in kept : \E n \in DOMAIN some : some[n] = x
        /\ \A n, k \in DOMAIN some :
              n < k => \E i, j \in DOMAIN list : i < j /\ list[i] = some[n] /\ list[j] = some[k]}

Here == {m \in Ids(Order) : server.moves[m] # "gone"}
Open == {c \in Ids(Cases) : server.cases[c] \in {"waiting", "approved", "rejected"}}
There == {m \in Ids(Messages) : server.messages[m] = "sent"}

\* The snapshot (one element: each list has one order).
Pictures ==
    {[moves |-> [i \in DOMAIN here |-> [id |-> here[i], allowed |-> Allowed(server.moves[here[i]]),
                                       track |-> Tracks[1]]],
      cases |-> [i \in DOMAIN open |-> [id |-> open[i], status |-> server.cases[open[i]],
                                       to |-> IF open[i] \in Ours THEN "them" ELSE "us"]],
      messages |-> [i \in DOMAIN there |-> [id |-> there[i], to |-> "us"]]] :
        here \in InOrder(Order, Here), open \in InOrder(Cases, Open), there \in InOrder(Messages, There)}

Follows(kind, from, to) ==
    <<from, to>> \in IF kind = "case" THEN {<<"none", "waiting">>, <<"waiting", "approved">>,
                                            <<"waiting", "gone">>, <<"approved", "gone">>}
                     ELSE IF kind = "message" THEN {<<"none", "sent">>, <<"sent", "gone">>}
                     ELSE {<<"asks", "goes">>, <<"goes", "gone">>}

ServerSteps ==
    /\ server.steps > 0
    /\ \/ \E m \in Ids(Order), to \in {"goes", "gone"} :
            /\ Follows("move", server.moves[m], to)
            /\ server' = [server EXCEPT !.moves[m] = to, !.steps = @ - 1]
       \/ \E c \in Ids(Cases), to \in {"waiting", "approved", "gone"} :
            /\ Follows("case", server.cases[c], to)
            /\ server' = [server EXCEPT !.cases[c] = to, !.steps = @ - 1]
       \/ \E m \in Ids(Messages), to \in {"sent", "gone"} :
            /\ Follows("message", server.messages[m], to)
            /\ server' = [server EXCEPT !.messages[m] = to, !.steps = @ - 1]
    /\ UNCHANGED <<page, view, memory, lcd, asked, sent, news>>

Administrates ==
    /\ server.steps > 0
    /\ \/ /\ server.publication < MaxPublication
          /\ server' = [server EXCEPT !.publication = @ + 1, !.steps = @ - 1]
       \/ server' = [server EXCEPT !.assigned = ~@, !.steps = @ - 1]
       \/ server' = [server EXCEPT !.known = FALSE, !.assigned = FALSE, !.steps = @ - 1]
       \/ server' = [server EXCEPT !.up = ~@, !.steps = @ - 1]
    /\ UNCHANGED <<page, view, memory, lcd, asked, sent, news>>

\* The server carries a command out or refuses it.
Carried(c) ==
    CASE c.action = "train.departed" /\ c.of \in Ids(Order) -> Follows("move", server.moves[c.of], "gone")
      [] c.action = "clearance.response" -> server.cases[c.of] = "waiting"
      [] c.action = "line.available.acknowledge" -> server.messages[c.of] = "sent"
      [] c.action = "train.lookup" -> \E m \in Ids(Order) : server.moves[m] # "gone" /\ c.of = "known"
      [] OTHER -> TRUE

After(c) ==
    CASE c.action = "train.departed" -> [server EXCEPT !.moves[c.of] = "gone"]
      [] c.action = "clearance.response" -> [server EXCEPT !.cases[c.of] = IF c.to THEN "approved" ELSE "rejected"]
      [] c.action = "line.available.acknowledge" -> [server EXCEPT !.messages[c.of] = "gone"]
      [] OTHER -> server

\* The cases and messages at one moment.  A case or message only goes on,
\* towards being gone: one moment comes after another, or is the same.
Now == [cases |-> server.cases, messages |-> server.messages]

Later(x, y) == x = y \/ x = "none" \/ y = "gone" \/ (x = "waiting" /\ y # "none")

Reached(past, now) ==
    /\ \A c \in Ids(Cases) : Later(past.cases[c], now.cases[c])
    /\ \A m \in Ids(Messages) : Later(past.messages[m], now.messages[m])

\* What had come by a moment, of what is told.
ComeBy(told, moment) ==
    {n \in told : CASE n[1] = "IncomingRequest" -> moment.cases[n[2]] # "none"
                    [] n[1] = "Answer" -> moment.cases[n[2]] \in {"approved", "rejected", "gone"}
                    [] n[1] = "IncomingTrain" -> moment.messages[n[2]] # "none"}

-----------------------------------------------------------------------------
(* The page *)

NoAssignment == [status |-> "none", publication |-> 0, language |-> None]

\* Mutated form of Booting: the station that is loading is not left by itself.
BootingOnly == {"Identity", "AwaitingAssignment", "ServerGone"}

Booting == {"Identity", "AwaitingAssignment", "ServerGone", "LoadingStation"}

\* drawV2: what the display shows from now on.
Drawn(v, c, s) == [shows |-> OnDisplay(v, c, s), flashed |-> FALSE, remapped |-> FALSE]

Init ==
    /\ \E traffic \in Traffics :
         server = [publication |-> 1, assigned |-> TRUE, known |-> TRUE, up |-> TRUE,
                   language |-> CHOOSE l \in Languages : TRUE,
                   moves |-> traffic.moves, cases |-> traffic.cases, messages |-> traffic.messages,
                   steps |-> traffic.steps]
    /\ page = [browser |-> FALSE, connecting |-> "self",
               assignment |-> NoAssignment, config |-> NoConfig, configFor |-> 0,
               snapshot |-> NoSnapshot, of |-> 0, language |-> None, dialog |-> "no",
               flash |-> FALSE, behind |-> "Overview"]
    /\ view = StartView /\ memory = Deaf /\ lcd = Drawn(StartView, NoConfig, NoSnapshot)
    /\ asked = [r \in Refreshes |-> None] /\ sent = None
    /\ news = [told |-> {}, last |-> Now, turned |-> FALSE, twice |-> FALSE]

Draw == lcd' = Drawn(view', page'.config, page'.snapshot)

Waiting(r, at) == asked[r] # None /\ asked[r].at = at /\ asked[r].answer # None
Answer(r) == asked[r].answer
\* boxFetch: without a browser nothing is asked at all.
Ask(r, at, for) ==
    asked' = [asked EXCEPT ![r] = [at |-> at, for |-> for, fresh |-> TRUE,
                                   answer |-> IF page'.browser THEN None ELSE [ok |-> "lost"]]]
Done(r) == asked' = [asked EXCEPT ![r] = None]
\* ++uiEpoch: a language asked for before is not taken any more.
NewUI(tasks) == [r \in Refreshes |-> IF tasks[r] = None THEN None ELSE [tasks[r] EXCEPT !.fresh = FALSE]]

\* connectBrowserTMBox: who the browser is, from its saved token or as a new one.
Connected ==
    /\ page.connecting # "no"
    /\ LET taken == server.up /\ (page.connecting = "create" \/ server.known)
       IN  /\ page' = [page EXCEPT !.connecting = "no", !.browser = taken]
           /\ server' = IF taken /\ page.connecting = "create" THEN [server EXCEPT !.known = TRUE] ELSE server
           /\ asked' = IF taken THEN NewUI(asked) ELSE asked
    /\ UNCHANGED <<view, memory, lcd, sent, news>>

\* The start button is there while there is no browser: it forgets the token.
StartClicked ==
    /\ ~page.browser /\ page.connecting = "no"
    /\ page' = [page EXCEPT !.connecting = "create"]
    /\ UNCHANGED <<server, view, memory, lcd, asked, sent, news>>

\* Mutated form of Cleared: the station is still believed to be configured.
ClearedButKnown(p) == [p EXCEPT !.config = NoConfig, !.snapshot = NoSnapshot, !.of = 0]

\* Nothing is left of a station the box no longer is.
Cleared(p) == [p EXCEPT !.configFor = 0, !.config = NoConfig, !.snapshot = NoSnapshot, !.of = 0]

Unassigned(r, p) ==
    /\ page' = Cleared(p)
    /\ view' = Show(view, IF p.assignment.status = "none" THEN "Identity" ELSE "AwaitingAssignment")
    /\ Draw /\ Done(r)
    /\ UNCHANGED <<server, memory, sent, news>>

\* The timer, and the end of a flash, ask whether or not the last refresh is
\* done.  (Any that does not run stands for the others.)
Refresh(r) ==
    /\ asked[r] = None /\ r = CHOOSE q \in Refreshes : asked[q] = None
    /\ page.connecting = "no"
    /\ IF page.browser
       THEN /\ UNCHANGED <<server, page, view, memory, lcd, sent, news>>
            /\ Ask(r, "assignment", NoAssignment)
       ELSE Unassigned(r, [page EXCEPT !.assignment = NoAssignment])

\* The server answers with what is true at that moment, or nobody answers.
Served(r) ==
    /\ asked[r] # None /\ asked[r].answer = None
    /\ \E picture \in Pictures :
       asked' = [asked EXCEPT ![r].answer =
         IF ~server.up THEN [ok |-> "lost"]
         ELSE IF ~server.known THEN [ok |-> "unknown"]
         ELSE IF asked[r].at = "assignment"
              THEN [ok |-> "yes", status |-> IF server.assigned THEN "assigned" ELSE "awaiting",
                    publication |-> server.publication, language |-> server.language]
         ELSE IF asked[r].at = "language" THEN [ok |-> "yes", language |-> server.language]
         ELSE IF ~server.assigned THEN [ok |-> "no"]
         ELSE IF asked[r].at = "config" THEN [ok |-> "yes", publication |-> server.publication]
         ELSE [ok |-> "yes", publication |-> server.publication, snapshot |-> picture, moment |-> Now]]
    /\ UNCHANGED <<server, page, view, memory, lcd, sent, news>>

\* The station's configuration is asked for when another is held, and the
\* keys of the old one are put away first.
Continue(r, p, assignment) ==
    IF p.configFor = assignment.publication
    THEN /\ page' = p
         /\ Ask(r, "snapshot", assignment)
         /\ UNCHANGED <<server, view, memory, lcd, sent, news>>
    ELSE /\ page' = Cleared(p)
         /\ view' = Show(view, "LoadingStation")
         /\ Ask(r, "config", assignment)
         /\ UNCHANGED <<server, memory, lcd, sent, news>>

AssignmentOf(answer) ==
    IF answer.ok = "yes"
    THEN [status |-> answer.status, publication |-> answer.publication, language |-> answer.language]
    ELSE NoAssignment

\* A box the server does not know any more is no box.
AfterAssignment(r) ==
    /\ Waiting(r, "assignment")
    /\ LET assignment == AssignmentOf(Answer(r))
           p == [page EXCEPT !.assignment = assignment, !.browser = @ /\ Answer(r).ok # "unknown"]
       IN  IF assignment.language \notin {None, page.language}
           THEN /\ page' = p /\ Ask(r, "language", assignment)
                /\ UNCHANGED <<server, view, memory, lcd, sent, news>>
           ELSE IF assignment.status # "assigned" THEN Unassigned(r, p)
           ELSE Continue(r, p, assignment)

\* The texts of the box in another language, unless they have changed since.
\* What the page holds as its assignment by then is what goes on.
AfterLanguage(r) ==
    /\ Waiting(r, "language")
    /\ LET p == [page EXCEPT
                   !.assignment = IF Answer(r).ok = "lost" THEN NoAssignment ELSE @,
                   !.language = IF Answer(r).ok = "yes" /\ asked[r].fresh THEN Answer(r).language ELSE @]
       IN  IF p.assignment.status # "assigned" THEN Unassigned(r, p) ELSE Continue(r, p, p.assignment)

Pickers == {"TrackPicker", "LinePicker"}

SameScope(answer, assignment) == answer.ok = "yes" /\ answer.publication = assignment.publication

\* The station's configuration is there, and drawn only with the snapshot.
AfterConfig(r) ==
    /\ Waiting(r, "config")
    /\ IF SameScope(Answer(r), asked[r].for)
       THEN /\ page' = [page EXCEPT !.config = ConfigOf(Answer(r).publication),
                                    !.configFor = asked[r].for.publication]
            /\ memory' = Deaf
            /\ Ask(r, "snapshot", asked[r].for)
            /\ lcd' = [lcd EXCEPT !.remapped = @ \/ view.screen \in Pickers]
            /\ UNCHANGED <<server, view, sent, news>>
       ELSE /\ Done(r) /\ UNCHANGED <<server, page, view, memory, sent, news>> /\ Draw

Remapped(r) ==
    /\ page' = [page EXCEPT !.configFor = 0]
    /\ view' = Show(view, "LoadingStation")
    /\ Draw /\ UNCHANGED <<memory, news>>

Taken(r) ==
    LET seen == Observe(memory, Answer(r).snapshot)
        shown == IF view.screen \in Booting THEN Show(view, "Overview") ELSE view
    IN  /\ page' = [page EXCEPT !.snapshot = Answer(r).snapshot, !.of = Answer(r).publication]
        /\ memory' = seen.memory
        /\ news' = [told |-> ComeBy(news.told, Answer(r).moment) \cup seen.news, last |-> Answer(r).moment,
                    turned |-> ~Reached(news.last, Answer(r).moment),
                    twice |-> seen.news \cap news.told # {}]
        /\ view' = Reconcile(shown, page.config, Answer(r).snapshot)
        /\ Draw

AfterSnapshot(r) ==
    /\ Waiting(r, "snapshot")
    /\ CASE Answer(r).ok = "lost" -> UNCHANGED <<page, view, memory, lcd, news>>
         [] Answer(r).ok \in {"no", "unknown"} -> /\ view' = Show(view, "ServerGone") /\ page' = page
                                                  /\ Draw /\ UNCHANGED <<memory, news>>
         [] Answer(r).ok = "yes" /\ ~SameScope(Answer(r), asked[r].for) -> Remapped(r)
         [] Answer(r).ok = "yes" /\ SameScope(Answer(r), asked[r].for) -> Taken(r)
    /\ Done(r)
    /\ UNCHANGED <<server, sent>>

-----------------------------------------------------------------------------
(* Keys, commands and their flashes *)

Unlock ==
    /\ view.locked /\ view' = [view EXCEPT !.locked = FALSE]
    /\ UNCHANGED <<server, page, memory, lcd, asked, sent, news>>

PressKey(key, shorter) ==
    /\ sent = None /\ ~page.flash /\ page.dialog # "open"
    /\ LET result == Press(key, view, page.config, page.snapshot, shorter)
       IN  \/ /\ result.outcome = "Redraw"
              /\ view' = result.view /\ UNCHANGED <<page, sent>> /\ Draw
           \/ /\ result.outcome = "Send"
              /\ view' = Show(result.view, "Sending")
              /\ page' = [page EXCEPT !.behind = IF view.screen \in Pickers THEN "Detail" ELSE view.screen]
              /\ sent' = [action |-> result.command.action, of |-> result.command.of,
                          to |-> result.command.to, publication |-> page.of, matches |-> << >>,
                          answer |-> IF page.browser THEN None ELSE "lost"]
              /\ Draw
    /\ UNCHANGED <<server, memory, asked, news>>

PressAnyKey == \E key \in Keys, shorter \in Numbers \cup {None} : PressKey(key, shorter)

\* A command for another publication is refused, and the answer may get lost.
CommandServed ==
    /\ sent # None /\ sent.answer = None
    /\ \E heard \in BOOLEAN, picture \in Pictures :
       LET done == /\ server.up /\ server.known /\ server.assigned
                   /\ sent.publication = server.publication /\ Carried(sent)
       IN  /\ sent' = [sent EXCEPT !.answer = IF ~server.up \/ ~heard THEN "lost" ELSE IF done THEN "done" ELSE "rejected",
                                   !.matches = IF sent.action = "train.lookup"
                                               THEN [i \in DOMAIN picture.moves |-> picture.moves[i].id] ELSE << >>]
           /\ server' = IF done THEN After(sent) ELSE server
    /\ UNCHANGED <<page, view, memory, lcd, asked, news>>

\* A lookup lands on a screen, any other answer flashes past.
CommandAnswered ==
    /\ sent # None /\ sent.answer # None
    /\ CASE sent.answer = "lost" -> /\ view' = Show(view, page.behind)
                                    /\ page' = [page EXCEPT !.behind = "Overview"]
         [] sent.answer = "done" /\ sent.action = "train.lookup" ->
              /\ view' = ApplyLookup(view, page.snapshot, sent.matches)
              /\ page' = [page EXCEPT !.behind = "Overview"]
         [] sent.answer = "done" /\ sent.action # "train.lookup" ->
              /\ view' = Show(view, "CommandAccepted") /\ page' = [page EXCEPT !.flash = TRUE]
         [] sent.answer = "rejected" ->
              /\ view' = Show(view, "CommandRejected") /\ page' = [page EXCEPT !.flash = TRUE]
    /\ sent' = None /\ Draw
    /\ UNCHANGED <<server, memory, asked, news>>

\* The screen behind the flash is back, and drawn by the refresh that follows.
FlashEnds ==
    /\ page.flash
    /\ page' = [page EXCEPT !.flash = FALSE, !.behind = "Overview"] /\ view' = Show(view, page.behind)
    /\ lcd' = [lcd EXCEPT !.flashed = TRUE]
    /\ UNCHANGED <<server, memory, asked, sent, news>>

\* D asks for the languages of the box; a saved one changes the texts at once.
OpenLanguage ==
    /\ page.browser /\ sent = None /\ ~page.flash /\ page.dialog = "no"
    /\ view.screen \in {"Overview", "AwaitingAssignment"}
    /\ page' = [page EXCEPT !.dialog = "asking"]
    /\ UNCHANGED <<server, view, memory, lcd, asked, sent, news>>

LanguageOpened ==
    /\ page.dialog = "asking"
    /\ page' = IF server.up /\ server.known THEN [page EXCEPT !.dialog = "open", !.language = server.language]
               ELSE [page EXCEPT !.dialog = "no"]
    /\ UNCHANGED <<server, view, memory, lcd, asked, sent, news>>

SaveLanguage(language) ==
    /\ page.dialog = "open" /\ page.browser /\ server.up /\ server.known
    /\ server' = [server EXCEPT !.language = language]
    /\ page' = [page EXCEPT !.dialog = "no", !.language = language]
    /\ asked' = NewUI(asked) /\ UNCHANGED <<view, memory, sent, news>> /\ Draw

CloseLanguage ==
    /\ page.dialog = "open" /\ page' = [page EXCEPT !.dialog = "no"]
    /\ UNCHANGED <<server, view, memory, lcd, asked, sent, news>>

-----------------------------------------------------------------------------
Page ==
    \/ Connected \/ LanguageOpened \/ Unlock \/ CommandAnswered \/ FlashEnds
    \/ \E r \in Refreshes : \/ Refresh(r) \/ AfterAssignment(r) \/ AfterLanguage(r)
                            \/ AfterConfig(r) \/ AfterSnapshot(r)

Answers == CommandServed \/ \E r \in Refreshes : Served(r)

Operator == \/ StartClicked \/ PressAnyKey \/ OpenLanguage \/ CloseLanguage
            \/ \E l \in Languages : SaveLanguage(l)

Next == Page \/ Answers \/ Operator \/ ServerSteps \/ Administrates

Spec == Init /\ [][Next]_vars

\* The timers of the page run, answers come or fail, and somebody presses
\* the start button of a box that has none.
Fairness ==
    /\ WF_vars(Connected) /\ WF_vars(Unlock) /\ WF_vars(CommandAnswered) /\ WF_vars(FlashEnds)
    /\ WF_vars(CommandServed) /\ WF_vars(StartClicked)
    /\ \A r \in Refreshes :
         /\ WF_vars(Refresh(r)) /\ WF_vars(Served(r))
         /\ WF_vars(AfterAssignment(r)) /\ WF_vars(AfterLanguage(r))
         /\ WF_vars(AfterConfig(r)) /\ WF_vars(AfterSnapshot(r))

FairSpec == Spec /\ Fairness

-----------------------------------------------------------------------------
(* Properties *)

TypeOK ==
    /\ page.connecting \in {"no", "self", "create"} /\ page.dialog \in {"no", "asking", "open"}
    /\ page.configFor \in 0 .. MaxPublication /\ page.of \in 0 .. MaxPublication
    /\ page.configFor # 0 => page.config = ConfigOf(page.configFor)
    /\ view.move \in 0 .. Len(Order)
    /\ view.case \in {1} \cup DOMAIN Cases \cup DOMAIN Messages
    /\ view.track \in {1} \cup DOMAIN Tracks /\ view.line \in {1} \cup DOMAIN Lines
    /\ view.number \in Numbers \cup {None}
    /\ sent # None => sent.publication \in 0 .. MaxPublication

Reads(drawn, command) ==
    CASE command.action = "train.lookup" -> drawn = [screen |-> "Lookup", on |-> command.of]
      [] command.action = "clearance.request" -> drawn = [screen |-> "LinePicker", on |-> command.to]
      [] command.action = "train.track.change" -> drawn = [screen |-> "TrackPicker", on |-> command.to]
      [] command.action = "clearance.response" -> drawn = [screen |-> "CaseInbox", on |-> command.of]
      [] command.action = "line.available.acknowledge" -> drawn = [screen |-> "LineInbox", on |-> command.of]
      [] OTHER -> drawn = [screen |-> "Detail", on |-> command.of]

\* What is sent is what the display showed when the key was pressed, however
\* publications, overlapping refreshes and answers fell (pressV2Key,
\* refreshTMBoxV2, drawV2), but for two cases the code leaves: the flash of the
\* command before has ended, and nothing is drawn until the snapshot comes; or
\* another refresh has put a configuration under an open picker.
ShownIsSent ==
    [][sent = None /\ sent' # None =>
         \/ Reads(lcd.shows, sent')
         \/ lcd.flashed
         \/ lcd.remapped /\ view.screen \in Pickers]_vars

\* What is signalled has not been signalled before, over new configurations,
\* lost links, empty snapshots and overlapping refreshes (AttentionController),
\* unless the snapshots have turned: this one is of an earlier moment than the
\* one before it, or one that was has come since, from before there was such a
\* thing to signal (then ComeBy has left it out of what is told).
AnnouncedOnce == news.twice => news.turned

\* A box that is known and assigned, at a server that answers, comes to hold
\* the snapshot of the publication that is selected (refreshTMBoxV2).
PanelRecovers ==
    <>[](server.up /\ server.known /\ server.assigned)
        => <>[](/\ page.of = server.publication
                /\ view.screen \notin {"Identity", "AwaitingAssignment", "ServerGone", "LoadingStation"})
=============================================================================
