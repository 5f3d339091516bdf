--------------------------- MODULE TimetablePage ---------------------------
(***************************************************************************)
(* The timetable in the browser (web/data-page.js): the administrator      *)
(* edits the whole timetable and sends it back as a whole, with the        *)
(* revision it was made from; others save, discard and start days, and     *)
(* Cloud publishes versions that wait for a choice while there are local   *)
(* edits (http_server.py, runtime.py, cloud_config.py).                    *)
(*                                                                         *)
(* An edit is a number; a timetable is the local edits on its base.  The   *)
(* grid is Cloud's own (data-workspace.js): it takes new data only when    *)
(* nothing is unsaved, as the page does.                                   *)
(*                                                                         *)
(* A choice to take Cloud's version is of a version and of the edits that  *)
(* stood then.  While the traffic holds the version back more is saved,    *)
(* and goes with it: the server does not ask again.                        *)
(***************************************************************************)
EXTENDS Integers, FiniteSets

CONSTANTS
    Mine,        \* the edits this page may make
    Others,      \* those of other administrators
    Bounds,      \* [bases, generations, ends, days]: the versions Cloud publishes, the
                 \* generations there are and how many more that end local edits, and
                 \* whether days are started
    None

VARIABLES
    server,   \* [base, revision, top, text, generation, waiting, choice] and its bounds; a
              \* choice is None or [of, what, known], the edits it counts with (history)
    page,     \* [visible, latest, shown, pending, failed, behind]; behind is history
    grid,     \* [text, edits]: what the grid was given, and what is unsaved on it
    fetching, \* load: [running, again]
    save,     \* None or [stage, on, draft, got]
    order,    \* a discard or a choice under way: None or [kind, on]
    asked,    \* the page has asked about the waiting version
    runtime,  \* the stream has a change to tell
    overwritten \* edits replaced by somebody who had not seen them (history)

vars == <<server, page, grid, fetching, save, order, asked, runtime, overwritten>>

Edits == Mine \cup Others
Idle == [running |-> None, again |-> FALSE]
Sent == [got |-> None]    \* a request that has not been served

\* meet_data: the timetable and what a save of it has to name.
Reading == [base |-> server.base, revision |-> server.revision, text |-> server.text,
            generation |-> server.generation]

\* stale_local_edits and stale_meet_context
Refusal == [base |-> 0, revision |-> 0, text |-> {}, generation |-> 0]

\* pending_revision_state: the version that waits and the local edits it would replace;
\* without either there is no choice to show.
Pending ==
    IF server.waiting = None \/ server.revision = 0 THEN None
    ELSE [waiting |-> server.waiting, revision |-> server.revision, text |-> server.text]

Init ==
    /\ \E most \in Bounds :
         server = [most |-> most, base |-> 1, revision |-> 0, top |-> 0, text |-> {}, generation |-> 1,
                   waiting |-> None, choice |-> None]
    /\ page = [visible |-> FALSE, latest |-> None, shown |-> None, pending |-> None,
               failed |-> FALSE, behind |-> FALSE]
    /\ grid = [text |-> {}, edits |-> {}]
    /\ fetching = Idle
    /\ save = None /\ order = None
    /\ asked = FALSE /\ runtime = FALSE
    /\ overwritten = {}

(* ------------------------------ the server ------------------------------ *)

\* save_local_edits: the number counts on over discarded revisions of the base.
NewRevision(s) == s.top + 1

\* What is saved after a choice goes with it.
Counted(choice, more) == IF choice = None THEN None ELSE [choice EXCEPT !.known = @ \cup more]
Saved(s, text) == [s EXCEPT !.revision = NewRevision(s), !.top = NewRevision(s), !.text = text,
                            !.generation = @ + 1, !.choice = Counted(@, text \ s.text)]
Discarded(s) == [s EXCEPT !.revision = 0, !.text = {}, !.generation = @ + 1]

\* A change of the server to a page that listens.
Tells(s) == /\ server' = s
            /\ runtime' = page.visible
            /\ s.generation <= s.most.generations
                               + (IF s.revision < server.revision THEN s.most.ends ELSE 0)

OthersSave == /\ \E e \in Others \ server.text : Tells(Saved(server, server.text \cup {e}))
              /\ UNCHANGED <<page, grid, fetching, save, order, asked, overwritten>>
OthersDiscard == /\ server.revision # 0
                 /\ Tells(Discarded(server))
                 /\ UNCHANGED <<page, grid, fetching, save, order, asked, overwritten>>
NewDay == /\ server.most.days
          /\ Tells([server EXCEPT !.generation = @ + 1])
          /\ UNCHANGED <<page, grid, fetching, save, order, asked, overwritten>>

\* A version is fetched: _local_changes_waiting tells the pages, other waiting is silent.
Publish ==
    LET next == (IF server.waiting = None THEN server.base ELSE server.waiting) + 1 IN
      /\ next <= server.most.bases
      /\ IF server.revision # 0
         THEN Tells([server EXCEPT !.waiting = next])
         ELSE server' = [server EXCEPT !.waiting = next] /\ UNCHANGED runtime
      /\ UNCHANGED <<page, grid, fetching, save, order, asked, overwritten>>

\* What is lost to somebody who had seen no more than this.
Unseen(text) == server.text \ text

\* Local edits are only replaced when an administrator has chosen this version (_deliver).
Chosen(what) == server.choice # None /\ server.choice.of = server.waiting /\ server.choice.what = what
MayDeliver == server.waiting # None /\ (server.revision # 0 => Chosen("take"))

Deliver ==
    /\ MayDeliver
    /\ overwritten' = IF server.revision = 0 THEN overwritten
                      ELSE overwritten \cup Unseen(server.choice.known)
    /\ Tells([server EXCEPT !.base = server.waiting, !.revision = 0, !.top = 0, !.text = {},
                            !.generation = @ + 1, !.waiting = None, !.choice = None])
    /\ UNCHANGED <<page, grid, fetching, save, order, asked>>

\* save_meet_data, on the base, the revision and the generation the page was given.
Matches(on) == on.base = server.base /\ on.revision = server.revision /\ on.generation = server.generation

ServerSaves ==
    /\ save # None /\ save.stage = "write" /\ save.got = None
    /\ IF Matches(save.on)
       THEN LET s == Saved(server, save.draft) IN
            /\ Tells(s)
            /\ save' = [save EXCEPT !.got = [base |-> s.base, revision |-> s.revision, text |-> s.text,
                                             generation |-> s.generation]]
            /\ overwritten' = overwritten \cup Unseen(save.draft)
       ELSE /\ save' = [save EXCEPT !.got = Refusal]
            /\ UNCHANGED <<server, runtime, overwritten>>
    /\ UNCHANGED <<page, grid, fetching, order, asked>>

ServerReads ==
    /\ \/ /\ fetching.running = Sent
          /\ fetching' = [fetching EXCEPT !.running = [got |-> Reading]]
          /\ UNCHANGED save
       \/ /\ save # None /\ save.stage = "read" /\ save.got = None
          /\ save' = [save EXCEPT !.got = Reading]
          /\ UNCHANGED fetching
    /\ UNCHANGED <<server, page, grid, order, asked, runtime, overwritten>>

\* discard_meet_data: on the revision and the generation of the page.
MayDiscard(on) == on.revision = server.revision /\ on.generation = server.generation

\* decide_local_changes: on the version that waits and the revision it would replace.
MayDecide(on) == server.revision # 0 /\ on.waiting = server.waiting /\ on.revision = server.revision

ServerObeys ==
    \/ /\ order.kind = "discard" /\ MayDiscard(order.on)
       /\ Tells(Discarded(server))
       /\ overwritten' = overwritten \cup Unseen(order.on.text)
    \/ /\ order.kind # "discard" /\ MayDecide(order.on)
       /\ Tells([server EXCEPT !.choice = [of |-> order.on.waiting, what |-> order.kind,
                                           known |-> order.on.text]])
       /\ UNCHANGED overwritten

(* ------------------------------- readings ------------------------------- *)

\* load: one at a time, and once more if something came meanwhile.
Load(f) == IF f.running = None THEN [f EXCEPT !.running = Sent] ELSE [f EXCEPT !.again = TRUE]
Done(f) == IF f.again THEN [running |-> Sent, again |-> FALSE] ELSE Idle

\* Nothing is unsaved and nothing is being saved.
Clean(g, s) == g.edits = {} /\ s = None

\* offer: the grid is given the last answer, but never under an edit.
Offers(g, s) == Clean(g, s)

Fresh(reading) == [text |-> reading.text, edits |-> {}]

Offered(p, g, s) ==
    IF p.latest # None /\ Offers(g, s)
    THEN page' = [p EXCEPT !.shown = p.latest] /\ grid' = Fresh(p.latest)
    ELSE page' = p /\ grid' = g

LoadHeard ==
    /\ fetching.running \notin {None, Sent}
    /\ LET p == [page EXCEPT !.latest = fetching.running.got, !.failed = FALSE, !.behind = FALSE] IN
         IF page.shown = None THEN page' = [p EXCEPT !.shown = p.latest]
                                   /\ grid' = Fresh(p.latest)
         ELSE Offered(p, grid, save)
    /\ fetching' = Done(fetching)
    /\ UNCHANGED <<server, save, order, asked, runtime, overwritten>>

LoadFails ==
    /\ fetching.running # None
    /\ fetching' = Done(fetching)
    /\ page' = [page EXCEPT !.failed = TRUE]
    /\ UNCHANGED <<server, grid, save, order, asked, runtime, overwritten>>

\* refreshPending: what is heard is what the server has, or the choice is hidden.  An answer
\* that is late is older, like a choice that stays on the page.
PendingHeard ==
    /\ asked /\ asked' = FALSE
    /\ page' \in {[page EXCEPT !.pending = p] : p \in {Pending, None}}
    /\ UNCHANGED <<server, grid, fetching, save, order, runtime, overwritten>>

\* onLive
Hears ==
    /\ runtime /\ runtime' = FALSE
    /\ fetching' = Load(fetching)
    /\ asked' = TRUE
    /\ UNCHANGED <<server, page, grid, save, order, overwritten>>

Show ==
    /\ ~page.visible
    /\ page' = [page EXCEPT !.visible = TRUE, !.failed = FALSE]
    /\ fetching' = Load(fetching)
    /\ asked' = TRUE
    /\ UNCHANGED <<server, grid, save, order, runtime, overwritten>>

\* The view stays when the page is hidden, so that what is unsaved is still there.
Hide ==
    /\ page.visible
    /\ page' = [page EXCEPT !.visible = FALSE]
    /\ runtime' = FALSE
    /\ UNCHANGED <<server, grid, fetching, save, order, asked, overwritten>>

(* --------------------------- the administrator -------------------------- *)

Type(e) ==
    /\ page.visible /\ page.shown # None /\ save = None
    /\ e \notin grid.edits \cup grid.text
    /\ grid' = [grid EXCEPT !.edits = @ \cup {e}]
    /\ UNCHANGED <<server, page, fetching, save, order, asked, runtime, overwritten>>

Cancel ==
    /\ page.visible /\ grid.edits # {} /\ save = None
    /\ Offered(page, Fresh(page.shown), None)
    /\ UNCHANGED <<server, fetching, save, order, asked, runtime, overwritten>>

\* save: the draft, and what the page was given with it.
Save ==
    /\ page.visible /\ grid.edits # {} /\ save = None
    /\ save' = [stage |-> "write", on |-> page.shown, draft |-> grid.text \cup grid.edits, got |-> None]
    /\ UNCHANGED <<server, page, grid, fetching, order, asked, runtime, overwritten>>

\* A refusal is answered by reading again; the edits stay until they are cancelled.
SaveRefused ==
    /\ save # None /\ save.stage = "write"
    /\ \/ save.got = Refusal /\ fetching' = Load(fetching)
       \/ UNCHANGED fetching   \* blocked by the traffic, or no answer
    /\ save' = None
    /\ UNCHANGED <<server, page, grid, order, asked, runtime, overwritten>>

\* The timetable that was saved is read back as the server has it.
SaveHeard ==
    /\ save # None /\ save.stage = "write" /\ save.got \notin {None, Refusal}
    /\ page' = [page EXCEPT !.shown = save.got]
    /\ save' = [save EXCEPT !.stage = "read", !.on = save.got, !.got = None]
    /\ asked' = TRUE
    /\ UNCHANGED <<server, grid, fetching, order, runtime, overwritten>>

Older(reading) == page.latest # None /\ reading.generation < page.latest.generation

\* save ends: the grid has what was saved, and is then offered what was read last.
SaveEnds ==
    /\ save # None /\ save.stage = "read"
    /\ \/ /\ save.got # None
          /\ Offered([page EXCEPT !.latest = save.got, !.behind = Older(save.got)],
                     [text |-> save.draft, edits |-> {}], None)
       \/ Offered(page, [text |-> save.draft, edits |-> {}], None)   \* the reading failed
    /\ save' = None
    /\ UNCHANGED <<server, fetching, order, asked, runtime, overwritten>>

Ordered(kind, on) ==
    /\ page.visible /\ order = None
    /\ order' = [kind |-> kind, on |-> on]
    /\ UNCHANGED <<server, page, grid, fetching, save, asked, runtime, overwritten>>

\* On what the page lists (renderLocal, renderChoice).
Discard == page.latest # None /\ page.latest.revision # 0 /\ save = None /\ Ordered("discard", page.latest)
Decide(what) == page.pending # None /\ Ordered(what, page.pending)

\* The server does it and the page reads again; or it is refused, blocked by the traffic or
\* lost, and only a choice reads again then.
OrderDone ==
    /\ order # None /\ ServerObeys
    /\ fetching' = Load(fetching) /\ asked' = TRUE
    /\ order' = None
    /\ UNCHANGED <<page, grid, save>>
OrderFails ==
    /\ order # None
    /\ IF order.kind = "discard" THEN UNCHANGED <<fetching, asked>>
       ELSE fetching' = Load(fetching) /\ asked' = TRUE
    /\ ServerObeys \/ UNCHANGED <<server, runtime, overwritten>>   \* the answer may be what is lost
    /\ order' = None
    /\ UNCHANGED <<page, grid, save>>

ServerSteps == OthersSave \/ OthersDiscard \/ NewDay \/ Publish \/ Deliver

Next ==
    \/ ServerSteps \/ ServerSaves \/ ServerReads
    \/ LoadHeard \/ LoadFails \/ PendingHeard \/ Hears \/ Show \/ Hide
    \/ (\E e \in Mine : Type(e)) \/ Cancel \/ Save \/ SaveRefused \/ SaveHeard \/ SaveEnds
    \/ Discard \/ (\E what \in {"keep", "take"} : Decide(what)) \/ OrderDone \/ OrderFails

Fairness == /\ WF_vars(Hears) /\ WF_vars(ServerReads) /\ WF_vars(LoadHeard)
            /\ WF_vars(ServerSaves) /\ WF_vars(SaveRefused \/ SaveHeard) /\ WF_vars(SaveEnds)

Spec == Init /\ [][Next]_vars /\ Fairness

(* ------------------------------ properties ------------------------------ *)

Snapshots == [base : 1..server.most.bases, revision : 0..server.most.generations, text : SUBSET Edits,
              generation : 1..server.most.generations + server.most.ends]

TypeOK ==
    /\ {page.latest, page.shown} \subseteq Snapshots \cup {None}
    /\ grid \in [text : SUBSET Edits, edits : SUBSET Mine]
    /\ server.revision <= server.top /\ (server.revision = 0 => server.text = {})
    /\ save # None => page.shown # None /\ grid.edits # {}

\* Edits that somebody had saved when a save, a discard or a choice was made are not
\* replaced by it unless who made it had seen them, however long the page was open, hidden
\* or edited, whatever was read meanwhile, and however long a chosen version waited (the
\* comment at data-page.js:47).  What is saved after a choice is replaced with the rest.
NothingOverwritten == overwritten = {}

\* What is typed goes away when it is cancelled, or when the server has it.
UnsavedIsKept ==
    grid.edits # {} /\ grid'.edits # grid.edits =>
        \/ grid.edits \subseteq grid'.edits
        \/ Cancel
        \/ save # None /\ save.stage = "read" /\ grid.edits \subseteq save.draft

\* An open page with nothing unsaved comes to show what the server has, or says that it
\* could not be read; but the reading of a save may be older than one heard before it, and
\* then nothing asks again.
Working == page.visible /\ ~page.behind
UpToDate == ~Clean(grid, save) \/ page.failed \/ page.shown = Reading
=============================================================================
