---------------------------- MODULE MeetLifecycle ----------------------------
(***************************************************************************)
(* The meet selection (lifecycle.py), the changes that go through it       *)
(* (http_server.py, cloud_config.py) and the station commands that have to *)
(* fit the selection (protocol_v2.handle_command).                         *)
(*                                                                         *)
(* A change of day, configuration, meet or timetable writes several stores *)
(* one after the other, each write in a transaction of its own: a durable  *)
(* marker is set first and removed last, and no command is taken while it  *)
(* is set.  No change writes everything: another weekday leaves the number *)
(* of the day and its traffic, an edit only the plan.  The data are cells, *)
(* and store[x] is the change that last wrote cell x; the changes are      *)
(* numbered in the order they are begun (a ghost, never reused).  The      *)
(* generation is the number the server compares.                           *)
(*                                                                         *)
(* The changes and the commands share one lock, which a crash or an        *)
(* exception lets go of in the middle of a change.                         *)
(***************************************************************************)
EXTENDS Naturals, Sequences

CONSTANTS
    Commands,       \* the message ids of the boxes
    MaxWorld,       \* bound: how many changes are begun
    Kinds,          \* the changes a behaviour may make
    None

ASSUME LifecycleAssumption == /\ MaxWorld \in Nat
                              /\ Kinds \subseteq {"tick", "jump", "reset", "day", "config", "meet", "edit"}
                              /\ None \notin Nat \cup Kinds

VARIABLES
    generation,     \* server_meet_selection: the generation in force
    publication,    \* server_meet_selection: the publication, named by its change
    marker,         \* server_meet_transition: the number of the change, or None
    change,         \* the change the lock holder is in, its steps done, and the store before it
    store,          \* store[x]: the change that wrote cell x
    scoped,         \* setting require_scoped_commands
    receipts,       \* device_commands: the messages with a remembered answer
    backup,         \* the database as it was before the last jump, or None
    made,           \* how many changes have been begun
    torn,           \* ghost: a change of the day was cut short, and no whole one has followed
    sent,           \* sent[c]: the selection the command carries (or None), and the
                    \* store its operator was looking at
    stranded,       \* ghost: the commands whose time was taken back by a restore and,
                    \* of those without a selection, those that met a day change cut short
    applied         \* applied[c]: the stores the command took effect on, in order

vars == <<generation, publication, marker, change, store, scoped, receipts, backup, made, torn,
          sent, stranded, applied>>

(***************************************************************************)
(* Runtime: number and start of the calendar, the active weekday, the plan *)
(* (publication and local edits).  Operations: the statuses of the traffic *)
(* day, the trains placed by the timetable (those with reports of their    *)
(* own stay), the identities of the movements.  Engine, rebuilt from the   *)
(* others when the process starts: the panels and the configuration.       *)
(***************************************************************************)
Cells == {"number", "start", "weekday", "plan", "statuses", "placed", "movements", "panels", "config"}
Durable == Cells \ {"panels", "config"}
DayCells == {"number", "start", "weekday", "statuses", "placed"}

Worlds == 0 .. MaxWorld
Stores == [Cells -> Worlds]
Selections == [generation : Worlds, publication : Worlds]
Selected == [generation |-> generation, publication |-> publication]

TypeOK ==
    /\ generation \in Worlds /\ publication \in Worlds /\ made \in Worlds
    /\ marker \in Worlds \cup {None}
    /\ change = None \/ change \in [kind : Kinds, done : 0 .. 6, old : Stores]
    /\ store \in Stores
    /\ scoped \in BOOLEAN /\ torn \in BOOLEAN
    /\ receipts \subseteq Commands /\ stranded \subseteq Commands
    /\ backup = None \/ backup \in [selected : Selections, store : Stores, scoped : BOOLEAN,
                                  torn : BOOLEAN, receipts : SUBSET Commands,
                                  sent : SUBSET Commands, applied : [Commands -> Seq(Stores)]]
    /\ sent \in [Commands -> {None} \cup [scope : Selections \cup {None}, seen : Stores]]
    /\ applied \in [Commands -> Seq(Stores)]

-----------------------------------------------------------------------------
(* The changes: what each of them writes, in the order of the code *)

\* Mutated form of Steps: the day changes do not ask for scoped commands.
StepsUnscoped(kind) ==
    CASE kind = "day" -> <<{"weekday"}, {"start"}, {"placed"}, {"panels"}>>
      [] kind = "config" -> <<{"movements"}, {"plan"}, {"panels", "config"}>>
      [] kind = "meet" -> <<{"scope"}, {"movements"}, {"statuses"}, {"placed"},
                            {"plan", "number", "start", "weekday"}, {"panels", "config"}>>
      [] kind = "edit" -> <<{"plan"}, {"movements"}, {"config"}>>
      [] OTHER -> <<{"number", "start"}, {"weekday"}, {"statuses"}, {"placed"}, {"panels"}>>

\* Mutated form of Steps: the engine keeps the configuration it has.
StepsWithoutEngine(kind) ==
    CASE kind = "day" -> <<{"weekday"}, {"start"}, {"placed"}, {"scope"}, {"panels"}>>
      [] kind = "config" -> <<{"movements"}, {"plan"}>>
      [] kind = "meet" -> <<{"scope"}, {"movements"}, {"statuses"}, {"placed"},
                            {"plan", "number", "start", "weekday"}>>
      [] kind = "edit" -> <<{"plan"}, {"movements"}>>
      [] OTHER -> <<{"number", "start"}, {"weekday"}, {"statuses"}, {"placed"}, {"scope"}, {"panels"}>>

\* The cells of every write, in order; "scope" is the setting require_scoped_commands.
EnterDay == <<{"number", "start"}, {"weekday"}, {"statuses"}, {"placed"}, {"scope"}, {"panels"}>>
ResetMeet == <<{"number", "start"}, {"weekday"}, {"statuses"}, {"placed"}, {"scope"}, {"panels"}>>
SetActiveDay == <<{"weekday"}, {"start"}, {"placed"}, {"scope"}, {"panels"}>>
Deliver(switching) ==
    IF switching THEN <<{"scope"}, {"movements"}, {"statuses"}, {"placed"},
                        {"plan", "number", "start", "weekday"}, {"panels", "config"}>>
                 ELSE <<{"movements"}, {"plan"}, {"panels", "config"}>>
CommitMeetData == <<{"plan"}, {"movements"}, {"config"}>>

\* tick: the calendar enters a new day; jump: an administrator enters one;
\* reset: the meet starts over; day: another weekday is chosen; config and meet:
\* a publication from Cloud, of this meet or of another; edit: local changes.
Steps(kind) ==
    CASE kind \in {"tick", "jump"} -> EnterDay
      [] kind = "reset" -> ResetMeet
      [] kind = "day" -> SetActiveDay
      [] kind \in {"config", "meet"} -> Deliver(kind = "meet")
      [] kind = "edit" -> CommitMeetData

\* May the remembered answers be deleted with the statuses of the day?  A change
\* of meet deletes them when there is something to archive.
ForgetsAnswers(kind) == IF kind = "meet" THEN BOOLEAN ELSE {TRUE}

\* Is a backup taken first?  Of edits only when they are discarded, of a
\* configuration only when it replaces edits.
BacksUp(kind) ==
    IF kind \in {"jump", "reset", "meet"} THEN {TRUE}
    ELSE IF kind \in {"edit", "config"} THEN BOOLEAN ELSE {FALSE}

\* The database with the ghosts that go with its data; sent are the commands made so far.
Image == [selected |-> Selected, store |-> store, scoped |-> scoped, torn |-> torn,
          receipts |-> receipts, sent |-> {c \in Commands : sent[c] # None}, applied |-> applied]

\* Mutated form of Begin: the marker is not written.
BeginUnmarked(kind) ==
    /\ change = None /\ marker = None /\ made < MaxWorld
    /\ made' = made + 1
    /\ change' = [kind |-> kind, done |-> 0, old |-> store]
    /\ UNCHANGED <<generation, publication, marker, store, scoped, receipts, backup, torn, sent, stranded, applied>>

\* begin_transition: refused while another change is not completed.
Begin(kind) ==
    /\ change = None /\ marker = None /\ made < MaxWorld
    /\ made' = made + 1
    /\ marker' = made + 1
    /\ change' = [kind |-> kind, done |-> 0, old |-> store]
    /\ \E copied \in BacksUp(kind) : backup' = IF copied THEN Image ELSE backup
    /\ UNCHANGED <<generation, publication, store, scoped, receipts, torn, sent, stranded, applied>>

\* One write of the change.  adopt_config builds the panels from the active day.
Write ==
    /\ change # None
    /\ change.done < Len(Steps(change.kind))
    /\ LET what == Steps(change.kind)[change.done + 1]
       IN  /\ store' = [x \in Cells |-> IF x \notin what THEN store[x]
                                        ELSE IF x = "panels" THEN store["weekday"] ELSE marker]
           /\ scoped' = (scoped \/ "scope" \in what)
           /\ \E forgets \in ForgetsAnswers(change.kind) :
                receipts' = IF forgets /\ "statuses" \in what THEN {} ELSE receipts
    /\ change' = [change EXCEPT !.done = @ + 1]
    /\ UNCHANGED <<generation, publication, marker, backup, made, torn, sent, stranded, applied>>

\* The changes that begin the traffic of a day over.
DayChange == {"tick", "jump", "reset"}

\* complete_transition: the target of the marker becomes the selection.
Completed == /\ generation' = generation + 1
             /\ publication' = IF change.kind \in {"config", "meet"} THEN marker ELSE publication
             /\ marker' = None
             /\ change' = None

Complete ==
    /\ change # None
    /\ change.done = Len(Steps(change.kind))
    /\ Completed
    /\ torn' = (torn /\ change.kind \notin DayChange \cup {"meet"})
    /\ UNCHANGED <<store, scoped, receipts, backup, made, sent, stranded, applied>>

\* Mutated form of Fail: whoever raises, the change counts as completed.
FailAnyhow ==
    /\ change # None
    /\ change.done < Len(Steps(change.kind))
    /\ Completed
    /\ torn' = (torn \/ (change.kind \in DayChange /\ change.done > 0))
    /\ UNCHANGED <<store, scoped, receipts, backup, made, sent, stranded, applied>>

\* _enter_day and reset_meet complete the change in a finally, whatever is written.
CutShort ==
    /\ change.kind \in DayChange
    /\ Completed
    /\ torn' = (torn \/ change.done > 0)
    /\ stranded' = stranded \cup {c \in Commands : /\ change.done > 0 /\ ~scoped
                                                 /\ sent[c] # None /\ sent[c].scope = None}
    /\ UNCHANGED store

\* _commit_meet_data writes the old data back and aborts.
Reverted ==
    /\ change.kind = "edit"
    /\ store' = change.old /\ marker' = None /\ change' = None
    /\ UNCHANGED <<generation, publication, torn, stranded>>

\* The others, and an edit whose old data cannot be written back, leave the marker.
LeftMarked ==
    /\ change.kind \in {"day", "config", "meet"} \/ (change.kind = "edit" /\ change.done > 0)
    /\ change' = None
    /\ UNCHANGED <<generation, publication, marker, store, torn, stranded>>

\* A write raises.
Fail ==
    /\ change # None
    /\ change.done < Len(Steps(change.kind))
    /\ CutShort \/ Reverted \/ LeftMarked
    /\ UNCHANGED <<scoped, receipts, backup, made, sent, applied>>

\* The engine is built from the runtime store when the process starts.
Rebuilt(s) == [s EXCEPT !["panels"] = s["weekday"], !["config"] = s["plan"]]

\* The process dies and starts again.
Crash ==
    /\ change' = None
    /\ store' = Rebuilt(store)
    /\ UNCHANGED <<generation, publication, marker, scoped, receipts, backup, made, torn, sent, stranded, applied>>

\* undo_jump, or a restore from the list: the database is put back, the traffic
\* and the marker with it, and the server starts again.  The boxes keep what they
\* have not got an answer to, also what was made after the copy was taken.
Restore ==
    /\ change = None /\ backup # None
    /\ generation' = backup.selected.generation
    /\ publication' = backup.selected.publication
    /\ store' = Rebuilt(backup.store)
    /\ scoped' = backup.scoped
    /\ torn' = backup.torn
    /\ receipts' = backup.receipts
    /\ applied' = backup.applied
    /\ marker' = None
    /\ backup' = None
    /\ stranded' = stranded \cup {c \in Commands : sent[c] # None /\ c \notin backup.sent}
    /\ UNCHANGED <<change, made, sent>>

-----------------------------------------------------------------------------
(* The station commands *)

\* A box composes a command from the snapshot it shows; old firmware puts no
\* selection on it.  No snapshot is served while the marker is set.
Compose(c) ==
    /\ sent[c] = None /\ change = None /\ marker = None
    /\ \E scope \in {Selected, None} :
        sent' = [sent EXCEPT ![c] = [scope |-> scope, seen |-> store]]
    /\ UNCHANGED <<generation, publication, marker, change, store, scoped, receipts, backup, made, torn,
                   stranded, applied>>

InScope(c) == IF sent[c].scope = None THEN ~scoped ELSE sent[c].scope = Selected

\* Mutated form of Remembered: nothing is looked up.
NothingRemembered(c) == FALSE

Remembered(c) == c \in receipts

(***************************************************************************)
(* handle_command, on the first delivery and on every resend: an answered  *)
(* message gets its answer again; else the traffic rules decide, and only  *)
(* an acceptance is remembered, in the transaction that applies it.  A      *)
(* rejection changes nothing.                                              *)
(***************************************************************************)
Accept(c) ==
    /\ sent[c] # None /\ change = None /\ marker = None
    /\ InScope(c) /\ ~Remembered(c)
    /\ applied' = [applied EXCEPT ![c] = Append(@, store)]
    /\ receipts' = receipts \cup {c}
    /\ UNCHANGED <<generation, publication, marker, change, store, scoped, backup, made, torn, sent, stranded>>

Init ==
    /\ generation = 0 /\ publication = 0 /\ marker = None /\ change = None /\ made = 0
    /\ store = [x \in Cells |-> 0]
    /\ scoped = FALSE /\ torn = FALSE
    /\ receipts = {} /\ stranded = {}
    /\ backup = None
    /\ sent = [c \in Commands |-> None]
    /\ applied = [c \in Commands |-> <<>>]

Next == \/ \E kind \in Kinds : Begin(kind)
        \/ Write \/ Complete \/ Fail \/ Crash \/ Restore
        \/ \E c \in Commands : Compose(c) \/ Accept(c)

Spec == Init /\ [][Next]_vars

-----------------------------------------------------------------------------
(* Properties *)

\* Cells that mean something only together: the plan, the movements it gives and
\* the configuration the engine runs; the weekday with what is built from it; the
\* day of the calendar with the traffic of the day.
PlanAgrees(s) == s["plan"] = s["movements"] /\ s["plan"] = s["config"]
WeekdayAgrees(s) == s["weekday"] = s["start"] /\ s["weekday"] = s["placed"] /\ s["weekday"] = s["panels"]
DayAgrees(s) == s["number"] = s["statuses"]
Agrees(s) == PlanAgrees(s) /\ WeekdayAgrees(s) /\ DayAgrees(s)

\* Once a command may be taken, the stores belong together: an interrupted change
\* "fails closed rather than accepting traffic against mixed versions" (lifecycle.py).
TrafficIsNeverMixed == marker = None => Agrees(store)

\* What is left of it: over crashes, exceptions in every write and restored backups,
\* traffic never runs on the plan of one change and the configuration of another,
\* and on the weekday or the number of one and the trains of another only after a
\* change of the day was cut short by an exception, until a whole one is completed.
OnlyACutDayIsMixed ==
    marker = None => PlanAgrees(store) /\ (torn \/ (WeekdayAgrees(store) /\ DayAgrees(store)))

\* A command has one effect on the traffic in the database, however often it is sent
\* again and whatever changes, crashes and restored backups come between; without a
\* selection, from old firmware, unless it is stranded.
AppliedOnce ==
    \A c \in Commands : c \notin stranded \/ sent[c].scope # None => Len(applied[c]) <= 1

SameOn(cells, s, t) == \A x \in cells : s[x] = t[x]

\* Whichever resend of a command arrives, it takes effect only on the data its
\* operator was looking at, queued commands of an earlier day being stale; without a
\* selection, from old firmware, on the operating day of that data (setting
\* require_scoped_commands).  A backup that is put back takes the generation back with
\* it: the exception is the commands made in the time that was undone.
CommandsFitTheirData ==
    \A c \in Commands \ stranded : \A k \in DOMAIN applied[c] :
        SameOn(IF sent[c].scope # None THEN Durable ELSE DayCells, applied[c][k], sent[c].seen)

\* What a change that runs to its end has set up anew, whatever was left in it before.
Renewed(kind) ==
    CASE kind \in DayChange -> DayCells \cup {"panels"}
      [] kind = "day" -> {"weekday", "start", "placed", "panels"}
      [] kind = "meet" -> Cells
      [] OTHER -> {"plan", "movements", "config"}

\* A change that runs to its end leaves behind none of the data that are its to set
\* up, whatever the interrupted and undone changes before it had left in them; a
\* delivered configuration builds the panels anew as well.
ACompletedChangeMends ==
    [][change # None /\ change.done = Len(Steps(change.kind)) /\ marker' = None =>
        /\ \A x \in Renewed(change.kind) : store'[x] = marker
        /\ change.kind # "edit" => store'["panels"] = store'["weekday"]]_vars

=============================================================================
