----------------------------- MODULE AdminBoxes ----------------------------
(***************************************************************************)
(* The clients of the admin page (web/app.js): the boxes of the server are *)
(* read again at an event and by a timer, one reading at a time and once   *)
(* more if asked meanwhile, but a save reads past that queue.  A box is    *)
(* assigned and removed in dialogs, and a removed one that still tries is  *)
(* taken in again in a form of the list itself.                            *)
(***************************************************************************)
EXTENDS Integers

CONSTANTS
    Boxes, Stations,
    MaxChanges,  \* what other administrators and the boxes change
    MaxSaves,    \* what this page saves
    None

VARIABLES
    boxes,  \* [box -> its station, "waiting" or "removed"]
    age,    \* changes on the server so far
    others, \* of those, the ones this page did not make
    page,   \* what is drawn, and the dialog and form that are open
    queue,  \* the readings one at a time: [running, again]
    direct, \* the reading of a save, past the queue: None or a reading
    save,   \* the command under way: None or [kind, box, station, got]
    event,  \* the stream has something to tell
    steady  \* external: from here on no reading fails

vars == <<boxes, age, others, page, queue, direct, save, event, steady>>

Places == Stations \cup {"waiting", "removed"}
Removed(table) == {b \in Boxes : table[b] = "removed"}
Asked == [got |-> None]
Command(kind, box, station) == [kind |-> kind, box |-> box, station |-> station, got |-> None]

\* seen and at: the boxes as they were read last, and how old; by: which reading that was;
\* listed: the removed ones in the list; inline: the one whose form is open there.
Init ==
    /\ boxes \in [Boxes -> {"waiting", "removed"}]
    /\ age = 0 /\ others = 0
    /\ page = [seen |-> boxes, at |-> 0, by |-> "queue", listed |-> Removed(boxes), inline |-> None,
               dialog |-> None, said |-> None, saves |-> 0]
    /\ queue = [running |-> None, again |-> FALSE]
    /\ direct = None
    /\ save = None
    /\ event = FALSE
    /\ steady \in BOOLEAN

(* ------------------------------ the server ------------------------------ *)

\* assign_discovered_device: whoever gives the code, a removed box as well.
\* remove_discovered_device: the box stays out until then.
Change(b, place) ==
    /\ boxes' = [boxes EXCEPT ![b] = place]
    /\ age' = age + 1
    /\ event' = TRUE

OthersChange(b, place) ==
    /\ others < MaxChanges
    /\ place # boxes[b]
    /\ Change(b, place)
    /\ others' = others + 1
    /\ UNCHANGED <<page, queue, direct, save, steady>>

ServerSaves ==
    /\ save # None /\ save.got = None
    /\ Change(save.box, IF save.kind = "remove" THEN "removed" ELSE save.station)
    /\ save' = [save EXCEPT !.got = "yes"]
    /\ UNCHANGED <<others, page, queue, direct, steady>>

Answer == [got |-> [boxes |-> boxes, age |-> age]]

ServerReads ==
    /\ \/ /\ queue.running = Asked
          /\ queue' = [queue EXCEPT !.running = Answer]
          /\ UNCHANGED direct
       \/ direct = Asked /\ direct' = Answer /\ UNCHANGED queue
    /\ UNCHANGED <<boxes, age, others, page, save, event, steady>>

(* ------------------------------- readings ------------------------------- *)

\* serially: one at a time, and one more if asked meanwhile.
Ask(q) == IF q.running = None THEN [running |-> Asked, again |-> FALSE] ELSE [q EXCEPT !.again = TRUE]

Done(q) == IF q.again THEN [running |-> Asked, again |-> FALSE] ELSE [q EXCEPT !.running = None]

\* refreshDevices draws: but the list keeps still while a form is open in it.
Drawn(reading, by) ==
    [page EXCEPT !.seen = reading.boxes, !.at = reading.age, !.by = by,
                 !.listed = IF page.inline = None THEN Removed(reading.boxes) ELSE @]

Hears ==
    /\ event
    /\ event' = FALSE
    /\ queue' = Ask(queue)
    /\ UNCHANGED <<boxes, age, others, page, direct, save, steady>>

\* scheduleAdminRefresh: every five seconds, or thirty while the stream is there.
Timer ==
    /\ queue.running = None
    /\ queue' = Ask(queue)
    /\ UNCHANGED <<boxes, age, others, page, direct, save, event, steady>>

QueueHeard ==
    /\ queue.running # None /\ queue.running.got # None
    /\ page' = Drawn(queue.running.got, "queue")
    /\ queue' = Done(queue)
    /\ UNCHANGED <<boxes, age, others, direct, save, event, steady>>

\* A reading that fails leaves what was drawn; one that throws ends the queue's run.
QueueFails ==
    /\ ~steady /\ queue.running # None
    /\ queue' \in {Done(queue), [running |-> None, again |-> queue.again]}
    /\ UNCHANGED <<boxes, age, others, page, direct, save, event, steady>>

\* After a save: the reading is heard or fails, and then the dialog of an assignment closes.
DirectHeard ==
    /\ direct # None
    /\ \/ direct.got # None /\ page' = [Drawn(direct.got, "direct") EXCEPT !.dialog = None]
       \/ ~steady /\ page' = [page EXCEPT !.dialog = None]
    /\ direct' = None
    /\ UNCHANGED <<boxes, age, others, queue, save, event, steady>>

(* ------------------------------- the forms ------------------------------ *)

Free == save = None /\ direct = None
Keep == UNCHANGED <<boxes, age, others, queue, direct, event, steady>>

\* A box that is drawn, or the code of any box typed in (openDeviceEditor).
OpenEditor(b) ==
    /\ Free /\ page.dialog = None
    /\ page' = [page EXCEPT !.dialog = [kind |-> "assign", box |-> b], !.said = None]
    /\ UNCHANGED save /\ Keep

\* From the editor, for a box that is still seen: Ta bort has a dialog of its own.
OpenRemove ==
    /\ Free /\ page.dialog # None /\ page.dialog.kind = "assign"
    /\ page.seen[page.dialog.box] # "removed"
    /\ page' = [page EXCEPT !.dialog.kind = "remove"]
    /\ UNCHANGED save /\ Keep

CloseDialog ==
    /\ Free /\ page.dialog # None
    /\ page' = [page EXCEPT !.dialog = None]
    /\ UNCHANGED save /\ Keep

\* Återanslut: in the list, while no dialog lies over it.
OpenInline(b) ==
    /\ Free /\ page.dialog = None /\ page.inline = None
    /\ b \in page.listed
    /\ page' = [page EXCEPT !.inline = b]
    /\ UNCHANGED save /\ Keep

CloseInline ==
    /\ Free /\ page.dialog = None /\ page.inline # None
    /\ page' = [page EXCEPT !.inline = None, !.listed = Removed(page.seen)]
    /\ UNCHANGED save /\ Keep

Send(command) ==
    /\ Free /\ page.saves < MaxSaves
    /\ save' = command
    /\ page' = [page EXCEPT !.saves = @ + 1, !.said = None]
    /\ Keep

Press(station) ==
    \/ page.dialog # None /\ Send(Command(page.dialog.kind, page.dialog.box, station))
    \/ page.dialog = None /\ page.inline # None /\ Send(Command("inline", page.inline, station))

\* TMBoxen är borttagen, once the server has said so.
Said(s) == IF s.kind = "remove" /\ s.got = "yes" THEN s.box ELSE None

\* The confirmed removal is drawn without another reading; the other saves read again first,
\* and the form of the list has gone by then.
SaveHeard ==
    /\ save # None /\ save.got = "yes"
    /\ page' = IF save.kind = "remove"
                 THEN [page EXCEPT !.seen[save.box] = "removed", !.by = "direct", !.dialog = None, !.said = Said(save)]
               ELSE IF save.kind = "inline" THEN [page EXCEPT !.inline = None]
               ELSE page
    /\ direct' = IF save.kind = "remove" THEN None ELSE Asked
    /\ save' = None
    /\ UNCHANGED <<boxes, age, others, queue, event, steady>>

\* Refused, lost on the way there or back, or without an answer for 15 seconds: done or not,
\* the form is free again and says so.
SaveFails ==
    /\ save # None
    /\ save' = None
    /\ page' = [page EXCEPT !.said = Said([save EXCEPT !.got = "no"])]
    /\ Keep

Next ==
    \/ \E b \in Boxes : OpenEditor(b) \/ OpenInline(b)
    \/ \E b \in Boxes, place \in Places : OthersChange(b, place)
    \/ \E station \in Stations : Press(station)
    \/ OpenRemove \/ CloseDialog \/ CloseInline \/ SaveHeard \/ SaveFails
    \/ ServerSaves \/ ServerReads \/ Hears \/ Timer \/ QueueHeard \/ QueueFails \/ DirectHeard

\* The timer comes again and again; what is asked is answered, and the answer heard.
Fairness ==
    /\ WF_vars(Timer) /\ WF_vars(Hears)
    /\ WF_vars(ServerReads) /\ WF_vars(QueueHeard) /\ WF_vars(DirectHeard)
    /\ WF_vars(ServerSaves) /\ WF_vars(SaveHeard)

Spec == Init /\ [][Next]_vars /\ Fairness

(* ------------------------------ properties ------------------------------ *)

\* The page and the server are of their shape.
TypeOK ==
    /\ boxes \in [Boxes -> Places] /\ page.seen \in [Boxes -> Places]
    /\ page.listed \subseteq Boxes
    /\ others \in 0..MaxChanges /\ page.saves \in 0..MaxSaves

\* A box that is said to be removed was removed, whatever has been done with it since.
NothingSaidUndone ==
    page.said # None => boxes[page.said] = "removed" \/ others > 0

\* Of the readings that wait for one another an older answer is never drawn over a newer
\* one (the comment of serially, app.js:2550).
InOrder == page.by = "queue" /\ page'.by = "queue" => page'.at >= page.at

\* Whatever was read past the queue, failed, or was held back by an open form: once the
\* readings succeed and no form is open in the list the page comes back to what the server has.
Working == steady /\ page.inline = None
UpToDate == page.seen = boxes /\ page.listed = Removed(boxes)
=============================================================================
