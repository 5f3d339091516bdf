---------------------------- MODULE WebTerminal ----------------------------
(***************************************************************************)
(* The browser as a box of the server's terminal (terminal16_web,          *)
(* terminal.js): a live page that asks twice a second, or a test bench     *)
(* that is pushed every picture.  Keys that act on traffic are sent with   *)
(* the picture they were pressed on; typed digits stay in the page.        *)
(* A picture is its entry context (server run, device and station) and     *)
(* the revision of it.  The server is external.                            *)
(***************************************************************************)
EXTENDS Integers, Sequences

CONSTANTS None,
          MaxContext, MaxRevision   \* bounds: new stations or runs, and changes in each

VARIABLES server,   \* the picture of the box, and whether the server knows and answers it
          box,      \* the page
          poll,     \* pollLive: the question under way, and whether a key came after it
          press     \* the key under way

vars == <<server, box, poll, press>>

Start(context, revision) == [context |-> context, revision |-> revision]
Up == server.network # "down"
Refusal(kind) == [kind |-> kind]
Reply == IF ~Up THEN Refusal("failed") ELSE IF ~server.known THEN Refusal("unknown")
         ELSE [kind |-> "yes", picture |-> server.picture]

\* Mutated form of Later: a new run or station counts its pictures from the start.
LaterAnywhere(p, q) == p.revision > q.revision

Later(p, q) == p.context = q.context /\ p.revision > q.revision

Init ==
    /\ server = [network |-> "up", known |-> TRUE, picture |-> Start(1, 0)]
    /\ \E live \in BOOLEAN :
         box = [live |-> live, saved |-> TRUE, identity |-> FALSE, offered |-> FALSE,
                connected |-> FALSE, hidden |-> FALSE, frame |-> None, digits |-> FALSE,
                guard |-> FALSE, resetting |-> FALSE, timetable |-> 0]
    /\ poll = None /\ press = None

-----------------------------------------------------------------------------
(* The server (external) *)

Changes ==
    /\ \/ /\ server.picture.revision < MaxRevision
          /\ server' = [server EXCEPT !.picture.revision = @ + 1]
       \/ /\ server.picture.context < MaxContext
          /\ server' = [server EXCEPT !.picture = Start(@.context + 1, 0)]
       \/ \E network \in {"up", "shaky", "down"} : server' = [server EXCEPT !.network = network]
       \/ box.live /\ server' = [server EXCEPT !.known = FALSE]
    /\ UNCHANGED <<box, poll, press>>

-----------------------------------------------------------------------------
(* The page *)

\* EntryBuffer.sync and the guard of a screen that has changed.
Shows(b, picture) ==
    [b EXCEPT !.digits = @ /\ b.frame # None /\ b.frame.context = picture.context,
              !.guard = @ \/ b.frame # picture,
              !.frame = picture]

\* Mutated form of Apply: the last answer wins.
ApplyLast(b, picture) == Shows(b, picture)

\* An older picture of the same context is not shown.
Apply(b, picture) == IF b.frame # None /\ Later(b.frame, picture) THEN b ELSE Shows(b, picture)

Update(b, picture) == Apply([b EXCEPT !.connected = TRUE], picture)
Lost(b) == [b EXCEPT !.connected = FALSE, !.digits = FALSE]
Forgotten(b) == [Lost(b) EXCEPT !.identity = FALSE, !.saved = FALSE, !.offered = TRUE]
Aged == IF poll = None THEN None ELSE [poll EXCEPT !.fresh = FALSE]

\* A saved box is used at once; a new one is made when somebody asks for it.
StartLive ==
    /\ box.live /\ ~box.identity /\ (box.saved \/ box.offered)
    /\ IF box.saved
       THEN /\ box' = [box EXCEPT !.identity = TRUE, !.offered = FALSE] /\ UNCHANGED server
       ELSE /\ box' = [box EXCEPT !.identity = Up, !.saved = Up, !.offered = ~Up]
            /\ server' = [server EXCEPT !.known = @ \/ Up]
    /\ UNCHANGED <<poll, press>>

\* confirmLive asks until the server answers; 401 means the box is gone.
ConfirmLive ==
    /\ box.live /\ box.identity /\ Up /\ ~server.known
    /\ box' = Forgotten(box) /\ poll' = Aged
    /\ UNCHANGED <<server, press>>

PollLive ==
    /\ box.live /\ box.identity /\ ~box.hidden /\ poll = None
    /\ poll' = [fresh |-> TRUE, answer |-> None]
    /\ UNCHANGED <<server, box, press>>

PollServed ==
    /\ poll # None /\ poll.answer = None
    /\ poll' = [poll EXCEPT !.answer = Reply]
    /\ UNCHANGED <<server, box, press>>

\* No answer is not a lost server until it has been silent for a while.
PollAnswered ==
    /\ poll # None /\ poll.answer # None
    /\ CASE poll.answer.kind = "failed" -> \E silent \in BOOLEAN : box' = IF silent THEN Lost(box) ELSE box
         [] poll.answer.kind = "unknown" -> box' = IF box.identity THEN Forgotten(box) ELSE Lost(box)
         [] poll.answer.kind = "yes" -> box' = IF poll.fresh THEN Update(box, poll.answer.picture) ELSE box
    /\ poll' = None
    /\ UNCHANGED <<server, press>>

\* The test bench is pushed every change, and hears when the stream is cut.
Pushed ==
    /\ ~box.live /\ Up
    /\ box' = Update(box, server.picture)
    /\ UNCHANGED <<server, poll, press>>

StreamCut ==
    /\ ~box.live /\ ~Up /\ box.connected
    /\ box' = Lost(box)
    /\ UNCHANGED <<server, poll, press>>

HiddenChanges ==
    /\ box.live
    /\ box' = IF box.hidden THEN [box EXCEPT !.hidden = FALSE] ELSE [Lost(box) EXCEPT !.hidden = TRUE]
    /\ poll' = IF box.hidden THEN poll ELSE Aged
    /\ UNCHANGED <<server, press>>

GuardEnds ==
    /\ box.guard /\ box' = [box EXCEPT !.guard = FALSE]
    /\ UNCHANGED <<server, poll, press>>

CanPress == box.connected /\ ~box.resetting /\ press = None /\ box.frame # None

\* Digits, and the keys that erase or cancel them, stay in the page.
PressLocal ==
    /\ CanPress
    /\ \E digits \in BOOLEAN : box' = [box EXCEPT !.digits = digits]
    /\ UNCHANGED <<server, poll, press>>

\* A key that acts waits after a change of screen; browsing and digits do not.
Guarded(acts) == box.guard /\ acts /\ ~box.digits

\* A key is sent with the picture; a typed number with its context.  The
\* shortcut leaves the number behind.
PressSent(number, acts) ==
    /\ CanPress /\ ~Guarded(acts) /\ (box.digits => number \/ ~acts) /\ (number => box.digits)
    /\ press' = [picture |-> box.frame, number |-> number, acts |-> acts, answer |-> None]
    /\ box' = [box EXCEPT !.digits = number]
    /\ poll' = Aged
    /\ UNCHANGED <<server>>

\* The server acts on the picture it still has, and answers with its own;
\* while the network is not steady the answer may be lost on its way.
PressServed ==
    /\ press # None /\ press.answer = None
    /\ LET current == Up /\ server.known /\ press.picture = server.picture
           acted == IF current /\ press.acts /\ server.picture.revision < MaxRevision
                    THEN Start(server.picture.context, server.picture.revision + 1) ELSE server.picture
       IN  \E heard \in BOOLEAN :
             /\ press' = [press EXCEPT !.answer =
                            IF ~Up \/ ~(heard \/ server.network = "up") THEN Refusal("failed")
                            ELSE IF ~server.known THEN Refusal("unknown")
                            ELSE [kind |-> "yes", accepted |-> current, picture |-> acted]]
             /\ server' = [server EXCEPT !.picture = acted]
    /\ UNCHANGED <<box, poll>>

\* An answer to another context than the box now shows is not for it.
PressTaken(b) ==
    IF press.answer.kind # "yes" \/ b.frame.context # press.picture.context THEN b
    ELSE Apply([b EXCEPT !.digits = @ /\ ~press.answer.accepted], press.answer.picture)

PressAnswered ==
    /\ press # None /\ press.answer # None
    /\ box' = PressTaken(box) /\ press' = None
    /\ UNCHANGED <<server, poll>>

\* The timetable beside the box is asked for every few seconds.
PollTimetable ==
    /\ box.live /\ box.identity /\ ~box.hidden /\ Up /\ server.known
    /\ box' = [box EXCEPT !.timetable = server.picture.context]
    /\ UNCHANGED <<server, poll, press>>

\* resetLab, and the form of the display sides: no key counts until the bench answers.
ResetLab ==
    /\ ~box.live /\ box.connected
    /\ \/ ~box.resetting /\ box' = [box EXCEPT !.resetting = TRUE] /\ UNCHANGED server
       \/ /\ box.resetting /\ Up /\ server.picture.context < MaxContext
          /\ server' = [server EXCEPT !.picture = Start(@.context + 1, 0)]
          /\ box' = [Update(box, server'.picture) EXCEPT !.resetting = FALSE]
       \/ box.resetting /\ box' = [box EXCEPT !.resetting = FALSE] /\ UNCHANGED server
    /\ UNCHANGED <<poll, press>>

Next ==
    \/ Changes \/ StartLive \/ ConfirmLive \/ PollLive \/ PollServed \/ PollAnswered
    \/ Pushed \/ StreamCut \/ HiddenChanges \/ GuardEnds \/ PressLocal
    \/ \E number, acts \in BOOLEAN : PressSent(number, acts)
    \/ PressServed \/ PressAnswered \/ PollTimetable \/ ResetLab

\* Timers fire and questions end; somebody asks for a box that is gone.
Fairness ==
    /\ WF_vars(StartLive) /\ WF_vars(PollLive) /\ WF_vars(PollServed) /\ WF_vars(PollAnswered)
    /\ WF_vars(Pushed) /\ WF_vars(PressServed) /\ WF_vars(PressAnswered) /\ WF_vars(ConfirmLive)
    /\ WF_vars(PollTimetable)

Spec == Init /\ [][Next]_vars /\ Fairness

-----------------------------------------------------------------------------
(* Properties *)

TypeOK ==
    /\ box.frame = None \/ (box.frame.context \in 1 .. MaxContext /\ box.frame.revision \in 0 .. MaxRevision)
    /\ box.timetable \in 0 .. MaxContext
    /\ box.identity => box.live /\ box.saved
    /\ box.digits => box.connected /\ box.frame # None

\* The pictures of one context never go back, whichever of the answers to a
\* key and to a poll comes first (apply, pollLive, press).
OrderStep == box.frame # None /\ box'.frame # None => ~Later(box.frame, box'.frame)

\* At a server that answers, a box that is looked at comes to show its picture
\* and the timetable of its station.
Working == server.network = "up" /\ server.known /\ ~box.hidden
UpToDate == box.frame = server.picture /\ (box.live => box.timetable = server.picture.context)
=============================================================================
