----------------------------- MODULE AdminServer ----------------------------
(***************************************************************************)
(* The page that restarts, restores, empties and updates its own server    *)
(* (web/app.js): it waits for a server that is gone, second by second, and *)
(* gives up; an update is followed in a status file that still holds what  *)
(* the previous attempt wrote until the updater writes its first step.     *)
(***************************************************************************)
EXTENDS Integers

CONSTANTS
    Tries,       \* the seconds the page waits for the server (60, and 240 for an update)
    Patience,    \* how many of them an old failure is taken for silence (30)
    MaxBoots, MaxAttempts,
    Copies,      \* the backups of the list
    None

VARIABLES
    server,  \* [up, boot, due, status, job, attempts, copies]
    page,    \* what the page shows and waits for
    request, \* the command under way: [kind, copy, got]
    list     \* the read of the backups under way: None or [got]

vars == <<server, page, request, list>>

Status(kind, of) == [kind |-> kind, of |-> of]

\* The page as it is loaded; nothing is kept over a reload.  `drawn` remembers the attempts
\* whose failure has stood on it, `known` those of them when the update was asked for.
Fresh == [wait |-> "no", tries |-> 0, restarting |-> FALSE, last |-> None, previous |-> None,
          drawn |-> {}, known |-> {}, said |-> None, dialog |-> FALSE, busy |-> FALSE,
          chosen |-> None, marked |-> None, offered |-> {}]

Init ==
    /\ server = [up |-> TRUE, boot |-> 1, due |-> FALSE, status |-> Status("idle", 0), job |-> None,
                 attempts |-> 0, copies |-> Copies]
    /\ page = Fresh
    /\ request = None
    /\ list = None

(* -------------------------- the backups' dialog ------------------------- *)

AskBackups ==
    /\ list = None
    /\ list' = [got |-> None]
    /\ UNCHANGED <<server, page, request>>

ServerLists ==
    /\ list # None /\ list.got = None
    /\ list' = IF server.up THEN [got |-> server.copies] ELSE None
    /\ UNCHANGED <<server, page, request>>

\* refreshBackups: not over an open dialog; the rows are new and unmarked.
BackupsHeard ==
    /\ list # None /\ list.got # None
    /\ list' = None
    /\ page' = IF page.dialog THEN page ELSE [page EXCEPT !.offered = list.got, !.marked = None]
    /\ UNCHANGED <<server, request>>

OpenRestore ==
    /\ ~page.dialog
    /\ page' = [page EXCEPT !.dialog = TRUE]
    /\ UNCHANGED <<server, request, list>>

Choose(copy) ==
    /\ page.dialog /\ ~page.busy
    /\ copy \in page.offered
    /\ page' = [page EXCEPT !.chosen = copy, !.marked = copy]
    /\ UNCHANGED <<server, request, list>>

\* cancelModal puts the marks back and takes the choice from them.
CancelRestore ==
    /\ page.dialog /\ ~page.busy
    /\ page' = [page EXCEPT !.dialog = FALSE, !.marked = None, !.chosen = None]
    /\ UNCHANGED <<server, request, list>>

\* A backup comes or is thinned out meanwhile.
CopiesChange ==
    /\ \E copy \in Copies :
         server' = [server EXCEPT !.copies = IF copy \in @ THEN @ \ {copy} ELSE @ \cup {copy}]
    /\ UNCHANGED <<page, request, list>>

(* ------------------------------ commands -------------------------------- *)

\* One of them at a time, which the questions they begin with make the administrator do.
Idle == request = None /\ page.wait = "no"

Send(kind, copy) == request' = [kind |-> kind, copy |-> copy, got |-> None] /\ UNCHANGED <<server, list>>

\* restartServer and the last step of the installation.
Restart ==
    /\ Idle /\ ~page.restarting
    /\ page' = [page EXCEPT !.restarting = TRUE]
    /\ Send("restart", None)

\* The restore's button is enabled by a choice (and by the typed name of what is lost).
Restore ==
    /\ Idle /\ page.dialog /\ ~page.busy /\ page.chosen # None
    /\ page' = [page EXCEPT !.busy = TRUE]
    /\ Send("restore", page.chosen)

\* The factory reset and the reset of the operation, from their own dialog.
Reset ==
    /\ Idle /\ ~page.dialog /\ ~page.busy
    /\ page' = [page EXCEPT !.busy = TRUE, !.restarting = TRUE]
    /\ Send("reset", None)

\* startSoftwareUpdate, from the button the drawn status shows: that status is not this
\* attempt's answer.
Update ==
    /\ Idle
    /\ page.last # None /\ page.last.kind # "active"
    /\ page' = [page EXCEPT !.previous = page.last.of, !.known = page.drawn, !.said = None]
    /\ Send("update", None)

\* The server answers before it goes: a backup that is gone and a second restart are refused.
Takes(r) ==
    /\ server.up /\ ~server.due
    /\ CASE r.kind = "restore" -> r.copy \in server.copies
         [] r.kind = "update" -> server.job = None /\ server.attempts < MaxAttempts
         [] OTHER -> TRUE

Taken(r) ==
    IF r.kind = "update"
    THEN [server EXCEPT !.attempts = @ + 1, !.job = server.attempts + 1]
    ELSE [server EXCEPT !.due = TRUE]

ServerTakes ==
    /\ request # None /\ request.got = None
    /\ IF Takes(request)
       THEN server' = Taken(request) /\ \E got \in {"yes", "lost"} : request' = [request EXCEPT !.got = got]
       ELSE request' = [request EXCEPT !.got = "no"] /\ UNCHANGED server
    /\ UNCHANGED <<page, list>>

Waits(kind) == [page EXCEPT !.wait = IF kind = "update" THEN "update" ELSE "return",
                            !.tries = 0, !.restarting = kind # "update" \/ page.restarting]

\* Every failure gives the buttons back; a restore that fails never said it was restarting.
CommandFails == [page EXCEPT !.restarting = page.restarting /\ request.kind \notin {"restart", "reset"},
                             !.busy = FALSE, !.said = IF request.kind = "update" THEN "refused" ELSE @]

CommandHeard ==
    /\ request # None /\ request.got # None
    /\ page' = IF request.got = "yes" THEN Waits(request.kind) ELSE CommandFails
    /\ request' = None
    /\ UNCHANGED <<server, list>>

(* --------------------------- the server's life -------------------------- *)

\* Mutated: the page that gives up stays as it was, waiting.
GivesUpSilently == [page EXCEPT !.wait = "no"]

\* waitForServerReturn after its last try.
GivesUp == [page EXCEPT !.wait = "no", !.restarting = FALSE, !.busy = FALSE]

\* One second of waitForServerReturn.  External: the server that takes a restart has
\* stopped listening (0.25 s) before the first of them has passed.
LookForServer ==
    /\ page.wait = "return" /\ ~server.due
    /\ page' = IF server.up THEN Fresh
               ELSE IF page.tries + 1 = Tries THEN GivesUp
               ELSE [page EXCEPT !.tries = @ + 1]
    /\ UNCHANGED <<server, request, list>>

\* request_restart, and the supervisor that starts the process again.
Stops == server.due /\ server' = [server EXCEPT !.up = FALSE, !.due = FALSE] /\ UNCHANGED <<page, request, list>>

Starts ==
    /\ ~server.up
    /\ server.boot < MaxBoots
    /\ server' = [server EXCEPT !.up = TRUE, !.boot = @ + 1]
    /\ UNCHANGED <<page, request, list>>

(* ------------------------------ the update ------------------------------ *)

\* External: the updater writes its first step, fails, or replaces the server and
\* restarts it; it may also never run.
Updater ==
    /\ server.job # None
    /\ \/ server.status.of # server.job /\ server' = [server EXCEPT !.status = Status("active", server.job)]
       \/ server.status.of # server.job /\ server' = [server EXCEPT !.job = None]
       \/ /\ server.status.of = server.job
          /\ \/ server' = [server EXCEPT !.status = Status("failed", server.job), !.job = None]
             \/ /\ server.boot < MaxBoots /\ server.up /\ ~server.due
                /\ server' = [server EXCEPT !.status = Status("complete", server.job), !.job = None,
                                            !.boot = @ + 1]
    /\ UNCHANGED <<page, request, list>>

Draws(status) ==
    [page EXCEPT !.last = status,
                 !.drawn = IF status.kind = "failed" THEN @ \cup {status.of} ELSE @]

\* checkSoftwareUpdate, whenever the settings are shown or the button is pressed.
CheckUpdate ==
    /\ server.up /\ page.wait # "update"
    /\ page' = Draws(server.status)
    /\ UNCHANGED <<server, request, list>>

Ends(what) == [Draws(server.status) EXCEPT !.wait = "no", !.said = what]

Stale(status) == status.kind = "failed" /\ status.of = page.previous

\* One second of waitForSoftwareUpdate.
FollowUpdate ==
    /\ page.wait = "update"
    /\ page' =
         IF page.tries = Tries THEN [page EXCEPT !.wait = "no", !.said = "long"]
         ELSE IF ~server.up THEN [page EXCEPT !.tries = @ + 1]
         ELSE IF Stale(server.status)
              THEN IF page.tries >= Patience THEN [page EXCEPT !.wait = "no", !.said = "silent"]
                   ELSE [page EXCEPT !.tries = @ + 1]
         ELSE IF server.status.kind = "failed" THEN Ends("failed")
         ELSE IF server.status.kind = "complete" THEN Fresh
         ELSE [Draws(server.status) EXCEPT !.tries = @ + 1]
    /\ UNCHANGED <<server, request, list>>

Next ==
    \/ AskBackups \/ ServerLists \/ BackupsHeard \/ OpenRestore \/ CancelRestore \/ CopiesChange
    \/ \E copy \in Copies : Choose(copy)
    \/ Restart \/ Restore \/ Reset \/ Update \/ ServerTakes \/ CommandHeard
    \/ LookForServer \/ Stops \/ Starts \/ Updater \/ CheckUpdate \/ FollowUpdate

\* A second passes while the page waits, and a request is answered or fails.
Fairness ==
    /\ WF_vars(LookForServer) /\ WF_vars(FollowUpdate)
    /\ WF_vars(ServerTakes) /\ WF_vars(CommandHeard) /\ WF_vars(Stops)

Spec == Init /\ [][Next]_vars /\ Fairness

(* ------------------------------ properties ------------------------------ *)

Kinds == {"idle", "active", "failed", "complete"}

\* The state is of its shape (the waits of web/app.js and the status file).
TypeOK ==
    /\ server.up \in BOOLEAN /\ server.boot \in 1..MaxBoots
    /\ server.status.kind \in Kinds /\ server.status.of \in 0..MaxAttempts
    /\ page.wait \in {"no", "return", "update"} /\ page.tries \in 0..Tries
    /\ page.chosen \in Copies \cup {None} /\ page.offered \subseteq Copies

\* The backup that would be restored is the one marked in the list the administrator
\* looks at, although the list is drawn anew between two openings of the dialog.
ChosenIsMarked == page.dialog => page.chosen = page.marked

\* A failure reported as the answer to a press of the button did not stand on the page
\* when it was pressed or before: an old one is not read back, however late the updater begins.
FailureIsNews ==
    (page.wait = "update" /\ page'.said = "failed") => server.status.of \notin page.known

\* Whatever becomes of the server, the page does not wait for ever, and its buttons come
\* back to the administrator.
Free == ~page.restarting /\ page.wait # "update"
=============================================================================
