----------------------------- MODULE AdminAccess ----------------------------
(***************************************************************************)
(* The way into the server's page (web/app.js): loading, the installation, *)
(* signing in and out, and the route that chooses what is shown.  Each of  *)
(* these is a handler of several requests, and the address of the page can *)
(* be changed (Back, a link) between any two of them.                      *)
(***************************************************************************)
EXTENDS Integers, FiniteSets

CONSTANTS
    Paths,      \* the addresses looked at, of those in Panel, "/" and "/display"
    MaxTasks,   \* handlers under way at a time
    MaxEnds,    \* sessions that end on the server
    None

VARIABLES
    server, \* [session, step, ends]: who is signed in, the step of the installation
    page,   \* [view, mode, auth, context, path, step]
    tasks   \* handlers under way, each in its next request: [kind, at, step, role, got]

vars == <<server, page, tasks>>

Roles == {"none", "admin", "user"}
Steps == <<"admin", "server", "central", "finish", "done">>
StepAfter(step) == CHOOSE next \in {"server", "central", "finish", "done"} :
                       \E i \in 1..4 : Steps[i] = step /\ Steps[i + 1] = next
Panel == [drift |-> "kor", installningar |-> "installningar", tidtabell |-> "tidtabell",
          hjalp |-> "help", login |-> "kor"]
Protected == {Panel[p] : p \in DOMAIN Panel}

Task(kind, at) == [kind |-> kind, at |-> at, step |-> None, role |-> None, got |-> None]

(* -------------------------------- views --------------------------------- *)

\* showLogin: the page takes itself to be signed out.
Login(p) == [p EXCEPT !.view = "login", !.auth = "none"]

\* showSetup: the step the server is at.
Setup(p, step) == [p EXCEPT !.view = "setup", !.step = step]

Shows(p, mode) == [p EXCEPT !.view = "app", !.mode = mode]

Opened(p) == IF p.auth = "none" THEN Login(p) ELSE Shows(p, Panel[p.path])

\* A driver has an account of their own and nothing else of the administration.
OnlyAccount(p) == p.auth = "user" /\ p.path # "/"

\* applyWorkspaceRoute.
Routed(p) ==
    CASE p.path = "display" -> [p EXCEPT !.view = "display"]
      [] p.path # "display" /\ OnlyAccount(p) ->
           [Shows(p, "installningar") EXCEPT !.path = "installningar"]
      [] p.path = "/" /\ p.auth = "admin" -> [Shows(p, "kor") EXCEPT !.path = "drift"]
      [] p.path = "/" /\ p.auth # "admin" -> Shows(p, "workspaces")
      [] OTHER -> Opened(p)

Loaded(path) ==
    [view |-> IF path = "display" THEN "display" ELSE "blank", mode |-> "workspaces",
     auth |-> "none", context |-> FALSE, path |-> path, step |-> None]

BootsAt(path) == IF path = "display" THEN {} ELSE {Task("boot", "setup")}

Init ==
    /\ server = [session |-> "none", step |-> "admin", ends |-> 0]
    /\ \E path \in Paths : page = Loaded(path) /\ tasks = BootsAt(path)

(* ------------------------------ the server ------------------------------ *)

\* What each request finds, or does.
Answer(task) ==
    CASE task.at = "login" ->
           /\ server' = [server EXCEPT !.session = task.role]
           /\ tasks' = (tasks \ {task}) \cup {[task EXCEPT !.got = "yes"]}
      [] task.at = "logout" ->
           /\ server' = [server EXCEPT !.session = "none"]
           /\ tasks' = (tasks \ {task}) \cup {[task EXCEPT !.got = "yes"]}
      [] task.at = "submit" ->
           /\ server' = IF task.step = server.step /\ task.step # "done"
                           /\ (task.step = "admin" \/ server.session = "admin")
                        THEN [server EXCEPT !.step = StepAfter(task.step),
                                            !.session = IF task.step = "admin" THEN "admin" ELSE @]
                        ELSE server
           /\ tasks' = (tasks \ {task}) \cup
                       {[task EXCEPT !.got = IF server' # server THEN "yes" ELSE "fails"]}
      [] task.at = "setup" ->
           tasks' = (tasks \ {task}) \cup {[task EXCEPT !.got = server.step]} /\ UNCHANGED server
      [] task.at = "auth" ->
           tasks' = (tasks \ {task}) \cup {[task EXCEPT !.got = server.session]} /\ UNCHANGED server
      [] OTHER ->
           tasks' = (tasks \ {task}) \cup {[task EXCEPT !.got = "yes"]} /\ UNCHANGED server

Answered ==
    /\ \E task \in tasks : task.got = None /\ Answer(task)
    /\ UNCHANGED page

Fails ==
    /\ \E task \in tasks : /\ task.got = None
                           /\ tasks' = (tasks \ {task}) \cup {[task EXCEPT !.got = "fails"]}
    /\ UNCHANGED <<server, page>>

\* The session ends on the server: the page is not told.  Bound: a session does not end
\* in the seconds of the sign-in or the step of the installation that made it.
SessionEnds ==
    /\ server.session # "none" /\ server.ends < MaxEnds
    /\ \A task \in tasks : task.kind \notin {"login", "install"}
    /\ server' = [server EXCEPT !.session = "none", !.ends = @ + 1]
    /\ UNCHANGED <<page, tasks>>

(* ------------------------------- handlers ------------------------------- *)

Ends(task) == tasks' = tasks \ {task}
GoesOn(task, at) == tasks' = (tasks \ {task}) \cup {[task EXCEPT !.at = at, !.got = None]}

\* openApplication: the view is there before the context is.
Opens(p, task) == page' = [p EXCEPT !.view = "app"] /\ GoesOn(task, "context")

\* bootstrap: the state of the installation, then who this is.
BootDecides(task) ==
    LET p == [page EXCEPT !.auth = task.got]
    IN IF task.step # "done" /\ (task.step = "admin" \/ task.got # "none")
       THEN page' = Setup(p, task.step) /\ Ends(task)
       ELSE Opens(p, task)

Boots(task) ==
    CASE task.got = "fails" /\ task.at \in {"setup", "auth"} ->
           page' = [page EXCEPT !.view = "login"] /\ Ends(task)
      [] task.got # "fails" /\ task.at = "setup" ->
           /\ tasks' = (tasks \ {task}) \cup {[task EXCEPT !.at = "auth", !.step = task.got, !.got = None]}
           /\ UNCHANGED page
      [] OTHER -> BootDecides(task)

\* The sign-in: a driver is sent to the application of the drivers.
SignsIn(task) ==
    CASE task.got = "fails" -> UNCHANGED page /\ Ends(task)
      [] task.got # "fails" /\ task.at = "login" ->
           IF task.role = "user" THEN page' = [page EXCEPT !.view = "away"] /\ tasks' = {}
           ELSE UNCHANGED page /\ GoesOn(task, "auth")
      [] task.got # "fails" /\ task.at = "auth" ->
           page' = [page EXCEPT !.auth = task.got] /\ GoesOn(task, "setup")
      [] OTHER ->
           IF task.got # "done" THEN page' = Setup(page, task.got) /\ Ends(task) ELSE Opens(page, task)

\* Signing out leaves the view and loads as a guest; a failure changes nothing.
SignsOut(task) ==
    IF task.got = "fails" THEN UNCHANGED page /\ Ends(task)
    ELSE /\ page' = [page EXCEPT !.view = "blank", !.path = "/"]
         /\ tasks' = (tasks \ {task}) \cup {Task("boot", "setup")}

\* A step of the installation: the administrator's makes the session too.  The last one
\* restarts the server, and the page is loaded again when it is back.
Installs(task) ==
    CASE task.got = "fails" -> UNCHANGED page /\ Ends(task)
      [] task.got # "fails" /\ task.at = "submit" /\ task.step = "finish" ->
           page' = Loaded("/") /\ tasks' = BootsAt("/")
      [] task.got # "fails" /\ task.at = "submit" /\ task.step # "finish" ->
           UNCHANGED page /\ GoesOn(task, IF task.step = "admin" THEN "auth" ELSE "setup")
      [] task.got # "fails" /\ task.at = "auth" ->
           page' = [page EXCEPT !.auth = task.got] /\ GoesOn(task, "setup")
      [] OTHER -> page' = Setup(page, task.got) /\ Ends(task)

\* handleConnectionError.
Unreached(p) == IF p.auth = "none" /\ p.mode \notin {"workspaces", "tmbox"} THEN Login(p) ELSE p

\* The rest of openApplication: the context, and for an administrator the first reads.
Arrives(task) ==
    CASE task.got = "fails" -> page' = Unreached(page) /\ Ends(task)
      [] task.got # "fails" /\ task.at = "context" /\ page.auth = "admin" ->
           page' = [page EXCEPT !.context = TRUE] /\ GoesOn(task, "rest")
      [] OTHER -> page' = Routed([page EXCEPT !.context = TRUE]) /\ Ends(task)

Heard ==
    /\ \E task \in tasks :
         /\ task.got # None
         /\ CASE task.at \in {"context", "rest"} -> Arrives(task)
              [] task.at \notin {"context", "rest"} /\ task.kind = "boot" -> Boots(task)
              [] task.kind = "login" /\ task.at \notin {"context", "rest"} -> SignsIn(task)
              [] task.kind = "logout" -> SignsOut(task)
              [] OTHER -> Installs(task)
    /\ UNCHANGED server

(* --------------------------- at the page -------------------------------- *)

Room(kind) == Cardinality(tasks) < MaxTasks /\ \A task \in tasks : task.kind # kind

SignIn(role) ==
    /\ page.view = "login" /\ Room("login")
    /\ server.step # "admin"
    /\ tasks' = tasks \cup {[Task("login", "login") EXCEPT !.role = role]}
    /\ UNCHANGED <<server, page>>

SignOut ==
    /\ page.view = "app" /\ page.auth # "none" /\ Room("logout")
    /\ tasks' = tasks \cup {Task("logout", "logout")}
    /\ UNCHANGED <<server, page>>

Install ==
    /\ page.view = "setup" /\ page.step # "done" /\ Room("install")
    /\ tasks' = tasks \cup {[Task("install", "submit") EXCEPT !.step = page.step]}
    /\ UNCHANGED <<server, page>>

\* Back, Forward or a link: a screen that is left without the page ever having been
\* loaded is loaded now.
Navigate(path) ==
    /\ path # page.path
    /\ page.view # "away"
    /\ LET p == [page EXCEPT !.path = path]
       IN IF page.view = "display" /\ ~page.context
          THEN /\ Room("boot")
               /\ page' = [p EXCEPT !.view = "blank"]
               /\ tasks' = tasks \cup {Task("boot", "setup")}
          ELSE page' = Routed(p) /\ UNCHANGED tasks
    /\ UNCHANGED server

Reload(path) ==
    /\ page' = Loaded(path)
    /\ tasks' = BootsAt(path)
    /\ UNCHANGED server

Next ==
    \/ Answered \/ Fails \/ Heard \/ SessionEnds \/ SignOut \/ Install
    \/ \E role \in {"admin", "user"} : SignIn(role)
    \/ \E path \in Paths : Navigate(path) \/ Reload(path)

\* A request is answered or fails, and the page goes on.
Fairness == WF_vars(Answered) /\ WF_vars(Heard)

Spec == Init /\ [][Next]_vars /\ Fairness

(* ------------------------------ properties ------------------------------ *)

\* The state is of its shape (the views of web/app.js and the steps of the installation).
TypeOK ==
    /\ server.session \in Roles /\ server.ends \in 0..MaxEnds /\ server.step \in {Steps[i] : i \in 1..5}
    /\ page.view \in {"blank", "login", "setup", "app", "display", "away"}
    /\ page.mode \in {"workspaces"} \cup Protected /\ page.auth \in Roles
    /\ \A task \in tasks : task.kind \in {"boot", "login", "logout", "install"}

Sees(mode) == page.view = "app" /\ page.mode = mode

\* On a server that is installed, what only a signed-in administrator sees is on a page that
\* takes itself to be signed in; while a handler is under way it may stand there from before.
NothingForGuests ==
    server.step = "done" /\ (\E mode \in Protected : Sees(mode)) /\ page.auth = "none" => tasks # {}

\* Once the page has its context, a driver's account opens nothing of the administration but
\* the account itself.
DriversSeeTheirAccount ==
    page.context /\ (\E mode \in Protected \ {"installningar"} : Sees(mode)) /\ page.auth = "user" => tasks # {}

Safe == NothingForGuests /\ DriversSeeTheirAccount

Stands == server.step = "done" /\ page.auth = "none" /\ \E mode \in Protected : Sees(mode)
=============================================================================
