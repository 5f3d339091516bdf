---------------------------- MODULE DisplayEntry ----------------------------
(***************************************************************************)
(* Who a screen is for (web/app.js: displayGuestEntry, openGuestDisplay,   *)
(* initDisplay, stopDisplay).  A visitor opens a screen from the           *)
(* participant page: the history entry carries a mark, and the screen then *)
(* neither shows nor keeps settings.  A screen opened by its own address,  *)
(* a signed-in browser and a browser with choices of its own are the       *)
(* meet's.  A guest's screen asks about the session before it opens; the   *)
(* visitor may go back, forward and on meanwhile.                          *)
(***************************************************************************)
EXTENDS Naturals

VARIABLES
    view,   \* the screen; stored: a guest pressed something that was kept (history)
    login,  \* state.authStatus
    waits,  \* calls of initDisplay waiting for the session
    guest   \* history: the screen was last opened as a guest's

vars == <<view, login, waits, guest>>

Known == {"unknown", "guest", "user"}
MaxWaits == 2

\* Loaded at the address of a screen, or at the participant page (whose start
\* has asked about the session).
Init ==
    /\ \E active, mark, own \in BOOLEAN :
         /\ active \/ ~mark
         /\ view = [active |-> active, mark |-> mark, own |-> own, readOnly |-> FALSE,
                    started |-> ~active, toolbar |-> TRUE, stored |-> FALSE]
    /\ login \in (IF view.active THEN {"unknown"} ELSE {"guest", "user"})
    /\ waits = 0 /\ guest = FALSE

\* displayGuestEntry: the mark of the history entry, in a browser without choices.
GuestEntry(v) == v.mark /\ ~v.own

\* initDisplay after its await.
Opened(v, asGuest) == [v EXCEPT !.readOnly = asGuest /\ login # "user", !.toolbar = TRUE]

\* A guest's screen fails closed while the session is asked for.
Opening(v) ==
    LET w == [v EXCEPT !.active = TRUE, !.started = TRUE] IN
    IF GuestEntry(v) /\ login = "unknown"
    THEN [w EXCEPT !.readOnly = TRUE]
    ELSE Opened(w, GuestEntry(v))

InitDisplay(v) ==
    /\ view' = Opening(v)
    /\ guest' = GuestEntry(v)
    /\ waits' = IF GuestEntry(v) /\ login = "unknown" THEN waits + 1 ELSE waits
    /\ waits' <= MaxWaits
    /\ UNCHANGED login

Load == view.active /\ ~view.started /\ InitDisplay(view)

\* A link of the participant page or of the guest's own menu of screens.
OpenGuest ==
    /\ view.started /\ login # "user" /\ ~view.own
    /\ view.active => view.readOnly
    /\ InitDisplay([view EXCEPT !.mark = TRUE])

\* popstate, or the button back: stopDisplay.
Leave ==
    /\ view.active /\ view.started /\ view.mark
    /\ view' = [view EXCEPT !.active = FALSE]
    /\ UNCHANGED <<login, waits, guest>>

\* popstate forward to the entry, which still has its mark.
Return == ~view.active /\ view.mark /\ InitDisplay(view)

\* refreshAuthStatus answered, or failed: a call whose screen was left meanwhile
\* ends; every other one goes on with what it knew of the entry.
AuthAnswered ==
    /\ waits > 0 /\ waits' = waits - 1
    /\ login' \in {login} \cup {"guest", "user"}
    /\ view' = IF view.active
               THEN [view EXCEPT !.readOnly = login' # "user", !.toolbar = TRUE] ELSE view
    /\ UNCHANGED guest

\* The participant page starts when a screen loaded first is left.
Bootstrapped ==
    /\ ~view.active /\ login = "unknown"
    /\ login' \in {"guest", "user"}
    /\ UNCHANGED <<view, waits, guest>>

\* Somebody signs in or is signed out in the page.
SignedIn ==
    /\ ~view.active /\ login # "unknown"
    /\ login' \in {"guest", "user"} \ {login}
    /\ UNCHANGED <<view, waits, guest>>

\* displayStore: a guest's choice is not kept.
Keeps(v) == ~(v.active /\ v.readOnly)

\* A choice in the toolbar, for this browser: clearing the last one makes it a
\* browser without choices again.
Choose ==
    /\ view.active /\ view.started /\ view.toolbar
    /\ view' = IF Keeps(view) THEN [view EXCEPT !.own = ~@, !.stored = guest /\ login # "user"]
               ELSE view
    /\ UNCHANGED <<login, waits, guest>>

\* In full screen the toolbar hides after four seconds and comes back on movement;
\* a guest's has none.
HideToolbar == /\ view.active /\ view.toolbar /\ ~view.readOnly
               /\ view' = [view EXCEPT !.toolbar = FALSE]
               /\ UNCHANGED <<login, waits, guest>>
Move == /\ view.active /\ ~view.toolbar
        /\ view' = [view EXCEPT !.toolbar = TRUE]
        /\ UNCHANGED <<login, waits, guest>>

Next == \/ Load \/ OpenGuest \/ Leave \/ Return \/ AuthAnswered \/ Bootstrapped
        \/ SignedIn \/ Choose \/ HideToolbar \/ Move

TypeOK ==
    /\ view \in [active: BOOLEAN, mark: BOOLEAN, own: BOOLEAN, readOnly: BOOLEAN,
                 started: BOOLEAN, toolbar: BOOLEAN, stored: BOOLEAN]
    /\ login \in Known /\ waits \in 0..MaxWaits /\ guest \in BOOLEAN

\* "A guest never briefly sees the screen settings" (app.js:5603), whatever call
\* is still waiting and however the visitor goes between the pages; and nothing a
\* guest presses is kept in the browser.
GuestSeesNoSettings ==
    /\ view.active /\ guest /\ login # "user" => view.readOnly
    /\ ~view.stored
=============================================================================
