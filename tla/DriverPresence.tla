-------------------------- MODULE DriverPresence --------------------------
(***************************************************************************)
(* The other drivers in the driver's app (web/lokforaren/app.js): who has  *)
(* checked in where, how long ago on the meet clock, and how a check-in    *)
(* fades and is gone; and the form that checks in.  Minutes of the meet    *)
(* clock; the server is external.  More than one question may be under     *)
(* way: the timer asks, and so do the tab and a check-in; and the clock is *)
(* asked for on its own, before or after them.                             *)
(***************************************************************************)
EXTENDS Integers, FiniteSets

CONSTANTS Drivers, Me, Stations, None,
          Midnight,              \* the length of the day, in minutes
          Visible, Fading,       \* how long a check-in is seen, and fades
          MaxMinutes, MaxAsks    \* bounds

VARIABLES server,     \* external: the minutes since the start, the check-ins, and the contact with it
          hands,      \* the phone's clock: the minute it shows, and whether it is lost
          presence,   \* the latest answer taken, and the clock then
          asks,       \* the answers under way
          armed,      \* the timer
          sheet       \* the form, the station picked, whether its button counts, and a press under way

vars == <<server, hands, presence, asks, armed, sheet>>

Nobody == [driver \in Drivers |-> None]

Init ==
    /\ server = [minutes |-> 0, contact |-> TRUE, at |-> Nobody]
    /\ hands = [at |-> None, lost |-> TRUE]
    /\ presence = None /\ asks = {} /\ armed = TRUE   \* loadSession asks at once
    /\ sheet = [open |-> FALSE, station |-> None, ready |-> FALSE, sent |-> FALSE]

AgeAt(minutes, checkin) == minutes - checkin.since

-----------------------------------------------------------------------------
(* The server (external) *)

\* The hands go on by themselves, until the clock is lost.
MinutePasses ==
    /\ server.minutes < MaxMinutes
    /\ server' = [server EXCEPT !.minutes = @ + 1]
    /\ hands' = IF hands.lost THEN hands ELSE [hands EXCEPT !.at = @ + 1]
    /\ UNCHANGED <<presence, asks, armed, sheet>>

ContactChanges ==
    /\ server' = [server EXCEPT !.contact = ~@]
    /\ UNCHANGED <<hands, presence, asks, armed, sheet>>

OtherChecksIn ==
    /\ \E driver \in Drivers \ {Me}, station \in Stations :
         /\ server.at[driver] = None     \* bound: once
         /\ server' = [server EXCEPT !.at[driver] = [station |-> station, since |-> server.minutes]]
    /\ UNCHANGED <<hands, presence, asks, armed, sheet>>

Snapshot ==
    [driver \in Drivers |->
        LET c == server.at[driver] IN
        IF c = None THEN None ELSE [station |-> c.station, since |-> c.since, age |-> AgeAt(server.minutes, c)]]

-----------------------------------------------------------------------------
(* The clock of the phone *)

\* Without an answer for long enough the hands stand where they were.
ClockLost ==
    /\ ~server.contact /\ ~hands.lost
    /\ hands' = [hands EXCEPT !.lost = TRUE]
    /\ UNCHANGED <<server, presence, asks, armed, sheet>>

ClockAnswered ==
    /\ server.contact
    /\ hands' = [at |-> server.minutes, lost |-> FALSE]
    /\ UNCHANGED <<server, presence, asks, armed, sheet>>

\* clockSeconds: what the hands show, lost or not, over the day.
Hands == IF hands.at = None THEN None ELSE (hands.at + Midnight - 2) % Midnight

-----------------------------------------------------------------------------
(* refreshPresence *)

\* Asked by the timer, the tab of the drivers, a saved icon and a check-in.
Ask ==
    /\ Cardinality(asks) < MaxAsks
    /\ armed' = FALSE
    /\ \/ server.contact /\ asks' = asks \cup {Snapshot}
       \/ ~server.contact /\ asks' = asks \cup {Nobody}
    /\ UNCHANGED <<server, hands, presence, sheet>>

\* Whatever comes, the timer is set again; an answer is taken as it comes.
\* The hands may have stood since the clock was lost (late is how long).
Taken(q) == [of |-> q, clock |-> Hands, late |-> IF hands.at = None THEN 0 ELSE server.minutes - hands.at]
Answered ==
    /\ \E q \in asks :
         /\ asks' = asks \ {q}
         /\ presence' = IF server.contact THEN Taken(q) ELSE presence
    /\ armed' = TRUE
    /\ UNCHANGED <<server, hands, sheet>>

-----------------------------------------------------------------------------
(* What is shown *)

\* ageOf: counted on from the answer by the clock, over midnight too.
Since(now, then) ==
    LET gone == now - then IN
    IF gone < -(Midnight \div 2) THEN gone + Midnight
    ELSE IF gone > Midnight \div 2 THEN gone - Midnight ELSE gone
AgeOf(driver) ==
    LET gone == IF None \in {Hands, presence.clock} THEN 0 ELSE Since(Hands, presence.clock)
    IN  presence.of[driver].age + (IF gone > 0 THEN gone ELSE 0)

Known(driver) == presence # None /\ presence.of[driver] # None

\* renderDrivers and fadeDrivers: gone after both times.
Shown(driver) == Known(driver) /\ AgeOf(driver) <= Visible + Fading
Full(driver) == Known(driver) /\ AgeOf(driver) <= Visible

-----------------------------------------------------------------------------
(* The form *)

\* pickStation and labelCheckin: the button counts again, whatever is under way.
Picked(station) == [sheet EXCEPT !.station = station, !.ready = station # None]

\* openCheckin proposes the station of the plan that is nearest, if there is one.
OpenCheckin ==
    /\ \E station \in Stations \cup {None} : sheet' = [Picked(station) EXCEPT !.open = TRUE]
    /\ UNCHANGED <<server, hands, presence, asks, armed>>

PickStation ==
    /\ sheet.open
    /\ \E station \in Stations : sheet' = Picked(station)
    /\ UNCHANGED <<server, hands, presence, asks, armed>>

CloseSheet ==
    /\ sheet.open
    /\ sheet' = [sheet EXCEPT !.open = FALSE]
    /\ UNCHANGED <<server, hands, presence, asks, armed>>

\* The station of the press is sent; the button waits for the answer.
SubmitCheckin ==
    /\ sheet.open /\ sheet.station # None /\ sheet.ready
    /\ sheet' = [sheet EXCEPT !.ready = FALSE, !.sent = TRUE]
    /\ \/ server' = [server EXCEPT !.at[Me] = [station |-> sheet.station, since |-> server.minutes]]
       \/ ~server.contact /\ UNCHANGED server
    /\ UNCHANGED <<hands, presence, asks, armed>>

\* Done: the form is closed and the drivers are asked for again.
CheckinAnswered ==
    /\ sheet.sent
    /\ \/ /\ server.contact /\ Cardinality(asks) < MaxAsks
          /\ sheet' = [sheet EXCEPT !.open = FALSE, !.ready = TRUE, !.sent = FALSE]
          /\ asks' = asks \cup {Snapshot} /\ armed' = FALSE
       \/ /\ ~server.contact
          /\ sheet' = [sheet EXCEPT !.ready = TRUE, !.sent = FALSE]
          /\ UNCHANGED <<asks, armed>>
    /\ UNCHANGED <<server, hands, presence>>

Next ==
    \/ MinutePasses \/ ContactChanges \/ ClockLost \/ ClockAnswered \/ OtherChecksIn \/ Ask \/ Answered
    \/ OpenCheckin \/ PickStation \/ CloseSheet \/ SubmitCheckin \/ CheckinAnswered

\* The timer fires when it is set, and answers arrive, those about the clock too.
Fairness == WF_vars(armed /\ Ask) /\ WF_vars(Answered) /\ WF_vars(ClockAnswered)

Spec == Init /\ [][Next]_vars /\ Fairness

-----------------------------------------------------------------------------
(* Properties *)

TypeOK ==
    /\ Cardinality(asks) <= MaxAsks
    /\ presence # None => presence.clock \in {None} \cup 0 .. Midnight - 1
    /\ presence = None => armed \/ asks # {}

\* A check-in is never shown as older than it is, and does not fade before its
\* time, though answers are late and the hands go over midnight (ageOf) - but
\* by as long as the hands had stood when the answer was taken, which the next
\* answer of the clock adds to it (refreshPresence, clockSeconds).
NeverTooOld ==
    \A driver \in Drivers : Known(driver) =>
        LET age == AgeAt(server.minutes, presence.of[driver]) + presence.late
        IN  AgeOf(driver) <= age /\ (age <= Visible => Full(driver)) /\ (age <= Visible + Fading => Shown(driver))
Safe == NeverTooOld

\* With contact the latest check-ins come to be shown, as old as they are.
UpToDate ==
    presence # None /\ presence.late = 0 /\ \A driver \in Drivers :
        server.at[driver] # None => Known(driver) /\ presence.of[driver].since = server.at[driver].since
Working == server.contact
=============================================================================
