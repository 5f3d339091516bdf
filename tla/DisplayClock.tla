---------------------------- MODULE DisplayClock ----------------------------
(***************************************************************************)
(* The clock on a screen (clock-sync.js and the clock of web/app.js).  The *)
(* hands run on their own between the pictures; a small difference is      *)
(* taken up by running faster or slower, a large one at once.  The clock   *)
(* of the meet is external: it runs at its speed, is stopped, set and      *)
(* changed, and its time is some time old when a picture arrives.  Times   *)
(* are whole seconds, even, so that half of them is whole as well.         *)
(***************************************************************************)
EXTENDS Integers

CONSTANTS
    Start,      \* the time the meet begins at
    Speeds,     \* the speeds the clock may have
    Settings,   \* the times somebody may set the clock to
    Delays,     \* how old the time of a picture may be
    LastLook    \* bound: the time of the page, in seconds

VARIABLES
    clock,      \* external: [time, running, speed]
    sync,       \* [anchor, at, speed, running, correction]: the variables of create()
    at,         \* performance.now()
    hands,      \* what the screen shows
    left        \* history: the clock has been left alone since the last picture

vars == <<clock, sync, at, hands, left>>

Day == 86400
MaxDifference == 120      \* RESET_THRESHOLD
Frame == 2

Wrap(s) == s % Day
Delta(target, current) == Wrap(target - current + Day \div 2) - Day \div 2
Size(n) == IF n < 0 THEN -n ELSE n
Smaller(a, b) == IF a < b THEN a ELSE b
Sign(n) == IF n < 0 THEN -1 ELSE IF n > 0 THEN 1 ELSE 0

\* A correction is worked off at no more than half the way the hands travel.
Adjust(correction, travel) == Sign(correction) * Smaller(Size(correction), travel \div 2)

\* seconds(at)
Seconds(s, now) ==
    LET travel == IF s.running THEN (now - s.at) * s.speed ELSE 0
    IN Wrap(s.anchor + travel + Adjust(s.correction, travel))

\* accept(clock, at): another run of the clock or a large difference is taken at
\* once, a small one is worked off.
Accepted(s, c, reported, now) ==
    LET current == Seconds(s, now)
        error == Delta(reported, current)
        reset == [anchor |-> reported, at |-> now, speed |-> c.speed, running |-> c.running,
                  correction |-> 0]
    IN IF s.running # c.running \/ s.speed # c.speed THEN reset
       ELSE IF ~c.running \/ Size(error) > MaxDifference THEN reset
       ELSE [s EXCEPT !.anchor = current, !.at = now, !.correction = error]

(* ------------------------------- the looks ------------------------------ *)

Styles == {"analog", "digital", "pack"}
Reasons == {"none", "quiet", "text", "unknown code"}
Words(reason) == IF reason = "unknown code" THEN "none" ELSE reason

\* resolveClockAppearance: the browser's own choice, else the meet's, else the first
\* that the server has.
Shown(s) ==
    IF s.own \in s.offered THEN s.own
    ELSE IF s.meet \in s.offered THEN s.meet ELSE "analog"

\* clockNotices: the stop, the quiet line and the message.
Notices(running, missing, ended, stopped, message) ==
    LET why == IF missing \/ ended \/ running THEN "none" ELSE Words(stopped)
        stop == IF missing THEN "no contact" ELSE IF ended \/ running \/ why = "quiet" THEN ""
                ELSE IF why = "text" THEN "reason" ELSE "stopped"
    IN [stop |-> stop,
        quiet |-> (ended /\ ~missing) \/ why = "quiet" \/ Words(message) = "quiet",
        info |-> Words(message) = "text" /\ ~(stop = "reason" /\ message = stopped)]

(* ---------------------------- the state machine -------------------------- *)

Init ==
    /\ \E speed \in Speeds, running \in BOOLEAN :
         clock = [time |-> Start, running |-> running, speed |-> speed]
    /\ sync = [anchor |-> Start, at |-> 0, speed |-> clock.speed, running |-> clock.running,
               correction |-> 0]
    /\ at = 0 /\ hands = Start /\ left = TRUE

\* A frame is drawn.
Draw ==
    /\ at < LastLook
    /\ at' = at + Frame
    /\ clock' = [clock EXCEPT !.time = IF clock.running THEN Wrap(@ + Frame * clock.speed) ELSE @]
    /\ hands' = Seconds(sync, at')
    /\ UNCHANGED <<sync, left>>

\* A picture arrives.
Picture(delay) ==
    /\ sync' = Accepted(sync, clock,
                        Wrap(clock.time - (IF clock.running THEN delay * clock.speed ELSE 0)), at)
    /\ hands' = Seconds(sync', at)
    /\ left' = TRUE
    /\ UNCHANGED <<clock, at>>

\* Somebody starts, stops or sets the clock, or gives it another speed.
Setting ==
    /\ clock' \in {[clock EXCEPT !.running = ~@]}
                    \cup {[clock EXCEPT !.speed = speed] : speed \in Speeds}
                    \cup {[clock EXCEPT !.time = time] : time \in Settings}
    /\ left' = FALSE
    /\ UNCHANGED <<sync, at, hands>>

Next == Draw \/ Setting \/ \E delay \in Delays : Picture(delay)

TypeOK ==
    /\ clock \in [time: 0..(Day - 1), running: BOOLEAN, speed: Speeds]
    /\ sync \in [anchor: 0..(Day - 1), at: 0..LastLook, speed: Speeds, running: BOOLEAN,
                 correction: -MaxDifference..MaxDifference]
    /\ hands \in 0..(Day - 1) /\ at \in 0..LastLook /\ left \in BOOLEAN

\* A face that is not there is never shown; a running clock never shows a reason
\* to stand ("Körläget bestämmer", app.js:5038), a code nobody knows is never shown,
\* and a message is not said twice.
Safe == at = 0 =>
    /\ \A own \in Styles \cup {""}, meet \in Styles, offered \in {Styles, {"analog", "digital"}} :
         Shown([own |-> own, meet |-> meet, offered |-> offered]) \in offered
    /\ \A running, missing, ended \in BOOLEAN, stopped, message \in Reasons :
         LET n == Notices(running, missing, ended, stopped, message) IN
         /\ running => n.stop \in {"", "no contact"}
         /\ n.stop = "reason" => stopped = "text" /\ ~ended
         /\ n.info => message = "text" /\ ~(n.stop = "reason" /\ stopped = "text")

Off(h, c) == Size(Delta(h, c.time))
Allowed == CHOOSE d \in {delay * speed : delay \in Delays, speed \in Speeds} :
             \A e \in {delay * speed : delay \in Delays, speed \in Speeds} : e <= d

\* While nobody touches the clock the hands never turn back, whatever the pictures
\* say and however old they are, and they come no further from the clock than they
\* were, or than a picture may be old (clock-sync.js:1-4).
HandsStep ==
    left /\ left' =>
        /\ Delta(hands', hands) >= 0
        /\ \/ Off(hands', clock') <= Off(hands, clock)
           \/ Off(hands', clock') <= Allowed
=============================================================================
