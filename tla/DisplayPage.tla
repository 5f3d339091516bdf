---------------------------- MODULE DisplayPage ----------------------------
(***************************************************************************)
(* A screen of the hall in the browser (web/app.js from 3851): the poll of *)
(* /v1/display with one request at a time, and the changes of              *)
(* live-events.js that ask again at once.                                  *)
(*                                                                         *)
(* A picture is the number of changes the server had made when it was      *)
(* read.  A request that was replaced is aborted; an answer that is in the *)
(* page already, between the awaits, goes on and has to be dropped there.  *)
(***************************************************************************)
EXTENDS LiveFeed, FiniteSets

VARIABLES
    page,     \* what the page holds; since, the news at the first hello, is history
    fetches,  \* requests under way: [current, news]
    steady    \* external: every answer is heard

vars == <<feedVars, page, fetches, steady>>

Pictures == 0..MaxEvents \cup {None}

Init ==
    /\ FeedInit
    /\ page = [active |-> FALSE, ready |-> FALSE, timer |-> FALSE, offline |-> FALSE,
               shown |-> None, since |-> None]
    /\ fetches = {}
    /\ steady = TRUE

(* ------------------------------- the poll ------------------------------- *)

Current == {f \in fetches : f.current}

\* scheduleDisplayPoll
Scheduled(p) == [p EXCEPT !.timer = p.active]

\* The controller's abort: a request without its answer ends here.
Dropped(f) == {[g EXCEPT !.current = FALSE] : g \in {h \in f : h.news # None}}

\* pollDisplay: the newest question takes the place of the one under way.
Asked(p, f) ==
    /\ page' = [p EXCEPT !.timer = FALSE]
    /\ fetches' = Dropped(f) \cup {[current |-> TRUE, news |-> None]}

Poll(p) == IF p.active THEN Asked(p, fetches) ELSE page' = p /\ UNCHANGED fetches

\* The server answers with what it has now.
Served(f) ==
    /\ f.news = None
    /\ fetches' = (fetches \ {f}) \cup {[f EXCEPT !.news = server.news]}
    /\ UNCHANGED <<feedVars, page, steady>>

\* History: from here on the picture needs no excuse.
Covers(news) == page.since # None /\ news >= page.since

AcceptsAny(f) == TRUE

\* An answer may replace the picture only when nothing newer was asked for.
Accepts(f) == f.current

Answered(f) ==
    /\ f.news # None
    /\ page' = IF ~Accepts(f) THEN page
               ELSE Scheduled([page EXCEPT !.shown = f.news, !.offline = FALSE,
                                           !.since = IF Covers(f.news) THEN None ELSE @])
    /\ fetches' = fetches \ {f}
    /\ UNCHANGED <<feedVars, steady>>

\* No answer, not a readable one, or none before the deadline of five seconds.
Failed(f) ==
    /\ ~steady
    /\ page' = IF f.current THEN Scheduled([page EXCEPT !.offline = TRUE]) ELSE page
    /\ fetches' = fetches \ {f}
    /\ UNCHANGED <<feedVars, steady>>

Serve == \E f \in fetches : Served(f)
Receive == \E f \in fetches : Answered(f)
Lose == \E f \in fetches : Failed(f)

Tick == /\ page.timer /\ Poll(page)
        /\ UNCHANGED <<feedVars, steady>>

\* online, pageshow and visibilitychange ask at once.
Woken == /\ page.active /\ Poll(page)
         /\ UNCHANGED <<feedVars, steady>>

(* --------------------------- the live changes --------------------------- *)

\* onStatus: a page between two polls takes the other pace.
Paced(p) == IF p.ready /\ Current = {} THEN Scheduled(p) ELSE p

\* The first hello of the page says where the stream began.
HearEvent ==
    /\ Hear
    /\ page' = LET p == IF feed.last = None /\ feed'.last # None
                        THEN [page EXCEPT !.since = server.news] ELSE page
               IN IF feed'.connected # feed.connected THEN Paced(p) ELSE p
    /\ UNCHANGED <<fetches, steady>>

StreamBroken ==
    /\ \E state \in {"connecting", "closed"} : Broken(state)
    /\ page' = IF feed.connected THEN Paced(page) ELSE page
    /\ ~steady
    /\ UNCHANGED <<fetches, steady>>

Flush ==
    /\ feed.pending # {} /\ Flushed
    /\ IF page.ready /\ feed.pending \cap Watched # {}
       THEN Poll(page) ELSE UNCHANGED <<page, fetches>>
    /\ UNCHANGED <<server, stream, steady>>

(* ------------------------ opening and leaving it ------------------------ *)

\* initDisplay: the first time, the page is wired too.  What is asked first of a
\* guest is DisplayEntry's.
Open == /\ ~page.active
        /\ Poll([page EXCEPT !.active = TRUE, !.ready = TRUE])
        /\ UNCHANGED <<feedVars, steady>>

LeaveAsking == /\ page.active
               /\ page' = [page EXCEPT !.active = FALSE, !.timer = FALSE]
               /\ UNCHANGED <<feedVars, fetches, steady>>

\* stopDisplay: the participant page takes over, the page stays.
Leave == /\ page.active
         /\ page' = [page EXCEPT !.active = FALSE, !.timer = FALSE]
         /\ fetches' = Dropped(fetches)
         /\ UNCHANGED <<feedVars, steady>>

Network == /\ steady' = ~steady
           /\ UNCHANGED <<feedVars, page, fetches>>

ServerSteps ==
    /\ \/ \E topic \in Topics : Publish(topic)
       \/ Restart
       \/ Accept
       \/ Reopen
    /\ UNCHANGED <<page, fetches, steady>>

Next ==
    \/ ServerSteps \/ Serve \/ Receive \/ Lose \/ Tick \/ Woken
    \/ HearEvent \/ StreamBroken \/ Flush
    \/ Open \/ Leave \/ Network

\* The timers go off and the answers come.  The strong fairness says that nobody
\* wakes the screen faster than the server answers for ever.
Fairness ==
    /\ WF_vars(Tick)
    /\ SF_vars(\E f \in Current : Served(f))
    /\ SF_vars(\E f \in Current : Answered(f))

Spec == Init /\ [][Next]_vars /\ Fairness

(* ------------------------------ properties ------------------------------ *)

TypeOK ==
    /\ FeedTypeOK
    /\ page \in [active: BOOLEAN, ready: BOOLEAN, timer: BOOLEAN, offline: BOOLEAN,
                 shown: Pictures, since: Pictures]
    /\ fetches \subseteq [current: BOOLEAN, news: Pictures]
    /\ steady \in BOOLEAN

\* The comment at app.js:5538: one request and one timer, never a second loop.
\* A screen that is on always has exactly one of them.
OneLoop ==
    /\ Cardinality(Current) <= 1
    /\ page.active => (page.timer = (Current = {}))
    /\ ~page.active => ~page.timer /\ Current = {}

\* With the stream open and everything heard, the picture holds every change
\* made since the stream began: the slow poll is not needed for it, through
\* breaks, restarts of the server and requests that overlap.
NothingMissed ==
    /\ page.active /\ ~page.offline /\ Current = {}
    /\ feed.connected /\ stream.sent = <<>> /\ feed.pending = {}
    => server.news \in {page.shown, page.since}

\* A picture is never replaced by an older one.
PictureStep == page.shown # None => page'.shown >= page.shown

Working == steady /\ page.active
UpToDate == page.shown = server.news /\ ~page.offline
=============================================================================
