----------------------------- MODULE LiveFeed -----------------------------
(***************************************************************************)
(* The stream of changes a page listens to (live-events.js).  The server   *)
(* says only that something of a topic changed; the page then fetches that *)
(* again.  The stream may break at any moment, with events on the way, the *)
(* server may refuse it for being full, and the server may restart and     *)
(* count its events from zero.                                             *)
(***************************************************************************)
EXTENDS Naturals, Sequences

CONSTANTS
    Topics,      \* the names in ALL
    Watched,     \* the topics the page of this instance fetches for
    None,
    MaxEvents,   \* bound: events the server publishes
    MaxRestarts  \* bound: server restarts

VARIABLES
    server,      \* [boot, seq, news, total]: news counts the changes of watched topics
    stream,      \* [state, sent]: the EventSource and the events on their way
    feed         \* [last, connected, pending]: the module's own variables

feedVars == <<server, stream, feed>>

Streams == {"connecting", "open", "closed"}
Stamp == [boot: 0..MaxRestarts, seq: 0..MaxEvents]

FeedTypeOK ==
    /\ server \in [boot: 0..MaxRestarts, seq: 0..MaxEvents, news: 0..MaxEvents,
                   total: 0..MaxEvents]
    /\ stream.state \in Streams
    /\ feed \in [last: Stamp \cup {None}, connected: BOOLEAN, pending: SUBSET Topics]
    /\ feed.connected => stream.state = "open"

FeedInit ==
    /\ server = [boot |-> 0, seq |-> 0, news |-> 0, total |-> 0]
    /\ stream = [state |-> "connecting", sent |-> <<>>]
    /\ feed = [last |-> None, connected |-> FALSE, pending |-> {}]

(* ------------------------------ the server ------------------------------ *)

\* Something changed.  The event goes out on the open stream.
Publish(topic) ==
    /\ server.total < MaxEvents
    /\ server' = [server EXCEPT !.seq = @ + 1, !.total = @ + 1,
                                !.news = IF topic \in Watched THEN @ + 1 ELSE @]
    /\ stream' = IF stream.state = "open"
                 THEN [stream EXCEPT !.sent = Append(@, [kind |-> "change", topics |-> {topic},
                                                         seq |-> server.seq + 1])]
                 ELSE stream
    /\ UNCHANGED feed

\* A new process counts its events from zero under a new boot id.
Restart ==
    /\ server.boot < MaxRestarts
    /\ server' = [server EXCEPT !.boot = @ + 1, !.seq = 0]
    /\ stream.state # "open"
    /\ UNCHANGED <<stream, feed>>

\* The server takes the stream: its first event says where it is in the count.
Accept ==
    /\ stream.state = "connecting"
    /\ stream' = [state |-> "open",
                  sent |-> <<[kind |-> "hello", boot |-> server.boot, seq |-> server.seq]>>]
    /\ UNCHANGED <<server, feed>>

(* ------------------------------- the page ------------------------------- *)

\* The stream broke: the browser tries again by itself, unless the server said no.
Broken(state) ==
    /\ stream.state # "closed"
    /\ stream' = [state |-> state, sent |-> <<>>]
    /\ feed' = [feed EXCEPT !.connected = FALSE]
    /\ UNCHANGED server

\* RETRY_MS after a refusal the module opens a stream of its own again.
Reopen ==
    /\ stream.state = "closed"
    /\ stream' = [stream EXCEPT !.state = "connecting"]
    /\ UNCHANGED <<server, feed>>

\* Back after a gap: anything may have changed while the stream was down.
Gap(last, hello) == last # None /\ (last.boot # hello.boot \/ last.seq # hello.seq)

Hello(f, event) ==
    [last |-> [boot |-> event.boot, seq |-> event.seq], connected |-> TRUE,
     pending |-> IF Gap(f.last, event) THEN Topics ELSE f.pending]

Change(f, event) ==
    [f EXCEPT !.last = IF @ = None THEN None ELSE [@ EXCEPT !.seq = event.seq],
              !.pending = @ \cup event.topics]

\* The next event of the stream.
Hear ==
    /\ stream.state = "open" /\ stream.sent # <<>>
    /\ LET event == Head(stream.sent) IN
         feed' = IF event.kind = "hello" THEN Hello(feed, event) ELSE Change(feed, event)
    /\ stream' = [stream EXCEPT !.sent = Tail(@)]
    /\ UNCHANGED server

\* The events of COALESCE_MS go to the subscribers together.
Flushed == feed' = [feed EXCEPT !.pending = {}]
=============================================================================
