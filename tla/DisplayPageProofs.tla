------------------------- MODULE DisplayPageProofs -------------------------
(***************************************************************************)
(* A screen of the hall reads in one loop, goes only forward, and misses   *)
(* no change while its stream is open: for any topics, any number of       *)
(* changes and restarts, and any order of breaks, answers and events.      *)
(*                                                                         *)
(* NothingMissed speaks of a moment when all is quiet.  Its invariant has  *)
(* to say of every other moment where the news is: what the picture lacks  *)
(* is asked for (UnlessAsked), or it is Coming, as an event on its way or  *)
(* as a gap that the next hello will show.  That a gap shows rests on the  *)
(* count of the events (Counted).                                          *)
(***************************************************************************)
EXTENDS DisplayPage, FiniteSetTheorems, TLAPS

\* What the constants have to be.
Sorts ==
    /\ MaxEvents \in Nat /\ MaxRestarts \in Nat
    /\ None \notin Nat \cup [boot : Nat, seq : Nat]
    /\ Watched \subseteq Topics /\ Watched # {}

Event == [kind : {"hello"}, boot : 0..MaxRestarts, seq : 0..MaxEvents]
         \cup [kind : {"change"}, topics : SUBSET Topics, seq : 0..MaxEvents]

Streaming ==
    /\ FeedTypeOK
    /\ stream \in [state : Streams, sent : Seq(Event)]
    /\ server.seq <= server.total /\ server.news <= server.total

PageState == [active: BOOLEAN, ready: BOOLEAN, timer: BOOLEAN, offline: BOOLEAN,
              shown: Pictures, since: Pictures]
Fetch == [current: BOOLEAN, news: Pictures]

\* One question at a time, and a timer when there is none.
Looping ==
    /\ \A f, g \in Current : f = g
    /\ page.active => page.ready /\ (page.timer = (Current = {}))
    /\ ~page.active => ~page.timer /\ Current = {}

\* A picture is of the past, and the one asked for is not older than the one shown.
Forward ==
    /\ page.shown # None => page.shown <= server.news
    /\ page.since # None => page.since <= server.news
    /\ \A f \in fetches : f.news # None => f.news <= server.news
    /\ \A f \in Current : f.news # None /\ page.shown # None => page.shown <= f.news

Reading ==
    /\ page \in PageState /\ fetches \subseteq Fetch /\ steady \in BOOLEAN
    /\ Looping /\ Forward

\* An open stream carries the last events of the count, one number each, behind the
\* hello that says where they begin.
Numbered ==
    /\ \A k \in 1..Len(stream.sent) :
        /\ stream.sent[k].seq + Len(stream.sent) = server.seq + k
        /\ k > 1 \/ feed.connected => stream.sent[k].kind = "change"
    /\ ~feed.connected => stream.sent # <<>> /\ stream.sent[1].kind = "hello"

\* What was heard last is of the past, and a connected page lacks only what is on the way.
HeardBefore(hello) ==
    feed.last # None =>
        /\ feed.last.boot <= hello.boot
        /\ feed.last.boot = hello.boot => feed.last.seq <= hello.seq

Counted ==
    /\ HeardBefore(server)
    /\ stream.state = "open" => Numbered
    /\ feed.connected => /\ feed.last # None /\ feed.last.boot = server.boot
                         /\ feed.last.seq + Len(stream.sent) = server.seq
    /\ stream.state = "open" /\ ~feed.connected =>
        stream.sent[1].boot = server.boot /\ HeardBefore(stream.sent[1])

\* Where news that has been published can be: heard, on its way, or in a gap.
Pending == feed.pending \cap Watched # {}
OnItsWay ==
    /\ stream.state = "open"
    /\ \E k \in 1..Len(stream.sent) :
        stream.sent[k].kind = "change" /\ stream.sent[k].topics \cap Watched # {}
InGap ==
    ~feed.connected /\ Gap(feed.last, IF stream.state = "open" THEN stream.sent[1] ELSE server)
Coming == Pending \/ OnItsWay \/ InGap

\* Nothing on the way: the picture is the last one, or has been asked for after it.
Fresh ==
    /\ \A f \in Current : f.news \in {None, server.news}
    /\ Current = {} => page.offline \/ page.shown = server.news

UnlessAsked == page.active /\ feed.last # None => Coming \/ page.since = server.news \/ Fresh

Safe == Streaming /\ Reading /\ Counted /\ UnlessAsked

-----------------------------------------------------------------------------
(* The stream *)

LEMMA EventKinds ==
    ASSUME Sorts, NEW e \in Event
    PROVE  /\ e.seq \in Nat
           /\ e.kind \in {"hello", "change"}
           /\ e.kind = "hello" => e.boot \in 0..MaxRestarts /\ e.seq \in 0..MaxEvents
           /\ e.kind = "change" => e.topics \in SUBSET Topics /\ e.seq \in 0..MaxEvents
BY DEF Event, Sorts

LEMMA ServerNumbers ==
    ASSUME Sorts, Streaming
    PROVE  /\ server.boot \in Nat /\ server.seq \in Nat /\ server.news \in Nat /\ server.total \in Nat
           /\ feed.last # None => feed.last.boot \in Nat /\ feed.last.seq \in Nat
           /\ None \notin Stamp
BY DEF Sorts, Streaming, FeedTypeOK, Stamp

LEMMA CountOn ==
    ASSUME NEW a \in Nat, NEW b \in Nat, NEW c \in Nat, NEW k \in Nat, a + b = c + k
    PROVE  a + (b + 1) = (c + 1) + k
OBVIOUS

LEMMA CountBack ==
    ASSUME NEW a \in Nat, NEW b \in Nat, NEW c \in Nat, NEW k \in Nat, a + (b + 1) = c + (k + 1)
    PROVE  a + b = c + k
OBVIOUS

LEMMA CountEnds ==
    ASSUME NEW a \in Nat, NEW b \in Nat, NEW c \in Nat, NEW l \in Nat,
           l = b + 1, a + l = c + 1
    PROVE  a + b = c /\ a <= c
OBVIOUS

\* Publish on a closed stream and on an open one.
LEMMA PublishStreams ==
    ASSUME Sorts, Streaming, Counted, NEW topic \in Topics, Publish(topic)
    PROVE  /\ Streaming' /\ Counted'
           /\ server'.seq = server.seq + 1 /\ server'.boot = server.boot
           /\ server'.news = server.news \/ topic \in Watched
<1> DEFINE e == [kind |-> "change", topics |-> {topic}, seq |-> server.seq + 1]
<1>1. /\ server.seq + 1 \in 0..MaxEvents /\ server.total + 1 \in 0..MaxEvents
      /\ server.news + 1 \in 0..MaxEvents
      /\ server.seq \in Nat /\ server.news \in Nat /\ server.total \in Nat /\ server.boot \in 0..MaxRestarts
  BY DEF Sorts, Streaming, FeedTypeOK, Publish
<1>2. /\ server' \in [boot: 0..MaxRestarts, seq: 0..MaxEvents, news: 0..MaxEvents, total: 0..MaxEvents]
      /\ server'.boot = server.boot /\ server'.seq = server.seq + 1 /\ server'.total = server.total + 1
      /\ server'.news = IF topic \in Watched THEN server.news + 1 ELSE server.news
  BY <1>1 DEF Publish, Streaming, FeedTypeOK
<1>3. server'.seq <= server'.total /\ server'.news <= server'.total
  BY <1>1, <1>2 DEF Streaming
<1>4. e \in Event /\ e.kind = "change" /\ e.seq = server.seq + 1
  BY <1>1 DEF Event
<1>5. CASE stream.state = "open"
  <2> HIDE DEF e
  <2>1. stream' = [stream EXCEPT !.sent = Append(stream.sent, e)]
    BY <1>5 DEF Publish, e
  <2>2. stream.sent \in Seq(Event)
    BY DEF Streaming
  <2>3. /\ stream'.sent \in Seq(Event) /\ Len(stream'.sent) = Len(stream.sent) + 1
        /\ \A k \in 1..Len(stream.sent) : stream'.sent[k] = stream.sent[k]
        /\ stream'.sent[Len(stream.sent) + 1] = e
        /\ stream'.state = "open" /\ stream' \in [state : Streams, sent : Seq(Event)]
    BY <2>1, <2>2, <1>4, <1>5 DEF Streaming
  <2>4. Streaming'
    BY <1>2, <1>3, <2>3 DEF Streaming, FeedTypeOK, Publish
  <2>5. Len(stream.sent) \in Nat
    BY <2>2
  <2>6. Numbered'
    <3>1. ASSUME NEW k \in 1..Len(stream'.sent)
          PROVE  /\ stream'.sent[k].seq + Len(stream'.sent) = server'.seq + k
                 /\ k > 1 \/ feed.connected => stream'.sent[k].kind = "change"
      <4>1. CASE k = Len(stream.sent) + 1
        <5>1. /\ Len(stream'.sent) = k /\ server'.seq = server.seq + 1
              /\ server.seq \in Nat /\ k \in Nat
          BY <4>1, <1>1, <1>2, <2>3, <2>5
        <5>2. stream'.sent[k] = e
          BY <4>1, <2>3
        <5> QED BY <5>1, <5>2, <1>4
      <4>2. CASE k # Len(stream.sent) + 1
        <5>1. k \in 1..Len(stream.sent)
          BY <4>2, <2>3, <2>5
        <5>2. stream.sent[k].seq \in Nat
          BY <5>1, <2>2, EventKinds
        <5>3. k > 1 \/ feed.connected => stream.sent[k].kind = "change"
          BY <5>1, <1>5 DEF Counted, Numbered
        <5>4. stream'.sent[k] = stream.sent[k]
          BY <5>1, <2>3
        <5>5. stream'.sent[k].seq + Len(stream'.sent) = server'.seq + k
          <6>1. /\ Len(stream'.sent) = Len(stream.sent) + 1 /\ server'.seq = server.seq + 1
                /\ server.seq \in Nat /\ k \in Nat
            BY <1>1, <1>2, <2>3, <5>1
          <6>2. stream.sent[k].seq + Len(stream.sent) = server.seq + k
            BY <5>1, <1>5 DEF Counted, Numbered
          <6>3. stream.sent[k].seq + (Len(stream.sent) + 1) = (server.seq + 1) + k
            <7> DEFINE n == stream.sent[k].seq
            <7>1. /\ n \in Nat /\ n + Len(stream.sent) = server.seq + k
                  /\ server.seq \in Nat /\ k \in Nat
              BY <5>2, <6>1, <6>2
            <7> HIDE DEF n
            <7>2. n + (Len(stream.sent) + 1) = (server.seq + 1) + k
              BY <7>1, <2>5, CountOn
            <7> QED BY <7>2 DEF n
          <6>4. stream'.sent[k].seq = stream.sent[k].seq
            BY <5>4
          <6> QED BY <6>1, <6>3, <6>4
        <5> QED BY <5>3, <5>4, <5>5
      <4> QED BY <4>1, <4>2
    <3>2. ~feed.connected => stream'.sent # <<>> /\ stream'.sent[1].kind = "hello"
      <4>1. ~feed.connected => stream.sent # <<>> /\ stream.sent[1].kind = "hello"
        BY <1>5 DEF Counted, Numbered
      <4>2. stream.sent # <<>> => 1 \in 1..Len(stream.sent)
        BY <2>2
      <4>3. stream'.sent # <<>>
        BY <2>3, <2>5
      <4> QED BY <4>1, <4>2, <4>3, <2>3
    <3> QED BY <3>1, <3>2 DEF Numbered, Publish
  <2>7. ~feed.connected => stream'.sent[1] = stream.sent[1]
    BY <1>5, <2>2, <2>3 DEF Counted, Numbered
  <2>8. feed.connected => feed.last.seq \in Nat
    BY ServerNumbers DEF Counted
  <2>9. HeardBefore(server)'
    BY <1>1, <1>2, ServerNumbers DEF Counted, HeardBefore, Publish
  <2>10. feed'.connected => /\ feed'.last # None /\ feed'.last.boot = server'.boot
                            /\ feed'.last.seq + Len(stream'.sent) = server'.seq
    <3>1. ASSUME feed.connected
          PROVE  /\ feed.last # None /\ feed.last.boot = server.boot /\ feed.last.seq \in Nat
                 /\ feed.last.seq + Len(stream.sent) = server.seq
      BY <3>1, <2>8 DEF Counted
    <3>2. ASSUME feed.connected
          PROVE  feed.last.seq + Len(stream'.sent) = server'.seq
      BY <3>1, <3>2, <1>1, <1>2, <2>3, <2>5
    <3> QED BY <3>1, <3>2, <1>2 DEF Publish
  <2>11. ~feed'.connected => stream'.sent[1].boot = server'.boot /\ HeardBefore(stream.sent[1])'
    BY <1>2, <1>5, <2>7 DEF Counted, HeardBefore, Publish
  <2>12. Counted'
    BY <2>6, <2>7, <2>9, <2>10, <2>11 DEF Counted, HeardBefore, Publish
  <2> QED BY <1>2, <2>4, <2>12
<1>6. CASE stream.state # "open"
  <2>1. stream' = stream /\ feed' = feed /\ ~feed.connected
    BY <1>6 DEF Publish, Streaming, FeedTypeOK
  <2>2. Streaming'
    BY <1>2, <1>3, <2>1 DEF Streaming, FeedTypeOK
  <2>3. Counted'
    BY <1>1, <1>2, <1>6, <2>1, ServerNumbers DEF Counted, HeardBefore
  <2> QED BY <1>2, <2>2, <2>3
<1> QED BY <1>5, <1>6

LEMMA RestartStreams ==
    ASSUME Sorts, Streaming, Counted, Restart
    PROVE  /\ Streaming' /\ Counted' /\ server'.news = server.news
           /\ server'.boot = server.boot + 1
<1> DEFINE R == [boot: 0..MaxRestarts, seq: 0..MaxEvents, news: 0..MaxEvents, total: 0..MaxEvents]
<1>0. server \in R /\ server.boot + 1 \in 0..MaxRestarts /\ 0 \in 0..MaxEvents
  BY DEF Restart, Streaming, FeedTypeOK, Sorts
<1>1. /\ server' \in R /\ server'.boot = server.boot + 1 /\ server'.seq = 0
      /\ server'.news = server.news /\ server'.total = server.total
  BY <1>0 DEF Restart
<1>2. stream' = stream /\ feed' = feed /\ ~feed.connected /\ stream.state # "open"
  BY DEF Restart, Streaming, FeedTypeOK
<1>3. Streaming'
  BY <1>1, <1>2, ServerNumbers DEF Streaming, FeedTypeOK
<1>4. Counted'
  BY <1>1, <1>2, ServerNumbers DEF Counted, HeardBefore
<1> QED BY <1>1, <1>3, <1>4

LEMMA AcceptStreams ==
    ASSUME Sorts, Streaming, Counted, Accept
    PROVE  /\ Streaming' /\ Counted'
           /\ stream'.state = "open" /\ stream'.sent[1].boot = server.boot
           /\ stream'.sent[1].seq = server.seq
<1> DEFINE e == [kind |-> "hello", boot |-> server.boot, seq |-> server.seq]
<1>1. e \in Event /\ e.kind = "hello" /\ e.boot = server.boot /\ e.seq = server.seq
  BY DEF Event, Streaming, FeedTypeOK
<1>2. stream' = [state |-> "open", sent |-> <<e>>] /\ ~feed.connected
  BY DEF Accept, Streaming, FeedTypeOK
<1> HIDE DEF e
<1>3. /\ stream' \in [state : Streams, sent : Seq(Event)] /\ stream'.state = "open"
      /\ stream'.sent # <<>> /\ Len(stream'.sent) = 1 /\ stream'.sent[1] = e
  BY <1>1, <1>2 DEF Streams
<1>4. Streaming'
  BY <1>3 DEF Streaming, FeedTypeOK, Accept
<1>5. Counted'
  <2>1. Numbered'
    BY <1>1, <1>2, <1>3, ServerNumbers DEF Numbered, Accept
  <2> QED BY <2>1, <1>1, <1>2, <1>3 DEF Counted, HeardBefore, Accept
<1> QED BY <1>1, <1>3, <1>4, <1>5

LEMMA ReopenStreams ==
    ASSUME Sorts, Streaming, Counted, Reopen
    PROVE  Streaming' /\ Counted'
<1>1. /\ stream' \in [state : Streams, sent : Seq(Event)] /\ stream'.state = "connecting"
      /\ ~feed.connected
  BY DEF Reopen, Streaming, FeedTypeOK, Streams
<1>2. Streaming'
  BY <1>1 DEF Streaming, FeedTypeOK, Reopen
<1>3. Counted'
  BY <1>1 DEF Counted, HeardBefore, Reopen
<1> QED BY <1>2, <1>3

LEMMA BrokenStreams ==
    ASSUME Sorts, Streaming, Counted, NEW state \in {"connecting", "closed"}, Broken(state)
    PROVE  /\ Streaming' /\ Counted' /\ stream'.state # "open"
           /\ ~feed'.connected /\ feed'.last = feed.last /\ feed'.pending = feed.pending
<1>1. /\ stream' \in [state : Streams, sent : Seq(Event)] /\ stream'.state # "open"
  BY DEF Broken, Streams
<1>2. /\ feed' \in [last: Stamp \cup {None}, connected: BOOLEAN, pending: SUBSET Topics]
      /\ ~feed'.connected /\ feed'.last = feed.last /\ feed'.pending = feed.pending
  BY DEF Broken, Streaming, FeedTypeOK
<1>3. Streaming'
  BY <1>1, <1>2 DEF Streaming, FeedTypeOK, Broken
<1>4. Counted'
  BY <1>1, <1>2 DEF Counted, HeardBefore, Broken
<1> QED BY <1>1, <1>2, <1>3, <1>4

LEMMA FlushStreams ==
    ASSUME Sorts, Streaming, Counted, Flushed, UNCHANGED <<server, stream>>
    PROVE  /\ Streaming' /\ Counted'
           /\ feed'.connected = feed.connected /\ feed'.last = feed.last /\ feed'.pending = {}
<1>1. /\ feed' \in [last: Stamp \cup {None}, connected: BOOLEAN, pending: SUBSET Topics]
      /\ feed'.connected = feed.connected /\ feed'.last = feed.last /\ feed'.pending = {}
  BY DEF Flushed, Streaming, FeedTypeOK
<1>2. Streaming'
  BY <1>1 DEF Streaming, FeedTypeOK
<1>3. Counted'
  BY <1>1 DEF Counted, HeardBefore, Numbered
<1> QED BY <1>1, <1>2, <1>3

LEMMA HeadAndTail ==
    ASSUME NEW S, NEW s \in Seq(S), s # <<>>
    PROVE  /\ Head(s) = s[1] /\ s[1] \in S /\ Tail(s) \in Seq(S)
           /\ Len(s) \in Nat /\ Len(s) >= 1 /\ Len(Tail(s)) \in Nat
           /\ Len(s) = Len(Tail(s)) + 1
           /\ \A k \in 1..Len(Tail(s)) : k + 1 \in 1..Len(s) /\ Tail(s)[k] = s[k + 1]
OBVIOUS

\* The first event is a hello when nothing has been heard on this stream, and a change
\* after that; then the page is connected.
LEMMA HearStreams ==
    ASSUME Sorts, Streaming, Counted, Hear
    PROVE  /\ Streaming' /\ Counted'
           /\ stream'.state = "open" /\ stream'.sent = Tail(stream.sent)
           /\ feed'.connected /\ feed'.last # None
           /\ ~feed.connected =>
                feed'.pending = IF Gap(feed.last, stream.sent[1]) THEN Topics ELSE feed.pending
           /\ feed.connected =>
                /\ feed.last # None /\ stream.sent[1].kind = "change"
                /\ feed'.pending = feed.pending \cup stream.sent[1].topics
<1> DEFINE e == stream.sent[1]
<1>1. /\ stream.state = "open" /\ stream.sent # <<>> /\ stream.sent \in Seq(Event)
      /\ stream' = [stream EXCEPT !.sent = Tail(stream.sent)]
      /\ server' = server /\ Numbered
  BY DEF Hear, Streaming, Counted
<1>2. /\ Head(stream.sent) = e /\ e \in Event /\ Tail(stream.sent) \in Seq(Event)
      /\ Len(stream.sent) \in Nat /\ Len(stream.sent) >= 1 /\ Len(Tail(stream.sent)) \in Nat
      /\ Len(stream.sent) = Len(Tail(stream.sent)) + 1
  BY <1>1, HeadAndTail
<1>3. \A k \in 1..Len(Tail(stream.sent)) :
        k + 1 \in 1..Len(stream.sent) /\ Tail(stream.sent)[k] = stream.sent[k + 1]
  BY <1>1, HeadAndTail
<1>4. /\ stream' \in [state : Streams, sent : Seq(Event)] /\ stream'.state = "open"
      /\ stream'.sent = Tail(stream.sent)
  BY <1>1, <1>2 DEF Streaming
<1>0. server.seq \in Nat
  BY ServerNumbers
<1>5. e.seq \in 0..MaxEvents /\ e.seq \in Nat /\ e.seq + Len(stream.sent) = server.seq + 1
  <2>1. 1 \in 1..Len(stream.sent)
    BY <1>2
  <2> QED BY <2>1, <1>1, <1>2, EventKinds DEF Numbered
<1>6. feed'.connected /\ feed'.last # None /\ feed'.last.boot = server.boot /\ feed'.last.seq = e.seq
      /\ feed'.last \in Stamp /\ feed'.pending \in SUBSET Topics
      /\ feed' \in [last: Stamp \cup {None}, connected: BOOLEAN, pending: SUBSET Topics]
  <2> HIDE DEF e
  <2>1. CASE ~feed.connected
    <3>1. e.kind = "hello" /\ e.boot = server.boot /\ e.boot \in 0..MaxRestarts
      BY <2>1, <1>1, <1>2, EventKinds DEF Counted, Numbered, e
    <3>2. feed' = Hello(feed, e)
      BY <3>1, <1>2 DEF Hear
    <3>3. [boot |-> e.boot, seq |-> e.seq] \in Stamp
      BY <3>1, <1>5 DEF Stamp
    <3>4. (IF Gap(feed.last, e) THEN Topics ELSE feed.pending) \in SUBSET Topics
      BY DEF Streaming, FeedTypeOK
    <3> QED BY <3>1, <3>2, <3>3, <3>4, ServerNumbers DEF Hello
  <2>2. CASE feed.connected
    <3>1. e.kind = "change" /\ e.topics \in SUBSET Topics
      <4>1. 1 \in 1..Len(stream.sent)
        BY <1>2
      <4>2. e.kind = "change"
        BY <2>2, <4>1, <1>1 DEF Numbered, e
      <4> QED BY <4>2, <1>2, EventKinds
    <3>2. feed' = Change(feed, e)
      BY <3>1, <1>2 DEF Hear
    <3>3. feed.last # None /\ feed.last \in Stamp /\ feed.last.boot = server.boot
      BY <2>2 DEF Counted, Streaming, FeedTypeOK
    <3>4. /\ [feed.last EXCEPT !.seq = e.seq] \in Stamp
          /\ [feed.last EXCEPT !.seq = e.seq].boot = server.boot
          /\ [feed.last EXCEPT !.seq = e.seq].seq = e.seq
      BY <3>3, <1>5 DEF Stamp
    <3>5. feed.pending \cup e.topics \in SUBSET Topics
      BY <3>1 DEF Streaming, FeedTypeOK
    <3>6. /\ feed'.last = [feed.last EXCEPT !.seq = e.seq] /\ feed'.connected
          /\ feed'.pending = feed.pending \cup e.topics
          /\ feed' \in [last: Stamp \cup {None}, connected: BOOLEAN, pending: SUBSET Topics]
      BY <2>2, <3>2, <3>3, <3>4, <3>5 DEF Change, Streaming, FeedTypeOK
    <3> QED BY <3>4, <3>5, <3>6, ServerNumbers
  <2> QED BY <2>1, <2>2
<1>7. Streaming'
  BY <1>1, <1>4, <1>6 DEF Streaming, FeedTypeOK
<1>8. Numbered'
  <2> SUFFICES ASSUME NEW k \in 1..Len(Tail(stream.sent))
               PROVE  /\ Tail(stream.sent)[k].seq + Len(Tail(stream.sent)) = server.seq + k
                      /\ Tail(stream.sent)[k].kind = "change"
    BY <1>1, <1>4, <1>6 DEF Numbered
  <2>1. k \in Nat /\ k + 1 \in 1..Len(stream.sent) /\ k + 1 > 1 /\ Tail(stream.sent)[k] = stream.sent[k + 1]
    BY <1>2, <1>3
  <2>2. stream.sent[k + 1].seq \in Nat
    BY <1>1, <2>1, EventKinds
  <2>3. stream.sent[k + 1].seq + (Len(Tail(stream.sent)) + 1) = server.seq + (k + 1)
    BY <1>1, <1>2, <2>1 DEF Numbered
  <2>4. stream.sent[k + 1].seq + Len(Tail(stream.sent)) = server.seq + k
    <3>1. k \in Nat /\ Len(Tail(stream.sent)) \in Nat
      BY <1>2, <2>1
    <3> DEFINE n == stream.sent[k + 1].seq
    <3>2. n \in Nat /\ n + (Len(Tail(stream.sent)) + 1) = server.seq + (k + 1)
      BY <2>2, <2>3
    <3> HIDE DEF n
    <3>3. n + Len(Tail(stream.sent)) = server.seq + k
      BY <1>0, <3>1, <3>2, CountBack
    <3> QED BY <3>3 DEF n
  <2>5. stream.sent[k + 1].kind = "change"
    BY <1>1, <2>1 DEF Numbered
  <2> QED BY <2>1, <2>4, <2>5
<1>9. Counted'
  <2>1. e.seq + Len(Tail(stream.sent)) = server.seq /\ e.seq <= server.seq
    <3>1. /\ Len(stream.sent) \in Nat /\ Len(Tail(stream.sent)) \in Nat
          /\ Len(stream.sent) = Len(Tail(stream.sent)) + 1
      BY <1>2
    <3>2. e.seq \in Nat /\ e.seq + Len(stream.sent) = server.seq + 1
      BY <1>5
    <3> HIDE DEF e
    <3> QED BY <1>0, <3>1, <3>2, CountEnds
  <2> QED BY <1>1, <1>4, <1>6, <1>8, <2>1, ServerNumbers DEF Counted, HeardBefore
<1>10. ~feed.connected =>
         feed'.pending = IF Gap(feed.last, stream.sent[1]) THEN Topics ELSE feed.pending
  <2> SUFFICES ASSUME ~feed.connected
               PROVE  feed'.pending = IF Gap(feed.last, e) THEN Topics ELSE feed.pending
    OBVIOUS
  <2>1. e.kind = "hello"
    BY <1>1 DEF Numbered
  <2> HIDE DEF e
  <2> QED BY <2>1, <1>2 DEF Hear, Hello
<1>11. feed.connected =>
         /\ feed.last # None /\ stream.sent[1].kind = "change"
         /\ feed'.pending = feed.pending \cup stream.sent[1].topics
  <2> SUFFICES ASSUME feed.connected
               PROVE  feed.last # None /\ e.kind = "change" /\ feed'.pending = feed.pending \cup e.topics
    OBVIOUS
  <2>0. 1 \in 1..Len(stream.sent)
    BY <1>2
  <2>1. e.kind = "change" /\ feed.last # None
    BY <1>1, <2>0 DEF Numbered, Counted
  <2> HIDE DEF e
  <2> QED BY <2>1, <1>2 DEF Hear, Change, Streaming, FeedTypeOK
<1> QED BY <1>4, <1>6, <1>7, <1>9, <1>10, <1>11

-----------------------------------------------------------------------------
(* Where the news is *)

\* A closed stream: what was heard last is not what the server has.
LEMMA GapWhenClosed ==
    ASSUME Sorts, Streaming, stream.state # "open"
    PROVE  /\ ~feed.connected /\ ~OnItsWay
           /\ InGap <=> feed.last # None /\ (feed.last.boot # server.boot \/ feed.last.seq # server.seq)
BY DEF Streaming, FeedTypeOK, OnItsWay, InGap, Gap

\* An event that is published is news on its way, or makes a gap.
LEMMA PublishBrings ==
    ASSUME Sorts, Streaming, Counted, NEW topic \in Topics, Publish(topic)
    PROVE  /\ feed' = feed
           /\ Coming => feed.last = None \/ Coming'
           /\ topic \in Watched => feed.last = None \/ Coming'
<1>1. /\ Streaming' /\ Counted' /\ server'.seq = server.seq + 1 /\ server'.boot = server.boot
  BY PublishStreams
<1>2. feed' = feed /\ (Pending => Pending')
  BY DEF Publish, Pending
<1>3. CASE stream.state = "open"
  <2> DEFINE e == [kind |-> "change", topics |-> {topic}, seq |-> server.seq + 1]
  <2>1. /\ stream' = [stream EXCEPT !.sent = Append(stream.sent, e)] /\ stream.sent \in Seq(Event)
        /\ e.kind = "change" /\ e.topics = {topic}
    BY <1>3 DEF Publish, Streaming
  <2>2. e \in Event
    <3>1. server.seq + 1 \in 0..MaxEvents
      BY DEF Sorts, Streaming, FeedTypeOK, Publish
    <3> QED BY <3>1 DEF Event
  <2> HIDE DEF e
  <2>3. /\ Len(stream.sent) \in Nat /\ Len(stream'.sent) = Len(stream.sent) + 1
        /\ \A k \in 1..Len(stream.sent) : stream'.sent[k] = stream.sent[k]
        /\ stream'.sent[Len(stream.sent) + 1] = e /\ stream'.state = "open"
    BY <2>1, <2>2, <1>3 DEF Streaming
  <2>4. OnItsWay => OnItsWay'
    <3> SUFFICES ASSUME NEW k \in 1..Len(stream.sent), stream.sent[k].kind = "change",
                        stream.sent[k].topics \cap Watched # {}
                 PROVE  OnItsWay'
      BY DEF OnItsWay
    <3>1. k \in 1..Len(stream'.sent) /\ stream'.sent[k] = stream.sent[k]
      BY <2>3
    <3> QED BY <3>1, <2>3 DEF OnItsWay
  <2>5. topic \in Watched => OnItsWay'
    <3>1. Len(stream.sent) + 1 \in 1..Len(stream'.sent)
      BY <2>3
    <3>2. topic \in Watched => e.topics \cap Watched # {}
      BY <2>1
    <3> QED BY <2>1, <2>3, <3>1, <3>2 DEF OnItsWay
  <2>6. InGap => InGap'
    <3> SUFFICES ASSUME ~feed.connected, Gap(feed.last, stream.sent[1])
                 PROVE  InGap'
      BY <1>3 DEF InGap
    <3>1. stream.sent # <<>>
      BY <1>3 DEF Counted, Numbered
    <3>2. stream'.sent[1] = stream.sent[1]
      BY <2>1, <2>3, <3>1
    <3> QED BY <1>2, <2>3, <3>2 DEF InGap
  <2> QED BY <1>2, <2>4, <2>5, <2>6 DEF Coming
<1>4. CASE stream.state # "open"
  <2>1. stream' = stream
    BY <1>4 DEF Publish
  <2>2. feed.last # None => InGap'
    <3> SUFFICES ASSUME feed.last # None PROVE InGap'
      OBVIOUS
    <3>1. /\ feed.last.boot = server.boot => feed.last.seq <= server.seq
          /\ feed.last.seq \in Nat /\ server.seq \in Nat
      BY ServerNumbers DEF Counted, HeardBefore
    <3>2. feed.last.boot # server'.boot \/ feed.last.seq # server'.seq
      BY <1>1, <3>1
    <3>3. ~feed.connected
      BY <1>4 DEF Streaming, FeedTypeOK
    <3> QED BY <1>2, <1>4, <2>1, <3>2, <3>3 DEF InGap, Gap
  <2> QED BY <1>2, <2>2 DEF Coming
<1> QED BY <1>2, <1>3, <1>4

LEMMA RestartBrings ==
    ASSUME Sorts, Streaming, Counted, Restart
    PROVE  feed' = feed /\ (feed.last # None => Coming')
<1>1. /\ server'.boot = server.boot + 1 /\ stream' = stream /\ feed' = feed /\ stream.state # "open"
      /\ ~feed.connected
  BY RestartStreams DEF Restart, Streaming, FeedTypeOK
<1>2. feed.last # None => feed.last.boot # server'.boot
  BY <1>1, ServerNumbers DEF Counted, HeardBefore
<1> QED BY <1>1, <1>2 DEF Coming, InGap, Gap

LEMMA AcceptBrings ==
    ASSUME Sorts, Streaming, Counted, Accept
    PROVE  feed' = feed /\ (Coming => Coming')
<1>1. /\ stream'.state = "open" /\ stream'.sent[1].boot = server.boot
      /\ stream'.sent[1].seq = server.seq /\ feed' = feed /\ server' = server
      /\ stream.state # "open"
  BY AcceptStreams DEF Accept
<1> QED BY <1>1, GapWhenClosed DEF Coming, InGap, Gap, Pending

LEMMA ReopenBrings ==
    ASSUME Sorts, Streaming, Counted, Reopen
    PROVE  feed' = feed /\ (Coming => Coming')
<1>1. stream.state # "open" /\ stream'.state # "open" /\ feed' = feed /\ server' = server
  BY DEF Reopen, Streaming
<1> QED BY <1>1, GapWhenClosed DEF Coming, InGap, Gap, Pending

\* What breaks off leaves a gap behind.
LEMMA BrokenBrings ==
    ASSUME Sorts, Streaming, Counted, NEW state \in {"connecting", "closed"}, Broken(state),
           feed.last # None, Coming
    PROVE  Coming'
<1>1. /\ stream'.state # "open" /\ ~feed'.connected /\ feed'.last = feed.last
      /\ feed'.pending = feed.pending /\ server' = server
  BY BrokenStreams DEF Broken
<1>2. /\ feed.last.boot \in Nat /\ feed.last.seq \in Nat /\ server.seq \in Nat /\ server.boot \in Nat
      /\ stream.sent \in Seq(Event)
  BY ServerNumbers DEF Streaming
<1>3. ASSUME feed.last.boot # server.boot \/ feed.last.seq # server.seq
      PROVE  InGap'
  BY <1>1, <1>3 DEF InGap, Gap
<1>4. CASE Pending
  BY <1>1, <1>4 DEF Coming, Pending
<1>5. CASE stream.state # "open" /\ InGap
  BY <1>3, <1>5, GapWhenClosed DEF Coming
<1>6. CASE stream.state = "open" /\ ~Pending
  <2>1. Numbered
    BY <1>6 DEF Counted
  <2>2. PICK k \in 1..Len(stream.sent) :
          \/ stream.sent[k].kind = "change"
          \/ k = 1 /\ ~feed.connected /\ Gap(feed.last, stream.sent[1])
    <3>1. ~feed.connected => 1 \in 1..Len(stream.sent)
      BY <1>2, <2>1 DEF Numbered
    <3> QED BY <1>6, <3>1 DEF Coming, OnItsWay, InGap
  <2>3. Len(stream.sent) \in Nat /\ Len(stream.sent) >= 1 /\ 1 \in 1..Len(stream.sent)
    BY <1>2, <2>2
  <2>4. CASE feed.connected
    <3>1. feed.last.seq + Len(stream.sent) = server.seq
      BY <2>4 DEF Counted
    <3>2. feed.last.seq # server.seq
      BY <1>2, <2>3, <3>1
    <3> QED BY <1>3, <3>2 DEF Coming
  <2>5. CASE ~feed.connected
    <3>1. /\ stream.sent[1].boot = server.boot
          /\ feed.last.boot = server.boot => feed.last.seq <= stream.sent[1].seq
      BY <1>6, <2>5 DEF Counted, HeardBefore
    <3>2. stream.sent[1].kind = "hello" /\ stream.sent[1].seq + Len(stream.sent) = server.seq + 1
      BY <2>1, <2>3, <2>5 DEF Numbered
    <3>3. stream.sent[1].seq \in Nat
      BY <1>2, <2>3, EventKinds
    <3>4. CASE k = 1
      <4>1. feed.last.boot # stream.sent[1].boot \/ feed.last.seq # stream.sent[1].seq
        BY <2>2, <3>2, <3>4 DEF Gap
      <4>2. feed.last.boot # server.boot \/ feed.last.seq # server.seq
        BY <1>2, <2>3, <3>1, <3>2, <3>3, <4>1
      <4> QED BY <1>3, <4>2 DEF Coming
    <3>5. CASE k # 1
      <4>1. Len(stream.sent) >= 2
        BY <2>3, <3>5
      <4>2. feed.last.boot # server.boot \/ feed.last.seq # server.seq
        BY <1>2, <2>3, <3>1, <3>2, <3>3, <4>1
      <4> QED BY <1>3, <4>2 DEF Coming
    <3> QED BY <3>4, <3>5
  <2> QED BY <2>4, <2>5
<1>7. ~(stream.state # "open" /\ OnItsWay)
  BY DEF OnItsWay
<1> QED BY <1>4, <1>5, <1>6, <1>7 DEF Coming

\* What is heard waits to be told to the page.
LEMMA HearBrings ==
    ASSUME Sorts, Streaming, Counted, Hear, Coming
    PROVE  Coming'
<1>1. /\ stream'.state = "open" /\ stream'.sent = Tail(stream.sent) /\ feed'.connected
      /\ ~feed.connected =>
           feed'.pending = IF Gap(feed.last, stream.sent[1]) THEN Topics ELSE feed.pending
      /\ feed.connected =>
           /\ stream.sent[1].kind = "change"
           /\ feed'.pending = feed.pending \cup stream.sent[1].topics
  BY HearStreams
<1>2. /\ stream.state = "open" /\ stream.sent # <<>> /\ stream.sent \in Seq(Event) /\ Numbered
  BY DEF Hear, Streaming, Counted
<1>3. Topics \cap Watched # {}
  BY DEF Sorts
<1>4. feed.pending \subseteq feed'.pending
  BY <1>1 DEF Streaming, FeedTypeOK
<1>5. CASE Pending
  BY <1>4, <1>5 DEF Coming, Pending
<1>6. CASE InGap
  BY <1>1, <1>2, <1>3, <1>6 DEF InGap, Coming, Pending
<1>7. ASSUME NEW k \in 1..Len(stream.sent), stream.sent[k].kind = "change",
             stream.sent[k].topics \cap Watched # {}
      PROVE  Coming'
  <2>1. CASE k = 1
    <3>1. feed.connected
      BY <1>2, <1>7, <2>1 DEF Numbered
    <3> QED BY <1>1, <1>7, <2>1, <3>1 DEF Coming, Pending
  <2>2. CASE k # 1
    <3>0. /\ Len(stream.sent) \in Nat /\ Len(Tail(stream.sent)) \in Nat
          /\ Len(stream.sent) = Len(Tail(stream.sent)) + 1
      BY <1>2, HeadAndTail
    <3>1. k - 1 \in 1..Len(Tail(stream.sent)) /\ (k - 1) + 1 = k
      BY <2>2, <3>0
    <3>2. Tail(stream.sent)[k - 1] = stream.sent[k]
      BY <1>2, <3>1, HeadAndTail
    <3> QED BY <1>1, <1>7, <3>1, <3>2 DEF Coming, OnItsWay
  <2> QED BY <2>1, <2>2
<1> QED BY <1>5, <1>6, <1>7 DEF Coming, OnItsWay

LEMMA FlushBrings ==
    ASSUME Sorts, Streaming, Counted, Flushed, UNCHANGED <<server, stream>>, Coming, ~Pending
    PROVE  Coming'
BY FlushStreams DEF Coming, Pending, OnItsWay, InGap

-----------------------------------------------------------------------------
(* The page *)

LEMMA PictureNumbers ==
    ASSUME Sorts, NEW x \in Pictures
    PROVE  x # None => x \in Nat
BY DEF Sorts, Pictures

LEMMA DroppedFetches ==
    ASSUME fetches \subseteq Fetch
    PROVE  /\ Dropped(fetches) \subseteq Fetch
           /\ \A f \in Dropped(fetches) : ~f.current /\ \E g \in fetches : f.news = g.news
BY DEF Dropped, Fetch

\* The page p asks: from here the answer will be of now or later.
LEMMA AskedReads ==
    ASSUME Sorts, Reading, NEW p \in PageState, p.active, p.ready,
           p.shown = page.shown, p.since = page.since,
           Asked(p, fetches), server'.news = server.news, steady' = steady
    PROVE  /\ Reading' /\ Fresh' /\ page'.shown = page.shown
<1> DEFINE n == [current |-> TRUE, news |-> None]
<1>1. n \in Fetch /\ n.current /\ n.news = None
  BY DEF Fetch, Pictures
<1>2. fetches' = Dropped(fetches) \cup {n}
  BY DEF Asked
<1> HIDE DEF n
<1>3. /\ Dropped(fetches) \subseteq Fetch
      /\ \A f \in Dropped(fetches) : ~f.current /\ \E g \in fetches : f.news = g.news
  BY DroppedFetches DEF Reading
<1>4. Current' = {n}
  BY <1>1, <1>2, <1>3 DEF Current
<1>5. /\ page' \in PageState /\ page'.active /\ page'.ready /\ page'.timer = FALSE
      /\ page'.shown = page.shown /\ page'.since = page.since
  BY DEF Asked, PageState
<1>6. Looping'
  <2>1. Current' # {} /\ \A f, g \in Current' : f = g
    BY <1>4
  <2>2. page'.timer = (Current' = {})
    BY <1>5, <2>1
  <2> QED BY <1>5, <2>1, <2>2 DEF Looping
<1>7. Forward'
  BY <1>1, <1>2, <1>3, <1>4, <1>5 DEF Forward, Reading
<1>8. Fresh'
  BY <1>1, <1>4 DEF Fresh
<1>9. fetches' \subseteq Fetch
  BY <1>1, <1>2, <1>3
<1> QED BY <1>5, <1>6, <1>7, <1>8, <1>9 DEF Reading

\* The pace sets the timer of a page between two polls, and nothing else.
LEMMA PacedReads ==
    ASSUME Sorts, Reading, server.news \in 0..MaxEvents, NEW p \in PageState,
           p.active = page.active, p.ready = page.ready, p.timer = page.timer,
           p.offline = page.offline, p.shown = page.shown, p.since \in {page.since, server.news},
           page' \in {p, Paced(p)}, server' = server, fetches' = fetches, steady' = steady
    PROVE  /\ Reading' /\ page'.active = page.active /\ page'.offline = page.offline
           /\ page'.shown = page.shown /\ page'.since = p.since
<1>1. Current' = Current
  BY DEF Current
<1>2. /\ page' \in PageState /\ page'.active = page.active /\ page'.ready = page.ready
      /\ page'.offline = page.offline /\ page'.shown = page.shown /\ page'.since = p.since
  BY DEF Paced, Scheduled, PageState
<1>3. page'.timer = page.timer \/ (Current = {} /\ page'.timer = page.active)
  BY DEF Paced, Scheduled, PageState
<1>4. Looping'
  BY <1>1, <1>2, <1>3 DEF Looping, Reading, PageState
<1>5. Forward'
  <2>1. server.news \in Nat
    BY DEF Sorts
  <2> QED BY <1>1, <1>2, <2>1 DEF Forward, Reading
<1> QED BY <1>2, <1>4, <1>5 DEF Reading

\* The server answers with what it has now.
LEMMA ServedReads ==
    ASSUME Sorts, Reading, server.news \in 0..MaxEvents, NEW f \in fetches, Served(f)
    PROVE  Reading' /\ (Fresh => Fresh')
<1> DEFINE g == [f EXCEPT !.news = server.news]
<1>1. /\ g \in Fetch /\ g.current = f.current /\ g.news = server.news /\ f.news = None
      /\ fetches' = (fetches \ {f}) \cup {g} /\ server' = server /\ page' = page /\ steady' = steady
  BY DEF Served, feedVars, Reading, Fetch, Pictures
<1> HIDE DEF g
<1>2. server.news \in Nat /\ server.news # None
  BY DEF Sorts
<1>3. fetches' \subseteq Fetch /\ \A h \in fetches' : (h \in fetches /\ h # f) \/ h = g
  BY <1>1 DEF Reading
<1>4. /\ \A h \in Current' : (h \in Current /\ h # f) \/ (f \in Current /\ h = g)
      /\ Current' = {} <=> Current = {}
  <2>1. \A h \in Current' : (h \in Current /\ h # f) \/ (f \in Current /\ h = g)
    BY <1>1, <1>3 DEF Current
  <2>2. g \in fetches' /\ \A h \in fetches : h = f \/ h \in fetches'
    BY <1>1
  <2> QED BY <1>1, <2>1, <2>2 DEF Current
<1>5. Looping'
  BY <1>1, <1>4 DEF Looping, Reading
<1>6. Forward'
  BY <1>1, <1>2, <1>3, <1>4 DEF Forward, Reading
<1>7. Fresh => Fresh'
  BY <1>1, <1>4 DEF Fresh
<1> QED BY <1>1, <1>3, <1>5, <1>6, <1>7 DEF Reading

\* A request is over: it was the current one, and a page that is on has its timer again.
LEMMA OverReads ==
    ASSUME Sorts, Reading, NEW f \in fetches, NEW p \in PageState,
           p.active = page.active, p.ready = page.ready, p.timer = page.timer,
           p.since = page.since \/ p.since = None,
           p.shown = page.shown \/ (f.news # None /\ p.shown = f.news),
           page' = IF f.current THEN Scheduled(p) ELSE page,
           fetches' = fetches \ {f}, server' = server, steady' = steady
    PROVE  Reading'
<1>1. /\ fetches' \subseteq Fetch /\ fetches' \subseteq fetches /\ Current' = Current \ {f}
  BY DEF Reading, Current
<1>2. CASE f.current
  <2>1. Current = {f} /\ Current' = {}
    BY <1>1, <1>2 DEF Reading, Looping, Current
  <2>2. /\ page' \in PageState /\ page'.active = page.active /\ page'.ready = page.ready
        /\ page'.timer = page.active /\ page'.since = p.since /\ page'.shown = p.shown
    BY <1>2 DEF Scheduled, PageState
  <2>3. Looping'
    <3>1. page.active \in BOOLEAN
      BY DEF Reading, PageState
    <3>2. page.active => page.ready
      BY DEF Reading, Looping
    <3> QED BY <2>1, <2>2, <3>1, <3>2 DEF Looping
  <2>4. Forward'
    BY <1>1, <2>1, <2>2 DEF Forward, Reading
  <2> QED BY <1>1, <2>2, <2>3, <2>4 DEF Reading
<1>3. CASE ~f.current
  <2>1. Current' = Current /\ page' = page
    BY <1>1, <1>3 DEF Current
  <2>2. Looping' /\ Forward'
    BY <1>1, <2>1 DEF Looping, Forward, Reading
  <2> QED BY <1>1, <2>1, <2>2 DEF Reading
<1> QED BY <1>2, <1>3

LEMMA AnsweredReads ==
    ASSUME Sorts, Reading, server.news \in 0..MaxEvents, NEW f \in fetches, Answered(f)
    PROVE  /\ Reading'
           /\ Fresh \/ page.since = server.news => Fresh' \/ page'.since = server.news
           /\ page.shown # None => page'.shown >= page.shown
<1> DEFINE p == [page EXCEPT !.shown = f.news, !.offline = FALSE,
                             !.since = IF Covers(f.news) THEN None ELSE @]
<1>1. /\ f.news # None /\ f.news \in Pictures /\ server' = server /\ steady' = steady
      /\ fetches' = fetches \ {f} /\ page' = IF f.current THEN Scheduled(p) ELSE page
      /\ page.since \in Pictures /\ None \in Pictures
  BY DEF Answered, feedVars, Accepts, Reading, Fetch, PageState, Pictures
<1>2. /\ p \in PageState /\ p.active = page.active /\ p.ready = page.ready /\ p.timer = page.timer
      /\ p.since = (IF Covers(f.news) THEN None ELSE page.since)
      /\ p.shown = f.news /\ p.offline = FALSE
  BY <1>1 DEF Reading, PageState
<1> HIDE DEF p
<1>3. p.since = page.since \/ p.since = None
  BY <1>2
<1>4. Reading'
  BY <1>1, <1>2, <1>3, OverReads
<1>5. /\ Current' = Current \ {f} /\ server.news \in Nat /\ f.news \in Nat /\ f.news <= server.news
  BY <1>1, PictureNumbers DEF Current, Sorts, Reading, Forward
<1>6. CASE ~f.current
  <2>1. page' = page /\ Current' = Current
    BY <1>1, <1>5, <1>6 DEF Current
  <2>2. page.shown # None => page.shown \in Nat
    BY PictureNumbers DEF Reading, PageState
  <2> QED BY <1>1, <1>4, <2>1, <2>2 DEF Fresh
<1>7. CASE f.current
  <2>1. f \in Current /\ Current = {f} /\ Current' = {}
    BY <1>5, <1>7 DEF Reading, Looping, Current
  <2>2. page'.shown = f.news /\ page'.since = p.since
    BY <1>1, <1>2, <1>7 DEF Scheduled, PageState
  <2>3. Fresh => Fresh'
    BY <1>1, <2>1, <2>2 DEF Fresh
  <2>4. page.since = server.news => Fresh' \/ page'.since = server.news
    <3> SUFFICES ASSUME page.since = server.news PROVE Fresh' \/ page'.since = server.news
      OBVIOUS
    <3>1. CASE Covers(f.news)
      <4>1. f.news = server.news
        BY <1>5, <3>1 DEF Covers
      <4> QED BY <1>1, <2>1, <2>2, <4>1 DEF Fresh
    <3>2. CASE ~Covers(f.news)
      BY <1>2, <2>2, <3>2
    <3> QED BY <3>1, <3>2
  <2>5. page.shown # None => page'.shown >= page.shown
    <3>1. page.shown # None => page.shown \in Nat /\ page.shown <= f.news
      BY <1>1, <2>1, PictureNumbers DEF Reading, Forward, PageState
    <3> QED BY <1>5, <2>2, <3>1
  <2> QED BY <1>4, <2>3, <2>4, <2>5
<1> QED BY <1>6, <1>7

LEMMA FailedReads ==
    ASSUME Sorts, Reading, NEW f \in fetches, Failed(f)
    PROVE  Reading' /\ (Fresh => Fresh') /\ page'.since = page.since /\ page'.shown = page.shown
<1> DEFINE p == [page EXCEPT !.offline = TRUE]
<1>1. /\ server' = server /\ steady' = steady
      /\ fetches' = fetches \ {f} /\ page' = IF f.current THEN Scheduled(p) ELSE page
  BY DEF Failed, feedVars
<1>2. /\ p \in PageState /\ p.active = page.active /\ p.ready = page.ready /\ p.timer = page.timer
      /\ p.since = page.since /\ p.shown = page.shown /\ p.offline = TRUE
  BY DEF Reading, PageState
<1> HIDE DEF p
<1>3. Reading'
  BY <1>1, <1>2, OverReads
<1>4. page'.since = page.since /\ page'.shown = page.shown
  BY <1>1, <1>2 DEF Scheduled, PageState
<1>5. Fresh => Fresh'
  <2>1. Current' = Current \ {f}
    BY <1>1 DEF Current
  <2>2. CASE f.current
    <3>1. page'.offline
      BY <1>1, <1>2, <2>2 DEF Scheduled, PageState
    <3> QED BY <1>1, <2>1, <3>1 DEF Fresh
  <2>3. CASE ~f.current
    BY <1>1, <2>1, <2>3 DEF Fresh, Current
  <2> QED BY <2>2, <2>3
<1> QED BY <1>3, <1>4, <1>5

LEMMA LeaveReads ==
    ASSUME Sorts, Reading, Leave
    PROVE  Reading' /\ ~page'.active /\ page'.shown = page.shown
<1>1. /\ Dropped(fetches) \subseteq Fetch
      /\ \A f \in Dropped(fetches) : ~f.current /\ \E g \in fetches : f.news = g.news
  BY DroppedFetches DEF Reading
<1>2. /\ page' \in PageState /\ page'.active = FALSE /\ page'.timer = FALSE
      /\ page'.shown = page.shown /\ page'.since = page.since /\ fetches' = Dropped(fetches)
      /\ server' = server /\ steady' = steady
  BY DEF Leave, Reading, PageState, feedVars
<1>3. Current' = {}
  BY <1>1, <1>2 DEF Current
<1>4. Looping' /\ Forward'
  BY <1>1, <1>2, <1>3 DEF Looping, Forward, Reading
<1> QED BY <1>1, <1>2, <1>4 DEF Reading

-----------------------------------------------------------------------------
(* Every step *)

LEMMA SafeTypes ==
    ASSUME Safe
    PROVE  TypeOK /\ server.news \in 0..MaxEvents
BY DEF Safe, Streaming, Reading, TypeOK, FeedTypeOK, PageState, Fetch

\* Nothing happens on the stream.
LEMMA QuietStream ==
    ASSUME Safe, UNCHANGED feedVars
    PROVE  Streaming' /\ Counted' /\ (Coming <=> Coming')
BY DEF Safe, feedVars, Streaming, FeedTypeOK, Counted, HeardBefore, Numbered, Coming, Pending,
       OnItsWay, InGap

\* Nothing happens on the page, and the server goes on.
LEMMA QuietPage ==
    ASSUME Sorts, Safe, UNCHANGED <<page, fetches, steady>>,
           server.news \in Nat, server'.news \in Nat, server'.news >= server.news
    PROVE  /\ Reading'
           /\ server'.news = server.news => (Fresh => Fresh')
<1>1. Current' = Current
  BY DEF Current
<1>2. Looping'
  BY <1>1 DEF Safe, Reading, Looping
<1>3. \A x \in Pictures : x # None => x \in Nat
  BY PictureNumbers
<1>4. Forward'
  <2>1. \A x \in Pictures : x # None /\ x <= server.news => x <= server'.news
    BY <1>3
  <2>2. page.shown \in Pictures /\ page.since \in Pictures /\ \A f \in fetches : f.news \in Pictures
    BY DEF Safe, Reading, PageState, Fetch
  <2> QED BY <1>1, <2>1, <2>2 DEF Safe, Reading, Forward
<1>5. server'.news = server.news => (Fresh => Fresh')
  BY <1>1 DEF Fresh
<1> QED BY <1>2, <1>4, <1>5 DEF Safe, Reading

LEMMA InitIsSafe ==
    ASSUME Sorts, Init
    PROVE  Safe
<1>1. Streaming
  <2>1. <<>> \in Seq(Event)
    OBVIOUS
  <2> QED BY <2>1 DEF Init, FeedInit, Streaming, FeedTypeOK, Streams, Sorts
<1>2. Reading
  <2>1. Current = {}
    BY DEF Init, Current
  <2> QED BY <2>1 DEF Init, Reading, PageState, Looping, Forward, Pictures
<1>3. Counted
  BY DEF Init, FeedInit, Counted, HeardBefore
<1>4. UnlessAsked
  BY DEF Init, UnlessAsked
<1> QED BY <1>1, <1>2, <1>3, <1>4 DEF Safe

LEMMA ServerIsSafe ==
    ASSUME Sorts, Safe, ServerSteps
    PROVE  Safe' /\ page' = page
<1>1. Streaming /\ Counted /\ server.news \in Nat /\ page' = page /\ fetches' = fetches /\ steady' = steady
  BY ServerNumbers DEF Safe, ServerSteps
<1>2. ASSUME NEW topic \in Topics, Publish(topic) PROVE Safe'
  <2>1. Streaming' /\ Counted'
    BY <1>1, <1>2, PublishStreams
  <2>2. /\ server'.news \in Nat /\ server'.news >= server.news
        /\ server'.news = server.news \/ topic \in Watched
    BY <1>1, <1>2 DEF Publish, Streaming, FeedTypeOK
  <2>3. Reading' /\ (server'.news = server.news => (Fresh => Fresh'))
    BY <1>1, <2>2, QuietPage
  <2>4. /\ feed' = feed /\ (Coming => feed.last = None \/ Coming')
        /\ topic \in Watched => feed.last = None \/ Coming'
    BY <1>1, <1>2, PublishBrings
  <2>5. UnlessAsked'
    BY <1>1, <2>2, <2>3, <2>4 DEF Safe, UnlessAsked
  <2> QED BY <2>1, <2>3, <2>5 DEF Safe
<1>3. CASE Restart
  <2>1. Streaming' /\ Counted' /\ server'.news = server.news
    BY <1>1, <1>3, RestartStreams
  <2>2. Reading'
    BY <1>1, <2>1, QuietPage
  <2>3. feed' = feed /\ (feed.last # None => Coming')
    BY <1>1, <1>3, RestartBrings
  <2>4. UnlessAsked'
    BY <2>3 DEF UnlessAsked
  <2> QED BY <1>1, <2>1, <2>2, <2>4 DEF Safe
<1>4. CASE Accept \/ Reopen
  <2>1. Streaming' /\ Counted' /\ server' = server
    BY <1>1, <1>4, AcceptStreams, ReopenStreams DEF Accept, Reopen
  <2>2. Reading' /\ (Fresh => Fresh')
    BY <1>1, <2>1, QuietPage
  <2>3. feed' = feed /\ (Coming => Coming')
    BY <1>1, <1>4, AcceptBrings, ReopenBrings
  <2>4. UnlessAsked'
    BY <1>1, <2>1, <2>2, <2>3 DEF Safe, UnlessAsked
  <2> QED BY <1>1, <2>1, <2>2, <2>4 DEF Safe
<1> QED BY <1>1, <1>2, <1>3, <1>4 DEF ServerSteps

\* Requests served, answered and lost.
LEMMA RequestsAreSafe ==
    ASSUME Sorts, Safe, Serve \/ Receive \/ Lose
    PROVE  Safe' /\ (page.shown # None => page'.shown >= page.shown)
<1>1. Reading /\ server.news \in 0..MaxEvents /\ UNCHANGED feedVars
  BY SafeTypes DEF Safe, Serve, Receive, Lose, Served, Answered, Failed
<1>2. Streaming' /\ Counted' /\ (Coming <=> Coming') /\ server' = server /\ feed' = feed
  BY <1>1, QuietStream DEF feedVars
<1>3. page.shown # None => page.shown \in Nat
  BY <1>1, PictureNumbers DEF Reading, PageState
<1>4. ASSUME NEW f \in fetches, Served(f)
      PROVE  Safe' /\ page' = page
  <2>1. Reading' /\ (Fresh => Fresh') /\ page' = page
    BY <1>1, <1>4, ServedReads DEF Served
  <2>2. UnlessAsked'
    BY <1>2, <2>1 DEF Safe, UnlessAsked
  <2> QED BY <1>2, <2>1, <2>2 DEF Safe
<1>5. ASSUME NEW f \in fetches, Answered(f)
      PROVE  Safe' /\ (page.shown # None => page'.shown >= page.shown)
  <2>1. /\ Reading' /\ (Fresh \/ page.since = server.news => Fresh' \/ page'.since = server.news)
        /\ page.shown # None => page'.shown >= page.shown
    BY <1>1, <1>5, AnsweredReads
  <2>2. page'.active = page.active
    BY <1>1, <1>5 DEF Answered, Scheduled, Reading, PageState
  <2>3. UnlessAsked'
    BY <1>2, <2>1, <2>2 DEF Safe, UnlessAsked
  <2> QED BY <1>2, <2>1, <2>3 DEF Safe
<1>6. ASSUME NEW f \in fetches, Failed(f)
      PROVE  Safe' /\ page'.shown = page.shown
  <2>1. Reading' /\ (Fresh => Fresh') /\ page'.since = page.since /\ page'.shown = page.shown
    BY <1>1, <1>6, FailedReads
  <2>2. page'.active = page.active
    BY <1>1, <1>6 DEF Failed, Scheduled, Reading, PageState
  <2>3. UnlessAsked'
    BY <1>2, <2>1, <2>2 DEF Safe, UnlessAsked
  <2> QED BY <1>2, <2>1, <2>3 DEF Safe
<1> QED BY <1>3, <1>4, <1>5, <1>6 DEF Serve, Receive, Lose

\* A question asked of the server as it is, whatever the stream has brought.
LEMMA AskedIsSafe ==
    ASSUME Sorts, Safe, NEW p \in PageState, p.active, p.ready,
           p.shown = page.shown, p.since = page.since,
           Asked(p, fetches), server' = server, steady' = steady, Streaming', Counted'
    PROVE  Safe' /\ page'.shown = page.shown
<1>1. Reading' /\ Fresh' /\ page'.shown = page.shown
  BY AskedReads DEF Safe
<1>2. UnlessAsked'
  BY <1>1 DEF UnlessAsked
<1> QED BY <1>1, <1>2 DEF Safe

LEMMA PollsAreSafe ==
    ASSUME Sorts, Safe, Tick \/ Woken \/ Open
    PROVE  Safe' /\ page'.shown = page.shown
<1>1. Reading /\ page \in PageState /\ UNCHANGED feedVars /\ steady' = steady
  BY DEF Safe, Reading, Tick, Woken, Open
<1>2. Streaming' /\ Counted' /\ server' = server
  BY <1>1, QuietStream DEF feedVars
<1>3. CASE Tick \/ Woken
  <2>1. page.active /\ page.ready
    BY <1>1, <1>3 DEF Tick, Woken, Reading, Looping
  <2>2. Asked(page, fetches)
    BY <1>3, <2>1 DEF Tick, Woken, Poll
  <2> QED BY <1>1, <1>2, <2>1, <2>2, AskedIsSafe
<1>4. CASE Open
  <2> DEFINE p == [page EXCEPT !.active = TRUE, !.ready = TRUE]
  <2>1. p \in PageState /\ p.active /\ p.ready /\ p.shown = page.shown /\ p.since = page.since
    BY <1>1 DEF PageState
  <2>2. Poll(p)
    BY <1>4 DEF Open
  <2> HIDE DEF p
  <2>3. Asked(p, fetches)
    BY <2>1, <2>2 DEF Poll
  <2> QED BY <1>1, <1>2, <2>1, <2>3, AskedIsSafe
<1> QED BY <1>3, <1>4

LEMMA HearIsSafe ==
    ASSUME Sorts, Safe, HearEvent
    PROVE  Safe' /\ page'.shown = page.shown
<1> DEFINE p == IF feed.last = None /\ feed'.last # None
                THEN [page EXCEPT !.since = server.news] ELSE page
<1>1. /\ Streaming /\ Counted /\ Reading /\ page \in PageState /\ server.news \in 0..MaxEvents
      /\ Hear /\ server' = server /\ fetches' = fetches /\ steady' = steady
  BY SafeTypes DEF Safe, Reading, HearEvent, Hear
<1>2. page' \in {p, Paced(p)}
  BY DEF HearEvent
<1>3. /\ p \in PageState /\ p.active = page.active /\ p.ready = page.ready /\ p.timer = page.timer
      /\ p.offline = page.offline /\ p.shown = page.shown
      /\ p.since = IF feed.last = None /\ feed'.last # None THEN server.news ELSE page.since
  BY <1>1 DEF PageState, Pictures
<1> HIDE DEF p
<1>4. Streaming' /\ Counted' /\ feed'.last # None
  BY <1>1, HearStreams
<1>5. p.since \in {page.since, server.news}
  BY <1>3
<1>6. /\ Reading' /\ page'.active = page.active /\ page'.offline = page.offline
      /\ page'.shown = page.shown /\ page'.since = p.since
  BY <1>1, <1>2, <1>3, <1>5, PacedReads
<1>7. Coming => Coming'
  BY <1>1, HearBrings
<1>8. Fresh => Fresh'
  BY <1>1, <1>6 DEF Fresh, Current
<1>9. UnlessAsked'
  BY <1>1, <1>3, <1>4, <1>6, <1>7, <1>8 DEF Safe, UnlessAsked
<1> QED BY <1>4, <1>6, <1>9 DEF Safe

LEMMA BreakIsSafe ==
    ASSUME Sorts, Safe, StreamBroken
    PROVE  Safe' /\ page'.shown = page.shown
<1>1. PICK state \in {"connecting", "closed"} : Broken(state)
  BY DEF StreamBroken
<1>2. /\ Streaming /\ Counted /\ Reading /\ page \in PageState /\ server.news \in 0..MaxEvents
      /\ server' = server /\ fetches' = fetches /\ steady' = steady /\ page' \in {page, Paced(page)}
  BY <1>1, SafeTypes DEF Safe, Reading, StreamBroken, Broken
<1>3. Streaming' /\ Counted' /\ feed'.last = feed.last
  BY <1>1, <1>2, BrokenStreams
<1>4. /\ Reading' /\ page'.active = page.active /\ page'.offline = page.offline
      /\ page'.shown = page.shown /\ page'.since = page.since
  BY <1>2, PacedReads
<1>5. feed.last # None /\ Coming => Coming'
  BY <1>1, <1>2, BrokenBrings
<1>6. Fresh => Fresh'
  BY <1>2, <1>4 DEF Fresh, Current
<1>7. UnlessAsked'
  BY <1>2, <1>3, <1>4, <1>5, <1>6 DEF Safe, UnlessAsked
<1> QED BY <1>3, <1>4, <1>7 DEF Safe

\* What was heard is told: the page asks if it is on and watches that.
LEMMA FlushIsSafe ==
    ASSUME Sorts, Safe, Flush
    PROVE  Safe' /\ page'.shown = page.shown
<1>1. /\ Streaming /\ Counted /\ Reading /\ page \in PageState /\ server.news \in Nat
      /\ Flushed /\ server' = server /\ stream' = stream /\ steady' = steady
  BY ServerNumbers DEF Safe, Reading, Flush
<1>2. Streaming' /\ Counted' /\ feed'.last = feed.last
  BY <1>1, FlushStreams
<1>3. CASE Asked(page, fetches) /\ page.active
  BY <1>1, <1>2, <1>3, AskedIsSafe DEF Reading, Looping
<1>4. CASE page' = page /\ fetches' = fetches /\ (page.active => ~Pending)
  <2>1. Reading' /\ (Fresh => Fresh')
    BY <1>1, <1>4, QuietPage
  <2>2. page.active /\ Coming => Coming'
    BY <1>1, <1>4, FlushBrings
  <2>3. UnlessAsked'
    BY <1>1, <1>2, <1>4, <2>1, <2>2 DEF Safe, UnlessAsked
  <2> QED BY <1>2, <1>4, <2>1, <2>3 DEF Safe
<1>5. page.active => page.ready
  BY <1>1 DEF Reading, Looping
<1> QED BY <1>3, <1>4, <1>5 DEF Flush, Poll, Pending

LEMMA RestIsSafe ==
    ASSUME Sorts, Safe, Leave \/ Network \/ UNCHANGED vars
    PROVE  Safe' /\ page'.shown = page.shown
<1>1. UNCHANGED feedVars /\ Reading /\ server.news \in Nat
  BY ServerNumbers DEF Leave, Network, vars, Safe
<1>2. Streaming' /\ Counted' /\ (Coming <=> Coming') /\ server' = server /\ feed' = feed
  BY <1>1, QuietStream DEF feedVars
<1>3. CASE Leave
  <2>1. Reading' /\ ~page'.active /\ page'.shown = page.shown
    BY <1>1, <1>3, LeaveReads
  <2> QED BY <1>2, <2>1 DEF Safe, UnlessAsked
<1>4. CASE Network \/ UNCHANGED vars
  <2>1. page' = page /\ fetches' = fetches /\ steady' \in BOOLEAN
    BY <1>1, <1>4 DEF Network, vars, Reading
  <2>2. Current' = Current
    BY <2>1 DEF Current
  <2>3. Looping' /\ Forward' /\ (Fresh => Fresh')
    BY <1>1, <1>2, <2>1, <2>2 DEF Reading, Looping, Forward, Fresh
  <2>4. Reading'
    BY <1>1, <2>1, <2>3 DEF Reading
  <2>5. UnlessAsked'
    BY <1>2, <2>1, <2>3 DEF Safe, UnlessAsked
  <2> QED BY <1>2, <2>1, <2>4, <2>5 DEF Safe
<1> QED BY <1>3, <1>4

\* Every step keeps the invariant and shows no older picture.
LEMMA StepsAreSafe ==
    ASSUME Sorts, Safe, [Next]_vars
    PROVE  Safe' /\ (page.shown # None => page'.shown >= page.shown)
<1>1. page.shown # None => page.shown \in Nat
  BY PictureNumbers DEF Safe, Reading, PageState
<1>2. CASE ServerSteps
  BY <1>1, <1>2, ServerIsSafe
<1>3. CASE Serve \/ Receive \/ Lose
  BY <1>3, RequestsAreSafe
<1>4. CASE Tick \/ Woken \/ Open
  BY <1>1, <1>4, PollsAreSafe
<1>5. CASE HearEvent
  BY <1>1, <1>5, HearIsSafe
<1>6. CASE StreamBroken
  BY <1>1, <1>6, BreakIsSafe
<1>7. CASE Flush
  BY <1>1, <1>7, FlushIsSafe
<1>8. CASE Leave \/ Network \/ UNCHANGED vars
  BY <1>1, <1>8, RestIsSafe
<1> QED BY <1>2, <1>3, <1>4, <1>5, <1>6, <1>7, <1>8 DEF Next

-----------------------------------------------------------------------------
(* Theorems *)

\* The page, its requests and its stream are always well formed (displayState of app.js and
\* the variables of live-events.js).
THEOREM TypeCorrect ==
    ASSUME Sorts
    PROVE  Spec => []TypeOK
<1>1. Init => Safe
  BY InitIsSafe
<1>2. Safe /\ [Next]_vars => Safe'
  BY StepsAreSafe
<1>3. Safe => TypeOK
  BY SafeTypes
<1> QED BY <1>1, <1>2, <1>3, PTL DEF Spec

\* A screen that is on has one request or one timer, never a second loop, and one that is
\* left has neither (pollDisplay, scheduleDisplayPoll and stopDisplay).
THEOREM OneReadingLoop ==
    ASSUME Sorts
    PROVE  Spec => []OneLoop
<1>1. Init => Safe
  BY InitIsSafe
<1>2. Safe /\ [Next]_vars => Safe'
  BY StepsAreSafe
<1>3. Safe => OneLoop
  <2> SUFFICES ASSUME Safe PROVE OneLoop
    OBVIOUS
  <2>1. Looping
    BY DEF Safe, Reading
  <2>2. Current = {} \/ \E f : Current = {f}
    BY <2>1 DEF Looping
  <2>3. Cardinality(Current) = 0 \/ Cardinality(Current) = 1
    BY <2>2, FS_EmptySet, FS_Singleton
  <2>4. Cardinality(Current) <= 1
    BY <2>3
  <2> QED BY <2>1, <2>4 DEF OneLoop, Looping
<1> QED BY <1>1, <1>2, <1>3, PTL DEF Spec

\* A screen never takes an older picture for a newer one, in whatever order the answers come
\* and whoever wakes it (the controller that pollDisplay replaces).
THEOREM PicturesGoForward ==
    ASSUME Sorts
    PROVE  Spec => [][PictureStep]_vars
<1>1. Init => Safe
  BY InitIsSafe
<1>2. Safe /\ [Next]_vars => Safe'
  BY StepsAreSafe
<1>3. Safe /\ [Next]_vars => [PictureStep]_vars
  BY StepsAreSafe DEF PictureStep
<1> QED BY <1>1, <1>2, <1>3, PTL DEF Spec

\* When the stream is open and all of it is heard and told, the picture holds every change
\* made since the stream began, through breaks, refusals, restarts of the server and
\* requests that overlap (the hello, the gap and the coalesced notices of live-events.js).
THEOREM NoChangeIsMissed ==
    ASSUME Sorts
    PROVE  Spec => []NothingMissed
<1>1. Init => Safe
  BY InitIsSafe
<1>2. Safe /\ [Next]_vars => Safe'
  BY StepsAreSafe
<1>3. Safe => NothingMissed
  <2> SUFFICES ASSUME Safe, page.active, ~page.offline, Current = {}, feed.connected,
                      stream.sent = <<>>, feed.pending = {}
               PROVE  server.news \in {page.shown, page.since}
    BY DEF NothingMissed
  <2>1. feed.last # None
    BY DEF Safe, Counted
  <2>2. ~Coming
    BY DEF Coming, Pending, OnItsWay, InGap
  <2>3. page.since = server.news \/ Fresh
    BY <2>1, <2>2 DEF Safe, UnlessAsked
  <2> QED BY <2>3 DEF Fresh
<1> QED BY <1>1, <1>2, <1>3, PTL DEF Spec
=============================================================================
