---------------------------- MODULE TerminalLink ----------------------------
(***************************************************************************)
(* The 16x2 boxes and the server over MQTT: the network thread that knows  *)
(* the sessions and answers signs of life (terminal16_mqtt.py, receive),   *)
(* the inbox with its one worker (mqtt_transport.py), and the presses that *)
(* the worker carries out under the traffic lock (handle, and command in   *)
(* terminal16_runtime.py).                                                 *)
(*                                                                         *)
(* A box numbers its connections (boot).  It presses a key on the picture  *)
(* it shows, and the press carries that picture's token.  What a press     *)
(* does to the traffic is StationTraffic; here it is only counted.         *)
(***************************************************************************)
EXTENDS Naturals, Sequences, FiniteSets

CONSTANTS
    Devices,        \* the boxes
    MaxSessions,    \* MAX_SESSIONS
    QueueLimit,     \* the inbox has maxsize=2000
    Commands,       \* the keys the boxes may press
    Places,         \* Places[d]: the stations, with publication, day and generation, a box may have
    FirstPlace,     \* FirstPlace[d]: the one it has at first, or None
    MaxBoot,        \* bound: connections each box makes
    MaxLink,        \* bound: messages of a box on their way
    MaxView,        \* bound: pictures a box is given
    MaxRestarts,    \* bound
    MaxMoves,       \* bound: times a box is given or loses a place
    None

ASSUME LinkAssumption == /\ MaxSessions \in Nat \ {0} /\ QueueLimit \in Nat \ {0}
                         /\ Commands \subseteq Devices \X Nat
                         /\ MaxBoot \in [Devices -> Nat]
                         /\ MaxLink \in Nat /\ MaxView \in Nat /\ MaxRestarts \in Nat /\ MaxMoves \in Nat
                         /\ \A d \in Devices : None \notin Places[d] /\ FirstPlace[d] \in Places[d] \cup {None}
                         /\ None \notin Devices \cup Nat \cup Commands \cup {"accepted", "rejected"}

VARIABLES
    box,            \* box[d]: its connection, and the picture it shows in it
    pressed,        \* the keys pressed
    link,           \* link[d]: what the broker has of the box and the server has not acknowledged
    sessions,       \* _sessions: the connection the network thread knows, or None
    inbox,          \* _inbox: work in the order it came
    working,        \* the item the worker has decided to do, or None
    connections,    \* connections: whom the worker shows pictures, and the last of them
    view,           \* view[d]: the picture the box should show
    place,          \* place[d]: the scope and station of the box, or None without a station
    processed,      \* processed: the answers in memory
    receipts,       \* device_commands: the place a press took effect in, as its signature keeps it
    acted,          \* acted[c]: how often the press has taken effect
    acks,           \* acks[c]: the answers sent; "duplicate" counts as "accepted", a fault as none
    late,           \* the presses that waited in the inbox when their box had a new connection
    moved,          \* the presses whose box has had another place since the key was pressed
    moves, restarts

server == <<sessions, inbox, working, connections>>
answers == <<processed, receipts, acted, acks>>
traffic == <<view, answers>>
placement == <<place, moved, moves>>
vars == <<box, pressed, link, server, traffic, late, placement, restarts>>

Boots == UNION {0 .. MaxBoot[d] : d \in Devices}
Views == 0 .. MaxView
AllPlaces == UNION {Places[d] : d \in Devices}

Message == [leaf : {"hello", "presence"}, device : Devices, boot : Boots, command : {None}, token : {None}]
           \cup [leaf : {"command"}, device : Devices, boot : Boots, command : Commands, token : Views]
Item == [message : Message, newest : BOOLEAN]

TypeOK ==
    /\ box \in [Devices -> [boot : Boots, shows : Views \cup {None}]]
    /\ pressed \subseteq Commands
    /\ link \in [Devices -> Seq(Message)]
    /\ sessions \in [Devices -> Boots \cup {None}]
    /\ inbox \in Seq(Item) /\ Len(inbox) <= QueueLimit
    /\ working \in Message \cup {None}
    /\ connections \in [Devices -> {None} \cup [boot : Boots, frame : Views \cup {None}]]
    /\ view \in [Devices -> Views]
    /\ place \in [Devices -> AllPlaces \cup {None}]
    /\ processed \in [Commands -> {None, "accepted", "rejected"}]
    /\ receipts \in [Commands -> AllPlaces \cup {None}]
    /\ acted \in [Commands -> Nat]
    /\ acks \in [Commands -> SUBSET {"accepted", "rejected"}]
    /\ late \subseteq Commands /\ moved \subseteq Commands
    /\ moves \in 0 .. MaxMoves /\ restarts \in 0 .. MaxRestarts
    /\ Cardinality({d \in Devices : sessions[d] # None}) <= MaxSessions
    /\ Cardinality({d \in Devices : connections[d] # None}) <= MaxSessions

-----------------------------------------------------------------------------
(* The box *)

Send(d, leaf, boot, c, token) ==
    /\ Len(link[d]) < MaxLink
    /\ link' = [link EXCEPT ![d] = Append(@, [leaf |-> leaf, device |-> d, boot |-> boot,
                                            command |-> c, token |-> token])]

\* A new connection: at the start, when Wi-Fi comes back, and whenever its signs
\* of life have gone unanswered for fifteen seconds.
Connect(d) ==
    /\ box[d].boot < MaxBoot[d]
    /\ box' = [box EXCEPT ![d] = [boot |-> box[d].boot + 1, shows |-> None]]
    /\ Send(d, "hello", box[d].boot + 1, None, None)
    /\ UNCHANGED <<pressed, server, traffic, late, placement, restarts>>

\* A sign of life every five seconds.
Ping(d) ==
    /\ box[d].boot > 0
    /\ \A k \in DOMAIN link[d] : link[d][k].leaf # "presence"
    /\ Send(d, "presence", box[d].boot, None, None)
    /\ UNCHANGED <<box, pressed, server, traffic, late, placement, restarts>>

Press(d) ==
    /\ box[d].shows # None
    /\ \E c \in Commands :
        /\ c[1] = d /\ c \notin pressed
        /\ pressed' = pressed \cup {c}
        /\ Send(d, "command", box[d].boot, c, box[d].shows)
    /\ UNCHANGED <<box, server, traffic, late, placement, restarts>>

-----------------------------------------------------------------------------
(* The network thread *)

\* put_nowait: a full inbox throws the item away.
Enqueued(queue, item) == IF Len(queue) < QueueLimit THEN Append(queue, item) ELSE queue

\* session["presence"] names the last sign of life only.
Superseded(queue, d) ==
    [k \in DOMAIN queue |-> IF queue[k].message.device = d THEN [queue[k] EXCEPT !.newest = FALSE] ELSE queue[k]]

Known(s) == {d \in Devices : s[d] # None}

\* hello: room is made by forgetting boxes that have been silent; if there is
\* none the box is not answered.
ReceiveHello(m) ==
    \/ /\ sessions[m.device] # None \/ Cardinality(Known(sessions)) < MaxSessions
       /\ sessions' = [sessions EXCEPT ![m.device] = m.boot]
    \/ /\ sessions[m.device] = None /\ Cardinality(Known(sessions)) >= MaxSessions
       /\ \E silent \in (SUBSET Known(sessions)) \ {{}} :
            sessions' = [d \in Devices |-> IF d = m.device THEN m.boot
                                           ELSE IF d \in silent THEN None ELSE sessions[d]]

\* The presses of an earlier connection than boot that are in the inbox, and
\* neither done nor in the worker's hands.
Waiting(d, boot) ==
    {c \in Commands :
        /\ \E k \in DOMAIN inbox : inbox[k].message.command = c /\ inbox[k].message.boot # boot
        /\ c[1] = d /\ acted[c] = 0 /\ (working # None => working.command # c)}

\* receive, in the network thread.  The acknowledgement may be lost, and the
\* broker then sends the message again.  (A sign of life sent again is as good as
\* the next one.)
Receive(d, acknowledged) ==
    /\ link[d] # <<>>
    /\ IF acknowledged THEN link' = [link EXCEPT ![d] = Tail(@)]
       ELSE Head(link[d]).leaf # "presence" /\ UNCHANGED link
    /\ LET m == Head(link[d])
       IN  IF m.leaf = "hello"
           THEN \/ /\ ReceiveHello(m)
                   /\ inbox' = Enqueued(Superseded(inbox, d), [message |-> m, newest |-> FALSE])
                   /\ late' = late \cup Waiting(d, m.boot)
                \/ /\ sessions[d] = None /\ Cardinality(Known(sessions)) >= MaxSessions
                   /\ UNCHANGED <<sessions, inbox, late>>
           ELSE /\ IF sessions[d] = m.boot
                   THEN inbox' = IF m.leaf = "presence"
                                 THEN Enqueued(Superseded(inbox, d), [message |-> m, newest |-> TRUE])
                                 ELSE Enqueued(inbox, [message |-> m, newest |-> FALSE])
                   ELSE UNCHANGED inbox
                /\ UNCHANGED <<sessions, late>>
    /\ UNCHANGED <<box, pressed, working, connections, traffic, placement, restarts>>

-----------------------------------------------------------------------------
(* The worker *)

\* Mutant: the session is not looked at again.
CurrentWhoever(item) == item.message.leaf = "presence" => item.newest

\* handle, before the traffic lock: is the session still alive, and is this its
\* newest sign of life?
Current(item) ==
    /\ sessions[item.message.device] = item.message.boot
    /\ item.message.leaf = "presence" => item.newest

WorkTake ==
    /\ working = None /\ inbox # <<>>
    /\ working' = IF Current(Head(inbox)) THEN Head(inbox).message ELSE None
    /\ inbox' = Tail(inbox)
    /\ UNCHANGED <<box, pressed, link, sessions, connections, traffic, late, placement, restarts>>

Without(conns, silent) == [d \in Devices |-> IF d \in silent THEN None ELSE conns[d]]

\* Mutant: no limit.
AlwaysRoom(conns, d) == TRUE

HasRoom(conns, d) == conns[d] # None \/ Cardinality(Known(conns)) < MaxSessions

\* Mutant: the box is still answered.
StillKnown(m) == sessions

\* _forget: the box is no longer answered, and so connects again.
Forgotten(m) == [sessions EXCEPT ![m.device] = IF @ = m.boot THEN None ELSE @]

NewConnection(m) == [boot |-> m.boot, frame |-> None]

\* _frame for some of the connected boxes: a picture is sent when it is not the
\* last one sent, and a box takes it if it is for its present connection.
Paint(conns, painted, pictures) ==
    LET sentTo == {d \in painted : conns[d] # None /\ conns[d].frame # pictures[d]}
    IN  /\ connections' = [d \in Devices |-> IF d \in sentTo THEN [conns[d] EXCEPT !.frame = pictures[d]]
                                             ELSE conns[d]]
        /\ box' = [d \in Devices |-> IF d \in sentTo /\ conns[d].boot = box[d].boot
                                     THEN [box[d] EXCEPT !.shows = pictures[d]] ELSE box[d]]

\* hello, under the traffic lock.  The device registry may refuse the box.
WorkHello ==
    /\ working # None /\ working.leaf = "hello"
    /\ \E silent \in SUBSET Known(connections) :
         LET d == working.device
             kept == Without(connections, silent)
         IN  \/ /\ HasRoom(kept, d)
                /\ Paint([kept EXCEPT ![d] = NewConnection(working)], {d}, view)
                /\ UNCHANGED sessions
             \/ /\ connections' = kept
                /\ sessions' = Forgotten(working)
                /\ UNCHANGED box
    /\ working' = None
    /\ UNCHANGED <<pressed, link, inbox, traffic, late, placement, restarts>>

\* The worker may have lagged behind until the connection expired: the box is
\* let in again, or forgotten when it is full.
Resumed(m) ==
    [connections EXCEPT ![m.device] = IF @ # None /\ @.boot = m.boot THEN @ ELSE NewConnection(m)]

WorkRefused ==
    /\ working # None /\ working.leaf # "hello"
    /\ ~HasRoom(connections, working.device)
    /\ sessions' = Forgotten(working)
    /\ working' = None
    /\ UNCHANGED <<box, pressed, link, inbox, connections, traffic, late, placement, restarts>>

WorkPresence ==
    /\ working # None /\ working.leaf = "presence"
    /\ HasRoom(connections, working.device)
    /\ Paint(Resumed(working), {working.device}, view)
    /\ working' = None
    /\ UNCHANGED <<pressed, link, sessions, inbox, traffic, late, placement, restarts>>

\* Mutant: every press is looked at anew.
NeverAnswered(c, here) == None

\* What is known of a press without looking at it again: the receipt, whose
\* signature names the place it acted in (another place is a no), or the answer in
\* memory.
Answered(c, here) ==
    IF receipts[c] = None THEN processed[c]
    ELSE IF receipts[c] = here THEN "accepted" ELSE "rejected"

\* A new picture for d at least.
Pictured(d) ==
    \E changed \in SUBSET {e \in Devices : view[e] < MaxView} :
        /\ d \in changed
        /\ view' = [e \in Devices |-> IF e \in changed THEN view[e] + 1 ELSE view[e]]

\* The press is decided: the answer, what is remembered of it, and the pictures it
\* changes.  A box without a station is told no, whatever the press once did.  An
\* exception rolls everything back, the answer in memory too.
Decide(m, answer) ==
    LET d == m.device
        c == m.command
        Nothing == UNCHANGED <<view, processed, receipts, acted>>
    IN  \/ /\ place[d] = None
           /\ answer = "rejected" /\ Nothing
        \/ /\ place[d] # None /\ Answered(c, place[d]) # None
           /\ answer = Answered(c, place[d]) /\ Nothing
        \/ /\ place[d] # None /\ Answered(c, place[d]) = None
           /\ answer = "accepted" /\ m.token = view[d]
           /\ Pictured(d)
           /\ processed' = [processed EXCEPT ![c] = "accepted"]
           /\ receipts' = [receipts EXCEPT ![c] = place[d]]
           /\ acted' = [acted EXCEPT ![c] = @ + 1]
        \/ /\ place[d] # None /\ Answered(c, place[d]) = None
           /\ answer = "rejected"
           /\ processed' = [processed EXCEPT ![c] = "rejected"]
           /\ UNCHANGED <<view, receipts, acted>>
        \/ /\ place[d] # None /\ receipts[c] = None
           /\ answer = "fault" /\ Nothing

\* command, under the traffic lock, then the answer and the pictures of every box.
WorkCommand ==
    /\ working # None /\ working.leaf = "command"
    /\ HasRoom(connections, working.device)
    /\ \E answer \in {"accepted", "rejected", "fault"} :
        /\ Decide(working, answer)
        /\ acks' = [acks EXCEPT ![working.command] = @ \cup ({answer} \ {"fault"})]
    /\ \E silent \in SUBSET (Known(connections) \ {working.device}) :
         Paint(Without(Resumed(working), silent), Devices, view')
    /\ working' = None
    /\ UNCHANGED <<pressed, link, sessions, inbox, late, placement, restarts>>

-----------------------------------------------------------------------------
(* The rest of the server *)

\* tick, run by every change of the traffic, the clock or the assignments.
Tick ==
    /\ \E silent \in SUBSET Known(connections) : Paint(Without(connections, silent), Devices, view)
    /\ UNCHANGED <<pressed, link, sessions, inbox, working, traffic, late, placement, restarts>>

\* Something else changes what a box should show.
Elsewhere(d) ==
    /\ view[d] < MaxView
    /\ view' = [view EXCEPT ![d] = @ + 1]
    /\ UNCHANGED <<box, pressed, link, server, answers, late, placement, restarts>>

\* The administrator gives a box a station, another one or none.  Another station is
\* another token; a station that is taken away and given again may not be, for the
\* box's revision then starts anew.
Assign(d) ==
    /\ moves < MaxMoves /\ moves' = moves + 1
    /\ \E p \in (Places[d] \cup {None}) \ {place[d]} :
        /\ place' = [place EXCEPT ![d] = p]
        /\ \/ view[d] < MaxView /\ view' = [view EXCEPT ![d] = @ + 1]
           \/ (p = None \/ place[d] = None) /\ UNCHANGED view
    /\ moved' = moved \cup {c \in pressed : c[1] = d}
    /\ UNCHANGED <<box, pressed, link, server, answers, late, restarts>>

\* Another publication, day or generation: the views are made anew, with an epoch and
\* answers of their own, and the receipts are kept or deleted with the day's traffic.
NewScope ==
    /\ moves < MaxMoves /\ moves' = moves + 1
    /\ \A d \in Devices : view[d] < MaxView
    /\ place' \in {f \in [Devices -> AllPlaces \cup {None}] : \A d \in Devices :
                    IF place[d] = None THEN f[d] = None ELSE f[d] \in Places[d] \ {place[d]}}
    /\ view' = [d \in Devices |-> view[d] + 1]
    /\ processed' = [c \in Commands |-> None]
    /\ receipts' \in {receipts, [c \in Commands |-> None]}
    /\ moved' = moved \cup pressed
    /\ UNCHANGED <<box, pressed, link, server, acted, acks, late, restarts>>

\* A restart forgets what was in memory.  The broker keeps what it has of the
\* boxes, and the pictures get the tokens of a new epoch.
Restart ==
    /\ restarts < MaxRestarts /\ \A d \in Devices : view[d] < MaxView
    /\ restarts' = restarts + 1
    /\ sessions' = [d \in Devices |-> None]
    /\ inbox' = <<>> /\ working' = None
    /\ connections' = [d \in Devices |-> None]
    /\ view' = [d \in Devices |-> view[d] + 1]
    /\ processed' = [c \in Commands |-> None]
    /\ UNCHANGED <<box, pressed, link, receipts, acted, acks, late, placement>>

Init ==
    /\ box = [d \in Devices |-> [boot |-> 0, shows |-> None]]
    /\ pressed = {}
    /\ link = [d \in Devices |-> <<>>]
    /\ sessions = [d \in Devices |-> None]
    /\ inbox = <<>> /\ working = None
    /\ connections = [d \in Devices |-> None]
    /\ view = [d \in Devices |-> 0]
    /\ processed = [c \in Commands |-> None]
    /\ place = [d \in Devices |-> FirstPlace[d]]
    /\ receipts = [c \in Commands |-> None]
    /\ acted = [c \in Commands |-> 0]
    /\ acks = [c \in Commands |-> {}]
    /\ late = {} /\ moved = {}
    /\ moves = 0 /\ restarts = 0

Worker == WorkTake \/ WorkHello \/ WorkRefused \/ WorkPresence \/ WorkCommand

Next ==
    \/ \E d \in Devices : Connect(d) \/ Ping(d) \/ Press(d) \/ Elsewhere(d) \/ Assign(d)
    \/ \E d \in Devices, acknowledged \in BOOLEAN : Receive(d, acknowledged)
    \/ Worker \/ Tick \/ NewScope \/ Restart

Spec == Init /\ [][Next]_vars

\* A connected box keeps sending signs of life, the network thread keeps reading
\* and its acknowledgements arrive in the end, and the worker keeps working.
FairSpec ==
    /\ Spec
    /\ WF_vars(Worker)
    /\ \A d \in Devices : WF_vars(Ping(d)) /\ WF_vars(Receive(d, TRUE))

-----------------------------------------------------------------------------
(* Properties *)

\* A press takes effect at most once, whatever is sent again and whenever the server
\* restarts or changes day, and what the box is told of it is so: one answered yes,
\* or already dealt with, has taken effect, and one refused has not and never does,
\* unless its box has had another station, publication, day or generation since the
\* key was pressed.  ("Serverfel", a fault, is no refusal: sent again, the press is
\* looked at again.)
AnswersAreTrue ==
    \A c \in Commands :
        /\ acted[c] <= 1
        /\ "accepted" \in acks[c] => acted[c] = 1
        /\ "rejected" \in acks[c] => acted[c] = 0 \/ c \in moved

\* A press that was still waiting in the inbox when its box had a new connection
\* is never carried out: the box has given up and shows that nothing happened.
QueuedWorkOfEndedSessionsIsSkipped == \A c \in late : acted[c] = 0

\* The worker catches up now and then, and the inbox is full for a time only.
WorkerKeepsUp == []<>(inbox = <<>> /\ working = None) /\ <>[](Len(inbox) < QueueLimit)

\* A box whose signs of life are answered, and which therefore does not connect
\* again, is given a picture although its hello was thrown away, its connection
\* expired or the server is full, when the worker keeps up with the inbox.
AnsweredBoxesGetPictures ==
    WorkerKeepsUp =>
        \A d \in Devices :
            box[d].boot > 0 /\ sessions[d] = box[d].boot
                ~> box[d].shows # None \/ sessions[d] # box[d].boot
=============================================================================
